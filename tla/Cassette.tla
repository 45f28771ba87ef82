------------------------------ MODULE Cassette ------------------------------
(***************************************************************************)
(* How a recorded run is ordered, exported, validated and bundled:         *)
(* tracewake/events.py, cassette.py and bundle.py.                         *)
(*                                                                         *)
(* An event keeps what the code distinguishes: its type, the ids that      *)
(* place it, a body, the derived hash stored beside the body, the blobs it *)
(* refers to, the metadata that no digest covers, the length of its line   *)
(* and whether a text in it holds a line separator.  A hash is its         *)
(* argument, so equal hashes mean equal contents; the bytes of a blob are  *)
(* a record of their digest and their length.                              *)
(***************************************************************************)
EXTENDS Integers, Sequences, FiniteSets, SequencesExt, FiniteSetsExt

CONSTANTS
    FormatVersion,  \* CASSETTE_FORMAT_VERSION and BUNDLE_FORMAT_VERSION
    SchemaVersion,  \* EVENT_SCHEMA_VERSION
    MaxBundleEvents, \* MAX_EVENTS
    MaxBlobSize,    \* MAX_BLOB_BYTES
    MaxEventBytes,  \* MAX_EVENT_BYTES
    MaxEntries,     \* MAX_ENTRIES
    MaxBundleBytes  \* MAX_BUNDLE_BYTES

-----------------------------------------------------------------------------
\* events.py: a batch of tools is numbered by completion, so a run is ordered
\* by its calls and by the batch positions of their tools instead.

SeqOfCall(events) ==
    [c \in {e.event.call : e \in {x \in Range(events) : x.event.type = "model"}} |->
        Max({e.seq : e \in {x \in Range(events) : x.event.type = "model" /\ x.event.call = c}})]

\* Fault: what a tool did while it ran is not placed with its tool.
BatchOfToolNone(events) == [t \in {} |-> 0]

\* Keyed by the id of the tool call alone, the last event of the list winning.
BatchOfTool(events) ==
    LET tools == {k \in DOMAIN events : events[k].event.type = "tool"}
    IN [t \in {events[k].event.tool : k \in tools} |->
            events[Max({k \in tools : events[k].event.tool = t})].event.batch]

OrderKey(e, calls, batches) ==
    LET ev == e.event
        group == IF ev.parent \in DOMAIN calls THEN calls[ev.parent] ELSE e.seq
        batch == IF ev.tool \in DOMAIN batches THEN batches[ev.tool] ELSE -1
    IN CASE ev.type = "model" -> <<e.seq, 0, 0, 0, 0>>
         [] ev.type = "tool" -> <<group, 1, ev.batch, 1, e.seq>>
         [] OTHER -> <<group, 1, batch, 0, e.seq>>

KeyLess(a, b) == \E i \in DOMAIN a : a[i] < b[i] /\ \A j \in 1 .. i - 1 : a[j] = b[j]

CanonicalOrder(events) ==
    LET calls == SeqOfCall(events)
        batches == BatchOfTool(events)
    IN SortSeq(events, LAMBDA a, b : KeyLess(OrderKey(a, calls, batches), OrderKey(b, calls, batches)))

\* run_digest: the events in that order, without sequence numbers and metadata.
CanonicalBytes(event) == [event EXCEPT !.meta = 0]
RunDigest(events) ==
    LET order == CanonicalOrder(events)
    IN [k \in DOMAIN order |-> CanonicalBytes(order[k].event)]

-----------------------------------------------------------------------------
\* cassette.py

Digests(events) == UNION {{r.digest : r \in e.event.refs} : e \in Range(events)}
Sizes(events, d) ==
    UNION {{r.size : r \in {x \in e.event.refs : x.digest = d}} : e \in Range(events)}

HashesAgree(events) ==
    \A e \in Range(events) : e.event.type \in {"model", "tool"} => e.event.hash = e.event.body

SequenceRuns(events) == \A k \in DOMAIN events : events[k].seq = k - 1

\* A blob file holds what its name and every reference to it say.
BlobHolds(events, d, data) == data.digest = d /\ Sizes(events, d) = {data.size}

\* The entries of a directory are exactly the cassette and the referenced
\* blobs; a cassette given as a file answers only for its blob directory.
EntriesMatch(c, strict) ==
    /\ DOMAIN c.blobs = Digests(c.events)
    /\ c.extra = "none" \/ (c.extra = "beside" /\ ~strict)

ValidCassette(c, strict) ==
    /\ c.format = FormatVersion
    /\ c.schema = SchemaVersion
    /\ SequenceRuns(c.events)
    /\ Len(c.events) = c.count
    /\ HashesAgree(c.events)
    /\ RunDigest(c.events) = c.digest
    /\ EntriesMatch(c, strict)
    /\ \A d \in DOMAIN c.blobs : BlobHolds(c.events, d, c.blobs[d])

\* _checked_store_blobs: the store is checked before anything is written.
StoreHolds(events, blobs) ==
    \A d \in Digests(events) : d \in DOMAIN blobs /\ BlobHolds(events, d, blobs[d])

\* export_cassette: what is published, or what was there before.
Exported(events) ==
    [format |-> FormatVersion, schema |-> SchemaVersion, count |-> Len(events),
     digest |-> RunDigest(events), events |-> events]
ExportCassette(events, blobs, before) ==
    IF ~StoreHolds(events, blobs) THEN before
    ELSE [extra |-> "none", blobs |-> [d \in Digests(events) |-> blobs[d]]] @@ Exported(events)

-----------------------------------------------------------------------------
\* bundle.py: a bundle is its manifest, its event lines and its blobs.  The
\* canonical archive bytes fix names, order and metadata of the entries, so an
\* archive is the set of its entries.

\* str.splitlines ends a line at any separator, also one inside a text.
SplitLines(events) ==
    FoldLeft(LAMBDA lines, e : IF e.event.breaks THEN lines \o <<"part", "part">> ELSE Append(lines, "line"),
             <<>>, events)

\* The length of the event lines, and of the archive: every entry has a header,
\* and the manifest has a line for the run and one for every blob.
EventBytes(events) == FoldLeft(LAMBDA n, e : n + e.event.length, 0, events)
Entries(blobs) == Cardinality(DOMAIN blobs) + 2
ArchiveBytes(events, blobs) ==
    Entries(blobs) + EventBytes(events) + (1 + Cardinality(DOMAIN blobs))
    + MapThenSumSet(LAMBDA d : blobs[d].size, DOMAIN blobs)

\* The limits that building and reading share.
WithinLimits(events, blobs) ==
    /\ EventBytes(events) <= MaxEventBytes
    /\ Len(events) <= MaxBundleEvents
    /\ \A d \in DOMAIN blobs : blobs[d].size <= MaxBlobSize
    /\ Entries(blobs) <= MaxEntries
    /\ ArchiveBytes(events, blobs) <= MaxBundleBytes

Manifest(c) ==
    [format |-> FormatVersion, cassette |-> c.format, schema |-> c.schema, count |-> Len(c.events),
     digest |-> c.digest, lines |-> c.events,
     blobs |-> {[digest |-> d, size |-> c.blobs[d].size] : d \in DOMAIN c.blobs}]

BuildBundle(c) ==
    IF ValidCassette(c, TRUE) /\ WithinLimits(c.events, c.blobs)
    THEN {[manifest |-> Manifest(c), events |-> c.events, blobs |-> c.blobs]}
    ELSE {}

\* _parse_events: one line per event, each numbered by its place.
EventsParse(b) ==
    /\ Len(SplitLines(b.events)) = b.manifest.count
    /\ \A k \in DOMAIN b.events : ~b.events[k].event.breaks
    /\ SequenceRuns(b.events)

\* The declared blobs are the referenced ones and the stored ones.
DeclaredMatch(b) ==
    LET declared == {x.digest : x \in b.manifest.blobs}
    IN /\ Cardinality(declared) = Cardinality(b.manifest.blobs)
       /\ declared = Digests(b.events)
       /\ declared = DOMAIN b.blobs
       /\ \A x \in b.manifest.blobs :
              /\ x.size <= MaxBlobSize
              /\ b.blobs[x.digest].size = x.size
              /\ BlobHolds(b.events, x.digest, b.blobs[x.digest])

ValidBundle(b) ==
    /\ b.manifest.format = FormatVersion
    /\ b.manifest.cassette = FormatVersion
    /\ b.manifest.schema = SchemaVersion
    /\ b.manifest.count <= MaxBundleEvents
    /\ WithinLimits(b.events, b.blobs)
    /\ b.manifest.lines = b.events
    /\ EventsParse(b)
    /\ RunDigest(b.events) = b.manifest.digest
    /\ DeclaredMatch(b)
=============================================================================
