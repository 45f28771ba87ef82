----------------------------- MODULE MCArtifacts -----------------------------
(***************************************************************************)
(* What a recording is turned into, on every input of a bounded set: the   *)
(* order of its events, the cassette and the bundle made of it.            *)
(***************************************************************************)
EXTENDS MCAnalysis, Cassette, Capture, RecordCommand, Exports

MCPlaceholder == <<"[", "R", "]">>
MCHomePlaceholder == <<"<", "H", ">">>

-----------------------------------------------------------------------------
\* A call with two parallel tools, each of which reads something before it
\* returns, and a second call; the batch positions are not in the order of ids.
Event(type, call, parent, tool, batch, body, refs) ==
    [type |-> type, call |-> call, parent |-> parent, tool |-> tool, batch |-> batch,
     body |-> body, hash |-> body, refs |-> refs, meta |-> 1,
     length |-> 1, breaks |-> FALSE]
Bytes(d) == [digest |-> d, size |-> 1]
First == Event("model", "c1", "none", "none", 0, "x", {})
Second == Event("model", "c2", "none", "none", 0, "x", {})
Outcome == Event("outcome", "none", "none", "none", 0, "ok", {})
Read(t) == Event("read", "none", "c1", t, 0, "x", {Bytes("d1")})
Returns(t, batch) == Event("tool", "none", "c1", t, batch, "y", {Bytes("d2")})
Left(b) == <<Read("t1"), Returns("t1", b)>>
Right(b) == <<Read("t2"), Read("t2"), Returns("t2", b)>>

\* The ways to interleave two sequences.
Interleaved(s, t) ==
    {r \in [1 .. Len(s) + Len(t) -> Range(s) \cup Range(t)] :
        /\ SelectSeq(r, LAMBDA e : e \in Range(s)) = s
        /\ SelectSeq(r, LAMBDA e : e \in Range(t)) = t}
Numbered(events) == [k \in DOMAIN events |-> [seq |-> k - 1, event |-> events[k]]]
RunOf(tools) == Numbered(<<First>> \o tools \o <<Second, Outcome>>)

Orders == {RunOf(r) : r \in Interleaved(Left(0), Right(1)) \cup Interleaved(Left(1), Right(0))}
InBatchOrder(b) == IF b = 0 THEN RunOf(Left(0) \o Right(1)) ELSE RunOf(Right(0) \o Left(1))
LeftBatch(events) ==
    (CHOOSE e \in Range(events) : e.event.type = "tool" /\ e.event.tool = "t1").event.batch

\* However the tools of a batch interleave, the run has one digest: the one of
\* the run that took them one after the other in batch order (run_digest).
DigestIgnoresScheduling ==
    Of("order") => RunDigest(input.events) = RunDigest(InBatchOrder(LeftBatch(input.events)))

-----------------------------------------------------------------------------
\* An export and one change to it, with what a careful editor would fix up.
Store == [d \in {"d1", "d2"} |-> Bytes(d)]
Twice(t) == Event("read", "none", "c1", t, 0, "y", {})
Recorded == RunOf(<<Read("t1"), Read("t2"), Twice("t1"), Returns("t2", 1), Returns("t1", 0)>>)
Nothing == [format |-> 0]
Genuine == ExportCassette(Recorded, Store, Nothing)

Renumbered(events) == [k \in DOMAIN events |-> [events[k] EXCEPT !.seq = k - 1]]
Places == DOMAIN Recorded
Lines ==
    {RemoveAt(Recorded, k) : k \in Places}
    \cup {InsertAt(Recorded, k, Recorded[l]) : k \in Places, l \in Places}
    \cup {[Recorded EXCEPT ![k] = Recorded[l], ![l] = Recorded[k]] : k \in Places, l \in Places}
    \cup {[Recorded EXCEPT ![k].event.body = "z"] : k \in Places}
    \cup {[Recorded EXCEPT ![k].event.body = "z", ![k].event.hash = "z"] : k \in Places}
    \cup {[Recorded EXCEPT ![k].event.meta = 2] : k \in Places}
    \cup {[Recorded EXCEPT ![k].event.batch = 1 - @] : k \in Places}
    \cup {[Recorded EXCEPT ![k].event.tool = "t1"] : k \in Places}
    \cup {[Recorded EXCEPT ![k].event.refs = {[digest |-> "d2", size |-> 2]}] : k \in Places}
EditedLines == Lines \cup {Renumbered(l) : l \in Lines}
EditedBlobs ==
    [{"d1"} -> {Bytes("d1")}] \cup [{"d1", "d2", "d3"} -> {Bytes("d1")}]
    \cup [{"d1", "d2"} -> {Bytes("d1"), Bytes("d2"), [digest |-> "d3", size |-> 1], [digest |-> "d2", size |-> 2]}]
Edited ==
    {[Genuine EXCEPT !.events = l] : l \in EditedLines}
    \cup {[Genuine EXCEPT !.events = l, !.count = Len(l)] : l \in EditedLines}
    \cup {[Genuine EXCEPT !.blobs = b] : b \in EditedBlobs}
    \cup {[Genuine EXCEPT !.events = Renumbered(RemoveAt(Recorded, 2)), !.count = @ - 1, !.blobs = b] : b \in EditedBlobs}
    \cup {[Genuine EXCEPT !.format = f, !.schema = s, !.extra = x] :
              f \in {FormatVersion, FormatVersion + 1}, s \in {SchemaVersion, SchemaVersion + 1},
              x \in {"none", "beside", "blobs"}}

\* What the calls, or the reads or the result of one tool say, in their order
\* and without metadata.
Story(events, tool, type) ==
    LET own == SelectSeq(events, LAMBDA e : e.event.tool = tool /\ e.event.type = type)
    IN [k \in DOMAIN own |-> CanonicalBytes(own[k].event)]

\* A cassette that is accepted under the digest of a recording tells the same
\* calls, the same reads of every tool and the same results, each in its order,
\* and holds the same blobs, whatever was edited.  Only the order in which
\* different tools got on is not fixed (_validate_cassette).
AcceptedIsGenuine ==
    Of("cassette") =>
        \A strict \in BOOLEAN :
            ValidCassette(input.cassette, strict) =>
                /\ Len(input.cassette.events) = Len(Recorded)
                /\ \A t \in {"none", "t1", "t2"}, k \in {"model", "read", "tool", "outcome"} :
                       Story(input.cassette.events, t, k) = Story(Recorded, t, k)
                /\ input.cassette.blobs = Genuine.blobs

\* The same change made to a bundle, behind the manifest of the genuine one: a
\* bundle is accepted only with every byte of its events, metadata and order of
\* arrival included (validate_bundle).
AcceptedBundleIsExact ==
    Of("cassette") =>
        LET c == input.cassette
        IN ValidBundle([manifest |-> Manifest(Genuine), events |-> c.events, blobs |-> c.blobs])
               => c.events = Recorded /\ c.blobs = Genuine.blobs

\* Recordings and stores, some with a missing or damaged blob; lines, blobs and
\* entries up to every limit of a bundle and one beyond, and texts with a line
\* separator.
Long(events, n) == [events EXCEPT ![Len(events)].event.length = n]
Broken(events, k) == [events EXCEPT ![k].event.breaks = TRUE]
Plainly == {RunOf(r) : r \in Interleaved(Left(0), Right(1))}
Three == RunOf(<<Event("tool", "none", "c1", "t1", 0, "y", {Bytes("d1"), Bytes("d2"), Bytes("d3")})>>)
Recordings == {Long(r, n) : r \in Plainly, n \in 1 .. 3}
              \cup {Broken(r, k) : r \in Plainly, k \in {1, 8}} \cup {<<>>, Three}
Big(events, size) ==
    [k \in DOMAIN events |-> [events[k] EXCEPT !.event.refs = {[r EXCEPT !.size = size] : r \in @}]]
Stores(size) ==
    {[d \in {"d1", "d2", "d3"} |-> [digest |-> d, size |-> size]], [d \in {"d1"} |-> [digest |-> d, size |-> size]],
     [d \in {"d1", "d2", "d3"} |-> [digest |-> "d1", size |-> size]]}
Exports == UNION {{[events |-> Big(r, s), blobs |-> b] : r \in Recordings, b \in Stores(s)} : s \in {1, MaxBlobSize, MaxBlobSize + 1}}

\* What is exported from a sound store is accepted again, as a directory and as
\* a file, and within the limits it becomes a bundle; a damaged store leaves the
\* destination as it was.  The bundle is accepted too, except when a text of the
\* run holds a character such as U+2028 at which splitlines ends a line: it is
\* built and never accepted (export_cassette, build_bundle, validate_bundle).
ExportsAreAccepted ==
    Of("export") =>
        LET c == ExportCassette(input.events, input.blobs, Nothing)
            sound == \A d \in Digests(input.events) : d \in DOMAIN input.blobs /\ input.blobs[d].digest = d
        IN IF ~sound THEN c = Nothing
           ELSE /\ \A strict \in BOOLEAN : ValidCassette(c, strict)
                /\ \A b \in BuildBundle(c) :
                       /\ RunDigest(b.events) = RunDigest(input.events)
                       /\ ValidBundle(b) <=> \A e \in Range(input.events) : ~e.event.breaks
                /\ WithinLimits(input.events, c.blobs) => BuildBundle(c) # {}

\* A recording keeps its meaning on every way out of the store and into another:
\* what is exported is accepted, what is accepted is what was recorded, and the
\* digest fixes everything but the scheduling of parallel tools (events.py,
\* cassette.py, bundle.py).
ArtifactsAreGenuine ==
    /\ DigestIgnoresScheduling
    /\ AcceptedIsGenuine
    /\ AcceptedBundleIsExact
    /\ ExportsAreAccepted

-----------------------------------------------------------------------------
\* Texts of up to five characters, some of them the home directory, texts in
\* which placeholders stand, and credentials that overlap, contain each other,
\* are too short to be one, or meet a placeholder: lie in it or share its end.
Home == <<"h", "a">>
Texts(n) == UNION {[1 .. k -> {"a", "b", "h"}] : k \in 0 .. n}
SecretSets == {{<<"a", "b">>}, {<<"a", "b">>, <<"a", "b", "a">>}, {<<"a", "b">>, <<"b", "a">>, <<"a">>},
               {<<"b", "b">>, <<"b", "b", "b">>, <<"R">>}, {<<"a", "h", "a">>, <<"h", "h">>}}
MeetingSets == {{<<"R", "]">>}, {<<"a", "b">>, <<"R", "]">>}, {<<"a", "b">>, <<"]", "a">>},
                {<<"b", "<", "H">>, <<"a", "b">>}}
Redactors == [enabled : {TRUE}, secrets : SecretSets, home : {<<>>, Home}]
MeetingRedactors == [enabled : {TRUE}, secrets : MeetingSets, home : {<<>>, Home}]
Pieces == {<<"a">>, <<"b">>, Home, MCPlaceholder, MCHomePlaceholder}
PiecedCalls ==
    UNION {{[text |-> FlattenSeq(p), chunks |-> c] : c \in {<<>>, p}} :
           p \in UNION {[1 .. n -> Pieces] : n \in 0 .. 3}}
Splits(t) == {<<>>, <<t>>} \cup {<<SubSeq(t, 1, k), SubSeq(t, k + 1, Len(t))>> : k \in 0 .. Len(t)}
Calls(n) == UNION {{[text |-> t, chunks |-> c] : c \in Splits(t)} : t \in Texts(n)}
Secrets(r) == {s \in r.secrets : Len(s) >= MinSecret}

\* Two texts meet when they can overlap in a longer one.
Meets(s, p) ==
    \E o \in 1 - Len(s) .. Len(p) - 1 :
        \A k \in DOMAIN s : k + o \in DOMAIN p => s[k] = p[k + o]
Separate(r) ==
    \A s \in Secrets(r) : ~Meets(s, Placeholder) /\ ~Meets(s, HomePlaceholder)

\* No credential reaches the store, in the text of an answer, in a chunk of it
\* or spread over its chunks (Redactor.event, _stream_reassembles), unless one of
\* them meets a placeholder: the placeholder put in for another may then spell it.
NoSecretIsStored ==
    Of("text") /\ Separate(input.redactor) =>
        \A stored \in RedactEvent(input.redactor, input.call), s \in Secrets(input.redactor) :
            /\ ~Within(stored.text, s)
            /\ ~Within(Assembled(stored.chunks), s)
            /\ \A k \in DOMAIN stored.chunks : ~Within(stored.chunks[k], s)

\* Between other text a credential goes whole, however it contains others, if
\* none of them meets a placeholder.
SecretsGoWhole ==
    Of("text") /\ Separate(input.redactor) =>
        \A s \in Secrets(input.redactor) :
            RedactText(input.redactor, <<"x">> \o s \o <<"x">>) = <<"x">> \o Placeholder \o <<"x">>

\* What is stored is left alone by a second pass, so recording and replay hash
\* the same form, if no credential meets a placeholder; one that lies in the
\* placeholder, as REDACTED does, is put into it again by every pass.  A text
\* without credentials comes back from restore_path as it was, unless it already
\* had the placeholder of the home directory in it.
RedactionIsStable ==
    Of("text") =>
        LET r == input.redactor
            once == RedactText(r, input.call.text)
        IN /\ Separate(r) => RedactText(r, once) = once
           /\ \A s \in Secrets(r) :
                  Within(Placeholder, s) => RedactText(r, RedactText(r, s)) # RedactText(r, s)
           /\ /\ Separate(r) /\ ~Within(input.call.text, HomePlaceholder)
              /\ \A s \in Secrets(r) : ~Within(input.call.text, s)
              => RestorePath(r, once) = input.call.text

\* Credentials stay out of the log, whole, in every chunk and across chunks, and
\* redaction is a form that recording and replay share, for credentials that
\* cannot overlap a placeholder (redaction.py).
SecretsStayOut == NoSecretIsStored /\ SecretsGoWhole /\ RedactionIsStable

\* Blocks that open, fail to open and close, over attributes of both kinds.
Attributes == <<<<"time", "set">>, <<"inst", "shadow">>, <<"seed", "set">>>>
PatchOps == {[kind |-> "close", upto |-> 0]} \cup {[kind |-> "open", upto |-> n] : n \in 0 .. Len(Attributes)}

\* After any nesting of sessions, failed ones included, an attribute has the
\* function of the innermost open session, and none is left when all are closed;
\* one that is shadowed on an instance may have lost it to an inner session.
PatchesUnwind ==
    Of("patch") =>
        LET end == PatchRun(Attributes, input.ops)
            now == Len(end.open)
        IN \A t \in Range(Attributes) :
               end.live[t[1]] \in IF t[2] = "set" THEN {now} ELSE {0, now}

\* Call chains that end in an intercepted function.
Frames == {[code |-> "agent", patched |-> FALSE], [code |-> "stdlib", patched |-> FALSE],
           [code |-> "forwarder", patched |-> FALSE], [code |-> "forwarder", patched |-> TRUE]}
Chains == {Append(c, [code |-> "forwarder", patched |-> TRUE]) : c \in UNION {[1 .. n -> Frames] : n \in 0 .. 4}}

\* A value is recorded at most once however many intercepted functions it
\* passes through; it is recorded when the program asks for it through layers
\* that only forward, and not when the standard library asks on its own.
ReadsAreRecordedOnce ==
    Of("chain") =>
        LET chain == input.chain
            reads == RecordedReads(chain)
            agents == {k \in DOMAIN chain : chain[k].code = "agent"}
        IN /\ Cardinality(reads) <= 1
           /\ agents = {} => reads = {}
           /\ agents # {} /\ (\A k \in Max(agents) + 1 .. Len(chain) : chain[k].code = "forwarder")
                  => Cardinality(reads) = 1

\* The interception of the standard library records a value once, for the
\* program only, and leaves nothing behind (patches.py).
InterceptionIsExact == PatchesUnwind /\ ReadsAreRecordedOnce

-----------------------------------------------------------------------------
\* Commands over an empty store, or one with an earlier run of that name in any
\* state; a child that is killed after any of its steps, and another Python
\* process beside it once it has announced itself.
Modes == {<<"record", "all">>, <<"record", "once">>, <<"record", "new_episodes">>, <<"record", "none">>,
          <<"replay", "none">>, <<"intervene", "fork">>}
Earlier == {[r \in {} |-> "ok"]} \cup [{"old"} -> {"ok", "error", "running"}]
Schedules ==
    {<<>>, <<"child">>}
    \cup {<<"child", "child">> \o s :
              s \in {r \in UNION {[1 .. n -> {"child", "helper"}] : n \in 0 .. 6} :
                        /\ Cardinality({k \in DOMAIN r : r[k] = "child"}) <= 2
                        /\ Cardinality({k \in DOMAIN r : r[k] = "helper"}) <= 4}}
Commands ==
    {[command |-> m[1], mode |-> m[2], rows |-> r, schedule |-> s, code |-> c] :
        m \in Modes, r \in Earlier, s \in Schedules, c \in {0, 1}}

\* Once a child has announced its run, the command leaves the row it recorded
\* finished wherever the child was killed, and with the verdict of the exit code
\* unless it was killed between closing the session and reporting, if the program
\* started no Python process of its own.  A finished run to which a killed child
\* was adding episodes keeps its old verdict.
CommandSettlesItsRow ==
    Of("command") =>
        LET end == Command(input.command, input.mode, input.rows, input.schedule, input.code)
            child == end.started
        IN end.id # "none" /\ child.records /\ "helper" \notin Range(input.schedule)
               => /\ end.id = child.row
                  /\ end.rows[end.id] # "running"
                  /\ child.done = 4 \/ (child.row = "child" /\ child.done = 2)
                         => end.rows[end.id] = Verdict(input.code)

\* A finished recording is not rewritten by a replay of it, whoever is killed
\* when and whatever processes the program starts.
ReplaysLeaveRecordings ==
    Of("command") =>
        LET end == Command(input.command, input.mode, input.rows, input.schedule, input.code)
        IN input.mode # "new_episodes" /\ "old" \in DOMAIN input.rows /\ input.rows["old"] # "running"
               => end.rows["old"] = input.rows["old"]

\* The command and the processes under it leave the rows they recorded settled
\* and the others alone (cli.py and the bootstrap in __init__.py).
CommandKeepsVerdicts == CommandSettlesItsRow /\ ReplaysLeaveRecordings

-----------------------------------------------------------------------------
\* Runs of one or two calls with tagged and untagged messages of any share.
Prompts == {<<>>} \cup UNION {[1 .. n -> [length : {0, 1, 3}, tag : {"", "a"}]] : n \in 1 .. 2}
           \cup [1 .. 3 -> [length : {0, 1, 3}, tag : {"a"}]]
           \cup {<<[length |-> 1, tag |-> "response"], [length |-> 1, tag |-> ""]>>}
CallOf(m, i, o) == [model |-> "m", messages |-> m, in |-> i, out |-> o]
TokenRuns ==
    {<<CallOf(m, i, o)>> : m \in Prompts, i \in {0, 1, 5, 200}, o \in {0, 300}}
    \cup {<<CallOf(m, 1, 0), CallOf(n, i, 1)>> :
              m \in [1 .. 1 -> [length : {0, 1}, tag : {"", "a"}]], n \in [1 .. 2 -> [length : {0, 1}, tag : {"", "a"}]],
              i \in {0, 3}}

\* Every measured token is attributed, none twice: the shares of every call, the
\* totals by leaf and the recorded usage agree, and no message is off its exact
\* share by a token or more (attribute_tokens, _spend).
TokensAreConserved ==
    Of("tokens") =>
        LET calls == input.calls
            shares == AttributeTokens(calls)
            spend == Spend(calls)
            part(c) == Proportional(c.in, [k \in DOMAIN c.messages |-> c.messages[k].length])
        IN /\ \A t \in DOMAIN calls :
                  LET own == {s \in Range(shares) : s.turn = t}
                  IN /\ MapThenSumSet(LAMBDA s : s.in, own) = calls[t].in
                     /\ MapThenSumSet(LAMBDA s : s.out, own) = calls[t].out
           /\ <<MapThenSumSet(LAMBDA l : spend[l][1], DOMAIN spend),
                MapThenSumSet(LAMBDA l : spend[l][2], DOMAIN spend)>> = UsageTotals(calls)
           /\ \A c \in Range(calls) : \A k \in DOMAIN c.messages :
                  LET mass == Total([j \in DOMAIN c.messages |-> c.messages[j].length])
                      off == part(c)[k] * mass - c.in * c.messages[k].length
                  IN mass # 0 => -mass < off /\ off < mass

\* Names as bytes, one of them long enough that its length takes two.
NameOf[x \in {"turn", "a", "untagged", "response", "run", "m", "count", "in", "out", "comment"} \X (0 .. 2)] ==
    CASE x[1] = "turn" -> <<5, x[2]>>
      [] x[1] = "a" -> [k \in 1 .. 130 |-> 7]
      [] x[1] = "untagged" -> <<8>> [] x[1] = "response" -> <<9>> [] x[1] = "run" -> <<200>>
      [] x[1] = "m" -> <<10>> [] x[1] = "count" -> <<11>> [] x[1] = "in" -> <<12>>
      [] x[1] = "out" -> <<13>> [] OTHER -> <<14>>

\* The profile decodes to exactly the shares it was made of: every stack from
\* leaf to run and both values (build_token_profile, decode_profile).
ProfileRoundTrips ==
    Of("tokens") =>
        LET shares == AttributeTokens(input.calls)
        IN DecodeProfile(BuildProfile(input.calls, NameOf)) =
               [k \in DOMAIN shares |->
                   [stack |-> <<NameOf[<<shares[k].leaf, 0>>], NameOf[<<"turn", shares[k].turn>>],
                                NameOf[<<shares[k].model, 0>>], NameOf[<<"run", 0>>]>>,
                    values |-> <<shares[k].in, shares[k].out>>]]

\* Logs in which two calls use the same tool ids, with tools in any order and
\* with results that a later session recorded again under the same call.
SpanEvents ==
    {[type |-> "model", call |-> c, parent |-> "none", tool |-> "none", at |-> 2, took |-> 1] : c \in {"c1", "c2"}}
    \cup {[type |-> "tool", call |-> "none", parent |-> c, tool |-> t, at |-> 3, took |-> 2] :
              c \in {"c1", "c2"}, t \in {"t1", "t2"}}
SpanLogs ==
    {l \in UNION {[1 .. n -> SpanEvents] : n \in 0 .. 5} :
        /\ \A j, k \in DOMAIN l : l[j] = l[k] => j = k \/ l[j].type = "tool"
        /\ \A k \in DOMAIN l : l[k].type = "tool" => \E j \in 1 .. k - 1 : l[j].call = l[k].parent}

\* The spans of a run are one tree: a single root, a name of its own for every
\* call and tool, and a parent that is in the trace.  Only the results of one tool
\* that were recorded twice under one call share a name (build_spans).
SpansFormATree ==
    Of("spans") =>
        LET spans == BuildSpans(input.events)
        IN /\ \A j, k \in DOMAIN spans :
                  j # k /\ spans[j].key = spans[k].key => j > 1 /\ k > 1 /\ input.events[j - 1] = input.events[k - 1]
           /\ \A k \in 2 .. Len(spans) :
                  \E j \in DOMAIN spans : spans[j].key = spans[k].parent /\ Len(spans[j].key) = 1
           /\ Len(spans) = Len(input.events) + 1

\* Texts around the places where a count gets another digit, and budgets from
\* too small for anything to enough for all.
TextOf(n, c) == [length |-> n, char |-> c]
PlainTexts(n, lengths) == [1 .. n -> {TextOf(k, "plain") : k \in lengths}]
Reports ==
    [texts : UNION {PlainTexts(n, {0, 1, 9, 10, 11, 12}) : n \in 0 .. 3} \cup PlainTexts(10, {2, 11})
             \cup UNION {[1 .. n -> {TextOf(k, c) : k \in {1, 9, 12}, c \in {"wide", "less"}}] : n \in 1 .. 2},
     budget : {25, 30, 32, 35, 40, 60, 65, 75}]
Fixed == 10

\* What the payload measures is within its budget or refused; it is cut only if
\* the whole does not fit, it is refused only if nothing fits, and no longer limit
\* would have fitted, although the size also counts the digits of what was cut.
\* What is embedded is as long, except for five more characters for every "<" that
\* is shown, since those are escaped after the measurement (_fit_budget, render).
BudgetIsUsed ==
    Of("report") =>
        LET fit == FitBudget(Fixed, input.texts, input.budget)
        IN IF fit.whole THEN SizeWhole(Fixed, input.texts) <= input.budget
           ELSE /\ SizeWhole(Fixed, input.texts) > input.budget
                /\ fit.fits => PageAt(Fixed, input.texts, fit.limit) <=
                       input.budget + 5 * Total([k \in DOMAIN input.texts |->
                           IF input.texts[k].char = "less" THEN Min({input.texts[k].length, fit.limit}) ELSE 0])
                /\ fit.fits => SizeAt(Fixed, input.texts, fit.limit) <= input.budget
                /\ \A l \in 0 .. Longest(input.texts) :
                       SizeAt(Fixed, input.texts, l) <= input.budget => fit.fits /\ l <= fit.limit

\* An export says what the run says: every token once and readable again, one
\* tree of spans, and as much of the texts as the measured payload has room for
\* (pprof.py, otel.py, report.py).
ExportsAddUp == TokensAreConserved /\ ProfileRoundTrips /\ SpansFormATree /\ BudgetIsUsed

-----------------------------------------------------------------------------
Ordered == kind = "order" /\ input' \in [events : Orders]
Changed == kind = "cassette" /\ input' \in [cassette : Edited]
Written == kind = "export" /\ input' \in Exports
Redacted ==
    /\ kind = "text"
    /\ \/ input' \in [redactor : Redactors, call : Calls(5)]
       \/ input' \in [redactor : Redactors \cup MeetingRedactors, call : PiecedCalls]
Patched == kind = "patch" /\ input' \in [ops : UNION {[1 .. n -> PatchOps] : n \in 0 .. 5}]
Commanded == kind = "command" /\ input' \in Commands
Counted == kind = "tokens" /\ input' \in [calls : TokenRuns]
Spanned == kind = "spans" /\ input' \in [events : SpanLogs]
Paged == kind = "report" /\ input' \in Reports
Called == kind = "chain" /\ input' \in [chain : Chains]

ArtifactKinds ==
    {"order", "cassette", "export", "text", "patch", "chain", "command", "tokens", "spans", "report"}
ArtifactInput ==
    Ordered \/ Changed \/ Written \/ Redacted \/ Patched \/ Called \/ Commanded
    \/ Counted \/ Spanned \/ Paged
=============================================================================
