---------------------------- MODULE ReplayProofs ----------------------------
(***************************************************************************)
(* A replay is faithful, for any operations, threads, files and numbers of *)
(* runs: the state keeps its shape, a test that passes sent what was       *)
(* recorded, and an agent that repeats itself sees what it saw.            *)
(***************************************************************************)
EXTENDS SessionProofs, FiniteSetTheorems

-----------------------------------------------------------------------------
(***************************************************************************)
(* What a step of an open session does to its run and its transcript.      *)
(***************************************************************************)

Entry(op, obs) == [op |-> op, obs |-> obs]

\* The run of the session has a longer log and another script; nothing else is
\* written.
RunBecomes(events, script) ==
    /\ DOMAIN runs' = DOMAIN runs
    /\ \A i \in DOMAIN runs :
           /\ i # sess.run => runs'[i] = runs[i]
           /\ runs'[i].status = runs[i].status /\ runs'[i].fork = runs[i].fork
    /\ runs'[sess.run].script = script
    /\ runs'[sess.run].events = IF sess.records THEN runs[sess.run].events \o events
                                ELSE runs[sess.run].events

\* Session._append, and the script beside it.
LEMMA LoggedRun ==
    ASSUME SessionHolds, Open, NEW events, NEW script,
           \/ runs' = Logged(events) /\ script = runs[sess.run].script
           \/ runs' = [Logged(events) EXCEPT ![sess.run].script = script]
    PROVE  RunBecomes(events, script)
<1> DEFINE k == sess.run
<1> DEFINE log == Logged(events)
<1> DEFINE joined == runs[k].events \o events
<1> DEFINE r == [runs[k] EXCEPT !.events = joined]
<1>1. k \in DOMAIN runs /\ IsRun(runs[k]) /\ IsSeq(runs)
  BY DEF SessionHolds, IsStore
<1>2. log = IF sess.records THEN [runs EXCEPT ![k] = r] ELSE runs
  BY DEF Logged
<1> HIDE DEF joined
<1>3. /\ r.events = joined /\ r.status = runs[k].status /\ r.fork = runs[k].fork /\ r.script = runs[k].script
      /\ r = [events |-> r.events, status |-> r.status, fork |-> r.fork, script |-> r.script]
  BY <1>1 DEF IsRun
<1> HIDE DEF r, log
<1>4. /\ DOMAIN log = DOMAIN runs /\ \A i \in DOMAIN runs : i # k => log[i] = runs[i]
      /\ log[k].status = runs[k].status /\ log[k].fork = runs[k].fork /\ log[k].script = runs[k].script
      /\ log[k].events = IF sess.records THEN joined ELSE runs[k].events
      /\ log[k] = [events |-> log[k].events, status |-> log[k].status, fork |-> log[k].fork,
                   script |-> log[k].script]
  BY <1>1, <1>2, <1>3, ReplacedInSeq DEF IsRun
<1>5. CASE runs' = log /\ script = runs[k].script
  BY <1>1, <1>4, <1>5 DEF RunBecomes, joined
<1>6. CASE runs' = [log EXCEPT ![k].script = script]
  <2> DEFINE new == [log[k] EXCEPT !.script = script]
  <2>1. /\ new.events = log[k].events /\ new.status = log[k].status /\ new.fork = log[k].fork
        /\ new.script = script
    BY <1>4
  <2>2. runs' = [log EXCEPT ![k] = new]
    BY <1>6
  <2> HIDE DEF new
  <2>3. DOMAIN runs' = DOMAIN log /\ runs'[k] = new /\ \A i \in DOMAIN runs : i # k => runs'[i] = log[i]
    BY <1>1, <1>4, <2>2
  <2> QED
    BY <1>1, <1>4, <2>1, <2>3 DEF RunBecomes, joined
<1> QED
  BY <1>5, <1>6 DEF log

\* The script after the agent of the session has seen something.
ScriptWith(entry) ==
    IF sess.replays THEN runs[sess.run].script ELSE Append(runs[sess.run].script, entry)

TranscriptGrows ==
    UNCHANGED transcript \/ \E op, obs : transcript' = Append(transcript, Entry(op, obs))

\* What the agent sees.
LEMMA SawRun ==
    ASSUME SessionHolds, Open, NEW op, NEW obs, NEW events, Saw(op, obs, events)
    PROVE  /\ transcript' = Append(transcript, Entry(op, obs))
           /\ RunBecomes(events, ScriptWith(Entry(op, obs)))
<1> DEFINE entry == Entry(op, obs)
<1> DEFINE log == Logged(events)
<1>1. /\ transcript' = Append(transcript, entry)
      /\ runs' = IF sess.replays THEN log ELSE [log EXCEPT ![sess.run].script = Append(@, entry)]
  BY DEF Saw, Entry
<1>2. log[sess.run].script = runs[sess.run].script
  <2>1. sess.run \in DOMAIN runs /\ IsRun(runs[sess.run])
    BY DEF SessionHolds, IsStore
  <2> QED
    BY <2>1 DEF Logged, IsRun
<1> HIDE DEF entry
<1>3. \/ runs' = log /\ ScriptWith(entry) = runs[sess.run].script
      \/ runs' = [log EXCEPT ![sess.run].script = ScriptWith(entry)]
  BY <1>1, <1>2 DEF ScriptWith
<1>4. RunBecomes(events, ScriptWith(entry))
  BY <1>3, LoggedRun
<1> QED
  BY <1>1, <1>4 DEF entry

\* What the thread of a tool sees.
LEMMA SawInRun ==
    ASSUME SessionHolds, Open, NEW p, p # Main, NEW op, NEW obs, NEW events, SawIn(p, op, obs, events)
    PROVE  UNCHANGED transcript /\ RunBecomes(events, runs[sess.run].script)
  BY LoggedRun DEF SawIn

-----------------------------------------------------------------------------
(***************************************************************************)
(* The shape of the state.                                                 *)
(***************************************************************************)

IsEvent(e) ==
    /\ e.type \in EventTypes
    /\ e.type = "outcome" => e.status \in {"ok", "error"}
    /\ e.type = "model_call" => e.call \in Nat

\* What an agent or a tool may access.
Allowed(key, data) == key \in Keys /\ (key[1] = "write" => key[2] \in Paths /\ data \in Contents)

\* Nothing outlives a session, a recording session has nothing to serve, and only a
\* replay reads cursors.
FreshSession ==
    /\ ~Open => /\ transcript = <<>> /\ loaded = <<>> /\ consumed = {} /\ current = 0 /\ handle = NoStream
                /\ cursor = [k \in Keys |-> 0] /\ scope = [t \in ToolIds |-> None] /\ outcome = None
                /\ report = EmptyReport
    /\ Open /\ ~sess.replays => loaded = <<>>
    /\ \A p \in Threads : Idle(p) \/ (Open /\ sess.replays /\ ~sess.fork /\ Allowed(reading[p].key, reading[p].data))
    /\ \A t \in ToolIds : Idle(t) \/ scope[t] # None

StoreShape ==
    \A i \in DOMAIN runs : /\ runs[i].status \in {"running", "ok", "error"}
                           /\ \A j \in DOMAIN runs[i].events : IsEvent(runs[i].events[j])
LoadedShape ==
    /\ IsSeq(loaded) /\ \A j \in DOMAIN loaded : IsEvent(loaded[j])
    /\ Open => sess.match \in MatchConfigs \cup {{}}
CallShape ==
    /\ consumed \subseteq OfType(loaded, "model_call") /\ current \in Nat
    /\ handle # NoStream => /\ handle.op \in Asks /\ handle.op[1] = "stream"
                        /\ handle.event.type = "model_call" /\ handle.event.call \in Nat
CursorShape == \A k \in Keys : cursor[k] \in 0 .. Cardinality(Entries(k))
\* A tool runs while its place in the transcript is open.
ToolShape ==
    /\ IsSeq(transcript) /\ \A i \in DOMAIN transcript : transcript[i] = Entry(transcript[i].op, transcript[i].obs)
    /\ scope \in [ToolIds -> Nat \cup {None}]
    /\ \A t \in ToolIds : scope[t] # None =>
           \E i \in DOMAIN transcript : transcript[i].obs = Pending /\ transcript[i].op[2] = t
WorldShape == disk \in [Paths -> Contents] /\ outcome \in {None, "ok", "error"}

ShapeHolds ==
    /\ FreshSession /\ StoreShape /\ LoadedShape /\ CallShape /\ CursorShape /\ ToolShape /\ WorldShape

\* A sequence with one more element.
LEMMA Appended ==
    ASSUME NEW s, IsSeq(s), NEW x
    PROVE  /\ IsSeq(Append(s, x)) /\ Len(s) \in Nat /\ DOMAIN s = 1 .. Len(s)
           /\ Len(Append(s, x)) = Len(s) + 1 /\ Len(s) + 1 \notin DOMAIN s
           /\ DOMAIN Append(s, x) = DOMAIN s \cup {Len(s) + 1}
           /\ Append(s, x)[Len(s) + 1] = x /\ \A i \in DOMAIN s : Append(s, x)[i] = s[i]
<1>1. PICK A : s \in Seq(A)
  BY DEF IsSeq
<1>2. s \in Seq(A \cup {x})
  BY <1>1
<1>3. /\ Append(s, x) \in Seq(A \cup {x}) /\ Len(s) \in Nat /\ DOMAIN s = 1 .. Len(s)
      /\ Len(Append(s, x)) = Len(s) + 1 /\ DOMAIN Append(s, x) = 1 .. Len(s) + 1
      /\ Append(s, x)[Len(s) + 1] = x /\ \A i \in 1 .. Len(s) : Append(s, x)[i] = s[i]
  BY <1>2
<1> QED
  BY <1>3 DEF IsSeq

\* A log that gets nothing is the same log.
LEMMA JoinedNothing == ASSUME NEW s, IsSeq(s) PROVE s \o <<>> = s
  BY DEF IsSeq

\* The logs hold events, if what is appended is one.
LEMMA StoreStep ==
    ASSUME SessionHolds, StoreShape, Open, NEW script, NEW e,
           RunBecomes(<<>>, script) \/ (RunBecomes(<<e>>, script) /\ IsEvent(e))
    PROVE  StoreShape'
<1> DEFINE k == sess.run
<1>1. k \in DOMAIN runs /\ IsSeq(runs[k].events) /\ \A j \in DOMAIN runs[k].events : IsEvent(runs[k].events[j])
  BY DEF SessionHolds, IsStore, IsRun, StoreShape
<1>2. \A j \in DOMAIN runs'[k].events : IsEvent(runs'[k].events[j])
  <2> DEFINE log == runs[k].events
  <2>1. log \o <<>> = log
    BY <1>1, JoinedNothing
  <2>2. ASSUME IsEvent(e) PROVE \A j \in DOMAIN (log \o <<e>>) : IsEvent((log \o <<e>>)[j])
    <3>1. /\ DOMAIN (log \o <<e>>) = DOMAIN log \cup {Len(log) + 1} /\ (log \o <<e>>)[Len(log) + 1] = e
          /\ \A j \in DOMAIN log : (log \o <<e>>)[j] = log[j]
      BY <1>1, OneMore
    <3> QED
      BY <1>1, <2>2, <3>1
  <2> QED
    BY <1>1, <2>1, <2>2 DEF RunBecomes
<1>3. DOMAIN runs' = DOMAIN runs /\ \A i \in DOMAIN runs : runs'[i].status = runs[i].status /\ (i # k => runs'[i] = runs[i])
  BY DEF RunBecomes
<1>4. \A i \in DOMAIN runs : \A j \in DOMAIN runs'[i].events : IsEvent(runs'[i].events[j])
  BY <1>2, <1>3 DEF StoreShape
<1> QED
  BY <1>3, <1>4 DEF StoreShape

\* The first and the last of a set of positions.
LEMMA FirstPosition ==
    ASSUME NEW S, S \subseteq Nat
    PROVE  (S = {} /\ FirstOf(S) = 0) \/ (FirstOf(S) \in S /\ \A j \in S : FirstOf(S) <= j)
<1> SUFFICES ASSUME S # {} PROVE \E i \in S : \A j \in S : i <= j
  BY DEF FirstOf
<1> QED
  BY Smallest

\* A call that is served is a recorded one that was not served before.
LEMMA HitIsLoaded ==
    ASSUME ShapeHolds, NEW m, NEW blocks, Hit(m, blocks) # 0
    PROVE  Hit(m, blocks) \in OfType(loaded, "model_call") \ consumed
<1> DEFINE S == {i \in OfType(loaded, "model_call") \ consumed :
                     \A q \in sess.match : Matches(q, loaded[i], m, blocks)}
<1>1. PICK A : loaded \in Seq(A)
  BY DEF ShapeHolds, LoadedShape, IsSeq
<1>2. S \subseteq Nat
  BY <1>1 DEF OfType
<1>3. Hit(m, blocks) = FirstOf(S)
  BY DEF Hit
<1> HIDE DEF S
<1>4. Hit(m, blocks) \in S
  BY <1>2, <1>3, FirstPosition
<1> QED
  BY <1>4 DEF S

\* The positions of a log are finitely many.
LEMMA EntriesFinite ==
    ASSUME ShapeHolds
    PROVE  /\ IsFiniteSet(DOMAIN loaded) /\ DOMAIN loaded \subseteq Nat
           /\ \A k : IsFiniteSet(Entries(k)) /\ Entries(k) \subseteq DOMAIN loaded
<1>1. PICK A : loaded \in Seq(A)
  BY DEF ShapeHolds, LoadedShape, IsSeq
<1>2. DOMAIN loaded = 1 .. Len(loaded) /\ Len(loaded) \in Nat
  BY <1>1
<1>3. IsFiniteSet(DOMAIN loaded)
  BY <1>2, FS_Interval
<1>4. \A k : Entries(k) \in SUBSET DOMAIN loaded
  BY DEF Entries, OfType
<1> QED
  BY <1>2, <1>3, <1>4, FS_Subset

\* The n-th of the recorded values exists only if there are n.
LEMMA NthExists ==
    ASSUME ShapeHolds, NEW key, NEW n \in Nat, NEW at \in Nth(key, n)
    PROVE  n \in 0 .. Cardinality(Entries(key))
<1> DEFINE T == {j \in Entries(key) : j <= at}
<1>1. T \in SUBSET Entries(key) /\ Cardinality(T) = n
  BY DEF Nth
<1>2. IsFiniteSet(Entries(key)) /\ Cardinality(Entries(key)) \in Nat
  BY EntriesFinite, FS_CardinalityType
<1> HIDE DEF T
<1>3. Cardinality(T) <= Cardinality(Entries(key))
  BY <1>1, <1>2, FS_Subset
<1> QED
  BY <1>1, <1>2, <1>3

\* An operation that starts and ends no tool.
LEMMA ToolsStay ==
    ASSUME ToolShape, UNCHANGED scope,
           TranscriptGrows
    PROVE  ToolShape'
<1>1. CASE UNCHANGED transcript
  BY <1>1 DEF ToolShape
<1>2. ASSUME NEW op, NEW obs, transcript' = Append(transcript, Entry(op, obs)) PROVE ToolShape'
  <2> DEFINE x == Entry(op, obs)
  <2>1. x = Entry(x.op, x.obs)
    BY DEF Entry
  <2> HIDE DEF x
  <2>2. /\ IsSeq(transcript') /\ DOMAIN transcript' = DOMAIN transcript \cup {Len(transcript) + 1}
        /\ transcript'[Len(transcript) + 1] = x /\ \A i \in DOMAIN transcript : transcript'[i] = transcript[i]
    BY <1>2, Appended DEF ToolShape, x
  <2> QED
    BY <2>1, <2>2 DEF ToolShape
<1> QED
  BY <1>1, <1>2 DEF TranscriptGrows

\* The cursors, when none is advanced.
LEMMA CursorsStay == ASSUME CursorShape, UNCHANGED <<loaded, cursor>> PROVE CursorShape'
  BY DEF CursorShape, Entries, OfType

\* An operation of an open session that starts and ends no tool.
LEMMA StaysShaped ==
    ASSUME ShapeHolds, Open, UNCHANGED <<sess, loaded, scope>>,
           TranscriptGrows,
           \A p \in Threads : Idle(p)' \/ reading'[p] = reading[p]
                              \/ /\ sess.replays /\ ~sess.fork /\ (p \in ToolIds => scope[p] # None)
                                 /\ Allowed(reading'[p].key, reading'[p].data),
           StoreShape', CallShape', CursorShape', WorldShape'
    PROVE  ShapeHolds'
<1>1. ToolShape'
  BY ToolsStay DEF ShapeHolds
<1>2. FreshSession'
  <2>1. \A t \in ToolIds : t \in Threads
    BY DEF Threads
  <2> QED
    BY <2>1 DEF ShapeHolds, FreshSession, Open, Idle
<1>3. LoadedShape'
  BY DEF ShapeHolds, LoadedShape, Open
<1> QED
  BY <1>1, <1>2, <1>3 DEF ShapeHolds

\* Model.create and Model.stream.
LEMMA AskShape ==
    ASSUME SessionHolds, CallsHold, ShapeHolds, NEW op \in Asks, NEW raises, Ask(op, raises)
    PROVE  ShapeHolds'
<1>1. Open /\ handle = NoStream /\ UNCHANGED <<sess, loaded, scope, reading, cursor, disk, outcome>> /\ world \in Nat
  BY DEF Ask, AgentReady, openVars, accessVars, toolVars, CallsHold
<1>2. CursorShape' /\ WorldShape'
  BY <1>1, CursorsStay DEF ShapeHolds, WorldShape
<1> DEFINE blocks == TurnMessages(op[3])
<1> DEFINE hit == Hit(op[2], blocks)
<1> DEFINE e == ModelEvent(world + 1, op[2], blocks, Value(world + 1), IF op[1] = "stream" THEN Chunks ELSE None)
<1> DEFINE f == RedactEvent(e)
<1>3. IsEvent(f) /\ e.type = "model_call" /\ e.call \in Nat
  <2>1. e.type = "model_call" /\ e.call \in Nat
    BY <1>1 DEF ModelEvent
  <2>2. f.type = "model_call" /\ f.call = e.call
    BY RedactedCall DEF ModelEvent
  <2> HIDE DEF e, f
  <2> QED
    BY <2>1, <2>2 DEF IsEvent, EventTypes
<1>4. \/ hit # 0 /\ ServeCall(hit, op)
      \/ RefuseCall(op)
      \/ SendCall(op[2], blocks, op, raises)
  BY DEF Ask
<1>5. hit # 0 => /\ hit \in OfType(loaded, "model_call")
                 /\ loaded[hit].type = "model_call" /\ loaded[hit].call \in Nat
  BY HitIsLoaded DEF ShapeHolds, LoadedShape, IsEvent, OfType
<1> HIDE DEF hit, blocks
<1>6. \/ UNCHANGED logVars
      \/ \E obs : Saw(op, obs, <<>>)
      \/ \E obs : Saw(op, obs, Recorded(e))
  BY <1>4 DEF ServeCall, RefuseCall, SendCall
<1>7. CallShape'
  <2>1. CASE hit # 0 /\ ServeCall(hit, op)
    BY <1>1, <1>5, <2>1 DEF ServeCall, ShapeHolds, CallShape
  <2>2. CASE RefuseCall(op)
    BY <1>1, <2>2 DEF RefuseCall, ShapeHolds, CallShape
  <2>3. CASE SendCall(op[2], blocks, op, raises)
    <3>1. consumed' = consumed /\ (current' = current \/ current' = e.call)
      BY <2>3 DEF SendCall
    <3>2. handle' = NoStream \/ (op[1] = "stream" /\ handle' = [open |-> TRUE, event |-> e, op |-> op, taken |-> 0, live |-> TRUE])
      BY <1>1, <2>3 DEF SendCall
    <3> HIDE DEF e
    <3> QED
      BY <1>1, <1>3, <3>1, <3>2 DEF ShapeHolds, CallShape
  <2> QED
    BY <1>4, <2>1, <2>2, <2>3
<1>9. Recorded(e) = <<>> \/ Recorded(e) = <<f>>
  BY RecordedShort
<1> HIDE DEF e, f
<1>8. /\ TranscriptGrows
      /\ StoreShape'
  <2>1. CASE UNCHANGED logVars
    BY <2>1 DEF logVars, ShapeHolds, StoreShape, TranscriptGrows
  <2>2. ASSUME NEW obs, Saw(op, obs, <<>>) \/ Saw(op, obs, <<f>>)
        PROVE  TranscriptGrows /\ StoreShape'
    BY <1>1, <1>3, <2>2, SawRun, StoreStep DEF ShapeHolds, TranscriptGrows
  <2> QED
    BY <1>6, <1>9, <2>1, <2>2
<1> QED
  BY <1>1, <1>2, <1>7, <1>8, StaysShaped

\* The stream of a handle.
LEMMA StreamShape ==
    ASSUME SessionHolds, CallsHold, ShapeHolds, StreamNext \/ \E cut \in BOOLEAN : StreamEnd(cut)
    PROVE  ShapeHolds'
<1>1. /\ Open /\ handle # NoStream
      /\ UNCHANGED <<sess, loaded, scope, reading, cursor, consumed, disk, outcome>>
  BY DEF StreamNext, StreamEnd, AgentReady, openVars, accessVars, toolVars, worldVars
<1>2. CursorShape' /\ WorldShape'
  BY <1>1, CursorsStay DEF ShapeHolds, WorldShape
<1>3. /\ IsHandle(handle) /\ handle.op \in Asks /\ handle.op[1] = "stream"
      /\ handle.event.type = "model_call" /\ handle.event.call \in Nat
  BY <1>1, HandleHolds DEF ShapeHolds, CallShape
<1>4. CASE StreamNext
  <2>1. handle' = [handle EXCEPT !.taken = @ + 1] /\ UNCHANGED <<logVars, current>>
    BY <1>4 DEF StreamNext
  <2>2. handle'.op = handle.op /\ handle'.event = handle.event
    BY <1>3, <2>1, ChunkTaken
  <2>3. CallShape' /\ StoreShape'
    BY <1>1, <1>3, <2>1, <2>2 DEF ShapeHolds, CallShape, StoreShape, logVars
  <2> QED
    BY <1>1, <1>2, <2>1, <2>3, StaysShaped DEF logVars, TranscriptGrows
<1>5. ASSUME NEW cut \in BOOLEAN, StreamEnd(cut) PROVE ShapeHolds'
  <2> DEFINE e == Finalized(cut)
  <2>1. /\ handle' = NoStream /\ current' = handle.event.call
        /\ \E op : Saw(op, e.obs, IF handle.live THEN Recorded(e) ELSE <<>>)
    BY <1>5 DEF StreamEnd, Spent
  <2> DEFINE f == RedactEvent(e)
  <2>2. handle.live => IsEvent(f)
    <3>1. ASSUME handle.live PROVE IsCall(e) /\ e.call \in Nat
      <4>1. IsCall(handle.event)
        BY <1>1, <3>1 DEF CallsHold, StreamFresh
      <4>2. CASE cut
        BY <1>3, <3>1, <4>1, <4>2, CutCall DEF Finalized
      <4>3. CASE ~cut
        BY <1>3, <4>1, <4>3 DEF Finalized
      <4> QED
        BY <4>2, <4>3
    <3>2. ASSUME IsCall(e) PROVE f.type = "model_call" /\ f.call = e.call
      BY <3>2, RedactedCall DEF IsCall
    <3> HIDE DEF e, f
    <3> QED
      BY <3>1, <3>2 DEF IsEvent, EventTypes
  <2>3. CallShape'
    BY <1>1, <1>3, <2>1 DEF ShapeHolds, CallShape
  <2>5. Recorded(e) = <<>> \/ Recorded(e) = <<f>>
    BY RecordedShort
  <2> HIDE DEF e, f
  <2>4. TranscriptGrows /\ StoreShape'
    <3>1. PICK op : Saw(op, e.obs, <<>>) \/ (handle.live /\ Saw(op, e.obs, <<f>>))
      BY <2>1, <2>5
    <3> QED
      BY <1>1, <2>2, <3>1, SawRun, StoreStep DEF ShapeHolds, TranscriptGrows
  <2> QED
    BY <1>1, <1>2, <2>3, <2>4, StaysShaped
<1> QED
  BY <1>4, <1>5

\* The accesses of an agent and of its tools.
LEMMA AccessesAllowed ==
    ASSUME NEW p, NEW op \in AccessesOf(p)
    PROVE  Allowed(op[2], op[3])
<1>1. op \in Ops \cup ToolOps /\ op[1] = "access"
  BY DEF AccessesOf
<1> QED
  BY <1>1, OpsAssumption DEF Keys, Allowed

\* What is accessed is logged or not, and seen by the agent or by a tool.
LEMMA AccessedShape ==
    ASSUME SessionHolds, ShapeHolds, Open, NEW p, NEW op, NEW obs, NEW e,
           SawIn(p, op, obs, <<>>) \/ (SawIn(p, op, obs, <<e>>) /\ IsEvent(e))
    PROVE  /\ TranscriptGrows
           /\ StoreShape'
<1>1. CASE p = Main
  BY <1>1, SawRun, StoreStep DEF ShapeHolds, SawIn, TranscriptGrows
<1>2. CASE p # Main
  BY <1>2, SawInRun, StoreStep DEF ShapeHolds, TranscriptGrows
<1> QED
  BY <1>1, <1>2

\* A live access.
LEMMA LiveShape ==
    ASSUME SessionHolds, ShapeHolds, Open, NEW p, NEW key, NEW data, Allowed(key, data), Live(p, key, data)
    PROVE  /\ TranscriptGrows
           /\ StoreShape' /\ disk' \in [Paths -> Contents]
<1>1. PICK op, obs, e : SawIn(p, op, obs, Recorded(e)) /\ RedactEvent(e).type = "access"
  BY LiveLogs
<1>2. IsEvent(RedactEvent(e))
  BY <1>1 DEF IsEvent, EventTypes
<1>3. disk' \in [Paths -> Contents]
  BY DEF Live, ShapeHolds, WorldShape, Allowed
<1> QED
  BY <1>1, <1>2, <1>3, AccessedShape, RecordedShort

\* Environment values and files.
LEMMA AccessShape ==
    ASSUME SessionHolds, ValuesHold, ShapeHolds, NEW p \in Threads,
           \/ \E op \in AccessesOf(p) : AccessLive(p, op[2], op[3]) \/ AccessBegin(p, op[2], op[3])
           \/ AccessEnd(p)
    PROVE  ShapeHolds'
<1>1. /\ Open /\ UNCHANGED <<sess, loaded, scope, consumed, handle, current, outcome>>
  BY DEF AccessLive, AccessBegin, AccessEnd, MayAccess, openVars, callVars, toolVars
<1>2. CallShape'
  BY <1>1 DEF ShapeHolds, CallShape
<1>3. ASSUME NEW op \in AccessesOf(p), AccessLive(p, op[2], op[3]) PROVE ShapeHolds'
  <2>1. UNCHANGED <<cursor, reading>> /\ Live(p, op[2], op[3]) /\ Allowed(op[2], op[3])
    BY <1>3, AccessesAllowed DEF AccessLive, accessVars
  <2>2. CursorShape' /\ StoreShape' /\ WorldShape' /\ TranscriptGrows
    BY <1>1, <2>1, LiveShape, CursorsStay DEF ShapeHolds, WorldShape
  <2> QED
    BY <1>1, <1>2, <2>1, <2>2, StaysShaped
<1>4. ASSUME NEW op \in AccessesOf(p), AccessBegin(p, op[2], op[3]) PROVE ShapeHolds'
  <2>1. /\ UNCHANGED <<cursor, runs, transcript, disk>> /\ Allowed(op[2], op[3]) /\ sess.replays /\ ~sess.fork
        /\ reading' = [reading EXCEPT ![p] = [key |-> op[2], data |-> op[3], index |-> cursor[op[2]]]]
        /\ p # Main => scope[p] # None
    BY <1>4, AccessesAllowed DEF AccessBegin, MayAccess, logVars, worldVars
  <2>2. CursorShape' /\ StoreShape' /\ WorldShape'
    BY <1>1, <2>1, CursorsStay DEF ShapeHolds, StoreShape, WorldShape
  <2>3. p \in ToolIds => scope[p] # None
    BY <2>1, ThreadsAssumption DEF Main
  <2>4. reading = [q \in Threads |-> reading[q]]
    BY DEF ValuesHold
  <2>5. /\ \A q \in Threads : q # p => reading'[q] = reading[q]
        /\ reading'[p].key = op[2] /\ reading'[p].data = op[3]
    BY <2>1, <2>4
  <2> QED
    BY <1>1, <1>2, <2>1, <2>2, <2>3, <2>5, StaysShaped DEF TranscriptGrows
<1>5. CASE AccessEnd(p)
  <2> DEFINE a == reading[p]
  <2>1. ~Idle(p) /\ reading' = [reading EXCEPT ![p] = None] /\ reading = [q \in Threads |-> reading[q]]
    BY <1>5 DEF AccessEnd, ValuesHold
  <2>2. \A q \in Threads : Idle(q)' \/ reading'[q] = reading[q]
    BY <2>1 DEF Idle
  <2>3. Allowed(a.key, a.data) /\ a.key \in Keys /\ a.index = cursor[a.key] /\ cursor \in [Keys -> Nat]
    BY <2>1 DEF ShapeHolds, FreshSession, ValuesHold, LockHolds
  <2>4. /\ TranscriptGrows
        /\ StoreShape' /\ WorldShape'
    <3>1. \/ \E op, obs : SawIn(p, op, obs, <<>>) /\ UNCHANGED worldVars
          \/ Live(p, a.key, a.data)
      BY <1>5 DEF AccessEnd, ServeAccess
    <3> HIDE DEF a
    <3> QED
      BY <1>1, <2>3, <3>1, LiveShape, AccessedShape DEF ShapeHolds, WorldShape, worldVars
  <2>5. CursorShape'
    <3>1. CASE UNCHANGED cursor
      BY <1>1, <3>1, CursorsStay DEF ShapeHolds
    <3>2. ASSUME NEW at \in Nth(a.key, a.index + 1), cursor' = [cursor EXCEPT ![a.key] = a.index + 1]
          PROVE  CursorShape'
      <4>1. a.index + 1 \in 0 .. Cardinality(Entries(a.key))
        BY <2>3, <3>2, NthExists
      <4>2. \A k \in Keys : cursor'[k] \in 0 .. Cardinality(Entries(k))
        BY <2>3, <3>2, <4>1 DEF ShapeHolds, CursorShape
      <4>3. \A k : Entries(k)' = Entries(k)
        BY <1>1 DEF Entries, OfType
      <4> QED
        BY <4>2, <4>3 DEF CursorShape
    <3> QED
      BY <1>5, <3>1, <3>2 DEF AccessEnd
  <2> QED
    BY <1>1, <1>2, <2>2, <2>4, <2>5, StaysShaped
<1> QED
  BY <1>3, <1>4, <1>5

\* The event of a tool that returns.
ToolEvent(t, at, obs) ==
    [type |-> "tool_call", parent |-> scope[t], id |-> t, args |-> Redact(transcript[at].op[3]), obs |-> obs]
\* A tool that waits at this place of the transcript returns.
Returns(t, raises, at) ==
    LET obs == IF raises THEN Raised ELSE Value(world + 1)
    IN /\ at \in DOMAIN transcript /\ transcript[at].obs = Pending /\ transcript[at].op[2] = t
       /\ transcript' = [transcript EXCEPT ![at] = Entry(transcript[at].op, obs)]
       /\ RunBecomes(IF raises THEN <<>> ELSE Recorded(ToolEvent(t, at, obs)),
                     IF sess.replays THEN runs[sess.run].script
                     ELSE [runs[sess.run].script EXCEPT ![at].obs = obs])

\* Tools._call after the dispatch.
LEMMA ToolReturns ==
    ASSUME SessionHolds, ShapeHolds, NEW t \in ToolIds, NEW raises, ToolReturn(t, raises)
    PROVE  \E at : Returns(t, raises, at)
<1> DEFINE at == CHOOSE i \in DOMAIN transcript : transcript[i].obs = Pending /\ transcript[i].op[2] = t
<1> DEFINE obs == IF raises THEN Raised ELSE Value(world')
<1> DEFINE log == Logged(IF raises THEN <<>> ELSE Recorded(ToolEvent(t, at, obs)))
<1>1. /\ Open /\ scope[t] # None /\ world' = world + 1
      /\ transcript' = [transcript EXCEPT ![at].obs = obs]
      /\ runs' = IF sess.replays THEN log ELSE [log EXCEPT ![sess.run].script[at].obs = obs]
  BY DEF ToolReturn, ToolEvent
<1>2. at \in DOMAIN transcript /\ transcript[at].obs = Pending /\ transcript[at].op[2] = t
  BY <1>1 DEF ShapeHolds, ToolShape
<1> HIDE DEF at, obs
<1>3. transcript' = [transcript EXCEPT ![at] = Entry(transcript[at].op, obs)]
  <2> DEFINE w == transcript[at]
  <2>1. w = [op |-> w.op, obs |-> w.obs]
    BY <1>2 DEF ShapeHolds, ToolShape, Entry
  <2>2. [w EXCEPT !.obs = obs] = Entry(w.op, obs)
    BY <2>1 DEF Entry
  <2>3. transcript' = [transcript EXCEPT ![at] = [w EXCEPT !.obs = obs]]
    BY <1>1
  <2> QED
    BY <2>2, <2>3
<1>4. log[sess.run].script = runs[sess.run].script
  <2>1. sess.run \in DOMAIN runs /\ IsRun(runs[sess.run])
    BY <1>1 DEF SessionHolds, IsStore
  <2> QED
    BY <2>1 DEF Logged, IsRun
<1> DEFINE script == IF sess.replays THEN runs[sess.run].script ELSE [runs[sess.run].script EXCEPT ![at].obs = obs]
<1>5. \/ runs' = log /\ script = runs[sess.run].script
      \/ runs' = [log EXCEPT ![sess.run].script = script]
  BY <1>1, <1>4
<1>6. RunBecomes(IF raises THEN <<>> ELSE Recorded(ToolEvent(t, at, obs)), script)
  BY <1>1, <1>5, LoggedRun
<1>7. obs = IF raises THEN Raised ELSE Value(world + 1)
  BY <1>1 DEF obs
<1> QED
  BY <1>2, <1>3, <1>6, <1>7 DEF Returns

\* Tools: the transcript waits for each that was started.
LEMMA ToolsShape ==
    ASSUME SessionHolds, ShapeHolds, NEW t \in ToolIds, NEW args, NEW raises,
           ToolCall(t, args) \/ ToolReturn(t, raises)
    PROVE  ShapeHolds'
<1>1. /\ Open /\ UNCHANGED <<sess, loaded, consumed, handle, current, reading, cursor, disk, outcome>>
  BY DEF ToolCall, ToolReturn, openVars, callVars, accessVars, worldVars
<1>2. CallShape' /\ CursorShape' /\ WorldShape' /\ LoadedShape'
  BY <1>1, CursorsStay DEF ShapeHolds, CallShape, WorldShape, LoadedShape, Open
<1>3. scope \in [ToolIds -> Nat \cup {None}] /\ current \in Nat /\ IsSeq(transcript)
  BY DEF ShapeHolds, ToolShape, CallShape
<1>4. CASE ToolCall(t, args)
  <2> DEFINE op == <<"tool", t, args>>
  <2>1. /\ scope[t] = None
        /\ \/ UNCHANGED scope /\ \E obs : Saw(op, obs, <<>>)
           \/ Saw(op, Pending, <<>>) /\ scope' = [scope EXCEPT ![t] = current]
    BY <1>4 DEF ToolCall
  <2>2. op[2] = t
    OBVIOUS
  <2> HIDE DEF op
  <2>3. StoreShape'
    BY <1>1, <2>1, SawRun, StoreStep DEF ShapeHolds
  <2>4. CASE UNCHANGED scope /\ \E obs : Saw(op, obs, <<>>)
    <3>1. TranscriptGrows
      BY <1>1, <2>4, SawRun DEF TranscriptGrows
    <3> QED
      BY <1>1, <1>2, <2>3, <2>4, <3>1, StaysShaped
  <2>5. CASE Saw(op, Pending, <<>>) /\ scope' = [scope EXCEPT ![t] = current]
    <3> DEFINE x == Entry(op, Pending)
    <3>1. x = Entry(x.op, x.obs) /\ x.op = op /\ x.obs = Pending
      BY DEF Entry
    <3>2. transcript' = Append(transcript, x)
      BY <1>1, <2>5, SawRun
    <3> HIDE DEF x
    <3>3. /\ IsSeq(transcript') /\ DOMAIN transcript' = DOMAIN transcript \cup {Len(transcript) + 1}
          /\ transcript'[Len(transcript) + 1] = x /\ \A i \in DOMAIN transcript : transcript'[i] = transcript[i]
      BY <1>3, <3>2, Appended
    <3>4. scope' \in [ToolIds -> Nat \cup {None}] /\ \A u \in ToolIds : u # t => scope'[u] = scope[u]
      BY <1>3, <2>5
    <3>5. \A u \in ToolIds : scope'[u] # None =>
              \E i \in DOMAIN transcript' : transcript'[i].obs = Pending /\ transcript'[i].op[2] = u
      BY <2>2, <3>1, <3>3, <3>4 DEF ShapeHolds, ToolShape
    <3>6. ToolShape'
      BY <3>1, <3>3, <3>4, <3>5 DEF ShapeHolds, ToolShape
    <3>7. FreshSession'
      BY <1>1, <2>1, <3>4 DEF ShapeHolds, FreshSession, Open, Idle
    <3> QED
      BY <1>2, <2>3, <3>6, <3>7 DEF ShapeHolds
  <2> QED
    BY <2>1, <2>4, <2>5
<1>5. CASE ToolReturn(t, raises)
  <2>1. PICK at : Returns(t, raises, at)
    BY <1>5, ToolReturns
  <2>2. Idle(t) /\ scope' = [scope EXCEPT ![t] = None]
    BY <1>5 DEF ToolReturn
  <2> DEFINE obs == IF raises THEN Raised ELSE Value(world + 1)
  <2> DEFINE x == Entry(transcript[at].op, obs)
  <2>3. x = Entry(x.op, x.obs) /\ x.op = transcript[at].op
    BY DEF Entry
  <2>4. transcript' = [transcript EXCEPT ![at] = x] /\ at \in DOMAIN transcript /\ transcript[at].op[2] = t
    BY <2>1 DEF Returns
  <2>5. StoreShape'
    <3> DEFINE e == RedactEvent(ToolEvent(t, at, obs))
    <3>1. IsEvent(e)
      <4>1. e.type = "tool_call"
        BY RedactedTool DEF ToolEvent
      <4> QED
        BY <4>1 DEF IsEvent, EventTypes
    <3>2. PICK script : RunBecomes(<<>>, script) \/ RunBecomes(<<e>>, script)
      BY <2>1, RecordedShort DEF Returns
    <3> HIDE DEF e
    <3> QED
      BY <1>1, <3>1, <3>2, StoreStep DEF ShapeHolds
  <2> HIDE DEF x
  <2>6. /\ IsSeq(transcript') /\ DOMAIN transcript' = DOMAIN transcript /\ transcript'[at] = x
        /\ \A i \in DOMAIN transcript : i # at => transcript'[i] = transcript[i]
    BY <1>3, <2>4, ReplacedInSeq
  <2>7. /\ scope' \in [ToolIds -> Nat \cup {None}] /\ scope'[t] = None
        /\ \A u \in ToolIds : u # t => scope'[u] = scope[u]
    BY <1>3, <2>2
  <2>8. \A u \in ToolIds : scope'[u] # None =>
            \E i \in DOMAIN transcript' : transcript'[i].obs = Pending /\ transcript'[i].op[2] = u
    BY <2>4, <2>6, <2>7 DEF ShapeHolds, ToolShape
  <2>9. ToolShape'
    BY <2>3, <2>6, <2>7, <2>8 DEF ShapeHolds, ToolShape
  <2>10. FreshSession'
    BY <1>1, <2>2, <2>7 DEF ShapeHolds, FreshSession, Open, Idle
  <2> QED
    BY <1>2, <2>5, <2>9, <2>10 DEF ShapeHolds
<1> QED
  BY <1>4, <1>5

\* Session.outcome.
LEMMA OutcomeShape ==
    ASSUME SessionHolds, ShapeHolds, NEW status \in {"ok", "error"}, Outcome(status)
    PROVE  ShapeHolds'
<1> DEFINE e == [type |-> "outcome", status |-> status]
<1>1. /\ Open /\ UNCHANGED <<sess, loaded, consumed, handle, current, reading, cursor, scope, disk>>
      /\ outcome' = outcome \/ outcome' = status
      /\ \E op, obs : Saw(op, obs, <<>>) \/ Saw(op, obs, Recorded(e))
  BY DEF Outcome, AgentReady, openVars, callVars, accessVars, toolVars, worldVars
<1>2. IsEvent(e)
  BY DEF IsEvent, EventTypes
<1>5. Recorded(e) = <<>> \/ Recorded(e) = <<e>>
  BY RecordedShort, RedactedOutcome
<1> HIDE DEF e
<1>3. CallShape' /\ CursorShape' /\ WorldShape'
  BY <1>1, CursorsStay DEF ShapeHolds, CallShape, WorldShape
<1>4. TranscriptGrows /\ StoreShape'
  BY <1>1, <1>2, <1>5, SawRun, StoreStep DEF ShapeHolds, TranscriptGrows
<1> QED
  BY <1>1, <1>3, <1>4, StaysShaped

\* The last recorded outcome.
LastOutcome(events) ==
    LET last == LastOf(OfType(events, "outcome")) IN IF last = 0 THEN None ELSE events[last].status

\* What is replayed has a last outcome.
LEMMA OutcomeRecorded ==
    ASSUME NEW events, IsSeq(events), \A j \in DOMAIN events : IsEvent(events[j])
    PROVE  LastOutcome(events) \in {None, "ok", "error"}
<1> DEFINE S == OfType(events, "outcome")
<1>1. PICK A : events \in Seq(A)
  BY DEF IsSeq
<1>2. Len(events) \in Nat /\ S \subseteq 1 .. Len(events)
  BY <1>1 DEF OfType
<1>3. \A j \in S : events[j].status \in {"ok", "error"}
  BY DEF OfType, IsEvent
<1> HIDE DEF S
<1>4. LastOf(S) = 0 \/ LastOf(S) \in S
  BY <1>2, LastPosition
<1> QED
  BY <1>3, <1>4 DEF LastOutcome, S

\* A session is opened over the events of a run, or over nothing.
LEMMA StartShape ==
    ASSUME ShapeHolds, NEW s, NEW events, Start(s, events), s # None,
           s.match \in MatchConfigs \cup {{}}, s.replays \/ events = <<>>,
           IsSeq(events), \A j \in DOMAIN events : IsEvent(events[j]), StoreShape'
    PROVE  ShapeHolds'
<1>1. /\ ~Open /\ sess' = s /\ loaded' = events
      /\ outcome' = IF s.fork THEN None ELSE LastOutcome(events)
      /\ UNCHANGED <<transcript, consumed, current, handle, cursor, reading, scope, disk>>
  BY DEF Start, accessVars, toolVars, worldVars, LastOutcome
<1>2. FreshSession'
  BY <1>1 DEF ShapeHolds, FreshSession, Open, Idle
<1>3. LoadedShape'
  BY <1>1 DEF LoadedShape, Open
<1>4. CallShape'
  BY <1>1 DEF ShapeHolds, FreshSession, CallShape
<1>5. CursorShape'
  <2>1. \A k : Entries(k)' \in SUBSET DOMAIN events
    BY <1>1 DEF Entries, OfType
  <2>2. IsFiniteSet(DOMAIN events)
    <3>1. PICK A : events \in Seq(A)
      BY DEF IsSeq
    <3>2. DOMAIN events = 1 .. Len(events) /\ Len(events) \in Nat
      BY <3>1
    <3> QED
      BY <3>2, FS_Interval
  <2>3. \A k : Cardinality(Entries(k)') \in Nat
    BY <2>1, <2>2, FS_Subset, FS_CardinalityType
  <2>4. \A k \in Keys : cursor'[k] = 0
    BY <1>1 DEF ShapeHolds, FreshSession
  <2> QED
    BY <2>3, <2>4 DEF CursorShape
<1>6. ToolShape'
  BY <1>1 DEF ShapeHolds, ToolShape
<1>7. WorldShape'
  BY <1>1, OutcomeRecorded DEF ShapeHolds, WorldShape
<1> QED
  BY <1>2, <1>3, <1>4, <1>5, <1>6, <1>7 DEF ShapeHolds

\* A new run in the store.
LEMMA NewRunShape ==
    ASSUME SessionHolds, StoreShape, NEW events, NEW fork, IsSeq(events),
           \A j \in DOMAIN events : IsEvent(events[j]), runs' = Append(runs, NewRun(events, fork))
    PROVE  StoreShape'
<1> DEFINE r == NewRun(events, fork)
<1>1. r.status = "running" /\ r.events = events
  BY DEF NewRun
<1> HIDE DEF r
<1>2. /\ DOMAIN runs' = DOMAIN runs \cup {Len(runs) + 1} /\ runs'[Len(runs) + 1] = r
      /\ \A i \in DOMAIN runs : runs'[i] = runs[i]
  BY Appended DEF SessionHolds, IsStore, r
<1> QED
  BY <1>1, <1>2 DEF StoreShape

\* record, replay and fork.
LEMMA OpenShape ==
    ASSUME SessionHolds, ShapeHolds,
           \/ \E mode \in Modes, match \in MatchConfigs : OpenSession(mode, match)
           \/ \E source \in DOMAIN runs, drop \in Drops, from \in 0 .. MaxOps,
                 match \in MatchConfigs : OpenFork(source, drop, from, match)
    PROVE  ShapeHolds'
<1>1. \A i \in DOMAIN runs : IsSeq(runs[i].events) /\ \A j \in DOMAIN runs[i].events : IsEvent(runs[i].events[j])
  BY DEF SessionHolds, IsStore, IsRun, ShapeHolds, StoreShape
<1>2. IsSeq(<<>>) /\ \A j \in DOMAIN <<>> : IsEvent(<<>>[j])
  BY ShortSeqs
<1>3. Len(runs) \in Nat /\ DOMAIN runs = 1 .. Len(runs)
  <2>1. PICK A : runs \in Seq(A)
    BY DEF SessionHolds, IsStore, IsSeq
  <2> QED
    BY <2>1
<1>4. ASSUME NEW mode \in Modes, NEW match \in MatchConfigs, OpenSession(mode, match) PROVE ShapeHolds'
  <2> DEFINE named == LastOf({i \in DOMAIN runs : ~runs[i].fork})
  <2> DEFINE found == mode # "all" /\ named # 0
  <2> DEFINE s == [run |-> IF found THEN named ELSE Len(runs) + 1,
                   replays |-> found, records |-> CanRecord(mode, found),
                   fork |-> FALSE, drop |-> {}, from |-> 0, match |-> IF found THEN match ELSE {}]
  <2> DEFINE events == IF found THEN runs[named].events ELSE <<>>
  <2>1. runs' = (IF found THEN runs ELSE Append(runs, NewRun(<<>>, FALSE))) /\ Start(s, events)
    BY <1>4 DEF OpenSession
  <2>2. found => named \in DOMAIN runs
    BY <1>3, LastPosition
  <2>3. s # None /\ s.match \in MatchConfigs \cup {{}} /\ s.replays = found
    <3>1. (IF found THEN named ELSE Len(runs) + 1) \in Nat /\ (IF found THEN match ELSE {}) \in MatchConfigs \cup {{}}
      BY <1>3, <2>2
    <3>2. found \in BOOLEAN /\ CanRecord(mode, found) \in BOOLEAN
      BY DEF CanRecord
    <3> HIDE DEF named, found
    <3>3. s \in Sessions
      BY <3>1, <3>2 DEF Sessions
    <3> QED
      BY <3>1, <3>3, NoneAssumption
  <2> HIDE DEF s, named
  <2>4. StoreShape'
    BY <1>2, <2>1, NewRunShape DEF ShapeHolds, StoreShape
  <2> QED
    BY <1>1, <1>2, <2>1, <2>2, <2>3, <2>4, StartShape
<1>5. ASSUME NEW source \in DOMAIN runs, NEW drop \in Drops, NEW from \in 0 .. MaxOps,
             NEW match \in MatchConfigs, OpenFork(source, drop, from, match)
      PROVE  ShapeHolds'
  <2> DEFINE s == [run |-> ForkRun(source), replays |-> TRUE, records |-> TRUE,
                   fork |-> TRUE, drop |-> drop, from |-> from, match |-> match]
  <2> DEFINE first == <<[type |-> "intervention"]>>
  <2>1. runs' = Append(runs, NewRun(first, TRUE)) /\ Start(s, runs[source].events)
    BY <1>5 DEF OpenFork
  <2>2. IsSeq(first) /\ \A j \in DOMAIN first : IsEvent(first[j])
    BY ShortSeqs DEF IsEvent, EventTypes
  <2>3. s # None /\ s.match \in MatchConfigs \cup {{}} /\ s.replays
    <3>1. ForkRun(source) \in Nat /\ from \in Nat
      BY <1>3, BoundsAssumption DEF ForkRun
    <3>2. s \in Sessions
      BY <3>1 DEF Sessions
    <3> QED
      BY <3>2, NoneAssumption
  <2> HIDE DEF s, first
  <2>4. StoreShape'
    BY <2>1, <2>2, NewRunShape DEF ShapeHolds
  <2> QED
    BY <1>1, <2>1, <2>3, <2>4, StartShape
<1> QED
  BY <1>4, <1>5

\* close and crash: the run keeps its events.
LEMMA EndShape ==
    ASSUME SessionHolds, ShapeHolds,
           Crash \/ \E status \in {"ok", "error"} : CloseSession(status)
    PROVE  ShapeHolds'
<1>1. /\ Open /\ sess' = None /\ loaded' = <<>> /\ transcript' = <<>> /\ consumed' = {} /\ current' = 0
      /\ handle' = NoStream /\ report' = EmptyReport /\ cursor' = [k \in Keys |-> 0]
      /\ reading' = [p \in Threads |-> None] /\ scope' = [t \in ToolIds |-> None] /\ outcome' = None
      /\ UNCHANGED disk
  BY DEF Crash, CloseSession, End, worldVars
<1>2. ~Open' /\ IsSeq(<<>>) /\ \A p \in Threads : Idle(p)'
  BY <1>1, ShortSeqs DEF Open, Idle
<1>3. FreshSession'
  <2>1. ToolIds \subseteq Threads
    BY DEF Threads
  <2> QED
    BY <1>1, <1>2, <2>1 DEF FreshSession
<1>4. LoadedShape' /\ CallShape' /\ ToolShape' /\ WorldShape'
  BY <1>1, <1>2 DEF LoadedShape, CallShape, ToolShape, WorldShape, ShapeHolds
<1>5. CursorShape'
  <2>1. \A k : Entries(k)' = {}
    BY <1>1 DEF Entries, OfType
  <2>2. Cardinality({}) = 0
    BY FS_EmptySet
  <2>3. \A k \in Keys : cursor'[k] = 0 /\ Cardinality(Entries(k)') = 0
    BY <1>1, <2>1, <2>2
  <2> QED
    BY <2>3 DEF CursorShape
<1>6. StoreShape'
  <2>1. CASE UNCHANGED runs
    BY <2>1 DEF ShapeHolds, StoreShape
  <2>2. ASSUME NEW status \in {"ok", "error"}, runs' = [runs EXCEPT ![sess.run].status = status] PROVE StoreShape'
    <3> DEFINE k == sess.run
    <3> DEFINE r == [runs[k] EXCEPT !.status = status]
    <3>1. k \in DOMAIN runs /\ IsSeq(runs) /\ IsRun(runs[k]) /\ runs' = [runs EXCEPT ![k] = r]
      BY <1>1, <2>2 DEF SessionHolds, IsStore
    <3>2. r.events = runs[k].events /\ r.status = status
      BY <3>1 DEF IsRun
    <3> HIDE DEF r, k
    <3>3. DOMAIN runs' = DOMAIN runs /\ runs'[k] = r /\ \A i \in DOMAIN runs : i # k => runs'[i] = runs[i]
      BY <3>1, ReplacedInSeq
    <3> QED
      BY <3>1, <3>2, <3>3 DEF ShapeHolds, StoreShape
  <2> QED
    BY <2>1, <2>2 DEF Crash, CloseSession, Finish
<1> QED
  BY <1>3, <1>4, <1>5, <1>6 DEF ShapeHolds

\* Every step of the program keeps the shape of the state.
LEMMA ShapeStep ==
    ASSUME SessionHolds, CallsHold, ValuesHold, ShapeHolds, Next
    PROVE  ShapeHolds'
<1>1. ASSUME NEW f \in Paths, NEW c \in Contents, DiskChanges(f, c) PROVE ShapeHolds'
  <2>1. /\ UNCHANGED <<runs, transcript, sess, loaded, consumed, current, handle, report, cursor, reading, scope, outcome>>
        /\ disk' = [disk EXCEPT ![f] = c]
    BY <1>1 DEF DiskChanges, logVars, openVars, callVars, accessVars, toolVars
  <2>2. WorldShape'
    BY <2>1 DEF ShapeHolds, WorldShape
  <2>3. FreshSession' /\ StoreShape' /\ LoadedShape' /\ CallShape' /\ ToolShape'
    BY <2>1 DEF ShapeHolds, FreshSession, StoreShape, LoadedShape, CallShape, ToolShape, Open, Idle
  <2> QED
    BY <2>1, <2>2, <2>3, CursorsStay DEF ShapeHolds
<1>2. CASE \/ \E mode \in Modes, match \in MatchConfigs : OpenSession(mode, match)
           \/ \E source \in DOMAIN runs, drop \in Drops, from \in 0 .. MaxOps,
                 match \in MatchConfigs : OpenFork(source, drop, from, match)
  BY <1>2, OpenShape
<1>3. CASE \/ \E status \in {"ok", "error"} : CloseSession(status)
           \/ Crash
  BY <1>3, EndShape
<1>4. CASE \/ \E op \in Asks, raises \in Raises \cup {FALSE} : Ask(op, raises)
           \/ StreamNext
           \/ \E cut \in BOOLEAN : StreamEnd(cut)
  BY <1>4, AskShape, StreamShape
<1>5. CASE \/ \E p \in Threads : \E op \in AccessesOf(p) :
                 AccessLive(p, op[2], op[3]) \/ AccessBegin(p, op[2], op[3])
           \/ \E p \in Threads : AccessEnd(p)
  BY <1>5, AccessShape
<1>6. CASE \/ \E op \in {o \in Ops : o[1] = "tool"} : ToolCall(op[2], op[3])
           \/ \E t \in ToolIds, raises \in Raises \cup {FALSE} : ToolReturn(t, raises)
  <2>1. \A op \in {o \in Ops : o[1] = "tool"} : op[2] \in ToolIds
    BY OpsAssumption
  <2> QED
    BY <1>6, <2>1, ToolsShape
<1>7. CASE \E op \in {o \in Ops : o[1] = "outcome"} : Outcome(op[2])
  <2>1. \A op \in {o \in Ops : o[1] = "outcome"} : op[2] \in {"ok", "error"}
    BY OpsAssumption
  <2> QED
    BY <1>7, <2>1, OutcomeShape
<1>8. CASE \E f \in Paths, c \in Contents : DiskChanges(f, c)
  BY <1>1, <1>8
<1> QED
  BY <1>2, <1>3, <1>4, <1>5, <1>6, <1>7, <1>8 DEF Next

\* The shape of the state, always.
LEMMA ShapeAlways == Spec => []ShapeHolds
<1>1. Init => ShapeHolds
  <2> SUFFICES ASSUME Init PROVE ShapeHolds
    OBVIOUS
  <2>1. ~Open /\ IsSeq(<<>>) /\ \A p \in Threads : Idle(p)
    BY ShortSeqs DEF Init, Open, Idle
  <2>2. FreshSession
    <3>1. ToolIds \subseteq Threads
      BY DEF Threads
    <3> QED
      BY <2>1, <3>1 DEF Init, FreshSession
  <2>3. StoreShape /\ LoadedShape /\ CallShape /\ ToolShape /\ WorldShape
    BY <2>1 DEF Init, StoreShape, LoadedShape, CallShape, ToolShape, WorldShape
  <2>4. CursorShape
    <3>1. \A k : Entries(k) = {}
      BY DEF Init, Entries, OfType
    <3>2. Cardinality({}) = 0
      BY FS_EmptySet
    <3>3. \A k \in Keys : cursor[k] = 0 /\ Cardinality(Entries(k)) = 0
      BY <3>1, <3>2 DEF Init
    <3> QED
      BY <3>3 DEF CursorShape
  <2> QED
    BY <2>2, <2>3, <2>4 DEF ShapeHolds
<1>2. SessionHolds /\ CallsHold /\ ValuesHold /\ ShapeHolds /\ [Next]_vars => ShapeHolds'
  <2>1. ASSUME ShapeHolds, UNCHANGED vars PROVE ShapeHolds'
    <3>1. UNCHANGED <<runs, transcript, sess, loaded, consumed, current, handle, report, cursor, reading, scope,
                      outcome, disk>>
      BY <2>1 DEF vars, logVars, openVars, callVars, accessVars, toolVars, worldVars
    <3>2. FreshSession' /\ StoreShape' /\ LoadedShape' /\ CallShape' /\ ToolShape' /\ WorldShape'
      BY <2>1, <3>1 DEF ShapeHolds, FreshSession, StoreShape, LoadedShape, CallShape, ToolShape, WorldShape, Open, Idle
    <3> QED
      BY <2>1, <3>1, <3>2, CursorsStay DEF ShapeHolds
  <2> QED
    BY <2>1, ShapeStep
<1> QED
  BY <1>1, <1>2, SessionAlways, CallsAlways, ValuesAlways, PTL DEF Spec

\* The parts of TypeOK.
LEMMA ShapeIsTyped ==
    ASSUME SessionHolds, CallsHold, ValuesHold, ShapeHolds
    PROVE  TypeOK
  BY DEF SessionHolds, CallsHold, ValuesHold, LockHolds, ShapeHolds, StoreShape, LoadedShape, CallShape,
         CursorShape, ToolShape, WorldShape, IsEvent, TypeOK

-----------------------------------------------------------------------------
(***************************************************************************)
(* What the report counts.                                                 *)
(***************************************************************************)

IsReport(r) ==
    /\ r = [recorded |-> r.recorded, matched |-> r.matched, degraded |-> r.degraded,
            missed |-> r.missed, new |-> r.new]
    /\ r.recorded \in Nat /\ r.matched \in Nat /\ r.degraded \in Nat /\ r.missed \in Nat /\ r.new \in Nat

IsAsk(op) == op[1] \in {"create", "stream"}
\* The requests in a transcript with these blocks, redacted, the one whose stream is open, and
\* the recorded calls that answered.
AsksOf(tr, blocks) == {i \in DOMAIN tr : IsAsk(tr[i].op) /\ RedactAll(tr[i].op[3]) = blocks}
AskedNow(h, blocks) == IF h # NoStream /\ RedactAll(h.op[3]) = blocks THEN 1 ELSE 0
AnswersTo(log, answers, blocks) == {i \in answers : log[i].blocks = blocks}
Balanced(tr, h, log, answers) ==
    \A blocks : Cardinality(AsksOf(tr, blocks)) + AskedNow(h, blocks) = Cardinality(AnswersTo(log, answers, blocks))

\* While nothing was missed or degraded, each request was answered by a recorded call
\* with the same blocks.
Exact == sess.replays /\ ~sess.fork /\ report.missed = 0 /\ report.degraded = 0
ReportHolds ==
    /\ IsReport(report)
    /\ Open => report.recorded = Cardinality(OfType(loaded, "model_call"))
    /\ Open /\ Exact => /\ report.matched = Cardinality(consumed)
                        /\ Balanced(transcript, handle, loaded, consumed)

\* The sets that are counted are finite.
LEMMA CountedFinite ==
    ASSUME ShapeHolds
    PROVE  /\ IsFiniteSet(OfType(loaded, "model_call")) /\ IsFiniteSet(consumed) /\ IsFiniteSet(DOMAIN transcript)
           /\ \A b : IsFiniteSet(AsksOf(transcript, b)) /\ IsFiniteSet(AnswersTo(loaded, consumed, b))
           /\ \A b : Cardinality(AsksOf(transcript, b)) \in Nat /\ Cardinality(AnswersTo(loaded, consumed, b)) \in Nat
           /\ Cardinality(consumed) \in Nat /\ Cardinality(OfType(loaded, "model_call")) \in Nat
<1>1. IsFiniteSet(DOMAIN loaded)
  BY EntriesFinite
<1>2. OfType(loaded, "model_call") \in SUBSET DOMAIN loaded /\ consumed \in SUBSET DOMAIN loaded
  BY DEF OfType, ShapeHolds, CallShape
<1>3. IsFiniteSet(DOMAIN transcript)
  <2>1. PICK A : transcript \in Seq(A)
    BY DEF ShapeHolds, ToolShape, IsSeq
  <2>2. DOMAIN transcript = 1 .. Len(transcript) /\ Len(transcript) \in Nat
    BY <2>1
  <2> QED
    BY <2>2, FS_Interval
<1>4. IsFiniteSet(OfType(loaded, "model_call")) /\ IsFiniteSet(consumed)
  BY <1>1, <1>2, FS_Subset
<1>5. \A b : AsksOf(transcript, b) \in SUBSET DOMAIN transcript /\ AnswersTo(loaded, consumed, b) \in SUBSET consumed
  BY DEF AsksOf, AnswersTo
<1>6. \A b : IsFiniteSet(AsksOf(transcript, b)) /\ IsFiniteSet(AnswersTo(loaded, consumed, b))
  BY <1>3, <1>4, <1>5, FS_Subset
<1> QED
  BY <1>3, <1>4, <1>6, FS_CardinalityType

\* The agent does something else than ask a model.
LEMMA AsksStay ==
    ASSUME NEW tr, IsSeq(tr), NEW op, NEW obs, ~IsAsk(op), NEW b
    PROVE  AsksOf(Append(tr, Entry(op, obs)), b) = AsksOf(tr, b)
<1> DEFINE x == Entry(op, obs)
<1> DEFINE new == Append(tr, x)
<1>1. x.op = op
  BY DEF Entry
<1> HIDE DEF x
<1>2. /\ DOMAIN new = DOMAIN tr \cup {Len(tr) + 1} /\ new[Len(tr) + 1] = x
      /\ \A i \in DOMAIN tr : new[i] = tr[i]
  BY Appended
<1> HIDE DEF new
<1>3. AsksOf(new, b) = AsksOf(tr, b)
  BY <1>1, <1>2 DEF AsksOf
<1> QED
  BY <1>3 DEF new, x

\* The agent asks a model.
LEMMA AsksGrow ==
    ASSUME ShapeHolds, NEW op, NEW obs, IsAsk(op), NEW b
    PROVE  Cardinality(AsksOf(Append(transcript, Entry(op, obs)), b))
               = Cardinality(AsksOf(transcript, b)) + (IF RedactAll(op[3]) = b THEN 1 ELSE 0)
<1> DEFINE x == Entry(op, obs)
<1> DEFINE new == Append(transcript, x)
<1> DEFINE n == Len(transcript) + 1
<1>1. x.op = op
  BY DEF Entry
<1> HIDE DEF x
<1>2. /\ DOMAIN new = DOMAIN transcript \cup {n} /\ new[n] = x /\ n \notin DOMAIN transcript
      /\ \A i \in DOMAIN transcript : new[i] = transcript[i]
  BY Appended DEF ShapeHolds, ToolShape
<1> HIDE DEF new, n
<1>3. AsksOf(new, b) = IF RedactAll(op[3]) = b THEN AsksOf(transcript, b) \cup {n} ELSE AsksOf(transcript, b)
  BY <1>1, <1>2 DEF AsksOf
<1>4. n \notin AsksOf(transcript, b)
  BY <1>2 DEF AsksOf
<1>5. IsFiniteSet(AsksOf(transcript, b)) /\ Cardinality(AsksOf(transcript, b)) \in Nat
  BY CountedFinite
<1>6. Cardinality(AsksOf(transcript, b) \cup {n}) = Cardinality(AsksOf(transcript, b)) + 1
  BY <1>4, <1>5, FS_AddElement
<1>7. Cardinality(AsksOf(new, b)) = Cardinality(AsksOf(transcript, b)) + (IF RedactAll(op[3]) = b THEN 1 ELSE 0)
  BY <1>3, <1>5, <1>6
<1> QED
  BY <1>7 DEF new, x

\* A step that asks no model.
LEMMA ReportStays ==
    ASSUME ShapeHolds, ReportHolds, UNCHANGED <<sess, loaded, consumed, handle, report>>,
           \/ UNCHANGED transcript
           \/ \E op, obs : ~IsAsk(op) /\ transcript' = Append(transcript, Entry(op, obs))
           \/ \E at, obs : at \in DOMAIN transcript /\ transcript' = [transcript EXCEPT ![at] = Entry(transcript[at].op, obs)]
    PROVE  ReportHolds'
<1>1. \A b : AsksOf(transcript', b) = AsksOf(transcript, b)
  <2>1. IsSeq(transcript)
    BY DEF ShapeHolds, ToolShape
  <2>2. ASSUME NEW op, NEW obs, ~IsAsk(op), transcript' = Append(transcript, Entry(op, obs)), NEW b
        PROVE  AsksOf(transcript', b) = AsksOf(transcript, b)
    BY <2>1, <2>2, AsksStay
  <2>3. ASSUME NEW at \in DOMAIN transcript, NEW obs, transcript' = [transcript EXCEPT ![at] = Entry(transcript[at].op, obs)],
               NEW b
        PROVE  AsksOf(transcript', b) = AsksOf(transcript, b)
    <3> DEFINE x == Entry(transcript[at].op, obs)
    <3>1. x.op = transcript[at].op
      BY DEF Entry
    <3> HIDE DEF x
    <3>2. DOMAIN transcript' = DOMAIN transcript /\ transcript'[at] = x /\ \A i \in DOMAIN transcript : i # at => transcript'[i] = transcript[i]
      BY <2>1, <2>3, ReplacedInSeq DEF x
    <3>3. \A i \in DOMAIN transcript : transcript'[i].op = transcript[i].op
      BY <3>1, <3>2
    <3> QED
      BY <3>2, <3>3 DEF AsksOf
  <2> QED
    BY <2>2, <2>3
<1>2. Balanced(transcript, handle, loaded, consumed) => Balanced(transcript, handle, loaded, consumed)'
  BY <1>1 DEF Balanced
<1> QED
  BY <1>2 DEF ReportHolds, Exact, Open

\* ReplayReport after a call: what it says of hits and misses.
LEMMA CountedIs ==
    ASSUME IsReport(report), NEW hit
    PROVE  /\ IsReport(Counted(hit)) /\ Counted(hit).recorded = report.recorded
           /\ sess.replays /\ Counted(hit).missed = 0 /\ Counted(hit).degraded = 0 =>
                  /\ hit # 0 /\ "messages_hash" \in sess.match
                  /\ report.missed = 0 /\ report.degraded = 0 /\ Counted(hit).matched = report.matched + 1
<1> DEFINE a == [report EXCEPT !.missed = @ + 1]
<1> DEFINE b == [report EXCEPT !.matched = @ + 1]
<1> DEFINE c == [report EXCEPT !.degraded = @ + 1]
<1>1. /\ IsReport(a) /\ a.recorded = report.recorded /\ a.missed = report.missed + 1
  BY DEF IsReport
<1>2. /\ IsReport(b) /\ b.recorded = report.recorded /\ b.missed = report.missed
      /\ b.degraded = report.degraded /\ b.matched = report.matched + 1
  BY DEF IsReport
<1>3. /\ IsReport(c) /\ c.recorded = report.recorded /\ c.degraded = report.degraded + 1
  BY DEF IsReport
<1>4. /\ ~sess.replays => Counted(hit) = report
      /\ sess.replays /\ hit = 0 => Counted(hit) = a
      /\ sess.replays /\ hit # 0 /\ "messages_hash" \in sess.match => Counted(hit) = b
      /\ sess.replays /\ hit # 0 /\ "messages_hash" \notin sess.match => Counted(hit) = c
  BY DEF Counted
<1>5. report.missed + 1 # 0 /\ report.degraded + 1 # 0
  BY DEF IsReport
<1> HIDE DEF a, b, c
<1> QED
  BY <1>1, <1>2, <1>3, <1>4, <1>5

\* A call that was new is counted beside.
LEMMA CountedNewIs ==
    ASSUME NEW r, IsReport(r)
    PROVE  /\ IsReport(CountedNew(r)) /\ CountedNew(r).recorded = r.recorded /\ CountedNew(r).matched = r.matched
           /\ CountedNew(r).missed = r.missed /\ CountedNew(r).degraded = r.degraded
<1> DEFINE n == IF sess.replays THEN r.new + 1 ELSE r.new
<1>1. CountedNew(r) = [r EXCEPT !.new = n]
  BY DEF CountedNew
<1>2. n \in Nat
  BY DEF IsReport
<1> HIDE DEF n
<1> QED
  BY <1>1, <1>2 DEF IsReport

\* An open stream is open.
LEMMA HandleIsOpen == ASSUME NEW h, IsHandle(h) PROVE h # NoStream
<1>1. h.open = TRUE
  BY DEF IsHandle
<1>2. NoStream.open = FALSE
  BY DEF NoStream
<1> QED
  BY <1>1, <1>2

\* A recorded call answers a request it was not yet used for.
LEMMA AnswerBalances ==
    ASSUME SessionHolds, ShapeHolds, ReportHolds, Open, handle = NoStream, NEW op \in Asks,
           NEW hit \in OfType(loaded, "model_call") \ consumed, loaded[hit].blocks = RedactAll(op[3]),
           Balanced(transcript, handle, loaded, consumed), ServeCall(hit, op)
    PROVE  Balanced(transcript', handle', loaded, consumed')
<1>1. consumed' = consumed \cup {hit}
  BY DEF ServeCall
<1>2. \/ UNCHANGED transcript /\ handle' = [open |-> TRUE, event |-> loaded[hit], op |-> op, taken |-> 0, live |-> FALSE]
      \/ handle' = NoStream /\ \E obs : transcript' = Append(transcript, Entry(op, obs))
  BY SawRun DEF ServeCall, logVars
<1>3. IsAsk(op)
  BY DEF Asks, IsAsk
<1> SUFFICES ASSUME NEW b
             PROVE  Cardinality(AsksOf(transcript', b)) + AskedNow(handle', b) = Cardinality(AnswersTo(loaded, consumed', b))
  BY DEF Balanced
<1> DEFINE one == IF RedactAll(op[3]) = b THEN 1 ELSE 0
<1>4. Cardinality(AnswersTo(loaded, consumed', b)) = Cardinality(AnswersTo(loaded, consumed, b)) + one
  <2>1. AnswersTo(loaded, consumed', b)
            = IF RedactAll(op[3]) = b THEN AnswersTo(loaded, consumed, b) \cup {hit} ELSE AnswersTo(loaded, consumed, b)
    BY <1>1 DEF AnswersTo
  <2>2. /\ hit \notin AnswersTo(loaded, consumed, b) /\ IsFiniteSet(AnswersTo(loaded, consumed, b))
        /\ Cardinality(AnswersTo(loaded, consumed, b)) \in Nat
    BY CountedFinite DEF AnswersTo
  <2>3. Cardinality(AnswersTo(loaded, consumed, b) \cup {hit}) = Cardinality(AnswersTo(loaded, consumed, b)) + 1
    BY <2>2, FS_AddElement
  <2> QED
    BY <2>1, <2>2, <2>3
<1>5. Cardinality(AsksOf(transcript, b)) = Cardinality(AnswersTo(loaded, consumed, b)) /\ Cardinality(AsksOf(transcript, b)) \in Nat
  <2>1. /\ Cardinality(AsksOf(transcript, b)) + AskedNow(handle, b) = Cardinality(AnswersTo(loaded, consumed, b))
        /\ Cardinality(AsksOf(transcript, b)) \in Nat /\ AskedNow(handle, b) = 0
    BY CountedFinite DEF Balanced, AskedNow
  <2> QED
    BY <2>1
<1>6. CASE UNCHANGED transcript /\ handle' = [open |-> TRUE, event |-> loaded[hit], op |-> op, taken |-> 0, live |-> FALSE]
  <2>1. IsHandle(handle') /\ handle'.op = op
    BY <1>6 DEF IsHandle
  <2>2. AskedNow(handle', b) = one
    BY <2>1, HandleIsOpen DEF AskedNow
  <2> QED
    BY <1>4, <1>5, <1>6, <2>2
<1>7. CASE handle' = NoStream /\ \E obs : transcript' = Append(transcript, Entry(op, obs))
  <2>1. AskedNow(handle', b) = 0 /\ Cardinality(AsksOf(transcript', b)) = Cardinality(AsksOf(transcript, b)) + one
    BY <1>3, <1>7, AsksGrow DEF AskedNow
  <2> QED
    BY <1>4, <1>5, <2>1
<1> QED
  BY <1>2, <1>6, <1>7

\* CallMatcher.match with the messages' hash finds a call with the same blocks.
LEMMA HitAgrees ==
    ASSUME ShapeHolds, NEW m, NEW blocks, Hit(m, blocks) # 0
    PROVE  \A q \in sess.match : Matches(q, loaded[Hit(m, blocks)], m, blocks)
<1> DEFINE S == {i \in OfType(loaded, "model_call") \ consumed :
                     \A q \in sess.match : Matches(q, loaded[i], m, blocks)}
<1>1. PICK A : loaded \in Seq(A)
  BY DEF ShapeHolds, LoadedShape, IsSeq
<1>2. S \subseteq Nat
  BY <1>1 DEF OfType
<1>3. Hit(m, blocks) = FirstOf(S)
  BY DEF Hit
<1> HIDE DEF S
<1>4. Hit(m, blocks) \in S
  BY <1>2, <1>3, FirstPosition
<1> QED
  BY <1>4 DEF S

\* Model.create and Model.stream.
LEMMA AskReport ==
    ASSUME SessionHolds, ShapeHolds, ReportHolds, NEW op \in Asks, NEW raises, Ask(op, raises)
    PROVE  ReportHolds'
<1>1. Open /\ handle = NoStream /\ UNCHANGED <<sess, loaded>> /\ IsReport(report)
  BY DEF Ask, AgentReady, openVars, ReportHolds
<1> DEFINE blocks == TurnMessages(op[3])
<1> DEFINE hit == Hit(op[2], blocks)
<1>2. \/ hit # 0 /\ ServeCall(hit, op)
      \/ hit = 0 /\ (RefuseCall(op) \/ SendCall(op[2], blocks, op, raises))
  BY DEF Ask
<1>3. report' = Counted(hit) \/ (hit = 0 /\ report' = CountedNew(Counted(hit)))
  BY <1>2 DEF ServeCall, RefuseCall, SendCall
<1>4. hit # 0 => /\ hit \in OfType(loaded, "model_call") \ consumed
                 /\ \A q \in sess.match : Matches(q, loaded[hit], op[2], blocks)
  BY HitIsLoaded, HitAgrees
<1>5. ~sess.fork => blocks = op[3]
  BY DEF TurnMessages
<1> HIDE DEF hit, blocks
<1>6. IsReport(report') /\ report'.recorded = report.recorded
  BY <1>1, <1>3, CountedIs, CountedNewIs
<1>7. ASSUME Exact' PROVE report'.matched = Cardinality(consumed') /\ Balanced(transcript', handle', loaded, consumed')
  <2>1. /\ hit # 0 /\ "messages_hash" \in sess.match /\ Exact /\ report'.matched = report.matched + 1
    BY <1>1, <1>3, <1>7, CountedIs, CountedNewIs DEF Exact
  <2>2. ServeCall(hit, op) /\ loaded[hit].blocks = RedactAll(op[3])
    <3>1. Matches("messages_hash", loaded[hit], op[2], op[3])
      BY <1>4, <1>5, <2>1 DEF Exact
    <3> QED
      BY <1>2, <2>1, <3>1 DEF Matches
  <2>3. report.matched = Cardinality(consumed) /\ Balanced(transcript, handle, loaded, consumed)
    BY <1>1, <2>1 DEF ReportHolds
  <2>4. Cardinality(consumed') = Cardinality(consumed) + 1
    <3>1. consumed' = consumed \cup {hit} /\ hit \notin consumed /\ IsFiniteSet(consumed)
      BY <1>4, <2>1, <2>2, CountedFinite DEF ServeCall
    <3> QED
      BY <3>1, FS_AddElement
  <2>5. Balanced(transcript', handle', loaded, consumed')
    BY <1>1, <1>4, <2>1, <2>2, <2>3, AnswerBalances
  <2> QED
    BY <2>1, <2>3, <2>4, <2>5
<1> QED
  BY <1>1, <1>6, <1>7 DEF ReportHolds, Open

\* A stream's operation with the chunks that were taken.
LEMMA Extended ==
    ASSUME NEW op, op = <<op[1], op[2], op[3]>>, NEW n
    PROVE  /\ Append(op, n)[1] = op[1] /\ Append(op, n)[2] = op[2] /\ Append(op, n)[3] = op[3]
           /\ Append(op, n)[4] = n /\ Len(Append(op, n)) = 4
<1> DEFINE a == op[1]
<1> DEFINE b == op[2]
<1> DEFINE c == op[3]
<1>1. op = <<a, b, c>>
  OBVIOUS
<1> HIDE DEF a, b, c
<1>2. op \in Seq({a, b, c}) /\ Len(op) = 3
  BY <1>1
<1>3. IsSeq(op) /\ DOMAIN op = 1 .. 3 /\ Len(op) + 1 = 4
  BY <1>2 DEF IsSeq
<1>4. /\ Append(op, n)[Len(op) + 1] = n /\ Len(Append(op, n)) = Len(op) + 1
      /\ \A i \in 1 .. 3 : Append(op, n)[i] = op[i]
  BY <1>3, Appended
<1> QED
  BY <1>3, <1>4

\* The stream of a handle is one request until it ends, and then.
LEMMA StreamReport ==
    ASSUME SessionHolds, ShapeHolds, ReportHolds, StreamNext \/ \E cut \in BOOLEAN : StreamEnd(cut)
    PROVE  ReportHolds'
<1>1. Open /\ handle # NoStream /\ UNCHANGED <<sess, loaded, consumed>> /\ IsReport(report)
  BY DEF StreamNext, StreamEnd, AgentReady, openVars, ReportHolds
<1>2. IsHandle(handle) /\ handle.op \in Asks /\ handle.op[1] = "stream"
  BY <1>1, HandleHolds DEF ShapeHolds, CallShape
<1>3. CASE StreamNext
  <2>1. handle' = [handle EXCEPT !.taken = @ + 1] /\ UNCHANGED <<transcript, report>>
    BY <1>3 DEF StreamNext, logVars
  <2>2. IsHandle(handle') /\ handle'.op = handle.op
    BY <1>2, <2>1, ChunkTaken
  <2>3. \A b : AskedNow(handle', b) = AskedNow(handle, b)
    BY <1>1, <2>2, HandleIsOpen DEF AskedNow
  <2>4. Balanced(transcript, handle, loaded, consumed) => Balanced(transcript, handle, loaded, consumed)'
    BY <1>1, <2>1, <2>3 DEF Balanced
  <2> QED
    BY <1>1, <2>1, <2>4 DEF ReportHolds, Exact, Open
<1>4. ASSUME NEW cut \in BOOLEAN, StreamEnd(cut) PROVE ReportHolds'
  <2> DEFINE op == Append(handle.op, handle.taken)
  <2>1. /\ handle' = NoStream /\ (report' = report \/ report' = CountedNew(report))
        /\ \E obs, events : Saw(op, obs, events)
    BY <1>4 DEF StreamEnd, Spent
  <2>2. IsAsk(op) /\ op[3] = handle.op[3]
    <3>1. handle.op = <<handle.op[1], handle.op[2], handle.op[3]>>
      BY <1>2, OpsAssumption DEF Asks
    <3>2. op[1] = handle.op[1] /\ op[3] = handle.op[3]
      BY <3>1, Extended
    <3> QED
      BY <1>2, <3>2 DEF IsAsk
  <2> HIDE DEF op
  <2>3. \E obs : transcript' = Append(transcript, Entry(op, obs))
    BY <1>1, <2>1, SawRun
  <2>4. /\ IsReport(report') /\ report'.recorded = report.recorded /\ report'.matched = report.matched
        /\ report'.missed = report.missed /\ report'.degraded = report.degraded
    BY <1>1, <2>1, CountedNewIs
  <2>5. ASSUME Balanced(transcript, handle, loaded, consumed) PROVE Balanced(transcript', handle', loaded, consumed)
    <3> SUFFICES ASSUME NEW b
                 PROVE  Cardinality(AsksOf(transcript', b)) + AskedNow(handle', b) = Cardinality(AnswersTo(loaded, consumed, b))
      BY DEF Balanced
    <3>1. /\ AskedNow(handle', b) = 0 /\ AskedNow(handle, b) = (IF RedactAll(op[3]) = b THEN 1 ELSE 0)
          /\ Cardinality(AsksOf(transcript', b)) = Cardinality(AsksOf(transcript, b)) + (IF RedactAll(op[3]) = b THEN 1 ELSE 0)
      BY <1>1, <2>1, <2>2, <2>3, AsksGrow DEF AskedNow
    <3>2. Cardinality(AsksOf(transcript, b)) \in Nat
      BY CountedFinite
    <3> QED
      BY <2>5, <3>1, <3>2 DEF Balanced
  <2> QED
    BY <1>1, <2>4, <2>5 DEF ReportHolds, Exact, Open
<1> QED
  BY <1>3, <1>4

\* What a live access or one from the recording adds to the transcript.
LEMMA AccessSeen ==
    ASSUME SessionHolds, NEW p, NEW key, NEW data, AccessLive(p, key, data) \/ AccessBegin(p, key, data) \/ AccessEnd(p)
    PROVE  \/ UNCHANGED transcript
           \/ \E op, obs : ~IsAsk(op) /\ transcript' = Append(transcript, Entry(op, obs))
<1>1. Open
  BY DEF AccessLive, AccessBegin, AccessEnd, MayAccess
<1>2. ASSUME NEW k, NEW d, NEW obs, NEW events, SawIn(p, <<"access", k, d>>, obs, events)
      PROVE  \/ UNCHANGED transcript
             \/ \E op, o : ~IsAsk(op) /\ transcript' = Append(transcript, Entry(op, o))
  <2> DEFINE op == <<"access", k, d>>
  <2>1. ~IsAsk(op)
    BY DEF IsAsk
  <2> HIDE DEF op
  <2>2. UNCHANGED transcript \/ Saw(op, obs, events)
    BY <1>2 DEF SawIn, op
  <2> QED
    BY <1>1, <2>1, <2>2, SawRun
<1>3. \/ UNCHANGED transcript
      \/ \E k, d, obs, events : SawIn(p, <<"access", k, d>>, obs, events)
  BY DEF AccessLive, AccessBegin, AccessEnd, Live, ServeAccess, logVars
<1> QED
  BY <1>2, <1>3

\* Every step of the program keeps the report honest.
LEMMA ReportStep ==
    ASSUME SessionHolds, ShapeHolds, ReportHolds, Next
    PROVE  ReportHolds'
<1>1. ASSUME NEW s, NEW events, Start(s, events), IsSeq(events) PROVE ReportHolds'
  <2> DEFINE n == Cardinality(OfType(events, "model_call"))
  <2>1. /\ ~Open /\ sess' = s /\ loaded' = events /\ UNCHANGED <<transcript, consumed, handle>>
        /\ report' = [EmptyReport EXCEPT !.recorded = n]
    BY <1>1 DEF Start
  <2>2. transcript = <<>> /\ consumed = {} /\ handle = NoStream
    BY <2>1 DEF ShapeHolds, FreshSession
  <2>3. n \in Nat
    <3>1. PICK A : events \in Seq(A)
      BY <1>1 DEF IsSeq
    <3>2. DOMAIN events = 1 .. Len(events) /\ Len(events) \in Nat
      BY <3>1
    <3>3. OfType(events, "model_call") \in SUBSET DOMAIN events
      BY DEF OfType
    <3>4. IsFiniteSet(DOMAIN events)
      BY <3>2, FS_Interval
    <3>5. IsFiniteSet(OfType(events, "model_call"))
      BY <3>3, <3>4, FS_Subset
    <3> QED
      BY <3>5, FS_CardinalityType
  <2> HIDE DEF n
  <2>4. IsReport(report') /\ report'.recorded = n /\ report'.matched = 0
    BY <2>1, <2>3 DEF IsReport, EmptyReport
  <2>5. \A b : AsksOf(<<>>, b) = {} /\ AnswersTo(events, {}, b) = {} /\ AskedNow(NoStream, b) = 0
    BY DEF AsksOf, AnswersTo, AskedNow
  <2>6. Cardinality({}) = 0
    BY FS_EmptySet
  <2>7. Balanced(<<>>, NoStream, events, {})
    BY <2>5, <2>6 DEF Balanced
  <2> QED
    BY <2>1, <2>2, <2>4, <2>6, <2>7 DEF ReportHolds, n
<1>2. ASSUME NEW mode \in Modes, NEW match, OpenSession(mode, match) PROVE ReportHolds'
  <2> DEFINE named == LastOf({i \in DOMAIN runs : ~runs[i].fork})
  <2>1. named = 0 \/ named \in DOMAIN runs
    <3>1. PICK A : runs \in Seq(A)
      BY DEF SessionHolds, IsStore, IsSeq
    <3>2. Len(runs) \in Nat /\ DOMAIN runs = 1 .. Len(runs)
      BY <3>1
    <3> QED
      BY <3>2, LastPosition
  <2>2. \E s : Start(s, <<>>) \/ (named # 0 /\ Start(s, runs[named].events))
    BY <1>2 DEF OpenSession
  <2> HIDE DEF named
  <2> QED
    BY <1>1, <2>1, <2>2, ShortSeqs DEF SessionHolds, IsStore, IsRun
<1>3. ASSUME NEW source \in DOMAIN runs, NEW drop, NEW from, NEW match, OpenFork(source, drop, from, match)
      PROVE  ReportHolds'
  <2>1. \E s : Start(s, runs[source].events)
    BY <1>3 DEF OpenFork
  <2> QED
    BY <1>1, <2>1 DEF SessionHolds, IsStore, IsRun
<1>4. ASSUME End PROVE ReportHolds'
  <2>1. report' = EmptyReport /\ ~Open'
    BY <1>4 DEF End, Open
  <2> QED
    BY <2>1 DEF ReportHolds, IsReport, EmptyReport
<1>5. ASSUME NEW p, NEW key, NEW data, AccessLive(p, key, data) \/ AccessBegin(p, key, data) \/ AccessEnd(p)
      PROVE  ReportHolds'
  BY <1>5, AccessSeen, ReportStays DEF AccessLive, AccessBegin, AccessEnd, openVars, callVars
<1>6. ASSUME NEW t, NEW args, ToolCall(t, args) PROVE ReportHolds'
  <2> DEFINE op == <<"tool", t, args>>
  <2>1. ~IsAsk(op)
    BY DEF IsAsk
  <2>2. Open /\ (\E obs : Saw(op, obs, <<>>)) /\ UNCHANGED <<sess, loaded, consumed, handle, report>>
    BY <1>6 DEF ToolCall, openVars, callVars
  <2> HIDE DEF op
  <2> QED
    BY <2>1, <2>2, SawRun, ReportStays
<1>7. ASSUME NEW t \in ToolIds, NEW raises, ToolReturn(t, raises) PROVE ReportHolds'
  <2>1. \E at : Returns(t, raises, at)
    BY <1>7, ToolReturns
  <2>2. UNCHANGED <<sess, loaded, consumed, handle, report>>
    BY <1>7 DEF ToolReturn, openVars, callVars
  <2> QED
    BY <2>1, <2>2, ReportStays DEF Returns
<1>8. ASSUME NEW status, Outcome(status) PROVE ReportHolds'
  <2> DEFINE op == <<"outcome", status>>
  <2>1. ~IsAsk(op)
    BY DEF IsAsk
  <2>2. Open /\ (\E obs, events : Saw(op, obs, events)) /\ UNCHANGED <<sess, loaded, consumed, handle, report>>
    BY <1>8 DEF Outcome, AgentReady, openVars, callVars
  <2> HIDE DEF op
  <2> QED
    BY <2>1, <2>2, SawRun, ReportStays
<1>9. ASSUME NEW f, NEW c, DiskChanges(f, c) PROVE ReportHolds'
  BY <1>9, ReportStays DEF DiskChanges, logVars, openVars, callVars
<1>10. CASE \/ \E mode \in Modes, match \in MatchConfigs : OpenSession(mode, match)
            \/ \E source \in DOMAIN runs, drop \in Drops, from \in 0 .. MaxOps,
                  match \in MatchConfigs : OpenFork(source, drop, from, match)
            \/ \E status \in {"ok", "error"} : CloseSession(status)
            \/ Crash
  BY <1>2, <1>3, <1>4, <1>10 DEF CloseSession, Crash
<1>11. CASE \/ \E op \in Asks, raises \in Raises \cup {FALSE} : Ask(op, raises)
            \/ StreamNext
            \/ \E cut \in BOOLEAN : StreamEnd(cut)
  BY <1>11, AskReport, StreamReport
<1>12. CASE \/ \E p \in Threads : \E op \in AccessesOf(p) :
                  AccessLive(p, op[2], op[3]) \/ AccessBegin(p, op[2], op[3])
            \/ \E p \in Threads : AccessEnd(p)
  BY <1>5, <1>12
<1>13. CASE \/ \E op \in {o \in Ops : o[1] = "tool"} : ToolCall(op[2], op[3])
            \/ \E t \in ToolIds, raises \in Raises \cup {FALSE} : ToolReturn(t, raises)
            \/ \E op \in {o \in Ops : o[1] = "outcome"} : Outcome(op[2])
            \/ \E f \in Paths, c \in Contents : DiskChanges(f, c)
  BY <1>6, <1>7, <1>8, <1>9, <1>13
<1> QED
  BY <1>10, <1>11, <1>12, <1>13 DEF Next

\* The report counts what was served, always.
LEMMA ReportAlways == Spec => []ReportHolds
<1>1. Init => ReportHolds
  BY DEF Init, ReportHolds, IsReport, EmptyReport, Open
<1>2. SessionHolds /\ ShapeHolds /\ ReportHolds /\ [Next]_vars => ReportHolds'
  <2>1. ASSUME ShapeHolds, ReportHolds, UNCHANGED vars PROVE ReportHolds'
    BY <2>1, ReportStays DEF vars, logVars, openVars, callVars
  <2> QED
    BY <2>1, ReportStep
<1> QED
  BY <1>1, <1>2, SessionAlways, ShapeAlways, PTL DEF Spec

\* If every recorded call was served, each request was sent as often as recorded.
LEMMA ExactReport ==
    ASSUME SessionHolds, ShapeHolds, ReportHolds
    PROVE  ReportIsHonest
<1> SUFFICES ASSUME Open, sess.replays, ~sess.fork, handle = NoStream, ~PluginFails, NEW op \in Asks
             PROVE  Cardinality(AsksOf(transcript, RedactAll(op[3])))
                        = Cardinality(AnswersTo(loaded, OfType(loaded, "model_call"), RedactAll(op[3])))
  BY DEF ReportIsHonest, AsksOf, AnswersTo, IsAsk
<1>1. report.missed = 0 /\ report.degraded = 0 /\ report.recorded - report.matched - report.degraded = 0
  BY DEF PluginFails, Unconsumed
<1>2. /\ report.matched = Cardinality(consumed) /\ Balanced(transcript, handle, loaded, consumed)
      /\ report.recorded = Cardinality(OfType(loaded, "model_call"))
  BY <1>1 DEF ReportHolds, Exact
<1>3. Cardinality(consumed) = Cardinality(OfType(loaded, "model_call"))
  BY <1>1, <1>2 DEF ReportHolds, IsReport
<1>4. consumed = OfType(loaded, "model_call")
  <2>1. IsFiniteSet(OfType(loaded, "model_call")) /\ consumed \in SUBSET OfType(loaded, "model_call")
    BY CountedFinite DEF ShapeHolds, CallShape
  <2> QED
    BY <1>3, <2>1, FS_Subset
<1>5. Cardinality(AsksOf(transcript, RedactAll(op[3]))) + 0
          = Cardinality(AnswersTo(loaded, consumed, RedactAll(op[3])))
  BY <1>2 DEF Balanced, AskedNow
<1>6. Cardinality(AsksOf(transcript, RedactAll(op[3]))) \in Nat
  BY CountedFinite
<1> QED
  BY <1>4, <1>5, <1>6

-----------------------------------------------------------------------------
(***************************************************************************)
(* What an open session appends to its run.                                *)
(***************************************************************************)

\* At most one event is appended; a replay leaves the script alone; and an outcome is
\* appended only if it is the one the session has.
RunStep ==
    \E events, script :
        /\ RunBecomes(events, script) /\ (sess.replays => script = runs[sess.run].script)
        /\ \/ events = <<>> /\ UNCHANGED outcome
           \/ \E e : /\ events = <<e>> /\ e.type # "outcome" /\ UNCHANGED outcome
           \/ \E e : /\ events = <<e>> /\ e.type = "outcome" /\ e.status = outcome'
                     /\ outcome \in {None, outcome'}

\* Nothing is appended.
LEMMA NothingRuns ==
    ASSUME SessionHolds, Open, UNCHANGED <<runs, outcome>>
    PROVE  RunStep /\ RunBecomes(<<>>, runs[sess.run].script)
<1>1. IsSeq(runs[sess.run].events)
  BY DEF SessionHolds, IsStore, IsRun
<1>2. RunBecomes(<<>>, runs[sess.run].script)
  BY <1>1, JoinedNothing DEF RunBecomes
<1> QED
  BY <1>2 DEF RunStep

\* The agent sees something, and at most one event is appended.
LEMMA SawStep ==
    ASSUME SessionHolds, Open, UNCHANGED outcome, NEW op, NEW obs, NEW e,
           Saw(op, obs, <<>>) \/ (Saw(op, obs, <<e>>) /\ e.type # "outcome")
    PROVE  RunStep
<1>1. \/ RunBecomes(<<>>, ScriptWith(Entry(op, obs)))
      \/ RunBecomes(<<e>>, ScriptWith(Entry(op, obs))) /\ e.type # "outcome"
  BY SawRun
<1>2. sess.replays => ScriptWith(Entry(op, obs)) = runs[sess.run].script
  BY DEF ScriptWith
<1> QED
  BY <1>1, <1>2 DEF RunStep

\* The same for the agent or a tool.
LEMMA SawInStep ==
    ASSUME SessionHolds, Open, UNCHANGED outcome, NEW p, NEW op, NEW obs, NEW e,
           SawIn(p, op, obs, <<>>) \/ (SawIn(p, op, obs, <<e>>) /\ e.type # "outcome")
    PROVE  RunStep
<1>1. CASE p = Main
  BY <1>1, SawStep DEF SawIn
<1>2. CASE p # Main
  <2>1. \/ RunBecomes(<<>>, runs[sess.run].script)
        \/ RunBecomes(<<e>>, runs[sess.run].script) /\ e.type # "outcome"
    BY <1>2, SawInRun
  <2> QED
    BY <2>1 DEF RunStep
<1> QED
  BY <1>1, <1>2

\* No log and no script changes.
RunsStay ==
    DOMAIN runs' = DOMAIN runs /\ \A i \in DOMAIN runs : runs'[i].events = runs[i].events /\ runs'[i].script = runs[i].script

\* The end of a session changes no log.
LEMMA EndRuns ==
    ASSUME SessionHolds, Open, Crash \/ \E status : CloseSession(status)
    PROVE  RunsStay /\ ~Open'
<1>1. ~Open'
  BY DEF Crash, CloseSession, End, Open
<1>2. CASE UNCHANGED runs
  BY <1>1, <1>2 DEF RunsStay
<1>3. ASSUME NEW status, runs' = [runs EXCEPT ![sess.run].status = status] PROVE RunsStay
  <2> DEFINE k == sess.run
  <2> DEFINE r == [runs[k] EXCEPT !.status = status]
  <2>1. k \in DOMAIN runs /\ IsSeq(runs) /\ IsRun(runs[k]) /\ runs' = [runs EXCEPT ![k] = r]
    BY <1>3 DEF SessionHolds, IsStore
  <2>2. r.events = runs[k].events /\ r.script = runs[k].script
    BY <2>1 DEF IsRun
  <2> HIDE DEF r, k
  <2>3. DOMAIN runs' = DOMAIN runs /\ runs'[k] = r /\ \A i \in DOMAIN runs : i # k => runs'[i] = runs[i]
    BY <2>1, ReplacedInSeq
  <2> QED
    BY <2>1, <2>2, <2>3 DEF RunsStay
<1> QED
  BY <1>1, <1>2, <1>3 DEF Crash, CloseSession, Finish

\* A hook that drops inputs only lets the other events through.
LEMMA NeverDropped ==
    ASSUME DropsInputsOnly, NEW e, e.type \in {"model_call", "tool_call", "outcome"}
    PROVE  Recorded(e) = <<RedactEvent(e)>>
<1>1. Kind(e) \in {<<"model_call">>, <<"tool_call">>, <<"outcome">>}
  BY DEF Kind
<1> QED
  BY <1>1 DEF Recorded, DropsInputsOnly

\* A step of an open session ends it and leaves the logs and the scripts as they are,
\* or appends to its run.
LEMMA OpenStep ==
    ASSUME DropsInputsOnly, SessionHolds, CallsHold, ShapeHolds, Open, Next
    PROVE  \/ RunsStay /\ ~Open'
           \/ RunStep /\ UNCHANGED <<sess, loaded>>
<1>1. ASSUME NEW op \in Asks, NEW raises, Ask(op, raises) PROVE RunStep /\ UNCHANGED <<sess, loaded>>
  <2> DEFINE e == ModelEvent(world + 1, op[2], TurnMessages(op[3]), Value(world + 1), IF op[1] = "stream" THEN Chunks ELSE None)
  <2>1. /\ UNCHANGED <<sess, loaded, outcome>>
        /\ \/ UNCHANGED logVars
           \/ \E obs : Saw(op, obs, <<>>) \/ Saw(op, obs, Recorded(e))
    BY <1>1 DEF Ask, ServeCall, RefuseCall, SendCall, openVars
  <2>2. RedactEvent(e).type # "outcome"
    BY RedactedCall DEF ModelEvent
  <2> HIDE DEF e
  <2> QED
    BY <2>1, <2>2, SawStep, NothingRuns, RecordedShort DEF logVars
<1>2. ASSUME NEW cut, StreamNext \/ StreamEnd(cut) PROVE RunStep /\ UNCHANGED <<sess, loaded>>
  <2> DEFINE e == Finalized(cut)
  <2>1. /\ UNCHANGED <<sess, loaded, outcome>> /\ handle # NoStream
        /\ \/ UNCHANGED logVars
           \/ \E op, obs : Saw(op, obs, <<>>) \/ (handle.live /\ Saw(op, obs, Recorded(e)))
    BY <1>2 DEF StreamNext, StreamEnd, openVars
  <2>2. handle.live => RedactEvent(e).type # "outcome"
    <3>1. ASSUME handle.live PROVE IsCall(e)
      <4>1. IsCall(handle.event)
        BY <2>1, <3>1 DEF CallsHold, StreamFresh
      <4> QED
        BY <4>1, CutCall DEF Finalized
    <3>2. ASSUME IsCall(e) PROVE RedactEvent(e).type = "model_call"
      BY <3>2, RedactedCall DEF IsCall
    <3> HIDE DEF e
    <3> QED
      BY <3>1, <3>2
  <2> HIDE DEF e
  <2> QED
    BY <2>1, <2>2, SawStep, NothingRuns, RecordedShort DEF logVars
<1>3. ASSUME NEW p, NEW key, NEW data, AccessLive(p, key, data) \/ AccessBegin(p, key, data) \/ AccessEnd(p)
      PROVE  RunStep /\ UNCHANGED <<sess, loaded>>
  <2>1. UNCHANGED <<sess, loaded, outcome>>
    BY <1>3 DEF AccessLive, AccessBegin, AccessEnd, openVars
  <2>2. \/ UNCHANGED runs
        \/ \E op, obs : SawIn(p, op, obs, <<>>)
        \/ \E op, obs, e : SawIn(p, op, obs, <<e>>) /\ e.type = "access"
    <3>1. ASSUME NEW k, NEW d, Live(p, k, d)
          PROVE  \E op, obs, e : SawIn(p, op, obs, <<>>) \/ (SawIn(p, op, obs, <<e>>) /\ e.type = "access")
      BY <3>1, LiveLogs, RecordedShort
    <3>2. \/ UNCHANGED runs
          \/ \E op, obs : SawIn(p, op, obs, <<>>)
          \/ \E k, d : Live(p, k, d)
      BY <1>3 DEF AccessLive, AccessBegin, AccessEnd, ServeAccess, logVars
    <3> QED
      BY <3>1, <3>2
  <2> QED
    BY <2>1, <2>2, SawInStep, NothingRuns
<1>4. ASSUME NEW t, NEW args, ToolCall(t, args) PROVE RunStep /\ UNCHANGED <<sess, loaded>>
  <2>1. UNCHANGED <<sess, loaded, outcome>> /\ \E op, obs : Saw(op, obs, <<>>)
    BY <1>4 DEF ToolCall, openVars
  <2> QED
    BY <2>1, SawStep
<1>5. ASSUME NEW t \in ToolIds, NEW raises, ToolReturn(t, raises) PROVE RunStep /\ UNCHANGED <<sess, loaded>>
  <2>1. UNCHANGED <<sess, loaded, outcome>>
    BY <1>5 DEF ToolReturn, openVars
  <2>2. PICK at : Returns(t, raises, at)
    BY <1>5, ToolReturns
  <2> DEFINE obs == IF raises THEN Raised ELSE Value(world + 1)
  <2> DEFINE e == RedactEvent(ToolEvent(t, at, obs))
  <2> DEFINE script == IF sess.replays THEN runs[sess.run].script ELSE [runs[sess.run].script EXCEPT ![at].obs = obs]
  <2>3. RunBecomes(<<>>, script) \/ RunBecomes(<<e>>, script)
    BY <2>2, RecordedShort DEF Returns
  <2>4. e.type # "outcome" /\ (sess.replays => script = runs[sess.run].script)
    BY RedactedTool DEF ToolEvent
  <2> HIDE DEF e, script
  <2> QED
    BY <2>1, <2>3, <2>4 DEF RunStep
<1>6. ASSUME NEW status, Outcome(status) PROVE RunStep /\ UNCHANGED <<sess, loaded>>
  <2> DEFINE e == [type |-> "outcome", status |-> status]
  <2> DEFINE op == <<"outcome", status>>
  <2>1. /\ UNCHANGED <<sess, loaded>>
        /\ \/ (\E obs : Saw(op, obs, <<>>)) /\ UNCHANGED outcome
           \/ (\E obs : Saw(op, obs, <<e>>)) /\ outcome' = status /\ outcome \in {None, status}
    <3>1. Recorded(e) = <<e>>
      BY NeverDropped, RedactedOutcome
    <3> QED
      BY <1>6, <3>1 DEF Outcome, openVars
  <2>2. e.type = "outcome" /\ e.status = status
    OBVIOUS
  <2> HIDE DEF e, op
  <2>3. ASSUME NEW obs, Saw(op, obs, <<e>>), outcome' = status, outcome \in {None, status} PROVE RunStep
    <3>1. RunBecomes(<<e>>, ScriptWith(Entry(op, obs))) /\ (sess.replays => ScriptWith(Entry(op, obs)) = runs[sess.run].script)
      BY <2>3, SawRun DEF ScriptWith
    <3> QED
      BY <2>2, <2>3, <3>1 DEF RunStep
  <2> QED
    BY <2>1, <2>3, SawStep
<1>7. CASE \/ \E mode \in Modes, match \in MatchConfigs : OpenSession(mode, match)
           \/ \E source \in DOMAIN runs, drop \in Drops, from \in 0 .. MaxOps,
                 match \in MatchConfigs : OpenFork(source, drop, from, match)
           \/ \E f \in Paths, c \in Contents : DiskChanges(f, c)
  BY <1>7 DEF OpenSession, OpenFork, Start, DiskChanges
<1>8. CASE \/ \E status \in {"ok", "error"} : CloseSession(status)
           \/ Crash
  BY <1>8, EndRuns
<1>9. CASE \/ \E op \in Asks, raises \in Raises \cup {FALSE} : Ask(op, raises)
           \/ StreamNext
           \/ \E cut \in BOOLEAN : StreamEnd(cut)
  BY <1>1, <1>2, <1>9
<1>10. CASE \/ \E p \in Threads : \E op \in AccessesOf(p) :
                 AccessLive(p, op[2], op[3]) \/ AccessBegin(p, op[2], op[3])
            \/ \E p \in Threads : AccessEnd(p)
  BY <1>3, <1>10
<1>11. CASE \/ \E op \in {o \in Ops : o[1] = "tool"} : ToolCall(op[2], op[3])
            \/ \E t \in ToolIds, raises \in Raises \cup {FALSE} : ToolReturn(t, raises)
            \/ \E op \in {o \in Ops : o[1] = "outcome"} : Outcome(op[2])
  BY <1>4, <1>5, <1>6, <1>11
<1> QED
  BY <1>7, <1>8, <1>9, <1>10, <1>11 DEF Next

-----------------------------------------------------------------------------
(***************************************************************************)
(* A run has one outcome.                                                  *)
(***************************************************************************)

\* Every outcome in a log is this one.
Settles(events, status) == \A i \in OfType(events, "outcome") : events[i].status = status
OutcomesHold ==
    /\ \A r \in DOMAIN runs : \E status : Settles(runs[r].events, status)
    /\ Open => Settles(runs[sess.run].events, outcome) /\ (sess.fork => sess.replays)
    /\ Open /\ sess.replays /\ ~sess.fork => Settles(loaded, outcome)
    /\ Open /\ ~sess.replays => /\ sess.records
                                /\ \/ outcome = None
                                   \/ \E j \in OfType(runs[sess.run].events, "outcome") :
                                          runs[sess.run].events[j].status = outcome

\* The positions of a log with one more event.
LEMMA TypesGrow ==
    ASSUME NEW events, IsSeq(events), NEW e
    PROVE  /\ \A i \in DOMAIN events : i \in DOMAIN (events \o <<e>>) /\ (events \o <<e>>)[i] = events[i]
           /\ DOMAIN (events \o <<e>>) = DOMAIN events \cup {Len(events) + 1}
           /\ (events \o <<e>>)[Len(events) + 1] = e
           /\ DOMAIN events = 1 .. Len(events) /\ Len(events) \in Nat /\ IsSeq(events \o <<e>>)
<1>1. PICK A : events \in Seq(A)
  BY DEF IsSeq
<1>2. DOMAIN events = 1 .. Len(events) /\ Len(events) \in Nat
  BY <1>1
<1>3. IsSeq(events \o <<e>>)
  BY ShortSeqs, JoinedSeq
<1> QED
  BY <1>2, <1>3, OneMore

\* Session.outcome appends what the session has; nothing else is an outcome.
LEMMA SettlesStep ==
    ASSUME SessionHolds, ShapeHolds, OutcomesHold, Open, RunStep, UNCHANGED <<sess, loaded>>
    PROVE  OutcomesHold'
<1> DEFINE k == sess.run
<1> DEFINE old == runs[k].events
<1> DEFINE new == runs'[k].events
<1>1. k \in DOMAIN runs /\ IsSeq(old) /\ Settles(old, outcome)
  BY DEF SessionHolds, IsStore, IsRun, OutcomesHold
<1>2. PICK events, script :
         /\ RunBecomes(events, script)
         /\ \/ events = <<>> /\ UNCHANGED outcome
            \/ \E e : /\ events = <<e>> /\ e.type # "outcome" /\ UNCHANGED outcome
            \/ \E e : /\ events = <<e>> /\ e.type = "outcome" /\ e.status = outcome' /\ outcome \in {None, outcome'}
  BY DEF RunStep
<1>3. /\ DOMAIN runs' = DOMAIN runs /\ \A i \in DOMAIN runs : i # k => runs'[i] = runs[i]
      /\ new = IF sess.records THEN old \o events ELSE old
  BY <1>2 DEF RunBecomes
<1>4. \A i \in OfType(old, "outcome") : old[i].status # None
  <2>1. \A i \in OfType(old, "outcome") : old[i].status \in {"ok", "error"}
    BY <1>1 DEF ShapeHolds, StoreShape, IsEvent, OfType
  <2> QED
    BY <2>1, NoneAssumption
<1>5. old \o <<>> = old
  BY <1>1, JoinedNothing
<1> HIDE DEF k, old, new
<1>6. Settles(old, outcome')
  BY <1>1, <1>2, <1>4 DEF Settles
<1>7. ASSUME NEW e, e.type # "outcome" \/ e.status = outcome' PROVE Settles(old \o <<e>>, outcome')
  BY <1>1, <1>6, <1>7, TypesGrow DEF Settles, OfType
<1>8. Settles(new, outcome')
  BY <1>2, <1>3, <1>5, <1>6, <1>7
<1>9. sess.replays /\ ~sess.fork => Settles(loaded, outcome')
  <2> SUFFICES ASSUME sess.replays, ~sess.fork PROVE Settles(loaded, outcome')
    OBVIOUS
  <2>1. Settles(loaded, outcome)
    BY DEF OutcomesHold
  <2>2. \A i \in OfType(loaded, "outcome") : loaded[i].status # None
    <3>1. \A i \in OfType(loaded, "outcome") : loaded[i].status \in {"ok", "error"}
      BY DEF ShapeHolds, LoadedShape, IsEvent, OfType
    <3> QED
      BY <3>1, NoneAssumption
  <2> QED
    BY <1>2, <2>1, <2>2 DEF Settles
<1>10. ~sess.replays => /\ sess.records
                        /\ outcome' = None \/ \E j \in OfType(new, "outcome") : new[j].status = outcome'
  <2> SUFFICES ASSUME ~sess.replays PROVE sess.records /\ (outcome' = None \/ \E j \in OfType(new, "outcome") : new[j].status = outcome')
    OBVIOUS
  <2>1. sess.records /\ (outcome = None \/ \E j \in OfType(old, "outcome") : old[j].status = outcome)
    BY DEF OutcomesHold, old, k
  <2>2. ASSUME NEW e, NEW j \in OfType(old, "outcome")
        PROVE  j \in OfType(old \o <<e>>, "outcome") /\ (old \o <<e>>)[j] = old[j]
    <3>1. j \in DOMAIN old /\ old[j].type = "outcome"
      BY DEF OfType
    <3>2. j \in DOMAIN (old \o <<e>>) /\ (old \o <<e>>)[j] = old[j]
      BY <1>1, <3>1, TypesGrow
    <3> QED
      BY <3>1, <3>2 DEF OfType
  <2>3. ASSUME NEW e, e.type = "outcome"
        PROVE  \E j \in OfType(old \o <<e>>, "outcome") : (old \o <<e>>)[j] = e
    <3>1. Len(old) + 1 \in DOMAIN (old \o <<e>>) /\ (old \o <<e>>)[Len(old) + 1] = e
      BY <1>1, TypesGrow
    <3> QED
      BY <2>3, <3>1 DEF OfType
  <2>4. CASE events = <<>> /\ UNCHANGED outcome
    BY <1>3, <1>5, <2>1, <2>4
  <2>5. ASSUME NEW e, events = <<e>>, UNCHANGED outcome \/ (e.type = "outcome" /\ e.status = outcome')
        PROVE  outcome' = None \/ \E j \in OfType(new, "outcome") : new[j].status = outcome'
    <3>1. new = old \o <<e>>
      BY <1>3, <2>1, <2>5
    <3>2. CASE UNCHANGED outcome
      BY <2>1, <2>2, <3>1, <3>2
    <3>3. CASE e.type = "outcome" /\ e.status = outcome'
      BY <2>3, <3>1, <3>3
    <3> QED
      BY <2>5, <3>2, <3>3
  <2> QED
    BY <1>2, <2>1, <2>4, <2>5
<1>11. \A r \in DOMAIN runs' : \E status : Settles(runs'[r].events, status)
  BY <1>3, <1>8 DEF OutcomesHold, new
<1> QED
  BY <1>8, <1>9, <1>10, <1>11 DEF OutcomesHold, Open, new, k

\* The last outcome is the only one.
LEMMA LastSettles ==
    ASSUME NEW events, IsSeq(events), NEW status, Settles(events, status)
    PROVE  Settles(events, LastOutcome(events))
<1> DEFINE S == OfType(events, "outcome")
<1>1. PICK A : events \in Seq(A)
  BY DEF IsSeq
<1>2. Len(events) \in Nat /\ S \subseteq 1 .. Len(events)
  BY <1>1 DEF OfType
<1>3. \A j \in S : events[j].status = status /\ j # 0
  BY <1>1 DEF Settles, OfType
<1> HIDE DEF S
<1>4. (S = {} /\ LastOf(S) = 0) \/ LastOf(S) \in S
  BY <1>2, LastPosition
<1> QED
  BY <1>3, <1>4 DEF LastOutcome, S, Settles

\* A session starts with the outcome of its recording.
LEMMA SettlesOpen ==
    ASSUME SessionHolds, ShapeHolds, OutcomesHold,
           \/ \E mode \in Modes, match \in MatchConfigs : OpenSession(mode, match)
           \/ \E source \in DOMAIN runs, drop \in Drops, from \in 0 .. MaxOps,
                 match \in MatchConfigs : OpenFork(source, drop, from, match)
    PROVE  OutcomesHold'
<1>1. \A i \in DOMAIN runs : IsSeq(runs[i].events) /\ \E status : Settles(runs[i].events, status)
  BY DEF SessionHolds, IsStore, IsRun, OutcomesHold
<1>2. \A s : Settles(<<>>, s) /\ Settles(<<[type |-> "intervention"]>>, s)
  BY DEF Settles, OfType
<1>3. Len(runs) \in Nat /\ DOMAIN runs = 1 .. Len(runs) /\ IsSeq(runs)
  <2>1. PICK A : runs \in Seq(A)
    BY DEF SessionHolds, IsStore, IsSeq
  <2> QED
    BY <2>1 DEF IsSeq
<1>4. ASSUME NEW events, NEW fork, runs' = Append(runs, NewRun(events, fork)), \A s : Settles(events, s)
      PROVE  /\ \A r \in DOMAIN runs' : \E status : Settles(runs'[r].events, status)
             /\ runs'[Len(runs) + 1].events = events
  <2> DEFINE x == NewRun(events, fork)
  <2>1. x.events = events
    BY DEF NewRun
  <2> HIDE DEF x
  <2>2. /\ DOMAIN runs' = DOMAIN runs \cup {Len(runs) + 1} /\ runs'[Len(runs) + 1] = x
        /\ \A i \in DOMAIN runs : runs'[i] = runs[i]
    BY <1>3, <1>4, Appended DEF x
  <2> QED
    BY <1>1, <1>4, <2>1, <2>2
<1>5. ASSUME NEW mode \in Modes, NEW match \in MatchConfigs, OpenSession(mode, match) PROVE OutcomesHold'
  <2> DEFINE named == LastOf({i \in DOMAIN runs : ~runs[i].fork})
  <2> DEFINE found == mode # "all" /\ named # 0
  <2>1. /\ found \/ mode # "none"
        /\ runs' = IF found THEN runs ELSE Append(runs, NewRun(<<>>, FALSE))
        /\ sess'.run = (IF found THEN named ELSE Len(runs) + 1) /\ sess'.replays = found /\ sess'.fork = FALSE
        /\ sess'.records = CanRecord(mode, found)
        /\ loaded' = (IF found THEN runs[named].events ELSE <<>>)
        /\ outcome' = LastOutcome(loaded')
    BY <1>5 DEF OpenSession, Start, LastOutcome
  <2>2. found => named \in DOMAIN runs
    BY <1>3, LastPosition
  <2>3. ~found => CanRecord(mode, found)
    BY <2>1 DEF CanRecord, Modes
  <2> HIDE DEF named
  <2>4. CASE found
    <3>1. Settles(loaded', outcome') /\ runs'[sess'.run].events = loaded'
      BY <1>1, <2>1, <2>2, <2>4, LastSettles
    <3> QED
      BY <2>1, <2>4, <3>1 DEF OutcomesHold
  <2>5. CASE ~found
    <3>1. outcome' = None
      <4>1. OfType(<<>>, "outcome") = {}
        BY DEF OfType
      <4>2. LastOutcome(<<>>) = None
        BY <4>1 DEF LastOutcome, LastOf
      <4>3. loaded' = <<>>
        BY <2>1, <2>5
      <4> QED
        BY <2>1, <4>2, <4>3
    <3>2. Settles(<<>>, outcome') /\ runs'[sess'.run].events = <<>> /\ \A r \in DOMAIN runs' : \E status : Settles(runs'[r].events, status)
      BY <1>2, <1>4, <2>1, <2>5
    <3> QED
      BY <2>1, <2>3, <2>5, <3>1, <3>2 DEF OutcomesHold
  <2> QED
    BY <2>4, <2>5
<1>6. ASSUME NEW source \in DOMAIN runs, NEW drop, NEW from, NEW match, OpenFork(source, drop, from, match)
      PROVE  OutcomesHold'
  <2> DEFINE first == <<[type |-> "intervention"]>>
  <2>1. /\ runs' = Append(runs, NewRun(first, TRUE))
        /\ sess'.run = Len(runs) + 1 /\ sess'.replays = TRUE /\ sess'.fork = TRUE
    BY <1>6 DEF OpenFork, Start, ForkRun
  <2>2. \A s : Settles(first, s)
    BY <1>2
  <2> HIDE DEF first
  <2>3. /\ \A r \in DOMAIN runs' : \E status : Settles(runs'[r].events, status)
        /\ runs'[Len(runs) + 1].events = first
    BY <1>4, <2>1, <2>2
  <2> QED
    BY <2>1, <2>2, <2>3 DEF OutcomesHold
<1> QED
  BY <1>5, <1>6

\* While no session is open, one is opened or a file changes.
LEMMA ClosedStep ==
    ASSUME ~Open, Next
    PROVE  \/ \E mode \in Modes, match \in MatchConfigs : OpenSession(mode, match)
           \/ \E source \in DOMAIN runs, drop \in Drops, from \in 0 .. MaxOps,
                 match \in MatchConfigs : OpenFork(source, drop, from, match)
           \/ /\ UNCHANGED <<runs, transcript, sess, loaded, consumed, current, handle, report, scope, outcome>>
              /\ UNCHANGED cursor
<1>1. \A p, key, data : ~AccessLive(p, key, data) /\ ~AccessBegin(p, key, data) /\ ~AccessEnd(p)
  BY DEF AccessLive, AccessBegin, AccessEnd, MayAccess
<1>2. \A t, x : ~ToolCall(t, x) /\ ~ToolReturn(t, x) /\ ~Outcome(x)
  BY DEF ToolCall, ToolReturn, Outcome, AgentReady
<1>3. ~AgentReady
  BY DEF AgentReady
<1>4. \A t, x : ~Ask(t, x) /\ ~StreamEnd(x) /\ ~StreamNext
  BY <1>3 DEF Ask, StreamEnd, StreamNext
<1>5. \A x : ~CloseSession(x) /\ ~Crash
  BY DEF CloseSession, Crash, End
<1>6. \A f, c : DiskChanges(f, c) => UNCHANGED <<runs, transcript, sess, loaded, consumed, current, handle, report, scope, outcome, cursor>>
  BY DEF DiskChanges, logVars, openVars, callVars, toolVars, accessVars
<1> QED
  BY <1>1, <1>2, <1>4, <1>5, <1>6 DEF Next

\* A run has one outcome, always.
LEMMA OutcomesAlways == ASSUME DropsInputsOnly PROVE Spec => []OutcomesHold
<1>1. Init => OutcomesHold
  BY DEF Init, OutcomesHold, Open
<1>2. SessionHolds /\ CallsHold /\ ShapeHolds /\ OutcomesHold /\ [Next]_vars => OutcomesHold'
  <2>1. ASSUME OutcomesHold, UNCHANGED <<runs, sess, loaded, outcome>> PROVE OutcomesHold'
    BY <2>1 DEF OutcomesHold, Open
  <2>2. ASSUME SessionHolds, CallsHold, ShapeHolds, OutcomesHold, Open, Next PROVE OutcomesHold'
    <3>1. ASSUME RunsStay, ~Open' PROVE OutcomesHold'
      BY <2>2, <3>1 DEF OutcomesHold, RunsStay
    <3> QED
      BY <2>2, <3>1, OpenStep, SettlesStep
  <2>3. ASSUME SessionHolds, ShapeHolds, OutcomesHold, ~Open, Next PROVE OutcomesHold'
    <3>1. \/ \E mode \in Modes, match \in MatchConfigs : OpenSession(mode, match)
          \/ \E source \in DOMAIN runs, drop \in Drops, from \in 0 .. MaxOps,
                match \in MatchConfigs : OpenFork(source, drop, from, match)
          \/ UNCHANGED <<runs, sess, loaded, outcome>>
      BY <2>3, ClosedStep
    <3> QED
      BY <2>1, <2>3, <3>1, SettlesOpen
  <2> QED
    BY <2>1, <2>2, <2>3 DEF vars, logVars, openVars
<1> QED
  BY <1>1, <1>2, SessionAlways, CallsAlways, ShapeAlways, PTL DEF Spec

-----------------------------------------------------------------------------
(***************************************************************************)
(* How a log explains the script of its run: the agent's calls and         *)
(* accesses are, redacted, the events at[i], in order and with none in     *)
(* between, and call[i] is the call an entry was made under or made        *)
(* itself.  An access that before_record drops has no place.               *)
(***************************************************************************)

Answered(x) == IsAsk(x.op) /\ x.obs # Raised
Kept(x) == x.op[1] = "access" /\ x.op[2] \notin Dropped
Placed(x) == Answered(x) \/ Kept(x)
ByAgent(e) == e.type = "model_call" \/ (e.type = "access" /\ e.tool = None)

CallBy(x, e) ==
    /\ e.type = "model_call" /\ e.model = x.op[2] /\ e.blocks = RedactAll(x.op[3]) /\ e.obs = StoredObs(x.obs)
    /\ x.op[1] = "create" => e.chunks = None
    /\ x.op[1] = "stream" => Len(x.op) = 4
AccessBy(x, e) ==
    /\ e.type = "access" /\ e.tool = None /\ e.key = x.op[2]
    /\ x.obs = Value(x.obs[2]) /\ e.val = StoredValue(x.op[2], x.obs[2])
    /\ x.op[2][1] = "write" => e.val = Redact(x.op[3])
ToolBy(x, e, call) ==
    /\ e.type = "tool_call" /\ e.parent = call /\ e.id = x.op[2]
    /\ e.args = Redact(x.op[3]) /\ e.obs = StoredObs(x.obs)
OutcomeBy(x, e) ==
    e.type = "outcome" /\ (IF e.status = x.op[2] THEN x.obs = Value(x.op[2]) ELSE x.obs = Miss)

Before(call, i) == IF i = 1 THEN 0 ELSE call[i - 1]

\* One entry of a script, its place, its call and the call before it.
EntryBy(x, events, place, call, before) ==
    /\ Placed(x) => place \in DOMAIN events
    /\ Answered(x) => CallBy(x, events[place])
    /\ Kept(x) => AccessBy(x, events[place])
    /\ call = IF Answered(x) THEN events[place].call ELSE before
    /\ x.op[1] = "tool" /\ x.obs \notin {Raised, Pending} => \E j \in DOMAIN events : ToolBy(x, events[j], call)
    /\ x.op[1] = "outcome" => \E j \in DOMAIN events : OutcomeBy(x, events[j])
Ordered(script, at) ==
    \A i, j \in DOMAIN script : i < j /\ Placed(script[i]) /\ Placed(script[j]) => at[i] < at[j]
NoneBetween(script, events, at) ==
    \A j \in DOMAIN script : Placed(script[j]) =>
        \A k \in DOMAIN events : ByAgent(events[k]) /\ k < at[j] =>
            \E i \in DOMAIN script : i < j /\ Placed(script[i]) /\ at[i] = k
Explained(script, events, at, call) ==
    /\ \A i \in DOMAIN script : EntryBy(script[i], events, at[i], call[i], Before(call, i))
    /\ Ordered(script, at) /\ NoneBetween(script, events, at)
\* Every event of the agent is in its script.
Whole(script, events, at) ==
    \A k \in DOMAIN events : ByAgent(events[k]) => \E i \in DOMAIN script : Placed(script[i]) /\ at[i] = k

\* What explains an entry stays in the log.
LEMMA EntryStays ==
    ASSUME NEW x, NEW events, IsSeq(events), NEW place, NEW call, NEW before,
           EntryBy(x, events, place, call, before), NEW e
    PROVE  EntryBy(x, events \o <<e>>, place, call, before)
<1> DEFINE new == events \o <<e>>
<1>1. \A i \in DOMAIN events : i \in DOMAIN new /\ new[i] = events[i]
  BY TypesGrow
<1> HIDE DEF new
<1>2. EntryBy(x, new, place, call, before)
  <2>1. Placed(x) => place \in DOMAIN new /\ new[place] = events[place]
    BY <1>1 DEF EntryBy
  <2>2. Answered(x) \/ Kept(x) => Placed(x)
    BY DEF Placed
  <2>3. \A c : (\E j \in DOMAIN events : ToolBy(x, events[j], c)) => \E j \in DOMAIN new : ToolBy(x, new[j], c)
    BY <1>1
  <2>4. (\E j \in DOMAIN events : OutcomeBy(x, events[j])) => \E j \in DOMAIN new : OutcomeBy(x, new[j])
    BY <1>1
  <2> QED
    BY <2>1, <2>2, <2>3, <2>4 DEF EntryBy
<1> QED
  BY <1>2 DEF new

\* A longer log explains the same script.
LEMMA ExplainedStays ==
    ASSUME NEW script, NEW events, IsSeq(events), NEW at, NEW call, Explained(script, events, at, call), NEW e
    PROVE  Explained(script, events \o <<e>>, at, call)
<1> DEFINE new == events \o <<e>>
<1>1. /\ \A i \in DOMAIN events : new[i] = events[i]
      /\ DOMAIN new = DOMAIN events \cup {Len(events) + 1} /\ DOMAIN events = 1 .. Len(events) /\ Len(events) \in Nat
  BY TypesGrow
<1>2. \A i \in DOMAIN script : EntryBy(script[i], new, at[i], call[i], Before(call, i))
  BY EntryStays DEF Explained
<1> HIDE DEF new
<1>3. NoneBetween(script, new, at)
  <2> SUFFICES ASSUME NEW j \in DOMAIN script, Placed(script[j]), NEW k \in DOMAIN new, ByAgent(new[k]), k < at[j]
               PROVE  \E i \in DOMAIN script : i < j /\ Placed(script[i]) /\ at[i] = k
    BY DEF NoneBetween
  <2>1. at[j] \in DOMAIN events
    BY DEF Explained, EntryBy
  <2>2. k \in DOMAIN events
    BY <1>1, <2>1
  <2> QED
    BY <1>1, <2>2 DEF Explained, NoneBetween
<1> QED
  BY <1>2, <1>3 DEF Explained, new

\* The places and calls of a script with one more entry.
With(f, n, x) == [i \in 1 .. n + 1 |-> IF i = n + 1 THEN x ELSE f[i]]

\* The event an entry adds to a log.
Fits(x, events, new) ==
    \/ Placed(x) /\ \E e : new = events \o <<e>> /\ ByAgent(e)
    \/ ~Placed(x) /\ (new = events \/ \E e : new = events \o <<e>> /\ ~ByAgent(e))

\* An entry is added to a script, and an event of the agent or none to the log.
LEMMA ExplainedGrows ==
    ASSUME NEW script, IsSeq(script), NEW events, IsSeq(events), NEW at, NEW call,
           Explained(script, events, at, call), Whole(script, events, at), NEW x, NEW c, NEW new,
           Fits(x, events, new), EntryBy(x, new, Len(events) + 1, c, Before(call, Len(script) + 1))
    PROVE  LET n == Len(script)
           IN /\ Explained(Append(script, x), new, With(at, n, Len(events) + 1), With(call, n, c))
              /\ Whole(Append(script, x), new, With(at, n, Len(events) + 1))
              /\ Before(With(call, n, c), n + 2) = c
              /\ \A i \in DOMAIN script : With(call, n, c)[i] = call[i]
<1> DEFINE n == Len(script)
<1> DEFINE m == Len(events) + 1
<1> DEFINE s == Append(script, x)
<1> DEFINE a == With(at, n, m)
<1> DEFINE b == With(call, n, c)
<1>1. /\ n \in Nat /\ DOMAIN script = 1 .. n /\ DOMAIN s = 1 .. n + 1
      /\ s[n + 1] = x /\ \A i \in 1 .. n : s[i] = script[i]
  <2>1. /\ n \in Nat /\ DOMAIN script = 1 .. n /\ DOMAIN s = DOMAIN script \cup {n + 1}
        /\ s[n + 1] = x /\ \A i \in DOMAIN script : s[i] = script[i]
    BY Appended
  <2> QED
    BY <2>1
<1>2. /\ a[n + 1] = m /\ b[n + 1] = c /\ \A i \in 1 .. n : a[i] = at[i] /\ b[i] = call[i]
  BY <1>1 DEF With
<1>3. Before(b, n + 2) = c /\ Before(b, n + 1) = Before(call, n + 1) /\ \A i \in 1 .. n : Before(b, i) = Before(call, i)
  BY <1>1, <1>2 DEF Before
<1>4. /\ m \in Nat /\ DOMAIN events = 1 .. m - 1 /\ \A k \in DOMAIN events : k < m
  BY TypesGrow
<1>5. /\ DOMAIN new \subseteq DOMAIN events \cup {m} /\ \A k \in DOMAIN events : k \in DOMAIN new /\ new[k] = events[k]
      /\ ~Placed(x) /\ m \in DOMAIN new => ~ByAgent(new[m])
      /\ m \notin DOMAIN events
  <2>1. m \notin DOMAIN events
    BY <1>4
  <2>2. CASE new = events
    BY <2>1, <2>2
  <2>3. ASSUME NEW e, new = events \o <<e>>
        PROVE  /\ DOMAIN new = DOMAIN events \cup {m} /\ new[m] = e
               /\ \A k \in DOMAIN events : k \in DOMAIN new /\ new[k] = events[k]
    <3> DEFINE joined == events \o <<e>>
    <3>1. /\ DOMAIN joined = DOMAIN events \cup {m} /\ joined[m] = e
          /\ \A k \in DOMAIN events : k \in DOMAIN joined /\ joined[k] = events[k]
      BY TypesGrow
    <3> HIDE DEF joined
    <3> QED
      BY <2>3, <3>1 DEF joined
  <2>4. CASE Placed(x) /\ \E e : new = events \o <<e>> /\ ByAgent(e)
    BY <2>1, <2>3, <2>4
  <2>5. CASE \E e : new = events \o <<e>> /\ ~ByAgent(e)
    BY <2>1, <2>3, <2>5
  <2> QED
    BY <2>2, <2>4, <2>5 DEF Fits
<1>6. \A i \in 1 .. n : EntryBy(script[i], new, at[i], call[i], Before(call, i))
  BY <1>1, EntryStays DEF Explained, Fits
<1>7. \A i \in 1 .. n : Placed(script[i]) => at[i] \in DOMAIN events
  BY <1>1 DEF Explained, EntryBy
<1> HIDE DEF n, m, s, a, b
<1>8. \A i \in DOMAIN s : EntryBy(s[i], new, a[i], b[i], Before(b, i))
  <2>1. EntryBy(x, new, m, c, Before(call, n + 1))
    BY DEF m, n
  <2>2. \A i \in DOMAIN s : i \in 1 .. n \/ i = n + 1
    BY <1>1
  <2> QED
    BY <1>1, <1>2, <1>3, <1>6, <2>1, <2>2
<1>9. Ordered(s, a)
  <2> SUFFICES ASSUME NEW i \in DOMAIN s, NEW j \in DOMAIN s, i < j, Placed(s[i]), Placed(s[j]) PROVE a[i] < a[j]
    BY DEF Ordered
  <2>1. i \in 1 .. n /\ (j \in 1 .. n \/ j = n + 1)
    BY <1>1
  <2>2. CASE j \in 1 .. n
    BY <1>1, <1>2, <2>1, <2>2 DEF Explained, Ordered
  <2>3. CASE j = n + 1
    <3>1. at[i] \in DOMAIN events
      BY <1>1, <1>7, <2>1
    <3> QED
      BY <1>2, <1>4, <2>1, <2>3, <3>1
  <2> QED
    BY <2>1, <2>2, <2>3
<1>10. NoneBetween(s, new, a)
  <2> SUFFICES ASSUME NEW j \in DOMAIN s, Placed(s[j]), NEW k \in DOMAIN new, ByAgent(new[k]), k < a[j]
               PROVE  \E i \in DOMAIN s : i < j /\ Placed(s[i]) /\ a[i] = k
    BY DEF NoneBetween
  <2>1. j \in 1 .. n \/ j = n + 1
    BY <1>1
  <2>2. CASE j \in 1 .. n
    <3>1. at[j] \in DOMAIN events /\ k < at[j]
      BY <1>1, <1>2, <1>7, <2>2
    <3>2. k \in DOMAIN events
      BY <1>4, <1>5, <3>1
    <3>3. PICK i \in DOMAIN script : i < j /\ Placed(script[i]) /\ at[i] = k
      BY <1>1, <1>5, <2>2, <3>1, <3>2 DEF Explained, NoneBetween
    <3> QED
      BY <1>1, <1>2, <3>3
  <2>3. CASE j = n + 1
    <3>1. k \in DOMAIN events
      BY <1>2, <1>4, <1>5, <2>3
    <3>2. PICK i \in DOMAIN script : Placed(script[i]) /\ at[i] = k
      BY <1>5, <3>1 DEF Whole
    <3> QED
      BY <1>1, <1>2, <2>3, <3>2
  <2> QED
    BY <2>1, <2>2, <2>3
<1>11. Whole(s, new, a)
  <2> SUFFICES ASSUME NEW k \in DOMAIN new, ByAgent(new[k]) PROVE \E i \in DOMAIN s : Placed(s[i]) /\ a[i] = k
    BY DEF Whole
  <2>1. CASE k \in DOMAIN events
    <3>1. PICK i \in DOMAIN script : Placed(script[i]) /\ at[i] = k
      BY <1>5, <2>1 DEF Whole
    <3> QED
      BY <1>1, <1>2, <3>1
  <2>2. CASE k = m
    <3>1. Placed(x)
      BY <1>5, <2>2
    <3> QED
      BY <1>1, <1>2, <2>2, <3>1
  <2> QED
    BY <1>5, <2>1, <2>2
<1> QED
  BY <1>1, <1>2, <1>3, <1>8, <1>9, <1>10, <1>11 DEF Explained, s, a, b, n, m

-----------------------------------------------------------------------------
(***************************************************************************)
(* The session that records.                                               *)
(***************************************************************************)

\* A tool that has not returned waits under the call it was started under.
Waiting(tr, running, call) ==
    /\ \A i \in DOMAIN tr : tr[i].obs = Pending =>
           /\ tr[i].op[1] = "tool" /\ tr[i].op[2] \in ToolIds
           /\ running[tr[i].op[2]] = call[i] /\ call[i] # None
    /\ \A i, j \in DOMAIN tr : tr[i].obs = Pending /\ tr[j].obs = Pending /\ tr[i].op[2] = tr[j].op[2] => i = j
Recording(tr, events, now, running, at, call) ==
    /\ Explained(tr, events, at, call) /\ Whole(tr, events, at)
    /\ now = Before(call, Len(tr) + 1)
    /\ Waiting(tr, running, call)
LiveHandle(h) ==
    h # NoStream => /\ h.live /\ h.event.model = h.op[2] /\ h.event.blocks = RedactAll(h.op[3])
                    /\ h.event.obs \notin {Raised, Pending}
RecorderHolds ==
    Open /\ ~sess.replays =>
        /\ runs[sess.run].script = transcript /\ LiveHandle(handle)
        /\ \E at, call : Recording(transcript, runs[sess.run].events, current, scope, at, call)
RunsExplained ==
    \A r \in DOMAIN runs : \E at, call : Explained(runs[r].script, runs[r].events, at, call)

\* The log of a recording session after a step.
LogWith(events) == runs[sess.run].events \o events

\* What a recording session's step does to its run.
LEMMA RecorderRuns ==
    ASSUME SessionHolds, OutcomesHold, Open, ~sess.replays, UNCHANGED sess, NEW events, NEW script,
           RunBecomes(events, script)
    PROVE  /\ runs'[sess'.run].events = LogWith(events) /\ runs'[sess'.run].script = script
           /\ sess.run \in DOMAIN runs /\ IsSeq(runs[sess.run].events)
           /\ events = <<>> => runs'[sess'.run].events = runs[sess.run].events
  BY JoinedNothing DEF RunBecomes, OutcomesHold, SessionHolds, IsStore, IsRun, LogWith

\* The recording agent sees something: its entry is explained by the log, its place in
\* it is the end, and it was made under the current call.
LEMMA RecorderSees ==
    ASSUME ShapeHolds, NEW log, IsSeq(log), NEW at, NEW call,
           Recording(transcript, log, current, scope, at, call), NEW x, NEW new,
           Fits(x, log, new), EntryBy(x, new, Len(log) + 1, current', current), transcript' = Append(transcript, x),
           \/ x.obs # Pending /\ UNCHANGED scope
           \/ /\ x.obs = Pending /\ x.op[1] = "tool" /\ x.op[2] \in ToolIds
              /\ scope[x.op[2]] = None /\ current # None /\ UNCHANGED current
              /\ scope' = [scope EXCEPT ![x.op[2]] = current]
    PROVE  \E at2, call2 : Recording(transcript', new, current', scope', at2, call2)
<1> DEFINE n == Len(transcript)
<1> DEFINE a == With(at, n, Len(log) + 1)
<1> DEFINE b == With(call, n, current')
<1> DEFINE tr == Append(transcript, x)
<1>1. IsSeq(transcript) /\ scope \in [ToolIds -> Nat \cup {None}]
  BY DEF ShapeHolds, ToolShape
<1>2. /\ Explained(tr, new, a, b) /\ Whole(tr, new, a) /\ Before(b, n + 2) = current'
      /\ \A i \in DOMAIN transcript : b[i] = call[i]
  <2>1. /\ Explained(transcript, log, at, call) /\ Whole(transcript, log, at)
        /\ EntryBy(x, new, Len(log) + 1, current', Before(call, Len(transcript) + 1))
    BY DEF Recording
  <2> HIDE DEF a, b, n, tr
  <2>2. LET m == Len(transcript)
        IN /\ Explained(Append(transcript, x), new, With(at, m, Len(log) + 1), With(call, m, current'))
           /\ Whole(Append(transcript, x), new, With(at, m, Len(log) + 1))
           /\ Before(With(call, m, current'), m + 2) = current'
           /\ \A i \in DOMAIN transcript : With(call, m, current')[i] = call[i]
    BY <1>1, <2>1, ExplainedGrows
  <2> QED
    BY <2>2 DEF a, b, n, tr
<1>3. /\ n \in Nat /\ DOMAIN transcript = 1 .. n /\ Len(tr) = n + 1 /\ n + 1 \notin DOMAIN transcript
      /\ DOMAIN tr = DOMAIN transcript \cup {n + 1}
      /\ tr[n + 1] = x /\ \A i \in DOMAIN transcript : tr[i] = transcript[i]
  BY <1>1, Appended
<1>4. b[n + 1] = current' /\ Len(tr) + 1 = n + 2
  BY <1>3 DEF With
<1>5. Waiting(transcript, scope, call)
  BY DEF Recording
<1> HIDE DEF n, a, b, tr
<1>6. Waiting(tr, scope', b)
  <2>1. CASE x.obs # Pending /\ UNCHANGED scope
    BY <1>2, <1>3, <1>5, <2>1 DEF Waiting
  <2>2. CASE /\ x.obs = Pending /\ x.op[1] = "tool" /\ x.op[2] \in ToolIds
             /\ scope[x.op[2]] = None /\ current # None /\ UNCHANGED current
             /\ scope' = [scope EXCEPT ![x.op[2]] = current]
    <3>1. \A i \in DOMAIN transcript : transcript[i].obs = Pending =>
              transcript[i].op[2] # x.op[2] /\ transcript[i].op[2] \in ToolIds
      BY <1>5, <2>2 DEF Waiting
    <3>2. scope'[x.op[2]] = current /\ \A t \in ToolIds : t # x.op[2] => scope'[t] = scope[t]
      BY <1>1, <2>2
    <3>3. \A i \in DOMAIN tr : tr[i].obs = Pending =>
              /\ tr[i].op[1] = "tool" /\ tr[i].op[2] \in ToolIds
              /\ scope'[tr[i].op[2]] = b[i] /\ b[i] # None
      BY <1>2, <1>3, <1>4, <1>5, <2>2, <3>1, <3>2 DEF Waiting
    <3>4. \A i, j \in DOMAIN tr : tr[i].obs = Pending /\ tr[j].obs = Pending /\ tr[i].op[2] = tr[j].op[2] => i = j
      BY <1>3, <1>5, <3>1 DEF Waiting
    <3> QED
      BY <3>3, <3>4 DEF Waiting
  <2> QED
    BY <2>1, <2>2
<1>7. Recording(tr, new, current', scope', a, b)
  BY <1>2, <1>4, <1>6 DEF Recording
<1> QED
  BY <1>7 DEF tr

\* A tool of the recording agent accesses something.
LEMMA RecorderKeeps ==
    ASSUME NEW tr, NEW log, IsSeq(log), NEW now, NEW running, NEW at, NEW call,
           Recording(tr, log, now, running, at, call), NEW e, ~ByAgent(e)
    PROVE  Recording(tr, log \o <<e>>, now, running, at, call)
<1> DEFINE new == log \o <<e>>
<1>1. Explained(tr, new, at, call)
  BY ExplainedStays DEF Recording
<1>2. DOMAIN new = DOMAIN log \cup {Len(log) + 1} /\ new[Len(log) + 1] = e /\ \A i \in DOMAIN log : new[i] = log[i]
  BY TypesGrow
<1> HIDE DEF new
<1>3. Whole(tr, new, at)
  BY <1>2 DEF Recording, Whole
<1> QED
  BY <1>1, <1>3 DEF Recording, new

\* A tool of the recording agent returns.
LEMMA RecorderReturns ==
    ASSUME SessionHolds, ShapeHolds, NEW log, IsSeq(log), NEW at, NEW call,
           Recording(transcript, log, current, scope, at, call), NEW t \in ToolIds, NEW raises,
           NEW i \in DOMAIN transcript, transcript[i].obs = Pending, transcript[i].op[2] = t,
           NEW obs, obs = IF raises THEN Raised ELSE Value(world + 1),
           NEW new, new = (IF raises THEN log ELSE log \o <<RedactEvent(ToolEvent(t, i, obs))>>),
           transcript' = [transcript EXCEPT ![i] = Entry(transcript[i].op, obs)],
           scope' = [scope EXCEPT ![t] = None]
    PROVE  Recording(transcript', new, current, scope', at, call)
<1> DEFINE x == Entry(transcript[i].op, obs)
<1> DEFINE e == RedactEvent(ToolEvent(t, i, obs))
<1>1. x.op = transcript[i].op /\ x.obs = obs
  BY DEF Entry
<1>2. /\ IsSeq(transcript) /\ scope \in [ToolIds -> Nat \cup {None}]
  BY DEF ShapeHolds, ToolShape
<1>3. /\ e.type = "tool_call" /\ e.parent = scope[t] /\ e.id = t
      /\ e.args = Redact(transcript[i].op[3]) /\ e.obs = StoredObs(obs)
  BY RedactedTool DEF ToolEvent
<1>4. obs # Pending
  BY DEF Raised, Pending, Value
<1> HIDE DEF x, e
<1>5. /\ DOMAIN transcript' = DOMAIN transcript /\ transcript'[i] = x /\ Len(transcript') = Len(transcript)
      /\ \A j \in DOMAIN transcript : j # i => transcript'[j] = transcript[j]
  <2>1. /\ IsSeq(transcript') /\ DOMAIN transcript' = DOMAIN transcript /\ transcript'[i] = x
        /\ \A j \in DOMAIN transcript : j # i => transcript'[j] = transcript[j]
    BY <1>2, ReplacedInSeq DEF x
  <2>2. PICK A : transcript \in Seq(A)
    BY <1>2 DEF IsSeq
  <2>3. PICK B : transcript' \in Seq(B)
    BY <2>1 DEF IsSeq
  <2>4. Len(transcript') = Len(transcript)
    BY <2>1, <2>2, <2>3
  <2> QED
    BY <2>1, <2>4
<1>6. /\ transcript[i].op[1] = "tool" /\ scope[t] = call[i] /\ Waiting(transcript, scope, call)
      /\ Explained(transcript, log, at, call) /\ Whole(transcript, log, at)
  BY DEF Recording, Waiting
<1>7. /\ \A j \in DOMAIN transcript : Placed(transcript'[j]) <=> Placed(transcript[j])
      /\ ~Placed(x) /\ ~Answered(x) /\ ~Answered(transcript[i]) /\ ~ByAgent(e)
  <2>1. ~IsAsk(x.op)
    BY <1>1, <1>6 DEF IsAsk
  <2>2. ~Placed(x) /\ ~Answered(x) /\ ~Answered(transcript[i]) /\ ~Placed(transcript[i])
    BY <1>1, <1>6, <2>1 DEF Placed, Kept, Answered
  <2>3. ~ByAgent(e)
    BY <1>3 DEF ByAgent
  <2>4. \A j \in DOMAIN transcript : Placed(transcript'[j]) <=> Placed(transcript[j])
    BY <1>5, <2>2
  <2> QED
    BY <2>2, <2>3, <2>4
<1>8. /\ \A j \in DOMAIN transcript : EntryBy(transcript[j], new, at[j], call[j], Before(call, j))
      /\ NoneBetween(transcript, new, at) /\ Ordered(transcript, at) /\ Whole(transcript, new, at)
  <2>1. Recording(transcript, new, current, scope, at, call)
    BY <1>7, RecorderKeeps DEF e
  <2> QED
    BY <2>1 DEF Recording, Explained
<1>9. EntryBy(x, new, at[i], call[i], Before(call, i))
  <2>1. call[i] = Before(call, i)
    BY <1>6, <1>7 DEF Explained, EntryBy
  <2>2. obs \notin {Raised, Pending} => \E j \in DOMAIN new : ToolBy(x, new[j], call[i])
    <3> SUFFICES ASSUME obs \notin {Raised, Pending} PROVE \E j \in DOMAIN new : ToolBy(x, new[j], call[i])
      OBVIOUS
    <3>1. ToolBy(x, e, call[i])
      BY <1>1, <1>3, <1>6 DEF ToolBy
    <3>2. Len(log) + 1 \in DOMAIN new /\ new[Len(log) + 1] = e
      BY TypesGrow DEF e
    <3> QED
      BY <3>1, <3>2
  <2>3. x.op[1] = "tool"
    BY <1>1, <1>6
  <2> QED
    BY <1>1, <1>7, <2>1, <2>2, <2>3 DEF EntryBy, Kept
<1>10. Explained(transcript', new, at, call)
  <2>1. \A j \in DOMAIN transcript' : EntryBy(transcript'[j], new, at[j], call[j], Before(call, j))
    BY <1>5, <1>8, <1>9
  <2>2. Ordered(transcript', at)
    BY <1>5, <1>7, <1>8 DEF Ordered
  <2>3. NoneBetween(transcript', new, at)
    BY <1>5, <1>7, <1>8 DEF NoneBetween
  <2> QED
    BY <2>1, <2>2, <2>3 DEF Explained
<1>11. Whole(transcript', new, at)
  BY <1>5, <1>7, <1>8 DEF Whole
<1>12. Waiting(transcript', scope', call)
  <2>1. \A j \in DOMAIN transcript : transcript'[j].obs = Pending => j # i /\ transcript[j].obs = Pending /\ transcript'[j] = transcript[j]
    BY <1>1, <1>4, <1>5
  <2>2. \A j \in DOMAIN transcript : transcript'[j].obs = Pending => transcript[j].op[2] # t /\ transcript[j].op[2] \in ToolIds
    BY <1>6, <2>1 DEF Waiting
  <2>3. \A u \in ToolIds : u # t => scope'[u] = scope[u]
    BY <1>2
  <2> QED
    BY <1>5, <1>6, <2>1, <2>2, <2>3 DEF Waiting
<1> QED
  BY <1>5, <1>10, <1>11, <1>12 DEF Recording

\* A session that records has nothing to serve.
LEMMA RecorderOnly ==
    ASSUME SessionHolds, ShapeHolds, OutcomesHold, Open, ~sess.replays
    PROVE  /\ sess.records /\ ~sess.fork /\ loaded = <<>> /\ sess.run \in DOMAIN runs
           /\ IsSeq(runs[sess.run].events) /\ IsSeq(transcript)
           /\ \A m, b : Hit(m, b) = 0
           /\ \A t : ToolRecord(t) = 0
           /\ \A p \in Threads : Idle(p)
<1>1. /\ sess.records /\ ~sess.fork /\ loaded = <<>> /\ sess.run \in DOMAIN runs
      /\ IsSeq(runs[sess.run].events) /\ IsSeq(transcript)
  BY DEF SessionHolds, IsStore, IsRun, ShapeHolds, FreshSession, ToolShape, OutcomesHold
<1>2. \A type : OfType(loaded, type) = {}
  BY <1>1 DEF OfType
<1>3. \A m, b : Hit(m, b) = 0
  BY <1>2 DEF Hit, FirstOf
<1>4. \A t : ToolRecord(t) = 0
  BY <1>2 DEF ToolRecord, LastOf
<1>5. \A p \in Threads : Idle(p)
  BY DEF ShapeHolds, FreshSession
<1> QED
  BY <1>1, <1>3, <1>4, <1>5

\* What the recording agent sees is in its script and explained by its log.
LEMMA RecorderSaw ==
    ASSUME SessionHolds, ShapeHolds, OutcomesHold, RecorderHolds, Open, ~sess.replays, UNCHANGED sess,
           NEW op, NEW obs, NEW events, Saw(op, obs, events), NEW x, x = Entry(op, obs),
           Fits(x, runs[sess.run].events, LogWith(events)),
           EntryBy(x, LogWith(events), Len(runs[sess.run].events) + 1, current', current), LiveHandle(handle'),
           \/ x.obs # Pending /\ UNCHANGED scope
           \/ /\ x.obs = Pending /\ x.op[1] = "tool" /\ x.op[2] \in ToolIds
              /\ scope[x.op[2]] = None /\ current # None /\ UNCHANGED current
              /\ scope' = [scope EXCEPT ![x.op[2]] = current]
    PROVE  RecorderHolds'
<1> DEFINE log == runs[sess.run].events
<1> DEFINE new == LogWith(events)
<1>1. transcript' = Append(transcript, x) /\ RunBecomes(events, ScriptWith(x))
  BY SawRun
<1>2. runs'[sess'.run].events = new /\ runs'[sess'.run].script = ScriptWith(x) /\ IsSeq(log)
  BY <1>1, RecorderRuns
<1>3. ScriptWith(x) = transcript'
  BY <1>1 DEF ScriptWith, RecorderHolds
<1>4. PICK at, call : Recording(transcript, log, current, scope, at, call)
  BY DEF RecorderHolds
<1>5. Fits(x, log, new) /\ EntryBy(x, new, Len(log) + 1, current', current)
  OBVIOUS
<1> HIDE DEF log, new
<1>6. \E at2, call2 : Recording(transcript', new, current', scope', at2, call2)
  BY <1>1, <1>2, <1>4, <1>5, RecorderSees
<1> QED
  BY <1>2, <1>3, <1>6 DEF RecorderHolds

\* The log with an event at its end.
LEMMA LogEnds ==
    ASSUME NEW log, IsSeq(log), NEW e
    PROVE  /\ Len(log) + 1 \in DOMAIN (log \o <<e>>) /\ (log \o <<e>>)[Len(log) + 1] = e
  BY TypesGrow

\* A call of the recording agent is logged.
LEMMA RecorderCalls ==
    ASSUME SessionHolds, ShapeHolds, OutcomesHold, RecorderHolds, Open, ~sess.replays, UNCHANGED <<sess, scope>>,
           NEW op, NEW obs, NEW e, Saw(op, obs, <<e>>), LiveHandle(handle'),
           IsAsk(op), obs \notin {Raised, Pending}, e.type = "model_call", e.model = op[2],
           e.blocks = RedactAll(op[3]), e.obs = StoredObs(obs), op[1] = "create" => e.chunks = None, op[1] = "stream" => Len(op) = 4, current' = e.call
    PROVE  RecorderHolds'
<1> DEFINE x == Entry(op, obs)
<1> DEFINE log == runs[sess.run].events
<1> DEFINE new == LogWith(<<e>>)
<1>1. x.op = op /\ x.obs = obs
  BY DEF Entry
<1>2. IsSeq(log) /\ new = log \o <<e>>
  BY RecorderOnly DEF LogWith
<1>3. Len(log) + 1 \in DOMAIN new /\ new[Len(log) + 1] = e
  BY <1>2, LogEnds
<1> HIDE DEF x, log, new
<1>4. Answered(x) /\ Placed(x) /\ ByAgent(e) /\ op[1] \notin {"access", "tool", "outcome"}
  BY <1>1 DEF Answered, Placed, ByAgent, IsAsk
<1>5. CallBy(x, e)
  BY <1>1 DEF CallBy
<1>6. EntryBy(x, new, Len(log) + 1, current', current)
  BY <1>1, <1>3, <1>4, <1>5 DEF EntryBy, Kept
<1>7. Fits(x, log, new)
  BY <1>2, <1>4 DEF Fits
<1> QED
  BY <1>1, <1>6, <1>7, RecorderSaw DEF x, log, new

\* Something the recording agent does that no event of its own stands for.
LEMMA RecorderNotes ==
    ASSUME SessionHolds, ShapeHolds, OutcomesHold, RecorderHolds, Open, ~sess.replays, UNCHANGED <<sess, current>>,
           NEW op, NEW obs, NEW events, Saw(op, obs, events), LiveHandle(handle'), NEW x, x = Entry(op, obs),
           ~Placed(x), events = <<>> \/ \E e : events = <<e>> /\ ~ByAgent(e),
           op[1] = "tool" => obs \in {Raised, Pending},
           op[1] = "outcome" => \E j \in DOMAIN LogWith(events) : OutcomeBy(x, LogWith(events)[j]),
           \/ obs # Pending /\ UNCHANGED scope
           \/ /\ obs = Pending /\ op[1] = "tool" /\ op[2] \in ToolIds
              /\ scope[op[2]] = None /\ current # None
              /\ scope' = [scope EXCEPT ![op[2]] = current]
    PROVE  RecorderHolds'
<1> DEFINE log == runs[sess.run].events
<1> DEFINE new == LogWith(events)
<1>1. x.op = op /\ x.obs = obs
  BY DEF Entry
<1>2. IsSeq(log) /\ new = log \o events /\ log \o <<>> = log
  BY RecorderOnly, JoinedNothing DEF LogWith
<1> HIDE DEF log
<1>3. Fits(x, log, new)
  BY <1>2 DEF Fits
<1> HIDE DEF new
<1>4. EntryBy(x, new, Len(log) + 1, current', current)
  BY <1>1 DEF EntryBy, Placed, Kept, new
<1> QED
  BY <1>1, <1>3, <1>4, RecorderSaw DEF log, new

\* Model.create and Model.stream of the recording agent.
LEMMA AskRecorded ==
    ASSUME DropsInputsOnly, SessionHolds, CallsHold, ShapeHolds, OutcomesHold, RecorderHolds, Open, ~sess.replays,
           NEW op \in Asks, NEW raises, Ask(op, raises)
    PROVE  RecorderHolds'
<1>1. /\ handle = NoStream /\ UNCHANGED <<sess, scope>> /\ world \in Nat
  BY DEF Ask, openVars, toolVars, CallsHold
<1>2. /\ sess.records /\ ~sess.fork /\ (\A m, b : Hit(m, b) = 0)
  BY RecorderOnly
<1>3. SendCall(op[2], op[3], op, raises)
  BY <1>2 DEF Ask, TurnMessages
<1> DEFINE e == ModelEvent(world + 1, op[2], op[3], Value(world + 1), IF op[1] = "stream" THEN Chunks ELSE None)
<1> DEFINE f == RedactEvent(e)
<1>4. /\ e.type = "model_call" /\ e.call = world + 1 /\ e.model = op[2] /\ e.blocks = RedactAll(op[3]) /\ e.obs = Value(world + 1)
      /\ e.chunks = IF op[1] = "stream" THEN Chunks ELSE None
  BY DEF ModelEvent
<1>12. /\ f.type = "model_call" /\ f.call = e.call /\ f.model = e.model /\ f.blocks = e.blocks
       /\ f.obs = StoredObs(e.obs) /\ f.chunks = e.chunks
  BY RedactedCall DEF ModelEvent
<1>13. Recorded(e) = <<f>>
  BY <1>4, NeverDropped
<1>5. e.obs \notin {Raised, Pending}
  BY <1>4 DEF Value, Raised, Pending
<1>6. \/ handle' = [open |-> TRUE, event |-> e, op |-> op, taken |-> 0, live |-> TRUE] /\ UNCHANGED <<current, logVars>>
      \/ op[1] = "create" /\ Saw(op, e.obs, <<f>>) /\ current' = e.call /\ UNCHANGED handle
      \/ Saw(op, Raised, <<>>) /\ UNCHANGED <<current, handle>>
  BY <1>3, <1>13 DEF SendCall
<1>7. IsAsk(op)
  BY DEF Asks, IsAsk
<1>8. LiveHandle(NoStream)
  BY DEF LiveHandle
<1> HIDE DEF e, f
<1>9. CASE handle' = [open |-> TRUE, event |-> e, op |-> op, taken |-> 0, live |-> TRUE] /\ UNCHANGED <<current, logVars>>
  <2>1. LiveHandle(handle')
    <3>1. handle'.event = e /\ handle'.op = op /\ handle'.live
      BY <1>9
    <3> QED
      BY <1>4, <1>5, <3>1 DEF LiveHandle
  <2>2. /\ sess' = sess /\ runs' = runs /\ transcript' = transcript /\ scope' = scope /\ current' = current
    BY <1>1, <1>9 DEF logVars
  <2> QED
    BY <2>1, <2>2 DEF RecorderHolds
<1>10. CASE op[1] = "create" /\ Saw(op, e.obs, <<f>>) /\ current' = e.call /\ UNCHANGED handle
  <2>1. f.chunks = None /\ op[1] # "stream" /\ LiveHandle(handle')
    BY <1>1, <1>4, <1>8, <1>10, <1>12
  <2> QED
    BY <1>1, <1>4, <1>5, <1>7, <1>10, <1>12, <2>1, RecorderCalls
<1>11. CASE Saw(op, Raised, <<>>) /\ UNCHANGED <<current, handle>>
  <2> DEFINE x == Entry(op, Raised)
  <2>1. ~Placed(x) /\ op[1] \notin {"tool", "outcome"} /\ Raised # Pending
    BY <1>7 DEF Placed, Kept, Answered, Entry, IsAsk, Raised, Pending
  <2>2. LiveHandle(handle')
    BY <1>1, <1>8, <1>11
  <2> HIDE DEF x
  <2> QED
    BY <1>1, <1>11, <2>1, <2>2, RecorderNotes DEF x
<1> QED
  BY <1>6, <1>9, <1>10, <1>11

\* The stream of the recording agent.
LEMMA StreamRecorded ==
    ASSUME DropsInputsOnly, SessionHolds, CallsHold, ShapeHolds, OutcomesHold, RecorderHolds, Open, ~sess.replays,
           StreamNext \/ \E cut \in BOOLEAN : StreamEnd(cut)
    PROVE  RecorderHolds'
<1>1. handle # NoStream /\ UNCHANGED <<sess, scope>>
  BY DEF StreamNext, StreamEnd, openVars, toolVars
<1>2. /\ IsHandle(handle) /\ handle.op \in Asks /\ handle.op[1] = "stream" /\ LiveHandle(handle) /\ handle.live
      /\ IsCall(handle.event)
  BY <1>1, HandleHolds DEF ShapeHolds, CallShape, RecorderHolds, LiveHandle, CallsHold, StreamFresh
<1>3. CASE StreamNext
  <2>1. handle' = [handle EXCEPT !.taken = @ + 1] /\ UNCHANGED <<runs, transcript, current>>
    BY <1>3 DEF StreamNext, logVars
  <2>2. handle'.event = handle.event /\ handle'.op = handle.op /\ handle'.live = handle.live
    BY <1>2, <2>1, ChunkTaken
  <2>3. LiveHandle(handle')
    BY <1>1, <1>2, <2>2 DEF LiveHandle
  <2> QED
    BY <1>1, <2>1, <2>3 DEF RecorderHolds
<1>4. ASSUME NEW cut \in BOOLEAN, StreamEnd(cut) PROVE RecorderHolds'
  <2> DEFINE e == Finalized(cut)
  <2> DEFINE op == Append(handle.op, handle.taken)
  <2> DEFINE f == RedactEvent(e)
  <2>1. handle' = NoStream /\ current' = handle.event.call /\ Saw(op, e.obs, Recorded(e))
    BY <1>2, <1>4 DEF StreamEnd, Spent
  <2>2. /\ IsCall(e) /\ e.call = handle.event.call /\ e.model = handle.op[2] /\ e.blocks = RedactAll(handle.op[3])
        /\ e.obs \notin {Raised, Pending}
    <3>1. handle.event.model = handle.op[2] /\ handle.event.blocks = RedactAll(handle.op[3])
          /\ handle.event.obs \notin {Raised, Pending}
      BY <1>1, <1>2 DEF LiveHandle
    <3> DEFINE short == CutShort(handle.event, handle.taken)
    <3>2. /\ IsCall(short) /\ short.call = handle.event.call /\ short.model = handle.event.model
          /\ short.blocks = handle.event.blocks /\ short.obs = <<"partial", handle.event.obs[2], handle.taken>>
      BY CutCall
    <3>3. e = short \/ e = handle.event
      BY DEF Finalized
    <3>4. <<"partial", handle.event.obs[2], handle.taken>> \notin {Raised, Pending}
      BY DEF Raised, Pending
    <3> HIDE DEF short, e
    <3> QED
      BY <1>2, <3>1, <3>2, <3>3, <3>4
  <2>7. /\ f.type = "model_call" /\ f.call = e.call /\ f.model = e.model /\ f.blocks = e.blocks
        /\ f.obs = StoredObs(e.obs) /\ Recorded(e) = <<f>>
    <3> HIDE DEF e
    <3>1. e.type = "model_call"
      BY <2>2 DEF IsCall
    <3>2. Recorded(e) = <<f>>
      BY <3>1, NeverDropped
    <3>3. f = [type |-> "model_call", call |-> e.call, model |-> e.model, blocks |-> e.blocks,
               obs |-> StoredObs(e.obs), chunks |-> e.chunks]
      BY <2>2, RedactedCall DEF IsCall
    <3> QED
      BY <3>2, <3>3
  <2>3. op[1] = "stream" /\ op[2] = handle.op[2] /\ op[3] = handle.op[3] /\ Len(op) = 4
    <3>1. handle.op = <<handle.op[1], handle.op[2], handle.op[3]>>
      BY <1>2, OpsAssumption DEF Asks
    <3> DEFINE h == handle.op
    <3>2. h = <<h[1], h[2], h[3]>> /\ op = Append(h, handle.taken) /\ h[1] = "stream"
      BY <1>2, <3>1
    <3> HIDE DEF h, op
    <3>3. op[1] = h[1] /\ op[2] = h[2] /\ op[3] = h[3] /\ Len(op) = 4
      BY <3>2, Extended, Zenon
    <3> QED
      BY <3>2, <3>3 DEF h
  <2>4. LiveHandle(handle')
    BY <2>1 DEF LiveHandle
  <2> HIDE DEF e, f, op
  <2>5. IsAsk(op) /\ op[1] # "create"
    BY <2>3 DEF IsAsk
  <2>6. /\ Saw(op, e.obs, <<f>>) /\ f.model = op[2] /\ f.blocks = RedactAll(op[3]) /\ current' = f.call
    BY <2>1, <2>2, <2>3, <2>7
  <2> QED
    BY <1>1, <2>2, <2>3, <2>4, <2>5, <2>6, <2>7, RecorderCalls
<1> QED
  BY <1>3, <1>4

\* Environment values and files of the recording agent and its tools.
LEMMA AccessRecorded ==
    ASSUME SessionHolds, ShapeHolds, OutcomesHold, RecorderHolds, Open, ~sess.replays, NEW p \in Threads,
           \/ \E op \in AccessesOf(p) : AccessLive(p, op[2], op[3]) \/ AccessBegin(p, op[2], op[3])
           \/ AccessEnd(p)
    PROVE  RecorderHolds'
<1>1. /\ sess.records /\ IsSeq(runs[sess.run].events) /\ \A q \in Threads : Idle(q)
  BY RecorderOnly
<1>2. PICK key, data : AccessLive(p, key, data)
  BY <1>1 DEF AccessBegin, AccessEnd
<1>3. Live(p, key, data) /\ UNCHANGED <<sess, current, handle, scope>>
  BY <1>2 DEF AccessLive, openVars, callVars, toolVars
<1> DEFINE val == CASE key[1] = "content" -> disk[key[2]]
                    [] key[1] = "write"   -> data
                    [] key[1] = "env"     -> world + 1
<1> DEFINE e == [type |-> "access", key |-> key, val |-> val, tool |-> IF p = Main THEN None ELSE p]
<1> DEFINE op == <<"access", key, data>>
<1> DEFINE f == RedactEvent(e)
<1>4. SawIn(p, op, Value(val), Recorded(e))
  BY <1>1, <1>3 DEF Live
<1>5. key[1] = "write" => val = data
  OBVIOUS
<1> HIDE DEF val
<1>11. Recorded(e) = IF key \in Dropped THEN <<>> ELSE <<f>>
  BY DEF Recorded, Kind
<1>6. f.type = "access" /\ f.key = key /\ f.val = StoredValue(key, val) /\ f.tool = IF p = Main THEN None ELSE p
  BY RedactedAccess
<1>12. key[1] = "write" => f.val = Redact(data)
  BY <1>5, <1>6 DEF StoredValue
<1>7. op[1] = "access" /\ op[2] = key /\ op[3] = data
  OBVIOUS
<1>8. LiveHandle(handle')
  BY <1>3 DEF RecorderHolds
<1> HIDE DEF e, f, op
<1>13. CASE p = Main /\ key \in Dropped
  <2> DEFINE x == Entry(op, Value(val))
  <2>1. x.op = op /\ x.obs = Value(val) /\ Value(val) # Pending
    BY DEF Entry, Value, Pending
  <2> HIDE DEF x
  <2>2. ~Placed(x) /\ op[1] \notin {"tool", "outcome"}
    BY <1>7, <1>13, <2>1 DEF Placed, Kept, Answered, IsAsk
  <2>3. Saw(op, Value(val), <<>>)
    BY <1>4, <1>11, <1>13 DEF SawIn
  <2> QED
    BY <1>3, <1>8, <2>1, <2>2, <2>3, RecorderNotes DEF x
<1>9. CASE p = Main /\ key \notin Dropped
  <2> DEFINE x == Entry(op, Value(val))
  <2> DEFINE log == runs[sess.run].events
  <2> DEFINE new == LogWith(<<f>>)
  <2>1. x.op = op /\ x.obs = Value(val) /\ x.obs[2] = val /\ Value(val) # Pending
    BY DEF Entry, Value, Pending
  <2>2. new = log \o <<f>>
    BY DEF LogWith
  <2>3. Len(log) + 1 \in DOMAIN new /\ new[Len(log) + 1] = f
    BY <1>1, <2>2, LogEnds
  <2> HIDE DEF x, log, new
  <2>4. Placed(x) /\ Kept(x) /\ ~Answered(x) /\ ByAgent(f)
    BY <1>6, <1>7, <1>9, <2>1 DEF Placed, Kept, Answered, ByAgent, IsAsk
  <2>5. AccessBy(x, f)
    BY <1>6, <1>7, <1>9, <1>12, <2>1 DEF AccessBy
  <2>6. EntryBy(x, new, Len(log) + 1, current', current)
    BY <1>3, <1>7, <2>1, <2>3, <2>4, <2>5 DEF EntryBy
  <2>7. Fits(x, log, new)
    BY <2>2, <2>4 DEF Fits
  <2>8. Saw(op, Value(val), <<f>>)
    BY <1>4, <1>9, <1>11 DEF SawIn
  <2> QED
    BY <1>3, <1>8, <2>1, <2>6, <2>7, <2>8, RecorderSaw DEF x, log, new
<1>14. CASE p # Main /\ key \in Dropped
  <2>1. UNCHANGED transcript /\ RunBecomes(<<>>, runs[sess.run].script)
    BY <1>4, <1>11, <1>14, SawInRun
  <2>2. runs'[sess'.run].events = runs[sess.run].events /\ runs'[sess'.run].script = runs[sess.run].script
    BY <1>3, <2>1, RecorderRuns
  <2> QED
    BY <1>3, <1>8, <2>1, <2>2 DEF RecorderHolds
<1>10. CASE p # Main /\ key \notin Dropped
  <2>1. UNCHANGED transcript /\ RunBecomes(<<f>>, runs[sess.run].script)
    BY <1>4, <1>10, <1>11, SawInRun
  <2>2. runs'[sess'.run].events = LogWith(<<f>>) /\ runs'[sess'.run].script = runs[sess.run].script
    BY <1>3, <2>1, RecorderRuns
  <2>3. ~ByAgent(f)
    <3>1. f.tool # None
      BY <1>6, <1>10, ThreadsAssumption DEF Threads, Main
    <3> QED
      BY <1>6, <3>1 DEF ByAgent
  <2>4. PICK at, call : Recording(transcript, runs[sess.run].events, current, scope, at, call)
    BY DEF RecorderHolds
  <2>5. Recording(transcript, LogWith(<<f>>), current, scope, at, call)
    BY <1>1, <2>3, <2>4, RecorderKeeps DEF LogWith
  <2>6. Recording(transcript', runs'[sess'.run].events, current', scope', at, call)
    BY <1>3, <2>1, <2>2, <2>5
  <2>7. runs'[sess'.run].script = transcript'
    BY <2>1, <2>2 DEF RecorderHolds
  <2> QED
    BY <1>8, <2>6, <2>7 DEF RecorderHolds
<1> QED
  BY <1>9, <1>10, <1>13, <1>14

\* The tools of the recording agent.
LEMMA ToolsRecorded ==
    ASSUME DropsInputsOnly, SessionHolds, ShapeHolds, OutcomesHold, RecorderHolds, Open, ~sess.replays, NEW t \in ToolIds,
           NEW args, NEW raises, ToolCall(t, args) \/ ToolReturn(t, raises)
    PROVE  RecorderHolds'
<1>1. sess.records /\ ~sess.fork /\ ToolRecord(t) = 0 /\ IsSeq(runs[sess.run].events)
  BY RecorderOnly
<1>2. UNCHANGED <<sess, current, handle>>
  BY DEF ToolCall, ToolReturn, openVars, callVars
<1>3. LiveHandle(handle') /\ current # None
  <2>1. current \in Nat
    BY DEF ShapeHolds, CallShape
  <2> QED
    BY <1>2, <2>1, NoneAssumption DEF RecorderHolds
<1>4. CASE ToolCall(t, args)
  <2> DEFINE op == <<"tool", t, args>>
  <2>1. Saw(op, Pending, <<>>) /\ scope[t] = None /\ scope' = [scope EXCEPT ![t] = current]
    BY <1>1, <1>4 DEF ToolCall
  <2>2. op[1] = "tool" /\ op[2] = t
    OBVIOUS
  <2> HIDE DEF op
  <2> DEFINE x == Entry(op, Pending)
  <2>3. ~Placed(x)
    BY <2>2 DEF Placed, Kept, Answered, Entry, IsAsk
  <2> HIDE DEF x
  <2> QED
    BY <1>2, <1>3, <2>1, <2>2, <2>3, RecorderNotes DEF x
<1>5. CASE ToolReturn(t, raises)
  <2>1. PICK i : Returns(t, raises, i)
    BY <1>5, ToolReturns
  <2> DEFINE obs == IF raises THEN Raised ELSE Value(world + 1)
  <2> DEFINE e == RedactEvent(ToolEvent(t, i, obs))
  <2> DEFINE events == IF raises THEN <<>> ELSE <<e>>
  <2> DEFINE script == [runs[sess.run].script EXCEPT ![i].obs = obs]
  <2>9. Recorded(ToolEvent(t, i, obs)) = <<e>>
    <3>1. ToolEvent(t, i, obs).type = "tool_call"
      BY DEF ToolEvent
    <3> QED
      BY <3>1, NeverDropped
  <2>2. /\ i \in DOMAIN transcript /\ transcript[i].obs = Pending /\ transcript[i].op[2] = t
        /\ transcript' = [transcript EXCEPT ![i] = Entry(transcript[i].op, obs)]
        /\ RunBecomes(events, script)
    BY <2>1, <2>9 DEF Returns
  <2>3. scope' = [scope EXCEPT ![t] = None]
    BY <1>5 DEF ToolReturn
  <2>4. script = transcript'
    <3>1. script = [transcript EXCEPT ![i].obs = obs]
      BY DEF RecorderHolds
    <3> DEFINE w == transcript[i]
    <3>2. w = [op |-> w.op, obs |-> w.obs]
      BY <2>2 DEF ShapeHolds, ToolShape, Entry
    <3> HIDE DEF obs
    <3>3. [w EXCEPT !.obs = obs] = Entry(w.op, obs)
      BY <3>2 DEF Entry
    <3> QED
      BY <2>2, <3>1, <3>3
  <2> DEFINE new == IF raises THEN runs[sess.run].events ELSE runs[sess.run].events \o <<RedactEvent(ToolEvent(t, i, obs))>>
  <2>5. runs'[sess'.run].events = new /\ runs'[sess'.run].script = script
    <3>1. runs'[sess'.run].events = LogWith(events) /\ runs'[sess'.run].script = script
      BY <1>2, <2>2, RecorderRuns
    <3>2. runs[sess.run].events \o <<>> = runs[sess.run].events
      BY <1>1, JoinedNothing
    <3> QED
      BY <3>1, <3>2 DEF LogWith
  <2> HIDE DEF script
  <2>6. PICK at, call : Recording(transcript, runs[sess.run].events, current, scope, at, call)
    BY DEF RecorderHolds
  <2>7. Recording(transcript', new, current, scope', at, call)
    BY <1>1, <2>2, <2>3, <2>6, RecorderReturns
  <2> HIDE DEF new
  <2>8. Recording(transcript', runs'[sess'.run].events, current', scope', at, call)
    BY <1>2, <2>5, <2>7
  <2> QED
    BY <1>3, <2>4, <2>5, <2>8 DEF RecorderHolds
<1> QED
  BY <1>4, <1>5

\* Session.outcome of the recording agent.
LEMMA OutcomeIsRecorded ==
    ASSUME DropsInputsOnly, SessionHolds, ShapeHolds, OutcomesHold, RecorderHolds, Open, ~sess.replays, NEW status, Outcome(status)
    PROVE  RecorderHolds'
<1>1. sess.records /\ IsSeq(runs[sess.run].events)
  BY RecorderOnly
<1>2. UNCHANGED <<sess, current, handle, scope>>
  BY DEF Outcome, openVars, callVars, toolVars
<1>3. LiveHandle(handle')
  BY <1>2 DEF RecorderHolds
<1> DEFINE op == <<"outcome", status>>
<1> DEFINE e == [type |-> "outcome", status |-> status]
<1>4. \/ outcome # None /\ outcome # status /\ Saw(op, Miss, <<>>)
      \/ Saw(op, Value(status), <<e>>)
  <2>1. Recorded(e) = <<e>>
    BY NeverDropped, RedactedOutcome
  <2> QED
    BY <1>1, <2>1 DEF Outcome
<1>5. op[1] = "outcome" /\ op[2] = status /\ e.type = "outcome" /\ e.status = status
  OBVIOUS
<1> HIDE DEF op, e
<1>6. \A obs : LET x == Entry(op, obs) IN x.op = op /\ x.obs = obs /\ ~Placed(x)
  BY <1>5 DEF Placed, Kept, Answered, Entry, IsAsk
<1>7. CASE outcome # None /\ outcome # status /\ Saw(op, Miss, <<>>)
  <2> DEFINE x == Entry(op, Miss)
  <2>1. x.op = op /\ x.obs = Miss /\ ~Placed(x) /\ Miss # Pending
    BY <1>6 DEF Miss, Pending
  <2>2. LogWith(<<>>) = runs[sess.run].events
    BY <1>1, JoinedNothing DEF LogWith
  <2> HIDE DEF x
  <2>3. PICK j \in OfType(runs[sess.run].events, "outcome") : runs[sess.run].events[j].status = outcome
    BY <1>7 DEF OutcomesHold
  <2>4. OutcomeBy(x, runs[sess.run].events[j]) /\ j \in DOMAIN runs[sess.run].events
    BY <1>5, <1>7, <2>1, <2>3 DEF OutcomeBy, OfType
  <2>5. \E i \in DOMAIN LogWith(<<>>) : OutcomeBy(x, LogWith(<<>>)[i])
    BY <2>2, <2>4
  <2> QED
    BY <1>2, <1>3, <1>5, <1>7, <2>1, <2>5, RecorderNotes DEF x
<1>8. CASE Saw(op, Value(status), <<e>>)
  <2> DEFINE x == Entry(op, Value(status))
  <2>1. x.op = op /\ x.obs = Value(status) /\ ~Placed(x) /\ Value(status) # Pending
    BY <1>6 DEF Value, Pending
  <2>2. ~ByAgent(e)
    BY <1>5 DEF ByAgent
  <2> HIDE DEF x
  <2>3. OutcomeBy(x, e)
    BY <1>5, <2>1 DEF OutcomeBy
  <2>4. \E i \in DOMAIN LogWith(<<e>>) : OutcomeBy(x, LogWith(<<e>>)[i])
    BY <1>1, <2>3, LogEnds DEF LogWith
  <2> QED
    BY <1>2, <1>3, <1>5, <1>8, <2>1, <2>2, <2>4, RecorderNotes DEF x
<1> QED
  BY <1>4, <1>7, <1>8

\* Nothing needs no explanation.
LEMMA NothingExplained ==
    ASSUME NEW events, NEW at, NEW call
    PROVE  /\ Explained(<<>>, events, at, call) /\ Whole(<<>>, <<>>, at)
           /\ \A running : Waiting(<<>>, running, call)
  BY DEF Explained, Ordered, NoneBetween, Whole, Waiting

\* A session is opened; the run of a recording session, or of a fork, is new.
LEMMA OpenRecorded ==
    ASSUME SessionHolds, ShapeHolds, RunsExplained,
           \/ \E mode \in Modes, match \in MatchConfigs : OpenSession(mode, match)
           \/ \E source \in DOMAIN runs, drop \in Drops, from \in 0 .. MaxOps,
                 match \in MatchConfigs : OpenFork(source, drop, from, match)
    PROVE  RunsExplained' /\ RecorderHolds'
<1>1. IsSeq(runs) /\ ~Open
  BY DEF SessionHolds, IsStore, OpenSession, OpenFork, Start
<1>2. transcript = <<>> /\ handle = NoStream /\ current = 0
  BY <1>1 DEF ShapeHolds, FreshSession
<1>3. ASSUME NEW events, NEW fork, runs' = Append(runs, NewRun(events, fork))
      PROVE  RunsExplained' /\ runs'[Len(runs) + 1].events = events /\ runs'[Len(runs) + 1].script = <<>>
  <2> DEFINE x == NewRun(events, fork)
  <2>1. x.events = events /\ x.script = <<>>
    BY DEF NewRun
  <2> HIDE DEF x
  <2>2. /\ DOMAIN runs' = DOMAIN runs \cup {Len(runs) + 1} /\ runs'[Len(runs) + 1] = x
        /\ \A i \in DOMAIN runs : runs'[i] = runs[i]
    BY <1>1, <1>3, Appended DEF x
  <2>3. \E at, call : Explained(x.script, x.events, at, call)
    BY <2>1, NothingExplained
  <2> QED
    BY <2>1, <2>2, <2>3 DEF RunsExplained
<1>4. ASSUME NEW mode \in Modes, NEW match \in MatchConfigs, OpenSession(mode, match)
      PROVE  RunsExplained' /\ RecorderHolds'
  <2> DEFINE named == LastOf({i \in DOMAIN runs : ~runs[i].fork})
  <2> DEFINE found == mode # "all" /\ named # 0
  <2>1. /\ runs' = IF found THEN runs ELSE Append(runs, NewRun(<<>>, FALSE))
        /\ sess'.run = (IF found THEN named ELSE Len(runs) + 1) /\ sess'.replays = found
        /\ UNCHANGED <<transcript, handle, current, scope>>
    BY <1>4 DEF OpenSession, Start, toolVars
  <2> HIDE DEF named
  <2>2. CASE found
    BY <2>1, <2>2 DEF RunsExplained, RecorderHolds
  <2>3. CASE ~found
    <3>1. RunsExplained' /\ runs'[sess'.run].events = <<>> /\ runs'[sess'.run].script = <<>>
      BY <1>3, <2>1, <2>3
    <3>2. Recording(<<>>, <<>>, 0, scope', <<>>, <<>>)
      BY NothingExplained DEF Recording, Before
    <3>3. Recording(transcript', runs'[sess'.run].events, current', scope', <<>>, <<>>)
      BY <1>2, <2>1, <3>1, <3>2
    <3> QED
      BY <1>2, <2>1, <3>1, <3>3 DEF RecorderHolds, LiveHandle
  <2> QED
    BY <2>2, <2>3
<1>5. ASSUME NEW source \in DOMAIN runs, NEW drop, NEW from, NEW match, OpenFork(source, drop, from, match)
      PROVE  RunsExplained' /\ RecorderHolds'
  <2>1. /\ sess'.replays
        /\ runs' = Append(runs, NewRun(<<[type |-> "intervention"]>>, TRUE))
    BY <1>5 DEF OpenFork, Start
  <2> QED
    BY <1>3, <2>1 DEF RecorderHolds
<1> QED
  BY <1>4, <1>5

\* A session that replays leaves what explains its run.
LEMMA ReplayRecorded ==
    ASSUME SessionHolds, RunsExplained, Open, sess.replays, RunStep, UNCHANGED sess
    PROVE  RunsExplained' /\ RecorderHolds'
<1> DEFINE k == sess.run
<1> DEFINE log == runs[k].events
<1>1. k \in DOMAIN runs /\ IsSeq(log)
  BY DEF SessionHolds, IsStore, IsRun
<1>2. PICK events : RunBecomes(events, runs[k].script) /\ (events = <<>> \/ \E e : events = <<e>>)
  BY DEF RunStep
<1>3. /\ DOMAIN runs' = DOMAIN runs /\ \A i \in DOMAIN runs : i # k => runs'[i] = runs[i]
      /\ runs'[k].script = runs[k].script
      /\ runs'[k].events = log \/ \E e : runs'[k].events = log \o <<e>>
  <2>1. log \o <<>> = log
    BY <1>1, JoinedNothing
  <2>2. /\ DOMAIN runs' = DOMAIN runs /\ \A i \in DOMAIN runs : i # k => runs'[i] = runs[i]
        /\ runs'[k].script = runs[k].script /\ runs'[k].events \in {log, log \o events}
    BY <1>2 DEF RunBecomes
  <2> HIDE DEF k, log
  <2>3. CASE events = <<>>
    BY <2>1, <2>2, <2>3
  <2>4. CASE \E e : events = <<e>>
    BY <2>2, <2>4
  <2> QED
    BY <1>2, <2>3, <2>4
<1>4. PICK at, call : Explained(runs[k].script, log, at, call)
  BY <1>1 DEF RunsExplained
<1>5. Explained(runs'[k].script, runs'[k].events, at, call)
  BY <1>1, <1>3, <1>4, ExplainedStays
<1>6. RunsExplained'
  BY <1>3, <1>5 DEF RunsExplained
<1> QED
  BY <1>6 DEF RecorderHolds

\* Every step of the program leaves the runs explained.
LEMMA RecordedStep ==
    ASSUME DropsInputsOnly, SessionHolds, CallsHold, ShapeHolds, OutcomesHold, RunsExplained, RecorderHolds, Next
    PROVE  RunsExplained' /\ RecorderHolds'
<1>1. CASE ~Open
  <2>1. CASE UNCHANGED <<runs, transcript, sess, loaded, consumed, current, handle, report, scope, outcome>>
    BY <1>1, <2>1 DEF RunsExplained, RecorderHolds, Open
  <2> QED
    BY <1>1, <2>1, ClosedStep, OpenRecorded
<1>2. CASE Open /\ RunsStay /\ ~Open'
  BY <1>2 DEF RunsExplained, RecorderHolds, RunsStay
<1>3. CASE Open /\ sess.replays /\ RunStep /\ UNCHANGED <<sess, loaded>>
  BY <1>3, ReplayRecorded
<1>4. CASE Open /\ ~sess.replays /\ RunStep /\ UNCHANGED <<sess, loaded>>
  <2>1. RecorderHolds'
    <3>1. CASE \/ \E mode \in Modes, match \in MatchConfigs : OpenSession(mode, match)
               \/ \E source \in DOMAIN runs, drop \in Drops, from \in 0 .. MaxOps,
                     match \in MatchConfigs : OpenFork(source, drop, from, match)
               \/ \E f \in Paths, c \in Contents : DiskChanges(f, c)
      BY <1>4, <3>1 DEF OpenSession, OpenFork, Start, DiskChanges
    <3>2. CASE \/ \E status \in {"ok", "error"} : CloseSession(status)
               \/ Crash
      BY <1>4, <3>2 DEF CloseSession, Crash, End, Open
    <3>3. CASE \/ \E op \in Asks, raises \in Raises \cup {FALSE} : Ask(op, raises)
               \/ StreamNext
               \/ \E cut \in BOOLEAN : StreamEnd(cut)
      BY <1>4, <3>3, AskRecorded, StreamRecorded
    <3>4. CASE \/ \E p \in Threads : \E op \in AccessesOf(p) :
                     AccessLive(p, op[2], op[3]) \/ AccessBegin(p, op[2], op[3])
               \/ \E p \in Threads : AccessEnd(p)
      BY <1>4, <3>4, AccessRecorded
    <3>5. CASE \/ \E op \in {o \in Ops : o[1] = "tool"} : ToolCall(op[2], op[3])
               \/ \E t \in ToolIds, raises \in Raises \cup {FALSE} : ToolReturn(t, raises)
      <4>1. \A op \in {o \in Ops : o[1] = "tool"} : op[2] \in ToolIds
        BY OpsAssumption
      <4> QED
        BY <1>4, <3>5, <4>1, ToolsRecorded
    <3>6. CASE \E op \in {o \in Ops : o[1] = "outcome"} : Outcome(op[2])
      BY <1>4, <3>6, OutcomeIsRecorded
    <3> QED
      BY <3>1, <3>2, <3>3, <3>4, <3>5, <3>6 DEF Next
  <2>2. \E at, call : Explained(runs'[sess.run].script, runs'[sess.run].events, at, call)
    BY <1>4, <2>1 DEF RecorderHolds, Recording, Open
  <2>3. DOMAIN runs' = DOMAIN runs /\ \A i \in DOMAIN runs : i # sess.run => runs'[i] = runs[i]
    BY <1>4 DEF RunStep, RunBecomes
  <2>4. RunsExplained'
    BY <2>2, <2>3 DEF RunsExplained
  <2> QED
    BY <2>1, <2>4
<1> QED
  BY <1>1, <1>2, <1>3, <1>4, OpenStep

\* Every run is explained by its log, always.
LEMMA RecordedAlways == ASSUME DropsInputsOnly PROVE Spec => [](RunsExplained /\ RecorderHolds)
<1>1. Init => RunsExplained /\ RecorderHolds
  BY DEF Init, RunsExplained, RecorderHolds, Open
<1>2. SessionHolds /\ CallsHold /\ ShapeHolds /\ OutcomesHold /\ RunsExplained /\ RecorderHolds /\ [Next]_vars
      => RunsExplained' /\ RecorderHolds'
  <2>1. ASSUME RunsExplained, RecorderHolds, UNCHANGED vars PROVE RunsExplained' /\ RecorderHolds'
    <3>1. UNCHANGED <<runs, transcript, sess, current, handle, scope>>
      BY <2>1 DEF vars, logVars, openVars, callVars, toolVars
    <3> QED
      BY <2>1, <3>1 DEF RunsExplained, RecorderHolds, Open
  <2> QED
    BY <2>1, RecordedStep
<1> QED
  BY <1>1, <1>2, SessionAlways, CallsAlways, ShapeAlways, OutcomesAlways, PTL DEF Spec

-----------------------------------------------------------------------------
(***************************************************************************)
(* The session that replays: the agent has come to a place of the script,  *)
(* and what was served is what the script has up to there.                 *)
(***************************************************************************)

\* The agent did what the script has.
Follows(tr, script) == Len(tr) <= Len(script) /\ \A i \in DOMAIN tr : Alike(tr[i].op, script[i].op)
\* The places of the requests, and of the accesses of a key, among the first n entries.
Asked(script, n, at) == {at[i] : i \in {j \in 1 .. n : IsAsk(script[j].op)}}
Accessed(script, n, at, key) == {at[i] : i \in {j \in 1 .. n : script[j].op[1] = "access" /\ script[j].op[2] = key}}
KeysOfTools(log) == {log[i].key : i \in {j \in OfType(log, "access") : log[j].tool # None}}

\* The keys whose recorded values are not the agent's own.
Excepted(log) == KeysOfTools(log) \cup Dropped

Agrees(match, op, e) == e.type = "model_call" /\ \A q \in match : Matches(q, e, op[2], op[3])
\* The calls that were served are those asked for, and the one an open stream delivers:
\* the first that agrees with its request.
Calling(match, h, log, asked, answered) ==
    /\ h = NoStream => answered = asked
    /\ h # NoStream /\ h.live => answered = asked /\ \A j \in DOMAIN log : Agrees(match, h.op, log[j]) => j \in asked
    /\ h # NoStream /\ ~h.live =>
           \E i \in DOMAIN log \ asked :
               /\ Agrees(match, h.op, log[i]) /\ h.event = log[i] /\ answered = asked \cup {i}
               /\ \A j \in DOMAIN log \ asked : Agrees(match, h.op, log[j]) => i <= j
Seen(tr, script, log) ==
    \A i \in DOMAIN tr : \/ tr[i].op[1] = "access" /\ tr[i].op[2] \in Excepted(log)
                         \/ tr[i].obs = Shown(script[i])
Cursors(script, n, log, cur, at) ==
    \A k \in Keys \ Excepted(log) : cur[k] = Cardinality(Accessed(script, n, at, k))
Tracks(match, script, tr, log, h, answered, now, cur, running, at, call) ==
    /\ Calling(match, h, log, Asked(script, Len(tr), at), answered)
    /\ h = NoStream => now = Before(call, Len(tr) + 1)
    /\ Cursors(script, Len(tr), log, cur, at)
    /\ \A t \in ToolIds : running[t] = None
    /\ Seen(tr, script, log)

\* The agent comes to the next entry of the script.
LEMMA EntryFollows ==
    ASSUME NEW script, IsSeq(script), Settled(script), NEW tr, IsSeq(tr), NEW op, NEW obs,
           Follows(Append(tr, Entry(op, obs)), script), NEW log, NEW at, NEW call, Explained(script, log, at, call)
    PROVE  LET n == Len(tr)
           IN /\ Follows(tr, script) /\ n \in Nat /\ n + 1 \in DOMAIN script /\ DOMAIN script = 1 .. Len(script)
              /\ Alike(op, script[n + 1].op) /\ script[n + 1].obs \notin {Raised, Pending}
              /\ EntryBy(script[n + 1], log, at[n + 1], call[n + 1], Before(call, n + 1))
              /\ Len(Append(tr, Entry(op, obs))) = n + 1 /\ Before(call, n + 2) = call[n + 1]
<1> DEFINE n == Len(tr)
<1> DEFINE x == Entry(op, obs)
<1> DEFINE new == Append(tr, x)
<1>1. x.op = op
  BY DEF Entry
<1> HIDE DEF x
<1>2. /\ n \in Nat /\ DOMAIN tr = 1 .. n /\ Len(new) = n + 1 /\ DOMAIN new = DOMAIN tr \cup {n + 1}
      /\ new[n + 1] = x /\ \A i \in DOMAIN tr : new[i] = tr[i]
  BY Appended
<1>3. Len(new) <= Len(script) /\ \A i \in DOMAIN new : Alike(new[i].op, script[i].op)
  BY DEF Follows, x
<1>4. Len(script) \in Nat /\ DOMAIN script = 1 .. Len(script)
  BY DEF IsSeq
<1> HIDE DEF new
<1>5. n + 1 \in DOMAIN script
  BY <1>2, <1>3, <1>4
<1>6. Follows(tr, script)
  BY <1>2, <1>3, <1>4 DEF Follows
<1>7. Alike(op, script[n + 1].op) /\ script[n + 1].obs \notin {Raised, Pending}
  BY <1>1, <1>2, <1>3, <1>5 DEF Settled
<1>8. EntryBy(script[n + 1], log, at[n + 1], call[n + 1], Before(call, n + 1))
  BY <1>5 DEF Explained
<1>9. Before(call, n + 2) = call[n + 1]
  BY <1>2 DEF Before
<1> QED
  BY <1>2, <1>4, <1>5, <1>6, <1>7, <1>8, <1>9 DEF new, x

\* The places after one more entry.
LEMMA PlacesGrow ==
    ASSUME NEW script, NEW n \in Nat, NEW at
    PROVE  /\ Asked(script, n + 1, at) =
                  IF IsAsk(script[n + 1].op) THEN Asked(script, n, at) \cup {at[n + 1]} ELSE Asked(script, n, at)
           /\ \A k : Accessed(script, n + 1, at, k) =
                  IF script[n + 1].op[1] = "access" /\ script[n + 1].op[2] = k
                  THEN Accessed(script, n, at, k) \cup {at[n + 1]} ELSE Accessed(script, n, at, k)
<1>1. 1 .. n + 1 = (1 .. n) \cup {n + 1}
  OBVIOUS
<1> QED
  BY <1>1 DEF Asked, Accessed

\* The agent has seen the next entry.
LEMMA TracksGrows ==
    ASSUME NEW script, IsSeq(script), Settled(script), NEW tr, IsSeq(tr), NEW op, NEW obs, NEW new,
           new = Append(tr, Entry(op, obs)), Follows(new, script),
           NEW log, NEW at, NEW call, Explained(script, log, at, call), Seen(tr, script, log),
           NEW match, NEW h, NEW answered, NEW now, NEW cur, NEW running,
           Calling(match, h, log, Asked(script, Len(tr) + 1, at), answered),
           h = NoStream => now = call[Len(tr) + 1],
           Cursors(script, Len(tr) + 1, log, cur, at),
           \A t \in ToolIds : running[t] = None,
           (op[1] = "access" /\ op[2] \in Excepted(log)) \/ obs = Shown(script[Len(tr) + 1])
    PROVE  Tracks(match, script, new, log, h, answered, now, cur, running, at, call)
<1> DEFINE n == Len(tr)
<1> DEFINE x == Entry(op, obs)
<1>1. /\ n \in Nat /\ Len(new) = n + 1 /\ Before(call, n + 2) = call[n + 1]
  BY EntryFollows
<1>2. x.op = op /\ x.obs = obs
  BY DEF Entry
<1>3. DOMAIN new = DOMAIN tr \cup {n + 1} /\ new[n + 1] = x /\ \A i \in DOMAIN tr : new[i] = tr[i]
  BY Appended
<1> HIDE DEF x
<1>4. Seen(new, script, log)
  BY <1>2, <1>3 DEF Seen
<1>5. Len(new) + 1 = n + 2
  BY <1>1
<1> QED
  BY <1>1, <1>4, <1>5 DEF Tracks

\* The next entry is no request.
LEMMA OtherTracks ==
    ASSUME NEW script, IsSeq(script), Settled(script), NEW tr, IsSeq(tr), NEW op, NEW obs, NEW new,
           new = Append(tr, Entry(op, obs)), Follows(new, script), ~IsAsk(op),
           NEW log, NEW at, NEW call, Explained(script, log, at, call),
           NEW match, NEW h, NEW answered, NEW now, NEW old, NEW cur, NEW running,
           Tracks(match, script, tr, log, h, answered, now, old, running, at, call),
           Cursors(script, Len(tr) + 1, log, cur, at),
           (op[1] = "access" /\ op[2] \in Excepted(log)) \/ obs = Shown(script[Len(tr) + 1])
    PROVE  Tracks(match, script, new, log, h, answered, now, cur, running, at, call)
<1> DEFINE n == Len(tr)
<1>1. /\ n \in Nat /\ Alike(op, script[n + 1].op)
      /\ EntryBy(script[n + 1], log, at[n + 1], call[n + 1], Before(call, n + 1))
  BY EntryFollows
<1>2. ~IsAsk(script[n + 1].op)
  BY <1>1 DEF Alike, IsAsk
<1>3. Asked(script, n + 1, at) = Asked(script, n, at) /\ call[n + 1] = Before(call, n + 1)
  BY <1>1, <1>2, PlacesGrow DEF EntryBy, Answered
<1>4. Calling(match, h, log, Asked(script, n + 1, at), answered) /\ (h = NoStream => now = call[n + 1])
  BY <1>3 DEF Tracks
<1>5. Seen(tr, script, log) /\ \A t \in ToolIds : running[t] = None
  BY DEF Tracks
<1> QED
  BY <1>4, <1>5, TracksGrows

\* The cursors stay if the next entry is no access.
LEMMA CursorsKept ==
    ASSUME NEW script, NEW n \in Nat, script[n + 1].op[1] # "access", NEW log, NEW cur, NEW at,
           Cursors(script, n, log, cur, at)
    PROVE  Cursors(script, n + 1, log, cur, at)
<1>1. \A k : Accessed(script, n + 1, at, k) = Accessed(script, n, at, k)
  BY PlacesGrow
<1> QED
  BY <1>1 DEF Cursors

\* The call of the next request is the first recorded one that was not asked for yet.
LEMMA CallPlace ==
    ASSUME NEW script, IsSeq(script), Settled(script), NEW log, IsSeq(log), NEW at, NEW call,
           Explained(script, log, at, call), NEW n \in Nat, n + 1 \in DOMAIN script, IsAsk(script[n + 1].op)
    PROVE  /\ at[n + 1] \in DOMAIN log \ Asked(script, n, at) /\ CallBy(script[n + 1], log[at[n + 1]])
           /\ call[n + 1] = log[at[n + 1]].call
           /\ \A j \in DOMAIN log \ Asked(script, n, at) : log[j].type = "model_call" => at[n + 1] <= j
<1> DEFINE x == script[n + 1]
<1> DEFINE p == at[n + 1]
<1>1. Len(script) \in Nat /\ DOMAIN script = 1 .. Len(script) /\ DOMAIN log \subseteq Nat
  BY DEF IsSeq
<1>2. Answered(x) /\ Placed(x)
  BY DEF Answered, Placed, Settled
<1>3. p \in DOMAIN log /\ CallBy(x, log[p]) /\ call[n + 1] = log[p].call
  BY <1>2 DEF Explained, EntryBy
<1>4. \A i \in 1 .. n : i \in DOMAIN script /\ i < n + 1
  BY <1>1
<1>5. p \notin Asked(script, n, at)
  <2> SUFFICES ASSUME NEW i \in 1 .. n, IsAsk(script[i].op), p = at[i] PROVE FALSE
    BY DEF Asked
  <2>1. Placed(script[i])
    BY <1>4 DEF Settled, Placed, Answered
  <2>2. at[i] < at[n + 1]
    BY <1>2, <1>4, <2>1 DEF Explained, Ordered
  <2> QED
    BY <1>1, <1>3, <2>2
<1>6. ASSUME NEW j \in DOMAIN log \ Asked(script, n, at), log[j].type = "model_call", ~(p <= j) PROVE FALSE
  <2>1. ByAgent(log[j]) /\ j < p
    BY <1>1, <1>3, <1>6 DEF ByAgent
  <2>2. PICK i \in DOMAIN script : i < n + 1 /\ Placed(script[i]) /\ at[i] = j
    BY <1>2, <2>1 DEF Explained, NoneBetween
  <2>3. i \in 1 .. n
    BY <1>1, <2>2
  <2>4. Answered(script[i])
    <3>1. Kept(script[i]) => log[j].type = "access"
      BY <2>2 DEF Explained, EntryBy, AccessBy
    <3> QED
      BY <1>6, <2>2, <3>1 DEF Placed
  <2> QED
    BY <1>6, <2>2, <2>3, <2>4 DEF Asked, Answered
<1> QED
  BY <1>3, <1>5, <1>6

\* The session replays a run as it was recorded, its log explains its script, and if the
\* agent has followed the script, what was served is in step with it.
Script == runs[sess.run].script
TracksNow(at, call) == Tracks(sess.match, Script, transcript, loaded, handle, consumed, current, cursor, scope, at, call)
TracksThen(at, call) == Tracks(sess.match, Script, transcript', loaded, handle', consumed', current', cursor', scope', at, call)
Repeating(at, call) ==
    /\ Open /\ sess.replays /\ ~sess.fork /\ ToolsAsRecorded
    /\ IsSeq(Script) /\ Settled(Script) /\ Explained(Script, loaded, at, call)
    /\ Follows(transcript, Script) => TracksNow(at, call)

\* A request like the one the log has a call for agrees with it, whatever is compared.
LEMMA RequestAgrees ==
    ASSUME NEW match \in MatchConfigs \cup {{}}, NEW op, NEW x, NEW e, IsAsk(op), Alike(op, x.op), CallBy(x, e)
    PROVE  Agrees(match, op, e)
<1>1. e.type = "model_call" /\ e.model = op[2] /\ e.blocks = RedactAll(op[3])
  BY DEF IsAsk, Alike, CallBy
<1>2. \A q \in match : q \in {"model", "messages_hash", "system_prompt", "tool_names", "ordinal"}
  BY MatchAssumption
<1>3. ASSUME NEW q \in match PROVE Matches(q, e, op[2], op[3])
  <2>1. CASE q = "model"
    BY <1>1, <2>1 DEF Matches
  <2>2. CASE q = "messages_hash"
    BY <1>1, <2>2 DEF Matches
  <2>3. CASE q = "system_prompt"
    BY <1>1, <2>3 DEF Matches
  <2>4. CASE q = "tool_names"
    BY <1>1, <2>4 DEF Matches
  <2>5. CASE q = "ordinal"
    BY <2>5 DEF Matches
  <2> QED
    BY <1>2, <2>1, <2>2, <2>3, <2>4, <2>5
<1> QED
  BY <1>1, <1>3 DEF Agrees

\* The matcher serves the first recorded call that agrees and was not served.
LEMMA FirstAgreeing ==
    ASSUME ShapeHolds, NEW op
    PROVE  LET hit == Hit(op[2], op[3])
           IN /\ hit # 0 => /\ hit \in DOMAIN loaded \ consumed /\ Agrees(sess.match, op, loaded[hit])
                            /\ \A j \in DOMAIN loaded \ consumed : Agrees(sess.match, op, loaded[j]) => hit <= j
              /\ hit = 0 => \A j \in DOMAIN loaded : Agrees(sess.match, op, loaded[j]) => j \in consumed
<1> DEFINE S == {i \in OfType(loaded, "model_call") \ consumed :
                     \A q \in sess.match : Matches(q, loaded[i], op[2], op[3])}
<1>1. S = {i \in DOMAIN loaded \ consumed : Agrees(sess.match, op, loaded[i])}
  BY DEF OfType, Agrees
<1>2. Hit(op[2], op[3]) = FirstOf(S)
  BY DEF Hit
<1>3. DOMAIN loaded \subseteq Nat /\ 0 \notin DOMAIN loaded
  BY DEF ShapeHolds, LoadedShape, IsSeq
<1> HIDE DEF S
<1>4. S \subseteq Nat /\ 0 \notin S
  BY <1>1, <1>3
<1>5. (S = {} /\ FirstOf(S) = 0) \/ (FirstOf(S) \in S /\ \A j \in S : FirstOf(S) <= j)
  BY <1>4, FirstPosition
<1> QED
  BY <1>1, <1>2, <1>4, <1>5

\* The next request is served with the call the script has for it.
LEMMA NextRequest ==
    ASSUME ShapeHolds, NEW at, NEW call, Repeating(at, call), NEW op, NEW obs,
           transcript' = Append(transcript, Entry(op, obs)), Follows(transcript', Script), IsAsk(op)
    PROVE  LET n == Len(transcript)
               p == at[n + 1]
           IN /\ TracksNow(at, call) /\ n \in Nat /\ Alike(op, Script[n + 1].op)
              /\ Agrees(sess.match, op, loaded[p])
              /\ p \in DOMAIN loaded \ Asked(Script, n, at) /\ CallBy(Script[n + 1], loaded[p])
              /\ call[n + 1] = loaded[p].call /\ Asked(Script, n + 1, at) = Asked(Script, n, at) \cup {p}
              /\ \A j \in DOMAIN loaded \ Asked(Script, n, at) : loaded[j].type = "model_call" => p <= j
              /\ Cursors(Script, n + 1, loaded, cursor, at)
              /\ p \in Nat /\ DOMAIN loaded \subseteq Nat \ {0}
<1> DEFINE n == Len(transcript)
<1> DEFINE s == Script
<1>1. /\ IsSeq(s) /\ Settled(s) /\ Explained(s, loaded, at, call) /\ IsSeq(transcript) /\ IsSeq(loaded)
      /\ (Follows(transcript, s) => TracksNow(at, call))
  BY DEF Repeating, ShapeHolds, ToolShape, LoadedShape
<1>2. DOMAIN loaded \subseteq Nat \ {0}
  BY <1>1 DEF IsSeq
<1> HIDE DEF s
<1>3. /\ Follows(transcript, s) /\ n \in Nat /\ n + 1 \in DOMAIN s
      /\ Alike(op, s[n + 1].op) /\ IsAsk(s[n + 1].op)
  <2>1. Follows(Append(transcript, Entry(op, obs)), s)
    BY DEF s
  <2>2. Follows(transcript, s) /\ n \in Nat /\ n + 1 \in DOMAIN s /\ Alike(op, s[n + 1].op)
    BY <1>1, <2>1, EntryFollows
  <2> QED
    BY <2>2 DEF Alike, IsAsk
<1>4. /\ at[n + 1] \in DOMAIN loaded \ Asked(s, n, at) /\ CallBy(s[n + 1], loaded[at[n + 1]])
      /\ call[n + 1] = loaded[at[n + 1]].call
      /\ \A j \in DOMAIN loaded \ Asked(s, n, at) : loaded[j].type = "model_call" => at[n + 1] <= j
  BY <1>1, <1>3, CallPlace
<1>5. Asked(s, n + 1, at) = Asked(s, n, at) \cup {at[n + 1]}
  BY <1>3, PlacesGrow
<1>6. Cursors(s, n, loaded, cursor, at)
  BY <1>1, <1>3 DEF TracksNow, Tracks, s
<1>7. Cursors(s, n + 1, loaded, cursor, at)
  <2>1. s[n + 1].op[1] # "access"
    BY <1>3 DEF IsAsk
  <2> QED
    BY <1>3, <1>6, <2>1, CursorsKept
<1>8. Agrees(sess.match, op, loaded[at[n + 1]])
  <2>1. sess.match \in MatchConfigs \cup {{}}
    BY DEF Repeating, ShapeHolds, LoadedShape
  <2> QED
    BY <1>3, <1>4, <2>1, RequestAgrees
<1> QED
  BY <1>1, <1>2, <1>3, <1>4, <1>5, <1>7, <1>8 DEF s

\* The agent has made the request.
LEMMA RequestTracks ==
    ASSUME ShapeHolds, NEW at, NEW call, Repeating(at, call), NEW op, NEW obs,
           transcript' = Append(transcript, Entry(op, obs)), Follows(transcript', Script), IsAsk(op),
           LET p == at[Len(transcript) + 1]
           IN /\ handle' = NoStream /\ current' = loaded[p].call /\ obs = loaded[p].obs
              /\ consumed' = Asked(Script, Len(transcript), at) \cup {p},
           UNCHANGED <<cursor, scope>>
    PROVE  TracksThen(at, call)
<1> DEFINE n == Len(transcript)
<1> DEFINE s == Script
<1>1. /\ IsSeq(s) /\ Settled(s) /\ Explained(s, loaded, at, call) /\ IsSeq(transcript)
  BY DEF Repeating, ShapeHolds, ToolShape
<1>2. /\ TracksNow(at, call) /\ CallBy(s[n + 1], loaded[at[n + 1]]) /\ Alike(op, s[n + 1].op) /\ call[n + 1] = loaded[at[n + 1]].call
      /\ Asked(s, n + 1, at) = Asked(s, n, at) \cup {at[n + 1]} /\ Cursors(s, n + 1, loaded, cursor, at)
  BY NextRequest
<1>3. Calling(sess.match, handle', loaded, Asked(s, n + 1, at), consumed')
  BY <1>2 DEF Calling
<1>4. obs = Shown(s[n + 1])
  BY <1>2 DEF CallBy, Alike, IsAsk, Shown
<1>5. Seen(transcript, s, loaded) /\ \A t \in ToolIds : scope'[t] = None
  BY <1>2 DEF TracksNow, Tracks
<1>6. current' = call[n + 1] /\ Cursors(s, n + 1, loaded, cursor', at) /\ Follows(transcript', s)
  BY <1>2
<1> HIDE DEF s
<1>7. Tracks(sess.match, s, transcript', loaded, handle', consumed', current', cursor', scope', at, call)
  BY <1>1, <1>3, <1>4, <1>5, <1>6, TracksGrows
<1> QED
  BY <1>7 DEF TracksThen, s

\* A request with three parts is not the record of a stream, which has the chunks too.
LEMMA NotExtended ==
    ASSUME NEW op, op = <<op[1], op[2], op[3]>>
    PROVE  Len(op) # 4
<1> DEFINE a == op[1]
<1> DEFINE b == op[2]
<1> DEFINE c == op[3]
<1>1. op = <<a, b, c>>
  OBVIOUS
<1> HIDE DEF a, b, c
<1>2. Len(op) = 3
  BY <1>1
<1> QED
  BY <1>2

\* Model.create and Model.stream of an agent that follows the script.
LEMMA AskTracks ==
    ASSUME SessionHolds, ShapeHolds, NEW at, NEW call, Repeating(at, call), Follows(transcript', Script),
           NEW op \in Asks, NEW raises, Ask(op, raises)
    PROVE  TracksThen(at, call)
<1> DEFINE n == Len(transcript)
<1> DEFINE p == at[n + 1]
<1> DEFINE hit == Hit(op[2], op[3])
<1>1. /\ Open /\ handle = NoStream /\ UNCHANGED <<cursor, scope>>
      /\ \/ hit # 0 /\ ServeCall(hit, op)
         \/ hit = 0 /\ RefuseCall(op)
         \/ hit = 0 /\ SendCall(op[2], op[3], op, raises)
  BY DEF Ask, AgentReady, accessVars, toolVars, TurnMessages, Repeating
<1>2. IsAsk(op) /\ op = <<op[1], op[2], op[3]>>
  BY OpsAssumption DEF Asks, IsAsk
<1>3. /\ hit # 0 => /\ hit \in DOMAIN loaded \ consumed /\ Agrees(sess.match, op, loaded[hit])
                    /\ \A j \in DOMAIN loaded \ consumed : Agrees(sess.match, op, loaded[j]) => hit <= j
      /\ hit = 0 => \A j \in DOMAIN loaded : Agrees(sess.match, op, loaded[j]) => j \in consumed
  BY FirstAgreeing DEF Repeating
<1> HIDE DEF hit
<1>4. ASSUME NEW obs, transcript' = Append(transcript, Entry(op, obs)) PROVE TracksThen(at, call)
  <2>1. /\ TracksNow(at, call) /\ Alike(op, Script[n + 1].op) /\ Agrees(sess.match, op, loaded[p])
        /\ p \in DOMAIN loaded \ Asked(Script, n, at) /\ CallBy(Script[n + 1], loaded[p])
        /\ \A j \in DOMAIN loaded \ Asked(Script, n, at) : loaded[j].type = "model_call" => p <= j
        /\ p \in Nat /\ DOMAIN loaded \subseteq Nat \ {0}
    BY <1>2, <1>4, NextRequest
  <2> HIDE DEF p
  <2>2. consumed = Asked(Script, n, at)
    BY <1>1, <2>1 DEF TracksNow, Tracks, Calling
  <2>3. op[1] = "create" /\ loaded[p].chunks = None /\ Agrees(sess.match, op, loaded[p])
    <3>1. Len(Script[n + 1].op) # 4 /\ Script[n + 1].op[1] = op[1]
      BY <1>2, <2>1, NotExtended DEF Alike
    <3> QED
      BY <1>2, <2>1, <3>1 DEF CallBy, IsAsk
  <2>4. hit # 0 /\ hit = p
    <3>1. hit # 0
      BY <1>3, <2>1, <2>2, <2>3
    <3>2. hit <= p /\ p <= hit /\ hit \in Nat
      BY <1>3, <2>1, <2>2, <2>3, <3>1 DEF Agrees
    <3> QED
      BY <2>1, <3>1, <3>2
  <2>5. /\ consumed' = consumed \cup {p} /\ current' = loaded[p].call /\ handle' = NoStream
        /\ Saw(op, loaded[p].obs, <<>>)
    BY <1>1, <2>3, <2>4 DEF ServeCall
  <2>6. transcript' = Append(transcript, Entry(op, loaded[p].obs))
    BY <1>1, <2>5, SawRun
  <2> QED
    BY <1>1, <1>2, <2>2, <2>5, <2>6, RequestTracks DEF p
<1>5. ASSUME UNCHANGED transcript, NEW h, handle' = h, IsHandle(h), h.op = op, UNCHANGED <<cursor, scope>>,
             \/ hit # 0 /\ ~h.live /\ h.event = loaded[hit] /\ consumed' = consumed \cup {hit}
             \/ hit = 0 /\ h.live /\ UNCHANGED consumed
      PROVE  TracksThen(at, call)
  <2>1. TracksNow(at, call)
    BY <1>5 DEF Repeating
  <2>2. consumed = Asked(Script, n, at)
    BY <1>1, <2>1 DEF TracksNow, Tracks, Calling
  <2>3. h # NoStream
    BY <1>5, HandleIsOpen
  <2>4. Calling(sess.match, h, loaded, Asked(Script, n, at), consumed')
    BY <1>3, <1>5, <2>2, <2>3 DEF Calling
  <2> QED
    BY <1>5, <2>1, <2>3, <2>4 DEF TracksNow, TracksThen, Tracks
<1>6. CASE hit # 0 /\ ServeCall(hit, op)
  <2> DEFINE yes == TRUE
  <2> DEFINE no == FALSE
  <2> DEFINE h == [open |-> yes, event |-> loaded[hit], op |-> op, taken |-> 0, live |-> no]
  <2>1. consumed' = consumed \cup {hit} /\ ((UNCHANGED transcript /\ handle' = h) \/ \E obs : Saw(op, obs, <<>>))
    BY <1>6 DEF ServeCall, logVars
  <2>2. IsHandle(h) /\ h.op = op /\ ~h.live /\ h.event = loaded[hit]
    BY DEF IsHandle
  <2> HIDE DEF h
  <2>3. ASSUME NEW obs, Saw(op, obs, <<>>) PROVE TracksThen(at, call)
    BY <1>1, <1>4, <2>3, SawRun
  <2>4. CASE UNCHANGED transcript /\ handle' = h
    BY <1>1, <1>5, <1>6, <2>1, <2>2, <2>4
  <2> QED
    BY <2>1, <2>3, <2>4
<1>7. CASE hit = 0 /\ RefuseCall(op)
  <2>1. Saw(op, Miss, <<>>)
    BY <1>7 DEF RefuseCall
  <2> QED
    BY <1>1, <1>4, <2>1, SawRun
<1>8. CASE hit = 0 /\ SendCall(op[2], op[3], op, raises)
  <2>1. /\ UNCHANGED consumed
        /\ \/ UNCHANGED transcript /\ \E e : handle' = [open |-> TRUE, event |-> e, op |-> op, taken |-> 0, live |-> TRUE]
           \/ \E obs, events : Saw(op, obs, events)
    BY <1>8 DEF SendCall, logVars
  <2>2. ASSUME NEW obs, NEW events, Saw(op, obs, events) PROVE TracksThen(at, call)
    BY <1>1, <1>4, <2>2, SawRun
  <2>3. ASSUME NEW e, handle' = [open |-> TRUE, event |-> e, op |-> op, taken |-> 0, live |-> TRUE], UNCHANGED transcript
        PROVE  TracksThen(at, call)
    <3> DEFINE h == [open |-> TRUE, event |-> e, op |-> op, taken |-> 0, live |-> TRUE]
    <3>1. IsHandle(h) /\ h.op = op /\ h.live /\ handle' = h
      BY <2>3 DEF IsHandle
    <3> HIDE DEF h
    <3> QED
      BY <1>1, <1>5, <1>8, <2>1, <2>3, <3>1
  <2> QED
    BY <2>1, <2>2, <2>3
<1> QED
  BY <1>1, <1>6, <1>7, <1>8

\* A stream of an agent that follows the script.
LEMMA StreamTracks ==
    ASSUME SessionHolds, ShapeHolds, NEW at, NEW call, Repeating(at, call), Follows(transcript', Script),
           StreamNext \/ \E cut \in BOOLEAN : StreamEnd(cut)
    PROVE  TracksThen(at, call)
<1>1. Open /\ handle # NoStream /\ UNCHANGED <<consumed, cursor, scope>>
  BY DEF StreamNext, StreamEnd, AgentReady, accessVars, toolVars
<1>2. IsHandle(handle) /\ handle.op \in Asks /\ handle.op[1] = "stream"
  BY <1>1, HandleHolds DEF ShapeHolds, CallShape
<1>3. CASE StreamNext
  <2>1. handle' = [handle EXCEPT !.taken = handle.taken + 1] /\ UNCHANGED <<transcript, current>>
    BY <1>3 DEF StreamNext, logVars
  <2>2. IsHandle(handle') /\ handle'.op = handle.op /\ handle'.event = handle.event /\ handle'.live = handle.live
    BY <1>2, <2>1, ChunkTaken
  <2>3. TracksNow(at, call) /\ handle' # NoStream
    BY <2>1, <2>2, HandleIsOpen DEF Repeating
  <2>4. Calling(sess.match, handle', loaded, Asked(Script, Len(transcript), at), consumed)
    BY <1>1, <2>2, <2>3 DEF TracksNow, Tracks, Calling
  <2> QED
    BY <1>1, <2>1, <2>3, <2>4 DEF TracksNow, TracksThen, Tracks
<1>4. ASSUME NEW cut \in BOOLEAN, StreamEnd(cut) PROVE TracksThen(at, call)
  <2> DEFINE n == Len(transcript)
  <2> DEFINE p == at[n + 1]
  <2> DEFINE op == Append(handle.op, handle.taken)
  <2>1. /\ handle' = NoStream /\ current' = handle.event.call
        /\ \E events : Saw(op, Finalized(cut).obs, events)
    BY <1>4 DEF StreamEnd, Spent
  <2>2. IsAsk(op) /\ op[2] = handle.op[2] /\ op[3] = handle.op[3]
    <3>1. handle.op = <<handle.op[1], handle.op[2], handle.op[3]>>
      BY <1>2, OpsAssumption DEF Asks
    <3>2. op[1] = handle.op[1] /\ op[2] = handle.op[2] /\ op[3] = handle.op[3]
      BY <3>1, Extended
    <3> QED
      BY <1>2, <3>2 DEF IsAsk
  <2> HIDE DEF op
  <2>3. transcript' = Append(transcript, Entry(op, Finalized(cut).obs))
    BY <1>1, <2>1, SawRun
  <2>4. /\ TracksNow(at, call) /\ Agrees(sess.match, op, loaded[p])
        /\ p \in DOMAIN loaded \ Asked(Script, n, at) /\ CallBy(Script[n + 1], loaded[p])
        /\ \A j \in DOMAIN loaded \ Asked(Script, n, at) : loaded[j].type = "model_call" => p <= j
        /\ p \in Nat /\ DOMAIN loaded \subseteq Nat \ {0}
    BY <2>2, <2>3, NextRequest
  <2> HIDE DEF p
  <2>5. Agrees(sess.match, handle.op, loaded[p])
    BY <2>2, <2>4 DEF Agrees
  <2>6. ~handle.live
    BY <1>1, <2>4, <2>5 DEF TracksNow, Tracks, Calling
  <2>7. PICK i \in DOMAIN loaded \ Asked(Script, n, at) :
               /\ Agrees(sess.match, handle.op, loaded[i]) /\ handle.event = loaded[i] /\ consumed = Asked(Script, n, at) \cup {i}
               /\ \A j \in DOMAIN loaded \ Asked(Script, n, at) : Agrees(sess.match, handle.op, loaded[j]) => i <= j
    BY <1>1, <2>4, <2>6 DEF TracksNow, Tracks, Calling
  <2>8. i = p
    <3>1. i <= p /\ p <= i
      BY <2>4, <2>5, <2>7 DEF Agrees
    <3> QED
      BY <2>4, <2>7, <3>1
  <2>9. Finalized(cut).obs = loaded[p].obs
    BY <2>6, <2>7, <2>8 DEF Finalized
  <2> QED
    BY <1>1, <2>1, <2>2, <2>3, <2>7, <2>8, <2>9, RequestTracks DEF p
<1> QED
  BY <1>3, <1>4

\* No two recorded values of a key have the same place among them.
LEMMA NthIsOne ==
    ASSUME ShapeHolds, NEW key, NEW n, NEW i \in Nth(key, n), NEW j \in Nth(key, n)
    PROVE  i = j
<1> DEFINE Upto(m) == {k \in Entries(key) : k <= m}
<1>1. /\ i \in Entries(key) /\ j \in Entries(key)
      /\ Cardinality(Upto(i)) = n /\ Cardinality(Upto(j)) = n
  BY DEF Nth
<1>2. i \in Nat /\ j \in Nat /\ Entries(key) \subseteq Nat /\ IsFiniteSet(Entries(key))
  BY <1>1, EntriesFinite
<1>3. i \in Upto(i) /\ j \in Upto(j)
  BY <1>1, <1>2
<1>4. \A x, y \in Entries(key) : x <= y => Upto(x) \in SUBSET Upto(y)
  BY <1>2
<1>5. \A x \in Entries(key) : Upto(x) \in SUBSET Entries(key)
  OBVIOUS
<1>6. IsFiniteSet(Upto(i)) /\ IsFiniteSet(Upto(j))
  BY <1>1, <1>2, <1>5, FS_Subset
<1>7. \A x, y \in Entries(key) : y \in Upto(x) => y <= x
  OBVIOUS
<1> HIDE DEF Upto
<1>8. Upto(i) = Upto(j)
  <2>1. CASE i <= j
    BY <1>1, <1>4, <1>6, <2>1, FS_Subset
  <2>2. CASE j <= i
    BY <1>1, <1>4, <1>6, <2>2, FS_Subset
  <2> QED
    BY <1>2, <2>1, <2>2
<1>9. i <= j /\ j <= i
  BY <1>1, <1>3, <1>7, <1>8
<1> QED
  BY <1>2, <1>9

\* The set has one element.
IsOnly(x, S) == S = {x}

\* The next access of a key that is not excepted is the recorded one after those made.
LEMMA AccessPlace ==
    ASSUME ShapeHolds, NEW script, IsSeq(script), NEW at, NEW call, Explained(script, loaded, at, call),
           NEW n \in Nat, n + 1 \in DOMAIN script, script[n + 1].op[1] = "access",
           script[n + 1].op[2] \notin Excepted(loaded)
    PROVE  LET key == script[n + 1].op[2]
               c == Cardinality(Accessed(script, n, at, key))
           IN /\ IsOnly(at[n + 1], Nth(key, c + 1)) /\ AccessBy(script[n + 1], loaded[at[n + 1]])
              /\ c \in Nat /\ Cardinality(Accessed(script, n + 1, at, key)) = c + 1
<1> DEFINE x == script[n + 1]
<1> DEFINE p == at[n + 1]
<1> DEFINE key == script[n + 1].op[2]
<1> DEFINE A == Accessed(script, n, at, key)
<1>1. Len(script) \in Nat /\ DOMAIN script = 1 .. Len(script) /\ DOMAIN loaded \subseteq Nat
  BY EntriesFinite DEF IsSeq
<1>2. Placed(x) /\ p \in DOMAIN loaded /\ AccessBy(x, loaded[p]) /\ key \notin Dropped /\ key \notin KeysOfTools(loaded)
  BY DEF Explained, EntryBy, Placed, Kept, Excepted
<1>3. p \in Entries(key) /\ p \in Nat
  BY <1>1, <1>2 DEF AccessBy, Entries, OfType
<1>4. \A i \in 1 .. n : i \in DOMAIN script /\ i < n + 1
  BY <1>1
<1>5. ASSUME NEW i \in 1 .. n, script[i].op[1] = "access", script[i].op[2] = key
      PROVE  at[i] \in Entries(key) /\ at[i] < p
  <2>1. i \in DOMAIN script /\ i < n + 1 /\ Placed(script[i]) /\ Kept(script[i])
    BY <1>2, <1>4, <1>5 DEF Placed, Kept
  <2>2. at[i] \in DOMAIN loaded /\ AccessBy(script[i], loaded[at[i]])
    BY <2>1 DEF Explained, EntryBy
  <2>3. at[i] < p
    BY <1>2, <2>1 DEF Explained, Ordered
  <2> QED
    BY <1>5, <2>2, <2>3 DEF AccessBy, Entries, OfType
<1>6. ASSUME NEW j \in Entries(key), j < p PROVE j \in A
  <2>1. j \in DOMAIN loaded /\ loaded[j].type = "access" /\ loaded[j].key = key
    BY DEF Entries, OfType
  <2>2. ByAgent(loaded[j])
    BY <1>2, <2>1 DEF ByAgent, KeysOfTools, OfType
  <2>3. PICK i \in DOMAIN script : i < n + 1 /\ Placed(script[i]) /\ at[i] = j
    BY <1>2, <1>6, <2>1, <2>2 DEF Explained, NoneBetween
  <2>4. i \in 1 .. n
    BY <1>1, <2>3
  <2>5. EntryBy(script[i], loaded, j, call[i], Before(call, i))
    BY <2>3 DEF Explained
  <2>6. ~Answered(script[i])
    BY <2>1, <2>5 DEF EntryBy, CallBy
  <2>7. script[i].op[1] = "access" /\ script[i].op[2] = key
    BY <2>1, <2>3, <2>5, <2>6 DEF Placed, Kept, EntryBy, AccessBy
  <2> QED
    BY <2>3, <2>4, <2>7 DEF Accessed
<1>7. A \in SUBSET Entries(key) /\ p \notin A /\ \A j \in A : j < p
  BY <1>3, <1>5 DEF Accessed
<1> HIDE DEF A, p
<1>8. Entries(key) \subseteq Nat /\ IsFiniteSet(Entries(key))
  BY <1>1, EntriesFinite
<1>9. {j \in Entries(key) : j <= p} = A \cup {p}
  <2>1. \A j \in Entries(key) : j <= p <=> (j < p \/ j = p)
    BY <1>3, <1>8
  <2> QED
    BY <1>3, <1>6, <1>7, <2>1
<1>10. IsFiniteSet(A) /\ Cardinality(A) \in Nat
  BY <1>7, <1>8, FS_Subset, FS_CardinalityType
<1>11. Cardinality(A \cup {p}) = Cardinality(A) + 1
  BY <1>7, <1>10, FS_AddElement
<1>12. p \in Nth(key, Cardinality(A) + 1)
  BY <1>3, <1>9, <1>11 DEF Nth
<1>13. Nth(key, Cardinality(A) + 1) = {p}
  BY <1>12, NthIsOne
<1>14. Accessed(script, n + 1, at, key) = A \cup {p}
  BY PlacesGrow DEF A, p
<1> QED
  BY <1>2, <1>10, <1>11, <1>13, <1>14 DEF A, p, IsOnly

\* Environment values and files, of an agent that follows the script.
LEMMA AccessTracks ==
    ASSUME SessionHolds, ShapeHolds, ValuesHold, NEW at, NEW call, Repeating(at, call), Follows(transcript', Script),
           NEW p \in Threads, AccessEnd(p)
    PROVE  TracksThen(at, call)
<1> DEFINE key == reading[p].key
<1> DEFINE data == reading[p].data
<1> DEFINE op == <<"access", key, data>>
<1> DEFINE n == Len(transcript)
<1> DEFINE s == Script
<1>1. /\ Open /\ ~Idle(p) /\ UNCHANGED <<handle, consumed, current, scope>>
  BY DEF AccessEnd, callVars, toolVars
<1>2. key \in Keys /\ reading[p].index = cursor[key] /\ cursor \in [Keys -> Nat]
  BY <1>1 DEF ValuesHold, LockHolds
<1>3. /\ IsSeq(s) /\ Settled(s) /\ Explained(s, loaded, at, call) /\ IsSeq(transcript)
      /\ (Follows(transcript, s) => TracksNow(at, call))
  BY DEF Repeating, ShapeHolds, ToolShape
<1>4. \/ /\ \E i \in Nth(key, cursor[key] + 1) :
                /\ cursor' = [cursor EXCEPT ![key] = cursor[key] + 1]
                /\ SawIn(p, op, IF key[1] = "write" /\ loaded[i].val # Redact(data) THEN Miss
                               ELSE Value(Restore(key, loaded[i].val)), <<>>)
      \/ /\ Nth(key, cursor[key] + 1) = {} /\ UNCHANGED cursor
         /\ \E obs, events : SawIn(p, op, obs, events)
  BY <1>2 DEF AccessEnd, ServeAccess, Live
<1>5. op[1] = "access" /\ op[2] = key /\ op[3] = data /\ ~IsAsk(op)
  BY DEF IsAsk
<1> HIDE DEF key, data, op, s
<1>6. CASE p # Main
  <2>1. p \in ToolIds /\ scope[p] # None
    BY <1>1, <1>6 DEF Threads, ShapeHolds, FreshSession
  <2>2. UNCHANGED transcript
    BY <1>4, <1>6 DEF SawIn
  <2>3. TracksNow(at, call)
    BY <1>3, <2>2 DEF s
  <2> QED
    BY <2>1, <2>3 DEF TracksNow, Tracks
<1>7. CASE p = Main
  <2>1. \E obs, events : SawIn(p, op, obs, events)
    BY <1>4
  <2>2. PICK obs, events : Saw(op, obs, events)
    BY <1>7, <2>1 DEF SawIn
  <2>3. transcript' = Append(transcript, Entry(op, obs)) /\ Follows(transcript', s)
    BY <1>1, <2>2, SawRun DEF s
  <2>4. /\ Follows(transcript, s) /\ n \in Nat /\ n + 1 \in DOMAIN s
        /\ s[n + 1].op[1] = "access" /\ s[n + 1].op[2] = key /\ Redact(s[n + 1].op[3]) = Redact(data)
    <3>1. Follows(transcript, s) /\ n \in Nat /\ n + 1 \in DOMAIN s /\ Alike(op, s[n + 1].op)
      BY <1>3, <2>3, EntryFollows
    <3> QED
      BY <1>5, <3>1 DEF Alike
  <2>5. TracksNow(at, call)
    BY <1>3, <2>4
  <2>6. Cursors(s, n, loaded, cursor, at)
    BY <2>5 DEF TracksNow, Tracks, s
  <2>7. \A k \in Keys : k # key => cursor'[k] = cursor[k] /\ Accessed(s, n + 1, at, k) = Accessed(s, n, at, k)
    <3>1. \A k \in Keys : k # key => cursor'[k] = cursor[k]
      BY <1>2, <1>4
    <3>2. \A k : k # key => Accessed(s, n + 1, at, k) = Accessed(s, n, at, k)
      <4>1. n \in Nat /\ s[n + 1].op[2] = key
        BY <2>4
      <4> HIDE DEF n
      <4> QED
        BY <4>1, PlacesGrow
    <3> QED
      BY <3>1, <3>2
  <2>8. CASE key \in Excepted(loaded)
    <3>1. Cursors(s, n + 1, loaded, cursor', at)
      BY <2>6, <2>7, <2>8 DEF Cursors
    <3>2. Tracks(sess.match, s, transcript', loaded, handle, consumed, current, cursor', scope, at, call)
      BY <1>3, <1>5, <2>3, <2>5, <2>8, <3>1, OtherTracks DEF TracksNow, s
    <3> QED
      BY <1>1, <3>2 DEF TracksThen, s
  <2>9. CASE key \notin Excepted(loaded)
    <3> DEFINE q == at[n + 1]
    <3> DEFINE c == Cardinality(Accessed(s, n, at, key))
    <3>1. /\ Nth(key, c + 1) = {q} /\ AccessBy(s[n + 1], loaded[q])
          /\ Cardinality(Accessed(s, n + 1, at, key)) = c + 1
      <4>1. s[n + 1].op[1] = "access" /\ s[n + 1].op[2] = key
        BY <1>5, <2>4
      <4>2. IsSeq(s) /\ Explained(s, loaded, at, call) /\ n \in Nat /\ n + 1 \in DOMAIN s
        BY <1>3, <2>4
      <4> HIDE DEF n, q, c
      <4>3. LET d == Cardinality(Accessed(s, n, at, key))
            IN /\ IsOnly(at[n + 1], Nth(key, d + 1)) /\ AccessBy(s[n + 1], loaded[at[n + 1]])
               /\ d \in Nat /\ Cardinality(Accessed(s, n + 1, at, key)) = d + 1
        BY <2>9, <4>1, <4>2, AccessPlace
      <4> QED
        BY <4>3 DEF q, c, IsOnly
    <3>2. cursor[key] = c
      BY <1>2, <2>6, <2>9 DEF Cursors
    <3> HIDE DEF q, c
    <3>3. /\ cursor' = [cursor EXCEPT ![key] = c + 1]
          /\ SawIn(p, op, IF key[1] = "write" /\ loaded[q].val # Redact(data) THEN Miss
                          ELSE Value(Restore(key, loaded[q].val)), <<>>)
      BY <1>4, <3>1, <3>2
    <3>4. Shown(s[n + 1]) = Value(Restore(key, loaded[q].val)) /\ (key[1] = "write" => loaded[q].val = Redact(data))
      <4> DEFINE x == s[n + 1]
      <4> DEFINE v == x.obs[2]
      <4>1. /\ x.op[1] = "access" /\ x.op[2] = key /\ x.obs = Value(v) /\ loaded[q].val = StoredValue(key, v)
            /\ (key[1] = "write" => loaded[q].val = Redact(data))
        BY <2>4, <3>1 DEF AccessBy
      <4> HIDE DEF x, v
      <4>2. x.obs[1] = "value" /\ x.obs[2] = v
        BY <4>1 DEF Value
      <4>3. Shown(x) = Value(Restore(key, loaded[q].val))
        BY <4>1, <4>2 DEF Shown
      <4> QED
        BY <4>1, <4>3 DEF x
    <3>5. Saw(op, Shown(s[n + 1]), <<>>)
      BY <1>7, <3>3, <3>4 DEF SawIn
    <3>6. transcript' = Append(transcript, Entry(op, Shown(s[n + 1])))
      BY <1>1, <3>5, SawRun
    <3>7. Cursors(s, n + 1, loaded, cursor', at)
      <4>1. cursor'[key] = Cardinality(Accessed(s, n + 1, at, key))
        BY <1>2, <3>1, <3>3
      <4> QED
        BY <2>6, <2>7, <4>1 DEF Cursors
    <3>8. Tracks(sess.match, s, transcript', loaded, handle, consumed, current, cursor', scope, at, call)
      BY <1>3, <1>5, <2>3, <2>5, <3>6, <3>7, OtherTracks DEF TracksNow, s
    <3> QED
      BY <1>1, <3>8 DEF TracksThen, s
  <2> QED
    BY <2>8, <2>9
<1> QED
  BY <1>6, <1>7

\* Tools of an agent that follows the script: none is dispatched, so none returns.
LEMMA ToolsTrack ==
    ASSUME SessionHolds, ShapeHolds, NEW at, NEW call, Repeating(at, call), Follows(transcript', Script),
           NEW t \in ToolIds, NEW args, ToolCall(t, args)
    PROVE  TracksThen(at, call)
<1> DEFINE n == Len(transcript)
<1> DEFINE s == Script
<1> DEFINE op == <<"tool", t, args>>
<1> DEFINE i == ToolRecord(t)
<1>1. /\ Open /\ handle = NoStream /\ UNCHANGED <<handle, consumed, current, cursor>>
      /\ \/ i # 0 /\ loaded[i].args = Redact(args) /\ Saw(op, loaded[i].obs, <<>>) /\ UNCHANGED scope
         \/ ~(i # 0 /\ loaded[i].args = Redact(args)) /\ \E obs : Saw(op, obs, <<>>)
  BY DEF ToolCall, callVars, accessVars, Repeating
<1>2. /\ IsSeq(s) /\ Settled(s) /\ Explained(s, loaded, at, call) /\ IsSeq(transcript) /\ IsSeq(loaded) /\ ToolsAsRecorded
      /\ (Follows(transcript, s) => TracksNow(at, call)) /\ Follows(transcript', s)
  BY DEF Repeating, ShapeHolds, ToolShape, LoadedShape
<1>3. op[1] = "tool" /\ op[2] = t /\ op[3] = args /\ ~IsAsk(op)
  BY DEF IsAsk
<1> HIDE DEF op, i, s
<1>4. \E obs : transcript' = Append(transcript, Entry(op, obs))
  BY <1>1, SawRun
<1>5. /\ Follows(transcript, s) /\ n \in Nat /\ s[n + 1].obs \notin {Raised, Pending}
      /\ s[n + 1].op[1] = "tool" /\ s[n + 1].op[2] = t /\ Redact(s[n + 1].op[3]) = Redact(args)
      /\ EntryBy(s[n + 1], loaded, at[n + 1], call[n + 1], Before(call, n + 1))
  <2>1. /\ Follows(transcript, s) /\ n \in Nat /\ s[n + 1].obs \notin {Raised, Pending} /\ Alike(op, s[n + 1].op)
        /\ EntryBy(s[n + 1], loaded, at[n + 1], call[n + 1], Before(call, n + 1))
    BY <1>2, <1>4, EntryFollows
  <2> QED
    BY <1>3, <2>1 DEF Alike
<1>6. TracksNow(at, call)
  BY <1>2, <1>5
<1>7. call[n + 1] = current
  <2>1. call[n + 1] = Before(call, n + 1)
    BY <1>5 DEF EntryBy, Answered, IsAsk
  <2> QED
    BY <1>1, <1>6, <2>1 DEF TracksNow, Tracks
<1>8. PICK j \in DOMAIN loaded : ToolBy(s[n + 1], loaded[j], call[n + 1])
  BY <1>3, <1>5 DEF EntryBy
<1> DEFINE S == {k \in OfType(loaded, "tool_call") : loaded[k].parent = current /\ loaded[k].id = t}
<1>9. j \in S /\ loaded[j].args = Redact(args) /\ loaded[j].obs = Shown(s[n + 1])
  BY <1>5, <1>7, <1>8 DEF ToolBy, OfType, Shown
<1>10. i \in S /\ i # 0
  <2>1. Len(loaded) \in Nat /\ DOMAIN loaded = 1 .. Len(loaded)
    BY <1>2 DEF IsSeq
  <2>2. S \subseteq 1 .. Len(loaded)
    BY <2>1 DEF OfType
  <2>3. i = LastOf(S)
    BY DEF i, ToolRecord
  <2> HIDE DEF S
  <2>4. i \in S
    BY <1>9, <2>1, <2>2, <2>3, LastPosition
  <2> QED
    BY <2>1, <2>2, <2>4
<1>11. i = j
  BY <1>2, <1>9, <1>10 DEF ToolsAsRecorded
<1>12. Saw(op, Shown(s[n + 1]), <<>>) /\ UNCHANGED scope
  BY <1>1, <1>9, <1>10, <1>11
<1>13. transcript' = Append(transcript, Entry(op, Shown(s[n + 1])))
  BY <1>1, <1>12, SawRun
<1>14. Cursors(s, n + 1, loaded, cursor, at)
  <2>1. Cursors(s, n, loaded, cursor, at) /\ s[n + 1].op[1] # "access"
    BY <1>3, <1>5, <1>6 DEF TracksNow, Tracks, s
  <2> QED
    BY <1>5, <2>1, CursorsKept
<1>15. Tracks(sess.match, s, transcript', loaded, handle, consumed, current, cursor, scope, at, call)
  BY <1>2, <1>3, <1>6, <1>13, <1>14, OtherTracks DEF TracksNow, s
<1> QED
  BY <1>1, <1>12, <1>15 DEF TracksThen, s

\* Session.outcome of an agent that follows the script.
LEMMA OutcomeTracks ==
    ASSUME SessionHolds, ShapeHolds, OutcomesHold, NEW at, NEW call, Repeating(at, call), Follows(transcript', Script),
           NEW status, Outcome(status)
    PROVE  TracksThen(at, call)
<1> DEFINE n == Len(transcript)
<1> DEFINE s == Script
<1> DEFINE op == <<"outcome", status>>
<1>1. /\ Open /\ UNCHANGED <<handle, consumed, current, cursor, scope>>
      /\ \/ outcome # None /\ outcome # status /\ Saw(op, Miss, <<>>)
         \/ outcome = status /\ \E events : Saw(op, Value(status), events)
         \/ outcome = None /\ \E obs, events : Saw(op, obs, events)
  BY DEF Outcome, AgentReady, callVars, accessVars, toolVars
<1>2. /\ IsSeq(s) /\ Settled(s) /\ Explained(s, loaded, at, call) /\ IsSeq(transcript)
      /\ (Follows(transcript, s) => TracksNow(at, call)) /\ Follows(transcript', s)
  BY DEF Repeating, ShapeHolds, ToolShape
<1>3. op[1] = "outcome" /\ op[2] = status /\ ~IsAsk(op)
  BY DEF IsAsk
<1> HIDE DEF op, s
<1>4. \E obs : transcript' = Append(transcript, Entry(op, obs))
  BY <1>1, SawRun
<1>5. /\ Follows(transcript, s) /\ n \in Nat /\ s[n + 1].op[1] = "outcome" /\ s[n + 1].op[2] = status
      /\ EntryBy(s[n + 1], loaded, at[n + 1], call[n + 1], Before(call, n + 1))
  <2>1. /\ Follows(transcript, s) /\ n \in Nat /\ Alike(op, s[n + 1].op)
        /\ EntryBy(s[n + 1], loaded, at[n + 1], call[n + 1], Before(call, n + 1))
    BY <1>2, <1>4, EntryFollows
  <2> QED
    BY <1>3, <2>1 DEF Alike
<1>6. TracksNow(at, call)
  BY <1>2, <1>5
<1>7. PICK j \in DOMAIN loaded : OutcomeBy(s[n + 1], loaded[j])
  BY <1>3, <1>5 DEF EntryBy
<1>8. loaded[j].status = outcome /\ outcome # None
  <2>1. loaded[j].type = "outcome" /\ j \in OfType(loaded, "outcome")
    BY <1>7 DEF OutcomeBy, OfType
  <2>2. Settles(loaded, outcome)
    BY DEF OutcomesHold, Repeating
  <2>3. loaded[j].status \in {"ok", "error"}
    BY <2>1 DEF ShapeHolds, LoadedShape, IsEvent
  <2> QED
    BY <2>1, <2>2, <2>3, NoneAssumption DEF Settles
<1>9. \E events : Saw(op, Shown(s[n + 1]), events)
  <2>1. Shown(s[n + 1]) = s[n + 1].obs
    BY <1>5 DEF Shown
  <2> QED
    BY <1>1, <1>5, <1>7, <1>8, <2>1 DEF OutcomeBy
<1>10. transcript' = Append(transcript, Entry(op, Shown(s[n + 1])))
  BY <1>1, <1>9, SawRun
<1>11. Cursors(s, n + 1, loaded, cursor, at)
  <2>1. Cursors(s, n, loaded, cursor, at) /\ s[n + 1].op[1] # "access"
    BY <1>3, <1>5, <1>6 DEF TracksNow, Tracks, s
  <2> QED
    BY <1>5, <2>1, CursorsKept
<1>12. Tracks(sess.match, s, transcript', loaded, handle, consumed, current, cursor, scope, at, call)
  BY <1>2, <1>3, <1>6, <1>10, <1>11, OtherTracks DEF TracksNow, s
<1> QED
  BY <1>1, <1>12 DEF TracksThen, s

\* A tool that returns leaves what the agent did as it was.
LEMMA ReturnTracks ==
    ASSUME SessionHolds, ShapeHolds, NEW at, NEW call, Repeating(at, call), Follows(transcript', Script),
           NEW t \in ToolIds, NEW raises, ToolReturn(t, raises)
    PROVE  FALSE
<1>1. PICK i : Returns(t, raises, i)
  BY ToolReturns
<1>2. /\ i \in DOMAIN transcript
      /\ \E obs : transcript' = [transcript EXCEPT ![i] = Entry(transcript[i].op, obs)]
  BY <1>1 DEF Returns
<1>3. IsSeq(transcript)
  BY DEF ShapeHolds, ToolShape
<1>4. /\ DOMAIN transcript' = DOMAIN transcript /\ Len(transcript') = Len(transcript)
      /\ \A k \in DOMAIN transcript : transcript'[k].op = transcript[k].op
  <2>1. PICK obs : transcript' = [transcript EXCEPT ![i] = Entry(transcript[i].op, obs)]
    BY <1>2
  <2> DEFINE x == Entry(transcript[i].op, obs)
  <2>2. x.op = transcript[i].op
    BY DEF Entry
  <2> HIDE DEF x
  <2>3. transcript' = [transcript EXCEPT ![i] = x]
    BY <2>1 DEF x
  <2>4. DOMAIN transcript' = DOMAIN transcript /\ \A k \in DOMAIN transcript : transcript'[k] = IF k = i THEN x ELSE transcript[k]
    BY <1>2, <2>3
  <2>5. Len(transcript') = Len(transcript)
    BY <1>2, <1>3, <2>3 DEF IsSeq
  <2> QED
    BY <2>2, <2>4, <2>5
<1>5. Follows(transcript, Script)
  BY <1>4 DEF Follows
<1>6. scope[t] = None
  BY <1>5 DEF Repeating, TracksNow, Tracks
<1> QED
  BY <1>6 DEF ToolReturn

-----------------------------------------------------------------------------
(***************************************************************************)
(* A replay is faithful.                                                   *)
(***************************************************************************)

ScriptsHold == \A r \in DOMAIN runs : IsSeq(runs[r].script)
ReplayHolds ==
    Open /\ sess.replays /\ ~sess.fork =>
        \E at, call : /\ Explained(Script, loaded, at, call)
                      /\ Following /\ Settled(Script) => TracksNow(at, call)

\* A session that replays leaves the script of its run alone.
LEMMA ScriptStays ==
    ASSUME SessionHolds, Open, sess.replays, RunStep
    PROVE  /\ DOMAIN runs' = DOMAIN runs /\ runs'[sess.run].script = Script
           /\ \A i \in DOMAIN runs : runs'[i].script = runs[i].script
<1>1. sess.run \in DOMAIN runs
  BY DEF SessionHolds
<1>2. \E events : RunBecomes(events, Script)
  BY DEF RunStep, Script
<1> QED
  BY <1>1, <1>2 DEF RunBecomes, Script

\* Scripts are sequences: the session that writes one keeps it as its transcript.
LEMMA ScriptsStep ==
    ASSUME DropsInputsOnly, SessionHolds, CallsHold, ShapeHolds, ScriptsHold, Next, ShapeHolds', RecorderHolds'
    PROVE  ScriptsHold'
<1>1. CASE ~Open
  <2>1. ASSUME NEW events, NEW fork, runs' = Append(runs, NewRun(events, fork)) PROVE ScriptsHold'
    <3> DEFINE x == NewRun(events, fork)
    <3>1. IsSeq(x.script)
      BY ShortSeqs DEF NewRun
    <3> HIDE DEF x
    <3>2. /\ DOMAIN runs' = DOMAIN runs \cup {Len(runs) + 1} /\ runs'[Len(runs) + 1] = x
          /\ \A i \in DOMAIN runs : runs'[i] = runs[i]
      BY <2>1, Appended DEF SessionHolds, IsStore, x
    <3> QED
      BY <3>1, <3>2 DEF ScriptsHold
  <2>2. UNCHANGED runs \/ \E events, fork : runs' = Append(runs, NewRun(events, fork))
    BY <1>1, ClosedStep DEF OpenSession, OpenFork
  <2> QED
    BY <2>1, <2>2 DEF ScriptsHold
<1>2. CASE Open /\ RunsStay
  BY <1>2 DEF RunsStay, ScriptsHold
<1>3. CASE Open /\ sess.replays /\ RunStep
  BY <1>3, ScriptStays DEF ScriptsHold
<1>4. CASE Open /\ ~sess.replays /\ RunStep /\ UNCHANGED <<sess, loaded>>
  <2>1. IsSeq(transcript') /\ runs'[sess.run].script = transcript'
    BY <1>4 DEF ShapeHolds, ToolShape, RecorderHolds, Open
  <2>2. DOMAIN runs' = DOMAIN runs /\ \A i \in DOMAIN runs : i # sess.run => runs'[i] = runs[i]
    BY <1>4 DEF RunStep, RunBecomes
  <2> QED
    BY <2>1, <2>2 DEF ScriptsHold
<1> QED
  BY <1>1, <1>2, <1>3, <1>4, OpenStep

\* Scripts are sequences, always.
LEMMA ScriptsAlways == ASSUME DropsInputsOnly PROVE Spec => []ScriptsHold
<1>1. Init => ScriptsHold
  BY DEF Init, ScriptsHold
<1>2. SessionHolds /\ CallsHold /\ ShapeHolds /\ ScriptsHold /\ [Next]_vars /\ ShapeHolds' /\ RecorderHolds' => ScriptsHold'
  <2>1. ASSUME ScriptsHold, UNCHANGED vars PROVE ScriptsHold'
    BY <2>1 DEF ScriptsHold, vars, logVars
  <2> QED
    BY <2>1, ScriptsStep
<1> QED
  BY <1>1, <1>2, SessionAlways, CallsAlways, ShapeAlways, RecordedAlways, PTL DEF Spec

\* A session that replays a run begins at the beginning of its script.
LEMMA ReplayOpens ==
    ASSUME SessionHolds, ShapeHolds, RunsExplained,
           \/ \E mode \in Modes, match \in MatchConfigs : OpenSession(mode, match)
           \/ \E source \in DOMAIN runs, drop \in Drops, from \in 0 .. MaxOps,
                 match \in MatchConfigs : OpenFork(source, drop, from, match)
    PROVE  ReplayHolds'
<1>1. ASSUME NEW mode, NEW match, OpenSession(mode, match), sess'.replays PROVE ReplayHolds'
  <2> DEFINE named == LastOf({i \in DOMAIN runs : ~runs[i].fork})
  <2> DEFINE found == mode # "all" /\ named # 0
  <2>1. /\ ~Open /\ sess'.replays = found /\ runs' = (IF found THEN runs ELSE Append(runs, NewRun(<<>>, FALSE)))
        /\ sess'.run = (IF found THEN named ELSE Len(runs) + 1)
        /\ loaded' = (IF found THEN runs[named].events ELSE <<>>)
        /\ UNCHANGED <<transcript, handle, consumed, current, cursor, scope>>
    BY <1>1 DEF OpenSession, Start, accessVars, toolVars
  <2>2. named # 0 => named \in DOMAIN runs
    <3>1. PICK A : runs \in Seq(A)
      BY DEF SessionHolds, IsStore, IsSeq
    <3>2. Len(runs) \in Nat /\ DOMAIN runs = 1 .. Len(runs)
      BY <3>1
    <3> QED
      BY <3>2, LastPosition
  <2> HIDE DEF named
  <2>3. named \in DOMAIN runs /\ sess'.run = named /\ loaded' = runs[named].events /\ runs' = runs
    BY <1>1, <2>1, <2>2
  <2>4. PICK at, call : Explained(runs[named].script, runs[named].events, at, call)
    BY <2>3 DEF RunsExplained
  <2> DEFINE s == runs[named].script
  <2> DEFINE log == runs[named].events
  <2>5. /\ transcript' = <<>> /\ handle' = NoStream /\ consumed' = {} /\ current' = 0
        /\ cursor' = [k \in Keys |-> 0] /\ scope' = [t \in ToolIds |-> None]
    BY <2>1 DEF ShapeHolds, FreshSession
  <2> HIDE DEF s, log
  <2>6. Tracks(sess'.match, s, transcript', log, handle', consumed', current', cursor', scope', at, call)
    <3>1. Asked(s, 0, at) = {} /\ \A k : Accessed(s, 0, at, k) = {}
      BY DEF Asked, Accessed
    <3>2. Calling(sess'.match, NoStream, log, {}, {})
      BY DEF Calling
    <3>3. Cursors(s, 0, log, cursor', at)
      BY <2>5, <3>1, FS_EmptySet DEF Cursors
    <3>4. Seen(<<>>, s, log) /\ Before(call, 1) = 0
      BY DEF Seen, Before
    <3>5. Len(<<>>) = 0 /\ 0 + 1 = 1
      OBVIOUS
    <3> QED
      BY <2>5, <3>1, <3>2, <3>3, <3>4, <3>5 DEF Tracks
  <2>7. Script' = s /\ loaded' = log
    BY <2>3 DEF Script, s, log
  <2>8. TracksNow(at, call)' /\ Explained(Script', loaded', at, call)
    BY <2>4, <2>6, <2>7 DEF TracksNow, s, log
  <2> QED
    BY <2>8 DEF ReplayHolds
<1>2. ASSUME NEW source, NEW drop, NEW from, NEW match, OpenFork(source, drop, from, match) PROVE sess'.fork
  BY <1>2 DEF OpenFork, Start
<1> QED
  BY <1>1, <1>2 DEF ReplayHolds

\* Every step of an agent that follows the script keeps the session in step with it.
LEMMA FollowingStep ==
    ASSUME SessionHolds, CallsHold, ShapeHolds, ValuesHold, OutcomesHold, NEW at, NEW call, Repeating(at, call),
           Follows(transcript', Script), UNCHANGED sess, Next
    PROVE  TracksThen(at, call)
<1>1. Open /\ Open' /\ sess.replays /\ ~sess.fork
  BY DEF Repeating, Open
<1>2. CASE \/ \E mode \in Modes, match \in MatchConfigs : OpenSession(mode, match)
           \/ \E source \in DOMAIN runs, drop \in Drops, from \in 0 .. MaxOps,
                 match \in MatchConfigs : OpenFork(source, drop, from, match)
           \/ \E f \in Paths, c \in Contents : DiskChanges(f, c)
  BY <1>1, <1>2 DEF OpenSession, OpenFork, Start, DiskChanges
<1>3. CASE \/ \E status \in {"ok", "error"} : CloseSession(status)
           \/ Crash
  BY <1>1, <1>3 DEF CloseSession, Crash, End, Open
<1>4. CASE \/ \E op \in Asks, raises \in Raises \cup {FALSE} : Ask(op, raises)
           \/ StreamNext
           \/ \E cut \in BOOLEAN : StreamEnd(cut)
  BY <1>4, AskTracks, StreamTracks
<1>5. CASE \E p \in Threads : \E op \in AccessesOf(p) : AccessLive(p, op[2], op[3]) \/ AccessBegin(p, op[2], op[3])
  <2>1. UNCHANGED <<transcript, handle, consumed, current, cursor, scope>>
    BY <1>1, <1>5 DEF AccessLive, AccessBegin, logVars, callVars, toolVars
  <2>2. TracksNow(at, call)
    BY <2>1 DEF Repeating
  <2> QED
    BY <2>1, <2>2 DEF TracksNow, TracksThen
<1>6. CASE \E p \in Threads : AccessEnd(p)
  BY <1>6, AccessTracks
<1>7. CASE \E op \in {o \in Ops : o[1] = "tool"} : ToolCall(op[2], op[3])
  <2>1. \A op \in {o \in Ops : o[1] = "tool"} : op[2] \in ToolIds
    BY OpsAssumption
  <2> QED
    BY <1>7, <2>1, ToolsTrack
<1>8. CASE \E t \in ToolIds, raises \in Raises \cup {FALSE} : ToolReturn(t, raises)
  BY <1>8, ReturnTracks
<1>9. CASE \E op \in {o \in Ops : o[1] = "outcome"} : Outcome(op[2])
  BY <1>9, OutcomeTracks
<1> QED
  BY <1>2, <1>3, <1>4, <1>5, <1>6, <1>7, <1>8, <1>9 DEF Next

\* Every step of the program keeps a replay in step with its script.
LEMMA ReplayStep ==
    ASSUME DropsInputsOnly, SessionHolds, CallsHold, ShapeHolds, ValuesHold, OutcomesHold, ScriptsHold, RunsExplained, ReplayHolds, Next
    PROVE  ReplayHolds'
<1>1. CASE ~Open
  <2>1. CASE UNCHANGED sess
    BY <1>1, <2>1 DEF ReplayHolds, Open
  <2> QED
    BY <1>1, <2>1, ClosedStep, ReplayOpens
<1>2. CASE Open /\ ~Open'
  BY <1>2 DEF ReplayHolds
<1>3. CASE Open /\ RunStep /\ UNCHANGED <<sess, loaded>>
  <2> SUFFICES ASSUME sess.replays, ~sess.fork PROVE ReplayHolds'
    BY <1>3 DEF ReplayHolds
  <2>1. PICK at, call : Explained(Script, loaded, at, call) /\ (Following /\ Settled(Script) => TracksNow(at, call))
    BY <1>3 DEF ReplayHolds
  <2>2. Script' = Script /\ IsSeq(Script)
    BY <1>3, ScriptStays DEF Script, ScriptsHold, SessionHolds
  <2>3. ASSUME Following', Settled(Script) PROVE TracksNow(at, call)'
    <3>1. ToolsAsRecorded /\ Follows(transcript', Script)
      BY <1>3, <2>2, <2>3 DEF Following, ToolsAsRecorded, Follows, Script
    <3>2. Follows(transcript, Script) => Following
      BY <1>3, <3>1 DEF Following, Follows, Script
    <3>3. Repeating(at, call)
      BY <1>3, <2>1, <2>2, <2>3, <3>1, <3>2 DEF Repeating
    <3>4. TracksThen(at, call)
      BY <1>3, <3>1, <3>3, FollowingStep
    <3> QED
      BY <1>3, <2>2, <3>4 DEF TracksThen, TracksNow
  <2>4. Settled(Script)' <=> Settled(Script)
    BY <2>2
  <2>5. Explained(Script', loaded', at, call) /\ ((Following /\ Settled(Script))' => TracksNow(at, call)')
    BY <1>3, <2>1, <2>2, <2>3, <2>4
  <2> QED
    BY <2>5 DEF ReplayHolds
<1> QED
  BY <1>1, <1>2, <1>3, OpenStep

\* Recording, for any agent, tools and redactor, if before_record drops no call, tool
\* result or outcome: the log of a run holds what its agent saw, redacted.  Each answered
\* request, access, tool result and outcome of the script is in the log in its stored
\* form, in the agent's order and with nothing else of the agent between, although tools
\* append to it in parallel and later sessions record more (Session._append).  An access
\* whose key before_record drops is not.
THEOREM RunsAreExplained == Spec => [](DropsInputsOnly => RunsExplained)
<1>1. CASE DropsInputsOnly
  <2>1. Spec => []RunsExplained
    BY <1>1, RecordedAlways, PTL
  <2> QED
    BY <2>1, PTL
<1>2. CASE ~DropsInputsOnly
  <2>1. DropsInputsOnly => RunsExplained
    BY <1>2
  <2> QED
    BY <2>1, PTL
<1> QED
  BY <1>1, <1>2

\* A log that explains a script holds its answers.
LEMMA ExplainedAnswers == RunsExplained => AnswersAreLogged
<1> SUFFICES ASSUME RunsExplained, NEW r \in DOMAIN runs, NEW i \in DOMAIN runs[r].script,
                    IsAsk(runs[r].script[i].op), runs[r].script[i].obs # Raised
             PROVE  \E k \in OfType(runs[r].events, "model_call") :
                        /\ runs[r].events[k].blocks = RedactAll(runs[r].script[i].op[3])
                        /\ runs[r].events[k].obs = StoredObs(runs[r].script[i].obs)
  BY DEF AnswersAreLogged, IsAsk
<1>1. PICK at, call : Explained(runs[r].script, runs[r].events, at, call)
  BY DEF RunsExplained
<1> DEFINE x == runs[r].script[i]
<1> DEFINE events == runs[r].events
<1>2. EntryBy(x, events, at[i], call[i], Before(call, i))
  BY <1>1 DEF Explained
<1>3. Answered(x) /\ Placed(x)
  BY DEF Answered, Placed
<1> HIDE DEF x, events
<1>4. at[i] \in DOMAIN events /\ CallBy(x, events[at[i]])
  BY <1>2, <1>3 DEF EntryBy
<1>5. at[i] \in OfType(events, "model_call")
  BY <1>4 DEF CallBy, OfType
<1> QED
  BY <1>4, <1>5 DEF CallBy, x, events

\* tracewake/session.py Model.create, StreamHandle.__next__ and __exit__, _turn_messages,
\* for any agent, tools and redactor: every call that answered a recording agent is in
\* the log, if before_record drops no call; no call is in a log twice, however streams
\* end and whichever sessions write to a run; and from the turn a fork intervenes at no
\* live model sees a block that it drops.
THEOREM CallsAreApart == Spec => []CallsAreAccounted
<1>1. CallsLoggedOnce /\ DroppedIsDropped /\ AnswersAreLogged => CallsAreAccounted
  BY DEF CallsAreAccounted
<1>2. CASE DropsInputsOnly
  <2>1. Spec => []RunsExplained
    BY <1>2, RecordedAlways, PTL
  <2> QED
    BY <1>1, <2>1, ExplainedAnswers, CallsApart, PTL
<1>3. CASE ~DropsInputsOnly
  <2>1. AnswersAreLogged
    BY <1>3 DEF AnswersAreLogged
  <2> QED
    BY <1>1, <2>1, CallsApart, PTL
<1> QED
  BY <1>2, <1>3

\* A replay is in step with its script, always.
LEMMA ReplayAlways == ASSUME DropsInputsOnly PROVE Spec => []ReplayHolds
<1>1. Init => ReplayHolds
  BY DEF Init, ReplayHolds, Open
<1>2. SessionHolds /\ CallsHold /\ ShapeHolds /\ ValuesHold /\ OutcomesHold /\ ScriptsHold /\ RunsExplained
      /\ ReplayHolds /\ [Next]_vars => ReplayHolds'
  <2>1. ASSUME ReplayHolds, UNCHANGED vars PROVE ReplayHolds'
    <3>1. UNCHANGED <<runs, transcript, sess, loaded, consumed, current, handle, cursor, scope>>
      BY <2>1 DEF vars, logVars, openVars, callVars, accessVars, toolVars
    <3> QED
      BY <2>1, <3>1 DEF ReplayHolds, Open, Following, ToolsAsRecorded, Script, TracksNow
  <2> QED
    BY <2>1, ReplayStep
<1> QED
  BY <1>1, <1>2, SessionAlways, CallsAlways, ShapeAlways, ValuesAlways, OutcomesAlways, ScriptsAlways,
     RecordedAlways, PTL DEF Spec

\* A session in step with its script shows the agent what the recorded agent saw.
LEMMA TracksReproduce ==
    ASSUME ReplayHolds
    PROVE  ReplayReproduces
<1> SUFFICES ASSUME Following, Settled(Script), NEW i \in DOMAIN transcript
             PROVE  \/ transcript[i].op[1] = "access" /\ transcript[i].op[2] \in ToolKeys \cup Dropped
                    \/ Sees(i)
  BY DEF ReplayReproduces, Script
<1>1. \E at, call : TracksNow(at, call)
  BY DEF ReplayHolds, Following
<1>2. Seen(transcript, Script, loaded)
  BY <1>1 DEF TracksNow, Tracks
<1>3. Excepted(loaded) = ToolKeys \cup Dropped
  BY DEF Excepted, KeysOfTools, ToolKeys
<1> QED
  BY <1>2, <1>3 DEF Seen, Sees, Script

\* Session replay, for any agent, tools, matching predicates and redactor and any number
\* of sessions: a recorded value is handed out once, an agent that repeats the recorded
\* run up to redaction sees what the recorded agent saw, as it was stored, whatever
\* happened to the disk and however its threads interleave, and a report the pytest
\* plugin accepts counts exactly the recorded requests.
THEOREM ReplaysAreFaithful == Spec => []ReplayIsFaithful
<1>1. SessionHolds /\ CallsHold /\ ValuesHold /\ ShapeHolds /\ ReportHolds /\ ReplayReproduces => ReplayIsFaithful
  <2> SUFFICES ASSUME SessionHolds, CallsHold, ValuesHold, ShapeHolds, ReportHolds, ReplayReproduces
               PROVE  ReplayIsFaithful
    OBVIOUS
  <2>1. TypeOK
    BY ShapeIsTyped
  <2>2. EachValueOnce
    BY DEF ValuesHold, ServedHold
  <2>3. ReportIsHonest
    BY ExactReport
  <2> QED
    BY <2>1, <2>2, <2>3 DEF ReplayIsFaithful
<1>2. CASE DropsInputsOnly
  <2>1. Spec => []ReplayHolds
    BY <1>2, ReplayAlways
  <2> QED
    BY <1>1, <2>1, TracksReproduce, SessionAlways, CallsAlways, ValuesAlways, ShapeAlways, ReportAlways, PTL
<1>3. CASE ~DropsInputsOnly
  <2>1. ReplayReproduces
    BY <1>3 DEF ReplayReproduces
  <2> QED
    BY <1>1, <2>1, SessionAlways, CallsAlways, ValuesAlways, ShapeAlways, ReportAlways, PTL
<1> QED
  BY <1>2, <1>3
=============================================================================
