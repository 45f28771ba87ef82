--------------------------- MODULE ReplaySession ---------------------------
(***************************************************************************)
(* Recording sessions and the sessions that replay them, one after the     *)
(* other over one store: tracewake/session.py with the matcher, the file   *)
(* system boundary, and the way a session is opened and closed.            *)
(*                                                                         *)
(* An agent runs in the thread Main and its tools in threads of their own. *)
(* A request is the set of its context blocks, known by provenance; a      *)
(* response, a tool result and a clock value are numbers no two live calls *)
(* share.  Everything the agent observes is kept as a history: the script  *)
(* of a run is what the agent that recorded it saw.  The log holds less:   *)
(* every event goes through the redactor and through before_record on its  *)
(* way to the store, and requests and arguments are compared redacted.     *)
(***************************************************************************)
EXTENDS Naturals, Sequences, FiniteSets, SequencesExt

CONSTANTS
    Ops,          \* what an agent may do: <<"create", model, blocks>>,
                  \* <<"stream", model, blocks>>, <<"access", key, data>>,
                  \* <<"tool", id, args>> and <<"outcome", status>>, where a
                  \* model is [id, tools], its name and the tools it is offered
    ToolOps,      \* the accesses a tool may make
    Raises,       \* {TRUE} when live models and tools may raise
    ToolIds,      \* tool calls of one response, each run in its own thread
    Variables,    \* environment variables, looked up by name
    Paths,        \* files
    Contents,     \* what may be written to a file
    MatchConfigs, \* the match_on settings in use
    SystemBlocks, \* blocks that are system messages
    Redacted,     \* the texts that are not stored as they are, and how they are
    Restored,     \* the stored variables that hold <HOME>, with the home put back
    Dropped,      \* the kinds of event that before_record drops
    Chunks,       \* chunks of a complete stream
    None,         \* nothing
    Drops,        \* sets of blocks a fork may drop
    MaxRuns,      \* bound: recordings in the store, forks not counted
    MaxSessions,  \* bound: sessions opened
    MaxOps        \* bound: operations of an agent in one session

\* A session: its run, what it may do, and the change and the settings of a fork.
Sessions ==
    [run : Nat, replays : BOOLEAN, records : BOOLEAN, fork : BOOLEAN,
     drop : Drops \cup {{}}, from : Nat, match : MatchConfigs \cup {{}}]

ASSUME BoundsAssumption ==
    MaxRuns \in Nat /\ MaxSessions \in Nat /\ MaxOps \in Nat /\ Chunks \in Nat
ASSUME MatchAssumption ==
    \A match \in MatchConfigs :
        match \subseteq {"model", "messages_hash", "system_prompt", "tool_names", "ordinal"}
ASSUME ThreadsAssumption == {"main", None} \cap ToolIds = {}
ASSUME NoneAssumption == None \notin Nat \cup {"ok", "error"} /\ None \notin Sessions
ASSUME OpsAssumption ==
    /\ \A op \in Ops : op[1] \in {"create", "stream"} => op = <<op[1], op[2], op[3]>>
    /\ \A op \in Ops : op[1] = "tool" => op[2] \in ToolIds
    /\ \A op \in Ops : op[1] = "outcome" => op[2] \in {"ok", "error"}
    /\ \A op \in Ops \cup ToolOps :
           op[1] = "access" /\ op[2][1] = "write" => op[2][2] \in Paths /\ op[3] \in Contents
\* A block keeps its provenance when it is redacted.
ASSUME ProvenanceAssumption ==
    \A drop \in Drops : \A b \in DOMAIN Redacted : b \in drop <=> Redacted[b] \in drop

Main == "main"
Threads == {Main} \cup ToolIds
Modes == {"once", "none", "new_episodes", "all"}
\* What is served from a cursor: <<"env", name>>, <<"content", path>> or
\* <<"write", path>>; the listing of a directory is read like a content.
Keys == {op[2] : op \in {o \in Ops \cup ToolOps : o[1] = "access"}}

VARIABLES
    runs,       \* the store: a sequence of [events, status, fork, script]
    transcript, \* what the agent of this session did and saw
    sess,       \* the open session, or None
    loaded,     \* the events the session replays, as they were when it opened
    opened,     \* sessions opened so far
    consumed,   \* positions in loaded of the model calls already served
    turn,       \* model calls made
    current,    \* _current_call_id, or 0
    handle,     \* the open stream, or NoStream
    report,     \* the counters of ReplayReport
    sent,       \* requests that reached a live model: <<turn, request>>
    cursor,     \* [Keys -> how many recorded values were served]
    reading,    \* [Threads -> an access holding the replay lock, or None]
    served,     \* positions in loaded that a cursor handed out, in order
    scope,      \* [ToolIds -> the call a dispatched tool runs under, or None]
    called,     \* tool calls made: <<parent, id>>
    outcome,    \* the status recorded last, or None
    disk,       \* [Paths -> content]
    world       \* live values handed out so far

logVars == <<runs, transcript>>
openVars == <<sess, loaded, opened>>
callVars == <<consumed, turn, current, handle, report, sent>>
accessVars == <<cursor, reading, served>>
toolVars == <<scope, called>>
worldVars == <<disk, world>>
vars == <<logVars, openVars, callVars, accessVars, toolVars, outcome, worldVars>>

Open == sess # None
Idle(p) == reading[p] = None
\* The agent waits for its batch of tools before it goes on.
AgentReady ==
    /\ Open /\ Idle(Main) /\ Len(transcript) < MaxOps
    /\ \A t \in ToolIds : scope[t] = None

FirstOf(S) == IF S = {} THEN 0 ELSE CHOOSE i \in S : \A j \in S : i <= j
LastOf(S) == IF S = {} THEN 0 ELSE CHOOSE i \in S : \A j \in S : i >= j
OfType(events, type) == {i \in DOMAIN events : events[i].type = type}

\* What an agent can observe.
Value(v) == <<"value", v>>
Miss == <<"miss">>
Raised == <<"raised">>
Pending == <<"pending">>

-----------------------------------------------------------------------------
(***************************************************************************)
(* What is stored.  Redacted gives the stored form of a text: for a        *)
(* request, an argument and a file it is the redactor's; for a response    *)
(* and a variable, which nothing is compared with, before_record may have  *)
(* rewritten it as well.                                                   *)
(***************************************************************************)

\* Redactor.text, on one text and on the blocks of a request.
Redact(v) == IF v \in DOMAIN Redacted THEN Redacted[v] ELSE v
RedactAll(blocks) == {Redact(b) : b \in blocks}

\* A clock is a number, with no text in it.
StoredValue(key, v) == IF key[1] = "env" /\ key[2] \notin Variables THEN v ELSE Redact(v)
StoredObs(obs) ==
    IF obs[1] = "value" THEN Value(Redact(obs[2]))
    ELSE IF obs[1] = "partial" THEN <<"partial", Redact(obs[2]), obs[3]>> ELSE obs

\* Redactor.restore_path, which only a variable goes through.
Restore(key, v) ==
    IF key[1] = "env" /\ key[2] \in Variables /\ v \in DOMAIN Restored THEN Restored[v] ELSE v

\* Redactor.event: the event that is appended, or nothing.
Kind(e) == IF e.type = "access" THEN e.key ELSE <<e.type>>
RedactEvent(e) ==
    IF e.type = "access" THEN [e EXCEPT !.val = StoredValue(e.key, e.val)]
    ELSE IF e.type \in {"model_call", "tool_call"} THEN [e EXCEPT !.obs = StoredObs(e.obs)]
    ELSE e
Recorded(e) == IF Kind(e) \in Dropped THEN <<>> ELSE <<RedactEvent(e)>>

-----------------------------------------------------------------------------
NoStream == [open |-> FALSE]
EmptyReport == [recorded |-> 0, matched |-> 0, degraded |-> 0, missed |-> 0, new |-> 0]

Init ==
    /\ runs = <<>> /\ transcript = <<>> /\ sess = None /\ loaded = <<>> /\ opened = 0
    /\ consumed = {} /\ turn = 0 /\ current = 0 /\ handle = NoStream
    /\ report = EmptyReport /\ sent = {}
    /\ cursor = [k \in Keys |-> 0] /\ served = <<>>
    /\ reading = [p \in Threads |-> None]
    /\ scope = [t \in ToolIds |-> None] /\ called = {}
    /\ outcome = None /\ disk \in [Paths -> Contents] /\ world = 0

-----------------------------------------------------------------------------
(***************************************************************************)
(* Opening and closing.                                                    *)
(***************************************************************************)

NewRun(events, fork) ==
    [events |-> events, status |-> "running", fork |-> fork, script |-> <<>>]

CanRecord(mode, replays) ==
    mode = "all" \/ mode = "new_episodes" \/ (mode = "once" /\ ~replays)

\* A Session object over the events it will replay.
Start(s, events) ==
    /\ ~Open /\ opened < MaxSessions
    /\ opened' = opened + 1 /\ sess' = s /\ loaded' = events
    /\ report' = [EmptyReport EXCEPT !.recorded = Cardinality(OfType(events, "model_call"))]
    /\ LET last == LastOf(OfType(events, "outcome"))
       IN outcome' = IF s.fork \/ last = 0 THEN None ELSE events[last].status
    /\ UNCHANGED <<transcript, consumed, turn, current, handle, sent, accessVars, toolVars,
                   worldVars>>

\* The Session object is gone.
End ==
    /\ Open
    /\ sess' = None /\ loaded' = <<>> /\ transcript' = <<>>
    /\ consumed' = {} /\ turn' = 0 /\ current' = 0 /\ handle' = NoStream
    /\ report' = EmptyReport /\ sent' = {}
    /\ cursor' = [k \in Keys |-> 0] /\ served' = <<>>
    /\ reading' = [p \in Threads |-> None]
    /\ scope' = [t \in ToolIds |-> None] /\ called' = {} /\ outcome' = None
    /\ UNCHANGED <<opened, worldVars>>

\* The run a name refers to is its newest; a fork carries a name of its own.
\* Mode "none" without a cassette raises, and nothing is opened.
OpenSession(mode, match) ==
    LET named == LastOf({i \in DOMAIN runs : ~runs[i].fork})
        found == mode # "all" /\ named # 0
    IN /\ found \/ (mode # "none" /\ Len(runs) < MaxRuns)
       /\ runs' = IF found THEN runs ELSE Append(runs, NewRun(<<>>, FALSE))
       /\ Start([run |-> IF found THEN named ELSE Len(runs) + 1,
                 replays |-> found, records |-> CanRecord(mode, found),
                 fork |-> FALSE, drop |-> {}, from |-> 0,
                 match |-> IF found THEN match ELSE {}],
                IF found THEN runs[named].events ELSE <<>>)

\* plan_intervention: the change must bite at or after the chosen turn.
Bites(events, drop, from) ==
    LET calls == SelectSeq(events, LAMBDA e : e.type = "model_call")
    IN /\ from < Len(calls)
       /\ \E i \in DOMAIN calls : i > from /\ calls[i].blocks \cap drop # {}

\* Fault: the fork writes to the run it starts from.
ForkRunInPlace(source) == source

\* A fork is a run of its own.
ForkRun(source) == Len(runs) + 1

OpenFork(source, drop, from, match) ==
    /\ Bites(runs[source].events, drop, from)
    /\ runs' = Append(runs, NewRun(<<[type |-> "intervention"]>>, TRUE))
    /\ Start([run |-> ForkRun(source), replays |-> TRUE, records |-> TRUE,
              fork |-> TRUE, drop |-> drop, from |-> from, match |-> match],
             runs[source].events)

\* Only a session that owns the run finishes it.
Finish(status) ==
    IF sess.records THEN [runs EXCEPT ![sess.run].status = status] ELSE runs

\* The with block ends, normally or by an exception the agent did not handle.
CloseSession(status) ==
    /\ Open /\ \A p \in Threads : Idle(p)
    /\ \A t \in ToolIds : scope[t] = None
    /\ status = "error" => transcript # <<>> /\ Last(transcript).obs \in {Miss, Raised}
    /\ runs' = Finish(status)
    /\ End

\* The process dies: what was appended stays, and the run is left as it is.
Crash == End /\ UNCHANGED runs

-----------------------------------------------------------------------------
(***************************************************************************)
(* What every operation shares: the agent does something, observes a value *)
(* or an exception, and the log grows or does not.                         *)
(***************************************************************************)

\* _append refuses in a session that cannot record.
Logged(events) ==
    IF sess.records THEN [runs EXCEPT ![sess.run].events = @ \o events] ELSE runs

\* The session that created a run also writes its script.
Saw(op, obs, events) ==
    LET entry == [op |-> op, obs |-> obs]
    IN /\ transcript' = Append(transcript, entry)
       /\ runs' = IF sess.replays THEN Logged(events)
                  ELSE [Logged(events) EXCEPT ![sess.run].script = Append(@, entry)]

-----------------------------------------------------------------------------
(***************************************************************************)
(* Model calls.                                                            *)
(***************************************************************************)

\* _turn_messages: from the chosen turn on, a fork drops the tagged blocks.
TurnMessages(r) == IF sess.fork /\ turn >= sess.from THEN r \ sess.drop ELSE r

\* Fault: the request is compared as it is sent, not as it would be stored.
MatchesUnredacted(predicate, recorded, m, blocks) ==
    CASE predicate = "model"         -> recorded.model.id = m.id
      [] predicate = "messages_hash" -> recorded.blocks = blocks
      [] predicate = "system_prompt" ->
             recorded.blocks \cap SystemBlocks = blocks \cap SystemBlocks
      [] predicate = "tool_names"    -> recorded.model.tools = m.tools
      [] predicate = "ordinal"       -> TRUE

\* PREDICATES, on the redacted form of the request.
Matches(predicate, recorded, m, blocks) ==
    CASE predicate = "model"         -> recorded.model.id = m.id
      [] predicate = "messages_hash" -> recorded.blocks = RedactAll(blocks)
      [] predicate = "system_prompt" ->
             recorded.blocks \cap SystemBlocks = RedactAll(blocks) \cap SystemBlocks
      [] predicate = "tool_names"    -> recorded.model.tools = m.tools
      [] predicate = "ordinal"       -> TRUE

\* CallMatcher.match: the first recorded call, not yet served, that agrees.
Hit(m, blocks) ==
    FirstOf({i \in OfType(loaded, "model_call") \ consumed :
                \A q \in sess.match : Matches(q, loaded[i], m, blocks)})

Counted(hit) ==
    CASE ~sess.replays                  -> report
      [] sess.replays /\ hit = 0        -> [report EXCEPT !.missed = @ + 1]
      [] sess.replays /\ hit # 0        ->
            IF "messages_hash" \in sess.match THEN [report EXCEPT !.matched = @ + 1]
            ELSE [report EXCEPT !.degraded = @ + 1]

CountedNew(r) == [r EXCEPT !.new = IF sess.replays THEN @ + 1 ELSE @]

ModelEvent(call, m, blocks, obs, chunks) ==
    [type |-> "model_call", call |-> call, model |-> m, blocks |-> RedactAll(blocks),
     obs |-> obs, chunks |-> chunks]

\* A recorded call answers, if the agent consumes it the way it was recorded.
ServeCall(hit, op) ==
    LET e == loaded[hit]
    IN /\ consumed' = consumed \cup {hit}
       /\ current' = e.call
       /\ report' = Counted(hit)
       /\ IF op[1] = "stream" /\ e.chunks # None
          THEN /\ handle' = [open |-> TRUE, event |-> e, op |-> op, taken |-> 0, live |-> FALSE]
               /\ UNCHANGED logVars
          ELSE /\ UNCHANGED handle
               /\ Saw(op, IF op[1] = "create" /\ e.chunks = None THEN e.obs ELSE Miss, <<>>)
       /\ UNCHANGED <<world, sent>>

RefuseCall(op) ==
    /\ Saw(op, Miss, <<>>)
    /\ report' = Counted(0)
    /\ UNCHANGED <<consumed, current, handle, world, sent>>

\* The live model is asked.  A create that raises leaves no event; a stream is
\* logged when it ends.
SendCall(m, blocks, op, raises) ==
    LET e == ModelEvent(world + 1, m, blocks, Value(world + 1),
                        IF op[1] = "stream" THEN Chunks ELSE None)
    IN /\ world' = world + 1
       /\ sent' = sent \cup {<<turn, blocks>>}
       /\ \/ /\ op[1] = "stream" /\ ~raises
             /\ handle' = [open |-> TRUE, event |-> e, op |-> op, taken |-> 0, live |-> TRUE]
             /\ report' = Counted(0)
             /\ UNCHANGED <<current, logVars>>
          \/ /\ op[1] = "create" /\ ~raises
             /\ Saw(op, e.obs, Recorded(e))
             /\ current' = e.call
             /\ report' = CountedNew(Counted(0))
             /\ UNCHANGED handle
          \/ /\ raises
             /\ Saw(op, Raised, <<>>)
             /\ report' = Counted(0)
             /\ UNCHANGED <<current, handle>>
       /\ UNCHANGED consumed

\* Model.create and Model.stream.
Ask(op, raises) ==
    /\ AgentReady /\ handle = NoStream
    /\ turn' = turn + 1
    /\ LET blocks == TurnMessages(op[3])
           hit == Hit(op[2], blocks)
       IN \/ hit # 0 /\ ~raises /\ ServeCall(hit, op)
          \/ hit = 0 /\ ~raises /\ ~sess.records /\ RefuseCall(op)
          \/ hit = 0 /\ sess.records /\ SendCall(op[2], blocks, op, raises)
    /\ UNCHANGED <<openVars, accessVars, toolVars, outcome, disk>>

\* StreamHandle.__next__ delivers a chunk.
StreamNext ==
    /\ AgentReady /\ handle # NoStream /\ handle.taken < handle.event.chunks
    /\ handle' = [handle EXCEPT !.taken = @ + 1]
    /\ UNCHANGED <<logVars, openVars, consumed, turn, current, report, sent, accessVars,
                   toolVars, outcome, worldVars>>

\* Fault: leaving the with block finalizes the stream once more.
SpentLive == IF handle.live THEN handle ELSE NoStream

\* The response is set, so the handle finalizes nothing more.
Spent == NoStream

\* finalize: a live stream cut short is logged as what was delivered.
CutShort(e, taken) ==
    [type |-> "model_call", call |-> e.call, model |-> e.model, blocks |-> e.blocks,
     obs |-> <<"partial", e.obs[2], taken>>, chunks |-> taken]
Finalized(cut) == IF handle.live /\ cut THEN CutShort(handle.event, handle.taken) ELSE handle.event

\* The stream is exhausted, or it is cut: the backend raises or the caller
\* leaves with an exception.
StreamEnd(cut) ==
    /\ AgentReady /\ handle # NoStream
    /\ cut \/ handle.taken = handle.event.chunks
    /\ handle' = Spent
    /\ LET e == Finalized(cut)
       IN Saw(Append(handle.op, handle.taken), e.obs, IF handle.live THEN Recorded(e) ELSE <<>>)
    /\ current' = handle.event.call
    /\ report' = IF handle.live THEN CountedNew(report) ELSE report
    /\ UNCHANGED <<openVars, consumed, turn, sent, accessVars, toolVars, outcome, worldVars>>

-----------------------------------------------------------------------------
(***************************************************************************)
(* Environment values and files, read or written by the agent or a tool.   *)
(***************************************************************************)

MayAccess(p) ==
    /\ Open /\ Idle(p)
    /\ IF p = Main THEN AgentReady
       ELSE scope[p] # None /\ Len(runs[sess.run].events) < MaxOps

\* What a tool sees, the agent does not.
SawIn(p, op, obs, events) ==
    IF p = Main THEN Saw(op, obs, events)
    ELSE runs' = Logged(events) /\ UNCHANGED transcript

\* The live value is recorded: a file, or something new from the environment.
Live(p, key, data) ==
    LET val == CASE key[1] = "content" -> disk[key[2]]
                 [] key[1] = "write"   -> data
                 [] key[1] = "env"     -> world + 1
        e == [type |-> "access", key |-> key, val |-> val, tool |-> IF p = Main THEN None ELSE p]
    IN /\ disk' = IF key[1] = "write" THEN [disk EXCEPT ![key[2]] = data] ELSE disk
       /\ world' = IF key[1] = "env" THEN world + 1 ELSE world
       /\ SawIn(p, <<"access", key, data>>, IF sess.records THEN Value(val) ELSE Miss, Recorded(e))

\* Without a recording to serve from, and in a fork, an access is live.
AccessLive(p, key, data) ==
    /\ MayAccess(p)
    /\ ~sess.replays \/ sess.fork
    /\ Live(p, key, data)
    /\ UNCHANGED <<openVars, callVars, accessVars, toolVars, outcome>>

\* Fault: nobody waits for the lock.
ReplayLockIgnored == TRUE

\* _replay_lock is free.
ReplayLockFree == \A p \in Threads : Idle(p)

\* The lock is taken and the cursor read.
AccessBegin(p, key, data) ==
    /\ MayAccess(p)
    /\ sess.replays /\ ~sess.fork
    /\ ReplayLockFree
    /\ reading' = [reading EXCEPT ![p] = [key |-> key, data |-> data, index |-> cursor[key]]]
    /\ UNCHANGED <<logVars, openVars, callVars, cursor, served, toolVars, outcome, worldVars>>

\* The recorded accesses of one key, as positions in loaded.
Entries(key) == {i \in OfType(loaded, "access") : loaded[i].key = key}
\* The n-th of them: one position, or none if fewer were recorded.
Nth(key, n) ==
    {i \in Entries(key) : Cardinality({j \in Entries(key) : j <= i}) = n}

\* Fault: a replay that ran out of recorded values goes to the live world.
RunsOutQuietly(key) == FALSE

\* Running out is divergence unless the session may record.
RunsOut(key) == ~sess.records

\* A recorded value is handed out; a write must be the recorded one.
ServeAccess(p, key, data, at) ==
    /\ SawIn(p, <<"access", key, data>>,
             IF key[1] = "write" /\ loaded[at].val # Redact(data) THEN Miss
             ELSE Value(Restore(key, loaded[at].val)), <<>>)
    /\ UNCHANGED worldVars

\* The cursor is advanced and the lock released, or the values have run out; a
\* variable keeps its last value.
AccessEnd(p) ==
    /\ Open /\ ~Idle(p)
    /\ LET a == reading[p]
           entries == Entries(a.key)
           left == Nth(a.key, a.index + 1)
           kept == left = {} /\ entries # {} /\ a.key[1] = "env" /\ a.key[2] \in Variables
       IN \/ \E at \in left :
                /\ cursor' = [cursor EXCEPT ![a.key] = a.index + 1]
                /\ served' = Append(served, at)
                /\ ServeAccess(p, a.key, a.data, at)
          \/ /\ kept
             /\ ServeAccess(p, a.key, a.data, LastOf(entries))
             /\ UNCHANGED <<cursor, served>>
          \/ /\ left = {} /\ ~kept
             /\ \/ /\ RunsOut(a.key)
                   /\ SawIn(p, <<"access", a.key, a.data>>, Miss, <<>>)
                   /\ UNCHANGED worldVars
                \/ ~RunsOut(a.key) /\ Live(p, a.key, a.data)
             /\ UNCHANGED <<cursor, served>>
    /\ reading' = [reading EXCEPT ![p] = None]
    /\ UNCHANGED <<openVars, callVars, toolVars, outcome>>

-----------------------------------------------------------------------------
(***************************************************************************)
(* Tools.                                                                  *)
(***************************************************************************)

\* _index keeps the last result recorded under a call and a tool id; 0 if none.
ToolRecord(t) ==
    LastOf({i \in OfType(loaded, "tool_call") :
                loaded[i].parent = current /\ loaded[i].id = t})

\* The agent starts a tool.  A recorded result for the same arguments answers
\* at once; otherwise it is a miss, or the tool is dispatched and its place in
\* the transcript stays open.  A fork takes no recorded result.
ToolCall(t, args) ==
    /\ Open /\ Idle(Main) /\ Len(transcript) < MaxOps
    /\ current # 0 /\ handle = NoStream /\ scope[t] = None /\ <<current, t>> \notin called
    /\ called' = called \cup {<<current, t>>}
    /\ LET i == ToolRecord(t)
           op == <<"tool", t, args>>
           serves == ~sess.fork /\ i # 0 /\ loaded[i].args = Redact(args)
       IN \/ serves /\ Saw(op, loaded[i].obs, <<>>) /\ UNCHANGED scope
          \/ ~serves /\ ~sess.records /\ Saw(op, Miss, <<>>) /\ UNCHANGED scope
          \/ /\ ~serves /\ sess.records
             /\ Saw(op, Pending, <<>>)
             /\ scope' = [scope EXCEPT ![t] = current]
    /\ UNCHANGED <<openVars, callVars, accessVars, outcome, worldVars>>

\* A dispatched tool returns and is logged, or raises and is not.
ToolReturn(t, raises) ==
    /\ Open /\ scope[t] # None /\ Idle(t)
    /\ world' = world + 1
    /\ scope' = [scope EXCEPT ![t] = None]
    /\ LET at == CHOOSE i \in DOMAIN transcript :
                     transcript[i].obs = Pending /\ transcript[i].op[2] = t
           obs == IF raises THEN Raised ELSE Value(world')
           e == [type |-> "tool_call", parent |-> scope[t], id |-> t,
                 args |-> Redact(transcript[at].op[3]), obs |-> obs]
           log == Logged(IF raises THEN <<>> ELSE Recorded(e))
       IN /\ transcript' = [transcript EXCEPT ![at].obs = obs]
          /\ runs' = IF sess.replays THEN log
                     ELSE [log EXCEPT ![sess.run].script[at].obs = obs]
    /\ UNCHANGED <<openVars, callVars, accessVars, called, outcome, disk>>

-----------------------------------------------------------------------------
\* Session.outcome: it must be the recorded one, and there must be one if
\* nothing can be recorded.
Outcome(status) ==
    /\ AgentReady
    /\ LET misses == IF outcome # None THEN outcome # status ELSE ~sess.records
       IN IF misses THEN Saw(<<"outcome", status>>, Miss, <<>>) /\ UNCHANGED outcome
          ELSE /\ Saw(<<"outcome", status>>, Value(status),
                      Recorded([type |-> "outcome", status |-> status]))
               /\ outcome' = status
    /\ UNCHANGED <<openVars, callVars, accessVars, toolVars, worldVars>>

\* Someone else changes a file between two sessions.
DiskChanges(f, c) ==
    /\ ~Open /\ opened \in 1 .. MaxSessions - 1 /\ disk[f] # c
    /\ disk' = [disk EXCEPT ![f] = c]
    /\ UNCHANGED <<logVars, openVars, callVars, accessVars, toolVars, outcome, world>>

Asks == {op \in Ops : op[1] \in {"create", "stream"}}
AccessesOf(p) ==
    {op \in (IF p = Main THEN Ops ELSE ToolOps) : op[1] = "access"}

Next ==
    \/ \E mode \in Modes, match \in MatchConfigs : OpenSession(mode, match)
    \/ \E source \in DOMAIN runs, drop \in Drops, from \in 0 .. MaxOps,
          match \in MatchConfigs : OpenFork(source, drop, from, match)
    \/ \E status \in {"ok", "error"} : CloseSession(status)
    \/ Crash
    \/ \E op \in Asks, raises \in Raises \cup {FALSE} : Ask(op, raises)
    \/ StreamNext
    \/ \E cut \in BOOLEAN : StreamEnd(cut)
    \/ \E p \in Threads : \E op \in AccessesOf(p) :
           AccessLive(p, op[2], op[3]) \/ AccessBegin(p, op[2], op[3])
    \/ \E p \in Threads : AccessEnd(p)
    \/ \E op \in {o \in Ops : o[1] = "tool"} : ToolCall(op[2], op[3])
    \/ \E t \in ToolIds, raises \in Raises \cup {FALSE} : ToolReturn(t, raises)
    \/ \E op \in {o \in Ops : o[1] = "outcome"} : Outcome(op[2])
    \/ \E f \in Paths, c \in Contents : DiskChanges(f, c)

Spec == Init /\ [][Next]_vars

\* The verdict of the tracewake_cassette fixture on the report.
Unconsumed == report.recorded - report.matched - report.degraded
PluginFails == report.missed # 0 \/ report.degraded # 0 \/ Unconsumed # 0

-----------------------------------------------------------------------------
(***************************************************************************)
(* Properties.                                                             *)
(***************************************************************************)

EventTypes == {"intervention", "model_call", "access", "tool_call", "outcome"}

\* The state keeps its shape: runs of typed events with a status, at most one
\* session, cursors and served calls that point into what was loaded, and tool
\* threads that run only while their place in the transcript is open.
TypeOK ==
    /\ \A i \in DOMAIN runs : /\ runs[i].status \in {"running", "ok", "error"}
                              /\ \A j \in DOMAIN runs[i].events :
                                     runs[i].events[j].type \in EventTypes
    /\ Open => sess.run \in DOMAIN runs /\ sess.match \in MatchConfigs \cup {{}}
    /\ consumed \subseteq OfType(loaded, "model_call")
    /\ \A k \in Keys : cursor[k] \in 0 .. Cardinality(Entries(k))
    /\ \A p \in Threads : Idle(p) \/ reading[p].key \in Keys
    /\ \A t \in ToolIds : scope[t] # None =>
           \E i \in DOMAIN transcript : transcript[i].obs = Pending /\ transcript[i].op[2] = t
    /\ disk \in [Paths -> Contents] /\ world \in Nat /\ outcome \in {None, "ok", "error"}

\* A session that cannot record changes neither the store nor the disk, and
\* asks no live model: "Replay serves reads from the log and never touches the
\* disk" (fs.py), whatever the agent does and however its threads interleave.
ReplayTouchesNothing ==
    [][Open /\ ~sess.records => UNCHANGED <<runs, disk, world, sent>>]_vars

\* A recorded value is handed out at most once, also when tools of one batch
\* consume the same key in parallel (Session._replay_lock).
EachValueOnce == \A i, j \in DOMAIN served : i # j => served[i] # served[j]

\* A log only grows, and only the log of the run the session writes; a fork
\* never writes to a recording ("The source run is never written to").
LogsOnlyGrow ==
    [][\A i \in DOMAIN runs :
           /\ IsPrefix(runs[i].events, runs'[i].events)
           /\ runs'[i].events # runs[i].events
                  => Open /\ sess.run = i /\ (sess.fork => runs[i].fork)]_vars

\* A call is logged once, however its stream ends.
CallsLoggedOnce ==
    \A i \in DOMAIN runs : \A j, k \in OfType(runs[i].events, "model_call") :
        runs[i].events[j].call = runs[i].events[k].call => j = k

\* An agent whose recorded run had no failing call.
Settled(script) == \A i \in DOMAIN script : script[i].obs \notin {Raised, Pending}
\* Recorded accesses made by a tool; a replayed tool does not make them again.
ToolKeys == {loaded[i].key : i \in {j \in OfType(loaded, "access") : loaded[j].tool # None}}

\* No later session has recorded another result of a tool call: "new_episodes"
\* does, for other arguments under the same call, and _index keeps the last.
ToolsAsRecorded ==
    \A i, j \in OfType(loaded, "tool_call") :
        loaded[i].parent = loaded[j].parent /\ loaded[i].id = loaded[j].id => i = j

\* The redactor makes the same of what two agents did: a response that is
\* replayed redacted comes back redacted in the next request.
Alike(a, b) ==
    /\ Len(a) = Len(b) /\ a[1] = b[1] /\ a[2] = b[2]
    /\ a[1] \in {"create", "stream"} => RedactAll(a[3]) = RedactAll(b[3])
    /\ a[1] \in {"access", "tool"} => Redact(a[3]) = Redact(b[3])
    /\ Len(a) = 4 => a[4] = b[4]

\* The session replays a run as it was recorded, and its agent has done so far
\* what the recorded agent did, up to redaction.
Following ==
    /\ Open /\ sess.replays /\ ~sess.fork /\ ToolsAsRecorded
    /\ LET script == runs[sess.run].script
       IN /\ Len(transcript) <= Len(script)
          /\ \A i \in DOMAIN transcript : Alike(transcript[i].op, script[i].op)

\* before_record drops no event that a replay looks for by its request.
DropsInputsOnly == Dropped \cap {<<"model_call">>, <<"tool_call">>, <<"outcome">>} = {}

\* What a replay shows of what was seen: the stored form of a response and of a
\* tool result, "reproduced exactly as stored", and a variable with its path put
\* back (redaction.py).
Shown(x) ==
    IF x.op[1] = "access" /\ x.obs[1] = "value"
    THEN Value(Restore(x.op[2], StoredValue(x.op[2], x.obs[2])))
    ELSE IF x.op[1] = "outcome" THEN x.obs ELSE StoredObs(x.obs)
Sees(i) == transcript[i].obs = Shown(runs[sess.run].script[i])

\* An agent that repeats the recorded run, up to redaction, sees what the
\* recorded agent saw, up to redaction: every response, tool result, clock
\* value and file, at any interleaving of its tools, with the disk changed in
\* between.  A value that the redactor rewrites is not the one that was seen
\* (tests/test_redaction.py).  The keys that recorded tools accessed or that
\* before_record drops are excepted, and so are runs in which a call failed and
\* hooks that drop calls, tool results or outcomes: those are misses.
ReplayReproduces ==
    DropsInputsOnly /\ Following /\ Settled(runs[sess.run].script)
        => \A i \in DOMAIN transcript :
               \/ transcript[i].op[1] = "access" /\ transcript[i].op[2] \in ToolKeys \cup Dropped
               \/ Sees(i)

\* From the turn a fork intervenes at, no live model sees a dropped block.
DroppedIsDropped ==
    Open /\ sess.fork
        => \A q \in sent : q[1] >= sess.from => q[2] \cap sess.drop = {}

\* A test the pytest plugin lets pass sent exactly the recorded requests, up to
\* redaction and each as often as recorded: "every recorded call by
\* messages_hash".
ReportIsHonest ==
    Open /\ sess.replays /\ ~sess.fork /\ handle = NoStream /\ ~PluginFails
        => \A op \in Asks :
               Cardinality({i \in DOMAIN transcript : /\ transcript[i].op[1] \in {"create", "stream"}
                                                      /\ RedactAll(transcript[i].op[3]) = RedactAll(op[3])})
             = Cardinality({i \in OfType(loaded, "model_call") : loaded[i].blocks = RedactAll(op[3])})

\* Every call that answered a recording agent is in its log, with its request and
\* its answer as they are stored, although the reader broke the stream off or the
\* backend failed in the middle: "An unrecorded call silently breaks replay"
\* (session.py).  A create that raises, and a stream that is still open when its
\* session ends, have not answered.
AnswersAreLogged ==
    DropsInputsOnly => \A r \in DOMAIN runs : \A i \in DOMAIN runs[r].script :
        LET x == runs[r].script[i] IN
        x.op[1] \in {"create", "stream"} /\ x.obs # Raised
            => \E k \in OfType(runs[r].events, "model_call") :
                   /\ runs[r].events[k].blocks = RedactAll(x.op[3])
                   /\ runs[r].events[k].obs = StoredObs(x.obs)

\* The calls of a session are accounted for: logged, and once, however a stream
\* ends, and sent without what a fork drops.
CallsAreAccounted == CallsLoggedOnce /\ AnswersAreLogged /\ DroppedIsDropped

\* A replay is faithful: it hands out every recorded value once, an agent that
\* repeats itself sees what it saw, up to redaction, and its report does not
\* flatter it.
ReplayIsFaithful == TypeOK /\ EachValueOnce /\ ReplayReproduces /\ ReportIsHonest

\* No session reaches beyond what it may write: a replay nothing at all, a fork
\* its own log, and nobody what is already in a log.
SessionsKeepOut == ReplayTouchesNothing /\ LogsOnlyGrow
=============================================================================
