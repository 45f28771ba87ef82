---------------------------- MODULE SessionProofs ----------------------------
(***************************************************************************)
(* Recording and replay over one store, for any operations, threads, files *)
(* and numbers of runs: a replay touches nothing, a fork writes only its   *)
(* own log, what is in a log stays there, no call is in it twice, and a    *)
(* recorded value is handed out once.                                      *)
(***************************************************************************)
EXTENDS ReplaySession, SequenceTheorems, WellFoundedInduction, TLAPS

-----------------------------------------------------------------------------
\* A set of numbers has a smallest one.
LEMMA Smallest ==
    ASSUME NEW T, T \subseteq Nat, T # {}
    PROVE  \E x \in T : \A y \in T : x <= y
<1>1. PICK x \in T : \A y \in T : ~(<<y, x>> \in OpToRel(<, Nat))
  BY NatLessThanWellFounded, WFMin
<1>2. \A y \in T : ~(y < x)
  BY <1>1 DEF OpToRel
<1> QED
  BY <1>2

\* A set of positions has a last one.
LEMMA LastPosition ==
    ASSUME NEW n \in Nat, NEW S, S \subseteq 1 .. n
    PROVE  (S = {} /\ LastOf(S) = 0) \/ LastOf(S) \in S
<1> SUFFICES ASSUME S # {} PROVE \E i \in S : \A j \in S : i >= j
  BY DEF LastOf
<1> DEFINE T == {n - i : i \in S}
<1>1. \A i \in S : n - i \in Nat
  OBVIOUS
<1>2. T \subseteq Nat /\ T # {}
  BY <1>1
<1>3. PICK x \in T : \A y \in T : x <= y
  BY <1>2, Smallest
<1>4. PICK i \in S : x = n - i
  OBVIOUS
<1>5. \A j \in S : n - i <= n - j
  BY <1>3, <1>4
<1> QED
  BY <1>5

\* A sequence of anything.
IsSeq(s) == \E S : s \in Seq(S)

\* A sequence stays a prefix of what is appended to it.
LEMMA JoinedSeq ==
    ASSUME NEW s, NEW t, IsSeq(s), IsSeq(t)
    PROVE  IsSeq(s \o t) /\ IsPrefix(s, s \o t)
<1>1. PICK A : s \in Seq(A)
  BY DEF IsSeq
<1>2. PICK B : t \in Seq(B)
  BY DEF IsSeq
<1> DEFINE C == A \cup B
<1>3. s \in Seq(C) /\ t \in Seq(C)
  BY <1>1, <1>2
<1>4. s \o t \in Seq(C) /\ Len(s) <= Len(s \o t)
  BY <1>3
<1> HIDE DEF C
<1>5. SubSeq(s \o t, 1, Len(s)) = SubSeq(s, 1, Len(s))
  BY <1>3
<1> QED
  BY <1>4, <1>5 DEF IsSeq, IsPrefix

\* The short sequences the code appends.
LEMMA ShortSeqs == IsSeq(<<>>) /\ \A e : IsSeq(<<e>>)
<1>1. <<>> \in Seq({})
  OBVIOUS
<1>2. ASSUME NEW e PROVE <<e>> \in Seq({e})
  OBVIOUS
<1> QED
  BY <1>1, <1>2 DEF IsSeq

\* What Session._append makes of an event is that event redacted, or nothing.
LEMMA RecordedShort ==
    ASSUME NEW e
    PROVE  IsSeq(Recorded(e)) /\ (Recorded(e) = <<>> \/ Recorded(e) = <<RedactEvent(e)>>)
  BY ShortSeqs DEF Recorded

\* Redactor.event on a model call: its response is redacted.
LEMMA RedactedCall ==
    ASSUME NEW e, NEW call, NEW m, NEW blocks, NEW obs, NEW chunks,
           e = [type |-> "model_call", call |-> call, model |-> m, blocks |-> blocks, obs |-> obs, chunks |-> chunks]
    PROVE  RedactEvent(e) = [type |-> "model_call", call |-> call, model |-> m, blocks |-> blocks,
                             obs |-> StoredObs(obs), chunks |-> chunks]
  BY DEF RedactEvent

\* Redactor.event on an access: its value is redacted.
LEMMA RedactedAccess ==
    ASSUME NEW e, NEW key, NEW val, NEW tool, e = [type |-> "access", key |-> key, val |-> val, tool |-> tool]
    PROVE  RedactEvent(e) = [type |-> "access", key |-> key, val |-> StoredValue(key, val), tool |-> tool]
  BY DEF RedactEvent

\* Redactor.event on a tool call: its result is redacted.
LEMMA RedactedTool ==
    ASSUME NEW e, NEW parent, NEW id, NEW args, NEW obs,
           e = [type |-> "tool_call", parent |-> parent, id |-> id, args |-> args, obs |-> obs]
    PROVE  RedactEvent(e) = [type |-> "tool_call", parent |-> parent, id |-> id, args |-> args, obs |-> StoredObs(obs)]
  BY DEF RedactEvent

\* Redactor.event on an outcome: the status is none of its business.
LEMMA RedactedOutcome ==
    ASSUME NEW e, NEW status, e = [type |-> "outcome", status |-> status]
    PROVE  RedactEvent(e) = e
  BY DEF RedactEvent

\* A sequence is a prefix of itself.
LEMMA SameSeq == ASSUME NEW s, IsSeq(s) PROVE IsPrefix(s, s)
  BY DEF IsSeq, IsPrefix

-----------------------------------------------------------------------------
IsRun(r) ==
    /\ r = [events |-> r.events, status |-> r.status, fork |-> r.fork, script |-> r.script]
    /\ IsSeq(r.events)

\* The store is a sequence of runs.
IsStore(store) == IsSeq(store) /\ \A i \in DOMAIN store : IsRun(store[i])

\* From one store to the next, only run k was written to, and only at its end.
Grown(old, new, k) ==
    /\ IsStore(new) /\ DOMAIN new = DOMAIN old
    /\ \A i \in DOMAIN old : /\ new[i].fork = old[i].fork
                             /\ IsPrefix(old[i].events, new[i].events)
                             /\ i # k => new[i] = old[i]

\* Replacing an element keeps a sequence a sequence.
LEMMA ReplacedInSeq ==
    ASSUME NEW s, IsSeq(s), NEW k \in DOMAIN s, NEW x
    PROVE  /\ IsSeq([s EXCEPT ![k] = x]) /\ DOMAIN [s EXCEPT ![k] = x] = DOMAIN s
           /\ [s EXCEPT ![k] = x][k] = x
           /\ \A i \in DOMAIN s : i # k => [s EXCEPT ![k] = x][i] = s[i]
<1>1. PICK A : s \in Seq(A)
  BY DEF IsSeq
<1>2. s \in Seq(A \cup {x})
  BY <1>1
<1>3. [s EXCEPT ![k] = x] \in Seq(A \cup {x})
  BY <1>2
<1> QED
  BY <1>1, <1>3 DEF IsSeq

\* Writing a run whose events only grew.
LEMMA ReplacedRun ==
    ASSUME NEW old, NEW new, NEW k \in DOMAIN old, IsStore(old), Grown(old, new, k), NEW r, IsRun(r),
           r.fork = new[k].fork, IsPrefix(old[k].events, r.events)
    PROVE  Grown(old, [new EXCEPT ![k] = r], k)
<1>1. k \in DOMAIN new /\ IsSeq(new)
  BY DEF Grown, IsStore
<1> DEFINE store == [new EXCEPT ![k] = r]
<1>2. IsSeq(store) /\ DOMAIN store = DOMAIN new /\ store[k] = r /\ \A i \in DOMAIN new : i # k => store[i] = new[i]
  BY <1>1, ReplacedInSeq
<1> HIDE DEF store
<1>3. Grown(old, store, k)
  BY <1>2 DEF Grown, IsStore
<1> QED
  BY <1>3 DEF store

\* A store that nobody writes to.
LEMMA UnchangedStore == ASSUME NEW old, IsStore(old), NEW k PROVE Grown(old, old, k)
  BY SameSeq DEF Grown, IsStore, IsRun

\* A new run at the end of the store.
LEMMA AppendedRun ==
    ASSUME NEW old, IsStore(old), NEW r, IsRun(r)
    PROVE  /\ IsStore(Append(old, r))
           /\ Len(old) + 1 \in DOMAIN Append(old, r) /\ Append(old, r)[Len(old) + 1] = r
           /\ \A i \in DOMAIN old : i \in DOMAIN Append(old, r) /\ Append(old, r)[i] = old[i]
<1>1. PICK A : old \in Seq(A)
  BY DEF IsStore, IsSeq
<1>2. old \in Seq(A \cup {r})
  BY <1>1
<1> DEFINE new == Append(old, r)
<1>3. /\ new \in Seq(A \cup {r}) /\ Len(old) \in Nat /\ DOMAIN old = 1 .. Len(old)
      /\ DOMAIN new = 1 .. Len(old) + 1
      /\ new[Len(old) + 1] = r /\ \A i \in 1 .. Len(old) : new[i] = old[i]
  BY <1>2
<1> HIDE DEF new
<1>4. IsSeq(new)
  BY <1>3 DEF IsSeq
<1>5. \A i \in DOMAIN new : i = Len(old) + 1 \/ i \in DOMAIN old
  BY <1>3
<1>6. IsStore(new)
  BY <1>3, <1>4, <1>5 DEF IsStore
<1> QED
  BY <1>3, <1>6 DEF new

-----------------------------------------------------------------------------
\* The session: what it may write is its own run; one that cannot record serves a
\* recording and has asked no model, holds no live stream and runs no tool.
SessionHolds ==
    /\ IsStore(runs)
    /\ ~Open => sent = {} /\ handle = NoStream /\ \A t \in ToolIds : scope[t] = None
    /\ Open => /\ sess.run \in DOMAIN runs
               /\ sess.fork => sess.records /\ runs[sess.run].fork
               /\ ~sess.records => sess.replays /\ sent = {} /\ \A t \in ToolIds : scope[t] = None
    /\ \/ handle = NoStream
       \/ /\ handle = [open |-> TRUE, event |-> handle.event, op |-> handle.op, taken |-> handle.taken, live |-> handle.live]
          /\ Open /\ ~sess.records => ~handle.live

\* What a step does to the store: an open session writes its own run.
Writes ==
    IF Open THEN Grown(runs, runs', sess.run) /\ (~sess.records => runs' = runs)
    ELSE runs' = runs \/ \E r : IsRun(r) /\ runs' = Append(runs, r)

\* Session._append, in every session.
LEMMA LoggedGrows ==
    ASSUME SessionHolds, Open, NEW events, IsSeq(events)
    PROVE  Grown(runs, Logged(events), sess.run) /\ (~sess.records => Logged(events) = runs)
<1> DEFINE k == sess.run
<1> DEFINE log == runs[k].events \o events
<1> DEFINE r == [runs[k] EXCEPT !.events = log]
<1>1. k \in DOMAIN runs /\ IsStore(runs) /\ IsRun(runs[k])
  BY DEF SessionHolds, IsStore
<1>2. IsSeq(log) /\ IsPrefix(runs[k].events, log)
  BY <1>1, JoinedSeq DEF IsRun
<1> HIDE DEF log
<1>3. r.events = log /\ r.fork = runs[k].fork
  BY <1>1 DEF IsRun
<1>4. IsRun(r)
  BY <1>1, <1>2 DEF IsRun
<1>5. Grown(runs, runs, k)
  BY <1>1, UnchangedStore
<1> HIDE DEF r
<1>6. Grown(runs, [runs EXCEPT ![k] = r], k)
  BY <1>1, <1>2, <1>3, <1>4, <1>5, ReplacedRun
<1> QED
  BY <1>5, <1>6 DEF Logged, r, log

\* The script of a run is not its log.
LEMMA ScriptGrows ==
    ASSUME NEW old, NEW new, NEW k \in DOMAIN old, IsStore(old), Grown(old, new, k), NEW script
    PROVE  Grown(old, [new EXCEPT ![k].script = script], k)
<1> DEFINE r == [new[k] EXCEPT !.script = script]
<1>1. k \in DOMAIN new /\ IsRun(new[k]) /\ IsPrefix(old[k].events, new[k].events)
  BY DEF Grown, IsStore
<1>2. r.events = new[k].events /\ r.fork = new[k].fork /\ IsRun(r)
  BY <1>1 DEF IsRun
<1> HIDE DEF r
<1>3. Grown(old, [new EXCEPT ![k] = r], k)
  BY <1>1, <1>2, ReplacedRun
<1> QED
  BY <1>3 DEF r

\* Only a session that records keeps a script.
LEMMA SawWrites ==
    ASSUME SessionHolds, Open, NEW op, NEW obs, NEW events, IsSeq(events), Saw(op, obs, events)
    PROVE  Writes
<1> DEFINE entry == [op |-> op, obs |-> obs]
<1> DEFINE log == Logged(events)
<1>1. Grown(runs, log, sess.run) /\ (~sess.records => log = runs)
  BY LoggedGrows
<1>2. sess.run \in DOMAIN runs /\ IsStore(runs) /\ (~sess.records => sess.replays)
  BY DEF SessionHolds
<1>3. runs' = IF sess.replays THEN log ELSE [log EXCEPT ![sess.run].script = Append(@, entry)]
  BY DEF Saw
<1> HIDE DEF log, entry
<1>4. Grown(runs, [log EXCEPT ![sess.run].script = Append(@, entry)], sess.run)
  BY <1>1, <1>2, ScriptGrows
<1> QED
  BY <1>1, <1>2, <1>3, <1>4 DEF Writes

\* What a tool's thread sees is not in the transcript, and is logged alike.
LEMMA SawInWrites ==
    ASSUME SessionHolds, Open, NEW p, NEW op, NEW obs, NEW events, IsSeq(events), SawIn(p, op, obs, events)
    PROVE  Writes
  BY SawWrites, LoggedGrows DEF SawIn, Writes

\* A step that leaves the store alone.
LEMMA NoWrite == ASSUME SessionHolds, UNCHANGED runs PROVE Writes
  BY UnchangedStore DEF Writes, SessionHolds

\* A session that cannot record changes nothing outside itself.
Quiet == Open /\ ~sess.records => UNCHANGED <<runs, disk, world, sent>>

\* A stream handle: the response it stands for, and whether a live model sends it.
IsHandle(h) == h = [open |-> TRUE, event |-> h.event, op |-> h.op, taken |-> h.taken, live |-> h.live]

\* A step of an open session that leaves it open.
LEMMA StaysOpen ==
    ASSUME SessionHolds, Open, UNCHANGED sess, Writes,
           ~sess.records => sent' = {} /\ \A t \in ToolIds : scope'[t] = None,
           handle' = NoStream \/ (IsHandle(handle') /\ (~sess.records => ~handle'.live))
    PROVE  SessionHolds'
<1>1. Grown(runs, runs', sess.run) /\ sess.run \in DOMAIN runs
  BY DEF Writes, SessionHolds
<1>2. IsStore(runs') /\ sess.run \in DOMAIN runs' /\ runs'[sess.run].fork = runs[sess.run].fork
  BY <1>1 DEF Grown
<1> QED
  BY <1>2 DEF SessionHolds, Open, IsHandle

\* The same step, of a session that cannot record.
LEMMA CannotRecord ==
    ASSUME SessionHolds, Open, ~sess.records
    PROVE  /\ sess.replays /\ ~sess.fork /\ sent = {} /\ (\A t \in ToolIds : scope[t] = None)
           /\ handle = NoStream \/ ~handle.live
  BY DEF SessionHolds

\* The parts of the invariant about the handle.
LEMMA HandleHolds ==
    ASSUME SessionHolds, Open
    PROVE  handle = NoStream \/ (IsHandle(handle) /\ (~sess.records => ~handle.live))
  BY DEF SessionHolds, IsHandle

\* Opening a session: the newest run of its name, or a new one.
LEMMA OpenSessionHolds ==
    ASSUME SessionHolds, NEW mode \in Modes, NEW match, OpenSession(mode, match)
    PROVE  SessionHolds' /\ Writes /\ Quiet
<1> DEFINE named == LastOf({i \in DOMAIN runs : ~runs[i].fork})
<1> DEFINE found == mode # "all" /\ named # 0
<1>1. /\ ~Open /\ (found \/ mode # "none")
      /\ runs' = IF found THEN runs ELSE Append(runs, NewRun(<<>>, FALSE))
      /\ sess' = [run |-> IF found THEN named ELSE Len(runs) + 1,
                  replays |-> found, records |-> CanRecord(mode, found),
                  fork |-> FALSE, drop |-> {}, from |-> 0, match |-> IF found THEN match ELSE {}]
      /\ UNCHANGED <<sent, handle, scope>>
  BY DEF OpenSession, Start, toolVars
<1>2. IsStore(runs) /\ sent = {} /\ handle = NoStream /\ \A t \in ToolIds : scope[t] = None
  BY <1>1 DEF SessionHolds
<1>3. found => named \in DOMAIN runs
  <2>1. PICK A : runs \in Seq(A)
    BY <1>2 DEF IsStore, IsSeq
  <2>2. Len(runs) \in Nat /\ DOMAIN runs = 1 .. Len(runs)
    BY <2>1
  <2> QED
    BY <2>2, LastPosition
<1> HIDE DEF named
<1>4. IsRun(NewRun(<<>>, FALSE))
  BY ShortSeqs DEF NewRun, IsRun
<1>5. Writes
  BY <1>1, <1>4 DEF Writes
<1>6. IsStore(runs') /\ (IF found THEN named ELSE Len(runs) + 1) \in DOMAIN runs'
  BY <1>1, <1>2, <1>3, <1>4, AppendedRun
<1>7. ~CanRecord(mode, found) => found
  BY <1>1 DEF CanRecord, Modes
<1>8. SessionHolds'
  BY <1>1, <1>2, <1>6, <1>7 DEF SessionHolds, Open
<1> QED
  BY <1>1, <1>5, <1>8 DEF Quiet

\* A fork is opened on a run of its own.
LEMMA OpenForkHolds ==
    ASSUME SessionHolds, NEW source, NEW drop, NEW from, NEW match, OpenFork(source, drop, from, match)
    PROVE  SessionHolds' /\ Writes /\ Quiet
<1> DEFINE new == NewRun(<<[type |-> "intervention"]>>, TRUE)
<1>1. /\ ~Open /\ runs' = Append(runs, new)
      /\ sess' = [run |-> Len(runs) + 1, replays |-> TRUE, records |-> TRUE,
                  fork |-> TRUE, drop |-> drop, from |-> from, match |-> match]
      /\ UNCHANGED <<sent, handle, scope>>
  BY DEF OpenFork, ForkRun, Start, toolVars
<1>2. IsStore(runs) /\ sent = {} /\ handle = NoStream /\ \A t \in ToolIds : scope[t] = None
  BY <1>1 DEF SessionHolds
<1>3. IsRun(new) /\ new.fork = TRUE
  BY ShortSeqs DEF NewRun, IsRun
<1> HIDE DEF new
<1>4. IsStore(runs') /\ Len(runs) + 1 \in DOMAIN runs' /\ runs'[Len(runs) + 1] = new
  BY <1>1, <1>2, <1>3, AppendedRun
<1>5. SessionHolds'
  BY <1>1, <1>2, <1>3, <1>4 DEF SessionHolds, Open
<1>6. Writes
  BY <1>1, <1>3 DEF Writes
<1> QED
  BY <1>1, <1>5, <1>6 DEF Quiet

\* The session is gone, and with it all it held.
LEMMA EndHolds ==
    ASSUME SessionHolds, End, Writes
    PROVE  SessionHolds' /\ Quiet
<1>1. /\ Open /\ sess' = None /\ sent' = {} /\ handle' = NoStream /\ scope' = [t \in ToolIds |-> None]
      /\ UNCHANGED <<disk, world>>
  BY DEF End, worldVars
<1>2. IsStore(runs')
  BY <1>1 DEF Writes, Grown
<1>3. SessionHolds'
  BY <1>1, <1>2 DEF SessionHolds, Open
<1> QED
  BY <1>1, <1>3, CannotRecord DEF Quiet, Writes

\* Only a session that records finishes its run.
LEMMA CloseSessionHolds ==
    ASSUME SessionHolds, NEW status, CloseSession(status)
    PROVE  SessionHolds' /\ Writes /\ Quiet
<1> DEFINE k == sess.run
<1> DEFINE r == [runs[k] EXCEPT !.status = status]
<1>1. Open /\ End /\ runs' = Finish(status)
  BY DEF CloseSession
<1>2. k \in DOMAIN runs /\ IsStore(runs) /\ IsRun(runs[k]) /\ Grown(runs, runs, k)
  BY <1>1, UnchangedStore DEF SessionHolds, IsStore
<1>3. r.events = runs[k].events /\ r.fork = runs[k].fork /\ IsRun(r) /\ IsPrefix(runs[k].events, r.events)
  BY <1>2, SameSeq DEF IsRun
<1> HIDE DEF r
<1>4. Grown(runs, [runs EXCEPT ![k] = r], k)
  BY <1>2, <1>3, ReplacedRun
<1>5. Writes
  BY <1>1, <1>2, <1>4 DEF Writes, Finish, r
<1> QED
  BY <1>1, <1>5, EndHolds

\* A model call is served, refused or sent; only a session that records sends.
LEMMA AskHolds ==
    ASSUME SessionHolds, NEW op, NEW raises, Ask(op, raises)
    PROVE  SessionHolds' /\ Writes /\ Quiet
<1>1. Open /\ UNCHANGED <<sess, scope, disk>>
  BY DEF Ask, AgentReady, openVars, toolVars
<1>2. PICK hit, blocks : \/ ServeCall(hit, op)
                         \/ RefuseCall(op)
                         \/ sess.records /\ SendCall(op[2], blocks, op, raises)
  BY DEF Ask
<1>3. Writes
  <2>1. ASSUME NEW obs, Saw(op, obs, <<>>) PROVE Writes
    BY <1>1, <2>1, SawWrites, ShortSeqs
  <2>2. ASSUME NEW obs, NEW e, Saw(op, obs, Recorded(e)) PROVE Writes
    BY <1>1, <2>2, SawWrites, RecordedShort
  <2>3. ASSUME UNCHANGED logVars PROVE Writes
    BY <2>3, NoWrite DEF logVars
  <2> QED
    BY <1>2, <2>1, <2>2, <2>3 DEF ServeCall, RefuseCall, SendCall
<1>4. /\ handle' = NoStream \/ (IsHandle(handle') /\ (~sess.records => ~handle'.live))
      /\ ~sess.records => UNCHANGED <<world, sent>>
  BY <1>1, <1>2, HandleHolds DEF ServeCall, RefuseCall, SendCall, IsHandle
<1>5. SessionHolds'
  BY <1>1, <1>3, <1>4, CannotRecord, StaysOpen
<1> QED
  BY <1>1, <1>3, <1>4, <1>5 DEF Quiet, Writes

\* A chunk changes nothing else of a handle.
LEMMA ChunkTaken ==
    ASSUME NEW h, IsHandle(h), NEW n
    PROVE  /\ IsHandle([h EXCEPT !.taken = n])
           /\ [h EXCEPT !.taken = n].live = h.live /\ [h EXCEPT !.taken = n].event = h.event
           /\ [h EXCEPT !.taken = n].op = h.op /\ [h EXCEPT !.taken = n].taken = n
<1> DEFINE yes == TRUE
<1> DEFINE g == [open |-> yes, event |-> h.event, op |-> h.op, taken |-> n, live |-> h.live]
<1>1. h = [open |-> yes, event |-> h.event, op |-> h.op, taken |-> h.taken, live |-> h.live]
  BY DEF IsHandle
<1> HIDE DEF yes
<1>2. [h EXCEPT !.taken = n] = g
  BY <1>1
<1>3. g.live = h.live /\ g.event = h.event /\ g.op = h.op /\ g.taken = n
  OBVIOUS
<1>4. g = [open |-> yes, event |-> g.event, op |-> g.op, taken |-> g.taken, live |-> g.live]
  OBVIOUS
<1> HIDE DEF g
<1> QED
  BY <1>2, <1>3, <1>4 DEF IsHandle, yes

\* Chunks are delivered from a handle, and logged at its end if it was live.
LEMMA StreamHolds ==
    ASSUME SessionHolds, StreamNext \/ \E cut \in BOOLEAN : StreamEnd(cut)
    PROVE  SessionHolds' /\ Writes /\ Quiet
<1>1. Open /\ UNCHANGED <<sess, scope, disk, world, sent>>
  BY DEF StreamNext, StreamEnd, AgentReady, openVars, toolVars, worldVars
<1>2. ASSUME StreamNext PROVE Writes /\ (IsHandle(handle') /\ (~sess.records => ~handle'.live))
  <2>1. handle' = [handle EXCEPT !.taken = @ + 1] /\ handle # NoStream
    BY <1>2 DEF StreamNext
  <2>2. IsHandle(handle)
    BY <1>1, <2>1, HandleHolds
  <2>3. IsHandle(handle') /\ handle'.live = handle.live
    BY <2>1, <2>2, ChunkTaken
  <2> QED
    BY <1>1, <1>2, <2>1, <2>3, HandleHolds, NoWrite DEF StreamNext, logVars
<1>3. ASSUME NEW cut \in BOOLEAN, StreamEnd(cut) PROVE Writes /\ handle' = NoStream
  <2>1. PICK events, op, obs : IsSeq(events) /\ Saw(op, obs, events)
    BY <1>3, ShortSeqs, RecordedShort DEF StreamEnd
  <2> QED
    BY <1>1, <1>3, <2>1, SawWrites DEF StreamEnd, Spent
<1>4. SessionHolds'
  BY <1>1, <1>2, <1>3, CannotRecord, StaysOpen
<1> QED
  BY <1>1, <1>2, <1>3, <1>4 DEF Quiet, Writes

\* A live access happens where recording is allowed.
LEMMA LiveHolds ==
    ASSUME SessionHolds, Open, sess.records, NEW p, NEW key, NEW data, Live(p, key, data),
           UNCHANGED <<sess, callVars, toolVars>>
    PROVE  SessionHolds' /\ Writes /\ Quiet
<1>1. Writes
  <2>1. PICK op, obs, e : SawIn(p, op, obs, Recorded(e))
    BY DEF Live
  <2> QED
    BY <2>1, SawInWrites, RecordedShort
<1>2. SessionHolds'
  BY <1>1, HandleHolds, StaysOpen DEF callVars
<1> QED
  BY <1>1, <1>2 DEF Quiet

\* An access that is served, or missed, changes no file and asks for no value.
LEMMA ServedHolds ==
    ASSUME SessionHolds, Open, NEW p, NEW op, NEW obs, SawIn(p, op, obs, <<>>),
           UNCHANGED <<sess, callVars, toolVars, worldVars>>
    PROVE  SessionHolds' /\ Writes /\ Quiet
<1>1. Writes
  BY SawInWrites, ShortSeqs
<1>2. SessionHolds'
  BY <1>1, HandleHolds, CannotRecord, StaysOpen DEF callVars, toolVars
<1> QED
  BY <1>1, <1>2 DEF Quiet, Writes, callVars, worldVars

\* Values of the environment and files, by the agent and by its tools.
LEMMA AccessHolds ==
    ASSUME SessionHolds, NEW p, NEW key, NEW data,
           AccessLive(p, key, data) \/ AccessBegin(p, key, data) \/ AccessEnd(p)
    PROVE  SessionHolds' /\ Writes /\ Quiet
<1>1. Open /\ UNCHANGED <<sess, callVars, toolVars>>
  BY DEF AccessLive, AccessBegin, AccessEnd, MayAccess, openVars
<1>2. CASE AccessLive(p, key, data)
  <2>1. sess.records /\ Live(p, key, data)
    BY <1>1, <1>2, CannotRecord DEF AccessLive
  <2> QED
    BY <1>1, <2>1, LiveHolds
<1>3. CASE AccessBegin(p, key, data)
  <2>1. Writes /\ UNCHANGED <<runs, disk, world, sent>>
    BY <1>1, <1>3, NoWrite DEF AccessBegin, logVars, worldVars, callVars
  <2>2. SessionHolds'
    BY <1>1, <2>1, HandleHolds, CannotRecord, StaysOpen DEF callVars, toolVars
  <2> QED
    BY <2>1, <2>2 DEF Quiet
<1>4. CASE AccessEnd(p)
  <2> DEFINE a == reading[p]
  <2>1. \/ sess.records /\ Live(p, a.key, a.data)
        \/ \E op, obs : SawIn(p, op, obs, <<>>) /\ UNCHANGED worldVars
    BY <1>4 DEF AccessEnd, ServeAccess, RunsOut
  <2> QED
    BY <1>1, <2>1, LiveHolds, ServedHolds
<1> QED
  BY <1>2, <1>3, <1>4

\* A tool is dispatched only where its result can be recorded.
LEMMA ToolHolds ==
    ASSUME SessionHolds, NEW t, NEW args, NEW raises, ToolCall(t, args) \/ (t \in ToolIds /\ ToolReturn(t, raises))
    PROVE  SessionHolds' /\ Writes /\ Quiet
<1>1. Open /\ UNCHANGED <<sess, callVars, disk>>
  BY DEF ToolCall, ToolReturn, openVars, worldVars
<1>2. CASE ToolCall(t, args)
  <2>1. PICK op, obs : Saw(op, obs, <<>>)
    BY <1>2 DEF ToolCall
  <2>2. Writes
    BY <1>1, <2>1, SawWrites, ShortSeqs
  <2>3. UNCHANGED world /\ (~sess.records => UNCHANGED scope)
    BY <1>2 DEF ToolCall, worldVars
  <2>4. SessionHolds'
    BY <1>1, <2>2, <2>3, HandleHolds, CannotRecord, StaysOpen DEF callVars
  <2> QED
    BY <1>1, <2>2, <2>3, <2>4 DEF Quiet, Writes, callVars
<1>3. CASE t \in ToolIds /\ ToolReturn(t, raises)
  <2>1. sess.records
    BY <1>1, <1>3, CannotRecord DEF ToolReturn
  <2> DEFINE at == CHOOSE i \in DOMAIN transcript : transcript[i].obs = Pending /\ transcript[i].op[2] = t
  <2> DEFINE obs == IF raises THEN Raised ELSE Value(world')
  <2> DEFINE e == [type |-> "tool_call", parent |-> scope[t], id |-> t, args |-> Redact(transcript[at].op[3]), obs |-> obs]
  <2> DEFINE events == IF raises THEN <<>> ELSE Recorded(e)
  <2> DEFINE script == [Logged(events)[sess.run].script EXCEPT ![at].obs = obs]
  <2>2. /\ IsSeq(events)
        /\ runs' = IF sess.replays THEN Logged(events)
                   ELSE [Logged(events) EXCEPT ![sess.run].script = script]
    BY <1>3, ShortSeqs, RecordedShort DEF ToolReturn
  <2> HIDE DEF script, events
  <2>3. Grown(runs, Logged(events), sess.run) /\ sess.run \in DOMAIN runs /\ IsStore(runs)
    BY <1>1, <2>2, LoggedGrows DEF SessionHolds
  <2>4. Writes
    BY <1>1, <2>1, <2>2, <2>3, ScriptGrows DEF Writes
  <2>5. SessionHolds'
    BY <1>1, <2>1, <2>4, HandleHolds, StaysOpen DEF callVars
  <2> QED
    BY <2>1, <2>4, <2>5 DEF Quiet
<1> QED
  BY <1>2, <1>3

\* An outcome is logged, or is a miss.
LEMMA OutcomeHolds ==
    ASSUME SessionHolds, NEW status, Outcome(status)
    PROVE  SessionHolds' /\ Writes /\ Quiet
<1>1. Open /\ UNCHANGED <<sess, callVars, toolVars, worldVars>>
  BY DEF Outcome, AgentReady, openVars
<1>2. PICK events, op, obs : IsSeq(events) /\ Saw(op, obs, events)
  BY ShortSeqs, RecordedShort DEF Outcome
<1>3. Writes
  BY <1>1, <1>2, SawWrites
<1>4. SessionHolds'
  BY <1>1, <1>3, HandleHolds, CannotRecord, StaysOpen DEF callVars, toolVars
<1> QED
  BY <1>1, <1>3, <1>4 DEF Quiet, Writes, callVars, worldVars

\* Every step of the program.
LEMMA SessionStep ==
    ASSUME SessionHolds, Next
    PROVE  SessionHolds' /\ Writes /\ Quiet
<1>1. ASSUME NEW mode \in Modes, NEW match, OpenSession(mode, match) PROVE SessionHolds' /\ Writes /\ Quiet
  BY <1>1, OpenSessionHolds
<1>2. ASSUME NEW source, NEW drop, NEW from, NEW match, OpenFork(source, drop, from, match)
      PROVE  SessionHolds' /\ Writes /\ Quiet
  BY <1>2, OpenForkHolds
<1>3. ASSUME NEW status, CloseSession(status) PROVE SessionHolds' /\ Writes /\ Quiet
  BY <1>3, CloseSessionHolds
<1>4. ASSUME Crash PROVE SessionHolds' /\ Writes /\ Quiet
  BY <1>4, NoWrite, EndHolds DEF Crash
<1>5. ASSUME NEW op, NEW raises, Ask(op, raises) PROVE SessionHolds' /\ Writes /\ Quiet
  BY <1>5, AskHolds
<1>6. ASSUME StreamNext \/ \E cut \in BOOLEAN : StreamEnd(cut) PROVE SessionHolds' /\ Writes /\ Quiet
  BY <1>6, StreamHolds
<1>7. ASSUME NEW p, NEW key, NEW data, AccessLive(p, key, data) \/ AccessBegin(p, key, data) \/ AccessEnd(p)
      PROVE  SessionHolds' /\ Writes /\ Quiet
  BY <1>7, AccessHolds
<1>8. ASSUME NEW t, NEW args, NEW raises, ToolCall(t, args) \/ (t \in ToolIds /\ ToolReturn(t, raises))
      PROVE  SessionHolds' /\ Writes /\ Quiet
  BY <1>8, ToolHolds
<1>9. ASSUME NEW status, Outcome(status) PROVE SessionHolds' /\ Writes /\ Quiet
  BY <1>9, OutcomeHolds
<1>10. ASSUME NEW f, NEW c, DiskChanges(f, c) PROVE SessionHolds' /\ Writes /\ Quiet
  <2>1. ~Open /\ UNCHANGED <<runs, sess, handle, sent, scope>>
    BY <1>10 DEF DiskChanges, logVars, openVars, callVars, toolVars
  <2> QED
    BY <2>1, NoWrite DEF SessionHolds, Quiet, Open
<1>11. CASE \/ \E mode \in Modes, match \in MatchConfigs : OpenSession(mode, match)
            \/ \E source \in DOMAIN runs, drop \in Drops, from \in 0 .. MaxOps,
                  match \in MatchConfigs : OpenFork(source, drop, from, match)
            \/ \E status \in {"ok", "error"} : CloseSession(status)
            \/ Crash
  BY <1>1, <1>2, <1>3, <1>4, <1>11
<1>12. CASE \/ \E op \in Asks, raises \in Raises \cup {FALSE} : Ask(op, raises)
            \/ StreamNext
            \/ \E cut \in BOOLEAN : StreamEnd(cut)
  BY <1>5, <1>6, <1>12
<1>13. CASE \/ \E p \in Threads : \E op \in AccessesOf(p) :
                  AccessLive(p, op[2], op[3]) \/ AccessBegin(p, op[2], op[3])
            \/ \E p \in Threads : AccessEnd(p)
  BY <1>7, <1>13
<1>14. CASE \/ \E op \in {o \in Ops : o[1] = "tool"} : ToolCall(op[2], op[3])
            \/ \E t \in ToolIds, raises \in Raises \cup {FALSE} : ToolReturn(t, raises)
  BY <1>8, <1>14
<1>15. CASE \/ \E op \in {o \in Ops : o[1] = "outcome"} : Outcome(op[2])
            \/ \E f \in Paths, c \in Contents : DiskChanges(f, c)
  BY <1>9, <1>10, <1>15
<1> QED
  BY <1>11, <1>12, <1>13, <1>14, <1>15 DEF Next

\* The session's hold on the store, always.
LEMMA SessionAlways == Spec => []SessionHolds
<1>1. Init => SessionHolds
  <2> SUFFICES ASSUME Init PROVE SessionHolds
    OBVIOUS
  <2>1. IsStore(<<>>)
    BY ShortSeqs DEF IsStore
  <2> QED
    BY <2>1 DEF Init, SessionHolds, Open
<1>2. SessionHolds /\ [Next]_vars => SessionHolds'
  <2>1. ASSUME SessionHolds, UNCHANGED vars PROVE SessionHolds'
    BY <2>1 DEF vars, logVars, openVars, callVars, toolVars, SessionHolds, Open
  <2> QED
    BY <2>1, SessionStep
<1> QED
  BY <1>1, <1>2, PTL DEF Spec

\* tracewake/session.py and fs.py: for every program of an agent and its tools,
\* however their threads interleave and wherever a session dies, a replay leaves
\* the store, the disk and the models alone, a log only grows, and a fork writes
\* no log but its own.
THEOREM SessionsStayOut == Spec => SessionsKeepOut
<1> DEFINE Touches == Open /\ ~sess.records => UNCHANGED <<runs, disk, world, sent>>
<1> DEFINE Grows ==
        \A i \in DOMAIN runs :
            /\ IsPrefix(runs[i].events, runs'[i].events)
            /\ runs'[i].events # runs[i].events => Open /\ sess.run = i /\ (sess.fork => runs[i].fork)
<1>1. ASSUME SessionHolds, [Next]_vars PROVE [Touches]_vars /\ [Grows]_vars
  <2> SUFFICES ASSUME Next PROVE Touches /\ Grows
    BY <1>1
  <2>1. Writes /\ Quiet
    BY <1>1, SessionStep
  <2>2. IsStore(runs)
    BY <1>1 DEF SessionHolds
  <2>3. ASSUME Open PROVE Grows
    <3>1. Grown(runs, runs', sess.run)
      BY <2>1, <2>3 DEF Writes
    <3> QED
      BY <1>1, <2>3, <3>1 DEF Grown, SessionHolds
  <2>4. ASSUME ~Open PROVE Grows
    <3>1. \A i \in DOMAIN runs : runs'[i] = runs[i]
      BY <2>1, <2>2, <2>4, AppendedRun DEF Writes
    <3> QED
      BY <2>2, <2>4, <3>1, SameSeq DEF IsStore, IsRun
  <2> QED
    BY <2>1, <2>3, <2>4 DEF Quiet
<1> QED
  BY <1>1, SessionAlways, PTL DEF Spec, SessionsKeepOut, ReplayTouchesNothing, LogsOnlyGrow
-----------------------------------------------------------------------------
(***************************************************************************)
(* What reaches the logs.                                                  *)
(***************************************************************************)

\* No call of a log has number c.
Fresh(log, c) == \A j \in OfType(log, "model_call") : log[j].call # c

\* The calls of a log have different numbers, none above n.
Numbered(log, n) ==
    /\ \A j \in OfType(log, "model_call") : log[j].call \in 1 .. n
    /\ \A j, k \in OfType(log, "model_call") : log[j].call = log[k].call => j = k

\* A log with one more event.
LEMMA OneMore ==
    ASSUME NEW s, IsSeq(s), NEW e
    PROVE  /\ Len(s) + 1 \notin DOMAIN s /\ DOMAIN (s \o <<e>>) = DOMAIN s \cup {Len(s) + 1}
           /\ (s \o <<e>>)[Len(s) + 1] = e /\ \A j \in DOMAIN s : (s \o <<e>>)[j] = s[j]
<1>1. PICK A : s \in Seq(A)
  BY DEF IsSeq
<1>2. s \in Seq(A \cup {e}) /\ <<e>> \in Seq(A \cup {e})
  BY <1>1
<1>3. Len(s) \in Nat /\ DOMAIN s = 1 .. Len(s) /\ DOMAIN (s \o <<e>>) = 1 .. Len(s) + 1
  BY <1>2
<1>4. (s \o <<e>>)[Len(s) + 1] = e /\ \A j \in 1 .. Len(s) : (s \o <<e>>)[j] = s[j]
  BY <1>2, <1>3
<1> QED
  BY <1>3, <1>4

\* A call with a new number may be appended, and so may anything that is no call.
LEMMA NumberedAppend ==
    ASSUME NEW s, IsSeq(s), NEW e, NEW n \in Nat, NEW m \in Nat, n <= m, Numbered(s, n),
           e.type = "model_call" => e.call \in 1 .. m /\ Fresh(s, e.call)
    PROVE  /\ Numbered(s \o <<e>>, m)
           /\ \A c : Fresh(s, c) /\ (e.type = "model_call" => e.call # c) => Fresh(s \o <<e>>, c)
<1> DEFINE t == s \o <<e>>
<1> DEFINE last == Len(s) + 1
<1>1. last \notin DOMAIN s /\ DOMAIN t = DOMAIN s \cup {last} /\ t[last] = e /\ \A j \in DOMAIN s : t[j] = s[j]
  BY OneMore
<1> HIDE DEF t, last
<1>2. \A j : j \in OfType(t, "model_call") <=>
                 \/ j \in OfType(s, "model_call") /\ t[j] = s[j]
                 \/ j = last /\ t[j] = e /\ e.type = "model_call"
  BY <1>1 DEF OfType
<1>3. \A j \in OfType(t, "model_call") : t[j].call \in 1 .. m
  BY <1>2 DEF Numbered
<1>4. \A j, k \in OfType(t, "model_call") : t[j].call = t[k].call => j = k
  BY <1>2 DEF Numbered, Fresh
<1>5. \A c : Fresh(s, c) /\ (e.type = "model_call" => e.call # c) => Fresh(t, c)
  BY <1>2 DEF Fresh
<1> QED
  BY <1>3, <1>4, <1>5 DEF Numbered, t

\* What a step appends to the log of its session.
Logs(events) ==
    /\ DOMAIN runs' = DOMAIN runs
    /\ \A i \in DOMAIN runs : runs'[i].events = IF sess.records /\ i = sess.run THEN runs[i].events \o events
                                                ELSE runs[i].events

\* Session._append.
LEMMA LoggedLogs ==
    ASSUME SessionHolds, Open, NEW events, IsSeq(events), NEW store,
           store = Logged(events) \/ (~sess.replays /\ \E script :
               store = [Logged(events) EXCEPT ![sess.run].script = script])
    PROVE  /\ DOMAIN store = DOMAIN runs
           /\ \A i \in DOMAIN runs : store[i].events = IF sess.records /\ i = sess.run THEN runs[i].events \o events
                                                       ELSE runs[i].events
<1> DEFINE k == sess.run
<1> DEFINE log == Logged(events)
<1>1. k \in DOMAIN runs /\ IsStore(runs) /\ IsRun(runs[k]) /\ IsSeq(runs)
  BY DEF SessionHolds, IsStore
<1>2. /\ DOMAIN log = DOMAIN runs /\ IsRun(log[k])
      /\ \A i \in DOMAIN runs : log[i].events = IF sess.records /\ i = k THEN runs[i].events \o events
                                                ELSE runs[i].events
  <2> DEFINE joined == runs[k].events \o events
  <2> DEFINE r == [runs[k] EXCEPT !.events = joined]
  <2>1. IsSeq(joined)
    BY <1>1, JoinedSeq DEF IsRun
  <2>2. log = IF sess.records THEN [runs EXCEPT ![k] = r] ELSE runs
    BY DEF Logged
  <2> HIDE DEF joined
  <2>3. IsRun(r) /\ r.events = joined
    BY <1>1, <2>1 DEF IsRun
  <2> HIDE DEF r, log
  <2> QED
    BY <1>1, <2>2, <2>3, ReplacedInSeq DEF joined
<1>3. CASE store = log
  BY <1>2, <1>3
<1>4. ASSUME NEW script, store = [log EXCEPT ![k].script = script]
      PROVE  DOMAIN store = DOMAIN log /\ \A i \in DOMAIN runs : store[i].events = log[i].events
  BY <1>1, <1>2, <1>4 DEF IsRun
<1> QED
  BY <1>2, <1>3, <1>4

\* What the agent does is logged.
LEMMA SawLogs ==
    ASSUME SessionHolds, Open, NEW op, NEW obs, NEW events, IsSeq(events), Saw(op, obs, events)
    PROVE  Logs(events)
<1> DEFINE script == Append(Logged(events)[sess.run].script, [op |-> op, obs |-> obs])
<1>1. runs' = IF sess.replays THEN Logged(events) ELSE [Logged(events) EXCEPT ![sess.run].script = script]
  BY DEF Saw
<1> HIDE DEF script
<1> QED
  BY <1>1, LoggedLogs DEF Logs

\* So is what a tool does.
LEMMA SawInLogs ==
    ASSUME SessionHolds, Open, NEW p, NEW op, NEW obs, NEW events, IsSeq(events), SawIn(p, op, obs, events)
    PROVE  Logs(events)
  BY SawLogs, LoggedLogs DEF SawIn, Logs

\* The calls in the logs, and the call whose stream is still open.
IsCall(e) ==
    e = [type |-> "model_call", call |-> e.call, model |-> e.model, blocks |-> e.blocks,
         obs |-> e.obs, chunks |-> e.chunks]
StreamFresh ==
    handle # NoStream /\ handle.live =>
        IsCall(handle.event) /\ handle.event.call \in 1 .. world /\ Fresh(runs[sess.run].events, handle.event.call)
CallsHold ==
    /\ world \in Nat
    /\ \A i \in DOMAIN runs : Numbered(runs[i].events, world)
    /\ StreamFresh
    /\ DroppedIsDropped

\* A step that logs an event keeps the numbers apart if the event is no call, or a
\* call with a new number.
LEMMA LogsNumbered ==
    ASSUME SessionHolds, CallsHold, Open, NEW e, world' \in Nat, world <= world',
           Logs(<<>>) \/ (Logs(<<e>>) /\ (e.type = "model_call" =>
               e.call \in 1 .. world' /\ Fresh(runs[sess.run].events, e.call)))
    PROVE  /\ \A i \in DOMAIN runs' : Numbered(runs'[i].events, world')
           /\ \A c : /\ Fresh(runs[sess.run].events, c)
                     /\ Logs(<<>>) \/ (Logs(<<e>>) /\ (e.type = "model_call" => e.call # c))
                     => Fresh(runs'[sess.run].events, c)
<1>1. IsStore(runs) /\ sess.run \in DOMAIN runs
  BY DEF SessionHolds
<1>2. \A i \in DOMAIN runs : IsSeq(runs[i].events) /\ Numbered(runs[i].events, world) /\ world \in Nat
  BY <1>1 DEF IsStore, IsRun, CallsHold
<1>3. \A i \in DOMAIN runs : runs[i].events \o <<>> = runs[i].events
  BY <1>2 DEF IsSeq
<1>4. \A i \in DOMAIN runs : Numbered(runs[i].events, world')
  BY <1>2 DEF Numbered
<1>5. CASE Logs(<<>>)
  <2>1. DOMAIN runs' = DOMAIN runs /\ \A i \in DOMAIN runs : runs'[i].events = runs[i].events
    BY <1>3, <1>5 DEF Logs
  <2> QED
    BY <1>1, <1>4, <2>1
<1>6. CASE ~Logs(<<>>)
  <2> DEFINE k == sess.run
  <2>1. Logs(<<e>>) /\ (e.type = "model_call" => e.call \in 1 .. world' /\ Fresh(runs[k].events, e.call))
    BY <1>6
  <2>2. /\ Numbered(runs[k].events \o <<e>>, world')
        /\ \A c : Fresh(runs[k].events, c) /\ (e.type = "model_call" => e.call # c)
                  => Fresh(runs[k].events \o <<e>>, c)
    BY <1>1, <1>2, <2>1, NumberedAppend
  <2>3. DOMAIN runs' = DOMAIN runs /\ \A i \in DOMAIN runs :
            runs'[i].events = IF sess.records /\ i = k THEN runs[i].events \o <<e>> ELSE runs[i].events
    BY <2>1 DEF Logs
  <2> QED
    BY <1>1, <1>4, <1>6, <2>2, <2>3
<1> QED
  BY <1>5, <1>6
\* A step that calls no model and leaves the open stream alone.
LEMMA NoCall ==
    ASSUME SessionHolds, CallsHold, Open, UNCHANGED <<sess, sent, handle>>, world' \in Nat, world <= world',
           NEW e, e.type # "model_call", Logs(<<>>) \/ Logs(<<e>>)
    PROVE  CallsHold'
<1>1. \A i \in DOMAIN runs' : Numbered(runs'[i].events, world')
  BY LogsNumbered
<1>2. \A c : Fresh(runs[sess.run].events, c) => Fresh(runs'[sess.run].events, c)
  BY LogsNumbered
<1>3. StreamFresh'
  BY <1>2 DEF StreamFresh, CallsHold
<1>4. DroppedIsDropped'
  BY DEF CallsHold, DroppedIsDropped, Open
<1> QED
  BY <1>1, <1>3, <1>4 DEF CallsHold

\* A session is opened on an empty run or on an old one, and nothing was sent.
LEMMA OpenCalls ==
    ASSUME SessionHolds, CallsHold, ~Open, UNCHANGED <<handle, sent, world>>,
           \/ UNCHANGED runs
           \/ \E events, fork : /\ IsSeq(events) /\ OfType(events, "model_call") = {}
                                /\ runs' = Append(runs, NewRun(events, fork))
    PROVE  CallsHold'
<1>1. sent' = {} /\ handle' = NoStream /\ IsStore(runs)
  BY DEF SessionHolds
<1>2. \A i \in DOMAIN runs' : Numbered(runs'[i].events, world')
  <2>1. CASE UNCHANGED runs
    BY <2>1 DEF CallsHold
  <2>2. ASSUME NEW events, NEW fork, IsSeq(events), OfType(events, "model_call") = {},
               runs' = Append(runs, NewRun(events, fork))
        PROVE  \A i \in DOMAIN runs' : Numbered(runs'[i].events, world')
    <3> DEFINE r == NewRun(events, fork)
    <3>1. IsRun(r) /\ r.events = events
      BY <2>2 DEF NewRun, IsRun
    <3>2. Numbered(events, world')
      BY <2>2 DEF Numbered
    <3> HIDE DEF r
    <3>3. /\ \A i \in DOMAIN runs' : i = Len(runs) + 1 \/ i \in DOMAIN runs
          /\ runs'[Len(runs) + 1] = r /\ \A i \in DOMAIN runs : runs'[i] = runs[i]
      <4>1. PICK A : runs \in Seq(A)
        BY <1>1 DEF IsStore, IsSeq
      <4>2. runs \in Seq(A \cup {r}) /\ runs' = Append(runs, r)
        BY <2>2, <4>1 DEF r
      <4> QED
        BY <4>2
    <3> QED
      BY <3>1, <3>2, <3>3 DEF CallsHold
  <2> QED
    BY <2>1, <2>2
<1> QED
  BY <1>1, <1>2 DEF CallsHold, StreamFresh, DroppedIsDropped

\* What an ended session sent is forgotten, and what it logged stays.
LEMMA EndCalls ==
    ASSUME SessionHolds, CallsHold, End,
           DOMAIN runs' = DOMAIN runs, \A i \in DOMAIN runs : runs'[i].events = runs[i].events
    PROVE  CallsHold'
<1>1. sess' = None /\ sent' = {} /\ handle' = NoStream /\ world' = world
  BY DEF End, worldVars
<1> QED
  BY <1>1 DEF CallsHold, StreamFresh, DroppedIsDropped

\* The status of a run is not its log.
LEMMA CloseCalls ==
    ASSUME SessionHolds, CallsHold, NEW status, CloseSession(status)
    PROVE  CallsHold'
<1> DEFINE k == sess.run
<1>1. End /\ Open /\ runs' = IF sess.records THEN [runs EXCEPT ![k].status = status] ELSE runs
  BY DEF CloseSession, Finish
<1>2. k \in DOMAIN runs /\ IsRun(runs[k]) /\ IsSeq(runs)
  BY <1>1 DEF SessionHolds, IsStore
<1>3. DOMAIN runs' = DOMAIN runs /\ \A i \in DOMAIN runs : runs'[i].events = runs[i].events
  BY <1>1, <1>2 DEF IsRun
<1> QED
  BY <1>1, <1>3, EndCalls

\* A live call gets a number no log has, and is sent without what the fork drops.
LEMMA SendCalls ==
    ASSUME SessionHolds, CallsHold, Open, sess.records, handle = NoStream, UNCHANGED sess,
           NEW op, NEW raises, SendCall(op[2], TurnMessages(op[3]), op, raises)
    PROVE  CallsHold'
<1> DEFINE blocks == TurnMessages(op[3])
<1> DEFINE chunks == IF op[1] = "stream" THEN Chunks ELSE None
<1> DEFINE e == ModelEvent(world + 1, op[2], blocks, Value(world + 1), chunks)
<1> DEFINE f == RedactEvent(e)
<1> DEFINE log == runs[sess.run].events
<1>1. /\ world' = world + 1 /\ sent' = sent \cup {<<turn, blocks>>}
      /\ \/ /\ handle' = [open |-> TRUE, event |-> e, op |-> op, taken |-> 0, live |-> TRUE]
            /\ UNCHANGED runs
         \/ Saw(op, e.obs, Recorded(e)) /\ handle' = NoStream
         \/ Saw(op, Raised, <<>>) /\ handle' = NoStream
  BY DEF SendCall, logVars
<1>2. e.type = "model_call" /\ e.call = world + 1 /\ IsCall(e)
  BY DEF ModelEvent, IsCall
<1>8. f.type = "model_call" /\ f.call = world + 1
  BY RedactedCall DEF ModelEvent
<1> HIDE DEF e, f
<1>3. world \in Nat /\ world' \in Nat /\ world <= world' /\ world + 1 \in 1 .. world' /\ sess.run \in DOMAIN runs
  BY <1>1 DEF CallsHold, SessionHolds
<1>4. Fresh(log, world + 1)
  BY <1>3 DEF CallsHold, Numbered, Fresh
<1>5. DroppedIsDropped'
  <2>1. sess.fork /\ turn >= sess.from => blocks \cap sess.drop = {}
    BY DEF TurnMessages
  <2> HIDE DEF blocks
  <2> QED
    BY <1>1, <2>1 DEF CallsHold, DroppedIsDropped, Open
<1>6. CASE UNCHANGED runs /\ handle' = [open |-> TRUE, event |-> e, op |-> op, taken |-> 0, live |-> TRUE]
  <2>1. handle'.event = e
    BY <1>6
  <2>2. StreamFresh'
    BY <1>1, <1>2, <1>3, <1>4, <1>6, <2>1 DEF StreamFresh
  <2>3. \A i \in DOMAIN runs' : Numbered(runs'[i].events, world')
    BY <1>3, <1>6 DEF CallsHold, Numbered
  <2> QED
    BY <1>3, <1>5, <2>2, <2>3 DEF CallsHold
<1>7. CASE (Saw(op, e.obs, Recorded(e)) \/ Saw(op, Raised, <<>>)) /\ handle' = NoStream
  <2>3. IsSeq(Recorded(e)) /\ (Recorded(e) = <<>> \/ Recorded(e) = <<f>>)
    BY RecordedShort DEF f
  <2>1. Logs(<<>>) \/ Logs(<<f>>)
    BY <1>7, <2>3, SawLogs, ShortSeqs
  <2>2. \A i \in DOMAIN runs' : Numbered(runs'[i].events, world')
    BY <1>3, <1>4, <1>8, <2>1, LogsNumbered
  <2> QED
    BY <1>3, <1>5, <1>7, <2>2 DEF CallsHold, StreamFresh
<1> QED
  BY <1>1, <1>6, <1>7
\* A step that logs nothing keeps the numbers.
LEMMA NothingLogged ==
    ASSUME SessionHolds, CallsHold, UNCHANGED world, Logs(<<>>)
    PROVE  \A i \in DOMAIN runs' : Numbered(runs'[i].events, world')
<1>1. \A i \in DOMAIN runs : runs[i].events \o <<>> = runs[i].events
  BY DEF SessionHolds, IsStore, IsRun, IsSeq
<1>2. DOMAIN runs' = DOMAIN runs /\ \A i \in DOMAIN runs : runs'[i].events = runs[i].events
  BY <1>1 DEF Logs
<1> QED
  BY <1>2 DEF CallsHold

\* A call that is served or refused is not logged, and its stream is not live.
LEMMA AskCalls ==
    ASSUME SessionHolds, CallsHold, NEW op, NEW raises, Ask(op, raises)
    PROVE  CallsHold'
<1>1. Open /\ handle = NoStream /\ UNCHANGED sess
  BY DEF Ask, AgentReady, openVars
<1>2. \/ \E hit : ServeCall(hit, op)
      \/ RefuseCall(op)
      \/ sess.records /\ SendCall(op[2], TurnMessages(op[3]), op, raises)
  BY DEF Ask
<1>3. ASSUME UNCHANGED <<world, sent>>, handle' = NoStream \/ ~handle'.live, UNCHANGED runs \/ Logs(<<>>)
      PROVE  CallsHold'
  <2>1. \A i \in DOMAIN runs' : Numbered(runs'[i].events, world')
    <3>1. CASE UNCHANGED runs
      BY <1>3, <3>1 DEF CallsHold
    <3>2. CASE Logs(<<>>)
      BY <1>3, <3>2, NothingLogged
    <3> QED
      BY <1>3, <3>1, <3>2
  <2> QED
    BY <1>1, <1>3, <2>1 DEF CallsHold, StreamFresh, DroppedIsDropped, Open
<1>4. ASSUME NEW hit, ServeCall(hit, op) PROVE CallsHold'
  <2>1. /\ UNCHANGED <<world, sent>> /\ (handle' = NoStream \/ ~handle'.live)
        /\ UNCHANGED runs \/ \E obs : Saw(op, obs, <<>>)
    BY <1>1, <1>4 DEF ServeCall, logVars
  <2> QED
    BY <1>1, <1>3, <2>1, SawLogs, ShortSeqs
<1>5. ASSUME RefuseCall(op) PROVE CallsHold'
  BY <1>1, <1>3, <1>5, SawLogs, ShortSeqs DEF RefuseCall
<1>6. ASSUME sess.records, SendCall(op[2], TurnMessages(op[3]), op, raises) PROVE CallsHold'
  BY <1>1, <1>6, SendCalls
<1> QED
  BY <1>2, <1>4, <1>5, <1>6

\* A call that is cut short is the same call.
LEMMA CutCall ==
    ASSUME NEW e, NEW taken
    PROVE  LET f == CutShort(e, taken)
           IN /\ IsCall(f) /\ f.call = e.call /\ f.model = e.model /\ f.blocks = e.blocks
              /\ f.obs = <<"partial", e.obs[2], taken>>
<1> DEFINE f == CutShort(e, taken)
<1>1. /\ f.call = e.call /\ f.model = e.model /\ f.blocks = e.blocks
      /\ f.obs = <<"partial", e.obs[2], taken>> /\ f.chunks = taken
  BY DEF CutShort
<1>2. f = [type |-> "model_call", call |-> f.call, model |-> f.model, blocks |-> f.blocks,
           obs |-> f.obs, chunks |-> f.chunks]
  BY <1>1 DEF CutShort
<1> HIDE DEF f
<1>3. IsCall(f)
  BY <1>2 DEF IsCall
<1> QED
  BY <1>1, <1>3 DEF f

\* A live stream is logged under its number once, when its handle is spent.
LEMMA StreamCalls ==
    ASSUME SessionHolds, CallsHold, StreamNext \/ \E cut \in BOOLEAN : StreamEnd(cut)
    PROVE  CallsHold'
<1>1. Open /\ handle # NoStream /\ UNCHANGED <<sess, world, sent>> /\ world \in Nat
  BY DEF StreamNext, StreamEnd, AgentReady, openVars, worldVars, CallsHold
<1>2. IsHandle(handle) /\ DroppedIsDropped'
  BY <1>1, HandleHolds DEF CallsHold, DroppedIsDropped, Open
<1>3. ASSUME StreamNext PROVE CallsHold'
  <2>1. handle' = [handle EXCEPT !.taken = @ + 1] /\ UNCHANGED runs
    BY <1>3 DEF StreamNext, logVars
  <2>2. handle'.event = handle.event /\ handle'.live = handle.live
    BY <1>2, <2>1 DEF IsHandle
  <2> QED
    BY <1>1, <1>2, <2>1, <2>2 DEF CallsHold, StreamFresh
<1>4. ASSUME NEW cut \in BOOLEAN, StreamEnd(cut) PROVE CallsHold'
  <2> DEFINE e == Finalized(cut)
  <2>1. /\ handle' = NoStream
        /\ Saw(Append(handle.op, handle.taken), e.obs, IF handle.live THEN Recorded(e) ELSE <<>>)
    BY <1>4 DEF StreamEnd, Spent
  <2>2. CASE handle.live
    <3>1. IsCall(handle.event) /\ handle.event.call \in 1 .. world /\ Fresh(runs[sess.run].events, handle.event.call)
      BY <1>1, <2>2 DEF CallsHold, StreamFresh
    <3> DEFINE f == RedactEvent(e)
    <3>2. IsCall(e) /\ e.call = handle.event.call
      <4> DEFINE g == CutShort(handle.event, handle.taken)
      <4>1. IsCall(g) /\ g.call = handle.event.call
        BY CutCall
      <4>2. e = g \/ e = handle.event
        BY <1>2 DEF Finalized
      <4> HIDE DEF e, g
      <4> QED
        BY <3>1, <4>1, <4>2
    <3> HIDE DEF e
    <3>5. f.type = "model_call" /\ f.call = handle.event.call
      BY <3>2, RedactedCall DEF IsCall
    <3>6. IsSeq(Recorded(e)) /\ (Recorded(e) = <<>> \/ Recorded(e) = <<f>>)
      BY RecordedShort
    <3> HIDE DEF f
    <3>3. Logs(<<>>) \/ Logs(<<f>>)
      BY <1>1, <2>1, <2>2, <3>6, SawLogs
    <3>4. \A i \in DOMAIN runs' : Numbered(runs'[i].events, world')
      BY <1>1, <3>1, <3>3, <3>5, LogsNumbered
    <3> QED
      BY <1>1, <1>2, <2>1, <3>4 DEF CallsHold, StreamFresh
  <2>3. CASE ~handle.live
    <3> HIDE DEF e
    <3>1. Logs(<<>>)
      BY <1>1, <2>1, <2>3, SawLogs, ShortSeqs
    <3>2. \A i \in DOMAIN runs' : Numbered(runs'[i].events, world')
      BY <1>1, <3>1, NothingLogged
    <3> QED
      BY <1>1, <1>2, <2>1, <3>2 DEF CallsHold, StreamFresh
  <2> QED
    BY <2>2, <2>3
<1> QED
  BY <1>3, <1>4

\* A live access logs the access, redacted, if anything.
LEMMA LiveLogs ==
    ASSUME NEW p, NEW key, NEW data, Live(p, key, data)
    PROVE  \E op, obs, e : SawIn(p, op, obs, Recorded(e)) /\ RedactEvent(e).type = "access"
<1> DEFINE val == CASE key[1] = "content" -> disk[key[2]]
                    [] key[1] = "write"   -> data
                    [] key[1] = "env"     -> world + 1
<1> DEFINE e == [type |-> "access", key |-> key, val |-> val, tool |-> IF p = Main THEN None ELSE p]
<1>1. \E op, obs : SawIn(p, op, obs, Recorded(e))
  BY DEF Live
<1>2. RedactEvent(e).type = "access"
  BY RedactedAccess
<1> HIDE DEF e
<1> QED
  BY <1>1, <1>2

\* An access, a tool and an outcome log no call; a live value has a number of its own.
LEMMA LiveCalls ==
    ASSUME SessionHolds, CallsHold, Open, UNCHANGED <<sess, callVars>>,
           NEW p, NEW key, NEW data, Live(p, key, data)
    PROVE  CallsHold'
<1>1. PICK op, obs, e : SawIn(p, op, obs, Recorded(e)) /\ RedactEvent(e).type = "access"
  BY LiveLogs
<1>2. world' \in Nat /\ world <= world'
  BY DEF Live, CallsHold
<1>3. Logs(<<>>) \/ Logs(<<RedactEvent(e)>>)
  BY <1>1, SawInLogs, RecordedShort
<1> QED
  BY <1>1, <1>2, <1>3, NoCall DEF callVars

\* A step of which nothing is logged.
LEMMA QuietCalls ==
    ASSUME SessionHolds, CallsHold, Open, UNCHANGED <<sess, callVars, world>>,
           UNCHANGED runs \/ \E p, op, obs : Saw(op, obs, <<>>) \/ SawIn(p, op, obs, <<>>)
    PROVE  CallsHold'
<1> DEFINE e == [type |-> "none"]
<1>1. Logs(<<>>)
  <2>1. \A i \in DOMAIN runs : runs[i].events \o <<>> = runs[i].events
    BY DEF SessionHolds, IsStore, IsRun, IsSeq
  <2>2. CASE UNCHANGED runs
    BY <2>1, <2>2 DEF Logs
  <2>3. CASE \E p, op, obs : Saw(op, obs, <<>>) \/ SawIn(p, op, obs, <<>>)
    BY <2>3, SawLogs, SawInLogs, ShortSeqs
  <2> QED
    BY <2>2, <2>3
<1>2. e.type # "model_call" /\ world' \in Nat /\ world <= world'
  BY DEF CallsHold
<1> HIDE DEF e
<1> QED
  BY <1>1, <1>2, NoCall DEF callVars

\* Values of the environment and files.
LEMMA AccessCalls ==
    ASSUME SessionHolds, CallsHold, NEW p, NEW key, NEW data,
           AccessLive(p, key, data) \/ AccessBegin(p, key, data) \/ AccessEnd(p)
    PROVE  CallsHold'
<1>1. Open /\ UNCHANGED <<sess, callVars>>
  BY DEF AccessLive, AccessBegin, AccessEnd, MayAccess, openVars
<1>2. CASE AccessLive(p, key, data)
  BY <1>1, <1>2, LiveCalls DEF AccessLive
<1>3. CASE AccessBegin(p, key, data)
  BY <1>1, <1>3, QuietCalls DEF AccessBegin, logVars, worldVars
<1>4. CASE AccessEnd(p)
  <2> DEFINE a == reading[p]
  <2>1. \/ Live(p, a.key, a.data)
        \/ \E op, obs : SawIn(p, op, obs, <<>>) /\ UNCHANGED worldVars
    BY <1>4 DEF AccessEnd, ServeAccess
  <2> QED
    BY <1>1, <2>1, LiveCalls, QuietCalls DEF worldVars
<1> QED
  BY <1>2, <1>3, <1>4

\* Tools and outcomes.
LEMMA ToolCalls ==
    ASSUME SessionHolds, CallsHold, NEW t, NEW args, NEW raises, NEW status,
           ToolCall(t, args) \/ ToolReturn(t, raises) \/ Outcome(status)
    PROVE  CallsHold'
<1>1. Open /\ UNCHANGED <<sess, callVars>> /\ world \in Nat
  BY DEF ToolCall, ToolReturn, Outcome, AgentReady, openVars, CallsHold
<1>2. CASE ToolCall(t, args)
  <2>1. UNCHANGED world /\ \E op, obs : Saw(op, obs, <<>>)
    BY <1>2 DEF ToolCall, worldVars
  <2> QED
    BY <1>1, <2>1, QuietCalls
<1>3. CASE ToolReturn(t, raises)
  <2> DEFINE at == CHOOSE i \in DOMAIN transcript : transcript[i].obs = Pending /\ transcript[i].op[2] = t
  <2> DEFINE obs == IF raises THEN Raised ELSE Value(world')
  <2> DEFINE e == [type |-> "tool_call", parent |-> scope[t], id |-> t, args |-> Redact(transcript[at].op[3]), obs |-> obs]
  <2> DEFINE events == IF raises THEN <<>> ELSE Recorded(e)
  <2> DEFINE script == [Logged(events)[sess.run].script EXCEPT ![at].obs = obs]
  <2>1. /\ world' = world + 1
        /\ runs' = IF sess.replays THEN Logged(events)
                   ELSE [Logged(events) EXCEPT ![sess.run].script = script]
    BY <1>3 DEF ToolReturn
  <2>5. RedactEvent(e).type # "model_call"
    BY RedactedTool
  <2> HIDE DEF e, script
  <2>2. IsSeq(events) /\ (events = <<>> \/ events = <<RedactEvent(e)>>)
    BY ShortSeqs, RecordedShort
  <2> HIDE DEF events
  <2>3. Logs(events)
    BY <1>1, <2>1, <2>2, LoggedLogs DEF Logs
  <2>4. world' \in Nat /\ world <= world'
    BY <1>1, <2>1
  <2> QED
    BY <1>1, <2>2, <2>3, <2>4, <2>5, NoCall DEF callVars
<1>4. CASE Outcome(status)
  <2> DEFINE e == [type |-> "outcome", status |-> status]
  <2>1. /\ UNCHANGED world /\ e.type # "model_call"
        /\ \E op, obs : Saw(op, obs, <<>>) \/ Saw(op, obs, Recorded(e))
    BY <1>4 DEF Outcome, worldVars
  <2>4. RedactEvent(e) = e
    BY RedactedOutcome
  <2> HIDE DEF e
  <2>2. Logs(<<>>) \/ Logs(<<e>>)
    BY <1>1, <2>1, <2>4, SawLogs, ShortSeqs, RecordedShort
  <2>3. world' \in Nat /\ world <= world'
    BY <1>1, <2>1
  <2> QED
    BY <1>1, <2>1, <2>2, <2>3, NoCall DEF callVars
<1> QED
  BY <1>2, <1>3, <1>4

\* Every step of the program keeps the calls apart.
LEMMA CallStep ==
    ASSUME SessionHolds, CallsHold, Next
    PROVE  CallsHold'
<1>1. ASSUME NEW mode, NEW match, OpenSession(mode, match) PROVE CallsHold'
  <2>1. /\ ~Open /\ UNCHANGED <<handle, sent, world>>
        /\ UNCHANGED runs \/ runs' = Append(runs, NewRun(<<>>, FALSE))
    BY <1>1 DEF OpenSession, Start, worldVars
  <2>2. IsSeq(<<>>) /\ OfType(<<>>, "model_call") = {}
    BY ShortSeqs DEF OfType
  <2> QED
    BY <2>1, <2>2, OpenCalls
<1>2. ASSUME NEW source, NEW drop, NEW from, NEW match, OpenFork(source, drop, from, match) PROVE CallsHold'
  <2> DEFINE events == <<[type |-> "intervention"]>>
  <2>1. ~Open /\ UNCHANGED <<handle, sent, world>> /\ runs' = Append(runs, NewRun(events, TRUE))
    BY <1>2 DEF OpenFork, Start, worldVars
  <2>2. IsSeq(events) /\ OfType(events, "model_call") = {}
    BY ShortSeqs DEF OfType
  <2> HIDE DEF events
  <2> QED
    BY <2>1, <2>2, OpenCalls
<1>3. ASSUME NEW status, CloseSession(status) PROVE CallsHold'
  BY <1>3, CloseCalls
<1>4. ASSUME Crash PROVE CallsHold'
  BY <1>4, EndCalls DEF Crash
<1>5. ASSUME NEW op, NEW raises, Ask(op, raises) PROVE CallsHold'
  BY <1>5, AskCalls
<1>6. ASSUME StreamNext \/ \E cut \in BOOLEAN : StreamEnd(cut) PROVE CallsHold'
  BY <1>6, StreamCalls
<1>7. ASSUME NEW p, NEW key, NEW data, AccessLive(p, key, data) \/ AccessBegin(p, key, data) \/ AccessEnd(p)
      PROVE  CallsHold'
  BY <1>7, AccessCalls
<1>8. ASSUME NEW t, NEW args, NEW raises, NEW status,
             ToolCall(t, args) \/ ToolReturn(t, raises) \/ Outcome(status)
      PROVE  CallsHold'
  BY <1>8, ToolCalls
<1>9. ASSUME NEW f, NEW c, DiskChanges(f, c) PROVE CallsHold'
  <2>1. UNCHANGED <<runs, sess, handle, sent, world>>
    BY <1>9 DEF DiskChanges, logVars, openVars, callVars
  <2> QED
    BY <2>1 DEF CallsHold, StreamFresh, DroppedIsDropped, Open
<1>10. CASE \/ \E mode \in Modes, match \in MatchConfigs : OpenSession(mode, match)
            \/ \E source \in DOMAIN runs, drop \in Drops, from \in 0 .. MaxOps,
                  match \in MatchConfigs : OpenFork(source, drop, from, match)
            \/ \E status \in {"ok", "error"} : CloseSession(status)
            \/ Crash
  BY <1>1, <1>2, <1>3, <1>4, <1>10
<1>11. CASE \/ \E op \in Asks, raises \in Raises \cup {FALSE} : Ask(op, raises)
            \/ StreamNext
            \/ \E cut \in BOOLEAN : StreamEnd(cut)
  BY <1>5, <1>6, <1>11
<1>12. CASE \/ \E p \in Threads : \E op \in AccessesOf(p) :
                  AccessLive(p, op[2], op[3]) \/ AccessBegin(p, op[2], op[3])
            \/ \E p \in Threads : AccessEnd(p)
  BY <1>7, <1>12
<1>13. CASE \/ \E op \in {o \in Ops : o[1] = "tool"} : ToolCall(op[2], op[3])
            \/ \E t \in ToolIds, raises \in Raises \cup {FALSE} : ToolReturn(t, raises)
            \/ \E op \in {o \in Ops : o[1] = "outcome"} : Outcome(op[2])
  BY <1>8, <1>13
<1>14. CASE \E f \in Paths, c \in Contents : DiskChanges(f, c)
  BY <1>9, <1>14
<1> QED
  BY <1>10, <1>11, <1>12, <1>13, <1>14 DEF Next

\* The calls stay apart, always.
LEMMA CallsAlways == Spec => []CallsHold
<1>1. Init => CallsHold
  BY DEF Init, CallsHold, StreamFresh, DroppedIsDropped, Open
<1>2. SessionHolds /\ CallsHold /\ [Next]_vars => CallsHold'
  <2>1. ASSUME CallsHold, UNCHANGED vars PROVE CallsHold'
    BY <2>1 DEF vars, logVars, openVars, callVars, worldVars, CallsHold, StreamFresh, DroppedIsDropped, Open
  <2> QED
    BY <2>1, CallStep
<1> QED
  BY <1>1, <1>2, SessionAlways, PTL DEF Spec

\* However a stream ends and whichever sessions write to a run, no call is in its
\* log twice, and from the turn a fork intervenes at no live model sees a block that
\* it drops.
LEMMA CallsApart == Spec => [](CallsLoggedOnce /\ DroppedIsDropped)
<1>1. CallsHold => CallsLoggedOnce /\ DroppedIsDropped
  BY DEF CallsHold, Numbered, CallsLoggedOnce
<1> QED
  BY <1>1, CallsAlways, PTL

-----------------------------------------------------------------------------
(***************************************************************************)
(* What is served from cursors.                                            *)
(***************************************************************************)

\* The place of a recorded access among those of its key.
Rank(events, i) ==
    Cardinality({j \in {k \in OfType(events, "access") : events[k].key = events[i].key} : j <= i})

\* One thread holds the lock, with the cursor it read; what was served lies before
\* the cursors, and nothing outlives a session.
LockHolds ==
    /\ \A p, q \in Threads : Idle(p) \/ Idle(q) \/ p = q
    /\ \A p \in Threads : Idle(p) \/ (reading[p].key \in Keys /\ reading[p].index = cursor[reading[p].key])
ServedHold ==
    /\ \A i \in DOMAIN served :
           loaded[served[i]].key \in Keys /\ Rank(loaded, served[i]) \in 1 .. cursor[loaded[served[i]].key]
    /\ EachValueOnce
ValuesHold ==
    /\ cursor \in [Keys -> Nat] /\ IsSeq(served) /\ reading = [p \in Threads |-> reading[p]]
    /\ LockHolds /\ ServedHold
    /\ ~Open => served = <<>> /\ \A p \in Threads : Idle(p)

\* A step of something else.
LEMMA OthersValues ==
    ASSUME ValuesHold, UNCHANGED accessVars, \/ UNCHANGED <<sess, loaded>>
                                             \/ ~Open
    PROVE  ValuesHold'
<1>1. CASE UNCHANGED <<sess, loaded>>
  BY <1>1 DEF ValuesHold, accessVars, LockHolds, ServedHold, EachValueOnce, Idle, Open
<1>2. CASE ~Open
  <2>1. DOMAIN served = {} /\ served' = <<>> /\ cursor' = cursor /\ reading' = reading
    BY <1>2 DEF ValuesHold, accessVars
  <2>2. ServedHold'
    BY <2>1 DEF ServedHold, EachValueOnce
  <2>3. LockHolds' /\ \A p \in Threads : Idle(p)'
    BY <1>2, <2>1 DEF ValuesHold, LockHolds, Idle
  <2> QED
    BY <2>1, <2>2, <2>3 DEF ValuesHold
<1> QED
  BY <1>1, <1>2

\* A session that is gone has served nothing.
LEMMA EndValues ==
    ASSUME ValuesHold, End
    PROVE  ValuesHold'
<1>1. cursor' = [k \in Keys |-> 0] /\ served' = <<>> /\ reading' = [p \in Threads |-> None]
  BY DEF End
<1>2. IsSeq(served') /\ \A p \in Threads : Idle(p)'
  BY <1>1, ShortSeqs DEF Idle
<1>3. LockHolds' /\ ServedHold'
  BY <1>1, <1>2 DEF LockHolds, ServedHold, EachValueOnce
<1> QED
  BY <1>1, <1>2, <1>3 DEF ValuesHold

\* The lock is free when a cursor is read.
LEMMA BeginValues ==
    ASSUME ValuesHold, NEW p \in Threads, NEW key \in Keys, NEW data, AccessBegin(p, key, data)
    PROVE  ValuesHold'
<1>1. /\ Open /\ UNCHANGED <<sess, loaded, cursor, served>> /\ \A q \in Threads : reading[q] = None
      /\ reading' = [reading EXCEPT ![p] = [key |-> key, data |-> data, index |-> cursor[key]]]
  BY DEF AccessBegin, MayAccess, ReplayLockFree, Idle, openVars
<1>2. /\ reading' = [q \in Threads |-> reading'[q]] /\ \A q \in Threads : q # p => reading'[q] = None
      /\ reading'[p] = [key |-> key, data |-> data, index |-> cursor[key]]
  BY <1>1 DEF ValuesHold
<1>3. LockHolds'
  BY <1>1, <1>2 DEF LockHolds, Idle
<1>4. ServedHold'
  BY <1>1 DEF ValuesHold, ServedHold, EachValueOnce
<1> QED
  BY <1>1, <1>2, <1>3, <1>4 DEF ValuesHold, Open

\* The value after the cursor has not been served; while one thread serves it, no
\* other reads the cursor.
LEMMA EndAccessValues ==
    ASSUME ValuesHold, NEW p \in Threads, AccessEnd(p)
    PROVE  ValuesHold'
<1> DEFINE a == reading[p]
<1>1. /\ Open /\ ~Idle(p) /\ UNCHANGED <<sess, loaded>>
      /\ reading' = [reading EXCEPT ![p] = None]
  BY DEF AccessEnd, openVars
<1>2. /\ a.key \in Keys /\ a.index = cursor[a.key] /\ cursor[a.key] \in Nat
      /\ \A q \in Threads : q # p => Idle(q)
  BY <1>1 DEF ValuesHold, LockHolds
<1>3. reading' = [q \in Threads |-> reading'[q]] /\ \A q \in Threads : Idle(q)'
  BY <1>1, <1>2 DEF ValuesHold, Idle
<1>4. LockHolds'
  BY <1>3 DEF LockHolds
<1>5. CASE UNCHANGED <<cursor, served>>
  <2>1. ServedHold'
    BY <1>1, <1>5 DEF ValuesHold, ServedHold, EachValueOnce
  <2> QED
    BY <1>1, <1>3, <1>4, <1>5, <2>1 DEF ValuesHold, Open
<1>6. ASSUME NEW at \in Nth(a.key, a.index + 1),
             cursor' = [cursor EXCEPT ![a.key] = a.index + 1], served' = Append(served, at)
      PROVE  ValuesHold'
  <2>1. loaded[at].key = a.key /\ Rank(loaded, at) = cursor[a.key] + 1
    BY <1>2, <1>6 DEF Nth, Entries, Rank
  <2>2. /\ cursor' \in [Keys -> Nat] /\ cursor'[a.key] = cursor[a.key] + 1
        /\ \A k \in Keys : cursor[k] \in Nat /\ cursor'[k] \in Nat /\ cursor[k] <= cursor'[k]
    BY <1>2, <1>6 DEF ValuesHold
  <2>3. loaded' = loaded
    BY <1>1
  <2>4. \A i \in DOMAIN served : served[i] # at
    BY <1>2, <2>1 DEF ValuesHold, ServedHold
  <2> DEFINE last == Len(served) + 1
  <2>5. /\ IsSeq(served') /\ DOMAIN served' = DOMAIN served \cup {last} /\ last \notin DOMAIN served
        /\ served'[last] = at /\ \A i \in DOMAIN served : served'[i] = served[i]
    <3>1. PICK A : served \in Seq(A)
      BY DEF ValuesHold, IsSeq
    <3>2. served \in Seq(A \cup {at})
      BY <3>1
    <3>3. /\ Append(served, at) \in Seq(A \cup {at}) /\ Len(served) \in Nat
          /\ DOMAIN served = 1 .. Len(served) /\ DOMAIN Append(served, at) = 1 .. Len(served) + 1
          /\ Append(served, at)[Len(served) + 1] = at
          /\ \A i \in 1 .. Len(served) : Append(served, at)[i] = served[i]
      BY <3>2
    <3> QED
      BY <1>6, <3>3 DEF IsSeq
  <2> HIDE DEF last
  <2>6. EachValueOnce'
    BY <2>4, <2>5 DEF ValuesHold, ServedHold, EachValueOnce
  <2>7. ASSUME NEW i \in DOMAIN served'
        PROVE  loaded'[served'[i]].key \in Keys /\ Rank(loaded', served'[i]) \in 1 .. cursor'[loaded'[served'[i]].key]
    <3>1. CASE i = last
      BY <1>1, <1>2, <2>1, <2>2, <2>3, <2>5, <3>1
    <3>2. CASE i \in DOMAIN served
      <4> DEFINE k == loaded[served[i]].key
      <4>1. k \in Keys /\ Rank(loaded, served[i]) \in 1 .. cursor[k]
        BY <3>2 DEF ValuesHold, ServedHold
      <4>2. cursor[k] \in Nat /\ cursor'[k] \in Nat /\ cursor[k] <= cursor'[k]
        BY <2>2, <4>1
      <4>3. Rank(loaded, served[i]) \in 1 .. cursor'[k]
        BY <4>1, <4>2
      <4> QED
        BY <1>1, <2>3, <2>5, <3>2, <4>1, <4>3
    <3> QED
      BY <2>5, <3>1, <3>2
  <2>8. ServedHold'
    BY <2>6, <2>7 DEF ServedHold
  <2> QED
    BY <1>1, <1>3, <1>4, <2>2, <2>5, <2>8 DEF ValuesHold, Open
<1> QED
  BY <1>5, <1>6 DEF AccessEnd

\* Every step of the program leaves each value to one access.
LEMMA ValueStep ==
    ASSUME ValuesHold, Next
    PROVE  ValuesHold'
<1>1. ASSUME NEW mode, NEW match, OpenSession(mode, match) PROVE ValuesHold'
  BY <1>1, OthersValues DEF OpenSession, Start
<1>2. ASSUME NEW source, NEW drop, NEW from, NEW match, OpenFork(source, drop, from, match) PROVE ValuesHold'
  BY <1>2, OthersValues DEF OpenFork, Start
<1>3. ASSUME NEW status, CloseSession(status) \/ Crash PROVE ValuesHold'
  BY <1>3, EndValues DEF CloseSession, Crash
<1>4. ASSUME NEW op, NEW raises, Ask(op, raises) PROVE ValuesHold'
  BY <1>4, OthersValues DEF Ask, openVars
<1>5. ASSUME NEW cut, StreamNext \/ StreamEnd(cut) PROVE ValuesHold'
  BY <1>5, OthersValues DEF StreamNext, StreamEnd, openVars
<1>6. ASSUME NEW p, NEW key, NEW data, AccessLive(p, key, data) PROVE ValuesHold'
  BY <1>6, OthersValues DEF AccessLive, openVars
<1>7. ASSUME NEW p \in Threads, NEW op \in AccessesOf(p), AccessBegin(p, op[2], op[3]) PROVE ValuesHold'
  <2>1. op[2] \in Keys
    BY DEF AccessesOf, Keys
  <2> QED
    BY <1>7, <2>1, BeginValues
<1>8. ASSUME NEW p \in Threads, AccessEnd(p) PROVE ValuesHold'
  BY <1>8, EndAccessValues
<1>9. ASSUME NEW t, NEW args, NEW raises, NEW status, ToolCall(t, args) \/ ToolReturn(t, raises) \/ Outcome(status)
      PROVE  ValuesHold'
  BY <1>9, OthersValues DEF ToolCall, ToolReturn, Outcome, openVars
<1>10. ASSUME NEW f, NEW c, DiskChanges(f, c) PROVE ValuesHold'
  BY <1>10, OthersValues DEF DiskChanges, openVars
<1>11. CASE \/ \E mode \in Modes, match \in MatchConfigs : OpenSession(mode, match)
            \/ \E source \in DOMAIN runs, drop \in Drops, from \in 0 .. MaxOps,
                  match \in MatchConfigs : OpenFork(source, drop, from, match)
            \/ \E status \in {"ok", "error"} : CloseSession(status)
            \/ Crash
  BY <1>1, <1>2, <1>3, <1>11
<1>12. CASE \/ \E op \in Asks, raises \in Raises \cup {FALSE} : Ask(op, raises)
            \/ StreamNext
            \/ \E cut \in BOOLEAN : StreamEnd(cut)
  BY <1>4, <1>5, <1>12
<1>13. CASE \/ \E p \in Threads : \E op \in AccessesOf(p) :
                  AccessLive(p, op[2], op[3]) \/ AccessBegin(p, op[2], op[3])
            \/ \E p \in Threads : AccessEnd(p)
  BY <1>6, <1>7, <1>8, <1>13
<1>14. CASE \/ \E op \in {o \in Ops : o[1] = "tool"} : ToolCall(op[2], op[3])
            \/ \E t \in ToolIds, raises \in Raises \cup {FALSE} : ToolReturn(t, raises)
            \/ \E op \in {o \in Ops : o[1] = "outcome"} : Outcome(op[2])
            \/ \E f \in Paths, c \in Contents : DiskChanges(f, c)
  BY <1>9, <1>10, <1>14
<1> QED
  BY <1>11, <1>12, <1>13, <1>14 DEF Next

\* Each value goes to one access, always.
LEMMA ValuesAlways == Spec => []ValuesHold
<1>1. Init => ValuesHold
  <2> SUFFICES ASSUME Init PROVE ValuesHold
    OBVIOUS
  <2>1. IsSeq(served) /\ \A p \in Threads : Idle(p)
    BY ShortSeqs DEF Init, Idle
  <2> QED
    BY <2>1 DEF Init, ValuesHold, LockHolds, ServedHold, EachValueOnce, Open
<1>2. ValuesHold /\ [Next]_vars => ValuesHold'
  <2>1. ASSUME ValuesHold, UNCHANGED vars PROVE ValuesHold'
    BY <2>1, OthersValues DEF vars, openVars
  <2> QED
    BY <2>1, ValueStep
<1> QED
  BY <1>1, <1>2, PTL DEF Spec

\* tracewake/session.py _pop_env and _replay_fs under _replay_lock: however the
\* threads of the tools interleave, a recorded value is handed out at most once.
THEOREM ValuesServedOnce == Spec => []EachValueOnce
<1>1. ValuesHold => EachValueOnce
  BY DEF ValuesHold, ServedHold
<1> QED
  BY <1>1, ValuesAlways, PTL
=============================================================================
