------------------------------- MODULE Capture -------------------------------
(***************************************************************************)
(* What stands between the program and the log: the redaction of           *)
(* everything stored (tracewake/redaction.py) with the check that a stream *)
(* reassembles (events.py), and the patches that intercept the standard    *)
(* library (patches.py).                                                   *)
(*                                                                         *)
(* A text is a sequence of characters.                                     *)
(***************************************************************************)
EXTENDS Integers, Sequences, FiniteSets, SequencesExt

CONSTANTS
    Placeholder,    \* REDACTED, a text
    HomePlaceholder, \* HOME_PLACEHOLDER, a text
    MinSecret       \* MIN_SECRET_LENGTH

-----------------------------------------------------------------------------
\* redaction.py

StartsAt(text, part, k) == k + Len(part) - 1 <= Len(text) /\ SubSeq(text, k, k + Len(part) - 1) = part
Within(text, part) == \E k \in DOMAIN text : StartsAt(text, part, k)

\* str.replace: from the left, without looking again at what was put in.
Replace(text, part, with) ==
    LET step(acc, k) ==
            IF k < acc.next THEN acc
            ELSE IF StartsAt(text, part, k)
                 THEN [next |-> k + Len(part), out |-> acc.out \o with]
                 ELSE [next |-> k + 1, out |-> Append(acc.out, text[k])]
    IN FoldLeft(step, [next |-> 1, out |-> <<>>], [k \in DOMAIN text |-> k]).out

CollectShortest(secrets) ==
    SetToSortSeq({s \in secrets : Len(s) >= MinSecret}, LAMBDA a, b : Len(a) < Len(b))

\* _collect_values: what is long enough to be a secret, the longest first.
CollectValues(secrets) ==
    SetToSortSeq({s \in secrets : Len(s) >= MinSecret}, LAMBDA a, b : Len(a) > Len(b))

\* Redactor.text: the secrets, then the home directory.
RedactText(r, text) ==
    IF ~r.enabled THEN text
    ELSE LET scrubbed == FoldLeft(LAMBDA t, s : Replace(t, s, Placeholder), text, CollectValues(r.secrets))
         IN IF r.home = <<>> THEN scrubbed ELSE Replace(scrubbed, r.home, HomePlaceholder)

RestorePath(r, text) ==
    IF ~r.enabled \/ r.home = <<>> THEN text ELSE Replace(text, HomePlaceholder, r.home)

\* A streamed answer: its chunks, and the text the provider assembled.
Assembled(chunks) == FlattenSeq(chunks)

\* ModelCallEvent._stream_reassembles
StreamReassembles(call) == call.chunks = <<>> \/ Assembled(call.chunks) = call.text

\* Redactor.event walks every text on its own and validates the result again;
\* an event that does not validate is not stored and the append raises.
RedactEvent(r, call) ==
    LET walked == [text |-> RedactText(r, call.text),
                   chunks |-> [k \in DOMAIN call.chunks |-> RedactText(r, call.chunks[k])]]
    IN IF StreamReassembles(walked) THEN {walked} ELSE {}

-----------------------------------------------------------------------------
\* patches.py: the attributes a session replaces, in order, as pairs of a name
\* and how.  "set" remembers what it replaced, "shadow" is taken off the instance
\* again.  `live` maps every attribute to the session whose function is there,
\* 0 for the original.

\* Fault: a failing installation keeps what it had installed.
UnwoundUnlessFailed(live, undo, failed) ==
    IF failed THEN live ELSE FoldRight(LAMBDA u, l : [l EXCEPT ![u[1]] = u[2]], undo, live)

\* uninstall, newest first; it runs as well when install failed half way.
Unwound(live, undo, failed) == FoldRight(LAMBDA u, l : [l EXCEPT ![u[1]] = u[2]], undo, live)

\* install, up to an attribute that may fail.
Install(live, attrs, session, upto) ==
    LET targets == SubSeq(attrs, 1, upto)
    IN [live |-> [a \in DOMAIN live |->
                    IF \E t \in Range(targets) : t[1] = a THEN session ELSE live[a]],
        undo |-> [k \in DOMAIN targets |->
                    <<targets[k][1], IF targets[k][2] = "set" THEN live[targets[k][1]] ELSE 0>>]]

\* Sessions open and close as `with` blocks nest, and an open may fail after
\* any number of attributes (patch_environment).
PatchStep(attrs, state, op) ==
    LET made == Install(state.live, attrs, Len(state.open) + 1, op.upto)
    IN CASE op.kind = "open" /\ op.upto = Len(attrs) ->
                [live |-> made.live, open |-> Append(state.open, made.undo)]
         [] op.kind = "open" /\ op.upto < Len(attrs) ->
                [state EXCEPT !.live = Unwound(made.live, made.undo, TRUE)]
         [] op.kind = "close" /\ state.open # <<>> ->
                [live |-> Unwound(state.live, Last(state.open), FALSE), open |-> Front(state.open)]
         [] OTHER -> state

PatchRun(attrs, ops) ==
    FoldLeft(LAMBDA state, op : PatchStep(attrs, state, op),
             [live |-> [a \in {t[1] : t \in Range(attrs)} |-> 0], open |-> <<>>], ops)

-----------------------------------------------------------------------------
\* Which reads are recorded.  A chain is the calls from the program down to the
\* generator: a frame is the code it runs in, and whether it is patched.

\* _caller_is_instrumented: the nearest frame that does not merely forward.  A
\* patched frame above is Tracewake's own code, which is never recorded.
CallerIsInstrumented(chain, k) ==
    LET above == {l \in 1 .. k - 1 : chain[l].code # "forwarder" \/ chain[l].patched}
    IN above # {} /\ LET l == CHOOSE x \in above : \A y \in above : y <= x
                     IN chain[l].code = "agent"

\* _no_reentry: nothing is recorded while a value is being produced.
NoReentry(recorded) == recorded = {}

RecordedReads(chain) ==
    FoldLeft(LAMBDA recorded, k :
                 IF chain[k].patched /\ CallerIsInstrumented(chain, k) /\ NoReentry(recorded)
                 THEN recorded \cup {k} ELSE recorded,
             {}, [k \in DOMAIN chain |-> k])
=============================================================================
