-------------------------- MODULE MCReplaySession --------------------------
(***************************************************************************)
(* The instances of ReplaySession that TLC checks.                         *)
(***************************************************************************)
EXTENDS ReplaySession

CONSTANTS b1, b2, b3, c1, c2, hidden, home, t1, t2

Clock == <<"access", <<"env", "clock">>, None>>
Variable == <<"access", <<"env", "var">>, None>>
ReadFile == <<"access", <<"content", "f">>, None>>
WriteFile(c) == <<"access", <<"write", "f">>, c>>

Model == [id |-> "m", tools |-> "tools"]

\* Calls, streams, tools and forks; b3 is b1 with a credential in it.
CallOps == {<<"create", Model, {b1}>>, <<"stream", Model, {b3, b2}>>, <<"tool", t1, c1>>}
\* Inputs read by the agent and by two tools at once.
InputOps == {<<"create", Model, {b1}>>, <<"create", Model, {b3}>>,
             <<"tool", t1, c1>>, <<"tool", t2, c1>>, Clock, WriteFile(c2), <<"outcome", "ok">>}
InputToolOps == {Clock, Variable, ReadFile}

\* The texts with a credential, the second live value among them, and the third,
\* which holds the home directory.
MCRedacted == [v \in {b3, c2, 2, 3} |-> IF v = b3 THEN b1 ELSE IF v = 3 THEN home ELSE hidden]
MCRestored == [v \in {home} |-> 3]
MCDropped == {<<"content", "f">>}

\* The two tools do the same.
MCSymmetry == Permutations({t1, t2})

Proving == {"model", "messages_hash"}
ProvingOnly == {Proving}
\* The request, with everything else that can be asked of a call.
MoreProving == {{"messages_hash", "system_prompt", "tool_names", "ordinal"}}
MCDrops == {{b2}}
=============================================================================
