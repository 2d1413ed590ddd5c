------------------------------ MODULE MCTurns ------------------------------
(***************************************************************************)
(* One instance for the store of a conversation, the tool loop of a turn,  *)
(* and the runtime policy of tools.  They share no state: a behaviour is a *)
(* behaviour of one of them while the others stay as they begin, so that   *)
(* the states add up and do not multiply.                                  *)
(***************************************************************************)
EXTENDS MCLosslessContext, ToolLoop, RuntimePolicy

\* Replies of one and two calls, with ids and without, the same call again in a
\* later round, web lookups, and a hook that renames a call.
CONSTANTS run, look, fetch, args1, args2
Asked(t, a, hasId) == [tool |-> t, args |-> a, id |-> hasId]
Replies ==
  {<<Asked(run, args1, TRUE)>>,
   <<Asked(look, args1, TRUE), Asked(run, args1, FALSE)>>,
   <<Asked(fetch, args1, TRUE), Asked(fetch, args2, TRUE)>>}
HookNames == [t \in LoopTool |-> IF t = run THEN {run, look} ELSE {t}]

\* The policy: two messages, and a tool that is always prompted for to begin with.
CONSTANTS w1, w2, policyTool
FirstPolicy == [auto |-> {}, ask |-> {policyTool}]

VARIABLE part

turnsVars == <<vars, loopVars, policyVars, part>>

\* The loop may start in many settings, the others in one.
TurnsInit ==
  /\ Init /\ LoopInit /\ PolicyInit /\ part \in {"store", "loop", "policy"}
  /\ part # "loop" =>
       /\ setting = [where |-> "cli", granted |-> FALSE, native |-> FALSE, hiding |-> FALSE]
       /\ gated = {}

\* A turn that is over stays so.
TurnsNext ==
  \/ part = "store" /\ Next /\ UNCHANGED <<loopVars, policyVars, part>>
  \/ part = "loop" /\ LoopNext /\ UNCHANGED <<vars, policyVars, part>>
  \/ part = "loop" /\ place = "recorded" /\ UNCHANGED turnsVars
  \/ part = "policy" /\ PolicyNext /\ UNCHANGED <<vars, loopVars, part>>

TurnsSpec == TurnsInit /\ [][TurnsNext]_turnsVars
=============================================================================
