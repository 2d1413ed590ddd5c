---------------------------- MODULE GrantLedger ----------------------------
(***************************************************************************)
(* What approving on a channel promises: a request is asked for by one     *)
(* scope (sender, channel, chat); once approved it lets one turn run       *)
(* without asking, a turn of the scope that asked, and then it is spent.   *)
(***************************************************************************)
CONSTANTS Request, Scope, NoScope

VARIABLES phase, asker, user

ledger == <<phase, asker, user>>

Init ==
  /\ phase = [r \in Request |-> "none"]
  /\ asker = [r \in Request |-> NoScope]
  /\ user = [r \in Request |-> NoScope]

Ask(r, s) ==
  /\ phase[r] = "none"
  /\ phase' = [phase EXCEPT ![r] = "asked"]
  /\ asker' = [asker EXCEPT ![r] = s]
  /\ UNCHANGED user

Approve(r) ==
  /\ phase[r] = "asked"
  /\ phase' = [phase EXCEPT ![r] = "approved"]
  /\ UNCHANGED <<asker, user>>

Use(r) ==
  /\ phase[r] = "approved"
  /\ phase' = [phase EXCEPT ![r] = "used"]
  /\ user' = [user EXCEPT ![r] = asker[r]]
  /\ UNCHANGED asker

\* Denied, expired, withdrawn, or settled without a turn.
Close(R) ==
  /\ \A r \in R : phase[r] = "asked"
  /\ phase' = [r \in Request |-> IF r \in R THEN "closed" ELSE phase[r]]
  /\ UNCHANGED <<asker, user>>

Next ==
  \/ \E r \in Request : (\E s \in Scope : Ask(r, s)) \/ Approve(r) \/ Use(r)
  \/ \E R \in SUBSET Request : Close(R)

Spec == Init /\ [][Next]_ledger

=============================================================================
