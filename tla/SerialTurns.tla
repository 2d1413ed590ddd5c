---------------------------- MODULE SerialTurns ----------------------------
(***************************************************************************)
(* What the channel runtime promises about the turns of one chat when      *)
(* interruption is on: a message is taken up at most once, and two         *)
(* interruptible messages of the same scope (channel, chat, sender) are    *)
(* never worked on at the same time.  Messages that are not interruptible  *)
(* run side by side.                                                       *)
(***************************************************************************)
CONSTANTS Message, Interruptible, Scope, ScopeOf

VARIABLE turn

\* A message whose turn would share the conversation with m's.
Rivals(m) ==
  {n \in Interruptible : m \in Interruptible /\ n # m /\ ScopeOf[n] = ScopeOf[m]}

Init == turn = [m \in Message |-> "waiting"]

Begin(m) ==
  /\ turn[m] = "waiting"
  /\ \A n \in Rivals(m) : turn[n] # "running"
  /\ turn' = [turn EXCEPT ![m] = "running"]

\* A turn overtaken before it began is dropped without running.
Skip(m) ==
  /\ turn[m] = "waiting"
  /\ turn' = [turn EXCEPT ![m] = "over"]

End(m) ==
  /\ turn[m] = "running"
  /\ turn' = [turn EXCEPT ![m] = "over"]

Next == \E m \in Message : Begin(m) \/ Skip(m) \/ End(m)

Spec == Init /\ [][Next]_turn

=============================================================================
