--------------------------- MODULE DelegateTrace ---------------------------
(***************************************************************************)
(* The trace that tools/delegate.rs leaves of its delegations on the bus.  *)
(* A delegation publishes its request and the phase "queued", has the      *)
(* agent work, and publishes the result and the final phase; each patch    *)
(* names the version it is to find, 0 and 1.  Delegations of concurrent    *)
(* turns share the bus, whose context keeps MaxContext of them; nothing    *)
(* drains its inboxes, which the status tool only peeks at.                *)
(*                                                                         *)
(* A delegation is its correlation id, a fresh UUID.  That a message was   *)
(* refused is only logged, so the outcome of publish is not looked at.     *)
(***************************************************************************)
EXTENDS CoordinationBus

CONSTANTS
  Delegation, \* the delegations that get past the checks of execute
  Lead,       \* coordination_lead_agent
  WorkerOf    \* the agent that a delegation is for

\* A delegation publishes one message of each topic.
Topic == {"request", "queued", "result", "completed"}

ASSUME TraceAssumption ==
  /\ Delegation \subseteq Corr /\ Delegation \X Topic \subseteq Id
  /\ WorkerOf \in [Delegation -> Agent] /\ IsFiniteSet({WorkerOf[d] : d \in Delegation})
  /\ \A d \in Delegation : Lead \in Agent /\ \E k \in Key : DelegateOf[k] = d

VARIABLES
  stage,  \* delegation -> how far execute is
  written \* auxiliary: the delegations whose patches were applied, in order

traceVars == <<vars, stage, written>>

Stage == {"new", "requested", "working", "dropped", "reported", "over"}

\* delegate/<correlation id>/state
StateKey(d) == CHOOSE k \in Key : DelegateOf[k] = d

TraceInit ==
  /\ InitWith({Lead} \cup {WorkerOf[d] : d \in Delegation})
  /\ stage = [d \in Delegation |-> "new"]
  /\ written = <<>>

Message(d, topic, to) ==
  [id |-> <<d, topic>>, corr |-> d, to |-> to, key |-> NoKey, expected |-> 0]

Patch(d, topic, expected) ==
  [id |-> <<d, topic>>, corr |-> d, to |-> Lead, key |-> StateKey(d), expected |-> expected]

Noted(d) ==
  written' = IF version'[StateKey(d)] > version[StateKey(d)] THEN Append(written, d) ELSE written

Goes(d, from, to) == stage[d] = from /\ stage' = [stage EXCEPT ![d] = to]

Request(d) ==
  /\ Goes(d, "new", "requested")
  /\ Publish(Message(d, "request", WorkerOf[d]))
  /\ UNCHANGED written

Queued(d) ==
  /\ Goes(d, "requested", "working")
  /\ Publish(Patch(d, "queued", 0)) /\ Noted(d)

\* The one await: the turn may be interrupted while the agent works.
Drop(d) ==
  /\ Goes(d, "working", "dropped")
  /\ UNCHANGED <<vars, written>>

Result(d) ==
  /\ Goes(d, "working", "reported")
  /\ Publish(Message(d, "result", Lead))
  /\ UNCHANGED written

\* Fault: the last patch names the version that the first one found.
CompletedAfresh(d) ==
  /\ Goes(d, "reported", "over")
  /\ Publish(Patch(d, "completed", 0)) /\ Noted(d)

Completed(d) ==
  /\ Goes(d, "reported", "over")
  /\ Publish(Patch(d, "completed", 1)) /\ Noted(d)

TraceNext == \E d \in Delegation :
  Request(d) \/ Queued(d) \/ Drop(d) \/ Result(d) \/ Completed(d)

TraceSpec == TraceInit /\ [][TraceNext]_traceVars

-----------------------------------------------------------------------------
\* The patches applied since the last one of d.
WrittenSince(d) ==
  LET mine == {i \in DOMAIN written : written[i] = d}
  IN {written[i] : i \in {i \in DOMAIN written : \A j \in mine : j < i}}

\* Whether d is among the MaxContext delegations written last.
Recent(d) == Cardinality(WrittenSince(d)) < MaxContext

\* The context shows what became of a delegation: one it shows as queued is at
\* work, about to complete, or was dropped with its turn; one that is over is
\* shown as over, or not at all.  Those shown are the MaxContext that were
\* written last, so a delegation is missing only because as many others moved
\* on, and then it stays away: its last patch is refused.
\* (start_coordination_trace, finish_coordination_trace, apply_context_patch_locked)
DelegationsTraced ==
  \A d \in Delegation :
    LET shown == version[StateKey(d)] IN
    /\ shown \in 0..2
    /\ shown > 0 <=> d \in ToSet(written) /\ Recent(d)
    /\ shown = 1 => stage[d] \in {"working", "dropped", "reported"}
    /\ shown = 2 => stage[d] = "over"
    /\ stage[d] \notin {"new", "requested"} => d \in ToSet(written)
=============================================================================
