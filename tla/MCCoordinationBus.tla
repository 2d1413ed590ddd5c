------------------------- MODULE MCCoordinationBus -------------------------
(***************************************************************************)
(* A small instance of the coordination bus for TLC.  Clients that patch,  *)
(* with no agent registered, exercise the indexes of the context with a    *)
(* limit below the number of keys; clients that send messages exercise     *)
(* inboxes, dead letters and the idempotency window; and on a bus of their *)
(* own three delegations share a context with room for two.  A behaviour   *)
(* is a behaviour of one of the three.                                     *)
(***************************************************************************)
EXTENDS CoordinationClients, DelegateTrace, TLC

CONSTANTS a, b, c1, c2, c3, c4, c5, k1, d1, d2, d3, d4, d5, m1, m2, m3

\* d1 to d5 are "delegate/<correlation>/..." keys.
DelegateCorr ==
  [k \in Key |-> CASE k = d1 -> c1 [] k = d2 -> c2 [] k = d3 -> c3
                  [] k = d4 -> c4 [] k = d5 -> c5 [] OTHER -> NoCorr]

Content(corr, to, key) == [corr |-> corr, to |-> to, key |-> key]

\* A plain key under two correlations and under none, and two delegate keys;
\* a delegate key under the wrong correlation is refused.
Patches ==
  {Content(c1, a, k1), Content(c2, a, k1), Content(NoCorr, a, k1),
   Content(c1, a, d1), Content(c2, a, d2), Content(c2, a, d1)}

Traffic ==
  {Content(c1, a, NoKey), Content(c2, a, NoKey),
   Content(NoCorr, b, NoKey), Content(c1, All, NoKey)}

OneWorker == [d \in Delegation |-> a]

Ids == ClientId \cup (Delegation \X Topic)

Contents == Patches \cup Traffic

\* Message ids differ only by name.
AnyId == Permutations(ClientId)

VARIABLE part \* whose bus it is

BusInit ==
  \/ part \in {"patches", "messages"} /\ CInit
     /\ stage = [d \in Delegation |-> "new"] /\ written = <<>>
  \/ part = "delegations" /\ TraceInit
     /\ accepted = <<>> /\ writer = [k \in Key |-> NoWrite] /\ read = NothingRead

\* Calls and reads; no agent registers, and what is accepted is a patch.
PatchesNext ==
  /\ CNext
  /\ attempts' # attempts \/ read' # read
  /\ inboxes' = inboxes
  /\ nextSequence' # nextSequence => version' # version

\* Messages alone, and one call less.
MessagesNext ==
  /\ (attempts + 1 < MaxCalls /\ CNext) \/ Other
  /\ version' = version /\ read' = read
  /\ accepted' # accepted => nextSequence' # nextSequence

BusNext ==
  /\ UNCHANGED part
  /\ \/ part = "patches" /\ PatchesNext /\ UNCHANGED <<stage, written>>
     \/ part = "messages" /\ MessagesNext /\ UNCHANGED <<stage, written>>
     \/ part = "delegations" /\ TraceNext /\ UNCHANGED <<accepted, writer, read>>

BusSpec == BusInit /\ [][BusNext]_<<clientVars, stage, written, part>>
=============================================================================
