---------------------------- MODULE MCBackground ----------------------------
(***************************************************************************)
(* One instance for sub-agents and provider failover, with the fairness of *)
(* each.  They share no state: a behaviour is a behaviour of one of them   *)
(* while the other stays as it begins, so that the states add up and do    *)
(* not multiply.                                                           *)
(***************************************************************************)
EXTENDS SubAgents, ProviderChain

\* Sub-agents: two race for one slot.
CONSTANTS s1, s2

\* Providers: two models on the first, then the second.
CONSTANTS p1, p2, r1, r2
TheChain == <<[provider |-> p1, names |-> 2], [provider |-> p2, names |-> 1]>>

VARIABLE part

BackgroundInit ==
  /\ SubAgentsInit /\ ProviderInit
  /\ part \in {"subagents", "providers"}

BackgroundNext ==
  \/ part = "subagents" /\ SubAgentsNext /\ UNCHANGED <<providerVars, part>>
  \/ part = "providers" /\ ProviderNext /\ UNCHANGED <<subAgentVars, part>>

\* Requests keep coming in the one part that has any.
BackgroundSpec ==
  /\ BackgroundInit /\ [][BackgroundNext]_<<subAgentVars, providerVars, part>>
  /\ SubAgentsFairness /\ ProviderFairness
  /\ \A c \in Caller : WF_providerVars(part = "providers" /\ Request(c))
=============================================================================
