----------------------------- MODULE MCServices -----------------------------
(***************************************************************************)
(* One instance for approvals, background processes, the gateway and the   *)
(* accounts of providers.  The parts share no state: a behaviour is a      *)
(* behaviour of one of them while the others stay as they begin, so that   *)
(* the states add up and do not multiply.                                  *)
(***************************************************************************)
EXTENDS Approvals, ProcessTool, GatewayPairing, PairingLockout, WebhookIngress,
        AuthProfiles, TLC

\* Approvals: two chats, one of them barred from managing approvals.
CONSTANTS m1, m3, ch1, ch2, ch3, chat1, chat2, shell, all_tools
ChatOf == [t \in Task |-> IF t \in {m3, ch3} THEN chat2 ELSE chat1]

CONSTANTS call1, call2

\* The gateway: a dashboard beside a pairing, two attempts of two clients,
\* and three webhook calls, two of one client with one key.
CONSTANTS pair1, dash1, phone, laptop, try1, try2
CONSTANTS hook1, hook2, hook3, key1, key2
Callers == [q \in Webhook |-> IF q = hook2 THEN laptop ELSE phone]
Keys == [q \in Webhook |-> IF q = hook2 THEN key2 ELSE key1]

\* Accounts: two turns of the daemon beside a command, and two profiles.
CONSTANTS turn1, turn2, login1, service, cli, work, spare
Homes == [c \in AuthCall |-> IF c \in TurnCall THEN service ELSE cli]

\* Calls of the process tool, and the calls of one client with one key, differ
\* only by name.
AnyCall == Permutations(Call) \cup Permutations({hook1, hook3})

VARIABLE part

gatewayVars == <<pairingVars, lockoutVars, webhookVars>>

servicesVars == <<approvalVars, processVars, gatewayVars, authVars, part>>

ServicesInit ==
  /\ ApprovalsInit /\ ProcessInit /\ PairingInit /\ LockoutInit /\ WebhookInit /\ AuthInit
  /\ part \in {"approvals", "process", "pairing", "lockout", "webhook", "accounts"}

ServicesNext ==
  /\ \/ part = "approvals" /\ ApprovalsNext /\ UNCHANGED <<processVars, gatewayVars, authVars>>
     \/ part = "process" /\ ProcessNext /\ UNCHANGED <<approvalVars, gatewayVars, authVars>>
     \/ /\ part = "pairing" /\ PairingNext
        /\ UNCHANGED <<approvalVars, processVars, lockoutVars, webhookVars, authVars>>
     \/ /\ part = "lockout" /\ LockoutNext
        /\ UNCHANGED <<approvalVars, processVars, pairingVars, webhookVars, authVars>>
     \/ /\ part = "webhook" /\ WebhookNext
        /\ UNCHANGED <<approvalVars, processVars, pairingVars, lockoutVars, authVars>>
     \/ part = "accounts" /\ AuthNext /\ UNCHANGED <<approvalVars, processVars, gatewayVars>>
  /\ UNCHANGED part

ServicesSpec == ServicesInit /\ [][ServicesNext]_servicesVars
=============================================================================
