-------------------------- MODULE ApprovalsProofs ---------------------------
(***************************************************************************)
(* Proofs about the approval manager, for every number of chats, tools,    *)
(* messages, commands and requests.                                        *)
(*                                                                         *)
(* Approvals: type correctness, that an answer counts once, in its own scope *)
(* and by an approver, that no two equal requests await an answer, and that *)
(* requests, grants and turns implement GrantLedger.  The invariant IInv adds *)
(* to these what ties a command to the request it has taken: between its two *)
(* critical sections the request is in no map and in no queue, and no other *)
(* command has it.                                                         *)
(*                                                                         *)
(* RuntimePolicy: what commands have saved is in the file, and in effect once *)
(* the file has been applied.  The first rests on a command being alone with *)
(* its tool until it has written; the second on memory following the file as *)
(* far as it was applied, tool by tool, with the replacements that a reload *)
(* has still to make told apart.                                           *)
(***************************************************************************)
EXTENDS Approvals, RuntimePolicy, TLAPS

-----------------------------------------------------------------------------
(* The inductive invariant.                                                *)

Confirming(c) == at[c] \in {"confirmed", "always"}

\* A command that confirmed a request has taken it, in its own scope and as an
\* approver.
TakenInv ==
  \A c \in Command : Confirming(c) =>
    /\ held[c] \in 1..issued /\ held[c] \notin pending
    /\ requester[held[c]] = ScopeOf[c] /\ ScopeOf[c] \in Approver

\* Only commands reach the locations of commands, and no task has a grant before
\* it enters the tool loop.
PlaceInv ==
  /\ \A t \in Task :
       at[t] \in {"confirmed", "always", "approving", "revoked", "resuming"} => t \in Command
  /\ \A t \in Task : at[t] \in {"approving", "revoked"} => held[t] \in Tool
  /\ \A t \in Task : at[t] \notin {"looping", "over"} => bypass[t] = None

\* Requests have a subject and a requester from the moment they are issued.
IssuedInv ==
  \A r \in Request :
    /\ r <= issued => subject[r] \in Subject /\ requester[r] \in Scope
    /\ r > issued => requester[r] = None

IInv ==
  /\ ApprovalsTypeOK /\ TakenInv /\ PlaceInv /\ IssuedInv
  /\ OneTurnPerApproval /\ BypassInScope /\ OnePendingPerScope

LEMMA Inits == ApprovalsInit => IInv
<1> SUFFICES ASSUME ApprovalsInit PROVE IInv
  OBVIOUS
<1> USE DEF ApprovalsInit
<1>1. ApprovalsTypeOK
  BY ApprovalsAssumption DEF ApprovalsTypeOK, Request
<1>2. TakenInv /\ PlaceInv
  BY DEF TakenInv, PlaceInv, Confirming, Task
<1>3. IssuedInv
  BY ApprovalsAssumption DEF IssuedInv, Request
<1>4. Owed = {} /\ Queued = {} /\ Used = {}
  BY ApprovalsAssumption DEF Owed, Queued, Used, Request, Task
<1>5. OneTurnPerApproval
  BY <1>4 DEF OneTurnPerApproval, Task
<1>6. BypassInScope
  BY <1>4 DEF BypassInScope
<1>7. OnePendingPerScope
  BY DEF OnePendingPerScope, Live
<1> QED BY <1>1, <1>2, <1>3, <1>5, <1>6, <1>7 DEF IInv

-----------------------------------------------------------------------------
(* Steps that issue nothing, confirm nothing and queue no grant.           *)

\* What such a step keeps.
Calm ==
  /\ UNCHANGED <<issued, subject, requester, resume, grants, bypass>>
  /\ pending' \subseteq pending /\ expired' \subseteq pending' /\ Live' \subseteq Live
  /\ approved' \subseteq Tool
  /\ at' \in [Task -> {"new", "confirmed", "always", "approving", "revoked",
                       "resuming", "looping", "over"}]
  /\ held' \in [Task -> (1..issued) \cup Tool \cup {None}]
  /\ \A c \in Command :
       /\ at'[c] \in {"confirmed", "always"} => at'[c] = at[c] /\ held'[c] = held[c]
       /\ at[c] = "always" \/ (at[c] = "confirmed" /\ subject[held[c]] = AllTools)
            => at'[c] = at[c] /\ held'[c] = held[c]
  /\ \A t \in Task :
       /\ at'[t] \in {"confirmed", "always", "approving", "revoked", "resuming"}
            => t \in Command
       /\ at'[t] \in {"approving", "revoked"} => held'[t] \in Tool
       /\ at'[t] \notin {"looping", "over"} => at[t] \notin {"looping", "over"}

LEMMA CalmStep == IInv /\ Calm => IInv'
<1> SUFFICES ASSUME IInv, Calm PROVE IInv'
  OBVIOUS
<1> USE DEF IInv, Calm
<1>1. ApprovalsTypeOK'
  BY DEF ApprovalsTypeOK
<1>2. TakenInv'
  BY DEF TakenInv, Confirming
<1>3. PlaceInv'
  BY DEF PlaceInv
<1>4. IssuedInv'
  BY DEF IssuedInv
<1>5. Owed' \subseteq Owed /\ Queued' = Queued /\ Used' = Used
  BY DEF Owed, Queued, Used
<1>6. OneTurnPerApproval'
  BY <1>5 DEF OneTurnPerApproval
<1>7. BypassInScope'
  BY <1>5 DEF BypassInScope
<1>8. OnePendingPerScope'
  BY DEF OnePendingPerScope
<1> QED BY <1>1, <1>2, <1>3, <1>4, <1>6, <1>7, <1>8

\* The calm steps of a turn, and the clock's and the configuration's.
LEMMA CalmTurn ==
  ASSUME IInv, NEW t \in Task, Begin(t) \/ EndEarly(t) \/ Finish(t)
  PROVE  Calm
<1> USE DEF IInv, Calm, ApprovalsTypeOK, PlaceInv, requests
<1>1. CASE Begin(t)
  BY <1>1 DEF Begin, Entering, Live, Task
<1>2. CASE EndEarly(t)
  BY <1>2 DEF EndEarly, Entering, Live, Task
<1>3. CASE Finish(t)
  BY <1>3 DEF Finish, Live, Task
<1> QED BY <1>1, <1>2, <1>3

LEMMA CalmWorld ==
  ASSUME IInv, ReloadPolicy \/ \E r \in Request : Expire(r)
  PROVE  Calm
<1> USE DEF IInv, Calm, ApprovalsTypeOK, PlaceInv, requests
<1>1. CASE ReloadPolicy
  BY <1>1 DEF ReloadPolicy, Live
<1>2. CASE \E r \in Request : Expire(r)
  BY <1>2 DEF Expire, Live
<1> QED BY <1>1, <1>2

\* The calm steps of a command.
CalmCommand(c) ==
  \/ Refused(c) \/ GrantTool(c) \/ ApproveDone(c) \/ UnapproveDone(c)
  \/ \E x \in Tool : Approve(c, x) \/ Unapprove(c, x)
  \/ \E r \in Request : ConfirmFails(c, r) \/ Dismiss(c, r)

LEMMA CommandIsCalm ==
  ASSUME IInv, NEW c \in Command, CalmCommand(c)
  PROVE  Calm
<1>1. c \in Task
  BY DEF Task
<1> USE <1>1 DEF IInv, Calm, ApprovalsTypeOK, PlaceInv, requests, Done, May
<1>2. CASE Refused(c)
  BY <1>2 DEF Refused, Live
<1>3. CASE GrantTool(c)
  <2>1. subject[held[c]] \in Tool
    <3>1. held[c] \in 1..issued
      BY <1>3 DEF GrantTool, TakenInv, Confirming
    <3>2. held[c] \in Request /\ held[c] <= issued
      BY <3>1, ApprovalsAssumption DEF Request
    <3>3. subject[held[c]] \in Subject
      BY <3>2 DEF IssuedInv
    <3> QED BY <1>3, <3>3 DEF GrantTool, Subject
  <2>2. PICK next \in {"resuming", "over"} : at' = [at EXCEPT ![c] = next]
    BY <1>3 DEF GrantTool, GoOn
  <2> QED BY <1>3, <2>1, <2>2 DEF GrantTool, Live
<1>4. CASE ApproveDone(c)
  BY <1>4 DEF ApproveDone, Live
<1>5. CASE UnapproveDone(c)
  BY <1>5 DEF UnapproveDone, Withdraw, Live
<1>6. ASSUME NEW x \in Tool, Approve(c, x) PROVE Calm
  BY <1>6 DEF Approve, Withdraw, Live
<1>7. ASSUME NEW x \in Tool, Unapprove(c, x) PROVE Calm
  BY <1>7 DEF Unapprove, Live
<1>8. ASSUME NEW r \in Request, ConfirmFails(c, r) PROVE Calm
  BY <1>8 DEF ConfirmFails, Prune, Live
<1>9. ASSUME NEW r \in Request, Dismiss(c, r) PROVE Calm
  BY <1>9 DEF Dismiss, Remove, Live
<1> QED BY <1>2, <1>3, <1>4, <1>5, <1>6, <1>7, <1>8, <1>9 DEF CalmCommand

-----------------------------------------------------------------------------
(* Requests are asked for.                                                 *)

\* Issuing a request ends the task's step, and its number is new everywhere.
Asking(t, x, b) ==
  /\ at[t] \in {"new", "looping"}
  /\ Create(x, ScopeOf[t], b)
  /\ at' = [at EXCEPT ![t] = "over"]
  /\ UNCHANGED <<grants, approved, held, bypass>>

\* A queue of some requests is a queue of more of them.
LEMMA LongerSeq ==
  ASSUME NEW S, NEW T, S \subseteq T, NEW s \in Seq(S)
  PROVE  s \in Seq(T)
<1>1. Len(s) \in Nat /\ s \in [1..Len(s) -> S]
  OBVIOUS
<1>2. s \in [1..Len(s) -> T]
  BY <1>1
<1> QED BY <1>1, <1>2

LEMMA AskingStep ==
  ASSUME IInv, NEW t \in Task, NEW x \in Subject, NEW b \in BOOLEAN, Asking(t, x, b)
  PROVE  IInv'
<1> USE DEF IInv, Asking
<1>1. CASE Same(x, ScopeOf[t]) # {}
  <2>1. pending' = Live /\ expired' = {} /\ UNCHANGED <<issued, subject, requester, resume>>
    BY <1>1 DEF Create
  <2>2. Calm
    BY <2>1 DEF Calm, ApprovalsTypeOK, PlaceInv, Live, Task
  <2> QED BY <2>2, CalmStep
<1>2. CASE Same(x, ScopeOf[t]) = {}
  <2> DEFINE n == issued + 1
  <2>1. /\ issued < MaxRequests /\ issued' = n /\ pending' = Live \cup {n} /\ expired' = {}
        /\ subject' = [subject EXCEPT ![n] = x]
        /\ requester' = [requester EXCEPT ![n] = ScopeOf[t]]
        /\ resume' = [resume EXCEPT ![n] = b]
    BY <1>2 DEF Create
  <2>2. n \in Request /\ n \notin 1..issued /\ 1..issued' = (1..issued) \cup {n} /\ 1..issued \subseteq Request
    BY <2>1, ApprovalsAssumption DEF ApprovalsTypeOK, Request
  <2> HIDE DEF n
  <2>3. \A q \in Request \ {n} : subject'[q] = subject[q] /\ requester'[q] = requester[q]
    BY <2>1 DEF ApprovalsTypeOK
  <2>4. requester'[n] = ScopeOf[t] /\ subject'[n] = x /\ ScopeOf[t] \in Scope
    BY <2>1, <2>2, ApprovalsAssumption DEF ApprovalsTypeOK
  <2>5. Live' = Live \cup {n} /\ Live \subseteq 1..issued /\ Live \subseteq pending
    BY <2>1 DEF Live, ApprovalsTypeOK
  <2>6. ApprovalsTypeOK'
    <3>1. pending' \subseteq 1..issued' /\ expired' \subseteq pending'
      BY <2>1, <2>2, <2>5
    <3>2. grants' \in Seq(1..issued')
      BY <2>2, LongerSeq DEF ApprovalsTypeOK
    <3>3. issued' \in 0..MaxRequests
      BY <2>1, ApprovalsAssumption DEF ApprovalsTypeOK, n
    <3>4. /\ subject' \in [Request -> Subject \cup {None}]
          /\ requester' \in [Request -> Scope \cup {None}]
          /\ resume' \in [Request -> BOOLEAN]
      BY <2>1, <2>4 DEF ApprovalsTypeOK
    <3>5. /\ held' \in [Task -> (1..issued') \cup Tool \cup {None}]
          /\ bypass' \in [Task -> (1..issued') \cup {None}]
      BY <2>2 DEF ApprovalsTypeOK
    <3> QED BY <3>1, <3>2, <3>3, <3>4, <3>5 DEF ApprovalsTypeOK
  <2>7. \A c \in Command :
          /\ at'[c] \in {"confirmed", "always"} => at'[c] = at[c]
          /\ at[c] \in {"confirmed", "always"} => at'[c] = at[c]
    BY DEF ApprovalsTypeOK, Task
  <2>8. TakenInv'
    <3> SUFFICES ASSUME NEW c \in Command, at[c] \in {"confirmed", "always"}
                 PROVE  /\ held[c] \in 1..issued' /\ held[c] \notin pending'
                        /\ requester'[held[c]] = ScopeOf[c] /\ ScopeOf[c] \in Approver
      BY <2>7 DEF TakenInv, Confirming
    <3>1. /\ held[c] \in 1..issued /\ held[c] \notin pending
          /\ requester[held[c]] = ScopeOf[c] /\ ScopeOf[c] \in Approver
      BY DEF TakenInv, Confirming
    <3> QED BY <2>1, <2>2, <2>3, <2>5, <3>1
  <2>9. PlaceInv'
    BY DEF PlaceInv, ApprovalsTypeOK
  <2>10. IssuedInv'
    BY <2>1, <2>2, <2>3, <2>4, ApprovalsAssumption DEF IssuedInv, Request, ApprovalsTypeOK, n
  <2>11. Queued' = Queued /\ Used' = Used /\ Queued \subseteq 1..issued
    BY DEF Queued, Used, ApprovalsTypeOK
  <2>12. Used \subseteq 1..issued
    BY <2>2, ApprovalsAssumption DEF Used, ApprovalsTypeOK
  <2>13. Owed \subseteq 1..issued /\ Owed' = Owed
    BY <2>2, <2>3, <2>7 DEF Owed, TakenInv, Confirming
  <2>14. OneTurnPerApproval'
    BY <2>1, <2>2, <2>5, <2>7, <2>11, <2>12, <2>13 DEF OneTurnPerApproval, Live
  <2>15. BypassInScope'
    <3>1. \A u \in Task : bypass[u] # None => bypass[u] \in Request \ {n}
      BY <2>2 DEF ApprovalsTypeOK
    <3> QED BY <2>2, <2>3, <2>11, <2>12, <2>13, <3>1 DEF BypassInScope
  <2>16. OnePendingPerScope'
    <3>1. \A q \in Live : q \in Request \ {n} /\ ~(subject[q] = x /\ requester[q] = ScopeOf[t])
      BY <1>2, <2>2, <2>5 DEF Same
    <3>2. \A q \in Live : subject'[q] = subject[q] /\ requester'[q] = requester[q]
      BY <2>3, <3>1
    <3>3. \A p, q \in Live : subject[p] = subject[q] /\ requester[p] = requester[q] => p = q
      BY DEF OnePendingPerScope
    <3>4. \A p, q \in Live' :
            subject'[p] = subject'[q] /\ requester'[p] = requester'[q] => p = q
      <4> SUFFICES ASSUME NEW p \in Live', NEW q \in Live',
                          subject'[p] = subject'[q], requester'[p] = requester'[q]
                   PROVE  p = q
        OBVIOUS
      <4>1. CASE p \in Live /\ q \in Live
        BY ONLY <3>2, <3>3, <4>1, subject'[p] = subject'[q], requester'[p] = requester'[q]
      <4>2. ASSUME NEW r \in Live, subject'[r] = subject'[n], requester'[r] = requester'[n]
            PROVE  FALSE
        BY ONLY <2>4, <3>1, <3>2, <4>2
      <4>3. p \in Live \cup {n} /\ q \in Live \cup {n}
        BY ONLY <2>5, p \in Live', q \in Live'
      <4> QED BY ONLY <4>1, <4>2, <4>3, subject'[p] = subject'[q], requester'[p] = requester'[q]
    <3> QED BY ONLY <3>4 DEF OnePendingPerScope
  <2> QED BY <2>6, <2>8, <2>9, <2>10, <2>14, <2>15, <2>16
<1> QED BY <1>1, <1>2

-----------------------------------------------------------------------------
(* A request is confirmed, its grant is queued, and a turn takes it.       *)

LEMMA ConfirmStep ==
  ASSUME IInv, NEW c \in Command, NEW r \in Request, NEW kind \in {"confirmed", "always"},
         Confirm(c, r, kind)
  PROVE  IInv'
<1> USE DEF IInv, Confirm, Answerable, Remove, May
<1>1. c \in Task /\ r \in pending /\ r \in 1..issued /\ r \notin Tool \cup {None}
  BY ApprovalsAssumption DEF Task, Live, ApprovalsTypeOK
<1>2. pending' \subseteq pending \ {r} /\ Live' \subseteq Live /\ expired' = {}
  BY DEF Live
<1>3. ApprovalsTypeOK'
  BY <1>1, <1>2 DEF ApprovalsTypeOK
<1>4. \A d \in Command \ {c} : at'[d] = at[d] /\ held'[d] = held[d]
  BY DEF ApprovalsTypeOK, Task
<1>5. at'[c] = kind /\ held'[c] = r
  BY <1>1 DEF ApprovalsTypeOK
<1>6. TakenInv'
  BY <1>1, <1>2, <1>4, <1>5 DEF TakenInv, Confirming
<1>7. PlaceInv'
  BY <1>1 DEF PlaceInv, ApprovalsTypeOK
<1>8. IssuedInv'
  BY DEF IssuedInv
<1>9. Queued' = Queued /\ Used' = Used /\ Owed' \subseteq Owed \cup {r}
  BY <1>4, <1>5 DEF Queued, Used, Owed
<1>10. r \notin Owed \cup Queued \cup Used
  BY <1>1 DEF OneTurnPerApproval
<1>11. \A d \in Command : at[d] \in {"confirmed", "always"} => held[d] # r
  BY <1>1 DEF TakenInv, Confirming
<1>12. OneTurnPerApproval'
  <2>1. pending' \cap (Owed \cup Queued \cup Used)' = {}
    BY <1>2, <1>9 DEF OneTurnPerApproval
  <2>2. (Owed \cap (Queued \cup Used))' = {} /\ (Queued \cap Used)' = {}
    BY <1>9, <1>10 DEF OneTurnPerApproval
  <2>3. \A d, e \in Command :
          held'[d] = held'[e] /\ {at'[d], at'[e]} \subseteq {"confirmed", "always"} => d = e
    BY <1>4, <1>5, <1>11 DEF OneTurnPerApproval
  <2> QED BY <2>1, <2>2, <2>3 DEF OneTurnPerApproval
<1>13. BypassInScope'
  BY <1>9 DEF BypassInScope
<1>14. OnePendingPerScope'
  BY <1>2 DEF OnePendingPerScope
<1> QED BY <1>3, <1>6, <1>7, <1>8, <1>12, <1>13, <1>14

LEMMA PushGrantStep ==
  ASSUME IInv, NEW c \in Command, PushGrant(c)
  PROVE  IInv'
<1> DEFINE r == held[c]
<1> USE DEF IInv, PushGrant, requests
<1>1. c \in Task /\ at[c] \in {"confirmed", "always"}
  BY DEF Task
<1>2. r \in 1..issued /\ r \in Request /\ r \notin pending
  BY <1>1, ApprovalsAssumption DEF TakenInv, Confirming, ApprovalsTypeOK, Request
<1>3. r \in Owed
  BY <1>1, <1>2 DEF Owed
<1>4. PICK next \in {"confirmed", "resuming", "over"} :
        /\ at' = [at EXCEPT ![c] = next]
        /\ next = "confirmed" => subject[r] # AllTools
  BY DEF GoOn
<1>5. grants' = Append(grants, r) /\ UNCHANGED <<requests, approved, held, bypass>>
  OBVIOUS
<1> HIDE DEF PushGrant
<1>6. /\ grants' \in Seq(1..issued) /\ Len(grants') = Len(grants) + 1
      /\ \A i \in 1..Len(grants) : grants'[i] = grants[i]
      /\ grants'[Len(grants) + 1] = r
      /\ Len(grants) \in Nat
  BY <1>2, <1>5 DEF ApprovalsTypeOK
<1>7. Queued' = Queued \cup {r}
  BY <1>6 DEF Queued
<1>8. \A d \in Command \ {c} : at'[d] = at[d]
  BY <1>4 DEF ApprovalsTypeOK, Task
<1>9. at'[c] = next
  BY <1>1, <1>4 DEF ApprovalsTypeOK
<1>10. Used' = Used /\ Owed' \subseteq Owed \ {r}
  <2>1. Used' = Used
    BY <1>5 DEF Used
  <2>2. \A d \in Command \ {c} : at[d] \in {"confirmed", "always"} => held[d] # r
    BY <1>1 DEF OneTurnPerApproval
  <2>3. ASSUME NEW q \in Owed' PROVE q \in Owed \ {r}
    <3>1. PICK d \in Command : held'[d] = q /\ (at'[d] = "always" \/ (at'[d] = "confirmed" /\ subject'[q] = AllTools))
      BY <2>3 DEF Owed
    <3>2. d # c
      BY <1>4, <1>5, <1>9, <3>1
    <3> QED BY <1>5, <1>8, <2>2, <2>3, <3>1, <3>2 DEF Owed
  <2> QED BY <2>1, <2>3
<1>11. ApprovalsTypeOK'
  BY <1>4, <1>5, <1>6 DEF ApprovalsTypeOK
<1>12. TakenInv'
  BY <1>1, <1>5, <1>8 DEF TakenInv, Confirming
<1>13. PlaceInv'
  BY <1>1, <1>4, <1>5 DEF PlaceInv, ApprovalsTypeOK
<1>14. IssuedInv'
  BY <1>5 DEF IssuedInv
<1>15. r \notin Queued \cup Used
  BY <1>3 DEF OneTurnPerApproval
<1>16. OneTurnPerApproval'
  <2>1. pending' \cap (Owed \cup Queued \cup Used)' = {}
    BY <1>2, <1>5, <1>7, <1>10 DEF OneTurnPerApproval
  <2>2. (Owed \cap (Queued \cup Used))' = {} /\ (Queued \cap Used)' = {}
    BY <1>7, <1>10, <1>15 DEF OneTurnPerApproval
  <2>3. \A i \in 1..Len(grants) : grants[i] # r
    BY <1>15 DEF Queued
  <2>4. \A i, j \in 1..Len(grants') : grants'[i] = grants'[j] => i = j
    BY <1>6, <2>3 DEF OneTurnPerApproval
  <2>5. \A d, e \in Command :
          held'[d] = held'[e] /\ {at'[d], at'[e]} \subseteq {"confirmed", "always"} => d = e
    BY <1>1, <1>5, <1>8 DEF OneTurnPerApproval
  <2>6. \A t, u \in Task : bypass'[t] = bypass'[u] /\ bypass'[t] # None => t = u
    BY <1>5 DEF OneTurnPerApproval
  <2> QED BY <2>1, <2>2, <2>4, <2>5, <2>6 DEF OneTurnPerApproval
<1>17. BypassInScope'
  BY <1>3, <1>5, <1>7, <1>10 DEF BypassInScope
<1>18. OnePendingPerScope'
  BY <1>5 DEF OnePendingPerScope, Live
<1> QED BY <1>11, <1>12, <1>13, <1>14, <1>16, <1>17, <1>18

\* What is left when a grant is taken from the queue.
LEMMA WithoutOne ==
  ASSUME NEW S, NEW s \in Seq(S), NEW i \in 1..Len(s)
  PROVE  /\ Without(s, i) \in Seq(S)
         /\ Len(Without(s, i)) = Len(s) - 1
         /\ \A k \in 1..(Len(s) - 1) : Without(s, i)[k] = IF k < i THEN s[k] ELSE s[k + 1]
<1>1. Len(s) - 1 \in Nat
  OBVIOUS
<1>2. \A k \in 1..(Len(s) - 1) : k \in 1..Len(s) /\ k + 1 \in 1..Len(s)
  OBVIOUS
<1>3. Without(s, i) \in [1..(Len(s) - 1) -> S]
  BY <1>2 DEF Without
<1>4. Without(s, i) \in Seq(S)
  BY <1>1, <1>3
<1> QED BY <1>1, <1>3, <1>4 DEF Without

LEMMA BypassStep ==
  ASSUME IInv, NEW t \in Task, BeginBypassing(t)
  PROVE  IInv'
<1> USE DEF IInv
<1>1. PICK i \in Matching(ScopeOf[t]) :
        bypass' = [bypass EXCEPT ![t] = grants[i]] /\ grants' = Without(grants, i)
  BY DEF BeginBypassing, Consume
<1> DEFINE g == grants[i]
<1>2. /\ i \in 1..Len(grants) /\ requester[g] = ScopeOf[t] /\ g \in 1..issued /\ g \in Request
      /\ g \in Queued /\ g # None
  BY ApprovalsAssumption DEF Matching, Queued, ApprovalsTypeOK, Request
<1>3. at[t] \in {"new", "resuming"} /\ bypass[t] = None
  BY DEF BeginBypassing, Entering, PlaceInv
<1>4. at' = [at EXCEPT ![t] = "looping"] /\ UNCHANGED <<requests, approved, held>>
  BY DEF BeginBypassing
<1>5. bypass'[t] = g /\ \A u \in Task \ {t} : bypass'[u] = bypass[u]
  BY <1>1 DEF ApprovalsTypeOK
<1> HIDE DEF g
<1>6. /\ grants' \in Seq(1..issued) /\ Len(grants') = Len(grants) - 1 /\ Len(grants) \in Nat
      /\ \A k \in 1..(Len(grants) - 1) : grants'[k] = IF k < i THEN grants[k] ELSE grants[k + 1]
  <2>1. grants \in Seq(1..issued) /\ Len(grants) \in Nat
    BY DEF IInv, ApprovalsTypeOK
  <2>2. /\ Without(grants, i) \in Seq(1..issued)
        /\ Len(Without(grants, i)) = Len(grants) - 1
        /\ \A k \in 1..(Len(grants) - 1) :
             Without(grants, i)[k] = IF k < i THEN grants[k] ELSE grants[k + 1]
    BY ONLY <1>2, <2>1, WithoutOne
  <2> QED BY <1>1, <2>1, <2>2
<1>7. \A j, k \in 1..Len(grants) : grants[j] = grants[k] => j = k
  BY DEF OneTurnPerApproval
<1>8. Queued' \subseteq Queued \ {g}
  <2>1. ASSUME NEW k \in 1..Len(grants') PROVE grants'[k] \in Queued \ {g}
    <3>1. k \in 1..Len(grants) /\ k + 1 \in 1..Len(grants)
      BY <1>6
    <3>2. CASE k < i
      BY <1>2, <1>6, <1>7, <3>1, <3>2 DEF Queued, g
    <3>3. CASE ~(k < i)
      BY <1>2, <1>6, <1>7, <3>1, <3>3 DEF Queued, g
    <3> QED BY <3>2, <3>3
  <2> QED BY <2>1 DEF Queued
<1>9. \A j, k \in 1..Len(grants') : grants'[j] = grants'[k] => j = k
  <2> SUFFICES ASSUME NEW j \in 1..Len(grants'), NEW k \in 1..Len(grants'), grants'[j] = grants'[k]
               PROVE  j = k
    OBVIOUS
  <2>1. /\ j \in 1..Len(grants) /\ j + 1 \in 1..Len(grants)
        /\ k \in 1..Len(grants) /\ k + 1 \in 1..Len(grants)
    BY <1>6
  <2> QED BY <1>2, <1>6, <1>7, <2>1
<1>10. Used' = Used \cup {g} /\ g \notin Used /\ g \notin Owed /\ g \notin pending
  <2>1. Used' \subseteq Used \cup {g} /\ Used \subseteq Used'
    BY <1>2, <1>3, <1>5, ApprovalsAssumption DEF Used
  <2>2. g \in Used'
    BY <1>2, <1>5 DEF Used
  <2>3. g \notin Used /\ g \notin Owed /\ g \notin pending
    BY <1>2 DEF OneTurnPerApproval
  <2> QED BY ONLY <2>1, <2>2, <2>3
<1>11. \A c \in Command :
         /\ at'[c] \in {"confirmed", "always"} => at'[c] = at[c]
         /\ at[c] \in {"confirmed", "always"} => at'[c] = at[c]
  BY <1>3, <1>4 DEF ApprovalsTypeOK, Task
<1>12. Owed' = Owed
  BY <1>4, <1>11 DEF Owed, requests
<1>13. ApprovalsTypeOK'
  BY <1>1, <1>2, <1>4, <1>6 DEF ApprovalsTypeOK, requests, g
<1>14. TakenInv'
  BY <1>4, <1>11 DEF TakenInv, Confirming, requests
<1>15. PlaceInv'
  BY <1>1, <1>4 DEF PlaceInv, ApprovalsTypeOK
<1>16. IssuedInv'
  BY <1>4 DEF IssuedInv, requests
<1>17. OneTurnPerApproval'
  <2>1. pending' = pending
    BY <1>4 DEF requests
  <2>2. (pending \cap (Owed \cup Queued \cup Used))' = {}
    BY <1>8, <1>10, <1>12, <2>1 DEF OneTurnPerApproval
  <2>3. (Owed \cap (Queued \cup Used))' = {} /\ (Queued \cap Used)' = {}
    BY <1>8, <1>10, <1>12 DEF OneTurnPerApproval
  <2>4. \A u \in Task : bypass[u] # g
    BY <1>2, <1>10 DEF Used, Request, ApprovalsTypeOK
  <2>5. \A u, v \in Task : bypass'[u] = bypass'[v] /\ bypass'[u] # None => u = v
    BY <1>5, <2>4 DEF OneTurnPerApproval
  <2>6. \A c, d \in Command :
          held'[c] = held'[d] /\ {at'[c], at'[d]} \subseteq {"confirmed", "always"} => c = d
    BY <1>4, <1>11 DEF OneTurnPerApproval
  <2> QED BY <1>9, <2>2, <2>3, <2>5, <2>6 DEF OneTurnPerApproval
<1>18. BypassInScope'
  BY <1>2, <1>4, <1>5, <1>8, <1>10, <1>12 DEF BypassInScope, requests
<1>19. OnePendingPerScope'
  BY <1>4 DEF OnePendingPerScope, Live, requests
<1> QED BY <1>13, <1>14, <1>15, <1>16, <1>17, <1>18, <1>19

-----------------------------------------------------------------------------
(* The invariant.                                                          *)

LEMMA Steps == IInv /\ [ApprovalsNext]_approvalVars => IInv'
<1> SUFFICES ASSUME IInv, [ApprovalsNext]_approvalVars PROVE IInv'
  OBVIOUS
<1>1. ASSUME NEW t \in Task, Turn(t) PROVE IInv'
  <2>1. CASE BeginBypassing(t)
    BY <2>1, BypassStep
  <2>2. CASE Begin(t) \/ EndEarly(t) \/ Finish(t)
    BY <1>1, <2>2, CalmTurn, CalmStep
  <2>3. CASE AskForPlan(t)
    BY <1>1, <2>3, AskingStep DEF AskForPlan, Asking, Subject
  <2> QED BY <1>1, <2>1, <2>2, <2>3 DEF Turn
<1>2. ASSUME NEW m \in UserMessage, NEW x \in Tool, Recover(m, x) PROVE IInv'
  BY <1>2, AskingStep DEF Recover, Asking, Subject, Task
<1>3. ASSUME NEW c \in Command, CommandStep(c) PROVE IInv'
  <2>1. CASE CalmCommand(c)
    BY <2>1, CommandIsCalm, CalmStep
  <2>2. CASE PushGrant(c)
    BY <2>2, PushGrantStep
  <2>3. ASSUME NEW x \in Subject, RequestApproval(c, x) PROVE IInv'
    BY <2>3, AskingStep DEF RequestApproval, Asking, May, Done, Task
  <2>4. ASSUME NEW r \in Request, NEW kind \in {"confirmed", "always"}, Confirm(c, r, kind)
        PROVE  IInv'
    BY <2>4, ConfirmStep
  <2> QED BY <1>3, <2>1, <2>2, <2>3, <2>4 DEF CommandStep, CalmCommand
<1>4. CASE ReloadPolicy \/ \E r \in Request : Expire(r)
  BY <1>4, CalmWorld, CalmStep
<1>5. CASE UNCHANGED approvalVars
  <2>1. Calm
    BY <1>5 DEF Calm, IInv, ApprovalsTypeOK, PlaceInv, approvalVars, Live
  <2> QED BY <2>1, CalmStep
<1> QED BY <1>1, <1>2, <1>3, <1>4, <1>5 DEF ApprovalsNext

LEMMA Invariant == ApprovalsSpec => []IInv
BY Inits, Steps, PTL DEF ApprovalsSpec

\* Type correctness.
THEOREM TypeCorrect == ApprovalsSpec => []ApprovalsTypeOK
BY Invariant, PTL DEF IInv

\* An answer counts once, and for a turn of its own scope only, and no two equal
\* requests of a scope await one, for any number of chats, commands and requests.
\* (consume_non_cli_turn_grant_for_context, confirm_non_cli_pending_request,
\* create_non_cli_pending_request)
THEOREM AnswersCountOnce == ApprovalsSpec => []ApprovalsUsedOnce
<1>1. IInv => ApprovalsUsedOnce
  BY DEF IInv, ApprovalsUsedOnce
<1> QED  BY <1>1, Invariant, PTL

-----------------------------------------------------------------------------
(* The refinement of GrantLedger: issuing asks, confirming approves (or, for *)
(* a tool, closes), taking a grant uses, and what drops out of the live     *)
(* requests is closed.  Queueing a grant changes nothing in the ledger.     *)

\* The scope that used a request is the scope of the one turn that has its grant.
LEMMA OneUser ==
  ASSUME OneTurnPerApproval, ApprovalsTypeOK, NEW t \in Task, NEW r \in Request, bypass[t] = r
  PROVE  UserOf(r) = ScopeOf[t]
<1>1. r \in Used /\ r # None
  BY ApprovalsAssumption DEF Used
<1>2. \A u \in Task : bypass[u] = r => u = t
  BY <1>1 DEF OneTurnPerApproval
<1>3. (CHOOSE u \in Task : bypass[u] = r) = t
  BY <1>2
<1> QED BY <1>1, <1>3 DEF UserOf

\* Requests that are no longer live, confirmed by nobody, are closed.
LEMMA Closing ==
  ASSUME IInv, UNCHANGED <<issued, requester, grants, bypass>>,
         Live' \subseteq Live, Owed' = Owed
  PROVE  Ledger!Next
<1> DEFINE R == Live \ Live'
<1>1. R \in SUBSET Request
  <2>1. Live \subseteq 1..issued
    BY DEF IInv, ApprovalsTypeOK, Live
  <2>2. 1..issued \subseteq Request
    BY ApprovalsAssumption DEF IInv, ApprovalsTypeOK, Request
  <2> QED BY <2>1, <2>2
<1>2. Queued' = Queued /\ Used' = Used
  BY DEF Queued, Used
<1>3. \A r \in R : r <= issued /\ r \in Live /\ r \notin Owed \cup Queued \cup Used
  BY DEF IInv, OneTurnPerApproval, ApprovalsTypeOK, Live
<1> HIDE DEF R
<1>4. \A r \in R : phaseOf[r] = "asked"
  BY <1>1, <1>3, ApprovalsAssumption DEF phaseOf, IInv, ApprovalsTypeOK, Request
<1>5. \A r \in Request : r \notin R => (r \in Live' <=> r \in Live)
  BY DEF R
<1>6. \A r \in R : r \notin Live'
  BY DEF R
<1>7. phaseOf' = [r \in Request |-> IF r \in R THEN "closed" ELSE phaseOf[r]]
  <2> SUFFICES ASSUME NEW r \in Request
               PROVE  (IF r > issued' THEN "none"
                       ELSE IF r \in Live' THEN "asked"
                       ELSE IF r \in Owed' \cup Queued' THEN "approved"
                       ELSE IF r \in Used' THEN "used"
                       ELSE "closed") = IF r \in R THEN "closed" ELSE phaseOf[r]
    BY DEF phaseOf
  <2>1. CASE r \in R
    BY <1>2, <1>3, <1>6, <2>1, ApprovalsAssumption DEF IInv, ApprovalsTypeOK, Request
  <2>2. CASE r \notin R
    BY <1>2, <1>5, <2>2 DEF phaseOf
  <2> QED BY <2>1, <2>2
<1>8. userOf' = userOf
  BY <1>2 DEF userOf, UserOf
<1>9. Ledger!Close(R)
  BY <1>4, <1>7, <1>8 DEF Ledger!Close
<1> QED BY <1>1, <1>9 DEF Ledger!Next

\* A calm step leaves what is owed as it is, unless it ends a command that owes.
LEMMA CalmCloses == IInv /\ Calm => Ledger!Next
<1> SUFFICES ASSUME IInv, Calm PROVE Ledger!Next
  OBVIOUS
<1>1. Owed' = Owed
  BY DEF Calm, Owed
<1> QED BY <1>1, Closing DEF Calm

LEMMA AskingAsks ==
  ASSUME IInv, IInv', NEW t \in Task, NEW x \in Subject, NEW b \in BOOLEAN, Asking(t, x, b)
  PROVE  Ledger!Next
<1> USE DEF Asking
<1>1. CASE Same(x, ScopeOf[t]) # {}
  <2>1. pending' = Live /\ expired' = {} /\ UNCHANGED <<issued, subject, requester, resume>>
    BY <1>1 DEF Create
  <2>2. Calm
    BY <2>1 DEF IInv, Calm, ApprovalsTypeOK, PlaceInv, Live, Task
  <2> QED BY <2>2, CalmCloses
<1>2. CASE Same(x, ScopeOf[t]) = {}
  <2> DEFINE n == issued + 1
  <2>1. /\ issued < MaxRequests /\ issued' = n /\ pending' = Live \cup {n} /\ expired' = {}
        /\ subject' = [subject EXCEPT ![n] = x]
        /\ requester' = [requester EXCEPT ![n] = ScopeOf[t]]
    BY <1>2 DEF Create
  <2>2. /\ n \in Request /\ n > issued /\ ~(n > issued') /\ n \notin 1..issued
        /\ \A q \in Request : q # n => (q > issued' <=> q > issued)
    BY <2>1, ApprovalsAssumption DEF IInv, ApprovalsTypeOK, Request
  <2>9. Live' = Live \cup {n} /\ ScopeOf[t] \in Scope
    BY <2>1, ApprovalsAssumption DEF Live
  <2> HIDE DEF n
  <2>3. Queued' = Queued /\ Used' = Used
    BY DEF Queued, Used
  <2>4. Owed' = Owed
    <3>1. \A c \in Command :
            /\ at'[c] \in {"confirmed", "always"} => at'[c] = at[c]
            /\ at[c] \in {"confirmed", "always"} => at'[c] = at[c]
            /\ at[c] \in {"confirmed", "always"} => held[c] # n
      BY <2>2 DEF IInv, ApprovalsTypeOK, Task, TakenInv, Confirming
    <3>2. \A q \in Request \ {n} : subject'[q] = subject[q]
      BY <2>1 DEF IInv, ApprovalsTypeOK
    <3> QED BY <3>1, <3>2 DEF Owed
  <2>5. phaseOf[n] = "none"
    BY <2>2 DEF phaseOf
  <2>6. phaseOf' = [phaseOf EXCEPT ![n] = "asked"]
    <3> SUFFICES ASSUME NEW q \in Request
                 PROVE  phaseOf'[q] = IF q = n THEN "asked" ELSE phaseOf[q]
      BY <2>2 DEF phaseOf
    <3>1. CASE q = n
      BY <2>2, <2>9, <3>1 DEF phaseOf
    <3>2. CASE q # n
      BY <2>2, <2>3, <2>4, <2>9, <3>2 DEF phaseOf
    <3> QED BY <3>1, <3>2
  <2>7. userOf' = userOf
    BY <2>3 DEF userOf, UserOf
  <2>8. Ledger!Ask(n, ScopeOf[t])
    BY <2>1, <2>5, <2>6, <2>7 DEF Ledger!Ask
  <2> QED BY <2>2, <2>8, <2>9 DEF Ledger!Next
<1> QED BY <1>1, <1>2

LEMMA ConfirmApproves ==
  ASSUME IInv, NEW c \in Command, NEW r \in Request, NEW kind \in {"confirmed", "always"},
         Confirm(c, r, kind)
  PROVE  Ledger!Next
<1> USE DEF Confirm, Answerable, Remove, May
<1>1. c \in Task /\ at[c] = "new" /\ at'[c] = kind /\ held'[c] = r
  BY DEF IInv, ApprovalsTypeOK, Task
<1>2. \A d \in Command \ {c} : at'[d] = at[d] /\ held'[d] = held[d]
  BY DEF IInv, ApprovalsTypeOK, Task
<1>3. Live' = Live \ {r} /\ r \in Live /\ r \in pending
  BY DEF Live
<1>4. r \notin Owed \cup Queued \cup Used /\ r <= issued /\ ~(r > issued)
  BY <1>3, ApprovalsAssumption DEF IInv, OneTurnPerApproval, ApprovalsTypeOK, Request
<1>5. CASE kind = "always" \/ subject[r] = AllTools
  <2>1. Owed' = Owed \cup {r}
    BY <1>1, <1>2, <1>5 DEF Owed
  <2>2. Queued' = Queued /\ Used' = Used
    BY DEF Queued, Used
  <2>3. phaseOf[r] = "asked"
    BY <1>3, <1>4 DEF phaseOf
  <2>4. phaseOf' = [phaseOf EXCEPT ![r] = "approved"]
    <3> SUFFICES ASSUME NEW q \in Request
                 PROVE  phaseOf'[q] = IF q = r THEN "approved" ELSE phaseOf[q]
      BY DEF phaseOf
    <3>1. CASE q = r
      BY <1>3, <1>4, <2>1, <3>1 DEF phaseOf
    <3>2. CASE q # r
      BY <1>3, <2>1, <2>2, <3>2 DEF phaseOf
    <3> QED BY <3>1, <3>2
  <2>5. userOf' = userOf
    BY <2>2 DEF userOf, UserOf
  <2>6. Ledger!Approve(r)
    BY <2>3, <2>4, <2>5 DEF Ledger!Approve
  <2> QED BY <2>6 DEF Ledger!Next
<1>6. CASE kind = "confirmed" /\ subject[r] # AllTools
  <2>1. Owed' = Owed
    BY <1>1, <1>2, <1>6 DEF Owed
  <2> QED BY <1>3, <2>1, Closing
<1> QED BY <1>5, <1>6

LEMMA PushGrantStutters ==
  ASSUME IInv, NEW c \in Command, PushGrant(c)
  PROVE  UNCHANGED <<phaseOf, requester, userOf>>
<1> DEFINE r == held[c]
<1> USE DEF PushGrant, requests
<1>1. c \in Task /\ at[c] \in {"confirmed", "always"}
  BY DEF Task
<1>2. r \in 1..issued /\ r \in Request
  BY <1>1, ApprovalsAssumption DEF IInv, TakenInv, Confirming, ApprovalsTypeOK, Request
<1>3. r \in Owed
  BY <1>1, <1>2 DEF Owed
<1>4. PICK next \in {"confirmed", "resuming", "over"} :
        /\ at' = [at EXCEPT ![c] = next]
        /\ next = "confirmed" => subject[r] # AllTools
  BY DEF GoOn
<1>5. grants' = Append(grants, r) /\ UNCHANGED <<requests, held, bypass>>
  OBVIOUS
<1> HIDE DEF PushGrant, r
<1>6. /\ Len(grants') = Len(grants) + 1 /\ Len(grants) \in Nat
      /\ \A i \in 1..Len(grants) : grants'[i] = grants[i]
      /\ grants'[Len(grants) + 1] = r
  BY <1>2, <1>5 DEF IInv, ApprovalsTypeOK
<1>7. Queued' = Queued \cup {r}
  BY <1>6 DEF Queued
<1>8. \A d \in Command \ {c} : at'[d] = at[d] /\ held'[d] = held[d]
  BY <1>4, <1>5 DEF IInv, ApprovalsTypeOK, Task
<1>9. Owed' \subseteq Owed
  <2> SUFFICES ASSUME NEW q \in Owed' PROVE q \in Owed
    OBVIOUS
  <2>1. PICK d \in Command : held'[d] = q /\ (at'[d] = "always" \/ (at'[d] = "confirmed" /\ subject'[q] = AllTools))
    BY DEF Owed
  <2>2. q \in Request
    BY DEF Owed
  <2>3. CASE d = c
    BY <1>3, <1>5, <2>1, <2>3 DEF r
  <2>4. CASE d # c
    BY <1>5, <1>8, <2>1, <2>2, <2>4 DEF Owed
  <2> QED BY <2>3, <2>4
<1>10. Owed \subseteq Owed' \cup {r}
  <2> SUFFICES ASSUME NEW q \in Owed, q # r PROVE q \in Owed'
    OBVIOUS
  <2>1. PICK d \in Command : held[d] = q /\ (at[d] = "always" \/ (at[d] = "confirmed" /\ subject[q] = AllTools))
    BY DEF Owed
  <2>2. d # c /\ q \in Request
    BY <2>1 DEF Owed, r
  <2> QED BY <1>5, <1>8, <2>1, <2>2 DEF Owed
<1>11. (Owed \cup Queued)' = Owed \cup Queued
  BY <1>3, <1>7, <1>9, <1>10
<1>12. Live' = Live /\ Used' = Used
  BY <1>5 DEF Live, Used
<1>13. phaseOf' = phaseOf
  BY <1>5, <1>11, <1>12 DEF phaseOf
<1>14. userOf' = userOf
  BY <1>5, <1>12 DEF userOf, UserOf
<1> QED BY <1>5, <1>13, <1>14

LEMMA BypassUses ==
  ASSUME IInv, IInv', NEW t \in Task, BeginBypassing(t)
  PROVE  Ledger!Next
<1>1. PICK i \in Matching(ScopeOf[t]) :
        bypass' = [bypass EXCEPT ![t] = grants[i]] /\ grants' = Without(grants, i)
  BY DEF BeginBypassing, Consume
<1> DEFINE g == grants[i]
<1>2. /\ i \in 1..Len(grants) /\ requester[g] = ScopeOf[t] /\ g \in 1..issued /\ g \in Request
      /\ g \in Queued /\ g # None
  BY ApprovalsAssumption DEF IInv, Matching, Queued, ApprovalsTypeOK, Request
<1>3. bypass[t] = None /\ at[t] \in {"new", "resuming"}
  BY DEF BeginBypassing, Entering, IInv, PlaceInv
<1>4. at' = [at EXCEPT ![t] = "looping"] /\ UNCHANGED <<requests, approved, held>>
  BY DEF BeginBypassing
<1>5. bypass'[t] = g /\ \A u \in Task \ {t} : bypass'[u] = bypass[u]
  BY <1>1 DEF IInv, ApprovalsTypeOK
<1> HIDE DEF g
<1>6. /\ Len(grants') = Len(grants) - 1 /\ Len(grants) \in Nat
      /\ \A k \in 1..(Len(grants) - 1) : grants'[k] = IF k < i THEN grants[k] ELSE grants[k + 1]
  <2>1. grants \in Seq(1..issued) /\ Len(grants) \in Nat
    BY DEF IInv, ApprovalsTypeOK
  <2>2. /\ Without(grants, i) \in Seq(1..issued)
        /\ Len(Without(grants, i)) = Len(grants) - 1
        /\ \A k \in 1..(Len(grants) - 1) :
             Without(grants, i)[k] = IF k < i THEN grants[k] ELSE grants[k + 1]
    BY ONLY <1>2, <2>1, WithoutOne
  <2> QED BY <1>1, <2>1, <2>2
<1>7. Queued \subseteq Queued' \cup {g} /\ Queued' \subseteq Queued
  <2>1. ASSUME NEW k \in 1..Len(grants) PROVE grants[k] \in Queued' \cup {g}
    <3>1. CASE k < i
      <4>1. k \in 1..Len(grants') /\ grants'[k] = grants[k]
        BY <1>2, <1>6, <3>1
      <4> QED BY <4>1 DEF Queued
    <3>2. CASE k > i
      <4>1. k - 1 \in 1..Len(grants') /\ grants'[k - 1] = grants[k]
        BY <1>2, <1>6, <3>2
      <4> QED BY <4>1 DEF Queued
    <3>3. CASE k = i
      BY <3>3 DEF g
    <3> QED BY <1>2, <3>1, <3>2, <3>3
  <2>2. ASSUME NEW k \in 1..Len(grants') PROVE grants'[k] \in Queued
    <3>1. k \in 1..Len(grants) /\ k + 1 \in 1..Len(grants)
      BY <1>6
    <3> QED BY <1>6, <3>1 DEF Queued
  <2> QED BY <2>1, <2>2 DEF Queued
<1>8. g \in Used'
  BY <1>2, <1>5 DEF Used
<1>9. g \notin Queued' /\ g \notin Owed' /\ g \notin Live' /\ g \notin Live /\ ~(g > issued)
  <2>1. g \notin Queued' \cup Owed'
    BY <1>8 DEF IInv, OneTurnPerApproval
  <2>2. g \notin pending /\ pending' = pending
    BY <1>2, <1>4 DEF IInv, OneTurnPerApproval, requests
  <2>3. ~(g > issued)
    BY <1>2, ApprovalsAssumption DEF IInv, ApprovalsTypeOK
  <2> QED BY <2>1, <2>2, <2>3 DEF Live
<1>10. Owed' = Owed
  <2>1. \A c \in Command :
          /\ at'[c] \in {"confirmed", "always"} => at'[c] = at[c]
          /\ at[c] \in {"confirmed", "always"} => at'[c] = at[c]
    BY <1>3, <1>4 DEF IInv, ApprovalsTypeOK, Task
  <2> QED BY <1>4, <2>1 DEF Owed, requests
<1>11. \A q \in Request : q # g => (q \in Used' <=> q \in Used)
  BY <1>3, <1>5, ApprovalsAssumption DEF Used
<1>12. Live' = Live /\ issued' = issued /\ requester' = requester
  BY <1>4 DEF Live, requests
<1>13. phaseOf[g] = "approved"
  BY <1>2, <1>9 DEF phaseOf
<1>14. phaseOf' = [phaseOf EXCEPT ![g] = "used"]
  <2> SUFFICES ASSUME NEW q \in Request
               PROVE  phaseOf'[q] = IF q = g THEN "used" ELSE phaseOf[q]
    BY <1>2 DEF phaseOf
  <2>1. CASE q = g
    BY <1>8, <1>9, <1>12, <2>1 DEF phaseOf
  <2>2. CASE q # g
    BY <1>7, <1>10, <1>11, <1>12, <2>2 DEF phaseOf
  <2> QED BY <2>1, <2>2
<1>15. userOf' = [userOf EXCEPT ![g] = requester[g]]
  <2> SUFFICES ASSUME NEW q \in Request
               PROVE  UserOf(q)' = IF q = g THEN requester[g] ELSE UserOf(q)
    BY <1>2 DEF userOf
  <2>1. \A u, v \in Task : bypass'[u] = bypass'[v] /\ bypass'[u] # None => u = v
    BY DEF IInv, OneTurnPerApproval
  <2>2. CASE q = g
    <3>1. (CHOOSE u \in Task : bypass'[u] = g) = t
      BY <1>2, <1>5, <2>1
    <3> QED BY <1>2, <1>8, <2>2, <3>1 DEF UserOf
  <2>3. CASE q # g /\ q \in Used
    <3>1. PICK u \in Task : bypass[u] = q
      BY <2>3 DEF Used
    <3>2. u # t /\ bypass'[u] = q /\ q # None /\ q \in Used'
      BY <1>3, <1>5, <1>11, <2>3, <3>1, ApprovalsAssumption
    <3>3. (CHOOSE v \in Task : bypass'[v] = q) = u
      BY <2>1, <3>2
    <3>4. UserOf(q) = ScopeOf[u]
      BY <3>1, OneUser DEF IInv
    <3> QED BY <2>3, <3>2, <3>3, <3>4 DEF UserOf
  <2>4. CASE q # g /\ q \notin Used
    BY <1>11, <2>4 DEF UserOf
  <2> QED BY <2>2, <2>3, <2>4
<1>16. Ledger!Use(g)
  BY <1>12, <1>13, <1>14, <1>15 DEF Ledger!Use
<1> QED BY <1>2, <1>16 DEF Ledger!Next

LEMMA LedgerInit == ApprovalsInit => Ledger!Init
<1> SUFFICES ASSUME ApprovalsInit PROVE Ledger!Init
  OBVIOUS
<1>1. phaseOf = [r \in Request |-> "none"]
  BY ApprovalsAssumption DEF phaseOf, ApprovalsInit, Request
<1>2. Used = {}
  BY ApprovalsAssumption DEF Used, ApprovalsInit
<1>3. userOf = [r \in Request |-> None]
  BY <1>2 DEF userOf, UserOf
<1> QED BY <1>1, <1>3 DEF Ledger!Init, ApprovalsInit

LEMMA LedgerStep ==
  IInv /\ IInv' /\ [ApprovalsNext]_approvalVars => [Ledger!Next]_(Ledger!ledger)
<1> SUFFICES ASSUME IInv, IInv', [ApprovalsNext]_approvalVars
             PROVE  [Ledger!Next]_(Ledger!ledger)
  OBVIOUS
<1>1. ASSUME NEW t \in Task, Turn(t) PROVE Ledger!Next
  <2>1. CASE BeginBypassing(t)
    BY <2>1, BypassUses
  <2>2. CASE Begin(t) \/ EndEarly(t) \/ Finish(t)
    BY <1>1, <2>2, CalmTurn, CalmCloses
  <2>3. CASE AskForPlan(t)
    BY <1>1, <2>3, AskingAsks DEF AskForPlan, Asking, Subject
  <2> QED BY <1>1, <2>1, <2>2, <2>3 DEF Turn
<1>2. ASSUME NEW m \in UserMessage, NEW x \in Tool, Recover(m, x) PROVE Ledger!Next
  BY <1>2, AskingAsks DEF Recover, Asking, Subject, Task
<1>3. ASSUME NEW c \in Command, CommandStep(c), ~PushGrant(c) PROVE Ledger!Next
  <2>1. CASE CalmCommand(c)
    BY <2>1, CommandIsCalm, CalmCloses
  <2>2. ASSUME NEW x \in Subject, RequestApproval(c, x) PROVE Ledger!Next
    BY <2>2, AskingAsks DEF RequestApproval, Asking, May, Done, Task
  <2>3. ASSUME NEW r \in Request, NEW kind \in {"confirmed", "always"}, Confirm(c, r, kind)
        PROVE  Ledger!Next
    BY <2>3, ConfirmApproves
  <2> QED BY <1>3, <2>1, <2>2, <2>3 DEF CommandStep, CalmCommand
<1>4. CASE ReloadPolicy \/ \E r \in Request : Expire(r)
  BY <1>4, CalmWorld, CalmCloses
<1>5. CASE \E c \in Command : PushGrant(c)
  BY <1>5, PushGrantStutters DEF Ledger!ledger
<1>6. CASE UNCHANGED approvalVars
  <2>1. UNCHANGED <<Live, Owed, Queued, Used>>
    BY <1>6 DEF approvalVars, Live, Owed, Queued, Used
  <2>2. UNCHANGED <<phaseOf, requester, userOf>>
    BY <1>6, <2>1 DEF approvalVars, phaseOf, userOf, UserOf
  <2> QED BY <2>2 DEF Ledger!ledger
<1> QED BY <1>1, <1>2, <1>3, <1>4, <1>5, <1>6 DEF ApprovalsNext

\* The channel's approvals keep the ledger's promise: asked, approved and used
\* once, by the scope that asked.
THEOREM ApprovalsImplementGrantLedger == ApprovalsSpec => ImplementsGrantLedger
  BY LedgerInit, LedgerStep, Invariant, PTL DEF ApprovalsSpec, ImplementsGrantLedger, Ledger!Spec

-----------------------------------------------------------------------------
(* The runtime policy.                                                     *)

\* Where a task is that has named a tool and is not over.
Commanding(w) == step[w] \in {"granting", "reading", "writing"}

\* Stamps are read, not made up.
StampsPast == applied <= stamp /\ \A w \in Worker : seen[w] <= stamp

\* A command names a tool, and without an overlap it is the only one to name it;
\* until it is settled nothing is settled about that tool.
OneAtATime ==
  \A w \in Worker : Commanding(w) =>
    /\ \A v \in Worker : Commanding(v) /\ tool[v] = tool[w] => v = w
    /\ verb[w] \in {"approve", "unapprove"} => settled[tool[w]] = "none"

NamesATool == \A w \in Worker : Commanding(w) => tool[w] \in PolicyTool

\* Without an edit in between, what a command has read is the file.
ReadsTheFile == \A w \in Worker : step[w] = "writing" /\ seen[w] = stamp => copy[w] = file

\* What is settled about a tool is in the file.
Saved(t) ==
  /\ settled[t] = "approved" => t \in file.auto \ file.ask
  /\ settled[t] = "revoked" => t \notin file.auto

SavedIInv ==
  /\ PolicyTypeOK /\ StampsPast /\ NamesATool /\ ReadsTheFile
  /\ ~raced => OneAtATime /\ \A t \in PolicyTool : Saved(t)

\* Nobody is under way unless the channels run.
UpForMessages == up \/ Underway = {}

\* The latest file has been applied, but not yet all of it is in memory.
AutoPending == \E w \in Worker : step[w] = "stored" /\ seen[w] = stamp
AskPending == \E w \in Worker : step[w] \in {"stored", "replaced"} /\ seen[w] = stamp

\* As far as the file has been applied, memory has of each tool what is settled, and
\* of a tool that a command is about what the command wants, if the file has it too.
AutoFollows(t) ==
  /\ settled[t] = "approved" => t \in auto \cup ForcePrompt
  /\ settled[t] = "revoked" => t \notin auto
  /\ \A w \in Worker : Commanding(w) /\ tool[w] = t =>
       /\ (verb[w] = "approve" /\ t \in file.auto => t \in auto \cup ForcePrompt)
       /\ (verb[w] = "unapprove" /\ t \notin file.auto => t \notin auto)

AskFollows(t) ==
  /\ settled[t] = "approved" => t \notin ask
  /\ \A w \in Worker : Commanding(w) /\ tool[w] = t /\ step[w] # "granting" =>
       (verb[w] = "approve" /\ t \notin file.ask => t \notin ask)

MemoryFollows ==
  /\ AutoPending \/ \A t \in PolicyTool : AutoFollows(t)
  /\ AskPending \/ \A t \in PolicyTool : AskFollows(t)

EffectIInv ==
  /\ SavedIInv /\ UpForMessages
  /\ up /\ applied = stamp /\ ~raced /\ ~stale => MemoryFollows

-----------------------------------------------------------------------------
LEMMA PolicyInitIInv == PolicyInit => EffectIInv
<1> SUFFICES ASSUME PolicyInit PROVE EffectIInv
  OBVIOUS
<1>1. FirstFile \in Policy /\ MaxStamp \in Nat
  BY PolicyAssumption
<1>2. up \in BOOLEAN /\ raced \in BOOLEAN /\ stale \in BOOLEAN
  BY Zenon DEF PolicyInit
<1>3. PolicyTypeOK
  BY <1>1, <1>2 DEF PolicyInit, PolicyTypeOK, Step, Verb
<1>4. /\ StampsPast /\ UpForMessages
      /\ \A w \in Worker : ~Commanding(w)
      /\ \A t \in PolicyTool : Saved(t)
  BY <1>1 DEF PolicyInit, StampsPast, UpForMessages, Underway, Commanding, Saved
<1>5. NamesATool /\ ReadsTheFile /\ OneAtATime
  BY <1>4 DEF PolicyInit, NamesATool, ReadsTheFile, OneAtATime
<1> QED  BY <1>3, <1>4, <1>5 DEF PolicyInit, EffectIInv, SavedIInv

\* Booleans, for provers that have no types.
LEMMA PolicyBooleans ==
  ASSUME PolicyTypeOK, [PolicyNext]_policyVars
  PROVE  up' \in BOOLEAN /\ raced' \in BOOLEAN /\ stale' \in BOOLEAN
<1> USE DEF PolicyTypeOK, daemon, notes
<1>1. CASE UNCHANGED policyVars
  BY <1>1 DEF policyVars
<1>2. CASE StartChannels \/ Restart \/ \E policy \in Policy : Edit(policy)
  BY <1>2 DEF StartChannels, Restart, Edit
<1>3. ASSUME NEW w \in Worker, Reload(w)
      PROVE  up' \in BOOLEAN /\ raced' \in BOOLEAN /\ stale' \in BOOLEAN
  BY <1>3 DEF Reload, ReadStamp, UpToDate, LoadConfig, LoadFails, StoreStamp, ReplaceAuto, ReplaceAsk
<1>4. ASSUME NEW w \in Worker, Manage(w)
      PROVE  up' \in BOOLEAN /\ raced' \in BOOLEAN /\ stale' \in BOOLEAN
  BY <1>4 DEF Manage, Other, GrantEnds, ReadFile, Save, NoSave, PersistFails, Grant, Revoke, Named
<1> QED  BY <1>1, <1>2, <1>3, <1>4 DEF PolicyNext

LEMMA AmendedIsPolicy ==
  ASSUME PolicyTypeOK, NamesATool, NEW w \in Worker, Commanding(w)
  PROVE  Amended(w) \in Policy
  BY DEF PolicyTypeOK, NamesATool, Amended, Policy

LEMMA PolicyTyping ==
  ASSUME PolicyTypeOK, NamesATool, [PolicyNext]_policyVars
  PROVE  PolicyTypeOK'
<1> USE DEF memory, disk, daemon, command, notes, Proceed
<1>0. up' \in BOOLEAN /\ raced' \in BOOLEAN /\ stale' \in BOOLEAN
  BY PolicyBooleans
<1>1. CASE UNCHANGED policyVars
  BY <1>0, <1>1 DEF policyVars, PolicyTypeOK
<1>2. CASE StartChannels
  BY <1>0, <1>2 DEF StartChannels, PolicyTypeOK, Policy, Sanitized
<1>3. CASE Restart
  BY <1>0, <1>3 DEF Restart, PolicyTypeOK, Step
<1>4. ASSUME NEW policy \in Policy, Edit(policy) PROVE PolicyTypeOK'
  BY <1>0, <1>4, PolicyAssumption DEF Edit, PolicyTypeOK
<1>5. ASSUME NEW w \in Worker, ReadStamp(w) \/ UpToDate(w) \/ LoadConfig(w) \/ LoadFails(w)
                                \/ StoreStamp(w)
      PROVE  PolicyTypeOK'
  BY <1>0, <1>5 DEF ReadStamp, UpToDate, LoadConfig, LoadFails, StoreStamp, PolicyTypeOK, Step
<1>6. ASSUME NEW w \in Worker, ReplaceAuto(w) \/ ReplaceAsk(w) PROVE PolicyTypeOK'
  BY <1>0, <1>6 DEF ReplaceAuto, ReplaceAsk, Sanitized, PolicyTypeOK, Step, Policy
<1>7. ASSUME NEW w \in Worker, Other(w) \/ GrantEnds(w) \/ ReadFile(w) \/ PersistFails(w)
      PROVE  PolicyTypeOK'
  BY <1>0, <1>7 DEF Other, GrantEnds, ReadFile, PersistFails, PolicyTypeOK, Step
<1>8. ASSUME NEW w \in Worker, Save(w) \/ NoSave(w) PROVE PolicyTypeOK'
  <2>1. Amended(w) \in Policy /\ tool[w] \in PolicyTool
    BY <1>8, AmendedIsPolicy DEF Save, NoSave, Commanding, NamesATool
  <2>2. settled' \in [PolicyTool -> {"none", "approved", "revoked"}]
    BY <1>8, <2>1 DEF Save, NoSave, Settle, PolicyTypeOK
  <2>3. step' \in [Worker -> Step] /\ verb' \in [Worker -> Verb] /\ UNCHANGED tool
    BY <1>8 DEF Save, NoSave, AfterWrite, PolicyTypeOK, Step, Verb
  <2>4. file' \in Policy /\ stamp' \in 0..MaxStamp
    BY <1>8, <2>1, PolicyAssumption DEF Save, NoSave, PolicyTypeOK
  <2>5. stamp <= stamp' /\ UNCHANGED <<boot, auto, ask, applied, seen, copy>>
    BY <1>8, PolicyAssumption DEF Save, NoSave, PolicyTypeOK
  <2> QED  BY <1>0, <2>2, <2>3, <2>4, <2>5 DEF PolicyTypeOK
<1>9. ASSUME NEW w \in Worker, NEW t \in PolicyTool, NEW v \in Verb, Grant(w, v, t) \/ Revoke(w, t)
      PROVE  PolicyTypeOK'
  BY <1>0, <1>9 DEF Grant, Revoke, Named, PolicyTypeOK, Step, Verb
<1> QED
  BY <1>1, <1>2, <1>3, <1>4, <1>5, <1>6, <1>7, <1>8, <1>9 DEF PolicyNext, Reload, Manage, Verb

-----------------------------------------------------------------------------
(* What is saved stays saved.                                              *)

\* A step that neither replaces the file nor begins, settles or reads for a command.
Quiet ==
  /\ UNCHANGED <<disk, settled, raced, command>>
  /\ \A w \in Worker :
       /\ Commanding(w)' => Commanding(w)
       /\ step'[w] = "writing" => step[w] = "writing" /\ seen'[w] = seen[w] /\ copy'[w] = copy[w]

LEMMA QuietKeepsSaved ==
  ASSUME SavedIInv, PolicyTypeOK', StampsPast', Quiet
  PROVE  SavedIInv'
<1>1. UNCHANGED <<file, stamp, settled, raced, verb, tool>>
  BY DEF Quiet, disk, command
<1>2. NamesATool' /\ ReadsTheFile'
  BY <1>1 DEF SavedIInv, NamesATool, ReadsTheFile, Quiet
<1>3. OneAtATime => OneAtATime'
  BY <1>1 DEF OneAtATime, Quiet
<1>4. \A t \in PolicyTool : Saved(t) => Saved(t)'
  BY <1>1 DEF Saved
<1> QED  BY <1>1, <1>2, <1>3, <1>4 DEF SavedIInv

LEMMA StampsStayPast ==
  ASSUME PolicyTypeOK, NamesATool, StampsPast, [PolicyNext]_policyVars
  PROVE  StampsPast'
<1> USE DEF memory, disk, StampsPast, PolicyTypeOK
<1>0. PolicyTypeOK' /\ stamp \in Nat
  BY PolicyTyping, PolicyAssumption
<1>1. CASE UNCHANGED policyVars
  BY <1>1 DEF policyVars
<1>2. CASE StartChannels \/ Restart \/ \E policy \in Policy : Edit(policy)
  BY <1>0, <1>2, PolicyAssumption DEF StartChannels, Restart, Edit
<1>3. ASSUME NEW w \in Worker, Reload(w) PROVE StampsPast'
  BY <1>0, <1>3 DEF Reload, ReadStamp, UpToDate, LoadConfig, LoadFails, StoreStamp, ReplaceAuto, ReplaceAsk
<1>4. ASSUME NEW w \in Worker, Manage(w) PROVE StampsPast'
  BY <1>0, <1>4, PolicyAssumption DEF Manage, Other, GrantEnds, ReadFile, Save, NoSave, PersistFails, Grant, Revoke
<1> QED  BY <1>1, <1>2, <1>3, <1>4 DEF PolicyNext

\* The quiet steps.
QuietStep(w) ==
  \/ ReadStamp(w) \/ UpToDate(w) \/ LoadConfig(w) \/ LoadFails(w)
  \/ StoreStamp(w) \/ ReplaceAuto(w) \/ ReplaceAsk(w)
  \/ Other(w) \/ GrantEnds(w) \/ PersistFails(w)

LEMMA QuietStepsAreQuiet ==
  ASSUME PolicyTypeOK,
         UNCHANGED policyVars \/ StartChannels \/ Restart \/ \E w \in Worker : QuietStep(w)
  PROVE  Quiet
<1> USE DEF Quiet, Commanding, disk, command, notes, memory, daemon, Proceed
<1>1. CASE UNCHANGED policyVars \/ StartChannels
  BY <1>1 DEF policyVars, StartChannels
<1>2. CASE Restart
  BY <1>2 DEF Restart, PolicyTypeOK
<1>3. ASSUME NEW w \in Worker, ReadStamp(w) \/ UpToDate(w) \/ LoadConfig(w) \/ LoadFails(w)
                                \/ StoreStamp(w)
      PROVE  Quiet
  BY <1>3 DEF ReadStamp, UpToDate, LoadConfig, LoadFails, StoreStamp, PolicyTypeOK
<1>4. ASSUME NEW w \in Worker, ReplaceAuto(w) \/ ReplaceAsk(w) \/ Other(w) \/ GrantEnds(w)
                                \/ PersistFails(w)
      PROVE  Quiet
  BY <1>4 DEF ReplaceAuto, ReplaceAsk, Other, GrantEnds, PersistFails, PolicyTypeOK
<1> QED  BY <1>1, <1>2, <1>3, <1>4 DEF QuietStep

LEMMA ReadFileKeepsSaved ==
  ASSUME SavedIInv, PolicyTypeOK', StampsPast', NEW w \in Worker, ReadFile(w)
  PROVE  SavedIInv'
<1>1. /\ step[w] = "reading" /\ step' = [step EXCEPT ![w] = "writing"]
      /\ copy' = [copy EXCEPT ![w] = file] /\ seen' = [seen EXCEPT ![w] = stamp]
      /\ UNCHANGED <<file, stamp, settled, raced, verb, tool>>
  BY DEF ReadFile, Proceed, disk, command, notes
<1>2. \A v \in Worker : Commanding(v)' <=> Commanding(v)
  BY <1>1 DEF SavedIInv, PolicyTypeOK, Commanding
<1>3. NamesATool' /\ ReadsTheFile'
  BY <1>1, <1>2 DEF SavedIInv, NamesATool, ReadsTheFile, PolicyTypeOK
<1>4. OneAtATime => OneAtATime'
  BY <1>1, <1>2 DEF OneAtATime
<1>5. \A t \in PolicyTool : Saved(t) => Saved(t)'
  BY <1>1 DEF Saved
<1> QED  BY <1>1, <1>3, <1>4, <1>5 DEF SavedIInv

LEMMA EditKeepsSaved ==
  ASSUME SavedIInv, PolicyTypeOK', StampsPast', NEW policy \in Policy, Edit(policy)
  PROVE  SavedIInv'
<1>1. /\ stamp' = stamp + 1 /\ settled' = [t \in PolicyTool |-> "none"]
      /\ UNCHANGED <<step, raced, verb, tool, seen, copy>>
      /\ \A w \in Worker : Commanding(w)' <=> Commanding(w)
  BY DEF Edit, command, Commanding
<1>2. \A w \in Worker : seen'[w] # stamp'
  BY <1>1, PolicyAssumption DEF SavedIInv, StampsPast, PolicyTypeOK
<1>3. NamesATool' /\ ReadsTheFile'
  BY <1>1, <1>2 DEF SavedIInv, NamesATool, ReadsTheFile
<1>4. OneAtATime => OneAtATime'
  BY <1>1 DEF SavedIInv, NamesATool, OneAtATime
<1>5. \A t \in PolicyTool : Saved(t)'
  BY <1>1 DEF Saved
<1> QED  BY <1>1, <1>3, <1>4, <1>5 DEF SavedIInv

\* A command begins: unless it overlaps another about its tool, it is alone with it.
LEMMA NamingKeepsSaved ==
  ASSUME SavedIInv, PolicyTypeOK', StampsPast', NEW w \in Worker, NEW t \in PolicyTool,
         NEW v \in Verb, Grant(w, v, t) \/ Revoke(w, t)
  PROVE  SavedIInv'
<1>1. /\ UNCHANGED <<file, stamp, seen, copy>>
      /\ tool' = [tool EXCEPT ![w] = t] /\ settled' = [settled EXCEPT ![t] = "none"]
      /\ raced' = (raced \/ \E other \in Underway : tool[other] = t)
      /\ \A u \in Worker : u # w => step'[u] = step[u] /\ verb'[u] = verb[u]
      /\ step'[w] \in {"granting", "reading"}
  BY DEF Grant, Revoke, Named, Proceed, disk, SavedIInv, PolicyTypeOK
<1>2. \A u \in Worker : u # w => (Commanding(u)' <=> Commanding(u)) /\ tool'[u] = tool[u]
  BY <1>1 DEF Commanding, SavedIInv, PolicyTypeOK
<1>3. tool'[w] = t
  BY <1>1 DEF SavedIInv, PolicyTypeOK
<1>4. NamesATool'
  BY <1>2, <1>3 DEF SavedIInv, NamesATool
<1>5. ReadsTheFile'
  BY <1>1 DEF SavedIInv, ReadsTheFile
<1>6. \A s \in PolicyTool : settled'[s] = IF s = t THEN "none" ELSE settled[s]
  BY <1>1 DEF SavedIInv, PolicyTypeOK
<1>7. ASSUME ~raced' PROVE OneAtATime' /\ \A s \in PolicyTool : Saved(s)'
  <2>1. ~raced /\ \A u \in Worker : Commanding(u) => tool[u] # t
    BY <1>1, <1>7 DEF Underway, Commanding
  <2>2. OneAtATime'
    BY <2>1, <1>1, <1>2, <1>3, <1>6 DEF SavedIInv, OneAtATime, NamesATool
  <2>3. \A s \in PolicyTool : Saved(s)'
    BY <2>1, <1>1, <1>6 DEF SavedIInv, Saved
  <2> QED  BY <2>2, <2>3
<1> QED  BY <1>4, <1>5, <1>7 DEF SavedIInv

\* What a command ends with: the file it has read, unless it raced, amended for its
\* tool alone, as it is settled then.
LEMMA WrittenKeepsSaved ==
  ASSUME SavedIInv, PolicyTypeOK', StampsPast', NEW w \in Worker, Save(w) \/ NoSave(w)
  PROVE  SavedIInv'
<1>1. /\ step[w] = "writing" /\ UNCHANGED <<tool, seen, copy>>
      /\ raced' = (raced \/ seen[w] # stamp)
      /\ file' = Amended(w)  \/ (file' = file /\ Amended(w) = copy[w])
  BY DEF Save, NoSave, disk, AfterWrite, command
<1>2. tool[w] \in PolicyTool /\ Commanding(w)
  BY <1>1 DEF SavedIInv, NamesATool, Commanding
<1>3. /\ \A u \in Worker : u # w => step'[u] = step[u] /\ verb'[u] = verb[u]
      /\ step'[w] # "writing" /\ (Commanding(w)' => verb'[w] = "unexclude")
  BY <1>1 DEF Save, NoSave, AfterWrite, Proceed, command, Commanding, SavedIInv, PolicyTypeOK
<1>4. NamesATool'
  BY <1>1, <1>2, <1>3 DEF SavedIInv, NamesATool, Commanding
<1>5. ReadsTheFile'
  <2>1. CASE Save(w)
    <3>1. stamp' = stamp + 1
      BY <2>1 DEF Save
    <3>2. \A u \in Worker : seen'[u] # stamp'
      BY <3>1, <1>1, PolicyAssumption DEF SavedIInv, StampsPast, PolicyTypeOK
    <3> QED  BY <3>2 DEF ReadsTheFile
  <2>2. CASE NoSave(w)
    BY <2>2, <1>1, <1>3 DEF NoSave, disk, SavedIInv, ReadsTheFile
  <2> QED  BY <2>1, <2>2
<1>6. \/ UNCHANGED settled
      \/ verb[w] = "approve" /\ settled' = [settled EXCEPT ![tool[w]] = "approved"]
      \/ verb[w] = "unapprove" /\ settled' = [settled EXCEPT ![tool[w]] = "revoked"]
  BY DEF Save, NoSave, Settle
<1>7. ASSUME ~raced' PROVE OneAtATime' /\ \A t \in PolicyTool : Saved(t)'
  <2>1. ~raced /\ copy[w] = file
    BY <1>1, <1>7 DEF SavedIInv, ReadsTheFile
  <2>2. /\ verb[w] \in {"approve", "unapprove"} => settled[tool[w]] = "none"
        /\ \A u \in Worker : u # w /\ Commanding(u) => tool[u] # tool[w]
    BY <2>1, <1>2 DEF SavedIInv, OneAtATime
  <2>3. OneAtATime'
    <3>1. ASSUME NEW u \in Worker, u # w, Commanding(u)
          PROVE  settled'[tool[u]] = settled[tool[u]]
      BY <3>1, <1>2, <1>6, <2>2 DEF SavedIInv, NamesATool, PolicyTypeOK
    <3> QED  BY <3>1, <2>1, <2>2, <1>1, <1>2, <1>3 DEF SavedIInv, OneAtATime, Commanding
  <2>4. file' = Amended(w)
    BY <1>1, <2>1
  <2>5. ASSUME NEW t \in PolicyTool PROVE Saved(t)'
    <3>1. CASE t # tool[w]
      <4>1. settled'[t] = settled[t]
        BY <3>1, <1>6 DEF SavedIInv, PolicyTypeOK
      <4>2. (t \in file'.auto <=> t \in file.auto) /\ (t \in file'.ask <=> t \in file.ask)
        BY <3>1, <2>1, <2>4 DEF Amended, SavedIInv, PolicyTypeOK, Policy
      <4> QED  BY <4>1, <4>2, <2>1 DEF SavedIInv, Saved
    <3>2. CASE t = tool[w] /\ verb[w] = "approve"
      <4>1. t \in file'.auto \ file'.ask
        BY <3>2, <2>4 DEF Amended
      <4>2. settled'[t] \in {"none", "approved"}
        BY <3>2, <1>2, <1>6, <2>2 DEF SavedIInv, PolicyTypeOK
      <4> QED  BY <4>1, <4>2 DEF Saved
    <3>3. CASE t = tool[w] /\ verb[w] = "unapprove"
      <4>1. t \notin file'.auto
        BY <3>3, <2>1, <2>4 DEF Amended, SavedIInv, PolicyTypeOK, Policy
      <4>2. settled'[t] \in {"none", "revoked"}
        BY <3>3, <1>2, <1>6, <2>2 DEF SavedIInv, PolicyTypeOK
      <4> QED  BY <4>1, <4>2 DEF Saved
    <3>4. CASE t = tool[w] /\ verb[w] \notin {"approve", "unapprove"}
      <4>1. file' = file /\ settled' = settled
        BY <3>4, <1>6, <2>1, <2>4 DEF Amended
      <4> QED  BY <4>1, <2>1 DEF SavedIInv, Saved
    <3> QED  BY <3>1, <3>2, <3>3, <3>4
  <2> QED  BY <2>3, <2>5
<1> QED  BY <1>4, <1>5, <1>7 DEF SavedIInv

LEMMA StepKeepsSaved ==
  ASSUME SavedIInv, [PolicyNext]_policyVars
  PROVE  SavedIInv'
<1>1. PolicyTypeOK' /\ StampsPast'
  BY PolicyTyping, StampsStayPast DEF SavedIInv
<1>2. CASE UNCHANGED policyVars \/ StartChannels \/ Restart \/ \E w \in Worker : QuietStep(w)
  BY <1>1, <1>2, QuietStepsAreQuiet, QuietKeepsSaved DEF SavedIInv
<1>3. CASE \E policy \in Policy : Edit(policy)
  BY <1>1, <1>3, EditKeepsSaved
<1>4. CASE \E w \in Worker : ReadFile(w) \/ Save(w) \/ NoSave(w)
  BY <1>1, <1>4, ReadFileKeepsSaved, WrittenKeepsSaved
<1>5. CASE \E w \in Worker, t \in PolicyTool : (\E v \in Verb : Grant(w, v, t)) \/ Revoke(w, t)
  BY <1>1, <1>5, NamingKeepsSaved DEF Verb
<1> QED  BY <1>2, <1>3, <1>4, <1>5 DEF PolicyNext, Reload, Manage, QuietStep

-----------------------------------------------------------------------------
(* What is saved is in effect.                                             *)

LEMMA UpForMessagesStays ==
  ASSUME EffectIInv, [PolicyNext]_policyVars
  PROVE  UpForMessages'
<1> USE DEF daemon, Proceed, UpForMessages, Underway
<1>1. CASE UNCHANGED policyVars \/ StartChannels \/ Restart \/ \E policy \in Policy : Edit(policy)
  BY <1>1 DEF policyVars, StartChannels, Restart, Edit, EffectIInv, SavedIInv, PolicyTypeOK
<1>2. ASSUME NEW w \in Worker, Reload(w) PROVE UpForMessages'
  BY <1>2 DEF Reload, ReadStamp, UpToDate, LoadConfig, LoadFails, StoreStamp, ReplaceAuto,
     ReplaceAsk, EffectIInv
<1>3. ASSUME NEW w \in Worker, Manage(w) PROVE UpForMessages'
  BY <1>3 DEF Manage, Other, GrantEnds, ReadFile, Save, NoSave, PersistFails, Grant, Revoke, EffectIInv
<1> QED  BY <1>1, <1>2, <1>3 DEF PolicyNext

\* When it must be shown that memory follows, and what is known then.
InForce == up /\ applied = stamp /\ ~raced /\ ~stale

\* A step that leaves alone what MemoryFollows is about, commands no tool, and has
\* no part in putting the file into memory.
LEMMA Untouched ==
  ASSUME EffectIInv, InForce, UNCHANGED <<file, settled, auto, ask>>,
         \A w \in Worker : Commanding(w)' =>
           Commanding(w) /\ tool'[w] = tool[w] /\ verb'[w] = verb[w]
           /\ (step'[w] = "granting" <=> step[w] = "granting"),
         AutoPending => AutoPending', AskPending => AskPending'
  PROVE  MemoryFollows'
<1>1. \A t \in PolicyTool : AutoFollows(t) => AutoFollows(t)'
  BY DEF AutoFollows
<1>2. \A t \in PolicyTool : AskFollows(t) => AskFollows(t)'
  BY DEF AskFollows
<1> QED  BY <1>1, <1>2 DEF EffectIInv, InForce, MemoryFollows

LEMMA StartFollows ==
  ASSUME EffectIInv, StartChannels, InForce'
  PROVE  MemoryFollows'
<1>1. /\ boot = file /\ ~raced /\ auto' = boot.auto \ ForcePrompt /\ ask' = boot.ask
      /\ UNCHANGED <<file, settled, step>>
  BY DEF StartChannels, InForce, Sanitized, disk
<1>2. \A w \in Worker : ~Commanding(w)'
  BY <1>1 DEF StartChannels, EffectIInv, UpForMessages, Underway, Commanding
<1>3. ASSUME NEW t \in PolicyTool PROVE AutoFollows(t)' /\ AskFollows(t)'
  <2>1. Saved(t)
    BY <1>1 DEF EffectIInv, SavedIInv
  <2> QED  BY <1>1, <1>2, <2>1 DEF Saved, AutoFollows, AskFollows
<1> QED  BY <1>3 DEF MemoryFollows

LEMMA ReloadFollows ==
  ASSUME EffectIInv, NEW w \in Worker, Reload(w), InForce'
  PROVE  MemoryFollows'
<1> USE DEF disk, daemon, command, notes, memory, Proceed
<1>0. PolicyTypeOK
  BY DEF EffectIInv, SavedIInv
<1>1. CASE ReadStamp(w) \/ UpToDate(w) \/ LoadConfig(w) \/ LoadFails(w)
  <2>1. /\ InForce /\ UNCHANGED <<file, stamp, settled, auto, ask, tool, verb>>
        /\ step[w] \in {"new", "stamped"} /\ step'[w] \in {"stamped", "ready", "loaded"}
        /\ \A u \in Worker : u # w => step'[u] = step[u] /\ seen'[u] = seen[u]
    BY <1>0, <1>1 DEF ReadStamp, UpToDate, LoadConfig, LoadFails, InForce, PolicyTypeOK
  <2>2. \A u \in Worker : Commanding(u)' => Commanding(u) /\ step'[u] = step[u]
    BY <2>1 DEF Commanding
  <2>3. (AutoPending => AutoPending') /\ (AskPending => AskPending')
    BY <2>1 DEF AutoPending, AskPending
  <2> QED  BY <2>1, <2>2, <2>3, Untouched
<1>2. CASE StoreStamp(w)
  <2>1. step'[w] = "stored" /\ seen'[w] = stamp'
    BY <1>0, <1>2 DEF StoreStamp, InForce, PolicyTypeOK
  <2> QED  BY <2>1 DEF AutoPending, AskPending, MemoryFollows
<1>3. CASE ReplaceAuto(w) \/ ReplaceAsk(w)
  <2>1. /\ InForce /\ copy[w] = file /\ UNCHANGED <<file, stamp, settled, tool, verb, seen>>
        /\ step[w] \in {"stored", "replaced"} /\ step'[w] \in {"replaced", "ready"}
        /\ \A u \in Worker : u # w => step'[u] = step[u]
    BY <1>0, <1>3 DEF ReplaceAuto, ReplaceAsk, InForce, PolicyTypeOK
  <2>2. \A u \in Worker : Commanding(u)' => Commanding(u) /\ step'[u] = step[u]
    BY <2>1 DEF Commanding
  <2>3. MemoryFollows /\ \A t \in PolicyTool : Saved(t)
    BY <2>1 DEF EffectIInv, SavedIInv, InForce
  <2>4. CASE ReplaceAuto(w)
    <3>1. auto' = file.auto \ ForcePrompt /\ ask' = ask /\ step'[w] = "replaced"
      BY <1>0, <2>1, <2>4 DEF ReplaceAuto, Sanitized, PolicyTypeOK
    <3>2. \A t \in PolicyTool : AutoFollows(t)'
      BY <2>1, <2>3, <3>1 DEF Saved, AutoFollows
    <3>3. AskPending => AskPending'
      BY <2>1, <3>1 DEF AskPending
    <3>4. \A t \in PolicyTool : AskFollows(t) => AskFollows(t)'
      BY <2>1, <2>2, <3>1 DEF AskFollows
    <3> QED  BY <2>3, <3>2, <3>3, <3>4 DEF MemoryFollows
  <2>5. CASE ReplaceAsk(w)
    <3>1. ask' = file.ask /\ auto' = auto /\ step[w] = "replaced"
      BY <2>1, <2>5 DEF ReplaceAsk
    <3>2. \A t \in PolicyTool : AskFollows(t)'
      BY <2>1, <2>3, <3>1 DEF Saved, AskFollows
    <3>3. AutoPending => AutoPending'
      BY <2>1, <3>1 DEF AutoPending
    <3>4. \A t \in PolicyTool : AutoFollows(t) => AutoFollows(t)'
      BY <2>1, <2>2, <3>1 DEF AutoFollows
    <3> QED  BY <2>3, <3>2, <3>3, <3>4 DEF MemoryFollows
  <2> QED  BY <1>3, <2>4, <2>5
<1> QED  BY <1>1, <1>2, <1>3 DEF Reload

LEMMA NamingFollows ==
  ASSUME EffectIInv, NEW w \in Worker, NEW t \in PolicyTool, NEW v \in Verb,
         Grant(w, v, t) \/ Revoke(w, t), InForce'
  PROVE  MemoryFollows'
<1>0. PolicyTypeOK
  BY DEF EffectIInv, SavedIInv
<1>1. /\ InForce /\ UNCHANGED <<file, stamp, seen, ask>> /\ step[w] = "ready"
      /\ tool' = [tool EXCEPT ![w] = t] /\ settled' = [settled EXCEPT ![t] = "none"]
      /\ \A other \in Underway : tool[other] # t
      /\ \A u \in Worker : u # w => step'[u] = step[u] /\ verb'[u] = verb[u]
      /\ \/ step'[w] = "granting" /\ verb'[w] # "unapprove" /\ auto' = auto \cup {t}
         \/ step'[w] = "reading" /\ verb'[w] = "unapprove" /\ auto' = auto \ {t}
  BY <1>0 DEF Grant, Revoke, Named, Proceed, disk, daemon, InForce, PolicyTypeOK
<1>2. \A u \in Worker : Commanding(u) => u # w /\ tool[u] # t
  BY <1>1 DEF Commanding, Underway
<1>3. /\ \A u \in Worker : u # w => tool'[u] = tool[u] /\ (Commanding(u)' <=> Commanding(u))
      /\ tool'[w] = t
  BY <1>0, <1>1 DEF Commanding, PolicyTypeOK
<1>4. \A s \in PolicyTool : settled'[s] = IF s = t THEN "none" ELSE settled[s]
  BY <1>0, <1>1 DEF PolicyTypeOK
<1>5. MemoryFollows
  BY <1>1 DEF EffectIInv, InForce
<1>6. (AutoPending => AutoPending') /\ (AskPending => AskPending')
  BY <1>1 DEF AutoPending, AskPending
<1>7. ASSUME NEW s \in PolicyTool PROVE AutoFollows(s) => AutoFollows(s)'
  <2>1. CASE s = t
    BY <2>1, <1>1, <1>2, <1>3, <1>4 DEF AutoFollows
  <2>2. CASE s # t
    BY <2>2, <1>1, <1>2, <1>3, <1>4 DEF AutoFollows
  <2> QED  BY <2>1, <2>2
<1>8. ASSUME NEW s \in PolicyTool PROVE AskFollows(s) => AskFollows(s)'
  BY <1>1, <1>2, <1>3, <1>4 DEF AskFollows
<1> QED  BY <1>5, <1>6, <1>7, <1>8 DEF MemoryFollows

LEMMA ManageFollows ==
  ASSUME EffectIInv, NEW w \in Worker, InForce',
         Other(w) \/ GrantEnds(w) \/ ReadFile(w) \/ Save(w) \/ NoSave(w) \/ PersistFails(w)
  PROVE  MemoryFollows'
<1> USE DEF disk, daemon, command, notes, memory, Proceed
<1>0. PolicyTypeOK
  BY DEF EffectIInv, SavedIInv
<1>1. CASE Other(w) \/ PersistFails(w) \/ ReadFile(w)
  <2>1. /\ InForce /\ UNCHANGED <<file, stamp, settled, auto, ask, tool, verb>>
        /\ \/ step[w] = "reading" /\ step'[w] = "writing"
           \/ step[w] \in {"ready", "reading", "writing"} /\ step'[w] = "over"
        /\ \A u \in Worker : u # w => step'[u] = step[u] /\ seen'[u] = seen[u]
    BY <1>0, <1>1 DEF Other, PersistFails, ReadFile, InForce, PolicyTypeOK
  <2>2. \A u \in Worker : Commanding(u)' =>
          Commanding(u) /\ (step'[u] = "granting" <=> step[u] = "granting")
    BY <2>1 DEF Commanding
  <2>3. (AutoPending => AutoPending') /\ (AskPending => AskPending')
    BY <2>1 DEF AutoPending, AskPending
  <2> QED  BY <2>1, <2>2, <2>3, Untouched
<1>2. CASE GrantEnds(w)
  <2>1. /\ InForce /\ UNCHANGED <<file, stamp, settled, auto, tool, verb, seen>>
        /\ ask' = ask \ {tool[w]}
        /\ step[w] = "granting" /\ step'[w] \in {"reading", "over"}
        /\ \A u \in Worker : u # w => step'[u] = step[u]
    BY <1>0, <1>2 DEF GrantEnds, InForce, PolicyTypeOK
  <2>2. \A u \in Worker : Commanding(u)' => Commanding(u)
    BY <2>1 DEF Commanding
  <2>3. (AutoPending => AutoPending') /\ (AskPending => AskPending')
    BY <2>1 DEF AutoPending, AskPending
  <2>4. \A t \in PolicyTool : AutoFollows(t) => AutoFollows(t)'
    BY <2>1, <2>2 DEF AutoFollows
  <2>5. \A t \in PolicyTool : AskFollows(t) => AskFollows(t)'
    BY <2>1, <2>2 DEF AskFollows
  <2> QED  BY <2>1, <2>3, <2>4, <2>5 DEF EffectIInv, InForce, MemoryFollows
<1>3. CASE Save(w)
  <2>1. stamp' = stamp + 1 /\ applied' = applied
    BY <1>3 DEF Save
  <2>2. applied <= stamp /\ applied \in Nat /\ stamp \in Nat
    BY <1>0, PolicyAssumption DEF EffectIInv, SavedIInv, StampsPast, PolicyTypeOK
  <2> QED  BY <2>1, <2>2 DEF InForce
<1>4. CASE NoSave(w)
  <2>1. /\ InForce /\ seen[w] = stamp /\ Amended(w) = copy[w]
        /\ UNCHANGED <<file, stamp, auto, ask, tool, seen>>
        /\ step[w] = "writing" /\ step'[w] \in {"reading", "over"}
        /\ (step'[w] = "reading" => verb'[w] = "unexclude")
        /\ \A u \in Worker : u # w => step'[u] = step[u] /\ verb'[u] = verb[u]
    BY <1>0, <1>4 DEF NoSave, AfterWrite, InForce, PolicyTypeOK
  <2>2. copy[w] = file /\ Commanding(w) /\ tool[w] \in PolicyTool
    BY <2>1 DEF EffectIInv, SavedIInv, ReadsTheFile, NamesATool, Commanding
  <2>3. \A u \in Worker : Commanding(u)' => verb'[u] = "unexclude" \/
          (Commanding(u) /\ step'[u] = step[u] /\ verb'[u] = verb[u])
    BY <2>1 DEF Commanding
  <2>4. (AutoPending => AutoPending') /\ (AskPending => AskPending')
    BY <2>1 DEF AutoPending, AskPending
  <2>5. \/ UNCHANGED settled
        \/ verb[w] = "approve" /\ settled' = [settled EXCEPT ![tool[w]] = "approved"]
        \/ verb[w] = "unapprove" /\ settled' = [settled EXCEPT ![tool[w]] = "revoked"]
    BY <1>4 DEF NoSave, Settle
  <2>6. /\ verb[w] = "approve" => tool[w] \in file.auto /\ tool[w] \notin file.ask
        /\ verb[w] = "unapprove" => tool[w] \notin file.auto
    BY <1>0, <2>1, <2>2 DEF Amended, PolicyTypeOK, Policy
  <2>7. ASSUME NEW t \in PolicyTool PROVE AutoFollows(t) => AutoFollows(t)'
    <3>1. CASE settled'[t] = settled[t]
      BY <3>1, <2>1, <2>3 DEF AutoFollows
    <3>2. CASE settled'[t] # settled[t]
      <4>1. /\ t = tool[w]
            /\ \/ verb[w] = "approve" /\ settled'[t] = "approved"
               \/ verb[w] = "unapprove" /\ settled'[t] = "revoked"
        BY <1>0, <3>2, <2>2, <2>5 DEF PolicyTypeOK
      <4> QED  BY <4>1, <2>1, <2>2, <2>3, <2>6 DEF AutoFollows
    <3> QED  BY <3>1, <3>2
  <2>8. ASSUME NEW t \in PolicyTool PROVE AskFollows(t) => AskFollows(t)'
    <3>1. CASE settled'[t] = settled[t]
      BY <3>1, <2>1, <2>3 DEF AskFollows
    <3>2. CASE settled'[t] # settled[t]
      <4>1. /\ t = tool[w]
            /\ \/ verb[w] = "approve" /\ settled'[t] = "approved"
               \/ verb[w] = "unapprove" /\ settled'[t] = "revoked"
        BY <1>0, <3>2, <2>2, <2>5 DEF PolicyTypeOK
      <4> QED  BY <4>1, <2>1, <2>2, <2>3, <2>6 DEF AskFollows
    <3> QED  BY <3>1, <3>2
  <2> QED  BY <2>1, <2>4, <2>7, <2>8 DEF EffectIInv, InForce, MemoryFollows
<1> QED  BY <1>1, <1>2, <1>3, <1>4

LEMMA StepKeepsEffect == EffectIInv /\ [PolicyNext]_policyVars => EffectIInv'
<1> SUFFICES ASSUME EffectIInv, [PolicyNext]_policyVars PROVE EffectIInv'
  OBVIOUS
<1>1. SavedIInv' /\ UpForMessages'
  BY StepKeepsSaved, UpForMessagesStays DEF EffectIInv
<1>2. ASSUME InForce' PROVE MemoryFollows'
  <2>1. CASE UNCHANGED policyVars
    <3>1. InForce /\ UNCHANGED <<file, settled, auto, ask, step, tool, verb, seen, stamp>>
      BY <1>2, <2>1 DEF policyVars, InForce
    <3> QED  BY <3>1, Untouched DEF Commanding, AutoPending, AskPending
  <2>2. CASE StartChannels
    BY <1>2, <2>2, StartFollows
  <2>3. CASE Restart
    BY <1>2, <2>3 DEF Restart, InForce
  <2>4. CASE \E policy \in Policy : Edit(policy)
    <3>1. stamp' = stamp + 1 /\ applied' = applied
      BY <2>4 DEF Edit, memory
    <3>2. applied <= stamp /\ applied \in Nat /\ stamp \in Nat
      BY PolicyAssumption DEF EffectIInv, SavedIInv, StampsPast, PolicyTypeOK
    <3> QED  BY <1>2, <3>1, <3>2 DEF InForce
  <2>5. CASE \E w \in Worker : Reload(w)
    BY <1>2, <2>5, ReloadFollows
  <2>6. CASE \E w \in Worker : Manage(w)
    BY <1>2, <2>6, ManageFollows, NamingFollows DEF Manage, Verb
  <2> QED  BY <2>1, <2>2, <2>3, <2>4, <2>5, <2>6 DEF PolicyNext
<1> QED  BY <1>1, <1>2 DEF EffectIInv, InForce

\* What /approve and /unapprove have saved is in the file until a command or an edit
\* changes it, for any number of messages and tools: see SavedUnlessRaced for the
\* race that is excepted.
THEOREM CommandsAreSaved == PolicySpec => []SavedUnlessRaced
<1>1. EffectIInv => SavedUnlessRaced
  BY DEF EffectIInv, SavedIInv, Saved, SavedUnlessRaced
<1> QED  BY <1>1, PolicyInitIInv, StepKeepsEffect, PTL DEF PolicySpec

\* Once the file has been applied, what commands have saved is in effect, whichever
\* reloads and starts brought it into memory and whatever was granted meanwhile.
THEOREM CommandsTakeEffect == PolicySpec => []DecisionsTakeEffect
<1>1. EffectIInv => DecisionsTakeEffect
  <2> SUFFICES ASSUME EffectIInv, FileApplied, ~raced, ~stale, NEW t \in PolicyTool
               PROVE  /\ settled[t] = "approved" => t \in Effective \cup ForcePrompt
                      /\ settled[t] = "revoked" => t \notin Effective
    BY DEF DecisionsTakeEffect
  <2>1. MemoryFollows /\ ~AutoPending /\ ~AskPending
    BY DEF EffectIInv, FileApplied, AutoPending, AskPending
  <2> QED  BY <2>1 DEF MemoryFollows, AutoFollows, AskFollows, Effective
<1> QED  BY <1>1, PolicyInitIInv, StepKeepsEffect, PTL DEF PolicySpec
=============================================================================
