----------------------------- MODULE Approvals -----------------------------
(***************************************************************************)
(* Approvals on channels: the pending requests and one-turn grants of      *)
(* ApprovalManager (approval/mod.rs), the runtime commands that manage     *)
(* them (channels/command_handler.rs) and the turns that ask and that      *)
(* consume them (agent/loop_.rs, channels/capability_recovery.rs).         *)
(*                                                                         *)
(* A scope is a sender in a chat of a channel.  A task is a channel        *)
(* message: a user turn, or a command; a command that confirms goes on to  *)
(* run the turn it resumes.  Each method of the manager is one step under  *)
(* its lock, and what a command does between two methods is not atomic.    *)
(* Request ids never repeat, so ids are numbered; a request keeps what it  *)
(* was created with.  Which tools a scope-wide policy approves is the set  *)
(* approved (RuntimePolicy has its life in the configuration).  The tool   *)
(* calls of a turn, their dedupe and the shell snapshots are left out.     *)
(***************************************************************************)
EXTENDS Naturals, Sequences

CONSTANTS
  UserMessage,   \* messages that are user turns
  Command,       \* messages that are approval commands
  Scope, ScopeOf,
  Approver,      \* scopes whose sender may manage approvals
  Tool, AllTools,
  MaxRequests,   \* bound: how many requests are ever created
  None

Request == 1..MaxRequests
Task == UserMessage \cup Command
Subject == Tool \cup {AllTools}

ASSUME ApprovalsAssumption ==
  /\ MaxRequests \in Nat
  /\ ScopeOf \in [Task -> Scope] /\ None \notin Scope
  /\ UserMessage \cap Command = {}
  /\ AllTools \notin Tool /\ None \notin Subject
  /\ (Request \cup Tool) \cap {None} = {} /\ Request \cap Tool = {}

VARIABLES
  issued,   \* how many requests were created
  subject, requester,  \* what each request asks for, and for whom
  resume,   \* whether it carries the message to resume
  pending, expired,    \* requests that await an answer, and those over time
  grants,   \* the queue of one-turn grants, by the request they come from
  approved, \* tools the runtime policy lets run
  at,       \* where a task is
  held,     \* the request or tool a command works on, or None
  bypass    \* the grant a turn consumed, or None

approvalVars ==
  <<issued, subject, requester, resume, pending, expired, grants, approved, at, held, bypass>>

ApprovalsTypeOK ==
  /\ issued \in 0..MaxRequests
  /\ subject \in [Request -> Subject \cup {None}]
  /\ requester \in [Request -> Scope \cup {None}]
  /\ resume \in [Request -> BOOLEAN]
  /\ pending \subseteq 1..issued /\ expired \subseteq pending
  /\ grants \in Seq(1..issued)
  /\ approved \subseteq Tool
  /\ at \in [Task -> {"new", "confirmed", "always", "approving", "revoked",
                      "resuming", "looping", "over"}]
  /\ held \in [Task -> (1..issued) \cup Tool \cup {None}]
  /\ bypass \in [Task -> (1..issued) \cup {None}]

ApprovalsInit ==
  /\ issued = 0
  /\ subject = [r \in Request |-> None]
  /\ requester = [r \in Request |-> None]
  /\ resume = [r \in Request |-> FALSE]
  /\ pending = {} /\ expired = {} /\ grants = <<>>
  /\ approved = {}
  /\ at = [t \in Task |-> "new"]
  /\ held = [t \in Task |-> None]
  /\ bypass = [t \in Task |-> None]

-----------------------------------------------------------------------------
(* The manager.                                                            *)

\* What prune_expired_pending_requests leaves.
Live == pending \ expired

\* The live requests of scope s for x.
Same(x, s) == {r \in Live : subject[r] = x /\ requester[r] = s}

\* create_non_cli_pending_request: an equal request is handed out again as it is.
Create(x, s, withResume) ==
  /\ expired' = {}
  /\ \/ /\ Same(x, s) # {}
        /\ pending' = Live
        /\ UNCHANGED <<issued, subject, requester, resume>>
     \/ /\ Same(x, s) = {} /\ issued < MaxRequests
        /\ issued' = issued + 1
        /\ pending' = Live \cup {issued'}
        /\ subject' = [subject EXCEPT ![issued'] = x]
        /\ requester' = [requester EXCEPT ![issued'] = s]
        /\ resume' = [resume EXCEPT ![issued'] = withResume]

\* Fault: the answer may come from any chat.
AnswerableByAnyone(r, s) == r \in Live

\* The outcomes of confirm_ and reject_non_cli_pending_request.
Answerable(r, s) == r \in Live /\ requester[r] = s

Remove(r) == pending' = Live \ {r} /\ expired' = {}

Prune == pending' = Live /\ expired' = {}

Withdraw(x) == pending' = {r \in Live : subject[r] # x} /\ expired' = {}

Without(s, i) == [k \in 1..(Len(s) - 1) |-> IF k < i THEN s[k] ELSE s[k + 1]]

\* Fault: any grant will do.
MatchingAnyScope(s) == 1..Len(grants)

\* Positions of the grants that match a scope.
Matching(s) == {i \in 1..Len(grants) : requester[grants[i]] = s}

\* Fault: the grant is cloned and stays.
Peek(i) == UNCHANGED grants

Consume(i) == grants' = Without(grants, i)

-----------------------------------------------------------------------------
(* Turns.                                                                  *)

requests == <<issued, subject, requester, resume, pending, expired>>

\* A message, or the message a command resumes, about to enter the tool loop.
Entering(t) == (t \in UserMessage /\ at[t] = "new") \/ at[t] = "resuming"

\* consume_non_cli_turn_grant_for_context takes the first grant that matches.
BeginBypassing(t) ==
  /\ Entering(t)
  /\ \E i \in Matching(ScopeOf[t]) :
       /\ \A j \in Matching(ScopeOf[t]) : i <= j
       /\ bypass' = [bypass EXCEPT ![t] = grants[i]]
       /\ Consume(i)
  /\ at' = [at EXCEPT ![t] = "looping"]
  /\ UNCHANGED <<requests, approved, held>>

Begin(t) ==
  /\ Entering(t) /\ Matching(ScopeOf[t]) = {}
  /\ at' = [at EXCEPT ![t] = "looping"]
  /\ UNCHANGED <<requests, grants, approved, held, bypass>>

\* Answered or refused before the tool loop.
EndEarly(t) ==
  /\ Entering(t)
  /\ at' = [at EXCEPT ![t] = "over"]
  /\ UNCHANGED <<requests, grants, approved, held, bypass>>

\* Capability recovery: the message needs a tool that is not approved.
Recover(m, x) ==
  /\ at[m] = "new"
  /\ grants = <<>> /\ x \notin approved
  /\ Create(x, ScopeOf[m], TRUE)
  /\ at' = [at EXCEPT ![m] = "over"]
  /\ UNCHANGED <<grants, approved, held, bypass>>

\* The plan has a tool that needs approval: prompt, and end the turn.
AskForPlan(t) ==
  /\ at[t] = "looping" /\ bypass[t] = None
  /\ Tool \ approved # {}
  /\ Create(AllTools, ScopeOf[t], TRUE)
  /\ at' = [at EXCEPT ![t] = "over"]
  /\ UNCHANGED <<grants, approved, held, bypass>>

\* The other tool calls, the answer, errors and cancellation.
Finish(t) ==
  /\ at[t] = "looping"
  /\ at' = [at EXCEPT ![t] = "over"]
  /\ UNCHANGED <<requests, grants, approved, held, bypass>>

Turn(t) ==
  \/ BeginBypassing(t) \/ Begin(t) \/ EndEarly(t) \/ AskForPlan(t) \/ Finish(t)

-----------------------------------------------------------------------------
(* Commands.                                                               *)

\* The actor gate.
May(c) == at[c] = "new" /\ ScopeOf[c] \in Approver

Done(c) == at' = [at EXCEPT ![c] = "over"]

Refused(c) ==
  /\ at[c] = "new" /\ ScopeOf[c] \notin Approver
  /\ Done(c)
  /\ UNCHANGED <<requests, grants, approved, held, bypass>>

\* RequestToolApproval and RequestAllToolsOnce.
RequestApproval(c, x) ==
  /\ May(c) /\ x \notin approved
  /\ Create(x, ScopeOf[c], FALSE)
  /\ Done(c)
  /\ UNCHANGED <<grants, approved, held, bypass>>

\* ConfirmToolApproval, and ConfirmToolApprovalAlways.
Confirm(c, r, kind) ==
  /\ May(c) /\ Answerable(r, ScopeOf[c])
  /\ Remove(r)
  /\ held' = [held EXCEPT ![c] = r]
  /\ at' = [at EXCEPT ![c] = kind]
  /\ UNCHANGED <<issued, subject, requester, resume, grants, approved, bypass>>

\* NotFound and RequesterMismatch.  Listing prunes just so.
ConfirmFails(c, r) ==
  /\ May(c) /\ ~Answerable(r, ScopeOf[c])
  /\ Prune
  /\ Done(c)
  /\ UNCHANGED <<issued, subject, requester, resume, grants, approved, held, bypass>>

\* DenyToolApproval, and ApprovePendingRequest, which nothing follows up.
Dismiss(c, r) ==
  /\ May(c) /\ Answerable(r, ScopeOf[c])
  /\ Remove(r)
  /\ Done(c)
  /\ UNCHANGED <<issued, subject, requester, resume, grants, approved, held, bypass>>

\* A resumable request, or follow-up text in the command, starts a turn.
GoOn(c) ==
  \E next \in {"resuming"} \cup (IF resume[held[c]] THEN {} ELSE {"over"}) :
    at' = [at EXCEPT ![c] = next]

\* grant_non_cli_turn_grant
PushGrant(c) ==
  /\ \/ at[c] = "confirmed" /\ subject[held[c]] = AllTools /\ GoOn(c)
     \/ at[c] = "always" /\ subject[held[c]] = AllTools /\ GoOn(c)
     \/ /\ at[c] = "always" /\ subject[held[c]] # AllTools
        /\ at' = [at EXCEPT ![c] = "confirmed"]
  /\ grants' = Append(grants, held[c])
  /\ UNCHANGED <<requests, approved, held, bypass>>

\* grant_non_cli_session and apply_persistent_runtime_grant.
GrantTool(c) ==
  /\ at[c] = "confirmed" /\ subject[held[c]] # AllTools
  /\ approved' = approved \cup {subject[held[c]]}
  /\ GoOn(c)
  /\ UNCHANGED <<requests, grants, held, bypass>>

\* ApproveTool: first the pending requests are cleared, then the tool granted.
Approve(c, x) ==
  /\ May(c)
  /\ Withdraw(x)
  /\ held' = [held EXCEPT ![c] = x]
  /\ at' = [at EXCEPT ![c] = "approving"]
  /\ UNCHANGED <<issued, subject, requester, resume, grants, approved, bypass>>

ApproveDone(c) ==
  /\ at[c] = "approving"
  /\ approved' = approved \cup {held[c]}
  /\ Done(c)
  /\ UNCHANGED <<requests, grants, held, bypass>>

\* UnapproveTool: the other way round.
Unapprove(c, x) ==
  /\ May(c)
  /\ approved' = approved \ {x}
  /\ held' = [held EXCEPT ![c] = x]
  /\ at' = [at EXCEPT ![c] = "revoked"]
  /\ UNCHANGED <<requests, grants, bypass>>

UnapproveDone(c) ==
  /\ at[c] = "revoked"
  /\ Withdraw(held[c])
  /\ Done(c)
  /\ UNCHANGED <<issued, subject, requester, resume, grants, approved, held, bypass>>

\* Thirty minutes have passed.
Expire(r) ==
  /\ r \in Live
  /\ expired' = expired \cup {r}
  /\ UNCHANGED <<issued, subject, requester, resume, pending, grants, approved, at, held, bypass>>

\* replace_runtime_non_cli_policy after a reload of the configuration.
ReloadPolicy ==
  /\ \E tools \in SUBSET Tool : approved' = tools
  /\ UNCHANGED <<requests, grants, at, held, bypass>>

CommandStep(c) ==
  \/ Refused(c) \/ PushGrant(c) \/ GrantTool(c) \/ ApproveDone(c) \/ UnapproveDone(c)
  \/ \E x \in Subject : RequestApproval(c, x)
  \/ \E x \in Tool : Approve(c, x) \/ Unapprove(c, x)
  \/ \E r \in Request :
       \/ \E kind \in {"confirmed", "always"} : Confirm(c, r, kind)
       \/ ConfirmFails(c, r) \/ Dismiss(c, r)

ApprovalsNext ==
  \/ \E t \in Task : Turn(t)
  \/ \E m \in UserMessage, x \in Tool : Recover(m, x)
  \/ \E c \in Command : CommandStep(c)
  \/ \E r \in Request : Expire(r)
  \/ ReloadPolicy

ApprovalsSpec == ApprovalsInit /\ [][ApprovalsNext]_approvalVars

-----------------------------------------------------------------------------
(* Properties.                                                             *)

\* Requests confirmed for a turn whose grant is not queued yet.
Owed ==
  {r \in Request : \E c \in Command :
     /\ held[c] = r
     /\ at[c] = "always" \/ (at[c] = "confirmed" /\ subject[r] = AllTools)}

Queued == {grants[i] : i \in 1..Len(grants)}

Used == {r \in Request : \E t \in Task : bypass[t] = r}

\* An answer counts once: a request is at any time with at most one of the
\* pending map, one confirming command, the queue (once) and one turn, however
\* the commands and turns interleave.
OneTurnPerApproval ==
  /\ pending \cap (Owed \cup Queued \cup Used) = {}
  /\ Owed \cap (Queued \cup Used) = {} /\ Queued \cap Used = {}
  /\ \A i, j \in 1..Len(grants) : grants[i] = grants[j] => i = j
  /\ \A t, u \in Task : bypass[t] = bypass[u] /\ bypass[t] # None => t = u
  /\ \A c, d \in Command :
       held[c] = held[d] /\ {at[c], at[d]} \subseteq {"confirmed", "always"} => c = d

\* A turn skips its prompts only by a grant that its own sender asked for in its
\* own chat, and nobody's grant is queued, or about to be, but one that its
\* requester may confirm.
BypassInScope ==
  /\ \A t \in Task : bypass[t] # None => requester[bypass[t]] = ScopeOf[t]
  /\ \A r \in Owed \cup Queued \cup Used : requester[r] \in Approver

\* At most one request per scope and subject awaits an answer, expiries and
\* clearings in between notwithstanding.
OnePendingPerScope ==
  \A r, q \in Live : subject[r] = subject[q] /\ requester[r] = requester[q] => r = q

\* Each approval is asked for once, used once, and by whom it is for.
ApprovalsUsedOnce == OneTurnPerApproval /\ BypassInScope /\ OnePendingPerScope

phaseOf ==
  [r \in Request |->
     IF r > issued THEN "none"
     ELSE IF r \in Live THEN "asked"
     ELSE IF r \in Owed \cup Queued THEN "approved"
     ELSE IF r \in Used THEN "used"
     ELSE "closed"]

UserOf(r) == IF r \in Used THEN ScopeOf[CHOOSE t \in Task : bypass[t] = r] ELSE None

userOf == [r \in Request |-> UserOf(r)]

Ledger == INSTANCE GrantLedger WITH
  NoScope <- None, phase <- phaseOf, asker <- requester, user <- userOf

\* Pending requests, grants and turns implement the ledger: asked, approved and
\* used once by the scope that asked.
ImplementsGrantLedger == Ledger!Spec

=============================================================================
