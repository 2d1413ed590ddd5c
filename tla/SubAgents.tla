----------------------------- MODULE SubAgents -----------------------------
(***************************************************************************)
(* Background sub-agents: SubAgentRegistry (tools/subagent_registry.rs),   *)
(* the subagent_spawn tool that starts them (tools/subagent_spawn.rs), the *)
(* subagent_manage tool that kills them (tools/subagent_manage.rs) and the *)
(* clean-up that subagent_list does on its way.                            *)
(*                                                                         *)
(* Every registry method is one step under the write lock.  Between two of *)
(* them other agents' tool calls and the sub-agents themselves go on: the  *)
(* spawner registers the session, starts the task, and stores the handle   *)
(* in three steps, and a task reports its outcome in a step of its own     *)
(* after its last await.  abort() stops a task only where it awaits.       *)
(*                                                                         *)
(* Sessions that ended are kept for an hour: any of them may be that old   *)
(* when somebody lists, but not before its spawner has returned.           *)
(***************************************************************************)
EXTENDS Naturals, FiniteSets

CONSTANTS
  Session,       \* session ids
  MaxConcurrent  \* MAX_CONCURRENT_SUBAGENTS

ASSUME SubAgentsAssumption == MaxConcurrent \in Nat \ {0}

VARIABLES
  status,  \* sessions: the status, or "absent" when the map has no such session
  handle,  \* sessions whose handle is stored
  spawner, \* where subagent_spawn is
  task,    \* where the spawned task is
  aborted, \* tasks whose handle was aborted
  kill     \* auxiliary: the kill of a session, clean when the handle was
           \* stored and the task at an await, else raced

subAgentVars == <<status, handle, spawner, task, aborted, kill>>

Status == {"absent", "Running", "Completed", "Failed", "Killed"}

SubAgentsTypeOK ==
  /\ status \in [Session -> Status]
  /\ handle \subseteq Session
  /\ spawner \in [Session -> {"idle", "inserted", "spawned", "returned", "refused"}]
  /\ task \in [Session -> {"none", "working", "reporting", "over"}]
  /\ aborted \subseteq Session /\ kill \in [Session -> {"none", "clean", "raced"}]

SubAgentsInit ==
  /\ status = [s \in Session |-> "absent"]
  /\ handle = {}
  /\ spawner = [s \in Session |-> "idle"]
  /\ task = [s \in Session |-> "none"]
  /\ aborted = {} /\ kill = [s \in Session |-> "none"]

Running == {s \in Session : status[s] = "Running"}

\* A task that may still act.
Live == {s \in Session : task[s] \in {"working", "reporting"}}

-----------------------------------------------------------------------------
(* subagent_spawn.                                                         *)

\* Fault: one more than the limit.
RoomForOneMore == Cardinality(Running) <= MaxConcurrent

\* try_insert counts the running sessions under the lock it inserts under.
Room == Cardinality(Running) < MaxConcurrent

TryInsert(s) ==
  /\ spawner[s] = "idle"
  /\ IF Room
     THEN /\ status' = [status EXCEPT ![s] = "Running"]
          /\ spawner' = [spawner EXCEPT ![s] = "inserted"]
     ELSE /\ spawner' = [spawner EXCEPT ![s] = "refused"]
          /\ UNCHANGED status
  /\ UNCHANGED <<handle, task, aborted, kill>>

Spawn(s) ==
  /\ spawner[s] = "inserted"
  /\ spawner' = [spawner EXCEPT ![s] = "spawned"]
  /\ task' = [task EXCEPT ![s] = "working"]
  /\ UNCHANGED <<status, handle, aborted, kill>>

\* set_handle stores the handle whatever the status is by now.
SetHandle(s) ==
  /\ spawner[s] = "spawned"
  /\ spawner' = [spawner EXCEPT ![s] = "returned"]
  /\ handle' = IF status[s] = "absent" THEN handle ELSE handle \cup {s}
  /\ UNCHANGED <<status, task, aborted, kill>>

-----------------------------------------------------------------------------
(* The spawned task.                                                       *)

\* The last await returns: an answer, an error or the timeout.
Answer(s) ==
  /\ task[s] = "working" /\ s \notin aborted
  /\ task' = [task EXCEPT ![s] = "reporting"]
  /\ UNCHANGED <<status, handle, spawner, aborted, kill>>

\* complete and fail do not look at the status they replace.
Report(s, outcome) ==
  /\ task[s] = "reporting"
  /\ task' = [task EXCEPT ![s] = "over"]
  /\ IF status[s] = "absent" THEN UNCHANGED <<status, handle>>
     ELSE /\ status' = [status EXCEPT ![s] = outcome]
          /\ handle' = handle \ {s}
  /\ UNCHANGED <<spawner, aborted, kill>>

\* An aborted task is dropped where it awaits.
Cancelled(s) ==
  /\ task[s] = "working" /\ s \in aborted
  /\ task' = [task EXCEPT ![s] = "over"]
  /\ UNCHANGED <<status, handle, spawner, aborted, kill>>

-----------------------------------------------------------------------------
(* subagent_manage kill and subagent_list.                                 *)

\* Fault: the handle is dropped, which detaches the task.
NotAborted(s) == aborted

Abort(s) == IF s \in handle THEN aborted \cup {s} ELSE aborted

\* Fault: the status is left for the task to report.
NotMarked(s) == status

Marked(s) == [status EXCEPT ![s] = "Killed"]

Clean(s) == s \in handle /\ task[s] = "working"

Kill(s) ==
  /\ status[s] = "Running"
  /\ aborted' = Abort(s)
  /\ handle' = handle \ {s}
  /\ status' = Marked(s)
  /\ kill' = [kill EXCEPT ![s] = IF Clean(s) THEN "clean" ELSE "raced"]
  /\ UNCHANGED <<spawner, task>>

\* cleanup_old_sessions: any of the sessions that ended may be an hour old.
Cleanup(old) ==
  /\ old # {}
  /\ \A s \in old :
       status[s] \notin {"absent", "Running"} /\ spawner[s] = "returned"
  /\ status' = [s \in Session |-> IF s \in old THEN "absent" ELSE status[s]]
  /\ handle' = handle \ old
  /\ UNCHANGED <<spawner, task, aborted, kill>>

\* All sessions are over and forgotten.
Idle ==
  /\ \A s \in Session : spawner[s] \in {"returned", "refused"} /\ s \notin Live
  /\ \A s \in Session : status[s] = "absent"
  /\ UNCHANGED subAgentVars

Task(s) == Answer(s) \/ Cancelled(s) \/ \E o \in {"Completed", "Failed"} : Report(s, o)

SubAgentsNext ==
  \/ \E s \in Session :
       TryInsert(s) \/ Spawn(s) \/ SetHandle(s) \/ Task(s) \/ Kill(s)
  \/ \E old \in SUBSET Session : Cleanup(old)
  \/ Idle

SubAgentsSpec == SubAgentsInit /\ [][SubAgentsNext]_subAgentVars

\* A spawner runs without an await once it has registered its session, and a
\* task ends under its timeout.  Nobody is bound to start, kill or list.
SubAgentsFairness ==
  \A s \in Session : WF_subAgentVars(Spawn(s)) /\ WF_subAgentVars(SetHandle(s)) /\ WF_subAgentVars(Task(s))

SubAgentsFairSpec == SubAgentsSpec /\ SubAgentsFairness

-----------------------------------------------------------------------------
(* Properties.                                                             *)

\* Sessions that are running by the registry never exceed the limit, however
\* spawners race.  (try_insert)
LimitKept == Cardinality(Running) <= MaxConcurrent

\* A session that is running has a task that will say how it ended, or a
\* spawner about to start one: a slot of the limit is never held by nothing.
\* (complete, fail, kill)
RunningIsBacked ==
  \A s \in Running : s \in Live \/ spawner[s] = "inserted"

\* Both: slots are held by live sessions, and no more than there are.
SlotsSound == LimitKept /\ RunningIsBacked

\* A kill that found the handle, and the task at an await, is final: what the
\* user was told is cancelled neither works on nor reports.  A raced kill is not:
\* complete and fail overwrite what it set.  (kill, complete)
KillIsFinal ==
  \A s \in Session : kill[s] = "clean" =>
    status[s] \in {"Killed", "absent"} /\ task[s] \in {"working", "over"}

\* No session is running for ever: whatever is killed or fails, the slot it
\* holds is free again in the end.
EverySlotIsFreed ==
  \A s \in Session : (status[s] = "Running") ~> (status[s] # "Running")
=============================================================================
