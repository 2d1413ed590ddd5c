------------------------------ MODULE CronJobs ------------------------------
(***************************************************************************)
(* Scheduled jobs: the rows of jobs.db (cron/store.rs), the scheduler that *)
(* polls, runs and settles them (cron/scheduler.rs) and the commands and   *)
(* tools that add, change, remove and run them meanwhile (cron/mod.rs,     *)
(* tools/cron_*.rs).                                                       *)
(*                                                                         *)
(* Every statement opens its own connection, so a statement is a step, and *)
(* update_job, which reads a row and writes all of it back, is two.  The   *)
(* scheduler works on the rows as the poll read them.  Time is counted in  *)
(* ticks; a recurring schedule, by interval or by cron expression, is due  *)
(* a number of ticks after the run before.  A cron expression may name a   *)
(* year: it is due at every tick up to its last one, and never again.      *)
(* What a job runs and where its output goes is one outcome, run history   *)
(* and the text columns are left out.                                      *)
(***************************************************************************)
EXTENDS Naturals, FiniteSets

CONSTANTS
  Job,
  Client,         \* commands and tool calls, one operation each
  Schedule,       \* records [kind : {"at", "every", "until"}, time : Nat]
  NoRow,
  Tables,         \* what the table may hold to begin with
  MaxTasks, MaxConcurrentJobs,  \* scheduler.max_tasks and .max_concurrent
  MaxTime,        \* bound: the last tick
  MaxFaults       \* bound: crashes and failing statements

Row == [sched : Schedule, enabled : BOOLEAN, once : BOOLEAN, next : Nat]
Patch ==
  [kind : {"enabled", "once"}, to : BOOLEAN] \cup [kind : {"sched"}, to : Schedule]
    \cup {[kind |-> "text"]}

ASSUME CronAssumption ==
  /\ Schedule \subseteq [kind : {"at", "every", "until"}, time : Nat \ {0}]
  /\ MaxTasks \in Nat \ {0} /\ MaxConcurrentJobs \in Nat \ {0}
  /\ Tables \subseteq [Job -> Row \cup {NoRow}]
  /\ \A t \in Tables : \A j \in Job : t[j] # NoRow =>
       IF t[j].sched.kind = "at" THEN t[j].next = t[j].sched.time
       ELSE t[j].next <= t[j].sched.time
  /\ MaxTime \in Nat /\ MaxFaults \in Nat
  /\ NoRow \notin Row

VARIABLES
  now,
  row,      \* the table: a job's row, or NoRow
  known,    \* jobs that were ever added: ids are never used twice
  stage,    \* where the scheduler is with a job of its batch
  snap,     \* the row as the poll read it
  op, target, patch, copy,  \* a client: where it is, its job, change and row read
  faults,
  asked,    \* auxiliary: what clients asked of a job last
  late,     \* auxiliary: jobs that a client changed after the poll had read them
  retired,  \* auxiliary: jobs that the scheduler ended since a client changed them
  overruled,\* auxiliary: of those, the ones that it ended though they were late
  raced,    \* auxiliary: jobs of which a row was written back that had changed
  overtaken,\* auxiliary: jobs settled by a schedule that had changed
  spent,    \* auxiliary: one-shot jobs the scheduler has started
  cut       \* auxiliary: jobs whose run was not settled

cronVars ==
  <<now, row, known, stage, snap, op, target, patch, copy, faults,
    asked, late, retired, overruled, raced, overtaken, spent, cut>>

Fields == [sched : Schedule, enabled : BOOLEAN, once : BOOLEAN]
FieldsOf(r) == [sched |-> r.sched, enabled |-> r.enabled, once |-> r.once]

CronTypeOK ==
  /\ now \in 0..MaxTime
  /\ row \in [Job -> Row \cup {NoRow}] /\ known \subseteq Job
  /\ stage \in [Job -> {"none", "waiting", "running", "succeeded", "failed", "disabling"}]
  /\ snap \in [Job -> Row \cup {NoRow}]
  /\ op \in [Client -> {"new", "writing", "running", "over"}]
  /\ target \in [Client -> Job \cup {NoRow}]
  /\ patch \in [Client -> Patch \cup {NoRow}]
  /\ copy \in [Client -> Row \cup {NoRow}]
  /\ faults \in 0..MaxFaults
  /\ asked \in [Job -> Fields \cup {NoRow}]
  /\ late \subseteq Job /\ retired \subseteq Job /\ overruled \subseteq Job
  /\ raced \subseteq Job /\ overtaken \subseteq Job /\ spent \subseteq Job /\ cut \subseteq Job

CronInit ==
  /\ now = 0
  /\ row \in Tables /\ known = {j \in Job : row[j] # NoRow}
  /\ stage = [j \in Job |-> "none"] /\ snap = [j \in Job |-> NoRow]
  /\ op = [c \in Client |-> "new"] /\ target = [c \in Client |-> NoRow]
  /\ patch = [c \in Client |-> NoRow] /\ copy = [c \in Client |-> NoRow]
  /\ faults = 0
  /\ asked = [j \in Job |-> IF row[j] = NoRow THEN NoRow ELSE FieldsOf(row[j])]
  /\ late = {} /\ retired = {} /\ overruled = {}
  /\ raced = {} /\ overtaken = {} /\ spent = {} /\ cut = {}

batch == <<stage, snap>>
client == <<op, target, patch, copy>>
ends == <<retired, overruled>>
notes == <<asked, late, ends, raced, overtaken, spent, cut>>

-----------------------------------------------------------------------------
(* Rows.                                                                   *)

\* next_run_for_schedule fails when there is no future occurrence.
HasNext(s, from) == s.kind = "until" => from < s.time

NextRun(s, from) ==
  CASE s.kind = "at"    -> s.time
    [] s.kind = "every" -> from + s.time
    [] OTHER            -> from + 1

\* validate_schedule
ValidSchedule(s) == (s.kind = "at" => s.time > now) /\ HasNext(s, now)

\* is_one_shot_auto_delete
OneShot(r) == r.once /\ r.sched.kind = "at"

\* The patch of update_job, applied to the row it has read.
Patched(r, p) ==
  CASE p.kind = "enabled" -> [r EXCEPT !.enabled = p.to]
    [] p.kind = "once"    -> [r EXCEPT !.once = p.to]
    [] p.kind = "sched"   -> [r EXCEPT !.sched = p.to]
    [] OTHER              -> r

\* Fault: the next run stays.
OnlyPatched(r, p) == Patched(r, p)

\* A change of the schedule sets the next run too.
Amend(r, p) ==
  IF p.kind = "sched" THEN [Patched(r, p) EXCEPT !.next = NextRun(p.to, now)] ELSE Patched(r, p)

\* remove_job for a client; the notes on the job go with it.
Delete(j) ==
  /\ row' = [row EXCEPT ![j] = NoRow]
  /\ asked' = [asked EXCEPT ![j] = NoRow]
  /\ retired' = retired \ {j} /\ overruled' = overruled \ {j}
  /\ raced' = raced \ {j} /\ overtaken' = overtaken \ {j}
  /\ spent' = spent \ {j} /\ cut' = cut \ {j}

Fault == faults < MaxFaults /\ faults' = faults + 1

Tick ==
  /\ now < MaxTime /\ now' = now + 1
  /\ UNCHANGED <<row, known, batch, client, faults, notes>>

-----------------------------------------------------------------------------
(* The scheduler.                                                          *)

Due(j) == row[j] # NoRow /\ row[j].enabled /\ row[j].next <= now

DueJobs == {j \in Job : Due(j)}

BatchDone == \A j \in Job : stage[j] = "none"

\* due_jobs: the MaxTasks due rows with the earliest next_run.
Poll ==
  /\ BatchDone
  /\ \E B \in SUBSET DueJobs :
       /\ B # {} /\ Cardinality(B) <= MaxTasks
       /\ Cardinality(B) = MaxTasks \/ B = DueJobs
       /\ \A j \in B, k \in DueJobs \ B : row[j].next <= row[k].next
       /\ stage' = [j \in Job |-> IF j \in B THEN "waiting" ELSE "none"]
       /\ snap' = [j \in Job |-> IF j \in B THEN row[j] ELSE NoRow]
  /\ UNCHANGED <<now, row, known, client, faults, notes>>

Active == {j \in Job : stage[j] \notin {"none", "waiting"}}

\* buffer_unordered starts jobs in order, at most MaxConcurrentJobs at a time.
Start(j) ==
  /\ stage[j] = "waiting" /\ Cardinality(Active) < MaxConcurrentJobs
  /\ \A k \in Job : stage[k] = "waiting" => snap[j].next <= snap[k].next
  /\ stage' = [stage EXCEPT ![j] = "running"]
  /\ spent' = IF OneShot(snap[j]) /\ row[j] = snap[j] THEN spent \cup {j} ELSE spent \ {j}
  /\ cut' = cut \ {j}
  /\ UNCHANGED <<now, row, known, snap, client, faults, asked, late, ends, raced, overtaken>>

\* The attempts and the delivery are over.
Ran(j) ==
  /\ stage[j] = "running"
  /\ \E outcome \in {"succeeded", "failed"} : stage' = [stage EXCEPT ![j] = outcome]
  /\ UNCHANGED <<now, row, known, snap, client, faults, notes>>

\* Done with a job of the batch.
LeaveBatch(j) ==
  /\ stage' = [stage EXCEPT ![j] = "none"]
  /\ snap' = [snap EXCEPT ![j] = NoRow]
  /\ late' = late \ {j}

\* Fault: the row is written as it was read.
RescheduleRow(j) ==
  /\ stage[j] \in {"succeeded", "failed"} /\ ~OneShot(snap[j])
  /\ LeaveBatch(j)
  /\ row' = IF row[j] = NoRow THEN row
            ELSE [row EXCEPT ![j] = [snap[j] EXCEPT !.next = NextRun(snap[j].sched, now)]]
  /\ UNCHANGED <<now, known, client, faults, asked, ends, raced, overtaken, spent, cut>>

\* Fault: a row that is gone is inserted again.
RescheduleUpsert(j) ==
  /\ stage[j] \in {"succeeded", "failed"} /\ ~OneShot(snap[j])
  /\ LeaveBatch(j)
  /\ row' = [row EXCEPT ![j] =
               [IF @ = NoRow THEN snap[j] ELSE @ EXCEPT !.next = NextRun(snap[j].sched, now)]]
  /\ UNCHANGED <<now, known, client, faults, asked, ends, raced, overtaken, spent, cut>>

\* Fault: the next run counts from the one that was due.
RescheduleFromDue(j) ==
  /\ stage[j] \in {"succeeded", "failed"} /\ ~OneShot(snap[j])
  /\ LeaveBatch(j)
  /\ row' = IF row[j] = NoRow THEN row
            ELSE [row EXCEPT ![j].next = snap[j].next]
  /\ UNCHANGED <<now, known, client, faults, asked, ends, raced, overtaken, spent, cut>>

\* reschedule_after_run goes by the schedule the poll read; when that has no
\* next run the row is left as it is, due.
Reschedule(j) ==
  /\ stage[j] \in {"succeeded", "failed"} /\ ~OneShot(snap[j])
  /\ LeaveBatch(j)
  /\ \/ /\ row[j] # NoRow /\ HasNext(snap[j].sched, now)
        /\ row' = [row EXCEPT ![j].next = NextRun(snap[j].sched, now)]
        /\ overtaken' = IF row[j].sched # snap[j].sched THEN overtaken \cup {j} ELSE overtaken \ {j}
     \/ /\ row[j] = NoRow \/ ~HasNext(snap[j].sched, now)
        /\ UNCHANGED <<row, overtaken>>
  /\ UNCHANGED <<now, known, client, faults, asked, ends, raced, spent, cut>>

\* The scheduler removes or disables a job, whatever became of it during its run.
Retire(j) ==
  /\ retired' = retired \cup {j}
  /\ overruled' = IF j \in late THEN overruled \cup {j} ELSE overruled

RemoveOnce(j) ==
  /\ stage[j] = "succeeded" /\ OneShot(snap[j])
  /\ LeaveBatch(j)
  /\ IF row[j] = NoRow THEN UNCHANGED <<row, ends>>
     ELSE row' = [row EXCEPT ![j] = NoRow] /\ Retire(j)
  /\ spent' = spent \ {j}
  /\ UNCHANGED <<now, known, client, faults, asked, raced, overtaken, cut>>

\* update_job with enabled = false: the row is read ...
ReadToDisable(j) ==
  /\ stage[j] = "failed" /\ OneShot(snap[j])
  /\ \/ /\ row[j] = NoRow
        /\ LeaveBatch(j)
     \/ /\ row[j] # NoRow
        /\ stage' = [stage EXCEPT ![j] = "disabling"]
        /\ snap' = [snap EXCEPT ![j] = row[j]]
        /\ UNCHANGED late
  /\ UNCHANGED <<now, row, known, client, faults, asked, ends, raced, overtaken, spent, cut>>

\* ... and written back.
Disable(j) ==
  /\ stage[j] = "disabling"
  /\ LeaveBatch(j)
  /\ IF row[j] = NoRow THEN UNCHANGED <<row, ends, raced>>
     ELSE /\ row' = [row EXCEPT ![j] = [snap[j] EXCEPT !.enabled = FALSE]]
          /\ Retire(j)
          /\ raced' = IF row[j] = snap[j] THEN raced ELSE raced \cup {j}
  /\ UNCHANGED <<now, known, client, faults, asked, overtaken, spent, cut>>

\* A statement that settles a run fails, and the scheduler goes on.
SettleFails(j) ==
  /\ Fault
  /\ stage[j] \in {"succeeded", "failed", "disabling"}
  /\ LeaveBatch(j)
  /\ cut' = cut \cup {j}
  /\ UNCHANGED <<now, row, known, client, asked, ends, raced, overtaken, spent>>

\* The process ends and is started again; its tool calls end with it, and so do
\* commands of other processes, if they like.
Crash ==
  /\ Fault
  /\ stage' = [j \in Job |-> "none"] /\ snap' = [j \in Job |-> NoRow]
  /\ cut' = cut \cup Active /\ late' = {}
  /\ \E C \in SUBSET {c \in Client : op[c] \in {"writing", "running"}} :
       /\ op' = [c \in Client |-> IF c \in C THEN "over" ELSE op[c]]
       /\ target' = [c \in Client |-> IF c \in C THEN NoRow ELSE target[c]]
       /\ patch' = [c \in Client |-> IF c \in C THEN NoRow ELSE patch[c]]
       /\ copy' = [c \in Client |-> IF c \in C THEN NoRow ELSE copy[c]]
  /\ UNCHANGED <<now, row, known, asked, ends, raced, overtaken, spent>>

SchedulerStep(j) ==
  Start(j) \/ Ran(j) \/ Reschedule(j) \/ RemoveOnce(j) \/ ReadToDisable(j) \/ Disable(j)

-----------------------------------------------------------------------------
(* Commands and tools.                                                     *)

Over(c) ==
  /\ op' = [op EXCEPT ![c] = "over"]
  /\ target' = [target EXCEPT ![c] = NoRow]
  /\ patch' = [patch EXCEPT ![c] = NoRow]
  /\ copy' = [copy EXCEPT ![c] = NoRow]

\* add_shell_job deletes one-shot jobs after their run, add_agent_job as told.
Add(c, j, s, once) ==
  /\ op[c] = "new" /\ Over(c)
  /\ j \notin known /\ known' = known \cup {j}
  /\ ValidSchedule(s)
  /\ row' = [row EXCEPT ![j] = [sched |-> s, enabled |-> TRUE, once |-> once, next |-> NextRun(s, now)]]
  /\ asked' = [asked EXCEPT ![j] = [sched |-> s, enabled |-> TRUE, once |-> once]]
  /\ UNCHANGED <<now, batch, faults, late, ends, raced, overtaken, spent, cut>>

Remove(c, j) ==
  /\ op[c] = "new" /\ Over(c)
  /\ row[j] # NoRow
  /\ Delete(j)
  /\ UNCHANGED <<now, known, batch, faults, late>>

\* update_job, pause_job, resume_job: the row is read ...
BeginUpdate(c, j, p) ==
  /\ op[c] = "new" /\ row[j] # NoRow
  /\ p.kind = "sched" => ValidSchedule(p.to)
  /\ op' = [op EXCEPT ![c] = "writing"]
  /\ target' = [target EXCEPT ![c] = j]
  /\ patch' = [patch EXCEPT ![c] = p]
  /\ copy' = [copy EXCEPT ![c] = row[j]]
  /\ UNCHANGED <<now, row, known, batch, faults, notes>>

\* What a client takes a job for that it has read: as asked, but for the switch
\* that the scheduler has turned off.
Standing(j) == IF j \in retired THEN [asked[j] EXCEPT !.enabled = FALSE] ELSE asked[j]

\* ... and all of it written back, when it is still there and a new schedule still
\* has a next run.
EndUpdate(c) ==
  LET j == target[c]  p == patch[c] IN
  /\ op[c] = "writing" /\ Over(c)
  /\ \/ /\ row[j] = NoRow \/ (p.kind = "sched" /\ ~HasNext(p.to, now))
        /\ UNCHANGED <<row, notes>>
     \/ /\ row[j] # NoRow /\ (p.kind = "sched" => HasNext(p.to, now))
        /\ row' = [row EXCEPT ![j] = Amend(copy[c], p)]
        /\ asked' = [asked EXCEPT ![j] = Patched(Standing(j), p)]
        /\ retired' = retired \ {j} /\ overruled' = overruled \ {j}
        /\ late' = IF p.kind # "text" /\ stage[j] # "none" THEN late \cup {j} ELSE late
        /\ raced' = IF row[j] = copy[c] THEN raced ELSE raced \cup {j}
        /\ overtaken' = IF p.kind = "sched" THEN overtaken \ {j} ELSE overtaken
        /\ spent' = IF p.kind = "text" THEN spent ELSE spent \ {j}
        /\ UNCHANGED cut
  /\ UNCHANGED <<now, known, batch, faults>>

\* cron_run: the job runs once more, at once; its row stays as it is.
RunNow(c, j) ==
  /\ op[c] = "new" /\ row[j] # NoRow
  /\ op' = [op EXCEPT ![c] = "running"]
  /\ target' = [target EXCEPT ![c] = j]
  /\ UNCHANGED <<now, row, known, batch, patch, copy, faults, notes>>

RunNowEnds(c) ==
  /\ op[c] = "running" /\ Over(c)
  /\ UNCHANGED <<now, row, known, batch, faults, notes>>

ClientStep(c) ==
  \/ EndUpdate(c) \/ RunNowEnds(c)
  \/ \E j \in Job :
       \/ \E s \in Schedule, once \in BOOLEAN : Add(c, j, s, once)
       \/ Remove(c, j) \/ RunNow(c, j)
       \/ \E p \in Patch : BeginUpdate(c, j, p)

CronNext ==
  \/ Tick \/ Poll \/ Crash
  \/ \E j \in Job : SchedulerStep(j) \/ SettleFails(j)
  \/ \E c \in Client : ClientStep(c)

CronSpec == CronInit /\ [][CronNext]_cronVars

\* The interval ticks, jobs end and their results are written.
CronFairness ==
  /\ WF_cronVars(Poll)
  /\ \A j \in Job : WF_cronVars(SchedulerStep(j))

CronFairSpec == CronSpec /\ CronFairness

-----------------------------------------------------------------------------
(* Properties.                                                             *)

\* A removed job never comes back, whichever updates and runs of it were under way.
RemovedForGood == [][\A j \in known : row[j] = NoRow => row'[j] = NoRow]_cronVars

\* Unless two updates of a row crossed, a row has the schedule, the switch and the
\* one-shot mark that clients asked for last, and it is there unless they removed it.
\* The scheduler may end a job, which then is gone or switched off and otherwise as
\* asked; it ends only what clients asked to run once, except that a change they
\* made during the run comes too late: the settling does not look at it.
\* (update_job, reschedule_after_run, persist_job_result)
ChangesLast ==
  \A j \in Job \ raced :
    \/ /\ j \notin retired
       /\ IF row[j] = NoRow THEN asked[j] = NoRow ELSE FieldsOf(row[j]) = asked[j]
    \/ /\ j \in retired
       /\ row[j] = NoRow \/ FieldsOf(row[j]) = [asked[j] EXCEPT !.enabled = FALSE]
       /\ j \in overruled \/ (asked[j].enabled /\ OneShot(asked[j]))

\* A one-shot job that was started is removed or disabled once it is settled,
\* unless it was changed meanwhile, its settling failed or updates crossed.
OneShotEnds ==
  \A j \in spent \ (raced \cup cut) :
    stage[j] \in {"none", "waiting"} => row[j] = NoRow \/ ~row[j].enabled

\* The next run of a row belongs to its schedule, except where a run was settled
\* after the schedule had changed or updates crossed.
NextRunOfSchedule ==
  \A j \in Job \ (raced \cup overtaken) : row[j] # NoRow =>
    CASE row[j].sched.kind = "at"    -> row[j].next = row[j].sched.time
      [] row[j].sched.kind = "every" -> row[j].next <= now + row[j].sched.time
      [] OTHER                       -> row[j].next <= row[j].sched.time

\* Both: settling leaves every row as its schedule has it.
SettledAsScheduled == OneShotEnds /\ NextRunOfSchedule

\* Jobs that stay due when they have run: a one-shot job that is kept, and one whose
\* cron expression has had its last occurrence, which cannot be rescheduled.
Sticky ==
  {j \in DueJobs : \/ row[j].sched.kind = "at" /\ ~row[j].once
                   \/ ~HasNext(row[j].sched, now)}

\* A due job is run and no longer due, or it is removed or disabled, also after
\* crashes and failing statements, as long as fewer than MaxTasks jobs stay due.
DueJobsSettle ==
  [](Cardinality(Sticky) < MaxTasks)
    => \A j \in Job : (Due(j) /\ j \notin Sticky) ~> (~Due(j) \/ j \in Sticky)

=============================================================================
