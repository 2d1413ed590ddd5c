------------------------- MODULE CronAccountsProofs -------------------------
(***************************************************************************)
(* Proofs about the cron jobs and the accounts of providers, for any number of *)
(* jobs, clients, schedules, calls, processes, profiles and faults.        *)
(*                                                                         *)
(* CronJobs: changes last, next runs belong to their schedules, one-shot jobs *)
(* end and removed jobs stay away.  The claims are about the jobs one by one. *)
(* They are inductive together with what the scheduler knows of a job in its *)
(* batch: unless a client has changed the job since the poll, the copy has it *)
(* as it was asked for, switched on, and it is a one-shot job when it is about *)
(* to be disabled.  A job is spent only while it has a row, and as long as it *)
(* runs as such the scheduler's copy says so.                              *)
(*                                                                         *)
(* AuthProfiles: the lock file is accounted for, no update of the store is *)
(* lost and no process exchanges tokens twice.  The last rests on where tokens *)
(* can be: those of a profile are only ever read, sent and stored for that *)
(* profile, those not stored yet are nowhere else, and whoever reads again, *)
(* asks or saves has the mutex of its profile.  Tokens that were exchanged are *)
(* then lost, or gone from the store, or about to be replaced by the call that *)
(* has the mutex.                                                          *)
(***************************************************************************)
EXTENDS CronJobs, AuthProfiles, TLAPS

-----------------------------------------------------------------------------
(* Cron jobs.                                                              *)

Stage == {"none", "waiting", "running", "succeeded", "failed", "disabling"}

Typed ==
  /\ now \in Nat
  /\ row \in [Job -> Row \cup {NoRow}]
  /\ stage \in [Job -> Stage] /\ snap \in [Job -> Row \cup {NoRow}]
  /\ \A j \in Job : stage[j] # "none" => snap[j] \in Row
  /\ op \in [Client -> {"new", "writing", "running", "over"}]
  /\ target \in [Client -> Job \cup {NoRow}]
  /\ patch \in [Client -> Patch \cup {NoRow}]
  /\ copy \in [Client -> Row \cup {NoRow}]
  /\ \A c \in Client : op[c] = "writing" =>
       target[c] \in Job /\ patch[c] \in Patch /\ copy[c] \in Row
  /\ asked \in [Job -> Fields \cup {NoRow}]
  /\ \A j \in Job : row[j] # NoRow => asked[j] \in Fields
  /\ known \subseteq Job /\ spent \subseteq Job

Scheduled(r, time) ==
  CASE r.sched.kind = "at"    -> r.next = r.sched.time
    [] r.sched.kind = "every" -> r.next <= time + r.sched.time
    [] OTHER                  -> r.next <= r.sched.time

\* A job is as clients asked, or the scheduler has ended it.
AsAsked(j) ==
  \/ /\ j \notin retired
     /\ IF row[j] = NoRow THEN asked[j] = NoRow ELSE FieldsOf(row[j]) = asked[j]
  \/ /\ j \in retired
     /\ row[j] = NoRow \/ FieldsOf(row[j]) = [asked[j] EXCEPT !.enabled = FALSE]
     /\ j \in overruled \/ (asked[j].enabled /\ OneShot(asked[j]))

\* The scheduler has a job of its batch as clients asked for it.
CopyAsAsked(j) ==
  stage[j] # "none" /\ row[j] # NoRow =>
    /\ j \notin retired /\ asked[j] = FieldsOf(snap[j]) /\ snap[j].enabled
    /\ stage[j] = "disabling" => OneShot(asked[j])

JobInv(j) ==
  /\ row[j] # NoRow \/ stage[j] # "none" \/ j \in retired => j \in known
  /\ j \in spent => row[j] # NoRow
  /\ j \notin raced => AsAsked(j)
  /\ j \notin raced /\ j \notin late => CopyAsAsked(j)
  /\ j \notin raced /\ j \notin overtaken /\ row[j] # NoRow => Scheduled(row[j], now)
  /\ j \in spent /\ j \notin raced /\ j \notin cut /\ stage[j] \in {"none", "waiting"}
       => ~row[j].enabled
  /\ j \in spent /\ stage[j] \in {"running", "succeeded", "failed"} => OneShot(snap[j])

CronInv == Typed /\ \A j \in Job : JobInv(j)

-----------------------------------------------------------------------------
(* Rows and patches.                                                       *)

\* A next run is a time and belongs to the schedule.
LEMMA NextRunFits ==
  ASSUME NEW s \in Schedule, NEW t \in Nat, HasNext(s, t)
  PROVE  /\ NextRun(s, t) \in Nat
         /\ CASE s.kind = "at"    -> NextRun(s, t) = s.time
              [] s.kind = "every" -> NextRun(s, t) <= t + s.time
              [] OTHER            -> NextRun(s, t) <= s.time
<1>1. s.kind \in {"at", "every", "until"} /\ s.time \in Nat
  BY CronAssumption
<1> QED  BY <1>1 DEF NextRun, HasNext

\* The settling of a run replaces the next run only.
LEMMA SetNext ==
  ASSUME NEW r \in Row, NEW t \in Nat
  PROVE  /\ [r EXCEPT !.next = t] \in Row /\ [r EXCEPT !.next = t].next = t
         /\ [r EXCEPT !.next = t].sched = r.sched /\ [r EXCEPT !.next = t].enabled = r.enabled
         /\ FieldsOf([r EXCEPT !.next = t]) = FieldsOf(r)
  BY DEF Row, FieldsOf

\* The fields of a record, one replaced.
LEMMA ReplaceField ==
  ASSUME NEW a, NEW b, NEW c, NEW d
  PROVE  [[sched |-> a, enabled |-> b, once |-> c] EXCEPT !.enabled = d] =
           [sched |-> a, enabled |-> d, once |-> c]
  OBVIOUS

LEMMA ReplaceEnabled ==
  ASSUME NEW a, NEW b, NEW c
  PROVE  [[sched |-> a, enabled |-> b, once |-> c] EXCEPT !.enabled = FALSE] =
           [sched |-> a, enabled |-> FALSE, once |-> c]
<1>1. PICK d : d = FALSE
  OBVIOUS
<1>2. [[sched |-> a, enabled |-> b, once |-> c] EXCEPT !.enabled = d] =
        [sched |-> a, enabled |-> d, once |-> c]
  BY ReplaceField
<1> QED  BY <1>1, <1>2, Zenon

\* Disabling a row replaces the switch only.
LEMMA SetDisabled ==
  ASSUME NEW r \in Row
  PROVE  /\ [r EXCEPT !.enabled = FALSE] \in Row /\ ~[r EXCEPT !.enabled = FALSE].enabled
         /\ FieldsOf([r EXCEPT !.enabled = FALSE]) = [FieldsOf(r) EXCEPT !.enabled = FALSE]
         /\ \A t : Scheduled(r, t) => Scheduled([r EXCEPT !.enabled = FALSE], t)
<1> DEFINE d == [r EXCEPT !.enabled = FALSE]
<1>1. /\ d \in Row /\ d.enabled = FALSE
      /\ d.sched = r.sched /\ d.once = r.once /\ d.next = r.next
  BY DEF Row
<1>2. [FieldsOf(r) EXCEPT !.enabled = FALSE] =
        [sched |-> r.sched, enabled |-> FALSE, once |-> r.once]
  <2>1. FieldsOf(r) = [sched |-> r.sched, enabled |-> r.enabled, once |-> r.once]
    BY DEF FieldsOf
  <2>2. [[sched |-> r.sched, enabled |-> r.enabled, once |-> r.once] EXCEPT !.enabled = FALSE] =
          [sched |-> r.sched, enabled |-> FALSE, once |-> r.once]
    BY ReplaceEnabled
  <2> QED  BY <2>1, <2>2
<1> HIDE DEF d
<1>3. FieldsOf(d) = [sched |-> r.sched, enabled |-> FALSE, once |-> r.once]
  BY <1>1 DEF FieldsOf
<1>4. \A t : Scheduled(r, t) => Scheduled(d, t)
  BY <1>1 DEF Scheduled
<1> QED  BY <1>1, <1>2, <1>3, <1>4 DEF d

LEMMA FieldsOfRow ==
  ASSUME NEW r \in Row
  PROVE  /\ FieldsOf(r) \in Fields
         /\ (FieldsOf(r).enabled <=> r.enabled) /\ (OneShot(FieldsOf(r)) <=> OneShot(r))
  BY CronAssumption DEF Row, Fields, FieldsOf, OneShot

LEMMA FieldsTyped ==
  /\ \A r \in Row : FieldsOf(r) \in Fields
  /\ \A f \in Fields : [f EXCEPT !.enabled = FALSE] \in Fields
  /\ \A f \in Fields, p \in Patch : Patched(f, p) \in Fields
<1>1. \A r \in Row : FieldsOf(r) \in Fields
  BY DEF Row, Fields, FieldsOf
<1>2. \A f \in Fields : [f EXCEPT !.enabled = FALSE] \in Fields
  BY DEF Fields
<1>3. ASSUME NEW f \in Fields, NEW p \in Patch PROVE Patched(f, p) \in Fields
  <2>1. CASE p \in [kind : {"enabled", "once"}, to : BOOLEAN]
    BY <2>1 DEF Fields, Patched
  <2>2. CASE p \in [kind : {"sched"}, to : Schedule]
    BY <2>2 DEF Fields, Patched
  <2>3. CASE p = [kind |-> "text"]
    BY <2>3 DEF Fields, Patched
  <2> QED  BY <2>1, <2>2, <2>3 DEF Patch
<1> QED  BY <1>1, <1>2, <1>3

\* What update_job writes for a row it has read.
LEMMA AmendFits ==
  ASSUME NEW r \in Row, NEW p \in Patch, now \in Nat, p.kind = "sched" => HasNext(p.to, now)
  PROVE  /\ Amend(r, p) \in Row
         /\ FieldsOf(Amend(r, p)) = Patched(FieldsOf(r), p)
         /\ p.kind = "sched" \/ Scheduled(r, now) => Scheduled(Amend(r, p), now)
         /\ p.kind = "text" => Amend(r, p) = r
<1>1. CASE p \in [kind : {"enabled"}, to : BOOLEAN]
  BY <1>1 DEF Row, FieldsOf, Amend, Patched, Scheduled
<1>2. CASE p \in [kind : {"once"}, to : BOOLEAN]
  BY <1>2 DEF Row, FieldsOf, Amend, Patched, Scheduled
<1>3. CASE p \in [kind : {"sched"}, to : Schedule]
  <2> DEFINE n == NextRun(p.to, now)
  <2>1. /\ p.to \in Schedule /\ p.kind = "sched" /\ n \in Nat
        /\ CASE p.to.kind = "at"    -> n = p.to.time
             [] p.to.kind = "every" -> n <= now + p.to.time
             [] OTHER               -> n <= p.to.time
    BY <1>3, NextRunFits
  <2>2. Amend(r, p) = [[r EXCEPT !.sched = p.to] EXCEPT !.next = n]
    BY <2>1 DEF Amend, Patched
  <2>3. Patched(FieldsOf(r), p) = [FieldsOf(r) EXCEPT !.sched = p.to]
    BY <2>1 DEF Patched
  <2> HIDE DEF n
  <2> DEFINE q == [r EXCEPT !.sched = p.to]
             a == [q EXCEPT !.next = n]
  <2>4. q \in Row /\ q.sched = p.to /\ q.enabled = r.enabled /\ q.once = r.once
    BY <2>1 DEF Row
  <2> HIDE DEF q
  <2>5. /\ a \in Row /\ a.next = n
        /\ a.sched = p.to /\ a.enabled = r.enabled /\ a.once = r.once
    BY <2>1, <2>4 DEF Row
  <2>6. Amend(r, p) = a
    BY <2>2 DEF q
  <2> HIDE DEF a
  <2>7. Patched(FieldsOf(r), p) = [sched |-> p.to, enabled |-> r.enabled, once |-> r.once]
    BY <2>3 DEF FieldsOf
  <2>8. FieldsOf(a) = [sched |-> p.to, enabled |-> r.enabled, once |-> r.once]
    BY <2>5 DEF FieldsOf
  <2>9. Scheduled(a, now)
    BY <2>1, <2>5 DEF Scheduled
  <2> QED  BY <2>1, <2>5, <2>6, <2>7, <2>8, <2>9
<1>4. CASE p = [kind |-> "text"]
  BY <1>4 DEF Row, FieldsOf, Amend, Patched, Scheduled
<1> QED  BY <1>1, <1>2, <1>3, <1>4 DEF Patch

-----------------------------------------------------------------------------
(* The initial state and single jobs.                                      *)

\* A switch that is off stays off.
LEMMA DisabledTwice ==
  ASSUME NEW f \in Fields
  PROVE  [[f EXCEPT !.enabled = FALSE] EXCEPT !.enabled = FALSE] = [f EXCEPT !.enabled = FALSE]
  BY DEF Fields

LEMMA InitCronInv == CronInit => CronInv
<1> SUFFICES ASSUME CronInit PROVE CronInv
  OBVIOUS
<1>1. row \in [Job -> Row \cup {NoRow}]
  BY CronAssumption DEF CronInit
<1>2. ASSUME NEW j \in Job
      PROVE  /\ asked[j] \in Fields \cup {NoRow}
             /\ row[j] # NoRow => asked[j] = FieldsOf(row[j]) /\ asked[j] \in Fields
  BY <1>1, FieldsTyped DEF CronInit
<1>3. Typed
  BY <1>1, <1>2 DEF CronInit, Typed, Stage
<1>4. ASSUME NEW j \in Job PROVE JobInv(j)
  <2>1. row[j] # NoRow => Scheduled(row[j], now)
    <3> SUFFICES ASSUME row[j] # NoRow PROVE Scheduled(row[j], 0)
      BY DEF CronInit
    <3>1. /\ IF row[j].sched.kind = "at" THEN row[j].next = row[j].sched.time
             ELSE row[j].next <= row[j].sched.time
          /\ row[j] \in Row
      BY <1>1, CronAssumption DEF CronInit
    <3>2. row[j].sched.time \in Nat /\ row[j].sched.kind \in {"at", "every", "until"}
      BY <3>1, CronAssumption DEF Row
    <3> QED  BY <3>1, <3>2 DEF Scheduled
  <2>2. stage[j] = "none" /\ j \notin retired /\ j \notin spent /\ known = {k \in Job : row[k] # NoRow}
    BY DEF CronInit
  <2>3. AsAsked(j) /\ CopyAsAsked(j)
    BY <1>2, <2>2 DEF CronInit, AsAsked, CopyAsAsked
  <2> QED  BY <2>1, <2>2, <2>3 DEF JobInv
<1> QED  BY <1>3, <1>4 DEF CronInv

\* A job the step has nothing to do with.
LEMMA OtherJob ==
  ASSUME NEW j \in Job, JobInv(j), row'[j] = row[j], asked'[j] = asked[j], now' = now,
         j \in known => j \in known', j \in late => j \in late',
         j \in retired <=> j \in retired', j \in overruled => j \in overruled',
         j \in raced => j \in raced',
         j \in overtaken => j \in overtaken', j \in spent' => j \in spent, j \in cut => j \in cut',
         stage'[j] = stage[j], snap'[j] = snap[j]
  PROVE  JobInv(j)'
<1>1. AsAsked(j) => AsAsked(j)'
  BY DEF AsAsked
<1>2. CopyAsAsked(j) => CopyAsAsked(j)'
  BY DEF CopyAsAsked
<1> QED  BY <1>1, <1>2 DEF JobInv

\* A job whose row is removed.
LEMMA DeletedJob ==
  ASSUME Typed, NEW j \in Job, Delete(j), stage[j] # "none" => j \in known,
         UNCHANGED <<known, stage>>
  PROVE  JobInv(j)'
<1>1. /\ row'[j] = NoRow /\ asked'[j] = NoRow /\ j \notin retired' /\ j \notin spent'
      /\ stage'[j] = "none" \/ j \in known'
  BY DEF Typed, Delete
<1> QED  BY <1>1 DEF JobInv, AsAsked, CopyAsAsked

\* The rows and the notes on the other jobs stay when one is removed.
LEMMA DeleteLeaves ==
  ASSUME Typed, NEW j \in Job, Delete(j)
  PROVE  /\ row' \in [Job -> Row \cup {NoRow}] /\ asked' \in [Job -> Fields \cup {NoRow}]
         /\ row'[j] = NoRow
         /\ \A k \in Job \ {j} : /\ row'[k] = row[k] /\ asked'[k] = asked[k]
                                 /\ k \in retired <=> k \in retired'
                                 /\ k \in overruled <=> k \in overruled'
                                 /\ k \in raced <=> k \in raced'
                                 /\ k \in overtaken <=> k \in overtaken'
                                 /\ k \in spent <=> k \in spent'
                                 /\ k \in cut <=> k \in cut'
         /\ \A k \in Job : row'[k] # NoRow => asked'[k] \in Fields
         /\ spent' \subseteq Job
<1>1. /\ row' = [row EXCEPT ![j] = NoRow] /\ asked' = [asked EXCEPT ![j] = NoRow]
      /\ retired' = retired \ {j} /\ overruled' = overruled \ {j}
      /\ raced' = raced \ {j} /\ overtaken' = overtaken \ {j}
      /\ spent' = spent \ {j} /\ cut' = cut \ {j}
  BY DEF Delete
<1>2. /\ row \in [Job -> Row \cup {NoRow}] /\ asked \in [Job -> Fields \cup {NoRow}]
      /\ \A k \in Job : row[k] # NoRow => asked[k] \in Fields
      /\ spent \subseteq Job
  BY DEF Typed
<1>3. /\ row' \in [Job -> Row \cup {NoRow}] /\ asked' \in [Job -> Fields \cup {NoRow}]
      /\ row'[j] = NoRow
      /\ \A k \in Job \ {j} : row'[k] = row[k] /\ asked'[k] = asked[k]
  BY <1>1, <1>2
<1>4. \A k \in Job : row'[k] # NoRow => asked'[k] \in Fields
  BY <1>2, <1>3
<1>5. \A k \in Job \ {j} : /\ k \in retired <=> k \in retired'
                           /\ k \in overruled <=> k \in overruled'
                           /\ k \in raced <=> k \in raced'
                           /\ k \in overtaken <=> k \in overtaken'
                           /\ k \in spent <=> k \in spent'
                           /\ k \in cut <=> k \in cut'
  BY <1>1
<1>6. spent' \subseteq Job
  BY <1>1, <1>2
<1> QED  BY <1>3, <1>4, <1>5, <1>6

-----------------------------------------------------------------------------
(* The scheduler's steps.                                                  *)

LEMMA PollKeeps == ASSUME CronInv, Poll PROVE CronInv'
<1> USE DEF CronInv
<1>1. PICK B \in SUBSET DueJobs :
        /\ stage' = [j \in Job |-> IF j \in B THEN "waiting" ELSE "none"]
        /\ snap' = [j \in Job |-> IF j \in B THEN row[j] ELSE NoRow]
  BY DEF Poll
<1>2. \A j \in B : row[j] # NoRow /\ row[j].enabled
  BY DEF DueJobs, Due
<1>3. UNCHANGED <<now, row, known, op, target, patch, copy, asked, late, retired, overruled,
                  raced, overtaken, spent, cut>>
      /\ \A j \in Job : stage[j] = "none"
  BY DEF Poll, client, notes, ends, BatchDone
<1>4. Typed'
  BY <1>1, <1>2, <1>3 DEF Typed, Stage
<1>5. ASSUME NEW j \in Job PROVE JobInv(j)'
  <2>1. AsAsked(j) => AsAsked(j)'
    BY <1>3 DEF AsAsked
  <2>2. ASSUME AsAsked(j), stage'[j] # "none"
        PROVE  /\ row[j] # NoRow /\ j \notin retired /\ asked[j] = FieldsOf(snap'[j])
               /\ snap'[j].enabled /\ stage'[j] = "waiting" /\ j \in known
    <3>1. j \in B /\ row[j] \in Row /\ row[j].enabled /\ snap'[j] = row[j]
          /\ stage'[j] = "waiting" /\ row[j] # NoRow
      BY <1>1, <1>2, <2>2 DEF Typed
    <3>2. asked[j] \in Fields /\ ~[asked[j] EXCEPT !.enabled = FALSE].enabled
      BY <3>1 DEF Typed, Fields
    <3>3. FieldsOf(row[j]).enabled
      BY <3>1, FieldsOfRow
    <3>4. j \notin retired
      <4> SUFFICES ASSUME j \in retired PROVE FALSE
        OBVIOUS
      <4>1. FieldsOf(row[j]) = [asked[j] EXCEPT !.enabled = FALSE]
        BY <2>2, <3>1 DEF AsAsked
      <4> QED  BY <3>2, <3>3, <4>1
    <3>5. asked[j] = FieldsOf(row[j])
      BY <2>2, <3>1, <3>4 DEF AsAsked
    <3>6. j \in known
      BY <3>1 DEF JobInv
    <3> QED  BY <3>1, <3>4, <3>5, <3>6
  <2>3. AsAsked(j) => CopyAsAsked(j)'
    BY <1>3, <2>2 DEF CopyAsAsked
  <2>4. stage'[j] # "none" => row[j] # NoRow /\ stage'[j] = "waiting"
    BY <1>1, <1>2
  <2> QED  BY <1>3, <2>1, <2>3, <2>4 DEF JobInv
<1> QED  BY <1>4, <1>5

LEMMA StartKeeps == ASSUME CronInv, NEW j \in Job, Start(j) PROVE CronInv'
<1> USE DEF CronInv
<1>1. /\ stage[j] = "waiting" /\ stage' = [stage EXCEPT ![j] = "running"]
      /\ spent' = IF OneShot(snap[j]) /\ row[j] = snap[j] THEN spent \cup {j} ELSE spent \ {j}
      /\ cut' = cut \ {j}
      /\ UNCHANGED <<now, row, known, snap, op, target, patch, copy, asked, late, retired,
                     overruled, raced, overtaken>>
  BY DEF Start, client, ends
<1>2. Typed'
  BY <1>1 DEF Typed, Stage
<1>3. ASSUME NEW k \in Job PROVE JobInv(k)'
  <2>1. CASE k = j
    <3>1. AsAsked(j) => AsAsked(j)'
      BY <1>1 DEF AsAsked
    <3>2. CopyAsAsked(j) => CopyAsAsked(j)'
      BY <1>1 DEF CopyAsAsked, Typed
    <3>3. stage'[j] = "running" /\ snap[j] \in Row
      BY <1>1 DEF Typed
    <3> QED  BY <1>1, <2>1, <3>1, <3>2, <3>3, CronAssumption DEF JobInv
  <2>2. CASE k # j
    BY <1>1, <2>2, OtherJob DEF Typed
  <2> QED  BY <2>1, <2>2
<1> QED  BY <1>2, <1>3

LEMMA RanKeeps == ASSUME CronInv, NEW j \in Job, Ran(j) PROVE CronInv'
<1> USE DEF CronInv
<1>1. /\ stage[j] = "running"
      /\ UNCHANGED <<now, row, known, snap, op, target, patch, copy, asked, late, retired,
                     overruled, raced, overtaken, spent, cut>>
  BY DEF Ran, client, notes, ends
<1>2. PICK outcome \in {"succeeded", "failed"} : stage' = [stage EXCEPT ![j] = outcome]
  BY DEF Ran
<1>3. Typed'
  BY <1>1, <1>2 DEF Typed, Stage
<1>4. ASSUME NEW k \in Job PROVE JobInv(k)'
  <2>1. AsAsked(k) => AsAsked(k)'
    BY <1>1 DEF AsAsked
  <2>2. CopyAsAsked(k) => CopyAsAsked(k)'
    BY <1>1, <1>2 DEF CopyAsAsked, Typed
  <2> QED  BY <1>1, <1>2, <2>1, <2>2 DEF JobInv, Typed
<1> QED  BY <1>3, <1>4

\* Leaving the batch keeps the types.
LEMMA LeaveTypes ==
  ASSUME Typed, NEW j \in Job, LeaveBatch(j)
  PROVE  /\ stage' \in [Job -> Stage] /\ snap' \in [Job -> Row \cup {NoRow}]
         /\ stage'[j] = "none"
         /\ \A k \in Job : stage'[k] # "none" => snap'[k] \in Row
         /\ \A k \in Job \ {j} : stage'[k] = stage[k] /\ snap'[k] = snap[k]
                                 /\ (k \in late <=> k \in late')
  BY DEF Typed, LeaveBatch, Stage

\* A job that leaves the batch with its row and what was asked for as they are.
LEMMA LeftJob ==
  ASSUME NEW j \in Job, JobInv(j), stage'[j] = "none",
         row'[j] = row[j], asked'[j] = asked[j], now' = now, known' = known,
         retired' = retired, overruled' = overruled, raced' = raced, overtaken' = overtaken,
         spent' = spent, j \in cut => j \in cut',
         j \in spent => j \in cut' \/ row[j] = NoRow
  PROVE  JobInv(j)'
<1>1. AsAsked(j) => AsAsked(j)'
  BY DEF AsAsked
<1> QED  BY <1>1 DEF JobInv, CopyAsAsked

LEMMA RescheduleKeeps == ASSUME CronInv, NEW j \in Job, Reschedule(j) PROVE CronInv'
<1> USE DEF CronInv
<1>1. /\ stage[j] \in {"succeeded", "failed"} /\ ~OneShot(snap[j]) /\ LeaveBatch(j)
      /\ snap[j] \in Row
      /\ UNCHANGED <<now, known, op, target, patch, copy, asked, retired, overruled, raced,
                     spent, cut>>
  BY DEF Reschedule, client, ends, Typed
<1>2. j \notin spent
  BY <1>1 DEF JobInv
<1>3. /\ now \in Nat /\ snap[j].sched \in Schedule
  BY <1>1 DEF Typed, Row
<1>4. CASE UNCHANGED <<row, overtaken>>
  <2>1. Typed'
    BY <1>1, <1>4, LeaveTypes DEF Typed
  <2>2. JobInv(j)'
    BY <1>1, <1>2, <1>4, LeaveTypes, LeftJob
  <2>3. ASSUME NEW k \in Job, k # j PROVE JobInv(k)'
    BY <1>1, <1>4, <2>3, LeaveTypes, OtherJob
  <2> QED  BY <2>1, <2>2, <2>3
<1>5. ASSUME row[j] # NoRow, HasNext(snap[j].sched, now),
             row' = [row EXCEPT ![j].next = NextRun(snap[j].sched, now)],
             overtaken' = IF row[j].sched # snap[j].sched THEN overtaken \cup {j}
                          ELSE overtaken \ {j}
      PROVE  CronInv'
  <2> DEFINE n == NextRun(snap[j].sched, now)
             r == [row[j] EXCEPT !.next = n]
  <2>1. row' = [row EXCEPT ![j] = r]
    BY <1>5
  <2>2. row[j] \in Row /\ n \in Nat
    BY <1>3, <1>5, NextRunFits DEF Typed
  <2>3. r \in Row /\ r.next = n /\ r.sched = row[j].sched /\ FieldsOf(r) = FieldsOf(row[j])
    BY <2>2, SetNext
  <2>4. r # NoRow
    BY <2>3, CronAssumption
  <2>5. j \notin overtaken' => Scheduled(r, now)
    BY <1>3, <1>5, <2>3, NextRunFits DEF Scheduled
  <2> HIDE DEF n, r
  <2>6. row' \in [Job -> Row \cup {NoRow}] /\ row'[j] = r /\ \A k \in Job \ {j} : row'[k] = row[k]
    BY <2>1, <2>3 DEF Typed
  <2>7. Typed'
    BY <1>1, <1>5, <2>6, LeaveTypes DEF Typed
  <2>8. JobInv(j)'
    <3>1. AsAsked(j) => AsAsked(j)'
      BY <1>1, <1>5, <2>3, <2>4, <2>6 DEF AsAsked
    <3>2. stage'[j] = "none"
      BY <1>1, LeaveTypes
    <3> QED  BY <1>1, <1>2, <1>5, <2>4, <2>5, <2>6, <3>1, <3>2 DEF JobInv, CopyAsAsked
  <2>9. ASSUME NEW k \in Job, k # j PROVE JobInv(k)'
    BY <1>1, <1>5, <2>6, <2>9, LeaveTypes, OtherJob
  <2> QED  BY <2>7, <2>8, <2>9
<1> QED  BY <1>4, <1>5 DEF Reschedule

LEMMA RemoveOnceKeeps == ASSUME CronInv, NEW j \in Job, RemoveOnce(j) PROVE CronInv'
<1> USE DEF CronInv
<1>1. /\ stage[j] = "succeeded" /\ OneShot(snap[j]) /\ LeaveBatch(j) /\ snap[j] \in Row
      /\ spent' = spent \ {j}
      /\ UNCHANGED <<now, known, op, target, patch, copy, asked, raced, overtaken, cut>>
  BY DEF RemoveOnce, client, Typed
<1>2. CASE row[j] = NoRow
  <2>1. UNCHANGED <<row, retired, overruled>> /\ j \notin spent
    BY <1>2 DEF RemoveOnce, ends, JobInv
  <2>2. Typed' /\ spent' = spent
    BY <1>1, <2>1, LeaveTypes DEF Typed
  <2>3. JobInv(j)'
    BY <1>1, <2>1, <2>2, LeaveTypes, LeftJob
  <2>4. ASSUME NEW k \in Job, k # j PROVE JobInv(k)'
    BY <1>1, <2>1, <2>4, LeaveTypes, OtherJob
  <2> QED  BY <2>2, <2>3, <2>4
<1>3. CASE row[j] # NoRow
  <2>1. row' = [row EXCEPT ![j] = NoRow] /\ Retire(j)
    BY <1>3 DEF RemoveOnce
  <2>2. /\ row' \in [Job -> Row \cup {NoRow}] /\ row'[j] = NoRow
        /\ \A k \in Job \ {j} : row'[k] = row[k]
    BY <2>1 DEF Typed
  <2>3. /\ j \in retired'
        /\ j \in late => j \in overruled'
        /\ j \in overruled => j \in overruled'
        /\ \A k \in Job \ {j} : /\ k \in retired <=> k \in retired'
                                /\ k \in overruled => k \in overruled'
    BY <2>1 DEF Retire
  <2>4. Typed'
    BY <1>1, <2>2, LeaveTypes DEF Typed
  <2>5. JobInv(j)'
    <3>1. j \notin raced => AsAsked(j)'
      <4>1. j \notin raced /\ j \notin late => asked[j].enabled /\ OneShot(asked[j])
        BY <1>1, <1>3, FieldsOfRow DEF JobInv, CopyAsAsked
      <4>2. asked' = asked
        BY <1>1
      <4>3. j \notin raced => j \in overruled' \/ (asked'[j].enabled /\ OneShot(asked'[j]))
        <5>1. CASE j \in late
          BY <2>3, <5>1
        <5>2. CASE j \notin late
          BY <4>1, <4>2, <5>2, Zenon
        <5> QED  BY <5>1, <5>2
      <4> QED  BY <2>2, <2>3, <4>3, Zenon DEF AsAsked
    <3>2. stage'[j] = "none" /\ j \in known' /\ j \notin spent'
      BY <1>1, <1>3, LeaveTypes DEF JobInv
    <3> QED  BY <1>1, <2>2, <3>1, <3>2 DEF JobInv, CopyAsAsked
  <2>6. ASSUME NEW k \in Job, k # j PROVE JobInv(k)'
    BY <1>1, <2>2, <2>3, <2>6, LeaveTypes, OtherJob
  <2> QED  BY <2>4, <2>5, <2>6
<1> QED  BY <1>2, <1>3

LEMMA ReadToDisableKeeps == ASSUME CronInv, NEW j \in Job, ReadToDisable(j) PROVE CronInv'
<1> USE DEF CronInv
<1>1. /\ UNCHANGED <<now, row, known, op, target, patch, copy, asked, retired, overruled, raced,
                     overtaken, spent, cut>>
      /\ stage[j] = "failed" /\ OneShot(snap[j]) /\ snap[j] \in Row
  BY DEF ReadToDisable, client, ends, Typed
<1>2. CASE row[j] = NoRow /\ LeaveBatch(j)
  <2>1. Typed'
    BY <1>1, <1>2, LeaveTypes DEF Typed
  <2>2. JobInv(j)'
    BY <1>1, <1>2, LeaveTypes, LeftJob
  <2>3. ASSUME NEW k \in Job, k # j PROVE JobInv(k)'
    BY <1>1, <1>2, <2>3, LeaveTypes, OtherJob
  <2> QED  BY <2>1, <2>2, <2>3
<1>3. CASE /\ row[j] # NoRow /\ stage' = [stage EXCEPT ![j] = "disabling"]
           /\ snap' = [snap EXCEPT ![j] = row[j]] /\ UNCHANGED late
  <2>1. /\ stage'[j] = "disabling" /\ snap'[j] = row[j] /\ row[j] \in Row
        /\ \A k \in Job \ {j} : stage'[k] = stage[k] /\ snap'[k] = snap[k]
    BY <1>3 DEF Typed
  <2>2. Typed'
    BY <1>1, <1>3 DEF Typed, Stage
  <2>3. JobInv(j)'
    <3>1. AsAsked(j) => AsAsked(j)'
      BY <1>1 DEF AsAsked
    <3>2. ASSUME AsAsked(j), CopyAsAsked(j) PROVE CopyAsAsked(j)'
      <4>1. /\ j \notin retired /\ asked[j] = FieldsOf(snap[j]) /\ snap[j].enabled
            /\ FieldsOf(row[j]) = asked[j]
        BY <1>1, <1>3, <3>2 DEF AsAsked, CopyAsAsked
      <4>2. row[j].enabled /\ OneShot(asked[j])
        BY <1>1, <2>1, <4>1, FieldsOfRow
      <4> QED  BY <1>1, <2>1, <4>1, <4>2 DEF CopyAsAsked
    <3> QED  BY <1>1, <1>3, <2>1, <3>1, <3>2 DEF JobInv
  <2>4. ASSUME NEW k \in Job, k # j PROVE JobInv(k)'
    BY <1>1, <1>3, <2>1, <2>4, OtherJob
  <2> QED  BY <2>2, <2>3, <2>4
<1> QED  BY <1>2, <1>3 DEF ReadToDisable

LEMMA DisableKeeps == ASSUME CronInv, NEW j \in Job, Disable(j) PROVE CronInv'
<1> USE DEF CronInv
<1>1. /\ stage[j] = "disabling" /\ LeaveBatch(j) /\ snap[j] \in Row
      /\ UNCHANGED <<now, known, op, target, patch, copy, asked, overtaken, spent, cut>>
  BY DEF Disable, client, Typed
<1>2. CASE row[j] = NoRow
  <2>1. UNCHANGED <<row, retired, overruled, raced>>
    BY <1>2 DEF Disable, ends
  <2>2. Typed'
    BY <1>1, <2>1, LeaveTypes DEF Typed
  <2>3. JobInv(j)'
    BY <1>1, <1>2, <2>1, LeaveTypes, LeftJob
  <2>4. ASSUME NEW k \in Job, k # j PROVE JobInv(k)'
    BY <1>1, <2>1, <2>4, LeaveTypes, OtherJob
  <2> QED  BY <2>2, <2>3, <2>4
<1>3. CASE row[j] # NoRow
  <2> DEFINE r == [snap[j] EXCEPT !.enabled = FALSE]
  <2>1. /\ row' = [row EXCEPT ![j] = r] /\ Retire(j)
        /\ raced' = IF row[j] = snap[j] THEN raced ELSE raced \cup {j}
    BY <1>3 DEF Disable
  <2>2. /\ r \in Row /\ ~r.enabled /\ r # NoRow
        /\ FieldsOf(r) = [FieldsOf(snap[j]) EXCEPT !.enabled = FALSE]
        /\ Scheduled(snap[j], now) => Scheduled(r, now)
    BY <1>1, SetDisabled, CronAssumption
  <2> HIDE DEF r
  <2>3. /\ row' \in [Job -> Row \cup {NoRow}] /\ row'[j] = r
        /\ \A k \in Job \ {j} : row'[k] = row[k]
    BY <2>1, <2>2 DEF Typed
  <2>4. /\ j \in retired'
        /\ j \in late => j \in overruled'
        /\ \A k \in Job \ {j} : /\ k \in retired <=> k \in retired'
                                /\ k \in overruled => k \in overruled'
                                /\ k \in raced => k \in raced'
    BY <2>1 DEF Retire
  <2>5. Typed'
    BY <1>1, <1>3, <2>3, LeaveTypes DEF Typed
  <2>6. JobInv(j)'
    <3>1. stage'[j] = "none" /\ row'[j] = r /\ j \in known'
      BY <1>1, <1>3, <2>3, LeaveTypes DEF JobInv
    <3>2. j \notin raced' => j \notin raced /\ row[j] = snap[j]
      BY <2>1
    <3>3. ASSUME j \notin raced' PROVE AsAsked(j)'
      <4>0. j \notin late => CopyAsAsked(j)
        BY <3>2, <3>3 DEF JobInv
      <4>1. j \notin late => /\ j \notin retired /\ asked[j].enabled /\ OneShot(asked[j])
        BY <1>1, <1>3, <4>0, FieldsOfRow DEF CopyAsAsked
      <4>2. FieldsOf(snap[j]) = asked[j] \/ FieldsOf(snap[j]) = [asked[j] EXCEPT !.enabled = FALSE]
        BY <1>3, <3>2, <3>3 DEF JobInv, AsAsked
      <4>3. asked[j] \in Fields
        BY <1>3 DEF Typed
      <4>4. FieldsOf(r) = [asked[j] EXCEPT !.enabled = FALSE]
        <5>1. CASE FieldsOf(snap[j]) = asked[j]
          BY <2>2, <5>1, Zenon
        <5>2. CASE FieldsOf(snap[j]) = [asked[j] EXCEPT !.enabled = FALSE]
          <6>1. FieldsOf(r) = [[asked[j] EXCEPT !.enabled = FALSE] EXCEPT !.enabled = FALSE]
            BY <2>2, <5>2, Zenon
          <6> QED  BY <4>3, <6>1, DisabledTwice, Zenon
        <5> QED  BY <4>2, <5>1, <5>2
      <4>5. asked' = asked
        BY <1>1
      <4>6. j \in overruled' \/ (asked'[j].enabled /\ OneShot(asked'[j]))
        <5>1. CASE j \in late
          BY <2>4, <5>1
        <5>2. CASE j \notin late
          BY <4>1, <4>5, <5>2, Zenon
        <5> QED  BY <5>1, <5>2
      <4>7. row'[j] = NoRow \/ FieldsOf(row'[j]) = [asked'[j] EXCEPT !.enabled = FALSE]
        BY <3>1, <4>4, <4>5, Zenon
      <4> QED  BY <2>4, <4>6, <4>7, Zenon DEF AsAsked
    <3>4. j \notin raced' /\ j \notin overtaken' => Scheduled(r, now')
      BY <1>1, <1>3, <2>2, <3>2 DEF JobInv
    <3> QED  BY <1>1, <2>2, <3>1, <3>3, <3>4 DEF JobInv, CopyAsAsked
  <2>7. ASSUME NEW k \in Job, k # j PROVE JobInv(k)'
    BY <1>1, <2>3, <2>4, <2>7, LeaveTypes, OtherJob
  <2> QED  BY <2>5, <2>6, <2>7
<1> QED  BY <1>2, <1>3

LEMMA SettleFailsKeeps == ASSUME CronInv, NEW j \in Job, SettleFails(j) PROVE CronInv'
<1> USE DEF CronInv
<1>1. /\ LeaveBatch(j) /\ cut' = cut \cup {j}
      /\ UNCHANGED <<now, row, known, op, target, patch, copy, asked, retired, overruled, raced,
                     overtaken, spent>>
  BY DEF SettleFails, client, ends
<1>2. Typed'
  BY <1>1, LeaveTypes DEF Typed
<1>3. JobInv(j)'
  BY <1>1, LeaveTypes, LeftJob
<1>4. ASSUME NEW k \in Job, k # j PROVE JobInv(k)'
  BY <1>1, <1>4, LeaveTypes, OtherJob
<1> QED  BY <1>2, <1>3, <1>4

LEMMA CrashKeeps == ASSUME CronInv, Crash PROVE CronInv'
<1> USE DEF CronInv
<1>1. /\ stage' = [j \in Job |-> "none"] /\ snap' = [j \in Job |-> NoRow] /\ cut' = cut \cup Active
      /\ UNCHANGED <<now, row, known, asked, retired, overruled, raced, overtaken, spent>>
  BY DEF Crash, ends
<1>2. PICK C \in SUBSET Client :
        /\ op' = [c \in Client |-> IF c \in C THEN "over" ELSE op[c]]
        /\ target' = [c \in Client |-> IF c \in C THEN NoRow ELSE target[c]]
        /\ patch' = [c \in Client |-> IF c \in C THEN NoRow ELSE patch[c]]
        /\ copy' = [c \in Client |-> IF c \in C THEN NoRow ELSE copy[c]]
  BY DEF Crash
<1>3. Typed'
  BY <1>1, <1>2 DEF Typed, Stage
<1>4. ASSUME NEW j \in Job PROVE JobInv(j)'
  <2>1. AsAsked(j) => AsAsked(j)'
    BY <1>1 DEF AsAsked
  <2> QED  BY <1>1, <2>1 DEF JobInv, CopyAsAsked, Active, Typed, Stage
<1> QED  BY <1>3, <1>4

-----------------------------------------------------------------------------
(* The clients' steps.                                                     *)

\* A client that is over holds nothing.
LEMMA OverTypes ==
  ASSUME Typed, NEW c \in Client, Over(c)
  PROVE  /\ op' \in [Client -> {"new", "writing", "running", "over"}]
         /\ target' \in [Client -> Job \cup {NoRow}] /\ patch' \in [Client -> Patch \cup {NoRow}]
         /\ copy' \in [Client -> Row \cup {NoRow}]
         /\ \A d \in Client : op'[d] = "writing" =>
              target'[d] \in Job /\ patch'[d] \in Patch /\ copy'[d] \in Row
  BY DEF Typed, Over

LEMMA AddKeeps ==
  ASSUME CronInv, NEW c \in Client, NEW j \in Job, NEW s \in Schedule, NEW once \in BOOLEAN,
         Add(c, j, s, once)
  PROVE  CronInv'
<1> USE DEF CronInv
<1> DEFINE r == [sched |-> s, enabled |-> TRUE, once |-> once, next |-> NextRun(s, now)]
           f == [sched |-> s, enabled |-> TRUE, once |-> once]
<1>1. /\ Over(c) /\ j \notin known /\ known' = known \cup {j}
      /\ row' = [row EXCEPT ![j] = r] /\ asked' = [asked EXCEPT ![j] = f]
      /\ UNCHANGED <<now, stage, snap, late, retired, overruled, raced, overtaken, spent, cut>>
      /\ HasNext(s, now)
  BY DEF Add, batch, ends, ValidSchedule
<1>2. now \in Nat
  BY DEF Typed
<1>3. r \in Row /\ f \in Fields /\ FieldsOf(r) = f /\ r # NoRow
  <2>1. NextRun(s, now) \in Nat
    BY <1>1, <1>2, NextRunFits
  <2>2. r \in Row
    BY <2>1 DEF Row
  <2>3. f \in Fields /\ FieldsOf(r) = f
    BY DEF Fields, FieldsOf
  <2> QED  BY <2>2, <2>3, CronAssumption
<1>4. Scheduled(r, now)
  BY <1>1, <1>2, NextRunFits DEF Scheduled
<1> HIDE DEF r, f
<1>5. /\ row' \in [Job -> Row \cup {NoRow}] /\ asked' \in [Job -> Fields \cup {NoRow}]
      /\ row'[j] = r /\ asked'[j] = f
      /\ \A k \in Job \ {j} : row'[k] = row[k] /\ asked'[k] = asked[k]
  BY <1>1, <1>3 DEF Typed
<1>6. Typed'
  BY <1>1, <1>3, <1>5, OverTypes DEF Typed
<1>7. j \notin spent /\ j \notin retired /\ stage[j] = "none"
  BY <1>1 DEF JobInv
<1>8. JobInv(j)'
  BY <1>1, <1>3, <1>4, <1>5, <1>7 DEF JobInv, AsAsked, CopyAsAsked
<1>9. ASSUME NEW k \in Job, k # j PROVE JobInv(k)'
  BY <1>1, <1>5, <1>9, OtherJob
<1> QED  BY <1>6, <1>8, <1>9

LEMMA RemoveKeeps ==
  ASSUME CronInv, NEW c \in Client, NEW j \in Job, Remove(c, j)
  PROVE  CronInv'
<1> USE DEF CronInv
<1>1. Over(c) /\ Delete(j) /\ UNCHANGED <<now, known, stage, snap, late>>
  BY DEF Remove, batch
<1>2. Typed'
  <2>1. /\ row' \in [Job -> Row \cup {NoRow}] /\ asked' \in [Job -> Fields \cup {NoRow}]
        /\ \A k \in Job : row'[k] # NoRow => asked'[k] \in Fields
        /\ spent' \subseteq Job
    BY <1>1, DeleteLeaves
  <2> QED  BY <1>1, <2>1, OverTypes DEF Typed
<1>3. ASSUME NEW k \in Job, k # j PROVE JobInv(k)'
  BY <1>1, <1>3, DeleteLeaves, OtherJob
<1>4. JobInv(j)'
  BY <1>1, DeletedJob DEF JobInv
<1> QED  BY <1>2, <1>3, <1>4

\* A step of a client that leaves the jobs alone.
LEMMA QuietClient ==
  ASSUME CronInv, NEW c \in Client,
         \/ \E j \in Job : (\E p \in Patch : BeginUpdate(c, j, p)) \/ RunNow(c, j)
         \/ RunNowEnds(c)
  PROVE  CronInv'
<1> USE DEF CronInv
<1>1. UNCHANGED <<now, row, known, stage, snap, asked, late, retired, overruled, raced, overtaken,
                  spent, cut>>
  BY DEF BeginUpdate, RunNow, RunNowEnds, batch, notes, ends
<1>2. /\ op' \in [Client -> {"new", "writing", "running", "over"}]
      /\ target' \in [Client -> Job \cup {NoRow}] /\ patch' \in [Client -> Patch \cup {NoRow}]
      /\ copy' \in [Client -> Row \cup {NoRow}]
      /\ \A d \in Client : op'[d] = "writing" =>
           target'[d] \in Job /\ patch'[d] \in Patch /\ copy'[d] \in Row
  <2>1. ASSUME NEW j \in Job, NEW p \in Patch, BeginUpdate(c, j, p) PROVE <1>2!:
    BY <2>1 DEF BeginUpdate, Typed
  <2>2. ASSUME NEW j \in Job, RunNow(c, j) PROVE <1>2!:
    BY <2>2 DEF RunNow, Typed
  <2>3. CASE RunNowEnds(c)
    BY <2>3, OverTypes DEF RunNowEnds
  <2> QED  BY <2>1, <2>2, <2>3
<1>3. Typed'
  BY <1>1, <1>2 DEF Typed
<1>4. ASSUME NEW j \in Job PROVE JobInv(j)'
  BY <1>1, OtherJob
<1> QED  BY <1>3, <1>4

LEMMA EndUpdateKeeps == ASSUME CronInv, NEW c \in Client, EndUpdate(c) PROVE CronInv'
<1> USE DEF CronInv
<1>0. /\ target[c] \in Job /\ patch[c] \in Patch /\ copy[c] \in Row
      /\ Over(c) /\ UNCHANGED <<now, known, stage, snap>>
  BY DEF EndUpdate, batch, Typed
<1> PICK j \in Job, p \in Patch : j = target[c] /\ p = patch[c]
  BY <1>0
<1>1. Over(c) /\ copy[c] \in Row /\ UNCHANGED <<now, known, stage, snap>>
  BY <1>0
<1>2. CASE UNCHANGED <<row, notes>>
  <2>1. UNCHANGED <<row, asked, late, retired, overruled, raced, overtaken, spent, cut>>
    BY <1>2 DEF notes, ends
  <2>2. Typed'
    BY <1>1, <2>1, OverTypes DEF Typed
  <2>3. ASSUME NEW k \in Job PROVE JobInv(k)'
    BY <1>1, <2>1, OtherJob
  <2> QED  BY <2>2, <2>3
<1>3. CASE /\ row[j] # NoRow /\ (p.kind = "sched" => HasNext(p.to, now))
           /\ row' = [row EXCEPT ![j] = Amend(copy[c], p)]
           /\ asked' = [asked EXCEPT ![j] = Patched(Standing(j), p)]
           /\ retired' = retired \ {j} /\ overruled' = overruled \ {j}
           /\ late' = IF p.kind # "text" /\ stage[j] # "none" THEN late \cup {j} ELSE late
           /\ raced' = IF row[j] = copy[c] THEN raced ELSE raced \cup {j}
           /\ overtaken' = IF p.kind = "sched" THEN overtaken \ {j} ELSE overtaken
           /\ spent' = IF p.kind = "text" THEN spent ELSE spent \ {j}
           /\ UNCHANGED cut
  <2> DEFINE r == Amend(copy[c], p)
             f == Patched(Standing(j), p)
  <2>1. row' = [row EXCEPT ![j] = r] /\ asked' = [asked EXCEPT ![j] = f]
    BY <1>3
  <2>2. /\ r \in Row /\ r # NoRow
        /\ FieldsOf(r) = Patched(FieldsOf(copy[c]), p)
        /\ p.kind = "sched" \/ Scheduled(copy[c], now) => Scheduled(r, now)
        /\ p.kind = "text" => r = copy[c]
    BY <1>1, <1>3, AmendFits, CronAssumption DEF Typed
  <2>3. Standing(j) \in Fields /\ f \in Fields
    BY <1>1, <1>3, FieldsTyped DEF Typed, Standing
  <2>4. j \notin raced => FieldsOf(row[j]) = Standing(j)
    BY <1>3 DEF JobInv, AsAsked, Standing
  <2>5. row[j] = copy[c] /\ j \notin raced => FieldsOf(r) = f
    BY <2>2, <2>4
  <2>6. p.kind = "text" => f = Standing(j)
    BY DEF Patched
  <2> HIDE DEF r, f
  <2>7. /\ row' \in [Job -> Row \cup {NoRow}] /\ asked' \in [Job -> Fields \cup {NoRow}]
        /\ row'[j] = r /\ asked'[j] = f
        /\ \A k \in Job \ {j} : row'[k] = row[k] /\ asked'[k] = asked[k]
    BY <1>1, <2>1, <2>2, <2>3 DEF Typed
  <2>8. Typed'
    <3>1. spent' \subseteq spent
      BY <1>3
    <3> QED  BY <1>1, <2>3, <2>7, <3>1, OverTypes DEF Typed
  <2>9. JobInv(j)'
    <3>1. row'[j] # NoRow /\ j \in known' /\ j \notin retired'
      BY <1>1, <1>3, <2>2, <2>7 DEF JobInv
    <3>2. j \notin raced' => j \notin raced /\ row[j] = copy[c]
      BY <1>3
    <3>3. j \notin raced' => AsAsked(j)'
      BY <2>5, <2>7, <3>1, <3>2 DEF AsAsked
    <3>4. ASSUME j \notin raced', j \notin late' PROVE CopyAsAsked(j)'
      <4>1. j \notin late /\ (stage[j] = "none" \/ p.kind = "text")
        BY <1>3, <3>4
      <4>2. CASE stage[j] = "none"
        BY <1>1, <4>2 DEF CopyAsAsked
      <4>3. CASE stage[j] # "none" /\ p.kind = "text"
        <5>1. /\ j \notin retired /\ asked[j] = FieldsOf(snap[j]) /\ snap[j].enabled
              /\ stage[j] = "disabling" => OneShot(asked[j])
          BY <1>3, <3>2, <3>4, <4>1, <4>3 DEF JobInv, CopyAsAsked
        <5>2. asked'[j] = asked[j]
          BY <2>6, <2>7, <4>3, <5>1 DEF Standing
        <5> QED  BY <1>1, <3>1, <5>1, <5>2 DEF CopyAsAsked
      <4> QED  BY <4>1, <4>2, <4>3
    <3>5. j \notin raced' /\ j \notin overtaken' => Scheduled(row'[j], now')
      BY <1>1, <1>3, <2>2, <2>7, <3>2 DEF JobInv
    <3>6. j \in spent' => j \in spent /\ p.kind = "text"
      BY <1>3
    <3>7. j \in spent' /\ j \notin raced' /\ j \notin cut' /\ stage'[j] \in {"none", "waiting"}
            => ~row'[j].enabled
      BY <1>1, <1>3, <2>2, <2>7, <3>2, <3>6 DEF JobInv
    <3>8. j \in spent' /\ stage'[j] \in {"running", "succeeded", "failed"} => OneShot(snap'[j])
      BY <1>1, <3>6 DEF JobInv
    <3> QED  BY <3>1, <3>3, <3>4, <3>5, <3>7, <3>8 DEF JobInv
  <2>10. ASSUME NEW k \in Job, k # j PROVE JobInv(k)'
    BY <1>1, <1>3, <2>7, <2>10, OtherJob
  <2> QED  BY <2>8, <2>9, <2>10
<1> QED  BY <1>2, <1>3 DEF EndUpdate

-----------------------------------------------------------------------------
(* The theorems.                                                           *)

LEMMA StepKeepsCronInv == CronInv /\ [CronNext]_cronVars => CronInv'
<1> SUFFICES ASSUME CronInv, [CronNext]_cronVars PROVE CronInv'
  OBVIOUS
<1>1. CASE UNCHANGED cronVars
  <2>1. ASSUME NEW j \in Job PROVE JobInv(j)'
    BY <1>1, OtherJob DEF cronVars, CronInv
  <2> QED  BY <1>1, <2>1 DEF cronVars, CronInv, Typed
<1>2. CASE Tick
  <2>1. /\ now \in Nat /\ now' = now + 1
        /\ UNCHANGED <<row, known, stage, snap, op, target, patch, copy, asked, late, retired,
                       overruled, raced, overtaken, spent, cut>>
    BY <1>2 DEF Tick, batch, client, notes, ends, CronInv, Typed
  <2>2. Typed'
    BY <2>1 DEF CronInv, Typed
  <2>3. ASSUME NEW j \in Job PROVE JobInv(j)'
    <3>1. row[j] # NoRow /\ Scheduled(row[j], now) => Scheduled(row[j], now + 1)
      <4> SUFFICES ASSUME row[j] # NoRow, Scheduled(row[j], now) PROVE Scheduled(row[j], now + 1)
        OBVIOUS
      <4>1. row[j] \in Row
        BY DEF CronInv, Typed
      <4>2. row[j].next \in Nat /\ row[j].sched.time \in Nat
        BY <4>1, CronAssumption DEF Row
      <4> QED  BY <2>1, <4>2 DEF Scheduled
    <3>2. AsAsked(j) => AsAsked(j)'
      BY <2>1 DEF AsAsked
    <3>3. CopyAsAsked(j) => CopyAsAsked(j)'
      BY <2>1 DEF CopyAsAsked
    <3> QED  BY <2>1, <3>1, <3>2, <3>3 DEF CronInv, JobInv
  <2> QED  BY <2>2, <2>3 DEF CronInv
<1>3. ASSUME NEW j \in Job, SchedulerStep(j) \/ SettleFails(j) PROVE CronInv'
  BY <1>3, StartKeeps, RanKeeps, RescheduleKeeps, RemoveOnceKeeps, ReadToDisableKeeps,
     DisableKeeps, SettleFailsKeeps DEF SchedulerStep
<1>4. ASSUME NEW c \in Client, ClientStep(c) PROVE CronInv'
  BY <1>4, EndUpdateKeeps, QuietClient, AddKeeps, RemoveKeeps DEF ClientStep
<1> QED  BY <1>1, <1>2, <1>3, <1>4, PollKeeps, CrashKeeps DEF CronNext

LEMMA CronInvariant == CronSpec => []CronInv
  BY InitCronInv, StepKeepsCronInv, PTL DEF CronSpec

\* Unless two updates of a row crossed, every row has the schedule, the switch and
\* the one-shot mark that clients asked for last, or the scheduler has ended the job;
\* and it ends no job that clients did not ask to run once, but for those that they
\* changed during the run it settles.  (update_job, reschedule_after_run, remove_job)
THEOREM ChangesStay == CronSpec => []ChangesLast
<1>1. CronInv => ChangesLast
  BY DEF CronInv, JobInv, AsAsked, ChangesLast
<1> QED  BY <1>1, CronInvariant, PTL

\* The next run of a row belongs to its schedule, except where a run was settled
\* after the schedule had changed or updates crossed; and a one-shot job that was
\* started is removed or disabled once it is settled, unless it was changed
\* meanwhile, its settling failed or updates crossed.
\* (reschedule_after_run, update_job, remove_job)
THEOREM JobsSettle == CronSpec => []SettledAsScheduled
<1>1. CronInv => NextRunOfSchedule
  BY DEF CronInv, JobInv, Scheduled, NextRunOfSchedule
<1>2. CronInv => OneShotEnds
  BY DEF CronInv, JobInv, OneShotEnds, Typed
<1> QED  BY <1>1, <1>2, CronInvariant, PTL DEF SettledAsScheduled

\* A removed job never comes back.
THEOREM RemovedJobsStayAway == CronSpec => RemovedForGood
<1>1. ASSUME CronInv, [CronNext]_cronVars
      PROVE  [\A j \in known : row[j] = NoRow => row'[j] = NoRow]_cronVars
  <2> SUFFICES ASSUME CronNext, NEW k \in known, row[k] = NoRow, row'[k] # NoRow PROVE FALSE
    BY <1>1
  <2>0. row \in [Job -> Row \cup {NoRow}] /\ k \in Job
    BY <1>1 DEF CronInv, Typed
  <2>1. CASE Tick \/ Poll \/ Crash
    BY <2>1 DEF Tick, Poll, Crash
  <2>2. ASSUME NEW j \in Job, SchedulerStep(j) \/ SettleFails(j) PROVE FALSE
    <3>1. CASE Start(j) \/ Ran(j) \/ ReadToDisable(j) \/ SettleFails(j)
      BY <3>1 DEF Start, Ran, ReadToDisable, SettleFails
    <3>2. CASE Reschedule(j)
      BY <2>0, <3>2 DEF Reschedule
    <3>3. CASE RemoveOnce(j)
      BY <2>0, <3>3 DEF RemoveOnce
    <3>4. CASE Disable(j)
      BY <2>0, <3>4 DEF Disable
    <3> QED  BY <2>2, <3>1, <3>2, <3>3, <3>4 DEF SchedulerStep
  <2>3. ASSUME NEW c \in Client, ClientStep(c) PROVE FALSE
    <3>1. CASE EndUpdate(c)
      BY <2>0, <3>1 DEF EndUpdate
    <3>2. CASE RunNowEnds(c)
      BY <3>2 DEF RunNowEnds
    <3>3. ASSUME NEW j \in Job, NEW s \in Schedule, NEW once \in BOOLEAN, Add(c, j, s, once)
          PROVE  FALSE
      BY <2>0, <3>3 DEF Add
    <3>4. ASSUME NEW j \in Job, \/ Remove(c, j) \/ RunNow(c, j)
                                \/ \E p \in Patch : BeginUpdate(c, j, p)
          PROVE  FALSE
      BY <2>0, <3>4 DEF Remove, Delete, RunNow, BeginUpdate
    <3> QED  BY <2>3, <3>1, <3>2, <3>3, <3>4 DEF ClientStep
  <2> QED  BY <2>1, <2>2, <2>3 DEF CronNext
<1> QED  BY <1>1, CronInvariant, PTL DEF CronSpec, RemovedForGood

-----------------------------------------------------------------------------
(* Accounts of providers.                                                  *)

\* What the place of a call says of its errand.
CallInv ==
  \A c \in AuthCall :
    /\ place[c] = "new" => errand[c] = "none" /\ sent[c] = NoTokens /\ got[c] = NoTokens
    /\ place[c] = "waiting" => errand[c] = "peek"
    /\ place[c] = "asking" => errand[c] = "reload" /\ sent[c] \in Tokens
    /\ errand[c] = "save" => sent[c] \in Tokens
    /\ place[c] \in {"renaming", "storeAdrift"} => errand[c] \in {"save", "login", "logout"}

\* Whoever has read the store under the lock has what is in it.
StoreInv ==
  ~leaked =>
    /\ profiles = kept
    /\ \A c \in AuthCall : place[c] \in {"read", "renaming"} => loaded[c] = profiles

Engaged(c) == place[c] \notin {"new", "lockAdrift", "storeAdrift", "over"}
Unsaved(c) == errand[c] \in {"save", "login"} /\ Engaged(c) /\ place[c] # "leaving"
Saver(c) == errand[c] = "save" /\ Unsaved(c)

\* Tokens are somewhere on behalf of a profile.
Held(k, p) ==
  \/ profiles[p] = k
  \/ \E c \in AuthCall : loaded[c][p] = k \/ (account[c] = p /\ k \in {sent[c], got[c]})

\* Tokens are, or have been, where a call may have them from.
Spread(k) ==
  \/ \E p \in Profile : profiles[p] = k
  \/ \E c \in AuthCall : sent[c] = k \/ \E p \in Profile : loaded[c][p] = k
  \/ \E h \in Home : <<h, k>> \in exchanged

\* Tokens belong to one profile, and to one call until they are stored.
TokenInv ==
  /\ \A k \in Tokens : (\E p \in Profile : Held(k, p)) \/ Spread(k) => k <= newest
  /\ \A k \in Tokens, p, q \in Profile : Held(k, p) /\ Held(k, q) => p = q
  /\ \A c, d \in AuthCall : got[c] = got[d] /\ got[c] # NoTokens => c = d
  /\ \A c \in AuthCall : Unsaved(c) => got[c] \in Tokens /\ ~Spread(got[c])

\* Who read again, asks or saves has the mutex.
MutexInv ==
  \A c \in AuthCall : Engaged(c) /\ errand[c] \in {"reload", "save"} => mutex[MutexOf(c)] = c

\* Tokens that were exchanged are lost, gone, or about to be replaced.
ExchangeInv ==
  ~leaked =>
    /\ \A c \in AuthCall :
         place[c] = "asking" /\ <<HomeOf[c], sent[c]>> \in exchanged => sent[c] \in spilt
    /\ \A h \in Home, k \in Tokens : <<h, k>> \in exchanged =>
         \/ k \in spilt \/ \A p \in Profile : profiles[p] # k
         \/ \E c \in AuthCall : Saver(c) /\ HomeOf[c] = h /\ sent[c] = k
    /\ again \subseteq spilt

AuthInv ==
  /\ AuthTypeOK /\ CallInv /\ LockAccounted /\ StoreInv
  /\ TokenInv /\ MutexInv /\ ExchangeInv

LEMMA InitAuthInv == AuthInit => AuthInv
<1> SUFFICES ASSUME AuthInit PROVE AuthInv
  OBVIOUS
<1> USE AuthAssumption DEF AuthInit
<1>1. /\ 1 \in Tokens /\ NoStore \in Store /\ [NoStore EXCEPT ![FirstProfile] = 1] \in Store
      /\ NoTokens \in Tokens \cup {NoTokens}
  BY DEF Store, NoStore, Tokens, NoTokens
<1>2. loaded \in [AuthCall -> Store] /\ sent \in [AuthCall -> Tokens \cup {NoTokens}]
      /\ got \in [AuthCall -> Tokens \cup {NoTokens}] /\ breaks \in 0..MaxBreaks
  BY <1>1
<1>3. AuthTypeOK
  BY <1>1, <1>2 DEF AuthTypeOK
<1>4. CallInv /\ LockAccounted /\ StoreInv
  BY DEF CallInv, LockAccounted, StoreInv, Owners
<1>5. \A p \in Profile : NoStore[p] = NoTokens /\ (p # FirstProfile => profiles[p] = NoTokens)
  BY DEF NoStore
<1>6. NoTokens \notin Tokens
  BY DEF NoTokens, Tokens
<1>7. \A k \in Tokens, p \in Profile : Held(k, p) => p = FirstProfile /\ k = 1
  BY <1>5, <1>6 DEF Held, NoStore
<1>8. \A k \in Tokens : Spread(k) => k = 1
  BY <1>5, <1>6 DEF Spread, NoStore
<1>9. TokenInv /\ MutexInv /\ ExchangeInv
  BY <1>7, <1>8 DEF TokenInv, MutexInv, ExchangeInv, Unsaved, Engaged, Saver
<1> QED  BY <1>4, <1>3, <1>9 DEF AuthInv

\* Ending calls keeps the types.
LEMMA QuitType ==
  ASSUME AuthTypeOK, CallInv, NEW C \in SUBSET AuthCall, NEW there,
         there \in {"over", "lockAdrift", "storeAdrift"}, Quit(C, there)
  PROVE  /\ place' \in [AuthCall -> {"new", "waiting", "asking", "opening", "created", "reading",
                              "read", "renaming", "leaving", "lockAdrift", "storeAdrift", "over"}]
         /\ mutex' \in [Home \X Profile -> AuthCall \cup {Nobody}]
         /\ spilt' \subseteq Tokens
<1>1. \A c \in AuthCall : errand[c] = "save" => sent[c] \in Tokens
  BY DEF CallInv
<1>2. spilt' \subseteq Tokens
  BY <1>1 DEF Quit, AuthTypeOK
<1> QED  BY <1>2 DEF Quit, AuthTypeOK

LEMMA TypeStep ==
  ASSUME AuthTypeOK, CallInv, AuthNext \/ UNCHANGED authVars
  PROVE  AuthTypeOK'
<1> USE AuthAssumption DEF AuthTypeOK, MutexOf
<1>1. ASSUME NEW c \in AuthCall, CreateLock(c) PROVE AuthTypeOK'
  BY <1>1 DEF CreateLock, Move, files, tokenSets, refreshing, task, storeNotes, tokenNotes,
     CallInv, Store, Tokens, NoTokens
<1>2. ASSUME NEW c \in AuthCall, Guard(c) PROVE AuthTypeOK'
  BY <1>2 DEF Guard, Move, files, tokenSets, refreshing, task, storeNotes, tokenNotes,
     CallInv, Store, Tokens, NoTokens
<1>3. ASSUME NEW c \in AuthCall, Read(c) PROVE AuthTypeOK'
  BY <1>3 DEF Read, Move, files, tokenSets, refreshing, task, storeNotes, tokenNotes,
     CallInv, Store, Tokens, NoTokens
<1>4. ASSUME NEW c \in AuthCall, Write(c) PROVE AuthTypeOK'
  BY <1>4 DEF Write, Move, Rewrites, files, tokenSets, refreshing, task, storeNotes,
     tokenNotes, CallInv, Store, Tokens, NoTokens
<1>5. ASSUME NEW c \in AuthCall, Rename(c) PROVE AuthTypeOK'
  BY <1>5 DEF Rename, Move, Rewritten, files, tokenSets, refreshing, task, storeNotes,
     tokenNotes, CallInv, Store, Tokens, NoTokens
<1>6. ASSUME NEW c \in AuthCall, Leave(c) PROVE AuthTypeOK'
  <2>1. Quit({c}, "over")
    BY <1>6 DEF Leave
  <2> QED  BY <1>6, <2>1, QuitType DEF Leave, files, tokenSets, refreshing, task,
     storeNotes, tokenNotes
<1>7. ASSUME NEW c \in AuthCall, Fail(c) PROVE AuthTypeOK'
  <2>1. Quit({c}, "over")
    BY <1>7 DEF Fail
  <2> QED  BY <1>7, <2>1, QuitType DEF Fail, files, tokenSets, refreshing, task,
     storeNotes, tokenNotes
<1>8. ASSUME NEW c \in AuthCall, BeginRefresh(c) PROVE AuthTypeOK'
  BY <1>8 DEF BeginRefresh, GoTo, Move, files, tokenSets, refreshing, task, storeNotes,
     tokenNotes, CallInv, Store, Tokens, NoTokens
<1>9. ASSUME NEW c \in AuthCall, Use(c) PROVE AuthTypeOK'
  BY <1>9 DEF Use, Quit, Expiring, files, tokenSets, refreshing, task, storeNotes,
     tokenNotes, CallInv, Store, Tokens, NoTokens
<1>10. ASSUME NEW c \in AuthCall, AwaitMutex(c) PROVE AuthTypeOK'
  BY <1>10 DEF AwaitMutex, Move, Expiring, files, tokenSets, refreshing, task, storeNotes,
     tokenNotes, CallInv, Store, Tokens, NoTokens
<1>11. ASSUME NEW c \in AuthCall, LockRefresh(c) PROVE AuthTypeOK'
  BY <1>11 DEF LockRefresh, GoTo, Move, files, tokenSets, refreshing, task, storeNotes,
     tokenNotes, CallInv, Store, Tokens, NoTokens
<1>12. ASSUME NEW c \in AuthCall, Exchange(c) PROVE AuthTypeOK'
  <2>1. loaded[c][account[c]] \in Tokens \cup {NoTokens}
    BY DEF Store
  <2> QED  BY <1>12, <2>1 DEF Exchange, Move, files, tokenSets, refreshing, task,
     storeNotes, tokenNotes
<1>13. ASSUME NEW c \in AuthCall, Granted(c) PROVE AuthTypeOK'
  <2>1. newest' \in Tokens /\ newest' \in Nat /\ newest <= newest' /\ old \subseteq 1..newest'
    BY <1>13 DEF Granted, Issue, Tokens
  <2>2. sent[c] \in Tokens /\ HomeOf[c] \in Home
    BY <1>13 DEF Granted, CallInv
  <2>3. exchanged' \subseteq Home \X Tokens /\ again' \subseteq Tokens
    BY <1>13, <2>2 DEF Granted
  <2> QED  BY <1>13, <2>1, <2>3 DEF Granted, GoTo, Move, files, tokenSets, refreshing,
     task, storeNotes, tokenNotes
<1>14. ASSUME NEW c \in AuthCall, Denied(c) PROVE AuthTypeOK'
  <2>1. Quit({c}, "over")
    BY <1>14 DEF Denied
  <2> QED  BY <1>14, <2>1, QuitType DEF Denied, files, tokenSets, refreshing, task,
     storeNotes, tokenNotes
<1>15. ASSUME NEW c \in AuthCall, CreateAdrift(c) PROVE AuthTypeOK'
  BY <1>15 DEF CreateAdrift, Move, files, tokenSets, refreshing, task, storeNotes,
     tokenNotes, CallInv, Store, Tokens, NoTokens
<1>16. ASSUME NEW c \in AuthCall, RenameAdrift(c) PROVE AuthTypeOK'
  BY <1>16 DEF RenameAdrift, Move, Rewritten, files, tokenSets, refreshing, task,
     storeNotes, tokenNotes, CallInv, Store, Tokens, NoTokens
<1>17. ASSUME NEW c \in AuthCommand, Login(c) PROVE AuthTypeOK'
  BY <1>17 DEF Login, GoTo, Move, Issue, AuthCall, files, tokenSets, refreshing, task,
     storeNotes, tokenNotes, CallInv, Store, Tokens, NoTokens
<1>18. ASSUME NEW c \in AuthCommand, Logout(c) PROVE AuthTypeOK'
  BY <1>18 DEF Logout, GoTo, Move, AuthCall, files, tokenSets, refreshing, task,
     storeNotes, tokenNotes, CallInv, Store, Tokens, NoTokens
<1>19. ASSUME NEW c \in TurnCall, Dropped(c) PROVE AuthTypeOK'
  BY <1>19 DEF Dropped, Quit, Break, AuthCall, files, tokenSets, refreshing, task,
     storeNotes, tokenNotes, CallInv, Store, Tokens, NoTokens
<1>20. ASSUME NEW h \in Home, KillProcess(h) PROVE AuthTypeOK'
  <2>1. Quit({c \in AuthCall : HomeOf[c] = h /\ place[c] \notin {"new", "over"}}, "over")
    BY <1>20 DEF KillProcess
  <2> QED  BY <1>20, <2>1, QuitType DEF KillProcess, Break, files, tokenSets, refreshing,
     task, storeNotes, tokenNotes
<1>21. ASSUME NEW m \in Home \X Profile, BackoffEnds(m) PROVE AuthTypeOK'
  BY <1>21 DEF BackoffEnds, files, tokenSets, refreshing, task, storeNotes, tokenNotes,
     CallInv, Store, Tokens, NoTokens
<1>22. CASE GetOld
  BY <1>22 DEF GetOld, files, tokenSets, refreshing, task, storeNotes, tokenNotes, CallInv,
     Store, Tokens, NoTokens
<1>23. CASE UNCHANGED authVars
  BY <1>23 DEF authVars, files, tokenSets, refreshing, task, storeNotes, tokenNotes,
     CallInv, Store, Tokens, NoTokens
<1> QED
  BY <1>1, <1>2, <1>3, <1>4, <1>5, <1>6, <1>7, <1>8, <1>9, <1>10, <1>11, <1>12,
     <1>13, <1>14, <1>15, <1>16, <1>17, <1>18, <1>19, <1>20, <1>21, <1>22, <1>23
  DEF AuthNext, AuthStep

LEMMA CallStep ==
  ASSUME AuthTypeOK, CallInv, AuthNext \/ UNCHANGED authVars
  PROVE  CallInv'
<1> USE AuthAssumption DEF AuthTypeOK, CallInv
<1>1. ASSUME NEW c \in AuthCall, CreateLock(c) PROVE CallInv'
  BY <1>1 DEF CreateLock, Move, files, tokenSets, task, Store, Tokens, NoTokens
<1>2. ASSUME NEW c \in AuthCall, Guard(c) PROVE CallInv'
  BY <1>2 DEF Guard, Move, files, tokenSets, task, Store, Tokens, NoTokens
<1>3. ASSUME NEW c \in AuthCall, Read(c) PROVE CallInv'
  BY <1>3 DEF Read, Move, files, tokenSets, task, Store, Tokens, NoTokens
<1>4. ASSUME NEW c \in AuthCall, Write(c) PROVE CallInv'
  BY <1>4 DEF Write, Move, Rewrites, files, tokenSets, task, Store, Tokens, NoTokens
<1>5. ASSUME NEW c \in AuthCall, Rename(c) PROVE CallInv'
  BY <1>5 DEF Rename, Move, Rewritten, files, tokenSets, task, Store, Tokens, NoTokens
<1>6. ASSUME NEW c \in AuthCall, Leave(c) PROVE CallInv'
  BY <1>6 DEF Leave, Quit, files, tokenSets, task, Store, Tokens, NoTokens
<1>7. ASSUME NEW c \in AuthCall, Fail(c) PROVE CallInv'
  BY <1>7 DEF Fail, Quit, files, tokenSets, task, Store, Tokens, NoTokens
<1>8. ASSUME NEW c \in AuthCall, BeginRefresh(c) PROVE CallInv'
  BY <1>8 DEF BeginRefresh, GoTo, Move, files, tokenSets, task, Store, Tokens, NoTokens
<1>9. ASSUME NEW c \in AuthCall, Use(c) PROVE CallInv'
  BY <1>9 DEF Use, Quit, Expiring, files, tokenSets, task, Store, Tokens, NoTokens
<1>10. ASSUME NEW c \in AuthCall, AwaitMutex(c) PROVE CallInv'
  BY <1>10 DEF AwaitMutex, Move, Expiring, files, tokenSets, task, Store, Tokens, NoTokens
<1>11. ASSUME NEW c \in AuthCall, LockRefresh(c) PROVE CallInv'
  BY <1>11 DEF LockRefresh, GoTo, Move, files, tokenSets, task, Store, Tokens, NoTokens
<1>12. ASSUME NEW c \in AuthCall, Exchange(c) PROVE CallInv'
  BY <1>12 DEF Exchange, Move, Expiring, files, tokenSets, task, Store, Tokens, NoTokens
<1>13. ASSUME NEW c \in AuthCall, Granted(c) PROVE CallInv'
  BY <1>13 DEF Granted, GoTo, Move, Issue, files, tokenSets, task, Store, Tokens, NoTokens
<1>14. ASSUME NEW c \in AuthCall, Denied(c) PROVE CallInv'
  BY <1>14 DEF Denied, Quit, files, tokenSets, task, Store, Tokens, NoTokens
<1>15. ASSUME NEW c \in AuthCall, CreateAdrift(c) PROVE CallInv'
  BY <1>15 DEF CreateAdrift, Move, files, tokenSets, task, Store, Tokens, NoTokens
<1>16. ASSUME NEW c \in AuthCall, RenameAdrift(c) PROVE CallInv'
  BY <1>16 DEF RenameAdrift, Move, Rewritten, files, tokenSets, task, Store, Tokens,
     NoTokens
<1>17. ASSUME NEW c \in AuthCommand, Login(c) PROVE CallInv'
  BY <1>17 DEF Login, GoTo, Move, Issue, AuthCall, files, tokenSets, task, Store, Tokens,
     NoTokens
<1>18. ASSUME NEW c \in AuthCommand, Logout(c) PROVE CallInv'
  BY <1>18 DEF Logout, GoTo, Move, AuthCall, files, tokenSets, task, Store, Tokens, NoTokens
<1>19. ASSUME NEW c \in TurnCall, Dropped(c) PROVE CallInv'
  BY <1>19 DEF Dropped, Quit, Break, AuthCall, files, tokenSets, task, Store, Tokens,
     NoTokens
<1>20. ASSUME NEW h \in Home, KillProcess(h) PROVE CallInv'
  BY <1>20 DEF KillProcess, Quit, Break, files, tokenSets, task, Store, Tokens, NoTokens
<1>21. ASSUME NEW m \in Home \X Profile, BackoffEnds(m) PROVE CallInv'
  BY <1>21 DEF BackoffEnds, files, tokenSets, task, Store, Tokens, NoTokens
<1>22. CASE GetOld
  BY <1>22 DEF GetOld, files, tokenSets, task, Store, Tokens, NoTokens
<1>23. CASE UNCHANGED authVars
  BY <1>23 DEF authVars, files, tokenSets, task, Store, Tokens, NoTokens
<1> QED
  BY <1>1, <1>2, <1>3, <1>4, <1>5, <1>6, <1>7, <1>8, <1>9, <1>10, <1>11, <1>12,
     <1>13, <1>14, <1>15, <1>16, <1>17, <1>18, <1>19, <1>20, <1>21, <1>22, <1>23
  DEF AuthNext, AuthStep

LEMMA LockStep ==
  ASSUME AuthTypeOK, LockAccounted, AuthNext \/ UNCHANGED authVars
  PROVE  LockAccounted'
<1> USE DEF AuthTypeOK, LockAccounted, Owners
<1>1. ASSUME NEW c \in AuthCall, CreateLock(c) PROVE LockAccounted'
  BY <1>1 DEF CreateLock, Move, files, Guards
<1>2. ASSUME NEW c \in AuthCall, Guard(c) PROVE LockAccounted'
  BY <1>2 DEF Guard, Move, files, Guards
<1>3. ASSUME NEW c \in AuthCall, Read(c) PROVE LockAccounted'
  BY <1>3 DEF Read, Move, files, Guards
<1>4. ASSUME NEW c \in AuthCall, Write(c) PROVE LockAccounted'
  BY <1>4 DEF Write, Move, Rewrites, files, Guards
<1>5. ASSUME NEW c \in AuthCall, Rename(c) PROVE LockAccounted'
  BY <1>5 DEF Rename, Move, Rewritten, files, Guards
<1>6. ASSUME NEW c \in AuthCall, Leave(c) PROVE LockAccounted'
  BY <1>6 DEF Leave, Quit, files, Guards
<1>7. ASSUME NEW c \in AuthCall, Fail(c) PROVE LockAccounted'
  BY <1>7 DEF Fail, Quit, files, Guards
<1>8. ASSUME NEW c \in AuthCall, BeginRefresh(c) PROVE LockAccounted'
  BY <1>8 DEF BeginRefresh, GoTo, Move, files, Guards
<1>9. ASSUME NEW c \in AuthCall, Use(c) PROVE LockAccounted'
  BY <1>9 DEF Use, Quit, Expiring, files, Guards
<1>10. ASSUME NEW c \in AuthCall, AwaitMutex(c) PROVE LockAccounted'
  BY <1>10 DEF AwaitMutex, Move, Expiring, files, Guards
<1>11. ASSUME NEW c \in AuthCall, LockRefresh(c) PROVE LockAccounted'
  BY <1>11 DEF LockRefresh, GoTo, Move, files, Guards
<1>12. ASSUME NEW c \in AuthCall, Exchange(c) PROVE LockAccounted'
  BY <1>12 DEF Exchange, Move, Expiring, files, Guards
<1>13. ASSUME NEW c \in AuthCall, Granted(c) PROVE LockAccounted'
  BY <1>13 DEF Granted, GoTo, Move, Issue, files, Guards
<1>14. ASSUME NEW c \in AuthCall, Denied(c) PROVE LockAccounted'
  BY <1>14 DEF Denied, Quit, files, Guards
<1>15. ASSUME NEW c \in AuthCall, CreateAdrift(c) PROVE LockAccounted'
  BY <1>15 DEF CreateAdrift, Move, files, Guards
<1>16. ASSUME NEW c \in AuthCall, RenameAdrift(c) PROVE LockAccounted'
  BY <1>16 DEF RenameAdrift, Move, Rewritten, files, Guards
<1>17. ASSUME NEW c \in AuthCommand, Login(c) PROVE LockAccounted'
  BY <1>17 DEF Login, GoTo, Move, Issue, AuthCall, files, Guards
<1>18. ASSUME NEW c \in AuthCommand, Logout(c) PROVE LockAccounted'
  BY <1>18 DEF Logout, GoTo, Move, AuthCall, files, Guards
<1>19. ASSUME NEW c \in TurnCall, Dropped(c) PROVE LockAccounted'
  BY <1>19 DEF Dropped, Quit, Break, AuthCall, files, Guards
<1>20. ASSUME NEW h \in Home, KillProcess(h) PROVE LockAccounted'
  BY <1>20 DEF KillProcess, Quit, Break, files, Guards
<1>21. ASSUME NEW m \in Home \X Profile, BackoffEnds(m) PROVE LockAccounted'
  BY <1>21 DEF BackoffEnds, files, Guards
<1>22. CASE GetOld
  BY <1>22 DEF GetOld, files, Guards
<1>23. CASE UNCHANGED authVars
  BY <1>23 DEF authVars, files, Guards
<1> QED
  BY <1>1, <1>2, <1>3, <1>4, <1>5, <1>6, <1>7, <1>8, <1>9, <1>10, <1>11, <1>12,
     <1>13, <1>14, <1>15, <1>16, <1>17, <1>18, <1>19, <1>20, <1>21, <1>22, <1>23
  DEF AuthNext, AuthStep

LEMMA StoreStep ==
  ASSUME AuthTypeOK, CallInv, LockAccounted, StoreInv, AuthNext \/ UNCHANGED authVars
  PROVE  StoreInv'
<1> USE DEF AuthTypeOK, StoreInv, storeNotes
<1>1. ASSUME NEW c \in AuthCall, CreateLock(c) PROVE StoreInv'
  BY <1>1 DEF CreateLock, Move, files, task
<1>2. ASSUME NEW c \in AuthCall, Guard(c) PROVE StoreInv'
  BY <1>2 DEF Guard, Move, files, task
<1>3. ASSUME NEW c \in AuthCall, Read(c) PROVE StoreInv'
  BY <1>3 DEF Read, Move, files, task
<1>4. ASSUME NEW c \in AuthCall, Write(c) PROVE StoreInv'
  BY <1>4 DEF Write, Move, Rewrites, files, task
<1>5. ASSUME NEW c \in AuthCall, Rename(c) PROVE StoreInv'
  <2>1. c \in Owners /\ \A d \in Owners : d = c
    BY <1>5 DEF Rename, LockAccounted, Owners
  <2>2. \A d \in AuthCall : place'[d] \notin {"read", "renaming"}
    BY <1>5, <2>1 DEF Rename, Move, Owners
  <2>3. SUFFICES ASSUME ~leaked PROVE profiles' = kept'
    BY <1>5, <2>2 DEF Rename
  <2>4. loaded[c] = kept /\ kept \in Store /\ account[c] \in Profile
    BY <1>5, <2>3 DEF Rename
  <2>5. PICK v : Rewritten(c) = [kept EXCEPT ![account[c]] = v]
    BY <2>4 DEF Rewritten
  <2> QED  BY <1>5, <2>4, <2>5 DEF Rename, Store
<1>6. ASSUME NEW c \in AuthCall, Leave(c) PROVE StoreInv'
  BY <1>6 DEF Leave, Quit, files, task
<1>7. ASSUME NEW c \in AuthCall, Fail(c) PROVE StoreInv'
  BY <1>7 DEF Fail, Quit, files, task
<1>8. ASSUME NEW c \in AuthCall, BeginRefresh(c) PROVE StoreInv'
  BY <1>8 DEF BeginRefresh, GoTo, Move, files, task
<1>9. ASSUME NEW c \in AuthCall, Use(c) PROVE StoreInv'
  BY <1>9 DEF Use, Quit, Expiring, files, task
<1>10. ASSUME NEW c \in AuthCall, AwaitMutex(c) PROVE StoreInv'
  BY <1>10 DEF AwaitMutex, Move, Expiring, files, task
<1>11. ASSUME NEW c \in AuthCall, LockRefresh(c) PROVE StoreInv'
  BY <1>11 DEF LockRefresh, GoTo, Move, files, task
<1>12. ASSUME NEW c \in AuthCall, Exchange(c) PROVE StoreInv'
  BY <1>12 DEF Exchange, Move, Expiring, files, task
<1>13. ASSUME NEW c \in AuthCall, Granted(c) PROVE StoreInv'
  BY <1>13 DEF Granted, GoTo, Move, Issue, files, task
<1>14. ASSUME NEW c \in AuthCall, Denied(c) PROVE StoreInv'
  BY <1>14 DEF Denied, Quit, files, task
<1>15. ASSUME NEW c \in AuthCall, CreateAdrift(c) PROVE StoreInv'
  BY <1>15 DEF CreateAdrift, Move, files, task
<1>16. ASSUME NEW c \in AuthCall, RenameAdrift(c) PROVE StoreInv'
  BY <1>16 DEF RenameAdrift, Move, Rewritten, files, task
<1>17. ASSUME NEW c \in AuthCommand, Login(c) PROVE StoreInv'
  BY <1>17 DEF Login, GoTo, Move, Issue, AuthCall, files, task
<1>18. ASSUME NEW c \in AuthCommand, Logout(c) PROVE StoreInv'
  BY <1>18 DEF Logout, GoTo, Move, AuthCall, files, task
<1>19. ASSUME NEW c \in TurnCall, Dropped(c) PROVE StoreInv'
  BY <1>19 DEF Dropped, Quit, Break, AuthCall, files, task
<1>20. ASSUME NEW h \in Home, KillProcess(h) PROVE StoreInv'
  BY <1>20 DEF KillProcess, Quit, Break, files, task
<1>21. ASSUME NEW m \in Home \X Profile, BackoffEnds(m) PROVE StoreInv'
  BY <1>21 DEF BackoffEnds, files, task
<1>22. CASE GetOld
  BY <1>22 DEF GetOld, files, task
<1>23. CASE UNCHANGED authVars
  BY <1>23 DEF authVars, files, task
<1> QED
  BY <1>1, <1>2, <1>3, <1>4, <1>5, <1>6, <1>7, <1>8, <1>9, <1>10, <1>11, <1>12,
     <1>13, <1>14, <1>15, <1>16, <1>17, <1>18, <1>19, <1>20, <1>21, <1>22, <1>23
  DEF AuthNext, AuthStep

\* Steps keep tokens to their profiles, new ones apart.
LEMMA HeldStep ==
  ASSUME AuthTypeOK, CallInv, AuthNext \/ UNCHANGED authVars,
         NEW k \in Tokens, NEW p \in Profile, Held(k, p)'
  PROVE  \/ Held(k, p)
         \/ /\ newest' = newest + 1 /\ k = newest'
            /\ \E c \in AuthCall : account'[c] = p /\ got'[c] = newest'
<1> DEFINE Old == Held(k, p)
           New == /\ newest' = newest + 1 /\ k = newest'
                  /\ \E c \in AuthCall : account'[c] = p /\ got'[c] = newest'
<1> USE DEF AuthTypeOK, CallInv, Held
<1>1. ASSUME NEW c \in AuthCall, CreateLock(c) PROVE Old \/ New
  BY <1>1 DEF CreateLock, Move, files, tokenSets, task, Store, Tokens, NoTokens
<1>2. ASSUME NEW c \in AuthCall, Guard(c) PROVE Old \/ New
  BY <1>2 DEF Guard, Move, files, tokenSets, task, Store, Tokens, NoTokens
<1>3. ASSUME NEW c \in AuthCall, Read(c) PROVE Old \/ New
  BY <1>3 DEF Read, Move, files, tokenSets, task, Store, Tokens, NoTokens
<1>4. ASSUME NEW c \in AuthCall, Write(c) PROVE Old \/ New
  BY <1>4 DEF Write, Move, Rewrites, files, tokenSets, task, Store, Tokens, NoTokens
<1>5. ASSUME NEW c \in AuthCall, Rename(c) PROVE Old \/ New
  BY <1>5 DEF Rename, Move, Rewritten, files, tokenSets, task, Store, Tokens, NoTokens
<1>6. ASSUME NEW c \in AuthCall, Leave(c) PROVE Old \/ New
  BY <1>6 DEF Leave, Quit, files, tokenSets, task, Store, Tokens, NoTokens
<1>7. ASSUME NEW c \in AuthCall, Fail(c) PROVE Old \/ New
  BY <1>7 DEF Fail, Quit, files, tokenSets, task, Store, Tokens, NoTokens
<1>8. ASSUME NEW c \in AuthCall, BeginRefresh(c) PROVE Old \/ New
  BY <1>8 DEF BeginRefresh, GoTo, Move, files, tokenSets, task, Store, Tokens, NoTokens
<1>9. ASSUME NEW c \in AuthCall, Use(c) PROVE Old \/ New
  BY <1>9 DEF Use, Quit, Expiring, files, tokenSets, task, Store, Tokens, NoTokens
<1>10. ASSUME NEW c \in AuthCall, AwaitMutex(c) PROVE Old \/ New
  BY <1>10 DEF AwaitMutex, Move, Expiring, files, tokenSets, task, Store, Tokens, NoTokens
<1>11. ASSUME NEW c \in AuthCall, LockRefresh(c) PROVE Old \/ New
  BY <1>11 DEF LockRefresh, GoTo, Move, files, tokenSets, task, Store, Tokens, NoTokens
<1>12. ASSUME NEW c \in AuthCall, Exchange(c) PROVE Old \/ New
  BY <1>12 DEF Exchange, Move, Expiring, files, tokenSets, task, Store, Tokens, NoTokens
<1>13. ASSUME NEW c \in AuthCall, Granted(c) PROVE Old \/ New
  BY <1>13 DEF Granted, GoTo, Move, Issue, files, tokenSets, task, Store, Tokens, NoTokens
<1>14. ASSUME NEW c \in AuthCall, Denied(c) PROVE Old \/ New
  BY <1>14 DEF Denied, Quit, files, tokenSets, task, Store, Tokens, NoTokens
<1>15. ASSUME NEW c \in AuthCall, CreateAdrift(c) PROVE Old \/ New
  BY <1>15 DEF CreateAdrift, Move, files, tokenSets, task, Store, Tokens, NoTokens
<1>16. ASSUME NEW c \in AuthCall, RenameAdrift(c) PROVE Old \/ New
  BY <1>16 DEF RenameAdrift, Move, Rewritten, files, tokenSets, task, Store, Tokens,
     NoTokens
<1>17. ASSUME NEW c \in AuthCommand, Login(c) PROVE Old \/ New
  BY <1>17 DEF Login, GoTo, Move, Issue, AuthCall, files, tokenSets, task, Store, Tokens,
     NoTokens
<1>18. ASSUME NEW c \in AuthCommand, Logout(c) PROVE Old \/ New
  BY <1>18 DEF Logout, GoTo, Move, AuthCall, files, tokenSets, task, Store, Tokens, NoTokens
<1>19. ASSUME NEW c \in TurnCall, Dropped(c) PROVE Old \/ New
  BY <1>19 DEF Dropped, Quit, Break, AuthCall, files, tokenSets, task, Store, Tokens,
     NoTokens
<1>20. ASSUME NEW h \in Home, KillProcess(h) PROVE Old \/ New
  BY <1>20 DEF KillProcess, Quit, Break, files, tokenSets, task, Store, Tokens, NoTokens
<1>21. ASSUME NEW m \in Home \X Profile, BackoffEnds(m) PROVE Old \/ New
  BY <1>21 DEF BackoffEnds, files, tokenSets, task, Store, Tokens, NoTokens
<1>22. CASE GetOld
  BY <1>22 DEF GetOld, files, tokenSets, task, Store, Tokens, NoTokens
<1>23. CASE UNCHANGED authVars
  BY <1>23 DEF authVars, files, tokenSets, task, Store, Tokens, NoTokens
<1> QED
  BY <1>1, <1>2, <1>3, <1>4, <1>5, <1>6, <1>7, <1>8, <1>9, <1>10, <1>11, <1>12,
     <1>13, <1>14, <1>15, <1>16, <1>17, <1>18, <1>19, <1>20, <1>21, <1>22, <1>23
  DEF AuthNext, AuthStep

\* Steps spread tokens that were spread, or those that are stored.
LEMMA SpreadStep ==
  ASSUME AuthTypeOK, CallInv, AuthNext \/ UNCHANGED authVars,
         NEW k \in Tokens, Spread(k)'
  PROVE  \/ Spread(k)
         \/ \E c \in AuthCall : got[c] = k /\ place[c] \in {"renaming", "storeAdrift"}
                               /\ place'[c] \in {"leaving", "over"}
<1> DEFINE Stored == \E c \in AuthCall : got[c] = k /\ place[c] \in {"renaming",
   "storeAdrift"}
                                        /\ place'[c] \in {"leaving", "over"}
<1> USE DEF AuthTypeOK, CallInv, Spread
<1>1. ASSUME NEW c \in AuthCall, CreateLock(c) PROVE Spread(k) \/ Stored
  BY <1>1 DEF CreateLock, Move, files, tokenSets, task, tokenNotes, Store, Tokens, NoTokens
<1>2. ASSUME NEW c \in AuthCall, Guard(c) PROVE Spread(k) \/ Stored
  BY <1>2 DEF Guard, Move, files, tokenSets, task, tokenNotes, Store, Tokens, NoTokens
<1>3. ASSUME NEW c \in AuthCall, Read(c) PROVE Spread(k) \/ Stored
  BY <1>3 DEF Read, Move, files, tokenSets, task, tokenNotes, Store, Tokens, NoTokens
<1>4. ASSUME NEW c \in AuthCall, Write(c) PROVE Spread(k) \/ Stored
  BY <1>4 DEF Write, Move, Rewrites, files, tokenSets, task, tokenNotes, Store, Tokens,
     NoTokens
<1>5. ASSUME NEW c \in AuthCall, Rename(c) PROVE Spread(k) \/ Stored
  <2>1. place'[c] \in {"leaving", "over"} /\ errand[c] \in {"save", "login", "logout"}
    BY <1>5 DEF Rename, Move
  <2>2. ASSUME NEW p \in Profile, profiles'[p] = k PROVE loaded[c][p] = k \/ got[c] = k
    BY <1>5, <2>2 DEF Rename, Rewritten, Store, Tokens, NoTokens
  <2> QED  BY <1>5, <2>1, <2>2 DEF Rename, task, tokenSets, tokenNotes
<1>6. ASSUME NEW c \in AuthCall, Leave(c) PROVE Spread(k) \/ Stored
  BY <1>6 DEF Leave, Quit, files, tokenSets, task, tokenNotes, Store, Tokens, NoTokens
<1>7. ASSUME NEW c \in AuthCall, Fail(c) PROVE Spread(k) \/ Stored
  BY <1>7 DEF Fail, Quit, files, tokenSets, task, tokenNotes, Store, Tokens, NoTokens
<1>8. ASSUME NEW c \in AuthCall, BeginRefresh(c) PROVE Spread(k) \/ Stored
  BY <1>8 DEF BeginRefresh, GoTo, Move, files, tokenSets, task, tokenNotes, Store, Tokens,
     NoTokens
<1>9. ASSUME NEW c \in AuthCall, Use(c) PROVE Spread(k) \/ Stored
  BY <1>9 DEF Use, Quit, Expiring, files, tokenSets, task, tokenNotes, Store, Tokens,
     NoTokens
<1>10. ASSUME NEW c \in AuthCall, AwaitMutex(c) PROVE Spread(k) \/ Stored
  BY <1>10 DEF AwaitMutex, Move, Expiring, files, tokenSets, task, tokenNotes, Store,
     Tokens, NoTokens
<1>11. ASSUME NEW c \in AuthCall, LockRefresh(c) PROVE Spread(k) \/ Stored
  BY <1>11 DEF LockRefresh, GoTo, Move, files, tokenSets, task, tokenNotes, Store, Tokens,
     NoTokens
<1>12. ASSUME NEW c \in AuthCall, Exchange(c) PROVE Spread(k) \/ Stored
  BY <1>12 DEF Exchange, Move, Expiring, files, tokenSets, task, tokenNotes, Store, Tokens,
     NoTokens
<1>13. ASSUME NEW c \in AuthCall, Granted(c) PROVE Spread(k) \/ Stored
  BY <1>13 DEF Granted, GoTo, Move, Issue, files, tokenSets, task, tokenNotes, Store,
     Tokens, NoTokens
<1>14. ASSUME NEW c \in AuthCall, Denied(c) PROVE Spread(k) \/ Stored
  BY <1>14 DEF Denied, Quit, files, tokenSets, task, tokenNotes, Store, Tokens, NoTokens
<1>15. ASSUME NEW c \in AuthCall, CreateAdrift(c) PROVE Spread(k) \/ Stored
  BY <1>15 DEF CreateAdrift, Move, files, tokenSets, task, tokenNotes, Store, Tokens,
     NoTokens
<1>16. ASSUME NEW c \in AuthCall, RenameAdrift(c) PROVE Spread(k) \/ Stored
  <2>1. place'[c] \in {"leaving", "over"} /\ errand[c] \in {"save", "login", "logout"}
    BY <1>16 DEF RenameAdrift, Move
  <2>2. ASSUME NEW p \in Profile, profiles'[p] = k PROVE loaded[c][p] = k \/ got[c] = k
    BY <1>16, <2>2 DEF RenameAdrift, Rewritten, Store, Tokens, NoTokens
  <2> QED  BY <1>16, <2>1, <2>2 DEF RenameAdrift, task, tokenSets, tokenNotes
<1>17. ASSUME NEW c \in AuthCommand, Login(c) PROVE Spread(k) \/ Stored
  BY <1>17 DEF Login, GoTo, Move, Issue, AuthCall, files, tokenSets, task, tokenNotes,
     Store, Tokens, NoTokens
<1>18. ASSUME NEW c \in AuthCommand, Logout(c) PROVE Spread(k) \/ Stored
  BY <1>18 DEF Logout, GoTo, Move, AuthCall, files, tokenSets, task, tokenNotes, Store,
     Tokens, NoTokens
<1>19. ASSUME NEW c \in TurnCall, Dropped(c) PROVE Spread(k) \/ Stored
  BY <1>19 DEF Dropped, Quit, Break, AuthCall, files, tokenSets, task, tokenNotes, Store,
     Tokens, NoTokens
<1>20. ASSUME NEW h \in Home, KillProcess(h) PROVE Spread(k) \/ Stored
  BY <1>20 DEF KillProcess, Quit, Break, files, tokenSets, task, tokenNotes, Store, Tokens,
     NoTokens
<1>21. ASSUME NEW m \in Home \X Profile, BackoffEnds(m) PROVE Spread(k) \/ Stored
  BY <1>21 DEF BackoffEnds, files, tokenSets, task, tokenNotes, Store, Tokens, NoTokens
<1>22. CASE GetOld
  BY <1>22 DEF GetOld, files, tokenSets, task, tokenNotes, Store, Tokens, NoTokens
<1>23. CASE UNCHANGED authVars
  BY <1>23 DEF authVars, files, tokenSets, task, tokenNotes, Store, Tokens, NoTokens
<1> QED
  BY <1>1, <1>2, <1>3, <1>4, <1>5, <1>6, <1>7, <1>8, <1>9, <1>10, <1>11, <1>12,
     <1>13, <1>14, <1>15, <1>16, <1>17, <1>18, <1>19, <1>20, <1>21, <1>22, <1>23
  DEF AuthNext, AuthStep

LEMMA MutexStep ==
  ASSUME AuthTypeOK, CallInv, MutexInv, AuthNext \/ UNCHANGED authVars
  PROVE  MutexInv'
<1> USE AuthAssumption DEF AuthTypeOK, CallInv, MutexInv, MutexOf, Engaged
<1>1. ASSUME NEW c \in AuthCall, CreateLock(c) PROVE MutexInv'
  BY <1>1 DEF CreateLock, Move, files, tokenSets, refreshing, task
<1>2. ASSUME NEW c \in AuthCall, Guard(c) PROVE MutexInv'
  BY <1>2 DEF Guard, Move, files, tokenSets, refreshing, task
<1>3. ASSUME NEW c \in AuthCall, Read(c) PROVE MutexInv'
  BY <1>3 DEF Read, Move, files, tokenSets, refreshing, task
<1>4. ASSUME NEW c \in AuthCall, Write(c) PROVE MutexInv'
  BY <1>4 DEF Write, Move, Rewrites, files, tokenSets, refreshing, task
<1>5. ASSUME NEW c \in AuthCall, Rename(c) PROVE MutexInv'
  BY <1>5 DEF Rename, Move, Rewritten, files, tokenSets, refreshing, task
<1>6. ASSUME NEW c \in AuthCall, Leave(c) PROVE MutexInv'
  BY <1>6 DEF Leave, Quit, files, tokenSets, refreshing, task
<1>7. ASSUME NEW c \in AuthCall, Fail(c) PROVE MutexInv'
  BY <1>7 DEF Fail, Quit, files, tokenSets, refreshing, task
<1>8. ASSUME NEW c \in AuthCall, BeginRefresh(c) PROVE MutexInv'
  BY <1>8 DEF BeginRefresh, GoTo, Move, files, tokenSets, refreshing, task
<1>9. ASSUME NEW c \in AuthCall, Use(c) PROVE MutexInv'
  BY <1>9 DEF Use, Quit, Expiring, files, tokenSets, refreshing, task
<1>10. ASSUME NEW c \in AuthCall, AwaitMutex(c) PROVE MutexInv'
  BY <1>10 DEF AwaitMutex, Move, Expiring, files, tokenSets, refreshing, task
<1>11. ASSUME NEW c \in AuthCall, LockRefresh(c) PROVE MutexInv'
  BY <1>11 DEF LockRefresh, GoTo, Move, files, tokenSets, refreshing, task
<1>12. ASSUME NEW c \in AuthCall, Exchange(c) PROVE MutexInv'
  BY <1>12 DEF Exchange, Move, Expiring, files, tokenSets, refreshing, task
<1>13. ASSUME NEW c \in AuthCall, Granted(c) PROVE MutexInv'
  BY <1>13 DEF Granted, GoTo, Move, Issue, files, tokenSets, refreshing, task
<1>14. ASSUME NEW c \in AuthCall, Denied(c) PROVE MutexInv'
  BY <1>14 DEF Denied, Quit, files, tokenSets, refreshing, task
<1>15. ASSUME NEW c \in AuthCall, CreateAdrift(c) PROVE MutexInv'
  BY <1>15 DEF CreateAdrift, Move, files, tokenSets, refreshing, task
<1>16. ASSUME NEW c \in AuthCall, RenameAdrift(c) PROVE MutexInv'
  BY <1>16 DEF RenameAdrift, Move, Rewritten, files, tokenSets, refreshing, task
<1>17. ASSUME NEW c \in AuthCommand, Login(c) PROVE MutexInv'
  BY <1>17 DEF Login, GoTo, Move, Issue, AuthCall, files, tokenSets, refreshing, task
<1>18. ASSUME NEW c \in AuthCommand, Logout(c) PROVE MutexInv'
  BY <1>18 DEF Logout, GoTo, Move, AuthCall, files, tokenSets, refreshing, task
<1>19. ASSUME NEW c \in TurnCall, Dropped(c) PROVE MutexInv'
  BY <1>19 DEF Dropped, Quit, Break, AuthCall, files, tokenSets, refreshing, task
<1>20. ASSUME NEW h \in Home, KillProcess(h) PROVE MutexInv'
  BY <1>20 DEF KillProcess, Quit, Break, files, tokenSets, refreshing, task
<1>21. ASSUME NEW m \in Home \X Profile, BackoffEnds(m) PROVE MutexInv'
  BY <1>21 DEF BackoffEnds, files, tokenSets, refreshing, task
<1>22. CASE GetOld
  BY <1>22 DEF GetOld, files, tokenSets, refreshing, task
<1>23. CASE UNCHANGED authVars
  BY <1>23 DEF authVars, files, tokenSets, refreshing, task
<1> QED
  BY <1>1, <1>2, <1>3, <1>4, <1>5, <1>6, <1>7, <1>8, <1>9, <1>10, <1>11, <1>12,
     <1>13, <1>14, <1>15, <1>16, <1>17, <1>18, <1>19, <1>20, <1>21, <1>22, <1>23
  DEF AuthNext, AuthStep

\* Tokens are issued to one call at a time, and what a call has to store was
\* issued to it.
LEMMA GotStep ==
  ASSUME AuthTypeOK, CallInv, AuthNext \/ UNCHANGED authVars
  PROVE  /\ newest <= newest'
         /\ \A c \in AuthCall : got'[c] = got[c] \/ (newest' = newest + 1 /\ got'[c] = newest')
         /\ \A c, d \in AuthCall : got'[c] # got[c] /\ got'[d] # got[d] => c = d
         /\ \A c \in AuthCall : Unsaved(c)' =>
              \/ Unsaved(c) /\ got'[c] = got[c]
              \/ newest' = newest + 1 /\ got'[c] = newest'
<1> DEFINE Goal == /\ newest <= newest'
                   /\ \A c \in AuthCall :
                        got'[c] = got[c] \/ (newest' = newest + 1 /\ got'[c] = newest')
                   /\ \A c, d \in AuthCall : got'[c] # got[c] /\ got'[d] # got[d] => c = d
                   /\ \A c \in AuthCall : Unsaved(c)' =>
                        \/ Unsaved(c) /\ got'[c] = got[c]
                        \/ newest' = newest + 1 /\ got'[c] = newest'
<1> USE DEF AuthTypeOK, CallInv, Unsaved, Engaged
<1>1. ASSUME NEW c \in AuthCall, CreateLock(c) PROVE Goal
  BY <1>1 DEF CreateLock, Move, files, tokenSets, task, Tokens
<1>2. ASSUME NEW c \in AuthCall, Guard(c) PROVE Goal
  BY <1>2 DEF Guard, Move, files, tokenSets, task, Tokens
<1>3. ASSUME NEW c \in AuthCall, Read(c) PROVE Goal
  BY <1>3 DEF Read, Move, files, tokenSets, task, Tokens
<1>4. ASSUME NEW c \in AuthCall, Write(c) PROVE Goal
  BY <1>4 DEF Write, Move, Rewrites, files, tokenSets, task, Tokens
<1>5. ASSUME NEW c \in AuthCall, Rename(c) PROVE Goal
  BY <1>5 DEF Rename, Move, Rewritten, files, tokenSets, task, Tokens
<1>6. ASSUME NEW c \in AuthCall, Leave(c) PROVE Goal
  BY <1>6 DEF Leave, Quit, files, tokenSets, task, Tokens
<1>7. ASSUME NEW c \in AuthCall, Fail(c) PROVE Goal
  BY <1>7 DEF Fail, Quit, files, tokenSets, task, Tokens
<1>8. ASSUME NEW c \in AuthCall, BeginRefresh(c) PROVE Goal
  BY <1>8 DEF BeginRefresh, GoTo, Move, files, tokenSets, task, Tokens
<1>9. ASSUME NEW c \in AuthCall, Use(c) PROVE Goal
  BY <1>9 DEF Use, Quit, Expiring, files, tokenSets, task, Tokens
<1>10. ASSUME NEW c \in AuthCall, AwaitMutex(c) PROVE Goal
  BY <1>10 DEF AwaitMutex, Move, Expiring, files, tokenSets, task, Tokens
<1>11. ASSUME NEW c \in AuthCall, LockRefresh(c) PROVE Goal
  BY <1>11 DEF LockRefresh, GoTo, Move, files, tokenSets, task, Tokens
<1>12. ASSUME NEW c \in AuthCall, Exchange(c) PROVE Goal
  BY <1>12 DEF Exchange, Move, Expiring, files, tokenSets, task, Tokens
<1>13. ASSUME NEW c \in AuthCall, Granted(c) PROVE Goal
  BY <1>13 DEF Granted, GoTo, Move, Issue, files, tokenSets, task, Tokens
<1>14. ASSUME NEW c \in AuthCall, Denied(c) PROVE Goal
  BY <1>14 DEF Denied, Quit, files, tokenSets, task, Tokens
<1>15. ASSUME NEW c \in AuthCall, CreateAdrift(c) PROVE Goal
  BY <1>15 DEF CreateAdrift, Move, files, tokenSets, task, Tokens
<1>16. ASSUME NEW c \in AuthCall, RenameAdrift(c) PROVE Goal
  BY <1>16 DEF RenameAdrift, Move, Rewritten, files, tokenSets, task, Tokens
<1>17. ASSUME NEW c \in AuthCommand, Login(c) PROVE Goal
  BY <1>17 DEF Login, GoTo, Move, Issue, AuthCall, files, tokenSets, task, Tokens
<1>18. ASSUME NEW c \in AuthCommand, Logout(c) PROVE Goal
  BY <1>18 DEF Logout, GoTo, Move, AuthCall, files, tokenSets, task, Tokens
<1>19. ASSUME NEW c \in TurnCall, Dropped(c) PROVE Goal
  BY <1>19 DEF Dropped, Quit, Break, AuthCall, files, tokenSets, task, Tokens
<1>20. ASSUME NEW h \in Home, KillProcess(h) PROVE Goal
  BY <1>20 DEF KillProcess, Quit, Break, files, tokenSets, task, Tokens
<1>21. ASSUME NEW m \in Home \X Profile, BackoffEnds(m) PROVE Goal
  BY <1>21 DEF BackoffEnds, files, tokenSets, task, Tokens
<1>22. CASE GetOld
  BY <1>22 DEF GetOld, files, tokenSets, task, Tokens
<1>23. CASE UNCHANGED authVars
  BY <1>23 DEF authVars, files, tokenSets, task, Tokens
<1> QED
  BY <1>1, <1>2, <1>3, <1>4, <1>5, <1>6, <1>7, <1>8, <1>9, <1>10, <1>11, <1>12,
     <1>13, <1>14, <1>15, <1>16, <1>17, <1>18, <1>19, <1>20, <1>21, <1>22, <1>23
  DEF AuthNext, AuthStep

LEMMA TokenStep ==
  ASSUME AuthTypeOK, CallInv, TokenInv, AuthNext \/ UNCHANGED authVars,
         AuthTypeOK', CallInv'
  PROVE  TokenInv'
<1>1. newest \in Nat /\ newest' \in Nat /\ Tokens \subseteq Nat
  BY AuthAssumption DEF AuthTypeOK, Tokens
<1>2. \A c \in AuthCall : got[c] \in Tokens => got[c] <= newest
  BY DEF TokenInv, Held, AuthTypeOK
<1>3. ASSUME NEW k \in Tokens, NEW p \in Profile, Held(k, p)' PROVE k <= newest'
  BY <1>1, <1>3, HeldStep, GotStep DEF TokenInv
<1>4. ASSUME NEW k \in Tokens, Spread(k)' PROVE k <= newest
  BY <1>1, <1>2, <1>4, SpreadStep DEF TokenInv
<1>5. \A k \in Tokens : (\E p \in Profile : Held(k, p)') \/ Spread(k)' => k <= newest'
  <2>1. newest <= newest'
    BY <1>1, GotStep
  <2>2. ASSUME NEW k \in Tokens, Spread(k)' PROVE k <= newest'
    <3>1. k <= newest /\ k \in Nat
      BY <1>1, <1>4, <2>2
    <3> QED  BY ONLY <1>1, <2>1, <3>1
  <2> QED  BY ONLY <1>3, <2>2
<1>6. \A c, d \in AuthCall : got'[c] = got'[d] /\ got'[c] # NoTokens => c = d
  BY <1>1, <1>2, GotStep DEF TokenInv, AuthTypeOK
<1>7. ASSUME NEW k \in Tokens, NEW p \in Profile, NEW q \in Profile, Held(k, p)', Held(k, q)'
      PROVE  p = q
  <2>1. k <= newest => Held(k, p) /\ Held(k, q)
    BY <1>1, <1>7, HeldStep
  <2>2. CASE k <= newest
    BY <2>1, <2>2 DEF TokenInv
  <2>3. CASE ~(k <= newest)
    <3>1. ~Held(k, p) /\ ~Held(k, q)
      BY <2>3 DEF TokenInv
    <3>2. PICK c \in AuthCall : account'[c] = p /\ got'[c] = newest' /\ k = newest'
      BY <1>7, <3>1, HeldStep
    <3>3. PICK d \in AuthCall : account'[d] = q /\ got'[d] = newest'
      BY <1>7, <3>1, HeldStep
    <3>4. newest' # NoTokens
      BY <3>2 DEF Tokens, NoTokens
    <3> QED  BY <1>6, <3>2, <3>3, <3>4
  <2> QED  BY <2>2, <2>3
<1>8. ASSUME NEW c \in AuthCall, NEW k, k = got'[c], Unsaved(c)'
      PROVE  k \in Tokens /\ ~Spread(k)'
  <2>1. CASE newest' = newest + 1 /\ k = newest'
    <3>1. k \in Tokens /\ ~(k <= newest)
      BY <1>1, <2>1 DEF AuthTypeOK
    <3> QED  BY <1>4, <3>1
  <2>2. CASE Unsaved(c) /\ k = got[c]
    <3>1. k \in Tokens /\ ~Spread(k)
      BY <2>2 DEF TokenInv
    <3>2. SUFFICES ASSUME Spread(k)' PROVE FALSE
      BY <3>1
    <3>3. PICK d \in AuthCall : got[d] = k /\ place'[d] \in {"leaving", "over"}
      BY <3>1, <3>2, SpreadStep
    <3>4. d = c
      BY <2>2, <3>1, <3>3 DEF TokenInv, Tokens, NoTokens
    <3> QED  BY <1>8, <3>3, <3>4 DEF Unsaved, Engaged
  <2> QED  BY <1>8, <2>1, <2>2, GotStep
<1>9. ASSUME NEW c \in AuthCall, Unsaved(c)' PROVE (got[c] \in Tokens /\ ~Spread(got[c]))'
  BY <1>8, <1>9 DEF Spread
<1> QED  BY <1>5, <1>6, <1>7, <1>9 DEF TokenInv

\* Calls that end unsaved leave their tokens lost.
LEMMA QuitKeeps ==
  ASSUME AuthInv, NEW C \in SUBSET AuthCall, NEW there \in {"over", "lockAdrift", "storeAdrift"},
         Quit(C, there), UNCHANGED <<profiles, task, storeNotes, tokenNotes>>
  PROVE  ExchangeInv'
<1>1. \A d \in AuthCall : Saver(d) => Saver(d)' \/ sent[d] \in spilt'
  BY DEF Quit, task, AuthInv, AuthTypeOK, Saver, Unsaved, Engaged
<1>2. \A d \in AuthCall : place'[d] = "asking" => place[d] = "asking"
  BY DEF Quit, AuthInv, AuthTypeOK
<1>3. spilt \subseteq spilt'
  BY DEF Quit
<1> QED  BY <1>1, <1>2, <1>3 DEF task, storeNotes, tokenNotes, AuthInv, ExchangeInv

\* A step of a call that has no exchanged tokens in its hands, and gets none.
LEMMA ExchangeStays ==
  ASSUME AuthInv, UNCHANGED <<profiles, sent, storeNotes, tokenNotes, spilt>>,
         \A d \in AuthCall : Saver(d) => Saver(d)',
         \A d \in AuthCall : place'[d] = "asking" => place[d] = "asking"
  PROVE  ExchangeInv'
BY DEF storeNotes, tokenNotes, AuthInv, ExchangeInv

LEMMA ExchangeStep ==
  ASSUME AuthInv, AuthNext \/ UNCHANGED authVars
  PROVE  ExchangeInv'
<1>1. ASSUME NEW c \in AuthCall, CreateLock(c) PROVE ExchangeInv'
  <2>1. UNCHANGED <<profiles, sent, storeNotes, tokenNotes, spilt>>
    BY <1>1 DEF CreateLock, files, task
  <2>2. \A d \in AuthCall : Saver(d) => Saver(d)'
    BY <1>1 DEF CreateLock, Move, task, AuthInv, AuthTypeOK, Saver, Unsaved, Engaged
  <2>3. \A d \in AuthCall : place'[d] = "asking" => place[d] = "asking"
    BY <1>1 DEF CreateLock, Move, AuthInv, AuthTypeOK
  <2> QED  BY <2>1, <2>2, <2>3, ExchangeStays
<1>2. ASSUME NEW c \in AuthCall, Guard(c) PROVE ExchangeInv'
  <2>1. UNCHANGED <<profiles, sent, storeNotes, tokenNotes, spilt>>
    BY <1>2 DEF Guard, files, task
  <2>2. \A d \in AuthCall : Saver(d) => Saver(d)'
    BY <1>2 DEF Guard, Move, task, AuthInv, AuthTypeOK, Saver, Unsaved, Engaged
  <2>3. \A d \in AuthCall : place'[d] = "asking" => place[d] = "asking"
    BY <1>2 DEF Guard, Move, AuthInv, AuthTypeOK
  <2> QED  BY <2>1, <2>2, <2>3, ExchangeStays
<1>3. ASSUME NEW c \in AuthCall, Read(c) PROVE ExchangeInv'
  <2>1. UNCHANGED <<profiles, sent, storeNotes, tokenNotes, spilt>>
    BY <1>3 DEF Read, files, task
  <2>2. \A d \in AuthCall : Saver(d) => Saver(d)'
    BY <1>3 DEF Read, Move, task, AuthInv, AuthTypeOK, Saver, Unsaved, Engaged
  <2>3. \A d \in AuthCall : place'[d] = "asking" => place[d] = "asking"
    BY <1>3 DEF Read, Move, AuthInv, AuthTypeOK
  <2> QED  BY <2>1, <2>2, <2>3, ExchangeStays
<1>4. ASSUME NEW c \in AuthCall, Write(c) PROVE ExchangeInv'
  <2>1. UNCHANGED <<profiles, sent, storeNotes, tokenNotes, spilt>>
    BY <1>4 DEF Write, files, task
  <2>2. \A d \in AuthCall : Saver(d) => Saver(d)'
    BY <1>4 DEF Write, Move, task, AuthInv, AuthTypeOK, Saver, Unsaved, Engaged
  <2>3. \A d \in AuthCall : place'[d] = "asking" => place[d] = "asking"
    BY <1>4 DEF Write, Move, AuthInv, AuthTypeOK
  <2> QED  BY <2>1, <2>2, <2>3, ExchangeStays
<1>5. ASSUME NEW c \in AuthCall, Rename(c) PROVE ExchangeInv'
  <2> SUFFICES ASSUME ~leaked PROVE ExchangeInv'
    BY <1>5 DEF Rename, ExchangeInv
  <2>1. /\ errand[c] \in {"save", "login", "logout"} /\ account[c] \in Profile
        /\ loaded[c] = profiles
    BY <1>5 DEF Rename, AuthInv, AuthTypeOK, CallInv, StoreInv
  <2>2. \A d \in AuthCall : d # c /\ Saver(d) => Saver(d)'
    BY <1>5 DEF Rename, Move, task, AuthInv, AuthTypeOK, Saver, Unsaved, Engaged
  <2>3. ASSUME NEW h \in Home, NEW k \in Tokens, <<h, k>> \in exchanged, k \notin spilt
        PROVE  \/ \A p \in Profile : profiles'[p] # k
               \/ \E d \in AuthCall : Saver(d)' /\ HomeOf[d] = h /\ sent[d] = k
    <3>1. errand[c] \in {"save", "login"} => got[c] # k
      BY <1>5, <2>3 DEF TokenInv, Spread, Rename, AuthInv, Unsaved, Engaged
    <3>2. \A p \in Profile : profiles'[p] = k => profiles[p] = k /\ p # account[c]
      BY <1>5, <2>1, <3>1 DEF Rename, Rewritten, Store, Tokens, NoTokens,
         AuthInv, AuthTypeOK
    <3>3. CASE \A p \in Profile : profiles[p] # k
      BY <3>2, <3>3
    <3>4. ASSUME NEW d \in AuthCall, Saver(d), HomeOf[d] = h, sent[d] = k,
                 NEW p \in Profile, profiles'[p] = k
          PROVE  d # c
      <4>1. Held(k, p) /\ Held(k, account[d]) /\ account[d] \in Profile
        BY <3>2, <3>4 DEF Held, AuthInv, AuthTypeOK
      <4> QED  BY <3>2, <3>4, <4>1 DEF TokenInv, AuthInv
    <3> QED  BY <2>2, <2>3, <3>3, <3>4 DEF AuthInv, ExchangeInv
  <2>4. \A d \in AuthCall : place'[d] = "asking" => place[d] = "asking"
    BY <1>5 DEF Rename, Move, AuthInv, AuthTypeOK
  <2> QED  BY <1>5, <2>3, <2>4 DEF Rename, task, tokenNotes, AuthInv, ExchangeInv
<1>6. ASSUME NEW c \in AuthCall, Leave(c) PROVE ExchangeInv'
  BY <1>6, QuitKeeps DEF Leave, files, task, storeNotes, tokenNotes
<1>7. ASSUME NEW c \in AuthCall, Fail(c) PROVE ExchangeInv'
  BY <1>7, QuitKeeps DEF Fail, files, task, storeNotes, tokenNotes
<1>8. ASSUME NEW c \in AuthCall, BeginRefresh(c) PROVE ExchangeInv'
  <2>1. UNCHANGED <<profiles, sent, storeNotes, tokenNotes, spilt>>
    BY <1>8 DEF BeginRefresh, files, task
  <2>2. \A d \in AuthCall : Saver(d) => Saver(d)'
    BY <1>8 DEF BeginRefresh, GoTo, Move, task, AuthInv, AuthTypeOK, Saver, Unsaved, Engaged
  <2>3. \A d \in AuthCall : place'[d] = "asking" => place[d] = "asking"
    BY <1>8 DEF BeginRefresh, GoTo, Move, AuthInv, AuthTypeOK
  <2> QED  BY <2>1, <2>2, <2>3, ExchangeStays
<1>9. ASSUME NEW c \in AuthCall, Use(c) PROVE ExchangeInv'
  BY <1>9, QuitKeeps DEF Use, files, task, storeNotes, tokenNotes
<1>10. ASSUME NEW c \in AuthCall, AwaitMutex(c) PROVE ExchangeInv'
  <2>1. UNCHANGED <<profiles, sent, storeNotes, tokenNotes, spilt>>
    BY <1>10 DEF AwaitMutex, files, task
  <2>2. \A d \in AuthCall : Saver(d) => Saver(d)'
    BY <1>10 DEF AwaitMutex, Move, task, AuthInv, AuthTypeOK, Saver, Unsaved, Engaged
  <2>3. \A d \in AuthCall : place'[d] = "asking" => place[d] = "asking"
    BY <1>10 DEF AwaitMutex, Move, AuthInv, AuthTypeOK
  <2> QED  BY <2>1, <2>2, <2>3, ExchangeStays
<1>11. ASSUME NEW c \in AuthCall, LockRefresh(c) PROVE ExchangeInv'
  <2>1. \A d \in AuthCall : Saver(d) => Saver(d)'
    BY <1>11 DEF LockRefresh, GoTo, Move, AuthInv, AuthTypeOK, CallInv, Saver, Unsaved,
       Engaged
  <2>2. \A d \in AuthCall : place'[d] = "asking" => place[d] = "asking"
    BY <1>11 DEF LockRefresh, GoTo, Move, AuthInv, AuthTypeOK
  <2> QED  BY <1>11, <2>1, <2>2 DEF LockRefresh, files, storeNotes, tokenNotes, AuthInv,
     ExchangeInv
<1>12. ASSUME NEW c \in AuthCall, Exchange(c) PROVE ExchangeInv'
  <2> SUFFICES ASSUME ~leaked PROVE ExchangeInv'
    BY <1>12 DEF Exchange, storeNotes, ExchangeInv
  <2> DEFINE k == loaded[c][account[c]]
  <2>1. place[c] = "read" /\ errand[c] = "reload" /\ k \in old
    BY <1>12 DEF Exchange, Expiring
  <2>2. 1..newest \subseteq Tokens
    BY AuthAssumption DEF AuthInv, AuthTypeOK, Tokens
  <2>3. /\ k = profiles[account[c]] /\ k \in Tokens /\ account[c] \in Profile
        /\ mutex[MutexOf(c)] = c
    BY <2>1, <2>2 DEF AuthInv, AuthTypeOK, StoreInv, MutexInv, Engaged
  <2>4. ASSUME <<HomeOf[c], k>> \in exchanged PROVE k \in spilt
    <3>1. ASSUME NEW d \in AuthCall, Saver(d), HomeOf[d] = HomeOf[c], sent[d] = k
          PROVE  FALSE
      <4>1. Held(k, account[d]) /\ Held(k, account[c]) /\ account[d] \in Profile
        BY <2>3, <3>1 DEF Held, AuthInv, AuthTypeOK
      <4>2. account[d] = account[c]
        BY <2>3, <4>1 DEF TokenInv, AuthInv
      <4>3. mutex[MutexOf(d)] = d /\ MutexOf(d) = MutexOf(c)
        BY <3>1, <4>2 DEF MutexInv, MutexOf, AuthInv, Saver, Unsaved
      <4> QED  BY <2>1, <2>3, <3>1, <4>3 DEF Saver
    <3> QED  BY AuthAssumption, <2>3, <2>4, <3>1 DEF AuthInv, ExchangeInv
  <2>5. \A d \in AuthCall : Saver(d) => Saver(d)' /\ sent'[d] = sent[d]
    BY <1>12, <2>1 DEF Exchange, Move, AuthInv, AuthTypeOK, Saver, Unsaved, Engaged
  <2>6. \A d \in AuthCall : place'[d] = "asking" =>
          \/ d = c /\ sent'[d] = k
          \/ place[d] = "asking" /\ sent'[d] = sent[d]
    <3>1. \A d \in AuthCall : place'[d] = "asking" => d = c \/ place[d] = "asking"
      BY <1>12 DEF Exchange, Move, AuthInv, AuthTypeOK
    <3>2. \A d \in AuthCall : sent'[d] = IF d = c THEN k ELSE sent[d]
      BY <1>12 DEF Exchange, AuthInv, AuthTypeOK
    <3> QED  BY <3>1, <3>2
  <2> QED  BY <1>12, <2>4, <2>5, <2>6 DEF Exchange, tokenNotes, AuthInv, ExchangeInv
<1>13. ASSUME NEW c \in AuthCall, Granted(c) PROVE ExchangeInv'
  <2> SUFFICES ASSUME ~leaked PROVE ExchangeInv'
    BY <1>13 DEF Granted, storeNotes, ExchangeInv
  <2>1. sent[c] \in Tokens /\ errand[c] = "reload" /\ mutex[MutexOf(c)] = c
    BY <1>13 DEF Granted, MutexInv, AuthInv, CallInv, Engaged
  <2>2. \A d \in AuthCall : Saver(d) => Saver(d)'
    BY <1>13, <2>1 DEF Granted, GoTo, Move, AuthInv, AuthTypeOK, Saver, Unsaved, Engaged
  <2>3. Saver(c)'
    BY <1>13 DEF Granted, GoTo, Move, AuthInv, AuthTypeOK, Saver, Unsaved, Engaged
  <2>4. ASSUME NEW d \in AuthCall, place'[d] = "asking", HomeOf[d] = HomeOf[c], sent[d] = sent[c]
        PROVE  FALSE
    <3>1. d # c /\ place[d] = "asking" /\ errand[d] = "reload"
      BY <1>13, <2>4 DEF Granted, GoTo, Move, AuthInv, AuthTypeOK, CallInv
    <3>2. /\ Held(sent[c], account[d]) /\ Held(sent[c], account[c])
          /\ account[c] \in Profile /\ account[d] \in Profile
      BY <2>4 DEF Held, AuthInv, AuthTypeOK
    <3>3. account[d] = account[c]
      BY <2>1, <3>2 DEF TokenInv, AuthInv
    <3>4. mutex[MutexOf(d)] = d /\ MutexOf(d) = MutexOf(c)
      BY <2>4, <3>1, <3>3 DEF MutexInv, MutexOf, AuthInv, Engaged
    <3> QED  BY <2>1, <3>1, <3>4
  <2>5. \A d \in AuthCall : place'[d] = "asking" /\ <<HomeOf[d], sent[d]>> \in exchanged'
                             => sent[d] \in spilt
    <3>1. \A d \in AuthCall : place'[d] = "asking" => place[d] = "asking"
      BY <1>13 DEF Granted, GoTo, Move, AuthInv, AuthTypeOK
    <3>2. exchanged' = exchanged \cup {<<HomeOf[c], sent[c]>>}
      BY <1>13 DEF Granted
    <3> QED  BY <2>4, <3>1, <3>2 DEF AuthInv, ExchangeInv
  <2>6. again' \subseteq spilt
    BY <1>13 DEF Granted, AuthInv, ExchangeInv
  <2>7. \A h \in Home, k \in Tokens : <<h, k>> \in exchanged' =>
          \/ k \in spilt \/ \A p \in Profile : profiles[p] # k
          \/ \E d \in AuthCall : Saver(d)' /\ HomeOf[d] = h /\ sent[d] = k
    <3>1. exchanged' = exchanged \cup {<<HomeOf[c], sent[c]>>}
      BY <1>13 DEF Granted
    <3> QED  BY <2>2, <2>3, <3>1 DEF AuthInv, ExchangeInv
  <2> QED  BY <1>13, <2>5, <2>6, <2>7 DEF Granted, files, ExchangeInv
<1>14. ASSUME NEW c \in AuthCall, Denied(c) PROVE ExchangeInv'
  BY <1>14, QuitKeeps DEF Denied, files, task, storeNotes, tokenNotes
<1>15. ASSUME NEW c \in AuthCall, CreateAdrift(c) PROVE ExchangeInv'
  <2>1. UNCHANGED <<profiles, sent, storeNotes, tokenNotes, spilt>>
    BY <1>15 DEF CreateAdrift, files, task
  <2>2. \A d \in AuthCall : Saver(d) => Saver(d)'
    BY <1>15 DEF CreateAdrift, Move, task, AuthInv, AuthTypeOK, Saver, Unsaved, Engaged
  <2>3. \A d \in AuthCall : place'[d] = "asking" => place[d] = "asking"
    BY <1>15 DEF CreateAdrift, Move, AuthInv, AuthTypeOK
  <2> QED  BY <2>1, <2>2, <2>3, ExchangeStays
<1>16. ASSUME NEW c \in AuthCall, RenameAdrift(c) PROVE ExchangeInv'
  BY <1>16 DEF RenameAdrift, Move, Rewritten, files, task, storeNotes, tokenNotes, AuthInv,
     AuthTypeOK, CallInv, ExchangeInv, Saver, Unsaved, Engaged
<1>17. ASSUME NEW c \in AuthCommand, Login(c) PROVE ExchangeInv'
  <2>1. UNCHANGED <<profiles, sent, storeNotes, tokenNotes, spilt>>
    BY <1>17 DEF Login, files, task
  <2>2. \A d \in AuthCall : Saver(d) => Saver(d)'
    BY <1>17 DEF Login, GoTo, Move, AuthCall, task, AuthInv, AuthTypeOK, Saver, Unsaved, Engaged
  <2>3. \A d \in AuthCall : place'[d] = "asking" => place[d] = "asking"
    BY <1>17 DEF Login, GoTo, Move, AuthCall, AuthInv, AuthTypeOK
  <2> QED  BY <2>1, <2>2, <2>3, ExchangeStays
<1>18. ASSUME NEW c \in AuthCommand, Logout(c) PROVE ExchangeInv'
  <2>1. UNCHANGED <<profiles, sent, storeNotes, tokenNotes, spilt>>
    BY <1>18 DEF Logout, files, task
  <2>2. \A d \in AuthCall : Saver(d) => Saver(d)'
    BY <1>18 DEF Logout, GoTo, Move, AuthCall, task, AuthInv, AuthTypeOK, Saver, Unsaved, Engaged
  <2>3. \A d \in AuthCall : place'[d] = "asking" => place[d] = "asking"
    BY <1>18 DEF Logout, GoTo, Move, AuthCall, AuthInv, AuthTypeOK
  <2> QED  BY <2>1, <2>2, <2>3, ExchangeStays
<1>19. ASSUME NEW c \in TurnCall, Dropped(c) PROVE ExchangeInv'
  <2>1. PICK there \in {"over", "lockAdrift", "storeAdrift"} : Quit({c}, there)
    BY <1>19 DEF Dropped
  <2> QED  BY <1>19, <2>1, QuitKeeps DEF Dropped, AuthCall, task, storeNotes, tokenNotes
<1>20. ASSUME NEW h \in Home, KillProcess(h) PROVE ExchangeInv'
  <2>1. PICK C \in SUBSET AuthCall : Quit(C, "over")
    BY <1>20 DEF KillProcess
  <2> QED  BY <1>20, <2>1, QuitKeeps DEF KillProcess, files, task, storeNotes, tokenNotes
<1>21. ASSUME NEW m \in Home \X Profile, BackoffEnds(m) PROVE ExchangeInv'
  BY <1>21 DEF BackoffEnds, files, task, storeNotes, tokenNotes, AuthInv, AuthTypeOK,
     CallInv, ExchangeInv, Saver, Unsaved, Engaged
<1>22. CASE GetOld
  BY <1>22 DEF GetOld, files, task, storeNotes, tokenNotes, AuthInv, AuthTypeOK, CallInv,
     ExchangeInv, Saver, Unsaved, Engaged
<1>23. CASE UNCHANGED authVars
  BY <1>23 DEF authVars, files, task, storeNotes, tokenNotes, AuthInv, AuthTypeOK, CallInv,
     ExchangeInv, Saver, Unsaved, Engaged
<1> QED
  BY <1>1, <1>2, <1>3, <1>4, <1>5, <1>6, <1>7, <1>8, <1>9, <1>10, <1>11, <1>12,
     <1>13, <1>14, <1>15, <1>16, <1>17, <1>18, <1>19, <1>20, <1>21, <1>22, <1>23
  DEF AuthNext, AuthStep

LEMMA AuthInvariant == AuthSpec => []AuthInv
<1>1. ASSUME AuthInv, [AuthNext]_authVars PROVE AuthInv'
  <2>1. AuthTypeOK' /\ CallInv'
    BY <1>1, TypeStep, CallStep DEF AuthInv
  <2> QED  BY <1>1, <2>1, LockStep, StoreStep, TokenStep, MutexStep, ExchangeStep DEF
     AuthInv
<1> QED  BY <1>1, InitAuthInv, PTL DEF AuthSpec

\* Two calls never own the lock file, and only a kill, or a drop before the guard
\* is there, leaves it behind. (acquire_lock, AuthProfileLockGuard)
THEOREM LockFileAccounted == AuthSpec => []LockAccounted
<1>1. AuthInv => LockAccounted
  BY DEF AuthInv
<1> QED  BY <1>1, AuthInvariant, PTL

\* No update of the store undoes another, unless a dropped call's replacement did.
\* (upsert_profile, update_profile, remove_profile)
THEOREM UpdatesLast == AuthSpec => []UpdatesKept
<1>1. AuthInv => UpdatesKept
  BY DEF AuthInv, StoreInv, UpdatesKept
<1> QED  BY <1>1, AuthInvariant, PTL

\* A process does not exchange tokens twice, unless what it got was not stored, or a
\* dropped call brought them back. (get_valid_openai_access_token and for Gemini)
THEOREM TokensExchangedOnce == AuthSpec => []ExchangedOnce
<1>1. AuthInv => ExchangedOnce
  BY DEF AuthInv, ExchangeInv, ExchangedOnce
<1> QED  BY <1>1, AuthInvariant, PTL
=============================================================================
