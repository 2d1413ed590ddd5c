----------------------------- MODULE MCCronJobs -----------------------------
(***************************************************************************)
(* Two instances of CronJobs in one: two jobs under two clients, and a     *)
(* crowd of three jobs, one more than a batch takes, under one client.     *)
(***************************************************************************)
EXTENDS CronJobs

CONSTANTS j1, j2, j3, client1, client2

Soon    == [kind |-> "at", time |-> 1]
Later   == [kind |-> "at", time |-> 2]
Twice   == [kind |-> "until", time |-> 2]
Forever == [kind |-> "every", time |-> 1]

Schedules == {Soon, Later, Twice, Forever}

Fresh(s, once) == [sched |-> s, enabled |-> TRUE, once |-> once, next |-> 1]

\* A job that is deleted when it has run, one that is kept, or one that recurs.
Lone == {[j \in Job |-> IF j = j2 THEN r ELSE NoRow] :
           r \in {Fresh(Soon, TRUE), Fresh(Soon, FALSE), Fresh(Forever, FALSE)}}

\* One job stays due when it has run, another may do so, the third recurs.
Crowd == {[j \in Job |-> CASE j = j1 -> Fresh(Soon, FALSE) [] j = j2 -> r
                           [] OTHER  -> Fresh(Forever, FALSE)] :
            r \in {Fresh(Soon, TRUE), Fresh(Twice, FALSE)}}

FreshTables == Lone \cup Crowd

VARIABLE part

\* Two clients: a second job may be added, of any schedule that does not end.
ToTwice == [kind |-> "sched", to |-> Twice]
LoneStep ==
  /\ j3 \notin known' /\ \A c \in Client : patch'[c] # ToTwice
  /\ \A j \in Job : row'[j] # NoRow => row'[j].sched # Twice

\* One client, which removes a job, switches it or gives it a schedule that ends.
CrowdStep ==
  /\ op'[client2] = "new" /\ op'[client1] # "running"
  /\ patch'[client1] \in {NoRow, ToTwice} \cup [kind : {"enabled"}, to : BOOLEAN]

JobsInit ==
  /\ CronInit /\ part \in {"lone", "crowd"}
  /\ row \in IF part = "crowd" THEN Crowd ELSE Lone

JobsNext ==
  /\ CronNext /\ UNCHANGED part
  /\ IF part = "crowd" THEN CrowdStep ELSE LoneStep

JobsSpec == JobsInit /\ [][JobsNext]_<<cronVars, part>> /\ CronFairness
=============================================================================
