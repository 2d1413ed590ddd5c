-------------------------- MODULE BackgroundProofs --------------------------
(***************************************************************************)
(* Sub-agents: the registry's limit holds, a running session always has    *)
(* something that will end it, and a clean kill is final, for any number   *)
(* of sessions and any limit.  Two facts make these inductive: a session   *)
(* that was aborted was killed and can not run again, because its spawner  *)
(* has long left "idle", and a handle is stored only by a spawner that has *)
(* returned.                                                               *)
(*                                                                         *)
(* Providers: nobody is skipped whose circuit is not open, for any number  *)
(* of requests, any chain and any limits.  The count that a request has    *)
(* seen at the threshold stays there until it has loaded the stamp: only a *)
(* success lowers a count, and more failures leave it at the threshold.    *)
(***************************************************************************)
EXTENDS SubAgents, ProviderChain, FiniteSetTheorems, TLAPS

-----------------------------------------------------------------------------
(* Sub-agents.                                                             *)

\* A handle exists only once the spawner has stored it.
HandlesStored == \A s \in handle : spawner[s] = "returned"

\* Only a killed session is aborted, and it does not run again.
AbortedIsOver == \A s \in aborted : spawner[s] = "returned" /\ status[s] # "Running"

\* Before the spawner acts there is nothing to run.
IdleIsAbsent ==
  \A s \in Session :
    /\ spawner[s] = "idle" => kill[s] = "none"
    /\ spawner[s] \in {"idle", "inserted", "refused"} => task[s] = "none"

\* A clean kill aborted the task.
CleanAborted == \A s \in Session : kill[s] = "clean" => s \in aborted

IInv ==
  /\ SubAgentsTypeOK
  /\ IsFiniteSet(Running) /\ LimitKept /\ RunningIsBacked
  /\ HandlesStored /\ AbortedIsOver /\ IdleIsAbsent /\ CleanAborted
  /\ KillIsFinal

\* While nothing starts to run, the running sessions stay finitely many and
\* within the limit.
LEMMA FewerRunning ==
  ASSUME IsFiniteSet(Running), LimitKept, Running' \subseteq Running
  PROVE  IsFiniteSet(Running)' /\ LimitKept'
<1>1. IsFiniteSet(Running') /\ Cardinality(Running') <= Cardinality(Running)
  BY FS_Subset
<1>2. Cardinality(Running) \in Nat /\ Cardinality(Running') \in Nat
  BY <1>1, FS_CardinalityType
<1> QED BY <1>1, <1>2, SubAgentsAssumption DEF LimitKept

LEMMA InitIInv == SubAgentsInit => IInv
<1> SUFFICES ASSUME SubAgentsInit PROVE IInv
  OBVIOUS
<1>1. Running = {}
  BY DEF SubAgentsInit, Running
<1>2. IsFiniteSet(Running) /\ LimitKept
  BY <1>1, FS_EmptySet, SubAgentsAssumption DEF LimitKept
<1> QED
  BY <1>1, <1>2 DEF SubAgentsInit, IInv, SubAgentsTypeOK, Status, RunningIsBacked, HandlesStored,
     AbortedIsOver, IdleIsAbsent, CleanAborted, KillIsFinal

\* The parts of the invariant that are about single sessions.
Local ==
  /\ SubAgentsTypeOK /\ RunningIsBacked
  /\ HandlesStored /\ AbortedIsOver /\ IdleIsAbsent /\ CleanAborted
  /\ KillIsFinal

LEMMA TryInsertStep ==
  ASSUME IInv, NEW s \in Session, TryInsert(s)
  PROVE  IInv'
<1> USE DEF IInv, SubAgentsTypeOK, Status
<1>1. Local'
  <2> DEFINE spawned == IF Room THEN "inserted" ELSE "refused"
  <2>1. /\ spawner[s] = "idle" /\ s \notin aborted /\ s \notin handle /\ kill[s] = "none"
        /\ spawner' = [spawner EXCEPT ![s] = spawned]
        /\ spawned \in {"inserted", "refused"}
        /\ status' = [status EXCEPT ![s] = status'[s]]
        /\ status'[s] = "Running" => spawned = "inserted" \/ status[s] = "Running"
        /\ status'[s] \in Status
        /\ UNCHANGED <<handle, task, aborted, kill>>
    BY DEF TryInsert, HandlesStored, AbortedIsOver, IdleIsAbsent
  <2> HIDE DEF spawned
  <2>2. SubAgentsTypeOK'
    BY <2>1
  <2>3. RunningIsBacked'
    BY <2>1 DEF RunningIsBacked, Running, Live, IdleIsAbsent
  <2>4. HandlesStored' /\ AbortedIsOver' /\ IdleIsAbsent'
    BY <2>1 DEF HandlesStored, AbortedIsOver, IdleIsAbsent
  <2>5. CleanAborted' /\ KillIsFinal'
    BY <2>1 DEF CleanAborted, KillIsFinal
  <2> QED BY <2>2, <2>3, <2>4, <2>5 DEF Local
<1>2. IsFiniteSet(Running)' /\ LimitKept'
  <2>1. CASE Room
    <3>1. Running' \subseteq Running \cup {s}
      BY <2>1 DEF TryInsert, Running
    <3>2. IsFiniteSet(Running \cup {s}) /\ Cardinality(Running \cup {s}) <= Cardinality(Running) + 1
      <4>1. IsFiniteSet(Running) /\ Cardinality(Running) \in Nat
        BY FS_CardinalityType
      <4>2. /\ IsFiniteSet(Running \cup {s})
            /\ Cardinality(Running \cup {s})
                 = IF s \in Running THEN Cardinality(Running) ELSE Cardinality(Running) + 1
        BY ONLY <4>1, FS_AddElement, Zenon
      <4> QED BY <4>1, <4>2
    <3>3. IsFiniteSet(Running') /\ Cardinality(Running') <= Cardinality(Running \cup {s})
      BY <3>1, <3>2, FS_Subset
    <3>4. /\ Cardinality(Running) \in Nat /\ Cardinality(Running') \in Nat
          /\ Cardinality(Running \cup {s}) \in Nat
      BY <3>2, <3>3, FS_CardinalityType
    <3> QED BY <2>1, <3>2, <3>3, <3>4, SubAgentsAssumption DEF LimitKept, Room
  <2>2. CASE ~Room
    <3>1. Running' \subseteq Running
      BY <2>2 DEF TryInsert, Running
    <3> QED BY <3>1, FewerRunning
  <2> QED BY <2>1, <2>2
<1> QED BY <1>1, <1>2 DEF Local

LEMMA OtherStep ==
  ASSUME IInv,
         \/ \E s \in Session : Spawn(s) \/ SetHandle(s) \/ Task(s) \/ Kill(s)
         \/ \E old \in SUBSET Session : Cleanup(old)
         \/ UNCHANGED subAgentVars
  PROVE  IInv'
<1> USE DEF IInv, SubAgentsTypeOK, Status
<1>1. ASSUME NEW s \in Session, Spawn(s)
      PROVE  Local' /\ Running' \subseteq Running
  BY <1>1 DEF Spawn, Local, RunningIsBacked, Running, Live, HandlesStored, AbortedIsOver,
     IdleIsAbsent, CleanAborted, KillIsFinal
<1>2. ASSUME NEW s \in Session, SetHandle(s)
      PROVE  Local' /\ Running' \subseteq Running
  BY <1>2 DEF SetHandle, Local, RunningIsBacked, Running, Live, HandlesStored, AbortedIsOver,
     IdleIsAbsent, CleanAborted, KillIsFinal
<1>3. ASSUME NEW s \in Session, Answer(s)
      PROVE  Local' /\ Running' \subseteq Running
  BY <1>3 DEF Answer, Local, RunningIsBacked, Running, Live, HandlesStored, AbortedIsOver,
     IdleIsAbsent, CleanAborted, KillIsFinal
<1>4. ASSUME NEW s \in Session, NEW o \in {"Completed", "Failed"}, Report(s, o)
      PROVE  Local' /\ Running' \subseteq Running
  BY <1>4 DEF Report, Local, RunningIsBacked, Running, Live, HandlesStored, AbortedIsOver,
     IdleIsAbsent, CleanAborted, KillIsFinal
<1>5. ASSUME NEW s \in Session, Cancelled(s)
      PROVE  Local' /\ Running' \subseteq Running
  BY <1>5 DEF Cancelled, Local, RunningIsBacked, Running, Live, HandlesStored, AbortedIsOver,
     IdleIsAbsent, CleanAborted, KillIsFinal
<1>6. ASSUME NEW s \in Session, Kill(s)
      PROVE  Local' /\ Running' \subseteq Running
  BY <1>6 DEF Kill, Marked, Abort, Clean, Local, RunningIsBacked, Running, Live,
     HandlesStored, AbortedIsOver, IdleIsAbsent, CleanAborted, KillIsFinal
<1>7. ASSUME NEW old \in SUBSET Session, Cleanup(old)
      PROVE  Local' /\ Running' \subseteq Running
  BY <1>7 DEF Cleanup, Local, RunningIsBacked, Running, Live, HandlesStored, AbortedIsOver,
     IdleIsAbsent, CleanAborted, KillIsFinal
<1>8. ASSUME UNCHANGED subAgentVars
      PROVE  Local' /\ Running' \subseteq Running
  BY <1>8 DEF subAgentVars, Local, RunningIsBacked, Running, Live, HandlesStored, AbortedIsOver,
     IdleIsAbsent, CleanAborted, KillIsFinal
<1>9. Local' /\ Running' \subseteq Running
  BY <1>1, <1>2, <1>3, <1>4, <1>5, <1>6, <1>7, <1>8 DEF Task
<1> QED BY <1>9, FewerRunning DEF Local

THEOREM Invariance == SubAgentsSpec => []IInv
<1>1. ASSUME IInv, [SubAgentsNext]_subAgentVars
      PROVE  IInv'
  BY <1>1, TryInsertStep, OtherStep DEF SubAgentsNext, Idle
<1> QED BY <1>1, InitIInv, PTL DEF SubAgentsSpec

\* However spawners race for the last slot, no more sessions run by the registry
\* than the limit of try_insert, and each has a task or a spawner that will end it.
THEOREM SlotsHold == SubAgentsSpec => []SlotsSound
<1>1. IInv => SlotsSound
  BY DEF IInv, SlotsSound
<1> QED  BY <1>1, Invariance, PTL

\* A kill that found the handle and the task at an await is final.
THEOREM CleanKillIsFinal == SubAgentsSpec => []KillIsFinal
<1> QED BY Invariance, PTL DEF IInv

-----------------------------------------------------------------------------
(* Providers.                                                              *)

\* A request under way is at an entry of the chain.
ChainTypeOK ==
  /\ failures \in [Provider -> 0..Threshold]
  /\ phase \in [Caller -> Phase]
  /\ slot \in [Caller -> 0..Len(Chain)]
  /\ reset \in [Caller -> BOOLEAN]
  /\ \A c \in Caller : phase[c] # "idle" => slot[c] \in 1..Len(Chain)

\* Who compares has seen the count at the threshold, and only a success lowers it.
CountStands ==
  \A c \in Caller : phase[c] = "comparing" /\ ~reset[c] =>
    Threshold > 0 /\ failures[At(c)] = Threshold

ChainInv == ChainTypeOK /\ CountStands

LEMMA EntryOfChain ==
  ASSUME ChainTypeOK, NEW c \in Caller, phase[c] # "idle"
  PROVE  At(c) \in Provider /\ slot[c] \in 1..Len(Chain) /\ slot[c] + 1 \in Nat
<1> DEFINE S == [provider : Provider, names : Nat \ {0}]
<1>1. slot[c] \in 1..Len(Chain) /\ Chain \in Seq(S)
  BY ProviderAssumption DEF ChainTypeOK
<1>2. Chain[slot[c]] \in S
  <2> HIDE DEF S
  <2> QED  BY <1>1
<1>3. Chain[slot[c]].provider \in Provider
  BY <1>2
<1> QED  BY <1>1, <1>3 DEF At

\* Going on to an entry leaves the other requests where they are.
LEMMA EnterKeeps ==
  ASSUME ChainInv, NEW c \in Caller, NEW i \in Nat \ {0}, Enter(c, i),
         UNCHANGED failures
  PROVE  ChainInv'
<1>1. phase' = [phase EXCEPT ![c] = IF i > Len(Chain) THEN "idle" ELSE "checking"]
  BY ProviderAssumption DEF Enter, Visit, To
<1>2. slot' = [slot EXCEPT ![c] = IF i > Len(Chain) THEN 0 ELSE i]
  BY ProviderAssumption DEF Enter, Visit, To
<1>3. reset' = [reset EXCEPT ![c] = FALSE]
  BY DEF Enter
<1>4. ChainTypeOK'
  BY <1>1, <1>2, <1>3, ProviderAssumption DEF ChainInv, ChainTypeOK, Phase
<1>5. ASSUME NEW d \in Caller, phase'[d] = "comparing", ~reset'[d]
      PROVE  Threshold > 0 /\ failures'[At(d)'] = Threshold
  <2>1. d # c /\ phase[d] = "comparing" /\ ~reset[d] /\ slot'[d] = slot[d]
    BY <1>1, <1>2, <1>3, <1>5 DEF ChainInv, ChainTypeOK
  <2> QED  BY <2>1 DEF ChainInv, CountStands, At
<1> QED  BY <1>4, <1>5 DEF ChainInv, CountStands

\* A request that stays at its entry and does not begin to compare.
LEMMA MoveKeeps ==
  ASSUME ChainInv, NEW c \in Caller, NEW ph \in Phase \ {"comparing"}, phase[c] # "idle",
         To(c, ph), UNCHANGED <<slot, reset>>,
         failures' \in [Provider -> 0..Threshold],
         \A p \in Provider : failures[p] = Threshold => failures'[p] = Threshold
  PROVE  ChainInv'
<1>1. phase' = [phase EXCEPT ![c] = ph]
  BY DEF To
<1>2. ChainTypeOK'
  BY <1>1 DEF ChainInv, ChainTypeOK
<1>3. ASSUME NEW d \in Caller, phase'[d] = "comparing", ~reset'[d]
      PROVE  Threshold > 0 /\ failures'[At(d)'] = Threshold
  <2>1. phase[d] = "comparing" /\ ~reset[d] /\ At(d)' = At(d)
    BY <1>1, <1>3 DEF ChainInv, ChainTypeOK, At
  <2>2. At(d) \in Provider
    BY <2>1, EntryOfChain DEF ChainInv
  <2> QED  BY <2>1, <2>2 DEF ChainInv, CountStands
<1> QED  BY <1>2, <1>3 DEF ChainInv, CountStands

LEMMA ChainStep ==
  ASSUME ChainInv, ProviderNext \/ UNCHANGED providerVars
  PROVE  ChainInv'
<1> USE DEF breaker, loops
<1>1. CASE UNCHANGED <<failures, phase, slot, reset>>
  BY <1>1 DEF ChainInv, ChainTypeOK, CountStands, At
<1>2. CASE Elapse
  BY <1>1, <1>2 DEF Elapse
<1>3. ASSUME NEW p \in Provider, Turn(p) PROVE ChainInv'
  BY <1>1, <1>3 DEF Turn
<1>4. ASSUME NEW c \in Caller, Request(c) PROVE ChainInv'
  BY <1>4, EnterKeeps DEF Request
<1>5. ASSUME NEW c \in Caller, SeesClosed(c) PROVE ChainInv'
  <2>1. failures' \in [Provider -> 0..Threshold]
    BY <1>5 DEF SeesClosed, ChainInv, ChainTypeOK
  <2> QED  BY <1>5, <2>1, MoveKeeps, "calling" \in Phase \ {"comparing"} DEF SeesClosed, Phase
<1>6. ASSUME NEW c \in Caller, SeesTripped(c) PROVE ChainInv'
  <2>1. phase' = [phase EXCEPT ![c] = "comparing"]
    BY <1>6 DEF SeesTripped, To
  <2>2. ChainTypeOK'
    BY <1>6, <2>1 DEF SeesTripped, ChainInv, ChainTypeOK, Phase
  <2>3. ASSUME NEW d \in Caller, phase'[d] = "comparing", ~reset'[d]
        PROVE  Threshold > 0 /\ failures'[At(d)'] = Threshold
    BY <1>6, <2>1, <2>3 DEF SeesTripped, ChainInv, ChainTypeOK, CountStands, At
  <2> QED  BY <2>2, <2>3 DEF ChainInv, CountStands
<1>7. ASSUME NEW c \in Caller, SeesHalfOpen(c) PROVE ChainInv'
  <2>1. failures' \in [Provider -> 0..Threshold]
    BY <1>7 DEF SeesHalfOpen, ChainInv, ChainTypeOK
  <2> QED  BY <1>7, <2>1, MoveKeeps, "calling" \in Phase \ {"comparing"} DEF SeesHalfOpen, Phase
<1>8. ASSUME NEW c \in Caller, Skip(c) PROVE ChainInv'
  <2>1. slot[c] + 1 \in Nat \ {0}
    BY <1>8, EntryOfChain, ProviderAssumption DEF Skip, ChainInv
  <2> QED  BY <1>8, <2>1, EnterKeeps DEF Skip
<1>9. ASSUME NEW c \in Caller, Succeed(c) PROVE ChainInv'
  <2>1. At(c) \in Provider /\ Len(Chain) \in Nat
    BY <1>9, EntryOfChain, ProviderAssumption DEF Succeed, ChainInv
  <2>2. phase' = [phase EXCEPT ![c] = "idle"] /\ slot' = [slot EXCEPT ![c] = 0]
    BY <1>9, <2>1 DEF Succeed, Visit, To
  <2>3. failures' = [failures EXCEPT ![At(c)] = 0]
    BY <1>9 DEF Succeed
  <2>4. ChainTypeOK'
    <3>1. failures' \in [Provider -> 0..Threshold] /\ phase' \in [Caller -> Phase]
      BY <2>1, <2>2, <2>3, ProviderAssumption DEF ChainInv, ChainTypeOK, Phase
    <3>2. slot' \in [Caller -> 0..Len(Chain)]
      BY <2>1, <2>2 DEF ChainInv, ChainTypeOK
    <3>3. reset' \in [Caller -> BOOLEAN]
      BY <1>9 DEF Succeed
    <3>4. \A d \in Caller : phase'[d] # "idle" => slot'[d] \in 1..Len(Chain)
      BY <2>2 DEF ChainInv, ChainTypeOK
    <3> QED  BY <3>1, <3>2, <3>3, <3>4 DEF ChainTypeOK
  <2>5. ASSUME NEW d \in Caller, phase'[d] = "comparing", ~reset'[d]
        PROVE  Threshold > 0 /\ failures'[At(d)'] = Threshold
    <3>1. d # c /\ phase[d] = "comparing" /\ At(d)' = At(d)
      BY <2>2, <2>5 DEF ChainInv, ChainTypeOK, At
    <3>2. ~reset[d] /\ At(d) # At(c)
      BY <1>9, <2>5, <3>1 DEF Succeed
    <3>3. Threshold > 0 /\ failures[At(d)] = Threshold
      BY <3>1, <3>2 DEF ChainInv, CountStands
    <3>4. At(d) \in Provider
      BY <3>1, EntryOfChain DEF ChainInv
    <3>5. failures'[At(d)] = failures[At(d)]
      BY <2>3, <3>2, <3>4 DEF ChainInv, ChainTypeOK
    <3> QED  BY <3>1, <3>3, <3>5
  <2> QED  BY <2>4, <2>5 DEF ChainInv, CountStands
<1>10. ASSUME NEW c \in Caller, ContextExceeded(c) PROVE ChainInv'
  <2>1. Len(Chain) + 1 \in Nat \ {0}
    BY ProviderAssumption
  <2> QED  BY <1>10, <2>1, EnterKeeps DEF ContextExceeded
<1>11. ASSUME NEW c \in Caller, Retry(c) PROVE ChainInv'
  BY <1>1, <1>11 DEF Retry
<1>12. ASSUME NEW c \in Caller, Exhaust(c) PROVE ChainInv'
  <2>1. failures' \in [Provider -> 0..Threshold]
    BY <1>12 DEF Exhaust, ChainInv, ChainTypeOK
  <2> QED  BY <1>12, <2>1, MoveKeeps, "counting" \in Phase \ {"comparing"} DEF Exhaust, Phase
<1>13. ASSUME NEW c \in Caller, Count(c) PROVE ChainInv'
  <2>1. At(c) \in Provider
    BY <1>13, EntryOfChain DEF Count, ChainInv
  <2>2. failures' = [failures EXCEPT ![At(c)] = Least(@ + 1, Threshold)]
    BY <1>13 DEF Count
  <2>3. /\ failures' \in [Provider -> 0..Threshold]
        /\ \A p \in Provider : failures[p] = Threshold => failures'[p] = Threshold
    BY <2>1, <2>2, ProviderAssumption DEF Least, ChainInv, ChainTypeOK
  <2> QED
    BY <1>13, <2>3, MoveKeeps, "stamping" \in Phase \ {"comparing"} DEF Count, Phase
<1>14. ASSUME NEW c \in Caller, Stamp(c) PROVE ChainInv'
  <2>1. slot[c] + 1 \in Nat \ {0}
    BY <1>14, EntryOfChain, ProviderAssumption DEF Stamp, ChainInv
  <2>2. CASE Enter(c, slot[c] + 1)
    BY <1>14, <2>1, <2>2, EnterKeeps DEF Stamp
  <2>3. CASE To(c, "calling") /\ UNCHANGED <<slot, reset>>
    <3>1. failures' = failures /\ failures' \in [Provider -> 0..Threshold]
      BY <1>14 DEF Stamp, ChainInv, ChainTypeOK
    <3> QED
      BY <1>14, <2>3, <3>1, MoveKeeps, "calling" \in Phase \ {"comparing"} DEF Stamp, Phase
  <2> QED  BY <1>14, <2>2, <2>3 DEF Stamp
<1>15. CASE UNCHANGED providerVars
  BY <1>1, <1>15 DEF providerVars
<1> QED
  BY <1>2, <1>3, <1>4, <1>5, <1>6, <1>7, <1>8, <1>9, <1>10, <1>11, <1>12, <1>13, <1>14, <1>15
  DEF ProviderNext, CallerStep

\* Who leaves the comparison for another place than the call has found the
\* cooldown running.
LEMMA SkipStep ==
  ASSUME ChainInv, ProviderNext, NEW c \in Caller,
         phase[c] = "comparing", phase'[c] # phase[c], phase'[c] # "calling"
  PROVE  age[At(c)] < Cooldown
<1>1. ASSUME NEW d \in Caller, d # c, Request(d) \/ CallerStep(d) PROVE phase'[c] = phase[c]
  BY <1>1 DEF Request, CallerStep, SeesClosed, SeesTripped, SeesHalfOpen, Skip, Succeed,
    ContextExceeded, Retry, Exhaust, Count, Stamp, Enter, Visit, To, ChainInv, ChainTypeOK
<1>2. CASE Elapse \/ \E p \in Provider : Turn(p)
  BY <1>2 DEF Elapse, Turn
<1>3. CASE Request(c) \/ CallerStep(c)
  BY <1>3 DEF Request, CallerStep, SeesClosed, SeesTripped, SeesHalfOpen, Skip, Succeed,
    ContextExceeded, Retry, Exhaust, Count, Stamp, To, ChainInv, ChainTypeOK
<1> QED  BY <1>1, <1>2, <1>3 DEF ProviderNext

\* Whoever skips a provider skips one whose circuit is open at that moment,
\* whatever other requests do between the two loads of is_open, unless one of them
\* has recorded a success.
THEOREM SkipsAreRight == ProviderSpec => SkipsOnlyTripped
<1>1. ProviderInit => ChainInv
  BY ProviderAssumption DEF ProviderInit, ChainInv, ChainTypeOK, CountStands, Phase
<1>2. ChainInv /\ [ProviderNext]_providerVars => ChainInv'
  BY ChainStep
<1>3. ChainInv /\ [ProviderNext]_providerVars =>
        [\A c \in Caller :
           phase[c] = "comparing" /\ ~reset[c] /\ phase'[c] # phase[c] /\ phase'[c] # "calling"
             => Tripped(At(c))]_providerVars
  BY SkipStep DEF ChainInv, CountStands, Tripped
<1> QED  BY <1>1, <1>2, <1>3, PTL DEF ProviderSpec, SkipsOnlyTripped
=============================================================================
