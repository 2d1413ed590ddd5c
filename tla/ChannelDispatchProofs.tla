----------------------- MODULE ChannelDispatchProofs -----------------------
(***************************************************************************)
(* Proofs about ChannelDispatch, for any number of messages, scopes and    *)
(* permits.  The argument for one turn per scope orders the workers of a   *)
(* scope by the tickets they drew when they entered the map:               *)
(*   - a waiting worker's predecessor holds the largest smaller ticket,    *)
(*   - a worker is past its wait only if every worker of its scope with a  *)
(*     smaller ticket has given up its entry.                              *)
(***************************************************************************)
EXTENDS ChannelDispatch, FiniteSetTheorems, WellFoundedInduction, TLAPS

Waiting(m) == pc[m] \in {"displaced", "check", "subscribe", "parked"}

\* The worker of m has given up its entry.
Ended(m) == pc[m] \in {"store", "notify", "finished"}

Unregistered(m) == pc[m] \in {"none", "spawned", "numbered"}

\* TypeOK without the upper bound of permits, which PermitsConserved gives.
TypeInv ==
  /\ open \in BOOLEAN /\ stopped \in BOOLEAN
  /\ arrived \in Seq(Message) /\ taken \in 0..Len(arrived)
  /\ held \in Message \cup {NoMessage}
  /\ permits \in Nat
  /\ pc \in [Message -> WorkerPC]
  /\ taskId \in [Message -> Nat] /\ nextId \in Nat \ {0}
  /\ current \in [Scope -> Message \cup {NoMessage}]
  /\ previous \in [Message -> Message \cup {NoMessage}]
  /\ cancelled \subseteq Message /\ done \subseteq Message
  /\ recorded \subseteq Message
  /\ exit \in [Message -> Exit]
  /\ ticket \in [Message -> Nat] /\ tickets \in Nat
  /\ \A m \in Message : Waiting(m) \/ pc[m] = "numbered" => m \in Interruptible
  /\ \A m \in Message : Waiting(m) => previous[m] \in Message

\* A message is in the queue once, and has no worker before it is received.
QueueInv ==
  /\ \A i, j \in 1..Len(arrived) : arrived[i] = arrived[j] => i = j
  /\ \A i \in (taken+1)..Len(arrived) : pc[arrived[i]] = "none" /\ held # arrived[i]
  /\ held # NoMessage =>
       pc[held] = "none" /\ \E i \in 1..taken : arrived[i] = held
  /\ \A m \in Message : pc[m] # "none" => \E i \in 1..taken : arrived[i] = m

TicketInv ==
  /\ \A m \in Message : ticket[m] <= tickets
  /\ \A m, n \in Message : ticket[m] = ticket[n] /\ Registered(m) => m = n
  /\ \A m \in Message : Registered(m) <=> m \in Interruptible /\ ~Unregistered(m)

TaskIdInv ==
  /\ \A m \in Message : taskId[m] < nextId
  /\ \A m, n \in Message : taskId[m] = taskId[n] /\ taskId[m] # 0 => m = n
  /\ \A m \in Message : pc[m] \notin {"none", "spawned"} <=> taskId[m] # 0

EntryInv ==
  \A s \in Scope : current[s] # NoMessage =>
    /\ Registered(current[s]) /\ ScopeOf[current[s]] = s
    /\ \A n \in Interruptible :
         ScopeOf[n] = s => ticket[n] <= ticket[current[s]]

DoneInv == \A m \in done : Ended(m)

\* The predecessor of a waiting worker is the last one registered before it.
PredecessorInv ==
  \A m \in Message : Waiting(m) =>
    /\ previous[m] \in Peers(m)
    /\ Registered(previous[m]) /\ ticket[previous[m]] < ticket[m]
    /\ \A n \in Peers(m) : ticket[n] < ticket[m] => ticket[n] <= ticket[previous[m]]

OrderInv ==
  \A m, n \in Interruptible :
    /\ ScopeOf[n] = ScopeOf[m]
    /\ Registered(n) /\ Registered(m) /\ ticket[n] < ticket[m]
    /\ ~Waiting(m)
    => Ended(n)

MapInv ==
  /\ TicketInv /\ TaskIdInv /\ EntryInv /\ EntryIsNewest
  /\ DoneInv /\ PredecessorInv /\ OrderInv

IInv == TypeInv /\ QueueInv /\ MapInv

-----------------------------------------------------------------------------
(* Typing.                                                                 *)

LEMMA TypeInit == Init => TypeInv
<1> SUFFICES ASSUME Init PROVE TypeInv
  OBVIOUS
<1>1. open \in BOOLEAN /\ stopped \in BOOLEAN
  BY DEF Init
<1>2. arrived \in Seq(Message) /\ taken \in 0..Len(arrived)
  BY DEF Init
<1>3. /\ held \in Message \cup {NoMessage} /\ permits \in Nat
      /\ pc \in [Message -> WorkerPC] /\ exit \in [Message -> Exit]
  BY DispatchAssumption DEF Init, WorkerPC, Exit
<1>4. /\ taskId \in [Message -> Nat] /\ nextId \in Nat \ {0}
      /\ current \in [Scope -> Message \cup {NoMessage}]
      /\ previous \in [Message -> Message \cup {NoMessage}]
      /\ ticket \in [Message -> Nat] /\ tickets \in Nat
  BY DEF Init, NewId
<1>5. cancelled \subseteq Message /\ done \subseteq Message /\ recorded \subseteq Message
  BY DEF Init
<1>6. \A m \in Message : ~Waiting(m) /\ pc[m] # "numbered"
  BY DEF Init, Waiting
<1> QED
  BY <1>1, <1>2, <1>3, <1>4, <1>5, <1>6 DEF TypeInv

LEMMA TypeStep == TypeInv /\ [Next]_vars => TypeInv'
<1> SUFFICES ASSUME TypeInv, [Next]_vars PROVE TypeInv'
  OBVIOUS
<1> USE DispatchAssumption DEF WorkerPC, Exit, Waiting
<1>1. ASSUME NEW m \in Message, Arrive(m) PROVE TypeInv'
  BY <1>1 DEF TypeInv, Arrive, mapVars, signalVars, turnVars
<1>2. CASE CloseQueue
  BY <1>2 DEF TypeInv, CloseQueue, mapVars, signalVars, turnVars
<1>3. CASE Receive
  BY <1>3 DEF TypeInv, Receive, mapVars, signalVars, turnVars
<1>4. CASE SpawnWorker
  BY <1>4 DEF TypeInv, SpawnWorker, CanAcquire, mapVars, signalVars, turnVars
<1>5. CASE Stop
  BY <1>5 DEF TypeInv, Stop, mapVars, signalVars, turnVars
<1>6. ASSUME NEW m \in Message, TakeTaskId(m) PROVE TypeInv'
  BY <1>6 DEF TypeInv, TakeTaskId, Goto, loopVars, signalVars, turnVars
<1>7. ASSUME NEW m \in Message, Register(m) PROVE TypeInv'
  <2>1. ScopeOf[m] \in Scope /\ current[ScopeOf[m]] \in Message \cup {NoMessage}
    BY DEF TypeInv
  <2>2. m \in Interruptible
    BY <1>7 DEF TypeInv, Register, Goto
  <2>3. /\ (\A n \in Message : Waiting(n) \/ pc[n] = "numbered" => n \in Interruptible)'
        /\ (\A n \in Message : Waiting(n) => previous[n] \in Message)'
    BY <1>7, <2>1, <2>2 DEF TypeInv, Register, ScopeKey, Goto
  <2>4. pc' \in [Message -> WorkerPC] /\ current' \in [Scope -> Message \cup {NoMessage}]
    BY <1>7 DEF TypeInv, Register, ScopeKey, Goto
  <2>5. /\ previous' \in [Message -> Message \cup {NoMessage}]
        /\ ticket' \in [Message -> Nat] /\ tickets' \in Nat
    BY <1>7, <2>1 DEF TypeInv, Register, ScopeKey
  <2>6. /\ UNCHANGED <<open, stopped, arrived, taken, held, permits, taskId, nextId>>
        /\ UNCHANGED <<cancelled, done, recorded, exit>>
    BY <1>7 DEF Register, loopVars, signalVars, turnVars
  <2> QED
    BY <2>3, <2>4, <2>5, <2>6 DEF TypeInv
<1>8. ASSUME NEW m \in Message, CancelPrevious(m) PROVE TypeInv'
  BY <1>8 DEF TypeInv, CancelPrevious, Goto, loopVars, mapVars, turnVars
<1>9. ASSUME NEW m \in Message, CheckDone(m) PROVE TypeInv'
  BY <1>9 DEF TypeInv, CheckDone, Goto, loopVars, mapVars, signalVars, turnVars
<1>10. ASSUME NEW m \in Message, Subscribe(m) PROVE TypeInv'
  BY <1>10 DEF TypeInv, Subscribe, Goto, loopVars, mapVars, signalVars, turnVars
<1>11. ASSUME NEW m \in Message, EnterProcess(m) PROVE TypeInv'
  <2>1. /\ pc' = [pc EXCEPT ![m] = "leaving"] \/ pc' = [pc EXCEPT ![m] = "preamble"]
        /\ exit' = [exit EXCEPT ![m] = "skipped"] \/ exit' = exit
        /\ UNCHANGED <<loopVars, permits, mapVars, signalVars, recorded>>
    BY <1>11 DEF EnterProcess, Goto
  <2>2. pc' \in [Message -> WorkerPC]
    <3>1. [pc EXCEPT ![m] = "leaving"] \in [Message -> WorkerPC]
      BY DEF TypeInv
    <3>2. [pc EXCEPT ![m] = "preamble"] \in [Message -> WorkerPC]
      BY DEF TypeInv
    <3> QED
      BY <2>1, <3>1, <3>2
  <2>5. exit' \in [Message -> Exit]
    BY <2>1 DEF TypeInv
  <2>3. (\A n \in Message : Waiting(n) \/ pc[n] = "numbered" => n \in Interruptible)'
    BY <2>1 DEF TypeInv
  <2>4. (\A n \in Message : Waiting(n) => previous[n] \in Message)'
    BY <2>1 DEF TypeInv, mapVars
  <2> QED
    BY <2>1, <2>2, <2>3, <2>4, <2>5 DEF TypeInv, loopVars, mapVars, signalVars
<1>12. ASSUME NEW m \in Message, HandledEarly(m) PROVE TypeInv'
  BY <1>12 DEF TypeInv, HandledEarly, Goto, loopVars, mapVars, signalVars
<1>13. ASSUME NEW m \in Message, RecordUserTurn(m) PROVE TypeInv'
  BY <1>13 DEF TypeInv, RecordUserTurn, Goto, loopVars, mapVars, signalVars
<1>14. ASSUME NEW m \in Message, EndTurn(m) PROVE TypeInv'
  BY <1>14 DEF TypeInv, EndTurn, Goto, loopVars, mapVars, signalVars
<1>15. ASSUME NEW m \in Message, Unregister(m) PROVE TypeInv'
  BY <1>15 DEF TypeInv, Unregister, ScopeKey, Goto, loopVars, signalVars, turnVars
<1>16. ASSUME NEW m \in Message, StoreDone(m) PROVE TypeInv'
  BY <1>16 DEF TypeInv, StoreDone, FlagStored, Goto, loopVars, mapVars, turnVars
<1>17. ASSUME NEW m \in Message, NotifyWaiters(m) PROVE TypeInv'
  BY <1>17 DEF TypeInv, NotifyWaiters, Waiters, PermitDropped, loopVars, mapVars,
     signalVars, turnVars
<1>18. CASE UNCHANGED vars
  BY <1>18 DEF TypeInv, vars, loopVars, mapVars, signalVars, turnVars
<1>19. QED
  BY <1>1, <1>2, <1>3, <1>4, <1>5, <1>6, <1>7, <1>8, <1>9, <1>10, <1>11, <1>12,
     <1>13, <1>14, <1>15, <1>16, <1>17, <1>18
  DEF Next, Environment, Loop, Worker

-----------------------------------------------------------------------------
(* The queue.                                                              *)

\* A worker's own step leaves the loop alone and makes no worker appear.
LEMMA WorkerFrame ==
  ASSUME TypeInv, NEW m \in Message, Worker(m)
  PROVE  /\ UNCHANGED loopVars
         /\ pc[m] # "none"
         /\ \A n \in Message : pc'[n] = "none" <=> pc[n] = "none"
<1> USE DEF TypeInv, Goto
<1>1. CASE TakeTaskId(m) BY <1>1 DEF TakeTaskId
<1>2. CASE Register(m) BY <1>2 DEF Register
<1>3. CASE CancelPrevious(m) BY <1>3 DEF CancelPrevious
<1>4. CASE CheckDone(m) BY <1>4 DEF CheckDone
<1>5. CASE Subscribe(m) BY <1>5 DEF Subscribe
<1>6. CASE EnterProcess(m) BY <1>6 DEF EnterProcess
<1>7. CASE HandledEarly(m) BY <1>7 DEF HandledEarly
<1>8. CASE RecordUserTurn(m) BY <1>8 DEF RecordUserTurn
<1>9. CASE EndTurn(m) BY <1>9 DEF EndTurn
<1>10. CASE Unregister(m) BY <1>10 DEF Unregister
<1>11. CASE StoreDone(m) BY <1>11 DEF StoreDone
<1>12. CASE NotifyWaiters(m) BY <1>12 DEF NotifyWaiters, Waiters
<1> QED
  BY <1>1, <1>2, <1>3, <1>4, <1>5, <1>6, <1>7, <1>8, <1>9, <1>10, <1>11, <1>12 DEF Worker

LEMMA QueueInit == Init => QueueInv
BY DEF Init, QueueInv

LEMMA QueueStep == TypeInv /\ QueueInv /\ [Next]_vars => QueueInv'
<1> SUFFICES ASSUME TypeInv, QueueInv, [Next]_vars PROVE QueueInv'
  OBVIOUS
<1> USE DispatchAssumption
<1>1. ASSUME NEW m \in Message, Arrive(m) PROVE QueueInv'
  <2>1. /\ arrived' = Append(arrived, m) /\ UNCHANGED <<taken, held, pc>>
        /\ \A i \in 1..Len(arrived) : arrived[i] # m
    BY <1>1 DEF Arrive
  <2>2. /\ Len(arrived') = Len(arrived) + 1 /\ arrived'[Len(arrived) + 1] = m
        /\ \A i \in 1..Len(arrived) : arrived'[i] = arrived[i]
    BY <2>1 DEF TypeInv
  <2>3. \A i \in 1..taken : i \in 1..Len(arrived)
    BY DEF TypeInv
  <2>4. pc[m] = "none"
    BY <2>1, <2>3 DEF QueueInv
  <2>5. held # m
    BY <2>1, <2>3 DEF QueueInv
  <2> QED
    BY <2>1, <2>2, <2>4, <2>5 DEF QueueInv, TypeInv
<1>2. CASE Receive
  <2>1. /\ held' = arrived[taken + 1] /\ taken' = taken + 1 /\ taken < Len(arrived)
        /\ UNCHANGED <<arrived, pc>>
    BY <1>2 DEF Receive
  <2>2. taken + 1 \in 1..Len(arrived) /\ arrived[taken + 1] \in Message
    BY <2>1 DEF TypeInv
  <2> QED
    BY <2>1, <2>2 DEF QueueInv, TypeInv
<1>3. CASE SpawnWorker
  <2>1. /\ held \in Message /\ pc' = [pc EXCEPT ![held] = "spawned"] /\ held' = NoMessage
        /\ UNCHANGED <<arrived, taken>>
    BY <1>3 DEF SpawnWorker, TypeInv
  <2>2. \A i \in 1..Len(arrived) : arrived[i] \in Message
    BY DEF TypeInv
  <2> QED
    BY <2>1, <2>2 DEF QueueInv, TypeInv
<1>4. CASE CloseQueue \/ Stop \/ UNCHANGED vars
  BY <1>4 DEF QueueInv, CloseQueue, Stop, vars, loopVars
<1>5. ASSUME NEW m \in Message, Worker(m) PROVE QueueInv'
  <2>1. UNCHANGED loopVars /\ \A n \in Message : pc'[n] = "none" <=> pc[n] = "none"
    BY <1>5, WorkerFrame
  <2>2. \A i \in 1..Len(arrived) : arrived[i] \in Message
    BY DEF TypeInv
  <2>3. held' = held /\ taken' = taken /\ arrived' = arrived
    BY <2>1 DEF loopVars
  <2>4. held # NoMessage => held \in Message
    BY DEF TypeInv
  <2>5. \A i \in (taken+1)..Len(arrived) : pc'[arrived[i]] = "none"
    BY <2>1, <2>2 DEF QueueInv, TypeInv
  <2> QED
    BY <2>1, <2>3, <2>4, <2>5 DEF QueueInv
<1> QED
  BY <1>1, <1>2, <1>3, <1>4, <1>5 DEF Next, Environment, Loop

-----------------------------------------------------------------------------
(* The in-flight map.                                                      *)

LEMMA MapInit == Init => MapInv
BY DispatchAssumption
DEF Init, MapInv, TicketInv, TaskIdInv, EntryInv, EntryIsNewest, DoneInv, PredecessorInv,
    OrderInv, Registered, Unregistered, Waiting, Ended, NewId

\* A step that leaves the map alone, ends no worker's entry, and lets a worker
\* stop waiting only when its predecessor has ended.
LEMMA FrameStep ==
  ASSUME IInv, TypeInv', UNCHANGED mapVars, DoneInv',
         \A n \in Message :
           /\ Ended(n) => Ended(n)'
           /\ Unregistered(n)' <=> Unregistered(n)
           /\ pc'[n] \in {"none", "spawned"} <=> pc[n] \in {"none", "spawned"}
           /\ Waiting(n)' => Waiting(n)
           /\ Waiting(n) /\ ~Waiting(n)' => Ended(previous[n])
  PROVE  MapInv'
<1> USE DispatchAssumption
<1>1. TicketInv' /\ TaskIdInv' /\ EntryInv'
  BY DEF IInv, MapInv, TicketInv, TaskIdInv, EntryInv, Registered, mapVars
<1>2. EntryIsNewest'
  BY DEF IInv, MapInv, EntryIsNewest, Ended, Registered, mapVars
<1>3. PredecessorInv'
  BY DEF IInv, MapInv, PredecessorInv, Registered, Peers, mapVars
<1>4. OrderInv'
  <2> SUFFICES ASSUME NEW m \in Interruptible, NEW n \in Interruptible,
                      ScopeOf[n] = ScopeOf[m], Registered(n), Registered(m),
                      ticket[n] < ticket[m], ~Waiting(m)'
               PROVE  Ended(n)
    BY DEF OrderInv, Registered, mapVars
  <2>1. CASE ~Waiting(m)
    BY <2>1 DEF IInv, MapInv, OrderInv
  <2>2. CASE Waiting(m)
    <3> DEFINE p == previous[m]
    <3>1. /\ p \in Interruptible /\ ScopeOf[p] = ScopeOf[m] /\ Registered(p)
          /\ ticket[n] <= ticket[p]
      BY <2>2 DEF IInv, MapInv, PredecessorInv, Peers
    <3>2. Ended(p) /\ ~Waiting(p)
      BY <2>2 DEF Ended, Waiting
    <3>3. CASE n = p
      BY <3>2, <3>3
    <3>4. CASE n # p
      <4>1. ticket[n] # ticket[p] /\ ticket[n] \in Nat /\ ticket[p] \in Nat
        BY <3>1, <3>4 DEF IInv, TypeInv, MapInv, TicketInv
      <4>2. ticket[n] < ticket[p]
        BY <3>1, <4>1
      <4> QED
        BY <3>1, <3>2, <4>2 DEF IInv, MapInv, OrderInv
    <3> QED
      BY <3>3, <3>4
  <2> QED
    BY <2>1, <2>2
<1> QED
  BY <1>1, <1>2, <1>3, <1>4 DEF MapInv

LEMMA MapStep == IInv /\ TypeInv' /\ [Next]_vars => MapInv'
<1> SUFFICES ASSUME IInv, TypeInv', [Next]_vars PROVE MapInv'
  OBVIOUS
<1> USE DispatchAssumption DEF Waiting, Ended, Unregistered, Goto
<1>1. CASE Environment \/ Receive \/ Stop \/ UNCHANGED vars
  <2>1. UNCHANGED <<mapVars, pc, done>>
    BY <1>1 DEF Environment, CloseQueue, Arrive, Receive, Stop, vars, signalVars
  <2> QED
    BY <2>1, FrameStep DEF IInv, MapInv, DoneInv
<1>2. CASE SpawnWorker
  <2>1. /\ held \in Message /\ pc[held] = "none" /\ pc' = [pc EXCEPT ![held] = "spawned"]
        /\ UNCHANGED <<mapVars, done>>
    BY <1>2 DEF SpawnWorker, IInv, TypeInv, QueueInv, signalVars
  <2> QED
    BY <2>1, FrameStep DEF IInv, TypeInv, MapInv, DoneInv
<1>3. ASSUME NEW m \in Message, CancelPrevious(m) PROVE MapInv'
  <2>1. UNCHANGED mapVars
    BY <1>3 DEF CancelPrevious
  <2>2. DoneInv'
    BY <1>3 DEF IInv, TypeInv, MapInv, DoneInv, CancelPrevious
  <2>3. \A n \in Message :
          /\ Ended(n) => Ended(n)'
          /\ Unregistered(n)' <=> Unregistered(n)
          /\ pc'[n] \in {"none", "spawned"} <=> pc[n] \in {"none", "spawned"}
          /\ Waiting(n)' => Waiting(n)
          /\ Waiting(n) /\ ~Waiting(n)' => Ended(previous[n])
    BY <1>3 DEF IInv, TypeInv, MapInv, DoneInv, CancelPrevious
  <2> QED
    BY <2>1, <2>2, <2>3, FrameStep
<1>4. ASSUME NEW m \in Message, CheckDone(m) PROVE MapInv'
  <2>1. UNCHANGED mapVars
    BY <1>4 DEF CheckDone
  <2>2. DoneInv'
    BY <1>4 DEF IInv, TypeInv, MapInv, DoneInv, CheckDone, AlreadyDone, signalVars
  <2>3. \A n \in Message :
          /\ Ended(n) => Ended(n)'
          /\ Unregistered(n)' <=> Unregistered(n)
          /\ pc'[n] \in {"none", "spawned"} <=> pc[n] \in {"none", "spawned"}
          /\ Waiting(n)' => Waiting(n)
          /\ Waiting(n) /\ ~Waiting(n)' => Ended(previous[n])
    BY <1>4 DEF IInv, TypeInv, MapInv, DoneInv, CheckDone, AlreadyDone, signalVars
  <2> QED
    BY <2>1, <2>2, <2>3, FrameStep
<1>5. ASSUME NEW m \in Message, Subscribe(m) PROVE MapInv'
  <2>1. UNCHANGED mapVars
    BY <1>5 DEF Subscribe
  <2>2. DoneInv'
    BY <1>5 DEF IInv, TypeInv, MapInv, DoneInv, Subscribe, signalVars
  <2>3. \A n \in Message :
          /\ Ended(n) => Ended(n)'
          /\ Unregistered(n)' <=> Unregistered(n)
          /\ pc'[n] \in {"none", "spawned"} <=> pc[n] \in {"none", "spawned"}
          /\ Waiting(n)' => Waiting(n)
          /\ Waiting(n) /\ ~Waiting(n)' => Ended(previous[n])
    BY <1>5 DEF IInv, TypeInv, MapInv, DoneInv, Subscribe, signalVars
  <2> QED
    BY <2>1, <2>2, <2>3, FrameStep
<1>6. ASSUME NEW m \in Message, EnterProcess(m) PROVE MapInv'
  <2>1. UNCHANGED mapVars
    BY <1>6 DEF EnterProcess
  <2>2. DoneInv'
    BY <1>6 DEF IInv, TypeInv, MapInv, DoneInv, EnterProcess, signalVars
  <2>3. \A n \in Message :
          /\ Ended(n) => Ended(n)'
          /\ Unregistered(n)' <=> Unregistered(n)
          /\ pc'[n] \in {"none", "spawned"} <=> pc[n] \in {"none", "spawned"}
          /\ Waiting(n)' => Waiting(n)
          /\ Waiting(n) /\ ~Waiting(n)' => Ended(previous[n])
    <3>1. /\ pc[m] = "enter" /\ pc \in [Message -> WorkerPC]
          /\ pc' = [pc EXCEPT ![m] = "leaving"] \/ pc' = [pc EXCEPT ![m] = "preamble"]
      BY <1>6 DEF EnterProcess, IInv, TypeInv
    <3>2. /\ pc'[m] \in {"leaving", "preamble"}
          /\ \A n \in Message : n # m => pc'[n] = pc[n]
      BY <3>1
    <3> QED
      BY <3>1, <3>2
  <2> QED
    BY <2>1, <2>2, <2>3, FrameStep
<1>7. ASSUME NEW m \in Message, HandledEarly(m) PROVE MapInv'
  <2>1. UNCHANGED mapVars
    BY <1>7 DEF HandledEarly
  <2>2. DoneInv'
    BY <1>7 DEF IInv, TypeInv, MapInv, DoneInv, HandledEarly, signalVars
  <2>3. \A n \in Message :
          /\ Ended(n) => Ended(n)'
          /\ Unregistered(n)' <=> Unregistered(n)
          /\ pc'[n] \in {"none", "spawned"} <=> pc[n] \in {"none", "spawned"}
          /\ Waiting(n)' => Waiting(n)
          /\ Waiting(n) /\ ~Waiting(n)' => Ended(previous[n])
    BY <1>7 DEF IInv, TypeInv, MapInv, DoneInv, HandledEarly, signalVars
  <2> QED
    BY <2>1, <2>2, <2>3, FrameStep
<1>8. ASSUME NEW m \in Message, RecordUserTurn(m) PROVE MapInv'
  <2>1. UNCHANGED mapVars
    BY <1>8 DEF RecordUserTurn
  <2>2. DoneInv'
    BY <1>8 DEF IInv, TypeInv, MapInv, DoneInv, RecordUserTurn, signalVars
  <2>3. \A n \in Message :
          /\ Ended(n) => Ended(n)'
          /\ Unregistered(n)' <=> Unregistered(n)
          /\ pc'[n] \in {"none", "spawned"} <=> pc[n] \in {"none", "spawned"}
          /\ Waiting(n)' => Waiting(n)
          /\ Waiting(n) /\ ~Waiting(n)' => Ended(previous[n])
    BY <1>8 DEF IInv, TypeInv, MapInv, DoneInv, RecordUserTurn, signalVars
  <2> QED
    BY <2>1, <2>2, <2>3, FrameStep
<1>9. ASSUME NEW m \in Message, EndTurn(m) PROVE MapInv'
  <2>1. UNCHANGED mapVars
    BY <1>9 DEF EndTurn
  <2>2. DoneInv'
    BY <1>9 DEF IInv, TypeInv, MapInv, DoneInv, EndTurn, signalVars
  <2>3. \A n \in Message :
          /\ Ended(n) => Ended(n)'
          /\ Unregistered(n)' <=> Unregistered(n)
          /\ pc'[n] \in {"none", "spawned"} <=> pc[n] \in {"none", "spawned"}
          /\ Waiting(n)' => Waiting(n)
          /\ Waiting(n) /\ ~Waiting(n)' => Ended(previous[n])
    BY <1>9 DEF IInv, TypeInv, MapInv, DoneInv, EndTurn, signalVars
  <2> QED
    BY <2>1, <2>2, <2>3, FrameStep
<1>10. ASSUME NEW m \in Message, StoreDone(m) PROVE MapInv'
  <2>1. UNCHANGED mapVars
    BY <1>10 DEF StoreDone
  <2>2. DoneInv'
    BY <1>10 DEF IInv, TypeInv, MapInv, DoneInv, StoreDone, FlagStored
  <2>3. \A n \in Message :
          /\ Ended(n) => Ended(n)'
          /\ Unregistered(n)' <=> Unregistered(n)
          /\ pc'[n] \in {"none", "spawned"} <=> pc[n] \in {"none", "spawned"}
          /\ Waiting(n)' => Waiting(n)
          /\ Waiting(n) /\ ~Waiting(n)' => Ended(previous[n])
    BY <1>10 DEF IInv, TypeInv, MapInv, DoneInv, StoreDone, FlagStored
  <2> QED
    BY <2>1, <2>2, <2>3, FrameStep
<1>11. ASSUME NEW m \in Message, NotifyWaiters(m) PROVE MapInv'
  <2>1. UNCHANGED mapVars
    BY <1>11 DEF NotifyWaiters
  <2>2. DoneInv'
    BY <1>11 DEF IInv, TypeInv, MapInv, DoneInv, NotifyWaiters, Waiters, signalVars
  <2>3. \A n \in Message :
          /\ Ended(n) => Ended(n)'
          /\ Unregistered(n)' <=> Unregistered(n)
          /\ pc'[n] \in {"none", "spawned"} <=> pc[n] \in {"none", "spawned"}
          /\ Waiting(n)' => Waiting(n)
          /\ Waiting(n) /\ ~Waiting(n)' => Ended(previous[n])
    BY <1>11 DEF IInv, TypeInv, MapInv, DoneInv, NotifyWaiters, Waiters, signalVars
  <2> QED
    BY <2>1, <2>2, <2>3, FrameStep
<1>12. ASSUME NEW m \in Message, TakeTaskId(m) PROVE MapInv'
  <2>1. /\ pc[m] = "spawned" /\ taskId' = [taskId EXCEPT ![m] = nextId] /\ nextId' = nextId + 1
        /\ pc' = [pc EXCEPT ![m] = IF m \in Interruptible THEN "numbered" ELSE "enter"]
        /\ UNCHANGED <<current, previous, ticket, tickets, done>>
    BY <1>12 DEF TakeTaskId, signalVars
  <2>2. \A n \in Interruptible : n # m \/ ~Registered(n)
    BY <2>1 DEF IInv, MapInv, TicketInv, Registered
  <2>3. TicketInv'
    BY <2>1, <2>2 DEF IInv, TypeInv, MapInv, TicketInv, Registered
  <2>4. TaskIdInv'
    BY <2>1 DEF IInv, TypeInv, MapInv, TaskIdInv
  <2>5. EntryInv' /\ EntryIsNewest'
    BY <2>1, <2>2 DEF IInv, TypeInv, MapInv, EntryInv, EntryIsNewest, Registered
  <2>6. DoneInv'
    BY <2>1 DEF IInv, TypeInv, MapInv, DoneInv
  <2>7. PredecessorInv'
    BY <2>1 DEF IInv, TypeInv, MapInv, PredecessorInv, Peers, Registered
  <2>8. OrderInv'
    BY <2>1, <2>2 DEF IInv, TypeInv, MapInv, OrderInv, Registered
  <2> QED
    BY <2>3, <2>4, <2>5, <2>6, <2>7, <2>8 DEF MapInv
<1>13. ASSUME NEW m \in Message, Register(m) PROVE MapInv'
  <2> DEFINE p == current[ScopeOf[m]]
  <2>1. /\ pc[m] = "numbered" /\ m \in Interruptible /\ ~Registered(m) /\ ScopeOf[m] \in Scope
        /\ pc' = [pc EXCEPT ![m] = IF p = NoMessage THEN "enter" ELSE "displaced"]
        /\ current' = [current EXCEPT ![ScopeOf[m]] = m]
        /\ previous' = [previous EXCEPT ![m] = p]
        /\ tickets' = tickets + 1 /\ ticket' = [ticket EXCEPT ![m] = tickets + 1]
        /\ UNCHANGED <<taskId, nextId, done>>
    BY <1>13 DEF Register, ScopeKey, signalVars, IInv, TypeInv, MapInv, TicketInv, Registered
  <2>2. \A n \in Message : n # m => ticket'[n] = ticket[n] /\ ticket[n] < ticket'[m] /\ pc'[n] = pc[n]
    BY <2>1 DEF IInv, TypeInv, MapInv, TicketInv
  <2>3. ticket'[m] # 0 /\ ticket'[m] = tickets'
    BY <2>1 DEF IInv, TypeInv
  <2>4. TicketInv'
    BY <2>1, <2>2, <2>3 DEF IInv, TypeInv, MapInv, TicketInv, Registered
  <2>5. TaskIdInv'
    BY <2>1 DEF IInv, TypeInv, MapInv, TaskIdInv
  <2>6. EntryInv'
    BY <2>1, <2>2, <2>3 DEF IInv, TypeInv, MapInv, EntryInv, Registered
  <2>7. EntryIsNewest'
    BY <2>1, <2>2, <2>3 DEF IInv, TypeInv, MapInv, EntryIsNewest, Registered
  <2>8. DoneInv'
    BY <2>1 DEF IInv, TypeInv, MapInv, DoneInv
  <2>9. PredecessorInv'
    <3> SUFFICES ASSUME NEW w \in Message, Waiting(w)'
                 PROVE  /\ previous'[w] \in Peers(w)
                        /\ ticket'[previous'[w]] # 0 /\ ticket'[previous'[w]] < ticket'[w]
                        /\ \A n \in Peers(w) :
                             ticket'[n] < ticket'[w] => ticket'[n] <= ticket'[previous'[w]]
      BY DEF PredecessorInv, Registered, Peers
    <3>1. CASE w = m
      <4>1. p # NoMessage /\ p \in Message /\ previous'[m] = p
        BY <2>1, <3>1 DEF IInv, TypeInv
      <4>2. /\ Registered(p) /\ ScopeOf[p] = ScopeOf[m] /\ p # m
            /\ \A n \in Interruptible : ScopeOf[n] = ScopeOf[m] => ticket[n] <= ticket[p]
        BY <2>1, <4>1 DEF IInv, MapInv, EntryInv, Registered
      <4>3. p \in Interruptible
        BY <4>1, <4>2 DEF IInv, MapInv, TicketInv
      <4>4. ticket'[p] = ticket[p] /\ ticket[p] < ticket'[m] /\ ticket'[m] \in Nat
        BY <2>2, <4>1, <4>2 DEF TypeInv
      <4> QED
        BY <2>2, <3>1, <4>1, <4>2, <4>3, <4>4 DEF Peers, Registered
    <3>2. CASE w # m
      <4>1. Waiting(w) /\ previous'[w] = previous[w] /\ w \in Interruptible
        BY <2>1, <3>2 DEF IInv, TypeInv
      <4>2. /\ previous[w] \in Peers(w) /\ Registered(previous[w])
            /\ ticket[previous[w]] < ticket[w]
            /\ \A n \in Peers(w) : ticket[n] < ticket[w] => ticket[n] <= ticket[previous[w]]
        BY <4>1 DEF IInv, MapInv, PredecessorInv
      <4>3. previous[w] # m /\ previous[w] \in Message
        BY <2>1, <4>2 DEF Peers
      <4>4. ~(ticket'[m] < ticket'[w])
        BY <2>2, <3>2 DEF IInv, TypeInv
      <4> QED
        BY <2>2, <3>2, <4>1, <4>2, <4>3, <4>4 DEF Peers, Registered
    <3> QED
      BY <3>1, <3>2
  <2>10. OrderInv'
    <3> SUFFICES ASSUME NEW w \in Interruptible, NEW n \in Interruptible,
                        ScopeOf[n] = ScopeOf[w], ticket'[n] # 0, ticket'[w] # 0,
                        ticket'[n] < ticket'[w], ~Waiting(w)'
                 PROVE  Ended(n)'
      BY DEF OrderInv, Registered
    <3>1. n # m
      <4>1. ticket'[m] \in Nat /\ ticket'[w] \in Nat /\ w \in Message
        BY DEF TypeInv
      <4> QED
        BY <2>2, <4>1
    <3>2. CASE w = m
      <4>1. p = NoMessage
        BY <2>1, <3>2 DEF IInv, TypeInv
      <4> QED
        BY <2>1, <2>2, <3>1, <3>2, <4>1 DEF IInv, MapInv, EntryIsNewest, Registered
    <3>3. CASE w # m
      BY <2>2, <3>1, <3>3 DEF IInv, MapInv, OrderInv, Registered
    <3> QED
      BY <3>2, <3>3
  <2> QED
    BY <2>4, <2>5, <2>6, <2>7, <2>8, <2>9, <2>10 DEF MapInv
<1>14. ASSUME NEW m \in Message, Unregister(m) PROVE MapInv'
  <2>1. /\ pc[m] = "leaving" /\ pc' = [pc EXCEPT ![m] = "store"]
        /\ UNCHANGED <<taskId, nextId, previous, ticket, tickets, done>>
        /\ current' = IF m \in Interruptible /\ OwnsEntry(m)
                        THEN [current EXCEPT ![ScopeOf[m]] = NoMessage] ELSE current
    BY <1>14 DEF Unregister, ScopeKey, signalVars
  <2>2. TicketInv' /\ TaskIdInv'
    BY <2>1 DEF IInv, TypeInv, MapInv, TicketInv, TaskIdInv, Registered
  <2>3. EntryInv'
    BY <2>1 DEF IInv, TypeInv, MapInv, EntryInv, Registered
  <2>4. EntryIsNewest'
    <3> SUFFICES ASSUME NEW n \in Interruptible, Registered(n),
                        pc'[n] \notin {"store", "notify", "finished"}
                 PROVE  current'[ScopeOf[n]] # NoMessage
                        /\ ticket[n] <= ticket[current'[ScopeOf[n]]]
      BY <2>1 DEF EntryIsNewest, Registered
    <3>1. n # m /\ pc'[n] = pc[n]
      BY <2>1 DEF IInv, TypeInv
    <3>2. current[ScopeOf[n]] # NoMessage /\ ticket[n] <= ticket[current[ScopeOf[n]]]
      BY <3>1 DEF IInv, MapInv, EntryIsNewest
    <3>3. CASE ~(m \in Interruptible /\ OwnsEntry(m)) \/ ScopeOf[n] # ScopeOf[m]
      BY <2>1, <3>2, <3>3 DEF IInv, TypeInv
    <3>4. CASE m \in Interruptible /\ OwnsEntry(m) /\ ScopeOf[n] = ScopeOf[m]
      <4>1. current[ScopeOf[m]] = m
        <5>1. taskId[m] # 0
          BY <2>1 DEF IInv, MapInv, TaskIdInv
        <5> QED
          BY <3>4, <5>1 DEF OwnsEntry, ScopeKey, IInv, TypeInv, MapInv, TaskIdInv
      <4>2. Registered(m) /\ ~Waiting(m)
        BY <2>1, <3>4 DEF IInv, MapInv, TicketInv
      <4>3. ticket[n] < ticket[m]
        <5>1. ticket[n] <= ticket[m] /\ ticket[n] # ticket[m]
          BY <3>1, <3>2, <3>4, <4>1 DEF IInv, MapInv, TicketInv
        <5> QED
          BY <5>1 DEF IInv, TypeInv
      <4>4. Ended(n)
        BY <3>4, <4>2, <4>3 DEF IInv, MapInv, OrderInv
      <4> QED
        BY <3>1, <4>4
    <3> QED
      BY <3>3, <3>4
  <2>5. DoneInv'
    BY <2>1 DEF IInv, TypeInv, MapInv, DoneInv
  <2>6. PredecessorInv'
    BY <2>1 DEF IInv, TypeInv, MapInv, PredecessorInv, Peers, Registered
  <2>7. OrderInv'
    BY <2>1 DEF IInv, TypeInv, MapInv, OrderInv, Registered
  <2> QED
    BY <2>2, <2>3, <2>4, <2>5, <2>6, <2>7 DEF MapInv
<1> QED
  BY <1>1, <1>2, <1>3, <1>4, <1>5, <1>6, <1>7, <1>8, <1>9, <1>10, <1>11, <1>12, <1>13, <1>14
  DEF Next, Loop, Worker

-----------------------------------------------------------------------------
(* The theorems.                                                           *)

\* The invariant IInv holds of every reachable state.
LEMMA Invariance == Spec => []IInv
<1>1. Init => IInv
  BY TypeInit, QueueInit, MapInit DEF IInv
<1>2. IInv /\ [Next]_vars => IInv'
  BY TypeStep, QueueStep, MapStep DEF IInv
<1> QED
  BY <1>1, <1>2, PTL DEF Spec

\* In every scope at most one interruptible message is processed at a time,
\* whatever the number of messages, chats and permits.
LEMMA OrderGivesOneTurn == IInv => OneTurnPerScope
<1> SUFFICES ASSUME IInv, NEW m \in Interruptible, NEW n \in Interruptible, m # n,
                    ScopeOf[m] = ScopeOf[n], Processing(m), Processing(n)
             PROVE  FALSE
  BY DEF OneTurnPerScope
<1>1. m \in Message /\ n \in Message
  BY DispatchAssumption
<1>2. Registered(m) /\ Registered(n)
  BY <1>1 DEF Processing, IInv, MapInv, TicketInv, Unregistered
<1>3. ~Waiting(m) /\ ~Waiting(n) /\ ~Ended(m) /\ ~Ended(n)
  BY DEF Processing, Waiting, Ended
<1>4. ticket[m] < ticket[n] \/ ticket[n] < ticket[m]
  BY <1>1, <1>2 DEF IInv, TypeInv, MapInv, TicketInv
<1> QED
  BY <1>2, <1>3, <1>4 DEF IInv, MapInv, OrderInv

THEOREM OneTurnAtATime == Spec => []OneTurnPerScope
BY Invariance, OrderGivesOneTurn, PTL

\* The in-flight map never loses the entry of the newest worker of a scope.
THEOREM MapKeepsNewest == Spec => []EntryIsNewest
<1>1. IInv => EntryIsNewest
  BY DEF IInv, MapInv
<1> QED
  BY Invariance, <1>1, PTL

-----------------------------------------------------------------------------
(* Permits.                                                                *)

\* The workers that hold a permit.
Holders == {m \in Message : pc[m] \notin {"none", "finished"}}

LEMMA HoldersFinite == IsFiniteSet(Holders) /\ Cardinality(Holders) \in Nat
BY MessagesFinite, FS_Subset, FS_CardinalityType DEF Holders

LEMMA PermitStep == IInv /\ PermitsConserved /\ [Next]_vars => PermitsConserved'
<1> SUFFICES ASSUME IInv, permits + Cardinality(Holders) = MaxInFlight, [Next]_vars
             PROVE  permits' + Cardinality(Holders') = MaxInFlight
  BY DEF PermitsConserved, Holders
<1> USE DispatchAssumption
<1>1. CASE UNCHANGED <<permits, pc>>
  BY <1>1 DEF Holders
<1>2. CASE SpawnWorker
  <2>1. /\ held \in Message /\ pc[held] = "none" /\ permits' = permits - 1
        /\ pc' = [pc EXCEPT ![held] = "spawned"]
    BY <1>2 DEF SpawnWorker, IInv, TypeInv, QueueInv
  <2>2. Holders' = Holders \cup {held} /\ held \notin Holders
    BY <2>1 DEF Holders, IInv, TypeInv
  <2>3. Cardinality(Holders') = Cardinality(Holders) + 1
    BY <2>2, HoldersFinite, FS_AddElement
  <2> QED
    BY <2>1, <2>3, HoldersFinite DEF IInv, TypeInv
<1>3. ASSUME NEW m \in Message, NotifyWaiters(m)
      PROVE  permits' + Cardinality(Holders') = MaxInFlight
  <2>1. permits' = permits + 1 /\ m \in Holders
    BY <1>3 DEF NotifyWaiters, PermitDropped, Holders
  <2>2. Holders' = Holders \ {m}
    BY <1>3 DEF NotifyWaiters, Waiters, Holders, IInv, TypeInv
  <2>3. Cardinality(Holders') = Cardinality(Holders) - 1
    BY <2>1, <2>2, HoldersFinite, FS_RemoveElement
  <2> QED
    BY <2>1, <2>3, HoldersFinite DEF IInv, TypeInv
<1>4. ASSUME NEW m \in Message, Worker(m), ~NotifyWaiters(m)
      PROVE  permits' + Cardinality(Holders') = MaxInFlight
  <2>1. permits' = permits
    BY <1>4 DEF Worker, TakeTaskId, Register, CancelPrevious, CheckDone, Subscribe,
       EnterProcess, HandledEarly, RecordUserTurn, EndTurn, Unregister, StoreDone
  <2>2. \A n \in Message : pc'[n] \in {"none", "finished"} <=> pc[n] \in {"none", "finished"}
    BY <1>4 DEF Worker, TakeTaskId, Register, CancelPrevious, CheckDone, Subscribe, Goto,
       EnterProcess, HandledEarly, RecordUserTurn, EndTurn, Unregister, StoreDone, IInv, TypeInv
  <2> QED
    BY <2>1, <2>2 DEF Holders
<1> QED
  BY <1>1, <1>2, <1>3, <1>4
  DEF Next, Environment, Loop, CloseQueue, Arrive, Receive, Stop, vars

\* A worker returns its permit exactly once, for any number of permits.
THEOREM PermitAccounting == Spec => []PermitsConserved
<1>1. Init => PermitsConserved
  <2> SUFFICES ASSUME Init PROVE PermitsConserved
    OBVIOUS
  <2>1. {m \in Message : pc[m] \notin {"none", "finished"}} = {}
    BY DEF Init
  <2>2. Cardinality({m \in Message : pc[m] \notin {"none", "finished"}}) = 0
    BY <2>1, FS_EmptySet
  <2>3. permits = MaxInFlight /\ MaxInFlight \in Nat
    BY DispatchAssumption DEF Init
  <2> QED
    BY <2>2, <2>3 DEF PermitsConserved
<1>2. IInv /\ PermitsConserved /\ [Next]_vars => PermitsConserved'
  BY PermitStep
<1> QED
  BY <1>1, <1>2, Invariance, PTL DEF Spec

\* The state is well typed; that permits stay within the semaphore needs the
\* accounting above.
THEOREM TypeCorrect == Spec => []TypeOK
<1>1. IInv /\ PermitsConserved => TypeOK
  <2> SUFFICES ASSUME IInv, PermitsConserved PROVE TypeOK
    OBVIOUS
  <2>1. permits \in 0..MaxInFlight
    BY HoldersFinite, DispatchAssumption DEF IInv, TypeInv, PermitsConserved, Holders
  <2> QED
    BY <2>1 DEF IInv, TypeInv, TypeOK
<1> QED
  BY <1>1, Invariance, PermitAccounting, PTL

-----------------------------------------------------------------------------
(* Cancellation.                                                           *)

CancelInv ==
  \A m \in cancelled : Registered(m) /\ \E n \in Peers(m) : previous[n] = m /\ ticket[n] > ticket[m]

\* A token fires only for a worker of the same scope that registered later, however
\* many workers there are.  (active.insert, previous.cancellation.cancel)
THEOREM OnlySuccessorsCancel == Spec => []CancelledByASuccessor
<1>1. Init => CancelInv
  BY DEF Init, CancelInv
<1>2. IInv /\ CancelInv /\ [Next]_vars => CancelInv'
  <2> SUFFICES ASSUME IInv, CancelInv, [Next]_vars PROVE CancelInv'
    OBVIOUS
  <2> USE DispatchAssumption
  <2>1. CASE UNCHANGED <<cancelled, previous, ticket>>
    BY <2>1 DEF CancelInv, Registered, Peers
  <2>2. ASSUME NEW m \in Message, CancelPrevious(m) PROVE CancelInv'
    <3>1. /\ m \in Interruptible /\ previous[m] \in Peers(m) /\ Registered(previous[m])
          /\ ticket[previous[m]] < ticket[m]
      BY <2>2 DEF CancelPrevious, Goto, Waiting, IInv, TypeInv, MapInv, PredecessorInv
    <3>2. m \in Peers(previous[m]) /\ ticket[m] > ticket[previous[m]]
      BY <3>1 DEF Peers, IInv, TypeInv
    <3> QED
      BY <2>2, <3>1, <3>2 DEF CancelPrevious, CancelInv, Registered, Peers, mapVars
  <2>3. ASSUME NEW m \in Message, Register(m) PROVE CancelInv'
    <3>1. ~Registered(m) /\ cancelled' = cancelled
      BY <2>3 DEF Register, Goto, signalVars, Unregistered, IInv, MapInv, TicketInv
    <3>2. \A n \in Message : n # m => ticket'[n] = ticket[n] /\ previous'[n] = previous[n]
      BY <2>3 DEF Register, IInv, TypeInv
    <3> SUFFICES ASSUME NEW c \in cancelled
                 PROVE  ticket'[c] # 0 /\ \E n \in Peers(c) : previous'[n] = c /\ ticket'[n] > ticket'[c]
      BY <3>1 DEF CancelInv, Registered, Peers
    <3>3. PICK n \in Peers(c) : previous[n] = c /\ ticket[n] > ticket[c]
      BY DEF CancelInv
    <3>4. c # m /\ c \in Message /\ Registered(c) /\ n \in Message
      BY <3>1 DEF CancelInv, IInv, TypeInv, Peers
    <3>5. n # m
      BY <3>1, <3>3, <3>4 DEF Registered, IInv, TypeInv
    <3> QED
      BY <3>2, <3>3, <3>4, <3>5 DEF Registered
  <2> QED
    BY <2>1, <2>2, <2>3
    DEF Next, Environment, CloseQueue, Arrive, Loop, Receive, SpawnWorker, Stop, Worker, TakeTaskId,
        CheckDone, Subscribe, EnterProcess, HandledEarly, RecordUserTurn, EndTurn,
        Unregister, StoreDone, NotifyWaiters, vars, mapVars, signalVars
<1>3. CancelInv => CancelledByASuccessor
  BY DEF CancelInv, CancelledByASuccessor
<1> QED
  BY <1>1, <1>2, <1>3, Invariance, PTL DEF Spec

-----------------------------------------------------------------------------
(* The dispatcher implements the abstract turns.                           *)

\* A step that moves one worker moves its turn and no other.
LEMMA TurnMove ==
  ASSUME TypeInv, NEW m \in Message, NEW x \in WorkerPC,
         pc' = [pc EXCEPT ![m] = x]
  PROVE  turns' = [turns EXCEPT ![m] =
              IF x \in {"preamble", "turn"} THEN "running"
              ELSE IF x \in {"leaving", "store", "notify", "finished"} THEN "over"
              ELSE "waiting"]
BY DEF TypeInv, turns, TurnOf, Processing, Past

\* Every step of the dispatcher is a step of SerialTurns or leaves the turns
\* as they are, so SerialTurns holds of the dispatcher for all constants.
THEOREM DispatchImplementsSerialTurns == Spec => ImplementsSerialTurns
<1>1. Init => Turns!Init
  BY DEF Init, Turns!Init, turns, TurnOf, Processing, Past
<1>2. IInv /\ IInv' /\ [Next]_vars => [Turns!Next]_turns
  <2> SUFFICES ASSUME IInv, IInv', [Next]_vars PROVE Turns!Next \/ UNCHANGED turns
    OBVIOUS
  <2> USE DispatchAssumption DEF WorkerPC
  <2>1. CASE UNCHANGED pc
    BY <2>1 DEF turns, TurnOf, Processing, Past
  <2>2. CASE SpawnWorker
    <3>1. held \in Message /\ pc[held] = "none" /\ pc' = [pc EXCEPT ![held] = "spawned"]
      BY <2>2 DEF SpawnWorker, IInv, TypeInv, QueueInv
    <3>2. UNCHANGED turns
      BY <3>1 DEF IInv, TypeInv, turns, TurnOf, Processing, Past
    <3> QED
      BY <3>2
  <2>3. ASSUME NEW m \in Message,
               \/ TakeTaskId(m) \/ Register(m) \/ CancelPrevious(m) \/ CheckDone(m)
               \/ Subscribe(m) \/ RecordUserTurn(m) \/ Unregister(m) \/ StoreDone(m)
               \/ NotifyWaiters(m)
        PROVE  UNCHANGED turns
    <3> USE DEF IInv, TypeInv, Goto
    <3> SUFFICES \A n \in Message : (Processing(n)' <=> Processing(n)) /\ (Past(n)' <=> Past(n))
      BY DEF turns, TurnOf
    <3>1. CASE TakeTaskId(m) BY <3>1 DEF TakeTaskId, Processing, Past
    <3>2. CASE Register(m) BY <3>2 DEF Register, Processing, Past
    <3>3. CASE CancelPrevious(m) BY <3>3 DEF CancelPrevious, Processing, Past
    <3>4. CASE CheckDone(m) BY <3>4 DEF CheckDone, Processing, Past
    <3>5. CASE Subscribe(m) BY <3>5 DEF Subscribe, Processing, Past
    <3>6. CASE RecordUserTurn(m) BY <3>6 DEF RecordUserTurn, Processing, Past
    <3>7. CASE Unregister(m) BY <3>7 DEF Unregister, Processing, Past
    <3>8. CASE StoreDone(m) BY <3>8 DEF StoreDone, Processing, Past
    <3>9. CASE NotifyWaiters(m)
      <4>1. \A n \in Message : \/ n = m /\ pc[n] = "notify" /\ pc'[n] = "finished"
                               \/ pc[n] = "parked" /\ pc'[n] = "enter"
                               \/ pc'[n] = pc[n]
        BY <3>9 DEF NotifyWaiters, Waiters
      <4> QED
        BY <4>1 DEF Processing, Past
    <3> QED
      BY <2>3, <3>1, <3>2, <3>3, <3>4, <3>5, <3>6, <3>7, <3>8, <3>9
  <2>4. ASSUME NEW m \in Message, HandledEarly(m) \/ EndTurn(m) PROVE Turns!Next
    <3>1. Processing(m) /\ pc' = [pc EXCEPT ![m] = "leaving"]
      BY <2>4 DEF HandledEarly, EndTurn, Goto, Processing
    <3>2. turns[m] = "running" /\ turns' = [turns EXCEPT ![m] = "over"]
      BY <3>1, TurnMove DEF IInv, turns, TurnOf, WorkerPC
    <3> QED
      BY <3>2 DEF Turns!Next, Turns!End
  <2>5. ASSUME NEW m \in Message, EnterProcess(m) PROVE Turns!Next
    <3>1. pc[m] = "enter" /\ turns[m] = "waiting"
      BY <2>5 DEF EnterProcess, Goto, turns, TurnOf, Processing, Past
    <3>2. CASE pc' = [pc EXCEPT ![m] = "leaving"]
      <4>1. turns' = [turns EXCEPT ![m] = "over"]
        BY <3>2, TurnMove DEF IInv
      <4> QED
        BY <3>1, <4>1 DEF Turns!Next, Turns!Skip
    <3>3. CASE pc' = [pc EXCEPT ![m] = "preamble"]
      <4>1. turns' = [turns EXCEPT ![m] = "running"]
        BY <3>3, TurnMove DEF IInv
      <4>2. ASSUME NEW n \in Turns!Rivals(m) PROVE turns[n] # "running"
        <5>1. n \in Interruptible /\ m \in Interruptible /\ n # m /\ ScopeOf[n] = ScopeOf[m]
          BY <4>2 DEF Turns!Rivals
        <5>2. n \in Message /\ Registered(m) /\ ~Waiting(m) /\ ~Ended(m)
          BY <3>1, <5>1 DEF IInv, MapInv, TicketInv, Unregistered, Waiting, Ended
        <5>3. SUFFICES ASSUME Processing(n) PROVE FALSE
          BY <5>2 DEF turns, TurnOf
        <5>4. Registered(n) /\ ~Waiting(n) /\ ~Ended(n)
          BY <5>1, <5>2, <5>3
          DEF Processing, IInv, MapInv, TicketInv, Unregistered, Waiting, Ended
        <5>5. ticket[m] < ticket[n] \/ ticket[n] < ticket[m]
          BY <5>1, <5>2, <5>4 DEF IInv, TypeInv, MapInv, TicketInv
        <5> QED
          BY <5>1, <5>2, <5>4, <5>5 DEF IInv, MapInv, OrderInv
      <4> QED
        BY <3>1, <4>1, <4>2 DEF Turns!Next, Turns!Begin
    <3> QED
      BY <2>5, <3>2, <3>3 DEF EnterProcess, Goto
  <2> QED
    BY <2>1, <2>2, <2>3, <2>4, <2>5
    DEF Next, Environment, CloseQueue, Arrive, Loop, Receive, Stop, Worker, vars
<1> QED
  BY <1>1, <1>2, Invariance, PTL DEF Spec, ImplementsSerialTurns, Turns!Spec

-----------------------------------------------------------------------------
(* What workers wait for.                                                  *)

\* A message that was received is held by the loop or has a worker.
ReceivedInv == \A i \in 1..taken : held = arrived[i] \/ pc[arrived[i]] # "none"

LEMMA ReceivedInvariance == Spec => []ReceivedInv
<1>1. Init => ReceivedInv
  BY DEF Init, ReceivedInv
<1>2. IInv /\ ReceivedInv /\ [Next]_vars => ReceivedInv'
  <2> SUFFICES ASSUME IInv, ReceivedInv, [Next]_vars PROVE ReceivedInv'
    OBVIOUS
  <2> USE DispatchAssumption
  <2>1. \A i \in 1..taken : i \in 1..Len(arrived) /\ arrived[i] \in Message
    BY DEF IInv, TypeInv
  <2>2. CASE UNCHANGED <<taken, held, arrived, pc>>
    BY <2>2 DEF ReceivedInv
  <2>3. ASSUME NEW m \in Message, Arrive(m) PROVE ReceivedInv'
    <3>1. \A i \in 1..taken : arrived'[i] = arrived[i]
      BY <2>1, <2>3 DEF Arrive, IInv, TypeInv
    <3> QED
      BY <2>3, <3>1 DEF Arrive, ReceivedInv
  <2>4. CASE Receive
    <3>1. \A i \in 1..taken : pc[arrived[i]] # "none"
      BY <2>1, <2>4 DEF Receive, ReceivedInv
    <3> QED
      BY <2>4, <3>1 DEF Receive, ReceivedInv, IInv, TypeInv
  <2>5. CASE SpawnWorker
    BY <2>1, <2>5 DEF SpawnWorker, ReceivedInv, IInv, TypeInv
  <2>6. ASSUME NEW m \in Message, Worker(m) PROVE ReceivedInv'
    <3>1. UNCHANGED <<open, arrived, taken, held, stopped>>
      BY <2>6, WorkerFrame DEF IInv, loopVars
    <3>2. \A n \in Message : pc'[n] = "none" <=> pc[n] = "none"
      BY <2>6, WorkerFrame DEF IInv
    <3> QED
      BY <2>1, <3>1, <3>2 DEF ReceivedInv
  <2> QED
    BY <2>2, <2>3, <2>4, <2>5, <2>6 DEF Next, Environment, CloseQueue, Loop, Stop, vars, loopVars
<1> QED
  BY <1>1, <1>2, Invariance, PTL DEF Spec

\* The flag of a worker is stored before it notifies.
FlagInv == \A m \in Message : pc[m] \in {"notify", "finished"} => m \in done

LEMMA FlagInvariance == Spec => []FlagInv
<1>1. Init => FlagInv
  BY DEF Init, FlagInv
<1>2. IInv /\ FlagInv /\ [Next]_vars => FlagInv'
  <2> SUFFICES ASSUME IInv, FlagInv, [Next]_vars PROVE FlagInv'
    OBVIOUS
  <2>1. CASE UNCHANGED <<pc, done>>
    BY <2>1 DEF FlagInv
  <2>2. CASE SpawnWorker
    BY <2>2 DEF SpawnWorker, FlagInv, signalVars, IInv, TypeInv
  <2>3. ASSUME NEW m \in Message, StoreDone(m) PROVE FlagInv'
    BY <2>3 DEF StoreDone, FlagStored, Goto, FlagInv, IInv, TypeInv
  <2>4. ASSUME NEW m \in Message, NotifyWaiters(m) PROVE FlagInv'
    BY <2>4 DEF NotifyWaiters, FlagInv, signalVars, IInv, TypeInv
  <2>5. ASSUME NEW m \in Message, Worker(m), ~StoreDone(m), ~NotifyWaiters(m)
        PROVE  FlagInv'
    BY <2>5 DEF Worker, TakeTaskId, Register, CancelPrevious, CheckDone, Subscribe, EnterProcess,
       HandledEarly, RecordUserTurn, EndTurn, Unregister, Goto, FlagInv, signalVars, IInv, TypeInv
  <2> QED
    BY <2>1, <2>2, <2>3, <2>4, <2>5
    DEF Next, Environment, CloseQueue, Arrive, Loop, Receive, Stop, vars, signalVars
<1> QED
  BY <1>1, <1>2, Invariance, PTL DEF Spec

\* Among some messages there is one whose ticket no other is below.
LEMMA FirstTicket ==
  ASSUME TypeInv, NEW S \in SUBSET Message, S # {}
  PROVE  \E m \in S : \A n \in S : ~(ticket[n] < ticket[m])
<1> DEFINE Before(m) == {n \in S : ticket[n] < ticket[m]}
           Sets == {Before(m) : m \in S}
           R == StrictSubsetOrdering(S)
<1>1. IsFiniteSet(S) /\ \A m \in S : ticket[m] \in Nat
  BY MessagesFinite, FS_Subset DEF TypeInv
<1>2. IsWellFoundedOn(R, FiniteSubsetsOf(S))
  BY <1>1, FS_StrictSubsetOrderingWellFounded
<1>3. Sets \subseteq FiniteSubsetsOf(S) /\ Sets # {}
  <2>1. \A T \in SUBSET S : T \in FiniteSubsetsOf(S)
    BY <1>1, FS_Subset DEF FiniteSubsetsOf
  <2>2. \A m \in S : Before(m) \in SUBSET S
    OBVIOUS
  <2> QED
    BY <2>1, <2>2
<1>4. PICK U \in Sets : \A V \in Sets : ~(<<V, U>> \in R)
  BY <1>2, <1>3, WFMin
<1>5. PICK m \in S : U = Before(m)
  OBVIOUS
<1>6. ASSUME NEW n \in S, ticket[n] < ticket[m]
      PROVE  FALSE
  <2>1. \A k \in S : ticket[k] < ticket[n] => ticket[k] < ticket[m]
    BY <1>1, <1>6
  <2>2. ~(ticket[n] < ticket[n])
    BY <1>1
  <2>3. Before(n) \subseteq Before(m) /\ n \in Before(m) /\ n \notin Before(n)
    BY <1>6, <2>1, <2>2
  <2>4. <<Before(n), Before(m)>> \in R
    BY <2>3 DEF StrictSubsetOrdering
  <2> QED
    BY <1>4, <1>5, <2>4
<1> QED
  BY <1>6

\* A worker has a step to take: only a parked one waits for another.
Ready(m) == pc[m] \notin {"none", "parked", "finished"}

\* If every worker under way is parked, one of them missed its wakeup: the one
\* with the least ticket waits for a worker that has ended.
LEMMA ParkedForAnother ==
  ASSUME IInv, FlagInv, Holders # {}, \A m \in Message : ~Ready(m)
  PROVE  \E m \in Message : Stranded(m)
<1>1. Holders \in SUBSET Message /\ \A m \in Holders : pc[m] = "parked"
  BY DEF Holders, Ready
<1>2. PICK m \in Holders : \A n \in Holders : ~(ticket[n] < ticket[m])
  BY <1>1, FirstTicket DEF IInv
<1>3. /\ m \in Message /\ pc[m] = "parked" /\ previous[m] \in Message
      /\ Registered(previous[m]) /\ ticket[previous[m]] < ticket[m]
  BY <1>1 DEF IInv, TypeInv, MapInv, PredecessorInv, Waiting
<1>4. pc[previous[m]] # "none" /\ previous[m] \notin Holders
  BY <1>2, <1>3 DEF IInv, MapInv, TicketInv, Unregistered
<1>5. pc[previous[m]] = "finished"
  BY <1>3, <1>4 DEF Holders
<1>6. previous[m] \in done
  BY <1>3, <1>5 DEF FlagInv
<1> QED
  BY <1>3, <1>5, <1>6 DEF Stranded

\* While a message that was handed over is not finished, the loop or a worker
\* has a step to take, or a wakeup was missed.
SomethingMoves ==
  (\E i \in 1..Len(arrived) : pc[arrived[i]] # "finished") =>
    \/ held = NoMessage /\ taken < Len(arrived)
    \/ held # NoMessage /\ CanAcquire
    \/ \E m \in Message : Ready(m)
    \/ \E m \in Message : Stranded(m)

\* The waiting of workers for each other never closes a circle, nor do the permits
\* that they hold meanwhile: for any number of messages and permits, what stops
\* the dispatcher is a missed wakeup.  (run_message_dispatch_loop, wait, mark_done)
THEOREM OnlyAMissedWakeupStops == Spec => []SomethingMoves
<1>1. IInv /\ ReceivedInv /\ FlagInv /\ PermitsConserved => SomethingMoves
  <2> SUFFICES ASSUME IInv, ReceivedInv, FlagInv, PermitsConserved,
                      NEW i \in 1..Len(arrived), pc[arrived[i]] # "finished",
                      ~(held = NoMessage /\ taken < Len(arrived)),
                      ~(held # NoMessage /\ CanAcquire)
               PROVE  \/ \E m \in Message : Ready(m)
                      \/ \E m \in Message : Stranded(m)
    BY DEF SomethingMoves
  <2>1. Holders # {}
    <3>1. CASE held # NoMessage
      <4>1. permits = 0
        BY <3>1 DEF CanAcquire, IInv, TypeInv
      <4>2. Cardinality(Holders) # 0
        BY <4>1, HoldersFinite, DispatchAssumption DEF PermitsConserved, Holders
      <4> QED
        BY <4>2, FS_EmptySet
    <3>2. CASE held = NoMessage
      <4>1. i \in 1..taken
        BY <3>2 DEF IInv, TypeInv
      <4>2. arrived[i] \in Message /\ pc[arrived[i]] # "none"
        BY <3>2, <4>1, DispatchAssumption DEF IInv, TypeInv, ReceivedInv
      <4> QED
        BY <4>2 DEF Holders
    <3> QED
      BY <3>1, <3>2
  <2> QED
    BY <2>1, ParkedForAnother
<1> QED
  BY <1>1, Invariance, ReceivedInvariance, FlagInvariance, PermitAccounting, PTL

=============================================================================
