-------------------------- MODULE ChannelDispatch --------------------------
(***************************************************************************)
(* The dispatch loop of the channel runtime: run_message_dispatch_loop in  *)
(* channels/dispatch.rs, with the in-flight map, the cancellation tokens   *)
(* and the completion flag of channels/context.rs.                         *)
(*                                                                         *)
(* One receiver takes messages from an mpsc queue, waits for a semaphore   *)
(* permit and spawns one worker per message.  When interruption is on, a   *)
(* worker registers itself in a map keyed by (channel, chat, sender),      *)
(* cancels the worker it displaced, and waits for that worker's completion *)
(* before it processes its own message.  The runtime is multi-threaded:    *)
(* the steps of different workers interleave freely.                       *)
(***************************************************************************)
EXTENDS Naturals, Sequences, FiniteSets

CONSTANTS
  Message,        \* inbound channel messages, each with one worker
  Scope,          \* interruption scopes: channel, reply target and sender
  ScopeOf,        \* interruption_scope_key of a message
  Interruptible,  \* telegram messages while interrupt_on_new_message is set
  MaxInFlight,    \* permits of the semaphore
  NoMessage       \* "no entry", "nothing held"

ASSUME DispatchAssumption ==
  /\ ScopeOf \in [Message -> Scope]
  /\ Interruptible \subseteq Message
  /\ MaxInFlight \in Nat \ {0}
  /\ NoMessage \notin Message

\* Only finitely many messages reach one run of the program; the count of the
\* workers that hold a permit needs it.
ASSUME MessagesFinite == IsFiniteSet(Message)

VARIABLES
  open,       \* some channel listener still holds a sender of the queue
  arrived,    \* messages in the order the listeners sent them
  taken,      \* how many of them rx.recv() has returned
  held,       \* the message whose permit the loop is waiting for
  stopped,    \* run_message_dispatch_loop has returned
  permits,    \* free permits
  pc,         \* where the worker of a message is
  taskId,     \* task_id of a worker, 0 before it takes one
  nextId,     \* task_sequence
  current,    \* in_flight_by_sender
  previous,   \* the state a worker displaced from the map
  cancelled,  \* workers whose cancellation token has fired
  done,       \* workers whose completion flag is stored
  recorded,   \* messages whose user turn is in the conversation
  exit,       \* how process_channel_message ended
  ticket,     \* auxiliary: order of the insertions into the map, 0 for none
  tickets     \* auxiliary: insertions so far

loopVars   == <<open, arrived, taken, held, stopped>>
mapVars    == <<taskId, nextId, current, previous, ticket, tickets>>
signalVars == <<cancelled, done>>
turnVars   == <<recorded, exit>>
vars == <<loopVars, permits, pc, mapVars, signalVars, turnVars>>

NewId == 1   \* task_sequence starts at 1

WorkerPC == {"none", "spawned", "numbered", "displaced", "check", "subscribe",
             "parked", "enter", "preamble", "turn", "leaving", "store",
             "notify", "finished"}

Exit == {"none", "skipped", "handled", "interrupted", "concluded"}

\* A worker that has been inserted into the map.
Registered(m) == ticket[m] # 0

\* The part of a worker's life inside process_channel_message.
Processing(m) == pc[m] \in {"preamble", "turn"}

\* process_channel_message has returned.
Past(m) == pc[m] \in {"leaving", "store", "notify", "finished"}

Peers(m) == {n \in Interruptible : ScopeOf[n] = ScopeOf[m]}

TypeOK ==
  /\ open \in BOOLEAN /\ stopped \in BOOLEAN
  /\ arrived \in Seq(Message) /\ taken \in 0..Len(arrived)
  /\ held \in Message \cup {NoMessage}
  /\ permits \in 0..MaxInFlight
  /\ pc \in [Message -> WorkerPC]
  /\ taskId \in [Message -> Nat] /\ nextId \in Nat \ {0}
  /\ current \in [Scope -> Message \cup {NoMessage}]
  /\ previous \in [Message -> Message \cup {NoMessage}]
  /\ cancelled \subseteq Message /\ done \subseteq Message
  /\ recorded \subseteq Message
  /\ exit \in [Message -> Exit]
  /\ ticket \in [Message -> Nat] /\ tickets \in Nat

Init ==
  /\ open = TRUE /\ stopped = FALSE
  /\ arrived = <<>> /\ taken = 0 /\ held = NoMessage
  /\ permits = MaxInFlight
  /\ pc = [m \in Message |-> "none"]
  /\ taskId = [m \in Message |-> 0] /\ nextId = NewId
  /\ current = [s \in Scope |-> NoMessage]
  /\ previous = [m \in Message |-> NoMessage]
  /\ cancelled = {} /\ done = {}
  /\ recorded = {}
  /\ exit = [m \in Message |-> "none"]
  /\ ticket = [m \in Message |-> 0] /\ tickets = 0

-----------------------------------------------------------------------------
(* The listeners and the dispatch loop.                                    *)

Arrive(m) ==
  /\ open
  /\ \A i \in 1..Len(arrived) : arrived[i] # m
  /\ arrived' = Append(arrived, m)
  /\ UNCHANGED <<open, taken, held, stopped, permits, pc, mapVars, signalVars, turnVars>>

CloseQueue ==
  /\ open
  /\ open' = FALSE
  /\ UNCHANGED <<arrived, taken, held, stopped, permits, pc, mapVars, signalVars, turnVars>>

Receive ==
  /\ held = NoMessage /\ taken < Len(arrived)
  /\ held' = arrived[taken + 1]
  /\ taken' = taken + 1
  /\ UNCHANGED <<open, arrived, stopped, permits, pc, mapVars, signalVars, turnVars>>

CanAcquire == permits > 0

SpawnWorker ==
  /\ held # NoMessage /\ CanAcquire
  /\ permits' = permits - 1
  /\ pc' = [pc EXCEPT ![held] = "spawned"]
  /\ held' = NoMessage
  /\ UNCHANGED <<open, arrived, taken, stopped, mapVars, signalVars, turnVars>>

\* rx.recv() returns None once the queue is closed and empty; the loop then
\* joins every worker it spawned before it returns.
Stop ==
  /\ ~open /\ ~stopped
  /\ held = NoMessage /\ taken = Len(arrived)
  /\ \A m \in Message : pc[m] \in {"none", "finished"}
  /\ stopped' = TRUE
  /\ UNCHANGED <<open, arrived, taken, held, permits, pc, mapVars, signalVars, turnVars>>

-----------------------------------------------------------------------------
(* A worker, from its spawn to the call of process_channel_message.        *)

Goto(m, from, to) == pc[m] = from /\ pc' = [pc EXCEPT ![m] = to]

TakeTaskId(m) ==
  /\ Goto(m, "spawned", IF m \in Interruptible THEN "numbered" ELSE "enter")
  /\ taskId' = [taskId EXCEPT ![m] = nextId]
  /\ nextId' = nextId + 1
  /\ UNCHANGED <<loopVars, permits, current, previous, ticket, tickets, signalVars, turnVars>>

ScopeKey(m) == ScopeOf[m]

\* active.insert(..) under the map's lock: the entry it replaces, if any, is
\* the worker to interrupt.
Register(m) ==
  LET displacedWorker == current[ScopeKey(m)] IN
  /\ Goto(m, "numbered", IF displacedWorker = NoMessage THEN "enter" ELSE "displaced")
  /\ current' = [current EXCEPT ![ScopeKey(m)] = m]
  /\ previous' = [previous EXCEPT ![m] = displacedWorker]
  /\ tickets' = tickets + 1
  /\ ticket' = [ticket EXCEPT ![m] = tickets + 1]
  /\ UNCHANGED <<loopVars, permits, taskId, nextId, signalVars, turnVars>>

\* Fault: a worker cancels its own token.
CancelsItself(m) ==
  /\ Goto(m, "displaced", "check")
  /\ cancelled' = cancelled \cup {m}
  /\ UNCHANGED <<loopVars, permits, mapVars, done, turnVars>>

CancelPrevious(m) ==
  /\ Goto(m, "displaced", "check")
  /\ cancelled' = cancelled \cup {previous[m]}
  /\ UNCHANGED <<loopVars, permits, mapVars, done, turnVars>>

\* Fault: the displaced worker is cancelled but not waited for.
NeverWaits(m) == TRUE

AlreadyDone(m) == previous[m] \in done

\* wait(), first half: the load of the done flag.
CheckDone(m) ==
  /\ Goto(m, "check", IF AlreadyDone(m) THEN "enter" ELSE "subscribe")
  /\ UNCHANGED <<loopVars, permits, mapVars, signalVars, turnVars>>

\* wait(), second half: notify.notified() only sees notify_waiters() calls
\* made after it is created.
Subscribe(m) ==
  /\ Goto(m, "subscribe", "parked")
  /\ UNCHANGED <<loopVars, permits, mapVars, signalVars, turnVars>>

-----------------------------------------------------------------------------
(* process_channel_message, as far as the dispatcher can tell.             *)

\* The first thing it does is to return if the token has fired already.
EnterProcess(m) ==
  /\ \/ m \in cancelled /\ Goto(m, "enter", "leaving") /\ exit' = [exit EXCEPT ![m] = "skipped"]
     \/ m \notin cancelled /\ Goto(m, "enter", "preamble") /\ UNCHANGED exit
  /\ UNCHANGED <<loopVars, permits, mapVars, signalVars, recorded>>

\* A runtime command, a local reply, a guard or a hook ends the call early.
HandledEarly(m) ==
  /\ Goto(m, "preamble", "leaving")
  /\ exit' = [exit EXCEPT ![m] = "handled"]
  /\ UNCHANGED <<loopVars, permits, mapVars, signalVars, recorded>>

RecordUserTurn(m) ==
  /\ Goto(m, "preamble", "turn")
  /\ recorded' = recorded \cup {m}
  /\ UNCHANGED <<loopVars, permits, mapVars, signalVars, exit>>

\* select! of the token, the timeout and the tool loop: when several are
\* ready it picks any of them.
EndTurn(m) ==
  /\ Goto(m, "turn", "leaving")
  /\ \E how \in {"concluded", "interrupted"} :
       /\ how = "interrupted" => m \in cancelled
       /\ exit' = [exit EXCEPT ![m] = how]
  /\ UNCHANGED <<loopVars, permits, mapVars, signalVars, recorded>>

-----------------------------------------------------------------------------
(* A worker, after process_channel_message.                                *)

\* Fault: remove the scope's entry without comparing task ids.
OwnsAnyEntry(m) == current[ScopeKey(m)] # NoMessage

OwnsEntry(m) ==
  LET entry == current[ScopeKey(m)] IN entry # NoMessage /\ taskId[entry] = taskId[m]

Unregister(m) ==
  /\ Goto(m, "leaving", "store")
  /\ current' = IF m \in Interruptible /\ OwnsEntry(m)
                  THEN [current EXCEPT ![ScopeKey(m)] = NoMessage] ELSE current
  /\ UNCHANGED <<loopVars, permits, taskId, nextId, previous, ticket, tickets,
                 signalVars, turnVars>>

\* Fault: mark_done() only notifies.
FlagNotStored(m) == done

FlagStored(m) == done \cup {m}

\* mark_done(), first half.
StoreDone(m) ==
  /\ Goto(m, "store", "notify")
  /\ done' = FlagStored(m)
  /\ UNCHANGED <<loopVars, permits, mapVars, cancelled, turnVars>>

\* Fault: the permit is forgotten instead of dropped.
PermitForgotten == permits

PermitDropped == permits + 1

Waiters(m) == {w \in Message : pc[w] = "parked" /\ previous[w] = m}

\* mark_done(), second half, after which the worker ends and its permit is
\* dropped.
NotifyWaiters(m) ==
  /\ pc[m] = "notify"
  /\ pc' = [w \in Message |-> IF w = m THEN "finished"
                              ELSE IF w \in Waiters(m) THEN "enter" ELSE pc[w]]
  /\ permits' = PermitDropped
  /\ UNCHANGED <<loopVars, mapVars, signalVars, turnVars>>

-----------------------------------------------------------------------------
Worker(m) ==
  \/ TakeTaskId(m) \/ Register(m) \/ CancelPrevious(m)
  \/ CheckDone(m) \/ Subscribe(m)
  \/ EnterProcess(m) \/ HandledEarly(m) \/ RecordUserTurn(m) \/ EndTurn(m)
  \/ Unregister(m) \/ StoreDone(m) \/ NotifyWaiters(m)

Loop == Receive \/ SpawnWorker \/ Stop

Environment == CloseQueue \/ \E m \in Message : Arrive(m)

Next == Environment \/ Loop \/ \E m \in Message : Worker(m)

Spec == Init /\ [][Next]_vars

\* The runtime polls a ready task again and every turn ends (its tool loop
\* runs under a timeout), so the loop and the workers are weakly fair; the
\* listeners owe nothing.
DispatchFairness == WF_vars(Loop) /\ \A m \in Message : WF_vars(Worker(m))

FairSpec == Spec /\ DispatchFairness

-----------------------------------------------------------------------------
(* Properties.                                                             *)

\* Every permit is free or held by exactly one worker between its spawn and
\* its end: a worker neither leaks its permit nor returns it twice.
PermitsConserved ==
  permits + Cardinality({m \in Message : pc[m] \notin {"none", "finished"}}) = MaxInFlight

\* Two interruptible messages of one scope are never processed at the same
\* time, however their workers' registration, cancellation and completion
\* interleave.
OneTurnPerScope ==
  \A m, n \in Interruptible :
    m # n /\ ScopeOf[m] = ScopeOf[n] => ~(Processing(m) /\ Processing(n))

\* While a registered worker has not yet given up its entry, the map's entry
\* for its scope is the last worker that registered there: an older worker
\* that ends must not take away the entry of a newer one.
EntryIsNewest ==
  \A m \in Interruptible :
    Registered(m) /\ pc[m] \notin {"store", "notify", "finished"} =>
      LET entry == current[ScopeOf[m]] IN
      /\ entry # NoMessage
      /\ ticket[m] <= ticket[entry]

\* A token only fires because a worker of the same scope that registered later
\* displaced its owner: neither another chat nor a worker that registered before
\* interrupts a turn.  Workers register in the order they come to it, which need
\* not be that of their messages.
CancelledByASuccessor ==
  \A m \in cancelled : \E n \in Peers(m) : previous[n] = m /\ ticket[n] > ticket[m]

ArrivedAfter(n, m) ==
  \E i, k \in 1..Len(arrived) : arrived[i] = m /\ arrived[k] = n /\ i < k

\* config-reference.md: "a newer message from the same sender in the same chat
\* cancels the in-flight request", in the order the listener sent them.
CancelledByANewer ==
  \A m \in cancelled : \E n \in Peers(m) : previous[n] = m /\ ArrivedAfter(n, m)

\* A worker that waits for a completion signalled before it subscribed.
Stranded(m) == pc[m] = "parked" /\ previous[m] \in done /\ pc[previous[m]] = "finished"

NoWakeupMissed == [](\A m \in Message : ~Stranded(m))

\* A wakeup missed in the gap between wait()'s load of the done flag and its
\* creation of Notified is the only thing that can keep a message that the
\* listeners handed over from finishing: neither the chain of waiting workers
\* nor the permits they hold while they wait can block it.
OnlyAMissedWakeupBlocks ==
  NoWakeupMissed =>
    \A m \in Message : (\E i \in 1..Len(arrived) : arrived[i] = m) ~> pc[m] = "finished"

\* When the listeners are gone the loop drains the queue, joins its workers
\* and returns, unless a wakeup was missed.
LoopDrains == NoWakeupMissed => (~open ~> stopped)

\* channels-reference.md: interruption "preserves interrupted user turns in
\* conversation history".  A message whose token has fired before its worker calls
\* process_channel_message is dropped by the check at the entry instead.
InterruptedTurnPreserved ==
  \A m \in Message : exit[m] \in {"skipped", "interrupted"} => m \in recorded

\* channels-reference.md: interruption "restarts generation on the newest
\* message", so a message that displaced another is taken up in the end.
DisplacingMessageIsTakenUp ==
  \A m \in Message : (pc[m] = "displaced") ~> (Processing(m) \/ Past(m))

\* The dispatcher implements the abstract turns: workers that wait, register or
\* cancel stutter, and a turn only begins when no rival runs.
TurnOf(m) == IF Processing(m) THEN "running" ELSE IF Past(m) THEN "over" ELSE "waiting"

turns == [m \in Message |-> TurnOf(m)]

Turns == INSTANCE SerialTurns WITH turn <- turns

ImplementsSerialTurns == Turns!Spec

=============================================================================
