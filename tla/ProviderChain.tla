--------------------------- MODULE ProviderChain ---------------------------
(***************************************************************************)
(* Failover between providers: the loops of ReliableProvider               *)
(* (providers/reliable.rs) and the circuit breaker that each provider has  *)
(* (providers/circuit_breaker.rs).                                         *)
(*                                                                         *)
(* Requests run side by side and share the breakers, whose two cells are   *)
(* atomics: is_open loads one after the other and record_failure adds to   *)
(* one and then stores the other.  Each access is a step, in program       *)
(* order.  The count of failures matters up to the threshold only, and a   *)
(* stamp up to the cooldown, so that the stamp is kept as its age.  What   *)
(* providers are asked and say, backoff and key rotation are left out.     *)
(***************************************************************************)
EXTENDS Naturals, Sequences

CONSTANTS
  Caller,      \* who makes requests, one after the other
  Provider,
  Chain,       \* the (model, provider) pairs in the order they are tried:
               \* [provider, names]: names models are sent to it in turn
  MaxRetries,
  Threshold, Cooldown

ASSUME ProviderAssumption ==
  /\ Chain \in Seq([provider : Provider, names : Nat \ {0}])
  /\ MaxRetries \in Nat /\ Threshold \in Nat /\ Cooldown \in Nat

VARIABLES
  failures,    \* consecutive_failures, at most Threshold
  age,         \* ticks since last_failure_epoch_ms, at most Cooldown
  up,          \* environment: whether a provider answers
  phase,       \* where a request is
  slot, name, attempt,  \* the loop variables
  reset        \* auxiliary: a success was recorded since the check began

providerVars == <<failures, age, up, phase, slot, name, attempt, reset>>

loops == <<slot, name, attempt>>
breaker == <<failures, age>>

Phase == {"idle", "checking", "comparing", "calling", "retrying", "counting", "stamping"}

ProviderTypeOK ==
  /\ failures \in [Provider -> 0..Threshold] /\ age \in [Provider -> 0..Cooldown]
  /\ up \in [Provider -> BOOLEAN]
  /\ phase \in [Caller -> Phase]
  /\ slot \in [Caller -> 0..Len(Chain)]
  /\ name \in [Caller -> Nat] /\ attempt \in [Caller -> 0..MaxRetries]
  /\ reset \in [Caller -> BOOLEAN]
  /\ \A c \in Caller : phase[c] # "idle" => slot[c] # 0 /\ name[c] \in 1..Chain[slot[c]].names

ProviderInit ==
  /\ failures = [p \in Provider |-> 0] /\ age = [p \in Provider |-> Cooldown]
  /\ up = [p \in Provider |-> TRUE]
  /\ phase = [c \in Caller |-> "idle"]
  /\ slot = [c \in Caller |-> 0] /\ name = [c \in Caller |-> 0]
  /\ attempt = [c \in Caller |-> 0]
  /\ reset = [c \in Caller |-> FALSE]

At(c) == Chain[slot[c]].provider
To(c, ph) == phase' = [phase EXCEPT ![c] = ph]
Least(a, b) == IF a <= b THEN a ELSE b

-----------------------------------------------------------------------------
(* The environment.                                                        *)

Elapse ==
  /\ age' = [p \in Provider |-> Least(age[p] + 1, Cooldown)]
  /\ UNCHANGED <<failures, up, phase, loops, reset>>

Turn(p) ==
  /\ up' = [up EXCEPT ![p] = ~up[p]]
  /\ UNCHANGED <<breaker, phase, loops, reset>>

-----------------------------------------------------------------------------
(* The loops.                                                              *)

\* Entry i of the chain, or the end of the request.
Visit(c, i) ==
  \/ /\ i > Len(Chain)
     /\ To(c, "idle")
     /\ slot' = [slot EXCEPT ![c] = 0] /\ name' = [name EXCEPT ![c] = 0]
  \/ /\ i <= Len(Chain)
     /\ To(c, "checking")
     /\ slot' = [slot EXCEPT ![c] = i] /\ name' = [name EXCEPT ![c] = 1]

Enter(c, i) ==
  /\ Visit(c, i)
  /\ attempt' = [attempt EXCEPT ![c] = 0]
  /\ reset' = [reset EXCEPT ![c] = FALSE]

Request(c) ==
  /\ phase[c] = "idle"
  /\ Enter(c, 1)
  /\ UNCHANGED <<breaker, up>>

\* is_open: the first load finds the circuit closed ...
SeesClosed(c) ==
  /\ phase[c] = "checking"
  /\ Threshold = 0 \/ failures[At(c)] < Threshold
  /\ To(c, "calling")
  /\ UNCHANGED <<breaker, up, loops, reset>>

SeesTripped(c) ==
  /\ phase[c] = "checking" /\ Threshold > 0 /\ failures[At(c)] = Threshold
  /\ To(c, "comparing")
  /\ UNCHANGED <<breaker, up, loops, reset>>

\* ... or the second the cooldown over: half open.
SeesHalfOpen(c) ==
  /\ phase[c] = "comparing" /\ age[At(c)] = Cooldown
  /\ To(c, "calling")
  /\ UNCHANGED <<breaker, up, loops, reset>>

\* Fault: the age is not looked at.
SkipAlways(c) ==
  /\ phase[c] = "comparing"
  /\ Enter(c, slot[c] + 1)
  /\ UNCHANGED <<breaker, up>>

\* Fault: the same entry is checked again.
SkipNothing(c) ==
  /\ phase[c] = "comparing" /\ age[At(c)] < Cooldown
  /\ Enter(c, slot[c])
  /\ UNCHANGED <<breaker, up>>

Skip(c) ==
  /\ phase[c] = "comparing" /\ age[At(c)] < Cooldown
  /\ Enter(c, slot[c] + 1)
  /\ UNCHANGED <<breaker, up>>

\* Fault: the circuit stays as it is.
SucceedUnrecorded(c) ==
  /\ phase[c] = "calling" /\ up[At(c)]
  /\ Enter(c, Len(Chain) + 1)
  /\ UNCHANGED <<breaker, up>>

\* The provider answers; record_success closes the circuit, the request is over.
Succeed(c) ==
  /\ phase[c] = "calling" /\ up[At(c)]
  /\ failures' = [failures EXCEPT ![At(c)] = 0]
  /\ Visit(c, Len(Chain) + 1)
  /\ attempt' = [attempt EXCEPT ![c] = 0]
  /\ reset' = [d \in Caller |->
                 d # c /\ (reset[d] \/ (phase[d] # "idle" /\ At(d) = At(c)))]
  /\ UNCHANGED <<age, up>>

\* The request is longer than the model's context: no other is tried.
ContextExceeded(c) ==
  /\ phase[c] = "calling"
  /\ Enter(c, Len(Chain) + 1)
  /\ UNCHANGED <<breaker, up>>

\* An error that is worth another attempt, while there are any left.
Retry(c) ==
  /\ phase[c] = "calling" /\ ~up[At(c)] /\ attempt[c] < MaxRetries
  /\ attempt' = [attempt EXCEPT ![c] = @ + 1]
  /\ UNCHANGED <<breaker, up, phase, slot, name, reset>>

\* No attempt is left, or the error is not worth one.
Exhaust(c) ==
  /\ phase[c] = "calling" /\ ~up[At(c)]
  /\ To(c, "counting")
  /\ UNCHANGED <<breaker, up, loops, reset>>

\* record_failure
Count(c) ==
  /\ phase[c] = "counting"
  /\ failures' = [failures EXCEPT ![At(c)] = Least(@ + 1, Threshold)]
  /\ To(c, "stamping")
  /\ UNCHANGED <<age, up, loops, reset>>

\* The next model for this provider, or the next entry, which is checked.
Stamp(c) ==
  /\ phase[c] = "stamping"
  /\ age' = [age EXCEPT ![At(c)] = 0]
  /\ \/ /\ name[c] < Chain[slot[c]].names
        /\ name' = [name EXCEPT ![c] = @ + 1]
        /\ attempt' = [attempt EXCEPT ![c] = 0]
        /\ To(c, "calling")
        /\ UNCHANGED <<slot, reset>>
     \/ name[c] = Chain[slot[c]].names /\ Enter(c, slot[c] + 1)
  /\ UNCHANGED <<failures, up>>

CallerStep(c) ==
  \/ SeesClosed(c) \/ SeesTripped(c) \/ SeesHalfOpen(c) \/ Skip(c)
  \/ Succeed(c) \/ ContextExceeded(c) \/ Retry(c) \/ Exhaust(c) \/ Count(c) \/ Stamp(c)

ProviderNext ==
  \/ Elapse \/ \E p \in Provider : Turn(p)
  \/ \E c \in Caller : Request(c) \/ CallerStep(c)

\* Time passes and every call ends; SF on Succeed, not every request that is about
\* to be answered is too long.
ProviderFairness ==
  /\ WF_providerVars(Elapse)
  /\ \A c \in Caller : WF_providerVars(CallerStep(c)) /\ SF_providerVars(Succeed(c))

\* With requests that keep coming.
ProviderSpec ==
  /\ ProviderInit /\ [][ProviderNext]_providerVars /\ ProviderFairness
  /\ \A c \in Caller : WF_providerVars(Request(c))

-----------------------------------------------------------------------------
(* Properties.                                                             *)

Tripped(p) == Threshold > 0 /\ failures[p] = Threshold /\ age[p] < Cooldown

\* The answer "open" is not torn: whoever skips a provider skips one whose
\* circuit is open at that moment, unless a success was recorded between the two
\* loads.
SkipsOnlyTripped ==
  [][\A c \in Caller :
       phase[c] = "comparing" /\ ~reset[c] /\ phase'[c] # phase[c] /\ phase'[c] # "calling"
         => Tripped(At(c))]_providerVars

\* No request is stuck: it is answered, or every provider was tried or skipped.
RequestsEnd == \A c \in Caller : phase[c] # "idle" ~> phase[c] = "idle"

\* A first provider that works again for good is used again for good, however many
\* failures were on their way when it came back.
FirstRecovers == <>[]up[Chain[1].provider] => <>[](failures[Chain[1].provider] < Threshold)

=============================================================================
