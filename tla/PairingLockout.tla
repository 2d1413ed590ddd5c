-------------------------- MODULE PairingLockout --------------------------
(***************************************************************************)
(* Brute-force protection of PairingGuard (security/pairing.rs): the map   *)
(* of failed attempts, which try_pair locks once to check a client and     *)
(* once more to count a failure.                                           *)
(*                                                                         *)
(* Attempts run side by side, and each measures time by the instant it     *)
(* read first.  What the code is and what a right one leads to is the      *)
(* subject of GatewayPairing.                                              *)
(***************************************************************************)
EXTENDS Naturals, FiniteSets

CONSTANTS
  Applicant,    \* keys of the clients that try to pair
  Attempt,      \* calls of try_pair, one after the other
  MaxPairAttempts, LockoutSecs, RetentionSecs,  \* the constants of pairing.rs
  MaxTrackedClients,
  MaxInstant    \* bound: the clock

Instant == 0..MaxInstant

ASSUME LockoutAssumption ==
  /\ {MaxPairAttempts, LockoutSecs, MaxTrackedClients} \subseteq Nat \ {0}
  /\ RetentionSecs \in Nat /\ LockoutSecs <= RetentionSecs /\ MaxInstant \in Nat
  /\ Applicant # {} /\ IsFiniteSet(Attempt)

VARIABLES
  instant,      \* the clock
  tries,        \* failed_attempts: how many, 0 for no entry
  until, last,  \* lockout_until, or 0; last_attempt
  stage,        \* where an attempt is
  who, measured \* its client, and the instant it read

lockoutVars == <<instant, tries, until, last, stage, who, measured>>

LockoutTypeOK ==
  /\ instant \in Instant
  /\ tries \in [Applicant -> Nat] /\ until \in [Applicant -> Nat]
  /\ last \in [Applicant -> Instant]
  /\ stage \in [Attempt -> {"idle", "presented", "checked"}]
  /\ who \in [Attempt -> Applicant] /\ measured \in [Attempt -> Instant]

LockoutInit ==
  /\ instant = 0
  /\ tries = [a \in Applicant |-> 0] /\ until = [a \in Applicant |-> 0]
  /\ last = [a \in Applicant |-> 0]
  /\ stage = [p \in Attempt |-> "idle"]
  /\ who = [p \in Attempt |-> CHOOSE a \in Applicant : TRUE] /\ measured = [p \in Attempt |-> 0]

failures == <<tries, until, last>>

Advance(p, there) == stage' = [stage EXCEPT ![p] = there]

TickLockout ==
  /\ instant < MaxInstant /\ instant' = instant + 1
  /\ UNCHANGED <<failures, stage, who, measured>>

Attempted == {a \in Applicant : tries[a] > 0}

\* prune_failed_attempts; duration_since is zero for an instant yet to come.
Retained(now) == {a \in Attempted : last[a] >= now \/ now - last[a] < RetentionSecs}

Forget(out) ==
  /\ tries' = [a \in Applicant |-> IF a \in out THEN 0 ELSE tries[a]]
  /\ until' = [a \in Applicant |-> IF a \in out THEN 0 ELSE until[a]]
  /\ UNCHANGED last

\* The attempt reads the clock.
Present(p) ==
  /\ stage[p] = "idle"
  /\ \E a \in Applicant : who' = [who EXCEPT ![p] = a]
  /\ measured' = [measured EXCEPT ![p] = instant]
  /\ Advance(p, "presented")
  /\ UNCHANGED <<instant, failures>>

\* The sweep, which comes every five minutes, here whenever it may, and the check,
\* which refuses a client that is locked out and forgets a lock-out that is over.
Check(p) ==
  /\ stage[p] = "presented"
  /\ \E swept \in {{}, Attempted \ Retained(measured[p])} :
       LET locked == who[p] \notin swept /\ measured[p] < until[who[p]]
           over == ~locked /\ until[who[p]] > 0
       IN /\ Forget(IF over THEN swept \cup {who[p]} ELSE swept)
          /\ Advance(p, IF locked THEN "idle" ELSE "checked")
  /\ UNCHANGED <<instant, who, measured>>

\* The code is right, and the client starts anew.
Right(p) ==
  /\ stage[p] = "checked"
  /\ Forget({who[p]})
  /\ Advance(p, "idle")
  /\ UNCHANGED <<instant, who, measured>>

\* Those who make room before a failure is counted.
Displaced(p) ==
  LET kept == Retained(measured[p]) IN
  IF Cardinality(Attempted) < MaxTrackedClients THEN {{}}
  ELSE IF Cardinality(kept) < MaxTrackedClients THEN {Attempted \ kept}
  ELSE {(Attempted \ kept) \cup {a} : a \in {b \in kept : \A c \in kept : last[b] <= last[c]}}

\* Fault: one failure more is let through.
ReachedOneLater(n) == n > MaxPairAttempts

Reached(n) == n >= MaxPairAttempts

\* The code is wrong, or there is none: the failure is counted.
Wrong(p) ==
  /\ stage[p] = "checked"
  /\ \E out \in Displaced(p) :
       LET before == IF who[p] \in out THEN 0 ELSE tries[who[p]]
           lockout == IF Reached(before + 1) THEN measured[p] + LockoutSecs
                      ELSE IF before = 0 THEN 0 ELSE until[who[p]]
       IN /\ tries' = [a \in Applicant |-> IF a = who[p] THEN before + 1
                                          ELSE IF a \in out THEN 0 ELSE tries[a]]
          /\ until' = [a \in Applicant |-> IF a = who[p] THEN lockout
                                          ELSE IF a \in out THEN 0 ELSE until[a]]
  /\ last' = [last EXCEPT ![who[p]] = measured[p]]
  /\ Advance(p, "idle")
  /\ UNCHANGED <<instant, who, measured>>

AttemptStep(p) == Present(p) \/ Check(p) \/ Right(p) \/ Wrong(p)

LockoutNext == TickLockout \/ \E p \in Attempt : AttemptStep(p)

LockoutSpec == LockoutInit /\ [][LockoutNext]_lockoutVars

-----------------------------------------------------------------------------
(* Properties.                                                             *)

AtCode(a) == {p \in Attempt : stage[p] = "checked" /\ who[p] = a}

\* A client fails at most as often as it may before it is locked out, plus the
\* attempts of its own that had passed the check by then.
AttemptsBounded ==
  \A a \in Applicant :
    tries[a] + Cardinality(AtCode(a)) < MaxPairAttempts + Cardinality(Attempt)
=============================================================================
