--------------------------- MODULE GatewayProofs ----------------------------
(***************************************************************************)
(* Proofs about the gateway, for every number of clients, attempts, handlers, *)
(* restarts and webhook calls, and whatever the limits: pairing's lock-out *)
(* bounds the guesses of a client, a token that was promised stays known, no *)
(* window lets through more calls of a client than the limit, and an       *)
(* idempotency key is worked on once in its time to live.                  *)
(*                                                                         *)
(* The bound of the lock-out is inductive once it is known that a client with *)
(* too many failures has a lock-out: the check then lets it pass only when *)
(* the lock-out is over, and forgets the failures along with it.           *)
(*                                                                         *)
(* Promised tokens are in the file, in the guard and in the shared         *)
(* configuration as long as no handler has overtaken another; whoever is about *)
(* to save then has them too, and whoever is about to store is alone.      *)
(*                                                                         *)
(* That a window is kept follows from the entry of a client having a time of *)
(* its own for each call that still counts: pruning keeps these times in   *)
(* their order, making room drops none unnoticed, and a call that is let   *)
(* through adds its own below the limit.                                   *)
(***************************************************************************)
EXTENDS PairingLockout, GatewayPairing, WebhookIngress, FiniteSetTheorems, TLAPS

-----------------------------------------------------------------------------
(* The lock-out.                                                           *)

\* Too many failures never stand without a lock-out.
ReachedIsLocked == \A a \in Applicant : tries[a] >= MaxPairAttempts => until[a] > 0

IInv == LockoutTypeOK /\ ReachedIsLocked /\ AttemptsBounded

\* The constants that are numbers, as numbers.
LEMMA ConstantsAreNumbers ==
  /\ MaxPairAttempts \in Nat \ {0} /\ LockoutSecs \in Nat \ {0}
  /\ Cardinality(Attempt) \in Nat
  BY LockoutAssumption, FS_CardinalityType

\* Attempts that passed the check are some of the attempts.
LEMMA AtCodeCounted ==
  ASSUME NEW a
  PROVE  /\ IsFiniteSet(AtCode(a)) /\ Cardinality(AtCode(a)) \in Nat
         /\ Cardinality(AtCode(a)) <= Cardinality(Attempt)
<1>1. AtCode(a) \in SUBSET Attempt
  BY DEF AtCode
<1> QED  BY <1>1, LockoutAssumption, FS_Subset, FS_CardinalityType

\* What a step may do to the failures of one client and to its attempts past
\* the check: leave or drop some; let one pass that has failures left; or take
\* one away and count it.
LEMMA BoundKept ==
  ASSUME IInv, LockoutTypeOK', NEW a \in Applicant,
         \/ tries'[a] <= tries[a] /\ AtCode(a)' \subseteq AtCode(a)
         \/ tries'[a] < MaxPairAttempts
         \/ /\ tries'[a] <= tries[a] + 1
            /\ \E p \in AtCode(a) : AtCode(a)' = AtCode(a) \ {p}
  PROVE  tries'[a] + Cardinality(AtCode(a)') < MaxPairAttempts + Cardinality(Attempt)
<1>1. /\ tries[a] \in Nat /\ tries'[a] \in Nat
      /\ tries[a] + Cardinality(AtCode(a)) < MaxPairAttempts + Cardinality(Attempt)
  BY DEF IInv, LockoutTypeOK, AttemptsBounded
<1>2. AtCode(a)' \in SUBSET Attempt
  BY DEF AtCode
<1>3. /\ IsFiniteSet(AtCode(a)') /\ Cardinality(AtCode(a)') \in Nat
      /\ Cardinality(AtCode(a)') <= Cardinality(Attempt)
  BY <1>2, LockoutAssumption, FS_Subset, FS_CardinalityType
<1>4. CASE tries'[a] <= tries[a] /\ AtCode(a)' \subseteq AtCode(a)
  <2>1. Cardinality(AtCode(a)') <= Cardinality(AtCode(a))
    BY <1>4, AtCodeCounted, FS_Subset
  <2> QED  BY <2>1, <1>1, <1>3, <1>4, AtCodeCounted, ConstantsAreNumbers
<1>5. CASE tries'[a] < MaxPairAttempts
  BY <1>1, <1>3, <1>5, ConstantsAreNumbers
<1>6. CASE /\ tries'[a] <= tries[a] + 1
           /\ \E p \in AtCode(a) : AtCode(a)' = AtCode(a) \ {p}
  <2>1. Cardinality(AtCode(a)') = Cardinality(AtCode(a)) - 1
    BY <1>6, AtCodeCounted, FS_RemoveElement
  <2> QED  BY <2>1, <1>1, <1>3, <1>6, AtCodeCounted, ConstantsAreNumbers
<1> QED  BY <1>4, <1>5, <1>6

LEMMA InitIInv == LockoutInit => IInv
<1> SUFFICES ASSUME LockoutInit PROVE IInv
  OBVIOUS
<1>1. LockoutTypeOK
  BY LockoutAssumption DEF LockoutInit, LockoutTypeOK, Instant
<1>2. ReachedIsLocked
  BY ConstantsAreNumbers DEF LockoutInit, ReachedIsLocked
<1>3. ASSUME NEW a \in Applicant
      PROVE  tries[a] + Cardinality(AtCode(a)) < MaxPairAttempts + Cardinality(Attempt)
  <2>1. AtCode(a) = {} /\ tries[a] = 0
    BY DEF LockoutInit, AtCode
  <2> QED  BY <2>1, FS_EmptySet, ConstantsAreNumbers
<1> QED  BY <1>1, <1>2, <1>3 DEF IInv, AttemptsBounded

\* Forgetting sets the failures of some clients, and their lock-outs, to zero.
LEMMA ForgetKeepsIInv ==
  ASSUME IInv, NEW out, Forget(out)
  PROVE  /\ tries' \in [Applicant -> Nat] /\ until' \in [Applicant -> Nat]
         /\ last' \in [Applicant -> Instant]
         /\ ReachedIsLocked'
         /\ \A a \in Applicant : tries'[a] <= tries[a] /\ (a \in out => tries'[a] = 0)
  BY ConstantsAreNumbers DEF IInv, LockoutTypeOK, ReachedIsLocked, Forget

LEMMA StepKeepsIInv == IInv /\ [LockoutNext]_lockoutVars => IInv'
<1> SUFFICES ASSUME IInv, [LockoutNext]_lockoutVars PROVE IInv'
  OBVIOUS
<1>1. CASE UNCHANGED <<failures, stage, who>> /\ (TickLockout \/ UNCHANGED lockoutVars)
  <2>1. LockoutTypeOK' /\ ReachedIsLocked'
    BY <1>1, LockoutAssumption DEF IInv, LockoutTypeOK, ReachedIsLocked, TickLockout,
       lockoutVars, failures, Instant
  <2>2. AttemptsBounded'
    BY <1>1 DEF IInv, AttemptsBounded, AtCode, failures
  <2> QED  BY <2>1, <2>2 DEF IInv
<1>2. ASSUME NEW p \in Attempt, Present(p) PROVE IInv'
  <2>1. LockoutTypeOK' /\ ReachedIsLocked'
    BY <1>2 DEF IInv, LockoutTypeOK, ReachedIsLocked, Present, Advance, failures, Instant
  <2>2. ASSUME NEW a \in Applicant
        PROVE  tries'[a] <= tries[a] /\ AtCode(a)' \subseteq AtCode(a)
    BY <1>2 DEF IInv, LockoutTypeOK, Present, Advance, AtCode, failures
  <2>3. AttemptsBounded'
    BY <2>1, <2>2, BoundKept DEF AttemptsBounded
  <2> QED  BY <2>1, <2>3 DEF IInv
<1>3. ASSUME NEW p \in Attempt, Check(p) PROVE IInv'
  <2> DEFINE locked(swept) == who[p] \notin swept /\ measured[p] < until[who[p]]
             out(swept) == IF ~locked(swept) /\ until[who[p]] > 0 THEN swept \cup {who[p]}
                           ELSE swept
  <2>1. PICK swept : /\ Forget(out(swept))
                     /\ Advance(p, IF locked(swept) THEN "idle" ELSE "checked")
    BY <1>3 DEF Check
  <2>2. stage[p] = "presented" /\ UNCHANGED <<instant, who, measured>> /\ who[p] \in Applicant
    BY <1>3 DEF Check, IInv, LockoutTypeOK
  <2>3. LockoutTypeOK' /\ ReachedIsLocked'
    BY <2>1, <2>2, ForgetKeepsIInv DEF IInv, LockoutTypeOK, Advance
  <2>4. \A a \in Applicant : tries'[a] <= tries[a] /\ (a \in out(swept) => tries'[a] = 0)
    BY <2>1, ForgetKeepsIInv
  <2>5. ASSUME NEW a \in Applicant, locked(swept) \/ a # who[p]
        PROVE  AtCode(a)' \subseteq AtCode(a)
    BY <2>1, <2>2, <2>5 DEF AtCode, Advance, IInv, LockoutTypeOK
  <2>6. ASSUME ~locked(swept) PROVE tries'[who[p]] < MaxPairAttempts
    <3>1. CASE who[p] \in out(swept)
      BY <3>1, <2>2, <2>4, ConstantsAreNumbers
    <3>2. CASE who[p] \notin out(swept)
      <4>1. until[who[p]] = 0
        BY <3>2, <2>2, <2>6 DEF IInv, LockoutTypeOK
      <4>2. tries[who[p]] < MaxPairAttempts
        BY <4>1, <2>2, ConstantsAreNumbers DEF IInv, ReachedIsLocked, LockoutTypeOK
      <4> QED  BY <4>2, <2>2, <2>3, <2>4, ConstantsAreNumbers DEF IInv, LockoutTypeOK
    <3> QED  BY <3>1, <3>2
  <2>7. AttemptsBounded'
    BY <2>2, <2>3, <2>4, <2>5, <2>6, BoundKept DEF AttemptsBounded
  <2> QED  BY <2>3, <2>7 DEF IInv
<1>4. ASSUME NEW p \in Attempt, Right(p) PROVE IInv'
  <2>1. LockoutTypeOK' /\ ReachedIsLocked' /\ \A a \in Applicant : tries'[a] <= tries[a]
    BY <1>4, ForgetKeepsIInv DEF IInv, LockoutTypeOK, Right, Advance
  <2>2. ASSUME NEW a \in Applicant PROVE AtCode(a)' \subseteq AtCode(a)
    BY <1>4 DEF Right, Advance, AtCode, IInv, LockoutTypeOK
  <2>3. AttemptsBounded'
    BY <2>1, <2>2, BoundKept DEF AttemptsBounded
  <2> QED  BY <2>1, <2>3 DEF IInv
<1>5. ASSUME NEW p \in Attempt, Wrong(p) PROVE IInv'
  <2> DEFINE before(out) == IF who[p] \in out THEN 0 ELSE tries[who[p]]
             lockout(out) == IF Reached(before(out) + 1) THEN measured[p] + LockoutSecs
                             ELSE IF before(out) = 0 THEN 0 ELSE until[who[p]]
  <2>1. PICK out :
          /\ tries' = [a \in Applicant |-> IF a = who[p] THEN before(out) + 1
                                           ELSE IF a \in out THEN 0 ELSE tries[a]]
          /\ until' = [a \in Applicant |-> IF a = who[p] THEN lockout(out)
                                           ELSE IF a \in out THEN 0 ELSE until[a]]
    BY <1>5 DEF Wrong
  <2>2. /\ stage[p] = "checked" /\ stage' = [stage EXCEPT ![p] = "idle"]
        /\ last' = [last EXCEPT ![who[p]] = measured[p]]
        /\ UNCHANGED <<instant, who, measured>>
        /\ who[p] \in Applicant /\ measured[p] \in Instant /\ measured[p] \in Nat
    BY <1>5 DEF Wrong, Advance, IInv, LockoutTypeOK, Instant
  <2>3. /\ before(out) \in Nat /\ before(out) <= tries[who[p]]
        /\ lockout(out) \in Nat
        /\ before(out) + 1 >= MaxPairAttempts => lockout(out) > 0
    BY <2>2, ConstantsAreNumbers DEF IInv, LockoutTypeOK, Reached
  <2> HIDE DEF before, lockout
  <2>4. LockoutTypeOK'
    BY <2>1, <2>2, <2>3 DEF IInv, LockoutTypeOK
  <2>5. ReachedIsLocked'
    BY <2>1, <2>2, <2>3, ConstantsAreNumbers DEF IInv, LockoutTypeOK, ReachedIsLocked
  <2>6. ASSUME NEW a \in Applicant, a # who[p]
        PROVE  tries'[a] <= tries[a] /\ AtCode(a)' \subseteq AtCode(a)
    BY <2>1, <2>2, <2>6 DEF AtCode, IInv, LockoutTypeOK
  <2>7. /\ tries'[who[p]] <= tries[who[p]] + 1
        /\ p \in AtCode(who[p]) /\ AtCode(who[p])' = AtCode(who[p]) \ {p}
    BY <2>1, <2>2, <2>3 DEF AtCode, IInv, LockoutTypeOK
  <2>8. AttemptsBounded'
    BY <2>2, <2>4, <2>6, <2>7, BoundKept DEF AttemptsBounded
  <2> QED  BY <2>4, <2>5, <2>8 DEF IInv
<1> QED
  BY <1>1, <1>2, <1>3, <1>4, <1>5 DEF LockoutNext, AttemptStep, TickLockout, lockoutVars, failures

\* A client fails at most as often as it may before it is locked out, plus the
\* attempts of its own that had passed the check by then: the two critical
\* sections of try_pair cost no more than that.
THEOREM GuessesBounded == LockoutSpec => []AttemptsBounded
<1>1. IInv => AttemptsBounded
  BY DEF IInv
<1> QED  BY <1>1, InitIInv, StepKeepsIInv, PTL DEF LockoutSpec

-----------------------------------------------------------------------------
(* Pairing.                                                                *)

\* What a handler holds was made from the file as the gateway last left it.
FreshDraft(h) == handling[h] \in {"editing", "saving"} /\ base[h] = saves

\* As long as no handler has overtaken another: a token that its client was told
\* of is in the file, in the guard and in the shared configuration; a handler that
\* is yet to update the shared configuration has just written the file, alone; and
\* what may still be saved has the tokens promised so far.
OnCourse ==
  /\ promised \subseteq toml.tokens \cap tokens \cap shared.tokens
  /\ \A h \in Handler : handling[h] = "storing" =>
       /\ body[h].tokens = toml.tokens
       /\ \A g \in Handler : handling[g] = "storing" => g = h
  /\ \A h \in Handler : FreshDraft(h) => ~Storing /\ promised \subseteq body[h].tokens

\* A token that a pairing is to save is one of the guard.
DraftsOfTheGuard ==
  \A p \in Pairer : handling[p] \in {"saving", "storing"} => body[p].tokens \subseteq tokens

PairingIInv ==
  /\ PairingTypeOK
  /\ \A h \in Handler : base[h] <= saves
  /\ DraftsOfTheGuard
  /\ overtaken \/ OnCourse

LEMMA PairingInitIInv == PairingInit => PairingIInv
<1> SUFFICES ASSUME PairingInit PROVE PairingIInv
  OBVIOUS
<1>0. FreshConfig \in Config
  BY DEF FreshConfig, Config
<1>1. PairingTypeOK
  <2>1. start \in 1..MaxStarts
    BY PairingAssumption DEF PairingInit
  <2>2. approval \in {{}, {TRUE}, {FALSE}} /\ code \in BOOLEAN /\ overtaken \in BOOLEAN
    BY Zenon DEF PairingInit
  <2> QED  BY <1>0, <2>1, <2>2 DEF PairingInit, PairingTypeOK, Handling
<1>2. /\ \A h \in Handler : base[h] <= saves /\ handling[h] = "idle"
      /\ DraftsOfTheGuard
  BY DEF PairingInit, DraftsOfTheGuard, Handler
<1>3. OnCourse
  BY <1>2 DEF PairingInit, OnCourse, FreshDraft
<1> QED  BY <1>1, <1>2, <1>3 DEF PairingIInv

LEMMA PairingStepKeepsIInv == PairingIInv /\ [PairingNext]_pairingVars => PairingIInv'
<1> SUFFICES ASSUME PairingIInv, [PairingNext]_pairingVars PROVE PairingIInv'
  OBVIOUS
<1> USE DEF PairingIInv, guard, configs, draft, marks, Proceed
<1>1. CASE UNCHANGED pairingVars
  BY <1>1 DEF pairingVars, PairingTypeOK, DraftsOfTheGuard, OnCourse, FreshDraft, Storing
<1>2. ASSUME NEW p \in Pairer, Pair(p) PROVE PairingIInv'
  <2>1. PairingTypeOK'
    BY <1>2 DEF Pair, PairingTypeOK, Handling, Token
  <2>2. DraftsOfTheGuard' /\ \A h \in Handler : base'[h] <= saves'
    BY <1>2 DEF Pair, PairingTypeOK, DraftsOfTheGuard, Handler
  <2>3. overtaken' \/ OnCourse'
    BY <1>2 DEF Pair, PairingTypeOK, OnCourse, FreshDraft, Storing, Handler
  <2> QED  BY <2>1, <2>2, <2>3
<1>3. ASSUME NEW p \in Pairer, TakeTokens(p) PROVE PairingIInv'
  <2>1. PairingTypeOK'
    BY <1>3 DEF TakeTokens, PairingTypeOK, Handling, Config, Handler
  <2>2. DraftsOfTheGuard' /\ \A h \in Handler : base'[h] <= saves'
    BY <1>3 DEF TakeTokens, PairingTypeOK, DraftsOfTheGuard, Handler, Config
  <2>3. overtaken' \/ OnCourse'
    BY <1>3 DEF TakeTokens, PairingTypeOK, OnCourse, FreshDraft, Storing, Handler, Config
  <2> QED  BY <2>1, <2>2, <2>3
<1>4. ASSUME NEW d \in Dashboard, GetConfig(d) PROVE PairingIInv'
  <2>1. PairingTypeOK'
    BY <1>4 DEF GetConfig, PairingTypeOK, Handling, Config, Handler
  <2>2. DraftsOfTheGuard' /\ \A h \in Handler : base'[h] <= saves'
    BY <1>4, PairingAssumption DEF GetConfig, PairingTypeOK, DraftsOfTheGuard, Handler, Config
  <2>3. overtaken' \/ OnCourse'
    BY <1>4 DEF GetConfig, PairingTypeOK, OnCourse, FreshDraft, Storing, Handler, Config
  <2> QED  BY <2>1, <2>2, <2>3
<1>5. ASSUME NEW d \in Dashboard, PutConfig(d) PROVE PairingIInv'
  <2>1. PairingTypeOK'
    BY <1>5 DEF PutConfig, PairingTypeOK, Handling
  <2>2. DraftsOfTheGuard' /\ \A h \in Handler : base'[h] <= saves'
    BY <1>5, PairingAssumption DEF PutConfig, PairingTypeOK, DraftsOfTheGuard, Handler
  <2>3. overtaken' \/ OnCourse'
    BY <1>5 DEF PutConfig, PairingTypeOK, OnCourse, FreshDraft, Storing, Handler
  <2> QED  BY <2>1, <2>2, <2>3
<1>6. ASSUME NEW h \in Handler, SaveConfig(h) PROVE PairingIInv'
  <2>0. overtaken' \in BOOLEAN /\ saves' \in Nat /\ handling' \in [Handler -> Handling]
    BY <1>6 DEF SaveConfig, PairingTypeOK, Handling
  <2>1. PairingTypeOK'
    BY <1>6, <2>0 DEF SaveConfig, PairingTypeOK
  <2>2. DraftsOfTheGuard' /\ \A g \in Handler : base'[g] <= saves' /\ base'[g] # saves'
    BY <1>6 DEF SaveConfig, PairingTypeOK, DraftsOfTheGuard, Handler
  <2>3. overtaken' \/ OnCourse'
    BY <1>6, <2>2 DEF SaveConfig, PairingTypeOK, OnCourse, FreshDraft, Storing
  <2> QED  BY <2>1, <2>2, <2>3
<1>7. ASSUME NEW h \in Handler, SaveConfigFails(h) PROVE PairingIInv'
  <2>1. PairingTypeOK'
    BY <1>7 DEF SaveConfigFails, PairingTypeOK, Handling
  <2>2. DraftsOfTheGuard' /\ \A g \in Handler : base'[g] <= saves'
    BY <1>7 DEF SaveConfigFails, PairingTypeOK, DraftsOfTheGuard, Handler
  <2>3. overtaken' \/ OnCourse'
    BY <1>7 DEF SaveConfigFails, PairingTypeOK, OnCourse, FreshDraft, Storing
  <2> QED  BY <2>1, <2>2, <2>3
<1>8. ASSUME NEW h \in Handler, StoreConfig(h) PROVE PairingIInv'
  <2>1. PairingTypeOK'
    BY <1>8 DEF StoreConfig, PairingTypeOK, Handling, Config
  <2>2. DraftsOfTheGuard' /\ \A g \in Handler : base'[g] <= saves'
    BY <1>8 DEF StoreConfig, PairingTypeOK, DraftsOfTheGuard, Handler
  <2>3. h \in Pairer => body[h].tokens \subseteq tokens
    BY <1>8 DEF StoreConfig, DraftsOfTheGuard
  <2>4. overtaken' \/ OnCourse'
    BY <1>8, <2>3 DEF StoreConfig, PairingTypeOK, OnCourse, FreshDraft, Storing
  <2> QED  BY <2>1, <2>2, <2>4
<1>9. ASSUME NEW b \in BOOLEAN, ChannelCommand(b) PROVE PairingIInv'
  <2>1. PairingTypeOK' /\ toml'.tokens = toml.tokens
    BY <1>9 DEF ChannelCommand, PairingTypeOK, Config
  <2>2. DraftsOfTheGuard' /\ \A g \in Handler : base'[g] <= saves'
    BY <1>9 DEF ChannelCommand, PairingTypeOK, DraftsOfTheGuard, Handler
  <2>3. overtaken' \/ OnCourse'
    BY <1>9, <2>1 DEF ChannelCommand, OnCourse, FreshDraft, Storing
  <2> QED  BY <2>1, <2>2, <2>3
<1>10. ASSUME NEW b \in BOOLEAN, StartGateway(b) PROVE PairingIInv'
  <2> DEFINE kept == IF b THEN {} ELSE toml.tokens
  <2>1. /\ toml'.tokens = kept /\ shared'.tokens = kept /\ tokens' = kept
        /\ toml' \in Config /\ shared' \in Config
    BY <1>10 DEF StartGateway, PairingTypeOK, Config
  <2>2. /\ \A h \in Handler : handling'[h] = "idle" \/ (handling'[h] = "editing" /\ handling[h] = "editing")
        /\ handling' \in [Handler -> Handling]
        /\ promised' = (IF b THEN {} ELSE promised)
        /\ saves' = (IF b THEN saves + 1 ELSE saves)
        /\ code' \in BOOLEAN /\ start' \in 1..MaxStarts
        /\ UNCHANGED <<body, base, approval, overtaken>>
    BY <1>10, PairingAssumption DEF StartGateway, PairingTypeOK, Handling
  <2>3. PairingTypeOK'
    <3>1. kept \subseteq Token /\ promised' \subseteq Token /\ saves' \in Nat
      BY <2>2 DEF PairingTypeOK, Config
    <3> QED  BY <2>1, <2>2, <3>1 DEF PairingTypeOK
  <2>4. DraftsOfTheGuard' /\ \A g \in Handler : base'[g] <= saves'
    BY <2>2 DEF PairingTypeOK, DraftsOfTheGuard, Handler
  <2>5. overtaken' \/ OnCourse'
    <3>1. SUFFICES ASSUME ~overtaken, OnCourse PROVE OnCourse'
      BY <2>2
    <3>2. promised' \subseteq kept
      BY <2>2, <3>1 DEF OnCourse
    <3>3. ~Storing' /\ \A h \in Handler : handling'[h] # "storing"
      BY <2>2 DEF Storing
    <3>4. ASSUME NEW h \in Handler, FreshDraft(h)' PROVE promised' \subseteq body'[h].tokens
      BY <3>1, <3>4, <2>2 DEF FreshDraft, OnCourse, PairingTypeOK
    <3> QED  BY <2>1, <3>2, <3>3, <3>4 DEF OnCourse
  <2> QED  BY <2>3, <2>4, <2>5
<1> QED
  BY <1>1, <1>2, <1>3, <1>4, <1>5, <1>6, <1>7, <1>8, <1>9, <1>10 DEF PairingNext

\* A client that was told that its token is persisted finds it in the file and in
\* the guard, through any number of restarts, unless a handler saved what another
\* had replaced meanwhile.
THEOREM PromisesKept == PairingSpec => []PromisedTokensKept
<1>1. PairingIInv => PromisedTokensKept
  BY DEF PairingIInv, OnCourse, PromisedTokensKept
<1> QED  BY <1>1, PairingInitIInv, PairingStepKeepsIInv, PTL DEF PairingSpec

-----------------------------------------------------------------------------
(* The idempotency store.                                                  *)

\* Nothing was read, counted or noted in the future.
InThePast ==
  /\ \A q \in Webhook : reading[q] <= clock /\ (recorded[q] \in Clock => recorded[q] <= clock)
  /\ \A k \in Key : keysSeen[k] \in Clock => keysSeen[k] <= clock

\* A call is recorded once.
NotYetRecorded ==
  \A q \in Webhook : phase[q] \in {"new", "arrived", "admitted", "keyed"} => recorded[q] = Never

\* A call that was recorded at its own reading is known by its key, or by a later
\* call's, until the time to live is over.
Remembered ==
  \A q \in Webhook :
    recorded[q] \in Clock /\ <<q, "keyed">> \notin hurried /\ KeyOf[q] \notin forgotten
    => \/ keysSeen[KeyOf[q]] \in Clock /\ recorded[q] <= keysSeen[KeyOf[q]]
       \/ clock - recorded[q] >= Ttl

\* WebhookTypeOK without what only the limiter needs.
StoreTypeOK ==
  /\ clock \in Clock
  /\ keysSeen \in [Key -> Clock \cup {Never}]
  /\ phase \in [Webhook -> Phase] /\ reading \in [Webhook -> Clock]
  /\ recorded \in [Webhook -> Clock \cup {Never}]

StoreIInv == StoreTypeOK /\ InThePast /\ NotYetRecorded /\ Remembered /\ WorkedOnOnce

LEMMA WebhookConstants ==
  /\ MaxClock \in Nat /\ Ttl \in Nat \ {0} /\ Never \notin Clock
  /\ KeyOf \in [Webhook -> Key]
  BY WebhookAssumption

LEMMA StoreInitIInv == WebhookInit => StoreIInv
<1> SUFFICES ASSUME WebhookInit PROVE StoreIInv
  OBVIOUS
<1>1. StoreTypeOK
  BY WebhookConstants DEF WebhookInit, StoreTypeOK, Clock, Phase
<1>2. \A q \in Webhook : recorded[q] = Never /\ reading[q] = 0
  BY DEF WebhookInit
<1>3. \A k \in Key : keysSeen[k] = Never
  BY DEF WebhookInit
<1>4. InThePast /\ NotYetRecorded /\ Remembered /\ WorkedOnOnce
  BY <1>2, <1>3, WebhookConstants DEF WebhookInit, InThePast, NotYetRecorded, Remembered, WorkedOnOnce
<1> QED  BY <1>1, <1>4 DEF StoreIInv

\* What a step does that records nothing: time may pass, calls may move on, and
\* entries of the limiter may be forgotten.
LEMMA NothingRecorded ==
  ASSUME StoreIInv, StoreTypeOK',
         clock <= clock', UNCHANGED <<keysSeen, recorded>>,
         forgotten \subseteq forgotten', hurried \subseteq hurried',
         \A q \in Webhook : reading'[q] <= clock',
         \A q \in Webhook : \/ phase'[q] \notin {"new", "arrived", "admitted", "keyed"}
                            \/ phase[q] \in {"new", "arrived", "admitted", "keyed"}
  PROVE  StoreIInv'
<1>1. clock \in Nat /\ clock' \in Nat /\ Ttl \in Nat
  BY WebhookConstants DEF StoreIInv, StoreTypeOK, Clock
<1>2. InThePast' /\ NotYetRecorded'
  BY <1>1 DEF StoreIInv, InThePast, NotYetRecorded, Clock
<1>3. Remembered'
  BY <1>1 DEF StoreIInv, Remembered, Clock
<1>4. WorkedOnOnce'
  BY DEF StoreIInv, WorkedOnOnce
<1> QED  BY <1>2, <1>3, <1>4 DEF StoreIInv

\* A key that is dropped from the store, and not to make room, has expired.
LEMMA DroppedHasExpired ==
  ASSUME StoreIInv, NEW q \in Webhook, NEW k \in Key, k \notin Kept(q), keysSeen[k] \in Clock
  PROVE  clock - keysSeen[k] >= Ttl
  BY WebhookConstants DEF Kept, StoreIInv, StoreTypeOK, InThePast, Clock

LEMMA StoreStepKeepsIInv == StoreIInv /\ [WebhookNext]_webhookVars => StoreIInv'
<1> SUFFICES ASSUME StoreIInv, [WebhookNext]_webhookVars PROVE StoreIInv'
  OBVIOUS
<1> USE DEF maps, record, Reach
<1>1. CASE TickWebhook \/ UNCHANGED webhookVars
  <2>1. StoreTypeOK' /\ clock <= clock' /\ \A q \in Webhook : reading'[q] <= clock'
    BY <1>1, WebhookConstants DEF TickWebhook, webhookVars, StoreIInv, StoreTypeOK, InThePast, Clock
  <2> QED  BY <1>1, <2>1, NothingRecorded DEF TickWebhook, webhookVars
<1>2. ASSUME NEW q \in Webhook, Arrive(q) \/ Refuse(q) \/ Unkeyed(q) \/ ReadClock(q) \/ Respond(q)
      PROVE  StoreIInv'
  <2>1. StoreTypeOK' /\ clock' = clock
    BY <1>2 DEF Arrive, Refuse, Unkeyed, ReadClock, Respond, StoreIInv, StoreTypeOK, Phase
  <2>2. \A r \in Webhook : reading'[r] <= clock'
    BY <1>2, <2>1, WebhookConstants DEF Arrive, Refuse, Unkeyed, ReadClock, Respond, StoreIInv, StoreTypeOK, InThePast,
       Clock
  <2>3. clock <= clock'
    BY <2>1, WebhookConstants DEF StoreIInv, StoreTypeOK, Clock
  <2>4. \A r \in Webhook : \/ phase'[r] \notin {"new", "arrived", "admitted", "keyed"}
                           \/ phase[r] \in {"new", "arrived", "admitted", "keyed"}
    BY <1>2 DEF Arrive, Refuse, Unkeyed, ReadClock, Respond, StoreIInv, StoreTypeOK
  <2>5. UNCHANGED <<keysSeen, recorded, forgotten, hurried>>
    BY <1>2 DEF Arrive, Refuse, Unkeyed, ReadClock, Respond
  <2> QED  BY <2>1, <2>2, <2>3, <2>4, <2>5, NothingRecorded
<1>3. ASSUME NEW q \in Webhook, Allow(q) PROVE StoreIInv'
  <2>1. /\ phase[q] = "arrived" /\ UNCHANGED <<clock, keysSeen, reading, recorded>>
        /\ forgotten \subseteq forgotten' /\ hurried \subseteq hurried'
        /\ \E p \in {"admitted", "over"} : phase' = [phase EXCEPT ![q] = p]
    BY <1>3 DEF Allow, Hurry
  <2>2. StoreTypeOK' /\ clock <= clock'
    BY <2>1, WebhookConstants DEF StoreIInv, StoreTypeOK, Phase, Clock
  <2>3. \A r \in Webhook : reading'[r] <= clock'
    BY <2>1 DEF StoreIInv, InThePast
  <2>4. \A r \in Webhook : \/ phase'[r] \notin {"new", "arrived", "admitted", "keyed"}
                           \/ phase[r] \in {"new", "arrived", "admitted", "keyed"}
    BY <2>1 DEF StoreIInv, StoreTypeOK
  <2> QED  BY <2>1, <2>2, <2>3, <2>4, NothingRecorded
<1>4. ASSUME NEW q \in Webhook, RecordIfNew(q) PROVE StoreIInv'
  <2> DEFINE k == KeyOf[q]
  <2>0. /\ phase[q] = "keyed" /\ UNCHANGED <<clock, reading>> /\ k \in Key
        /\ clock \in Nat /\ Ttl \in Nat \ {0}
        /\ \A r \in Webhook : KeyOf[r] \in Key
    BY <1>4, WebhookConstants DEF RecordIfNew, StoreIInv, StoreTypeOK, Clock
  <2>1. CASE /\ k \in Kept(q)
             /\ keysSeen' = [l \in Key |-> IF l \in Kept(q) THEN keysSeen[l] ELSE Never]
             /\ Reach(q, "over")
             /\ UNCHANGED <<recorded, forgotten, hurried>>
    <3>1. StoreTypeOK'
      BY <2>0, <2>1 DEF StoreIInv, StoreTypeOK, Phase
    <3>2. InThePast' /\ NotYetRecorded'
      BY <2>0, <2>1, WebhookConstants DEF StoreIInv, StoreTypeOK, InThePast, NotYetRecorded
    <3>3. ASSUME NEW r \in Webhook, recorded[r] \in Clock, <<r, "keyed">> \notin hurried,
                 KeyOf[r] \notin forgotten
          PROVE  \/ keysSeen'[KeyOf[r]] \in Clock /\ recorded[r] <= keysSeen'[KeyOf[r]]
                 \/ clock - recorded[r] >= Ttl
      <4>1. CASE KeyOf[r] \in Kept(q)
        BY <4>1, <2>0, <2>1, <3>3 DEF StoreIInv, Remembered
      <4>2. CASE KeyOf[r] \notin Kept(q)
        BY <4>2, <2>0, <3>3, DroppedHasExpired DEF StoreIInv, Remembered, Clock
      <4> QED  BY <4>1, <4>2
    <3>4. Remembered'
      BY <3>3, <2>0, <2>1 DEF Remembered
    <3>5. WorkedOnOnce'
      BY <2>1 DEF StoreIInv, WorkedOnOnce
    <3> QED  BY <3>1, <3>2, <3>4, <3>5 DEF StoreIInv
  <2>2. CASE k \notin Kept(q)
    <3>1. PICK out \in IF Cardinality(Kept(q)) < MaxKeys THEN {{}}
                       ELSE {{l} : l \in Oldest(Kept(q))} :
            /\ keysSeen' = [l \in Key |-> IF l = k THEN reading[q]
                                      ELSE IF l \in Kept(q) \ out THEN keysSeen[l] ELSE Never]
            /\ forgotten' = forgotten \cup out
      BY <1>4, <2>2 DEF RecordIfNew
    <3>2. /\ phase' = [phase EXCEPT ![q] = "working"]
          /\ recorded' = [recorded EXCEPT ![q] = clock]
          /\ hurried' = IF reading[q] = clock THEN hurried ELSE hurried \cup {<<q, "keyed">>}
      BY <1>4, <2>0, <2>2 DEF RecordIfNew, Hurry
    <3>3. StoreTypeOK'
      BY <2>0, <3>1, <3>2 DEF StoreIInv, StoreTypeOK, Phase
    <3>4. InThePast' /\ NotYetRecorded'
      BY <2>0, <3>1, <3>2, WebhookConstants DEF StoreIInv, StoreTypeOK, InThePast, NotYetRecorded, Clock
    <3>5. ASSUME NEW r \in Webhook, r # q, recorded[r] \in Clock, <<r, "keyed">> \notin hurried,
                 KeyOf[r] \notin forgotten, KeyOf[r] \notin Kept(q)
          PROVE  clock - recorded[r] >= Ttl
      BY <2>0, <3>5, DroppedHasExpired DEF StoreIInv, Remembered, Clock
    <3>6. ASSUME NEW r \in Webhook, recorded'[r] \in Clock, <<r, "keyed">> \notin hurried',
                 KeyOf[r] \notin forgotten'
          PROVE  \/ keysSeen'[KeyOf[r]] \in Clock /\ recorded'[r] <= keysSeen'[KeyOf[r]]
                 \/ clock - recorded'[r] >= Ttl
      <4>1. CASE r = q
        <5>1. reading[q] = clock
          BY <3>2, <3>6, <4>1
        <5>2. keysSeen'[k] = reading[q]
          BY <2>0, <3>1
        <5>3. recorded'[q] = clock
          BY <3>2 DEF StoreIInv, StoreTypeOK
        <5> QED  BY <2>0, <4>1, <5>1, <5>2, <5>3 DEF StoreIInv, StoreTypeOK
      <4>2. CASE r # q
        <5>1. /\ recorded'[r] = recorded[r] /\ <<r, "keyed">> \notin hurried
              /\ KeyOf[r] \notin forgotten /\ KeyOf[r] \notin out
          BY <3>1, <3>2, <3>6, <4>2 DEF StoreIInv, StoreTypeOK
        <5>2. CASE KeyOf[r] \in Kept(q)
          <6>1. keysSeen'[KeyOf[r]] = keysSeen[KeyOf[r]]
            BY <2>0, <2>2, <3>1, <5>1, <5>2
          <6> QED  BY <3>6, <5>1, <6>1 DEF StoreIInv, Remembered
        <5>3. CASE KeyOf[r] \notin Kept(q)
          BY <3>5, <3>6, <4>2, <5>1, <5>3
        <5> QED  BY <5>2, <5>3
      <4> QED  BY <4>1, <4>2
    <3>7. Remembered'
      BY <2>0, <3>6 DEF Remembered
    <3>8. ASSUME NEW r \in Webhook, NEW s \in Webhook, r # s, KeyOf[r] = KeyOf[s],
                 KeyOf[r] \notin forgotten', recorded'[r] \in Clock, recorded'[s] \in Clock,
                 recorded'[r] <= recorded'[s],
                 {<<r, "keyed">>, <<s, "keyed">>} \cap hurried' = {}
          PROVE  recorded'[s] - recorded'[r] >= Ttl
      <4>1. /\ {<<r, "keyed">>, <<s, "keyed">>} \cap hurried = {} /\ KeyOf[r] \notin forgotten
        BY <3>1, <3>2, <3>8
      <4>2. recorded'[q] = clock /\ \A u \in Webhook : u # q => recorded'[u] = recorded[u]
        BY <3>2 DEF StoreIInv, StoreTypeOK
      <4>3. CASE s = q
        BY <2>2, <3>5, <3>8, <4>1, <4>2, <4>3
      <4>4. CASE r = q
        <5>1. clock - recorded[s] >= Ttl
          BY <2>2, <3>5, <3>8, <4>1, <4>2, <4>4
        <5>2. clock <= recorded[s] /\ recorded[s] \in Nat
          BY <3>8, <4>2, <4>4 DEF Clock
        <5> QED  BY <5>1, <5>2, <2>0
      <4>5. CASE r # q /\ s # q
        BY <3>8, <4>1, <4>2, <4>5 DEF StoreIInv, WorkedOnOnce
      <4> QED  BY <4>3, <4>4, <4>5
    <3>9. WorkedOnOnce'
      BY <3>8 DEF WorkedOnOnce
    <3> QED  BY <3>3, <3>4, <3>7, <3>9 DEF StoreIInv
  <2> QED  BY <1>4, <2>1, <2>2 DEF RecordIfNew
<1> QED  BY <1>1, <1>2, <1>3, <1>4 DEF WebhookNext, WebhookStep

\* Two calls with one key are both worked on only if the time to live lies between
\* them, for any number of calls, clients and keys: see WorkedOnOnce for the calls
\* this is said of.
THEOREM KeyedOnce == WebhookSpec => []WorkedOnOnce
<1>1. StoreIInv => WorkedOnOnce
  BY DEF StoreIInv
<1> QED  BY <1>1, StoreInitIInv, StoreStepKeepsIInv, PTL DEF WebhookSpec

-----------------------------------------------------------------------------
(* The sliding window.                                                     *)

LEMMA InOrderLists ==
  ASSUME NEW S, IsFiniteSet(S), S \subseteq Nat
  PROVE  /\ Cardinality(S) \in Nat /\ DOMAIN InOrder(S) = 1..Cardinality(S)
         /\ \A k \in 1..Cardinality(S) : InOrder(S)[k] \in S
         /\ \A i \in S : \E k \in 1..Cardinality(S) : InOrder(S)[k] = i
<1> DEFINE Below(i) == {j \in S : j < i}
           n == Cardinality(S)
           rank == [i \in S |-> Cardinality(Below(i))]
<1>1. n \in Nat
  BY FS_CardinalityType
<1>2. ASSUME NEW i \in S PROVE IsFiniteSet(Below(i)) /\ Cardinality(Below(i)) \in 0..(n - 1)
  <2>1. Below(i) \in SUBSET S /\ i \in S \ Below(i)
    BY <1>2
  <2>2. /\ IsFiniteSet(Below(i)) /\ Cardinality(Below(i)) \in Nat /\ Cardinality(Below(i)) <= n
        /\ Cardinality(Below(i)) # n
    BY <2>1, FS_Subset, FS_CardinalityType
  <2> HIDE DEF Below, n
  <2> QED  BY <1>1, <2>2
<1>3. ASSUME NEW i \in S, NEW j \in S, j < i PROVE rank[j] < rank[i]
  <2>1. Below(j) \cup {j} \in SUBSET Below(i) /\ j \notin Below(j)
    <3>1. i \in Nat /\ j \in Nat /\ j < i /\ ~(j < j)
      BY <1>3
    <3>2. \A k \in S : k < j => k < i
      BY <3>1
    <3> QED  BY <3>1, <3>2
  <2>2. Cardinality(Below(j) \cup {j}) = Cardinality(Below(j)) + 1
    BY <2>1, <1>2, FS_AddElement
  <2>3. Cardinality(Below(j) \cup {j}) <= Cardinality(Below(i))
    BY <2>1, <1>2, FS_Subset
  <2> HIDE DEF Below
  <2> QED  BY <1>2, <2>2, <2>3
<1>4. rank \in Injection(S, 0..(n - 1))
  <2>1. rank \in [S -> 0..(n - 1)]
    BY <1>2
  <2>2. \A i \in S : rank[i] \in Nat
    BY <2>1, <1>1
  <2> HIDE DEF rank, n
  <2>3. ASSUME NEW i \in S, NEW j \in S, rank[i] = rank[j] PROVE i = j
    BY <1>3, <2>2, <2>3
  <2> QED  BY <2>1, <2>3 DEF Injection, IsInjective
<1>5. rank \in Surjection(S, 0..(n - 1))
  <2>1. IsFiniteSet(0..(n - 1)) /\ Cardinality(0..(n - 1)) = n
    <3> HIDE DEF n
    <3>1. 0 \in Int /\ n - 1 \in Int
      BY <1>1
    <3>2. /\ IsFiniteSet(0..(n - 1))
          /\ Cardinality(0..(n - 1)) = IF 0 > n - 1 THEN 0 ELSE (n - 1) - 0 + 1
      BY <3>1, FS_Interval
    <3> QED  BY <1>1, <3>2
  <2> HIDE DEF rank
  <2> QED  BY <1>4, <2>1, FS_Injection
<1>6. DOMAIN InOrder(S) = 1..n /\ \A k \in 1..n : InOrder(S)[k] = CHOOSE i \in S : rank[i] = k - 1
  BY DEF InOrder
<1> HIDE DEF rank, n
<1>7. ASSUME NEW k \in 1..n PROVE InOrder(S)[k] \in S /\ rank[InOrder(S)[k]] = k - 1
  <2>1. k - 1 \in 0..(n - 1)
    BY <1>1
  <2>2. \E i \in S : rank[i] = k - 1
    BY <2>1, <1>5 DEF Surjection
  <2> QED  BY <2>2, <1>6
<1>8. ASSUME NEW i \in S PROVE \E k \in 1..n : InOrder(S)[k] = i
  <2>1. rank[i] \in 0..(n - 1)
    BY <1>4 DEF Injection
  <2>2. rank[i] + 1 \in 1..n /\ (rank[i] + 1) - 1 = rank[i]
    BY <2>1, <1>1
  <2>3. InOrder(S)[rank[i] + 1] \in S /\ rank[InOrder(S)[rank[i] + 1]] = rank[i]
    BY <2>2, <1>7
  <2>4. InOrder(S)[rank[i] + 1] = i
    BY <2>3, <1>4 DEF Injection, IsInjective
  <2> QED  BY <2>2, <2>4
<1> QED  BY <1>1, <1>6, <1>7, <1>8 DEF n

\* What is kept of the times of a client.
LEMMA AfterKeeps ==
  ASSUME NEW times \in Seq(Clock), NEW t \in Int
  PROVE  /\ After(times, t) \in Seq(Clock) /\ Len(After(times, t)) <= Len(times)
         /\ DOMAIN After(times, t) = DOMAIN InOrder({j \in DOMAIN times : times[j] > t})
         /\ \A k \in DOMAIN After(times, t) :
              After(times, t)[k] = times[InOrder({j \in DOMAIN times : times[j] > t})[k]]
         /\ \A i \in DOMAIN times : times[i] > t =>
              \E k \in DOMAIN InOrder({j \in DOMAIN times : times[j] > t}) :
                InOrder({j \in DOMAIN times : times[j] > t})[k] = i
<1> DEFINE S == {i \in DOMAIN times : times[i] > t}
           N == Len(times)
<1>1. DOMAIN times = 1..N /\ N \in Nat /\ \A i \in 1..N : times[i] \in Clock
  OBVIOUS
<1>2. S \in SUBSET (1..N) /\ S \subseteq Nat
  BY <1>1
<1>3. IsFiniteSet(1..N) /\ Cardinality(1..N) = N
  <2> HIDE DEF N
  <2>1. 1 \in Int /\ N \in Int
    BY <1>1
  <2>2. IsFiniteSet(1..N) /\ Cardinality(1..N) = IF 1 > N THEN 0 ELSE N - 1 + 1
    BY <2>1, FS_Interval
  <2> QED  BY <1>1, <2>2
<1>4. IsFiniteSet(S) /\ Cardinality(S) <= N
  BY <1>2, <1>3, FS_Subset
<1> HIDE DEF S, N
<1>5. /\ Cardinality(S) \in Nat /\ DOMAIN InOrder(S) = 1..Cardinality(S)
      /\ \A k \in 1..Cardinality(S) : InOrder(S)[k] \in S
      /\ \A i \in S : \E k \in 1..Cardinality(S) : InOrder(S)[k] = i
  BY <1>2, <1>4, InOrderLists
<1>6. After(times, t) = [n \in 1..Cardinality(S) |-> times[InOrder(S)[n]]]
  BY <1>5 DEF After, S
<1>7. \A n \in 1..Cardinality(S) : times[InOrder(S)[n]] \in Clock
  BY <1>1, <1>2, <1>5
<1>8. After(times, t) \in [1..Cardinality(S) -> Clock]
  BY <1>6, <1>7
<1>9. After(times, t) \in Seq(Clock) /\ Len(After(times, t)) = Cardinality(S)
  BY <1>5, <1>8
<1>10. \A i \in DOMAIN times : times[i] > t => \E k \in DOMAIN InOrder(S) : InOrder(S)[k] = i
  <2>1. \A i \in DOMAIN times : times[i] > t => i \in S
    BY DEF S
  <2> QED  BY <1>5, <2>1
<1>11. Len(After(times, t)) <= Len(times)
  BY <1>4, <1>9 DEF N
<1>12. /\ DOMAIN After(times, t) = DOMAIN InOrder(S)
       /\ \A k \in DOMAIN After(times, t) : After(times, t)[k] = times[InOrder(S)[k]]
  BY <1>5, <1>6
<1> QED  BY <1>9, <1>10, <1>11, <1>12 DEF S

\* The times hold, at different places, when each of the calls was let through.
Holds(times, calls, when) ==
  \E f \in [calls -> DOMAIN times] :
    /\ \A q, r \in calls : f[q] = f[r] => q = r
    /\ \A q \in calls : times[f[q]] = when[q]

LEMMA HoldsFewer ==
  ASSUME NEW times, NEW all, NEW calls \in SUBSET all, NEW when, NEW then,
         Holds(times, all, when), \A q \in calls : then[q] = when[q]
  PROVE  Holds(times, calls, then)
<1>1. PICK f \in [all -> DOMAIN times] :
        /\ \A q, r \in all : f[q] = f[r] => q = r
        /\ \A q \in all : times[f[q]] = when[q]
  BY DEF Holds
<1> DEFINE g == [q \in calls |-> f[q]]
<1>2. g \in [calls -> DOMAIN times] /\ \A q \in calls : g[q] = f[q]
  BY <1>1
<1> HIDE DEF g
<1> QED  BY <1>1, <1>2 DEF Holds

LEMMA HoldsAfter ==
  ASSUME NEW times \in Seq(Clock), NEW t \in Int, NEW calls, NEW when,
         Holds(times, calls, when), \A q \in calls : when[q] > t
  PROVE  Holds(After(times, t), calls, when)
<1> DEFINE P == InOrder({i \in DOMAIN times : times[i] > t})
           s == After(times, t)
<1>1. /\ DOMAIN s = DOMAIN P /\ \A k \in DOMAIN s : s[k] = times[P[k]]
      /\ \A i \in DOMAIN times : times[i] > t => \E k \in DOMAIN P : P[k] = i
  BY AfterKeeps
<1>2. PICK f \in [calls -> DOMAIN times] :
        /\ \A q, r \in calls : f[q] = f[r] => q = r
        /\ \A q \in calls : times[f[q]] = when[q]
  BY DEF Holds
<1> HIDE DEF P, s
<1> DEFINE g == [q \in calls |-> CHOOSE k \in DOMAIN P : P[k] = f[q]]
<1>3. ASSUME NEW q \in calls PROVE g[q] \in DOMAIN s /\ P[g[q]] = f[q]
  <2>1. \E k \in DOMAIN P : P[k] = f[q]
    BY <1>1, <1>2
  <2> QED  BY <2>1, <1>1
<1>4. g \in [calls -> DOMAIN s]
  BY <1>3
<1> HIDE DEF g
<1>5. \A q, r \in calls : g[q] = g[r] => q = r
  BY <1>2, <1>3
<1>6. \A q \in calls : s[g[q]] = when[q]
  BY <1>1, <1>2, <1>3
<1>7. Holds(s, calls, when)
  BY <1>4, <1>5, <1>6 DEF Holds
<1> QED  BY <1>7 DEF s

LEMMA HoldsLonger ==
  ASSUME NEW times \in Seq(Clock), NEW time \in Clock, NEW calls, NEW when, Holds(times, calls, when)
  PROVE  Holds(Append(times, time), calls, when)
<1>1. DOMAIN times \subseteq DOMAIN Append(times, time)
  OBVIOUS
<1>2. \A i \in DOMAIN times : Append(times, time)[i] = times[i]
  OBVIOUS
<1> DEFINE s == Append(times, time)
<1> HIDE DEF s
<1>3. DOMAIN times \subseteq DOMAIN s /\ \A i \in DOMAIN times : s[i] = times[i]
  BY <1>1, <1>2 DEF s
<1>4. PICK f \in [calls -> DOMAIN times] :
        /\ \A q, r \in calls : f[q] = f[r] => q = r
        /\ \A q \in calls : times[f[q]] = when[q]
  BY DEF Holds
<1>5. f \in [calls -> DOMAIN s] /\ \A q \in calls : s[f[q]] = when[q]
  BY <1>3, <1>4
<1>6. Holds(s, calls, when)
  BY <1>4, <1>5 DEF Holds
<1> QED  BY <1>6 DEF s

LEMMA HoldsOneMore ==
  ASSUME NEW times \in Seq(Clock), NEW time \in Clock, NEW calls, NEW when, NEW then, NEW new,
         Holds(times, calls, when), new \notin calls,
         \A q \in calls : then[q] = when[q], then[new] = time
  PROVE  Holds(Append(times, time), calls \cup {new}, then)
<1> DEFINE n == Len(times) + 1
           s == Append(times, time)
<1>1. /\ n \in DOMAIN s /\ n \notin DOMAIN times /\ s[n] = time
      /\ DOMAIN times \subseteq DOMAIN s /\ \A i \in DOMAIN times : s[i] = times[i]
  OBVIOUS
<1>2. PICK f \in [calls -> DOMAIN times] :
        /\ \A q, r \in calls : f[q] = f[r] => q = r
        /\ \A q \in calls : times[f[q]] = when[q]
  BY DEF Holds
<1> HIDE DEF n, s
<1> DEFINE g == [q \in calls \cup {new} |-> IF q = new THEN n ELSE f[q]]
<1>3. g \in [calls \cup {new} -> DOMAIN s]
  BY <1>1, <1>2
<1>4. g[new] = n /\ \A q \in calls : g[q] = f[q] /\ f[q] \in DOMAIN times
  BY <1>2
<1> HIDE DEF g
<1>5. \A q, r \in calls \cup {new} : g[q] = g[r] => q = r
  BY <1>1, <1>2, <1>4
<1>6. \A q \in calls \cup {new} : s[g[q]] = then[q]
  BY <1>1, <1>2, <1>4
<1>7. Holds(s, calls \cup {new}, then)
  BY <1>3, <1>5, <1>6 DEF Holds
<1> QED  BY <1>7 DEF s

LEMMA HoldsCount ==
  ASSUME NEW times \in Seq(Clock), NEW calls, NEW when, Holds(times, calls, when)
  PROVE  IsFiniteSet(calls) /\ Cardinality(calls) \in Nat /\ Cardinality(calls) <= Len(times)
<1>1. PICK f \in [calls -> DOMAIN times] : \A q, r \in calls : f[q] = f[r] => q = r
  BY DEF Holds
<1>2. DOMAIN times = 1..Len(times) /\ Len(times) \in Nat
  OBVIOUS
<1>3. f \in Injection(calls, 1..Len(times))
  BY <1>1, <1>2 DEF Injection, IsInjective
<1>4. IsFiniteSet(1..Len(times)) /\ Cardinality(1..Len(times)) = Len(times)
  <2>1. IsFiniteSet(1..Len(times)) /\ Cardinality(1..Len(times)) = IF 1 > Len(times) THEN 0 ELSE Len(times) - 1 + 1
    BY <1>2, FS_Interval
  <2> QED  BY <1>2, <2>1
<1> QED  BY <1>3, <1>4, FS_Injection, FS_CardinalityType

LimiterTypeOK ==
  /\ stamps \in [Client -> Seq(Clock)] /\ \A c \in Client : Len(stamps[c]) <= Limit
  /\ admitted \in [Webhook -> Clock \cup {Never}]

\* A call is let through once, and not in the future.
AdmittedPast ==
  \A q \in Webhook :
    /\ phase[q] \in {"new", "arrived"} => admitted[q] = Never
    /\ admitted[q] \in Clock => admitted[q] <= clock

\* The calls of a client that count now.
Live(c) ==
  {q \in Webhook : /\ ClientOf[q] = c /\ <<q, "arrived">> \notin hurried
                   /\ admitted[q] \in Clock /\ clock - Window < admitted[q]}

\* Those that count at another time.
Through(c, t) ==
  {q \in Webhook : /\ ClientOf[q] = c /\ <<q, "arrived">> \notin hurried
                   /\ admitted[q] \in Clock
                   /\ t - Window < admitted[q] /\ admitted[q] <= t}

\* Unless it was displaced, a client's entry has a time of its own for each.
StampsHold == \A c \in Client \ forgotten : Holds(stamps[c], Live(c), admitted)

WindowIInv == StoreIInv /\ LimiterTypeOK /\ AdmittedPast /\ StampsHold /\ WindowLimit

LEMMA LimiterConstants ==
  Limit \in Nat \ {0} /\ Window \in Nat \ {0} /\ MaxClock \in Nat /\ ClientOf \in [Webhook -> Client]
  BY WebhookAssumption

LEMMA WindowInitIInv == WebhookInit => WindowIInv
<1> SUFFICES ASSUME WebhookInit PROVE WindowIInv
  OBVIOUS
<1>1. StoreIInv
  BY StoreInitIInv
<1>2. /\ \A c \in Client : stamps[c] = <<>> /\ <<>> \in Seq(Clock) /\ Len(<<>>) = 0
      /\ stamps \in [Client -> Seq(Clock)] /\ admitted \in [Webhook -> Clock \cup {Never}]
      /\ \A q \in Webhook : admitted[q] = Never
  BY DEF WebhookInit
<1>3. LimiterTypeOK
  BY <1>2, LimiterConstants DEF LimiterTypeOK
<1>4. AdmittedPast
  BY <1>2, WebhookConstants DEF AdmittedPast
<1>5. \A c : Live(c) = {} /\ \A t : Through(c, t) = {}
  BY <1>2, WebhookConstants DEF Live, Through
<1>6. StampsHold
  <2>1. Holds(<<>>, {}, admitted)
    <3>1. [q \in {} |-> 0] \in [{} -> DOMAIN <<>>]
      OBVIOUS
    <3> QED  BY <3>1 DEF Holds
  <2>2. \A c \in Client : stamps[c] = <<>> /\ Live(c) = {}
    BY <1>2, <1>5
  <2> QED  BY <2>1, <2>2 DEF StampsHold
<1>7. WindowLimit
  <2>1. \A c \in Client : \A t \in Clock : Cardinality(Through(c, t)) = 0
    BY <1>5, FS_EmptySet
  <2>2. \A c \in Client : \A t \in Clock : Cardinality(Through(c, t)) <= Limit
    BY <2>1, LimiterConstants
  <2> QED  BY <2>2 DEF WindowLimit, Through
<1> QED  BY <1>1, <1>3, <1>4, <1>6, <1>7 DEF WindowIInv

\* The windows that end now or later have the calls that count now; those that have
\* ended are as they were.
LEMMA WindowsKept ==
  ASSUME WindowLimit, StoreTypeOK', LimiterTypeOK', StampsHold', forgotten \subseteq forgotten',
         \A c \in Client : \A t \in Clock : t < clock' => Through(c, t)' = Through(c, t)
  PROVE  WindowLimit'
<1> SUFFICES ASSUME NEW c \in Client, c \notin forgotten', NEW t \in Clock
             PROVE  Cardinality(Through(c, t)') <= Limit
  BY DEF WindowLimit, Through
<1>1. CASE t < clock'
  BY <1>1 DEF WindowLimit, Through
<1>2. CASE ~(t < clock')
  <2>1. clock' \in Nat /\ t \in Nat /\ Window \in Nat /\ Limit \in Nat
    BY LimiterConstants DEF StoreTypeOK, Clock
  <2>2. Through(c, t)' \in SUBSET (Live(c)')
    BY <1>2, <2>1 DEF Through, Live, Clock
  <2>3. /\ stamps'[c] \in Seq(Clock) /\ Len(stamps'[c]) <= Limit
        /\ Holds(stamps'[c], Live(c)', admitted')
    BY DEF LimiterTypeOK, StampsHold
  <2>4. /\ IsFiniteSet(Live(c)') /\ Cardinality(Live(c)') \in Nat
        /\ Cardinality(Live(c)') <= Len(stamps'[c])
    BY <2>3, HoldsCount
  <2>5. /\ Cardinality(Through(c, t)') <= Cardinality(Live(c)')
        /\ Cardinality(Through(c, t)') \in Nat
    BY <2>2, <2>4, FS_Subset, FS_CardinalityType
  <2>6. Len(stamps'[c]) \in Nat
    BY <2>3
  <2> QED  BY <2>1, <2>3, <2>4, <2>5, <2>6
<1> QED  BY <1>1, <1>2

\* A step that leaves the limiter alone.
LEMMA LimiterAlone ==
  ASSUME WindowIInv, StoreIInv', clock <= clock', UNCHANGED <<stamps, admitted>>,
         forgotten \subseteq forgotten',
         \A q \in Webhook : <<q, "arrived">> \in hurried' <=> <<q, "arrived">> \in hurried,
         \A q \in Webhook : phase'[q] \in {"new", "arrived"} => phase[q] \in {"new", "arrived"}
  PROVE  WindowIInv'
<1>1. clock \in Nat /\ clock' \in Nat /\ Window \in Nat
  BY LimiterConstants DEF WindowIInv, StoreIInv, StoreTypeOK, Clock
<1>2. LimiterTypeOK'
  BY DEF WindowIInv, LimiterTypeOK
<1>3. AdmittedPast'
  BY <1>1 DEF WindowIInv, AdmittedPast, Clock
<1>4. \A c : Live(c)' \in SUBSET Live(c)
  BY <1>1 DEF Live, Clock
<1>5. StampsHold'
  <2> SUFFICES ASSUME NEW c \in Client, c \notin forgotten' PROVE Holds(stamps[c], Live(c)', admitted)
    BY DEF StampsHold
  <2>1. Holds(stamps[c], Live(c), admitted)
    BY DEF WindowIInv, StampsHold
  <2> QED  BY <1>4, <2>1, HoldsFewer
<1>6. \A c \in Client : \A t \in Clock : Through(c, t)' = Through(c, t)
  BY DEF Through
<1>7. WindowLimit'
  BY <1>2, <1>5, <1>6, WindowsKept DEF WindowIInv, StoreIInv
<1> QED  BY <1>2, <1>3, <1>5, <1>7 DEF WindowIInv

\* Pruning a map drops no time of a call that counts now.
LEMMA PrunedHolds ==
  ASSUME StoreIInv, NEW q \in Webhook, NEW map \in [Client -> Seq(Clock)]
  PROVE  /\ Pruned(map, q) \in [Client -> Seq(Clock)]
         /\ \A c \in Client : Len(Pruned(map, q)[c]) <= Len(map[c])
         /\ \A c \in Client : Holds(map[c], Live(c), admitted)
                              => Holds(Pruned(map, q)[c], Live(c), admitted)
<1> DEFINE t == reading[q] - Window
<1>1. t \in Int /\ t <= clock - Window /\ clock \in Nat /\ Window \in Nat
  BY LimiterConstants DEF StoreIInv, StoreTypeOK, InThePast, Clock
<1>2. \A c \in Client : Pruned(map, q)[c] = After(map[c], t) /\ map[c] \in Seq(Clock)
  BY DEF Pruned, Recent
<1> HIDE DEF t
<1>3. \A c \in Client : After(map[c], t) \in Seq(Clock) /\ Len(After(map[c], t)) <= Len(map[c])
  BY <1>1, <1>2, AfterKeeps
<1>4. Pruned(map, q) \in [Client -> Seq(Clock)]
  <2>1. Pruned(map, q) = [c \in Client |-> After(map[c], t)]
    BY DEF Pruned, Recent, t
  <2> QED  BY <1>3, <2>1
<1>5. ASSUME NEW c \in Client, Holds(map[c], Live(c), admitted)
      PROVE  Holds(After(map[c], t), Live(c), admitted)
  <2>1. \A r \in Live(c) : admitted[r] > t
    BY <1>1 DEF Live, Clock
  <2> QED  BY <1>1, <1>2, <1>5, <2>1, HoldsAfter
<1> QED  BY <1>2, <1>3, <1>4, <1>5

\* Making room drops no such time either, unless it is noted.
LEMMA RoomHolds ==
  ASSUME WindowIInv, NEW q \in Webhook,
         NEW swept \in {stamps, Pruned(stamps, q)}, NEW map \in MapsWithRoom(swept, q)
  PROVE  /\ map \in [Client -> Seq(Clock)]
         /\ \A c \in Client : Len(map[c]) <= Limit
         /\ \A c \in Client : c \notin forgotten \cup (Tracked(Pruned(swept, q)) \ Tracked(map))
                              => Holds(map[c], Live(c), admitted)
<1> DEFINE Good(m) ==
      /\ m \in [Client -> Seq(Clock)]
      /\ \A c \in Client : Len(m[c]) <= Limit
      /\ \A c \in Client \ forgotten : Holds(m[c], Live(c), admitted)
<1>1. Good(stamps)
  BY DEF WindowIInv, LimiterTypeOK, StampsHold
<1>2. ASSUME NEW m, Good(m) PROVE Good(Pruned(m, q))
  <2>1. /\ Pruned(m, q) \in [Client -> Seq(Clock)]
        /\ \A c \in Client : Len(Pruned(m, q)[c]) <= Len(m[c])
        /\ \A c \in Client : Holds(m[c], Live(c), admitted)
                             => Holds(Pruned(m, q)[c], Live(c), admitted)
    <3>1. StoreIInv /\ m \in [Client -> Seq(Clock)]
      BY <1>2 DEF WindowIInv
    <3> QED  BY <3>1, PrunedHolds
  <2>2. ASSUME NEW c \in Client
        PROVE  /\ Len(Pruned(m, q)[c]) <= Limit
               /\ c \notin forgotten => Holds(Pruned(m, q)[c], Live(c), admitted)
    <3>1. m[c] \in Seq(Clock) /\ Pruned(m, q)[c] \in Seq(Clock)
      BY <1>2, <2>1
    <3>2. Len(m[c]) \in Nat /\ Len(Pruned(m, q)[c]) \in Nat /\ Limit \in Nat
      BY <3>1, LimiterConstants
    <3>3. Len(Pruned(m, q)[c]) <= Len(m[c]) /\ Len(m[c]) <= Limit
      BY <1>2, <2>1
    <3>4. c \notin forgotten => Holds(Pruned(m, q)[c], Live(c), admitted)
      BY <1>2, <2>1
    <3> QED  BY <3>2, <3>3, <3>4
  <2> QED  BY <2>1, <2>2
<1>3. Good(swept)
  BY <1>1, <1>2
<1>4. Good(Pruned(swept, q))
  BY <1>2, <1>3
<1>5. CASE map \in {swept, Pruned(swept, q)}
  BY <1>3, <1>4, <1>5
<1>6. CASE \E d \in Coldest(Pruned(swept, q)) : map = [Pruned(swept, q) EXCEPT ![d] = <<>>]
  <2>1. PICK d \in Coldest(Pruned(swept, q)) : map = [Pruned(swept, q) EXCEPT ![d] = <<>>]
    BY <1>6
  <2> DEFINE m == Pruned(swept, q)
  <2>2. d \in Client /\ d \in Tracked(m)
    BY DEF Coldest, Tracked
  <2> HIDE DEF m, Good
  <2>3. map = [m EXCEPT ![d] = <<>>] /\ m \in [Client -> Seq(Clock)]
    BY <1>4, <2>1 DEF m, Good
  <2>4. map \in [Client -> Seq(Clock)] /\ map[d] = <<>> /\ \A c \in Client : c # d => map[c] = m[c]
    BY <2>2, <2>3
  <2>5. d \in Tracked(m) \ Tracked(map)
    BY <2>2, <2>4 DEF Tracked
  <2>6. \A c \in Client : Len(m[c]) <= Limit /\ (c \notin forgotten => Holds(m[c], Live(c), admitted))
    BY <1>4 DEF m, Good
  <2>7. Len(<<>>) <= Limit
    <3>1. Len(<<>>) = 0
      OBVIOUS
    <3> QED  BY <3>1, LimiterConstants
  <2>8. \A c \in Client : Len(map[c]) <= Limit
    BY <2>4, <2>6, <2>7
  <2>9. ASSUME NEW c \in Client, c \notin forgotten \cup (Tracked(m) \ Tracked(map))
        PROVE  Holds(map[c], Live(c), admitted)
    BY <2>4, <2>5, <2>6, <2>9
  <2> QED  BY <2>4, <2>8, <2>9 DEF m
<1>7. map \in {swept, Pruned(swept, q)} \/
      \E d \in Coldest(Pruned(swept, q)) : map = [Pruned(swept, q) EXCEPT ![d] = <<>>]
  BY DEF MapsWithRoom
<1> QED  BY <1>5, <1>6, <1>7

\* A call that is let through while its reading is the time finds, below the limit,
\* a time for each that counts, and adds its own.
LEMMA AllowKeeps ==
  ASSUME WindowIInv, StoreIInv', NEW q \in Webhook, Allow(q)
  PROVE  WindowIInv'
<1> DEFINE own == ClientOf[q]
<1>1. PICK swept \in {stamps, Pruned(stamps, q)} : \E map \in MapsWithRoom(swept, q) :
        /\ forgotten' = forgotten \cup (Tracked(Pruned(swept, q)) \ Tracked(map))
        /\ \/ /\ Len(Recent(map[own], q)) < Limit
              /\ stamps' = [map EXCEPT ![own] = Append(Recent(map[own], q), reading[q])]
              /\ admitted' = [admitted EXCEPT ![q] = clock]
           \/ /\ stamps' = [map EXCEPT ![own] = Recent(map[own], q)]
              /\ UNCHANGED admitted
  BY DEF Allow
<1>20. PICK map \in MapsWithRoom(swept, q) :
        /\ forgotten' = forgotten \cup (Tracked(Pruned(swept, q)) \ Tracked(map))
        /\ \/ /\ Len(Recent(map[own], q)) < Limit
              /\ stamps' = [map EXCEPT ![own] = Append(Recent(map[own], q), reading[q])]
              /\ admitted' = [admitted EXCEPT ![q] = clock]
           \/ /\ stamps' = [map EXCEPT ![own] = Recent(map[own], q)]
              /\ UNCHANGED admitted
  BY <1>1
<1> DEFINE times == Recent(map[own], q)
<1>2. /\ phase[q] = "arrived" /\ clock' = clock /\ own \in Client
      /\ \E where \in {"admitted", "over"} : phase' = [phase EXCEPT ![q] = where]
      /\ hurried' = IF reading[q] = clock THEN hurried ELSE hurried \cup {<<q, "arrived">>}
  BY LimiterConstants DEF Allow, Hurry, Reach
<1>3. /\ clock \in Clock /\ clock \in Nat /\ Window \in Nat /\ Limit \in Nat
      /\ reading[q] \in Clock /\ reading[q] \in Nat /\ reading[q] <= clock
  BY LimiterConstants DEF WindowIInv, StoreIInv, StoreTypeOK, InThePast, Clock
<1>4. /\ map \in [Client -> Seq(Clock)] /\ \A c \in Client : Len(map[c]) <= Limit
      /\ \A c \in Client : c \notin forgotten' => Holds(map[c], Live(c), admitted)
  BY <1>20, RoomHolds
<1>5. /\ times \in Seq(Clock) /\ Len(times) <= Limit
      /\ own \notin forgotten' => Holds(times, Live(own), admitted)
  <2>1. map[own] \in Seq(Clock) /\ reading[q] - Window \in Int /\ Len(map[own]) <= Limit
    BY <1>2, <1>3, <1>4
  <2>2. times = After(map[own], reading[q] - Window)
    BY DEF Recent
  <2>3. times \in Seq(Clock) /\ Len(times) <= Len(map[own])
    BY <2>1, <2>2, AfterKeeps
  <2>4. \A r \in Live(own) : admitted[r] > reading[q] - Window
    BY <1>3 DEF Live, Clock
  <2>5. own \notin forgotten' => Holds(times, Live(own), admitted)
    BY <1>2, <1>4, <2>1, <2>2, <2>4, HoldsAfter
  <2>6. Len(times) <= Limit
    <3>1. Len(times) \in Nat /\ Len(map[own]) \in Nat
      BY <2>1, <2>3
    <3> QED  BY <1>3, <2>1, <2>3, <3>1
  <2> QED  BY <2>3, <2>5, <2>6
<1>6. admitted[q] = Never /\ Never \notin Clock /\ q \notin Live(own)
  BY <1>2, WebhookConstants DEF WindowIInv, AdmittedPast, Live
<1>7. PICK new \in {times, Append(times, reading[q])} :
        /\ stamps' = [map EXCEPT ![own] = new]
        /\ \/ /\ new = Append(times, reading[q]) /\ Len(times) < Limit
              /\ admitted' = [admitted EXCEPT ![q] = clock]
           \/ new = times /\ UNCHANGED admitted
  BY <1>20
<1> HIDE DEF times, own
<1>8. new \in Seq(Clock) /\ Len(new) <= Limit
  <2>1. CASE new = times
    BY <1>5, <2>1
  <2>2. CASE new = Append(times, reading[q]) /\ Len(times) < Limit
    BY <1>3, <1>5, <2>2
  <2>3. \/ new = times
        \/ new = Append(times, reading[q]) /\ Len(times) < Limit
    BY <1>7
  <2> QED  BY <2>1, <2>2, <2>3
<1>9. /\ stamps' \in [Client -> Seq(Clock)] /\ stamps'[own] = new
      /\ \A c \in Client : c # own => stamps'[c] = map[c]
  BY <1>2, <1>4, <1>7, <1>8
<1>10. \A r \in Webhook : r # q => admitted'[r] = admitted[r]
  BY <1>7 DEF WindowIInv, LimiterTypeOK
<1>11. LimiterTypeOK'
  <2>1. \A c \in Client : Len(stamps'[c]) <= Limit
    BY <1>4, <1>8, <1>9
  <2>2. admitted' \in [Webhook -> Clock \cup {Never}]
    BY <1>3, <1>7 DEF WindowIInv, LimiterTypeOK
  <2> QED  BY <1>9, <2>1, <2>2 DEF LimiterTypeOK
<1>12. admitted'[q] = clock \/ admitted' = admitted
  BY <1>7 DEF WindowIInv, LimiterTypeOK
<1>13. AdmittedPast'
  <2>1. \A r \in Webhook : phase'[r] \in {"new", "arrived"} => r # q /\ phase'[r] = phase[r]
    BY <1>2 DEF WindowIInv, StoreIInv, StoreTypeOK
  <2>2. \A r \in Webhook : admitted'[r] \in Clock => admitted'[r] <= clock
    BY <1>3, <1>10, <1>12 DEF WindowIInv, AdmittedPast
  <2> QED  BY <1>2, <1>10, <2>1, <2>2 DEF WindowIInv, AdmittedPast
<1>14. \A r \in Webhook : r # q => (<<r, "arrived">> \in hurried' <=> <<r, "arrived">> \in hurried)
  BY <1>2
<1>15. \A c \in Client : c # own => Live(c)' \in SUBSET Live(c)
  BY <1>2, <1>10, <1>14 DEF Live, own
<1>16. Live(own)' \in SUBSET (Live(own) \cup {q})
  BY <1>2, <1>10, <1>14 DEF Live
<1>17. ASSUME own \notin forgotten' PROVE Holds(new, Live(own)', admitted')
  <2>1. Holds(times, Live(own), admitted)
    BY <1>5, <1>17
  <2>2. \A r \in Live(own) : admitted'[r] = admitted[r]
    BY <1>6, <1>10 DEF Live
  <2>3. CASE q \in Live(own)'
    <3>1. /\ new = Append(times, reading[q]) /\ admitted' = [admitted EXCEPT ![q] = clock]
          /\ reading[q] = clock
      BY <1>2, <1>6, <1>7, <2>3 DEF Live
    <3>2. admitted'[q] = reading[q]
      BY <3>1 DEF WindowIInv, LimiterTypeOK
    <3>3. Holds(new, Live(own) \cup {q}, admitted')
      BY <1>3, <1>5, <1>6, <2>1, <2>2, <3>1, <3>2, HoldsOneMore
    <3> QED  BY <1>16, <3>3, HoldsFewer
  <2>4. CASE q \notin Live(own)'
    <3>1. Live(own)' \in SUBSET Live(own)
      BY <1>16, <2>4
    <3>2. Holds(times, Live(own)', admitted')
      BY <2>1, <2>2, <3>1, HoldsFewer
    <3>3. Holds(Append(times, reading[q]), Live(own)', admitted')
      BY <1>3, <1>5, <3>2, HoldsLonger
    <3> QED  BY <1>7, <3>2, <3>3
  <2> QED  BY <2>3, <2>4
<1>18. StampsHold'
  <2> SUFFICES ASSUME NEW c \in Client, c \notin forgotten' PROVE Holds(stamps'[c], Live(c)', admitted')
    BY DEF StampsHold
  <2>1. CASE c = own
    BY <1>9, <1>17, <2>1
  <2>2. CASE c # own
    <3>1. Holds(map[c], Live(c), admitted) /\ Live(c)' \in SUBSET Live(c)
      BY <1>4, <1>15, <2>2
    <3>2. \A r \in Live(c)' : admitted'[r] = admitted[r]
      BY <1>10, <2>2 DEF Live, own
    <3>3. Holds(map[c], Live(c)', admitted')
      BY <3>1, <3>2, HoldsFewer
    <3> QED  BY <1>9, <2>2, <3>3
  <2> QED  BY <2>1, <2>2
<1>19. WindowLimit'
  <2>1. ASSUME NEW c \in Client, NEW t \in Clock, t < clock'
        PROVE  Through(c, t)' = Through(c, t)
    <3>1. q \notin Through(c, t) /\ q \notin Through(c, t)'
      <4>1. t \in Nat /\ ~(clock <= t)
        BY <1>2, <1>3, <2>1 DEF Clock
      <4> QED  BY <1>6, <1>12, <4>1 DEF Through
    <3>2. \A r \in Webhook : r # q => (r \in Through(c, t)' <=> r \in Through(c, t))
      BY <1>10, <1>14 DEF Through
    <3>3. \A r \in Through(c, t)' : r \in Webhook
      BY DEF Through
    <3>4. \A r \in Through(c, t) : r \in Webhook
      BY DEF Through
    <3>5. \A r : r \in Through(c, t)' <=> r \in Through(c, t)
      BY <3>1, <3>2, <3>3, <3>4
    <3> QED  BY <3>5
  <2>2. forgotten \subseteq forgotten'
    BY <1>20
  <2> QED  BY <1>11, <1>18, <2>1, <2>2, WindowsKept DEF WindowIInv, StoreIInv
<1> QED  BY <1>11, <1>13, <1>18, <1>19 DEF WindowIInv

LEMMA WindowStepKeepsIInv == WindowIInv /\ [WebhookNext]_webhookVars => WindowIInv'
<1> SUFFICES ASSUME WindowIInv, [WebhookNext]_webhookVars PROVE WindowIInv'
  OBVIOUS
<1>0. StoreIInv' /\ StoreTypeOK
  BY StoreStepKeepsIInv DEF WindowIInv, StoreIInv
<1> USE DEF maps, record, Reach
<1>1. CASE TickWebhook \/ UNCHANGED webhookVars
  <2>1. clock <= clock'
    BY <1>0, <1>1, WebhookConstants DEF TickWebhook, webhookVars, StoreTypeOK, Clock
  <2> QED  BY <1>0, <1>1, <2>1, LimiterAlone DEF TickWebhook, webhookVars
<1>2. ASSUME NEW q \in Webhook,
             Arrive(q) \/ Refuse(q) \/ Unkeyed(q) \/ ReadClock(q) \/ Respond(q) \/ RecordIfNew(q)
      PROVE  WindowIInv'
  <2>1. UNCHANGED <<clock, stamps, admitted>> /\ forgotten \subseteq forgotten'
    BY <1>2 DEF Arrive, Refuse, Unkeyed, ReadClock, Respond, RecordIfNew
  <2>2. clock <= clock'
    BY <1>0, <2>1, WebhookConstants DEF StoreTypeOK, Clock
  <2>3. \A r \in Webhook : <<r, "arrived">> \in hurried' <=> <<r, "arrived">> \in hurried
    BY <1>2 DEF Arrive, Refuse, Unkeyed, ReadClock, Respond, RecordIfNew, Hurry
  <2>4. \A r \in Webhook : phase'[r] \in {"new", "arrived"} => phase[r] \in {"new", "arrived"}
    BY <1>0, <1>2 DEF Arrive, Refuse, Unkeyed, ReadClock, Respond, RecordIfNew, StoreTypeOK
  <2> QED  BY <1>0, <2>1, <2>2, <2>3, <2>4, LimiterAlone
<1>3. ASSUME NEW q \in Webhook, Allow(q) PROVE WindowIInv'
  BY <1>0, <1>3, AllowKeeps
<1> QED  BY <1>1, <1>2, <1>3 DEF WebhookNext, WebhookStep

\* A client that was not displaced gets no more calls through in any window than the
\* limit: see WindowLimit for the calls this is said of.
THEOREM LimitHolds == WebhookSpec => []WindowLimit
<1>1. WindowIInv => WindowLimit
  BY DEF WindowIInv
<1> QED  BY <1>1, WindowInitIInv, WindowStepKeepsIInv, PTL DEF WebhookSpec
=============================================================================
