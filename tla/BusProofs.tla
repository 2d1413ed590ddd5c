----------------------------- MODULE BusProofs -----------------------------
(***************************************************************************)
(* Proofs about the coordination bus, for any number of agents, messages,  *)
(* keys and correlations and any limits.                                   *)
(*                                                                         *)
(* Every index of the bus is a selection: the list it indexes without what *)
(* is not under its key.  So most of the argument is an algebra of Only:   *)
(* how a selection follows when an element is appended to the list, leaves *)
(* its head or is removed from its middle.  With it the queues (dead       *)
(* letters, inboxes, the window of ids) and the context are two            *)
(* invariants, each kept by every operation.                               *)
(*                                                                         *)
(* The clients: the window is the end of what was accepted, so an id that  *)
(* is accepted again has left it.  The lock: a version that the slow       *)
(* client read and that the key still has is still of the same write,      *)
(* unless the key was evicted, because a key's version only moves on.      *)
(*                                                                         *)
(* The delegations: the context lists those it shows in the order of their *)
(* last writes, and once a delegation is shown so are those written after  *)
(* it.  An eviction keeps that, for it takes the head of the list; and it  *)
(* leaves the context full, so who is missing has MaxContext others after  *)
(* it.                                                                     *)
(***************************************************************************)
EXTENDS CoordinationClients, DelegateTrace, FiniteSetTheorems, SequenceTheorems, TLAPS

-----------------------------------------------------------------------------
(* Induction over the numbers and over sequences, for sets.                *)

LEMMA LeastNumber ==
  ASSUME NEW S, S # {}, IsFiniteSet(S), S \subseteq Nat
  PROVE  \E n \in S : \A m \in S : n <= m
<1> DEFINE Down(n) == {m \in S : m < n}
           Downs == {Down(n) : n \in S}
           R == StrictSubsetOrdering(S)
<1>1. IsWellFoundedOn(R, FiniteSubsetsOf(S))
  BY FS_StrictSubsetOrderingWellFounded
<1>2. Downs \subseteq FiniteSubsetsOf(S) /\ Downs # {}
  <2>1. \A T \in SUBSET S : T \in FiniteSubsetsOf(S)
    BY FS_Subset DEF FiniteSubsetsOf
  <2>2. \A n \in S : Down(n) \in SUBSET S
    OBVIOUS
  <2> QED BY <2>1, <2>2
<1>3. PICK U \in Downs : \A V \in Downs : ~(<<V, U>> \in R)
  BY <1>1, <1>2, WFMin
<1>4. PICK n \in S : U = Down(n)
  OBVIOUS
<1>5. ASSUME NEW m \in S, ~(n <= m)
      PROVE  FALSE
  <2>1. m < n
    BY <1>5
  <2>2. Down(m) \subseteq Down(n) /\ m \in Down(n) /\ m \notin Down(m)
    <3>1. m \in Nat /\ n \in Nat /\ \A k \in S : k \in Nat
      OBVIOUS
    <3>2. \A k \in S : k < m => k < n
      BY <2>1, <3>1
    <3>3. ~(m < m)
      BY <3>1
    <3> QED BY <2>1, <3>2, <3>3
  <2>3. <<Down(m), Down(n)>> \in R
    BY <2>2 DEF StrictSubsetOrdering
  <2> QED BY <1>3, <1>4, <2>3
<1> QED BY <1>5

LEMMA SetInduction ==
  ASSUME NEW A, 0 \in A, \A n \in Nat : n \in A => n + 1 \in A
  PROVE  Nat \subseteq A
<1> SUFFICES ASSUME NEW n \in Nat, n \notin A PROVE FALSE
  OBVIOUS
<1> DEFINE B == {m \in 0..n : m \notin A}
<1>1. B # {} /\ B \subseteq Nat /\ B \subseteq 0..n
  OBVIOUS
<1>2. IsFiniteSet(B)
  <2>1. IsFiniteSet(0..n)
    BY FS_Interval
  <2> QED BY <1>1, <2>1, FS_Subset
<1>3. PICK m \in B : \A k \in B : m <= k
  <2> HIDE DEF B
  <2> QED BY <1>1, <1>2, LeastNumber
<1>4. m # 0 /\ m - 1 \in Nat /\ m - 1 \notin B
  BY <1>3
<1>5. m - 1 \in A
  BY <1>4, <1>3
<1> QED BY <1>5, <1>4, <1>3

LEMMA AppendedSequence ==
  ASSUME NEW S, NEW s \in Seq(S), s # <<>>
  PROVE  \E t \in Seq(S), x \in S : s = Append(t, x) /\ Len(s) = Len(t) + 1
<1>1. PICK n \in Nat : Len(s) = n + 1
  <2>1. Len(s) \in Nat \ {0}
    BY EmptySeq
  <2>2. Len(s) - 1 \in Nat /\ Len(s) = (Len(s) - 1) + 1
    BY <2>1
  <2> QED BY <2>2
<1> DEFINE t == SubSeq(s, 1, n)
           x == s[n + 1]
<1>2. x \in S
  <2>1. n + 1 \in 1..Len(s)
    BY <1>1
  <2> QED BY <2>1, ElementOfSeq
<1>3. /\ t \in Seq(S)
      /\ Len(t) = IF 1 <= n THEN n - 1 + 1 ELSE 0
      /\ \A i \in 1..(n - 1 + 1) : t[i] = s[1 + i - 1]
  <2>1. 1 \in Int /\ n \in Int /\ \A i \in 1..n : s[i] \in S
    <3>1. \A i \in 1..n : i \in 1..Len(s)
      BY <1>1
    <3> QED BY <3>1, ElementOfSeq
  <2> QED BY <2>1, SubSeqProperties
<1> HIDE DEF t, x
<1>4. Len(t) = n /\ \A i \in 1..n : t[i] = s[i]
  BY <1>3
<1>5. s = Append(t, x)
  <2>1. /\ Append(t, x) \in Seq(S) /\ Len(Append(t, x)) = n + 1
        /\ \A i \in 1..n : Append(t, x)[i] = t[i]
        /\ Append(t, x)[n + 1] = x
    BY <1>2, <1>3, <1>4
  <2>2. \A i \in 1..(n + 1) : Append(t, x)[i] = s[i]
    BY <1>4, <2>1 DEF x
  <2> QED BY <1>1, <2>1, <2>2, SeqEqual
<1>6. Len(s) = Len(t) + 1
  BY <1>1, <1>4
<1> QED BY <1>2, <1>3, <1>5, <1>6

LEMMA SequenceInduction ==
  ASSUME NEW S, NEW A, <<>> \in A,
         \A s \in Seq(S), x \in S : s \in A => Append(s, x) \in A
  PROVE  Seq(S) \subseteq A
<1> DEFINE N == {n \in Nat : \A s \in Seq(S) : Len(s) = n => s \in A}
<1>1. 0 \in N
  BY EmptySeq
<1>2. ASSUME NEW n \in Nat, n \in N
      PROVE  n + 1 \in N
  <2> SUFFICES ASSUME NEW s \in Seq(S), Len(s) = n + 1
               PROVE  s \in A
    OBVIOUS
  <2>1. s # <<>>
    OBVIOUS
  <2>2. PICK t \in Seq(S), x \in S : s = Append(t, x) /\ Len(s) = Len(t) + 1
    BY <2>1, AppendedSequence
  <2>3. t \in A
    BY <1>2, <2>2
  <2> QED BY <2>2, <2>3
<1> HIDE DEF N
<1>3. Nat \subseteq N
  BY <1>1, <1>2, SetInduction
<1> QED BY <1>3 DEF N

-----------------------------------------------------------------------------
(* What Only selects.                                                      *)

\* f is the recursion of Only on the first n of s.
SelectsTo(f, s, T, n) ==
  f = [i \in 0..n |->
         IF i = 0 THEN <<>>
         ELSE IF s[i] \in T THEN Append(f[i - 1], s[i]) ELSE f[i - 1]]

LEMMA SelectionExists ==
  ASSUME NEW s, NEW T, NEW n \in Nat
  PROVE  \E f : SelectsTo(f, s, T, n)
<1> DEFINE N == {m \in Nat : \E f : SelectsTo(f, s, T, m)}
<1>1. 0 \in N
  <2>1. SelectsTo([i \in 0..0 |-> <<>>], s, T, 0)
    BY DEF SelectsTo
  <2> QED BY <2>1
<1>2. ASSUME NEW m \in Nat, m \in N
      PROVE  m + 1 \in N
  <2>1. PICK f : SelectsTo(f, s, T, m)
    BY <1>2
  <2> DEFINE last == IF s[m + 1] \in T THEN Append(f[m], s[m + 1]) ELSE f[m]
             g == [i \in 0..(m + 1) |-> IF i = m + 1 THEN last ELSE f[i]]
             h == [i \in 0..(m + 1) |->
                     IF i = 0 THEN <<>>
                     ELSE IF s[i] \in T THEN Append(g[i - 1], s[i]) ELSE g[i - 1]]
  <2>2. \A i \in 0..m : g[i] = f[i]
    OBVIOUS
  <2>3. \A i \in 0..m : f[i] = IF i = 0 THEN <<>>
                               ELSE IF s[i] \in T THEN Append(f[i - 1], s[i]) ELSE f[i - 1]
    BY <2>1 DEF SelectsTo
  <2>4. ASSUME NEW i \in 0..(m + 1)
        PROVE  g[i] = h[i]
    <3>1. CASE i = m + 1
      <4>1. i # 0 /\ i - 1 = m /\ m \in 0..m
        BY <3>1
      <4> QED BY <3>1, <4>1, <2>2
    <3>2. CASE i \in 1..m
      <4>1. i # 0 /\ i # m + 1 /\ i \in 0..m /\ i - 1 \in 0..m
        BY <3>2
      <4> HIDE DEF g
      <4>2. g[i] = f[i] /\ g[i - 1] = f[i - 1]
        BY <4>1, <2>2
      <4>3. f[i] = IF s[i] \in T THEN Append(f[i - 1], s[i]) ELSE f[i - 1]
        BY <4>1, <2>3
      <4> QED BY <4>1, <4>2, <4>3
    <3>3. CASE i = 0
      <4>1. i \in 0..m
        BY <3>3
      <4> QED BY <3>3, <4>1, <2>2, <2>3
    <3> QED BY <3>1, <3>2, <3>3
  <2>5. g = h
    BY <2>4
  <2>6. SelectsTo(g, s, T, m + 1)
    BY <2>5 DEF SelectsTo
  <2> QED BY <2>6
<1> HIDE DEF N
<1>3. Nat \subseteq N
  BY <1>1, <1>2, SetInduction
<1> QED BY <1>3 DEF N

LEMMA OnlyIs ==
  ASSUME NEW S, NEW s \in Seq(S), NEW T
  PROVE  \E f : SelectsTo(f, s, T, Len(s)) /\ Only(s, T) = f[Len(s)]
<1> DEFINE F == CHOOSE f : SelectsTo(f, s, T, Len(s))
<1>1. Len(s) \in Nat
  OBVIOUS
<1>2. SelectsTo(F, s, T, Len(s))
  BY <1>1, SelectionExists
<1>3. Only(s, T) = F[Len(s)]
  BY DEF Only, SelectsTo
<1> QED BY <1>2, <1>3

LEMMA SelectionValues ==
  \A s, T, f : \A n \in Nat : SelectsTo(f, s, T, n) =>
    /\ f[0] = <<>>
    /\ \A i \in 1..n : f[i] = IF s[i] \in T THEN Append(f[i - 1], s[i]) ELSE f[i - 1]
<1> SUFFICES ASSUME NEW s, NEW T, NEW f, NEW n \in Nat, SelectsTo(f, s, T, n)
             PROVE  /\ f[0] = <<>>
                    /\ \A i \in 1..n :
                         f[i] = IF s[i] \in T THEN Append(f[i - 1], s[i]) ELSE f[i - 1]
  OBVIOUS
<1>1. \A i \in 0..n : f[i] = IF i = 0 THEN <<>>
                             ELSE IF s[i] \in T THEN Append(f[i - 1], s[i]) ELSE f[i - 1]
  BY DEF SelectsTo
<1>2. 0 \in 0..n /\ \A i \in 1..n : i \in 0..n /\ i # 0
  OBVIOUS
<1> QED BY <1>1, <1>2

LEMMA SelectionUnique ==
  \A s, t, T, f, g : \A n, m \in Nat :
    /\ n <= m
    /\ \A i \in 1..n : s[i] = t[i]
    /\ SelectsTo(f, s, T, n)
    /\ SelectsTo(g, t, T, m)
    => \A i \in 0..n : f[i] = g[i]
<1> SUFFICES ASSUME NEW s, NEW t, NEW T, NEW f, NEW g, NEW n \in Nat, NEW m \in Nat,
                    n <= m, \A i \in 1..n : s[i] = t[i],
                    SelectsTo(f, s, T, n), SelectsTo(g, t, T, m)
             PROVE  \A i \in 0..n : f[i] = g[i]
  OBVIOUS
<1> DEFINE N == {i \in Nat : i <= n => f[i] = g[i]}
<1>a. /\ f[0] = <<>>
      /\ \A i \in 1..n : f[i] = IF s[i] \in T THEN Append(f[i - 1], s[i]) ELSE f[i - 1]
  BY SelectionValues
<1>b. /\ g[0] = <<>>
      /\ \A i \in 1..m : g[i] = IF t[i] \in T THEN Append(g[i - 1], t[i]) ELSE g[i - 1]
  BY SelectionValues
<1>1. 0 \in N
  BY <1>a, <1>b
<1>2. ASSUME NEW i \in Nat, i \in N
      PROVE  i + 1 \in N
  <2> SUFFICES ASSUME i + 1 <= n PROVE f[i + 1] = g[i + 1]
    OBVIOUS
  <2>1. f[i] = g[i]
    BY <1>2
  <2>2. i + 1 \in 1..n /\ i + 1 \in 1..m /\ (i + 1) - 1 = i
    OBVIOUS
  <2>3. f[i + 1] = IF s[i + 1] \in T THEN Append(f[i], s[i + 1]) ELSE f[i]
    BY <2>2, <1>a
  <2>4. g[i + 1] = IF t[i + 1] \in T THEN Append(g[i], t[i + 1]) ELSE g[i]
    BY <2>2, <1>b
  <2>5. s[i + 1] = t[i + 1]
    BY <2>2
  <2> QED BY <2>1, <2>3, <2>4, <2>5
<1> HIDE DEF N
<1>3. Nat \subseteq N
  BY <1>1, <1>2, SetInduction
<1> QED BY <1>3 DEF N

LEMMA OnlyNone ==
  ASSUME NEW T
  PROVE  Only(<<>>, T) = <<>>
<1>1. <<>> \in Seq({}) /\ Len(<<>>) = 0 /\ 0 \in Nat
  OBVIOUS
<1>2. PICK f : SelectsTo(f, <<>>, T, 0) /\ Only(<<>>, T) = f[0]
  BY <1>1, OnlyIs
<1>3. f[0] = <<>>
  BY <1>1, <1>2, SelectionValues
<1> QED BY <1>2, <1>3

LEMMA OnlyAppend ==
  ASSUME NEW S, NEW s \in Seq(S), NEW x \in S, NEW T
  PROVE  Only(Append(s, x), T) = IF x \in T THEN Append(Only(s, T), x) ELSE Only(s, T)
<1> DEFINE n == Len(s)
           t == Append(s, x)
<1>1. t \in Seq(S) /\ Len(t) = n + 1 /\ t[n + 1] = x /\ \A i \in 1..n : s[i] = t[i]
  OBVIOUS
<1>2. PICK f : SelectsTo(f, s, T, n) /\ Only(s, T) = f[n]
  BY OnlyIs
<1> HIDE DEF t
<1>3. PICK g : SelectsTo(g, t, T, n + 1) /\ Only(t, T) = g[n + 1]
  BY <1>1, OnlyIs
<1>a. n \in Nat /\ n + 1 \in Nat /\ n <= n + 1 /\ n \in 0..n /\ n + 1 \in 1..(n + 1) /\ (n + 1) - 1 = n
  OBVIOUS
<1> HIDE DEF n
<1>4. f[n] = g[n]
  BY <1>a, <1>1, <1>2, <1>3, SelectionUnique
<1>5. g[n + 1] = IF t[n + 1] \in T THEN Append(g[n], t[n + 1]) ELSE g[n]
  BY <1>a, <1>3, SelectionValues
<1>6. Only(t, T) = IF x \in T THEN Append(Only(s, T), x) ELSE Only(s, T)
  BY <1>1, <1>2, <1>3, <1>4, <1>5
<1> QED BY <1>6 DEF t

LEMMA SetOfAppend ==
  ASSUME NEW S, NEW s \in Seq(S), NEW x \in S
  PROVE  ToSet(Append(s, x)) = ToSet(s) \cup {x} /\ ToSet(s) \subseteq S
<1> DEFINE t == Append(s, x)
<1>1. /\ DOMAIN t = 1..(Len(s) + 1) /\ DOMAIN s = 1..Len(s) /\ Len(s) \in Nat
      /\ t[Len(s) + 1] = x /\ \A i \in 1..Len(s) : t[i] = s[i]
  OBVIOUS
<1>2. \A i \in 1..Len(s) : s[i] \in S
  BY ElementOfSeq
<1> HIDE DEF t
<1>3. ToSet(t) \subseteq ToSet(s) \cup {x}
  BY <1>1 DEF ToSet
<1>4. ToSet(s) \subseteq ToSet(t)
  BY <1>1 DEF ToSet
<1>5. x \in ToSet(t)
  <2>1. Len(s) + 1 \in DOMAIN t
    BY <1>1
  <2> QED BY <1>1, <2>1 DEF ToSet
<1>6. ToSet(s) \subseteq S
  BY <1>1, <1>2 DEF ToSet
<1> QED BY <1>3, <1>4, <1>5, <1>6 DEF t

LEMMA SetOfNone == ToSet(<<>>) = {}
BY DEF ToSet

\* No element occurs twice.
Distinct(s) == \A i, j \in DOMAIN s : s[i] = s[j] => i = j

LEMMA DistinctAppend ==
  ASSUME NEW S, NEW s \in Seq(S), NEW x \in S
  PROVE  Distinct(Append(s, x)) <=> Distinct(s) /\ x \notin ToSet(s)
<1> DEFINE t == Append(s, x)
<1>1. /\ DOMAIN t = 1..(Len(s) + 1) /\ DOMAIN s = 1..Len(s) /\ Len(s) \in Nat
      /\ t[Len(s) + 1] = x /\ \A i \in 1..Len(s) : t[i] = s[i]
  OBVIOUS
<1> HIDE DEF t
<1>2. ASSUME Distinct(t)
      PROVE  Distinct(s) /\ x \notin ToSet(s)
  <2>1. Distinct(s)
    BY <1>1, <1>2 DEF Distinct
  <2>2. ASSUME NEW i \in 1..Len(s), s[i] = x
        PROVE  FALSE
    BY <1>1, <1>2, <2>2 DEF Distinct
  <2> QED BY <1>1, <2>1, <2>2 DEF ToSet
<1>3. ASSUME Distinct(s), x \notin ToSet(s)
      PROVE  Distinct(t)
  <2>1. \A i \in 1..Len(s) : s[i] # x
    BY <1>1, <1>3 DEF ToSet
  <2> QED BY <1>1, <1>3, <2>1 DEF Distinct
<1> QED BY <1>2, <1>3 DEF t

LEMMA OnlyTyped ==
  ASSUME NEW S, NEW T
  PROVE  \A s \in Seq(S) :
           /\ Only(s, T) \in Seq(S)
           /\ ToSet(Only(s, T)) = ToSet(s) \cap T
           /\ Len(Only(s, T)) <= Len(s)
<1> DEFINE Good(s) == /\ Only(s, T) \in Seq(S)
                      /\ ToSet(Only(s, T)) = ToSet(s) \cap T
                      /\ Len(Only(s, T)) <= Len(s)
           A == {s \in Seq(S) : Good(s)}
<1>1. <<>> \in A
  <2>1. <<>> \in Seq(S) /\ Len(<<>>) = 0 /\ Only(<<>>, T) = <<>>
    BY OnlyNone
  <2>2. ToSet(Only(<<>>, T)) = ToSet(<<>>) \cap T
    BY <2>1, SetOfNone
  <2>3. Only(<<>>, T) \in Seq(S) /\ Len(Only(<<>>, T)) <= Len(<<>>)
    <3>1. Len(<<>>) <= Len(<<>>)
      OBVIOUS
    <3> QED BY <2>1, <3>1
  <2> QED BY <2>1, <2>2, <2>3
<1>2. ASSUME NEW s \in Seq(S), NEW x \in S, s \in A
      PROVE  Append(s, x) \in A
  <2>1. Only(s, T) \in Seq(S)
    BY <1>2
  <2>2. ToSet(Only(s, T)) = ToSet(s) \cap T
    BY <1>2
  <2>3. Len(Only(s, T)) <= Len(s)
    BY <1>2
  <2>4. Only(Append(s, x), T) = IF x \in T THEN Append(Only(s, T), x) ELSE Only(s, T)
    BY OnlyAppend
  <2>5. /\ ToSet(Append(s, x)) = ToSet(s) \cup {x}
        /\ ToSet(Append(Only(s, T), x)) = ToSet(Only(s, T)) \cup {x}
    BY <2>1, SetOfAppend
  <2>6. /\ Append(s, x) \in Seq(S) /\ Len(Append(s, x)) = Len(s) + 1 /\ Len(s) \in Nat
        /\ Append(Only(s, T), x) \in Seq(S)
        /\ Len(Append(Only(s, T), x)) = Len(Only(s, T)) + 1 /\ Len(Only(s, T)) \in Nat
    BY <2>1
  <2>7. Only(Append(s, x), T) \in Seq(S)
    BY <2>1, <2>4, <2>6
  <2>8. ToSet(Only(Append(s, x), T)) = ToSet(Append(s, x)) \cap T
    BY <2>2, <2>4, <2>5
  <2>9. Len(Only(Append(s, x), T)) <= Len(Append(s, x))
    BY <2>3, <2>4, <2>6
  <2> QED BY <2>6, <2>7, <2>8, <2>9
<1> HIDE DEF A
<1>3. Seq(S) \subseteq A
  BY <1>1, <1>2, SequenceInduction
<1> QED BY <1>3 DEF A

LEMMA OnlySame ==
  ASSUME NEW S, NEW T, NEW U
  PROVE  \A s \in Seq(S) : (ToSet(s) \cap T = ToSet(s) \cap U) => Only(s, T) = Only(s, U)
<1> DEFINE Good(s) == (ToSet(s) \cap T = ToSet(s) \cap U) => Only(s, T) = Only(s, U)
           A == {s \in Seq(S) : Good(s)}
<1>1. <<>> \in A
  BY OnlyNone
<1>2. ASSUME NEW s \in Seq(S), NEW x \in S, s \in A
      PROVE  Append(s, x) \in A
  <2> SUFFICES ASSUME ToSet(Append(s, x)) \cap T = ToSet(Append(s, x)) \cap U
               PROVE  Only(Append(s, x), T) = Only(Append(s, x), U)
    OBVIOUS
  <2>1. ToSet(Append(s, x)) = ToSet(s) \cup {x}
    BY SetOfAppend
  <2>2. (ToSet(s) \cap T = ToSet(s) \cap U) /\ (x \in T <=> x \in U)
    BY <2>1
  <2>3. Only(s, T) = Only(s, U)
    BY <1>2, <2>2
  <2>4. /\ Only(Append(s, x), T) = IF x \in T THEN Append(Only(s, T), x) ELSE Only(s, T)
        /\ Only(Append(s, x), U) = IF x \in U THEN Append(Only(s, U), x) ELSE Only(s, U)
    BY OnlyAppend
  <2>5. CASE x \in T
    BY <2>2, <2>3, <2>4, <2>5
  <2>6. CASE x \notin T
    BY <2>2, <2>3, <2>4, <2>6
  <2> QED BY <2>5, <2>6
<1> HIDE DEF A
<1>3. Seq(S) \subseteq A
  BY <1>1, <1>2, SequenceInduction
<1> QED BY <1>3 DEF A

LEMMA OnlyAll ==
  ASSUME NEW S
  PROVE  \A s \in Seq(S) : Only(s, S) = s
<1> DEFINE A == {s \in Seq(S) : Only(s, S) = s}
<1>1. <<>> \in A
  BY OnlyNone
<1>2. ASSUME NEW s \in Seq(S), NEW x \in S, s \in A
      PROVE  Append(s, x) \in A
  <2>1. Only(Append(s, x), S) = Append(Only(s, S), x)
    BY OnlyAppend
  <2> QED BY <1>2, <2>1
<1> HIDE DEF A
<1>3. Seq(S) \subseteq A
  BY <1>1, <1>2, SequenceInduction
<1> QED BY <1>3 DEF A

LEMMA OnlyOnly ==
  ASSUME NEW S, NEW T, NEW U
  PROVE  \A s \in Seq(S) : Only(Only(s, T), U) = Only(s, T \cap U)
<1> DEFINE A == {s \in Seq(S) : Only(Only(s, T), U) = Only(s, T \cap U)}
<1>1. <<>> \in A
  BY OnlyNone
<1>2. ASSUME NEW s \in Seq(S), NEW x \in S, s \in A
      PROVE  Append(s, x) \in A
  <2>1. Only(s, T) \in Seq(S)
    BY OnlyTyped
  <2>2. /\ Only(Append(s, x), T) = IF x \in T THEN Append(Only(s, T), x) ELSE Only(s, T)
        /\ Only(Append(s, x), T \cap U) =
             IF x \in T \cap U THEN Append(Only(s, T \cap U), x) ELSE Only(s, T \cap U)
    BY OnlyAppend
  <2>3. Only(Append(Only(s, T), x), U) =
          IF x \in U THEN Append(Only(Only(s, T), U), x) ELSE Only(Only(s, T), U)
    BY <2>1, OnlyAppend
  <2>4. Only(Only(s, T), U) = Only(s, T \cap U)
    BY <1>2
  <2>5. Only(Only(Append(s, x), T), U) = Only(Append(s, x), T \cap U)
    <3>1. CASE x \in T
      <4>1. CASE x \in U
        BY <2>2, <2>3, <2>4, <3>1, <4>1
      <4>2. CASE x \notin U
        BY <2>2, <2>3, <2>4, <3>1, <4>2
      <4> QED BY <4>1, <4>2
    <3>2. CASE x \notin T
      BY <2>2, <2>4, <3>2
    <3> QED BY <3>1, <3>2
  <2> QED BY <2>5
<1> HIDE DEF A
<1>3. Seq(S) \subseteq A
  BY <1>1, <1>2, SequenceInduction
<1> QED BY <1>3 DEF A

LEMMA OnlyDistinct ==
  ASSUME NEW S, NEW T
  PROVE  \A s \in Seq(S) : Distinct(s) => Distinct(Only(s, T))
<1> DEFINE A == {s \in Seq(S) : Distinct(s) => Distinct(Only(s, T))}
<1>1. <<>> \in A
  <2>1. Distinct(<<>>)
    BY DEF Distinct
  <2> QED BY <2>1, OnlyNone
<1>2. ASSUME NEW s \in Seq(S), NEW x \in S, s \in A
      PROVE  Append(s, x) \in A
  <2> SUFFICES ASSUME Distinct(Append(s, x))
               PROVE  Distinct(Only(Append(s, x), T))
    OBVIOUS
  <2>1. Distinct(s) /\ x \notin ToSet(s)
    BY DistinctAppend
  <2>2. Only(s, T) \in Seq(S) /\ ToSet(Only(s, T)) = ToSet(s) \cap T
    BY OnlyTyped
  <2>3. Distinct(Only(s, T)) /\ x \notin ToSet(Only(s, T))
    BY <1>2, <2>1, <2>2
  <2>4. Distinct(Append(Only(s, T), x))
    BY <2>2, <2>3, DistinctAppend
  <2>5. Only(Append(s, x), T) = IF x \in T THEN Append(Only(s, T), x) ELSE Only(s, T)
    BY OnlyAppend
  <2> QED BY <2>3, <2>4, <2>5
<1> HIDE DEF A
<1>3. Seq(S) \subseteq A
  BY <1>1, <1>2, SequenceInduction
<1> QED BY <1>3 DEF A

LEMMA OnlyConcat ==
  ASSUME NEW S, NEW T, NEW s \in Seq(S)
  PROVE  \A t \in Seq(S) : Only(s \o t, T) = Only(s, T) \o Only(t, T)
<1> DEFINE A == {t \in Seq(S) : Only(s \o t, T) = Only(s, T) \o Only(t, T)}
<1>0. Only(s, T) \in Seq(S)
  BY OnlyTyped
<1>1. <<>> \in A
  <2>1. s \o <<>> = s /\ Only(s, T) \o <<>> = Only(s, T) /\ <<>> \in Seq(S)
    BY <1>0, ConcatEmptySeq
  <2> QED BY <2>1, OnlyNone
<1>2. ASSUME NEW t \in Seq(S), NEW x \in S, t \in A
      PROVE  Append(t, x) \in A
  <2>1. Only(t, T) \in Seq(S) /\ s \o t \in Seq(S)
    BY OnlyTyped
  <2>2. s \o Append(t, x) = Append(s \o t, x)
    OBVIOUS
  <2>3. Only(s, T) \o Append(Only(t, T), x) = Append(Only(s, T) \o Only(t, T), x)
    BY <1>0, <2>1
  <2>4. /\ Only(Append(s \o t, x), T) =
             IF x \in T THEN Append(Only(s \o t, T), x) ELSE Only(s \o t, T)
        /\ Only(Append(t, x), T) = IF x \in T THEN Append(Only(t, T), x) ELSE Only(t, T)
    BY <2>1, OnlyAppend
  <2>5. Only(s \o t, T) = Only(s, T) \o Only(t, T)
    BY <1>2
  <2>6. Only(s \o Append(t, x), T) = Only(s, T) \o Only(Append(t, x), T)
    BY <2>2, <2>3, <2>4, <2>5
  <2> QED BY <2>6
<1> HIDE DEF A
<1>3. Seq(S) \subseteq A
  BY <1>1, <1>2, SequenceInduction
<1> QED BY <1>3 DEF A

LEMMA HeadAndTail ==
  ASSUME NEW S, NEW s \in Seq(S), s # <<>>
  PROVE  s = <<Head(s)>> \o Tail(s)
<1> DEFINE h == Head(s)
           t == Tail(s)
<1>1. /\ h \in S /\ t \in Seq(S) /\ Len(t) = Len(s) - 1 /\ Len(s) \in Nat
      /\ \A i \in 1..Len(t) : t[i] = s[i + 1]
      /\ h = s[1]
  BY HeadTailProperties
<1> HIDE DEF h, t
<1>2. <<h>> \in Seq(S) /\ <<h>> \o t \in Seq(S) /\ Len(<<h>> \o t) = Len(s)
  BY <1>1
<1>3. \A i \in 1..Len(s) : s[i] = (<<h>> \o t)[i]
  <2> SUFFICES ASSUME NEW i \in 1..Len(s) PROVE s[i] = (<<h>> \o t)[i]
    OBVIOUS
  <2>1. CASE i = 1
    BY <1>1, <2>1
  <2>2. CASE i # 1
    <3>1. i - 1 \in 1..Len(t) /\ (i - 1) + 1 = i
      BY <1>1, <2>2
    <3>2. (<<h>> \o t)[i] = t[i - 1]
      BY <1>1, <3>1
    <3>3. t[i - 1] = s[i]
      BY <1>1, <3>1
    <3> QED BY <3>2, <3>3
  <2> QED BY <2>1, <2>2
<1>4. s = <<h>> \o t
  BY <1>2, <1>3, SeqEqual
<1> QED BY <1>4 DEF h, t

LEMMA OnlyOne ==
  ASSUME NEW S, NEW h \in S, NEW T
  PROVE  Only(<<h>>, T) = IF h \in T THEN <<h>> ELSE <<>>
<1> DEFINE z == <<>>
<1>1. z \in Seq(S) /\ <<h>> = Append(z, h)
  OBVIOUS
<1> HIDE DEF z
<1>2. Only(Append(z, h), T) = IF h \in T THEN Append(Only(z, T), h) ELSE Only(z, T)
  BY <1>1, OnlyAppend
<1>3. Only(z, T) = z
  BY OnlyNone DEF z
<1> QED BY <1>1, <1>2, <1>3 DEF z

LEMMA OnlyTail ==
  ASSUME NEW S, NEW s \in Seq(S), s # <<>>, NEW T
  PROVE  /\ Head(s) \in T => /\ Only(s, T) # <<>>
                             /\ Tail(Only(s, T)) = Only(Tail(s), T)
         /\ Head(s) \notin T => Only(s, T) = Only(Tail(s), T)
<1> DEFINE h == Head(s)
           t == Tail(s)
<1>1. h \in S /\ t \in Seq(S) /\ s = <<h>> \o t
  BY HeadTailProperties, HeadAndTail
<1> HIDE DEF h, t
<1>2. <<h>> \in Seq(S)
  BY <1>1
<1>4. Only(s, T) = Only(<<h>>, T) \o Only(t, T)
  BY <1>1, <1>2, OnlyConcat
<1>5. Only(<<h>>, T) = IF h \in T THEN <<h>> ELSE <<>>
  BY <1>1, OnlyOne
<1>6. Only(t, T) \in Seq(S)
  BY <1>1, OnlyTyped
<1>7. ASSUME h \in T
      PROVE  /\ Only(s, T) # <<>>
             /\ Tail(Only(s, T)) = Only(t, T)
  <2> DEFINE r == Only(t, T)
  <2>0. r \in Seq(S) /\ Only(s, T) = <<h>> \o r
    BY <1>4, <1>5, <1>6, <1>7
  <2> HIDE DEF r
  <2>1. /\ <<h>> \o r \in Seq(S) /\ Len(<<h>> \o r) = Len(r) + 1 /\ Len(r) \in Nat
        /\ \A i \in 1..Len(r) : (<<h>> \o r)[i + 1] = r[i]
    BY <1>1, <2>0
  <2>2. <<h>> \o r # <<>>
    BY <2>1
  <2>3. Tail(<<h>> \o r) = r
    <3>1. /\ Tail(<<h>> \o r) \in Seq(S) /\ Len(Tail(<<h>> \o r)) = Len(r)
          /\ \A i \in 1..Len(r) : Tail(<<h>> \o r)[i] = (<<h>> \o r)[i + 1]
      BY <2>1, <2>2, HeadTailProperties
    <3> QED BY <2>0, <2>1, <3>1, SeqEqual
  <2> QED BY <2>0, <2>1, <2>2, <2>3 DEF r
<1>8. ASSUME h \notin T
      PROVE  Only(s, T) = Only(t, T)
  BY <1>4, <1>5, <1>6, <1>8, ConcatEmptySeq
<1> QED BY <1>7, <1>8 DEF h, t

LEMMA OnlyKeeps ==
  ASSUME NEW S, NEW T
  PROVE  \A s \in Seq(S) : ToSet(s) \subseteq T => Only(s, T) = s
<1> SUFFICES ASSUME NEW s \in Seq(S), ToSet(s) \subseteq T
             PROVE  Only(s, T) = s
  OBVIOUS
<1>1. ToSet(s) \subseteq S
  BY ElementOfSeq DEF ToSet
<1>2. ToSet(s) \cap T = ToSet(s) \cap S
  BY <1>1
<1> QED BY <1>2, OnlySame, OnlyAll

LEMMA RemoveFirstIs ==
  ASSUME NEW S, NEW s \in Seq(S), Distinct(s), NEW e
  PROVE  RemoveFirst(s, e) = Only(s, S \ {e})
<1> DEFINE n == Len(s)
           T == S \ {e}
<1>0. n \in Nat /\ DOMAIN s = 1..n /\ \A i \in 1..n : s[i] \in S
  BY ElementOfSeq
<1>1. CASE ~\E i \in 1..n : s[i] = e
  <2>1. RemoveFirst(s, e) = s
    BY <1>1 DEF RemoveFirst
  <2>2. ToSet(s) \subseteq T
    BY <1>0, <1>1 DEF ToSet
  <2>3. Only(s, T) = s
    BY <2>2, OnlyKeeps
  <2> QED BY <2>1, <2>3
<1>2. CASE \E i \in 1..n : s[i] = e
  <2>1. PICK j \in 1..n : s[j] = e
    BY <1>2
  <2>2. \A i \in 1..n : s[i] = e => i = j
    BY <1>0, <2>1 DEF Distinct
  <2>3. SelectInSeq(s, LAMBDA v : v = e) = j
    <3> DEFINE I == {i \in 1..Len(s) : s[i] = e}
    <3>1. I = {j}
      BY <2>1, <2>2
    <3>2. Min({j}) = j
      BY <2>1 DEF Min
    <3>3. SelectInSeq(s, LAMBDA v : v = e) = IF I # {} THEN Min(I) ELSE 0
      BY DEF SelectInSeq
    <3> HIDE DEF I
    <3> QED BY <3>1, <3>2, <3>3
  <2> DEFINE a == SubSeq(s, 1, j - 1)
             b == SubSeq(s, j + 1, n)
  <2>4. RemoveFirst(s, e) = a \o b
    BY <1>2, <2>3 DEF RemoveFirst, RemoveAt
  <2>5. /\ a \in Seq(S) /\ Len(a) = j - 1 /\ \A i \in 1..(j - 1) : a[i] = s[i]
        /\ b \in Seq(S) /\ Len(b) = n - j /\ \A i \in 1..(n - j) : b[i] = s[j + i]
    <3>1. /\ j \in Int /\ n \in Int /\ 1 <= j /\ j <= n /\ 1 \in Int
          /\ j - 1 \in Int /\ j + 1 \in Int
          /\ \A i \in 1..(j - 1) : s[i] \in S
          /\ \A i \in (j + 1)..n : s[i] \in S
      BY <1>0
    <3>2. /\ a \in Seq(S)
          /\ Len(a) = IF 1 <= j - 1 THEN (j - 1) - 1 + 1 ELSE 0
          /\ \A i \in 1..((j - 1) - 1 + 1) : a[i] = s[1 + i - 1]
      BY <3>1, SubSeqProperties
    <3>3. /\ b \in Seq(S)
          /\ Len(b) = IF j + 1 <= n THEN n - (j + 1) + 1 ELSE 0
          /\ \A i \in 1..(n - (j + 1) + 1) : b[i] = s[(j + 1) + i - 1]
      BY <3>1, SubSeqProperties
    <3> HIDE DEF a, b, n
    <3>4. Len(a) = j - 1 /\ Len(b) = n - j
      BY <3>1, <3>2, <3>3
    <3>5. \A i \in 1..(j - 1) : a[i] = s[i]
      BY <3>1, <3>2
    <3>6. \A i \in 1..(n - j) : b[i] = s[j + i]
      BY <3>1, <3>3
    <3> QED BY <3>2, <3>3, <3>4, <3>5, <3>6
  <2> HIDE DEF a, b
  <2>6. ToSet(a) \subseteq T
    BY <1>0, <2>1, <2>2, <2>5 DEF ToSet
  <2>7. ToSet(b) \subseteq T
    BY <1>0, <2>1, <2>2, <2>5 DEF ToSet
  <2>8. Only(a, T) = a /\ Only(b, T) = b
    BY <2>5, <2>6, <2>7, OnlyKeeps
  <2>9. e \in S
    BY <1>0, <2>1
  <2>10. s = Append(a, e) \o b
    <3>1. /\ Append(a, e) \in Seq(S) /\ Len(Append(a, e)) = j
          /\ \A i \in 1..(j - 1) : Append(a, e)[i] = a[i]
          /\ Append(a, e)[j] = e
      BY <2>1, <2>5, <2>9
    <3>2. /\ Append(a, e) \o b \in Seq(S) /\ Len(Append(a, e) \o b) = n
          /\ \A i \in 1..n : (Append(a, e) \o b)[i] = IF i <= j THEN Append(a, e)[i] ELSE b[i - j]
      <4> DEFINE c == Append(a, e)
      <4>1. c \in Seq(S) /\ Len(c) = j
        BY <3>1
      <4> HIDE DEF c
      <4>2. /\ c \o b \in Seq(S) /\ Len(c \o b) = Len(c) + Len(b)
            /\ \A i \in 1..(Len(c) + Len(b)) : (c \o b)[i] = IF i <= Len(c) THEN c[i] ELSE b[i - Len(c)]
        BY <2>5, <4>1, ConcatProperties
      <4>3. Len(c) + Len(b) = n
        BY <1>0, <2>1, <2>5, <4>1
      <4>4. \A i \in 1..n : (c \o b)[i] = IF i <= j THEN c[i] ELSE b[i - j]
        BY <4>1, <4>2, <4>3
      <4> QED BY <4>2, <4>3, <4>4 DEF c
    <3>3. \A i \in 1..n : (Append(a, e) \o b)[i] = s[i]
      <4> SUFFICES ASSUME NEW i \in 1..n PROVE (Append(a, e) \o b)[i] = s[i]
        OBVIOUS
      <4>1. CASE i < j
        <5>1. i \in 1..(j - 1) /\ i <= j
          BY <1>0, <2>1, <4>1
        <5> QED BY <5>1, <3>1, <3>2, <2>5
      <4>2. CASE i = j
        BY <1>0, <2>1, <4>2, <3>1, <3>2
      <4>3. CASE i > j
        <5>1. i - j \in 1..(n - j) /\ j + (i - j) = i /\ ~(i <= j)
          BY <1>0, <2>1, <4>3
        <5> QED BY <5>1, <3>2, <2>5
      <4>4. i < j \/ i = j \/ i > j
        <5>1. i \in Int /\ j \in Int
          BY <1>0, <2>1
        <5> QED BY <5>1
      <4> QED BY <4>1, <4>2, <4>3, <4>4
    <3> QED BY <3>2, <3>3, SeqEqual
  <2>11. Only(s, T) = Only(Append(a, e), T) \o Only(b, T)
    <3>1. Append(a, e) \in Seq(S)
      BY <2>5, <2>9
    <3> QED BY <2>5, <2>10, <3>1, OnlyConcat
  <2>12. Only(Append(a, e), T) = Only(a, T)
    BY <2>5, <2>9, OnlyAppend
  <2> QED BY <2>4, <2>8, <2>11, <2>12
<1> QED BY <1>1, <1>2

-----------------------------------------------------------------------------
(* Dead letters.                                                           *)

DeadGood(dead) ==
  /\ dead.all \in Seq(Letter) /\ Len(dead.all) <= MaxDead
  /\ dead.by \in [Corr -> Seq(Letter)]
  /\ \A c \in Corr : dead.by[c] = Only(dead.all, OfCorr(Letter, c))

DeadInv ==
  /\ deadLetters \in Seq(Letter) /\ Len(deadLetters) <= MaxDead
  /\ deadByCorr \in [Corr -> Seq(Letter)]
  /\ \A c \in Corr : deadByCorr[c] = Only(deadLetters, OfCorr(Letter, c))

LEMMA BusConstants ==
  /\ NoCorr \notin Corr /\ NoKey \notin Key /\ All \notin Agent
  /\ DelegateOf \in [Key -> Corr \cup {NoCorr}]
  /\ MaxInbox \in Nat \ {0} /\ MaxDead \in Nat \ {0}
  /\ MaxContext \in Nat \ {0} /\ MaxSeen \in Nat \ {0}
BY BusAssumption

\* The oldest letter leaves the list and the index.
LEMMA OldestLeaves ==
  ASSUME NEW all \in Seq(Letter), all # <<>>,
         NEW by \in [Corr -> Seq(Letter)],
         \A c \in Corr : by[c] = Only(all, OfCorr(Letter, c))
  PROVE  /\ DropEvicted(by, Head(all)) \in [Corr -> Seq(Letter)]
         /\ \A c \in Corr : DropEvicted(by, Head(all))[c] = Only(Tail(all), OfCorr(Letter, c))
<1> DEFINE h == Head(all)
           new == DropEvicted(by, h)
<1>1. h \in Letter /\ Tail(all) \in Seq(Letter)
  BY HeadTailProperties
<1>2. h.corr \in Corr \cup {NoCorr}
  BY <1>1 DEF Letter
<1>3. \A c \in Corr : h \in OfCorr(Letter, c) <=> h.corr = c
  BY <1>1 DEF OfCorr
<1>4. \A c \in Corr : /\ h.corr = c => /\ by[c] # <<>>
                                       /\ Tail(by[c]) = Only(Tail(all), OfCorr(Letter, c))
                      /\ h.corr # c => by[c] = Only(Tail(all), OfCorr(Letter, c))
  <2> SUFFICES ASSUME NEW c \in Corr
               PROVE  /\ h.corr = c => /\ by[c] # <<>>
                                       /\ Tail(by[c]) = Only(Tail(all), OfCorr(Letter, c))
                      /\ h.corr # c => by[c] = Only(Tail(all), OfCorr(Letter, c))
    OBVIOUS
  <2> DEFINE T == OfCorr(Letter, c)
  <2>1. h \in T <=> h.corr = c
    BY <1>3
  <2>2. by[c] = Only(all, T)
    OBVIOUS
  <2> HIDE DEF T
  <2>3. /\ Head(all) \in T => Only(all, T) # <<>> /\ Tail(Only(all, T)) = Only(Tail(all), T)
        /\ Head(all) \notin T => Only(all, T) = Only(Tail(all), T)
    BY OnlyTail
  <2> QED BY <2>1, <2>2, <2>3 DEF T
<1> HIDE DEF h
<1>5. CASE h.corr = NoCorr
  <2>1. new = by
    BY <1>5 DEF DropEvicted
  <2>2. \A c \in Corr : h.corr # c
    BY <1>5, BusConstants
  <2> QED BY <1>4, <2>1, <2>2 DEF h
<1>6. CASE h.corr # NoCorr
  <2>1. h.corr \in Corr
    BY <1>2, <1>6
  <2>2. by[h.corr] # <<>>
    BY <1>4, <2>1
  <2>3. new = [by EXCEPT ![h.corr] = Tail(@)]
    BY <1>6, <2>2 DEF DropEvicted
  <2>4. Tail(by[h.corr]) \in Seq(Letter)
    BY <2>1, <2>2, HeadTailProperties
  <2>5. new \in [Corr -> Seq(Letter)]
    BY <2>1, <2>3, <2>4
  <2>6. \A c \in Corr : new[c] = IF c = h.corr THEN Tail(by[c]) ELSE by[c]
    BY <2>1, <2>3
  <2>7. \A c \in Corr : new[c] = Only(Tail(all), OfCorr(Letter, c))
    BY <1>4, <2>6
  <2> QED BY <2>5, <2>7 DEF h
<1> QED BY <1>5, <1>6

LEMMA LetterEnters ==
  ASSUME NEW S, NEW all \in Seq(S), NEW x \in S, x.corr \in Corr \cup {NoCorr},
         NEW by \in [Corr -> Seq(S)],
         \A c \in Corr : by[c] = Only(all, OfCorr(S, c)),
         NEW new, new = IF x.corr = NoCorr THEN by ELSE [by EXCEPT ![x.corr] = Append(@, x)]
  PROVE  /\ new \in [Corr -> Seq(S)]
         /\ \A c \in Corr : new[c] = Only(Append(all, x), OfCorr(S, c))
<1>1. \A c \in Corr : x \in OfCorr(S, c) <=> x.corr = c
  BY DEF OfCorr
<1>2. \A c \in Corr : Only(Append(all, x), OfCorr(S, c)) =
                        IF x.corr = c THEN Append(by[c], x) ELSE by[c]
  <2> SUFFICES ASSUME NEW c \in Corr
               PROVE  Only(Append(all, x), OfCorr(S, c)) =
                        IF x.corr = c THEN Append(by[c], x) ELSE by[c]
    OBVIOUS
  <2> DEFINE T == OfCorr(S, c)
  <2>1. (x \in T <=> x.corr = c) /\ by[c] = Only(all, T)
    BY <1>1
  <2> HIDE DEF T
  <2>2. Only(Append(all, x), T) = IF x \in T THEN Append(Only(all, T), x) ELSE Only(all, T)
    BY OnlyAppend
  <2> QED BY <2>1, <2>2 DEF T
<1>3. CASE x.corr = NoCorr
  <2>1. \A c \in Corr : x.corr # c
    BY <1>3, BusConstants
  <2> QED BY <1>2, <1>3, <2>1
<1>4. CASE x.corr # NoCorr
  <2>1. x.corr \in Corr
    BY <1>4
  <2>2. Append(by[x.corr], x) \in Seq(S)
    BY <2>1
  <2>3. new = [by EXCEPT ![x.corr] = Append(@, x)]
    BY <1>4
  <2>4. /\ new \in [Corr -> Seq(S)]
        /\ \A c \in Corr : new[c] = IF x.corr = c THEN Append(by[c], x) ELSE by[c]
    BY <2>1, <2>2, <2>3
  <2> QED BY <1>2, <2>4
<1> QED BY <1>3, <1>4

LEMMA DeadLetteredKeeps ==
  ASSUME NEW dead, DeadGood(dead), NEW letter \in Letter
  PROVE  DeadGood(DeadLettered(dead, letter))
<1> DEFINE full == Len(dead.all) >= MaxDead
           all == IF full THEN Tail(dead.all) ELSE dead.all
           by == IF full THEN DropEvicted(dead.by, Head(dead.all)) ELSE dead.by
           new == IF letter.corr = NoCorr THEN by
                  ELSE [by EXCEPT ![letter.corr] = Append(@, letter)]
<1>1. /\ dead.all \in Seq(Letter) /\ Len(dead.all) <= MaxDead
      /\ dead.by \in [Corr -> Seq(Letter)]
      /\ \A c \in Corr : dead.by[c] = Only(dead.all, OfCorr(Letter, c))
  BY DEF DeadGood
<1>2. letter.corr \in Corr \cup {NoCorr}
  BY DEF Letter
<1>3. /\ all \in Seq(Letter) /\ Len(all) + 1 <= MaxDead
      /\ by \in [Corr -> Seq(Letter)]
      /\ \A c \in Corr : by[c] = Only(all, OfCorr(Letter, c))
  <2>1. CASE full
    <3>1. dead.all # <<>>
      BY <1>1, <2>1, BusConstants
    <3>2. Tail(dead.all) \in Seq(Letter) /\ Len(Tail(dead.all)) = Len(dead.all) - 1
      BY <1>1, <3>1, HeadTailProperties
    <3>3. all \in Seq(Letter) /\ Len(all) + 1 <= MaxDead
      <4>1. Len(dead.all) \in Nat /\ MaxDead \in Nat
        BY <1>1, BusConstants
      <4> QED BY <1>1, <2>1, <3>2, <4>1
    <3>4. /\ DropEvicted(dead.by, Head(dead.all)) \in [Corr -> Seq(Letter)]
          /\ \A c \in Corr : DropEvicted(dead.by, Head(dead.all))[c]
                               = Only(Tail(dead.all), OfCorr(Letter, c))
      BY <1>1, <3>1, OldestLeaves
    <3> QED BY <2>1, <3>3, <3>4
  <2>2. CASE ~full
    <3>1. Len(dead.all) \in Nat /\ MaxDead \in Nat
      BY <1>1, BusConstants
    <3>2. Len(dead.all) + 1 <= MaxDead
      BY <2>2, <3>1
    <3> QED BY <1>1, <2>2, <3>2
  <2> QED BY <2>1, <2>2
<1>4. DeadLettered(dead, letter) = [all |-> Append(all, letter), by |-> new]
  BY DEF DeadLettered
<1> HIDE DEF all, by
<1>5. /\ new \in [Corr -> Seq(Letter)]
      /\ \A c \in Corr : new[c] = Only(Append(all, letter), OfCorr(Letter, c))
  <2>1. /\ all \in Seq(Letter)
        /\ by \in [Corr -> Seq(Letter)]
        /\ \A c \in Corr : by[c] = Only(all, OfCorr(Letter, c))
    BY <1>3
  <2>2. new = IF letter.corr = NoCorr THEN by
              ELSE [by EXCEPT ![letter.corr] = Append(@, letter)]
    OBVIOUS
  <2> HIDE DEF new
  <2> QED BY <1>2, <2>1, <2>2, LetterEnters
<1>6. Append(all, letter) \in Seq(Letter) /\ Len(Append(all, letter)) = Len(all) + 1
  BY <1>3
<1> HIDE DEF new
<1> QED BY <1>3, <1>4, <1>5, <1>6 DEF DeadGood

\* The recursion of Bury, up to the n-th letter.
Pushes(f, letters, n) ==
  f = [i \in 0..n |-> IF i = 0 THEN [all |-> deadLetters, by |-> deadByCorr]
                      ELSE DeadLettered(f[i - 1], letters[i])]

LEMMA PushesExists ==
  ASSUME NEW letters, NEW n \in Nat
  PROVE  \E f : Pushes(f, letters, n)
<1> DEFINE start == [all |-> deadLetters, by |-> deadByCorr]
           N == {m \in Nat : \E f : Pushes(f, letters, m)}
<1>1. 0 \in N
  <2>1. Pushes([i \in 0..0 |-> start], letters, 0)
    BY DEF Pushes
  <2> QED BY <2>1
<1>2. ASSUME NEW m \in Nat, m \in N
      PROVE  m + 1 \in N
  <2>1. PICK f : Pushes(f, letters, m)
    BY <1>2
  <2> DEFINE last == DeadLettered(f[m], letters[m + 1])
             g == [i \in 0..(m + 1) |-> IF i = m + 1 THEN last ELSE f[i]]
             h == [i \in 0..(m + 1) |->
                     IF i = 0 THEN start ELSE DeadLettered(g[i - 1], letters[i])]
  <2>2. \A i \in 0..m : g[i] = f[i]
    OBVIOUS
  <2>3. \A i \in 0..m : f[i] = IF i = 0 THEN start ELSE DeadLettered(f[i - 1], letters[i])
    BY <2>1 DEF Pushes
  <2>4. ASSUME NEW i \in 0..(m + 1)
        PROVE  g[i] = h[i]
    <3>1. CASE i = m + 1
      <4>1. i # 0 /\ i - 1 = m /\ m \in 0..m
        BY <3>1
      <4> QED BY <3>1, <4>1, <2>2
    <3>2. CASE i \in 1..m
      <4>1. i # 0 /\ i # m + 1 /\ i \in 0..m /\ i - 1 \in 0..m
        BY <3>2
      <4> HIDE DEF g
      <4>2. g[i] = f[i] /\ g[i - 1] = f[i - 1]
        BY <4>1, <2>2
      <4>3. f[i] = DeadLettered(f[i - 1], letters[i])
        BY <4>1, <2>3
      <4> QED BY <4>1, <4>2, <4>3
    <3>3. CASE i = 0
      <4>1. i \in 0..m
        BY <3>3
      <4> QED BY <3>3, <4>1, <2>2, <2>3
    <3> QED BY <3>1, <3>2, <3>3
  <2>5. g = h
    BY <2>4
  <2>6. Pushes(g, letters, m + 1)
    BY <2>5 DEF Pushes
  <2> QED BY <2>6
<1> HIDE DEF N
<1>3. Nat \subseteq N
  BY <1>1, <1>2, SetInduction
<1> QED BY <1>3 DEF N

LEMMA PushesValues ==
  \A f, letters : \A n \in Nat : Pushes(f, letters, n) =>
    /\ f[0] = [all |-> deadLetters, by |-> deadByCorr]
    /\ \A i \in 1..n : f[i] = DeadLettered(f[i - 1], letters[i])
<1> SUFFICES ASSUME NEW f, NEW letters, NEW n \in Nat, Pushes(f, letters, n)
             PROVE  /\ f[0] = [all |-> deadLetters, by |-> deadByCorr]
                    /\ \A i \in 1..n : f[i] = DeadLettered(f[i - 1], letters[i])
  OBVIOUS
<1>1. \A i \in 0..n : f[i] = IF i = 0 THEN [all |-> deadLetters, by |-> deadByCorr]
                             ELSE DeadLettered(f[i - 1], letters[i])
  BY DEF Pushes
<1>2. 0 \in 0..n /\ \A i \in 1..n : i \in 0..n /\ i # 0
  OBVIOUS
<1> QED BY <1>1, <1>2

LEMMA BuryKeeps ==
  ASSUME DeadInv, NEW letters, Len(letters) \in Nat,
         \A i \in 1..Len(letters) : letters[i] \in Letter,
         Bury(letters)
  PROVE  DeadInv'
<1> DEFINE n == Len(letters)
           F == CHOOSE f : Pushes(f, letters, n)
           N == {i \in Nat : i <= n => DeadGood(F[i])}
<1>1. Pushes(F, letters, n)
  BY PushesExists
<1>2. deadLetters' = F[n].all /\ deadByCorr' = F[n].by
  BY DEF Bury, Pushes
<1> HIDE DEF F
<1>3. /\ F[0] = [all |-> deadLetters, by |-> deadByCorr]
      /\ \A i \in 1..n : F[i] = DeadLettered(F[i - 1], letters[i])
  BY <1>1, PushesValues
<1>4. 0 \in N
  <2>1. DeadGood(F[0])
    BY <1>3 DEF DeadGood, DeadInv
  <2> QED BY <2>1
<1>5. ASSUME NEW i \in Nat, i \in N
      PROVE  i + 1 \in N
  <2> SUFFICES ASSUME i + 1 <= n PROVE DeadGood(F[i + 1])
    OBVIOUS
  <2>1. DeadGood(F[i])
    BY <1>5
  <2>2. i + 1 \in 1..n /\ (i + 1) - 1 = i
    OBVIOUS
  <2>3. F[i + 1] = DeadLettered(F[i], letters[i + 1])
    BY <1>3, <2>2
  <2>4. letters[i + 1] \in Letter
    BY <2>2
  <2>5. DeadGood(DeadLettered(F[i], letters[i + 1]))
    BY <2>1, <2>4, DeadLetteredKeeps
  <2> QED BY <2>3, <2>5
<1> HIDE DEF N
<1>6. Nat \subseteq N
  BY <1>4, <1>5, SetInduction
<1>7. DeadGood(F[n])
  BY <1>6 DEF N
<1>8. /\ deadLetters' \in Seq(Letter) /\ Len(deadLetters') <= MaxDead
      /\ deadByCorr' \in [Corr -> Seq(Letter)]
      /\ \A c \in Corr : deadByCorr'[c] = Only(deadLetters', OfCorr(Letter, c))
  BY <1>2, <1>7 DEF DeadGood
<1> QED BY <1>8 DEF DeadInv, Letter

-----------------------------------------------------------------------------
(* Inboxes.                                                                *)

\* An inbox q whose counts are count, while the last sequence given out is n.
InboxGood(q, count, n) ==
  /\ q \in Seq(Entry) /\ Len(q) <= MaxInbox
  /\ count \in [Corr -> Nat]
  /\ \A i, j \in 1..Len(q) : i < j => q[i].sequence < q[j].sequence
  /\ \A i \in 1..Len(q) : q[i].sequence <= n
  /\ \A c \in Corr : count[c] = Len(Only(q, OfCorr(Entry, c)))

InboxInv ==
  /\ Registered \subseteq Agent /\ IsFiniteSet(Registered)
  /\ inboxCounts \in [Registered -> [Corr -> Nat]]
  /\ \A a \in Registered : InboxGood(inboxes[a], inboxCounts[a], nextSequence)

LEMMA EntryFields ==
  ASSUME NEW x \in Entry
  PROVE  x.sequence \in Nat /\ x.id \in Id /\ x.corr \in Corr \cup {NoCorr}
BY DEF Entry

\* What leaves an inbox, one entry or more, is no longer counted.
LEMMA CountsFollow ==
  ASSUME NEW s \in Seq(Entry), NEW t \in Seq(Entry),
         NEW count \in [Corr -> Nat],
         \A c \in Corr : count[c] = Len(Only(s \o t, OfCorr(Entry, c)))
  PROVE  /\ Uncounted(count, s) \in [Corr -> Nat]
         /\ \A c \in Corr : Uncounted(count, s)[c] = Len(Only(t, OfCorr(Entry, c)))
<1>1. \A c \in Corr : /\ Len(Only(s, OfCorr(Entry, c))) \in Nat
                      /\ Len(Only(t, OfCorr(Entry, c))) \in Nat
                      /\ count[c] = Len(Only(s, OfCorr(Entry, c))) + Len(Only(t, OfCorr(Entry, c)))
  <2> SUFFICES ASSUME NEW c \in Corr
               PROVE  /\ Len(Only(s, OfCorr(Entry, c))) \in Nat
                      /\ Len(Only(t, OfCorr(Entry, c))) \in Nat
                      /\ count[c] = Len(Only(s, OfCorr(Entry, c))) + Len(Only(t, OfCorr(Entry, c)))
    OBVIOUS
  <2> DEFINE T == OfCorr(Entry, c)
  <2>1. count[c] = Len(Only(s \o t, T))
    OBVIOUS
  <2> HIDE DEF T
  <2>2. Only(s, T) \in Seq(Entry) /\ Only(t, T) \in Seq(Entry)
    BY OnlyTyped
  <2>3. Only(s \o t, T) = Only(s, T) \o Only(t, T)
    BY OnlyConcat
  <2> QED BY <2>1, <2>2, <2>3 DEF T
<1>2. \A c \in Corr : Uncounted(count, s)[c] =
                        LET gone == Len(Only(s, OfCorr(Entry, c)))
                        IN IF count[c] <= gone THEN 0 ELSE count[c] - gone
  BY DEF Uncounted
<1>3. \A c \in Corr : Uncounted(count, s)[c] = Len(Only(t, OfCorr(Entry, c)))
  BY <1>1, <1>2
<1>4. Uncounted(count, s) \in [Corr -> Nat]
  <2>1. \A c \in Corr : Uncounted(count, s)[c] \in Nat
    BY <1>1, <1>3
  <2>2. Uncounted(count, s) = [c \in Corr |-> Uncounted(count, s)[c]]
    BY DEF Uncounted
  <2> QED BY <2>1, <2>2
<1> QED BY <1>3, <1>4

\* Room is made by dropping the oldest entry, if the inbox is full.
LEMMA RoomMade ==
  ASSUME NEW q, NEW count, NEW n \in Nat, InboxGood(q, count, n), q # <<>>
  PROVE  /\ InboxGood(Tail(q), Uncounted(count, <<Head(q)>>), n)
         /\ Len(Tail(q)) = Len(q) - 1
         /\ Head(q) \in Entry
<1> DEFINE h == Head(q)
           t == Tail(q)
<1>1. q \in Seq(Entry) /\ count \in [Corr -> Nat]
  BY DEF InboxGood
<1>2. /\ h \in Entry /\ t \in Seq(Entry) /\ Len(t) = Len(q) - 1
      /\ \A i \in 1..Len(t) : t[i] = q[i + 1]
      /\ q = <<h>> \o t
  BY <1>1, HeadTailProperties, HeadAndTail
<1> HIDE DEF h, t
<1>3. <<h>> \in Seq(Entry)
  BY <1>2
<1>4. \A c \in Corr : count[c] = Len(Only(<<h>> \o t, OfCorr(Entry, c)))
  BY <1>2 DEF InboxGood
<1>5. /\ Uncounted(count, <<h>>) \in [Corr -> Nat]
      /\ \A c \in Corr : Uncounted(count, <<h>>)[c] = Len(Only(t, OfCorr(Entry, c)))
  BY <1>1, <1>2, <1>3, <1>4, CountsFollow
<1>6. Len(q) \in Nat /\ Len(q) <= MaxInbox /\ MaxInbox \in Nat
  BY <1>1, BusConstants DEF InboxGood
<1>7. \A i \in 1..Len(t) : i + 1 \in 1..Len(q)
  BY <1>2, <1>6
<1>8. \A i, j \in 1..Len(t) : i < j => t[i].sequence < t[j].sequence
  <2> SUFFICES ASSUME NEW i \in 1..Len(t), NEW j \in 1..Len(t), i < j
               PROVE  t[i].sequence < t[j].sequence
    OBVIOUS
  <2>1. i + 1 \in 1..Len(q) /\ j + 1 \in 1..Len(q) /\ i + 1 < j + 1
    BY <1>7
  <2>2. q[i + 1].sequence < q[j + 1].sequence
    BY <2>1 DEF InboxGood
  <2> QED BY <1>2, <2>2
<1>9. \A i \in 1..Len(t) : t[i].sequence <= n
  BY <1>2, <1>7 DEF InboxGood
<1>10. Len(t) <= MaxInbox
  BY <1>2, <1>6
<1>11. InboxGood(t, Uncounted(count, <<h>>), n)
  BY <1>2, <1>5, <1>8, <1>9, <1>10 DEF InboxGood
<1> QED BY <1>2, <1>11 DEF h, t

\* An entry of the next sequence enters an inbox with room.
LEMMA EntryEnters ==
  ASSUME NEW q, NEW count, NEW n \in Nat, InboxGood(q, count, n), Len(q) < MaxInbox,
         NEW x \in Entry, x.sequence = n + 1
  PROVE  InboxGood(Append(q, x), Counted(count, x.corr), n + 1)
<1> DEFINE r == Append(q, x)
           new == Counted(count, x.corr)
<1>1. /\ q \in Seq(Entry) /\ count \in [Corr -> Nat]
      /\ \A c \in Corr : count[c] = Len(Only(q, OfCorr(Entry, c)))
      /\ Len(q) \in Nat /\ MaxInbox \in Nat
  BY BusConstants DEF InboxGood
<1>2. /\ r \in Seq(Entry) /\ Len(r) = Len(q) + 1
      /\ \A i \in 1..Len(q) : r[i] = q[i]
      /\ r[Len(q) + 1] = x
  BY <1>1
<1>3. x.corr \in Corr \cup {NoCorr}
  BY EntryFields
<1>4. \A c \in Corr : x \in OfCorr(Entry, c) <=> x.corr = c
  BY DEF OfCorr
<1>5. \A c \in Corr : Len(Only(r, OfCorr(Entry, c))) =
                        IF x.corr = c THEN count[c] + 1 ELSE count[c]
  <2> SUFFICES ASSUME NEW c \in Corr
               PROVE  Len(Only(r, OfCorr(Entry, c))) =
                        IF x.corr = c THEN count[c] + 1 ELSE count[c]
    OBVIOUS
  <2> DEFINE T == OfCorr(Entry, c)
  <2>1. (x \in T <=> x.corr = c) /\ count[c] = Len(Only(q, T))
    BY <1>1, <1>4
  <2> HIDE DEF T
  <2>2. Only(r, T) = IF x \in T THEN Append(Only(q, T), x) ELSE Only(q, T)
    BY <1>1, OnlyAppend
  <2>3. Only(q, T) \in Seq(Entry)
    BY <1>1, OnlyTyped
  <2>4. Len(Append(Only(q, T), x)) = Len(Only(q, T)) + 1
    BY <2>3
  <2> HIDE DEF r
  <2>5. CASE x.corr = c
    BY <2>1, <2>2, <2>4, <2>5 DEF T
  <2>6. CASE x.corr # c
    BY <2>1, <2>2, <2>6 DEF T
  <2> QED BY <2>5, <2>6
<1> HIDE DEF r
<1>6. new \in [Corr -> Nat] /\ \A c \in Corr : new[c] = IF x.corr = c THEN count[c] + 1 ELSE count[c]
  <2>1. CASE x.corr = NoCorr
    <3>1. \A c \in Corr : x.corr # c
      BY <2>1, BusConstants
    <3>2. new = count
      BY <2>1 DEF Counted
    <3> QED BY <1>1, <3>1, <3>2
  <2>2. CASE x.corr # NoCorr
    <3>1. x.corr \in Corr /\ count[x.corr] + 1 \in Nat
      BY <1>1, <1>3, <2>2
    <3>2. new = [count EXCEPT ![x.corr] = count[x.corr] + 1]
      BY <2>2 DEF Counted
    <3> QED BY <1>1, <3>1, <3>2
  <2> QED BY <2>1, <2>2
<1> HIDE DEF new
<1>7. \A i \in 1..Len(q) : q[i].sequence \in Nat /\ q[i].sequence <= n
  <2>1. \A i \in 1..Len(q) : q[i] \in Entry
    BY <1>1, ElementOfSeq
  <2> QED BY <2>1, EntryFields DEF InboxGood
<1>8. \A i \in 1..Len(r) : r[i].sequence <= n + 1
  <2> SUFFICES ASSUME NEW i \in 1..Len(r) PROVE r[i].sequence <= n + 1
    OBVIOUS
  <2>1. CASE i = Len(q) + 1
    BY <1>2, <2>1
  <2>2. CASE i # Len(q) + 1
    <3>1. i \in 1..Len(q)
      BY <1>1, <1>2, <2>2
    <3> QED BY <1>2, <1>7, <3>1
  <2> QED BY <2>1, <2>2
<1>9. \A i, j \in 1..Len(r) : i < j => r[i].sequence < r[j].sequence
  <2> SUFFICES ASSUME NEW i \in 1..Len(r), NEW j \in 1..Len(r), i < j
               PROVE  r[i].sequence < r[j].sequence
    OBVIOUS
  <2>0. i \in 1..Len(q) /\ r[i] = q[i] /\ q[i].sequence \in Nat /\ q[i].sequence <= n
    <3>1. i \in 1..Len(q)
      BY <1>1, <1>2
    <3> QED BY <1>2, <1>7, <3>1
  <2>1. CASE j = Len(q) + 1
    <3>1. r[j].sequence = n + 1
      BY <1>2, <2>1
    <3> QED BY <2>0, <3>1
  <2>2. CASE j # Len(q) + 1
    <3>1. j \in 1..Len(q)
      <4>1. j \in Nat /\ 1 <= j /\ j <= Len(q) + 1 /\ Len(q) \in Nat
        BY <1>1, <1>2
      <4> QED BY <2>2, <4>1
    <3>2. r[j] = q[j]
      BY <1>2, <3>1
    <3>3. q[i].sequence < q[j].sequence
      BY <2>0, <3>1 DEF InboxGood
    <3> QED BY <2>0, <3>2, <3>3
  <2> QED BY <2>1, <2>2
<1>10. Len(r) <= MaxInbox
  BY <1>1, <1>2
<1>11. \A c \in Corr : new[c] = Len(Only(r, OfCorr(Entry, c)))
  BY <1>5, <1>6
<1>12. InboxGood(r, new, n + 1)
  BY <1>2, <1>6, <1>8, <1>9, <1>10, <1>11 DEF InboxGood
<1> QED BY <1>12 DEF r, new

LEMMA LaterSequence ==
  ASSUME NEW q, NEW count, NEW n \in Nat, InboxGood(q, count, n)
  PROVE  InboxGood(q, count, n + 1)
<1>1. \A i \in 1..Len(q) : q[i] \in Entry
  BY ElementOfSeq DEF InboxGood
<1>2. \A i \in 1..Len(q) : q[i].sequence \in Nat /\ q[i].sequence <= n
  BY <1>1, EntryFields DEF InboxGood
<1>3. \A i \in 1..Len(q) : q[i].sequence <= n + 1
  BY <1>2
<1> QED BY <1>3 DEF InboxGood

LEMMA Drained ==
  ASSUME NEW q, NEW count, NEW n \in Nat, InboxGood(q, count, n), NEW k \in 1..Len(q)
  PROVE  InboxGood(SubSeq(q, k + 1, Len(q)), Uncounted(count, SubSeq(q, 1, k)), n)
<1> DEFINE l == Len(q)
           s == SubSeq(q, 1, k)
           t == SubSeq(q, k + 1, l)
<1>1. /\ q \in Seq(Entry) /\ count \in [Corr -> Nat]
      /\ l \in Nat /\ l <= MaxInbox /\ MaxInbox \in Nat /\ k \in Int /\ 1 <= k /\ k <= l
      /\ \A i \in 1..l : q[i] \in Entry
  BY BusConstants, ElementOfSeq DEF InboxGood
<1>2. s \in Seq(Entry)
  <2>1. \A i \in 1..k : q[i] \in Entry
    BY <1>1
  <2>2. 1 \in Int
    OBVIOUS
  <2> QED BY <1>1, <2>1, <2>2, SubSeqProperties
<1>3. /\ t \in Seq(Entry)
      /\ Len(t) = IF k + 1 <= l THEN l - (k + 1) + 1 ELSE 0
      /\ \A i \in 1..(l - (k + 1) + 1) : t[i] = q[(k + 1) + i - 1]
  <2>1. k + 1 \in Int /\ l \in Int /\ \A i \in (k + 1)..l : q[i] \in Entry
    BY <1>1
  <2> QED BY <2>1, SubSeqProperties
<1>4. q = s \o t
  <2>1. 1 \in 1..(Len(q) + 1) /\ k \in (1 - 1)..Len(q) /\ Len(q) \in k..Len(q)
    BY <1>1
  <2>2. s \o t = SubSeq(q, 1, Len(q))
    BY <1>1, <2>1, ConcatAdjacentSubSeq
  <2> QED BY <1>1, <2>2, SubSeqFull
<1> HIDE DEF s, t
<1>5. \A c \in Corr : count[c] = Len(Only(s \o t, OfCorr(Entry, c)))
  BY <1>4 DEF InboxGood
<1>6. /\ Uncounted(count, s) \in [Corr -> Nat]
      /\ \A c \in Corr : Uncounted(count, s)[c] = Len(Only(t, OfCorr(Entry, c)))
  BY <1>1, <1>2, <1>3, <1>5, CountsFollow
<1> HIDE DEF l
<1>7. Len(t) = l - k /\ \A i \in 1..Len(t) : t[i] = q[k + i] /\ k + i \in 1..l
  BY <1>1, <1>3
<1>8. \A i, j \in 1..Len(t) : i < j => t[i].sequence < t[j].sequence
  <2> SUFFICES ASSUME NEW i \in 1..Len(t), NEW j \in 1..Len(t), i < j
               PROVE  t[i].sequence < t[j].sequence
    OBVIOUS
  <2>1. k + i \in 1..Len(q) /\ k + j \in 1..Len(q)
    BY <1>7 DEF l
  <2>2. k + i < k + j
    BY <1>1
  <2>3. q[k + i].sequence < q[k + j].sequence
    BY <2>1, <2>2 DEF InboxGood
  <2> QED BY <1>7, <2>3
<1>9. \A i \in 1..Len(t) : t[i].sequence <= n
  BY <1>7 DEF InboxGood, l
<1>10. Len(t) <= MaxInbox
  BY <1>1, <1>7
<1>11. InboxGood(t, Uncounted(count, s), n)
  BY <1>3, <1>6, <1>8, <1>9, <1>10 DEF InboxGood
<1> QED BY <1>11 DEF s, t, l

-----------------------------------------------------------------------------
(* The queues of the bus through its operations.                           *)

WindowInv ==
  /\ attempts \in Nat /\ nextSequence \in 0..attempts
  /\ seenOrder \in Seq(Id) /\ Len(seenOrder) <= MaxSeen

QueueInv == DeadInv /\ InboxInv /\ WindowInv

LEMMA LetterOfEnvelope ==
  ASSUME NEW e, e.id \in Id, e.corr \in Corr \cup {NoCorr}
  PROVE  LetterOf(e) \in Letter
BY DEF LetterOf, Letter

LEMMA BuryOne ==
  ASSUME DeadInv, NEW letter \in Letter, Bury(<<letter>>)
  PROVE  DeadInv'
<1> DEFINE l == <<letter>>
<1>1. Len(l) = 1 /\ l[1] = letter
  OBVIOUS
<1>2. Bury(l)
  OBVIOUS
<1> HIDE DEF l
<1>3. Len(l) \in Nat /\ \A i \in 1..Len(l) : l[i] \in Letter
  BY <1>1
<1> QED BY <1>2, <1>3, BuryKeeps

\* What overflows is entries of inboxes.
LEMMA DeliverBuries ==
  ASSUME DeadInv, InboxInv, NEW receivers \in SUBSET Registered, NEW entry,
         DeliverTo(receivers, entry)
  PROVE  DeadInv'
<1> DEFINE full == {a \in receivers : Full(a)}
<1>1. PICK order \in SetToSeqs(full) :
        Bury([i \in DOMAIN order |-> LetterOf(Head(inboxes[order[i]]))])
  BY DEF DeliverTo
<1> DEFINE letters == [i \in DOMAIN order |-> LetterOf(Head(inboxes[order[i]]))]
<1>2. IsFiniteSet(full) /\ Cardinality(full) \in Nat
  <2>1. IsFiniteSet(Registered) /\ full \subseteq Registered
    BY DEF InboxInv
  <2>2. IsFiniteSet(full)
    <3> HIDE DEF full
    <3> QED BY <2>1, FS_Subset
  <2> QED BY <2>2, FS_CardinalityType
<1>3. DOMAIN order = 1..Cardinality(full) /\ \A i \in DOMAIN order : order[i] \in full
  BY DEF SetToSeqs
<1>4. ASSUME NEW a \in full
      PROVE  LetterOf(Head(inboxes[a])) \in Letter
  <2>1. a \in Registered /\ Len(inboxes[a]) >= MaxInbox
    BY <1>4 DEF Full
  <2>2. inboxes[a] \in Seq(Entry)
    BY <2>1 DEF InboxInv, InboxGood
  <2>3. inboxes[a] # <<>>
    BY <2>1, <2>2, BusConstants
  <2>4. Head(inboxes[a]) \in Entry
    BY <2>2, <2>3, HeadTailProperties
  <2> QED BY <2>4, EntryFields, LetterOfEnvelope
<1>5. /\ DOMAIN letters = 1..Cardinality(full)
      /\ \A i \in DOMAIN letters : letters[i] \in Letter
  <2> HIDE DEF full
  <2> QED BY <1>3, <1>4
<1>6. Bury(letters)
  BY <1>1
<1> HIDE DEF letters, full
<1>7. letters \in Seq(Letter)
  <2>1. letters \in [1..Cardinality(full) -> Letter]
    <3>1. letters = [i \in DOMAIN letters |-> letters[i]]
      BY DEF letters
    <3> QED BY <1>5, <3>1
  <2> QED BY <1>2, <2>1
<1>8. Len(letters) \in Nat /\ \A i \in 1..Len(letters) : letters[i] \in Letter
  BY <1>7, LenProperties, ElementOfSeq
<1> QED BY <1>6, <1>8, BuryKeeps

LEMMA DeliverFills ==
  ASSUME InboxInv, WindowInv, NEW receivers \in SUBSET Registered,
         NEW entry \in Entry, entry.sequence = nextSequence + 1,
         nextSequence' = nextSequence + 1,
         DeliverTo(receivers, entry)
  PROVE  InboxInv'
<1> DEFINE n == nextSequence
<1>1. n \in Nat
  BY DEF WindowInv
<1>2. /\ inboxes' = [a \in Registered |->
           IF a \notin receivers THEN inboxes[a]
           ELSE Append(IF Full(a) THEN Tail(inboxes[a]) ELSE inboxes[a], entry)]
      /\ inboxCounts' = [a \in Registered |->
           IF a \notin receivers THEN inboxCounts[a]
           ELSE Counted(CountsAfterDrop(a), entry.corr)]
  BY DEF DeliverTo
<1>3. Registered' = Registered
  BY <1>2 DEF Registered
<1>4. ASSUME NEW a \in Registered
      PROVE  InboxGood(inboxes'[a], inboxCounts'[a], n + 1)
  <2> DEFINE q == inboxes[a]
             count == inboxCounts[a]
  <2>1. InboxGood(q, count, n)
    BY DEF InboxInv
  <2>2. q \in Seq(Entry) /\ Len(q) \in Nat /\ Len(q) <= MaxInbox /\ MaxInbox \in Nat \ {0}
    BY <2>1, BusConstants DEF InboxGood
  <2>3. CASE a \notin receivers
    <3>1. inboxes'[a] = q /\ inboxCounts'[a] = count
      BY <1>2, <2>3
    <3> HIDE DEF q, count, n
    <3> QED BY <1>1, <2>1, <3>1, LaterSequence
  <2>4. CASE a \in receivers /\ Full(a)
    <3>1. inboxes'[a] = Append(Tail(q), entry)
      BY <1>2, <2>4
    <3>2. inboxCounts'[a] = Counted(Uncounted(count, <<Head(q)>>), entry.corr)
      BY <1>2, <2>4 DEF CountsAfterDrop
    <3>3. q # <<>>
      BY <2>2, <2>4 DEF Full
    <3> HIDE DEF q, count, n
    <3>4. /\ InboxGood(Tail(q), Uncounted(count, <<Head(q)>>), n)
          /\ Len(Tail(q)) = Len(q) - 1
      BY <1>1, <2>1, <3>3, RoomMade
    <3>5. Len(Tail(q)) < MaxInbox
      BY <2>2, <3>4
    <3>6. entry.sequence = n + 1
      BY DEF n
    <3>7. InboxGood(Append(Tail(q), entry), Counted(Uncounted(count, <<Head(q)>>), entry.corr), n + 1)
      BY <1>1, <3>4, <3>5, <3>6, EntryEnters
    <3> QED BY <3>1, <3>2, <3>7
  <2>5. CASE a \in receivers /\ ~Full(a)
    <3>1. inboxes'[a] = Append(q, entry)
      BY <1>2, <2>5
    <3>2. inboxCounts'[a] = Counted(count, entry.corr)
      BY <1>2, <2>5 DEF CountsAfterDrop
    <3>3. Len(q) < MaxInbox
      BY <2>2, <2>5 DEF Full
    <3> HIDE DEF q, count, n
    <3>6. entry.sequence = n + 1
      BY DEF n
    <3>7. InboxGood(Append(q, entry), Counted(count, entry.corr), n + 1)
      BY <1>1, <2>1, <3>3, <3>6, EntryEnters
    <3> QED BY <3>1, <3>2, <3>7
  <2> QED BY <2>3, <2>4, <2>5
<1>5. \A a \in Registered : inboxCounts'[a] \in [Corr -> Nat]
  BY <1>4 DEF InboxGood
<1>6. inboxCounts' \in [Registered' -> [Corr -> Nat]]
  BY <1>2, <1>3, <1>5
<1>7. \A a \in Registered' : InboxGood(inboxes'[a], inboxCounts'[a], nextSequence')
  BY <1>3, <1>4
<1>8. Registered' \subseteq Agent /\ IsFiniteSet(Registered')
  BY <1>3 DEF InboxInv
<1> QED BY <1>6, <1>7, <1>8 DEF InboxInv

LEMMA InboxesStay ==
  ASSUME InboxInv, WindowInv, UNCHANGED inboxVars,
         nextSequence' = nextSequence \/ nextSequence' = nextSequence + 1
  PROVE  InboxInv'
<1>1. /\ inboxes' = inboxes /\ inboxCounts' = inboxCounts /\ nextSequence \in Nat
      /\ Registered' = Registered
  BY DEF inboxVars, WindowInv, Registered
<1>2. \A a \in Registered : InboxGood(inboxes[a], inboxCounts[a], nextSequence)
  BY DEF InboxInv
<1>3. \A a \in Registered : InboxGood(inboxes[a], inboxCounts[a], nextSequence + 1)
  BY <1>1, <1>2, LaterSequence
<1>4. \A a \in Registered' : InboxGood(inboxes'[a], inboxCounts'[a], nextSequence')
  BY <1>1, <1>2, <1>3
<1>5. Registered' \subseteq Agent /\ IsFiniteSet(Registered')
  BY <1>1 DEF InboxInv
<1>6. inboxCounts' \in [Registered' -> [Corr -> Nat]]
  BY <1>1 DEF InboxInv
<1> QED BY <1>4, <1>5, <1>6 DEF InboxInv

LEMMA WindowSlides ==
  ASSUME WindowInv, NEW id \in Id, Remember(id), Attempt,
         nextSequence' = nextSequence \/ nextSequence' = nextSequence + 1
  PROVE  WindowInv'
<1>1. /\ attempts \in Nat /\ nextSequence \in 0..attempts
      /\ seenOrder \in Seq(Id) /\ Len(seenOrder) <= MaxSeen /\ Len(seenOrder) \in Nat
      /\ MaxSeen \in Nat \ {0}
  BY BusConstants DEF WindowInv
<1>2. attempts' \in Nat /\ nextSequence' \in 0..attempts'
  BY <1>1 DEF Attempt
<1>3. seenOrder' \in Seq(Id) /\ Len(seenOrder') <= MaxSeen
  <2>1. CASE WindowFull
    <3>1. seenOrder # <<>>
      BY <1>1, <2>1 DEF WindowFull
    <3>2. Tail(seenOrder) \in Seq(Id) /\ Len(Tail(seenOrder)) = Len(seenOrder) - 1
      BY <1>1, <3>1, HeadTailProperties
    <3>3. seenOrder' = Append(Tail(seenOrder), id)
      BY <2>1 DEF Remember
    <3>4. seenOrder' \in Seq(Id) /\ Len(seenOrder') = Len(seenOrder)
      BY <1>1, <3>2, <3>3
    <3> QED BY <1>1, <3>4
  <2>2. CASE ~WindowFull
    <3>1. seenOrder' = Append(seenOrder, id)
      BY <2>2 DEF Remember
    <3>2. seenOrder' \in Seq(Id) /\ Len(seenOrder') = Len(seenOrder) + 1
      BY <1>1, <3>1
    <3>3. Len(seenOrder) < MaxSeen
      BY <1>1, <2>2 DEF WindowFull
    <3> QED BY <1>1, <3>2, <3>3
  <2> QED BY <2>1, <2>2
<1> QED BY <1>2, <1>3 DEF WindowInv

\* An envelope, as far as the queues look at it.
Posted(e) == e.id \in Id /\ e.corr \in Corr \cup {NoCorr}

LEMMA PublishKeepsQueues ==
  ASSUME QueueInv, NEW e, Posted(e), Publish(e)
  PROVE  QueueInv'
<1>1. LetterOf(e) \in Letter /\ e.id \in Id /\ e.corr \in Corr \cup {NoCorr}
  BY LetterOfEnvelope DEF Posted
<1>2. DeadInv /\ InboxInv /\ WindowInv
  BY DEF QueueInv
<1>3. CASE RejectDuplicate(e)
  <2>1. /\ Bury(<<LetterOf(e)>>) /\ Attempt /\ UNCHANGED inboxVars
        /\ nextSequence' = nextSequence /\ seenOrder' = seenOrder
    BY <1>3 DEF RejectDuplicate
  <2>2. DeadInv'
    BY <1>1, <1>2, <2>1, BuryOne
  <2>3. InboxInv'
    BY <1>2, <2>1, InboxesStay
  <2>4. WindowInv'
    BY <1>2, <2>1 DEF WindowInv, Attempt
  <2> QED BY <2>2, <2>3, <2>4 DEF QueueInv
<1>4. CASE RejectPatch(e)
  <2>1. /\ Bury(<<LetterOf(e)>>) /\ Attempt /\ Remember(e.id) /\ UNCHANGED inboxVars
        /\ nextSequence' = nextSequence
    BY <1>4 DEF RejectPatch
  <2>2. DeadInv'
    BY <1>1, <1>2, <2>1, BuryOne
  <2>3. InboxInv'
    BY <1>2, <2>1, InboxesStay
  <2>4. WindowInv'
    BY <1>1, <1>2, <2>1, WindowSlides
  <2> QED BY <2>2, <2>3, <2>4 DEF QueueInv
<1>5. CASE RejectUnknownTarget(e)
  <2>1. /\ Bury(<<LetterOf(e)>>) /\ Attempt /\ Remember(e.id) /\ UNCHANGED inboxVars
        /\ nextSequence' = nextSequence + 1
    BY <1>5 DEF RejectUnknownTarget, Accept
  <2>2. DeadInv'
    BY <1>1, <1>2, <2>1, BuryOne
  <2>3. InboxInv'
    BY <1>2, <2>1, InboxesStay
  <2>4. WindowInv'
    BY <1>1, <1>2, <2>1, WindowSlides
  <2> QED BY <2>2, <2>3, <2>4 DEF QueueInv
<1>6. CASE Deliver(e)
  <2> DEFINE entry == [sequence |-> nextSequence + 1, id |-> e.id, corr |-> e.corr]
             receivers == IF e.to = All THEN Registered ELSE {e.to}
  <2>1. /\ Attempt /\ Remember(e.id) /\ nextSequence' = nextSequence + 1
        /\ e.to \in Registered \cup {All} /\ DeliverTo(receivers, entry)
    BY <1>6 DEF Deliver, Accept
  <2>2. receivers \in SUBSET Registered
    BY <2>1
  <2>3. entry \in Entry /\ entry.sequence = nextSequence + 1
    <3>1. nextSequence + 1 \in Nat
      BY <1>2 DEF WindowInv
    <3> QED BY <1>1, <3>1 DEF Entry
  <2> HIDE DEF entry, receivers
  <2>4. DeadInv'
    BY <1>2, <2>1, <2>2, DeliverBuries
  <2>5. InboxInv'
    BY <1>2, <2>1, <2>2, <2>3, DeliverFills
  <2>6. WindowInv'
    BY <1>1, <1>2, <2>1, WindowSlides
  <2> QED BY <2>4, <2>5, <2>6 DEF QueueInv
<1> QED BY <1>3, <1>4, <1>5, <1>6 DEF Publish

LEMMA AgentsKeepQueues ==
  ASSUME QueueInv, NEW a \in Agent, NEW max \in Nat,
         Register(a) \/ Unregister(a) \/ Drain(a, max)
  PROVE  QueueInv'
<1>1. DeadInv /\ InboxInv /\ WindowInv /\ nextSequence \in Nat
  BY DEF QueueInv, WindowInv
<1>2. /\ deadLetters' = deadLetters /\ deadByCorr' = deadByCorr
      /\ attempts' = attempts /\ nextSequence' = nextSequence /\ seenOrder' = seenOrder
  BY DEF Register, Unregister, Drain, deadVars
<1>3. DeadInv' /\ WindowInv'
  BY <1>1, <1>2 DEF DeadInv, WindowInv
<1>4. ASSUME Registered' \subseteq Agent, IsFiniteSet(Registered'),
             inboxCounts' = [b \in Registered' |-> inboxCounts'[b]],
             \A b \in Registered' : InboxGood(inboxes'[b], inboxCounts'[b], nextSequence)
      PROVE  InboxInv'
  <2>1. \A b \in Registered' : inboxCounts'[b] \in [Corr -> Nat]
    BY <1>4 DEF InboxGood
  <2>2. inboxCounts' \in [Registered' -> [Corr -> Nat]]
    BY <1>4, <2>1
  <2>3. \A b \in Registered' : InboxGood(inboxes'[b], inboxCounts'[b], nextSequence')
    BY <1>2, <1>4
  <2> QED BY <1>4, <2>2, <2>3 DEF InboxInv
<1>5. /\ Registered \subseteq Agent /\ IsFiniteSet(Registered)
      /\ \A b \in Registered : InboxGood(inboxes[b], inboxCounts[b], nextSequence)
      /\ inboxCounts \in [Registered -> [Corr -> Nat]]
  BY <1>1 DEF InboxInv
<1>6. CASE Register(a)
  <2>1. /\ inboxes' = [b \in Registered \cup {a} |-> IF b = a THEN <<>> ELSE inboxes[b]]
        /\ inboxCounts' = [b \in Registered \cup {a} |->
             IF b = a THEN [c \in Corr |-> 0] ELSE inboxCounts[b]]
    BY <1>6 DEF Register
  <2>2. Registered' = Registered \cup {a}
    BY <2>1 DEF Registered
  <2>3. IsFiniteSet(Registered')
    BY <1>5, <2>2, FS_AddElement
  <2>4. InboxGood(<<>>, [c \in Corr |-> 0], nextSequence)
    <3>1. /\ <<>> \in Seq(Entry) /\ Len(<<>>) = 0 /\ 1..Len(<<>>) = {}
          /\ \A c \in Corr : Only(<<>>, OfCorr(Entry, c)) = <<>>
      BY OnlyNone
    <3> QED BY <3>1, BusConstants DEF InboxGood
  <2>5. \A b \in Registered' : InboxGood(inboxes'[b], inboxCounts'[b], nextSequence)
    <3> SUFFICES ASSUME NEW b \in Registered \cup {a}
                 PROVE  InboxGood(inboxes'[b], inboxCounts'[b], nextSequence)
      BY <2>2
    <3>1. CASE b = a
      <4>1. inboxes'[b] = <<>> /\ inboxCounts'[b] = [c \in Corr |-> 0]
        BY <2>1, <3>1
      <4> QED BY <2>4, <4>1
    <3>2. CASE b # a
      <4>1. inboxes'[b] = inboxes[b] /\ inboxCounts'[b] = inboxCounts[b] /\ b \in Registered
        BY <2>1, <3>2
      <4> QED BY <1>5, <4>1
    <3> QED BY <3>1, <3>2
  <2>6. Registered' \subseteq Agent
    BY <1>5, <2>2
  <2>7. inboxCounts' = [b \in Registered' |-> inboxCounts'[b]]
    BY <2>1, <2>2
  <2>8. InboxInv'
    BY <1>4, <2>3, <2>5, <2>6, <2>7
  <2> QED BY <1>3, <2>8 DEF QueueInv
<1>7. CASE Unregister(a)
  <2>1. /\ inboxes' = [b \in Registered \ {a} |-> inboxes[b]]
        /\ inboxCounts' = [b \in Registered \ {a} |-> inboxCounts[b]]
    BY <1>7 DEF Unregister
  <2>2. Registered' = Registered \ {a}
    BY <2>1 DEF Registered
  <2>3. IsFiniteSet(Registered')
    BY <1>5, <2>2, FS_Subset
  <2>4. \A b \in Registered' : InboxGood(inboxes'[b], inboxCounts'[b], nextSequence)
    <3> SUFFICES ASSUME NEW b \in Registered \ {a}
                 PROVE  InboxGood(inboxes'[b], inboxCounts'[b], nextSequence)
      BY <2>2
    <3>1. inboxes'[b] = inboxes[b] /\ inboxCounts'[b] = inboxCounts[b]
      BY <2>1
    <3> QED BY <1>5, <3>1
  <2>5. Registered' \subseteq Agent
    BY <1>5, <2>2
  <2>6. inboxCounts' = [b \in Registered' |-> inboxCounts'[b]]
    BY <2>1, <2>2
  <2>7. InboxInv'
    BY <1>4, <2>3, <2>4, <2>5, <2>6
  <2> QED BY <1>3, <2>7 DEF QueueInv
<1>8. CASE Drain(a, max)
  <2> DEFINE q == inboxes[a]
             k == IF max = 0 \/ max > Len(q) THEN Len(q) ELSE max
  <2>1. /\ a \in Registered /\ q # <<>>
        /\ inboxes' = [inboxes EXCEPT ![a] = SubSeq(q, k + 1, Len(q))]
        /\ inboxCounts' = [inboxCounts EXCEPT ![a] = Uncounted(inboxCounts[a], SubSeq(q, 1, k))]
    BY <1>8 DEF Drain
  <2>2. Registered' = Registered
    BY <2>1 DEF Registered
  <2>3. q \in Seq(Entry)
    BY <1>5, <2>1 DEF InboxGood
  <2>4. Len(q) \in Nat \ {0}
    BY <2>1, <2>3, EmptySeq
  <2>5. k \in 1..Len(q)
    BY <2>4
  <2>6. InboxGood(SubSeq(q, k + 1, Len(q)), Uncounted(inboxCounts[a], SubSeq(q, 1, k)), nextSequence)
    <3>1. InboxGood(q, inboxCounts[a], nextSequence)
      BY <1>5, <2>1
    <3> HIDE DEF k, q
    <3> QED BY <1>1, <2>5, <3>1, Drained
  <2> HIDE DEF k, q
  <2>7. \A b \in Registered' : InboxGood(inboxes'[b], inboxCounts'[b], nextSequence)
    <3> SUFFICES ASSUME NEW b \in Registered
                 PROVE  InboxGood(inboxes'[b], inboxCounts'[b], nextSequence)
      BY <2>2
    <3>0. b \in DOMAIN inboxes
      BY DEF Registered
    <3>1. CASE b = a
      <4>1. /\ inboxes'[b] = SubSeq(q, k + 1, Len(q))
            /\ inboxCounts'[b] = Uncounted(inboxCounts[a], SubSeq(q, 1, k))
        BY <1>5, <2>1, <3>0, <3>1
      <4> QED BY <2>6, <4>1
    <3>2. CASE b # a
      <4>1. inboxes'[b] = inboxes[b] /\ inboxCounts'[b] = inboxCounts[b]
        BY <1>5, <2>1, <3>0, <3>2
      <4> QED BY <1>5, <4>1
    <3> QED BY <3>1, <3>2
  <2>8. inboxCounts' = [b \in Registered' |-> inboxCounts'[b]]
    BY <1>5, <2>1, <2>2
  <2>9. Registered' \subseteq Agent /\ IsFiniteSet(Registered')
    BY <1>5, <2>2
  <2>10. InboxInv'
    BY <1>4, <2>7, <2>8, <2>9
  <2> QED BY <1>3, <2>10 DEF QueueInv
<1> QED BY <1>6, <1>7, <1>8

-----------------------------------------------------------------------------
(* The shared context and its indexes.                                     *)

KeysOf(c) == {k \in Key : corrOf[k] = c}

ContextInv ==
  /\ version \in [Key -> Nat]
  /\ IsFiniteSet(Stored) /\ Cardinality(Stored) <= MaxContext
  /\ corrOf \in [Key -> Corr \cup {NoCorr}]
  /\ contextOrder \in Seq(Key) /\ Distinct(contextOrder) /\ ToSet(contextOrder) = Stored
  /\ delegateOrder = Only(contextOrder, DelegateKey)
  /\ orderByCorr \in [Corr -> Seq(Key)] /\ delegateByCorr \in [Corr -> Seq(Key)]
  /\ \A c \in Corr : /\ orderByCorr[c] = Only(contextOrder, KeysOf(c))
                     /\ delegateByCorr[c] = Only(contextOrder, KeysOf(c) \cap DelegateKey)

\* A key leaves an index that lists the keys of F[c] under c, some of those of c.
LEMMA RemovedIs ==
  ASSUME contextOrder \in Seq(Key), Distinct(contextOrder),
         NEW index \in [Corr -> Seq(Key)], NEW F \in [Corr -> SUBSET Key],
         \A c \in Corr : F[c] \subseteq KeysOf(c) /\ index[c] = Only(contextOrder, F[c]),
         NEW k
  PROVE  /\ Removed(index, k) \in [Corr -> Seq(Key)]
         /\ \A c \in Corr : Removed(index, k)[c] = Only(contextOrder, F[c] \ {k})
<1>1. CASE k = NoKey \/ corrOf[k] = NoCorr
  <2>1. Removed(index, k) = index
    BY <1>1 DEF Removed
  <2>2. \A c \in Corr : F[c] \ {k} = F[c]
    BY <1>1, BusConstants DEF KeysOf
  <2> QED BY <2>1, <2>2
<1>2. CASE k # NoKey /\ corrOf[k] # NoCorr
  <2> DEFINE c0 == corrOf[k]
  <2>1. Removed(index, k) = [index EXCEPT ![c0] = RemoveFirst(index[c0], k)]
    BY <1>2 DEF Removed
  <2>2. ASSUME NEW c \in Corr
        PROVE  /\ c = c0 => RemoveFirst(index[c], k) = Only(contextOrder, F[c] \ {k})
               /\ c # c0 => index[c] = Only(contextOrder, F[c] \ {k})
               /\ Only(contextOrder, F[c] \ {k}) \in Seq(Key)
    <3>1. index[c] \in Seq(Key) /\ Distinct(index[c])
      BY OnlyDistinct
    <3>2. RemoveFirst(index[c], k) = Only(index[c], Key \ {k})
      BY <3>1, RemoveFirstIs
    <3>3. Only(Only(contextOrder, F[c]), Key \ {k}) = Only(contextOrder, F[c] \cap (Key \ {k}))
      <4> DEFINE T == F[c]
                 U == Key \ {k}
      <4> HIDE DEF T, U
      <4>1. Only(Only(contextOrder, T), U) = Only(contextOrder, T \cap U)
        BY OnlyOnly
      <4> QED BY <4>1 DEF T, U
    <3>4. F[c] \subseteq Key
      OBVIOUS
    <3>5. F[c] \cap (Key \ {k}) = F[c] \ {k}
      BY <3>4
    <3>6. c # c0 => F[c] \ {k} = F[c]
      BY DEF KeysOf
    <3>7. Only(contextOrder, F[c] \ {k}) \in Seq(Key)
      BY OnlyTyped
    <3> QED BY <3>2, <3>3, <3>5, <3>6, <3>7
  <2> HIDE DEF c0
  <2>3. \A c \in Corr : Removed(index, k)[c] = Only(contextOrder, F[c] \ {k})
    BY <2>1, <2>2
  <2>4. Removed(index, k) \in [Corr -> Seq(Key)]
    BY <2>1, <2>2
  <2> QED BY <2>3, <2>4
<1> QED BY <1>1, <1>2

LEMMA AddedIs ==
  ASSUME NEW index \in [Corr -> Seq(Key)], NEW k \in Key, NEW c0 \in Corr \cup {NoCorr}
  PROVE  /\ Added(index, k, c0) \in [Corr -> Seq(Key)]
         /\ \A c \in Corr : Added(index, k, c0)[c] =
                              IF c = c0 THEN Append(index[c], k) ELSE index[c]
<1>1. CASE c0 = NoCorr
  <2>1. \A c \in Corr : c # c0
    BY <1>1, BusConstants
  <2>2. Added(index, k, c0) = index
    BY <1>1 DEF Added
  <2> QED BY <2>1, <2>2
<1>2. CASE c0 # NoCorr
  <2>1. c0 \in Corr
    BY <1>2
  <2>2. Append(index[c0], k) \in Seq(Key)
    BY <2>1
  <2>3. Added(index, k, c0) = [index EXCEPT ![c0] = Append(index[c0], k)]
    BY <1>2 DEF Added
  <2> QED BY <2>1, <2>2, <2>3
<1> QED BY <1>1, <1>2

LEMMA EvictedIs ==
  ASSUME ContextInv, NEW e, e.key \in Key
  PROVE  /\ Evicted(e) \in Stored \cup {NoKey} /\ Evicted(e) # e.key
         /\ Evicted(e) # NoKey => /\ contextOrder # <<>> /\ Evicted(e) = Head(contextOrder)
                                  /\ version[e.key] = 0
                                  /\ Cardinality(Stored) = MaxContext
         /\ Evicted(e) = NoKey /\ version[e.key] = 0 => Cardinality(Stored) < MaxContext
<1>1. /\ contextOrder \in Seq(Key) /\ ToSet(contextOrder) = Stored
      /\ IsFiniteSet(Stored) /\ Cardinality(Stored) <= MaxContext
  BY DEF ContextInv
<1>2. Cardinality(Stored) \in Nat /\ MaxContext \in Nat \ {0}
  BY <1>1, FS_CardinalityType, BusConstants
<1>3. NoKey \notin Key /\ Stored \subseteq Key
  BY BusConstants DEF Stored
<1>4. CASE version[e.key] = 0 /\ Cardinality(Stored) >= MaxContext
  <2>1. Evicted(e) = Head(contextOrder)
    BY <1>4 DEF Evicted
  <2>2. contextOrder # <<>>
    <3>1. SUFFICES ASSUME contextOrder = <<>> PROVE FALSE
      OBVIOUS
    <3>2. Stored = {}
      BY <1>1, <3>1, SetOfNone
    <3>3. Cardinality(Stored) = 0
      BY <3>2, FS_EmptySet
    <3> QED BY <1>2, <1>4, <3>3
  <2>3. Head(contextOrder) \in ToSet(contextOrder)
    <3>1. 1 \in DOMAIN contextOrder /\ Head(contextOrder) = contextOrder[1]
      BY <1>1, <2>2
    <3> QED BY <3>1 DEF ToSet
  <2>4. Evicted(e) \in Stored
    BY <1>1, <2>1, <2>3
  <2>5. e.key \notin Stored
    BY <1>4 DEF Stored
  <2>6. Cardinality(Stored) = MaxContext
    BY <1>1, <1>2, <1>4
  <2>7. Evicted(e) # e.key /\ Evicted(e) # NoKey
    BY <1>3, <2>4, <2>5
  <2> QED BY <1>4, <2>1, <2>2, <2>4, <2>6, <2>7
<1>5. CASE ~(version[e.key] = 0 /\ Cardinality(Stored) >= MaxContext)
  <2>1. Evicted(e) = NoKey
    BY <1>5 DEF Evicted
  <2>2. version[e.key] = 0 => Cardinality(Stored) < MaxContext
    BY <1>2, <1>5
  <2> QED BY <1>3, <2>1, <2>2
<1> QED BY <1>4, <1>5

\* Both orders are those of before without what left, and then the key.
LEMMA Reordered ==
  ASSUME NEW s \in Seq(Key), Distinct(s), NEW g, NEW k \in Key
  PROVE  /\ RemoveFirst(RemoveFirst(s, g), k) = Only(s, Key \ {g, k})
         /\ RemoveFirst(s, g) = Only(s, Key \ {g})
         /\ RemoveFirst(s, g) \in Seq(Key)
<1>1. RemoveFirst(s, g) = Only(s, Key \ {g})
  BY RemoveFirstIs
<1>2. RemoveFirst(s, g) \in Seq(Key) /\ Distinct(RemoveFirst(s, g))
  BY <1>1, OnlyTyped, OnlyDistinct
<1>3. RemoveFirst(RemoveFirst(s, g), k) = Only(RemoveFirst(s, g), Key \ {k})
  BY <1>2, RemoveFirstIs
<1>4. Only(Only(s, Key \ {g}), Key \ {k}) = Only(s, (Key \ {g}) \cap (Key \ {k}))
  BY OnlyOnly
<1>5. (Key \ {g}) \cap (Key \ {k}) = Key \ {g, k}
  OBVIOUS
<1> QED BY <1>1, <1>2, <1>3, <1>4, <1>5

LEMMA PatchStores ==
  ASSUME ContextInv, NEW e, e.key \in Key, e.corr \in Corr \cup {NoCorr}, ApplyPatch(e)
  PROVE  /\ version' \in [Key -> Nat]
         /\ Stored' = (Stored \ {Evicted(e)}) \cup {e.key}
         /\ IsFiniteSet(Stored') /\ Cardinality(Stored') <= MaxContext
         /\ Cardinality(Stored) <= Cardinality(Stored')
         /\ corrOf' \in [Key -> Corr \cup {NoCorr}]
<1> DEFINE k == e.key
           gone == Evicted(e)
<1>1. /\ version \in [Key -> Nat] /\ corrOf \in [Key -> Corr \cup {NoCorr}]
      /\ IsFiniteSet(Stored) /\ Cardinality(Stored) <= MaxContext
      /\ Cardinality(Stored) \in Nat /\ MaxContext \in Nat
  BY FS_CardinalityType, BusConstants DEF ContextInv
<1>2. /\ version' = [x \in Key |-> IF x = k THEN version[x] + 1
                                   ELSE IF x = gone THEN 0 ELSE version[x]]
      /\ corrOf' = [x \in Key |-> IF x = k THEN e.corr
                                  ELSE IF x = gone THEN NoCorr ELSE corrOf[x]]
  BY DEF ApplyPatch
<1>3. /\ gone \in Stored \cup {NoKey} /\ gone # k
      /\ gone # NoKey => version[k] = 0 /\ Cardinality(Stored) = MaxContext
      /\ gone = NoKey /\ version[k] = 0 => Cardinality(Stored) < MaxContext
  BY EvictedIs
<1> HIDE DEF gone
<1>4. version' \in [Key -> Nat] /\ corrOf' \in [Key -> Corr \cup {NoCorr}]
  BY <1>1, <1>2
<1>5. Stored' = (Stored \ {gone}) \cup {k}
  <2>1. \A x \in Key : version'[x] > 0 <=> x = k \/ (x # gone /\ version[x] > 0)
    <3> SUFFICES ASSUME NEW x \in Key
                 PROVE  version'[x] > 0 <=> x = k \/ (x # gone /\ version[x] > 0)
      OBVIOUS
    <3>1. version[x] \in Nat
      BY <1>1
    <3>2. version'[x] = IF x = k THEN version[x] + 1 ELSE IF x = gone THEN 0 ELSE version[x]
      BY <1>2
    <3> QED BY <1>3, <3>1, <3>2
  <2>2. Stored' = {x \in Key : version'[x] > 0}
    BY DEF Stored
  <2>3. Stored = {x \in Key : version[x] > 0}
    BY DEF Stored
  <2> QED BY <2>1, <2>2, <2>3
<1>6. IsFiniteSet(Stored \ {gone})
  BY <1>1, FS_Subset
<1>7. IsFiniteSet(Stored')
  BY <1>5, <1>6, FS_AddElement
<1>8. Cardinality(Stored) <= Cardinality(Stored') /\ Cardinality(Stored') <= MaxContext
  <2>1. CASE version[k] # 0
    <3>1. gone = NoKey /\ k \in Stored
      BY <1>1, <1>3, <2>1 DEF Stored
    <3>2. NoKey \notin Stored
      BY BusConstants DEF Stored
    <3>3. Stored' = Stored
      BY <1>5, <3>1, <3>2
    <3> QED BY <1>1, <3>3
  <2>2. CASE version[k] = 0 /\ gone = NoKey
    <3>1. NoKey \notin Stored /\ k \notin Stored
      BY <2>2, BusConstants DEF Stored
    <3>2. Stored' = Stored \cup {k}
      BY <1>5, <2>2, <3>1
    <3>3. Cardinality(Stored') = Cardinality(Stored) + 1
      BY <1>1, <3>1, <3>2, FS_AddElement
    <3> QED BY <1>1, <1>3, <2>2, <3>3
  <2>3. CASE version[k] = 0 /\ gone # NoKey
    <3>1. gone \in Stored /\ k \notin Stored
      BY <1>3, <2>3 DEF Stored
    <3>2. Cardinality(Stored \ {gone}) = Cardinality(Stored) - 1
      BY <1>1, <3>1, FS_RemoveElement
    <3>3. Cardinality((Stored \ {gone}) \cup {k}) = Cardinality(Stored \ {gone}) + 1
      BY <1>6, <3>1, FS_AddElement
    <3> QED BY <1>1, <1>5, <3>2, <3>3
  <2> QED BY <2>1, <2>2, <2>3
<1> QED BY <1>4, <1>5, <1>7, <1>8 DEF gone

LEMMA PatchOrders ==
  ASSUME ContextInv, NEW e, e.key \in Key, ApplyPatch(e)
  PROVE  LET R == Key \ {Evicted(e), e.key} IN
         /\ contextOrder' = Append(Only(contextOrder, R), e.key)
         /\ contextOrder' \in Seq(Key) /\ Distinct(contextOrder')
         /\ ToSet(contextOrder') = (Stored \ {Evicted(e)}) \cup {e.key}
<1> DEFINE R == Key \ {Evicted(e), e.key}
           s == Only(contextOrder, R)
<1>1. /\ contextOrder \in Seq(Key) /\ Distinct(contextOrder) /\ ToSet(contextOrder) = Stored
      /\ Stored \subseteq Key
  BY DEF ContextInv, Stored
<1>2. contextOrder' = Append(s, e.key)
  <2>1. contextOrder' = Append(RemoveFirst(RemoveFirst(contextOrder, Evicted(e)), e.key), e.key)
    BY DEF ApplyPatch
  <2>2. RemoveFirst(RemoveFirst(contextOrder, Evicted(e)), e.key) = s
    BY <1>1, Reordered
  <2> QED BY <2>1, <2>2
<1>3. s \in Seq(Key) /\ Distinct(s) /\ ToSet(s) = Stored \cap R
  BY <1>1, OnlyTyped, OnlyDistinct
<1>4. e.key \notin ToSet(s)
  BY <1>3
<1> HIDE DEF s
<1>5. contextOrder' \in Seq(Key) /\ Distinct(contextOrder')
  BY <1>2, <1>3, <1>4, DistinctAppend
<1>6. ToSet(contextOrder') = ToSet(s) \cup {e.key}
  BY <1>2, <1>3, SetOfAppend
<1>7. ToSet(contextOrder') = (Stored \ {Evicted(e)}) \cup {e.key}
  BY <1>1, <1>3, <1>6
<1> QED BY <1>2, <1>5, <1>7 DEF s

\* What the new order shows of a set of keys.
LEMMA OrderShows ==
  ASSUME ContextInv, NEW e, e.key \in Key, ApplyPatch(e), NEW T
  PROVE  Only(contextOrder', T) =
           IF e.key \in T THEN Append(Only(contextOrder, T \cap (Key \ {Evicted(e), e.key})), e.key)
           ELSE Only(contextOrder, T \cap (Key \ {Evicted(e), e.key}))
<1> DEFINE R == Key \ {Evicted(e), e.key}
           s == Only(contextOrder, R)
<1>1. contextOrder' = Append(s, e.key)
  BY PatchOrders
<1>2. contextOrder \in Seq(Key)
  BY DEF ContextInv
<1>3. s \in Seq(Key)
  BY <1>2, OnlyTyped
<1>4. Only(s, T) = Only(contextOrder, R \cap T)
  BY <1>2, OnlyOnly
<1> HIDE DEF s, R
<1>5. Only(contextOrder', T) = IF e.key \in T THEN Append(Only(s, T), e.key) ELSE Only(s, T)
  BY <1>1, <1>3, OnlyAppend
<1>6. R \cap T = T \cap R
  OBVIOUS
<1>7. Only(contextOrder', T) =
        IF e.key \in T THEN Append(Only(contextOrder, T \cap R), e.key)
        ELSE Only(contextOrder, T \cap R)
  BY <1>4, <1>5, <1>6
<1> QED BY <1>7 DEF R

LEMMA PatchIndexesByCorr ==
  ASSUME ContextInv, NEW e, e.key \in Key, e.corr \in Corr \cup {NoCorr}, ApplyPatch(e)
  PROVE  /\ orderByCorr' \in [Corr -> Seq(Key)]
         /\ \A c \in Corr : orderByCorr'[c] = Only(contextOrder', {x \in Key : corrOf'[x] = c})
<1> DEFINE k == e.key
           gone == Evicted(e)
           F == [c \in Corr |-> KeysOf(c)]
           G == [c \in Corr |-> KeysOf(c) \ {gone}]
           one == Removed(orderByCorr, gone)
           two == Removed(one, k)
<1>1. /\ contextOrder \in Seq(Key) /\ Distinct(contextOrder)
      /\ orderByCorr \in [Corr -> Seq(Key)]
      /\ \A c \in Corr : orderByCorr[c] = Only(contextOrder, KeysOf(c))
      /\ corrOf \in [Key -> Corr \cup {NoCorr}]
  BY DEF ContextInv
<1>2. /\ F \in [Corr -> SUBSET Key] /\ G \in [Corr -> SUBSET Key]
      /\ \A c \in Corr : F[c] = KeysOf(c) /\ G[c] = KeysOf(c) \ {gone}
  BY DEF KeysOf
<1>3. orderByCorr' = Added(two, k, e.corr)
  BY DEF ApplyPatch
<1>4. /\ corrOf' = [x \in Key |-> IF x = k THEN e.corr
                                  ELSE IF x = gone THEN NoCorr ELSE corrOf[x]]
      /\ gone # k
  BY EvictedIs DEF ApplyPatch
<1> HIDE DEF F, G, gone
<1>5. /\ one \in [Corr -> Seq(Key)]
      /\ \A c \in Corr : one[c] = Only(contextOrder, KeysOf(c) \ {gone})
  <2>1. \A c \in Corr : F[c] \subseteq KeysOf(c) /\ orderByCorr[c] = Only(contextOrder, F[c])
    BY <1>1, <1>2
  <2>2. /\ one \in [Corr -> Seq(Key)]
        /\ \A c \in Corr : one[c] = Only(contextOrder, F[c] \ {gone})
    BY <1>1, <1>2, <2>1, RemovedIs
  <2> QED BY <1>2, <2>2
<1> HIDE DEF one
<1>6. /\ two \in [Corr -> Seq(Key)]
      /\ \A c \in Corr : two[c] = Only(contextOrder, (KeysOf(c) \ {gone}) \ {k})
  <2>1. \A c \in Corr : G[c] \subseteq KeysOf(c) /\ one[c] = Only(contextOrder, G[c])
    BY <1>2, <1>5
  <2>2. /\ two \in [Corr -> Seq(Key)]
        /\ \A c \in Corr : two[c] = Only(contextOrder, G[c] \ {k})
    <3> HIDE DEF k
    <3>1. one \in [Corr -> Seq(Key)]
      BY <1>5
    <3>2. G \in [Corr -> SUBSET Key]
      BY <1>2
    <3>3. contextOrder \in Seq(Key) /\ Distinct(contextOrder)
      BY <1>1
    <3> QED BY <2>1, <3>1, <3>2, <3>3, RemovedIs
  <2> QED BY <1>2, <2>2
<1> HIDE DEF two
<1>7. /\ orderByCorr' \in [Corr -> Seq(Key)]
      /\ \A c \in Corr : orderByCorr'[c] = IF c = e.corr THEN Append(two[c], k) ELSE two[c]
  BY <1>3, <1>6, AddedIs
<1>8. ASSUME NEW c \in Corr
      PROVE  orderByCorr'[c] = Only(contextOrder', {x \in Key : corrOf'[x] = c})
  <2> DEFINE T == {x \in Key : corrOf'[x] = c}
  <2>1. T \cap (Key \ {gone, k}) = (KeysOf(c) \ {gone}) \ {k}
    <3>1. \A x \in Key \ {gone, k} : corrOf'[x] = corrOf[x]
      BY <1>4
    <3> QED BY <3>1 DEF KeysOf
  <2>2. k \in T <=> c = e.corr
    BY <1>4
  <2> HIDE DEF T
  <2>3. Only(contextOrder', T) =
          IF k \in T THEN Append(Only(contextOrder, T \cap (Key \ {gone, k})), k)
          ELSE Only(contextOrder, T \cap (Key \ {gone, k}))
    BY OrderShows DEF gone
  <2>4. two[c] = Only(contextOrder, T \cap (Key \ {gone, k}))
    BY <1>6, <2>1
  <2> HIDE DEF k
  <2>5. CASE c = e.corr
    <3>1. orderByCorr'[c] = Append(two[c], k)
      BY <1>7, <2>5
    <3>2. Only(contextOrder', T) = Append(Only(contextOrder, T \cap (Key \ {gone, k})), k)
      BY <2>2, <2>3, <2>5
    <3> QED BY <2>4, <3>1, <3>2 DEF T
  <2>6. CASE c # e.corr
    <3>1. orderByCorr'[c] = two[c]
      BY <1>7, <2>6
    <3>2. Only(contextOrder', T) = Only(contextOrder, T \cap (Key \ {gone, k}))
      BY <2>2, <2>3, <2>6
    <3> QED BY <2>4, <3>1, <3>2 DEF T
  <2> QED BY <2>5, <2>6
<1> QED BY <1>7, <1>8

LEMMA PatchIndexesDelegates ==
  ASSUME ContextInv, NEW e, e.key \in Key, e.corr \in Corr \cup {NoCorr}, ApplyPatch(e)
  PROVE  /\ delegateOrder' = Only(contextOrder', DelegateKey)
         /\ delegateByCorr' \in [Corr -> Seq(Key)]
         /\ \A c \in Corr : delegateByCorr'[c] =
              Only(contextOrder', {x \in Key : corrOf'[x] = c} \cap DelegateKey)
<1> DEFINE k == e.key
           gone == Evicted(e)
           goneDelegate == IF IsDelegate(gone) THEN gone ELSE NoKey
           order == RemoveFirst(delegateOrder, goneDelegate)
           byCorr == Removed(delegateByCorr, goneDelegate)
           again == Removed(byCorr, k)
           F == [c \in Corr |-> KeysOf(c) \cap DelegateKey]
           G == [c \in Corr |-> (KeysOf(c) \cap DelegateKey) \ {goneDelegate}]
           R == Key \ {gone, k}
<1>1. /\ contextOrder \in Seq(Key) /\ Distinct(contextOrder)
      /\ delegateOrder = Only(contextOrder, DelegateKey)
      /\ delegateByCorr \in [Corr -> Seq(Key)]
      /\ \A c \in Corr : delegateByCorr[c] = Only(contextOrder, KeysOf(c) \cap DelegateKey)
  BY DEF ContextInv
<1>2. /\ F \in [Corr -> SUBSET Key] /\ G \in [Corr -> SUBSET Key]
      /\ \A c \in Corr : /\ F[c] = KeysOf(c) \cap DelegateKey
                         /\ G[c] = (KeysOf(c) \cap DelegateKey) \ {goneDelegate}
  BY DEF KeysOf
<1>3. /\ IsDelegate(k) => /\ delegateOrder' = Append(RemoveFirst(order, k), k)
                          /\ delegateByCorr' = Added(again, k, e.corr)
      /\ ~IsDelegate(k) => delegateOrder' = order /\ delegateByCorr' = byCorr
  BY DEF ApplyPatch
<1>4. /\ corrOf' = [x \in Key |-> IF x = k THEN e.corr
                                  ELSE IF x = gone THEN NoCorr ELSE corrOf[x]]
      /\ gone # k
  BY EvictedIs DEF ApplyPatch
<1>5. /\ DelegateKey \subseteq Key /\ NoKey \notin DelegateKey
      /\ DelegateKey \ {goneDelegate} = DelegateKey \ {gone}
      /\ k \in DelegateKey <=> IsDelegate(k)
  <2>1. gone \in Key \cup {NoKey}
    BY EvictedIs DEF Stored
  <2> HIDE DEF gone
  <2> QED BY <2>1, BusConstants DEF DelegateKey, IsDelegate
<1> HIDE DEF F, G, gone, goneDelegate
<1>6. delegateOrder' = Only(contextOrder', DelegateKey)
  <2>1. Only(contextOrder', DelegateKey) =
          IF k \in DelegateKey THEN Append(Only(contextOrder, DelegateKey \cap R), k)
          ELSE Only(contextOrder, DelegateKey \cap R)
    BY OrderShows DEF gone
  <2>2. delegateOrder \in Seq(Key) /\ Distinct(delegateOrder)
    BY <1>1, OnlyTyped, OnlyDistinct
  <2>3. /\ RemoveFirst(order, k) = Only(delegateOrder, Key \ {goneDelegate, k})
        /\ order = Only(delegateOrder, Key \ {goneDelegate})
    <3> HIDE DEF k
    <3>1. k \in Key
      BY DEF k
    <3> QED BY <2>2, <3>1, Reordered
  <2>4. /\ Only(delegateOrder, Key \ {goneDelegate, k}) =
             Only(contextOrder, DelegateKey \cap (Key \ {goneDelegate, k}))
        /\ Only(delegateOrder, Key \ {goneDelegate}) =
             Only(contextOrder, DelegateKey \cap (Key \ {goneDelegate}))
    BY <1>1, OnlyOnly
  <2>5. /\ DelegateKey \cap (Key \ {goneDelegate, k}) = DelegateKey \cap R
        /\ k \notin DelegateKey => DelegateKey \cap (Key \ {goneDelegate}) = DelegateKey \cap R
    BY <1>5
  <2> HIDE DEF k, R, order
  <2>6. CASE k \in DelegateKey
    BY <1>3, <1>5, <2>1, <2>3, <2>4, <2>5, <2>6
  <2>7. CASE k \notin DelegateKey
    BY <1>3, <1>5, <2>1, <2>3, <2>4, <2>5, <2>7
  <2> QED BY <2>6, <2>7
<1>7. /\ byCorr \in [Corr -> Seq(Key)]
      /\ \A c \in Corr : byCorr[c] = Only(contextOrder, (KeysOf(c) \cap DelegateKey) \ {goneDelegate})
  <2>1. \A c \in Corr : F[c] \subseteq KeysOf(c) /\ delegateByCorr[c] = Only(contextOrder, F[c])
    BY <1>1, <1>2
  <2>2. /\ byCorr \in [Corr -> Seq(Key)]
        /\ \A c \in Corr : byCorr[c] = Only(contextOrder, F[c] \ {goneDelegate})
    BY <1>1, <1>2, <2>1, RemovedIs
  <2> QED BY <1>2, <2>2
<1> HIDE DEF byCorr
<1>8. /\ again \in [Corr -> Seq(Key)]
      /\ \A c \in Corr : again[c] =
           Only(contextOrder, ((KeysOf(c) \cap DelegateKey) \ {goneDelegate}) \ {k})
  <2>1. \A c \in Corr : G[c] \subseteq KeysOf(c) /\ byCorr[c] = Only(contextOrder, G[c])
    BY <1>2, <1>7
  <2>2. /\ again \in [Corr -> Seq(Key)]
        /\ \A c \in Corr : again[c] = Only(contextOrder, G[c] \ {k})
    <3> HIDE DEF k
    <3>1. byCorr \in [Corr -> Seq(Key)]
      BY <1>7
    <3>2. G \in [Corr -> SUBSET Key]
      BY <1>2
    <3>3. contextOrder \in Seq(Key) /\ Distinct(contextOrder)
      BY <1>1
    <3> QED BY <2>1, <3>1, <3>2, <3>3, RemovedIs
  <2> QED BY <1>2, <2>2
<1> HIDE DEF again
<1>9. delegateByCorr' \in [Corr -> Seq(Key)]
  <2>1. Added(again, k, e.corr) \in [Corr -> Seq(Key)]
    BY <1>8, AddedIs
  <2> QED BY <1>3, <1>7, <2>1
<1>10. ASSUME NEW c \in Corr
       PROVE  delegateByCorr'[c] = Only(contextOrder', {x \in Key : corrOf'[x] = c} \cap DelegateKey)
  <2> DEFINE T == {x \in Key : corrOf'[x] = c} \cap DelegateKey
             old == KeysOf(c) \cap DelegateKey
  <2>1. T \cap R = (old \ {gone}) \ {k}
    <3>1. \A x \in Key \ {gone, k} : corrOf'[x] = corrOf[x]
      BY <1>4
    <3> QED BY <3>1 DEF KeysOf
  <2>2. k \in T <=> k \in DelegateKey /\ c = e.corr
    BY <1>4
  <2>3. old \ {goneDelegate} = old \ {gone}
    BY <1>5
  <2>4. k \notin DelegateKey => (old \ {gone}) \ {k} = old \ {gone}
    OBVIOUS
  <2>5. Only(contextOrder', T) =
          IF k \in T THEN Append(Only(contextOrder, T \cap R), k)
          ELSE Only(contextOrder, T \cap R)
    <3> HIDE DEF T
    <3> QED BY OrderShows DEF gone
  <2>6. again[c] = Only(contextOrder, T \cap R)
    BY <1>8, <2>1, <2>3
  <2>7. k \notin DelegateKey => byCorr[c] = Only(contextOrder, T \cap R)
    BY <1>7, <2>1, <2>3, <2>4
  <2>8. Added(again, k, e.corr)[c] = IF c = e.corr THEN Append(again[c], k) ELSE again[c]
    BY <1>8, AddedIs
  <2> HIDE DEF T, k, R, old
  <2>9. CASE k \notin DelegateKey
    <3>1. delegateByCorr'[c] = byCorr[c]
      BY <1>3, <1>5, <2>9
    <3>2. Only(contextOrder', T) = Only(contextOrder, T \cap R)
      BY <2>2, <2>5, <2>9
    <3> QED BY <2>7, <2>9, <3>1, <3>2 DEF T
  <2>10. CASE k \in DelegateKey
    <3>1. delegateByCorr'[c] = Added(again, k, e.corr)[c]
      BY <1>3, <1>5, <2>10
    <3>2. CASE c = e.corr
      <4>1. Only(contextOrder', T) = Append(Only(contextOrder, T \cap R), k)
        BY <2>2, <2>5, <2>10, <3>2
      <4> QED BY <2>6, <2>8, <3>1, <3>2, <4>1 DEF T
    <3>3. CASE c # e.corr
      <4>1. Only(contextOrder', T) = Only(contextOrder, T \cap R)
        BY <2>2, <2>5, <3>3
      <4> QED BY <2>6, <2>8, <3>1, <3>3, <4>1 DEF T
    <3> QED BY <3>2, <3>3
  <2> QED BY <2>9, <2>10
<1> QED BY <1>6, <1>9, <1>10

LEMMA PatchKeepsContext ==
  ASSUME ContextInv, NEW e, e.key \in Key, e.corr \in Corr \cup {NoCorr}, ApplyPatch(e)
  PROVE  ContextInv'
<1>1. /\ version' \in [Key -> Nat]
      /\ Stored' = (Stored \ {Evicted(e)}) \cup {e.key}
      /\ IsFiniteSet(Stored') /\ Cardinality(Stored') <= MaxContext
      /\ corrOf' \in [Key -> Corr \cup {NoCorr}]
  BY PatchStores
<1>2. /\ contextOrder' \in Seq(Key) /\ Distinct(contextOrder')
      /\ ToSet(contextOrder') = Stored'
  BY <1>1, PatchOrders
<1>3. /\ orderByCorr' \in [Corr -> Seq(Key)]
      /\ \A c \in Corr : orderByCorr'[c] = Only(contextOrder', {x \in Key : corrOf'[x] = c})
  BY PatchIndexesByCorr
<1>4. /\ delegateOrder' = Only(contextOrder', DelegateKey)
      /\ delegateByCorr' \in [Corr -> Seq(Key)]
      /\ \A c \in Corr : delegateByCorr'[c] =
           Only(contextOrder', {x \in Key : corrOf'[x] = c} \cap DelegateKey)
  BY PatchIndexesDelegates
<1> QED BY <1>1, <1>2, <1>3, <1>4 DEF ContextInv, KeysOf, DelegateKey, IsDelegate

LEMMA ContextStays ==
  ASSUME ContextInv, UNCHANGED contextVars
  PROVE  ContextInv'
BY DEF ContextInv, contextVars, Stored, KeysOf, DelegateKey, IsDelegate

LEMMA PublishKeepsContext ==
  ASSUME ContextInv, NEW e, e.key \in Key \cup {NoKey}, e.corr \in Corr \cup {NoCorr},
         Publish(e)
  PROVE  ContextInv'
<1>1. CASE UNCHANGED contextVars
  BY <1>1, ContextStays
<1>2. CASE e.key # NoKey /\ ApplyPatch(e)
  BY <1>2, PatchKeepsContext
<1>3. UNCHANGED contextVars \/ (e.key # NoKey /\ ApplyPatch(e))
  BY DEF Publish, RejectDuplicate, RejectPatch, RejectUnknownTarget, Deliver, Accept
<1> QED BY <1>1, <1>2, <1>3

BusInv == QueueInv /\ ContextInv

LEMMA BusIsSound ==
  ASSUME BusInv
  PROVE  TypeOK /\ ContextIndexed /\ QueuesIndexed
<1>1. TypeOK
  <2>1. /\ attempts \in Nat /\ nextSequence \in 0..attempts
        /\ seenOrder \in Seq(Id) /\ Len(seenOrder) <= MaxSeen
        /\ deadLetters \in Seq(Letter) /\ Len(deadLetters) <= MaxDead
        /\ deadByCorr \in [Corr -> Seq(Letter)]
    BY DEF BusInv, QueueInv, WindowInv, DeadInv
  <2>2. /\ Registered \subseteq Agent
        /\ \A a \in Registered : inboxes[a] \in Seq(Entry) /\ Len(inboxes[a]) <= MaxInbox
        /\ inboxCounts \in [Registered -> [Corr -> Nat]]
    BY DEF BusInv, QueueInv, InboxInv, InboxGood
  <2>3. /\ version \in [Key -> Nat] /\ Cardinality(Stored) <= MaxContext
        /\ contextOrder \in Seq(Key)
        /\ orderByCorr \in [Corr -> Seq(Key)] /\ delegateByCorr \in [Corr -> Seq(Key)]
        /\ corrOf \in [Key -> Corr \cup {NoCorr}]
    BY DEF BusInv, ContextInv
  <2>4. delegateOrder \in Seq(Key)
    BY <2>3, OnlyTyped DEF BusInv, ContextInv
  <2> QED BY <2>1, <2>2, <2>3, <2>4 DEF TypeOK
<1>2. ContextIndexed
  <2>1. ToSet(contextOrder) = Stored /\ delegateOrder = Only(contextOrder, DelegateKey)
    BY DEF BusInv, ContextInv
  <2>2. \A i, j \in DOMAIN contextOrder : contextOrder[i] = contextOrder[j] => i = j
    BY DEF BusInv, ContextInv, Distinct
  <2>3. ASSUME NEW c \in Corr
        PROVE  /\ orderByCorr[c] = Only(contextOrder, {k \in Key : corrOf[k] = c})
               /\ delegateByCorr[c] = Only(orderByCorr[c], DelegateKey)
    <3>1. /\ orderByCorr[c] = Only(contextOrder, KeysOf(c))
          /\ delegateByCorr[c] = Only(contextOrder, KeysOf(c) \cap DelegateKey)
          /\ contextOrder \in Seq(Key)
      BY DEF BusInv, ContextInv
    <3>2. Only(Only(contextOrder, KeysOf(c)), DelegateKey) =
            Only(contextOrder, KeysOf(c) \cap DelegateKey)
      BY <3>1, OnlyOnly
    <3> QED BY <3>1, <3>2 DEF KeysOf
  <2> QED BY <1>1, <2>1, <2>2, <2>3 DEF ContextIndexed
<1>3. QueuesIndexed
  <2>1. ASSUME NEW a \in Registered
        PROVE  /\ \A i, j \in DOMAIN inboxes[a] :
                    i < j => inboxes[a][i].sequence < inboxes[a][j].sequence
               /\ \A c \in Corr : inboxCounts[a][c] = Len(Only(inboxes[a], OfCorr(Entry, c)))
    <3>1. InboxGood(inboxes[a], inboxCounts[a], nextSequence)
      BY DEF BusInv, QueueInv, InboxInv
    <3>2. DOMAIN inboxes[a] = 1..Len(inboxes[a])
      BY <3>1 DEF InboxGood
    <3> QED BY <3>1, <3>2 DEF InboxGood
  <2>2. \A c \in Corr : deadByCorr[c] = Only(deadLetters, OfCorr(Letter, c))
    BY DEF BusInv, QueueInv, DeadInv
  <2> QED BY <2>1, <2>2 DEF QueuesIndexed
<1> QED BY <1>1, <1>2, <1>3

LEMMA BusStays ==
  ASSUME BusInv, UNCHANGED vars
  PROVE  BusInv'
<1>1. /\ attempts' = attempts /\ nextSequence' = nextSequence /\ seenOrder' = seenOrder
      /\ UNCHANGED inboxVars /\ UNCHANGED contextVars
      /\ deadLetters' = deadLetters /\ deadByCorr' = deadByCorr
  BY DEF vars, deadVars
<1>2. DeadInv /\ InboxInv /\ WindowInv /\ ContextInv
  BY DEF BusInv, QueueInv
<1>3. DeadInv' /\ WindowInv'
  BY <1>1, <1>2 DEF DeadInv, WindowInv
<1>4. InboxInv' /\ ContextInv'
  BY <1>1, <1>2, InboxesStay, ContextStays
<1> QED BY <1>3, <1>4 DEF BusInv, QueueInv

LEMMA InitContextInv ==
  ASSUME NEW agents, InitWith(agents)
  PROVE  ContextInv
<1>0. /\ <<>> \in Seq(Key)
      /\ \A T : Only(<<>>, T) = <<>>
  BY OnlyNone
<1>1. /\ version = [k \in Key |-> 0] /\ corrOf = [k \in Key |-> NoCorr]
      /\ contextOrder = <<>> /\ delegateOrder = <<>>
      /\ orderByCorr = [c \in Corr |-> <<>>] /\ delegateByCorr = [c \in Corr |-> <<>>]
  BY DEF InitWith
<1>2. Stored = {}
  BY <1>1 DEF Stored
<1>3. IsFiniteSet(Stored) /\ Cardinality(Stored) <= MaxContext
  BY <1>2, FS_EmptySet, BusConstants
<1>4. Distinct(contextOrder) /\ ToSet(contextOrder) = Stored
  BY <1>1, <1>2, SetOfNone DEF Distinct
<1>5. delegateOrder = Only(contextOrder, DelegateKey)
  BY <1>0, <1>1
<1>6. \A c \in Corr : /\ orderByCorr[c] = Only(contextOrder, KeysOf(c))
                      /\ delegateByCorr[c] = Only(contextOrder, KeysOf(c) \cap DelegateKey)
  BY <1>0, <1>1
<1>7. /\ version \in [Key -> Nat] /\ corrOf \in [Key -> Corr \cup {NoCorr}]
      /\ contextOrder \in Seq(Key)
      /\ orderByCorr \in [Corr -> Seq(Key)] /\ delegateByCorr \in [Corr -> Seq(Key)]
  BY <1>0, <1>1
<1> QED BY <1>3, <1>4, <1>5, <1>6, <1>7 DEF ContextInv

LEMMA InitBusInv ==
  ASSUME NEW agents \in SUBSET Agent, IsFiniteSet(agents), InitWith(agents)
  PROVE  BusInv
<1>1. /\ \A S : <<>> \in Seq(S)
      /\ Len(<<>>) = 0 /\ 1..Len(<<>>) = {}
      /\ \A T : Only(<<>>, T) = <<>>
  BY OnlyNone
<1>2. DeadInv
  BY <1>1, BusConstants DEF InitWith, DeadInv
<1>3. WindowInv
  BY <1>1, BusConstants DEF InitWith, WindowInv
<1>4. InboxInv
  <2>1. /\ Registered = agents
        /\ \A a \in Registered : inboxes[a] = <<>> /\ inboxCounts[a] = [c \in Corr |-> 0]
        /\ inboxCounts \in [Registered -> [Corr -> Nat]]
        /\ nextSequence = 0
    BY DEF InitWith, Registered
  <2>2. InboxGood(<<>>, [c \in Corr |-> 0], 0)
    BY <1>1, BusConstants DEF InboxGood
  <2>3. \A a \in Registered : InboxGood(inboxes[a], inboxCounts[a], nextSequence)
    BY <2>1, <2>2
  <2> QED BY <2>1, <2>3 DEF InboxInv
<1>5. ContextInv
  BY InitContextInv
<1> QED BY <1>2, <1>3, <1>4, <1>5 DEF BusInv, QueueInv

-----------------------------------------------------------------------------
(* Any clients: the bus stays sound.                                       *)

\* The window is the end of what was accepted, as much of it as fits.
AcceptedInv ==
  /\ accepted \in Seq(Id)
  /\ Len(seenOrder) = IF Len(accepted) <= MaxSeen THEN Len(accepted) ELSE MaxSeen
  /\ \A i \in 1..Len(seenOrder) :
       seenOrder[i] = accepted[Len(accepted) - Len(seenOrder) + i]
  /\ \A i, j \in 1..Len(accepted) : i < j /\ accepted[i] = accepted[j] => j - i > MaxSeen

ClientsInv == BusInv /\ AcceptedInv

LEMMA EnvelopeFields ==
  ASSUME NEW e \in Envelopes
  PROVE  /\ e.id \in Id /\ e.corr \in Corr \cup {NoCorr} /\ e.key \in Key \cup {NoKey}
         /\ Posted(e)
BY ClientsAssumption DEF Envelopes, Posted

LEMMA AcceptedGrows ==
  ASSUME AcceptedInv, WindowInv, NEW id \in Id, ~Seen(id), Remember(id),
         accepted' = Append(accepted, id)
  PROVE  AcceptedInv'
<1> DEFINE n == Len(accepted)
           m == Len(seenOrder)
<1>1. /\ accepted \in Seq(Id) /\ seenOrder \in Seq(Id) /\ n \in Nat /\ m \in Nat
      /\ MaxSeen \in Nat /\ MaxSeen > 0
      /\ m = IF n <= MaxSeen THEN n ELSE MaxSeen
      /\ \A i \in 1..m : seenOrder[i] = accepted[n - m + i]
      /\ \A i, j \in 1..n : i < j /\ accepted[i] = accepted[j] => j - i > MaxSeen
  <2>1. accepted \in Seq(Id) /\ seenOrder \in Seq(Id)
    BY DEF AcceptedInv, WindowInv
  <2>2. n \in Nat /\ m \in Nat /\ MaxSeen \in Nat /\ MaxSeen > 0
    BY <2>1, BusConstants
  <2> QED BY <2>1, <2>2 DEF AcceptedInv
<1>2. /\ accepted' \in Seq(Id) /\ Len(accepted') = n + 1 /\ accepted'[n + 1] = id
      /\ \A i \in 1..n : accepted'[i] = accepted[i]
  BY <1>1
<1>3. \A i \in 1..m : seenOrder[i] # id
  <2>1. DOMAIN seenOrder = 1..m
    BY <1>1
  <2> QED BY <2>1 DEF Seen
<1>4. /\ Len(seenOrder') = IF n + 1 <= MaxSeen THEN n + 1 ELSE MaxSeen
      /\ \A i \in 1..Len(seenOrder') : seenOrder'[i] = accepted'[n + 1 - Len(seenOrder') + i]
  <2>1. CASE WindowFull
    <3>1. m = MaxSeen /\ n >= MaxSeen /\ seenOrder # <<>>
      BY <1>1, <2>1 DEF WindowFull
    <3>2. seenOrder' = Append(Tail(seenOrder), id)
      BY <2>1 DEF Remember
    <3> DEFINE t == Tail(seenOrder)
    <3>3. /\ t \in Seq(Id) /\ Len(t) = m - 1
          /\ \A i \in 1..Len(t) : t[i] = seenOrder[i + 1]
      BY <1>1, <3>1, HeadTailProperties
    <3> HIDE DEF t, m, n
    <3>4. /\ Len(Append(t, id)) = m
          /\ \A i \in 1..(m - 1) : Append(t, id)[i] = t[i]
          /\ Append(t, id)[m] = id
      BY <1>1, <3>3
    <3>5. ASSUME NEW i \in 1..m
          PROVE  Append(t, id)[i] = accepted'[n + 1 - m + i]
      <4>1. CASE i = m
        <5>1. n + 1 - m + i = n + 1
          BY <1>1, <4>1
        <5> QED BY <1>2, <3>4, <4>1, <5>1
      <4>2. CASE i # m
        <5>1. /\ i \in 1..(m - 1) /\ i + 1 \in 1..m
              /\ n - m + (i + 1) = n + 1 - m + i /\ n + 1 - m + i \in 1..n
          BY <1>1, <3>1, <4>2
        <5>2. Append(t, id)[i] = seenOrder[i + 1]
          BY <3>3, <3>4, <5>1
        <5>3. seenOrder[i + 1] = accepted[n + 1 - m + i]
          BY <1>1, <5>1
        <5> QED BY <1>2, <5>1, <5>2, <5>3
      <4> QED BY <4>1, <4>2
    <3>6. ~(n + 1 <= MaxSeen)
      BY <1>1, <3>1
    <3>7. Len(seenOrder') = m
      BY <3>2, <3>4 DEF t
    <3>8. \A i \in 1..m : seenOrder'[i] = accepted'[n + 1 - m + i]
      BY <3>2, <3>5 DEF t
    <3> QED BY <3>1, <3>6, <3>7, <3>8
  <2>2. CASE ~WindowFull
    <3>1. m = n /\ n + 1 <= MaxSeen
      BY <1>1, <2>2 DEF WindowFull
    <3>2. seenOrder' = Append(seenOrder, id)
      BY <2>2 DEF Remember
    <3>3. /\ Len(seenOrder') = m + 1
          /\ \A i \in 1..m : seenOrder'[i] = seenOrder[i]
          /\ seenOrder'[m + 1] = id
      BY <1>1, <3>2
    <3> HIDE DEF m, n
    <3>4. ASSUME NEW i \in 1..(m + 1)
          PROVE  seenOrder'[i] = accepted'[i]
      <4>1. CASE i = m + 1
        BY <1>2, <3>1, <3>3, <4>1
      <4>2. CASE i # m + 1
        <5>1. i \in 1..m /\ i \in 1..n /\ n - m + i = i
          BY <1>1, <3>1, <4>2
        <5>2. seenOrder[i] = accepted[i]
          BY <1>1, <5>1
        <5> QED BY <1>2, <3>3, <5>1, <5>2
      <4> QED BY <4>1, <4>2
    <3>5. \A i \in 1..(m + 1) : n + 1 - (m + 1) + i = i
      BY <1>1, <3>1
    <3>6. \A i \in 1..(m + 1) : seenOrder'[i] = accepted'[n + 1 - (m + 1) + i]
      BY <3>4, <3>5
    <3> QED BY <3>1, <3>3, <3>6
  <2> QED BY <2>1, <2>2
<1>5. ASSUME NEW i \in 1..(n + 1), NEW j \in 1..(n + 1), i < j, accepted'[i] = accepted'[j]
      PROVE  j - i > MaxSeen
  <2> HIDE DEF m, n
  <2>0. i \in 1..n /\ accepted'[i] = accepted[i]
    <3>1. i \in 1..n
      BY <1>1, <1>5
    <3> QED BY <1>2, <3>1
  <2>1. CASE j \in 1..n
    <3>1. accepted[i] = accepted[j]
      BY <1>2, <1>5, <2>0, <2>1
    <3> QED BY <1>1, <1>5, <2>0, <2>1, <3>1
  <2>2. CASE j = n + 1
    <3>1. accepted[i] = id
      BY <1>2, <1>5, <2>0, <2>2
    <3>2. ~(i > n - m)
      <4> SUFFICES ASSUME i > n - m PROVE FALSE
        OBVIOUS
      <4>1. i - (n - m) \in 1..m /\ n - m + (i - (n - m)) = i
        BY <1>1, <2>0
      <4>2. seenOrder[i - (n - m)] = accepted[i]
        BY <1>1, <4>1
      <4> QED BY <1>3, <3>1, <4>1, <4>2
    <3>3. i <= n - m /\ 1 <= i /\ i \in Nat
      BY <1>1, <2>0, <3>2
    <3>4. m = MaxSeen
      BY <1>1, <3>3
    <3> QED BY <1>1, <2>2, <3>3, <3>4
  <2>3. j \in 1..n \/ j = n + 1
    BY <1>1
  <2> QED BY <2>1, <2>2, <2>3
<1> HIDE DEF m, n
<1>6. Len(accepted') = n + 1
  BY <1>2
<1>7. \A i, j \in 1..Len(accepted') : i < j /\ accepted'[i] = accepted'[j] => j - i > MaxSeen
  BY <1>5, <1>6
<1>8. /\ Len(seenOrder') = IF Len(accepted') <= MaxSeen THEN Len(accepted') ELSE MaxSeen
      /\ \A i \in 1..Len(seenOrder') :
           seenOrder'[i] = accepted'[Len(accepted') - Len(seenOrder') + i]
  <2> DEFINE m1 == Len(seenOrder')
             n1 == Len(accepted')
  <2>a. n1 = n + 1
    BY <1>6
  <2>b. m1 = IF n + 1 <= MaxSeen THEN n + 1 ELSE MaxSeen
    BY <1>4
  <2>c. \A i \in 1..m1 : seenOrder'[i] = accepted'[n + 1 - m1 + i]
    BY <1>4
  <2> HIDE DEF m1, n1
  <2>1. m1 = IF n1 <= MaxSeen THEN n1 ELSE MaxSeen
    BY <2>a, <2>b
  <2>2. \A i \in 1..m1 : seenOrder'[i] = accepted'[n1 - m1 + i]
    <3> SUFFICES ASSUME NEW i \in 1..m1 PROVE seenOrder'[i] = accepted'[n1 - m1 + i]
      OBVIOUS
    <3>1. m1 \in Int /\ n \in Int /\ i \in Int
      BY <1>1, <2>b, <2>a
    <3>2. n1 - m1 + i = n + 1 - m1 + i
      BY <2>a, <3>1
    <3>3. seenOrder'[i] = accepted'[n + 1 - m1 + i]
      BY <2>c
    <3> QED BY <3>2, <3>3
  <2> QED BY <2>1, <2>2 DEF m1, n1
<1> QED BY <1>2, <1>7, <1>8 DEF AcceptedInv

LEMMA CallKeepsClientsInv ==
  ASSUME ClientsInv, NEW e \in Envelopes, NEW slow, Publish(e), Recorded(e, slow)
  PROVE  ClientsInv'
<1>1. BusInv /\ AcceptedInv /\ QueueInv /\ ContextInv /\ WindowInv
  BY DEF ClientsInv, BusInv, QueueInv
<1>2. BusInv'
  BY <1>1, EnvelopeFields, PublishKeepsQueues, PublishKeepsContext DEF BusInv
<1>3. CASE Seen(e.id)
  <2>1. accepted' = accepted
    BY <1>3 DEF Recorded
  <2>2. seenOrder' = seenOrder
    BY <1>3 DEF Publish, RejectDuplicate, RejectPatch, RejectUnknownTarget, Deliver, Accept
  <2> QED BY <1>1, <1>2, <2>1, <2>2 DEF ClientsInv, AcceptedInv
<1>4. CASE ~Seen(e.id)
  <2>1. accepted' = Append(accepted, e.id)
    BY <1>4 DEF Recorded
  <2>2. Remember(e.id)
    BY <1>4 DEF Publish, RejectDuplicate, RejectPatch, RejectUnknownTarget, Deliver, Accept
  <2>3. AcceptedInv'
    BY <1>1, <1>4, <2>1, <2>2, EnvelopeFields, AcceptedGrows
  <2> QED BY <1>2, <2>3 DEF ClientsInv
<1> QED BY <1>3, <1>4

LEMMA OtherKeepsClientsInv ==
  ASSUME ClientsInv, Other
  PROVE  ClientsInv'
<1>1. BusInv /\ AcceptedInv /\ QueueInv /\ ContextInv /\ DeadInv /\ InboxInv /\ WindowInv
  BY DEF ClientsInv, BusInv, QueueInv
<1>2. accepted' = accepted
  BY DEF Other
<1>3. CASE \E a \in Agent : Register(a) \/ Unregister(a)
  <2>1. PICK a \in Agent : Register(a) \/ Unregister(a)
    BY <1>3
  <2>2. UNCHANGED contextVars /\ seenOrder' = seenOrder
    BY <2>1 DEF Register, Unregister
  <2>3. QueueInv'
    <3>1. 0 \in Nat
      OBVIOUS
    <3> QED BY <1>1, <2>1, <3>1, AgentsKeepQueues
  <2>4. ContextInv'
    BY <1>1, <2>2, ContextStays
  <2> QED BY <1>1, <1>2, <2>2, <2>3, <2>4 DEF ClientsInv, BusInv, AcceptedInv
<1>4. CASE \E a \in Agent, max \in 0..MaxInbox : Drain(a, max)
  <2>1. PICK a \in Agent, max \in 0..MaxInbox : Drain(a, max)
    BY <1>4
  <2>2. UNCHANGED contextVars /\ seenOrder' = seenOrder
    BY <2>1 DEF Drain
  <2>3. QueueInv'
    <3>1. max \in Nat
      BY BusConstants
    <3> QED BY <1>1, <2>1, <3>1, AgentsKeepQueues
  <2>4. ContextInv'
    BY <1>1, <2>2, ContextStays
  <2> QED BY <1>1, <1>2, <2>2, <2>3, <2>4 DEF ClientsInv, BusInv, AcceptedInv
<1>5. CASE \E i \in ClientId, t \in Template : Malformed([id |-> i, corr |-> t.corr])
  <2>1. PICK i \in ClientId, t \in Template : Malformed([id |-> i, corr |-> t.corr])
    BY <1>5
  <2>2. [id |-> i, corr |-> t.corr] \in Letter
    BY ClientsAssumption DEF Letter
  <2>3. /\ Bury(<<[id |-> i, corr |-> t.corr]>>)
        /\ UNCHANGED contextVars /\ UNCHANGED inboxVars
        /\ attempts' = attempts /\ nextSequence' = nextSequence /\ seenOrder' = seenOrder
    BY <2>1 DEF Malformed
  <2>4. DeadInv'
    BY <1>1, <2>2, <2>3, BuryOne
  <2>5. InboxInv'
    BY <1>1, <2>3, InboxesStay
  <2>6. WindowInv'
    BY <1>1, <2>3 DEF WindowInv
  <2>7. ContextInv'
    BY <1>1, <2>3, ContextStays
  <2>8. AcceptedInv'
    BY <1>1, <1>2, <2>3 DEF AcceptedInv
  <2> QED BY <2>4, <2>5, <2>6, <2>7, <2>8 DEF ClientsInv, BusInv, QueueInv
<1> QED BY <1>3, <1>4, <1>5 DEF Other

LEMMA ClientsStayKeepsInv ==
  ASSUME ClientsInv, UNCHANGED <<vars, accepted>>
  PROVE  ClientsInv'
<1>1. UNCHANGED vars /\ BusInv /\ AcceptedInv
  BY DEF ClientsInv
<1>2. BusInv'
  BY <1>1, BusStays
<1>3. seenOrder' = seenOrder /\ accepted' = accepted
  BY <1>1 DEF vars
<1>4. AcceptedInv'
  BY <1>1, <1>3 DEF AcceptedInv
<1> QED BY <1>2, <1>4 DEF ClientsInv

LEMMA ClientsInvariance == CSpec => []ClientsInv
<1>1. CInit => ClientsInv
  <2> SUFFICES ASSUME CInit PROVE ClientsInv
    OBVIOUS
  <2>1. BusInv
    <3>1. {} \in SUBSET Agent /\ IsFiniteSet({}) /\ InitWith({})
      BY FS_EmptySet DEF CInit
    <3> QED BY <3>1, InitBusInv
  <2>2. AcceptedInv
    <3>1. accepted = <<>> /\ seenOrder = <<>>
      BY DEF CInit, InitWith
    <3>2. <<>> \in Seq(Id) /\ Len(<<>>) = 0 /\ 1..Len(<<>>) = {}
      OBVIOUS
    <3> QED BY <3>1, <3>2, BusConstants DEF AcceptedInv
  <2> QED BY <2>1, <2>2 DEF ClientsInv
<1>2. ClientsInv /\ [CNext]_clientVars => ClientsInv'
  <2> SUFFICES ASSUME ClientsInv, [CNext]_clientVars PROVE ClientsInv'
    OBVIOUS
  <2>1. CASE \E e \in Envelopes : Call(e) \/ SlowPatch(e)
    <3>1. PICK e \in Envelopes : Call(e) \/ SlowPatch(e)
      BY <2>1
    <3>2. Publish(e) /\ (Recorded(e, FALSE) \/ Recorded(e, TRUE))
      BY <3>1 DEF Call, SlowPatch
    <3> QED BY <3>2, CallKeepsClientsInv
  <2>2. CASE \E k \in SlowKey : Read(k)
    <3>1. UNCHANGED <<vars, accepted>>
      BY <2>2 DEF Read
    <3> QED BY <3>1, ClientsStayKeepsInv
  <2>3. CASE Other
    BY <2>3, OtherKeepsClientsInv
  <2>4. CASE UNCHANGED clientVars
    <3>1. UNCHANGED <<vars, accepted>>
      BY <2>4 DEF clientVars
    <3> QED BY <3>1, ClientsStayKeepsInv
  <2> QED BY <2>1, <2>2, <2>3, <2>4 DEF CNext
<1> QED BY <1>1, <1>2, PTL DEF CSpec

\* The five indexes of the context agree and list it in the order of recency, and
\* every collection stays within its limit, whatever the clients publish.
\* (apply_context_patch_locked)
THEOREM ContextStaysIndexed == CSpec => []ContextIndexed
<1>1. ClientsInv => ContextIndexed
  BY BusIsSound DEF ClientsInv
<1> QED BY <1>1, ClientsInvariance, PTL

\* What is pending is in order and counted right, what is dead is found through
\* its correlation, and an id passes the guard again only when the window has
\* forgotten it.  (publish, push_inbox_entry_locked, drain_for_agent)
THEOREM DeliveryIsSound == CSpec => []DeliverySound
<1>1. ClientsInv => DeliverySound
  <2> SUFFICES ASSUME ClientsInv PROVE DeliverySound
    OBVIOUS
  <2>1. QueuesIndexed
    BY BusIsSound DEF ClientsInv
  <2>2. DOMAIN accepted = 1..Len(accepted)
    BY DEF ClientsInv, AcceptedInv
  <2>3. \A i, j \in DOMAIN accepted : i < j /\ accepted[i] = accepted[j] => j - i > MaxSeen
    BY <2>2 DEF ClientsInv, AcceptedInv
  <2> QED BY <2>1, <2>3 DEF DeliverySound
<1> QED BY <1>1, ClientsInvariance, PTL

-----------------------------------------------------------------------------
(* The optimistic lock.                                                    *)

Write == [attempt : Nat, slow : BOOLEAN]

\* What the slow client read is not newer than the entry, and is the entry if it
\* has the same version, unless the key was evicted since.
ReadsHold ==
  \A k \in SlowKey : ~read[k].evicted =>
    /\ read[k].version <= version[k]
    /\ version[k] = read[k].version => writer[k] = read[k].writer

LockInv ==
  /\ attempts \in Nat /\ version \in [Key -> Nat] /\ writer \in [Key -> Write]
  /\ read \in [SlowKey -> [version : Nat, writer : Write, evicted : BOOLEAN]]
  /\ ReadsHold

\* A publication leaves the version of a key, clears it, or moves it on, and the
\* last for the key of the envelope alone, which then names its version.
LEMMA VersionMoves ==
  ASSUME attempts \in Nat, version \in [Key -> Nat], NEW e, Publish(e)
  PROVE  /\ attempts' = attempts + 1 /\ version' \in [Key -> Nat]
         /\ \A k \in Key : \/ version'[k] = version[k]
                           \/ version'[k] = 0
                           \/ /\ k = e.key /\ version'[k] = version[k] + 1
                              /\ e.expected = version[k]
<1>1. attempts' = attempts + 1
  BY DEF Publish, RejectDuplicate, RejectPatch, RejectUnknownTarget, Deliver, Accept, Attempt
<1>2. \/ version' = version
      \/ e.key # NoKey /\ PatchAccepted(e) /\ ApplyPatch(e)
  BY DEF Publish, RejectDuplicate, RejectPatch, RejectUnknownTarget, Deliver, Accept, contextVars
<1>3. CASE version' = version
  BY <1>1, <1>3
<1>4. CASE e.key # NoKey /\ PatchAccepted(e) /\ ApplyPatch(e)
  <2>1. version' = [x \in Key |-> IF x = e.key THEN version[x] + 1
                                  ELSE IF x = Evicted(e) THEN 0 ELSE version[x]]
    BY <1>4 DEF ApplyPatch
  <2>2. e.expected = version[e.key]
    BY <1>4 DEF PatchAccepted, VersionMatches
  <2> HIDE DEF PatchAccepted
  <2>3. version' \in [Key -> Nat]
    BY <2>1
  <2>4. \A k \in Key : \/ version'[k] = version[k]
                       \/ version'[k] = 0
                       \/ /\ k = e.key /\ version'[k] = version[k] + 1
                          /\ e.expected = version[k]
    BY <2>1, <2>2
  <2> QED BY <1>1, <2>3, <2>4
<1> QED BY <1>2, <1>3, <1>4

LEMMA RecordedKeepsLockInv ==
  ASSUME LockInv, NEW e, NEW slow \in BOOLEAN, Publish(e), Recorded(e, slow)
  PROVE  LockInv'
<1>1. /\ attempts \in Nat /\ version \in [Key -> Nat] /\ writer \in [Key -> Write]
      /\ read \in [SlowKey -> [version : Nat, writer : Write, evicted : BOOLEAN]]
      /\ SlowKey \subseteq Key
  BY ClientsAssumption DEF LockInv
<1>2. /\ attempts' = attempts + 1 /\ version' \in [Key -> Nat]
      /\ \A k \in Key : \/ version'[k] = version[k]
                        \/ version'[k] = 0
                        \/ version'[k] = version[k] + 1
  BY <1>1, VersionMoves
<1>3. /\ writer' = [k \in Key |->
           IF version'[k] = version[k] THEN writer[k]
           ELSE IF k = e.key THEN [attempt |-> attempts', slow |-> slow] ELSE NoWrite]
      /\ read' = [k \in SlowKey |->
           IF version[k] > 0 /\ version'[k] = 0 THEN [read[k] EXCEPT !.evicted = TRUE]
           ELSE read[k]]
  BY DEF Recorded
<1>4. writer' \in [Key -> Write]
  <2>1. [attempt |-> attempts', slow |-> slow] \in Write /\ NoWrite \in Write
    BY <1>1, <1>2 DEF Write, NoWrite
  <2> QED BY <1>1, <1>3, <2>1
<1>5. read' \in [SlowKey -> [version : Nat, writer : Write, evicted : BOOLEAN]]
  BY <1>1, <1>3
<1>6. ReadsHold'
  <2> SUFFICES ASSUME NEW k \in SlowKey, ~read'[k].evicted
               PROVE  /\ read'[k].version <= version'[k]
                      /\ version'[k] = read'[k].version => writer'[k] = read'[k].writer
    BY DEF ReadsHold
  <2>1. k \in Key /\ version[k] \in Nat /\ read[k].version \in Nat
    BY <1>1
  <2>2. ~(version[k] > 0 /\ version'[k] = 0)
    <3> SUFFICES ASSUME version[k] > 0 /\ version'[k] = 0 PROVE FALSE
      OBVIOUS
    <3>1. read'[k] = [read[k] EXCEPT !.evicted = TRUE]
      BY <1>3
    <3>2. read[k] \in [version : Nat, writer : Write, evicted : BOOLEAN]
      BY <1>1
    <3>3. read'[k].evicted
      BY <3>1, <3>2
    <3> QED BY <3>3
  <2>3. read'[k] = read[k]
    BY <1>3, <2>2
  <2>4. /\ read[k].version <= version[k]
        /\ version[k] = read[k].version => writer[k] = read[k].writer
    BY <2>3 DEF LockInv, ReadsHold
  <2>5. CASE version'[k] = version[k]
    <3>1. writer'[k] = writer[k]
      BY <1>3, <2>1, <2>5
    <3> QED BY <2>3, <2>4, <2>5, <3>1
  <2>6. CASE version'[k] # version[k]
    <3>1. version'[k] = version[k] + 1
      BY <1>2, <2>1, <2>2, <2>6
    <3>2. read[k].version <= version'[k] /\ version'[k] # read[k].version
      BY <2>1, <2>4, <3>1
    <3> QED BY <2>3, <3>2
  <2> QED BY <2>5, <2>6
<1>7. attempts' \in Nat
  BY <1>1, <1>2
<1> QED BY <1>2, <1>4, <1>5, <1>6, <1>7 DEF LockInv, Write

LEMMA LockInvariance == CSpec => []LockInv
<1>1. CInit => LockInv
  <2> SUFFICES ASSUME CInit PROVE LockInv
    OBVIOUS
  <2>1. /\ attempts = 0 /\ version = [k \in Key |-> 0] /\ writer = [k \in Key |-> NoWrite]
        /\ read = [k \in SlowKey |-> [version |-> 0, writer |-> NoWrite, evicted |-> FALSE]]
        /\ SlowKey \subseteq Key
    BY ClientsAssumption DEF CInit, InitWith, NothingRead
  <2>2. NoWrite \in Write
    BY DEF NoWrite, Write
  <2>3. /\ attempts \in Nat /\ version \in [Key -> Nat] /\ writer \in [Key -> Write]
        /\ read \in [SlowKey -> [version : Nat, writer : Write, evicted : BOOLEAN]]
    BY <2>1, <2>2
  <2>4. ReadsHold
    BY <2>1 DEF ReadsHold
  <2> QED BY <2>3, <2>4 DEF LockInv
<1>2. LockInv /\ [CNext]_clientVars => LockInv'
  <2> SUFFICES ASSUME LockInv, [CNext]_clientVars PROVE LockInv'
    OBVIOUS
  <2>0. /\ attempts \in Nat /\ version \in [Key -> Nat] /\ writer \in [Key -> Write]
        /\ read \in [SlowKey -> [version : Nat, writer : Write, evicted : BOOLEAN]]
        /\ ReadsHold /\ SlowKey \subseteq Key
    BY ClientsAssumption DEF LockInv
  <2>1. CASE \E e \in Envelopes : Call(e) \/ SlowPatch(e)
    <3>1. PICK e \in Envelopes : Call(e) \/ SlowPatch(e)
      BY <2>1
    <3>2. Publish(e) /\ \E slow \in BOOLEAN : Recorded(e, slow)
      BY <3>1 DEF Call, SlowPatch
    <3> QED BY <3>2, RecordedKeepsLockInv
  <2>2. CASE \E k \in SlowKey : Read(k)
    <3>1. PICK k \in SlowKey : Read(k)
      BY <2>2
    <3>2. /\ attempts' = attempts /\ version' = version /\ writer' = writer
          /\ read' = [read EXCEPT ![k] =
                        [version |-> version[k], writer |-> writer[k], evicted |-> FALSE]]
      BY <3>1 DEF Read, vars, contextVars
    <3>3. read' \in [SlowKey -> [version : Nat, writer : Write, evicted : BOOLEAN]]
      <4>1. k \in Key /\ version[k] \in Nat /\ writer[k] \in Write
        BY <2>0
      <4>2. [version |-> version[k], writer |-> writer[k], evicted |-> FALSE]
              \in [version : Nat, writer : Write, evicted : BOOLEAN]
        BY <4>1
      <4> QED BY <2>0, <3>2, <4>2
    <3>4. ReadsHold'
      <4> SUFFICES ASSUME NEW q \in SlowKey, ~read'[q].evicted
                   PROVE  /\ read'[q].version <= version'[q]
                          /\ version'[q] = read'[q].version => writer'[q] = read'[q].writer
        BY DEF ReadsHold
      <4>1. CASE q = k
        <5>1. read'[q] = [version |-> version[q], writer |-> writer[q], evicted |-> FALSE]
          BY <2>0, <3>2, <4>1
        <5>2. version[q] \in Nat
          BY <2>0
        <5> QED BY <3>2, <5>1, <5>2
      <4>2. CASE q # k
        <5>1. read'[q] = read[q]
          BY <2>0, <3>2, <4>2
        <5> QED BY <2>0, <3>2, <5>1 DEF ReadsHold
      <4> QED BY <4>1, <4>2
    <3> QED BY <2>0, <3>2, <3>3, <3>4 DEF LockInv, Write
  <2>3. CASE UNCHANGED <<attempts, version, writer, read>>
    BY <2>0, <2>3 DEF LockInv, ReadsHold, Write
  <2>4. CASE Other
    <3>1. UNCHANGED <<attempts, version, writer, read>>
      BY <2>4 DEF Other, Register, Unregister, Drain, Malformed, contextVars
    <3> QED BY <2>3, <3>1
  <2>5. CASE UNCHANGED clientVars
    <3>1. UNCHANGED <<attempts, version, writer, read>>
      BY <2>5 DEF clientVars, vars, contextVars
    <3> QED BY <2>3, <3>1
  <2> QED BY <2>1, <2>2, <2>4, <2>5 DEF CNext
<1> QED BY <1>1, <1>2, PTL DEF CSpec

LEMMA OnlyEvictionLoses ==
  ASSUME LockInv, [CNext]_clientVars, NEW k \in SlowKey, LosesUpdate(k)
  PROVE  read[k].evicted
<1>0. /\ attempts \in Nat /\ version \in [Key -> Nat] /\ writer \in [Key -> Write]
      /\ read \in [SlowKey -> [version : Nat, writer : Write, evicted : BOOLEAN]]
      /\ k \in Key
  BY ClientsAssumption DEF LockInv
<1>1. writer'[k] # writer[k] /\ writer'[k].slow /\ writer[k] # read[k].writer
  BY DEF LosesUpdate
<1>2. CASE UNCHANGED writer
  BY <1>1, <1>2
<1>3. ASSUME NEW e, NEW slow \in BOOLEAN, Publish(e), Recorded(e, slow),
             slow => e.key \in SlowKey /\ e.expected = read[e.key].version
      PROVE  read[k].evicted
  <2>1. writer'[k] = IF version'[k] = version[k] THEN writer[k]
                     ELSE IF k = e.key THEN [attempt |-> attempts', slow |-> slow] ELSE NoWrite
    BY <1>0, <1>3 DEF Recorded
  <2>2. ~NoWrite.slow
    BY DEF NoWrite
  <2>3. k = e.key /\ slow /\ version'[k] # version[k]
    <3>1. version'[k] # version[k]
      BY <1>1, <2>1
    <3>2. k = e.key
      BY <1>1, <2>1, <2>2, <3>1
    <3>3. writer'[k].slow = slow
      BY <2>1, <3>1, <3>2
    <3> QED BY <1>1, <3>1, <3>2, <3>3
  <2>4. e.expected = read[k].version
    BY <1>3, <2>3
  <2>5. CASE version'[k] = 0
    <3>1. version' = [x \in Key |-> IF x = e.key THEN version[x] + 1
                                  ELSE IF x = Evicted(e) THEN 0 ELSE version[x]]
      BY <1>3, <2>3 DEF Publish, RejectDuplicate, RejectPatch, RejectUnknownTarget, Deliver,
                        Accept, ApplyPatch, contextVars
    <3>2. version'[k] = version[k] + 1 /\ version[k] \in Nat
      BY <1>0, <2>3, <3>1
    <3> QED BY <2>5, <3>2
  <2>6. CASE e.expected = version[k]
    BY <1>0, <1>1, <2>4, <2>6 DEF LockInv, ReadsHold
  <2> QED BY <1>0, <1>3, <2>3, <2>5, <2>6, VersionMoves
<1>4. CASE \E e \in Envelopes : Call(e) \/ SlowPatch(e)
  <2>1. PICK e \in Envelopes : Call(e) \/ SlowPatch(e)
    BY <1>4
  <2>2. CASE Call(e)
    <3>1. Publish(e) /\ Recorded(e, FALSE)
      BY <2>2 DEF Call
    <3> QED BY <1>3, <3>1
  <2>3. CASE SlowPatch(e)
    <3>1. Publish(e) /\ Recorded(e, TRUE) /\ e.key \in SlowKey /\ e.expected = read[e.key].version
      BY <2>3 DEF SlowPatch
    <3> QED BY <1>3, <3>1
  <2> QED BY <2>1, <2>2, <2>3
<1>5. CASE (\E q \in SlowKey : Read(q)) \/ Other \/ UNCHANGED clientVars
  <2>1. UNCHANGED writer
    BY <1>5 DEF Read, Other, clientVars
  <2> QED BY <1>2, <2>1
<1> QED BY <1>4, <1>5 DEF CNext

\* A patch of a client that read an entry overwrites that very entry, unless the
\* entry was evicted in between.  (apply_context_patch_locked)
THEOREM OptimisticLock == CSpec => OnlyEvictionLosesUpdates
<1>1. LockInv /\ [CNext]_clientVars => [\A k \in SlowKey : LosesUpdate(k) => read[k].evicted]_clientVars
  BY OnlyEvictionLoses
<1> QED BY <1>1, LockInvariance, PTL DEF CSpec, OnlyEvictionLosesUpdates

-----------------------------------------------------------------------------
(* The trace of the delegations: who was written after whom.               *)

\* Those written after the last d of w.
After(w, d) ==
  LET mine == {i \in DOMAIN w : w[i] = d}
  IN {w[i] : i \in {i \in DOMAIN w : \A j \in mine : j < i}}

LEMMA AfterIs ==
  ASSUME NEW w, NEW d
  PROVE  /\ After(w, d) \subseteq ToSet(w)
         /\ \A x : x \in After(w, d) <=>
                     \E i \in DOMAIN w : w[i] = x /\ \A j \in DOMAIN w : w[j] = d => j < i
BY DEF After, ToSet

\* A write comes after the writes of all others.
LEMMA AfterAppend ==
  ASSUME NEW S, NEW w \in Seq(S), NEW x \in S
  PROVE  /\ After(Append(w, x), x) = {}
         /\ \A d : d # x => After(Append(w, x), d) = After(w, d) \cup {x}
<1> DEFINE v == Append(w, x)
           n == Len(w)
<1>1. /\ n \in Nat /\ DOMAIN w = 1..n /\ DOMAIN v = 1..(n + 1)
      /\ v[n + 1] = x /\ \A i \in 1..n : v[i] = w[i]
  OBVIOUS
<1> HIDE DEF v, n
<1>2. After(v, x) = {}
  <2> SUFFICES ASSUME NEW y \in After(v, x) PROVE FALSE
    OBVIOUS
  <2>1. PICK i \in DOMAIN v : \A j \in DOMAIN v : v[j] = x => j < i
    BY AfterIs
  <2>2. n + 1 \in DOMAIN v
    BY <1>1
  <2>3. n + 1 < i
    BY <1>1, <2>1, <2>2
  <2> QED BY <1>1, <2>3
<1>3. ASSUME NEW d, d # x
      PROVE  After(v, d) = After(w, d) \cup {x}
  <2>1. ASSUME NEW y \in After(w, d)
        PROVE  y \in After(v, d)
    <3>1. PICK i \in DOMAIN w : w[i] = y /\ \A j \in DOMAIN w : w[j] = d => j < i
      BY AfterIs
    <3>2. i \in DOMAIN v /\ v[i] = y
      BY <1>1, <3>1
    <3>3. ASSUME NEW j \in DOMAIN v, v[j] = d
          PROVE  j < i
      <4>1. j # n + 1
        BY <1>1, <1>3, <3>3
      <4>2. j \in DOMAIN w
        BY <1>1, <4>1
      <4>3. w[j] = d
        BY <1>1, <3>3, <4>2
      <4> QED BY <3>1, <4>2, <4>3
    <3> QED BY <3>2, <3>3, AfterIs
  <2>2. x \in After(v, d)
    <3>1. n + 1 \in DOMAIN v
      BY <1>1
    <3>2. ASSUME NEW j \in DOMAIN v, v[j] = d
          PROVE  j < n + 1
      <4>1. j # n + 1
        BY <1>1, <1>3, <3>2
      <4> QED BY <1>1, <4>1
    <3> QED BY <1>1, <3>1, <3>2, AfterIs
  <2>3. ASSUME NEW y \in After(v, d), y # x
        PROVE  y \in After(w, d)
    <3>1. PICK i \in DOMAIN v : v[i] = y /\ \A j \in DOMAIN v : v[j] = d => j < i
      BY <2>3, AfterIs
    <3>2. i # n + 1
      BY <1>1, <2>3, <3>1
    <3>3. i \in DOMAIN w
      BY <1>1, <3>2
    <3>4. w[i] = y
      BY <1>1, <3>1, <3>3
    <3>5. ASSUME NEW j \in DOMAIN w, w[j] = d
          PROVE  j < i
      <4>1. j \in DOMAIN v
        BY <1>1
      <4>2. v[j] = d
        BY <1>1, <3>5
      <4> QED BY <3>1, <4>1, <4>2
    <3> QED BY <3>3, <3>4, <3>5, AfterIs
  <2> QED BY <2>1, <2>2, <2>3
<1> QED BY <1>2, <1>3 DEF v

\* R relates each element of s to those that follow it.
Follows(s, R) == \A i, j \in DOMAIN s : i < j => <<s[i], s[j]>> \in R

LEMMA FollowsAppend ==
  ASSUME NEW S, NEW s \in Seq(S), NEW x \in S, NEW R
  PROVE  Follows(Append(s, x), R) <=> Follows(s, R) /\ \A y \in ToSet(s) : <<y, x>> \in R
<1> DEFINE v == Append(s, x)
           n == Len(s)
<1>1. /\ n \in Nat /\ DOMAIN s = 1..n /\ DOMAIN v = 1..(n + 1)
      /\ v[n + 1] = x /\ \A i \in 1..n : v[i] = s[i]
  OBVIOUS
<1> HIDE DEF v, n
<1>2. ASSUME Follows(v, R)
      PROVE  Follows(s, R) /\ \A y \in ToSet(s) : <<y, x>> \in R
  <2>1. ASSUME NEW i \in DOMAIN s, NEW j \in DOMAIN s, i < j
        PROVE  <<s[i], s[j]>> \in R
    <3>1. i \in DOMAIN v /\ j \in DOMAIN v /\ v[i] = s[i] /\ v[j] = s[j]
      BY <1>1
    <3> QED BY <1>2, <2>1, <3>1 DEF Follows
  <2>2. ASSUME NEW i \in DOMAIN s
        PROVE  <<s[i], x>> \in R
    <3>1. i \in DOMAIN v /\ n + 1 \in DOMAIN v /\ i < n + 1 /\ v[i] = s[i]
      BY <1>1
    <3>2. <<v[i], v[n + 1]>> \in R
      BY <1>2, <3>1 DEF Follows
    <3> QED BY <1>1, <3>1, <3>2
  <2>3. \A y \in ToSet(s) : \E i \in DOMAIN s : y = s[i]
    BY DEF ToSet
  <2> QED BY <2>1, <2>2, <2>3 DEF Follows
<1>3. ASSUME Follows(s, R), \A y \in ToSet(s) : <<y, x>> \in R
      PROVE  Follows(v, R)
  <2> SUFFICES ASSUME NEW i \in DOMAIN v, NEW j \in DOMAIN v, i < j
               PROVE  <<v[i], v[j]>> \in R
    BY DEF Follows
  <2>1. i \in DOMAIN s /\ v[i] = s[i] /\ s[i] \in ToSet(s)
    <3>1. i \in DOMAIN s
      BY <1>1
    <3> QED BY <1>1, <3>1 DEF ToSet
  <2>2. CASE j = n + 1
    BY <1>1, <1>3, <2>1, <2>2
  <2>3. CASE j # n + 1
    <3>1. j \in DOMAIN s
      BY <1>1, <2>3
    <3>2. v[j] = s[j]
      BY <1>1, <3>1
    <3>3. <<s[i], s[j]>> \in R
      BY <1>3, <2>1, <3>1 DEF Follows
    <3> QED BY <2>1, <3>2, <3>3
  <2> QED BY <2>2, <2>3
<1> QED BY <1>2, <1>3 DEF v

LEMMA FollowsOnly ==
  ASSUME NEW S, NEW R, NEW T
  PROVE  \A s \in Seq(S) : Follows(s, R) => Follows(Only(s, T), R)
<1> DEFINE A == {s \in Seq(S) : Follows(s, R) => Follows(Only(s, T), R)}
<1>1. <<>> \in A
  <2>1. Follows(<<>>, R)
    BY DEF Follows
  <2>2. Only(<<>>, T) = <<>> /\ <<>> \in Seq(S)
    BY OnlyNone
  <2> QED BY <2>1, <2>2
<1>2. ASSUME NEW s \in Seq(S), NEW x \in S, s \in A
      PROVE  Append(s, x) \in A
  <2>0. Append(s, x) \in Seq(S)
    OBVIOUS
  <2> SUFFICES ASSUME Follows(Append(s, x), R)
               PROVE  Follows(Only(Append(s, x), T), R)
    BY <2>0
  <2>1. Follows(s, R) /\ \A y \in ToSet(s) : <<y, x>> \in R
    BY FollowsAppend
  <2>2. Follows(Only(s, T), R)
    BY <1>2, <2>1
  <2>3. Only(s, T) \in Seq(S) /\ ToSet(Only(s, T)) \subseteq ToSet(s)
    BY OnlyTyped
  <2>4. Only(Append(s, x), T) = IF x \in T THEN Append(Only(s, T), x) ELSE Only(s, T)
    BY OnlyAppend
  <2> DEFINE t == Only(s, T)
  <2> HIDE DEF t
  <2>5. t \in Seq(S) /\ Follows(t, R) /\ \A y \in ToSet(t) : <<y, x>> \in R
    BY <2>1, <2>2, <2>3 DEF t
  <2>6. Follows(Append(t, x), R)
    BY <2>5, FollowsAppend
  <2> QED BY <2>4, <2>5, <2>6 DEF t
<1> HIDE DEF A
<1>3. Seq(S) \subseteq A
  BY <1>1, <1>2, SequenceInduction
<1> QED BY <1>3 DEF A

-----------------------------------------------------------------------------
(* The inductive invariant of the trace.                                   *)

\* The stages a delegation is in until it publishes its message of a topic.
Before == [request   |-> {"new"},
           queued    |-> {"new", "requested"},
           result    |-> {"new", "requested", "working"},
           completed |-> Stage \ {"over"}]

Written == ToSet(written)

Shown(d) == StateKey(d) \in Stored

\* The delegation of the second key was written after that of the first.
Later == {p \in Key \X Key : DelegateOf[p[2]] \in After(written, DelegateOf[p[1]])}

\* What the context keeps of the writes: the delegations it shows are those
\* written last, in the order of their last writes.
WrittenInv ==
  /\ ContextInv
  /\ written \in Seq(Delegation)
  /\ \A d, e \in Written : e \in After(written, d) <=> d # e /\ d \notin After(written, e)
  /\ \A k \in Stored : DelegateOf[k] \in Written /\ k = StateKey(DelegateOf[k])
  /\ Follows(contextOrder, Later)
  /\ \A d \in Written : Shown(d) => \A e \in After(written, d) : Shown(e)
  /\ \A d \in Written : ~Shown(d) => Cardinality(Stored) = MaxContext

\* Message ids are fresh: none is used before its time.
IdsAreFresh ==
  /\ seenOrder \in Seq(Delegation \X Topic)
  /\ \A d \in Delegation, t \in Topic : Seen(<<d, t>>) => stage[d] \notin Before[t]

\* What a delegation at a stage has written and what is left of it.
Phase(s, shown, d, W) ==
  /\ shown \in Nat
  /\ s \in {"new", "requested"} => shown = 0
  /\ s \in {"working", "dropped", "reported"} => shown \in {0, 1} /\ d \in W
  /\ s = "over" => shown \in {0, 2} /\ d \in W

PhasesShown == \A d \in Delegation : Phase(stage[d], version[StateKey(d)], d, Written)

TraceInv ==
  /\ WrittenInv
  /\ stage \in [Delegation -> Stage]
  /\ IdsAreFresh /\ PhasesShown

LEMMA StateKeyIs ==
  ASSUME NEW d \in Delegation
  PROVE  /\ d \in Corr /\ StateKey(d) \in Key /\ DelegateOf[StateKey(d)] = d
         /\ IsDelegate(StateKey(d))
<1>1. d \in Corr /\ \E k \in Key : DelegateOf[k] = d
  BY TraceAssumption
<1>2. StateKey(d) \in Key /\ DelegateOf[StateKey(d)] = d
  BY <1>1 DEF StateKey
<1> QED BY <1>1, <1>2, BusConstants DEF IsDelegate

LEMMA RememberKeeps ==
  ASSUME NEW S, seenOrder \in Seq(S), NEW id \in S, Remember(id)
  PROVE  /\ seenOrder' \in Seq(S)
         /\ \A x : (\E i \in DOMAIN seenOrder' : seenOrder'[i] = x) => Seen(x) \/ x = id
<1>0. MaxSeen \in Nat \ {0}
  BY BusConstants
<1>1. ASSUME NEW s \in Seq(S), seenOrder' = Append(s, id),
             \A x \in ToSet(s) : Seen(x)
      PROVE  /\ seenOrder' \in Seq(S)
             /\ \A x : (\E i \in DOMAIN seenOrder' : seenOrder'[i] = x) => Seen(x) \/ x = id
  <2>1. seenOrder' \in Seq(S)
    BY <1>1
  <2>2. ToSet(seenOrder') = ToSet(s) \cup {id}
    BY <1>1, SetOfAppend
  <2>3. \A i \in DOMAIN seenOrder' : seenOrder'[i] \in ToSet(seenOrder')
    BY DEF ToSet
  <2> QED BY <1>1, <2>1, <2>2, <2>3
<1>2. CASE WindowFull
  <2>1. seenOrder # <<>>
    BY <1>0, <1>2 DEF WindowFull
  <2> DEFINE s == Tail(seenOrder)
  <2>2. s \in Seq(S) /\ Len(s) = Len(seenOrder) - 1 /\ \A i \in 1..Len(s) : s[i] = seenOrder[i + 1]
    BY <2>1, HeadTailProperties
  <2>3. seenOrder' = Append(s, id)
    BY <1>2 DEF Remember
  <2>4. ASSUME NEW x \in ToSet(s)
        PROVE  Seen(x)
    <3>1. PICK i \in DOMAIN s : x = s[i]
      BY DEF ToSet
    <3>2. i \in 1..Len(s) /\ i + 1 \in DOMAIN seenOrder
      BY <2>2
    <3> QED BY <2>2, <3>1, <3>2 DEF Seen
  <2> HIDE DEF s
  <2> QED BY <1>1, <2>2, <2>3, <2>4
<1>3. CASE ~WindowFull
  <2>1. seenOrder' = Append(seenOrder, id)
    BY <1>3 DEF Remember
  <2>2. \A x \in ToSet(seenOrder) : Seen(x)
    BY DEF ToSet, Seen
  <2> QED BY <1>1, <2>1, <2>2
<1> QED BY <1>2, <1>3

\* What publish does to the window and to the context.
LEMMA PublishIs ==
  ASSUME NEW e, Publish(e)
  PROVE  /\ seenOrder' = seenOrder \/ Remember(e.id)
         /\ ~Seen(e.id) /\ PatchAccepted(e) /\ e.key # NoKey => ApplyPatch(e)
         /\ Seen(e.id) \/ ~PatchAccepted(e) \/ e.key = NoKey => UNCHANGED contextVars
BY DEF Publish, RejectDuplicate, RejectPatch, RejectUnknownTarget, Deliver, Accept

\* A patch that is applied makes its delegation the last written.
LEMMA PatchKeepsWritten ==
  ASSUME WrittenInv, NEW d0 \in Delegation, NEW e, e.key = StateKey(d0), e.corr \in Corr,
         ApplyPatch(e), written' = Append(written, d0)
  PROVE  WrittenInv'
<1> DEFINE k == e.key
           gone == Evicted(e)
           R == Key \ {gone, k}
           s == Only(contextOrder, R)
           w == written
           v == written'
<1>1. /\ ContextInv /\ w \in Seq(Delegation)
      /\ \A d, x \in Written : x \in After(w, d) <=> d # x /\ d \notin After(w, x)
      /\ \A l \in Stored : DelegateOf[l] \in Written /\ l = StateKey(DelegateOf[l])
      /\ Follows(contextOrder, Later)
      /\ \A d \in Written : Shown(d) => \A x \in After(w, d) : Shown(x)
      /\ \A d \in Written : ~Shown(d) => Cardinality(Stored) = MaxContext
  BY DEF WrittenInv
<1>2. /\ k \in Key /\ DelegateOf[k] = d0 /\ k = StateKey(d0)
      /\ e.key \in Key /\ e.corr \in Corr \cup {NoCorr}
  BY StateKeyIs
<1>3. /\ gone \in Stored \cup {NoKey} /\ gone # k /\ NoKey \notin Key /\ Stored \subseteq Key
      /\ gone # NoKey => /\ contextOrder # <<>> /\ gone = Head(contextOrder)
                         /\ Cardinality(Stored) = MaxContext
  BY <1>1, <1>2, EvictedIs, BusConstants DEF Stored
<1>4. /\ Stored' = (Stored \ {gone}) \cup {k}
      /\ Cardinality(Stored') <= MaxContext /\ Cardinality(Stored) <= Cardinality(Stored')
      /\ IsFiniteSet(Stored')
  BY <1>1, <1>2, PatchStores
<1>5. contextOrder' = Append(s, k)
  BY <1>1, <1>2, PatchOrders
<1>6. contextOrder \in Seq(Key) /\ ToSet(contextOrder) = Stored /\ IsFiniteSet(Stored)
  BY <1>1 DEF ContextInv
<1>7. ContextInv'
  BY <1>1, <1>2, PatchKeepsContext
<1>8. v \in Seq(Delegation) /\ Written' = Written \cup {d0} /\ Written \subseteq Delegation
  <2>1. v \in Seq(Delegation)
    BY <1>1
  <2>2. ToSet(v) = ToSet(w) \cup {d0} /\ ToSet(w) \subseteq Delegation
    BY <1>1, SetOfAppend
  <2> QED BY <2>1, <2>2 DEF Written
<1>9. /\ After(v, d0) = {}
      /\ \A d : d # d0 => After(v, d) = After(w, d) \cup {d0}
  BY <1>1, AfterAppend
<1>10. \A d : After(w, d) \subseteq Written
  BY AfterIs DEF Written
<1>11. \A d \in Delegation : d # d0 => StateKey(d) # k
  BY <1>2, StateKeyIs
<1> HIDE DEF k, gone, w, v, s
<1>12. \A d, x \in Written' : x \in After(v, d) <=> d # x /\ d \notin After(v, x)
  <2> SUFFICES ASSUME NEW d \in Written', NEW x \in Written'
               PROVE  x \in After(v, d) <=> d # x /\ d \notin After(v, x)
    OBVIOUS
  <2>1. CASE d = d0
    BY <1>9, <2>1
  <2>2. CASE d # d0 /\ x = d0
    BY <1>9, <2>2
  <2>3. CASE d # d0 /\ x # d0
    <3>1. d \in Written /\ x \in Written
      BY <1>8, <2>3
    <3>2. x \in After(w, d) <=> d # x /\ d \notin After(w, x)
      BY <1>1, <3>1
    <3> QED BY <1>9, <2>3, <3>2
  <2> QED BY <2>1, <2>2, <2>3
<1>13. \A l \in Stored' : DelegateOf[l] \in Written' /\ l = StateKey(DelegateOf[l])
  BY <1>1, <1>2, <1>4, <1>8
<1>14. Follows(contextOrder', Later')
  <2>1. s \in Seq(Key) /\ ToSet(s) = Stored \cap R /\ Follows(s, Later)
    BY <1>1, <1>6, OnlyTyped, FollowsOnly DEF s
  <2>2. \A l \in ToSet(s) : l \in Key /\ DelegateOf[l] # d0
    BY <1>1, <1>2, <1>3, <2>1
  <2>3. Later' = {p \in Key \X Key : DelegateOf[p[2]] \in After(v, DelegateOf[p[1]])}
    BY DEF Later, v
  <2>4. Follows(s, Later')
    <3> SUFFICES ASSUME NEW i \in DOMAIN s, NEW j \in DOMAIN s, i < j
                 PROVE  <<s[i], s[j]>> \in Later'
      BY DEF Follows
    <3>1. <<s[i], s[j]>> \in Later
      BY <2>1 DEF Follows
    <3>2. /\ s[i] \in Key /\ s[j] \in Key
          /\ DelegateOf[s[j]] \in After(w, DelegateOf[s[i]])
      BY <3>1 DEF Later, w
    <3>3. s[i] \in ToSet(s)
      BY DEF ToSet
    <3>4. DelegateOf[s[j]] \in After(v, DelegateOf[s[i]])
      BY <1>9, <2>2, <3>2, <3>3
    <3> QED BY <2>3, <3>2, <3>4
  <2>5. \A l \in ToSet(s) : <<l, k>> \in Later'
    <3> SUFFICES ASSUME NEW l \in ToSet(s)
                 PROVE  <<l, k>> \in Later'
      OBVIOUS
    <3>1. l \in Key /\ d0 \in After(v, DelegateOf[l])
      BY <1>9, <2>2
    <3> QED BY <1>2, <2>3, <3>1
  <2> DEFINE L == Later'
  <2> HIDE DEF L
  <2>6. Follows(Append(s, k), L)
    <3>1. Follows(s, L) /\ \A l \in ToSet(s) : <<l, k>> \in L
      BY <2>4, <2>5 DEF L
    <3> QED BY <1>2, <2>1, <3>1, FollowsAppend
  <2> QED BY <1>5, <2>6 DEF L
<1>15. \A d \in Written' : StateKey(d) \in Stored' =>
                             \A x \in After(v, d) : StateKey(x) \in Stored'
  <2> SUFFICES ASSUME NEW d \in Written', StateKey(d) \in Stored', NEW x \in After(v, d)
               PROVE  StateKey(x) \in Stored'
    OBVIOUS
  <2>1. d # d0
    BY <1>9
  <2>2. d \in Written /\ d \in Delegation /\ StateKey(d) \in Stored /\ StateKey(d) # gone
    BY <1>4, <1>8, <1>11, <2>1
  <2>3. CASE x = d0
    BY <1>2, <1>4, <2>3
  <2>4. CASE x # d0
    <3>1. x \in After(w, d) /\ x \in Written
      BY <1>9, <1>10, <2>1, <2>4
    <3>2. StateKey(x) \in Stored
      BY <1>1, <2>2, <3>1 DEF Shown
    <3>3. ASSUME StateKey(x) = gone
          PROVE  FALSE
      <4>1. contextOrder # <<>> /\ gone = Head(contextOrder)
        BY <1>3, <3>2, <3>3
      <4>2. 1 \in DOMAIN contextOrder /\ contextOrder[1] = gone
        BY <1>6, <4>1
      <4>3. PICK j \in DOMAIN contextOrder : contextOrder[j] = StateKey(d)
        BY <1>6, <2>2 DEF ToSet
      <4>4. j # 1
        BY <2>2, <4>2, <4>3
      <4>5. 1 < j
        <5>1. DOMAIN contextOrder = 1..Len(contextOrder) /\ Len(contextOrder) \in Nat
          BY <1>6
        <5> QED BY <4>4, <5>1
      <4>6. <<StateKey(x), StateKey(d)>> \in Later
        BY <1>1, <3>3, <4>2, <4>3, <4>5 DEF Follows
      <4>7. DelegateOf[StateKey(d)] \in After(w, DelegateOf[StateKey(x)])
        BY <4>6 DEF Later, w
      <4>8. d \in After(w, x)
        BY <1>8, <2>2, <3>1, <4>7, StateKeyIs
      <4> QED BY <1>1, <2>2, <3>1, <4>8
    <3> QED BY <1>4, <3>2, <3>3
  <2> QED BY <2>3, <2>4
<1>16. \A d \in Written' : StateKey(d) \notin Stored' => Cardinality(Stored') = MaxContext
  <2> SUFFICES ASSUME NEW d \in Written', StateKey(d) \notin Stored'
               PROVE  Cardinality(Stored') = MaxContext
    OBVIOUS
  <2>1. d # d0
    BY <1>2, <1>4
  <2>2. d \in Written
    BY <1>8, <2>1
  <2>3. Cardinality(Stored) = MaxContext
    <3>1. CASE StateKey(d) \in Stored
      <4>1. StateKey(d) = gone /\ gone # NoKey
        BY <1>3, <1>4, <3>1
      <4> QED BY <1>3, <4>1
    <3>2. CASE StateKey(d) \notin Stored
      BY <1>1, <2>2, <3>2 DEF Shown
    <3> QED BY <3>1, <3>2
  <2>4. Cardinality(Stored') \in Nat /\ MaxContext \in Nat
    BY <1>4, FS_CardinalityType, BusConstants
  <2> QED BY <1>4, <2>3, <2>4
<1> QED BY <1>7, <1>8, <1>12, <1>13, <1>14, <1>15, <1>16 DEF WrittenInv, Shown, v

LEMMA UnwrittenKeepsWritten ==
  ASSUME WrittenInv, UNCHANGED contextVars, written' = written
  PROVE  WrittenInv'
<1>1. /\ version' = version /\ contextOrder' = contextOrder /\ Stored' = Stored
      /\ ContextInv'
  BY ContextStays DEF contextVars, Stored, WrittenInv
<1>2. Written' = Written /\ Later' = Later
  BY DEF Written, Later
<1> QED BY <1>1, <1>2 DEF WrittenInv, Shown

\* A delegation moves on once it has published its message of topic t, if it
\* publishes one; what it has published before, it had published before.
LEMMA MovingKeepsIds ==
  ASSUME stage \in [Delegation -> Stage], IdsAreFresh, NEW d0 \in Delegation,
         NEW from, NEW to, Goes(d0, from, to), NEW t \in Topic,
         \A u \in Topic : to \in Before[u] => from \in Before[u],
         \/ seenOrder' = seenOrder
         \/ Remember(<<d0, t>>) /\ to \notin Before[t]
  PROVE  IdsAreFresh'
<1>1. /\ seenOrder \in Seq(Delegation \X Topic)
      /\ \A d \in Delegation, u \in Topic : Seen(<<d, u>>) => stage[d] \notin Before[u]
  BY DEF IdsAreFresh
<1>2. /\ stage[d0] = from /\ stage'[d0] = to
      /\ \A d \in Delegation : d # d0 => stage'[d] = stage[d]
  BY DEF Goes
<1>3. ASSUME NEW d \in Delegation, NEW u \in Topic, Seen(<<d, u>>)
      PROVE  stage'[d] \notin Before[u]
  <2>1. stage[d] \notin Before[u]
    BY <1>1, <1>3
  <2> QED BY <1>2, <2>1
<1>4. CASE seenOrder' = seenOrder
  <2>1. \A x : Seen(x)' <=> Seen(x)
    BY <1>4 DEF Seen
  <2> QED BY <1>1, <1>3, <1>4, <2>1 DEF IdsAreFresh, Seen
<1>5. CASE Remember(<<d0, t>>) /\ to \notin Before[t]
  <2>1. <<d0, t>> \in Delegation \X Topic
    OBVIOUS
  <2>2. /\ seenOrder' \in Seq(Delegation \X Topic)
        /\ \A x : (\E i \in DOMAIN seenOrder' : seenOrder'[i] = x) => Seen(x) \/ x = <<d0, t>>
    BY <1>1, <1>5, <2>1, RememberKeeps
  <2>3. ASSUME NEW d \in Delegation, NEW u \in Topic,
               \E i \in DOMAIN seenOrder' : seenOrder'[i] = <<d, u>>
        PROVE  stage'[d] \notin Before[u]
    <3>1. CASE Seen(<<d, u>>)
      BY <1>3, <3>1
    <3>2. CASE <<d, u>> = <<d0, t>>
      BY <1>2, <1>5, <3>2
    <3> QED BY <2>2, <2>3, <3>1, <3>2
  <2> QED BY <2>2, <2>3 DEF IdsAreFresh, Seen
<1> QED BY <1>4, <1>5

\* The phases of the others stay, or go with their keys.
LEMMA MovingKeepsPhases ==
  ASSUME stage \in [Delegation -> Stage], PhasesShown, NEW d0 \in Delegation,
         NEW from, NEW to, Goes(d0, from, to), Written \subseteq Written',
         \A d \in Delegation : d # d0 =>
           version'[StateKey(d)] = version[StateKey(d)] \/ version'[StateKey(d)] = 0,
         Phase(to, version'[StateKey(d0)], d0, Written')
  PROVE  PhasesShown'
<1>1. /\ stage'[d0] = to
      /\ \A d \in Delegation : d # d0 => stage'[d] = stage[d]
  BY DEF Goes
<1>2. ASSUME NEW d \in Delegation
      PROVE  Phase(stage'[d], version'[StateKey(d)], d, Written')
  <2>1. CASE d = d0
    BY <1>1, <2>1
  <2>2. CASE d # d0
    <3>1. Phase(stage[d], version[StateKey(d)], d, Written)
      BY DEF PhasesShown
    <3>2. stage'[d] = stage[d] /\ (version'[StateKey(d)] = version[StateKey(d)] \/ version'[StateKey(d)] = 0)
      BY <1>1, <2>2
    <3> QED BY <3>1, <3>2 DEF Phase
  <2> QED BY <2>1, <2>2
<1> QED BY <1>2 DEF PhasesShown

\* A step that leaves the context alone.
LEMMA QuietStep ==
  ASSUME TraceInv, NEW d0 \in Delegation, NEW from, NEW to \in Stage, Goes(d0, from, to),
         UNCHANGED contextVars, written' = written,
         NEW t \in Topic,
         \A u \in Topic : to \in Before[u] => from \in Before[u],
         \/ seenOrder' = seenOrder
         \/ Remember(<<d0, t>>) /\ to \notin Before[t],
         \A n : Phase(from, n, d0, Written) => Phase(to, n, d0, Written)
  PROVE  TraceInv'
<1>1. WrittenInv /\ stage \in [Delegation -> Stage] /\ IdsAreFresh /\ PhasesShown
  BY DEF TraceInv
<1>2. WrittenInv'
  BY <1>1, UnwrittenKeepsWritten
<1>3. stage' \in [Delegation -> Stage]
  BY <1>1 DEF Goes
<1>4. IdsAreFresh'
  BY <1>1, MovingKeepsIds
<1>5. version' = version /\ Written' = Written /\ stage[d0] = from
  BY DEF contextVars, Written, Goes
<1>6. Phase(to, version[StateKey(d0)], d0, Written)
  BY <1>1, <1>5 DEF PhasesShown
<1>7. PhasesShown'
  BY <1>1, <1>5, <1>6, MovingKeepsPhases
<1> QED BY <1>2, <1>3, <1>4, <1>7 DEF TraceInv

LEMMA RequestKeepsTraceInv ==
  ASSUME TraceInv, NEW d \in Delegation, Request(d)
  PROVE  TraceInv'
<1> DEFINE e == Message(d, "request", WorkerOf[d])
<1>1. Goes(d, "new", "requested") /\ Publish(e) /\ written' = written
  BY DEF Request
<1>2. e.id = <<d, "request">> /\ e.key = NoKey
  BY DEF Message
<1> HIDE DEF e
<1>3. UNCHANGED contextVars /\ (seenOrder' = seenOrder \/ Remember(<<d, "request">>))
  BY <1>1, <1>2, PublishIs
<1>4. /\ "request" \in Topic /\ "requested" \in Stage /\ "requested" \notin Before["request"]
      /\ \A u \in Topic : "requested" \in Before[u] => "new" \in Before[u]
  BY DEF Topic, Before, Stage
<1>5. \A n : Phase("new", n, d, Written) => Phase("requested", n, d, Written)
  BY DEF Phase
<1> QED BY <1>1, <1>3, <1>4, <1>5, QuietStep

LEMMA DropKeepsTraceInv ==
  ASSUME TraceInv, NEW d \in Delegation, Drop(d)
  PROVE  TraceInv'
<1>1. /\ Goes(d, "working", "dropped") /\ written' = written
      /\ UNCHANGED contextVars /\ seenOrder' = seenOrder
  BY DEF Drop, vars
<1>2. /\ "request" \in Topic /\ "dropped" \in Stage
      /\ \A u \in Topic : "dropped" \in Before[u] => "working" \in Before[u]
  BY DEF Topic, Before, Stage
<1>3. \A n : Phase("working", n, d, Written) => Phase("dropped", n, d, Written)
  BY DEF Phase
<1> QED BY <1>1, <1>2, <1>3, QuietStep

LEMMA ResultKeepsTraceInv ==
  ASSUME TraceInv, NEW d \in Delegation, Result(d)
  PROVE  TraceInv'
<1> DEFINE e == Message(d, "result", Lead)
<1>1. Goes(d, "working", "reported") /\ Publish(e) /\ written' = written
  BY DEF Result
<1>2. e.id = <<d, "result">> /\ e.key = NoKey
  BY DEF Message
<1> HIDE DEF e
<1>3. UNCHANGED contextVars /\ (seenOrder' = seenOrder \/ Remember(<<d, "result">>))
  BY <1>1, <1>2, PublishIs
<1>4. /\ "result" \in Topic /\ "reported" \in Stage /\ "reported" \notin Before["result"]
      /\ \A u \in Topic : "reported" \in Before[u] => "working" \in Before[u]
  BY DEF Topic, Before, Stage
<1>5. \A n : Phase("working", n, d, Written) => Phase("reported", n, d, Written)
  BY DEF Phase
<1> QED BY <1>1, <1>3, <1>4, <1>5, QuietStep

\* A patch that is accepted.
LEMMA PatchStep ==
  ASSUME TraceInv, NEW d0 \in Delegation, NEW from, NEW to \in Stage, Goes(d0, from, to),
         NEW t \in Topic, NEW n \in Nat, Publish(Patch(d0, t, n)), Noted(d0),
         from \in Before[t], to \notin Before[t], version[StateKey(d0)] = n,
         \A u \in Topic : to \in Before[u] => from \in Before[u],
         \A W : d0 \in W => Phase(to, n + 1, d0, W)
  PROVE  TraceInv'
<1> DEFINE e == Patch(d0, t, n)
           k == StateKey(d0)
<1>1. /\ WrittenInv /\ ContextInv /\ written \in Seq(Delegation)
      /\ stage \in [Delegation -> Stage] /\ IdsAreFresh /\ PhasesShown
  BY DEF TraceInv, WrittenInv
<1>2. /\ e.id = <<d0, t>> /\ e.key = k /\ e.expected = n /\ e.corr = d0 /\ Publish(e)
  BY DEF Patch
<1>3. d0 \in Corr /\ k \in Key /\ DelegateOf[k] = d0 /\ k # NoKey
  BY StateKeyIs, BusConstants
<1> HIDE DEF e
<1>4. ~Seen(e.id)
  BY <1>1, <1>2 DEF IdsAreFresh, Goes
<1>5. PatchAccepted(e)
  BY <1>2, <1>3 DEF PatchAccepted, Correlated, VersionMatches
<1>6. ApplyPatch(e) /\ (seenOrder' = seenOrder \/ Remember(<<d0, t>>))
  BY <1>2, <1>3, <1>4, <1>5, PublishIs
<1>7. version' = [x \in Key |-> IF x = k THEN version[x] + 1
                                ELSE IF x = Evicted(e) THEN 0 ELSE version[x]]
  BY <1>2, <1>6 DEF ApplyPatch
<1>8. version'[k] = n + 1 /\ \A x \in Key : x # k => version'[x] = version[x] \/ version'[x] = 0
  BY <1>3, <1>7
<1>9. written' = Append(written, d0)
  <2>1. version'[k] > version[k]
    BY <1>8
  <2> QED BY <2>1 DEF Noted
<1>10. WrittenInv'
  BY <1>1, <1>2, <1>3, <1>6, <1>9, PatchKeepsWritten
<1>11. Written' = Written \cup {d0}
  <2>1. ToSet(Append(written, d0)) = ToSet(written) \cup {d0}
    BY <1>1, SetOfAppend
  <2> QED BY <1>9, <2>1 DEF Written
<1>12. IdsAreFresh'
  BY <1>1, <1>6, MovingKeepsIds
<1>13. stage' \in [Delegation -> Stage]
  BY <1>1 DEF Goes
<1>14. PhasesShown'
  <2>1. ASSUME NEW d \in Delegation, d # d0
        PROVE  version'[StateKey(d)] = version[StateKey(d)] \/ version'[StateKey(d)] = 0
    <3>1. StateKey(d) \in Key /\ StateKey(d) # k
      BY <1>3, <2>1, StateKeyIs
    <3> QED BY <1>8, <3>1
  <2>2. Phase(to, version'[StateKey(d0)], d0, Written')
    BY <1>8, <1>11
  <2>3. Written \subseteq Written'
    BY <1>11
  <2> QED BY <1>1, <2>1, <2>2, <2>3, MovingKeepsPhases
<1> QED BY <1>10, <1>12, <1>13, <1>14 DEF TraceInv

LEMMA QueuedKeepsTraceInv ==
  ASSUME TraceInv, NEW d \in Delegation, Queued(d)
  PROVE  TraceInv'
<1>1. Goes(d, "requested", "working") /\ Publish(Patch(d, "queued", 0)) /\ Noted(d)
  BY DEF Queued
<1>2. stage[d] = "requested" /\ Phase(stage[d], version[StateKey(d)], d, Written)
  BY <1>1 DEF Goes, TraceInv, PhasesShown
<1>3. version[StateKey(d)] = 0
  BY <1>2 DEF Phase
<1>4. /\ "queued" \in Topic /\ "working" \in Stage
      /\ "requested" \in Before["queued"] /\ "working" \notin Before["queued"]
      /\ \A u \in Topic : "working" \in Before[u] => "requested" \in Before[u]
  BY DEF Topic, Before, Stage
<1>5. \A W : d \in W => Phase("working", 0 + 1, d, W)
  BY DEF Phase
<1> QED BY <1>1, <1>3, <1>4, <1>5, PatchStep

LEMMA CompletedKeepsTraceInv ==
  ASSUME TraceInv, NEW d \in Delegation, Completed(d)
  PROVE  TraceInv'
<1>1. Goes(d, "reported", "over") /\ Publish(Patch(d, "completed", 1)) /\ Noted(d)
  BY DEF Completed
<1>2. stage[d] = "reported" /\ Phase(stage[d], version[StateKey(d)], d, Written)
  BY <1>1 DEF Goes, TraceInv, PhasesShown
<1>3. version[StateKey(d)] \in {0, 1}
  BY <1>2 DEF Phase
<1>4. /\ "completed" \in Topic /\ "over" \in Stage
      /\ "reported" \in Before["completed"] /\ "over" \notin Before["completed"]
      /\ \A u \in Topic : "over" \in Before[u] => "reported" \in Before[u]
  BY DEF Topic, Before, Stage
<1>5. CASE version[StateKey(d)] = 1
  <2>1. \A W : d \in W => Phase("over", 1 + 1, d, W)
    BY DEF Phase
  <2> QED BY <1>1, <1>4, <1>5, <2>1, PatchStep
\* The key was evicted: the patch is refused.
<1>6. CASE version[StateKey(d)] = 0
  <2> DEFINE e == Patch(d, "completed", 1)
  <2>1. e.id = <<d, "completed">> /\ e.key = StateKey(d) /\ e.expected = 1 /\ Publish(e)
    BY <1>1 DEF Patch
  <2>2. StateKey(d) # NoKey
    BY StateKeyIs, BusConstants
  <2> HIDE DEF e
  <2>3. ~PatchAccepted(e)
    BY <1>6, <2>1, <2>2 DEF PatchAccepted, VersionMatches
  <2>4. UNCHANGED contextVars /\ (seenOrder' = seenOrder \/ Remember(<<d, "completed">>))
    BY <2>1, <2>3, PublishIs
  <2>5. written' = written
    <3>1. version'[StateKey(d)] = 0
      BY <1>6, <2>4 DEF contextVars
    <3>2. ~(version'[StateKey(d)] > version[StateKey(d)])
      BY <1>6, <3>1
    <3> QED BY <1>1, <3>2 DEF Noted
  <2>6. WrittenInv' /\ version' = version /\ Written' = Written
    BY <2>4, <2>5, UnwrittenKeepsWritten DEF TraceInv, contextVars, Written
  <2>7. stage \in [Delegation -> Stage] /\ IdsAreFresh /\ PhasesShown
    BY DEF TraceInv
  <2>8. IdsAreFresh'
    BY <1>1, <1>4, <2>4, <2>7, MovingKeepsIds
  <2>9. Phase("over", version'[StateKey(d)], d, Written')
    BY <1>2, <1>6, <2>6 DEF Phase
  <2>10. PhasesShown'
    BY <1>1, <2>6, <2>7, <2>9, MovingKeepsPhases
  <2>11. stage' \in [Delegation -> Stage]
    BY <1>1, <1>4, <2>7 DEF Goes
  <2> QED BY <2>6, <2>8, <2>10, <2>11 DEF TraceInv
<1> QED BY <1>3, <1>5, <1>6

LEMMA TraceInvariance == TraceSpec => []TraceInv
<1>1. TraceInit => TraceInv
  <2> SUFFICES ASSUME TraceInit PROVE TraceInv
    OBVIOUS
  <2>1. /\ InitWith({Lead} \cup {WorkerOf[d] : d \in Delegation})
        /\ stage = [d \in Delegation |-> "new"] /\ written = <<>>
    BY DEF TraceInit
  <2>2. /\ version = [k \in Key |-> 0] /\ contextOrder = <<>> /\ seenOrder = <<>>
        /\ Stored = {} /\ Written = {}
    BY <2>1, SetOfNone DEF InitWith, Stored, Written
  <2>3. ContextInv
    BY <2>1, InitContextInv
  <2>4. \A S : <<>> \in Seq(S)
    OBVIOUS
  <2>5. Follows(contextOrder, Later)
    BY <2>2 DEF Follows
  <2>6. WrittenInv
    BY <2>1, <2>2, <2>3, <2>4, <2>5 DEF WrittenInv
  <2>7. stage \in [Delegation -> Stage]
    BY <2>1 DEF Stage
  <2>8. IdsAreFresh
    BY <2>2, <2>4 DEF IdsAreFresh, Seen
  <2>9. PhasesShown
    <3> SUFFICES ASSUME NEW d \in Delegation
                 PROVE  Phase(stage[d], version[StateKey(d)], d, Written)
      BY DEF PhasesShown
    <3>1. stage[d] = "new" /\ version[StateKey(d)] = 0
      BY <2>1, <2>2, StateKeyIs
    <3> QED BY <3>1 DEF Phase
  <2> QED BY <2>6, <2>7, <2>8, <2>9 DEF TraceInv
<1>2. TraceInv /\ [TraceNext]_traceVars => TraceInv'
  <2> SUFFICES ASSUME TraceInv, [TraceNext]_traceVars PROVE TraceInv'
    OBVIOUS
  <2>1. ASSUME NEW d \in Delegation,
               Request(d) \/ Queued(d) \/ Drop(d) \/ Result(d) \/ Completed(d)
        PROVE  TraceInv'
    BY <2>1, RequestKeepsTraceInv, QueuedKeepsTraceInv, DropKeepsTraceInv,
       ResultKeepsTraceInv, CompletedKeepsTraceInv
  <2>2. CASE UNCHANGED traceVars
    <3>1. /\ UNCHANGED contextVars /\ seenOrder' = seenOrder /\ stage' = stage
          /\ written' = written
      BY <2>2 DEF traceVars, vars
    <3>2. WrittenInv' /\ version' = version /\ Written' = Written
      BY <3>1, UnwrittenKeepsWritten DEF TraceInv, contextVars, Written
    <3>3. IdsAreFresh'
      BY <3>1 DEF TraceInv, IdsAreFresh, Seen
    <3>4. PhasesShown' /\ stage' \in [Delegation -> Stage]
      BY <3>1, <3>2 DEF TraceInv, PhasesShown
    <3> QED BY <3>2, <3>3, <3>4 DEF TraceInv
  <2> QED BY <2>1, <2>2 DEF TraceNext
<1> QED BY <1>1, <1>2, PTL DEF TraceSpec

\* As many delegations are shown as keys are stored.
LEMMA ShownAreStored ==
  ASSUME WrittenInv
  PROVE  LET S == {d \in Delegation : Shown(d)} IN
         IsFiniteSet(S) /\ Cardinality(S) = Cardinality(Stored) /\ S \subseteq Written
<1> DEFINE S == {d \in Delegation : Shown(d)}
           f == [k \in Stored |-> DelegateOf[k]]
<1>1. /\ IsFiniteSet(Stored) /\ written \in Seq(Delegation)
      /\ \A k \in Stored : DelegateOf[k] \in Written /\ k = StateKey(DelegateOf[k])
  BY DEF WrittenInv, ContextInv
<1>2. Written \subseteq Delegation
  BY <1>1, ElementOfSeq DEF Written, ToSet
<1>3. \A d \in S : /\ d \in Delegation /\ StateKey(d) \in Stored /\ DelegateOf[StateKey(d)] = d
                   /\ d \in Written
  BY <1>1, StateKeyIs DEF Shown
<1>4. f \in [Stored -> S]
  <2>1. \A k \in Stored : DelegateOf[k] \in S
    BY <1>1, <1>2 DEF Shown
  <2> HIDE DEF S
  <2> QED BY <2>1
<1>5. f \in Bijection(Stored, S)
  <2>1. \A k, l \in Stored : f[k] = f[l] => k = l
    BY <1>1
  <2>2. \A d \in S : \E k \in Stored : f[k] = d
    BY <1>3
  <2> HIDE DEF f, S
  <2> QED BY <1>4, <2>1, <2>2 DEF Bijection, Injection, Surjection, IsInjective
<1> HIDE DEF f, S
<1>6. ExistsBijection(Stored, S)
  BY <1>5 DEF ExistsBijection
<1>7. IsFiniteSet(S) /\ Cardinality(S) = Cardinality(Stored)
  BY <1>1, <1>6, FS_Bijection
<1> QED BY <1>3, <1>7 DEF S

LEMMA WrittenIsFinite ==
  ASSUME NEW S, NEW w \in Seq(S)
  PROVE  IsFiniteSet(ToSet(w))
<1>1. w \in Surjection(1..Len(w), ToSet(w)) /\ Len(w) \in Nat
  BY DEF Surjection, ToSet
<1>2. IsFiniteSet(1..Len(w))
  BY <1>1, FS_Interval
<1> QED BY <1>1, <1>2, FS_Surjection

\* The context shows of each delegation what became of it, or that MaxContext
\* others have moved on since it was written.
THEOREM DelegationsAreTraced == TraceSpec => []DelegationsTraced
<1>1. TraceInv => DelegationsTraced
  <2> SUFFICES ASSUME TraceInv, NEW d \in Delegation
               PROVE  LET shown == version[StateKey(d)] IN
                      /\ shown \in 0..2
                      /\ shown > 0 <=> d \in ToSet(written) /\ Recent(d)
                      /\ shown = 1 => stage[d] \in {"working", "dropped", "reported"}
                      /\ shown = 2 => stage[d] = "over"
                      /\ stage[d] \notin {"new", "requested"} => d \in ToSet(written)
    BY DEF DelegationsTraced
  <2> DEFINE v == version[StateKey(d)]
             S == {x \in Delegation : Shown(x)}
             A == After(written, d)
  <2>1. /\ ContextInv /\ written \in Seq(Delegation)
        /\ \A x, y \in Written : y \in After(written, x) <=> x # y /\ x \notin After(written, y)
        /\ \A x \in Written : Shown(x) => \A y \in After(written, x) : Shown(y)
        /\ \A x \in Written : ~Shown(x) => Cardinality(Stored) = MaxContext
        /\ WrittenInv
    BY DEF TraceInv, WrittenInv
  <2>2. stage[d] \in Stage /\ Phase(stage[d], v, d, Written)
    BY DEF TraceInv, PhasesShown
  <2>3. v > 0 <=> Shown(d)
    BY StateKeyIs DEF Shown, Stored
  <2>4. /\ IsFiniteSet(S) /\ Cardinality(S) = Cardinality(Stored) /\ S \subseteq Written
        /\ Cardinality(S) \in Nat /\ MaxContext \in Nat /\ Cardinality(S) <= MaxContext
    BY <2>1, ShownAreStored, FS_CardinalityType, BusConstants DEF ContextInv
  <2>5. /\ A \subseteq Written /\ Written \subseteq Delegation
        /\ IsFiniteSet(A) /\ Cardinality(A) \in Nat
    <3>1. A \subseteq Written /\ Written \subseteq Delegation
      BY <2>1, AfterIs, ElementOfSeq DEF Written, ToSet
    <3>2. IsFiniteSet(Written)
      BY <2>1, WrittenIsFinite DEF Written
    <3>3. IsFiniteSet(A)
      <4> HIDE DEF A
      <4> QED BY <3>1, <3>2, FS_Subset
    <3> QED BY <3>1, <3>3, FS_CardinalityType
  <2>6. Recent(d) <=> Cardinality(A) < MaxContext
    BY DEF Recent, WrittenSince, After
  <2>7. Shown(d) => d \in Written /\ Recent(d)
    <3> SUFFICES ASSUME Shown(d)
                 PROVE  d \in Written /\ Recent(d)
      OBVIOUS
    <3>1. d \in S /\ d \in Written
      BY <2>4
    <3>2. d \notin A
      BY <2>1, <3>1
    <3>3. A \subseteq S
      BY <2>1, <2>5, <3>1
    <3> HIDE DEF A, S
    <3>4. A \cup {d} \subseteq S
      BY <3>1, <3>3
    <3>5. Cardinality(A \cup {d}) = Cardinality(A) + 1
      BY <2>5, <3>2, FS_AddElement
    <3>6. Cardinality(A \cup {d}) <= Cardinality(S)
      BY <2>4, <3>4, FS_Subset
    <3>7. Cardinality(A) < MaxContext
      BY <2>4, <2>5, <3>5, <3>6
    <3> QED BY <2>6, <3>1, <3>7
  <2>8. d \in Written /\ Recent(d) => Shown(d)
    <3> SUFFICES ASSUME d \in Written, ~Shown(d)
                 PROVE  ~Recent(d)
      OBVIOUS
    <3>1. Cardinality(S) = MaxContext
      BY <2>1, <2>4
    <3>2. \A x \in S : x \in A
      <4> SUFFICES ASSUME NEW x \in S
                   PROVE  x \in A
        OBVIOUS
      <4>1. x \in Written /\ Shown(x) /\ x # d
        BY <2>4
      <4>2. d \notin After(written, x)
        BY <2>1, <4>1
      <4> QED BY <2>1, <4>1, <4>2
    <3> HIDE DEF A, S
    <3>3. Cardinality(S) <= Cardinality(A)
      BY <2>5, <3>2, FS_Subset
    <3>4. ~(Cardinality(A) < MaxContext)
      BY <2>4, <2>5, <3>1, <3>3
    <3> QED BY <2>6, <3>4
  <2> HIDE DEF v
  <2>9. v > 0 <=> d \in ToSet(written) /\ Recent(d)
    BY <2>3, <2>7, <2>8 DEF Written
  <2>10. /\ v \in 0..2
         /\ v = 1 => stage[d] \in {"working", "dropped", "reported"}
         /\ v = 2 => stage[d] = "over"
    BY <2>2 DEF Phase, Stage
  <2>11. stage[d] \notin {"new", "requested"} => d \in ToSet(written)
    BY <2>2 DEF Phase, Stage, Written
  <2> QED BY <2>9, <2>10, <2>11 DEF v
<1> QED BY <1>1, TraceInvariance, PTL

-----------------------------------------------------------------------------
(* The bus that the delegations publish on.                                *)

\* Of the delegations alone, too, the queues are in order and the indexes agree,
\* though nothing is ever drained.  (publish, start_coordination_trace)
THEOREM TracedBusIsSound ==
  ASSUME Delegation # {}
  PROVE  TraceSpec => [](ContextIndexed /\ QueuesIndexed)
<1>1. TraceInit => BusInv
  <2> SUFFICES ASSUME TraceInit PROVE BusInv
    OBVIOUS
  <2> DEFINE workers == {WorkerOf[d] : d \in Delegation}
  <2>1. Lead \in Agent /\ workers \subseteq Agent /\ IsFiniteSet(workers)
    BY TraceAssumption
  <2>2. InitWith({Lead} \cup workers)
    BY DEF TraceInit
  <2> HIDE DEF workers
  <2>3. {Lead} \cup workers \in SUBSET Agent
    BY <2>1
  <2>4. IsFiniteSet({Lead} \cup workers)
    <3>1. {Lead} \cup workers = workers \cup {Lead}
      OBVIOUS
    <3> QED BY <2>1, <3>1, FS_AddElement
  <2> QED BY <2>2, <2>3, <2>4, InitBusInv
<1>2. BusInv /\ [TraceNext]_traceVars => BusInv'
  <2> SUFFICES ASSUME BusInv, [TraceNext]_traceVars PROVE BusInv'
    OBVIOUS
  <2>1. ASSUME NEW e, Posted(e), e.key \in Key \cup {NoKey}, Publish(e)
        PROVE  BusInv'
    <3>1. QueueInv' /\ ContextInv'
      BY <2>1, PublishKeepsQueues, PublishKeepsContext DEF BusInv, Posted
    <3> QED BY <3>1 DEF BusInv
  <2>2. ASSUME NEW d \in Delegation, NEW t \in Topic, NEW to
        PROVE  LET e == Message(d, t, to) IN Posted(e) /\ e.key \in Key \cup {NoKey}
    BY TraceAssumption DEF Message, Posted
  <2>3. ASSUME NEW d \in Delegation, NEW t \in Topic, NEW n
        PROVE  LET e == Patch(d, t, n) IN Posted(e) /\ e.key \in Key \cup {NoKey}
    BY TraceAssumption, StateKeyIs DEF Patch, Posted
  <2>4. /\ "request" \in Topic /\ "queued" \in Topic
        /\ "result" \in Topic /\ "completed" \in Topic
    BY DEF Topic
  <2>5. ASSUME NEW d \in Delegation, Request(d) \/ Result(d)
        PROVE  BusInv'
    <3>1. PICK t \in Topic, to \in {WorkerOf[d], Lead} : Publish(Message(d, t, to))
      BY <2>4, <2>5 DEF Request, Result
    <3> QED BY <2>1, <2>2, <3>1
  <2>6. ASSUME NEW d \in Delegation, Queued(d) \/ Completed(d)
        PROVE  BusInv'
    <3>1. PICK t \in Topic, n \in {0, 1} : Publish(Patch(d, t, n))
      BY <2>4, <2>6 DEF Queued, Completed
    <3> QED BY <2>1, <2>3, <3>1
  <2>7. CASE UNCHANGED vars
    BY <2>7, BusStays
  <2> QED BY <2>5, <2>6, <2>7 DEF TraceNext, Drop, traceVars
<1>3. BusInv => ContextIndexed /\ QueuesIndexed
  BY BusIsSound
<1> QED BY <1>1, <1>2, <1>3, PTL DEF TraceSpec

=============================================================================
