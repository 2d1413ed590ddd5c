---------------------------- MODULE ToolsProofs ----------------------------
(***************************************************************************)
(* Proofs about the tools an agent calls.                                  *)
(*                                                                         *)
(* A turn, for every set of tools, replies, limits and whatever others do  *)
(* to the policy: its history stays well formed, no tool runs twice with   *)
(* the same arguments or without the approval it needed, and the store is  *)
(* told what the tools did.  What is run once was entered among the        *)
(* signatures before it became ready, and no two calls that are ready, or  *)
(* were started, share one.  The pairing of calls and results is a         *)
(* property of sequences of messages that appending another such sequence  *)
(* keeps; the messages of a round are one.                                 *)
(*                                                                         *)
(* The process tool, for any number of calls, processes and bytes: its     *)
(* limits hold and the detector misses nothing.  The limit on processes is *)
(* inductive together with the calls that have counted and not entered     *)
(* theirs.  What a snapshot starts after has left the buffer for good, and *)
(* unless snapshots crossed nothing beyond the offset was inspected.       *)
(***************************************************************************)
EXTENDS ToolLoop, ProcessTool, FiniteSetTheorems, SequenceTheorems, TLAPS

-----------------------------------------------------------------------------
(* A turn.                                                                 *)

SignatureOf(e) == [tool |-> e.tool, args |-> e.args]

SignatureAt(i) == [tool |-> plan.calls[i].tool, args |-> plan.calls[i].args]

\* A call that is about to run has been entered among those made, and is unlike any
\* that was started and any other that is about to.
FirstTime ==
  /\ \A e \in effects : SignatureOf(e) \in ranBefore
  /\ \A i \in Positions("ready") :
       /\ SignatureAt(i) \in ranBefore
       /\ \A e \in effects : SignatureOf(e) # SignatureAt(i)
       /\ \A j \in Positions("ready") : SignatureAt(j) = SignatureAt(i) => j = i

\* What may run without having been asked for.
MayRun(t) ==
  setting.where # "cli" /\ ~setting.granted /\ t \in strict =>
    setting.where = "chat" /\ t \in Investigation

Permitted ==
  /\ \A e \in effects : MayRun(e.tool)
  /\ \A i \in Positions("ready") : MayRun(plan.calls[i].tool)

\* Only while calls run, and when a round has just ended the loop, are there effects
\* of the current round.
RoundOfEffects ==
  \A e \in effects :
    /\ e.round <= round
    /\ place \notin {"running", "cancelled", "gave_up"} => e.round < round

\* The store names every call that was started in a round before.
Told ==
  \A e \in effects :
    \/ InStore(e, transcript)
    \/ e.round = round /\ (place = "cancelled" \/ (place = "running" /\ e.at \in DOMAIN plan.calls))

\* A text of calls is not the last message.
Paired ==
  /\ PairedUp
  /\ \A k \in DOMAIN transcript : transcript[k].kind = "text" => k < Len(transcript)

Placed ==
  /\ place \in {"asking", "planning", "running"} => round < MaxRounds
  /\ place = "running" => Positions("new") = {}
  /\ place # "recorded" => store = <<>>

LoopIInv ==
  /\ LoopTypeOK /\ Placed
  /\ FirstTime /\ RunOnce /\ Permitted /\ RoundOfEffects /\ Told /\ Paired

-----------------------------------------------------------------------------
LEMMA LoopConstants ==
  /\ MaxRounds \in Nat \ {0} /\ MaxWebFailures \in Nat \ {0}
  /\ Reply \subseteq Seq(ToolCall)
  /\ RenamedBy \in [LoopTool -> SUBSET LoopTool]
  /\ FirstGated \subseteq SUBSET LoopTool
  BY LoopAssumption

\* A loop that holds no plan.
LEMMA EmptyPlan ==
  /\ NoPlan \in Plan /\ NoPlan.calls = <<>> /\ DOMAIN NoPlan.calls = {}
  /\ <<>> \in [{} -> Fate] /\ DOMAIN <<>> = {}
<1>1. <<>> \in Seq(ToolCall)
  OBVIOUS
<1> QED  BY <1>1 DEF NoPlan, Plan, Fate

LEMMA LoopInitIInv == LoopInit => LoopIInv
<1> SUFFICES ASSUME LoopInit PROVE LoopIInv
  OBVIOUS
<1>1. fired \in BOOLEAN /\ corrected \in BOOLEAN /\ correction \in BOOLEAN
  BY Zenon DEF LoopInit
<1>2. plan \in Plan /\ fate \in [DOMAIN plan.calls -> Fate] /\ DOMAIN fate = {}
  BY EmptyPlan DEF LoopInit
<1>3. transcript \in Seq(Message) /\ DOMAIN transcript = {}
  BY EmptyPlan DEF LoopInit
<1>4. LoopTypeOK
  BY <1>1, <1>2, <1>3, LoopConstants DEF LoopInit, LoopTypeOK
<1>5. Placed /\ FirstTime /\ RunOnce /\ Permitted /\ RoundOfEffects /\ Told
  BY <1>2 DEF LoopInit, Placed, FirstTime, RunOnce, Permitted, RoundOfEffects, Told, Positions
<1>6. Paired
  BY <1>3 DEF Paired, PairedUp
<1> QED  BY <1>4, <1>5, <1>6 DEF LoopIInv

-----------------------------------------------------------------------------
(* The history grows.                                                      *)

\* The store t begins with the store s.
Begins(s, t) ==
  /\ Len(s) <= Len(t)
  /\ \A k \in DOMAIN s : t[k] = s[k]

LEMMA StillInStore ==
  ASSUME NEW s \in Seq(Message), NEW t \in Seq(Message), Begins(s, t), NEW e, InStore(e, s)
  PROVE  InStore(e, t)
<1>1. PICK k \in DOMAIN s : \E i \in DOMAIN s[k].calls : s[k].calls[i] = <<e.round, e.at>>
  BY DEF InStore
<1>2. k \in DOMAIN t /\ t[k] = s[k]
  BY <1>1 DEF Begins
<1> QED  BY <1>1, <1>2 DEF InStore

\* The pairing of a sequence of messages, of which Paired is that of the transcript.
PairedAt(s, k) ==
  LET m == s[k] IN
  /\ m.kind = "calls" => \A i \in DOMAIN m.calls :
       k + i <= Len(s) /\ s[k + i] = Said("result", <<m.calls[i], m.calls[i]>>)
  /\ m.kind = "text" => k < Len(s) /\ s[k + 1] = Said("results", m.calls)
  /\ m.kind = "results" => k > 1 /\ s[k - 1] = Said("text", m.calls)
  /\ m.kind = "result" => \E j \in 1..(k - 1) :
       s[j].kind = "calls" /\ k - j <= Len(s[j].calls)

PairedIn(s) == \A k \in DOMAIN s : PairedAt(s, k)

LEMMA PairedMeansPairedIn == Paired <=> PairedIn(transcript)
  BY DEF Paired, PairedUp, PairedIn, PairedAt

LEMMA CallsAreListed ==
  ASSUME NEW m \in Message
  PROVE  m.calls \in Seq(Nat \X Nat) /\ \A i \in DOMAIN m.calls : i \in Nat \ {0}
<1>1. m.calls \in Seq(Nat \X Nat)
  BY DEF Message
<1> QED  BY <1>1

\* What is paired stays so when something paired follows.
LEMMA PairedOn ==
  ASSUME NEW s \in Seq(Message), NEW b \in Seq(Message), PairedIn(s), PairedIn(b)
  PROVE  s \o b \in Seq(Message) /\ Begins(s, s \o b) /\ PairedIn(s \o b)
<1> DEFINE t == s \o b
           L == Len(s)
           N == Len(b)
<1>1. /\ t \in Seq(Message) /\ Len(t) = L + N /\ L \in Nat /\ N \in Nat
      /\ DOMAIN t = 1..(L + N) /\ DOMAIN s = 1..L /\ DOMAIN b = 1..N
      /\ \A k \in 1..L : t[k] = s[k]
      /\ \A k \in 1..N : t[L + k] = b[k]
  OBVIOUS
<1> HIDE DEF t
<1>2. Begins(s, t)
  BY <1>1 DEF Begins
<1>3. ASSUME NEW k \in 1..L PROVE PairedAt(t, k)
  <2> DEFINE m == s[k]
  <2>1. t[k] = m /\ m \in Message
    BY <1>1
  <2>2. \A i \in DOMAIN m.calls : i \in Nat \ {0}
    BY <2>1, CallsAreListed
  <2>3. ASSUME m.kind = "calls", NEW i \in DOMAIN m.calls
        PROVE  k + i <= Len(t) /\ t[k + i] = Said("result", <<m.calls[i], m.calls[i]>>)
    <3>1. k + i <= L /\ s[k + i] = Said("result", <<m.calls[i], m.calls[i]>>)
      BY <2>3, <1>1 DEF PairedIn, PairedAt
    <3>2. k + i \in 1..L
      BY <3>1, <2>2, <1>1
    <3> QED  BY <3>1, <3>2, <1>1
  <2>4. ASSUME m.kind = "text" PROVE k < Len(t) /\ t[k + 1] = Said("results", m.calls)
    <3>1. k < L /\ s[k + 1] = Said("results", m.calls)
      BY <2>4, <1>1 DEF PairedIn, PairedAt
    <3>2. k + 1 \in 1..L
      BY <3>1, <1>1
    <3> QED  BY <3>1, <3>2, <1>1
  <2>5. ASSUME m.kind = "results" PROVE k > 1 /\ t[k - 1] = Said("text", m.calls)
    <3>1. k > 1 /\ s[k - 1] = Said("text", m.calls)
      BY <2>5, <1>1 DEF PairedIn, PairedAt
    <3>2. k - 1 \in 1..L
      BY <3>1, <1>1
    <3> QED  BY <3>1, <3>2, <1>1
  <2>6. ASSUME m.kind = "result"
        PROVE  \E j \in 1..(k - 1) : t[j].kind = "calls" /\ k - j <= Len(t[j].calls)
    <3>1. PICK j \in 1..(k - 1) : s[j].kind = "calls" /\ k - j <= Len(s[j].calls)
      BY <2>6, <1>1 DEF PairedIn, PairedAt
    <3>2. j \in 1..L
      BY <1>1
    <3> QED  BY <3>1, <3>2, <1>1
  <2> HIDE DEF m
  <2> QED  BY <2>1, <2>3, <2>4, <2>5, <2>6 DEF PairedAt
<1>4. ASSUME NEW p \in 1..N PROVE PairedAt(t, L + p)
  <2> DEFINE m == b[p]
  <2>1. t[L + p] = m /\ m \in Message
    BY <1>1
  <2>2. \A i \in DOMAIN m.calls : i \in Nat \ {0}
    BY <2>1, CallsAreListed
  <2>3. ASSUME m.kind = "calls", NEW i \in DOMAIN m.calls
        PROVE  (L + p) + i <= Len(t) /\ t[(L + p) + i] = Said("result", <<m.calls[i], m.calls[i]>>)
    <3>1. p + i <= N /\ b[p + i] = Said("result", <<m.calls[i], m.calls[i]>>)
      BY <2>3, <1>1 DEF PairedIn, PairedAt
    <3>2. p + i \in 1..N /\ (L + p) + i = L + (p + i)
      BY <3>1, <2>2, <1>1
    <3> QED  BY <3>1, <3>2, <1>1
  <2>4. ASSUME m.kind = "text" PROVE L + p < Len(t) /\ t[(L + p) + 1] = Said("results", m.calls)
    <3>1. p < N /\ b[p + 1] = Said("results", m.calls)
      BY <2>4, <1>1 DEF PairedIn, PairedAt
    <3>2. p + 1 \in 1..N /\ (L + p) + 1 = L + (p + 1)
      BY <3>1, <1>1
    <3> QED  BY <3>1, <3>2, <1>1
  <2>5. ASSUME m.kind = "results" PROVE L + p > 1 /\ t[(L + p) - 1] = Said("text", m.calls)
    <3>1. p > 1 /\ b[p - 1] = Said("text", m.calls)
      BY <2>5, <1>1 DEF PairedIn, PairedAt
    <3>2. p - 1 \in 1..N /\ (L + p) - 1 = L + (p - 1)
      BY <3>1, <1>1
    <3> QED  BY <3>1, <3>2, <1>1
  <2>6. ASSUME m.kind = "result"
        PROVE  \E j \in 1..((L + p) - 1) : t[j].kind = "calls" /\ (L + p) - j <= Len(t[j].calls)
    <3>1. PICK j \in 1..(p - 1) : b[j].kind = "calls" /\ p - j <= Len(b[j].calls)
      BY <2>6, <1>1 DEF PairedIn, PairedAt
    <3>2. j \in 1..N /\ L + j \in 1..((L + p) - 1) /\ (L + p) - (L + j) = p - j
      BY <1>1
    <3> QED  BY <3>1, <3>2, <1>1
  <2> HIDE DEF m
  <2> QED  BY <2>1, <2>3, <2>4, <2>5, <2>6 DEF PairedAt
<1>5. \A k \in DOMAIN t : k \in 1..L \/ \E p \in 1..N : k = L + p
  <2>1. ASSUME NEW k \in 1..(L + N), k \notin 1..L PROVE k - L \in 1..N /\ k = L + (k - L)
    BY <2>1, <1>1
  <2> QED  BY <2>1, <1>1
<1>6. PairedIn(t)
  BY <1>3, <1>4, <1>5 DEF PairedIn
<1> QED  BY <1>1, <1>2, <1>6 DEF t

\* A message about no calls is paired by itself.
LEMMA QuietIsPaired ==
  ASSUME NEW kind \in {"correction", "answer"}
  PROVE  <<Said(kind, <<>>)>> \in Seq(Message) /\ PairedIn(<<Said(kind, <<>>)>>)
<1>1. <<>> \in Seq(Nat \X Nat)
  OBVIOUS
<1>2. Said(kind, <<>>) \in Message /\ Said(kind, <<>>).kind = kind
  BY <1>1 DEF Said, Message
<1> DEFINE m == Said(kind, <<>>)
<1> HIDE DEF m
<1>3. <<m>> \in Seq(Message) /\ DOMAIN <<m>> = 1..1 /\ <<m>>[1] = m
  BY <1>2 DEF m
<1>4. \A k \in DOMAIN <<m>> : <<m>>[k].kind = kind
  BY <1>2, <1>3 DEF m
<1>5. PairedIn(<<m>>)
  BY <1>4 DEF PairedIn, PairedAt
<1> QED  BY <1>3, <1>5 DEF m

-----------------------------------------------------------------------------
(* The messages of a round.                                                *)

LEMMA InOrderOfAll ==
  ASSUME NEW n \in Nat
  PROVE  InOrder(1..n) = [k \in 1..n |-> k]
<1>1. Cardinality(1..n) = n
  BY FS_Interval
<1>2. ASSUME NEW k \in 1..n
      PROVE  (CHOOSE i \in 1..n : Cardinality({j \in 1..n : j < i}) = k - 1) = k
  <2>1. ASSUME NEW i \in 1..n PROVE Cardinality({j \in 1..n : j < i}) = i - 1
    <3>1. {j \in 1..n : j < i} = 1..(i - 1)
      OBVIOUS
    <3>2. Cardinality(1..(i - 1)) = i - 1
      BY FS_Interval
    <3> QED  BY <3>1, <3>2
  <2>2. \A i \in 1..n : Cardinality({j \in 1..n : j < i}) = k - 1 <=> i = k
    BY <2>1
  <2> QED  BY <2>2
<1> QED  BY <1>1, <1>2 DEF InOrder

\* When every call has an outcome, the messages of the round are paired and name
\* every call.
LEMMA RoundIsPaired ==
  ASSUME LoopTypeOK, \A i \in DOMAIN fate : fate[i] \in {"refused", "succeeded", "failed"}
  PROVE  /\ AssistantMessage \in Message /\ ResultMessages \in Seq(Message)
         /\ PairedIn(<<AssistantMessage>> \o ResultMessages)
         /\ \A i \in DOMAIN plan.calls : i \in DOMAIN AssistantMessage.calls
                                         /\ AssistantMessage.calls[i] = <<round, i>>
<1> DEFINE n == Len(plan.calls)
           A == AssistantMessage
           R == ResultMessages
           C == CallsOf(round, n)
<1>1. /\ plan.calls \in Seq(ToolCall) /\ n \in Nat /\ DOMAIN plan.calls = 1..n
      /\ DOMAIN fate = 1..n /\ round \in Nat
  <2>1. plan.calls \in Seq(ToolCall) /\ fate \in [DOMAIN plan.calls -> Fate] /\ round \in 0..MaxRounds
    BY DEF LoopTypeOK, Plan
  <2> QED  BY <2>1, LoopConstants
<1>2. Outcomes = [k \in 1..n |-> k]
  <2>1. {i \in DOMAIN fate : fate[i] \in {"refused", "succeeded", "failed"}} = 1..n
    BY <1>1
  <2> QED  BY <2>1, <1>1, InOrderOfAll DEF Outcomes
<1>8. DOMAIN Outcomes = 1..n /\ \A k \in 1..n : Outcomes[k] = k
  BY <1>2
<1>3. /\ C \in Seq(Nat \X Nat) /\ DOMAIN C = 1..n /\ Len(C) = n
      /\ \A i \in 1..n : C[i] = <<round, i>>
  BY <1>1 DEF CallsOf
<1> HIDE DEF C
<1>4. A = Said("calls", C) \/ A = Said("text", C)
  BY DEF AssistantMessage, C
<1>5. A \in Message /\ A.calls = C
  BY <1>3, <1>4 DEF Said, Message
<1>6. CASE plan.structured \/ (setting.native /\ AllHaveIds(plan.calls))
  <2>1. A = Said("calls", C) /\ A.kind = "calls"
    BY <1>6 DEF AssistantMessage, C, Said
  <2>2. R = [k \in 1..n |-> Said("result", <<<<round, k>>, <<round, k>>>>)]
    <3>1. CASE plan.structured
      BY <1>8, <3>1 DEF ResultMessages
    <3>2. CASE ~plan.structured
      <4>1. setting.native /\ \A k \in DOMAIN Outcomes : plan.calls[Outcomes[k]].id
        BY <1>1, <1>8, <1>6, <3>2 DEF AllHaveIds
      <4> QED  BY <1>8, <3>2, <4>1 DEF ResultMessages
    <3> QED  BY <3>1, <3>2
  <2>3. ASSUME NEW k \in 1..n
        PROVE  R[k] \in Message /\ R[k] = Said("result", <<C[k], C[k]>>) /\ R[k].kind = "result"
    <3>1. R[k] = Said("result", <<C[k], C[k]>>)
      BY <2>2, <1>3
    <3>2. <<C[k], C[k]>> \in Seq(Nat \X Nat)
      BY <1>3
    <3> QED  BY <3>1, <3>2 DEF Said, Message
  <2>4. R \in Seq(Message) /\ Len(R) = n /\ DOMAIN R = 1..n
    <3> HIDE DEF R
    <3>1. R \in [1..n -> Message]
      BY <2>2, <2>3
    <3> QED  BY <1>1, <3>1
  <2> HIDE DEF A, R
  <2> DEFINE b == <<A>> \o R
  <2>5. /\ Len(b) = n + 1 /\ DOMAIN b = 1..(n + 1) /\ b[1] = A
        /\ \A k \in 1..n : b[k + 1] = R[k] /\ b[1 + k] = R[k]
    BY <1>1, <1>5, <2>4
  <2> HIDE DEF b
  <2>6. PairedAt(b, 1)
    <3>1. b[1].kind = "calls" /\ b[1].calls = C
      BY <1>5, <2>1, <2>5
    <3>2. ASSUME NEW i \in DOMAIN C
          PROVE  1 + i <= Len(b) /\ b[1 + i] = Said("result", <<C[i], C[i]>>)
      <4>1. i \in 1..n /\ 1 + i <= n + 1
        BY <1>1, <1>3
      <4>2. R[i] = Said("result", <<C[i], C[i]>>)
        BY <2>3, <4>1
      <4> QED  BY <2>5, <4>1, <4>2
    <3> QED  BY <3>1, <3>2 DEF PairedAt
  <2>7. ASSUME NEW k \in 1..n PROVE PairedAt(b, k + 1)
    <3>1. b[k + 1].kind = "result"
      BY <2>3, <2>5
    <3>2. 1 \in 1..((k + 1) - 1) /\ b[1].kind = "calls" /\ (k + 1) - 1 <= Len(b[1].calls)
      BY <1>1, <1>3, <1>5, <2>1, <2>5
    <3> QED  BY <3>1, <3>2 DEF PairedAt
  <2>8. PairedIn(b)
    <3>1. ASSUME NEW p \in 1..(n + 1), p # 1 PROVE p - 1 \in 1..n /\ p = (p - 1) + 1
      BY <1>1, <3>1
    <3> QED  BY <2>5, <2>6, <2>7, <3>1 DEF PairedIn
  <2> QED  BY <1>1, <1>3, <1>5, <2>4, <2>8 DEF A, R, b
<1>7. CASE ~(plan.structured \/ (setting.native /\ AllHaveIds(plan.calls)))
  <2>1. A = Said("text", C) /\ A.kind = "text"
    BY <1>7 DEF AssistantMessage, C, Said
  <2> DEFINE m == Said("results", [k \in 1..n |-> <<round, k>>])
  <2>2. R = <<m>>
    BY <1>1, <1>2, <1>7 DEF ResultMessages, AllHaveIds
  <2>3. m = Said("results", C) /\ m.kind = "results" /\ m \in Message /\ m.calls = C
    BY <1>3 DEF Said, Message, C, CallsOf
  <2> HIDE DEF A, R, m
  <2> DEFINE b == <<A>> \o R
  <2>4. R \in Seq(Message) /\ Len(b) = 2 /\ DOMAIN b = 1..2 /\ b[1] = A /\ b[2] = m
    BY <1>5, <2>2, <2>3
  <2> HIDE DEF b
  <2>5. PairedAt(b, 1)
    BY <1>5, <2>1, <2>3, <2>4 DEF PairedAt
  <2>6. PairedAt(b, 2)
    BY <1>5, <2>1, <2>3, <2>4 DEF PairedAt
  <2>7. PairedIn(b)
    BY <2>4, <2>5, <2>6 DEF PairedIn
  <2> QED  BY <1>1, <1>3, <1>5, <2>4, <2>7 DEF A, R, b
<1> QED  BY <1>6, <1>7

-----------------------------------------------------------------------------
(* Typing.                                                                 *)

LEMMA RenamedPlan ==
  ASSUME plan \in Plan, NEW i \in DOMAIN plan.calls, NEW t \in LoopTool,
         plan' = [plan EXCEPT !.calls[i].tool = t]
  PROVE  /\ plan' \in Plan /\ DOMAIN plan'.calls = DOMAIN plan.calls
         /\ plan'.calls[i].tool = t /\ plan'.calls[i].args = plan.calls[i].args
         /\ \A j \in DOMAIN plan.calls : j # i => plan'.calls[j] = plan.calls[j]
<1> DEFINE c == plan.calls
           d == [plan.calls EXCEPT ![i].tool = t]
<1>1. c \in Seq(ToolCall) /\ i \in 1..Len(c) /\ DOMAIN c = 1..Len(c)
  BY DEF Plan
<1>2. c[i] \in ToolCall
  BY <1>1
<1>3. [c[i] EXCEPT !.tool = t] \in ToolCall
  BY <1>2 DEF ToolCall
<1>4. d = [c EXCEPT ![i] = [c[i] EXCEPT !.tool = t]]
  OBVIOUS
<1>5. d \in Seq(ToolCall) /\ DOMAIN d = DOMAIN c
  BY <1>1, <1>3, <1>4
<1>6. d[i].tool = t /\ d[i].args = c[i].args /\ \A j \in DOMAIN c : j # i => d[j] = c[j]
  BY <1>1, <1>2, <1>4 DEF ToolCall
<1>7. plan' = [plan EXCEPT !.calls = d]
  OBVIOUS
<1> HIDE DEF d
<1>8. plan' \in Plan /\ plan'.calls = d
  BY <1>5, <1>7 DEF Plan
<1> QED  BY <1>5, <1>6, <1>8

\* The ways a call can go when it is planned.
LEMMA PlanOutcomes ==
  ASSUME LoopTypeOK, NEW i \in DOMAIN fate, PlanCall(i)
  PROVE  /\ place = "planning" /\ fate[i] = "new" /\ i \in DOMAIN plan.calls
         /\ UNCHANGED <<setting, fired, round, corrected, correction, misses, transcript, effects, store>>
         /\ strict' \subseteq strict /\ strict' \subseteq gated' /\ gated' \subseteq LoopTool
         /\ \/ /\ fate' = [fate EXCEPT ![i] = "refused"]
               /\ UNCHANGED <<ranBefore, plan, place>>
            \/ \E t \in LoopTool :
                 /\ Signature(i, t) \notin ranBefore /\ MayRun(t)'
                 /\ fate' = [fate EXCEPT ![i] = "ready"]
                 /\ ranBefore' = ranBefore \cup {Signature(i, t)}
                 /\ plan' = [plan EXCEPT !.calls[i].tool = t]
                 /\ UNCHANGED place
            \/ place' = "asked" /\ UNCHANGED <<ranBefore, plan, fate>>
<1>1. /\ place = "planning" /\ fate[i] = "new"
      /\ UNCHANGED <<setting, fired, round, corrected, correction, misses, transcript, effects, store>>
  BY DEF PlanCall, NextCall, counts, traces
<1>2. i \in DOMAIN plan.calls /\ plan.calls[i].tool \in LoopTool
  <2>1. i \in DOMAIN plan.calls /\ plan.calls \in Seq(ToolCall)
    BY DEF LoopTypeOK, Plan
  <2>2. plan.calls[i] \in ToolCall
    BY <2>1
  <2> QED  BY <2>1, <2>2 DEF ToolCall
<1>3. strict \subseteq gated /\ gated \subseteq LoopTool
  BY DEF LoopTypeOK
<1>4. CASE Turned(i) /\ UNCHANGED <<place, gated, strict>>
  BY <1>1, <1>2, <1>3, <1>4 DEF Turned, Decided
<1>5. ASSUME NEW t \in LoopTool, Consider(i, t)
      PROVE  /\ strict' \subseteq strict /\ strict' \subseteq gated' /\ gated' \subseteq LoopTool
             /\ \/ Turned(i) /\ UNCHANGED place
                \/ Admit(i, t) /\ MayRun(t)' /\ UNCHANGED place
                \/ place' = "asked" /\ UNCHANGED <<ranBefore, plan, fate>>
  <2>1. CASE (Waived(t) \/ ~Asks(i, t)) /\ Admit(i, t) /\ UNCHANGED <<place, gated, strict>>
    <3>1. MayRun(t)'
      BY <1>1, <1>3, <2>1 DEF MayRun, Waived, Asks, Supervised
    <3> QED  BY <1>3, <2>1, <3>1
  <2>2. CASE Turned(i) /\ UNCHANGED <<place, gated, strict>>
    BY <1>3, <2>2
  <2>3. CASE AskForAll
    BY <1>3, <2>3 DEF AskForAll, End
  <2>4. CASE setting.where = "cli" /\ AskAtOnce(i, t) /\ UNCHANGED place
    <3>1. MayRun(t)'
      BY <1>1, <2>4 DEF MayRun
    <3>2. strict' \subseteq strict /\ strict' \subseteq gated' /\ gated' \subseteq LoopTool
      BY <1>3, <2>4 DEF AskAtOnce
    <3> QED  BY <2>4, <3>1, <3>2 DEF AskAtOnce
  <2> QED  BY <1>5, <2>1, <2>2, <2>3, <2>4 DEF Consider
<1>6. ASSUME NEW t \in LoopTool, Consider(i, t)
      PROVE  /\ strict' \subseteq strict /\ strict' \subseteq gated' /\ gated' \subseteq LoopTool
             /\ \/ /\ fate' = [fate EXCEPT ![i] = "refused"]
                   /\ UNCHANGED <<ranBefore, plan, place>>
                \/ /\ Signature(i, t) \notin ranBefore /\ MayRun(t)'
                   /\ fate' = [fate EXCEPT ![i] = "ready"]
                   /\ ranBefore' = ranBefore \cup {Signature(i, t)}
                   /\ plan' = [plan EXCEPT !.calls[i].tool = t]
                   /\ UNCHANGED place
                \/ place' = "asked" /\ UNCHANGED <<ranBefore, plan, fate>>
  BY <1>5, <1>6 DEF Turned, Admit, Decided
<1>7. RenamedBy[plan.calls[i].tool] \subseteq LoopTool
  BY <1>2, LoopConstants
<1> QED  BY <1>1, <1>2, <1>4, <1>6, <1>7 DEF PlanCall

LEMMA LoopBooleans ==
  ASSUME LoopTypeOK, [LoopNext]_loopVars
  PROVE  /\ fired' \in BOOLEAN /\ corrected' \in BOOLEAN /\ correction' \in BOOLEAN
         /\ setting' = setting
<1> USE DEF LoopTypeOK, NothingRuns, OnlyFate, surroundings, counts, traces
<1>1. CASE UNCHANGED loopVars
  BY <1>1 DEF loopVars
<1>2. CASE StartRound \/ NoReply \/ Correct \/ FinalAnswer
  BY <1>2 DEF StartRound, NoReply, Correct, FinalAnswer
<1>3. CASE TakeCalls \/ Run \/ StoppedRound \/ EndRound
  BY <1>3 DEF TakeCalls, Run, StoppedRound, EndRound
<1>4. ASSUME NEW i \in DOMAIN fate, PlanCall(i) \/ StartTool(i) \/ FinishTool(i) \/ StopTool(i)
      PROVE  /\ fired' \in BOOLEAN /\ corrected' \in BOOLEAN /\ correction' \in BOOLEAN
             /\ setting' = setting
  BY <1>4 DEF PlanCall, StartTool, FinishTool, StopTool
<1>5. CASE DropLoop \/ RecordTurn
  BY <1>5 DEF DropLoop, RecordTurn, Over
<1>6. CASE Interrupt \/ \E t \in Regulated : Regulate(t)
  BY <1>6 DEF Interrupt, Regulate
<1> QED  BY <1>1, <1>2, <1>3, <1>4, <1>5, <1>6 DEF LoopNext

\* The replies, and what a loop that is gone leaves, have the types of the plan.
LEMMA ReplyPlan ==
  ASSUME NEW calls \in Reply, NEW structured \in BOOLEAN, NEW blocked \in BOOLEAN
  PROVE  /\ [calls |-> calls, structured |-> structured, parallel |-> Parallel(calls),
             blocked |-> blocked] \in Plan
         /\ [i \in DOMAIN calls |-> "new"] \in [DOMAIN calls -> Fate]
<1>1. calls \in Seq(ToolCall)
  BY LoopConstants
<1>2. Parallel(calls) \in BOOLEAN
  BY DEF Parallel
<1> QED  BY <1>1, <1>2 DEF Plan, Fate

LEMMA MissesCounted ==
  ASSUME LoopTypeOK
  PROVE  MissesAfter \in Nat
<1>1. plan.calls \in Seq(ToolCall) /\ fate \in [DOMAIN plan.calls -> Fate] /\ misses \in Nat
  BY DEF LoopTypeOK, Plan
<1>2. Positions("failed") \in SUBSET (1..Len(plan.calls))
  BY <1>1 DEF Positions
<1>3. IsFiniteSet(1..Len(plan.calls))
  BY <1>1, FS_Interval
<1>4. Cardinality(Positions("failed")) \in Nat
  BY <1>2, <1>3, FS_Subset, FS_CardinalityType
<1> QED  BY <1>1, <1>4 DEF MissesAfter

\* When a round ends every call has an outcome.
LEMMA EndedHasOutcomes ==
  ASSUME LoopTypeOK, Placed, AllEnded, Positions("stopped") = {}
  PROVE  \A i \in DOMAIN fate : fate[i] \in {"refused", "succeeded", "failed"}
  BY DEF LoopTypeOK, Placed, AllEnded, Positions, Fate

\* The history a round leaves.
LEMMA EndRoundTranscript ==
  ASSUME LoopTypeOK, Placed, Paired, EndRound
  PROVE  /\ transcript' \in Seq(Message) /\ Begins(transcript, transcript') /\ PairedIn(transcript')
         /\ \A i \in DOMAIN plan.calls : \E k \in DOMAIN transcript' :
              \E j \in DOMAIN transcript'[k].calls : transcript'[k].calls[j] = <<round, i>>
<1> DEFINE A == AssistantMessage
           R == ResultMessages
<1>1. /\ A \in Message /\ R \in Seq(Message) /\ PairedIn(<<A>> \o R)
      /\ \A i \in DOMAIN plan.calls : i \in DOMAIN A.calls /\ A.calls[i] = <<round, i>>
  BY EndedHasOutcomes, RoundIsPaired DEF EndRound
<1>2. transcript \in Seq(Message) /\ transcript' = (transcript \o <<A>>) \o R
  BY DEF LoopTypeOK, EndRound
<1> HIDE DEF A, R
<1>3. <<A>> \in Seq(Message) /\ <<A>> \o R \in Seq(Message)
  BY <1>1
<1>4. transcript' = transcript \o (<<A>> \o R)
  BY <1>1, <1>2, <1>3, ConcatAssociative
<1>5. transcript' \in Seq(Message) /\ Begins(transcript, transcript') /\ PairedIn(transcript')
  BY <1>1, <1>2, <1>3, <1>4, PairedOn, PairedMeansPairedIn
<1> DEFINE k == Len(transcript) + 1
<1>6. k \in DOMAIN transcript' /\ transcript'[k] = A
  BY <1>1, <1>2
<1> QED  BY <1>1, <1>5, <1>6

LEMMA LoopTyping ==
  ASSUME LoopTypeOK, Placed, Paired, [LoopNext]_loopVars
  PROVE  LoopTypeOK'
<1> USE DEF NothingRuns, OnlyFate, surroundings, counts, traces, End, Endings
<1>0. /\ fired' \in BOOLEAN /\ corrected' \in BOOLEAN /\ correction' \in BOOLEAN
      /\ setting' = setting
  BY LoopBooleans
<1>1. CASE UNCHANGED loopVars
  BY <1>0, <1>1 DEF loopVars, LoopTypeOK
<1>2. CASE StartRound \/ NoReply \/ Correct \/ FinalAnswer
  <2>1. transcript' \in Seq(Message)
    <3>1. \/ transcript' = transcript
          \/ \E kind \in {"correction", "answer"} : transcript' = Append(transcript, Said(kind, <<>>))
      BY <1>2 DEF StartRound, NoReply, Correct, FinalAnswer
    <3>2. ASSUME NEW kind \in {"correction", "answer"}
          PROVE  Append(transcript, Said(kind, <<>>)) \in Seq(Message)
      <4>1. <<>> \in Seq(Nat \X Nat) /\ transcript \in Seq(Message)
        BY DEF LoopTypeOK
      <4>2. Said(kind, <<>>) \in Message
        BY <4>1 DEF Said, Message
      <4> QED  BY <4>1, <4>2
    <3> QED  BY <3>1, <3>2 DEF LoopTypeOK
  <2>2. /\ place' \in {"starting", "asking", "planning", "running", "recorded"} \cup Endings
        /\ round' \in 0..MaxRounds
    BY <1>2, LoopConstants DEF StartRound, NoReply, Correct, FinalAnswer, LoopTypeOK
  <2>3. UNCHANGED <<gated, strict, misses, ranBefore, plan, fate, effects>>
    BY <1>2 DEF StartRound, NoReply, Correct, FinalAnswer
  <2> QED  BY <1>0, <2>1, <2>2, <2>3 DEF LoopTypeOK
<1>3. CASE TakeCalls
  <2>1. plan' \in Plan /\ fate' \in [DOMAIN plan'.calls -> Fate]
    <3>1. PICK calls \in Reply, structured \in BOOLEAN, blocked \in BOOLEAN :
            /\ plan' = [calls |-> calls, structured |-> structured,
                        parallel |-> Parallel(calls), blocked |-> blocked]
            /\ fate' = [i \in DOMAIN calls |-> "new"]
      BY <1>3 DEF TakeCalls
    <3>2. plan'.calls = calls
      BY <3>1
    <3> QED  BY <3>1, <3>2, ReplyPlan
  <2> QED  BY <1>0, <1>3, <2>1 DEF TakeCalls, LoopTypeOK
<1>4. CASE Run \/ StoppedRound
  BY <1>0, <1>4 DEF Run, StoppedRound, LoopTypeOK
<1>5. ASSUME NEW i \in DOMAIN fate, PlanCall(i) PROVE LoopTypeOK'
  <2>1. plan' \in Plan /\ fate' \in [DOMAIN plan'.calls -> Fate]
    <3>1. plan \in Plan /\ fate \in [DOMAIN plan.calls -> Fate] /\ i \in DOMAIN plan.calls
      BY <1>5 DEF LoopTypeOK
    <3>2. \/ UNCHANGED plan
          \/ \E t \in LoopTool : plan' = [plan EXCEPT !.calls[i].tool = t]
      BY <1>5, PlanOutcomes
    <3>3. plan' \in Plan /\ DOMAIN plan'.calls = DOMAIN plan.calls
      BY <3>1, <3>2, RenamedPlan
    <3>4. fate' \in [DOMAIN plan.calls -> Fate]
      BY <1>5, <3>1, PlanOutcomes DEF Fate
    <3> QED  BY <3>3, <3>4
  <2>2. ranBefore' \subseteq [tool : LoopTool, args : LoopArgs]
    <3>1. plan.calls[i] \in ToolCall
      BY <1>5 DEF LoopTypeOK, Plan
    <3>2. \A t \in LoopTool : Signature(i, t) \in [tool : LoopTool, args : LoopArgs]
      BY <3>1 DEF Signature, ToolCall
    <3> QED  BY <1>5, <3>2, PlanOutcomes DEF LoopTypeOK
  <2>3. /\ place' \in {"starting", "asking", "planning", "running", "recorded"} \cup Endings
        /\ strict' \subseteq gated' /\ gated' \subseteq LoopTool
        /\ UNCHANGED <<round, misses, transcript, effects>>
    BY <1>5, PlanOutcomes DEF LoopTypeOK
  <2> QED  BY <1>0, <2>1, <2>2, <2>3 DEF LoopTypeOK
<1>6. ASSUME NEW i \in DOMAIN fate, StartTool(i) PROVE LoopTypeOK'
  <2>1. /\ plan.calls \in Seq(ToolCall) /\ i \in DOMAIN plan.calls /\ i \in Nat /\ round \in Nat
    BY <1>6, LoopConstants DEF LoopTypeOK, Plan
  <2>2. plan.calls[i] \in ToolCall
    BY <2>1
  <2>3. effects' \subseteq Effect
    BY <1>6, <2>1, <2>2 DEF StartTool, LoopTypeOK, Effect, ToolCall
  <2>4. fate' \in [DOMAIN plan.calls -> Fate]
    BY <1>6 DEF StartTool, Decided, LoopTypeOK, Fate
  <2> QED  BY <1>0, <1>6, <2>3, <2>4 DEF StartTool, LoopTypeOK
<1>7. ASSUME NEW i \in DOMAIN fate, FinishTool(i) \/ StopTool(i) PROVE LoopTypeOK'
  <2>1. fate' \in [DOMAIN plan.calls -> Fate]
    BY <1>7 DEF FinishTool, StopTool, Decided, LoopTypeOK, Fate
  <2> QED  BY <1>0, <1>7, <2>1 DEF FinishTool, StopTool, LoopTypeOK
<1>8. CASE EndRound
  <2>1. transcript' \in Seq(Message) /\ misses' \in Nat
    BY <1>8, EndRoundTranscript, MissesCounted DEF EndRound
  <2>2. plan' \in Plan /\ fate' \in [DOMAIN plan'.calls -> Fate]
    BY <1>8, EmptyPlan DEF EndRound
  <2>3. /\ place' \in {"starting", "asking", "planning", "running", "recorded"} \cup Endings
        /\ round' \in 0..MaxRounds
    BY <1>8, LoopConstants DEF EndRound, AllEnded, LoopTypeOK, Placed
  <2> QED  BY <1>0, <1>8, <2>1, <2>2, <2>3 DEF EndRound, LoopTypeOK
<1>9. CASE DropLoop \/ RecordTurn
  <2>1. plan' \in Plan /\ fate' \in [DOMAIN plan'.calls -> Fate] /\ transcript' \in Seq(Message)
    <3>1. <<>> \in Seq(Message)
      OBVIOUS
    <3> QED  BY <1>9, <3>1, EmptyPlan DEF DropLoop, RecordTurn, Over
  <2> QED  BY <1>0, <1>9, <2>1, LoopConstants DEF DropLoop, RecordTurn, Over, LoopTypeOK
<1>10. CASE Interrupt
  BY <1>0, <1>10 DEF Interrupt, LoopTypeOK
<1>11. ASSUME NEW t \in Regulated, Regulate(t) PROVE LoopTypeOK'
  <2>1. t \in LoopTool
    BY LoopAssumption
  <2> QED  BY <1>0, <1>11, <2>1 DEF Regulate, LoopTypeOK
<1> QED
  BY <1>1, <1>2, <1>3, <1>4, <1>5, <1>6, <1>7, <1>8, <1>9, <1>10, <1>11 DEF LoopNext

-----------------------------------------------------------------------------
(* The steps keep the invariant.                                           *)

LEMMA LoopPlaces ==
  ASSUME LoopTypeOK, Placed, [LoopNext]_loopVars
  PROVE  Placed'
<1> USE DEF NothingRuns, OnlyFate, surroundings, counts, traces, End, Endings, Placed
<1>0. MaxRounds \in Nat /\ round \in 0..MaxRounds
  BY LoopConstants DEF LoopTypeOK
<1>1. CASE UNCHANGED loopVars
  BY <1>1 DEF loopVars, Positions
<1>2. CASE StartRound \/ NoReply \/ Correct \/ FinalAnswer
  BY <1>0, <1>2 DEF StartRound, NoReply, Correct, FinalAnswer
<1>3. CASE TakeCalls
  BY <1>3 DEF TakeCalls
<1>4. CASE Run
  BY <1>4 DEF Run, Positions
<1>5. ASSUME NEW i \in DOMAIN fate, PlanCall(i) PROVE Placed'
  <2>1. place = "planning" /\ (place' = place \/ place' = "asked") /\ UNCHANGED <<round, store>>
    BY <1>5, PlanOutcomes
  <2> QED  BY <2>1
<1>6. ASSUME NEW i \in DOMAIN fate, StartTool(i) \/ FinishTool(i) \/ StopTool(i) PROVE Placed'
  <2>1. place = "running" /\ UNCHANGED <<place, round, store>>
    BY <1>6 DEF StartTool, FinishTool, StopTool
  <2>2. \E what \in Fate : what # "new" /\ fate' = [fate EXCEPT ![i] = what]
    BY <1>6 DEF StartTool, FinishTool, StopTool, Decided, Fate
  <2>3. Positions("new")' = {}
    BY <2>1, <2>2 DEF Positions
  <2> QED  BY <2>1, <2>3
<1>7. CASE StoppedRound \/ EndRound
  BY <1>7 DEF StoppedRound, EndRound, AllEnded
<1>8. CASE DropLoop \/ RecordTurn
  BY <1>8 DEF DropLoop, RecordTurn, Over
<1>9. CASE Interrupt \/ \E t \in Regulated : Regulate(t)
  BY <1>9 DEF Interrupt, Regulate, Positions
<1> QED  BY <1>1, <1>2, <1>3, <1>4, <1>5, <1>6, <1>7, <1>8, <1>9 DEF LoopNext

\* A step that starts nothing and makes nothing ready.
LEMMA NothingNew ==
  ASSUME LoopTypeOK, FirstTime, RunOnce, Permitted,
         effects' = effects, ranBefore \subseteq ranBefore', setting' = setting, strict' \subseteq strict,
         \A i \in Positions("ready")' : i \in Positions("ready") /\ plan'.calls[i] = plan.calls[i]
  PROVE  FirstTime' /\ RunOnce' /\ Permitted'
<1>1. \A i \in Positions("ready")' : SignatureAt(i)' = SignatureAt(i)
  BY DEF SignatureAt
<1>2. FirstTime'
  BY <1>1 DEF FirstTime
<1>3. RunOnce'
  BY DEF RunOnce
<1>4. \A t : MayRun(t) => MayRun(t)'
  BY DEF MayRun
<1>5. Permitted'
  BY <1>4 DEF Permitted
<1> QED  BY <1>2, <1>3, <1>5

\* Effects of rounds before are told wherever the loop is.
LEMMA EarlierRoundsTold ==
  ASSUME LoopTypeOK, RoundOfEffects, Told, place \notin {"running", "cancelled", "gave_up"}
  PROVE  \A e \in effects : e.round < round /\ InStore(e, transcript)
<1> SUFFICES ASSUME NEW e \in effects PROVE e.round < round /\ InStore(e, transcript)
  OBVIOUS
<1>1. e.round < round /\ round \in Nat /\ e.round \in Nat
  BY LoopConstants DEF RoundOfEffects, LoopTypeOK, Effect
<1> QED  BY <1>1 DEF Told

\* What has been told stays told, in this round and in later ones.
LEMMA StillTold ==
  ASSUME LoopTypeOK, RoundOfEffects, Told, place \notin {"running", "cancelled", "gave_up"},
         LoopTypeOK', effects' = effects, round' >= round, Begins(transcript, transcript')
  PROVE  RoundOfEffects' /\ Told'
<1>1. \A e \in effects : e.round < round /\ InStore(e, transcript) /\ e.round \in Nat
  BY EarlierRoundsTold DEF LoopTypeOK, Effect
<1>2. round \in Nat /\ round' \in Nat
  BY LoopConstants DEF LoopTypeOK
<1>3. transcript \in Seq(Message) /\ transcript' \in Seq(Message)
  BY DEF LoopTypeOK
<1>4. Told'
  BY <1>1, <1>3, StillInStore DEF Told
<1>5. RoundOfEffects'
  BY <1>1, <1>2 DEF RoundOfEffects
<1> QED  BY <1>4, <1>5

\* The history as it was.
LEMMA SameTranscript ==
  ASSUME LoopTypeOK, Paired, transcript' = transcript
  PROVE  Begins(transcript, transcript') /\ Paired'
<1>1. Begins(transcript, transcript')
  BY DEF Begins, LoopTypeOK
<1>2. PairedIn(transcript)
  BY PairedMeansPairedIn
<1>3. Paired' <=> PairedIn(transcript')
  BY DEF Paired, PairedUp, PairedIn, PairedAt
<1> QED  BY <1>1, <1>2, <1>3

\* The loop asks, is answered, or gives up.
LEMMA AskingKeeps ==
  ASSUME LoopIInv, LoopTypeOK', Placed', StartRound \/ NoReply \/ Correct \/ FinalAnswer
  PROVE  LoopIInv'
<1>1. UNCHANGED <<setting, strict, ranBefore, plan, fate, effects>>
  BY DEF StartRound, NoReply, Correct, FinalAnswer, NothingRuns, surroundings
<1>2. FirstTime' /\ RunOnce' /\ Permitted'
  <2>1. Positions("ready")' = Positions("ready")
    BY <1>1 DEF Positions
  <2> QED  BY <1>1, <2>1, NothingNew DEF LoopIInv
<1>3. place \notin {"running", "cancelled", "gave_up"} /\ round' >= round
  BY LoopConstants DEF StartRound, NoReply, Correct, FinalAnswer, LoopIInv, LoopTypeOK
<1>4. Begins(transcript, transcript') /\ Paired'
  <2>1. \/ transcript' = transcript
        \/ \E kind \in {"correction", "answer"} : transcript' = Append(transcript, Said(kind, <<>>))
    BY DEF StartRound, NoReply, Correct, FinalAnswer
  <2>2. CASE transcript' = transcript
    BY <2>2, SameTranscript DEF LoopIInv
  <2>3. ASSUME NEW kind \in {"correction", "answer"}, transcript' = Append(transcript, Said(kind, <<>>))
        PROVE  Begins(transcript, transcript') /\ Paired'
    <3>1. transcript \in Seq(Message) /\ transcript' = transcript \o <<Said(kind, <<>>)>>
      BY <2>3, QuietIsPaired DEF LoopIInv, LoopTypeOK
    <3>2. PairedIn(transcript)
      BY PairedMeansPairedIn DEF LoopIInv
    <3>3. Begins(transcript, transcript') /\ PairedIn(transcript')
      BY <3>1, <3>2, QuietIsPaired, PairedOn
    <3> QED  BY <3>3 DEF Paired, PairedUp, PairedIn, PairedAt
  <2> QED  BY <2>1, <2>2, <2>3
<1>5. RoundOfEffects' /\ Told'
  BY <1>1, <1>3, <1>4, StillTold DEF LoopIInv
<1> QED  BY <1>2, <1>4, <1>5 DEF LoopIInv

LEMMA TakingKeeps ==
  ASSUME LoopIInv, LoopTypeOK', Placed', TakeCalls
  PROVE  LoopIInv'
<1>1. /\ UNCHANGED <<setting, strict, ranBefore, effects, transcript, round>> /\ place = "asking"
      /\ \E calls \in Reply : fate' = [i \in DOMAIN calls |-> "new"]
  BY DEF TakeCalls, surroundings, counts, traces
<1>2. Positions("ready")' = {}
  BY <1>1 DEF Positions
<1>3. FirstTime' /\ RunOnce' /\ Permitted'
  BY <1>1, <1>2, NothingNew DEF LoopIInv
<1>4. Begins(transcript, transcript') /\ Paired'
  BY <1>1, SameTranscript DEF LoopIInv
<1>5. round' >= round
  BY <1>1, LoopConstants DEF LoopIInv, LoopTypeOK
<1>6. RoundOfEffects' /\ Told'
  BY <1>1, <1>4, <1>5, StillTold DEF LoopIInv
<1> QED  BY <1>3, <1>4, <1>6 DEF LoopIInv

\* A call that becomes ready has a signature none had before.
LEMMA PlanningKeeps ==
  ASSUME LoopIInv, LoopTypeOK', Placed', NEW i \in DOMAIN fate, PlanCall(i)
  PROVE  LoopIInv'
<1>1. /\ UNCHANGED <<setting, effects, transcript, round>> /\ strict' \subseteq strict
      /\ place = "planning" /\ fate[i] = "new" /\ i \in DOMAIN plan.calls
  BY PlanOutcomes DEF LoopIInv
<1>2. Begins(transcript, transcript') /\ Paired'
  BY <1>1, SameTranscript DEF LoopIInv
<1>3. round' >= round
  BY <1>1, LoopConstants DEF LoopIInv, LoopTypeOK
<1>4. RoundOfEffects' /\ Told'
  BY <1>1, <1>2, <1>3, StillTold DEF LoopIInv
<1>5. fate \in [DOMAIN plan.calls -> Fate] /\ plan \in Plan
  BY DEF LoopIInv, LoopTypeOK
<1>6. FirstTime' /\ RunOnce' /\ Permitted'
  <2>1. CASE fate' = [fate EXCEPT ![i] = "refused"] /\ UNCHANGED <<ranBefore, plan, place>>
    <3>1. \A j \in Positions("ready")' : j \in Positions("ready")
      BY <1>5, <2>1 DEF Positions
    <3> QED  BY <1>1, <2>1, <3>1, NothingNew DEF LoopIInv
  <2>2. CASE place' = "asked" /\ UNCHANGED <<ranBefore, plan, fate>>
    <3>1. Positions("ready")' = Positions("ready")
      BY <2>2 DEF Positions
    <3> QED  BY <1>1, <2>2, <3>1, NothingNew DEF LoopIInv
  <2>3. ASSUME NEW t \in LoopTool,
               Signature(i, t) \notin ranBefore, MayRun(t)',
               fate' = [fate EXCEPT ![i] = "ready"],
               ranBefore' = ranBefore \cup {Signature(i, t)},
               plan' = [plan EXCEPT !.calls[i].tool = t]
        PROVE  FirstTime' /\ RunOnce' /\ Permitted'
    <3>1. /\ plan'.calls[i].tool = t /\ plan'.calls[i].args = plan.calls[i].args
          /\ \A j \in DOMAIN plan.calls : j # i => plan'.calls[j] = plan.calls[j]
      BY <1>1, <1>5, <2>3, RenamedPlan
    <3>2. SignatureAt(i)' = Signature(i, t)
      BY <3>1 DEF SignatureAt, Signature
    <3>3. Positions("ready")' = Positions("ready") \cup {i} /\ i \notin Positions("ready")
      BY <1>1, <1>5, <2>3 DEF Positions
    <3>4. \A j \in Positions("ready") : j # i /\ j \in DOMAIN plan.calls
      BY <1>1, <1>5 DEF Positions
    <3>5. \A j \in Positions("ready") : SignatureAt(j)' = SignatureAt(j) /\ SignatureAt(j) \in ranBefore
      BY <3>1, <3>4 DEF SignatureAt, LoopIInv, FirstTime
    <3>6. FirstTime'
      <4>1. \A e \in effects : SignatureOf(e) \in ranBefore
        BY DEF LoopIInv, FirstTime
      <4>2. \A j \in Positions("ready")' : SignatureAt(j)' \in ranBefore'
        BY <2>3, <3>2, <3>3, <3>5
      <4>3. \A j \in Positions("ready")' : \A e \in effects' : SignatureOf(e) # SignatureAt(j)'
        BY <1>1, <2>3, <3>2, <3>3, <3>5, <4>1 DEF LoopIInv, FirstTime
      <4>4. \A j, k \in Positions("ready")' : SignatureAt(j)' = SignatureAt(k)' => j = k
        BY <2>3, <3>2, <3>3, <3>5 DEF LoopIInv, FirstTime
      <4> QED  BY <1>1, <2>3, <4>1, <4>2, <4>3, <4>4 DEF FirstTime
    <3>7. RunOnce'
      BY <1>1 DEF LoopIInv, RunOnce
    <3>8. Permitted'
      <4>1. \A u : MayRun(u) => MayRun(u)'
        BY <1>1 DEF MayRun
      <4>2. \A j \in Positions("ready") : MayRun(plan.calls[j].tool)
        BY DEF LoopIInv, Permitted
      <4>3. ASSUME NEW j \in Positions("ready")' PROVE MayRun(plan.calls[j].tool)'
        <5>1. CASE j = i
          BY <2>3, <3>1, <5>1
        <5>2. CASE j \in Positions("ready")
          <6>1. plan'.calls[j] = plan.calls[j]
            BY <3>1, <3>4, <5>2
          <6> QED  BY <4>1, <4>2, <5>2, <6>1
        <5> QED  BY <3>3, <5>1, <5>2
      <4> QED  BY <1>1, <4>1, <4>3 DEF LoopIInv, Permitted
    <3> QED  BY <3>6, <3>7, <3>8
  <2> QED  BY <2>1, <2>2, <2>3, PlanOutcomes DEF LoopIInv
<1> QED  BY <1>2, <1>4, <1>6 DEF LoopIInv

\* A tool that is started was ready, so that its signature is in no effect yet.
LEMMA StartingKeeps ==
  ASSUME LoopIInv, LoopTypeOK', Placed', NEW i \in DOMAIN fate, StartTool(i)
  PROVE  LoopIInv'
<1> DEFINE new == [round |-> round, at |-> i, tool |-> plan.calls[i].tool,
                   args |-> plan.calls[i].args]
<1>1. /\ UNCHANGED <<setting, strict, ranBefore, plan, transcript, round, place, store>>
      /\ place = "running" /\ fate[i] = "ready" /\ fate' = [fate EXCEPT ![i] = "running"]
      /\ effects' = effects \cup {new}
  BY DEF StartTool, Decided, OnlyFate, surroundings, counts
<1>2. fate \in [DOMAIN plan.calls -> Fate] /\ i \in DOMAIN plan.calls
  BY DEF LoopIInv, LoopTypeOK
<1>3. i \in Positions("ready") /\ \A j \in Positions("ready")' : j \in Positions("ready") /\ j # i
  BY <1>1, <1>2 DEF Positions
<1>4. /\ new.round = round /\ new.at = i /\ new.tool = plan.calls[i].tool
      /\ new.args = plan.calls[i].args /\ SignatureOf(new) = SignatureAt(i)
  BY DEF SignatureOf, SignatureAt
<1> HIDE DEF new
<1>5. \A j : SignatureAt(j)' = SignatureAt(j)
  BY <1>1 DEF SignatureAt
<1>6. FirstTime'
  <2>1. \A e \in effects' : SignatureOf(e) \in ranBefore
    BY <1>1, <1>3, <1>4 DEF LoopIInv, FirstTime
  <2>2. \A j \in Positions("ready")' : \A e \in effects' : SignatureOf(e) # SignatureAt(j)
    BY <1>1, <1>3, <1>4 DEF LoopIInv, FirstTime
  <2>3. \A j, k \in Positions("ready")' : SignatureAt(j) = SignatureAt(k) => j = k
    BY <1>3 DEF LoopIInv, FirstTime
  <2>4. \A j \in Positions("ready")' : SignatureAt(j) \in ranBefore
    BY <1>3 DEF LoopIInv, FirstTime
  <2> QED  BY <1>1, <1>5, <2>1, <2>2, <2>3, <2>4 DEF FirstTime
<1>7. RunOnce'
  <2>1. \A e \in effects : ~(e.tool = new.tool /\ e.args = new.args)
    BY <1>3, <1>4 DEF LoopIInv, FirstTime, SignatureOf
  <2>2. \A e, f \in effects : e.tool = f.tool /\ e.args = f.args => e = f
    BY DEF LoopIInv, RunOnce
  <2> QED  BY <1>1, <2>1, <2>2 DEF RunOnce
<1>8. Permitted'
  <2>1. \A t : MayRun(t)' <=> MayRun(t)
    BY <1>1 DEF MayRun
  <2>2. \A e \in effects' : MayRun(e.tool)
    BY <1>1, <1>3, <1>4 DEF LoopIInv, Permitted
  <2> QED  BY <1>1, <1>3, <2>1, <2>2 DEF LoopIInv, Permitted
<1>9. RoundOfEffects'
  BY <1>1, <1>4, LoopConstants DEF LoopIInv, LoopTypeOK, RoundOfEffects
<1>10. Told'
  BY <1>1, <1>2, <1>4 DEF LoopIInv, Told
<1>11. Paired'
  BY <1>1, SameTranscript DEF LoopIInv
<1> QED  BY <1>6, <1>7, <1>8, <1>9, <1>10, <1>11 DEF LoopIInv

LEMMA EndingToolsKeeps ==
  ASSUME LoopIInv, LoopTypeOK', Placed', NEW i \in DOMAIN fate, FinishTool(i) \/ StopTool(i)
  PROVE  LoopIInv'
<1>1. /\ UNCHANGED <<setting, strict, ranBefore, plan, transcript, round, place, effects>>
      /\ \E what \in {"succeeded", "failed", "stopped"} : fate' = [fate EXCEPT ![i] = what]
  BY DEF FinishTool, StopTool, Decided, OnlyFate, surroundings, counts
<1>2. \A j \in Positions("ready")' : j \in Positions("ready")
  BY <1>1 DEF Positions, LoopIInv, LoopTypeOK
<1>3. FirstTime' /\ RunOnce' /\ Permitted'
  BY <1>1, <1>2, NothingNew DEF LoopIInv
<1>4. RoundOfEffects' /\ Told'
  BY <1>1 DEF LoopIInv, RoundOfEffects, Told
<1>5. Paired'
  BY <1>1, SameTranscript DEF LoopIInv
<1> QED  BY <1>3, <1>4, <1>5 DEF LoopIInv

\* The calls are run, their round is stopped, the token fires, or the policy changes.
LEMMA MovingOnKeeps ==
  ASSUME LoopIInv, LoopTypeOK', Placed',
         Run \/ StoppedRound \/ Interrupt \/ (\E t \in Regulated : Regulate(t)) \/ UNCHANGED loopVars
  PROVE  LoopIInv'
<1>1. /\ UNCHANGED <<setting, ranBefore, plan, fate, transcript, round, effects>>
      /\ strict' \subseteq strict
  BY DEF Run, StoppedRound, Interrupt, Regulate, surroundings, counts, traces, loopVars
<1>2. Positions("ready")' = Positions("ready")
  BY <1>1 DEF Positions
<1>3. FirstTime' /\ RunOnce' /\ Permitted'
  BY <1>1, <1>2, NothingNew DEF LoopIInv
<1>4. \/ place' = place
      \/ place = "planning" /\ place' = "running"
      \/ place = "running" /\ place' = "cancelled"
  BY DEF Run, StoppedRound, AllEnded, Interrupt, Regulate, End, loopVars
<1>5. RoundOfEffects' /\ Told'
  BY <1>1, <1>4 DEF LoopIInv, RoundOfEffects, Told
<1>6. Paired'
  BY <1>1, SameTranscript DEF LoopIInv
<1> QED  BY <1>3, <1>5, <1>6 DEF LoopIInv

\* What a round did is told when it ends.
LEMMA RoundEndKeeps ==
  ASSUME LoopIInv, LoopTypeOK', Placed', EndRound
  PROVE  LoopIInv'
<1>1. /\ UNCHANGED <<setting, strict, ranBefore, effects>> /\ fate' = <<>> /\ place = "running"
      /\ \/ place' = "gave_up" /\ round' = round
         \/ place' = "starting" /\ round' = round + 1
  BY DEF EndRound, AllEnded, End, surroundings
<1>2. Positions("ready")' = {}
  BY <1>1, EmptyPlan DEF Positions
<1>3. FirstTime' /\ RunOnce' /\ Permitted'
  BY <1>1, <1>2, NothingNew DEF LoopIInv
<1>4. /\ transcript \in Seq(Message) /\ transcript' \in Seq(Message)
      /\ Begins(transcript, transcript') /\ PairedIn(transcript')
      /\ \A i \in DOMAIN plan.calls : \E k \in DOMAIN transcript' :
           \E j \in DOMAIN transcript'[k].calls : transcript'[k].calls[j] = <<round, i>>
  BY EndRoundTranscript DEF LoopIInv, LoopTypeOK
<1>5. Paired'
  BY <1>4 DEF Paired, PairedUp, PairedIn, PairedAt
<1>6. \A e \in effects : InStore(e, transcript')
  <2> SUFFICES ASSUME NEW e \in effects PROVE InStore(e, transcript')
    OBVIOUS
  <2>1. CASE InStore(e, transcript)
    BY <1>4, <2>1, StillInStore
  <2>2. CASE e.round = round /\ e.at \in DOMAIN plan.calls
    BY <1>4, <2>2 DEF InStore
  <2> QED  BY <1>1, <2>1, <2>2 DEF LoopIInv, Told
<1>7. RoundOfEffects'
  <2>1. \A e \in effects : e.round <= round /\ e.round \in Nat
    BY DEF LoopIInv, RoundOfEffects, LoopTypeOK, Effect
  <2>2. round \in Nat
    BY LoopConstants DEF LoopIInv, LoopTypeOK
  <2> QED  BY <1>1, <2>1, <2>2 DEF RoundOfEffects
<1> QED  BY <1>1, <1>3, <1>5, <1>6, <1>7 DEF LoopIInv, Told

LEMMA OverKeeps ==
  ASSUME LoopTypeOK', Placed', Over
  PROVE  LoopIInv'
<1>1. fate' = <<>> /\ effects' = {} /\ transcript' = <<>>
  BY DEF Over
<1>2. Positions("ready")' = {}
  BY <1>1, EmptyPlan DEF Positions
<1>3. FirstTime' /\ RunOnce' /\ Permitted' /\ RoundOfEffects' /\ Told'
  BY <1>1, <1>2 DEF FirstTime, RunOnce, Permitted, RoundOfEffects, Told
<1>4. Paired'
  BY <1>1, EmptyPlan DEF Paired, PairedUp
<1> QED  BY <1>3, <1>4 DEF LoopIInv

LEMMA LoopStepKeepsIInv == LoopIInv /\ [LoopNext]_loopVars => LoopIInv'
<1> SUFFICES ASSUME LoopIInv, [LoopNext]_loopVars PROVE LoopIInv'
  OBVIOUS
<1>1. LoopTypeOK' /\ Placed'
  BY LoopTyping, LoopPlaces DEF LoopIInv
<1>2. CASE StartRound \/ NoReply \/ Correct \/ FinalAnswer
  BY <1>1, <1>2, AskingKeeps
<1>3. CASE TakeCalls
  BY <1>1, <1>3, TakingKeeps
<1>4. ASSUME NEW i \in DOMAIN fate, PlanCall(i) PROVE LoopIInv'
  BY <1>1, <1>4, PlanningKeeps
<1>5. ASSUME NEW i \in DOMAIN fate, StartTool(i) PROVE LoopIInv'
  BY <1>1, <1>5, StartingKeeps
<1>6. ASSUME NEW i \in DOMAIN fate, FinishTool(i) \/ StopTool(i) PROVE LoopIInv'
  BY <1>1, <1>6, EndingToolsKeeps
<1>7. CASE EndRound
  BY <1>1, <1>7, RoundEndKeeps
<1>8. CASE DropLoop \/ RecordTurn
  BY <1>1, <1>8, OverKeeps DEF DropLoop, RecordTurn
<1>9. CASE Run \/ StoppedRound \/ Interrupt \/ (\E t \in Regulated : Regulate(t)) \/ UNCHANGED loopVars
  BY <1>1, <1>9, MovingOnKeeps
<1> QED  BY <1>2, <1>3, <1>4, <1>5, <1>6, <1>7, <1>8, <1>9 DEF LoopNext

-----------------------------------------------------------------------------
(* The theorems.                                                           *)

LEMMA LoopInvariance == LoopSpec => []LoopIInv
<1> QED  BY LoopInitIInv, LoopStepKeepsIInv, PTL DEF LoopSpec

LEMMA LoopIsSound == LoopIInv => TurnSound
<1> SUFFICES ASSUME LoopIInv PROVE TurnSound
  OBVIOUS
<1>1. NothingUnasked
  <2>1. ASSUME setting.where # "cli", ~setting.granted, NEW e \in effects, e.tool \in strict
        PROVE  setting.where = "chat" /\ e.tool \in Investigation
    BY <2>1 DEF LoopIInv, Permitted, MayRun
  <2>2. ASSUME place = "asked", NEW e \in effects PROVE e.round # round
    <3>1. e.round < round /\ round \in Nat /\ e.round \in Nat
      BY <2>2, LoopConstants DEF LoopIInv, RoundOfEffects, LoopTypeOK, Effect
    <3> QED  BY <3>1
  <2> QED  BY <2>1, <2>2 DEF NothingUnasked
<1> QED  BY <1>1 DEF TurnSound, LoopIInv, Paired

THEOREM TurnIsSound == LoopSpec => []TurnSound
<1> QED  BY LoopInvariance, LoopIsSound, PTL

THEOREM EffectsAreRecorded == LoopSpec => EffectsRecorded
<1> DEFINE Recorded ==
      place' = "recorded" /\ place \in Endings /\ (place \in {"answered", "gave_up"} => store' # <<>>)
        => \A e \in effects : InStore(e, store') \/ (place = "cancelled" /\ e.round = round)
<1>1. LoopIInv /\ [LoopNext]_loopVars => [Recorded]_loopVars
  <2> SUFFICES ASSUME LoopIInv, LoopNext,
                      place' = "recorded", place \in Endings,
                      place \in {"answered", "gave_up"} => store' # <<>>,
                      NEW e \in effects
               PROVE  InStore(e, store') \/ (place = "cancelled" /\ e.round = round)
    OBVIOUS
  <2>1. RecordTurn
    <3>1. ~StartRound /\ ~NoReply /\ ~Correct /\ ~FinalAnswer /\ ~TakeCalls /\ ~Run
      BY DEF StartRound, NoReply, Correct, FinalAnswer, TakeCalls, Run, Endings
    <3>2. \A i \in DOMAIN fate : ~PlanCall(i) /\ ~StartTool(i) /\ ~FinishTool(i) /\ ~StopTool(i)
      BY DEF PlanCall, StartTool, FinishTool, StopTool, Endings
    <3>3. ~StoppedRound /\ ~EndRound /\ ~DropLoop /\ ~Interrupt /\ \A t \in Regulated : ~Regulate(t)
      BY DEF StoppedRound, EndRound, AllEnded, DropLoop, Interrupt, Regulate, Going, Endings
    <3> QED  BY <3>1, <3>2, <3>3 DEF LoopNext
  <2>2. store' = transcript
    BY <2>1 DEF RecordTurn, ToRecord, LoopIInv, Placed, Endings
  <2>3. InStore(e, transcript) \/ (e.round = round /\ place = "cancelled")
    BY DEF LoopIInv, Told, Endings
  <2> QED  BY <2>2, <2>3
<1> QED  BY <1>1, LoopInvariance, PTL DEF LoopSpec, EffectsRecorded

-----------------------------------------------------------------------------
(* The process tool.                                                       *)

\* Calls that were given room and have not used it.
Entering == {c \in Call : job[c] \in {"spawning", "inserting"}}

RunningListed == listed \cap alive

RoomCounted ==
  /\ IsFiniteSet(RunningListed)
  /\ Cardinality(RunningListed) + Cardinality(Entering) < MaxProcesses + Cardinality(Call)

\* A call is about a process exactly where it needs one.
AboutKnown ==
  \A c \in Call : job[c] \in {"inserting", "inspecting", "killing"} => about[c] \in Process

\* The process a call has started and not entered is one of those spawned.
StartedIsSpawned == \A c \in Call : job[c] = "inserting" => about[c] \in 1..spawned

ProcessInv == ProcessTypeOK /\ AboutKnown /\ StartedIsSpawned /\ RoomCounted

LEMMA ConstantsAreNumbers ==
  /\ MaxSpawns \in Nat /\ MaxProcesses \in Nat \ {0} /\ MaxOutput \in Nat /\ MaxBytes \in Nat
  /\ Slip \in Nat /\ Cardinality(Call) \in Nat
  BY ProcessAssumption, FS_CardinalityType

LEMMA EnteringCounted ==
  /\ IsFiniteSet(Entering) /\ Cardinality(Entering) \in Nat
  /\ Cardinality(Entering) <= Cardinality(Call)
<1>1. Entering \in SUBSET Call
  BY DEF Entering
<1> QED  BY <1>1, ProcessAssumption, FS_Subset, FS_CardinalityType

LEMMA InitProcessInv == ProcessInit => ProcessInv
<1> SUFFICES ASSUME ProcessInit PROVE ProcessInv
  OBVIOUS
<1>1. ProcessTypeOK
  <2>1. 0 \in Bytes /\ 0 \in 0..MaxSpawns /\ 0 - 0 <= MaxOutput
    BY ConstantsAreNumbers DEF Bytes
  <2>2. /\ spawned \in 0..MaxSpawns /\ alive \subseteq 1..spawned /\ listed \subseteq 1..spawned
        /\ job \in [Call -> {"idle", "pruning", "counting", "spawning", "inserting",
                              "inspecting", "killing"}]
        /\ about \in [Call -> Process \cup {NoProcess}] /\ found \in [Call -> SUBSET Process]
        /\ repeated \in BOOLEAN /\ crossed \in BOOLEAN
    BY <2>1 DEF ProcessInit
  <2>3. /\ written \in [Process -> Bytes] /\ dropped \in [Process -> Bytes]
        /\ analyzed \in [Process -> Bytes] /\ inspected \in [Process -> SUBSET Bytes]
        /\ from \in [Call -> Bytes] /\ upto \in [Call -> Bytes]
    BY <2>1 DEF ProcessInit
  <2>4. \A p \in Process : dropped[p] <= written[p] /\ written[p] - dropped[p] <= MaxOutput
    BY <2>1 DEF ProcessInit
  <2> QED  BY <2>2, <2>3, <2>4 DEF ProcessTypeOK
<1>2. AboutKnown /\ StartedIsSpawned
  BY DEF ProcessInit, AboutKnown, StartedIsSpawned
<1>3. RunningListed = {} /\ Entering = {}
  BY DEF ProcessInit, RunningListed, Entering
<1>4. RoomCounted
  BY <1>3, FS_EmptySet, ConstantsAreNumbers DEF RoomCounted
<1> QED  BY <1>1, <1>2, <1>4 DEF ProcessInv

-----------------------------------------------------------------------------
(* Types.                                                                  *)

\* append_bounded keeps what is in the buffer within its limit.
LEMMA AppendTypes ==
  ASSUME ProcessInv, NEW p \in Process, NEW n \in 1..MaxBytes, AppendBounded(p, n)
  PROVE  ProcessTypeOK' /\ \A q \in Process : dropped[q] <= dropped'[q]
<1> DEFINE end == written[p] + n
<1>1. /\ n \in Nat /\ written[p] \in Nat /\ dropped[p] \in Nat /\ dropped[p] <= written[p]
      /\ written \in [Process -> Bytes] /\ dropped \in [Process -> Bytes]
      /\ written' = [written EXCEPT ![p] = end] /\ end \in Bytes
  BY ConstantsAreNumbers DEF ProcessInv, ProcessTypeOK, Bytes, AppendBounded
<1>2. \E d \in Bytes : /\ dropped' = [dropped EXCEPT ![p] = d]
                       /\ dropped[p] <= d /\ d <= end /\ end - d <= MaxOutput
  <2>1. CASE end - dropped[p] <= MaxOutput /\ UNCHANGED dropped
    <3>1. dropped' = [dropped EXCEPT ![p] = dropped[p]]
      BY <1>1, <2>1
    <3> QED  BY <1>1, <2>1, <3>1 DEF Bytes
  <2>2. ASSUME end - dropped[p] > MaxOutput, NEW slip \in 0..Slip,
               end - MaxOutput + slip <= end,
               dropped' = [dropped EXCEPT ![p] = end - MaxOutput + slip]
        PROVE  \E d \in Bytes : /\ dropped' = [dropped EXCEPT ![p] = d]
                                /\ dropped[p] <= d /\ d <= end /\ end - d <= MaxOutput
    <3> DEFINE d == end - MaxOutput + slip
    <3>1. d \in Nat /\ dropped[p] <= d /\ d <= end /\ end - d <= MaxOutput
      BY <1>1, <2>2, ConstantsAreNumbers DEF Bytes
    <3>2. d \in Bytes
      BY <3>1, <1>1, ConstantsAreNumbers DEF Bytes
    <3> QED  BY <3>1, <3>2, <2>2
  <2> QED  BY <2>1, <2>2 DEF AppendBounded
<1>3. PICK d \in Bytes : /\ dropped' = [dropped EXCEPT ![p] = d]
                         /\ dropped[p] <= d /\ d <= end /\ end - d <= MaxOutput
  BY <1>2
<1> HIDE DEF end
<1>4. /\ written' \in [Process -> Bytes] /\ dropped' \in [Process -> Bytes]
      /\ \A q \in Process : /\ dropped'[q] <= written'[q] /\ written'[q] - dropped'[q] <= MaxOutput
                            /\ dropped[q] <= dropped'[q]
  <2>1. \A q \in Process : /\ dropped[q] <= written[q] /\ written[q] - dropped[q] <= MaxOutput
                           /\ dropped[q] \in Nat
    BY DEF ProcessInv, ProcessTypeOK, Bytes
  <2> QED  BY <1>1, <1>3, <2>1
<1>5. UNCHANGED <<spawned, alive, listed, analyzed, inspected, repeated, crossed, job, about,
                  found, from, upto>>
  BY DEF AppendBounded, table, inspection, snapshot
<1> QED  BY <1>4, <1>5 DEF ProcessInv, ProcessTypeOK

LEMMA CallTypes ==
  ASSUME ProcessInv, NEW c \in Call, CallStep(c)
  PROVE  ProcessTypeOK' /\ AboutKnown' /\ StartedIsSpawned'
<1> USE DEF ProcessInv, ProcessTypeOK, AboutKnown, StartedIsSpawned, Do
<1>1. CASE Collect(c)
  BY <1>1, ConstantsAreNumbers DEF Collect, table, others, output, inspection, snapshot, Process
<1>2. CASE RemoveExited(c)
  BY <1>2 DEF RemoveExited, others, output, inspection, snapshot
<1>3. CASE CountRunning(c)
  BY <1>3 DEF CountRunning, table, others, output, inspection, snapshot
<1>4. CASE Launch(c)
  <2>1. CASE Do(c, "idle") /\ UNCHANGED <<spawned, alive, about>>
    BY <1>4, <2>1 DEF Launch, others, output, inspection, snapshot
  <2>2. CASE /\ spawned + 1 \in Process /\ spawned' = spawned + 1 /\ alive' = alive \cup {spawned'}
             /\ about' = [about EXCEPT ![c] = spawned'] /\ Do(c, "inserting")
    <3>1. 1..spawned \subseteq 1..spawned' /\ spawned' \in 1..spawned' /\ spawned' \in 0..MaxSpawns
          /\ spawned' \in Process
      BY <2>2, ConstantsAreNumbers DEF Process
    <3> QED  BY <1>4, <2>2, <3>1 DEF Launch, others, output, inspection, snapshot
  <2> QED  BY <1>4, <2>1, <2>2 DEF Launch
<1>5. CASE Insert(c)
  BY <1>5 DEF Insert, others, output, inspection, snapshot
<1>6. CASE Inspect(c)
  <2>1. about[c] \in Process /\ Unseen(c) \in SUBSET Bytes /\ 0 \in Bytes
    BY <1>6, ConstantsAreNumbers DEF Inspect, Unseen, Bytes
  <2> QED  BY <1>6, <2>1 DEF Inspect, OffsetAfter, table, output
<1>7. CASE KillEnds(c)
  BY <1>7 DEF KillEnds, others, output, inspection, snapshot
<1>8. ASSUME NEW p \in Process, Snapshot(c, p) PROVE ProcessTypeOK' /\ AboutKnown' /\ StartedIsSpawned'
  BY <1>8 DEF Snapshot, table, output, inspection
<1>9. ASSUME NEW p \in Process, Kill(c, p) PROVE ProcessTypeOK' /\ AboutKnown' /\ StartedIsSpawned'
  BY <1>9 DEF Kill, others, output, inspection, snapshot
<1> QED  BY <1>1, <1>2, <1>3, <1>4, <1>5, <1>6, <1>7, <1>8, <1>9 DEF CallStep

-----------------------------------------------------------------------------
(* The limit on processes.                                                 *)

\* Without a new entry and a new call that may enter, the count does not grow.
LEMMA NoMore ==
  ASSUME ProcessInv, RunningListed' \subseteq RunningListed, Entering' \subseteq Entering
  PROVE  RoomCounted'
<1>1. IsFiniteSet(RunningListed') /\ Cardinality(RunningListed') <= Cardinality(RunningListed)
  BY FS_Subset DEF ProcessInv, RoomCounted
<1>2. Cardinality(Entering') <= Cardinality(Entering) /\ IsFiniteSet(Entering')
  BY EnteringCounted, FS_Subset
<1>3. /\ Cardinality(RunningListed) \in Nat /\ Cardinality(RunningListed') \in Nat
      /\ Cardinality(Entering') \in Nat
  BY <1>1, <1>2, FS_CardinalityType DEF ProcessInv, RoomCounted
<1> QED  BY <1>1, <1>2, <1>3, EnteringCounted, ConstantsAreNumbers DEF ProcessInv, RoomCounted

LEMMA RoomKept == ASSUME ProcessInv, [ProcessNext]_processVars PROVE RoomCounted'
<1>1. CASE UNCHANGED processVars
  BY <1>1, NoMore DEF processVars, RunningListed, Entering
<1>2. ASSUME NEW p \in Process, Exit(p) PROVE RoomCounted'
  BY <1>2, NoMore DEF Exit, RunningListed, Entering
<1>3. ASSUME NEW p \in Process, NEW n \in 1..MaxBytes, AppendBounded(p, n) PROVE RoomCounted'
  BY <1>3, NoMore DEF AppendBounded, table, RunningListed, Entering
<1>4. ASSUME NEW c \in Call, CallStep(c) PROVE RoomCounted'
  <2> USE DEF Do
  <2>0. job \in [Call -> {"idle", "pruning", "counting", "spawning", "inserting",
                          "inspecting", "killing"}]
    BY DEF ProcessInv, ProcessTypeOK
  <2>1. CASE Collect(c)
    BY <2>0, <2>1, NoMore DEF Collect, table, RunningListed, Entering
  <2>2. CASE RemoveExited(c)
    BY <2>0, <2>2, NoMore DEF RemoveExited, RunningListed, Entering
  <2>3. CASE CountRunning(c)
    <3>1. CASE Do(c, "idle")
      BY <2>0, <2>3, <3>1, NoMore DEF CountRunning, table, RunningListed, Entering
    <3>2. CASE Room /\ Do(c, "spawning")
      <4>1. RunningListed' = RunningListed /\ Entering' \in SUBSET Call
        BY <2>3 DEF CountRunning, table, RunningListed, Entering
      <4>2. Cardinality(Entering') <= Cardinality(Call) /\ Cardinality(Entering') \in Nat
        BY <4>1, ProcessAssumption, FS_Subset, FS_CardinalityType
      <4>3. IsFiniteSet(RunningListed) /\ Cardinality(RunningListed) \in Nat
        BY FS_CardinalityType DEF ProcessInv, RoomCounted
      <4>4. Cardinality(RunningListed) < MaxProcesses
        BY <3>2 DEF Room, RunningListed
      <4> QED  BY <4>1, <4>2, <4>3, <4>4, ConstantsAreNumbers DEF RoomCounted
    <3> QED  BY <2>3, <3>1, <3>2 DEF CountRunning
  <2>4. CASE Launch(c)
    <3>1. RunningListed' \subseteq RunningListed
      <4>1. spawned \in Nat /\ listed \subseteq 1..spawned
        BY ConstantsAreNumbers DEF ProcessInv, ProcessTypeOK
      <4>2. spawned + 1 \notin listed
        BY <4>1
      <4> QED  BY <2>4, <4>2 DEF Launch, RunningListed
    <3>2. Entering' \subseteq Entering
      BY <2>0, <2>4 DEF Launch, Entering
    <3> QED  BY <3>1, <3>2, NoMore
  <2>5. CASE Insert(c)
    <3>1. c \in Entering /\ Entering' = Entering \ {c}
      BY <2>0, <2>5 DEF Insert, Entering
    <3>2. Cardinality(Entering') = Cardinality(Entering) - 1
      BY <3>1, EnteringCounted, FS_RemoveElement
    <3>3. RunningListed' \in SUBSET (RunningListed \cup {about[c]})
      BY <2>5 DEF Insert, RunningListed
    <3>4. IsFiniteSet(RunningListed) /\ Cardinality(RunningListed) \in Nat
      BY FS_CardinalityType DEF ProcessInv, RoomCounted
    <3>5. /\ IsFiniteSet(RunningListed \cup {about[c]})
          /\ Cardinality(RunningListed \cup {about[c]}) <= Cardinality(RunningListed) + 1
          /\ Cardinality(RunningListed \cup {about[c]}) \in Nat
      <4>1. /\ IsFiniteSet(RunningListed \cup {about[c]})
            /\ Cardinality(RunningListed \cup {about[c]}) =
                 IF about[c] \in RunningListed THEN Cardinality(RunningListed)
                 ELSE Cardinality(RunningListed) + 1
        BY <3>4, FS_AddElement
      <4> QED  BY <3>4, <4>1
    <3>6. /\ IsFiniteSet(RunningListed') /\ Cardinality(RunningListed') \in Nat
          /\ Cardinality(RunningListed') <= Cardinality(RunningListed \cup {about[c]})
      BY <3>3, <3>5, FS_Subset, FS_CardinalityType
    <3> QED  BY <3>2, <3>4, <3>5, <3>6, EnteringCounted, ConstantsAreNumbers DEF ProcessInv, RoomCounted
  <2>6. CASE Inspect(c)
    BY <2>0, <2>6, NoMore DEF Inspect, table, RunningListed, Entering
  <2>7. CASE KillEnds(c)
    BY <2>0, <2>7, NoMore DEF KillEnds, RunningListed, Entering
  <2>8. ASSUME NEW p \in Process, Snapshot(c, p) PROVE RoomCounted'
    BY <2>0, <2>8, NoMore DEF Snapshot, table, RunningListed, Entering
  <2>9. ASSUME NEW p \in Process, Kill(c, p) PROVE RoomCounted'
    BY <2>0, <2>9, NoMore DEF Kill, RunningListed, Entering
  <2> QED  BY <1>4, <2>1, <2>2, <2>3, <2>4, <2>5, <2>6, <2>7, <2>8, <2>9 DEF CallStep
<1> QED  BY <1>1, <1>2, <1>3, <1>4 DEF ProcessNext

LEMMA StepKeepsProcessInv == ProcessInv /\ [ProcessNext]_processVars => ProcessInv'
<1> SUFFICES ASSUME ProcessInv, [ProcessNext]_processVars PROVE ProcessInv'
  OBVIOUS
<1>1. RoomCounted'
  BY RoomKept
<1>2. ProcessTypeOK' /\ AboutKnown' /\ StartedIsSpawned'
  <2>1. CASE UNCHANGED processVars
    BY <2>1 DEF processVars, ProcessInv, ProcessTypeOK, AboutKnown, StartedIsSpawned
  <2>2. ASSUME NEW p \in Process, Exit(p) PROVE ProcessTypeOK' /\ AboutKnown' /\ StartedIsSpawned'
    BY <2>2 DEF Exit, output, inspection, snapshot, ProcessInv, ProcessTypeOK, AboutKnown,
       StartedIsSpawned
  <2>3. ASSUME NEW p \in Process, NEW n \in 1..MaxBytes, AppendBounded(p, n)
        PROVE  ProcessTypeOK' /\ AboutKnown' /\ StartedIsSpawned'
    BY <2>3, AppendTypes DEF AppendBounded, table, ProcessInv, AboutKnown, StartedIsSpawned
  <2> QED  BY <2>1, <2>2, <2>3, CallTypes DEF ProcessNext
<1> QED  BY <1>1, <1>2 DEF ProcessInv

\* The limit on processes is exceeded by no more than the other calls between
\* counting and entering, and no buffer is longer than its limit.
THEOREM ProcessLimits == ProcessSpec => []LimitsKept
<1>1. ASSUME ProcessInv PROVE LimitsKept
  <2>1. /\ Cardinality(RunningListed) \in Nat
        /\ Cardinality(RunningListed) + Cardinality(Entering) < MaxProcesses + Cardinality(Call)
    BY <1>1, FS_CardinalityType DEF ProcessInv, RoomCounted
  <2> QED  BY <1>1, <2>1, EnteringCounted, ConstantsAreNumbers DEF ProcessInv, LimitsKept, RunningListed
<1> QED  BY <1>1, InitProcessInv, StepKeepsProcessInv, PTL DEF ProcessSpec

-----------------------------------------------------------------------------
(* The detector.                                                           *)

\* What a snapshot starts after has left the buffer; and it is what was written.
SnapshotsSound ==
  \A c \in Call : job[c] = "inspecting" =>
    /\ from[c] <= dropped[about[c]]
    /\ upto[c] <= written[about[c]]

\* Unless snapshots crossed, nothing beyond the offset was inspected.
OffsetIsLast ==
  crossed \/ \A p \in Process : \A b \in inspected[p] : b < analyzed[p]

DetectorInv == SnapshotsSound /\ OffsetIsLast /\ InspectedOnce

LEMMA StepKeepsDetectorInv ==
  ASSUME ProcessInv, DetectorInv, [ProcessNext]_processVars
  PROVE  DetectorInv'
<1> USE DEF DetectorInv
<1>0. /\ job \in [Call -> {"idle", "pruning", "counting", "spawning", "inserting",
                          "inspecting", "killing"}]
      /\ written \in [Process -> Bytes] /\ dropped \in [Process -> Bytes]
      /\ analyzed \in [Process -> Bytes] /\ inspected \in [Process -> SUBSET Bytes]
      /\ from \in [Call -> Bytes] /\ upto \in [Call -> Bytes]
      /\ about \in [Call -> Process \cup {NoProcess}]
      /\ repeated \in BOOLEAN /\ crossed \in BOOLEAN
      /\ \A c \in Call : job[c] = "inspecting" => about[c] \in Process
      /\ Bytes \subseteq Nat
  BY ConstantsAreNumbers DEF ProcessInv, ProcessTypeOK, AboutKnown, Bytes
<1>1. ASSUME UNCHANGED <<written, dropped, analyzed, inspected, repeated, crossed, from, upto>>,
             \A c \in Call : job'[c] = "inspecting" =>
                job[c] = "inspecting" /\ about'[c] = about[c]
      PROVE  DetectorInv'
  BY <1>1 DEF SnapshotsSound, OffsetIsLast, InspectedOnce
<1>2. CASE UNCHANGED processVars \/ \E p \in Process : Exit(p)
  BY <1>1, <1>2 DEF processVars, Exit, output, inspection, snapshot
<1>3. ASSUME NEW p \in Process, NEW n \in 1..MaxBytes, AppendBounded(p, n) PROVE DetectorInv'
  <2>1. /\ \A q \in Process : dropped[q] <= dropped'[q] /\ dropped'[q] \in Nat
        /\ \A q \in Process : written[q] <= written'[q] /\ written'[q] \in Nat
    <3>1. ProcessTypeOK' /\ \A q \in Process : dropped[q] <= dropped'[q]
      BY <1>3, AppendTypes
    <3>2. written' = [written EXCEPT ![p] = written[p] + n] /\ n \in Nat
      BY <1>3 DEF AppendBounded
    <3>3. \A q \in Process : dropped'[q] \in Nat
      BY <1>0, <3>1 DEF ProcessTypeOK
    <3>4. \A q \in Process : written[q] \in Nat
      BY <1>0
    <3>5. \A q \in Process : written'[q] = IF q = p THEN written[p] + n ELSE written[q]
      BY <1>0, <3>2
    <3> QED  BY <3>1, <3>2, <3>3, <3>4, <3>5
  <2>2. UNCHANGED <<analyzed, inspected, repeated, crossed, job, about, from, upto>>
    BY <1>3 DEF AppendBounded, inspection, snapshot
  <2>3. SnapshotsSound'
    <3> SUFFICES ASSUME NEW c \in Call, job[c] = "inspecting"
                 PROVE  from[c] <= dropped'[about[c]] /\ upto[c] <= written'[about[c]]
      BY <2>2 DEF SnapshotsSound
    <3>1. /\ about[c] \in Process /\ from[c] \in Nat /\ upto[c] \in Nat
          /\ dropped[about[c]] \in Nat /\ written[about[c]] \in Nat
          /\ from[c] <= dropped[about[c]] /\ upto[c] <= written[about[c]]
      BY <1>0 DEF SnapshotsSound
    <3> QED  BY <2>1, <3>1
  <2>4. OffsetIsLast'
    BY <2>2 DEF OffsetIsLast
  <2>5. InspectedOnce'
    <3> SUFFICES ASSUME NEW q \in Process, NEW b \in Bytes, b < analyzed[q], b \notin inspected[q]
                 PROVE  b < dropped'[q]
      BY <2>2 DEF InspectedOnce
    <3>1. b < dropped[q] /\ b \in Nat /\ dropped[q] \in Nat
      BY <1>0 DEF InspectedOnce
    <3> QED  BY <2>1, <3>1
  <2> QED  BY <2>3, <2>4, <2>5
<1>4. ASSUME NEW c \in Call, CallStep(c) PROVE DetectorInv'
  <2> USE DEF Do
  <2>1. CASE Collect(c) \/ RemoveExited(c) \/ CountRunning(c) \/ Launch(c) \/ Insert(c) \/ KillEnds(c)
             \/ \E p \in Process : Kill(c, p)
    BY <1>0, <1>1, <2>1 DEF Collect, RemoveExited, CountRunning, Launch, Insert, KillEnds, Kill,
       others, output, inspection, snapshot
  <2>2. ASSUME NEW p \in Process, Snapshot(c, p) PROVE DetectorInv'
    <3>1. /\ UNCHANGED <<written, dropped, analyzed, inspected, repeated, crossed>>
          /\ job' = [job EXCEPT ![c] = "inspecting"] /\ about' = [about EXCEPT ![c] = p]
          /\ from' = [from EXCEPT ![c] = dropped[p]] /\ upto' = [upto EXCEPT ![c] = written[p]]
      BY <2>2 DEF Snapshot, output, inspection
    <3>2. SnapshotsSound'
      <4>1. dropped[p] <= dropped[p] /\ written[p] <= written[p]
        <5>1. dropped[p] \in Nat /\ written[p] \in Nat
          BY <1>0
        <5> QED  BY <5>1
      <4>2. from'[c] <= dropped'[about'[c]] /\ upto'[c] <= written'[about'[c]]
        BY <1>0, <3>1, <4>1
      <4>3. \A d \in Call \ {c} :
              job'[d] = job[d] /\ about'[d] = about[d] /\ from'[d] = from[d] /\ upto'[d] = upto[d]
        BY <1>0, <3>1
      <4> QED  BY <3>1, <4>2, <4>3 DEF SnapshotsSound
    <3> QED  BY <3>1, <3>2 DEF OffsetIsLast, InspectedOnce
  <2>3. ASSUME Inspect(c) PROVE DetectorInv'
    <3> DEFINE p == about[c]
    <3>1. /\ p \in Process /\ job[c] = "inspecting" /\ job' = [job EXCEPT ![c] = "idle"]
          /\ UNCHANGED <<written, dropped>>
          /\ analyzed' = [analyzed EXCEPT ![p] = upto[c]]
          /\ inspected' = [inspected EXCEPT ![p] = @ \cup Unseen(c)]
          /\ repeated' = (repeated \/ inspected[p] \cap Unseen(c) # {})
          /\ crossed' = (crossed \/ upto[c] < analyzed[p])
          /\ about' = [about EXCEPT ![c] = NoProcess]
          /\ from' = [from EXCEPT ![c] = 0] /\ upto' = [upto EXCEPT ![c] = 0]
      BY <1>0, <2>3 DEF Inspect, OffsetAfter, output
    <3>2. from[c] \in Nat /\ upto[c] \in Nat /\ analyzed[p] \in Nat /\ dropped[p] \in Nat
          /\ from[c] <= dropped[p]
      BY <1>0, <3>1 DEF SnapshotsSound
    <3>3. /\ \A b \in Unseen(c) : b \in Nat /\ b < upto[c] /\ b >= analyzed[p]
          /\ \A b \in Nat : b >= from[c] /\ b < upto[c] /\ b >= analyzed[p] => b \in Unseen(c)
      BY <3>2 DEF Unseen
    <3> HIDE DEF p
    <3>4. SnapshotsSound'
      BY <1>0, <3>1 DEF SnapshotsSound
    <3>5. OffsetIsLast'
      <4> SUFFICES ASSUME ~crossed', NEW q \in Process, NEW b \in inspected'[q]
                   PROVE  b < analyzed'[q]
        BY DEF OffsetIsLast
      <4>1. ~crossed /\ analyzed[p] <= upto[c]
        <5>1. ~crossed /\ ~(upto[c] < analyzed[p])
          BY <3>1, Zenon
        <5> QED  BY <3>2, <5>1
      <4>2. CASE q # p
        BY <1>0, <3>1, <4>1, <4>2 DEF OffsetIsLast
      <4>3. CASE q = p /\ b \in Unseen(c)
        BY <1>0, <3>1, <3>3, <4>3
      <4>4. CASE q = p /\ b \in inspected[p]
        <5>1. b < analyzed[p] /\ b \in Nat
          BY <1>0, <3>1, <4>1, <4>4 DEF OffsetIsLast
        <5> QED  BY <1>0, <3>1, <3>2, <4>1, <4>4, <5>1
      <4> QED  BY <1>0, <3>1, <4>2, <4>3, <4>4
    <3>6. ASSUME NEW q \in Process, NEW b \in Bytes, b < analyzed'[q]
          PROVE  b \in inspected'[q] \/ b < dropped'[q]
      <4>1. CASE q # p
        BY <1>0, <3>1, <3>6, <4>1 DEF InspectedOnce
      <4>2. CASE q = p
        <5>1. b \in Nat /\ b < upto[c]
          BY <1>0, <3>1, <3>6, <4>2
        <5>2. CASE b < analyzed[p]
          BY <1>0, <3>1, <4>2, <5>2 DEF InspectedOnce
        <5>3. CASE b >= analyzed[p] /\ b >= from[c]
          BY <1>0, <3>1, <3>3, <4>2, <5>1, <5>3
        <5>4. CASE b < from[c]
          BY <3>1, <3>2, <4>2, <5>1, <5>4
        <5> QED  BY <3>2, <5>1, <5>2, <5>3, <5>4
      <4> QED  BY <4>1, <4>2
    <3>7. repeated' => crossed'
      <4> SUFFICES ASSUME repeated', ~crossed PROVE FALSE
        BY <3>1
      <4>1. PICK b \in inspected[p] : b \in Unseen(c)
        BY <3>1 DEF InspectedOnce
      <4>2. b < analyzed[p]
        BY <3>1, <4>1 DEF OffsetIsLast
      <4> QED  BY <3>2, <3>3, <4>1, <4>2
    <3>8. InspectedOnce'
      BY <3>6, <3>7 DEF InspectedOnce
    <3> QED  BY <3>4, <3>5, <3>8
  <2> QED  BY <1>4, <2>1, <2>2, <2>3 DEF CallStep
<1> QED  BY <1>2, <1>3, <1>4 DEF ProcessNext

\* Everything up to the offset was inspected or had left the buffer, and nothing
\* was inspected twice, unless snapshots of two calls crossed.
THEOREM DetectorSeesAll == ProcessSpec => []InspectedOnce
<1>1. ProcessInit => DetectorInv
  BY ConstantsAreNumbers DEF ProcessInit, DetectorInv, SnapshotsSound, OffsetIsLast, InspectedOnce, Bytes
<1>2. ProcessInv /\ DetectorInv /\ [ProcessNext]_processVars => DetectorInv'
  BY StepKeepsDetectorInv
<1>3. DetectorInv => InspectedOnce
  BY DEF DetectorInv
<1> QED  BY <1>1, <1>2, <1>3, InitProcessInv, StepKeepsProcessInv, PTL DEF ProcessSpec
=============================================================================
