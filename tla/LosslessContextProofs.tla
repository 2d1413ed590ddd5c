----------------------- MODULE LosslessContextProofs -----------------------
(***************************************************************************)
(* First: a turn loses a message only if it shared its time in flight      *)
(* with another task of its session, for any number of tasks and any       *)
(* limits.                                                                 *)
(*                                                                         *)
(* The argument: while a task is alone, the ordinal its handle has cached  *)
(* is above every ordinal of its conversation, so the unique index accepts *)
(* its next row.  It reads MAX(ordinal) + 1 when it opens the session and  *)
(* advances with each row it inserts; a rollback goes back to the ordinal  *)
(* of the newest row, and a reset moves to a conversation nobody has       *)
(* written to.                                                             *)
(*                                                                         *)
(* Second: when the session has one task in flight at a time (MaxActive =  *)
(* 1), for any limits, fanouts and crashes, the transcript is intact, the  *)
(* summaries are sound, and what a rebuild leaves is bounded.              *)
(*                                                                         *)
(* The argument, SInv: all rows are of the conversation the session is     *)
(* bound to, and the ids grow with the ordinals, from 0 without a hole.    *)
(* While a rebuild writes a summary, what it has listed and what it has    *)
(* still to write are together what is in no summary at that depth, the    *)
(* part to write first: so no row is summarised twice and none is left     *)
(* behind.  A turn's own message is in no summary until the turn cannot    *)
(* roll it back any more.  A reset deletes what refers before what is      *)
(* referred to.                                                            *)
(***************************************************************************)
EXTENDS LosslessContext, FiniteSetTheorems, TLAPS

\* The handle of t has read its ordinal.
HasOrdinal(t) == pc[t] \notin {"waiting", "bind", "open"}

Typing ==
  /\ messages \subseteq MessageRow
  /\ pc \in [Task -> PC] /\ conv \in [Task -> Nat] /\ next \in [Task -> Nat]
  /\ after \in [Task -> {"answering", "finished"}]
  /\ fresh \in Nat /\ binding \in Nat

\* The table is finite, so that a conversation that has rows has a MAX(ordinal),
\* and its unique index holds.
Rows ==
  /\ IsFiniteSet(messages)
  /\ \A m, n \in messages : m.conv = n.conv /\ m.ordinal = n.ordinal => m = n

\* Conversation ids come from the counter.
IdsUsed ==
  /\ Generated < fresh /\ binding < fresh
  /\ \A t \in Task : conv[t] < fresh
  /\ \A m \in messages : m.conv < fresh

\* A task that never shared its time in flight is alone in it.
Alone ==
  \A t \in Task : Active(t) /\ t \notin overlapped =>
    \A u \in Task \ {t} : ~Active(u)

Above(t) == \A m \in InConv(conv[t]) : m.ordinal < next[t]

Cached ==
  \A t \in Task : Active(t) /\ t \notin overlapped /\ HasOrdinal(t) => Above(t)

LInv == Typing /\ Rows /\ IdsUsed /\ Alone /\ Cached /\ LostOnlyByOverlap

-----------------------------------------------------------------------------
\* A finite set of rows has a row with the greatest ordinal: among the sets of
\* rows above a given row, one is minimal for inclusion, and it is empty.
LEMMA GreatestOrdinal ==
  ASSUME NEW S, IsFiniteSet(S), S # {}, \A r \in S : r.ordinal \in Nat
  PROVE  \E r \in S : \A q \in S : q.ordinal <= r.ordinal
<1> DEFINE Up(r) == {q \in S : q.ordinal > r.ordinal}
           Ups == {Up(r) : r \in S}
           R == StrictSubsetOrdering(S)
<1>1. IsWellFoundedOn(R, FiniteSubsetsOf(S))
  BY FS_StrictSubsetOrderingWellFounded
<1>2. Ups \subseteq FiniteSubsetsOf(S) /\ Ups # {}
  <2>1. \A T \in SUBSET S : T \in FiniteSubsetsOf(S)
    BY FS_Subset DEF FiniteSubsetsOf
  <2>2. \A r \in S : Up(r) \in SUBSET S
    OBVIOUS
  <2> QED BY <2>1, <2>2
<1>3. PICK U \in Ups : \A V \in Ups : ~(<<V, U>> \in R)
  BY <1>1, <1>2, WFMin
<1>4. PICK r \in S : U = Up(r)
  OBVIOUS
<1>5. ASSUME NEW q \in S, ~(q.ordinal <= r.ordinal)
      PROVE  FALSE
  <2>1. q.ordinal > r.ordinal
    BY <1>5
  <2>2. Up(q) \subseteq Up(r) /\ q \in Up(r) /\ q \notin Up(q)
    BY <2>1
  <2>3. <<Up(q), Up(r)>> \in R
    BY <2>2 DEF StrictSubsetOrdering
  <2> QED BY <1>3, <1>4, <2>3
<1> QED BY <1>5

\* next_ordinal_for_conversation is above every ordinal of the conversation.
LEMMA NextOrdinalAbove ==
  ASSUME messages \subseteq MessageRow, IsFiniteSet(messages), NEW c
  PROVE  /\ NextOrdinal(c) \in Nat
         /\ \A m \in InConv(c) : m.ordinal < NextOrdinal(c)
<1> DEFINE P(n) == \A m \in InConv(c) : m.ordinal < n
           C == {0} \cup {m.ordinal + 1 : m \in InConv(c)}
<1>1. \A m \in InConv(c) : m.ordinal \in Nat
  BY DEF InConv, MessageRow
<1>2. IsFiniteSet(InConv(c))
  BY FS_Subset DEF InConv
<1>3. \E n \in C : P(n)
  <2>1. CASE InConv(c) = {}
    BY <2>1
  <2>2. CASE InConv(c) # {}
    <3>1. PICK r \in InConv(c) : \A q \in InConv(c) : q.ordinal <= r.ordinal
      BY <1>1, <1>2, <2>2, GreatestOrdinal
    <3>2. P(r.ordinal + 1) /\ r.ordinal + 1 \in C
      BY <1>1, <3>1
    <3> QED BY <3>2
  <2> QED BY <2>1, <2>2
<1>4. NextOrdinal(c) = CHOOSE n \in C : P(n)
  BY DEF NextOrdinal
<1>5. NextOrdinal(c) \in C /\ P(NextOrdinal(c))
  BY <1>3, <1>4
<1>6. C \subseteq Nat
  BY <1>1
<1> QED BY <1>5, <1>6

-----------------------------------------------------------------------------
(* Most steps leave the handles and the transcript alone, or only delete   *)
(* rows.                                                                   *)

Quiet(t) ==
  /\ messages' \subseteq messages
  /\ UNCHANGED <<conv, next, lost, overlapped>>
  /\ fresh' \in Nat /\ fresh <= fresh'
  /\ binding' \in {binding, conv[t]}
  /\ Active(t) /\ (HasOrdinal(t)' => HasOrdinal(t))
  /\ after' \in [Task -> {"answering", "finished"}]
  /\ pc' \in [Task -> PC] /\ \A u \in Task \ {t} : pc'[u] = pc[u]

LEMMA QuietStep ==
  ASSUME LInv, NEW t \in Task, Quiet(t)
  PROVE  LInv'
<1> USE DEF Quiet
<1>1. Typing'
  BY DEF LInv, Typing
<1>2. Rows'
  BY FS_Subset DEF LInv, Rows
<1>3. IdsUsed'
  BY DEF LInv, Typing, IdsUsed, Generated, MessageRow
<1>4. Alone'
  BY DEF LInv, Alone, Active
<1>5. Cached'
  <2> SUFFICES ASSUME NEW u \in Task, Active(u)', u \notin overlapped', HasOrdinal(u)'
               PROVE  Above(u)'
    BY DEF Cached
  <2>1. Active(u) /\ HasOrdinal(u) /\ u \notin overlapped
    BY DEF Active, HasOrdinal
  <2>2. Above(u)
    BY <2>1 DEF LInv, Cached
  <2> QED BY <2>2 DEF Above, InConv
<1>6. LostOnlyByOverlap'
  BY DEF LInv, LostOnlyByOverlap
<1> QED BY <1>1, <1>2, <1>3, <1>4, <1>5, <1>6 DEF LInv

-----------------------------------------------------------------------------
(* Recording a row.                                                        *)

\* A task that records goes on, or ends, with its handle advanced.
Recording(t, role) ==
  /\ Active(t) /\ HasOrdinal(t)
  /\ Record(t, role)
  /\ after' \in [Task -> {"answering", "finished"}]
  /\ pc' \in [Task -> PC] /\ \A u \in Task \ {t} : pc'[u] = pc[u]

\* The row is added, or the task was not alone and the turn is lost.
LEMMA RecordStep ==
  ASSUME LInv, NEW t \in Task, NEW role \in {"system", "user", "assistant"},
         Recording(t, role)
  PROVE  LInv'
<1> USE DEF Recording
<1>0. /\ t \in Task /\ next[t] \in Nat /\ conv[t] \in Nat
      /\ conv' = conv /\ binding' = binding /\ overlapped' = overlapped
  BY DEF LInv, Typing, Record
<1>1. CASE Inserted(t, role)
  <2> DEFINE row == [id |-> fresh, conv |-> conv[t], ordinal |-> next[t],
                     role |-> role, turn |-> t]
  <2>1. /\ messages' = messages \cup {row} /\ fresh' = fresh + 1
        /\ next' = [next EXCEPT ![t] = @ + 1] /\ lost' = lost
    BY <1>1 DEF Inserted
  <2>2. row \in MessageRow
    BY <1>0 DEF LInv, Typing, MessageRow
  <2>3. Typing'
    BY <1>0, <2>1, <2>2 DEF LInv, Typing
  <2>4. Rows'
    <3>1. IsFiniteSet(messages')
      BY <2>1, FS_AddElement DEF LInv, Rows
    <3>2. \A m \in messages : ~(m.conv = conv[t] /\ m.ordinal = next[t])
      BY <1>1 DEF Inserted, Taken
    <3>3. row.conv = conv[t] /\ row.ordinal = next[t]
      OBVIOUS
    <3> HIDE DEF row
    <3> QED BY <2>1, <3>1, <3>2, <3>3 DEF LInv, Rows
  <2>5. IdsUsed'
    BY <1>0, <2>1 DEF LInv, Typing, IdsUsed, Generated, MessageRow
  <2>6. Alone'
    BY <1>0 DEF LInv, Alone, Active
  <2>7. Cached'
    <3> SUFFICES ASSUME NEW u \in Task, Active(u)', u \notin overlapped', HasOrdinal(u)'
                 PROVE  Above(u)'
      BY DEF Cached
    <3>1. u \notin overlapped /\ Active(t)
      BY <1>0
    <3>2. u = t
      BY <3>1 DEF LInv, Alone, Active
    <3>3. Above(t)
      BY <3>1, <3>2 DEF LInv, Cached
    <3>4. next'[t] = next[t] + 1
      BY <2>1 DEF LInv, Typing
    <3>5. \A m \in messages' : m.conv = conv[t] => m.ordinal < next'[t]
      <4> TAKE m \in messages'
      <4>1. CASE m = row
        BY <4>1, <1>0, <3>4
      <4>2. CASE m \in messages
        BY <4>2, <1>0, <3>3, <3>4 DEF Above, InConv, LInv, Typing, MessageRow
      <4> QED BY <4>1, <4>2, <2>1
    <3> QED BY <3>2, <3>5, <1>0 DEF Above, InConv
  <2>8. LostOnlyByOverlap'
    BY <1>0, <2>1 DEF LInv, LostOnlyByOverlap
  <2> QED BY <2>3, <2>4, <2>5, <2>6, <2>7, <2>8 DEF LInv
<1>2. CASE Refused(t)
  <2>1. /\ messages' = messages /\ fresh' = fresh /\ next' = next
        /\ lost' = lost \cup ({t} \cap Turns) /\ Taken(conv[t], next[t])
    BY <1>2 DEF Refused
  <2>2. ~Above(t)
    BY <2>1, <1>0 DEF Above, Taken, InConv, LInv, Typing, MessageRow
  <2>3. t \in overlapped
    BY <2>2 DEF LInv, Cached
  <2>4. Typing'
    BY <1>0, <2>1 DEF LInv, Typing
  <2>5. Rows'
    BY <2>1 DEF LInv, Rows
  <2>6. IdsUsed'
    BY <1>0, <2>1 DEF LInv, IdsUsed
  <2>7. Alone'
    BY <1>0 DEF LInv, Alone, Active
  <2>8. Cached'
    <3> SUFFICES ASSUME NEW u \in Task, Active(u)', u \notin overlapped', HasOrdinal(u)'
                 PROVE  Above(u)'
      BY DEF Cached
    <3>1. u # t /\ pc'[u] = pc[u]
      BY <2>3, <1>0
    <3>2. Above(u)
      BY <3>1, <1>0 DEF LInv, Cached, Active, HasOrdinal
    <3> QED BY <3>2, <2>1, <1>0 DEF Above, InConv
  <2>9. LostOnlyByOverlap'
    BY <2>1, <2>3, <1>0 DEF LInv, LostOnlyByOverlap
  <2> QED BY <2>4, <2>5, <2>6, <2>7, <2>8, <2>9 DEF LInv
<1> QED BY <1>1, <1>2 DEF Record
-----------------------------------------------------------------------------
(* The other steps that move a handle.                                     *)

LEMMA StartStep ==
  ASSUME LInv, NEW t \in Task, Start(t)
  PROVE  LInv'
<1> USE DEF Start, Goto
<1>0. /\ pc[t] = "waiting" /\ UNCHANGED <<messages, fresh, binding, next, lost, after>>
      /\ \E c \in {binding, Generated} : conv' = [conv EXCEPT ![t] = c]
      /\ \E l \in {"open", "bind"} : pc' = [pc EXCEPT ![t] = l]
  BY DEF tables, rebuild
<1>1. Typing'
  BY <1>0 DEF LInv, Typing, PC, Generated
<1>2. Rows'
  BY <1>0 DEF LInv, Rows
<1>3. IdsUsed'
  BY <1>0 DEF LInv, Typing, IdsUsed
<1>4. pc[t] = "waiting" /\ \A u \in Task \ {t} : pc'[u] = pc[u] /\ conv'[u] = conv[u]
  BY <1>0 DEF LInv, Typing
<1>5. \A u \in Task : Active(u) => u \in overlapped'
  BY <1>0 DEF InFlight
<1>6. InFlight # {} => t \in overlapped'
  OBVIOUS
<1>7. Alone'
  <2> SUFFICES ASSUME NEW u \in Task, Active(u)', u \notin overlapped',
                      NEW v \in Task \ {u}, Active(v)'
               PROVE  FALSE
    BY DEF Alone
  <2>1. CASE u = t
    BY <2>1, <1>4, <1>6 DEF InFlight, Active
  <2>2. CASE u # t
    BY <2>2, <1>4, <1>5 DEF Active
  <2> QED BY <2>1, <2>2
<1>8. ~HasOrdinal(t)'
  BY <1>0 DEF HasOrdinal, LInv, Typing
<1>9. Cached'
  <2> SUFFICES ASSUME NEW u \in Task, Active(u)', u \notin overlapped', HasOrdinal(u)'
               PROVE  FALSE
    BY DEF Cached
  <2> QED BY <1>4, <1>5, <1>8 DEF Active
<1>10. LostOnlyByOverlap'
  BY <1>0 DEF LInv, LostOnlyByOverlap
<1> QED BY <1>1, <1>2, <1>3, <1>7, <1>9, <1>10 DEF LInv

LEMMA ReadOrdinalStep ==
  ASSUME LInv, NEW t \in Task, ReadOrdinal(t)
  PROVE  LInv'
<1> USE DEF ReadOrdinal, Goto
<1>0. /\ pc[t] = "open" /\ UNCHANGED <<messages, fresh, binding, conv, lost, overlapped, after>>
      /\ next' = [next EXCEPT ![t] = NextOrdinal(conv[t])]
      /\ \E l \in {"system", "opened"} : pc' = [pc EXCEPT ![t] = l]
  BY DEF aux, rebuild
<1>1. /\ NextOrdinal(conv[t]) \in Nat
      /\ \A m \in InConv(conv[t]) : m.ordinal < NextOrdinal(conv[t])
  BY NextOrdinalAbove DEF LInv, Typing, Rows
<1>2. Typing'
  BY <1>0, <1>1 DEF LInv, Typing, PC
<1>3. Rows' /\ IdsUsed' /\ LostOnlyByOverlap'
  BY <1>0 DEF LInv, Rows, IdsUsed, LostOnlyByOverlap
<1>4. Active(t) /\ \A u \in Task \ {t} : pc'[u] = pc[u] /\ next'[u] = next[u]
  BY <1>0 DEF Active, LInv, Typing
<1>5. Alone'
  BY <1>0, <1>4 DEF LInv, Alone, Active
<1>6. Cached'
  <2> SUFFICES ASSUME NEW u \in Task, Active(u)', u \notin overlapped', HasOrdinal(u)'
               PROVE  Above(u)'
    BY DEF Cached
  <2>1. CASE u = t
    <3>1. next'[t] = NextOrdinal(conv[t])
      BY <1>0 DEF LInv, Typing
    <3> QED BY <2>1, <3>1, <1>0, <1>1 DEF Above, InConv
  <2>2. CASE u # t
    <3>1. Above(u)
      BY <2>2, <1>0, <1>4 DEF LInv, Cached, Active, HasOrdinal
    <3> QED BY <3>1, <2>2, <1>0, <1>4 DEF Above, InConv
  <2> QED BY <2>1, <2>2
<1> QED BY <1>2, <1>3, <1>5, <1>6 DEF LInv

\* The row a rollback deletes was the newest, so its ordinal is above the rest.
LEMMA RollbackStep ==
  ASSUME LInv, NEW t \in Task, Rollback(t)
  PROVE  LInv'
<1> USE DEF Rollback, Goto
<1>0. /\ pc[t] = "recording" /\ UNCHANGED <<fresh, binding, conv, lost, overlapped, after>>
      /\ pc' = [pc EXCEPT ![t] = "note"]
  BY DEF aux, rebuild
<1>1. /\ Active(t) /\ HasOrdinal(t) /\ Active(t)' /\ HasOrdinal(t)'
      /\ \A u \in Task \ {t} : pc'[u] = pc[u]
      /\ pc' \in [Task -> PC]
  BY <1>0 DEF Active, HasOrdinal, LInv, Typing, PC
<1>2. CASE UNCHANGED <<messages, next>>
  <2>1. Quiet(t)
    BY <1>0, <1>1, <1>2 DEF Quiet, LInv, Typing
  <2> QED BY <2>1, QuietStep
<1>3. CASE \E m \in InConv(conv[t]) :
             /\ Newest(m)
             /\ messages' = messages \ {m}
             /\ next' = [next EXCEPT ![t] = RolledBackTo(m)]
  <2>1. PICK m \in InConv(conv[t]) :
             /\ Newest(m)
             /\ messages' = messages \ {m}
             /\ next' = [next EXCEPT ![t] = RolledBackTo(m)]
    BY <1>3
  <2>2. m \in messages /\ m.conv = conv[t] /\ m.ordinal \in Nat
    BY DEF InConv, LInv, Typing, MessageRow
  <2>3. next'[t] = m.ordinal /\ \A u \in Task \ {t} : next'[u] = next[u]
    BY <2>1 DEF RolledBackTo, LInv, Typing
  <2>4. Typing'
    BY <1>0, <1>1, <2>1, <2>2 DEF LInv, Typing, RolledBackTo
  <2>5. Rows'
    BY <2>1, FS_RemoveElement DEF LInv, Rows
  <2>6. IdsUsed' /\ LostOnlyByOverlap'
    BY <1>0, <2>1 DEF LInv, IdsUsed, LostOnlyByOverlap
  <2>7. Alone'
    BY <1>0, <1>1 DEF LInv, Alone, Active
  <2>8. Cached'
    <3> SUFFICES ASSUME NEW u \in Task, Active(u)', u \notin overlapped', HasOrdinal(u)'
                 PROVE  Above(u)'
      BY DEF Cached
    <3>1. CASE u = t
      <4> SUFFICES ASSUME NEW n \in messages', n.conv = conv[t]
                   PROVE  n.ordinal < m.ordinal
        BY <1>0, <2>3, <3>1 DEF Above, InConv
      <4>1. n \in messages /\ n # m /\ n.ordinal \in Nat
        BY <2>1 DEF LInv, Typing, MessageRow
      <4>2. n.ordinal <= m.ordinal
        BY <2>1, <2>2, <4>1 DEF Newest, InConv
      <4>3. n.ordinal # m.ordinal
        BY <2>2, <4>1 DEF LInv, Rows
      <4> QED BY <2>2, <4>1, <4>2, <4>3
    <3>2. CASE u # t
      <4>1. Above(u)
        BY <3>2, <1>0, <1>1 DEF LInv, Cached, Active, HasOrdinal
      <4> QED BY <4>1, <3>2, <1>0, <2>1, <2>3 DEF Above, InConv
    <3> QED BY <3>1, <3>2
  <2> QED BY <2>4, <2>5, <2>6, <2>7, <2>8 DEF LInv
<1> QED BY <1>2, <1>3

\* A reset moves to an id nobody has recorded under.
LEMMA CreateStep ==
  ASSUME LInv, NEW t \in Task, CreateConversation(t)
  PROVE  LInv'
<1> USE DEF CreateConversation, Goto
<1>0. /\ pc[t] = "create" /\ UNCHANGED <<messages, binding, lost, overlapped, after>>
      /\ fresh' = fresh + 1 /\ conv' = [conv EXCEPT ![t] = fresh]
      /\ next' = [next EXCEPT ![t] = 0] /\ pc' = [pc EXCEPT ![t] = "rebind"]
  BY DEF aux, rebuild
<1>1. Typing'
  BY <1>0 DEF LInv, Typing, PC
<1>2. Rows' /\ LostOnlyByOverlap'
  BY <1>0 DEF LInv, Rows, LostOnlyByOverlap
<1>3. IdsUsed'
  BY <1>0 DEF LInv, Typing, IdsUsed, Generated, MessageRow
<1>4. /\ Active(t) /\ conv'[t] = fresh
      /\ \A u \in Task \ {t} : pc'[u] = pc[u] /\ next'[u] = next[u] /\ conv'[u] = conv[u]
  BY <1>0 DEF Active, LInv, Typing
<1>5. Alone'
  BY <1>0, <1>4 DEF LInv, Alone, Active
<1>6. Cached'
  <2> SUFFICES ASSUME NEW u \in Task, Active(u)', u \notin overlapped', HasOrdinal(u)'
               PROVE  Above(u)'
    BY DEF Cached
  <2>1. CASE u = t
    <3>1. \A m \in messages : m.conv # fresh
      BY DEF LInv, IdsUsed, Typing, MessageRow
    <3> QED BY <2>1, <3>1, <1>0, <1>4 DEF Above, InConv
  <2>2. CASE u # t
    <3>1. Above(u)
      BY <2>2, <1>0, <1>4 DEF LInv, Cached, Active, HasOrdinal
    <3> QED BY <3>1, <2>2, <1>0, <1>4 DEF Above, InConv
  <2> QED BY <2>1, <2>2
<1> QED BY <1>1, <1>2, <1>3, <1>5, <1>6 DEF LInv

LEMMA CrashStep ==
  ASSUME LInv, Crash
  PROVE  LInv'
<1>0. /\ UNCHANGED <<messages, fresh, binding, conv, next, lost, overlapped, after>>
      /\ pc' = [t \in Task |-> IF Active(t) THEN "gone" ELSE pc[t]]
  BY DEF Crash, tables, handle, rebuild
<1>1. \A t \in Task : ~Active(t)'
  BY <1>0 DEF Active, LInv, Typing
<1>2. Typing'
  BY <1>0 DEF LInv, Typing, PC
<1>3. Rows' /\ IdsUsed' /\ LostOnlyByOverlap'
  BY <1>0 DEF LInv, Rows, IdsUsed, LostOnlyByOverlap
<1> QED BY <1>1, <1>2, <1>3 DEF LInv, Alone, Cached
\* Summarising does not touch the transcript.
LEMMA ListRootsQuiet ==
  ASSUME LInv, NEW t \in Task, ListRoots(t)
  PROVE  Quiet(t)
<1>1. /\ pc[t] = "roots" /\ UNCHANGED <<tables, handle, after, aux>>
      /\ \E l \in {after[t], "chunk"} : pc' = [pc EXCEPT ![t] = l]
  BY DEF ListRoots, Goto
<1>2. after[t] \in PC /\ after[t] \notin {"waiting", "bind", "open"}
  BY DEF LInv, Typing, PC
<1> QED BY <1>1, <1>2 DEF Quiet, Active, HasOrdinal, LInv, Typing, PC, tables, handle, aux

LEMMA InsertSummaryQuiet ==
  ASSUME LInv, NEW t \in Task, InsertSummary(t)
  PROVE  Quiet(t)
<1>1. /\ pc[t] = "chunk" /\ UNCHANGED <<binding, messages, handle, after, aux>>
      /\ \/ pc' = pc /\ fresh' = fresh
         \/ pc' = [pc EXCEPT ![t] = "sources"] /\ fresh' = fresh + 1
  BY DEF InsertSummary, Goto
<1> QED BY <1>1 DEF Quiet, Active, HasOrdinal, LInv, Typing, PC, handle, aux

-----------------------------------------------------------------------------

LEMMA InitLInv == Init => LInv
  BY FS_EmptySet DEF Init, LInv, Typing, Rows, IdsUsed, Alone, Cached,
     LostOnlyByOverlap, Active, PC, NoConv, Generated

\* Every step of the store preserves the invariant.
LEMMA NextLInv == LInv /\ [Next]_vars => LInv'
<1> SUFFICES ASSUME LInv, [Next]_vars
             PROVE  LInv'
  OBVIOUS
<1>1. CASE UNCHANGED vars
  BY <1>1 DEF vars, tables, handle, aux, rebuild, LInv, Typing, Rows, IdsUsed, Alone, Cached,
     Above, InConv, HasOrdinal, LostOnlyByOverlap, Active
<1>2. CASE Crash
  BY <1>2, CrashStep
<1>3. ASSUME NEW t \in Task, Opening(t)
      PROVE  LInv'
  <2>1. CASE Start(t)
    BY <2>1, StartStep
  <2>2. CASE BindSession(t)
    <3>1. Quiet(t)
      BY <2>2 DEF BindSession, Goto, Quiet, Active, HasOrdinal, LInv, Typing, PC,
         handle, aux, rebuild
    <3> QED BY <3>1, QuietStep
  <2>3. CASE ReadOrdinal(t)
    BY <2>3, ReadOrdinalStep
  <2>4. CASE RecordSystem(t)
    <3>1. Recording(t, "system")
      BY <2>4 DEF RecordSystem, rebuild, Goto, Recording, Active, HasOrdinal, LInv, Typing, PC
    <3> QED BY <3>1, RecordStep
  <2> QED BY <1>3, <2>1, <2>2, <2>3, <2>4 DEF Opening
<1>4. ASSUME NEW t \in Task, Turning(t)
      PROVE  LInv'
  <2>1. CASE RecordUser(t)
    <3>1. Recording(t, "user")
      BY <2>1 DEF RecordUser, Goto, Recording, Active, HasOrdinal, LInv, Typing, PC
    <3> QED BY <3>1, RecordStep
  <2>2. CASE RecordUserAndReply(t)
    <3>1. Recording(t, "user")
      BY <2>2 DEF RecordUserAndReply, rebuild, Goto, Recording, Active, HasOrdinal, LInv, Typing, PC
    <3> QED BY <3>1, RecordStep
  <2>3. CASE Resume(t)
    <3>1. Quiet(t)
      BY <2>3 DEF Resume, Goto, Quiet, Active, HasOrdinal, LInv, Typing, PC,
         tables, handle, aux, rebuild
    <3> QED BY <3>1, QuietStep
  <2>4. CASE Answer(t)
    <3>1. Quiet(t)
      BY <2>4 DEF Answer, Goto, Quiet, Active, HasOrdinal, LInv, Typing, PC,
         tables, handle, aux, rebuild
    <3> QED BY <3>1, QuietStep
  <2>5. CASE RecordReply(t)
    <3>1. Recording(t, "assistant")
      BY <2>5 DEF RecordReply, rebuild, Goto, Recording, Active, HasOrdinal, LInv, Typing, PC
    <3> QED BY <3>1, RecordStep
  <2>6. CASE Conclude(t)
    <3>1. Quiet(t)
      BY <2>6 DEF Conclude, Goto, Quiet, Active, HasOrdinal, LInv, Typing, PC,
         tables, handle, aux, rebuild
    <3> QED BY <3>1, QuietStep
  <2>7. CASE Rollback(t)
    BY <2>7, RollbackStep
  <2>8. CASE RecordNote(t)
    <3>1. CASE Record(t, "assistant")
      <4>1. Recording(t, "assistant")
        BY <2>8, <3>1 DEF RecordNote, Goto, Recording, Active, HasOrdinal, LInv, Typing, PC
      <4> QED BY <4>1, RecordStep
    <3>2. CASE UNCHANGED <<tables, handle, aux>>
      <4>1. Quiet(t)
        BY <2>8, <3>2 DEF RecordNote, Goto, Quiet, Active, HasOrdinal, LInv, Typing, PC,
           tables, handle, aux, rebuild
      <4> QED BY <4>1, QuietStep
    <3> QED BY <2>8, <3>1, <3>2 DEF RecordNote
  <2> QED BY <1>4, <2>1, <2>2, <2>3, <2>4, <2>5, <2>6, <2>7, <2>8 DEF Turning
<1>5. ASSUME NEW t \in Task, Rebuilding(t)
      PROVE  LInv'
  <2>1. CASE ListMessages(t)
    <3>1. Quiet(t)
      BY <2>1 DEF ListMessages, Goto, Quiet, Active, HasOrdinal, LInv, Typing, PC,
         tables, handle, aux, rebuild
    <3> QED BY <3>1, QuietStep
  <2>2. CASE LeaveChunk(t)
    <3>1. Quiet(t)
      BY <2>2 DEF LeaveChunk, Goto, Quiet, Active, HasOrdinal, LInv, Typing, PC,
         tables, handle, aux, rebuild
    <3> QED BY <3>1, QuietStep
  <2>3. CASE ListRoots(t)
    BY <2>3, ListRootsQuiet, QuietStep
  <2>4. CASE InsertSummary(t)
    BY <2>4, InsertSummaryQuiet, QuietStep
  <2>5. CASE InsertSource(t)
    <3>1. Quiet(t)
      BY <2>5 DEF InsertSource, Goto, Quiet, Active, HasOrdinal, LInv, Typing, PC,
         handle, aux, rebuild
    <3> QED BY <3>1, QuietStep
  <2> QED BY <1>5, <2>1, <2>2, <2>3, <2>4, <2>5 DEF Rebuilding
<1>6. ASSUME NEW t \in Task, Resetting(t)
      PROVE  LInv'
  <2>1. CASE BeginReset(t)
    <3>1. Quiet(t)
      BY <2>1 DEF BeginReset, Goto, Quiet, Active, HasOrdinal, LInv, Typing, PC,
         tables, handle, aux, rebuild
    <3> QED BY <3>1, QuietStep
  <2>2. CASE WipeSources(t)
    <3>1. Quiet(t)
      BY <2>2 DEF WipeSources, Goto, Quiet, Active, HasOrdinal, LInv, Typing, PC,
         handle, aux, rebuild
    <3> QED BY <3>1, QuietStep
  <2>3. CASE WipeSummaries(t)
    <3>1. Quiet(t)
      BY <2>3 DEF WipeSummaries, Goto, Quiet, Active, HasOrdinal, LInv, Typing, PC,
         handle, aux, rebuild
    <3> QED BY <3>1, QuietStep
  <2>4. CASE WipeMessages(t)
    <3>1. Quiet(t)
      BY <2>4 DEF WipeMessages, Goto, Quiet, Active, HasOrdinal, LInv, Typing, PC,
         handle, aux, rebuild
    <3> QED BY <3>1, QuietStep
  <2>5. CASE WipeConversation(t)
    <3>1. Quiet(t)
      BY <2>5 DEF WipeConversation, Goto, Quiet, Active, HasOrdinal, LInv, Typing, PC,
         handle, aux, rebuild
    <3> QED BY <3>1, QuietStep
  <2>6. CASE CreateConversation(t)
    BY <2>6, CreateStep
  <2>7. CASE Rebind(t)
    <3>1. Quiet(t)
      BY <2>7 DEF Rebind, Goto, Quiet, Active, HasOrdinal, LInv, Typing, PC,
         handle, aux, rebuild
    <3> QED BY <3>1, QuietStep
  <2>8. CASE RecordSystemAgain(t)
    <3>1. Recording(t, "system")
      BY <2>8 DEF RecordSystemAgain, rebuild, Goto, Recording, Active, HasOrdinal, LInv, Typing, PC
    <3> QED BY <3>1, RecordStep
  <2> QED BY <1>6, <2>1, <2>2, <2>3, <2>4, <2>5, <2>6, <2>7, <2>8 DEF Resetting
<1> QED BY <1>1, <1>2, <1>3, <1>4, <1>5, <1>6 DEF Next, Ended

\* Every reachable state satisfies the invariant.
THEOREM Invariance == Spec => []LInv
  BY InitLInv, NextLInv, PTL DEF Spec

\* A turn whose message is not recorded shared its time in flight with another
\* task of the session.  (record_raw_message)
THEOREM LossNeedsOverlap == Spec => []LostOnlyByOverlap
<1>1. LInv => LostOnlyByOverlap
  BY DEF LInv
<1> QED BY <1>1, Invariance, PTL

-----------------------------------------------------------------------------
(* The session has one task in flight at a time.                           *)

\* The tables, when one task at a time uses them: all rows are of the conversation
\* that the session is bound to, ids are unique, and nothing dangles.
OfTheSession ==
  /\ \A r \in messages \cup summaries : r.conv = binding
  /\ binding = NoConv => messages = {} /\ summaries = {}

Identified ==
  /\ \A r \in messages \cup summaries : r.id < fresh
  /\ \A m, n \in messages : m.id = n.id => m = n
  /\ \A s, u \in summaries : s.id = u.id => s = u
  /\ \A m \in messages, s \in summaries : m.id # s.id

Spoken ==
  \A m \in messages :
    /\ \A k \in 0..m.ordinal : Taken(m.conv, k)
    /\ \A n \in messages : n.id < m.id => n.ordinal < m.ordinal
    /\ m.ordinal = 0 => m.role = "system"

StoreOK ==
  /\ IsFiniteSet(summaries) /\ IsFiniteSet(sources)
  /\ OfTheSession /\ Identified /\ Spoken /\ NothingDangles /\ SummarisedInOrder

\* The handle of a task: on the conversation of the session, at the ordinal after
\* its last message.
AtHome(t) ==
  /\ conv[t] # NoConv
  /\ pc[t] \notin {"bind", "rebind"} => conv[t] = binding
  /\ pc[t] = "bind" => binding = NoConv
  /\ pc[t] \notin {"bind", "open", "create"} => conv[t] \in convs
  /\ HasOrdinal(t) /\ pc[t] \notin {"wipeConv", "create"} =>
       \A k \in 0..(next[t] - 1) : Taken(conv[t], k)
  /\ pc[t] \in {"opened", "list", "roots", "chunk", "sources", "answering", "recording", "note"}
       => next[t] > 0

\* What a reset has deleted so far.
Wiped(t) ==
  /\ pc[t] \in {"wipeSources", "wipeSummaries", "wipeMessages", "wipeConv", "create", "rebind",
                "resetSystem"} => t \in Resets
  /\ pc[t] \in {"wipeSummaries", "wipeMessages", "wipeConv", "create", "rebind", "resetSystem"}
       => sources = {}
  /\ pc[t] \in {"wipeMessages", "wipeConv", "create", "rebind", "resetSystem"} => summaries = {}
  /\ pc[t] \in {"wipeConv", "create", "rebind", "resetSystem"} => messages = {}

\* A turn's own message, which it may still roll back, is in no summary: while it
\* rebuilds the history for the model, that message is the newest.
OwnUncovered(t) ==
  after[t] = "answering" /\ pc[t] \in {"list", "roots", "chunk", "sources", "answering", "recording"} =>
    \A m \in messages : m.turn = t /\ m.role = "user" =>
      /\ ~Covered(m)
      /\ pc[t] \in {"list", "roots", "chunk", "sources"} => \A n \in messages : n.ordinal <= m.ordinal

\* What a rebuild has still to summarise at the depth it is at.
Pending(t) ==
  IF depth[t] = 0 THEN Uncovered(conv[t]) ELSE RootsAt(conv[t], depth[t] - 1)

\* The rows it has listed are these, the ones in the summary it is writing come
\* first, and that summary has as many sources as are not to be written any more.
Rebuilt(t) ==
  /\ pc[t] = "chunk" => listed[t] = Pending(t)
  /\ pc[t] = "sources" =>
       /\ writing[t] # {} /\ listed[t] \cap writing[t] = {}
       /\ listed[t] \cup writing[t] = Pending(t)
       /\ \A a \in writing[t], b \in listed[t] : a.ordinal <= b.ordinal
       /\ \E s \in summaries : s.id = node[t] /\ s.depth = depth[t]
       /\ Cardinality({e \in sources : e.summary = node[t]}) + Cardinality(writing[t])
            = Fanout(depth[t])
  /\ pc[t] = "roots" => depth[t] > 0
  /\ pc[t] \in {"roots", "answering"} \/ (pc[t] \in {"chunk", "sources"} /\ depth[t] > 0)
       => Cardinality(Uncovered(conv[t])) < LeafFanout

Quietly(t) == pc[t] \in {"waiting", "bind", "open", "system", "opened"} =>
  \A m \in messages : ~(m.turn = t /\ m.role = "user")

TaskOK(t) ==
  Active(t) => AtHome(t) /\ Wiped(t) /\ OwnUncovered(t) /\ Rebuilt(t)

\* The depth a rebuild is at, and the one below, may have more roots than are left
\* when it is over; and so may any while a reset deletes.
AtWork(t, d) ==
  \/ pc[t] \in {"chunk", "sources"} /\ d \in {depth[t] - 1, depth[t]}
  \/ pc[t] = "roots" /\ d = depth[t] - 1
  \/ pc[t] = "wipeSummaries"

FewRoots ==
  crashes = 0 => \A s \in summaries :
    Cardinality(RootsAt(binding, s.depth)) < CondensedFanout \/ \E t \in Task : AtWork(t, s.depth)

SInv ==
  /\ LInv /\ TypeOK /\ overlapped = {}
  /\ StoreOK /\ FewRoots /\ SourcesComplete
  /\ \A t \in Task : Quietly(t) /\ TaskOK(t)

-----------------------------------------------------------------------------
(* Rows in the order of their ordinals.                                    *)

LEMMA LeastOrdinal ==
  ASSUME NEW S, IsFiniteSet(S), S # {}, \A r \in S : r.ordinal \in Nat
  PROVE  \E r \in S : \A q \in S : r.ordinal <= q.ordinal
<1> DEFINE Down(r) == {q \in S : q.ordinal < r.ordinal}
           Downs == {Down(r) : r \in S}
           R == StrictSubsetOrdering(S)
<1>1. IsWellFoundedOn(R, FiniteSubsetsOf(S))
  BY FS_StrictSubsetOrderingWellFounded
<1>2. Downs \subseteq FiniteSubsetsOf(S) /\ Downs # {}
  <2>1. \A T \in SUBSET S : T \in FiniteSubsetsOf(S)
    BY FS_Subset DEF FiniteSubsetsOf
  <2>2. \A r \in S : Down(r) \in SUBSET S
    OBVIOUS
  <2> QED BY <2>1, <2>2
<1>3. PICK U \in Downs : \A V \in Downs : ~(<<V, U>> \in R)
  BY <1>1, <1>2, WFMin
<1>4. PICK r \in S : U = Down(r)
  OBVIOUS
<1>5. ASSUME NEW q \in S, ~(r.ordinal <= q.ordinal)
      PROVE  FALSE
  <2>1. q.ordinal < r.ordinal
    BY <1>5
  <2>2. Down(q) \subseteq Down(r) /\ q \in Down(r) /\ q \notin Down(q)
    BY <2>1
  <2>3. <<Down(q), Down(r)>> \in R
    BY <2>2 DEF StrictSubsetOrdering
  <2> QED BY <1>3, <1>4, <2>3
<1> QED BY <1>5

LEMMA OldestIs ==
  ASSUME NEW S, IsFiniteSet(S), S # {}, \A r \in S : r.ordinal \in Nat
  PROVE  Oldest(S) \in S /\ \A q \in S : Oldest(S).ordinal <= q.ordinal
BY LeastOrdinal DEF Oldest

\* A chunk: n rows, none after one that is left.  Of the sets of at least n rows
\* that have this property, a minimal one has no more.
LEMMA FirstIs ==
  ASSUME NEW S, IsFiniteSet(S), \A r \in S : r.ordinal \in Nat,
         NEW n \in Nat, n <= Cardinality(S)
  PROVE  /\ First(S, n) \subseteq S /\ Cardinality(First(S, n)) = n
         /\ \A a \in First(S, n), b \in S \ First(S, n) : a.ordinal <= b.ordinal
<1> DEFINE Lower(T) == \A a \in T, b \in S \ T : a.ordinal <= b.ordinal
           C == {T \in SUBSET S : Cardinality(T) >= n /\ Lower(T)}
           R == StrictSubsetOrdering(S)
<1>1. IsWellFoundedOn(R, FiniteSubsetsOf(S))
  BY FS_StrictSubsetOrderingWellFounded
<1>2. C \subseteq FiniteSubsetsOf(S) /\ S \in C
  <2>1. \A T \in SUBSET S : T \in FiniteSubsetsOf(S)
    BY FS_Subset DEF FiniteSubsetsOf
  <2> QED BY <2>1, FS_CardinalityType
<1>3. PICK T \in C : \A V \in C : ~(<<V, T>> \in R)
  BY <1>1, <1>2, WFMin
<1>4. /\ T \subseteq S /\ IsFiniteSet(T) /\ Cardinality(T) \in Nat /\ Cardinality(T) >= n
      /\ Lower(T)
  BY <1>3, FS_Subset, FS_CardinalityType
<1>5. Cardinality(T) = n
  <2> SUFFICES ASSUME Cardinality(T) > n PROVE FALSE
    BY <1>4
  <2>1. T # {}
    BY FS_EmptySet
  <2>2. PICK r \in T : \A q \in T : q.ordinal <= r.ordinal
    BY <1>4, <2>1, GreatestOrdinal
  <2>3. Cardinality(T \ {r}) = Cardinality(T) - 1
    BY <1>4, FS_RemoveElement
  <2>4. Lower(T \ {r})
    BY <1>4, <2>2
  <2>5. T \ {r} \in C
    BY <1>4, <2>3, <2>4
  <2>6. <<T \ {r}, T>> \in R
    BY <1>4 DEF StrictSubsetOrdering
  <2> QED BY <1>3, <2>5, <2>6
<1>6. T \in kSubset(n, S)
  BY <1>4, <1>5 DEF kSubset
<1>7. First(S, n) \in kSubset(n, S) /\ Lower(First(S, n))
  BY <1>4, <1>6 DEF First
<1> QED BY <1>7 DEF kSubset

\* What is before an old message is old.
LEMMA OldFromTheStart ==
  ASSUME messages \subseteq MessageRow, IsFiniteSet(messages), FreshTail \in Nat,
         NEW c, NEW m \in Old(c), NEW n \in Chat(c), n.ordinal <= m.ordinal
  PROVE  n \in Old(c)
<1> DEFINE Later(r) == {q \in Chat(c) : q.ordinal > r.ordinal}
<1>1. \A q \in Chat(c) : q.ordinal \in Nat
  BY DEF Chat, InConv, MessageRow
<1>2. m \in Chat(c) /\ Cardinality(Later(m)) >= FreshTail
  BY DEF Old
<1>3. Later(m) \subseteq Later(n)
  BY <1>1, <1>2
<1>4. IsFiniteSet(Later(n))
  BY FS_Subset DEF Chat, InConv
<1>5. Cardinality(Later(m)) <= Cardinality(Later(n)) /\ Cardinality(Later(m)) \in Nat
      /\ Cardinality(Later(n)) \in Nat
  BY <1>3, <1>4, FS_Subset, FS_CardinalityType
<1>6. Cardinality(Later(n)) >= FreshTail
  BY <1>2, <1>5
<1> QED BY <1>6 DEF Old

\* The newest message is not old.
LEMMA NewestIsFresh ==
  ASSUME messages \subseteq MessageRow, FreshTail \in Nat \ {0}, NEW c, NEW m \in Old(c)
  PROVE  \E n \in messages : ~(n.ordinal <= m.ordinal)
<1>1. SUFFICES ASSUME \A n \in messages : n.ordinal <= m.ordinal PROVE FALSE
  OBVIOUS
<1>2. m \in messages /\ m.ordinal \in Nat /\ \A n \in messages : n.ordinal \in Nat
  BY DEF Old, Chat, InConv, MessageRow
<1>3. {n \in Chat(c) : n.ordinal > m.ordinal} = {}
  BY <1>1, <1>2 DEF Chat, InConv
<1>4. Cardinality({n \in Chat(c) : n.ordinal > m.ordinal}) = 0
  BY <1>3, FS_EmptySet
<1> QED BY <1>4 DEF Old

-----------------------------------------------------------------------------
(* A task alone.                                                           *)

LEMMA Solo ==
  ASSUME SInv, NEW t \in Task, Active(t), NEW u \in Task \ {t}
  PROVE  ~Active(u)
BY DEF SInv, LInv, Alone

LEMMA NotTaken ==
  ASSUME SInv, NEW t \in Task, Active(t), HasOrdinal(t)
  PROVE  ~Taken(conv[t], next[t]) /\ Above(t)
<1>1. Above(t)
  BY DEF SInv, LInv, Cached
<1>2. \A m \in messages : m.ordinal \in Nat
  BY DEF SInv, TypeOK, MessageRow
<1>3. next[t] \in Nat
  BY DEF SInv, TypeOK
<1> QED BY <1>1, <1>2, <1>3 DEF Above, Taken, InConv

\* No summary is being written, nor wiped.
LEMMA SourcesStill ==
  ASSUME SInv, NEW t \in Task, \A u \in Task \ {t} : ~Active(u),
         pc[t] \notin {"sources", "wipeSummaries"}, UNCHANGED <<summaries, sources, crashes>>
  PROVE  SourcesComplete'
<1> SUFFICES ASSUME crashes = 0, NEW s \in summaries
             PROVE  Cardinality({e \in sources : e.summary = s.id}) = Fanout(s.depth)
  BY DEF SourcesComplete
<1>1. \A u \in Task : pc[u] \notin {"sources", "wipeSummaries"}
  BY DEF Active
<1> QED BY <1>1, LosslessAssumption DEF SInv, SourcesComplete

\* A step of t, for which everything else is as it was.
LEMMA Assemble ==
  ASSUME SInv, LInv', TypeOK', overlapped' = overlapped, NEW t \in Task,
         \A u \in Task \ {t} : pc'[u] = pc[u] /\ ~Active(u),
         \A m \in messages' : m \in messages \/ m.turn = t,
         StoreOK', FewRoots', SourcesComplete', Quietly(t)', TaskOK(t)'
  PROVE  SInv'
<1>1. ASSUME NEW u \in Task \ {t} PROVE Quietly(u)' /\ TaskOK(u)'
  <2>1. TaskOK(u)'
    BY DEF TaskOK, Active
  <2>2. Quietly(u)'
    BY DEF SInv, Quietly
  <2> QED BY <2>1, <2>2
<1> QED BY <1>1 DEF SInv

\* A step that leaves the tables alone.
LEMMA CalmStep ==
  ASSUME SInv, LInv', TypeOK', overlapped' = overlapped, NEW t \in Task,
         \A u \in Task \ {t} : pc'[u] = pc[u] /\ ~Active(u),
         UNCHANGED <<messages, summaries, sources, binding, crashes>>,
         convs \subseteq convs', fresh' = fresh,
         pc[t] \notin {"sources", "wipeSummaries"},
         FewRoots', Quietly(t)', TaskOK(t)'
  PROVE  SInv'
<1>1. StoreOK'
  BY DEF SInv, StoreOK, OfTheSession, Identified, Spoken, NothingDangles, SummarisedInOrder,
     Taken, Covered
<1>2. SourcesComplete'
  BY SourcesStill
<1> QED BY <1>1, <1>2, Assemble

\* While no rebuild and no reset is at work before it, all is few after it.
LEMMA StillFew ==
  ASSUME SInv, NEW t \in Task, \A u \in Task \ {t} : ~Active(u),
         UNCHANGED <<summaries, sources, binding, crashes>>,
         pc[t] \notin {"chunk", "sources", "roots", "wipeSummaries"}
  PROVE  FewRoots'
<1>1. \A d : \A u \in Task : ~AtWork(u, d)
  BY DEF AtWork, Active
<1>2. ASSUME crashes = 0, NEW s \in summaries
      PROVE  Cardinality(RootsAt(binding, s.depth)) < CondensedFanout
  BY <1>1, <1>2 DEF SInv, FewRoots
<1>3. \A d : RootsAt(binding, d)' = RootsAt(binding, d)
  BY DEF RootsAt, Covered
<1> QED BY <1>2, <1>3 DEF FewRoots

\* A task alone records what it wants to.
LEMMA AlwaysInserted ==
  ASSUME SInv, NEW t \in Task, Active(t), HasOrdinal(t), NEW role, Record(t, role)
  PROVE  /\ messages' = messages \cup {[id |-> fresh, conv |-> conv[t], ordinal |-> next[t],
                                        role |-> role, turn |-> t]}
         /\ fresh' = fresh + 1 /\ next' = [next EXCEPT ![t] = @ + 1] /\ ~Taken(conv[t], next[t])
         /\ UNCHANGED <<binding, convs, summaries, sources, conv, crashes, overlapped>>
BY NotTaken DEF Record, Inserted, Refused

\* Rows that are to be summarised are rows, and finitely many.
LEMMA PendingRows ==
  ASSUME SInv, NEW t \in Task
  PROVE  /\ IsFiniteSet(Pending(t)) /\ \A r \in Pending(t) : r.ordinal \in Nat
         /\ depth[t] = 0 => Pending(t) \subseteq messages
         /\ depth[t] # 0 => Pending(t) \subseteq summaries
         /\ \A r \in Pending(t) : ~Covered(r)
<1>1. /\ messages \subseteq MessageRow /\ summaries \subseteq SummaryRow
      /\ IsFiniteSet(messages) /\ IsFiniteSet(summaries)
  BY DEF SInv, LInv, Rows, TypeOK, StoreOK
<1>2. /\ depth[t] = 0 => Pending(t) \subseteq messages
      /\ depth[t] # 0 => Pending(t) \subseteq summaries
      /\ \A r \in Pending(t) : ~Covered(r)
  BY DEF Pending, Uncovered, Old, Chat, InConv, RootsAt
<1>3. \A r \in messages \cup summaries : r.ordinal \in Nat
  BY <1>1 DEF MessageRow, SummaryRow
<1> QED BY <1>1, <1>2, <1>3, FS_Subset

\* The next chunk is a chunk, and nobody has summarised it.
LEMMA ChunkIs ==
  ASSUME SInv, NEW t \in Task, pc[t] = "chunk", Cardinality(listed[t]) >= Fanout(depth[t]),
         NEW chunk, chunk = First(listed[t], Fanout(depth[t]))
  PROVE  /\ chunk \subseteq listed[t] /\ Cardinality(chunk) = Fanout(depth[t]) /\ chunk # {}
         /\ \A a \in chunk, b \in listed[t] \ chunk : a.ordinal <= b.ordinal
         /\ Oldest(chunk) \in chunk /\ ~AlreadySummarised(t, chunk)
         /\ Oldest(chunk).ordinal \in Nat
<1>1. listed[t] = Pending(t)
  BY DEF SInv, TaskOK, Active, Rebuilt
<1>2. Fanout(depth[t]) \in Nat \ {0}
  BY LosslessAssumption DEF Fanout
<1>3. IsFiniteSet(listed[t]) /\ Cardinality(listed[t]) \in Nat /\ \A r \in listed[t] : r.ordinal \in Nat
  BY <1>1, PendingRows, FS_CardinalityType
<1>4. /\ chunk \subseteq listed[t] /\ Cardinality(chunk) = Fanout(depth[t])
      /\ \A a \in chunk, b \in listed[t] \ chunk : a.ordinal <= b.ordinal
  BY <1>2, <1>3, FirstIs
<1>5. chunk # {} /\ IsFiniteSet(chunk)
  BY <1>2, <1>3, <1>4, FS_EmptySet, FS_Subset
<1>6. Oldest(chunk) \in chunk
  BY <1>3, <1>4, <1>5, OldestIs
<1>7. ~Covered(Oldest(chunk))
  BY <1>1, <1>4, <1>6, PendingRows
<1> QED BY <1>3, <1>4, <1>5, <1>6, <1>7 DEF AlreadySummarised

\* What a summary waits for.
LEMMA WritingRows ==
  ASSUME SInv, NEW t \in Task, pc[t] = "sources", NEW row, row = Oldest(writing[t])
  PROVE  /\ row \in writing[t] /\ row \in Pending(t) /\ writing[t] \subseteq Pending(t)
         /\ IsFiniteSet(writing[t])
         /\ \A r \in Pending(t) : row.ordinal <= r.ordinal
<1>1. /\ writing[t] # {} /\ listed[t] \cup writing[t] = Pending(t)
      /\ \A a \in writing[t], b \in listed[t] : a.ordinal <= b.ordinal
  BY DEF SInv, TaskOK, Active, Rebuilt
<1>2. IsFiniteSet(writing[t]) /\ \A r \in writing[t] : r.ordinal \in Nat
  BY <1>1, PendingRows, FS_Subset
<1>3. row \in writing[t] /\ \A q \in writing[t] : row.ordinal <= q.ordinal
  BY <1>1, <1>2, OldestIs
<1> QED BY <1>1, <1>2, <1>3

-----------------------------------------------------------------------------
(* Types.                                                                  *)

LEMMA TypeStep ==
  ASSUME SInv, LInv', [Next]_vars
  PROVE  TypeOK'
<1> USE DEF Goto, tables, handle, rebuild, aux
<1>0. TypeOK /\ Typing' /\ MaxDelta \in Nat /\ MaxCrashes \in Nat
  BY LosslessAssumption DEF SInv, LInv
<1>1. CASE UNCHANGED vars
  BY <1>0, <1>1 DEF vars, TypeOK
<1>2. CASE Crash
  <2>1. crashes' \in 0..MaxCrashes
    BY <1>0, <1>2 DEF Crash, TypeOK
  <2> QED BY <1>0, <1>2, <2>1 DEF Crash, TypeOK, Typing
<1>3. ASSUME NEW t \in Task, Opening(t)
      PROVE  TypeOK'
  <2>1. CASE Start(t)
    <3>1. overlapped' \subseteq Task
      BY <1>0, <2>1 DEF Start, TypeOK, InFlight
    <3> QED BY <1>0, <2>1, <3>1 DEF Start, TypeOK, Typing
  <2>2. CASE BindSession(t)
    BY <1>0, <2>2 DEF BindSession, TypeOK, Typing
  <2>3. CASE ReadOrdinal(t)
    BY <1>0, <2>3 DEF ReadOrdinal, TypeOK, Typing
  <2>4. CASE RecordSystem(t)
    BY <1>0, <2>4 DEF RecordSystem, Record, Inserted, Refused, TypeOK, Typing
  <2> QED BY <1>3, <2>1, <2>2, <2>3, <2>4 DEF Opening
<1>4. ASSUME NEW t \in Task, Turning(t)
      PROVE  TypeOK'
  <2>1. CASE RecordUser(t)
    BY <1>0, <2>1 DEF RecordUser, Record, Inserted, Refused, TypeOK, Typing
  <2>2. CASE RecordUserAndReply(t)
    <3>1. due' \in [Task -> 0..MaxDelta]
      BY <1>0, <2>2 DEF RecordUserAndReply, TypeOK
    <3> QED BY <1>0, <2>2, <3>1 DEF RecordUserAndReply, Record, Inserted, Refused, TypeOK, Typing
  <2>3. CASE Resume(t)
    BY <1>0, <2>3 DEF Resume, TypeOK, Typing
  <2>4. CASE Answer(t)
    BY <1>0, <2>4 DEF Answer, TypeOK, Typing
  <2>5. CASE RecordReply(t)
    <3>1. due' \in [Task -> 0..MaxDelta]
      BY <1>0, <2>5 DEF RecordReply, TypeOK
    <3> QED BY <1>0, <2>5, <3>1 DEF RecordReply, Record, Inserted, Refused, TypeOK, Typing
  <2>6. CASE Conclude(t)
    BY <1>0, <2>6 DEF Conclude, TypeOK, Typing
  <2>7. CASE Rollback(t)
    BY <1>0, <2>7 DEF Rollback, TypeOK, Typing
  <2>8. CASE RecordNote(t)
    BY <1>0, <2>8 DEF RecordNote, Record, Inserted, Refused, TypeOK, Typing
  <2> QED BY <1>4, <2>1, <2>2, <2>3, <2>4, <2>5, <2>6, <2>7, <2>8 DEF Turning
<1>5. ASSUME NEW t \in Task, Rebuilding(t)
      PROVE  TypeOK'
  <2>1. CASE ListMessages(t)
    <3>1. Uncovered(conv[t]) \subseteq MessageRow
      BY <1>0 DEF TypeOK, Uncovered, Old, Chat, InConv
    <3> QED BY <1>0, <2>1, <3>1 DEF ListMessages, TypeOK, Typing
  <2>2. CASE LeaveChunk(t)
    BY <1>0, <2>2 DEF LeaveChunk, TypeOK, Typing
  <2>3. CASE ListRoots(t)
    <3>1. RootsAt(conv[t], depth[t] - 1) \subseteq SummaryRow
      BY <1>0 DEF TypeOK, RootsAt
    <3>2. listed' \in [Task -> SUBSET (MessageRow \cup SummaryRow)]
      BY <1>0, <2>3, <3>1 DEF ListRoots, TypeOK
    <3> QED BY <1>0, <2>3, <3>2 DEF ListRoots, TypeOK, Typing
  <2>4. CASE InsertSummary(t)
    <3> DEFINE chunk == First(listed[t], Fanout(depth[t]))
    <3>1. chunk \subseteq listed[t] /\ Oldest(chunk).ordinal \in Nat /\ ~AlreadySummarised(t, chunk)
      BY <2>4, ChunkIs DEF InsertSummary
    <3>2. /\ listed' = [listed EXCEPT ![t] = @ \ chunk]
          /\ summaries' = summaries \cup
                {[id |-> fresh, conv |-> conv[t], depth |-> depth[t],
                  ordinal |-> Oldest(chunk).ordinal]}
          /\ node' = [node EXCEPT ![t] = fresh]
          /\ writing' = [writing EXCEPT ![t] = chunk]
          /\ UNCHANGED <<binding, convs, messages, sources, handle, due, after, depth, aux>>
      BY <2>4, <3>1 DEF InsertSummary
    <3> HIDE DEF chunk
    <3>3. listed' \in [Task -> SUBSET (MessageRow \cup SummaryRow)]
      BY <1>0, <3>2 DEF TypeOK
    <3>4. writing' \in [Task -> SUBSET (MessageRow \cup SummaryRow)]
      BY <1>0, <3>1, <3>2 DEF TypeOK
    <3>5. summaries' \subseteq SummaryRow /\ node' \in [Task -> Nat]
      BY <1>0, <3>1, <3>2 DEF TypeOK, SummaryRow
    <3> QED BY <1>0, <3>2, <3>3, <3>4, <3>5 DEF TypeOK, Typing
  <2>5. CASE InsertSource(t)
    <3> DEFINE row == Oldest(writing[t])
    <3>1. row \in writing[t]
      BY <2>5, WritingRows DEF InsertSource
    <3>2. writing[t] \subseteq MessageRow \cup SummaryRow
      BY <1>0 DEF TypeOK
    <3>3. row.id \in Nat
      BY <3>1, <3>2 DEF MessageRow, SummaryRow
    <3>4. /\ sources' = sources \cup {[summary |-> node[t], source |-> row.id]}
          /\ writing' = [writing EXCEPT ![t] = @ \ {row}]
          /\ UNCHANGED <<binding, convs, messages, summaries, fresh, handle, due,
                         after, depth, listed, node, aux>>
      BY <2>5 DEF InsertSource
    <3> HIDE DEF row
    <3>5. writing' \in [Task -> SUBSET (MessageRow \cup SummaryRow)]
      BY <1>0, <3>4 DEF TypeOK
    <3>6. sources' \subseteq [summary : Nat, source : Nat]
      BY <1>0, <3>3, <3>4 DEF TypeOK
    <3> QED BY <1>0, <3>4, <3>5, <3>6 DEF TypeOK, Typing
  <2> QED BY <1>5, <2>1, <2>2, <2>3, <2>4, <2>5 DEF Rebuilding
<1>6. ASSUME NEW t \in Task, Resetting(t)
      PROVE  TypeOK'
  <2>1. CASE BeginReset(t)
    BY <1>0, <2>1 DEF BeginReset, TypeOK, Typing
  <2>2. CASE WipeSources(t)
    BY <1>0, <2>2 DEF WipeSources, TypeOK, Typing
  <2>3. CASE WipeSummaries(t)
    BY <1>0, <2>3 DEF WipeSummaries, TypeOK, Typing
  <2>4. CASE WipeMessages(t)
    BY <1>0, <2>4 DEF WipeMessages, TypeOK, Typing
  <2>5. CASE WipeConversation(t)
    BY <1>0, <2>5 DEF WipeConversation, TypeOK, Typing
  <2>6. CASE CreateConversation(t)
    BY <1>0, <2>6 DEF CreateConversation, TypeOK, Typing
  <2>7. CASE Rebind(t)
    BY <1>0, <2>7 DEF Rebind, TypeOK, Typing
  <2>8. CASE RecordSystemAgain(t)
    BY <1>0, <2>8 DEF RecordSystemAgain, Record, Inserted, Refused, TypeOK, Typing
  <2> QED BY <1>6, <2>1, <2>2, <2>3, <2>4, <2>5, <2>6, <2>7, <2>8 DEF Resetting
<1> QED BY <1>1, <1>2, <1>3, <1>4, <1>5, <1>6 DEF Next, Ended

-----------------------------------------------------------------------------
(* Steps that leave the tables alone.                                      *)

LEMMA Frame ==
  ASSUME SInv, NEW t \in Task, Active(t), NEW l, Goto(t, l)
  PROVE  /\ pc'[t] = l /\ \A u \in Task \ {t} : pc'[u] = pc[u] /\ ~Active(u)
         /\ AtHome(t) /\ Wiped(t) /\ OwnUncovered(t) /\ Rebuilt(t) /\ Quietly(t)
         /\ pc \in [Task -> PC] /\ next \in [Task -> Nat] /\ conv \in [Task -> Nat]
         /\ depth \in [Task -> Nat] /\ after \in [Task -> {"answering", "finished"}]
BY Solo DEF Goto, SInv, TypeOK, TaskOK

LEMMA SoloStart ==
  ASSUME MaxActive = 1, SInv, LInv', TypeOK', NEW t \in Task, Start(t)
  PROVE  SInv'
<1>1. InFlight = {}
  <2> SUFFICES ASSUME NEW u \in InFlight PROVE FALSE
    OBVIOUS
  <2>1. InFlight = {u}
    BY Solo DEF InFlight
  <2>2. Cardinality(InFlight) = 1
    BY <2>1, FS_Singleton
  <2> QED BY <2>2 DEF Start
<1>2. /\ pc[t] = "waiting" /\ overlapped' = overlapped
      /\ UNCHANGED <<messages, summaries, sources, binding, crashes, convs, fresh, next>>
      /\ \/ binding # NoConv /\ conv' = [conv EXCEPT ![t] = binding] /\ Goto(t, "open")
         \/ binding = NoConv /\ conv' = [conv EXCEPT ![t] = Generated] /\ Goto(t, "bind")
  BY <1>1 DEF Start, tables
<1>3. /\ pc'[t] \in {"open", "bind"} /\ \A u \in Task \ {t} : pc'[u] = pc[u] /\ ~Active(u)
      /\ pc'[t] = "open" => conv'[t] = binding /\ binding # NoConv
      /\ pc'[t] = "bind" => conv'[t] = Generated /\ binding = NoConv
  BY <1>1, <1>2 DEF Goto, InFlight, SInv, TypeOK
<1>4. FewRoots'
  BY <1>2, <1>3, StillFew
<1>5. Quietly(t)'
  BY <1>2 DEF SInv, Quietly
<1>6. TaskOK(t)'
  BY <1>2, <1>3 DEF TaskOK, AtHome, Wiped, OwnUncovered, Rebuilt, HasOrdinal, NoConv, Generated
<1> QED BY <1>2, <1>3, <1>4, <1>5, <1>6, CalmStep

LEMMA SoloBind ==
  ASSUME SInv, LInv', TypeOK', NEW t \in Task, BindSession(t)
  PROVE  SInv'
<1>1. /\ pc[t] = "bind" /\ Active(t) /\ binding' = conv[t] /\ convs' = convs \cup {conv[t]}
      /\ Goto(t, "open")
      /\ UNCHANGED <<messages, summaries, sources, fresh, conv, next, overlapped, crashes>>
  BY DEF BindSession, handle, aux, Active
<1>2. /\ pc'[t] = "open" /\ \A u \in Task \ {t} : pc'[u] = pc[u] /\ ~Active(u)
      /\ AtHome(t) /\ Quietly(t)
  BY <1>1, Frame
<1>3. messages = {} /\ summaries = {} /\ conv[t] # NoConv
  BY <1>1, <1>2 DEF AtHome, SInv, StoreOK, OfTheSession
<1>4. StoreOK'
  BY <1>1, <1>3 DEF SInv, StoreOK, OfTheSession, Identified, Spoken, NothingDangles,
     SummarisedInOrder
<1>5. FewRoots' /\ SourcesComplete'
  BY <1>1, <1>3 DEF FewRoots, SourcesComplete
<1>6. Quietly(t)' /\ TaskOK(t)'
  BY <1>1, <1>2, <1>3 DEF Quietly, TaskOK, AtHome, Wiped, OwnUncovered, Rebuilt, HasOrdinal
<1> QED BY <1>1, <1>2, <1>4, <1>5, <1>6, Assemble

LEMMA SoloReadOrdinal ==
  ASSUME SInv, LInv', TypeOK', NEW t \in Task, ReadOrdinal(t)
  PROVE  SInv'
<1> DEFINE l == IF next'[t] = 0 THEN "system" ELSE "opened"
<1>1. /\ pc[t] = "open" /\ Active(t) /\ convs' = convs \cup {conv[t]}
      /\ next' = [next EXCEPT ![t] = NextOrdinal(conv[t])] /\ Goto(t, l)
      /\ UNCHANGED <<binding, messages, summaries, sources, fresh, conv, overlapped, crashes>>
  BY DEF ReadOrdinal, aux, Active
<1>2. /\ pc'[t] = l /\ \A u \in Task \ {t} : pc'[u] = pc[u] /\ ~Active(u)
      /\ AtHome(t) /\ Quietly(t) /\ next'[t] = NextOrdinal(conv[t])
  BY <1>1, Frame
<1>3. FewRoots'
  BY <1>1, <1>2, StillFew
<1>4. \A k \in 0..(NextOrdinal(conv[t]) - 1) : Taken(conv[t], k)
  <2> DEFINE C == {0} \cup {m.ordinal + 1 : m \in InConv(conv[t])}
             P(n) == \A m \in InConv(conv[t]) : m.ordinal < n
  <2>1. messages \subseteq MessageRow /\ IsFiniteSet(messages)
    BY DEF SInv, LInv, Rows, TypeOK
  <2>2. /\ NextOrdinal(conv[t]) \in Nat
        /\ \A m \in InConv(conv[t]) : m.ordinal < NextOrdinal(conv[t])
    BY <2>1, NextOrdinalAbove
  <2>3. NextOrdinal(conv[t]) \in C
    <3>1. \E n \in C : P(n)
      <4>1. CASE InConv(conv[t]) = {}
        BY <4>1
      <4>2. CASE InConv(conv[t]) # {}
        <5>1. /\ IsFiniteSet(InConv(conv[t])) /\ \A m \in InConv(conv[t]) : m.ordinal \in Nat
          BY <2>1, FS_Subset DEF InConv, MessageRow
        <5>2. PICK r \in InConv(conv[t]) : \A q \in InConv(conv[t]) : q.ordinal <= r.ordinal
          BY <4>2, <5>1, GreatestOrdinal
        <5>3. P(r.ordinal + 1) /\ r.ordinal + 1 \in C
          BY <5>1, <5>2
        <5> QED BY <5>3
      <4> QED BY <4>1, <4>2
    <3>2. NextOrdinal(conv[t]) = CHOOSE n \in C : P(n)
      BY DEF NextOrdinal
    <3> QED BY <3>1, <3>2
  <2>4. CASE NextOrdinal(conv[t]) = 0
    BY <2>4
  <2>5. ASSUME NEW m \in InConv(conv[t]), NextOrdinal(conv[t]) = m.ordinal + 1
        PROVE  \A k \in 0..(NextOrdinal(conv[t]) - 1) : Taken(conv[t], k)
    <3>1. m \in messages /\ m.conv = conv[t] /\ m.ordinal \in Nat
      BY <2>1 DEF InConv, MessageRow
    <3>2. \A k \in 0..m.ordinal : Taken(conv[t], k)
      BY <3>1 DEF SInv, StoreOK, Spoken
    <3> QED BY <2>5, <3>1, <3>2
  <2> QED BY <2>3, <2>4, <2>5
<1>5. Quietly(t)'
  BY <1>1, <1>2 DEF Quietly
<1>6. AtHome(t)'
  <2>1. next'[t] \in Nat
    BY DEF TypeOK
  <2> QED BY <1>1, <1>2, <1>4, <2>1 DEF AtHome, HasOrdinal, Taken
<1>7. TaskOK(t)'
  BY <1>2, <1>6 DEF TaskOK, Wiped, OwnUncovered, Rebuilt
<1>8. convs \subseteq convs' /\ pc[t] \notin {"sources", "wipeSummaries"}
  BY <1>1
<1> QED BY <1>1, <1>2, <1>3, <1>5, <1>7, <1>8, CalmStep

\* Steps between the parts of a turn.
LEMMA SoloTurning ==
  ASSUME SInv, LInv', TypeOK', NEW t \in Task,
         \/ Resume(t) \/ Answer(t) \/ Conclude(t) \/ BeginReset(t)
         \/ pc[t] = "note" /\ UNCHANGED <<tables, handle, aux>> /\ Goto(t, "list")
              /\ after' = [after EXCEPT ![t] = "finished"]
  PROVE  SInv'
<1>1. /\ pc[t] \in {"opened", "answering", "recording", "note"} /\ Active(t)
      /\ UNCHANGED <<tables, handle, aux>>
      /\ \E l \in {"list", "recording", "finished", "wipeSources"} :
           /\ Goto(t, l)
           /\ l = "wipeSources" => t \in Resets
           /\ l = "recording" => pc[t] = "answering" /\ after' = after
           /\ l = "list" => \/ pc[t] = "opened" /\ after' = [after EXCEPT ![t] = "answering"]
                            \/ after' = [after EXCEPT ![t] = "finished"]
  BY DEF Resume, Answer, Conclude, BeginReset, Active, rebuild
<1>2. /\ pc'[t] \in {"list", "recording", "finished", "wipeSources"}
      /\ pc'[t] = "wipeSources" => t \in Resets
      /\ pc'[t] = "recording" => pc[t] = "answering" /\ after'[t] = after[t]
      /\ pc'[t] = "list" => pc[t] = "opened" \/ after'[t] = "finished"
      /\ \A u \in Task \ {t} : pc'[u] = pc[u] /\ ~Active(u)
      /\ AtHome(t) /\ OwnUncovered(t) /\ Quietly(t)
  <2>1. PICK l \in {"list", "recording", "finished", "wipeSources"} :
           /\ Goto(t, l)
           /\ l = "wipeSources" => t \in Resets
           /\ l = "recording" => pc[t] = "answering" /\ after' = after
           /\ l = "list" => \/ pc[t] = "opened" /\ after' = [after EXCEPT ![t] = "answering"]
                            \/ after' = [after EXCEPT ![t] = "finished"]
    BY <1>1
  <2>2. /\ pc'[t] = l /\ \A u \in Task \ {t} : pc'[u] = pc[u] /\ ~Active(u)
        /\ AtHome(t) /\ OwnUncovered(t) /\ Quietly(t)
        /\ after \in [Task -> {"answering", "finished"}]
    BY <1>1, <2>1, Frame
  <2> QED BY <2>1, <2>2
<1>3. /\ UNCHANGED <<messages, summaries, sources, binding, crashes, convs, fresh, conv, next>>
      /\ overlapped' = overlapped
  BY <1>1 DEF tables, handle, aux
<1>4. FewRoots'
  BY <1>1, <1>2, <1>3, StillFew
<1>5. Quietly(t)'
  BY <1>2 DEF Quietly
<1>6. AtHome(t)'
  BY <1>1, <1>2, <1>3 DEF AtHome, HasOrdinal, Taken
<1>7. OwnUncovered(t)'
  BY <1>1, <1>2, <1>3 DEF OwnUncovered, Quietly, Covered
<1>8. TaskOK(t)'
  BY <1>2, <1>6, <1>7 DEF TaskOK, Wiped, Rebuilt
<1>9. pc[t] \notin {"sources", "wipeSummaries"} /\ convs \subseteq convs'
  BY <1>1, <1>3
<1> QED BY <1>2, <1>3, <1>4, <1>5, <1>8, <1>9, CalmStep

-----------------------------------------------------------------------------
(* The steps of a rebuild.                                                 *)

\* Few roots at a depth that nobody is at work at.
LEMMA FewElsewhere ==
  ASSUME SInv, NEW t \in Task, \A u \in Task \ {t} : ~Active(u), crashes = 0, conv[t] = binding,
         NEW s \in summaries, ~AtWork(t, s.depth)
  PROVE  Cardinality(RootsAt(conv[t], s.depth)) < CondensedFanout
<1>1. \A u \in Task : ~AtWork(u, s.depth)
  BY DEF AtWork, Active
<1> QED BY <1>1 DEF SInv, FewRoots

LEMMA SoloListMessages ==
  ASSUME SInv, LInv', TypeOK', NEW t \in Task, ListMessages(t)
  PROVE  SInv'
<1>1. /\ pc[t] = "list" /\ Active(t) /\ Goto(t, "chunk")
      /\ listed' = [listed EXCEPT ![t] = Uncovered(conv[t])] /\ depth' = [depth EXCEPT ![t] = 0]
      /\ UNCHANGED <<messages, summaries, sources, binding, crashes, convs, fresh, conv, next,
                     after, overlapped>>
  BY DEF ListMessages, Active, tables, handle, aux
<1>2. /\ pc'[t] = "chunk" /\ \A u \in Task \ {t} : pc'[u] = pc[u] /\ ~Active(u)
      /\ AtHome(t) /\ OwnUncovered(t) /\ Quietly(t)
  BY <1>1, Frame
<1>3. listed'[t] = Uncovered(conv[t]) /\ depth'[t] = 0
  BY <1>1 DEF SInv, TypeOK
<1>4. FewRoots'
  BY <1>1, <1>2, StillFew
<1>5. Quietly(t)'
  BY <1>1, <1>2 DEF Quietly
<1>6. AtHome(t)'
  BY <1>1, <1>2 DEF AtHome, HasOrdinal, Taken
<1>7. OwnUncovered(t)'
  BY <1>1, <1>2 DEF OwnUncovered, Covered
<1>8. Rebuilt(t)'
  <2>1. Uncovered(conv[t])' = Uncovered(conv[t])
    BY <1>1 DEF Uncovered, Old, Chat, InConv, Covered
  <2> QED BY <1>2, <1>3, <2>1 DEF Rebuilt, Pending
<1>9. TaskOK(t)'
  BY <1>2, <1>6, <1>7, <1>8 DEF TaskOK, Wiped
<1> QED BY <1>1, <1>2, <1>4, <1>5, <1>9, CalmStep

\* Neither step changes what there is to summarise.
LEMMA LookedUpAgain ==
  ASSUME UNCHANGED <<messages, summaries, sources, conv>>, NEW t, NEW d
  PROVE  Uncovered(conv[t])' = Uncovered(conv[t]) /\ RootsAt(conv[t], d)' = RootsAt(conv[t], d)
BY DEF Uncovered, Old, Chat, InConv, RootsAt, Covered

LEMMA SoloLeaveChunk ==
  ASSUME SInv, LInv', TypeOK', NEW t \in Task, LeaveChunk(t)
  PROVE  SInv'
<1>1. /\ pc[t] = "chunk" /\ Active(t) /\ Goto(t, "roots")
      /\ Cardinality(listed[t]) < Fanout(depth[t])
      /\ depth' = [depth EXCEPT ![t] = @ + 1]
      /\ UNCHANGED <<messages, summaries, sources, binding, crashes, convs, fresh, conv, next,
                     after, overlapped>>
  BY DEF LeaveChunk, Active, tables, handle, aux
<1>2. /\ pc'[t] = "roots" /\ \A u \in Task \ {t} : pc'[u] = pc[u] /\ ~Active(u)
      /\ AtHome(t) /\ OwnUncovered(t) /\ Quietly(t) /\ Rebuilt(t)
      /\ depth[t] \in Nat
  BY <1>1, Frame
<1>3. depth'[t] = depth[t] + 1 /\ conv[t] = binding /\ listed[t] = Pending(t)
  BY <1>1, <1>2 DEF SInv, TypeOK, AtHome, Rebuilt
<1>4. FewRoots'
  <2> SUFFICES ASSUME crashes = 0, NEW s \in summaries, ~AtWork(t, s.depth)'
               PROVE  Cardinality(RootsAt(conv[t], s.depth)) < CondensedFanout
    BY <1>1, <1>3, LookedUpAgain DEF FewRoots
  <2>1. s.depth \in Nat
    BY DEF SInv, TypeOK, SummaryRow
  <2>2. s.depth # depth[t]
    BY <1>2, <1>3 DEF AtWork
  <2>3. CASE s.depth = depth[t] - 1
    <3>1. depth[t] # 0
      BY <1>2, <2>1, <2>3
    <3>2. listed[t] = RootsAt(conv[t], s.depth) /\ Fanout(depth[t]) = CondensedFanout
      BY <1>3, <2>3, <3>1 DEF Pending, Fanout
    <3> QED BY <1>1, <3>2
  <2>4. CASE s.depth # depth[t] - 1
    <3>1. ~AtWork(t, s.depth)
      BY <1>1, <2>2, <2>4 DEF AtWork
    <3> QED BY <1>2, <1>3, <3>1, FewElsewhere
  <2> QED BY <2>3, <2>4
<1>5. Quietly(t)'
  BY <1>1, <1>2 DEF Quietly
<1>6. AtHome(t)'
  BY <1>1, <1>2 DEF AtHome, HasOrdinal, Taken
<1>7. OwnUncovered(t)'
  BY <1>1, <1>2 DEF OwnUncovered, Covered
<1>8. Cardinality(Uncovered(conv[t])) < LeafFanout
  <2>1. CASE depth[t] = 0
    BY <1>1, <1>3, <2>1 DEF Pending, Fanout
  <2>2. CASE depth[t] > 0
    BY <1>1, <1>2, <2>2 DEF Rebuilt
  <2> QED BY <1>2, <2>1, <2>2
<1>9. Rebuilt(t)'
  <2>1. depth'[t] > 0
    BY <1>2, <1>3
  <2> QED BY <1>1, <1>2, <1>8, <2>1, LookedUpAgain DEF Rebuilt
<1>10. TaskOK(t)'
  BY <1>2, <1>6, <1>7, <1>9 DEF TaskOK, Wiped
<1> QED BY <1>1, <1>2, <1>4, <1>5, <1>10, CalmStep

LEMMA SoloListRoots ==
  ASSUME SInv, LInv', TypeOK', NEW t \in Task, ListRoots(t)
  PROVE  SInv'
<1> DEFINE roots == RootsAt(conv[t], depth[t] - 1)
<1>1. /\ pc[t] = "roots" /\ Active(t)
      /\ \/ Cardinality(roots) < CondensedFanout /\ Goto(t, after[t])
         \/ Goto(t, "chunk") /\ listed' = [listed EXCEPT ![t] = roots]
      /\ UNCHANGED <<messages, summaries, sources, binding, crashes, convs, fresh, conv, next,
                     after, depth, overlapped>>
  BY DEF ListRoots, Active, tables, handle, aux
<1> HIDE DEF roots
<1>2. /\ pc'[t] \in {"chunk", after[t]} /\ \A u \in Task \ {t} : pc'[u] = pc[u] /\ ~Active(u)
      /\ AtHome(t) /\ OwnUncovered(t) /\ Quietly(t) /\ Rebuilt(t)
      /\ depth[t] \in Nat /\ after[t] \in {"answering", "finished"}
      /\ pc'[t] = "chunk" => listed'[t] = roots
      /\ pc'[t] # "chunk" => Cardinality(roots) < CondensedFanout
  <2>1. listed \in [Task -> SUBSET (MessageRow \cup SummaryRow)]
    BY DEF SInv, TypeOK
  <2>2. CASE Goto(t, "chunk") /\ listed' = [listed EXCEPT ![t] = roots]
    BY <1>1, <2>1, <2>2, Frame
  <2>3. CASE Cardinality(roots) < CondensedFanout /\ Goto(t, after[t])
    <3>1. after[t] # "chunk"
      BY DEF SInv, TypeOK
    <3> QED BY <1>1, <2>3, <3>1, Frame
  <2> QED BY <1>1, <2>2, <2>3
<1>3. conv[t] = binding /\ depth[t] > 0 /\ Cardinality(Uncovered(conv[t])) < LeafFanout
  BY <1>1, <1>2 DEF AtHome, Rebuilt
<1>4. FewRoots'
  <2> SUFFICES ASSUME crashes = 0, NEW s \in summaries, ~AtWork(t, s.depth)'
               PROVE  Cardinality(RootsAt(conv[t], s.depth)) < CondensedFanout
    BY <1>1, <1>3, LookedUpAgain DEF FewRoots
  <2>1. CASE s.depth = depth[t] - 1
    BY <1>1, <1>2, <2>1 DEF AtWork, roots
  <2>2. CASE s.depth # depth[t] - 1
    <3>1. ~AtWork(t, s.depth)
      BY <1>1, <2>2 DEF AtWork
    <3> QED BY <1>2, <1>3, <3>1, FewElsewhere
  <2> QED BY <2>1, <2>2
<1>5. Quietly(t)'
  BY <1>1, <1>2 DEF Quietly
<1>6. AtHome(t)'
  BY <1>1, <1>2 DEF AtHome, HasOrdinal, Taken
<1>7. OwnUncovered(t)'
  BY <1>1, <1>2 DEF OwnUncovered, Covered
<1>8. Rebuilt(t)'
  <2>1. pc'[t] = "chunk" => listed'[t] = Pending(t)'
    BY <1>1, <1>2, <1>3, LookedUpAgain DEF Pending, roots
  <2> QED BY <1>1, <1>2, <1>3, <2>1, LookedUpAgain DEF Rebuilt
<1>9. TaskOK(t)'
  BY <1>2, <1>6, <1>7, <1>8 DEF TaskOK, Wiped
<1>10. pc[t] \notin {"sources", "wipeSummaries"} /\ convs \subseteq convs'
  BY <1>1
<1> QED BY <1>1, <1>2, <1>4, <1>5, <1>9, <1>10, CalmStep

\* The summary that is inserted is a root at the depth the rebuild is at.
LEMMA SoloInsertSummary ==
  ASSUME SInv, LInv', TypeOK', NEW t \in Task, InsertSummary(t)
  PROVE  SInv'
<1> DEFINE chunk == First(listed[t], Fanout(depth[t]))
           new == [id |-> fresh, conv |-> conv[t], depth |-> depth[t],
                   ordinal |-> Oldest(chunk).ordinal]
<1>1. /\ pc[t] = "chunk" /\ Active(t) /\ Cardinality(listed[t]) >= Fanout(depth[t])
  BY DEF InsertSummary, Active
<1>2. /\ chunk \subseteq listed[t] /\ Cardinality(chunk) = Fanout(depth[t]) /\ chunk # {}
      /\ \A a \in chunk, b \in listed[t] \ chunk : a.ordinal <= b.ordinal
      /\ ~AlreadySummarised(t, chunk)
  BY <1>1, ChunkIs
<1>3. /\ listed' = [listed EXCEPT ![t] = @ \ chunk] /\ summaries' = summaries \cup {new}
      /\ fresh' = fresh + 1 /\ node' = [node EXCEPT ![t] = fresh]
      /\ writing' = [writing EXCEPT ![t] = chunk] /\ Goto(t, "sources")
      /\ UNCHANGED <<messages, sources, binding, crashes, convs, conv, next, after, depth,
                     overlapped>>
  BY <1>2 DEF InsertSummary, handle, aux
<1>4. new.id = fresh /\ new.conv = conv[t] /\ new.depth = depth[t]
  OBVIOUS
<1> HIDE DEF new, chunk
<1>5. /\ pc'[t] = "sources" /\ \A u \in Task \ {t} : pc'[u] = pc[u] /\ ~Active(u)
      /\ AtHome(t) /\ OwnUncovered(t) /\ Quietly(t) /\ Rebuilt(t) /\ depth[t] \in Nat
  BY <1>1, <1>3, Frame
<1>6. /\ listed'[t] = listed[t] \ chunk /\ writing'[t] = chunk /\ node'[t] = fresh
      /\ listed[t] = Pending(t) /\ conv[t] = binding /\ conv[t] # NoConv /\ conv[t] \in convs
      /\ fresh \in Nat
  BY <1>1, <1>3, <1>5 DEF SInv, TypeOK, AtHome, Rebuilt
<1>7. \A r \in messages \cup summaries : r.id < fresh /\ r.id \in Nat
  BY DEF SInv, StoreOK, Identified, TypeOK, MessageRow, SummaryRow
<1>8. \A e \in sources : e.summary < fresh /\ e.summary \in Nat /\ e.source < fresh /\ e.source \in Nat
  <2> SUFFICES ASSUME NEW e \in sources
               PROVE  e.summary < fresh /\ e.summary \in Nat /\ e.source < fresh /\ e.source \in Nat
    OBVIOUS
  <2>1. PICK s \in summaries : s.id = e.summary
    BY DEF SInv, StoreOK, NothingDangles
  <2>2. PICK r \in messages \cup summaries : r.id = e.source
    BY DEF SInv, StoreOK, NothingDangles
  <2> QED BY <1>7, <2>1, <2>2
<1>9. StoreOK'
  <2>1. IsFiniteSet(summaries') /\ IsFiniteSet(sources')
    BY <1>3, FS_AddElement DEF SInv, StoreOK
  <2>2. OfTheSession'
    BY <1>3, <1>4, <1>6 DEF SInv, StoreOK, OfTheSession
  <2>3. Identified'
    <3>1. \A r \in messages \cup summaries : r.id # new.id /\ r.id < fresh + 1
      BY <1>4, <1>6, <1>7
    <3>2. new.id < fresh + 1
      BY <1>4, <1>6
    <3> QED BY <1>3, <3>1, <3>2 DEF SInv, StoreOK, Identified
  <2>4. Spoken' /\ SummarisedInOrder'
    BY <1>3 DEF SInv, StoreOK, Spoken, Taken, SummarisedInOrder, Covered
  <2>5. NothingDangles'
    BY <1>3, <1>4, <1>6 DEF SInv, StoreOK, NothingDangles
  <2> QED BY <2>1, <2>2, <2>3, <2>4, <2>5 DEF StoreOK
<1>10. Uncovered(conv[t])' = Uncovered(conv[t])
  BY <1>3 DEF Uncovered, Old, Chat, InConv, Covered
<1>11. \A d : d # depth[t] => RootsAt(conv[t], d)' = RootsAt(conv[t], d)
  BY <1>3, <1>4 DEF RootsAt, Covered
<1>12. Pending(t)' = Pending(t)
  BY <1>3, <1>5, <1>10, <1>11 DEF Pending
<1>13. FewRoots'
  <2> SUFFICES ASSUME crashes = 0, NEW s \in summaries', ~AtWork(t, s.depth)'
               PROVE  Cardinality(RootsAt(conv[t], s.depth)') < CondensedFanout
    BY <1>3, <1>6 DEF FewRoots, RootsAt
  <2>1. s.depth # depth[t] /\ ~AtWork(t, s.depth)
    BY <1>1, <1>3, <1>5 DEF AtWork
  <2>2. s \in summaries
    BY <1>3, <1>4, <2>1
  <2> QED BY <1>5, <1>6, <1>11, <2>1, <2>2, FewElsewhere
<1>14. SourcesComplete'
  <2> SUFFICES ASSUME crashes = 0, NEW s \in summaries', s.id # fresh
               PROVE  Cardinality({e \in sources : e.summary = s.id}) = Fanout(s.depth)
    BY <1>3, <1>5, <1>6 DEF SourcesComplete
  <2>1. s \in summaries
    BY <1>3, <1>4
  <2>2. \A u \in Task : pc[u] \notin {"sources", "wipeSummaries"}
    BY <1>1, <1>5 DEF Active
  <2> QED BY <2>1, <2>2, LosslessAssumption DEF SInv, SourcesComplete
<1>15. Quietly(t)'
  BY <1>5 DEF Quietly
<1>16. AtHome(t)'
  BY <1>1, <1>3, <1>5 DEF AtHome, HasOrdinal, Taken
<1>17. OwnUncovered(t)'
  BY <1>1, <1>3, <1>5 DEF OwnUncovered, Covered
<1>18. Rebuilt(t)'
  <2>1. /\ writing'[t] # {} /\ listed'[t] \cap writing'[t] = {}
        /\ listed'[t] \cup writing'[t] = Pending(t)'
        /\ \A a \in writing'[t], b \in listed'[t] : a.ordinal <= b.ordinal
    BY <1>2, <1>6, <1>12
  <2>2. \E s \in summaries' : s.id = node'[t] /\ s.depth = depth'[t]
    BY <1>3, <1>4, <1>6
  <2>3. Cardinality({e \in sources' : e.summary = node'[t]}) = 0
    <3>1. {e \in sources' : e.summary = node'[t]} = {}
      BY <1>3, <1>6, <1>8
    <3> QED BY <3>1, FS_EmptySet
  <2>4. Cardinality({e \in sources' : e.summary = node'[t]}) + Cardinality(writing'[t]) = Fanout(depth'[t])
    BY <1>2, <1>3, <1>6, <2>3, LosslessAssumption DEF Fanout
  <2>5. depth'[t] > 0 => Cardinality(Uncovered(conv[t])') < LeafFanout
    BY <1>1, <1>3, <1>5, <1>10 DEF Rebuilt
  <2>6. Cardinality(Uncovered(conv[t])') = Cardinality(Uncovered(conv[t]))'
    BY <1>3
  <2> QED BY <1>5, <2>1, <2>2, <2>4, <2>5, <2>6 DEF Rebuilt
<1>19. TaskOK(t)'
  BY <1>5, <1>16, <1>17, <1>18 DEF TaskOK, Wiped
<1> QED BY <1>3, <1>5, <1>9, <1>13, <1>14, <1>15, <1>19, Assemble

\* The row whose source is written leaves what is pending, and nothing else changes.
LEMMA SoloInsertSource ==
  ASSUME SInv, LInv', TypeOK', NEW t \in Task, InsertSource(t)
  PROVE  SInv'
<1> DEFINE row == Oldest(writing[t])
           edge == [summary |-> node[t], source |-> row.id]
<1>1. /\ pc[t] = "sources" /\ Active(t)
      /\ sources' = sources \cup {edge} /\ writing' = [writing EXCEPT ![t] = @ \ {row}]
      /\ Goto(t, IF writing[t] = {row} THEN "chunk" ELSE "sources")
      /\ UNCHANGED <<messages, summaries, binding, crashes, convs, fresh, conv, next, after, depth,
                     listed, node, overlapped>>
  BY DEF InsertSource, handle, aux, Active
<1>2. /\ row \in writing[t] /\ row \in Pending(t) /\ writing[t] \subseteq Pending(t)
      /\ IsFiniteSet(writing[t]) /\ \A r \in Pending(t) : row.ordinal <= r.ordinal
  BY <1>1, WritingRows
<1>3. edge.summary = node[t] /\ edge.source = row.id
  OBVIOUS
<1> HIDE DEF edge, row
<1>4. /\ pc'[t] = IF writing[t] = {row} THEN "chunk" ELSE "sources"
      /\ \A u \in Task \ {t} : pc'[u] = pc[u] /\ ~Active(u)
      /\ AtHome(t) /\ OwnUncovered(t) /\ Rebuilt(t) /\ depth[t] \in Nat
  BY <1>1, Frame
<1>5. /\ writing'[t] = writing[t] \ {row} /\ conv[t] = binding
      /\ listed[t] \cap writing[t] = {} /\ listed[t] \cup writing[t] = Pending(t)
      /\ \A a \in writing[t], b \in listed[t] : a.ordinal <= b.ordinal
      /\ Cardinality({e \in sources : e.summary = node[t]}) + Cardinality(writing[t])
           = Fanout(depth[t])
  BY <1>1, <1>4 DEF SInv, TypeOK, AtHome, Rebuilt
<1>6. PICK own \in summaries : own.id = node[t] /\ own.depth = depth[t]
  BY <1>1, <1>4 DEF Rebuilt
<1>7. /\ ~Covered(row)
      /\ depth[t] = 0 => row \in messages /\ row \in Uncovered(conv[t])
      /\ depth[t] # 0 => row \in summaries /\ row \in RootsAt(conv[t], depth[t] - 1)
  BY <1>2, PendingRows DEF Pending
<1>8. \A r : Covered(r)' <=> Covered(r) \/ r.id = row.id
  BY <1>1, <1>3 DEF Covered
<1>9. \A m \in messages : Covered(m)' <=> Covered(m) \/ (depth[t] = 0 /\ m = row)
  BY <1>7, <1>8 DEF SInv, StoreOK, Identified
<1>10. \A s \in summaries : Covered(s)' <=> Covered(s) \/ (depth[t] # 0 /\ s = row)
  BY <1>7, <1>8 DEF SInv, StoreOK, Identified
<1>11. Old(conv[t])' = Old(conv[t]) /\ Uncovered(conv[t]) \subseteq messages
  BY <1>1 DEF Uncovered, Old, Chat, InConv
<1>12. Uncovered(conv[t])' = {m \in Uncovered(conv[t]) : ~(depth[t] = 0 /\ m = row)}
  <2>1. Uncovered(conv[t])' = {m \in Old(conv[t]) : ~Covered(m)'}
    BY <1>1, <1>11 DEF Uncovered
  <2>2. Old(conv[t]) \subseteq messages
    BY DEF Old, Chat, InConv
  <2> QED BY <1>9, <2>1, <2>2 DEF Uncovered
<1>13. \A d : RootsAt(conv[t], d)' = {s \in RootsAt(conv[t], d) : ~(depth[t] # 0 /\ s = row)}
  BY <1>1, <1>10 DEF RootsAt
<1>14. Pending(t)' = Pending(t) \ {row}
  BY <1>1, <1>12, <1>13 DEF Pending
<1>15. StoreOK'
  <2>1. IsFiniteSet(summaries') /\ IsFiniteSet(sources')
    BY <1>1, FS_AddElement DEF SInv, StoreOK
  <2>2. OfTheSession' /\ Identified' /\ Spoken'
    BY <1>1 DEF SInv, StoreOK, OfTheSession, Identified, Spoken, Taken
  <2>3. NothingDangles'
    BY <1>1, <1>3, <1>6, <1>7 DEF SInv, StoreOK, NothingDangles
  <2>4. SummarisedInOrder'
    <3>1. \A e, f \in sources' : e.source = f.source => e.summary = f.summary
      <4>1. \A e \in sources : e.source # row.id
        BY <1>7 DEF Covered
      <4>2. \A e, f \in sources : e.source = f.source => e.summary = f.summary
        BY DEF SInv, StoreOK, SummarisedInOrder
      <4> QED BY <1>1, <1>3, <4>1, <4>2
    <3>2. ASSUME NEW m \in messages, NEW n \in messages, m.conv = n.conv, m.role # "system",
                 n.role # "system", m.ordinal < n.ordinal, Covered(n)'
          PROVE  Covered(m)'
      <4>1. CASE Covered(n)
        <5>1. Covered(m)
          BY <3>2, <4>1 DEF SInv, StoreOK, SummarisedInOrder
        <5> QED BY <1>9, <5>1
      <4>2. CASE ~Covered(n)
        <5>1. depth[t] = 0 /\ n = row /\ n \in Uncovered(conv[t])
          BY <1>7, <1>9, <3>2, <4>2
        <5>2. n \in Old(conv[t]) /\ n.conv = conv[t]
          BY <5>1 DEF Uncovered, Old, Chat, InConv
        <5>3. m \in Chat(conv[t]) /\ m.ordinal \in Nat /\ n.ordinal \in Nat
          BY <3>2, <5>2 DEF Chat, InConv, SInv, TypeOK, MessageRow
        <5>4. m \in Old(conv[t])
          <6>1. messages \subseteq MessageRow /\ IsFiniteSet(messages) /\ FreshTail \in Nat
            BY LosslessAssumption DEF SInv, TypeOK, LInv, Rows
          <6>2. m.ordinal <= n.ordinal
            BY <3>2, <5>3
          <6> QED BY <5>2, <5>3, <6>1, <6>2, OldFromTheStart
        <5>5. ~(n.ordinal <= m.ordinal)
          BY <3>2, <5>3
        <5>6. m \notin Uncovered(conv[t])
          BY <1>2, <5>1, <5>5 DEF Pending
        <5>7. Covered(m)
          BY <5>4, <5>6 DEF Uncovered
        <5> QED BY <1>9, <5>7
      <4> QED BY <4>1, <4>2
    <3> QED BY <1>1, <3>1, <3>2 DEF SummarisedInOrder
  <2> QED BY <2>1, <2>2, <2>3, <2>4 DEF StoreOK
<1>16. FewRoots'
  <2> SUFFICES ASSUME crashes = 0, NEW s \in summaries, ~AtWork(t, s.depth)'
               PROVE  Cardinality(RootsAt(conv[t], s.depth)') < CondensedFanout
    BY <1>1, <1>5 DEF FewRoots, RootsAt
  <2>1. s.depth # depth[t] - 1 /\ ~AtWork(t, s.depth)
    BY <1>1, <1>4 DEF AtWork
  <2>2. RootsAt(conv[t], s.depth)' = RootsAt(conv[t], s.depth)
    BY <1>7, <1>13, <2>1 DEF RootsAt
  <2> QED BY <1>4, <1>5, <2>1, <2>2, FewElsewhere
<1> DEFINE written == {e \in sources : e.summary = node[t]}
<1>17. Cardinality({e \in sources' : e.summary = node[t]}) = Cardinality(written) + 1
       /\ Cardinality(written) \in Nat
  <2>1. {e \in sources' : e.summary = node[t]} = written \cup {edge}
    BY <1>1, <1>3
  <2>2. edge \notin written
    BY <1>3, <1>7 DEF Covered
  <2>3. IsFiniteSet(written)
    BY FS_Subset DEF SInv, StoreOK
  <2> QED BY <2>1, <2>2, <2>3, FS_AddElement, FS_CardinalityType
<1>18. /\ Cardinality(writing'[t]) = Cardinality(writing[t]) - 1 /\ Cardinality(writing[t]) \in Nat
  BY <1>2, <1>5, FS_RemoveElement, FS_CardinalityType
<1>19. Cardinality({e \in sources' : e.summary = node[t]}) + Cardinality(writing'[t]) = Fanout(depth[t])
  BY <1>5, <1>17, <1>18
<1>20. pc'[t] = "chunk" =>
         /\ Cardinality({e \in sources' : e.summary = node[t]}) = Fanout(depth[t])
         /\ listed[t] = Pending(t)'
  <2> SUFFICES ASSUME writing[t] = {row}
               PROVE  /\ Cardinality({e \in sources' : e.summary = node[t]}) = Fanout(depth[t])
                      /\ listed[t] = Pending(t)'
    BY <1>4
  <2>1. Cardinality(writing'[t]) = 0
    BY <1>5, FS_EmptySet
  <2>2. Cardinality({e \in sources' : e.summary = node[t]}) = Fanout(depth[t])
    BY <1>17, <1>19, <2>1
  <2>3. listed[t] = Pending(t)'
    BY <1>5, <1>14
  <2> QED BY <2>2, <2>3
<1>21. SourcesComplete'
  <2> SUFFICES ASSUME crashes = 0, NEW s \in summaries, ~(pc'[t] = "sources" /\ node[t] = s.id)
               PROVE  Cardinality({e \in sources' : e.summary = s.id}) = Fanout(s.depth)
    BY <1>1 DEF SourcesComplete
  <2>1. CASE s.id = node[t]
    <3>1. s = own /\ pc'[t] = "chunk"
      BY <1>4, <1>6, <2>1 DEF SInv, StoreOK, Identified
    <3> QED BY <1>6, <1>20, <3>1
  <2>2. CASE s.id # node[t]
    <3>1. {e \in sources' : e.summary = s.id} = {e \in sources : e.summary = s.id}
      BY <1>1, <1>3, <2>2
    <3>2. \A u \in Task : (pc[u] = "sources" => u = t) /\ pc[u] # "wipeSummaries"
      BY <1>1, <1>4 DEF Active
    <3>3. Cardinality({e \in sources : e.summary = s.id}) = Fanout(s.depth)
      BY <2>2, <3>2, LosslessAssumption DEF SInv, SourcesComplete
    <3> QED BY <3>1, <3>3
  <2> QED BY <2>1, <2>2
<1>22. Quietly(t)'
  BY <1>4 DEF Quietly
<1>23. AtHome(t)'
  BY <1>1, <1>4 DEF AtHome, HasOrdinal, Taken
<1>24. OwnUncovered(t)'
  <2> SUFFICES ASSUME after[t] = "answering", NEW m \in messages, m.turn = t, m.role = "user"
               PROVE  ~Covered(m)' /\ \A n \in messages : n.ordinal <= m.ordinal
    BY <1>1 DEF OwnUncovered
  <2>1. ~Covered(m) /\ \A n \in messages : n.ordinal <= m.ordinal
    BY <1>1, <1>4 DEF OwnUncovered
  <2>2. ~(depth[t] = 0 /\ m = row)
    <3> SUFFICES ASSUME depth[t] = 0, m = row PROVE FALSE
      OBVIOUS
    <3>1. m \in Old(conv[t])
      BY <1>7 DEF Uncovered
    <3>2. messages \subseteq MessageRow /\ FreshTail \in Nat \ {0}
      BY LosslessAssumption DEF SInv, TypeOK
    <3> QED BY <2>1, <3>1, <3>2, NewestIsFresh
  <2> QED BY <1>9, <2>1, <2>2
<1>25. Rebuilt(t)'
  <2>1. pc'[t] = "sources" =>
          /\ writing'[t] # {} /\ listed[t] \cap writing'[t] = {}
          /\ listed[t] \cup writing'[t] = Pending(t)'
          /\ \A a \in writing'[t], b \in listed[t] : a.ordinal <= b.ordinal
    BY <1>2, <1>4, <1>5, <1>14
  <2>2. \E s \in summaries' : s.id = node'[t] /\ s.depth = depth'[t]
    BY <1>1, <1>6
  <2>3. depth[t] > 0 => Cardinality(Uncovered(conv[t])') < LeafFanout
    <3> SUFFICES ASSUME depth[t] > 0 PROVE Cardinality(Uncovered(conv[t])') < LeafFanout
      OBVIOUS
    <3>1. Uncovered(conv[t])' = Uncovered(conv[t])
      BY <1>4, <1>12
    <3> QED BY <1>1, <1>4, <3>1 DEF Rebuilt
  <2>4. Cardinality(Uncovered(conv[t]))' = Cardinality(Uncovered(conv[t])')
    OBVIOUS
  <2> QED BY <1>1, <1>4, <1>19, <1>20, <2>1, <2>2, <2>3, <2>4 DEF Rebuilt
<1>26. TaskOK(t)'
  BY <1>4, <1>23, <1>24, <1>25 DEF TaskOK, Wiped
<1> QED BY <1>1, <1>4, <1>15, <1>16, <1>21, <1>22, <1>26, Assemble

-----------------------------------------------------------------------------
(* Recording.                                                              *)

\* Ids that the tables refer to are older than the next one.
LEMMA IdsOlder ==
  ASSUME SInv
  PROVE  /\ \A r \in messages \cup summaries : r.id < fresh /\ r.id \in Nat
         /\ \A e \in sources : e.source < fresh /\ e.source \in Nat
         /\ fresh \in Nat
<1>1. /\ \A r \in messages \cup summaries : r.id < fresh /\ r.id \in Nat
      /\ fresh \in Nat
  BY DEF SInv, StoreOK, Identified, TypeOK, MessageRow, SummaryRow
<1>2. \A e \in sources : \E r \in messages \cup summaries : r.id = e.source
  BY DEF SInv, StoreOK, NothingDangles
<1> QED BY <1>1, <1>2

\* The row is the last of the conversation, and in no summary.
LEMMA RowAdded ==
  ASSUME SInv, NEW t \in Task,
         pc[t] \in {"system", "opened", "recording", "note", "resetSystem"},
         NEW role, Record(t, role), role = "system" \/ next[t] > 0
  PROVE  /\ StoreOK'
         /\ \E row : /\ messages' = messages \cup {row} /\ row.turn = t /\ row.role = role
                     /\ ~Covered(row)
                     /\ \A m \in messages' : m.ordinal <= row.ordinal
         /\ \A k \in 0..(next'[t] - 1) : Taken(conv[t], k)'
         /\ next'[t] > 0 /\ conv[t] = binding /\ conv[t] # NoConv /\ conv[t] \in convs
         /\ UNCHANGED <<binding, convs, summaries, sources, conv, crashes, overlapped>>
<1> DEFINE row == [id |-> fresh, conv |-> conv[t], ordinal |-> next[t], role |-> role, turn |-> t]
<1>1. Active(t) /\ HasOrdinal(t)
  BY DEF Active, HasOrdinal
<1>2. /\ messages' = messages \cup {row} /\ fresh' = fresh + 1
      /\ next' = [next EXCEPT ![t] = @ + 1]
      /\ UNCHANGED <<binding, convs, summaries, sources, conv, crashes, overlapped>>
  BY <1>1, AlwaysInserted
<1>3. /\ row.id = fresh /\ row.conv = conv[t] /\ row.ordinal = next[t] /\ row.role = role
      /\ row.turn = t
  OBVIOUS
<1> HIDE DEF row
<1>4. AtHome(t) /\ next[t] \in Nat /\ next'[t] = next[t] + 1
  BY <1>1, <1>2 DEF SInv, TaskOK, TypeOK
<1>5. /\ conv[t] # NoConv /\ conv[t] = binding /\ conv[t] \in convs
      /\ \A k \in 0..(next[t] - 1) : Taken(conv[t], k)
  BY <1>1, <1>4 DEF AtHome
<1>6. \A m \in messages : m.conv = conv[t] /\ m.ordinal \in Nat /\ m.ordinal < next[t]
  <2>1. \A m \in messages : m.conv = conv[t] /\ m.ordinal \in Nat
    BY <1>5 DEF SInv, StoreOK, OfTheSession, TypeOK, MessageRow
  <2> QED BY <1>1, <2>1, NotTaken DEF Above, InConv
<1>7. ~Covered(row)
  BY <1>3, IdsOlder DEF Covered
<1>8. \A k : Taken(conv[t], k) => Taken(conv[t], k)'
  BY <1>2 DEF Taken
<1>9. \A k \in 0..next[t] : Taken(conv[t], k)'
  <2>1. \A k : k = next[t] => Taken(conv[t], k)'
    BY <1>2, <1>3, <1>4 DEF Taken
  <2>2. \A k \in 0..next[t] : k \in 0..(next[t] - 1) \/ k = next[t]
    BY <1>4
  <2> QED BY <1>5, <1>8, <2>1, <2>2
<1>10. StoreOK'
  <2>1. IsFiniteSet(summaries') /\ IsFiniteSet(sources')
    BY <1>2 DEF SInv, StoreOK
  <2>2. OfTheSession'
    BY <1>2, <1>3, <1>5 DEF SInv, StoreOK, OfTheSession
  <2>3. Identified'
    <3>1. \A r \in messages \cup summaries : r.id # row.id /\ r.id < fresh + 1
      BY <1>3, IdsOlder
    <3>2. row.id < fresh + 1
      BY <1>3, IdsOlder
    <3> QED BY <1>2, <3>1, <3>2 DEF SInv, StoreOK, Identified
  <2>4. Spoken'
    <3>1. ASSUME NEW m \in messages'
          PROVE  \A k \in 0..m.ordinal : Taken(m.conv, k)'
      <4>1. CASE m \in messages
        <5>1. \A k \in 0..m.ordinal : Taken(m.conv, k)
          BY <4>1 DEF SInv, StoreOK, Spoken
        <5> QED BY <1>2, <5>1 DEF Taken
      <4>2. CASE m = row
        BY <1>2, <1>3, <1>9, <4>2
      <4> QED BY <1>2, <4>1, <4>2
    <3>2. ASSUME NEW m \in messages', NEW n \in messages', n.id < m.id
          PROVE  n.ordinal < m.ordinal
      <4>1. CASE m \in messages /\ n \in messages
        BY <3>2, <4>1 DEF SInv, StoreOK, Spoken
      <4>2. CASE m = row /\ n \in messages
        BY <1>3, <1>6, <4>2
      <4>3. CASE n = row
        <5>1. ~(n.id < m.id)
          BY <1>2, <1>3, <4>3, IdsOlder
        <5> QED BY <3>2, <5>1
      <4> QED BY <1>2, <4>1, <4>2, <4>3
    <3>3. \A m \in messages' : m.ordinal = 0 => m.role = "system"
      <4>1. \A m \in messages : m.ordinal = 0 => m.role = "system"
        BY DEF SInv, StoreOK, Spoken
      <4>2. row.ordinal = 0 => row.role = "system"
        BY <1>3, <1>4
      <4> QED BY <1>2, <4>1, <4>2
    <3> QED BY <1>2, <3>1, <3>2, <3>3 DEF Spoken
  <2>5. NothingDangles'
    BY <1>2, <1>3, <1>5 DEF SInv, StoreOK, NothingDangles
  <2>6. SummarisedInOrder'
    <3>1. \A r : Covered(r)' = Covered(r)
      BY <1>2 DEF Covered
    <3>2. \A m \in messages : ~(row.ordinal < m.ordinal)
      BY <1>3, <1>4, <1>6
    <3>3. \A m, n \in messages :
            (/\ m.conv = n.conv /\ m.role # "system" /\ n.role # "system"
             /\ m.ordinal < n.ordinal /\ Covered(n)) => Covered(m)
      BY DEF SInv, StoreOK, SummarisedInOrder
    <3>4. \A e, f \in sources : e.source = f.source => e.summary = f.summary
      BY DEF SInv, StoreOK, SummarisedInOrder
    <3>5. \A m, n \in messages' :
            (/\ m.conv = n.conv /\ m.role # "system" /\ n.role # "system"
             /\ m.ordinal < n.ordinal /\ Covered(n)) => Covered(m)
      BY <1>2, <1>7, <3>2, <3>3
    <3> QED BY <1>2, <3>1, <3>4, <3>5 DEF SummarisedInOrder
  <2> QED BY <2>1, <2>2, <2>3, <2>4, <2>5, <2>6 DEF StoreOK
<1>11. \A m \in messages' : m.ordinal <= row.ordinal
  BY <1>2, <1>3, <1>4, <1>6
<1>12. next'[t] > 0 /\ \A k \in 0..(next'[t] - 1) : Taken(conv[t], k)'
  BY <1>4, <1>9
<1> QED BY <1>2, <1>3, <1>5, <1>7, <1>10, <1>11, <1>12

\* Where a task goes after it has recorded a row.
LEMMA SoloRecord ==
  ASSUME SInv, LInv', TypeOK', NEW t \in Task,
         pc[t] \in {"system", "opened", "recording", "note", "resetSystem"},
         NEW role, Record(t, role), role = "system" \/ next[t] > 0,
         NEW l \in {"opened", "list", "recording", "finished"}, Goto(t, l),
         l = "opened" => pc[t] = "system" /\ role = "system",
         l \in {"list", "recording"} => \/ pc[t] = "opened"
                                        \/ after'[t] = "finished"
                                        \/ l = pc[t] /\ after' = after
  PROVE  SInv'
<1>1. /\ StoreOK' /\ \A k \in 0..(next'[t] - 1) : Taken(conv[t], k)'
      /\ next'[t] > 0 /\ conv[t] = binding /\ conv[t] # NoConv /\ conv[t] \in convs
      /\ UNCHANGED <<binding, convs, summaries, sources, conv, crashes, overlapped>>
  BY RowAdded
<1>2. PICK row : /\ messages' = messages \cup {row} /\ row.turn = t /\ row.role = role
                 /\ ~Covered(row)
                 /\ \A m \in messages' : m.ordinal <= row.ordinal
  BY RowAdded
<1>3. Active(t)
  BY DEF Active
<1>4. /\ pc'[t] = l /\ \A u \in Task \ {t} : pc'[u] = pc[u] /\ ~Active(u)
      /\ OwnUncovered(t) /\ Quietly(t)
  BY <1>3, Frame
<1>5. FewRoots'
  BY <1>1, <1>4, StillFew
<1>6. SourcesComplete'
  BY <1>1, <1>4, SourcesStill
<1>7. Quietly(t)'
  <2> SUFFICES ASSUME l = "opened", NEW m \in messages' PROVE ~(m.turn = t /\ m.role = "user")
    BY <1>4 DEF Quietly
  <2> QED BY <1>2, <1>4 DEF Quietly
<1>8. AtHome(t)'
  BY <1>1, <1>4 DEF AtHome
<1>9. OwnUncovered(t)'
  <2> SUFFICES ASSUME after'[t] = "answering", l \in {"list", "recording"},
                      NEW m \in messages', m.turn = t, m.role = "user"
               PROVE  ~Covered(m) /\ (l = "list" => \A n \in messages' : n.ordinal <= m.ordinal)
    BY <1>1, <1>4 DEF OwnUncovered, Covered
  <2>1. CASE m = row
    BY <1>2, <2>1
  <2>2. CASE m \in messages
    <3>1. l = pc[t] /\ pc[t] = "recording" /\ after[t] = "answering"
      BY <1>4, <2>2 DEF Quietly
    <3> QED BY <1>4, <2>2, <3>1 DEF OwnUncovered
  <2> QED BY <1>2, <2>1, <2>2
<1>10. TaskOK(t)'
  BY <1>4, <1>8, <1>9 DEF TaskOK, Wiped, Rebuilt
<1> QED BY <1>1, <1>2, <1>4, <1>5, <1>6, <1>7, <1>10, Assemble

LEMMA SoloRecording ==
  ASSUME SInv, LInv', TypeOK', NEW t \in Task,
         \/ RecordSystem(t) \/ RecordUser(t) \/ RecordUserAndReply(t) \/ RecordReply(t)
         \/ RecordNote(t) \/ RecordSystemAgain(t)
  PROVE  SInv'
<1>1. /\ pc \in [Task -> PC] /\ after \in [Task -> {"answering", "finished"}]
      /\ pc[t] \in {"opened", "recording", "note"} => next[t] > 0
  BY DEF SInv, TypeOK, TaskOK, Active, AtHome
<1>2. CASE RecordSystem(t)
  <2>1. pc[t] = "system" /\ Record(t, "system") /\ Active(t) /\ HasOrdinal(t)
    BY <1>2 DEF RecordSystem, Active, HasOrdinal
  <2>2. Goto(t, "opened")
    BY <1>2, <2>1, NotTaken DEF RecordSystem
  <2> QED BY <2>1, <2>2, SoloRecord
<1>3. CASE RecordUser(t)
  <2>1. pc[t] = "opened" /\ Record(t, "user") /\ Goto(t, "list")
    BY <1>3 DEF RecordUser
  <2> QED BY <1>1, <2>1, SoloRecord
<1>4. CASE RecordUserAndReply(t)
  <2>1. pc[t] = "opened" /\ Record(t, "user") /\ Goto(t, "recording")
    BY <1>4 DEF RecordUserAndReply
  <2> QED BY <1>1, <2>1, SoloRecord
<1>5. CASE RecordReply(t)
  <2>1. pc[t] = "recording" /\ Record(t, "assistant") /\ pc' = pc /\ after' = after
    BY <1>5 DEF RecordReply, rebuild
  <2>2. Goto(t, "recording")
    BY <1>1, <2>1 DEF Goto
  <2> QED BY <1>1, <2>1, <2>2, SoloRecord
<1>6. CASE RecordNote(t)
  <2>1. pc[t] = "note" /\ Goto(t, "list") /\ after' = [after EXCEPT ![t] = "finished"]
    BY <1>6 DEF RecordNote
  <2>2. after'[t] = "finished"
    BY <1>1, <2>1
  <2>3. CASE Record(t, "assistant")
    BY <1>1, <2>1, <2>2, <2>3, SoloRecord
  <2>4. CASE UNCHANGED <<tables, handle, aux>>
    BY <2>1, <2>4, SoloTurning
  <2> QED BY <1>6, <2>3, <2>4 DEF RecordNote
<1>7. CASE RecordSystemAgain(t)
  <2>1. pc[t] = "resetSystem" /\ Record(t, "system") /\ Goto(t, "finished")
    BY <1>7 DEF RecordSystemAgain
  <2> QED BY <2>1, SoloRecord
<1> QED BY <1>2, <1>3, <1>4, <1>5, <1>6, <1>7

-----------------------------------------------------------------------------
(* Taking rows back.                                                       *)

\* The row a rollback deletes is the last one, and in no summary.
LEMMA SoloRollback ==
  ASSUME SInv, LInv', TypeOK', NEW t \in Task, Rollback(t)
  PROVE  SInv'
<1>1. /\ pc[t] = "recording" /\ after[t] = "answering" /\ Active(t) /\ Goto(t, "note")
      /\ UNCHANGED <<binding, convs, summaries, sources, fresh, conv, after, crashes, overlapped>>
      /\ \/ \E m \in InConv(conv[t]) :
              /\ Newest(m) /\ m.role = "user" /\ m.turn = t
              /\ messages' = messages \ {m} /\ next' = [next EXCEPT ![t] = m.ordinal]
         \/ UNCHANGED <<messages, next>>
  BY DEF Rollback, RolledBackTo, Active, rebuild, aux
<1>2. /\ pc'[t] = "note" /\ \A u \in Task \ {t} : pc'[u] = pc[u] /\ ~Active(u)
      /\ AtHome(t) /\ OwnUncovered(t) /\ Quietly(t) /\ next \in [Task -> Nat]
  BY <1>1, Frame
<1>3. FewRoots' /\ SourcesComplete'
  BY <1>1, <1>2, StillFew, SourcesStill
<1>4. Quietly(t)'
  BY <1>2 DEF Quietly
<1>5. CASE UNCHANGED <<messages, next>>
  <2>1. AtHome(t)'
    BY <1>1, <1>2, <1>5 DEF AtHome, HasOrdinal, Taken
  <2>2. TaskOK(t)'
    BY <1>2, <2>1 DEF TaskOK, Wiped, OwnUncovered, Rebuilt
  <2> QED BY <1>1, <1>2, <1>3, <1>4, <1>5, <2>2, CalmStep
<1>6. ASSUME NEW m \in InConv(conv[t]), Newest(m), m.role = "user", m.turn = t,
             messages' = messages \ {m}, next' = [next EXCEPT ![t] = m.ordinal]
      PROVE  SInv'
  <2>1. /\ m \in messages /\ m.conv = conv[t] /\ next'[t] = m.ordinal
        /\ \A n \in messages : n.ordinal \in Nat
    BY <1>2, <1>6 DEF InConv, SInv, TypeOK, MessageRow
  <2>2. ~Covered(m) /\ m.ordinal > 0
    <3>1. ~Covered(m)
      BY <1>1, <1>2, <1>6, <2>1 DEF OwnUncovered
    <3>2. m.ordinal # 0
      BY <1>6, <2>1 DEF SInv, StoreOK, Spoken
    <3> QED BY <2>1, <3>1, <3>2
  <2>3. conv[t] = binding /\ conv[t] # NoConv /\ conv[t] \in convs
    BY <1>1, <1>2 DEF AtHome
  <2>4. \A n \in messages' : n \in messages /\ n.conv = conv[t] /\ n.ordinal < m.ordinal
    <3> SUFFICES ASSUME NEW n \in messages'
                 PROVE  n \in messages /\ n.conv = conv[t] /\ n.ordinal < m.ordinal
      OBVIOUS
    <3>1. n \in messages /\ n # m /\ n.conv = conv[t]
      BY <1>6, <2>3 DEF SInv, StoreOK, OfTheSession
    <3>2. n.ordinal <= m.ordinal
      BY <1>6, <2>1, <3>1 DEF Newest, InConv
    <3>3. n.ordinal # m.ordinal
      BY <2>1, <3>1 DEF SInv, LInv, Rows
    <3> QED BY <2>1, <3>1, <3>2, <3>3
  <2>5. \A k \in 0..(m.ordinal - 1) : Taken(conv[t], k)'
    <3> SUFFICES ASSUME NEW k \in 0..(m.ordinal - 1)
                 PROVE  \E n \in messages' : n.conv = conv[t] /\ n.ordinal = k
      BY <1>1 DEF Taken
    <3>1. k \in 0..m.ordinal /\ k # m.ordinal
      BY <2>1
    <3>2. Taken(conv[t], k)
      BY <2>1, <3>1 DEF SInv, StoreOK, Spoken
    <3> QED BY <1>6, <3>1, <3>2 DEF Taken
  <2>6. StoreOK'
    <3>1. IsFiniteSet(summaries') /\ IsFiniteSet(sources')
      BY <1>1 DEF SInv, StoreOK
    <3>2. OfTheSession' /\ Identified'
      BY <1>1, <1>6, <2>3 DEF SInv, StoreOK, OfTheSession, Identified
    <3>3. Spoken'
      <4>1. ASSUME NEW n \in messages'
            PROVE  \A k \in 0..n.ordinal : Taken(n.conv, k)'
        <5>1. n.conv = conv[t] /\ \A k \in 0..n.ordinal : k \in 0..(m.ordinal - 1)
          BY <2>1, <2>4
        <5> QED BY <1>1, <2>5, <5>1 DEF Taken
      <4> QED BY <1>6, <4>1 DEF SInv, StoreOK, Spoken
    <3>4. NothingDangles'
      <4>1. \A e \in sources : e.source # m.id
        BY <2>2 DEF Covered
      <4> QED BY <1>1, <1>6, <4>1 DEF SInv, StoreOK, NothingDangles
    <3>5. SummarisedInOrder'
      BY <1>1, <1>6 DEF SInv, StoreOK, SummarisedInOrder, Covered
    <3> QED BY <3>1, <3>2, <3>3, <3>4, <3>5 DEF StoreOK
  <2>7. AtHome(t)'
    <3>1. conv'[t] = binding' /\ conv'[t] # NoConv /\ conv'[t] \in convs'
      BY <1>1, <2>3
    <3>2. next'[t] > 0 /\ \A k \in 0..(next'[t] - 1) : Taken(conv[t], k)'
      BY <1>1, <2>1, <2>2, <2>5 DEF Taken
    <3> QED BY <1>1, <1>2, <3>1, <3>2 DEF AtHome
  <2>8. TaskOK(t)'
    BY <1>2, <2>7 DEF TaskOK, Wiped, OwnUncovered, Rebuilt
  <2> QED BY <1>1, <1>2, <1>3, <1>4, <1>6, <2>6, <2>8, Assemble
<1> QED BY <1>1, <1>5, <1>6

\* All summaries are of the conversation that is reset.
LEMMA SoloWipeSources ==
  ASSUME SInv, LInv', TypeOK', NEW t \in Task, WipeSources(t)
  PROVE  SInv'
<1>1. /\ pc[t] = "wipeSources" /\ Active(t) /\ Goto(t, "wipeSummaries")
      /\ sources' = {s \in sources : ~\E n \in summaries : n.id = s.summary /\ n.conv = conv[t]}
      /\ UNCHANGED <<binding, convs, messages, summaries, fresh, conv, next, crashes, overlapped>>
  BY DEF WipeSources, Active, handle, aux
<1>2. /\ pc'[t] = "wipeSummaries" /\ \A u \in Task \ {t} : pc'[u] = pc[u] /\ ~Active(u)
      /\ AtHome(t) /\ Wiped(t)
  BY <1>1, Frame
<1>3. conv[t] = binding /\ t \in Resets
  BY <1>1, <1>2 DEF AtHome, Wiped
<1>4. \A s \in summaries : s.conv = conv[t]
  BY <1>3 DEF SInv, StoreOK, OfTheSession
<1>5. sources' = {}
  <2>1. \A e \in sources : \E s \in summaries : s.id = e.summary
    BY DEF SInv, StoreOK, NothingDangles
  <2> QED BY <1>1, <1>4, <2>1
<1>6. StoreOK'
  <2>1. IsFiniteSet(summaries') /\ IsFiniteSet(sources')
    BY <1>1, <1>5, FS_EmptySet DEF SInv, StoreOK
  <2>2. OfTheSession' /\ Identified' /\ Spoken'
    BY <1>1 DEF SInv, StoreOK, OfTheSession, Identified, Spoken, Taken
  <2>3. NothingDangles' /\ SummarisedInOrder'
    BY <1>1, <1>5 DEF SInv, StoreOK, NothingDangles, SummarisedInOrder, Covered
  <2> QED BY <2>1, <2>2, <2>3 DEF StoreOK
<1>7. FewRoots'
  BY <1>2 DEF FewRoots, AtWork
<1>8. SourcesComplete'
  BY <1>1, <1>2, <1>3, <1>4 DEF SourcesComplete
<1>9. Quietly(t)'
  BY <1>2 DEF Quietly
<1>10. AtHome(t)'
  BY <1>1, <1>2 DEF AtHome, HasOrdinal, Taken
<1>11. TaskOK(t)'
  BY <1>2, <1>3, <1>5, <1>10 DEF TaskOK, Wiped, OwnUncovered, Rebuilt
<1> QED BY <1>1, <1>2, <1>6, <1>7, <1>8, <1>9, <1>11, Assemble

LEMMA SoloWipeSummaries ==
  ASSUME SInv, LInv', TypeOK', NEW t \in Task, WipeSummaries(t)
  PROVE  SInv'
<1>1. /\ pc[t] = "wipeSummaries" /\ Active(t) /\ Goto(t, "wipeMessages")
      /\ summaries' = {s \in summaries : s.conv # conv[t]}
      /\ UNCHANGED <<binding, convs, messages, sources, fresh, conv, next, crashes, overlapped>>
  BY DEF WipeSummaries, Active, handle, aux
<1>2. /\ pc'[t] = "wipeMessages" /\ \A u \in Task \ {t} : pc'[u] = pc[u] /\ ~Active(u)
      /\ AtHome(t) /\ Wiped(t)
  BY <1>1, Frame
<1>3. conv[t] = binding /\ t \in Resets /\ sources = {}
  BY <1>1, <1>2 DEF AtHome, Wiped
<1>4. summaries' = {}
  BY <1>1, <1>3 DEF SInv, StoreOK, OfTheSession
<1>5. StoreOK'
  <2>1. IsFiniteSet(summaries') /\ IsFiniteSet(sources')
    BY <1>1, <1>3, <1>4, FS_EmptySet
  <2>2. OfTheSession' /\ Identified' /\ Spoken'
    BY <1>1, <1>4 DEF SInv, StoreOK, OfTheSession, Identified, Spoken, Taken
  <2>3. NothingDangles' /\ SummarisedInOrder'
    BY <1>1, <1>3, <1>4 DEF SInv, StoreOK, NothingDangles, SummarisedInOrder, Covered
  <2> QED BY <2>1, <2>2, <2>3 DEF StoreOK
<1>6. FewRoots' /\ SourcesComplete' /\ Quietly(t)'
  BY <1>2, <1>4 DEF FewRoots, SourcesComplete, Quietly
<1>7. AtHome(t)'
  BY <1>1, <1>2 DEF AtHome, HasOrdinal, Taken
<1>8. TaskOK(t)'
  BY <1>1, <1>2, <1>3, <1>4, <1>7 DEF TaskOK, Wiped, OwnUncovered, Rebuilt
<1> QED BY <1>1, <1>2, <1>5, <1>6, <1>8, Assemble

\* From here on the tables are empty.
LEMMA SoloEmptied ==
  ASSUME SInv, LInv', TypeOK', NEW t \in Task, overlapped' = overlapped,
         messages' = {}, summaries' = {}, sources' = {}, t \in Resets,
         pc'[t] \in {"wipeConv", "create", "rebind", "resetSystem"},
         \A u \in Task \ {t} : pc'[u] = pc[u] /\ ~Active(u), AtHome(t)'
  PROVE  SInv'
<1>1. StoreOK'
  BY FS_EmptySet DEF StoreOK, OfTheSession, Identified, Spoken, NothingDangles, SummarisedInOrder
<1>2. FewRoots' /\ SourcesComplete' /\ Quietly(t)'
  BY DEF FewRoots, SourcesComplete, Quietly
<1>3. TaskOK(t)'
  BY DEF TaskOK, Wiped, OwnUncovered, Rebuilt
<1> QED BY <1>1, <1>2, <1>3, Assemble

LEMMA SoloEmptying ==
  ASSUME SInv, LInv', TypeOK', NEW t \in Task,
         WipeMessages(t) \/ WipeConversation(t) \/ CreateConversation(t) \/ Rebind(t)
  PROVE  SInv'
<1>1. /\ pc[t] \in {"wipeMessages", "wipeConv", "create", "rebind"} /\ Active(t)
      /\ UNCHANGED <<summaries, sources, overlapped>>
      /\ \E l \in {"wipeConv", "create", "rebind", "resetSystem"} : Goto(t, l)
      /\ pc[t] = "wipeMessages" => messages' = messages \ InConv(conv[t])
      /\ pc[t] # "wipeMessages" => messages' = messages
  BY DEF WipeMessages, WipeConversation, CreateConversation, Rebind, Active, aux
<1>2. /\ pc'[t] \in {"wipeConv", "create", "rebind", "resetSystem"}
      /\ \A u \in Task \ {t} : pc'[u] = pc[u] /\ ~Active(u)
      /\ AtHome(t) /\ Wiped(t) /\ pc \in [Task -> PC] /\ conv \in [Task -> Nat] /\ next \in [Task -> Nat]
  BY <1>1, Frame
<1>3. summaries = {} /\ sources = {} /\ t \in Resets /\ (pc[t] # "wipeMessages" => messages = {})
  BY <1>1, <1>2 DEF Wiped
<1>4. messages' = {}
  <2>1. CASE pc[t] = "wipeMessages"
    <3>1. conv[t] = binding
      BY <1>2, <2>1 DEF AtHome
    <3> QED BY <1>1, <2>1, <3>1 DEF SInv, StoreOK, OfTheSession, InConv
  <2>2. CASE pc[t] # "wipeMessages"
    BY <1>1, <1>3, <2>2
  <2> QED BY <2>1, <2>2
<1>5. AtHome(t)'
  <2>1. CASE WipeMessages(t)
    <3>1. /\ pc[t] = "wipeMessages" /\ pc'[t] = "wipeConv" /\ UNCHANGED <<binding, convs, conv>>
      BY <1>2, <2>1 DEF WipeMessages, Goto, handle
    <3> QED BY <1>2, <3>1 DEF AtHome
  <2>2. CASE WipeConversation(t)
    <3>1. /\ pc[t] = "wipeConv" /\ pc'[t] = "create" /\ UNCHANGED <<binding, conv>>
      BY <1>2, <2>2 DEF WipeConversation, Goto, handle
    <3> QED BY <1>2, <3>1 DEF AtHome
  <2>3. CASE CreateConversation(t)
    <3>1. /\ pc'[t] = "rebind" /\ conv'[t] = fresh /\ fresh \in convs' /\ next'[t] = 0
      BY <1>2, <2>3 DEF CreateConversation, Goto
    <3>2. fresh # NoConv
      BY DEF SInv, LInv, IdsUsed, Typing, Generated, NoConv
    <3> QED BY <3>1, <3>2 DEF AtHome
  <2>4. CASE Rebind(t)
    <3>1. /\ pc[t] = "rebind" /\ pc'[t] = "resetSystem" /\ UNCHANGED <<convs, conv, next, messages>>
          /\ binding' = conv[t]
      BY <1>2, <2>4 DEF Rebind, Goto, handle
    <3> QED BY <1>2, <3>1 DEF AtHome, HasOrdinal, Taken
  <2> QED BY <2>1, <2>2, <2>3, <2>4
<1> QED BY <1>1, <1>2, <1>3, <1>4, <1>5, SoloEmptied

-----------------------------------------------------------------------------

LEMMA InitSInv == Init => SInv
<1> SUFFICES ASSUME Init PROVE SInv
  OBVIOUS
<1>1. LInv
  BY InitLInv
<1>2. TypeOK /\ overlapped = {}
  BY LosslessAssumption DEF Init, TypeOK, PC, NoConv, Generated
<1>3. StoreOK
  BY FS_EmptySet DEF Init, StoreOK, OfTheSession, Identified, Spoken, NothingDangles,
     SummarisedInOrder
<1>4. FewRoots /\ SourcesComplete
  BY DEF Init, FewRoots, SourcesComplete
<1>5. \A t \in Task : Quietly(t) /\ TaskOK(t)
  BY DEF Init, Quietly, TaskOK, Active
<1> QED BY <1>1, <1>2, <1>3, <1>4, <1>5 DEF SInv

\* A crash leaves nobody in flight.
LEMMA SoloCrash ==
  ASSUME SInv, LInv', TypeOK', Crash
  PROVE  SInv'
<1>1. /\ UNCHANGED <<binding, convs, messages, summaries, sources, fresh, overlapped>>
      /\ crashes' = crashes + 1 /\ crashes \in Nat
      /\ pc' = [t \in Task |-> IF Active(t) THEN "gone" ELSE pc[t]]
  BY DEF Crash, tables, SInv, TypeOK
<1>2. StoreOK'
  BY <1>1 DEF SInv, StoreOK, OfTheSession, Identified, Spoken, NothingDangles, SummarisedInOrder,
     Taken, Covered
<1>3. FewRoots' /\ SourcesComplete'
  BY <1>1 DEF FewRoots, SourcesComplete
<1>4. \A t \in Task : Quietly(t)' /\ TaskOK(t)'
  BY <1>1 DEF SInv, Quietly, TaskOK, Active
<1> QED BY <1>1, <1>2, <1>3, <1>4 DEF SInv

LEMMA SoloStutter ==
  ASSUME SInv, LInv', TypeOK', UNCHANGED vars
  PROVE  SInv'
<1> USE DEF vars, tables, handle, rebuild, aux
<1>1. StoreOK'
  BY DEF SInv, StoreOK, OfTheSession, Identified, Spoken, NothingDangles, SummarisedInOrder,
     Taken, Covered
<1>2. FewRoots'
  BY DEF SInv, FewRoots, AtWork, RootsAt, Covered
<1>3. SourcesComplete'
  BY DEF SInv, SourcesComplete
<1>4. \A t \in Task : Quietly(t)'
  BY DEF SInv, Quietly
<1>5. ASSUME NEW t \in Task PROVE TaskOK(t)'
  <2>1. CASE ~Active(t)
    BY <2>1 DEF TaskOK, Active
  <2>2. CASE Active(t)
    <3>1. AtHome(t) /\ Wiped(t) /\ OwnUncovered(t) /\ Rebuilt(t)
      BY <2>2 DEF SInv, TaskOK
    <3>2. AtHome(t)' /\ Wiped(t)' /\ OwnUncovered(t)'
      BY <3>1 DEF AtHome, HasOrdinal, Taken, Wiped, OwnUncovered, Covered
    <3>3. Pending(t)' = Pending(t) /\ Uncovered(conv[t])' = Uncovered(conv[t])
      BY DEF Pending, Uncovered, RootsAt, Old, Chat, InConv, Covered
    <3>4. Rebuilt(t)'
      BY <3>1, <3>3 DEF Rebuilt
    <3> QED BY <3>2, <3>4 DEF TaskOK
  <2> QED BY <2>1, <2>2
<1> QED BY <1>1, <1>2, <1>3, <1>4, <1>5 DEF SInv

\* Every step of a task that is alone preserves the invariant.
LEMMA NextSInv ==
  ASSUME MaxActive = 1, SInv, [Next]_vars
  PROVE  SInv'
<1>1. LInv'
  BY NextLInv DEF SInv
<1>2. TypeOK'
  BY <1>1, TypeStep
<1>3. CASE UNCHANGED vars
  BY <1>1, <1>2, <1>3, SoloStutter
<1>4. CASE Crash
  BY <1>1, <1>2, <1>4, SoloCrash
<1>5. ASSUME NEW t \in Task, Opening(t) PROVE SInv'
  BY <1>1, <1>2, <1>5, SoloStart, SoloBind, SoloReadOrdinal, SoloRecording DEF Opening
<1>6. ASSUME NEW t \in Task, Turning(t) PROVE SInv'
  BY <1>1, <1>2, <1>6, SoloRecording, SoloTurning, SoloRollback DEF Turning
<1>7. ASSUME NEW t \in Task, Rebuilding(t) PROVE SInv'
  BY <1>1, <1>2, <1>7, SoloListMessages, SoloLeaveChunk, SoloListRoots, SoloInsertSummary,
     SoloInsertSource DEF Rebuilding
<1>8. ASSUME NEW t \in Task, Resetting(t) PROVE SInv'
  BY <1>1, <1>2, <1>8, SoloTurning, SoloWipeSources, SoloWipeSummaries, SoloEmptying,
     SoloRecording DEF Resetting
<1> QED BY <1>3, <1>4, <1>5, <1>6, <1>7, <1>8 DEF Next, Ended

LEMMA SoloInvariance == ASSUME MaxActive = 1 PROVE Spec => []SInv
<1>1. SInv /\ [Next]_vars => SInv'
  BY NextSInv
<1> QED BY <1>1, InitSInv, PTL DEF Spec

\* One task at a time leaves a transcript without holes, in the order in which it
\* was spoken, and no reference to a row that is gone, whatever is rolled back,
\* reset or cut short by a crash.
\* (record_raw_message, rollback_latest_raw_message, reset)
THEOREM TranscriptKept == ASSUME MaxActive = 1 PROVE Spec => []TranscriptIntact
<1>1. SInv => TranscriptIntact
  BY DEF SInv, StoreOK, Spoken, TranscriptIntact, InConv
<1> QED BY <1>1, SoloInvariance, PTL

\* One task at a time summarises every message once and in order, and completes
\* each summary that no crash cuts short.  (ensure_leaf_summaries, insert_summary)
THEOREM SummariesSound == ASSUME MaxActive = 1 PROVE Spec => []HierarchySound
<1>1. SInv => HierarchySound
  BY DEF SInv, StoreOK, HierarchySound
<1> QED BY <1>1, SoloInvariance, PTL

\* What the model is shown after a rebuild is bounded by the fanouts at each depth,
\* for any fanouts.  (ensure_leaf_summaries, ensure_condensed_summaries)
THEOREM HistoryBounded == ASSUME MaxActive = 1 PROVE Spec => []RebuildBounded
<1>1. SInv => RebuildBounded
  <2> SUFFICES ASSUME SInv, NEW t \in Task, pc[t] = "answering"
               PROVE  /\ Cardinality(Uncovered(conv[t])) < LeafFanout
                      /\ crashes = 0 => \A s \in summaries :
                           Cardinality(RootsAt(conv[t], s.depth)) < CondensedFanout
    BY DEF RebuildBounded
  <2>1. Active(t)
    BY DEF Active
  <2>2. AtHome(t) /\ Rebuilt(t) /\ \A u \in Task \ {t} : ~Active(u)
    BY <2>1, Solo DEF SInv, TaskOK
  <2>3. conv[t] = binding
    BY <2>2 DEF AtHome
  <2>4. \A s \in summaries : ~AtWork(t, s.depth)
    BY DEF AtWork
  <2> QED BY <2>2, <2>3, <2>4, FewElsewhere DEF Rebuilt
<1> QED BY <1>1, SoloInvariance, PTL
=============================================================================
