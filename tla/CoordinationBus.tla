-------------------------- MODULE CoordinationBus --------------------------
(***************************************************************************)
(* InMemoryMessageBus of coordination/mod.rs: per-agent inboxes, a window  *)
(* of message ids for idempotency, dead letters, and a shared context      *)
(* written by patches that name the version they expect.                   *)
(*                                                                         *)
(* Every operation runs under one mutex, so an operation is one step.      *)
(* What is hard is that the maps the state is made of index each other,    *)
(* and that every one of them evicts its oldest entry at its limit.        *)
(*                                                                         *)
(* seen_message_ids holds the ids of seen_message_order; a count or a      *)
(* version of 0 stands for an absent entry.                                *)
(***************************************************************************)
EXTENDS Naturals, Sequences, FiniteSets, SequencesExt

CONSTANTS
  Agent,       \* agent names, registered or not
  Corr,        \* correlation ids
  NoCorr,      \* an envelope or an entry without one
  Key,         \* context keys
  NoKey,       \* the payload is not a ContextPatch
  DelegateOf,  \* the correlation a "delegate/..." key names, else NoCorr;
               \* a key of that prefix and a wrong shape is refused like a
               \* wrong correlation, and has no value of its own here
  Id,          \* message ids
  All,         \* the target of a broadcast
  MaxInbox, MaxDead, MaxContext, MaxSeen \* limits, at least 1 each

ASSUME BusAssumption ==
  /\ NoCorr \notin Corr /\ NoKey \notin Key /\ All \notin Agent
  /\ DelegateOf \in [Key -> Corr \cup {NoCorr}]
  /\ {MaxInbox, MaxDead, MaxContext, MaxSeen} \subseteq Nat \ {0}

VARIABLES
  attempts,       \* stats.publish_attempts_total
  nextSequence,   \* next_sequence
  seenOrder,      \* seen_message_order
  inboxes,        \* inboxes: registered agents only
  inboxCounts,    \* inbox_correlation_counts
  deadLetters,    \* dead_letters
  deadByCorr,     \* dead_letters_by_correlation
  version,        \* context: the version of each key
  contextOrder,   \* context_order, least recently written first
  delegateOrder,  \* delegate_context_order
  orderByCorr,    \* context_order_by_correlation
  delegateByCorr, \* delegate_context_order_by_correlation
  corrOf          \* context_correlation_by_key

inboxVars   == <<inboxes, inboxCounts>>
deadVars    == <<deadLetters, deadByCorr>>
contextVars == <<version, contextOrder, delegateOrder, orderByCorr,
                 delegateByCorr, corrOf>>
vars == <<attempts, nextSequence, seenOrder, inboxVars, deadVars, contextVars>>

Envelope == [id : Id, corr : Corr \cup {NoCorr}, to : Agent \cup {All},
             key : Key \cup {NoKey}, expected : Nat]
Letter == [id : Id, corr : Corr \cup {NoCorr}]
Entry  == [sequence : Nat, id : Id, corr : Corr \cup {NoCorr}]

\* The elements of s that are in T, in the order they have in s: SelectSeq, as a
\* recursive function, which can be reasoned about.
Only(s, T) ==
  LET only[i \in 0..Len(s)] ==
        IF i = 0 THEN <<>>
        ELSE IF s[i] \in T THEN Append(only[i - 1], s[i]) ELSE only[i - 1]
  IN only[Len(s)]

\* The members of S, letters or entries, of correlation c.
OfCorr(S, c) == {x \in S : x.corr = c}

Registered == DOMAIN inboxes
Stored == {k \in Key : version[k] > 0}

TypeOK ==
  /\ attempts \in Nat /\ nextSequence \in 0..attempts
  /\ seenOrder \in Seq(Id) /\ Len(seenOrder) <= MaxSeen
  /\ Registered \subseteq Agent
  /\ \A a \in Registered : inboxes[a] \in Seq(Entry) /\ Len(inboxes[a]) <= MaxInbox
  /\ inboxCounts \in [Registered -> [Corr -> Nat]]
  /\ deadLetters \in Seq(Letter) /\ Len(deadLetters) <= MaxDead
  /\ deadByCorr \in [Corr -> Seq(Letter)]
  /\ version \in [Key -> Nat] /\ Cardinality(Stored) <= MaxContext
  /\ contextOrder \in Seq(Key) /\ delegateOrder \in Seq(Key)
  /\ orderByCorr \in [Corr -> Seq(Key)] /\ delegateByCorr \in [Corr -> Seq(Key)]
  /\ corrOf \in [Key -> Corr \cup {NoCorr}]

\* A fresh bus and the calls that register its first agents.
InitWith(agents) ==
  /\ attempts = 0 /\ nextSequence = 0 /\ seenOrder = <<>>
  /\ inboxes = [a \in agents |-> <<>>]
  /\ inboxCounts = [a \in agents |-> [c \in Corr |-> 0]]
  /\ deadLetters = <<>> /\ deadByCorr = [c \in Corr |-> <<>>]
  /\ version = [k \in Key |-> 0] /\ contextOrder = <<>> /\ delegateOrder = <<>>
  /\ orderByCorr = [c \in Corr |-> <<>>] /\ delegateByCorr = [c \in Corr |-> <<>>]
  /\ corrOf = [k \in Key |-> NoCorr]

-----------------------------------------------------------------------------
(* Dead letters.                                                           *)

\* Fault: the index is not told of the eviction.
KeepEvicted(by, evicted) == by

\* The index loses the first letter of the evicted letter's correlation.
DropEvicted(by, evicted) ==
  IF evicted.corr = NoCorr \/ by[evicted.corr] = <<>> THEN by
  ELSE [by EXCEPT ![evicted.corr] = Tail(@)]

\* push_dead_letter_locked
DeadLettered(dead, letter) ==
  LET full == Len(dead.all) >= MaxDead
      by == IF full THEN DropEvicted(dead.by, Head(dead.all)) ELSE dead.by
  IN [all |-> Append(IF full THEN Tail(dead.all) ELSE dead.all, letter),
      by |-> IF letter.corr = NoCorr THEN by
             ELSE [by EXCEPT ![letter.corr] = Append(@, letter)]]

\* The letters are pushed one by one.
Bury(letters) ==
  LET dead[i \in 0..Len(letters)] ==
        IF i = 0 THEN [all |-> deadLetters, by |-> deadByCorr]
        ELSE DeadLettered(dead[i - 1], letters[i])
  IN /\ deadLetters' = dead[Len(letters)].all
     /\ deadByCorr' = dead[Len(letters)].by

LetterOf(e) == [id |-> e.id, corr |-> e.corr]

-----------------------------------------------------------------------------
(* Inboxes.                                                                *)

Full(a) == Len(inboxes[a]) >= MaxInbox

\* increment_correlation_count and decrement_correlation_count
Counted(counts, c) == IF c = NoCorr THEN counts ELSE [counts EXCEPT ![c] = @ + 1]

\* The counts once these entries have left the inbox; a count never wraps.
Uncounted(counts, entries) ==
  [c \in Corr |-> LET gone == Len(Only(entries, OfCorr(Entry, c)))
                  IN IF counts[c] <= gone THEN 0 ELSE counts[c] - gone]

\* The counts once the oldest entry of a full inbox is dropped.
CountsAfterDrop(a) ==
  IF Full(a) THEN Uncounted(inboxCounts[a], <<Head(inboxes[a])>>) ELSE inboxCounts[a]

\* push_inbox_entry_locked for each receiver; what overflows is dead-lettered,
\* for a broadcast in the order of a HashMap.
DeliverTo(receivers, entry) ==
  /\ inboxes' = [a \in Registered |->
       IF a \notin receivers THEN inboxes[a]
       ELSE Append(IF Full(a) THEN Tail(inboxes[a]) ELSE inboxes[a], entry)]
  /\ inboxCounts' = [a \in Registered |->
       IF a \notin receivers THEN inboxCounts[a]
       ELSE Counted(CountsAfterDrop(a), entry.corr)]
  /\ \E order \in SetToSeqs({a \in receivers : Full(a)}) :
       Bury([i \in DOMAIN order |-> LetterOf(Head(inboxes[order[i]]))])

-----------------------------------------------------------------------------
(* Shared context: apply_context_patch_locked.                             *)

IsDelegate(k) == k # NoKey /\ DelegateOf[k] # NoCorr

DelegateKey == {k \in Key : IsDelegate(k)}

\* A delegate key may be written under the correlation it names only.
Correlated(e) == IsDelegate(e.key) => e.corr = DelegateOf[e.key]

\* Fault: the expected version is ignored.
AnyVersion(e) == TRUE

VersionMatches(e) == version[e.key] = e.expected

PatchAccepted(e) == e.key # NoKey => Correlated(e) /\ VersionMatches(e)

\* A new key at the limit evicts the key written longest ago.
Evicted(e) ==
  IF version[e.key] = 0 /\ Cardinality(Stored) >= MaxContext
  THEN Head(contextOrder) ELSE NoKey

\* Fault: the entry stays under the correlation of its previous write.
NotRemoved(index, k) == index

\* The index without k, under the correlation k was last written with.
Removed(index, k) ==
  IF k = NoKey \/ corrOf[k] = NoCorr THEN index
  ELSE [index EXCEPT ![corrOf[k]] = RemoveFirst(@, k)]

Added(index, k, c) == IF c = NoCorr THEN index ELSE [index EXCEPT ![c] = Append(@, k)]

ApplyPatch(e) ==
  LET gone == Evicted(e)
      k == e.key
      goneDelegate == IF IsDelegate(gone) THEN gone ELSE NoKey
  IN
  /\ version' = [x \in Key |-> IF x = k THEN version[x] + 1
                               ELSE IF x = gone THEN 0 ELSE version[x]]
  /\ contextOrder' = Append(RemoveFirst(RemoveFirst(contextOrder, gone), k), k)
  /\ orderByCorr' = Added(Removed(Removed(orderByCorr, gone), k), k, e.corr)
  /\ LET order == RemoveFirst(delegateOrder, goneDelegate)
         byCorr == Removed(delegateByCorr, goneDelegate)
     IN IF IsDelegate(k)
        THEN /\ delegateOrder' = Append(RemoveFirst(order, k), k)
             /\ delegateByCorr' = Added(Removed(byCorr, k), k, e.corr)
        ELSE delegateOrder' = order /\ delegateByCorr' = byCorr
  /\ corrOf' = [x \in Key |-> IF x = k THEN e.corr
                              ELSE IF x = gone THEN NoCorr ELSE corrOf[x]]

-----------------------------------------------------------------------------
(* publish.  An envelope that fails validation is dead-lettered at once.   *)

Malformed(letter) ==
  /\ Bury(<<letter>>)
  /\ UNCHANGED <<attempts, nextSequence, seenOrder, inboxVars, contextVars>>

Seen(id) == \E i \in DOMAIN seenOrder : seenOrder[i] = id

WindowFull == Len(seenOrder) >= MaxSeen

Remember(id) ==
  seenOrder' = Append(IF WindowFull THEN Tail(seenOrder) ELSE seenOrder, id)

Attempt == attempts' = attempts + 1

RejectDuplicate(e) ==
  /\ Attempt /\ Seen(e.id)
  /\ Bury(<<LetterOf(e)>>)
  /\ UNCHANGED <<nextSequence, seenOrder, inboxVars, contextVars>>

\* The id of a rejected patch is used up all the same.
RejectPatch(e) ==
  /\ Attempt /\ ~Seen(e.id) /\ Remember(e.id)
  /\ ~PatchAccepted(e)
  /\ Bury(<<LetterOf(e)>>)
  /\ UNCHANGED <<nextSequence, inboxVars, contextVars>>

\* What an accepted envelope does before it is delivered.
Accept(e) ==
  /\ Attempt /\ ~Seen(e.id) /\ Remember(e.id)
  /\ PatchAccepted(e)
  /\ IF e.key = NoKey THEN UNCHANGED contextVars ELSE ApplyPatch(e)
  /\ nextSequence' = nextSequence + 1

\* The patch is in by now, and stays.
RejectUnknownTarget(e) ==
  /\ Accept(e)
  /\ e.to # All /\ e.to \notin Registered
  /\ Bury(<<LetterOf(e)>>)
  /\ UNCHANGED inboxVars

Deliver(e) ==
  /\ Accept(e)
  /\ e.to \in Registered \cup {All}
  /\ DeliverTo(IF e.to = All THEN Registered ELSE {e.to},
               [sequence |-> nextSequence + 1, id |-> e.id, corr |-> e.corr])

Publish(e) ==
  RejectDuplicate(e) \/ RejectPatch(e) \/ RejectUnknownTarget(e) \/ Deliver(e)

-----------------------------------------------------------------------------
(* Agents.                                                                 *)

Register(a) ==
  /\ a \notin Registered
  /\ inboxes' = [b \in Registered \cup {a} |-> IF b = a THEN <<>> ELSE inboxes[b]]
  /\ inboxCounts' = [b \in Registered \cup {a} |->
       IF b = a THEN [c \in Corr |-> 0] ELSE inboxCounts[b]]
  /\ UNCHANGED <<attempts, nextSequence, seenOrder, deadVars, contextVars>>

Unregister(a) ==
  /\ a \in Registered
  /\ inboxes' = [b \in Registered \ {a} |-> inboxes[b]]
  /\ inboxCounts' = [b \in Registered \ {a} |-> inboxCounts[b]]
  /\ UNCHANGED <<attempts, nextSequence, seenOrder, deadVars, contextVars>>

\* drain_for_agent: max = 0 asks for everything.
Drain(a, max) ==
  /\ a \in Registered /\ inboxes[a] # <<>>
  /\ LET n == IF max = 0 \/ max > Len(inboxes[a]) THEN Len(inboxes[a]) ELSE max IN
     /\ inboxes' = [inboxes EXCEPT ![a] = SubSeq(@, n + 1, Len(@))]
     /\ inboxCounts' = [inboxCounts EXCEPT ![a] =
          Uncounted(@, SubSeq(inboxes[a], 1, n))]
  /\ UNCHANGED <<attempts, nextSequence, seenOrder, deadVars, contextVars>>

-----------------------------------------------------------------------------
(* Properties of the bus.                                                  *)

\* The five indexes of the context agree: context_order lists every stored key
\* once, and the others are its restrictions, in the same order of recency, so
\* that a page read through an index is a page of the context; every collection
\* is within its limit.  (apply_context_patch_locked)
ContextIndexed ==
  /\ TypeOK
  /\ ToSet(contextOrder) = Stored
  /\ \A i, j \in DOMAIN contextOrder : contextOrder[i] = contextOrder[j] => i = j
  /\ delegateOrder = Only(contextOrder, DelegateKey)
  /\ \A c \in Corr :
       /\ orderByCorr[c] = Only(contextOrder, {k \in Key : corrOf[k] = c})
       /\ delegateByCorr[c] = Only(orderByCorr[c], DelegateKey)

\* What an agent has pending is in the order of publication and is counted right
\* by correlation, whatever was drained or dropped; the dead letters found
\* through a correlation are those retained for it, though the index evicts
\* without looking at the letter it drops.
\* (push_inbox_entry_locked, drain_for_agent, push_dead_letter_locked)
QueuesIndexed ==
  /\ \A a \in Registered :
       /\ \A i, j \in DOMAIN inboxes[a] :
            i < j => inboxes[a][i].sequence < inboxes[a][j].sequence
       /\ \A c \in Corr :
            inboxCounts[a][c] = Len(Only(inboxes[a], OfCorr(Entry, c)))
  /\ \A c \in Corr : deadByCorr[c] = Only(deadLetters, OfCorr(Letter, c))
=============================================================================
