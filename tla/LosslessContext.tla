-------------------------- MODULE LosslessContext --------------------------
(***************************************************************************)
(* The lossless conversation store of agent/loop_/lossless.rs, as the      *)
(* channel runtime uses it for one session (channels/message_processing.rs *)
(* and clear_sender_history of channels/route_state.rs).                   *)
(*                                                                         *)
(* A task is one channel message: a turn, or a /new command that resets    *)
(* the session.  Each task opens a handle of its own on the SQLite file:   *)
(* the conversation the session is bound to and the next ordinal, read     *)
(* once and cached.  Statements autocommit, so other tasks, or a crash,    *)
(* come between any two of them; the only protection is the unique index   *)
(* on (conversation, ordinal).                                             *)
(*                                                                         *)
(* Contents are abstracted to the task that wrote them, uuids to a         *)
(* counter.  SQLite errors other than the unique index, and the token      *)
(* budget of build_active_history, are left out.                           *)
(***************************************************************************)
EXTENDS Integers, FiniteSets, FiniteSetsExt

CONSTANTS
  Task,            \* channel messages of one session
  Resets,          \* those that are /new commands
  MaxActive,       \* tasks of the session in flight at once
  FreshTail,       \* FRESH_TAIL_COUNT
  LeafFanout,      \* LEAF_MIN_FANOUT
  CondensedFanout, \* CONDENSED_MIN_FANOUT
  MaxDelta,        \* bound on the messages a turn's reply adds
  MaxCrashes       \* bound on the crashes of the process

ASSUME LosslessAssumption ==
  /\ Resets \subseteq Task
  /\ MaxActive \in Nat \ {0}
  /\ FreshTail \in Nat \ {0}
  /\ LeafFanout \in Nat \ {0} /\ CondensedFanout \in Nat \ {0}
  /\ MaxDelta \in Nat /\ MaxCrashes \in Nat

VARIABLES
  binding,    \* session_bindings: the conversation of the session
  convs,      \* conversations
  messages,   \* messages
  summaries,  \* summaries
  sources,    \* summary_sources
  pc,         \* where a task is
  conv,       \* conversation_id of its handle
  next,       \* next_ordinal of its handle
  due,        \* messages of its reply still to be recorded
  after,      \* where it goes when its rebuild is over
  depth,      \* depth of the summaries it is creating
  listed,     \* rows it listed and has not summarised yet
  node,       \* the summary whose sources it is writing
  writing,    \* the sources of that summary not written yet
  fresh,      \* the next uuid
  crashes,    \* crashes so far
  lost,       \* auxiliary: turns with a message that was not recorded
  overlapped  \* auxiliary: tasks that were in flight together with another

tables == <<binding, convs, messages, summaries, sources, fresh>>
handle == <<conv, next>>
rebuild == <<after, depth, listed, node, writing>>
aux == <<crashes, lost, overlapped>>
vars == <<tables, pc, handle, due, rebuild, aux>>

NoConv == 0      \* the session is not bound
Generated == 1   \* the id made from the scope and the session key

Turns == Task \ Resets

PC == {"waiting", "bind", "open", "system", "opened", "list", "roots", "chunk",
       "sources", "answering", "recording", "note", "wipeSources",
       "wipeSummaries", "wipeMessages", "wipeConv", "create", "rebind",
       "resetSystem", "finished", "gone"}

MessageRow == [id : Nat, conv : Nat, ordinal : Nat,
               role : {"system", "user", "assistant"}, turn : Task]
SummaryRow == [id : Nat, conv : Nat, depth : Nat, ordinal : Nat]

TypeOK ==
  /\ binding \in Nat /\ convs \subseteq Nat
  /\ messages \subseteq MessageRow /\ summaries \subseteq SummaryRow
  /\ sources \subseteq [summary : Nat, source : Nat]
  /\ pc \in [Task -> PC] /\ conv \in [Task -> Nat] /\ next \in [Task -> Nat]
  /\ due \in [Task -> 0..MaxDelta] /\ after \in [Task -> {"answering", "finished"}]
  /\ depth \in [Task -> Nat] /\ node \in [Task -> Nat]
  /\ listed \in [Task -> SUBSET (MessageRow \cup SummaryRow)]
  /\ writing \in [Task -> SUBSET (MessageRow \cup SummaryRow)]
  /\ fresh \in Nat /\ crashes \in 0..MaxCrashes
  /\ lost \subseteq Task /\ overlapped \subseteq Task

Init ==
  /\ binding = NoConv /\ convs = {} /\ messages = {}
  /\ summaries = {} /\ sources = {} /\ fresh = Generated + 1
  /\ pc = [t \in Task |-> "waiting"]
  /\ conv = [t \in Task |-> NoConv] /\ next = [t \in Task |-> 0]
  /\ due = [t \in Task |-> 0] /\ after = [t \in Task |-> "finished"]
  /\ depth = [t \in Task |-> 0] /\ node = [t \in Task |-> 0]
  /\ listed = [t \in Task |-> {}] /\ writing = [t \in Task |-> {}]
  /\ crashes = 0 /\ lost = {} /\ overlapped = {}

-----------------------------------------------------------------------------
(* Queries.                                                                *)

InConv(c) == {m \in messages : m.conv = c}
Chat(c)   == {m \in InConv(c) : m.role # "system"}
Taken(c, n) == \E m \in messages : m.conv = c /\ m.ordinal = n

\* Fault: MAX(ordinal) itself, and -1 for an empty conversation.
MaxOrdinal(c) ==
  CHOOSE n \in {-1} \cup {m.ordinal : m \in InConv(c)} :
    \A m \in InConv(c) : m.ordinal <= n

\* MAX(ordinal) + 1, and 0 for an empty conversation.
NextOrdinal(c) ==
  CHOOSE n \in {0} \cup {m.ordinal + 1 : m \in InConv(c)} :
    \A m \in InConv(c) : m.ordinal < n

\* The n first rows of S in the order of their ordinals.
First(S, n) ==
  CHOOSE T \in kSubset(n, S) : \A a \in T, b \in S \ T : a.ordinal <= b.ordinal

Covered(row) == \E s \in sources : s.source = row.id

\* All but the most recent messages, which are never summarised.
Old(c) ==
  {m \in Chat(c) : Cardinality({n \in Chat(c) : n.ordinal > m.ordinal}) >= FreshTail}

\* Messages before the protected ordinal that no summary stands for.
Uncovered(c) == {m \in Old(c) : ~Covered(m)}

\* Fault: summaries that already have a parent are listed too.
NodesAt(c, d) == {s \in summaries : s.conv = c /\ s.depth = d}

RootsAt(c, d) == {s \in summaries : s.conv = c /\ s.depth = d /\ ~Covered(s)}

Active(t) == pc[t] \notin {"waiting", "finished", "gone"}
InFlight == {t \in Task : Active(t)}

Goto(t, l) == pc' = [pc EXCEPT ![t] = l]

-----------------------------------------------------------------------------
(* for_session: open a handle on the session's conversation.               *)

\* A worker starts a task.  It first looks the session up in
\* session_bindings.
Start(t) ==
  /\ pc[t] = "waiting" /\ Cardinality(InFlight) < MaxActive
  /\ IF binding # NoConv
     THEN conv' = [conv EXCEPT ![t] = binding] /\ Goto(t, "open")
     ELSE conv' = [conv EXCEPT ![t] = Generated] /\ Goto(t, "bind")
  /\ overlapped' = IF InFlight = {} THEN overlapped
                                    ELSE overlapped \cup InFlight \cup {t}
  /\ UNCHANGED <<tables, next, due, rebuild, crashes, lost>>

BindSession(t) ==
  /\ pc[t] = "bind"
  /\ binding' = conv[t] /\ convs' = convs \cup {conv[t]}
  /\ Goto(t, "open")
  /\ UNCHANGED <<messages, summaries, sources, fresh, handle, due, rebuild, aux>>

ReadOrdinal(t) ==
  /\ pc[t] = "open"
  /\ convs' = convs \cup {conv[t]}
  /\ next' = [next EXCEPT ![t] = NextOrdinal(conv[t])]
  /\ Goto(t, IF next'[t] = 0 THEN "system" ELSE "opened")
  /\ UNCHANGED <<binding, messages, summaries, sources, fresh, conv, due, rebuild, aux>>

\* record_raw_message: the row is inserted at the cached ordinal unless the
\* unique index refuses it, and the cached ordinal advances only then.
Inserted(t, role) ==
  /\ ~Taken(conv[t], next[t])
  /\ messages' = messages \cup {[id |-> fresh, conv |-> conv[t],
                                 ordinal |-> next[t], role |-> role, turn |-> t]}
  /\ fresh' = fresh + 1
  /\ next' = [next EXCEPT ![t] = @ + 1]
  /\ lost' = lost

Refused(t) ==
  /\ Taken(conv[t], next[t])
  /\ lost' = lost \cup ({t} \cap Turns)
  /\ UNCHANGED <<messages, fresh, next>>

Record(t, role) ==
  /\ Inserted(t, role) \/ Refused(t)
  /\ UNCHANGED <<binding, convs, summaries, sources, conv, crashes, overlapped>>

\* When the system prompt is refused the whole turn falls back to a store in
\* the temporary directory, and a /new does nothing.
RecordSystem(t) ==
  /\ pc[t] = "system"
  /\ Record(t, "system")
  /\ Goto(t, IF Taken(conv[t], next[t]) THEN "finished" ELSE "opened")
  /\ UNCHANGED <<due, rebuild>>

-----------------------------------------------------------------------------
(* A turn: record the user's message, answer, record the reply.            *)

\* A failure to record is only logged: the turn goes on.
RecordUser(t) ==
  /\ pc[t] = "opened" /\ t \in Turns
  /\ Record(t, "user")
  /\ Goto(t, "list") /\ after' = [after EXCEPT ![t] = "answering"]
  /\ UNCHANGED <<due, depth, listed, node, writing>>

\* The turn ends without the model: it waits for an approval, or the runtime
\* has an answer of its own.
RecordUserAndReply(t) ==
  /\ pc[t] = "opened" /\ t \in Turns
  /\ Record(t, "user")
  /\ \E n \in {0, 1} \cap (0..MaxDelta) : due' = [due EXCEPT ![t] = n]
  /\ Goto(t, "recording")
  /\ UNCHANGED rebuild

\* A turn resumed after an approval does not record its user message again.
Resume(t) ==
  /\ pc[t] = "opened" /\ t \in Turns
  /\ Goto(t, "list") /\ after' = [after EXCEPT ![t] = "answering"]
  /\ UNCHANGED <<tables, handle, due, depth, listed, node, writing, aux>>

\* The tool loop is over: a reply, part of one, a note about a timeout, or
\* nothing when it was cancelled.
Answer(t) ==
  /\ pc[t] = "answering"
  /\ \E n \in 0..MaxDelta : due' = [due EXCEPT ![t] = n]
  /\ Goto(t, "recording")
  /\ UNCHANGED <<tables, handle, rebuild, aux>>

\* record_raw_messages stops at the first refusal.
RecordReply(t) ==
  /\ pc[t] = "recording" /\ due[t] > 0
  /\ Record(t, "assistant")
  /\ due' = [due EXCEPT ![t] = IF Taken(conv[t], next[t]) THEN 0 ELSE @ - 1]
  /\ UNCHANGED <<pc, rebuild>>

\* An answered turn refreshes the cached history, and so does one that
\* overflowed the context window; a turn that was cancelled, or waits for an
\* approval, just ends.
Conclude(t) ==
  /\ pc[t] = "recording" /\ due[t] = 0
  /\ after' = [after EXCEPT ![t] = "finished"]
  /\ \E l \in {"list", "finished"} : (l = "list" => after[t] = "answering") /\ Goto(t, l)
  /\ UNCHANGED <<tables, handle, due, depth, listed, node, writing, aux>>

\* Fault: the cached ordinal stays past the deleted row.
NotRolledBack(m) == m.ordinal + 1

\* The ordinal the handle goes back to after a rollback.
RolledBackTo(m) == m.ordinal

Newest(m) == \A n \in InConv(m.conv) : n.ordinal <= m.ordinal

\* rollback_latest_raw_message after a vision error: the newest row goes if
\* it is this turn's user message.
Rollback(t) ==
  /\ pc[t] = "recording" /\ due[t] = 0 /\ after[t] = "answering"
  /\ \/ \E m \in InConv(conv[t]) :
          /\ Newest(m) /\ m.role = "user" /\ m.turn = t
          /\ messages' = messages \ {m}
          /\ next' = [next EXCEPT ![t] = RolledBackTo(m)]
     \/ /\ ~\E m \in InConv(conv[t]) : Newest(m) /\ m.role = "user" /\ m.turn = t
        /\ UNCHANGED <<messages, next>>
  /\ Goto(t, "note")
  /\ UNCHANGED <<binding, convs, summaries, sources, fresh, conv, due, rebuild, aux>>

\* The failed request is closed by a note, unless the in-memory history was
\* rolled back as well.
RecordNote(t) ==
  /\ pc[t] = "note"
  /\ \/ Record(t, "assistant")
     \/ UNCHANGED <<tables, handle, aux>>
  /\ Goto(t, "list") /\ after' = [after EXCEPT ![t] = "finished"]
  /\ UNCHANGED <<due, depth, listed, node, writing>>

-----------------------------------------------------------------------------
(* rebuild_active_history.                                                 *)

\* ensure_leaf_summaries lists once what is to be summarised.
ListMessages(t) ==
  /\ pc[t] = "list"
  /\ listed' = [listed EXCEPT ![t] = Uncovered(conv[t])]
  /\ depth' = [depth EXCEPT ![t] = 0]
  /\ Goto(t, "chunk")
  /\ UNCHANGED <<tables, handle, due, after, node, writing, aux>>

\* Fault: a chunk of exactly the fanout is left too.
FanoutAndOne(d) == IF d = 0 THEN LeafFanout + 1 ELSE CondensedFanout + 1

Fanout(d) == IF d = 0 THEN LeafFanout ELSE CondensedFanout

\* An incomplete chunk waits: the rebuild looks one level up.
LeaveChunk(t) ==
  /\ pc[t] = "chunk" /\ Cardinality(listed[t]) < Fanout(depth[t])
  /\ listed' = [listed EXCEPT ![t] = {}]
  /\ depth' = [depth EXCEPT ![t] = @ + 1]
  /\ Goto(t, "roots")
  /\ UNCHANGED <<tables, handle, due, after, node, writing, aux>>

\* ensure_condensed_summaries stops at the first depth with too few roots.
ListRoots(t) ==
  /\ pc[t] = "roots"
  /\ LET roots == RootsAt(conv[t], depth[t] - 1) IN
     IF Cardinality(roots) < CondensedFanout
     THEN Goto(t, after[t]) /\ UNCHANGED listed
     ELSE Goto(t, "chunk") /\ listed' = [listed EXCEPT ![t] = roots]
  /\ UNCHANGED <<tables, handle, due, after, depth, node, writing, aux>>

Oldest(S) == CHOOSE r \in S : \A q \in S : r.ordinal <= q.ordinal

\* insert_summary gives up when another task has summarised the first
\* message of the chunk; it does not ask the same of summaries.
AlreadySummarised(t, chunk) == depth[t] = 0 /\ Covered(Oldest(chunk))

\* The model has written a summary of the next chunk; insert_summary adds
\* its row.
InsertSummary(t) ==
  /\ pc[t] = "chunk" /\ Cardinality(listed[t]) >= Fanout(depth[t])
  /\ LET chunk == First(listed[t], Fanout(depth[t])) IN
     /\ listed' = [listed EXCEPT ![t] = @ \ chunk]
     /\ IF AlreadySummarised(t, chunk)
        THEN UNCHANGED <<pc, summaries, fresh, node, writing>>
        ELSE /\ summaries' = summaries \cup
                  {[id |-> fresh, conv |-> conv[t], depth |-> depth[t],
                    ordinal |-> Oldest(chunk).ordinal]}
             /\ fresh' = fresh + 1
             /\ node' = [node EXCEPT ![t] = fresh]
             /\ writing' = [writing EXCEPT ![t] = chunk]
             /\ Goto(t, "sources")
  /\ UNCHANGED <<binding, convs, messages, sources, handle, due, after, depth, aux>>

\* Fault: only the first source is written.
InsertOneSource(t) ==
  /\ pc[t] = "sources"
  /\ sources' = sources \cup {[summary |-> node[t], source |-> Oldest(writing[t]).id]}
  /\ writing' = [writing EXCEPT ![t] = {}]
  /\ Goto(t, "chunk")
  /\ UNCHANGED <<binding, convs, messages, summaries, fresh, handle, due,
                 after, depth, listed, node, aux>>

\* Its sources follow, one statement each.
InsertSource(t) ==
  /\ pc[t] = "sources"
  /\ LET row == Oldest(writing[t]) IN
     /\ sources' = sources \cup {[summary |-> node[t], source |-> row.id]}
     /\ writing' = [writing EXCEPT ![t] = @ \ {row}]
     /\ Goto(t, IF writing[t] = {row} THEN "chunk" ELSE "sources")
  /\ UNCHANGED <<binding, convs, messages, summaries, fresh, handle, due,
                 after, depth, listed, node, aux>>

-----------------------------------------------------------------------------
(* reset, for the /new command.                                            *)

BeginReset(t) ==
  /\ pc[t] = "opened" /\ t \in Resets
  /\ Goto(t, "wipeSources")
  /\ UNCHANGED <<tables, handle, due, rebuild, aux>>

WipeSources(t) ==
  /\ pc[t] = "wipeSources"
  /\ sources' = {s \in sources :
       ~\E n \in summaries : n.id = s.summary /\ n.conv = conv[t]}
  /\ Goto(t, "wipeSummaries")
  /\ UNCHANGED <<binding, convs, messages, summaries, fresh, handle, due, rebuild, aux>>

WipeSummaries(t) ==
  /\ pc[t] = "wipeSummaries"
  /\ summaries' = {s \in summaries : s.conv # conv[t]}
  /\ Goto(t, "wipeMessages")
  /\ UNCHANGED <<binding, convs, messages, sources, fresh, handle, due, rebuild, aux>>

WipeMessages(t) ==
  /\ pc[t] = "wipeMessages"
  /\ messages' = messages \ InConv(conv[t])
  /\ Goto(t, "wipeConv")
  /\ UNCHANGED <<binding, convs, summaries, sources, fresh, handle, due, rebuild, aux>>

WipeConversation(t) ==
  /\ pc[t] = "wipeConv"
  /\ convs' = convs \ {conv[t]}
  /\ Goto(t, "create")
  /\ UNCHANGED <<binding, messages, summaries, sources, fresh, handle, due, rebuild, aux>>

CreateConversation(t) ==
  /\ pc[t] = "create"
  /\ convs' = convs \cup {fresh} /\ fresh' = fresh + 1
  /\ conv' = [conv EXCEPT ![t] = fresh] /\ next' = [next EXCEPT ![t] = 0]
  /\ Goto(t, "rebind")
  /\ UNCHANGED <<binding, messages, summaries, sources, due, rebuild, aux>>

Rebind(t) ==
  /\ pc[t] = "rebind"
  /\ binding' = conv[t]
  /\ Goto(t, "resetSystem")
  /\ UNCHANGED <<convs, messages, summaries, sources, fresh, handle, due, rebuild, aux>>

RecordSystemAgain(t) ==
  /\ pc[t] = "resetSystem"
  /\ Record(t, "system")
  /\ Goto(t, "finished")
  /\ UNCHANGED <<due, rebuild>>

-----------------------------------------------------------------------------
(* The process dies; what SQLite committed stays.                          *)

Crash ==
  /\ crashes < MaxCrashes /\ InFlight # {}
  /\ crashes' = crashes + 1
  /\ pc' = [t \in Task |-> IF Active(t) THEN "gone" ELSE pc[t]]
  /\ UNCHANGED <<tables, handle, due, rebuild, lost, overlapped>>

Ended ==
  /\ \A t \in Task : pc[t] \in {"finished", "gone"}
  /\ UNCHANGED vars

Opening(t) == Start(t) \/ BindSession(t) \/ ReadOrdinal(t) \/ RecordSystem(t)

Turning(t) ==
  \/ RecordUser(t) \/ RecordUserAndReply(t) \/ Resume(t) \/ Answer(t)
  \/ RecordReply(t) \/ Conclude(t) \/ Rollback(t) \/ RecordNote(t)

Rebuilding(t) ==
  \/ ListMessages(t) \/ LeaveChunk(t) \/ ListRoots(t)
  \/ InsertSummary(t) \/ InsertSource(t)

Resetting(t) ==
  \/ BeginReset(t) \/ WipeSources(t) \/ WipeSummaries(t) \/ WipeMessages(t)
  \/ WipeConversation(t) \/ CreateConversation(t) \/ Rebind(t) \/ RecordSystemAgain(t)

Next ==
  \/ \E t \in Task : Opening(t) \/ Turning(t) \/ Rebuilding(t) \/ Resetting(t)
  \/ Crash \/ Ended

Spec == Init /\ [][Next]_vars

-----------------------------------------------------------------------------
(* Properties.  All but the last two are claims about MaxActive = 1.       *)

\* No row outlives what it refers to, though reset deletes table by table
\* without a transaction and a crash may stop it anywhere.
NothingDangles ==
  /\ \A r \in messages \cup summaries : r.conv \in convs
  /\ \A e \in sources :
       /\ \E s \in summaries : s.id = e.summary
       /\ \E r \in messages \cup summaries : r.id = e.source

\* The transcript of a conversation has no holes and is in the order in which
\* it was spoken, after the system prompt: neither a rollback nor a crash nor
\* a reset cut short leaves a handle at the wrong ordinal, or a row behind.
\* (record_raw_message, rollback_latest_raw_message, reset)
TranscriptIntact ==
  /\ TypeOK
  /\ NothingDangles
  /\ \A m \in messages :
       /\ \A k \in 0..m.ordinal : Taken(m.conv, k)
       /\ \A n \in InConv(m.conv) :
            /\ n.id < m.id => n.ordinal < m.ordinal
            /\ n.ordinal = 0 => n.role = "system"

\* A row stands in the active context through one summary at most, and what is
\* summarised is a prefix of the conversation, though insert_summary checks only
\* the first message of a chunk, checks nothing for a condensed node, and may be
\* stopped half way; a chunk whose sources a crash cut short is taken up where it
\* stopped.  (ensure_leaf_summaries, insert_summary)
SummarisedInOrder ==
  /\ \A e, f \in sources : e.source = f.source => e.summary = f.summary
  /\ \A m, n \in messages :
       (/\ m.conv = n.conv /\ m.role # "system" /\ n.role # "system"
        /\ m.ordinal < n.ordinal /\ Covered(n)) => Covered(m)

\* After a rebuild fewer messages than one chunk are in neither a summary nor
\* the fresh tail, and, without crashes, no depth has enough roots left for
\* another node: what the model is shown grows with the depth of the hierarchy
\* only.  (ensure_leaf_summaries, ensure_condensed_summaries)
RebuildBounded ==
  \A t \in Task : pc[t] = "answering" =>
    /\ Cardinality(Uncovered(conv[t])) < LeafFanout
    /\ crashes = 0 =>
         \A s \in summaries : Cardinality(RootsAt(conv[t], s.depth)) < CondensedFanout

\* A summary has all its sources once its writer has moved on and until it is
\* wiped, so nothing it stands for is shown again or summarised twice.  Without
\* crashes.  (insert_summary, reset)
SourcesComplete ==
  crashes = 0 => \A s \in summaries :
    \/ \E t \in Task : pc[t] = "sources" /\ node[t] = s.id
    \/ \E t \in Resets : pc[t] = "wipeSummaries" /\ conv[t] = s.conv
    \/ Cardinality({e \in sources : e.summary = s.id}) = Fanout(s.depth)

\* Both: every message stands in the active context once, and in order.
HierarchySound == SummarisedInOrder /\ SourcesComplete

\* A message fails to be recorded only in a turn that shared its time in
\* flight with another task of the session: the cached next_ordinal is right
\* as long as nobody else records.  (record_raw_message)
LostOnlyByOverlap == lost \subseteq overlapped

\* Every message of every turn is kept.  docs/config-reference.md:100.
NoTurnLost == lost = {}
=============================================================================
