---------------------------- MODULE ProcessTool ----------------------------
(***************************************************************************)
(* The tool for background processes (tools/process.rs): the table of      *)
(* processes and its limit, the bounded buffer that a reader task fills,   *)
(* the offset up to which its output was inspected, and termination.       *)
(*                                                                         *)
(* Calls run side by side.  The table, each buffer and each offset have a  *)
(* lock of their own, and what is done under one is a step.  Output is     *)
(* counted in bytes, numbered from 0 in the order they are written; of the *)
(* two streams, which are handled alike, one is kept.  Policy checks, the  *)
(* command and the environment are left out.                               *)
(***************************************************************************)
EXTENDS Naturals, FiniteSets

CONSTANTS
  Call,         \* concurrent calls of the tool, one after the other
  MaxSpawns,    \* bound: how many processes are spawned
  NoProcess,
  MaxProcesses,
  MaxOutput,    \* MAX_OUTPUT_BYTES
  Slip,         \* bytes of a character that a cut may pass over
  MaxBytes,     \* bound: how much a process writes
  Talkative     \* bound: which processes write

\* Processes, by their ids.
Process == 1..MaxSpawns

ASSUME ProcessAssumption ==
  /\ MaxSpawns \in Nat /\ NoProcess \notin Process
  /\ MaxProcesses \in Nat \ {0} /\ MaxOutput \in Nat /\ MaxBytes \in Nat /\ Slip \in Nat
  /\ IsFiniteSet(Call)

VARIABLES
  spawned,      \* next_id: how many processes were spawned
  alive,        \* processes that have not exited
  listed,       \* the keys of the table
  written, dropped,  \* how much a process wrote, how much of it the buffer let go
  analyzed,     \* analyzed_offsets
  job, about, found,
  from, upto,   \* a call: where it is, its process, the exited ids it collected,
                \* the snapshot it took
  inspected,    \* auxiliary: bytes handed to the detector
  repeated,     \* auxiliary: a byte was handed over twice
  crossed       \* auxiliary: an offset was set back from an overtaken snapshot

processVars ==
  <<spawned, alive, listed, written, dropped, analyzed, job, about, found, from, upto,
    inspected, repeated, crossed>>

Bytes == 0..MaxBytes

ProcessTypeOK ==
  /\ spawned \in 0..MaxSpawns
  /\ alive \subseteq 1..spawned /\ listed \subseteq 1..spawned
  /\ written \in [Process -> Bytes] /\ dropped \in [Process -> Bytes]
  /\ \A p \in Process : dropped[p] <= written[p] /\ written[p] - dropped[p] <= MaxOutput
  /\ analyzed \in [Process -> Bytes]
  /\ job \in [Call -> {"idle", "pruning", "counting", "spawning", "inserting",
                   "inspecting", "killing"}]
  /\ about \in [Call -> Process \cup {NoProcess}]
  /\ found \in [Call -> SUBSET Process]
  /\ from \in [Call -> Bytes] /\ upto \in [Call -> Bytes]
  /\ inspected \in [Process -> SUBSET Bytes]
  /\ repeated \in BOOLEAN /\ crossed \in BOOLEAN

ProcessInit ==
  /\ spawned = 0 /\ alive = {} /\ listed = {}
  /\ written = [p \in Process |-> 0] /\ dropped = [p \in Process |-> 0]
  /\ analyzed = [p \in Process |-> 0]
  /\ job = [c \in Call |-> "idle"] /\ about = [c \in Call |-> NoProcess]
  /\ found = [c \in Call |-> {}]
  /\ from = [c \in Call |-> 0] /\ upto = [c \in Call |-> 0]
  /\ inspected = [p \in Process |-> {}]
  /\ repeated = FALSE /\ crossed = FALSE

table == <<spawned, alive, listed>>
output == <<written, dropped>>
inspection == <<analyzed, inspected, repeated, crossed>>
snapshot == <<from, upto>>

Do(c, j) == job' = [job EXCEPT ![c] = j]

-----------------------------------------------------------------------------
(* Processes.                                                              *)

Exit(p) ==
  /\ p \in alive /\ alive' = alive \ {p}
  /\ UNCHANGED <<spawned, listed, output, inspection, job, about, found, snapshot>>

\* append_bounded: what is over the limit goes, up to the next character.
AppendBounded(p, n) ==
  LET end == written[p] + n IN
  /\ p \in 1..spawned \cap Talkative /\ end <= MaxBytes
  /\ written' = [written EXCEPT ![p] = end]
  /\ \/ end - dropped[p] <= MaxOutput /\ UNCHANGED dropped
     \/ /\ end - dropped[p] > MaxOutput
        /\ \E slip \in 0..Slip :
             /\ end - MaxOutput + slip <= end
             /\ dropped' = [dropped EXCEPT ![p] = end - MaxOutput + slip]
  /\ UNCHANGED <<table, inspection, job, about, found, snapshot>>

-----------------------------------------------------------------------------
(* Calls.                                                                  *)

\* Reading the table shuts writers out.
Unlocked == \A c \in Call : job[c] # "inspecting"

others == <<output, inspection, snapshot>>

\* list and spawn first prune: the exited ids are collected under the read lock ...
Collect(c) ==
  /\ job[c] = "idle"
  /\ found' = [found EXCEPT ![c] = listed \ alive]
  /\ Do(c, "pruning")
  /\ UNCHANGED <<table, others, about>>

\* ... and removed under the write lock.  A list is over then, with what it reads.
RemoveExited(c) ==
  /\ job[c] = "pruning" /\ Unlocked
  /\ listed' = listed \ found[c]
  /\ found' = [found EXCEPT ![c] = {}]
  /\ Do(c, "idle") \/ Do(c, "counting")
  /\ UNCHANGED <<spawned, alive, others, about>>

\* Fault: one too many.
RoomForOneMore == Cardinality(listed \cap alive) <= MaxProcesses

Room == Cardinality(listed \cap alive) < MaxProcesses

\* prepare_spawn_failure_result: without room, or by the rate limit, nothing starts.
CountRunning(c) ==
  /\ job[c] = "counting"
  /\ Do(c, "idle") \/ (Room /\ Do(c, "spawning"))
  /\ UNCHANGED <<table, others, about, found>>

\* spawn_prepared_command: the process runs and gets its id, unless a check or
\* the start fails ...
Launch(c) ==
  /\ job[c] = "spawning"
  /\ \/ /\ Do(c, "idle")
        /\ UNCHANGED <<spawned, alive, about>>
     \/ /\ spawned + 1 \in Process
        /\ spawned' = spawned + 1 /\ alive' = alive \cup {spawned'}
        /\ about' = [about EXCEPT ![c] = spawned']
        /\ Do(c, "inserting")
  /\ UNCHANGED <<listed, others, found>>

\* ... and is entered in the table.
Insert(c) ==
  /\ job[c] = "inserting" /\ Unlocked
  /\ listed' = listed \cup {about[c]}
  /\ about' = [about EXCEPT ![c] = NoProcess]
  /\ Do(c, "idle")
  /\ UNCHANGED <<spawned, alive, others, found>>

\* handle_output holds the table's read lock, so that its process stays listed: it
\* copies the buffer ...
Snapshot(c, p) ==
  /\ job[c] = "idle" /\ p \in listed
  /\ about' = [about EXCEPT ![c] = p]
  /\ from' = [from EXCEPT ![c] = dropped[p]] /\ upto' = [upto EXCEPT ![c] = written[p]]
  /\ Do(c, "inspecting")
  /\ UNCHANGED <<table, output, inspection, found>>

\* Fault: the offset is taken for an index into the buffer.
UnseenByIndex(c) ==
  {b \in from[c]..upto[c] - 1 : b - from[c] >= analyzed[about[c]]}

\* slice_unseen_output
Unseen(c) == {b \in from[c]..upto[c] - 1 : b >= analyzed[about[c]]}

OffsetAfter(c) == upto[c]

\* ... and hands the detector what it has not seen.
Inspect(c) ==
  LET p == about[c] IN
  /\ job[c] = "inspecting"
  /\ analyzed' = [analyzed EXCEPT ![p] = OffsetAfter(c)]
  /\ inspected' = [inspected EXCEPT ![p] = @ \cup Unseen(c)]
  /\ repeated' = (repeated \/ inspected[p] \cap Unseen(c) # {})
  /\ crossed' = (crossed \/ upto[c] < analyzed[p])
  /\ about' = [about EXCEPT ![c] = NoProcess]
  /\ from' = [from EXCEPT ![c] = 0] /\ upto' = [upto EXCEPT ![c] = 0]
  /\ Do(c, "idle")
  /\ UNCHANGED <<table, output, found>>

\* handle_kill takes the entry out, whoever comes first ...
Kill(c, p) ==
  /\ job[c] = "idle" /\ p \in listed /\ Unlocked
  /\ listed' = listed \ {p}
  /\ about' = [about EXCEPT ![c] = p]
  /\ Do(c, "killing")
  /\ UNCHANGED <<spawned, alive, others, found>>

\* ... and waits for the end for five seconds, unless it has come or the signal fails.
KillEnds(c) ==
  /\ job[c] = "killing"
  /\ \E gone \in SUBSET {about[c]} : alive' = alive \ gone
  /\ about' = [about EXCEPT ![c] = NoProcess]
  /\ Do(c, "idle")
  /\ UNCHANGED <<spawned, listed, others, found>>

CallStep(c) ==
  \/ Collect(c) \/ RemoveExited(c) \/ CountRunning(c) \/ Launch(c) \/ Insert(c)
  \/ Inspect(c) \/ KillEnds(c)
  \/ \E p \in Process : Snapshot(c, p) \/ Kill(c, p)

ProcessNext ==
  \/ \E p \in Process : Exit(p) \/ \E n \in 1..MaxBytes : AppendBounded(p, n)
  \/ \E c \in Call : CallStep(c)

ProcessSpec == ProcessInit /\ [][ProcessNext]_processVars

-----------------------------------------------------------------------------
(* Properties.                                                             *)

\* Counting and entering are two critical sections, so that the limit is exceeded,
\* but by no more than the other calls that can be between the two; and no buffer
\* is longer than its limit, though what it drops follows the characters.
LimitsKept ==
  /\ ProcessTypeOK
  /\ Cardinality(listed \cap alive) <= MaxProcesses + Cardinality(Call) - 1

\* Everything up to the offset was inspected or had left the buffer, also when
\* snapshots of several calls cross; and tools/process.rs:1360 wants no duplicate
\* emissions: a byte is inspected twice only after two calls crossed and the older
\* snapshot set the offset back.
InspectedOnce ==
  /\ \A p \in Process : \A b \in Bytes :
       b < analyzed[p] => b \in inspected[p] \/ b < dropped[p]
  /\ repeated => crossed

=============================================================================
