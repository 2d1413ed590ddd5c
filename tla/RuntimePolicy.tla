--------------------------- MODULE RuntimePolicy ---------------------------
(***************************************************************************)
(* The tool policy of channels, in memory and in config.toml:              *)
(* ApprovalManager's auto_approve and always_ask (approval/mod.rs), the    *)
(* reload every message begins with and the commands that write the file   *)
(* (channels/runtime_config.rs, channels/command_handler.rs), and where    *)
(* the daemon takes its first policy from (channels/startup.rs,            *)
(* daemon/mod.rs).                                                         *)
(*                                                                         *)
(* A task is a channel message; tasks run side by side.  Reading the       *)
(* file's stamp, reading the file, each critical section and the           *)
(* replacement of the file are one step each.  The file is reduced to the  *)
(* two lists and to a stamp that every replacement changes.                *)
(***************************************************************************)
EXTENDS Naturals, FiniteSets

CONSTANTS
  Worker,       \* channel messages
  PolicyTool,
  ForcePrompt,  \* NON_CLI_FORCE_PROMPT_TOOLS
  NoTool,
  FirstFile,    \* the configuration the daemon starts with
  MaxStamp      \* bound: how often the file is replaced

Policy == [auto : SUBSET PolicyTool, ask : SUBSET PolicyTool]

ASSUME PolicyAssumption ==
  /\ FirstFile \in Policy /\ ForcePrompt \subseteq PolicyTool /\ MaxStamp \in Nat
  /\ NoTool \notin PolicyTool

VARIABLES
  file, stamp,  \* config.toml: its lists, its modification stamp
  boot,         \* the configuration the daemon has read when it started
  up,           \* whether the channels run
  auto, ask,    \* auto_approve and always_ask in memory
  applied,      \* last_applied_stamp
  step,         \* where a task is
  verb, tool,   \* its command, and the tool it names
  seen, copy,   \* the stamp it read and the file it read
  settled,      \* auxiliary: the last command about a tool that is finished and saved
  raced,        \* auxiliary: a command replaced a file that it had not read, or
                \* two commands about a tool overlapped
  stale         \* auxiliary: a policy was applied that was no longer the file's

policyVars ==
  <<file, stamp, boot, up, auto, ask, applied, step, verb, tool, seen, copy,
    settled, raced, stale>>

Step == {"new", "stamped", "loaded", "stored", "replaced", "ready",
         "granting", "reading", "writing", "over"}
Verb == {"none", "approve", "session", "unapprove", "unexclude"}

PolicyTypeOK ==
  /\ file \in Policy /\ stamp \in 0..MaxStamp /\ boot \in Policy /\ up \in BOOLEAN
  /\ auto \subseteq PolicyTool /\ ask \subseteq PolicyTool /\ applied \in 0..MaxStamp
  /\ step \in [Worker -> Step] /\ verb \in [Worker -> Verb]
  /\ tool \in [Worker -> PolicyTool \cup {NoTool}]
  /\ seen \in [Worker -> 0..MaxStamp] /\ copy \in [Worker -> Policy]
  /\ settled \in [PolicyTool -> {"none", "approved", "revoked"}]
  /\ raced \in BOOLEAN /\ stale \in BOOLEAN

PolicyInit ==
  /\ file = FirstFile /\ stamp = 0 /\ boot = FirstFile /\ up = FALSE
  /\ auto = {} /\ ask = {} /\ applied = 0
  /\ step = [w \in Worker |-> "new"] /\ verb = [w \in Worker |-> "none"]
  /\ tool = [w \in Worker |-> NoTool]
  /\ seen = [w \in Worker |-> 0] /\ copy = [w \in Worker |-> FirstFile]
  /\ settled = [t \in PolicyTool |-> "none"]
  /\ raced = FALSE /\ stale = FALSE

memory == <<auto, ask, applied>>
disk == <<file, stamp>>
daemon == <<boot, up>>
command == <<verb, tool>>
notes == <<settled, raced, stale>>

Proceed(w, s) == step' = [step EXCEPT ![w] = s]

\* sanitize_non_cli_auto_approve
Sanitized(tools) == tools \ ForcePrompt

-----------------------------------------------------------------------------
(* Starting.                                                               *)

Underway == {w \in Worker : step[w] \notin {"new", "over"}}

\* start_channels builds the manager from the configuration the daemon read when
\* it started, and takes the stamp the file has now for applied.  It is tried until
\* it gets here, and then does not return: its listeners are restarted for ever.
StartChannels ==
  /\ ~up /\ up' = TRUE
  /\ auto' = Sanitized(boot.auto) /\ ask' = boot.ask /\ applied' = stamp
  /\ stale' = (boot # file)
  /\ UNCHANGED <<disk, boot, step, command, seen, copy, settled, raced>>

\* The daemon dies and is started again; its messages are gone.
Restart ==
  /\ up' = FALSE /\ boot' = file
  /\ step' = [w \in Worker |-> IF w \in Underway THEN "over" ELSE step[w]]
  /\ UNCHANGED <<disk, memory, command, seen, copy, notes>>

\* Another program, or the operator, changes the lists in the file.
Edit(policy) ==
  /\ stamp < MaxStamp /\ policy # file
  /\ file' = policy /\ stamp' = stamp + 1
  /\ settled' = [t \in PolicyTool |-> "none"]
  /\ UNCHANGED <<daemon, memory, step, command, seen, copy, raced, stale>>

-----------------------------------------------------------------------------
(* maybe_apply_runtime_config_update                                       *)

ReadStamp(w) ==
  /\ up /\ step[w] = "new"
  /\ seen' = [seen EXCEPT ![w] = stamp]
  /\ Proceed(w, "stamped")
  /\ UNCHANGED <<disk, daemon, memory, command, copy, notes>>

IsApplied(w) == seen[w] = applied

UpToDate(w) ==
  /\ step[w] = "stamped" /\ IsApplied(w)
  /\ Proceed(w, "ready")
  /\ UNCHANGED <<disk, daemon, memory, command, seen, copy, notes>>

LoadConfig(w) ==
  /\ step[w] = "stamped" /\ ~IsApplied(w)
  /\ copy' = [copy EXCEPT ![w] = file]
  /\ Proceed(w, "loaded")
  /\ UNCHANGED <<disk, daemon, memory, command, seen, notes>>

\* The file does not parse, or its provider cannot be made.
LoadFails(w) ==
  /\ step[w] = "stamped" /\ ~IsApplied(w)
  /\ Proceed(w, "ready")
  /\ UNCHANGED <<disk, daemon, memory, command, seen, copy, notes>>

StoreStamp(w) ==
  /\ step[w] = "loaded"
  /\ applied' = seen[w]
  /\ Proceed(w, "stored")
  /\ UNCHANGED <<disk, daemon, auto, ask, command, seen, copy, notes>>

\* replace_runtime_non_cli_policy takes one lock after the other.
ReplaceAuto(w) ==
  /\ step[w] = "stored"
  /\ auto' = Sanitized(copy[w].auto)
  /\ stale' = (stale \/ copy[w] # file)
  /\ Proceed(w, "replaced")
  /\ UNCHANGED <<disk, daemon, ask, applied, command, seen, copy, settled, raced>>

ReplaceAsk(w) ==
  /\ step[w] = "replaced"
  /\ ask' = copy[w].ask
  /\ stale' = (stale \/ copy[w] # file)
  /\ Proceed(w, "ready")
  /\ UNCHANGED <<disk, daemon, auto, applied, command, seen, copy, settled, raced>>

Reload(w) ==
  \/ ReadStamp(w) \/ UpToDate(w) \/ LoadConfig(w) \/ LoadFails(w)
  \/ StoreStamp(w) \/ ReplaceAuto(w) \/ ReplaceAsk(w)

-----------------------------------------------------------------------------
(* Commands, once the reload is over.                                      *)

Named(w, v, t) ==
  /\ verb' = [verb EXCEPT ![w] = v]
  /\ tool' = [tool EXCEPT ![w] = t]
  /\ settled' = [settled EXCEPT ![t] = "none"]
  /\ raced' = (raced \/ \E other \in Underway : tool[other] = t)

\* A turn, or any other command, leaves the policy alone.
Other(w) ==
  /\ step[w] = "ready"
  /\ Proceed(w, "over")
  /\ UNCHANGED <<disk, daemon, memory, command, seen, copy, notes>>

\* apply_persistent_runtime_grant, for /approve and /approve-confirm, which
\* persist, and for /approve-confirm-always, which does not.
Grant(w, v, t) ==
  /\ step[w] = "ready" /\ v \in {"approve", "session"}
  /\ Named(w, v, t)
  /\ auto' = auto \cup {t}
  /\ Proceed(w, "granting")
  /\ UNCHANGED <<disk, daemon, ask, applied, seen, copy, stale>>

GrantEnds(w) ==
  /\ step[w] = "granting"
  /\ ask' = ask \ {tool[w]}
  /\ Proceed(w, IF verb[w] = "approve" THEN "reading" ELSE "over")
  /\ UNCHANGED <<disk, daemon, auto, applied, command, seen, copy, notes>>

\* apply_persistent_runtime_revoke, for /unapprove.
Revoke(w, t) ==
  /\ step[w] = "ready"
  /\ Named(w, "unapprove", t)
  /\ auto' = auto \ {t}
  /\ Proceed(w, "reading")
  /\ UNCHANGED <<disk, daemon, ask, applied, seen, copy, stale>>

\* The first half of the persist_ and remove_ functions.
ReadFile(w) ==
  /\ step[w] = "reading"
  /\ copy' = [copy EXCEPT ![w] = file]
  /\ seen' = [seen EXCEPT ![w] = stamp]
  /\ Proceed(w, "writing")
  /\ UNCHANGED <<disk, daemon, memory, command, notes>>

\* Fault: an unapproved tool stays in the list.
NotRemoved(w) ==
  IF verb[w] = "approve"
    THEN [auto |-> copy[w].auto \cup {tool[w]}, ask |-> copy[w].ask \ {tool[w]}]
    ELSE copy[w]

\* What the command makes of the file.
Amended(w) ==
  IF verb[w] = "approve"
    THEN [auto |-> copy[w].auto \cup {tool[w]}, ask |-> copy[w].ask \ {tool[w]}]
  ELSE IF verb[w] = "unapprove"
    THEN [copy[w] EXCEPT !.auto = @ \ {tool[w]}]
  ELSE copy[w]

Settle(w) ==
  CASE verb[w] = "approve"   -> settled' = [settled EXCEPT ![tool[w]] = "approved"]
    [] verb[w] = "unapprove" -> settled' = [settled EXCEPT ![tool[w]] = "revoked"]
    [] OTHER                 -> UNCHANGED settled

\* An approved tool that is excluded is taken out of the exclusions next, which
\* reads and writes the file once more.
AfterWrite(w) ==
  \/ Proceed(w, "over") /\ UNCHANGED command
  \/ /\ verb[w] = "approve"
     /\ verb' = [verb EXCEPT ![w] = "unexclude"] /\ UNCHANGED tool
     /\ Proceed(w, "reading")

\* The second half: Config::save replaces the file with the amended copy; what it
\* does to the new file after that may fail.
Save(w) ==
  /\ step[w] = "writing" /\ stamp < MaxStamp
  /\ Amended(w) # copy[w] \/ verb[w] = "unexclude"
  /\ file' = Amended(w) /\ stamp' = stamp + 1
  /\ raced' = (raced \/ seen[w] # stamp)
  /\ \/ Settle(w) /\ AfterWrite(w)
     \/ Proceed(w, "over") /\ UNCHANGED <<command, settled>>
  /\ UNCHANGED <<daemon, memory, seen, copy, stale>>

\* Nothing to change.
NoSave(w) ==
  /\ step[w] = "writing" /\ Amended(w) = copy[w]
  /\ raced' = (raced \/ seen[w] # stamp)
  /\ Settle(w) /\ AfterWrite(w)
  /\ UNCHANGED <<disk, daemon, memory, seen, copy, stale>>

\* The file cannot be read, parsed or written: the change stays in memory.
PersistFails(w) ==
  /\ step[w] \in {"reading", "writing"}
  /\ Proceed(w, "over")
  /\ UNCHANGED <<disk, daemon, memory, command, seen, copy, notes>>

Manage(w) ==
  \/ Other(w) \/ GrantEnds(w) \/ ReadFile(w) \/ Save(w) \/ NoSave(w) \/ PersistFails(w)
  \/ \E t \in PolicyTool : (\E v \in Verb : Grant(w, v, t)) \/ Revoke(w, t)

PolicyNext ==
  \/ StartChannels \/ Restart
  \/ \E policy \in Policy : Edit(policy)
  \/ \E w \in Worker : Reload(w) \/ Manage(w)

PolicySpec == PolicyInit /\ [][PolicyNext]_policyVars

-----------------------------------------------------------------------------
(* Properties.                                                             *)

\* The file as it is has been applied, and nobody is about to apply another.
FileApplied ==
  up /\ applied = stamp /\ \A w \in Worker : step[w] \notin {"loaded", "stored", "replaced"}

\* needs_approval
Effective == auto \ ask

\* What commands saved stays saved until a command or an edit changes it, as
\* long as no command replaces a file it has not read.
SavedUnlessRaced ==
  raced \/ \A t \in PolicyTool :
    /\ settled[t] = "approved" => t \in file.auto \ file.ask
    /\ settled[t] = "revoked" => t \notin file.auto

\* docs/commands-reference.md:282 has approvals last "across restarts until revoked".
\* A saved approval is in effect once the file has been applied, unless the tool
\* must always be prompted for, and a saved revocation is, except where a command
\* overwrote another or a reload or a start applied an outdated copy.
DecisionsTakeEffect ==
  FileApplied /\ ~raced /\ ~stale => \A t \in PolicyTool :
    /\ settled[t] = "approved" => t \in Effective \cup ForcePrompt
    /\ settled[t] = "revoked" => t \notin Effective

=============================================================================
