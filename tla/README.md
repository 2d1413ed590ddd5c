# TopClaw in TLA+

TopClaw is an agent runtime in Rust: channels bring messages of users in, an
agent loop answers them with a model provider and tools, and stores keep what
was said. This directory holds TLA+ models of the parts whose correctness
depends on the order in which things happen, TLC runs that check them on small
instances, and TLAPS proofs of their central invariants for every instance.
Paths below are relative to the repository; its crate is in `src/`.

## 1. Inventory

| Part | State it keeps | Operations | What is hard | What makes it correct |
|---|---|---|---|---|
| Dispatch loop (`src/channels/dispatch.rs`, `context.rs`) | in-flight map, semaphore, token and completion per worker | receive, spawn, register, cancel, wait, process, signal | workers of one chat interleave on a multi-threaded runtime; wakeups; permits held while waiting | one interruptible turn of a chat at a time; only a newer message cancels; no permit is lost; every message ends |
| Message processing (`src/channels/message_processing.rs`) | histories, drafts | entry check, user turn, tool loop, reply, rollback | cancelled between any two awaits | an interrupted turn stays in the history |
| Lossless store (`src/agent/loop_/lossless.rs`) | SQLite tables; a cached ordinal per handle | open, record, rollback, rebuild summaries, reset | several handles on one file, statements that autocommit, crashes | transcript without holes, hierarchy without overlaps, nothing lost |
| Coordination bus (`src/coordination/mod.rs`) | inboxes, id window, dead letters, context and five indexes | publish, patch, drain, register | everything evicts at a limit; optimistic lock | indexes agree; order per inbox; no lost update |
| Sub-agents (`src/tools/subagent_*.rs`) | sessions with status and handle | spawn, report, kill, list | a kill racing the spawner or the report | the limit; a kill is final; slots are freed |
| Provider failover (`src/providers/reliable.rs`, `circuit_breaker.rs`) | two atomics per provider | attempt, retry, skip | torn pairs of atomics, concurrent callers | no provider is skipped wrongly; it is used again when it works |
| Approvals (`src/approval/mod.rs`, `src/channels/command_handler.rs`) | pending requests, one-turn grants | ask, confirm, reject, consume, expire | grants consumed by a concurrent turn | an approval counts once, and for who asked |
| Runtime policy (`src/channels/runtime_config.rs`, `startup.rs`) | tool lists in memory and in `config.toml`, a stamp | reload, approve, revoke, edit, restart | read, amend and replace without a lock; memory against file | a decision takes effect and stays |
| Cron (`src/cron/`, `src/tools/cron_*.rs`) | rows in SQLite, the scheduler's batch | poll, run, settle, add, update, remove, run now | changes and crashes between a run and its settling | removed is removed; a change is not undone; due jobs settle |
| Process tool (`src/tools/process.rs`) | table, bounded buffers, detector offsets | spawn, read, output, kill | check and enter are separate; offsets against a buffer that drops | limits; every byte is inspected |
| Pairing (`src/security/pairing.rs`) and gateway configuration (`src/gateway/mod.rs`, `api.rs`) | code, tokens, failed attempts; copies of the configuration | pair, save, lock out | saves of stale copies; check and count are separate | promised tokens last; guesses are bounded |
| Webhook (`src/gateway/webhook_ingress.rs`) | sliding windows, idempotency keys | admit, record, answer | the clock is read before the lock; eviction at a limit | limits per window; a key is worked on once |
| Accounts (`src/auth/`) | `auth-profiles.json`, its lock file, mutexes and backoffs of refreshing | refresh, login, logout | several processes; calls dropped while a file operation goes on | the lock has one owner; no update is lost; tokens are exchanged once |
| Supervised listener, daemon, heartbeat, health | backoff, status | listen, restart | failure loops | restarts until the queue closes |
| Delegate tool (`src/tools/delegate.rs`) | a trace on the bus: request, phase, result | publish, work, publish | delegations of concurrent turns share a context that evicts; turns are interrupted | an entry says what became of its delegation, or is gone |
| Agent tool loop (`src/agent/loop_.rs`, `loop_/`) | the history of a turn, the calls made so far, failures | ask the model, plan, run, append, end | dropped or interrupted at any await; hooks and commands change what was decided; results are paired by position | every call has its result; no call runs twice or unasked; what tools did is recorded |
| Task plan | one list | | sequential | |
| Cost tracker, emergency stop, policy, secrets | budget, levels | | never called, or one process | |
| Channels, providers, tools, memory, configuration, onboarding, skills | formats, SQL, files | I/O | not ordering | |

How they interact: a listener sends a message into the queue of the dispatch
loop; the loop's worker calls `process_channel_message`, which applies a changed
`config.toml`, carries out a command or opens the lossless session, records the
user turn and runs the tool loop. The loop asks a provider, through
`ReliableProvider` and its breakers, with a token of an account. Its tools reach the
bus, the sub-agent registry, the process table, the jobs and the approval manager,
which all workers share. The gateway and the `topclaw` commands share files
with them: `config.toml`, `jobs.db`, `auth-profiles.json`.

`PROJECT.json` lists every component with its status and the hazards with the
line where each bites.

## 2. Modules

| Module | Models | Proofs | Checked by |
|---|---|---|---|
| `SerialTurns` | what interruption promises: turns of one scope never run together | | `dispatch` |
| `ChannelDispatch` | the dispatch loop, down to the two steps inside `wait()`; refines `SerialTurns` | `ChannelDispatchProofs` | `dispatch*` |
| `LosslessContext` | one session of the lossless store, statement by statement | `LosslessContextProofs` | `turns`, `lossless_*` |
| `ToolLoop` | one turn of the agent: rounds, tools, and what is recorded of them | `ToolsProofs` | `turns` |
| `Listing` | the order in which a loop over a list finds what it keeps | | with its users |
| `CoordinationBus` | the bus, one step per method (it has one mutex) | `BusProofs` | `bus` |
| `CoordinationClients` | clients of it, one of which patches what it read a while ago | `BusProofs` | `bus` |
| `DelegateTrace` | the delegate tool, publishing on the bus | `BusProofs` | `bus` |
| `SubAgents` | registry, spawner, task and kill | `BackgroundProofs` | `background` |
| `ProviderChain` | retries, failover and the breakers' atomics | `BackgroundProofs` | `background` |
| `GrantLedger` | what approving promises: asked, approved, used once by who asked | | `services` |
| `Approvals` | approval manager, commands and turns; refines `GrantLedger` | `ApprovalsProofs` | `services` |
| `RuntimePolicy` | the tool policy in memory and in the file | `ApprovalsProofs` | `turns` |
| `ProcessTool` | background processes | `ToolsProofs` | `services` |
| `GatewayPairing` | codes, tokens and the configuration the gateway saves | `GatewayProofs` | `services`, `gateway_saves_over` |
| `PairingLockout` | failed attempts and lock-outs | `GatewayProofs` | `services` |
| `WebhookIngress` | rate limit and idempotency keys | `GatewayProofs` | `services` |
| `CronJobs` | jobs, scheduler, commands | `CronAccountsProofs` | `cron_jobs` |
| `AuthProfiles` | the store of accounts, refreshing, commands | `CronAccountsProofs` | `services` |
| `MC*` | instances for TLC | | |

Each module begins with the abstraction it makes. Operators that follow a
comment "Fault:" are not part of the model: they are plausible mistakes, each of
which breaks the property that `PROJECT.json` names for it. Variables marked
auxiliary are history that the properties speak about; no guard reads them.

**ChannelDispatch.** `arrived`, `taken` and `held` are the mpsc queue and the
loop's local message, `permits` the semaphore, `current` the in-flight map,
`previous` what a worker got back from `insert`, `cancelled` and `done` the two
signals. A worker's steps are the code's atomic pieces: take an id, register,
cancel the predecessor, load the flag, create the Notified future, enter
processing, record the user turn, end, unregister, store the flag, notify.
`process_channel_message` is reduced to its entry check, the recording of the
user turn, and how it ends.

**LosslessContext.** Every SQL statement is one action. A task is one channel
message of the session, a turn or a `/new`; its handle caches the conversation
and the next ordinal. Text is abstracted to the message that wrote it, ids to
a counter. A crash ends all tasks and keeps the tables.

**ToolLoop.** A turn goes round: ask the model, go through the calls of its reply,
run them, append calls and results. `fate` says what became of each call
(`ordered_results` and `executable_calls`), `transcript` what was appended, `store`
what the caller recorded when the loop returned; `effects` (auxiliary) are the tools
that were started and `strict` (auxiliary) the tools that have needed an approval all
along. `setting.where` is a chat, which asks by a prompt of the channel; a channel that
cannot prompt, which refuses; or the command line, which asks at once and has neither
token nor timeout. The web chat is a channel that cannot prompt and is never
interrupted. What a hook or a grant does to arguments, streaming and progress in drafts are left out, and so
are the loops of delegates and sub-agents: they have no approval manager, and nobody
records their history.

**CoordinationBus, CoordinationClients.** Each method is one action, with the
outcomes of `publish` as disjuncts; all five indexes, the inboxes with their
counts and both dead-letter lists are state. Versions and counts of 0 stand for
absent entries.

**DelegateTrace.** A delegation goes through its four publications, with the work of the
agent, where the turn may be dropped, between the second and the third. Refusals are
not looked at, as in the code.

**SubAgents.** `subagent_spawn` is three steps (insert, spawn, store the handle),
a task is working, then past its last await, then over; `abort()` stops it only
while it works. Any ended session may be an hour old for the clean-up.

**ProviderChain.** A caller goes through the pairs of model and provider; loading
the count, loading the stamp, adding to the count and storing the stamp are steps of
their own. They are taken in program order: reorderings that `Relaxed` would also
allow are not modelled. The comment of `circuit_breaker.rs` speaks of a probe; the
code lets every caller through after the cooldown, and so does the model.

**Approvals, RuntimePolicy.** A task is a channel message: a user turn or a command.
Each method of the manager is one step under its lock, and a command is several. The
policy has a life of its own, with reads of the stamp, reads of the file and
replacements as steps, restarts and failed writes. The instance has no tool that
must always be prompted for in spite of an approval (`ForcePrompt`), and so does not exercise
that a reload takes the persisted approvals of such tools out again; the proofs cover it.

**ProcessTool.** Locks delimit steps; output is bytes numbered as they are
written, and what the buffer drops may round up to a character (`Slip`).

**GatewayPairing, PairingLockout, WebhookIngress.** Handlers run side by side.
Pairing is split in two because codes and lock-outs share nothing but the
order of the checks. A restart is a restart of the process: a gateway that the
daemon restarts within it keeps the configuration it had. A chat command that
rewrites the file is one step here; its races are the subject of `RuntimePolicy`.
The sweeps that the limiter makes now and then may or may not happen.

**CronJobs.** A statement is a step, `update_job` is two (it reads a row and writes
all of it back), and the scheduler works on the rows as the poll read them. Time is
counted in ticks and passes between any two steps. A schedule is one time, an interval, or a
cron expression that names a year (`until`): its occurrences end, and from then on
`next_run_for_schedule` fails. What clients asked for (`asked`) is written by clients
only; what the scheduler does to a job on its own account is kept apart (`retired`, `overruled`).

**AuthProfiles.** A call goes to the store up to three times: to look, to look again
with the mutex of its profile, and to save. Creating the lock file and replacing the
store are carried out by another thread also when the call is dropped meanwhile
(`CreateAdrift`, `RenameAdrift`), which is how the runtime's file operations
behave; a guard that exists removes the lock file at once. Token sets are
numbered as they are issued. An answer of the token server that is lost on the way counts as a
denial.

The modules `MCTurns`, `MCBackground`, `MCServices` and `MCCoordinationBus`
put several components that share no state into one run: a variable `part` says which of them
moves, so that their states add up and do not multiply, and every property is
checked over the states of its own part. In `MCCoordinationBus` and `MCCronJobs` the parts are
also instances of one component with different clients.

## 3. Runs

| Run | Question | States | Result |
|---|---|---|---|
| `dispatch` | two interruptible messages of one chat and one of another, two permits: one turn at a time, the map keeps the newest, only a worker that registered later cancels, no permit is lost, refinement of `SerialTurns`; does anything but a missed wakeup block a message or keep the loop from draining? | 70 325 | holds |
| `dispatch_older_cancels` | is a message only cancelled by a newer one of its chat? | | violated |
| `dispatch_turn_preserved` | are interrupted user turns preserved? | | violated |
| `dispatch_taken_up` | is a message that displaced another taken up? | | violated (missed wakeup) |
| `turns` | the store, one task at a time, a crash anywhere, a `/new`, three levels of summaries: transcript, hierarchy, bounds on gap and roots; a turn of the tool loop in every setting: results paired, nothing twice or unasked, effects recorded; the runtime policy under two messages, edits, failed writes and restarts: what commands saved is saved and takes effect | 1 165 703 | holds |
| `lossless_overlap` | two tasks in flight, one of them perhaps a `/new`, a crash anywhere: are messages lost only in turns that overlapped another? | 2 279 126 | holds |
| `lossless_turn_lost` | two turns in flight: is every message kept? | | violated |
| `bus` | patches under changing correlations with room for two of three keys: do the five indexes agree, and does only an eviction lose an update? direct and broadcast messages with every queue at its limit: order, counts, dead letters, the idempotency window; three delegations with room for two: does the context show what became of them? | 289 562 | holds |
| `background` | two spawners for one slot, kills and lists: backed slots, final kills, every slot freed in the end; two callers, two providers that come and go: no torn skip, requests end, the first provider is used again | 103 573 | holds |
| `services` | approvals of two chats; two calls of the process tool; pairing with restarts and a dashboard; attempts of two clients; three webhook calls; two turns that refresh tokens and a command of another process, a call dropped or a process killed | 711 932 | holds |
| `gateway_saves_over` | does an approval that was saved last until it is revoked? | | violated |
| `cron_jobs` | two jobs and two commands; three jobs, one more than a batch takes, and one command; a crash or a failing statement in each: removed for good, changed as asked, settled in the end? | 290 860 | holds |

The violated ones are disagreements between the code and what its documentation
says; `findings` in `PROJECT.json` quotes both sides of each. A passing
property beside each shows how far the damage goes: a message waits for ever only
behind a missed wakeup (`OnlyAMissedWakeupBlocks`), a message is cancelled only by one whose
worker registered later (`CancelledByASuccessor`), a turn is lost only by
overlap (`LostOnlyByOverlap`), and tokens that were promised last unless a handler
saved what another had replaced (`PromisedTokensKept`).

Many properties name the exception under which they fail, and the exception is
itself something the code does:

- `EffectsRecorded`: a loop that is dropped by the token or the timeout around it records
  nothing of its rounds, a suppressed answer neither, and of a cancelled turn the round in
  which the token fired is missing: its tools have acted and the next turn does not know.
- `TurnSound`: investigation tools run unasked in a chat, and so does whatever a grant or
  a change of the policy meanwhile allows.
- `OnlyEvictionLosesUpdates`: versions count from 1 again when a key was evicted.
- `DelegationsTraced`: the outcome of a delegation is not recorded once as many others
  as the context holds were written since its start; an interrupted one stays "queued".
- `KillIsFinal`: a kill before the handle is stored, or after the task's last await, is
  overwritten by `complete` or `fail`, and the session works on while its slot is free.
- `SavedUnlessRaced`, `DecisionsTakeEffect`: of two writers of `config.toml` the later
  undoes the earlier, and a reload or a start may apply an outdated copy.
- `ChangesLast`, `SettledAsScheduled`: of two updates of a row that cross, one is
  undone; a schedule changed during a run gets a next run of the old one.
- `ChangesLast`: a change that a client makes during the run of a one-shot job is overruled
  by its settling, which goes by the row that the poll had read: the job is removed, or
  disabled, though it was resumed, rescheduled or to be kept meanwhile (`overruled`).
- `DueJobsSettle`: a one-shot job that is kept stays due. So does a job whose cron expression
  names a year and has had its last occurrence: `reschedule_after_run` fails before its
  `UPDATE`, which is only logged, and the job runs at every poll for good. `max_tasks` of
  such jobs starve every other one.
- `LimitsKept`, `AttemptsBounded`: calls that are between the check and the count come on top.
- `InspectedOnce`: output is inspected twice when two calls' snapshots crossed.
- `WindowLimit`, `WorkedOnOnce`: clients and keys are forgotten at the limit of the
  map, and a clock read before the lock lets a stamp expire early.
- `LockAccounted`: a killed process, or a call dropped before its guard exists,
  leaves a lock file that nothing breaks: every later call times out.
- `UpdatesKept`: a dropped call's replacement may land after it gave up the lock.
- `ExchangedOnce`: the mutex belongs to a process, so the daemon and
  `topclaw auth refresh` may both exchange one token; within a process tokens are
  exchanged again when their successors could not be saved.

Known and covered by no property: condensed summaries are written without the duplicate check of leaves, which
matters only under overlap; a rollback among equal messages deletes the newest of
them; asking again for a tool already pending returns the request with its old
payload; confirming one tool lets the resumed turn run all of its tools; a webhook's
key is recorded before its work, so that a call that failed is not worked on when it
is retried; a login during a refresh of the same profile is overwritten by the refresh;
the answer given after repeated failures of web lookups is not in the store.

### Bounds, and why they are enough

- Dispatch: three messages. Every hazard of the map and of the signals is between
  a worker, the one it displaced and the one that displaces it; the third message
  contends for the two permits from another chat, and `dispatch_turn_preserved` has
  all three in one chat. That more workers of a chat do no harm is not left to
  the instance: the proofs are for any number.
- Lossless: the constants 24, 8 and 4 become 1, 2 and 2 (3 under overlap). The
  code compares counts with them and does nothing else, so small values reach
  the same branches sooner; three turns of up to three messages give three
  levels of nodes. Under overlap two turns and a `/new` are enough for every
  pair. `MaxDelta` (1) bounds the messages of a reply, `MaxCrashes` (1) the
  crashes, `MaxActive` (1 or 2) the tasks in flight. Turns are symmetric.
- Tool loop: two rounds (`MaxRounds`), which is the least in which a call repeats, a
  correction is sent and failures add up to `MaxWebFailures` (2, as in the code); three
  tools, one of them a web lookup that may be hidden, one an investigation; replies
  (`Replies`) of one and two calls with ids and without, with two kinds of arguments (`LoopArgs`); a hook that may give one tool another's name
  (`RenamedBy`); the policy starts with no tool gated, with one or with two
  (`FirstGated`), and others may change it for one of them at any time (`Regulated`).
- Bus: limits of two, so that everything evicts, and one key more than there is room
  for; `MaxCalls` (5) bounds the calls of clients that patch, of which it takes five to
  lose an update, and those that send messages make one less; delegations are bounded
  themselves. Where clients patch no agent is registered, so every patch is applied
  and then dead-lettered, which is where the two halves of `publish` come apart.
  Message ids are symmetric.
- Sub-agents: two sessions and one slot; sessions meet only in the count.
- Providers: two, the first with two models, `Threshold` 2, `Cooldown` 1 tick,
  `MaxRetries` 1; the count is kept up to the threshold and the stamp up to the
  cooldown, which is all the code distinguishes. Callers never stop asking.
- Approvals: two user messages and three commands of two chats, one of them
  barred from managing approvals, and `MaxRequests` (2). Policy (in `turns`): two
  messages and one tool; `MaxStamp` (2) bounds the replacements of the file.
- Process tool: two calls, a table of one, a buffer of two bytes and `MaxBytes` (3)
  written, so that it drops; `MaxSpawns` (3).
- Gateway: `MaxStarts` (3) starts, `MaxSaves` (3) replacements, one pairing beside
  one dashboard. Lock-outs: two clients in two attempts, `MaxPairAttempts` 2,
  `MaxInstant` (2). Webhook: three calls, two of one client with one key, room for
  one client and one key, `MaxClock` (2). Calls of one client with one key are symmetric.
- Jobs: `MaxTasks` (2) to a batch and one at a time (`MaxConcurrentJobs`), which is the order
  that they start in. Two jobs of all kinds under two commands give the crossings; three jobs
  are one more than a batch takes, so that one stays due for good, a second may (at which the
  premise of `DueJobsSettle` ends), and the third waits for its turn. `MaxTime` (2) lets a
  schedule pass and a cron expression end, `MaxFaults` (1).
- Accounts: two turns and one command of another process, two profiles,
  `MaxTokens` (3) token sets, `MaxBreaks` (1) calls dropped or processes killed.
  The exception of `ExchangedOnce` for replacements that land late needs a larger
  instance than this; the proof needs it.

`CHECK_DEADLOCK FALSE` is set where a run may rightly stop: the dispatch runs
(the loop has returned, or the missed wakeup has stranded a worker), the bus
run (`MaxCalls` is reached, or the delegations are over), and the runs of several parts (a part's calls are
over, or its bounds are reached). The lossless runs and `turns` check deadlock (a turn
of the tool loop that is over stutters).

### Fairness

- Dispatch (`FairSpec`): weak fairness of the loop and of each worker. Tokio polls
  a ready task again, and a turn ends because the tool loop runs under a
  timeout. The listeners owe nothing: messages may never come and the queue need
  not close.
- Sub-agents (`SubAgentsFairness`): weak fairness of the spawner's steps, which
  follow one another without an await, and of the task, which runs under a
  timeout. No fairness of kill, list or a new spawn.
- Providers (`ProviderFairness`): weak fairness of time and of a caller's steps, every
  request has a timeout, and strong fairness of success: a provider that works
  answers a caller in the end, if asked again and again. Requests keep coming, which is
  the premise of `FirstRecovers`: nobody notices a recovery without asking.
- Jobs (`CronFairness`): weak fairness of the poll and of the scheduler's steps, which
  an interval timer and a timeout give. Clients and faults owe nothing, and faults are bounded.
- The other modules state no liveness.

## 4. Proofs

TLAPS checks, for every value of the constants under the named assumptions:

| Theorem | Says |
|---|---|
| `ChannelDispatchProofs!TypeCorrect` | type correctness |
| `ChannelDispatchProofs!OneTurnAtATime` | `[]OneTurnPerScope` |
| `ChannelDispatchProofs!MapKeepsNewest` | `[]EntryIsNewest` |
| `ChannelDispatchProofs!PermitAccounting` | `[]PermitsConserved` |
| `ChannelDispatchProofs!OnlySuccessorsCancel` | `[]CancelledByASuccessor` |
| `ChannelDispatchProofs!OnlyAMissedWakeupStops` | `[]SomethingMoves`: the dispatcher stops at a missed wakeup only |
| `ChannelDispatchProofs!DispatchImplementsSerialTurns` | the refinement of `SerialTurns` |
| `LosslessContextProofs!LossNeedsOverlap` | `[]LostOnlyByOverlap` |
| `LosslessContextProofs!TranscriptKept` | `[]TranscriptIntact`, if `MaxActive = 1` |
| `LosslessContextProofs!SummariesSound`, `HistoryBounded` | `[]HierarchySound`, `[]RebuildBounded`, if `MaxActive = 1` |
| `ToolsProofs!TurnIsSound`, `EffectsAreRecorded` | `[]TurnSound`, `[]EffectsRecorded` |
| `BusProofs!ContextStaysIndexed`, `DeliveryIsSound` | `[]ContextIndexed`, `[]DeliverySound`, of any clients |
| `BusProofs!OptimisticLock` | the action property `OnlyEvictionLosesUpdates` |
| `BusProofs!DelegationsAreTraced` | `[]DelegationsTraced` |
| `BusProofs!TracedBusIsSound` | `[]ContextIndexed`, `[]QueuesIndexed`, of delegations |
| `BackgroundProofs!SlotsHold`, `CleanKillIsFinal` | `[]SlotsSound`, `[]KillIsFinal` |
| `BackgroundProofs!SkipsAreRight` | the action property `SkipsOnlyTripped` |
| `ApprovalsProofs!TypeCorrect`, `AnswersCountOnce` | type correctness, `[]ApprovalsUsedOnce` |
| `ApprovalsProofs!ApprovalsImplementGrantLedger` | the refinement of `GrantLedger` |
| `ApprovalsProofs!CommandsAreSaved`, `CommandsTakeEffect` | `[]SavedUnlessRaced`, `[]DecisionsTakeEffect` |
| `GatewayProofs!GuessesBounded` | `[]AttemptsBounded` |
| `GatewayProofs!PromisesKept` | `[]PromisedTokensKept` |
| `GatewayProofs!KeyedOnce`, `LimitHolds` | `[]WorkedOnOnce`, `[]WindowLimit` |
| `ToolsProofs!ProcessLimits`, `DetectorSeesAll` | `[]LimitsKept`, `[]InspectedOnce` |
| `CronAccountsProofs!ChangesStay`, `JobsSettle` | `[]ChangesLast`, `[]SettledAsScheduled` |
| `CronAccountsProofs!RemovedJobsStayAway` | the action property `RemovedForGood` |
| `CronAccountsProofs!LockFileAccounted`, `UpdatesLast`, `TokensExchangedOnce` | `[]LockAccounted`, `[]UpdatesKept`, `[]ExchangedOnce` |

Assumptions are those of the constants, named in the modules that declare them
(`DispatchAssumption`, `MessagesFinite`, `LosslessAssumption`,
`LoopAssumption`, `BusAssumption`, `ClientsAssumption`, `TraceAssumption`, `SubAgentsAssumption`, `ProviderAssumption`, `ApprovalsAssumption`,
`PolicyAssumption`, `PairingAssumption`, `LockoutAssumption`, `WebhookAssumption`,
`ProcessAssumption`, `CronAssumption`, `AuthAssumption`); TLC evaluates them in every
run of their modules.

**Dispatch.** `OneTurnPerScope` says nothing of workers that have not started,
and so is not inductive. `IInv` orders the workers of a scope by the ticket of
their insertion into the map and says that every registered worker but the
newest has a successor, that a worker that waits knows its predecessor, that a
worker leaves the map only when it is done, and that a worker past its wait has
a predecessor that is done. Then two workers of a scope inside processing would
be ordered, and the later one would have waited for the earlier. Permits need
that a message is in the queue, held by the loop or has one worker. The
refinement follows step by step: a turn begins only in `EnterProcess`, where
`IInv` gives that no rival runs. That workers that wait for each other, their permits
held, never form a circle: among parked workers take the one with the least ticket. Its
predecessor has a smaller one, so it is not under way; it has ended, its flag is stored,
and the wakeup was missed. A worker that is not parked always has a step, since its
guards are about its own location. What TLC adds in `OnlyAMissedWakeupBlocks` is that
these steps lead to the end.

**Lossless.** While a task is alone its cached ordinal is above every ordinal of
its conversation: it reads `MAX + 1`, advances with what it writes, and a
conversation it creates has no rows. So the unique index refuses only rows of a
task that overlapped another. That a finite table has a greatest ordinal is
proved from the well-foundedness of strict inclusion on finite sets.

The other three are claims about one task at a time, and have `MaxActive = 1` as a
hypothesis: two rebuilds at once may well summarise a message twice. They rest on one
invariant (`SInv`), whose parts need each other. All rows are of the conversation of the
session, and in it ids grow with ordinals from 0 without a hole (`Spoken`): what a handle
records comes after the rest, what it rolls back was the last, a reset empties the
conversation before it leaves it. A rebuild has listed, at its depth, just what no summary
has (`Rebuilt`); while it writes a summary, the rows it has yet to write come before those
left in the list, and the sources written and to be written make one chunk. So each row
gets one parent, in order, and what has been given up is less than a chunk. A depth may have
enough roots for another node only while a rebuild is at it or just below, or a reset
deletes (`FewRoots`). A turn's own message is the newest until its rebuild is
over, and the newest is never old enough to be summarised; so what a rollback deletes is in no
summary (`OwnUncovered`). A reset deletes what refers before what is referred to (`Wiped`).
Crashes anywhere are part of it: only the completeness of summaries and the number of
roots are claims about runs without one.

**Tool loop.** A call that runs has entered its signature among the calls made before it
became ready, and entering refuses a signature that is there: so no two calls that are
ready or started share one, in a round or across rounds. That a call outside the command
line is approved or investigates follows it from the decision to the start. Results are
appended in the order of the calls and in one step with them, and the invariant states the
pairing of the transcript position by position, which appending preserves. For the
recording: what was started in earlier rounds is in the transcript, what was started
in this one is among its calls, and the store has the transcript when the turn has ended in
a way that records it.

**Bus.** Every index of the bus is a selection: the dead letters of a correlation, the
entries an inbox counts for it, the keys of a kind in the order of the context. So
most of the argument is an algebra of `Only(s, T)`, the elements of `s` that are in `T`:
what it is when an element is appended to `s`, when the head leaves, when an element is taken
out of the middle, and of a selection of a selection. With it each index follows its list, as
`publish` and `drain` change both. An index that evicts without looking (`DropEvicted`) is right
because the oldest of a selection is the oldest of the list if that is selected. Ids: the window is the
end of what was accepted, as much as fits, so what is accepted again has left it and
`MaxSeen` others came since. The lock: a key's version only moves on or
is cleared, and is cleared only by an eviction; so a version that the slow client read and
that is still there is still of the same write.

**Delegations.** No id is used before its stage, so no message of a delegation is taken for a
duplicate; hence the first patch is always applied, and the last exactly when the key is still
there. The context lists the delegations it shows in the order of their last writes, and with a
delegation it shows all that were written after it. An eviction keeps this because it takes the head of
the list, and it leaves the context full. So the shown are `MaxContext` of those written, and
the last of them.

**Sub-agents.** An aborted session has a spawner that has returned and does not
run again; a handle is stored only by a spawner that has returned; a clean kill
aborted its task. With these, a running session has something that ends it and
a clean kill is final. The limit is a cardinality argument on `try_insert`.

**Approvals.** A request is at one place at a time: pending, held by a command,
queued as a grant, or used by a turn. The invariant ties a command to the request it
has taken: between its two critical sections that request is in its scope, in no map
and in no queue, and no other command has it. The refinement maps places to phases; a step that moves
a request maps to the ledger's step, the others stutter.

**Providers.** Only a success lowers a count of failures, and it notes itself with
every request under way at that provider. So a request that has seen the count at the
threshold, and was not noted, still finds it there when it loads the stamp.

**Runtime policy.** Unless a writer replaced a file it had not read, a command is the
only one about its tool until it has written the file, what it is about to write was made from the
file as it is, and what is settled about a tool is in the file. For memory the claim is made tool by tool, once
the latest file has been applied: memory has what is settled, and of a tool that a command is
about what the command wants if the file has it too; the two lists that a reload
replaces one after the other are told apart (`AutoPending`, `AskPending`).

**Pairing.** As long as no handler has saved what another had replaced (`OnCourse`): promised
tokens are in the guard, in the file and in the shared configuration; a handler that
is yet to update the shared configuration has just written the file, and is the only one;
and a copy made from the file as it is has the tokens promised so far. What a pairing saves are
tokens of the guard, whatever was overtaken.

**Lock-outs.** Between its check and its count an attempt is in the set that the
property adds to the failures, so the sum grows only at the check, where the
failures are below the limit. It needs that a client with too many failures has a lock-out: the
check lets it pass only when the lock-out is over, and then forgets the failures.

**Webhook.** A call that was recorded at its own reading is known by its key, or by a
later call's, until the time to live is over; so a second call with the key finds the entry. For the
rate limit, the entry of a client has a time of its own for each of its calls that still count:
an injection from calls into the positions of the entry, which pruning and appending preserve
and which bounds the calls by the entry's length.

**Process tool.** The limit is a cardinality argument over the calls between
counting and entering. The detector's offset is at most what a snapshot saw,
and what lies below it was inspected or had left the buffer for good. Unless snapshots
crossed, nothing beyond the offset was inspected, so nothing is inspected twice.

**Jobs.** The claims are about the jobs one by one, together with what the auxiliary
sets stand for: a job is spent only while it has a row, and the scheduler's copy of a
running one-shot job says that it is one. For `ChangesStay` the invariant says
that a row is as clients asked for last, or the scheduler has ended the job (`AsAsked`), and that
of a job that nobody changed since the poll the scheduler's copy is as clients asked
(`CopyAsAsked`): so a one-shot job that it ends without overruling anybody was asked for as one.
An update writes its own change into what it has read, which is the row unless two crossed.

**Accounts.** `LockAccounted` is inductive as it stands. `UpdatesKept` needs that whoever
has read the store under the lock has what is in it, which the one owner of the lock
gives. `ExchangedOnce` rests on where tokens can be: those of a profile are only ever
read, sent and stored for it; those not stored yet are nowhere else; whoever looks
again, asks or saves has the mutex of its profile. Tokens that were exchanged are then
lost, gone from the store, or about to be replaced by the call that has the mutex, and
another call of the process that reads them would need the same mutex.

Only model-checked: liveness, which is out of reach for TLAPS (`OnlyAMissedWakeupBlocks`,
`LoopDrains`, `EverySlotIsFreed`, `RequestsEnd`, `FirstRecovers`, `DueJobsSettle`). Every other
property of a passing run is stated by a theorem. Of the first, `OnlyAMissedWakeupStops` proves the part that is
safety. Clients and delegations each have theorems on a bus of their own, as in
the runs; what the proofs do not say is how they fare on one bus.

Lists that the bus filters are filtered here by `Only`, a recursive function, because what the library's
`SelectSeq` computes is hidden from the provers; and the library's induction theorems
cannot be used, so `BusProofs` derives induction over numbers and over sequences, for sets of them,
from the well-foundedness of strict inclusion on finite sets.

## 5. Not modelled, and why

- Channel and provider adapters, tools that wrap programs, memory search,
  configuration, onboarding, skills: they make up most of the code, convert formats
  and do I/O, and what could go wrong there is not an order of events. This is why the
  modules map a small part of the repository's lines.
- The cost tracker and the budget check: nothing calls them. The emergency stop: one
  process edits one file. The security policy: string classification.
- The supervised listener, the daemon's supervision, heartbeat and health: loops that
  restart what ended after a growing delay; their only shared state is what they
  report. That a listener may end, and the queue close, is in `ChannelDispatch`.
- Of the agent's tool loop, the parsing of replies and the formatting of results; its
  grants are the subject of `Approvals`, its session that of `LosslessContext`.
- Within modelled parts, each module's head says what is left out; `PROJECT.json`
  repeats it per component.

What would come next: `LosslessContext` under overlap beyond the loss of messages
(interleaved rebuilds, equal messages in a rollback, the temporary fallback store); streaming in `ProviderChain`; the choice
of the active account in `AuthProfiles`; clients and delegations on one bus.
