------------------------------ MODULE ToolLoop ------------------------------
(***************************************************************************)
(* One turn of the agent: run_tool_call_loop of agent/loop_.rs, the tools  *)
(* it runs (agent/loop_/execution.rs), and what its caller in              *)
(* channels/message_processing.rs or the interactive command records of    *)
(* it.                                                                     *)
(*                                                                         *)
(* A round asks the model, goes through the calls of its reply one by one, *)
(* runs those that may run, and appends calls and results to the history.  *)
(* Meanwhile the token of the turn may fire, its time may run out, and     *)
(* other turns and commands change which tools need an approval.           *)
(*                                                                         *)
(* A call is a tool and its arguments, and whether the model gave it an    *)
(* id; a text only either is accepted, sent back or given up on.  An       *)
(* unknown tool is one that fails; streaming a reply, which falls back to  *)
(* asking for it, and progress in the draft keep no state of the loop.     *)
(* What an approval does to a tool's arguments is left out.                *)
(***************************************************************************)
EXTENDS Naturals, Sequences, FiniteSets, Listing

CONSTANTS
  LoopTool,       \* the names of tools
  LoopArgs,       \* the arguments of calls
  WebTool,        \* those of is_web_lookup_tool
  HiddenTool,     \* excluded_tools
  Investigation,  \* tools of qualifies_for_non_cli_investigation_batch
  Reply,          \* the lists of calls a model may reply with
  FirstGated,     \* bound: the sets of tools that need an approval when a turn starts
  Regulated,      \* bound: the tools others change the policy of
  RenamedBy,      \* the names hooks may give a tool, its own among them
  MaxRounds,      \* max_tool_iterations
  MaxWebFailures  \* MAX_CONSECUTIVE_WEB_TOOL_FAILURES

ToolCall == [tool : LoopTool, args : LoopArgs, id : BOOLEAN]

ASSUME LoopAssumption ==
  /\ WebTool \subseteq LoopTool /\ HiddenTool \subseteq LoopTool /\ Investigation \subseteq LoopTool
  /\ Reply \subseteq Seq(ToolCall) \ {<<>>}
  /\ RenamedBy \in [LoopTool -> SUBSET LoopTool] /\ \A t \in LoopTool : t \in RenamedBy[t]
  /\ FirstGated \subseteq SUBSET LoopTool /\ Regulated \subseteq LoopTool
  /\ MaxRounds \in Nat \ {0} /\ MaxWebFailures \in Nat \ {0}

VARIABLES
  setting,    \* where the turn runs, whether it has a grant, whether tools are native
  gated,      \* the tools that need an approval now
  strict,     \* auxiliary: those that have needed one all along
  fired,      \* the cancellation token
  place,      \* where the loop is, or how it ended
  round,      \* iteration
  corrected,  \* missing_tool_call_retry_used
  correction, \* missing_tool_call_retry_prompt is there
  misses,     \* consecutive_web_tool_failures
  ranBefore,  \* seen_tool_signatures
  plan,       \* the reply's calls, its form, and how it is to be run
  fate,       \* what became of each call: ordered_results and executable_calls
  transcript, \* what the loop appended to the history
  effects,    \* auxiliary: the calls whose tools were started
  store       \* what the caller recorded of the transcript

surroundings == <<setting, gated, strict, fired>>
counts == <<round, corrected, correction>>
traces == <<transcript, effects, store>>

loopVars == <<surroundings, place, counts, misses, ranBefore, plan, fate, traces>>

\* In a chat the approval goes by prompts of the channel; a bare channel cannot
\* prompt; the command line asks at once, and has no token and no timeout.
Place == {"chat", "bare", "cli"}

Endings == {"answered", "gave_up", "asked", "cancelled", "failed", "deferred", "limit"}

Fate == {"new", "refused", "ready", "running", "succeeded", "failed", "stopped"}

Plan == [calls : Seq(ToolCall), structured : BOOLEAN, parallel : BOOLEAN, blocked : BOOLEAN]

NoPlan == [calls |-> <<>>, structured |-> FALSE, parallel |-> FALSE, blocked |-> FALSE]

Message == [kind : {"calls", "text", "result", "results", "correction", "answer"},
            calls : Seq(Nat \X Nat)]

Effect == [round : Nat, at : Nat, tool : LoopTool, args : LoopArgs]

LoopTypeOK ==
  /\ setting \in [where : Place, granted : BOOLEAN, native : BOOLEAN, hiding : BOOLEAN]
  /\ strict \subseteq gated /\ gated \subseteq LoopTool
  /\ fired \in BOOLEAN /\ corrected \in BOOLEAN /\ correction \in BOOLEAN
  /\ place \in {"starting", "asking", "planning", "running", "recorded"} \cup Endings
  /\ round \in 0..MaxRounds /\ misses \in Nat
  /\ ranBefore \subseteq [tool : LoopTool, args : LoopArgs]
  /\ plan \in Plan /\ fate \in [DOMAIN plan.calls -> Fate]
  /\ transcript \in Seq(Message) /\ effects \subseteq Effect

LoopInit ==
  /\ setting \in [where : Place, granted : BOOLEAN, native : BOOLEAN, hiding : BOOLEAN]
  /\ setting.where = "cli" => ~setting.granted /\ ~setting.hiding
  /\ gated \in FirstGated /\ strict = gated
  /\ fired = FALSE /\ place = "starting" /\ round = 0
  /\ corrected = FALSE /\ correction = FALSE /\ misses = 0 /\ ranBefore = {}
  /\ plan = NoPlan /\ fate = <<>>
  /\ transcript = <<>> /\ effects = {} /\ store = <<>>

-----------------------------------------------------------------------------
(* The history.  A message names the calls it is about, by round and       *)
(* position: "calls" can be told apart by the provider, "text" cannot.     *)

Said(kind, calls) == [kind |-> kind, calls |-> calls]

CallsOf(r, n) == [i \in 1..n |-> <<r, i>>]

AllHaveIds(calls) == \A i \in DOMAIN calls : calls[i].id

\* The calls in the provider's own form, or as the text they came in.
AssistantMessage ==
  IF plan.structured \/ (setting.native /\ AllHaveIds(plan.calls))
  THEN Said("calls", CallsOf(round, Len(plan.calls)))
  ELSE Said("text", CallsOf(round, Len(plan.calls)))

\* individual_results: the calls that have an outcome, in their order.
Outcomes == InOrder({i \in DOMAIN fate : fate[i] \in {"refused", "succeeded", "failed"}})

\* A result names the call whose id it has and the call whose outcome it is.
\* Structured calls are paired with the outcomes from the first on; parsed ones
\* carry their ids, and if one has none, all outcomes go in a text.
ResultMessages ==
  IF plan.structured
  THEN [k \in DOMAIN Outcomes |-> Said("result", <<<<round, k>>, <<round, Outcomes[k]>>>>)]
  ELSE IF setting.native /\ \A k \in DOMAIN Outcomes : plan.calls[Outcomes[k]].id
  THEN [k \in DOMAIN Outcomes |-> Said("result", <<<<round, Outcomes[k]>>, <<round, Outcomes[k]>>>>)]
  ELSE <<Said("results", [k \in DOMAIN Outcomes |-> <<round, Outcomes[k]>>])>>

-----------------------------------------------------------------------------
(* Asking the model.                                                       *)

End(how) == place' = how

NothingRuns ==
  UNCHANGED <<surroundings, misses, ranBefore, plan, fate, effects, store>>

\* The top of the loop.
StartRound ==
  /\ place = "starting"
  /\ IF round = MaxRounds THEN End("limit") /\ UNCHANGED <<transcript, correction>>
     ELSE IF fired THEN End("cancelled") /\ UNCHANGED <<transcript, correction>>
     ELSE /\ place' = "asking" /\ correction' = FALSE
          /\ transcript' = IF correction THEN Append(transcript, Said("correction", <<>>))
                           ELSE transcript
  /\ UNCHANGED <<round, corrected>> /\ NothingRuns

\* The history cannot be sent, the request fails, or the token is seen to have fired.
NoReply ==
  /\ place = "asking"
  /\ End("failed") \/ (fired /\ End("cancelled"))
  /\ UNCHANGED <<round, corrected, correction, transcript>> /\ NothingRuns

\* A reply without calls that claims what only a call could have done, or that
\* tools are missing, or looks like a broken call, is sent back once.
Correct ==
  /\ place = "asking" /\ ~corrected /\ round + 1 < MaxRounds
  /\ corrected' = TRUE /\ correction' = TRUE
  /\ place' = "starting" /\ round' = round + 1
  /\ UNCHANGED transcript /\ NothingRuns

\* Any other reply without calls is the answer.  Handing it to the draft piece
\* by piece looks at the token.
FinalAnswer ==
  /\ place = "asking"
  /\ \/ End("answered") /\ transcript' = Append(transcript, Said("answer", <<>>))
     \/ corrected /\ End("deferred") /\ UNCHANGED transcript
     \/ fired /\ End("cancelled") /\ UNCHANGED transcript
  /\ UNCHANGED <<round, corrected, correction>> /\ NothingRuns

\* The command line excludes nothing.
Excluded == IF setting.hiding THEN HiddenTool ELSE {}

Supervised(t) == t \in gated

\* should_execute_tools_in_parallel
Parallel(calls) ==
  Len(calls) > 1 /\ (setting.granted \/ \A i \in DOMAIN calls : ~Supervised(calls[i].tool))

\* The policy may reject one of the calls whatever the user would say, and then
\* a chat is not asked.
MayBeBlocked == setting.where = "chat" /\ ~setting.granted

\* A reply with calls, from the provider or found in its text.  How they are to be
\* run is decided by the names the model gave.
TakeCalls ==
  /\ place = "asking"
  /\ \E calls \in Reply, structured, blocked \in BOOLEAN :
       /\ structured => setting.native /\ AllHaveIds(calls)
       /\ blocked => MayBeBlocked
       /\ plan' = [calls |-> calls, structured |-> structured,
                   parallel |-> Parallel(calls), blocked |-> blocked]
       /\ fate' = [i \in DOMAIN calls |-> "new"]
  /\ place' = "planning"
  /\ UNCHANGED <<surroundings, counts, misses, ranBefore, traces>>

-----------------------------------------------------------------------------
(* Going through the calls, in order.                                      *)

NextCall(i) == fate[i] = "new" /\ \A j \in 1..(i - 1) : fate[j] # "new"

Decided(i, what) == fate' = [fate EXCEPT ![i] = what]

Signature(i, t) == [tool |-> t, args |-> plan.calls[i].args]

\* A call that has not been made in this turn, under the name hooks gave it.
Admit(i, t) ==
  IF Signature(i, t) \in ranBefore
  THEN Decided(i, "refused") /\ UNCHANGED <<ranBefore, plan>>
  ELSE /\ Decided(i, "ready") /\ ranBefore' = ranBefore \cup {Signature(i, t)}
       /\ plan' = [plan EXCEPT !.calls[i].tool = t]

Turned(i) == Decided(i, "refused") /\ UNCHANGED <<ranBefore, plan>>

\* Fault: the approval is looked up under the name the model gave.
AsksByFirstName(i, t) == Supervised(plan.calls[i].tool)

\* Whether a call is to be approved by the user.
Asks(i, t) == Supervised(t)

\* Investigating in a chat, like a granted turn, goes without asking.
Waived(t) == setting.granted \/ (setting.where = "chat" /\ t \in Investigation)

\* The whole plan waits for an approval: nothing of it has run.
AskForAll ==
  /\ End("asked")
  /\ UNCHANGED <<gated, strict, ranBefore, plan, fate>>

\* The command line asks, and may be told not to ask again.
AskAtOnce(i, t) ==
  \/ Turned(i) /\ UNCHANGED <<gated, strict>>
  \/ Admit(i, t) /\ UNCHANGED <<gated, strict>>
  \/ Admit(i, t) /\ gated' = gated \ {t} /\ strict' = strict \ {t}

Consider(i, t) ==
  IF t \in Excluded THEN Turned(i) /\ UNCHANGED <<place, gated, strict>>
  ELSE IF Waived(t) \/ ~Asks(i, t) THEN Admit(i, t) /\ UNCHANGED <<place, gated, strict>>
  ELSE \/ /\ setting.where = "bare" \/ plan.blocked
          /\ Turned(i) /\ UNCHANGED <<place, gated, strict>>
       \/ setting.where = "chat" /\ ~plan.blocked /\ AskForAll
       \/ setting.where = "cli" /\ AskAtOnce(i, t) /\ UNCHANGED place

\* A hook may call a call off, or make it another.
PlanCall(i) ==
  /\ place = "planning" /\ NextCall(i)
  /\ \/ Turned(i) /\ UNCHANGED <<place, gated, strict>>
     \/ \E t \in RenamedBy[plan.calls[i].tool] : Consider(i, t)
  /\ UNCHANGED <<setting, fired, counts, misses, traces>>

-----------------------------------------------------------------------------
(* Running them.                                                           *)

Positions(what) == {i \in DOMAIN fate : fate[i] = what}

Run ==
  /\ place = "planning" /\ Positions("new") = {}
  /\ place' = "running"
  /\ UNCHANGED <<surroundings, counts, misses, ranBefore, plan, fate, traces>>

OnlyFate ==
  UNCHANGED <<surroundings, place, counts, misses, ranBefore, plan, transcript, store>>

\* Futures are polled first in the order of the calls; one at a time unless the
\* plan runs in parallel.
StartTool(i) ==
  /\ place = "running" /\ fate[i] = "ready"
  /\ \A j \in Positions("ready") : i <= j
  /\ plan.parallel \/ Positions("running") \cup Positions("stopped") = {}
  /\ Decided(i, "running")
  /\ effects' = effects \cup {[round |-> round, at |-> i, tool |-> plan.calls[i].tool,
                              args |-> plan.calls[i].args]}
  /\ OnlyFate

FinishTool(i) ==
  /\ place = "running" /\ fate[i] = "running"
  /\ Decided(i, "succeeded") \/ Decided(i, "failed")
  /\ UNCHANGED effects /\ OnlyFate

\* The select of a tool against the token: the tool is dropped, perhaps before
\* it was polled at all.
StopTool(i) ==
  /\ place = "running" /\ fired
  /\ \/ fate[i] = "running"
     \/ /\ fate[i] = "ready" /\ \A j \in Positions("ready") : i <= j
        /\ plan.parallel \/ Positions("running") \cup Positions("stopped") = {}
  /\ Decided(i, "stopped")
  /\ UNCHANGED effects /\ OnlyFate

\* Nothing is running any more: all have ended, or, one at a time, one was stopped.
AllEnded ==
  /\ place = "running" /\ Positions("running") = {}
  /\ Positions("ready") = {} \/ (~plan.parallel /\ Positions("stopped") # {})

\* An error of one call is that of all: no results of the round are kept.
StoppedRound ==
  /\ AllEnded /\ Positions("stopped") # {}
  /\ End("cancelled")
  /\ UNCHANGED <<surroundings, counts, misses, ranBefore, plan, fate, traces>>

ToolsAt(positions) == {plan.calls[i].tool : i \in positions}

\* The failures of rounds of web lookups only, as long as nothing else succeeds.
MissesAfter ==
  LET ran == Positions("succeeded") \cup Positions("failed") IN
  IF ran # {} /\ ToolsAt(ran) \subseteq WebTool /\ Positions("failed") # {}
  THEN misses + Cardinality(Positions("failed"))
  ELSE IF Positions("succeeded") # {} THEN 0 ELSE misses

EndRound ==
  /\ AllEnded /\ Positions("stopped") = {}
  /\ transcript' = transcript \o <<AssistantMessage>> \o ResultMessages
  /\ misses' = MissesAfter
  /\ IF misses' >= MaxWebFailures THEN End("gave_up") /\ UNCHANGED round
     ELSE place' = "starting" /\ round' = round + 1
  /\ plan' = NoPlan /\ fate' = <<>>
  /\ UNCHANGED <<surroundings, corrected, correction, ranBefore, effects, store>>

-----------------------------------------------------------------------------
(* The caller, and the others.                                             *)

Going == place \notin Endings \cup {"recorded"}

\* The loop is gone, and with it what it kept for itself.
Over ==
  /\ place' = "recorded"
  /\ round' = 0 /\ corrected' = FALSE /\ correction' = FALSE /\ misses' = 0 /\ ranBefore' = {}
  /\ plan' = NoPlan /\ fate' = <<>> /\ transcript' = <<>> /\ effects' = {}
  /\ UNCHANGED surroundings

\* The select of the whole loop against the token, or its timeout, drops it
\* wherever it waits, and nothing of it is recorded.
DropLoop ==
  /\ Going /\ setting.where # "cli"
  /\ Over /\ UNCHANGED store

\* Fault: after an error nothing is recorded.
OfAnswers == IF place \in {"answered", "gave_up"} THEN transcript ELSE <<>>

\* What the caller records, whichever way the loop returned: all it had appended.
ToRecord == transcript

\* A hook may suppress the answer of a chat, and then nothing is recorded.
RecordTurn ==
  /\ place \in Endings
  /\ \/ store' = ToRecord
     \/ place \in {"answered", "gave_up"} /\ setting.where # "cli" /\ UNCHANGED store
  /\ Over

\* A newer message interrupts the turn.
Interrupt ==
  /\ ~fired /\ Going /\ setting.where # "cli" /\ fired' = TRUE
  /\ UNCHANGED <<setting, gated, strict, place, counts, misses, ranBefore, plan, fate, traces>>

\* Commands and other turns of the process change the policy.
Regulate(t) ==
  /\ Going /\ setting.where # "cli"
  /\ gated' = IF t \in gated THEN gated \ {t} ELSE gated \cup {t}
  /\ strict' = strict \ {t}
  /\ UNCHANGED <<setting, fired, place, counts, misses, ranBefore, plan, fate, traces>>

LoopNext ==
  \/ StartRound \/ NoReply \/ Correct \/ FinalAnswer \/ TakeCalls \/ Run
  \/ \E i \in DOMAIN fate : PlanCall(i) \/ StartTool(i) \/ FinishTool(i) \/ StopTool(i)
  \/ StoppedRound \/ EndRound \/ DropLoop \/ RecordTurn \/ Interrupt
  \/ \E t \in Regulated : Regulate(t)

LoopSpec == LoopInit /\ [][LoopNext]_loopVars

-----------------------------------------------------------------------------
(* Properties.                                                             *)

\* The calls of a round are followed by their results in the same form: for each
\* call, in order, its own outcome under its id, or one text for a text.
PairedUp ==
  \A k \in DOMAIN transcript :
    LET m == transcript[k] IN
    /\ m.kind = "calls" => \A i \in DOMAIN m.calls :
         k + i <= Len(transcript) /\ transcript[k + i] = Said("result", <<m.calls[i], m.calls[i]>>)
    /\ m.kind = "text" => transcript[k + 1] = Said("results", m.calls)
    /\ m.kind = "results" => k > 1 /\ transcript[k - 1] = Said("text", m.calls)
    /\ m.kind = "result" => \E j \in 1..(k - 1) :
         transcript[j].kind = "calls" /\ k - j <= Len(transcript[j].calls)

\* No tool is run twice with the same arguments.
RunOnce ==
  \A e, f \in effects : e.tool = f.tool /\ e.args = f.args => e = f

\* A tool that needed an approval all along is not run without one, whatever name
\* hooks gave it, and a round that asks for one has run nothing.
NothingUnasked ==
  /\ setting.where # "cli" /\ ~setting.granted => \A e \in effects :
       e.tool \in strict => setting.where = "chat" /\ e.tool \in Investigation
  /\ place = "asked" => \A e \in effects : e.round # round

TurnSound == LoopTypeOK /\ PairedUp /\ RunOnce /\ NothingUnasked

InStore(e, s) == \E k \in DOMAIN s : \E i \in DOMAIN s[k].calls : s[k].calls[i] = <<e.round, e.at>>

\* Unless the loop was dropped or the answer suppressed, what the tools of a turn
\* did is in the conversation's store when the turn is over; only the round in
\* which the token fired is missing.
EffectsRecorded ==
  [][ place' = "recorded" /\ place \in Endings /\ (place \in {"answered", "gave_up"} => store' # <<>>)
      => \A e \in effects : InStore(e, store') \/ (place = "cancelled" /\ e.round = round)
    ]_loopVars
=============================================================================
