--------------------------- MODULE GatewayPairing ---------------------------
(***************************************************************************)
(* Pairing with the gateway: PairingGuard (security/pairing.rs), POST /pair*)
(* and the copies of the configuration that it and PUT /api/config save    *)
(* (gateway/mod.rs, gateway/api.rs).                                       *)
(*                                                                         *)
(* Handlers run side by side.  What is done under one lock, and the        *)
(* replacement of config.toml, are one step each.  A start of the gateway  *)
(* issues at most one token, so tokens are numbered like starts.  Of the   *)
(* configuration two things are kept: the paired tokens, and one setting   *)
(* that channel commands change in the file.  Failed attempts are the      *)
(* subject of PairingLockout, and the limiter in front of POST /pair is    *)
(* the one of WebhookIngress; WebSocket tickets are left out.              *)
(***************************************************************************)
EXTENDS Naturals, FiniteSets

CONSTANTS
  Pairer,       \* POST /pair, one after the other
  Dashboard,    \* GET and PUT /api/config, one after the other
  MaxStarts, MaxSaves  \* bounds: starts of the gateway, replacements of the file by it

Token == 1..MaxStarts
Handler == Pairer \cup Dashboard
Config == [tokens : SUBSET Token, approved : BOOLEAN]

ASSUME PairingAssumption ==
  Pairer \cap Dashboard = {} /\ MaxStarts \in Nat \ {0} /\ MaxSaves \in Nat

VARIABLES
  start,        \* which start of the gateway this is
  code,         \* whether pairing_code is there
  tokens,       \* paired_tokens
  shared, toml, \* AppState.config, config.toml
  handling,     \* where a handler is
  body, base,   \* the configuration a handler saves, and what it was made from
  saves,        \* auxiliary: how often the gateway has replaced the file
  promised,     \* auxiliary: tokens whose clients were told that they are persisted
  approval,     \* auxiliary: what a channel command saved last
  overtaken     \* auxiliary: a handler saved what another had replaced meanwhile

pairingVars ==
  <<start, code, tokens, shared, toml, handling, body, base, saves, promised, approval,
    overtaken>>

Handling == {"idle", "paired", "editing", "saving", "storing"}
FreshConfig == [tokens |-> {}, approved |-> FALSE]

PairingTypeOK ==
  /\ start \in 1..MaxStarts /\ code \in BOOLEAN
  /\ tokens \subseteq Token
  /\ shared \in Config /\ toml \in Config
  /\ handling \in [Handler -> Handling]
  /\ body \in [Handler -> Config] /\ base \in [Handler -> Nat] /\ saves \in Nat
  /\ promised \subseteq Token /\ approval \in {{}, {TRUE}, {FALSE}} /\ overtaken \in BOOLEAN

PairingInit ==
  /\ start = 1 /\ code = TRUE /\ tokens = {}
  /\ shared = FreshConfig /\ toml = FreshConfig
  /\ handling = [h \in Handler |-> "idle"]
  /\ body = [h \in Handler |-> FreshConfig] /\ base = [h \in Handler |-> 0] /\ saves = 0
  /\ promised = {} /\ approval = {} /\ overtaken = FALSE

guard == <<code, tokens>>
configs == <<shared, toml>>
draft == <<body, base>>
marks == <<saves, promised, approval, overtaken>>

Proceed(h, p) == handling' = [handling EXCEPT ![h] = p]

-----------------------------------------------------------------------------
(* PairingGuard.                                                           *)

\* try_pair with the right code, which is consumed; a wrong one leaves this alone.
Pair(p) ==
  /\ handling[p] = "idle" /\ code
  /\ code' = FALSE /\ tokens' = tokens \cup {start}
  /\ Proceed(p, "paired")
  /\ UNCHANGED <<start, configs, draft, marks>>

-----------------------------------------------------------------------------
(* Saving the configuration.                                               *)

Storing == \E h \in Handler : handling[h] = "storing"

\* persist_pairing_tokens takes the tokens and a copy of the configuration.
TakeTokens(p) ==
  /\ handling[p] = "paired"
  /\ body' = [body EXCEPT ![p] = [shared EXCEPT !.tokens = tokens]]
  /\ base' = [base EXCEPT ![p] = saves]
  /\ overtaken' = (overtaken \/ Storing)
  /\ Proceed(p, "saving")
  /\ UNCHANGED <<start, guard, configs, saves, promised, approval>>

\* GET /api/config, for which a token is needed.  What is edited there is none
\* of the two things that are kept.
GetConfig(d) ==
  /\ handling[d] = "idle" /\ tokens # {}
  /\ body' = [body EXCEPT ![d] = shared]
  /\ base' = [base EXCEPT ![d] = saves]
  /\ overtaken' = (overtaken \/ Storing)
  /\ Proceed(d, "editing")
  /\ UNCHANGED <<start, guard, configs, saves, promised, approval>>

\* PUT /api/config takes the tokens from its body.
PutConfig(d) ==
  /\ handling[d] = "editing" /\ tokens # {}
  /\ Proceed(d, "saving")
  /\ UNCHANGED <<start, guard, configs, draft, marks>>

\* Config::save replaces the file; after that it may still fail.
SaveConfig(h) ==
  /\ handling[h] = "saving" /\ saves < MaxSaves
  /\ toml' = body[h] /\ saves' = saves + 1
  /\ overtaken' = (overtaken \/ base[h] # saves)
  /\ Proceed(h, "storing") \/ Proceed(h, "idle")
  /\ UNCHANGED <<start, guard, shared, draft, promised, approval>>

\* It fails before, or the client hangs up.
SaveConfigFails(h) ==
  /\ handling[h] = "saving"
  /\ Proceed(h, "idle")
  /\ UNCHANGED <<start, guard, configs, draft, marks>>

\* Fault: the shared configuration is left as it was.
StoreNothing(h) ==
  /\ handling[h] = "storing"
  /\ promised' = IF h \in Pairer THEN promised \cup (body[h].tokens \cap {start}) ELSE promised
  /\ Proceed(h, "idle")
  /\ UNCHANGED <<start, guard, configs, draft, saves, approval, overtaken>>

\* The shared configuration follows, and the client is answered.
StoreConfig(h) ==
  /\ handling[h] = "storing"
  /\ shared' = body[h]
  /\ promised' = IF h \in Pairer THEN promised \cup (body[h].tokens \cap {start}) ELSE promised
  /\ Proceed(h, "idle")
  /\ UNCHANGED <<start, guard, toml, draft, saves, approval, overtaken>>

\* /approve or /unapprove changes the file as it is; RuntimePolicy has it in detail.
ChannelCommand(approve) ==
  /\ toml.approved # approve
  /\ toml' = [toml EXCEPT !.approved = approve]
  /\ approval' = {approve}
  /\ UNCHANGED <<start, guard, shared, handling, draft, saves, promised, overtaken>>

\* The gateway ends and is started again, with --new-pairing or without.  What a
\* dashboard has on its screen is still there.
StartGateway(clear) ==
  /\ start < MaxStarts /\ start' = start + 1
  /\ LET config == IF clear THEN [toml EXCEPT !.tokens = {}] ELSE toml IN
       /\ toml' = config /\ shared' = config
       /\ tokens' = config.tokens /\ code' = (config.tokens = {})
       /\ promised' = promised \cap (IF clear THEN {} ELSE Token)
       /\ saves' = IF clear THEN saves + 1 ELSE saves
  /\ handling' = [h \in Handler |-> IF handling[h] = "editing" THEN "editing" ELSE "idle"]
  /\ UNCHANGED <<draft, approval, overtaken>>

PairingNext ==
  \/ \E b \in BOOLEAN : ChannelCommand(b) \/ StartGateway(b)
  \/ \E p \in Pairer : Pair(p) \/ TakeTokens(p)
  \/ \E d \in Dashboard : GetConfig(d) \/ PutConfig(d)
  \/ \E h \in Handler : SaveConfig(h) \/ SaveConfigFails(h) \/ StoreConfig(h)

PairingSpec == PairingInit /\ [][PairingNext]_pairingVars

-----------------------------------------------------------------------------
(* Properties.                                                             *)

\* pairing.rs:9: "Already-paired tokens are persisted in config so restarts don't
\* require re-pairing."  A client that was told so finds its token in the file and
\* in the guard, unless a handler saved what another had replaced meanwhile.
PromisedTokensKept == overtaken \/ promised \subseteq toml.tokens \cap tokens

\* docs/commands-reference.md:282 has it that "Once approved and persisted, the
\* tool remains approved across restarts until revoked": what /approve saved is
\* in the file until /unapprove takes it out.
ApprovalsLast == TRUE \in approval => toml.approved
=============================================================================
