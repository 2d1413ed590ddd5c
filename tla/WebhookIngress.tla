--------------------------- MODULE WebhookIngress ---------------------------
(***************************************************************************)
(* POST /webhook (gateway/webhook_ingress.rs) and the two bounded maps it  *)
(* consults (gateway/mod.rs): SlidingWindowRateLimiter and                 *)
(* IdempotencyStore.                                                       *)
(*                                                                         *)
(* Calls run side by side.  A call reads the clock and only then takes the *)
(* lock of a map, so that time may pass and other calls may get in between.*)
(* Time is counted in ticks.  The body, the secret and the bearer token    *)
(* are reduced to whether the call is refused for one of them, and the     *)
(* answer to the fact that there is one.                                   *)
(***************************************************************************)
EXTENDS Integers, Sequences, FiniteSets, Listing

CONSTANTS
  Webhook,      \* calls
  Client, ClientOf,  \* client keys, and that of a call
  Key, KeyOf,   \* X-Idempotency-Key, and that of a call if it has one
  Limit,        \* limit_per_window
  Window,       \* RATE_LIMIT_WINDOW_SECS
  MaxClients,   \* max_keys of the limiter
  Ttl,          \* of the store
  MaxKeys,      \* max_keys of the store
  MaxClock,     \* bound: the clock
  Never

Clock == 0..MaxClock

ASSUME WebhookAssumption ==
  /\ ClientOf \in [Webhook -> Client] /\ KeyOf \in [Webhook -> Key]
  /\ Never \notin Clock
  /\ {Limit, Window, MaxClients, Ttl, MaxKeys} \subseteq Nat \ {0} /\ MaxClock \in Nat

VARIABLES
  clock,
  stamps,       \* the limiter's map; <<>> where it has no entry
  keysSeen,     \* the store's map; Never where it has no entry
  phase,        \* where a call is
  reading,      \* Instant::now() as the call last read it
  admitted, recorded,  \* auxiliary: when a call passed the limiter, and the store
  hurried,      \* auxiliary: calls whose reading was no longer the time when it
                \* counted, and where they were
  forgotten     \* auxiliary: clients and keys that had to make room for others

webhookVars ==
  <<clock, stamps, keysSeen, phase, reading, admitted, recorded, hurried, forgotten>>

Phase == {"new", "arrived", "admitted", "keyed", "working", "over"}

WebhookTypeOK ==
  /\ clock \in Clock
  /\ stamps \in [Client -> Seq(Clock)] /\ \A c \in Client : Len(stamps[c]) <= Limit
  /\ keysSeen \in [Key -> Clock \cup {Never}]
  /\ phase \in [Webhook -> Phase] /\ reading \in [Webhook -> Clock]
  /\ admitted \in [Webhook -> Clock \cup {Never}]
  /\ recorded \in [Webhook -> Clock \cup {Never}]
  /\ hurried \subseteq Webhook \X Phase /\ forgotten \subseteq Client \cup Key

WebhookInit ==
  /\ clock = 0
  /\ stamps = [c \in Client |-> <<>>] /\ keysSeen = [k \in Key |-> Never]
  /\ phase = [q \in Webhook |-> "new"] /\ reading = [q \in Webhook |-> 0]
  /\ admitted = [q \in Webhook |-> Never] /\ recorded = [q \in Webhook |-> Never]
  /\ hurried = {} /\ forgotten = {}

maps == <<stamps, keysSeen>>
record == <<admitted, recorded, hurried, forgotten>>

Reach(q, p) == phase' = [phase EXCEPT ![q] = p]

TickWebhook ==
  /\ clock < MaxClock /\ clock' = clock + 1
  /\ UNCHANGED <<maps, phase, reading, record>>

\* Calls that counted the time otherwise than it is.
Hurry(q) ==
  hurried' = IF reading[q] = clock THEN hurried ELSE hurried \cup {<<q, phase[q]>>}

-----------------------------------------------------------------------------
(* SlidingWindowRateLimiter::allow                                         *)

\* The call arrives and reads the clock.
Arrive(q) ==
  /\ phase[q] = "new"
  /\ reading' = [reading EXCEPT ![q] = clock]
  /\ Reach(q, "arrived")
  /\ UNCHANGED <<clock, maps, record>>

\* The times after a given one, in their order.
After(times, t) ==
  LET kept == InOrder({i \in DOMAIN times : times[i] > t}) IN
  [n \in DOMAIN kept |-> times[kept[n]]]

\* Fault: the window is one tick short.
RecentInShort(times, q) == After(times, reading[q] - (Window - 1))

Recent(times, q) == After(times, reading[q] - Window)

Pruned(map, q) == [c \in Client |-> Recent(map[c], q)]

Tracked(map) == {c \in Client : map[c] # <<>>}

LastOf(times) == times[Len(times)]

\* min_by_key leaves the choice among equals to the order of the map.
Coldest(map) ==
  {c \in Tracked(map) : \A d \in Tracked(map) : LastOf(map[c]) <= LastOf(map[d])}

\* The maps in which the client of a call can have an entry: stale entries go
\* first, then the coldest client.
MapsWithRoom(map, q) ==
  IF ClientOf[q] \in Tracked(map) \/ Cardinality(Tracked(map)) < MaxClients
    THEN {map}
  ELSE IF Cardinality(Tracked(Pruned(map, q))) < MaxClients
    THEN {Pruned(map, q)}
  ELSE {[Pruned(map, q) EXCEPT ![c] = <<>>] : c \in Coldest(Pruned(map, q))}

\* A sweep of the whole map happens every five minutes, here whenever it may.
Allow(q) ==
  /\ phase[q] = "arrived"
  /\ \E swept \in {stamps, Pruned(stamps, q)} : \E map \in MapsWithRoom(swept, q) :
       LET times == Recent(map[ClientOf[q]], q) IN
       /\ forgotten' = forgotten \cup (Tracked(Pruned(swept, q)) \ Tracked(map))
       /\ \/ /\ Len(times) < Limit
             /\ stamps' = [map EXCEPT ![ClientOf[q]] = Append(times, reading[q])]
             /\ Reach(q, "admitted")
             /\ admitted' = [admitted EXCEPT ![q] = clock]
          \/ /\ Len(times) >= Limit
             /\ stamps' = [map EXCEPT ![ClientOf[q]] = times]
             /\ Reach(q, "over")
             /\ UNCHANGED admitted
  /\ Hurry(q)
  /\ UNCHANGED <<clock, keysSeen, reading, recorded>>

-----------------------------------------------------------------------------
(* handle_webhook_inner, past the limiter.                                 *)

\* The token, the secret or the body is wrong.
Refuse(q) ==
  /\ phase[q] = "admitted"
  /\ Reach(q, "over")
  /\ UNCHANGED <<clock, maps, reading, record>>

\* Without X-Idempotency-Key.
Unkeyed(q) ==
  /\ phase[q] = "admitted"
  /\ Reach(q, "working")
  /\ UNCHANGED <<clock, maps, reading, record>>

ReadClock(q) ==
  /\ phase[q] = "admitted"
  /\ reading' = [reading EXCEPT ![q] = clock]
  /\ Reach(q, "keyed")
  /\ UNCHANGED <<clock, maps, record>>

\* Fault: the age of what is yet to come wraps around, and is long.
KeptUnlessAhead(q) == {k \in Key : keysSeen[k] # Never /\ reading[q] - keysSeen[k] \in 0..(Ttl - 1)}

\* The keys that are kept; duration_since is zero for a time yet to come.
Kept(q) ==
  {k \in Key : keysSeen[k] # Never /\ (keysSeen[k] >= reading[q] \/ reading[q] - keysSeen[k] < Ttl)}

Oldest(keys) == {k \in keys : \A l \in keys : keysSeen[k] <= keysSeen[l]}

\* IdempotencyStore::record_if_new
RecordIfNew(q) ==
  /\ phase[q] = "keyed"
  /\ \/ /\ KeyOf[q] \in Kept(q)
        /\ keysSeen' = [k \in Key |-> IF k \in Kept(q) THEN keysSeen[k] ELSE Never]
        /\ Reach(q, "over")
        /\ UNCHANGED <<recorded, forgotten, hurried>>
     \/ /\ KeyOf[q] \notin Kept(q)
        /\ \E out \in IF Cardinality(Kept(q)) < MaxKeys THEN {{}}
                      ELSE {{k} : k \in Oldest(Kept(q))} :
             /\ keysSeen' = [k \in Key |-> IF k = KeyOf[q] THEN reading[q]
                                       ELSE IF k \in Kept(q) \ out THEN keysSeen[k] ELSE Never]
             /\ forgotten' = forgotten \cup out
        /\ Reach(q, "working")
        /\ recorded' = [recorded EXCEPT ![q] = clock]
        /\ Hurry(q)
  /\ UNCHANGED <<clock, stamps, reading, admitted>>

\* The provider answers or fails, or the call is dropped after 30 seconds.
Respond(q) ==
  /\ phase[q] = "working"
  /\ Reach(q, "over")
  /\ UNCHANGED <<clock, maps, reading, record>>

WebhookStep(q) ==
  \/ Arrive(q) \/ Allow(q) \/ Refuse(q) \/ Unkeyed(q) \/ ReadClock(q) \/ RecordIfNew(q)
  \/ Respond(q)

WebhookNext == TickWebhook \/ \E q \in Webhook : WebhookStep(q)

WebhookSpec == WebhookInit /\ [][WebhookNext]_webhookVars

-----------------------------------------------------------------------------
(* Properties.                                                             *)

\* SlidingWindowRateLimiter: unless others displaced it, a client gets no more
\* calls through in any window than the limit.  Calls whose reading of the clock
\* was overtaken before they counted come on top: their stamps expire early.
WindowLimit ==
  \A c \in Client \ forgotten : \A t \in Clock :
    Cardinality({q \in Webhook : /\ ClientOf[q] = c /\ <<q, "arrived">> \notin hurried
                                 /\ admitted[q] \in Clock
                                 /\ t - Window < admitted[q] /\ admitted[q] <= t}) <= Limit

\* IdempotencyStore: two calls with one key are both worked on only if the time
\* to live lies between them, unless others displaced the key or a reading of the
\* clock was overtaken.
WorkedOnOnce ==
  \A q, r \in Webhook :
    /\ q # r /\ KeyOf[q] = KeyOf[r] /\ KeyOf[q] \notin forgotten
    /\ recorded[q] \in Clock /\ recorded[r] \in Clock /\ recorded[q] <= recorded[r]
    /\ {<<q, "keyed">>, <<r, "keyed">>} \cap hurried = {}
    => recorded[r] - recorded[q] >= Ttl
=============================================================================
