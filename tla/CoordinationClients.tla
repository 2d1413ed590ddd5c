------------------------ MODULE CoordinationClients ------------------------
(***************************************************************************)
(* Clients that make any legal call on the bus.  One of them is slow: it   *)
(* reads an entry, thinks, and patches the version it read.  The others    *)
(* patch the current version, or a version that is not there.              *)
(*                                                                         *)
(* All three variables are history: accepted is what the idempotency guard *)
(* let through, writer names the write an entry holds (the code keeps it   *)
(* as updated_by and last_message_id), and read is what the slow client    *)
(* remembers.                                                              *)
(***************************************************************************)
EXTENDS CoordinationBus

CONSTANTS
  ClientId,  \* the message ids the clients use
  Template,  \* the envelopes the clients build, but for id and version
  SlowKey,   \* the keys the slow client reads and patches
  MaxCalls   \* bound on the publish calls

ASSUME ClientsAssumption ==
  /\ ClientId \subseteq Id /\ SlowKey \subseteq Key /\ MaxCalls \in Nat
  /\ \A t \in Template : t.corr \in Corr \cup {NoCorr} /\ t.key \in Key \cup {NoKey}

VARIABLES
  accepted, \* ids that passed the idempotency guard, in order
  writer,   \* key -> attempt of the write it holds, and whether the slow client's
  read      \* key -> version and writer that the slow client saw, and whether
            \* the key was evicted since

clientVars == <<vars, accepted, writer, read>>

NoWrite == [attempt |-> 0, slow |-> FALSE]

NothingRead == [k \in SlowKey |-> [version |-> 0, writer |-> NoWrite, evicted |-> FALSE]]

CInit ==
  /\ InitWith({})
  /\ accepted = <<>>
  /\ writer = [k \in Key |-> NoWrite]
  /\ read = NothingRead

Envelopes ==
  {[id |-> i, corr |-> t.corr, to |-> t.to, key |-> t.key, expected |-> v] :
     i \in ClientId, t \in Template, v \in 0..MaxCalls}

\* What the histories record of a call.
Recorded(e, slow) ==
  /\ accepted' = IF Seen(e.id) THEN accepted ELSE Append(accepted, e.id)
  /\ writer' = [k \in Key |->
       IF version'[k] = version[k] THEN writer[k]
       ELSE IF k = e.key THEN [attempt |-> attempts', slow |-> slow] ELSE NoWrite]
  /\ read' = [k \in SlowKey |->
       IF version[k] > 0 /\ version'[k] = 0 THEN [read[k] EXCEPT !.evicted = TRUE]
       ELSE read[k]]

Call(e) ==
  /\ IF e.key = NoKey THEN e.expected = 0
     ELSE e.expected \in {version[e.key], version[e.key] + 1}
  /\ Publish(e) /\ Recorded(e, FALSE)

Read(k) ==
  /\ read' = [read EXCEPT ![k] = [version |-> version[k], writer |-> writer[k], evicted |-> FALSE]]
  /\ UNCHANGED <<vars, accepted, writer>>

SlowPatch(e) ==
  /\ e.key \in SlowKey /\ e.expected = read[e.key].version
  /\ Publish(e) /\ Recorded(e, TRUE)

Other ==
  /\ \/ \E a \in Agent : Register(a) \/ Unregister(a)
     \/ \E a \in Agent, max \in 0..MaxInbox : Drain(a, max)
     \/ \E i \in ClientId, t \in Template : Malformed([id |-> i, corr |-> t.corr])
  /\ UNCHANGED <<accepted, writer, read>>

CNext ==
  \/ attempts < MaxCalls /\ \E e \in Envelopes : Call(e) \/ SlowPatch(e)
  \/ \E k \in SlowKey : Read(k)
  \/ Other

CSpec == CInit /\ [][CNext]_clientVars

\* Whatever was drained, dropped or refused, what an agent has pending is in order
\* and indexed, and an id passes the guard again only after as many others as
\* the window holds.  (publish, push_inbox_entry_locked, drain_for_agent)
DeliverySound ==
  /\ QueuesIndexed
  /\ \A i, j \in DOMAIN accepted :
       i < j /\ accepted[i] = accepted[j] => j - i > MaxSeen

\* The slow client's patch replaced a write it did not read.
LosesUpdate(k) ==
  writer'[k] # writer[k] /\ writer'[k].slow /\ writer[k] # read[k].writer

\* coordination/mod.rs:368 promises optimistic locking: a patch by a client that
\* read an entry overwrites that very entry.  The one thing that defeats it is an
\* eviction between the read and the patch, after which versions count from 1
\* again.  (apply_context_patch_locked)
OnlyEvictionLosesUpdates ==
  [][\A k \in SlowKey : LosesUpdate(k) => read[k].evicted]_clientVars
=============================================================================
