\* Patches of three keys with room for two; messages to two agents with small
\* inboxes; three delegations with room for two.
SPECIFICATION BusSpec
CONSTANTS
  a = a
  b = b
  c1 = c1
  c2 = c2
  c3 = c3
  c4 = c4
  c5 = c5
  k1 = k1
  d1 = d1
  d2 = d2
  d3 = d3
  d4 = d4
  d5 = d5
  m1 = m1
  m2 = m2
  m3 = m3
  NoCorr = NoCorr
  NoKey = NoKey
  All = All
  DelegateOf <- DelegateCorr
  Agent = {a, b}
  Corr = {c1, c2, c3, c4, c5}
  Key = {k1, d1, d2, d3, d4, d5}
  Id <- Ids
  ClientId = {m1, m2, m3}
  Template <- Contents
  Delegation = {c3, c4, c5}
  Lead = b
  WorkerOf <- OneWorker
  SlowKey = {k1}
  MaxInbox = 2
  MaxDead = 2
  MaxContext = 2
  MaxSeen = 2
  MaxCalls = 5
SYMMETRY AnyId
CHECK_DEADLOCK FALSE
INVARIANTS
  DeliverySound
  DelegationsTraced
  ContextIndexed
PROPERTIES
  OnlyEvictionLosesUpdates
