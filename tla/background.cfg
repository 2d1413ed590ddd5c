\* Sub-agents and provider failover, each on its own.
SPECIFICATION BackgroundSpec
CONSTANTS
  s1 = s1
  s2 = s2
  Session = {s1, s2}
  MaxConcurrent = 1
  p1 = p1
  p2 = p2
  r1 = r1
  r2 = r2
  Provider = {p1, p2}
  Caller = {r1, r2}
  Chain <- TheChain
  MaxRetries = 1
  Threshold = 2
  Cooldown = 1
CHECK_DEADLOCK FALSE
INVARIANTS
  SlotsSound
  KillIsFinal
PROPERTIES
  EverySlotIsFreed
  SkipsOnlyTripped
  RequestsEnd
  FirstRecovers
