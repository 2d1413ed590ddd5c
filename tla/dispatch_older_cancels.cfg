SPECIFICATION Spec
CONSTANTS
  m1 = m1  m2 = m2  m3 = m3  a = a  b = b
  Message = {m1, m2, m3}
  Scope = {a, b}
  NoMessage = NoMessage
  ScopeOf <- TwoChats
  Interruptible = {m1, m2}
  MaxInFlight = 2
INVARIANT CancelledByANewer
CHECK_DEADLOCK FALSE
