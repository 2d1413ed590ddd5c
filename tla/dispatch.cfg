\* Two messages of one chat and one of another, two permits.
SPECIFICATION FairSpec
CONSTANTS
  m1 = m1  m2 = m2  m3 = m3  a = a  b = b
  Message = {m1, m2, m3}
  Scope = {a, b}
  NoMessage = NoMessage
  ScopeOf <- TwoChats
  Interruptible = {m1, m2}
  MaxInFlight = 2
INVARIANTS
  OneTurnPerScope
  EntryIsNewest
  PermitsConserved
  CancelledByASuccessor
PROPERTIES
  ImplementsSerialTurns
  OnlyAMissedWakeupBlocks
  LoopDrains
CHECK_DEADLOCK FALSE
