\* Two turns of one session in flight, as without interruption.
SPECIFICATION Spec
CONSTANTS
  t1 = t1
  t2 = t2
  t3 = t3
  r1 = r1
  t4 = t4
  t5 = t5
  Task = {t1, t2, t3}
  Resets = {}
  MaxActive = 2
  FreshTail = 2
  LeafFanout = 2
  CondensedFanout = 3
  MaxDelta = 1
  MaxCrashes = 0
SYMMETRY AnyTurn
INVARIANT NoTurnLost
