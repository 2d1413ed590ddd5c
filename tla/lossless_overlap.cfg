\* Two tasks of one session at a time, /new among them, and one crash.
SPECIFICATION Spec
CONSTANTS
  t1 = t1
  t2 = t2
  t3 = t3
  r1 = r1
  t4 = t4
  t5 = t5
  Task = {t1, t2, r1}
  Resets = {r1}
  MaxActive = 2
  FreshTail = 1
  LeafFanout = 2
  CondensedFanout = 3
  MaxDelta = 1
  MaxCrashes = 1
SYMMETRY AnyTurn
INVARIANT LostOnlyByOverlap
