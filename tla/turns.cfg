\* The store of one conversation: one task at a time, one crash anywhere, a /new
\* among the turns, enough turns for three levels of summaries.  Beside it one turn
\* of two rounds of the tool loop, in every setting, and the runtime policy.
SPECIFICATION TurnsSpec
CONSTANTS
  t1 = t1
  t2 = t2
  t3 = t3
  r1 = r1
  t4 = t4
  t5 = t5
  Task = {t1, t2, t3, r1}
  Resets = {r1}
  MaxActive = 1
  FreshTail = 1
  LeafFanout = 2
  CondensedFanout = 2
  MaxDelta = 1
  MaxCrashes = 1
  run = run
  look = look
  fetch = fetch
  args1 = args1
  args2 = args2
  LoopArgs = {args1, args2}
  LoopTool = {run, look, fetch}
  WebTool = {fetch}
  HiddenTool = {fetch}
  Investigation = {look}
  Reply <- Replies
  FirstGated = {{}, {run}, {look, run}}
  Regulated = {run}
  RenamedBy <- HookNames
  MaxRounds = 2
  MaxWebFailures = 2
  w1 = w1
  w2 = w2
  policyTool = policyTool
  NoTool = NoTool
  Worker = {w1, w2}
  PolicyTool = {policyTool}
  ForcePrompt = {}
  FirstFile <- FirstPolicy
  MaxStamp = 2
SYMMETRY AnyTurn
INVARIANTS
  TranscriptIntact
  HierarchySound
  RebuildBounded
  TurnSound
  SavedUnlessRaced
  DecisionsTakeEffect
PROPERTY EffectsRecorded
