\* Two or three jobs, batches of two, one job at a time, one failure or crash.
SPECIFICATION JobsSpec
CONSTANTS
  j1 = j1
  j2 = j2
  j3 = j3
  client1 = client1
  client2 = client2
  NoRow = NoRow
  Job = {j1, j2, j3}
  Client = {client1, client2}
  Schedule <- Schedules
  Tables <- FreshTables
  MaxTasks = 2
  MaxConcurrentJobs = 1
  MaxTime = 2
  MaxFaults = 1
CHECK_DEADLOCK FALSE
INVARIANTS
  ChangesLast
  SettledAsScheduled
PROPERTIES
  RemovedForGood
  DueJobsSettle
