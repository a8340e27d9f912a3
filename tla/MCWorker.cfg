SPECIFICATION FairSpec
CONSTANTS
  w1 = w1
  w2 = w2
  Worker = {w1, w2}
  Task = {1, 2}
  Tables <- MCTables
  MaxRetries = 1
  PushFailure = {"git_commit_failed", "git_push_failed"}
  Nobody = Nobody
  Ghost = Ghost
  MaxFaults = 1
CHECK_DEADLOCK FALSE
INVARIANT CleanBetweenCycles
INVARIANT ArtifactOfRecordedRun
PROPERTY ImplementsTaskRun
PROPERTY QueuedRowsRun
