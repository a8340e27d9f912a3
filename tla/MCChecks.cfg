SPECIFICATION Spec
CONSTANTS
  RepoRoot <- MCRepoRoot
  RuntimeRoot <- MCRuntimeRoot
  DockerSock <- MCDockerSock
  DangerousRoots <- MCDangerous
  Links <- MCLinks
  MaxDepth = 3
  MaxChangedFiles = 2
  DashboardRoot <- MCDashboardRoot
  WorkspaceRoot <- MCWorkspaceRoot
  BannedRoots <- MCBannedRoots
  TaskId = "id"
  AllowList = {"main"}
  AsciiNames = {"", "main", "wip"}
  Projects <- MCProjects
  Payloads <- MCPayloads
  LlmAnswers <- MCLlmAnswers
  WorkingTrees <- MCWorkingTrees
  Requests <- MCRequests
CHECK_DEADLOCK FALSE
INVARIANT PassedIsHarmless
INVARIANT HiddenSecretsFound
INVARIANT VerdictHasGround
INVARIANT CommitTakesEverything
INVARIANT AcceptedCanFinish
