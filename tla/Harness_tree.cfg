CONSTANTS
  runtime = runtime
  state = state
  jobs = jobs
  ocr = ocr
  extra = extra
  None = None
  Backend = "StateBackend"
  MaxFaults = 2
  Plugins <- MCPlugins
  Base <- MCBase
  Patches <- MCPatches
  Program <- MCProgram
  Pruner <- MCPruner
  Closer <- MCCloser
SPECIFICATION Spec
CHECK_DEADLOCK FALSE
INVARIANTS Accounted DependenciesOutlive
