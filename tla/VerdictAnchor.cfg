SPECIFICATION Spec
CONSTANTS
  RequiredRoots <- Required
  OtherRoots <- Others
  NoCert = NoCert
  NoContext = NoContext
  Files <- Sources
  Parse <- ParseSource
  Unparsable = Unparsable
  Repairs <- RepairsOf
  Completions <- CompletionsOf
  Breakages <- BreakagesOf
  NoRun = NoRun
  Garbage = Garbage
CHECK_DEADLOCK FALSE
INVARIANT AnchoredIsTrusted
