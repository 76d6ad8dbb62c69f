SPECIFICATION Spec
CONSTANTS
  RequiredRoots <- Required
  OtherRoots <- Others
  NoCert = NoCert
  NoContext = NoContext
  Files <- Sources
  Parse <- ParseSource
  Source <- SourceOf
  Unparsable = Unparsable
  Repairs <- NoEdits
  Completions <- IniUnknownOf
  Breakages <- NoEdits
  NoRun = NoRun
  Garbage = Garbage
CHECK_DEADLOCK FALSE
INVARIANT UnknownJudgesNothing
