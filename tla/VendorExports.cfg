SPECIFICATION Spec
CONSTANTS
  RequiredRoots <- Required
  OtherRoots <- Others
  NoCert = NoCert
  NoContext = NoContext
  Files <- Sources
  Parse <- ParseSource
  Source <- SourceOf
  Unparsable = Unparsable
  Repairs <- CorrectedOf
  Completions <- KeptOf
  Breakages <- SpoiltOf
  NoRun = NoRun
  Garbage = Garbage
CHECK_DEADLOCK FALSE
INVARIANTS RepairNeverWorsens ShownFaultsAreFound CleanPasses UnknownJudgesNothing
