SPECIFICATION CommandSpec
CONSTANTS
  RequiredRoots <- Required
  OtherRoots <- Others
  NoCert = NoCert
  NoContext = NoContext
  Files <- AllSources
  Parse <- ParseAny
  Unparsable = Unparsable
  Repairs <- RepairsAny
  Completions <- CompletionsAny
  Breakages <- BreakagesAny
  NoRun = NoRun
  Garbage = Garbage
  Peers <- PeersOf
  Listening <- Up
  Subject <- SubjectOf
  Unnamed = Unnamed
  Bundles <- BundlesOf
  Fingerprint <- FingerprintOf
  Cert <- Certs
  NoBundle = NoBundle
  Idle = Idle
  Calls = {c1, c2}
  MinRtp = 2
  MaxSent = 4
  MaxLost = 1
  Untold = Untold
CHECK_DEADLOCK FALSE
INVARIANTS TypeOK DeadCallGated StableIsUngated OnlyCarriedIsJudged VerdictMonotone RepairNeverWorsens
  NoDriftNoOutage LeafFaultsAgree PassingEdgeLives ReadyConnects SharedFate
  ReportShowsOutage ShadowedIsDead AnchorProven RootRecognized
  ConnectedIsAnswered FailureIsReal MediaIsJudged ShownHasCause
PROPERTIES WalkProgress
