CONSTANT N = 3
SPECIFICATION Spec
INVARIANTS
  ExitTellsTheTruth
  ReplacedAdapterFails
  OneAdapterAtATime
  ReportIsWhole
  VerdictIsSaved
PROPERTY ImplementsContract
