\* The domain of the script: TLC must find the same 603 states.
SPECIFICATION Spec
CONSTANTS
  Times <- MCTimes
  SetupDeadline = 30
  RequestDuration = 10
  SessionEnd = 60
INVARIANTS
  LedgerTellsTheEffect
PROPERTIES
  AdmissionInTime
  LedgerMovesForward
  ResponseInTime
