\* The domain of the script: TLC must find its 202 + 226 + 180 + 204 states.
\* A closed owner stops: no deadlock check.
SPECIFICATION Spec
CONSTANTS
  Limits = {2, 3}
  Ticks <- MCTicks
  Deadline = 30000
INVARIANTS
  ReadyIsEarned
  SetupInTime
  CapacityHolds
PROPERTIES
  AdmissionAfterSetup
  DeferredFrameIsKept
CHECK_DEADLOCK FALSE
