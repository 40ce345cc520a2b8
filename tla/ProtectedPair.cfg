SPECIFICATION Spec
CONSTANTS
  Setup = 1
  Calls = 3
  Modes = {"setup", "protected", "server", "client"}
  Cores = {"good", "slow", "never", "twice", "silent", "resends"}
  Crashing = {"client", "server"}
INVARIANTS
  ClockWaits
  PassIsEarned
  NoFalseAlarm
PROPERTIES
  PairEnds
