\* Two steps and one line more than an ideal adapter writes.
SPECIFICATION Spec
CONSTANTS
  N = 2
  MaxLines = 3
INVARIANTS
  PassIsEarned
  NoFalseAlarm
  ObservationsCorrelate
  NothingLeftRunning
PROPERTIES
  OneReader
