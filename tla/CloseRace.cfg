SPECIFICATION RaceSpec
CONSTANTS
  W = 2
  Rounds = 2
  Origin = 1
  MaxTime = 2
  Cores = {"correct", "lagging", "deaf", "unsynchronised", "stubborn", "stuck"}
INVARIANTS
  PassIsEarned
  NoFalseAlarm
PROPERTIES
  ScriptEnds
