SPECIFICATION Spec
CONSTANTS
  Setup = 1
  Calls = 3
  Modes = {"setup", "protected", "server", "client"}
  Cores = {"good"}
  Crashing = {}
INVARIANTS
  ExitedBeforeRendezvous
