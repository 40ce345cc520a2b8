\* Liveness and refinement: two steps, no spare line, so that stuck
\* interleavings stay and the behaviour graph stays small.
SPECIFICATION Spec
CONSTANTS
  N = 2
  MaxLines = 2
PROPERTIES
  Terminates
  ImplementsContract
