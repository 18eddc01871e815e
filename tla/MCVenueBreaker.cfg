SPECIFICATION Spec
CONSTANTS
  Callers = {c1, c2, c3}
  Threshold = 2
  Burst = 2
PROPERTIES
  OpenIsQuiet
  Recovers
