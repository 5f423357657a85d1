SPECIFICATION Spec
CONSTANTS
  Session = {s1, s2}
  OutOfBand = {a1}
  Gc = {}
  Cap = 2
  MaxSent = 2
  MaxFaults = 0
  MaxPurges = 0
INVARIANT ConsumersNeverCollide
CHECK_DEADLOCK FALSE
