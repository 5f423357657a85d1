SPECIFICATION LiveSpec
CONSTANTS
  Session = {s1}
  OutOfBand = {a1}
  Gc = {g1}
  Cap = 2
  MaxSent = 2
  MaxFaults = 1
  MaxPurges = 1
INVARIANTS TypeOK LogIsHistory SessionPrefix NothingVanishes
PROPERTY SessionEnds
CHECK_DEADLOCK FALSE
