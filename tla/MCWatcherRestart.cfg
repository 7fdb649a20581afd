SPECIFICATION Spec
CONSTANTS
  a = a
  b = b
  Lanes = {a, b}
  Release <- Staggered
  StartMax = 1
  Window = 2
  GateTimeout = 3
  StartPeriod = 2
  Memory = 2
  Need <- Each
  MinInterval = 2
  MaxFaults = 3
INVARIANT ClearsApart
