CONSTANTS
  Seats = {s1, s2}
  Seeded = {s2}
  TTL = 2
  RenewEvery = 1
  Reprobe = 3
  MaxBackoff = 2
  Faults = {"disconnect"}
  MaxFaults = 1
  NoSeat = NoSeat
SPECIFICATION Spec
INVARIANT OnePoller
