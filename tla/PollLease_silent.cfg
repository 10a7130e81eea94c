CONSTANTS
  Seats = {s1, s2}
  Seeded = {s2}
  TTL = 2
  RenewEvery = 1
  Reprobe = 3
  MaxBackoff = 2
  Faults = {"error", "crash"}
  MaxFaults = 2
  NoSeat = NoSeat
SPECIFICATION FairSpec
PROPERTY OwnerPolls
