CONSTANTS
  Seats = {s1, s2}
  Seeded = {s2}
  TTL = 2
  RenewEvery = 1
  Reprobe = 3
  MaxBackoff = 2
  Faults = {"restart", "home", "error", "token", "disconnect", "crash", "shutdown", "component", "stall"}
  MaxFaults = 2
  NoSeat = NoSeat
SPECIFICATION FairSpec
INVARIANTS TypeOK FreshHolderOwns EpochsAreUnique
PROPERTIES SomeonePolls ImplementsAuthority
