CONSTANTS
  e1 = e1 e2 = e2 t1 = t1 me = me
  Targets = {t1}
  Local = me
  Events = {e1, e2}
  TargetOf <- OneHotel
  QueryLimit = 2
  ChanCap = 2
  MaxClaims = 2
  MaxCopies = 1
  MaxFaults = 1
  NoEvent = NoEvent
SPECIFICATION Spec
INVARIANT AckedIsNotLost
CHECK_DEADLOCK FALSE
