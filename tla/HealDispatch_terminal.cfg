CONSTANTS
  Patterns = {p1}
  Notice = Notice
  Remedied = {p1}
  Flood = 0
  Window = 1
  Ceiling = 0
  Retention = 1
  Threshold = 2
  BatchLimit = 2
  Budget = 1
  MaxRows = 2
  MaxItems = 2
  Faults = {"store", "reply", "cut", "crash"}
  MaxFaults = 1
SPECIFICATION Spec
PROPERTY TerminalStays
