CONSTANTS
  Patterns = {p1}
  Notice = Notice
  Remedied = {p1}
  Flood = 0
  Window = 1
  Ceiling = 0
  Retention = 1
  Threshold = 1
  BatchLimit = 2
  Budget = 2
  MaxRows = 3
  MaxItems = 2
  Faults = {"cut"}
  MaxFaults = 1
SPECIFICATION Spec
INVARIANT OneOpenItem
