SPECIFICATION Spec
CONSTANTS
  Platform = {"windows", "apple", "linux"}
  Interface = {"eth0", "lo"}
  Loopback = "lo"
  W = 64
  NarrowW = 2
  Unreadable = {"cpu", "net"}
  Total = {2}
  Available = {1, 3}
  Seconds = {1}
  Initial = {1}
  MaxCount = 3
  MaxWork = 2
  MaxReports = 2
INVARIANTS PercentagesInRange ReportsLastInterval
CHECK_DEADLOCK FALSE
