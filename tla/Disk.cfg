SPECIFICATION DiskSpec
CONSTANTS
  Proc = {p1, p2}
  Long = {FALSE, TRUE}
  MaxReports = 4
  MaxFaults = 2
  Key = {k1, k2}
  Secret = {s1, s2}
  None = None
  Oversize = Oversize
  MaxCalls = 4
  MaxFailures = 2
INVARIANTS TypeOK ReportedIsDurable HolderKnowsAll NoFork StoreTypeOK AcknowledgedIsOnDisk MemoryIsOnDisk
