\* A client bound to a lease without end rests.
CHECK_DEADLOCK FALSE
CONSTANTS
  Addr = {a1, a2}
  NoAddr = NoAddr
  Absent = Absent
  Infinite = 255
  Leases <- MCAllLeases
  CoarseSecs = 2
  MaxTimeout = 7
  MaxRequests = 2
  ProbeNum = 2
  AnnounceNum = 2
  MaxConflicts = 2
  MaxFaults = 3
SPECIFICATION DhcpSpec
INVARIANT SuppliedMeansAddress
