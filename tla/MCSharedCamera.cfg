CONSTANTS
  session = session
  snapshot = snapshot
  session2 = session2
  snapshot2 = snapshot2
  server = server
  second = second
  Nobody = Nobody
  MaxOrphans = 2
  Leases <- MCLeases
  Processes <- MCProcesses
  ProcessOf <- MCProcessOf
SPECIFICATION LeaseSpec
INVARIANTS ExclusiveUse
