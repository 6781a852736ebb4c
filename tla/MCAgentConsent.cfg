CONSTANTS
  a1 = a1
  a2 = a2
  server = server
  second = second
  Nobody = Nobody
  Agents <- MCAgents
  Admins <- MCAdmins
  Processes <- MCProcesses
  ProcessOf <- MCProcessOf
  Terms <- MCTerms
  Levels <- MCLevels
  CaptureLevel = 0
  DirectorySync = TRUE
  MaxGrants = 2
SPECIFICATION FairSpec
INVARIANTS QuotaKept RetiredStaysRetired DeliveredUnderLiveGrant
PROPERTIES CallsAnswered
