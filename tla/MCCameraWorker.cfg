SPECIFICATION FairSpec
CONSTANTS
  MaxWorkers = 2
  MaxReads = 2
  MaxCrashes = 1
INVARIANTS
  ReplyOfItsRequest
  NoStrayWorker
PROPERTIES
  CallsReturn
  OrphansLetGo
