SPECIFICATION Spec
CONSTANTS
  ChunkMaxRecords = 3
  MaxItems = 1
  Capacity = 10
  LogIds <- MCLogIds
  Payloads = {1}
  Votes = {}
  UserDatas = {}
  RestoreStates = {}
  MaxBatch = 2
  Contract = {"fresh_ids", "consistent_purge", "forward_restore"}
  MaxRecs = 7
  MaxQueue = 2
  MaxCrashes = 0
PROPERTY RejectedWriteChangesNothing
