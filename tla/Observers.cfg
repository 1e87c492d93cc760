SPECIFICATION ObservedSpec
CONSTANTS
  ChunkMaxRecords = 2
  MaxItems = 1
  Capacity = 10
  LogIds <- MCLogIds
  Payloads = {1}
  Votes = {}
  UserDatas = {}
  RestoreStates = {}
  MaxBatch = 1
  Contract = {"fresh_ids", "consistent_purge", "forward_restore"}
  MaxRecs = 6
  MaxQueue = 2
  MaxCrashes = 1
  Observers = {"read", "dump_data", "ref_dump", "offline"}
  MaxDamage = 1
INVARIANT ItemsExact
INVARIANT ItemsInv
INVARIANT TextTellsPlace
INVARIANT TextInv
INVARIANT RefDumpRebuilds
INVARIANT OfflineDumpRebuilds
INVARIANT DamageIsShown
