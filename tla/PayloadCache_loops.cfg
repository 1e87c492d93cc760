SPECIFICATION Spec
CONSTANTS
  MaxItems = 1
  Capacity = 2
  CacheIds <- MCCacheIds
  Sizes = {1, 2}
  MaxSize = 6
INVARIANT LoopEndsAsDefined
INVARIANT SizeCoversContent
PROPERTY LoopsEnd
