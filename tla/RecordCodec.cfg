SPECIFICATION Spec
CONSTANTS
  Records <- MCRecords
  Flips = {0, 1, 2, 5, 6}
  MaxWritten = 2
INVARIANT DecodesWhatWasWritten
INVARIANT FaultsAreErrors
INVARIANT SegmentsReadBack
CHECK_DEADLOCK FALSE
