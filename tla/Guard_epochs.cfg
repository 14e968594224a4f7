CONSTANTS
  PageSize = 4
  Bases = {0, 16}
  Ranges <- MCRanges
SPECIFICATION RangeSpec
INVARIANTS NoLostWakeup
PROPERTIES StartReturns RangesImplementEpochs
