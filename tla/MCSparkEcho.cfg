SPECIFICATION ConsumerSpec
CONSTANTS
  NGlobal = 2
  MaxSemantic = 9
  MaxTokens = 14
  RefTokens = {0, 2}
  ChunkSizes = {1, 2, 3}
  MaxDelta = 3
INVARIANT GeneratedIsVocoded
CHECK_DEADLOCK FALSE
