SPECIFICATION SynthesisSpec
CONSTANTS
  NumLayers = 1
  NumUpsample = 1
  NumRates = 1
  MaxFrames = 5
  DirectKeys <- MCDirect
  AllowedMissing <- MCAllowed
  Shape <- MCShape
  GraphOrder <- MCGraphOrder
  Files <- MCFiles
  Stack <- MCStack
  Programs <- MCPrograms
  Feeds <- MCFeeds
  NGlobal = 2
  MaxSemantic = 9
  MaxTokens = 14
  RefTokens = {0, 2}
  ChunkSizes = {1, 2, 3}
  MaxDelta = 3
  Reqs = {r1, r2, r3}
  MaxSlots = 2
  None = None
SYMMETRY Symmetry
INVARIANTS
  StreamedIsOffline
  EmittedIsPrefix
  StatesAligned
  WeightsInPlace
  WeightsByPlace
  Contiguous
  OneFinalChunk
  VocodedSpeech
  SlotCustody
  OneTerminal
  CancelHitsItsOwn
  CancelledOnlyIfAsked
CHECK_DEADLOCK FALSE
