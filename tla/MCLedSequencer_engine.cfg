CONSTANTS
  Patterns <- MCPatterns
  InterPatternGap = 2
  EndOfFrameGap = 3
  IdlePoll = 1
  ClockSize = 12
  MaxPass = 2
SPECIFICATION FairSpec
INVARIANT TypeOK
PROPERTIES CodeComplete NoErrorSkipped PlayedInOrder EventuallyShown
