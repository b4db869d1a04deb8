SPECIFICATION FairSpec
CONSTANT CommandSequences <- UpToFour
INVARIANT
  BusAnswers
PROPERTIES
  VideoEnds
  ImplementsMainLoop
