CONSTANTS
  Slots = 2
  Loop = 1
  Final = 2
  Tiles = 1
  PreLoop = 3
  MaxEdges = 2
SPECIFICATION Spec
INVARIANTS TypeOK StreamAfterReveal
PROPERTIES AwaitedPictureShown SessionEnds
