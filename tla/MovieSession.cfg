SPECIFICATION Spec
CONSTANTS
  Movies = 3
  AwayBlanks = 2
  DeviceBlanks = 1
INVARIANTS
  TypeOK
  CodecNeverRefuses
  TransfersLandInOwnRing
PROPERTIES
  ScreenFollows
  PictureDelivered
