SPECIFICATION Spec
CONSTANTS
  Slots = 4
  MaxFrames = 5
  Films <- AllFilms
  Sessions <- LaterMovies
INVARIANTS
  DeliveryAfterSetStream
CHECK_DEADLOCK FALSE
