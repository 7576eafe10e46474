SPECIFICATION Spec
CONSTANTS
  Slots = 4
  MaxFrames = 5
  Films <- AllFilms
  Sessions <- BothExtremes
INVARIANTS
  TypeOK
  NoRejection
  NeverTorn
  NoOrphanSlot
  CompletionOwed
PROPERTIES
  NoLiveOverwrite
  FilmDecoded
  ImplementsFifo
CHECK_DEADLOCK FALSE
