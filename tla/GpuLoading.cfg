CONSTANTS
  Slots = 6
  Frame <- MCFrame
  Limit = 2
  Loading = TRUE
  MaxBlanks = 6
SPECIFICATION Spec
INVARIANT TypeOK
INVARIANT NoLostWakeup
INVARIANT DrawnAsSubmitted
INVARIANT TableOneBehind
PROPERTY InOrder
PROPERTY QuietPresentsFinished
PROPERTY CommandsBegun
