CONSTANTS
  Slots = 8
  Frame <- MCFrame
  Limit = 2
  Loading = TRUE
  MaxBlanks = 8
SPECIFICATION Spec
PROPERTY PresentsFinishedPage
