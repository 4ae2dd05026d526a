CONSTANTS
  MaxQuery = 5
  Queries <- MCQueries
  Multiparts <- MCMultiparts
  Names <- MCNames
  Files <- MCFiles
SPECIFICATION Spec
INVARIANTS
  QueryInspected
  QueryReported
  MultipartInspected
PROPERTY
  LoopsAdvance
CHECK_DEADLOCK FALSE
