\* A request on the second connection between two on the first.
CONSTANTS
  NumCursors = 4
  HeaderLen = 1
  BodyLens = {1}
  Window = 3
  Outrun = FALSE
  WholeHeaders = TRUE
  Second = {3}
SPECIFICATION IocpFairSpec
PROPERTY KeepsPromise
CHECK_DEADLOCK FALSE
