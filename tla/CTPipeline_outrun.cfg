\* The server may answer between send() and the write to rxPipe.
CONSTANTS
  NumCursors = 3
  HeaderLen = 1
  BodyLens = {1}
  Window = 3
  Outrun = TRUE
  WholeHeaders = TRUE
SPECIFICATION Spec
INVARIANT OwnResponse
CHECK_DEADLOCK FALSE
