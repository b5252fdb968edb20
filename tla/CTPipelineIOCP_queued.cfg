\* Two requests on each connection, those of the first before those of the
\* second: overlaps within a connection, and a switch from one to the other.
CONSTANTS
  NumCursors = 4
  HeaderLen = 1
  BodyLens = {1, 2}
  Window = 3
  Outrun = FALSE
  WholeHeaders = TRUE
  Second = {3, 4}
SPECIFICATION IocpFairSpec
INVARIANTS IocpTypeOK OneReceiver
PROPERTY KeepsPromise
