\* Four requests in flight at once, answered no earlier than their cursor is in
\* rxPipe: one read can return the bytes of four responses.
CONSTANTS
  NumCursors = 4
  HeaderLen = 2
  BodyLens = {1, 2}
  Window = 4
  Outrun = FALSE
  WholeHeaders = TRUE
SPECIFICATION FairSpec
INVARIANTS TypeOK CursorOrder ResponseCountExact OwnResponse StreamIntact NeverAborts
PROPERTY KeepsPromise
