\* A client that sends from its callbacks only, up to three messages under way;
\* queries may be continued.
CONSTANTS
  NumCursors = 4
  HeaderLen = 1
  BodyLens = {2}
  Window = 3
  Outrun = FALSE
  WholeHeaders = TRUE
  Partial = {1, 2, 3}
SPECIFICATION CXFairSpec
INVARIANTS CXTypeOK MapsExact TokensOfQueries OwnCallback NeverAborts
PROPERTY EveryMessageAnswered
