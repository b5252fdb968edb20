\* Three responses of one or two records each, cut anywhere into reads.
CONSTANTS
  NumCursors = 3
  HeaderLen = 2
  BodyLens = {1, 3}
  Window = 3
  Outrun = FALSE
  WholeHeaders = FALSE
  RecordLen = 3
  Coalesced = {}
SPECIFICATION TlsFairSpec
INVARIANTS TlsTypeOK ResponseCountExact TlsStreamIntact NeverAborts
PROPERTY KeepsPromise
