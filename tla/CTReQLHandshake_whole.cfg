\* Messages are read whole, alone or two at a time; the server may refuse the
\* client's first or final message, or answer the final one without a signature.
CONSTANTS
  MagicLen = 2
  FirstLens = {3}
  FinalLen = 2
  GuessLen = 3
  Whole = TRUE
  Refusals = {"first", "final"}
  Unsigned = TRUE
SPECIFICATION FairSpec
INVARIANTS TypeOK OwnMessages CleanHandover SuccessMeansNotRefused
PROPERTY HandshakeAnswered
CHECK_DEADLOCK FALSE
