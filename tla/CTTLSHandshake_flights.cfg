\* Both builds, both flights cut anywhere, into reads and into pieces.
CONSTANTS
  Backends = {"SecureTransport", "WolfSSL"}
  FirstReads = {1, 3, 4, 6}
  LastReads = {7, 8, 9, 11}
  Stale = {0}
SPECIFICATION FairSpec
INVARIANTS TypeOK FlightsIntact ResponseCounted CleanHandover
PROPERTY HandshakeAnswered
CHECK_DEADLOCK FALSE
