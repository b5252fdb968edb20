\* bind() or connect() may fail at once.
CONSTANTS
  plain = plain
  secure = secure
  proxied = proxied
  Targets <- MCTargets
  Handshakes <- MCHandshakes
  MaxRounds = 2
  Mishaps = {"connect"}
SPECIFICATION FairSpec
PROPERTY EveryConnectAnswered
CHECK_DEADLOCK FALSE
