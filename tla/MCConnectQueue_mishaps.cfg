\* Everything may go wrong.
CONSTANTS
  plain = plain
  secure = secure
  proxied = proxied
  Targets <- MCTargets
  Handshakes <- MCHandshakes
  MaxRounds = 2
  Mishaps <- AllMishaps
SPECIFICATION FairSpec
INVARIANTS TypeOK AnsweredOnce OwnConnection
PROPERTY EveryConnectionAnswered
CHECK_DEADLOCK FALSE
