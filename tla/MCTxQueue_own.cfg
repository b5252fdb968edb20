\* Two connections, each with a txQueue and a sending thread of its own.
CONSTANTS
  http = http
  reql = reql
  q1 = q1
  q2 = q2
  main = main
  other = other
  Conns <- MCConns
  Queues <- MCQueues
  Senders = {main, other}
  QueueOf <- OwnQueue
  Users <- OwnSender
  MaxRequests = 3
SPECIFICATION FairSpec
INVARIANTS TypeOK UniqueTokens SentInOrder NothingLost
PROPERTY EverySent
CHECK_DEADLOCK FALSE
