\* The HappyEyeballs sample: one thread, two connections, one txQueue.
CONSTANTS
  http = http
  reql = reql
  q1 = q1
  q2 = q2
  main = main
  other = other
  Conns <- MCConns
  Queues <- MCQueues
  Senders = {main}
  QueueOf <- OneQueue
  Users <- OneSender
  MaxRequests = 2
SPECIFICATION Spec
INVARIANT NothingLost
CHECK_DEADLOCK FALSE
