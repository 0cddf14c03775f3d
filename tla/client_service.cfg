SPECIFICATION FairSpec
CONSTANTS
  Callers = {c1, c2}
  NoCaller = NoCaller
  Devices = {d1}
  IP <- OwnIPs
  Services <- Write
  ReplyTypes <- AckOnly
  NumIDs = 2
  Retries = 1
  MaxAge = 2
  MaxTicket = 4
INVARIANTS PendingExact
PROPERTIES ImplementsService
CHECK_DEADLOCK FALSE
