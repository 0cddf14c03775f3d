SPECIFICATION Spec
CONSTANTS
  Callers = {c1, c2}
  NoCaller = NoCaller
  Devices = {d1}
  IP <- SharedIP
  Services <- ReadAndWrite
  ReplyTypes <- AckOrReject
  NumIDs = 1
  Retries = 0
  MaxAge = 2
  MaxTicket = 3
SYMMETRY Symmetry
INVARIANTS TypeOK PendingExact OwnReply AckedWriteApplied
CHECK_DEADLOCK FALSE
