\* One protocol and one topic; the page connects again once.
SPECIFICATION FairSpec
CONSTANTS
  Protocols = {x}
  Topics = {t}
  MaxSessions = 2
  MaxRequests = 3
  MaxData = 2
  Hasty = FALSE
INVARIANTS
  TypeOK
  HeardInOrder
  Agreement
  AckedWasAccepted
PROPERTIES
  LostOnlyWhileStarting
  RequestsSettle
\* A run ends: the requests, data and sessions are used up.
CHECK_DEADLOCK FALSE
