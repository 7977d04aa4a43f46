\* One session, in which the page starts a protocol and sends one message.
SPECIFICATION DeliverySpec
CONSTANTS
  Protocols = {x}
  Topics = {t}
  MaxSessions = 1
  MaxRequests = 2
  MaxData = 1
  Hasty = FALSE
INVARIANT
  AckedWasDelivered
\* A run ends: the requests, data and the session are used up.
CHECK_DEADLOCK FALSE
