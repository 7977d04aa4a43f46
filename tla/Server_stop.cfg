\* One client is connected when the process is told to stop.
SPECIFICATION FairSpec
CONSTANTS
  Conns = {c1}
  Peers = {k1}
  SendCap = 1
  MaxRequests = 1
  Linger = TRUE
  Disciplined = TRUE
  None = None
PROPERTY
  StopCompletes
\* A run ends: the process has exited, or every client has come and gone.
CHECK_DEADLOCK FALSE
