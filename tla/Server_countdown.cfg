\* One client leaves while another connects.
SPECIFICATION Spec
CONSTANTS
  Conns = {c1, c2}
  Peers = {k1}
  SendCap = 1
  MaxRequests = 1
  Linger = FALSE
  Disciplined = TRUE
  None = None
INVARIANT
  CountdownCancelled
\* A run ends: the process has exited, or every client has come and gone.
CHECK_DEADLOCK FALSE
