\* Two clients like the TypeScript client, for one key (two tabs, or a page reload), without
\* --linger; room for one message.
SPECIFICATION FairSpec
CONSTANTS
  Conns = {c1, c2}
  Peers = {k1}
  SendCap = 1
  MaxRequests = 1
  Linger = FALSE
  Disciplined = TRUE
  None = None
INVARIANTS
  TypeOK
  OneOwner
  RoutedToOwner
  NoOrphanPeer
PROPERTIES
  DeliveredToOwner
  AutoExit
  LostIsClosed
\* A run ends: the process has exited, or every client has come and gone.
CHECK_DEADLOCK FALSE
