\* One page that asks for everything, or a page that is reloaded while its first
\* connection is being closed.
SPECIFICATION FairSpec
CONSTANTS
  Lives = {1, 2}
  Topics = {t1}
  Remotes = {r1}
  Readers = {i1, i2}
  Monitors = {k1, k2}
  Scenarios <- PageAsks
  Leavers = {1}
  MaxCalls = 1
  None = None
INVARIANTS
  TypeOK
  HandlersOwned
  JoinedIsUsed
  LeftByLateRequest
  SubscribedTogether
  ViewFollows
PROPERTIES
  ChangesAreHeard
  ClosedPeerEnds
\* Everything may come to rest: pages stop asking, peers stop coming and going.
CHECK_DEADLOCK FALSE
