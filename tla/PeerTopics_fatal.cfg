\* One page that lists the peers of a topic it is subscribed to.
SPECIFICATION Spec
CONSTANTS
  Lives = {1}
  Topics = {t1}
  Remotes = {r1}
  Readers = {i1}
  Monitors = {k1}
  Scenarios <- OnePageAsks
  Leavers = {}
  MaxCalls = 1
  None = None
INVARIANT
  NoFatalError
CHECK_DEADLOCK FALSE
