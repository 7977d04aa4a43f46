\* A queue that is given a second stream.
SPECIFICATION Spec
CONSTANTS
  Messages = {m1}
  Streams = {s1, s2}
  Procs = {p1, p2}
  MaxAttempts = 2
  MaxIncoming = 0
  None = None
INVARIANT
  NoPanic
\* A run ends: the messages are all sent, or the process has panicked.
CHECK_DEADLOCK FALSE
