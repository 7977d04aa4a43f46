\* Two messages, and two processors that can be started at once; two streams, so that the
\* first can be lost, replaced and opened again.  No symmetry: liveness is checked.
SPECIFICATION FairSpec
CONSTANTS
  Messages = {m1, m2}
  Streams = {s1, s2}
  Procs = {p1, p2}
  MaxAttempts = 2
  MaxIncoming = 1
  None = None
INVARIANTS
  TypeOK
  SingleProcessor
  PickedIsHead
  HeadOfLine
  NoStreamLeak
  StreamIsRead
PROPERTIES
  InOrderAtMostOnce
  StrandedOnlyAtExit
  PickedIsResolved
  GoroutinesEnd
\* A run ends: the messages are all sent, or the process has panicked.
CHECK_DEADLOCK FALSE
