\* Two servers, and a third process.
SPECIFICATION Spec
CONSTANTS
  Pids = {p1, p2, p3}
  Reuse = FALSE
  None = None
SYMMETRY Symmetric
INVARIANT
  ListedWhileRunning
