\* Three processes at a time, any number over time; no symmetry because of the
\* liveness property.
SPECIFICATION FairSpec
CONSTANTS
  Pids = {p1, p2, p3}
  Reuse = FALSE
  None = None
INVARIANTS
  TypeOK
  Tracked
  NoBystander
PROPERTY
  ServerLeaves
