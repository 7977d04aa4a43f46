\* Two programs run at one time, three in all; the new binary lies in the directory of the
\* smaller site.
SPECIFICATION Spec
CONSTANTS
  orig = orig
  app = app
  site1 = site1
  site2 = site2
  empty = empty
  Files = {orig, app}
  Original = orig
  Dirs = {site1, site2, empty}
  Start <- Contents
  Home <- Homes
  Name <- Binaries
  Paths <- AllPaths
  Walk <- InOrder
  Bytes <- Strings
  Picks = {{"index.html"}}
  Urls <- Requests
  Routable <- Extensionless
  Procs = {p1, p2}
  ExeSize = 2
  MaxRuns = 3
  None = None
SYMMETRY Symmetric
INVARIANTS
  TypeOK
  BundledIsWhole
  ServedAlike
PROPERTIES
  PublishedWhole
  CopiedOut
\* Everything may come to rest: every process has ended.
CHECK_DEADLOCK FALSE
