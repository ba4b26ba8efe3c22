SPECIFICATION FairSpec
CONSTANTS
  Runs = {r1, r2}
  Pids = {p1, p2}
  Codes = {0}
  Boot = Boot
  None = None
INVARIANTS
  CodeIsTrue
  ReadyAgrees
PROPERTIES
  WaitReturns
CHECK_DEADLOCK FALSE
