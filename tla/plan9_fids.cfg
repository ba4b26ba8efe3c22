SPECIFICATION Spec
CONSTANTS
  Tags = {t1, t2}
  NoTag = NoTag
  Fids = {n1, n2}
  NoFid = NoFid
  Files = {0, 1, 2}
  RootFile = 0
  NoFile = NoFile
  Paths <- FlatPaths
  Root = "root"
  Parent <- FlatParent
  MaxNames = 1
  Ops = {"attach", "walk", "create", "clunk", "remove"}
INVARIANTS
  FilesCounted
  FidsCounted
SYMMETRY Symmetry
CHECK_DEADLOCK FALSE
