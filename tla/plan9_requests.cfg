SPECIFICATION Spec
CONSTANTS
  Tags = {t1, t2}
  NoTag = NoTag
  Fids = {n1}
  NoFid = NoFid
  Files = {0, 1, 2, 3, 4, 5}
  RootFile = 0
  NoFile = NoFile
  Paths <- DeepPaths
  Root = "root"
  Parent <- DeepParent
  MaxNames = 2
  Ops = {"attach", "walk", "open", "read", "clunk", "remove"}
INVARIANTS
  FilesCounted
  NoEntryLeft
PROPERTIES
  RequestsReturn
  ClunkedFidLeaves
CHECK_DEADLOCK FALSE
