SPECIFICATION Spec
CONSTANTS
  PageSize = 2
  AddrMod = 32
  Requests <- MCRequests
  MaxBefore = 2
  MaxAfter = 1
  FileSizes = {2, 6, 10}
  LoadSizes = {1, 4}
  NoFile = NoFile
INVARIANTS
  RegionsApart
  FileLaidOut
  ChunksApart
  RestartKeepsMemory
CHECK_DEADLOCK FALSE
