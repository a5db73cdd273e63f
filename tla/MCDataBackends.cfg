CONSTANTS
  f1 = f1
  f2 = f2
  dset = dset
  Frags = {f1, f2}
  None = None
  MaxVersion = 2
  Ids = {"a1", "a2"}
  DirOf <- MCDirOf
  Absent = Absent
  Procs = {p1, p2}
  Datasets = {dset}
  DatasetOf <- MCDatasetOf
  SizeOf <- MCSizeOf
  Objs = {1, 2}
  MaxBlock = 3
  Check = Check
  WObjs = {1, 2}
  BytesOf <- MCBytesOf
  Capacity = 2
SPECIFICATION Spec
INVARIANTS FilesKept RetrieveCorrect MotrDataKept  WosDataKept
SYMMETRY Symmetry
CHECK_DEADLOCK FALSE
