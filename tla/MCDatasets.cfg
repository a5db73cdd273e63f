CONSTANTS
  Names = {a, b}
  Ids = {i1, i2}
  Shapes = {s}
  MaxRefs = 2
  MaxChanges = 2
  Absent = Absent
  Torn = Torn
  None = None
  Procs = {0, 1}
  GridNames = {"g", "h"}
  DomainOf <- MCDomainOf
  Space <- MCSpace
  Boxes <- MCBoxes
  Plain <- MCPlain
  Refined <- MCRefined
  MaxDepth = 2
  MaxFailures = 1
SPECIFICATION DatasetsSpec
INVARIANTS  WrittenKept 
           GridsExact CopiesAgree NoAbort
SYMMETRY Symmetry
CONSTRAINT Scenarios
CHECK_DEADLOCK FALSE
