CONSTANTS
  Regions <- MCRegions
  Lists <- MCLists
  Spaces <- MCSpaces
  BackendCount = 2
  Throughputs = {1, 8}
  FragmentSizes = {2, 6, 16}
  ElementSize = 2
  Null = Null
  Unset = Unset
  Pairs <- MCPairs
  Untouched = Untouched
  Bounds <- MCBounds
  MaxEntries = 7
  Width = 2
  Cubes <- MCCubes
  Dims = 2
  MaxCubes = 3
  Datasets <- MCDatasets
  Boxes <- MCBoxes
  Layouts <- MCLayouts
  MaxFragments = 2
  Fill = Fill
  Cleared = Cleared
  Junk = Junk
  None = None
SPECIFICATION Spec
INVARIANT ExtendsDecided
CHECK_DEADLOCK FALSE
