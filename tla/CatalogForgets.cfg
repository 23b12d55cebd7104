\* The same instance: a name set while the entry was clean is forgotten.
SPECIFICATION Spec
CONSTANTS
  dir1 = dir1
  dir2 = dir2
  file1 = file1
  short = short
  long = long
  Root = root
  Cnids = {dir1, dir2, file1}
  Dirs = {dir1, dir2}
  Names = {short, long}
  NameLen <- MCLen
  Paths <- MCPaths
  Trees <- MCTrees
  Slots = 2
  Bytes = 3
  MaxEl = 4
  MaxChanges = 2
INVARIANT NothingForgotten
