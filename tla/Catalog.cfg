\* Two directories and a file; a bucket of two entries and three bytes of names.
SPECIFICATION Spec
CONSTANTS
  dir1 = dir1
  dir2 = dir2
  file1 = file1
  short = short
  long = long
  Root = root
  Cnids = {dir1, dir2, file1}
  Dirs = {dir1, dir2}
  Names = {short, long}
  NameLen <- MCLen
  Paths <- MCPaths
  Trees <- MCTrees
  Slots = 2
  Bytes = 3
  MaxEl = 4
  MaxChanges = 2
INVARIANTS LastSetWins AskedIsFound NameAndParentTrue WalkConnects
