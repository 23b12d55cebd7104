\* The bounds of the components, in the order of MCParts.
SPECIFICATION PartsSpec
CONSTANTS
  Names <- MCNames
  Hidden <- MCHidden
  Folders <- MCFolders
  Id <- MCId
  SortDirs = {1}
  Power = 2
  IdBytes = 2
  ByteBase = 4
  Room = 14
  MaxReuse = 1
  Volatile <- MCVolatile
  Indexes = {1, 4, 5}
  MaxChanges = 1
  FileNames = {fa, fb}
  Gone = gone
  MaxClock = 4
  GivenForks <- MCForks
  Edits <- MCEdits
  Codes = {zero, unknown, text}
  Zero = zero
  Unknown = unknown
  FlagSets <- MCFlagSets
  HostLines <- MCHostLines
  MaxInfos = 2
  SideFolders = {f1, f2}
  Titles = {t1, t2}
  Whose = {w1, w2, d1}
  FolderIds = {d1}
  MaxActs = 3
  BufCnt = 8
  Page = 4096
  Offsets = {0, 3700, 4090}
  MaxName = 106
  MaxDepth = 2
  rbufsize = 4
  wbufsize = 4
  Lengths = {0, 3, 6, 9}
  Mins = {1, 2, 3}
  MaxProduced = 6
  Romans <- MCRomans
  Hosts <- MCHosts
  ROOTFID = root
  Tracked = {h1, h2, h3}
  FcbFids = {r1, r2}
  Chunk = 2
  MaxNames = 5
  Sector = 2
  PageBytes = 4
  buffers = 4
  Maps <- MCMaps
  Capacity = 12
  MaxSectors = 6
  FirstSectors = {0, 1}
  Buffers = 6
  Places = {"a", "b"}
  MaxBatches = 3
  MaxStarts = 2
  Folders9 = {2, 20, 21}
  Procs = {1, 2}
  Entries = 5
  MaxMounts = 3
  DeviceTrees <- MCDeviceTrees
  Blobs <- MCBlobs
  Texts <- MCTexts
  Originals = {"code", "null", "ones"}
  MaxVectorCalls = 2
  Instances = {"i1", "i2", "i3"}
  MaxOthers = 2
  HostTree <- MCHostTree
  PathsAsked <- MCPathsAsked
  NewFile = 9
  Deepest = 2
INVARIANTS
  ListingSound
  ForksKept
  ForksComeBack
  InfoKept
  TagsDiffer
  BufsCounted
  MessagesFit
  BuffersTrue
  NamesTrue
  BitmaskAgrees
  ShortWalksAccepted
  ReadTrue
  MouseFollowed
  DriverSafe
  NumbersStand
  DevicesServed
  PatchWorks
  HookServes
  NamesLead
PROPERTIES
  ListingSteady
  SidecarsSafe
\* A call that has run its course stops, and so does a panic.
CHECK_DEADLOCK FALSE
