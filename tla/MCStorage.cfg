SPECIFICATION Spec
CONSTANTS
  IdBase = 2
  TimeDigits = 2
  RandDigits = 2
  MaxTime = 3
  MaxIds = 3
  BlockSize = 6
  Sizes = {0, 4, 5}
  MaxRecords = 3
  Offsets = {0, 3, 6}
  MaxWrites = 2
  MaxJobs = 1
  MaxCrashes = 2
  CacheThreads = {1, 2}
  CacheReaders = {1}
  CacheKeys = {1, 2}
  Charges = {1, 2}
  Capacities = {0, 2}
  MaxCleanups = 2
  MaxEntries = 3
  Users = {1, 2}
  MaxSeq = 4
  kMaxHeight = 2
  MemReaders = {1}
  ArenaBlock = 16
  Align = 4
  PieceSizes = {1, 3, 4, 5, 17}
  MaxPieces = 4
  IterUsers = {1, 2}
  SnapshotSeq = 3
  MaxAdds = 1
  MaxByte = 3
  MaxTag = 2
  ValueSizes = {0, 4}
  block_size = 14
  restart_interval = 2
  FilterBase = 8
  TableEntries = 3
  BufferSize = 2
  AppendSizes = {1, 2, 5}
  MaxBytes = 6
  FileThreads = {1, 2, 3}
  kDefaultMmapLimit = 1
  Settings = {0, 1}
  Rlimits = {98, 99, 4, 5}
  UnknownLimit = 98
  Infinite = 99
  Fallback = 1
  MaxInt = 2
  MaxHeld = 1
  Processes = {1, 2}
  LockThreads = {1, 2}
  NoProcess = 0
  MaxCalls = 2
  MaxItems = 5
  GroupBits = 2
  Width32 = 5
  Width64 = 7
  kNumLevels = 3
  NameDigits = 2
  Ten = 3
  LookupSpace = 9
  Seqs = {1, 2}
  LogNumbers = {4}
  TableNumbers = {2, 3}
  MaxNumber = 9
  MaxFaults = 1
  ByteBits = 2
  kPoly = 224
  kMaskDelta = 163
  MaskShift = 3
  RecordLengths = {3, 17, 39}
  CutsAt = {1, 6, 19}
  Changes = {1, 7, 255}
  U = 1
  ByteValues = {0, 1, 6, 15}
  KeyLengths = {16, 20}
  MaxData = 4
  FieldSizes = {0, 1, 3}
  RawMax = 2
  MaxFields = 2
  MaxWritten = 2
  Room = 6
  BucketWidth = 2
  kNumBuckets = 4
  Sentinel = 100
  Samples = {0, 1, 2, 7, 20}
  MaxSamples = 3
  kStackBufferSize = 8
  HeaderSizes = {3, 4}
  MaxMessage = 8
  MaxLines = 2
  Tiers = {"fast", "daily"}
  MaxEvents = 2
  MaxPackages = 2
  MaxBackgrounds = 1
  Images = {1, 5, 6}
  DemandBuffer = 3
  Granularity = 2
  Leftover = 2
  MinIntervals = {1, 2}
  MaxInterval = 4
  MaxUploadFaults = 3
  HashKeys = {0, 1, 8, 9, 2, 10}
  EntriesPerKey = {1, 2}
  Objects = {1, 2}
  MessageSizes = {0, 2}
  Items = {1}
  MaxOpens = 2
  MaxCuts = 1
  Fetchers = {1, 2}
  Backgrounds = {{}, {2}}
  MaxPerHost = 1
  MaxDispatchers = 2
  MaxTimers = 2
  StoreKeys = {1, 2}
  Deleted = {1}
  MaxBatch = 2
  MaxLast = 3
  Databases = {db1, db2}
  IntBits = 4
  MinSize = 2
  MaxSize = 4
  GivenSizes = {0, 5, 9, 19}
  MinFiles = 3
  MaxFiles = 6
  kNumNonTableCacheFiles = 1
  Receivers = {"r1", "r2"}
  TableCells = {"c1", "c2"}
  MaxChats = 2
  MaxLookups = 3
  MaxShown = 2
  MaxQuestions = 4
  MaxUsers = 2
  MaxScreens = 3
INVARIANTS
  TypeOK
  LogIntact
  CrashSafe
  EnvSound
  MemorySound
  ReadsExact
  CodecsExact
  MessagesExact
  ClientSound
  EventsSent
  UploadSound
  ListsExact
PROPERTIES
  StepsKept
CHECK_DEADLOCK FALSE
