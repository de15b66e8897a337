SPECIFICATION MCSpec
CONSTANTS
  d1 = d1
  d2 = d2
  t1 = t1
  t2 = t2
  p1 = p1
  p2 = p2
  u = u
  v = v
  Ip = {i1, i2}
  Path = {"search", "catalog", "respelt", "gone"}
  Family = {gptbot}
  NoFamily = NoFamily
  Window = 1
  SweepEvery = 1
  Limit = 1
  CatalogLimit = 2
  MaxBuckets = 1
  MaxRecent = 1
  RecentFor = 1
  Start = 2
  LastTick = 3
  MaxRequests = 3
  Fanout = 3
  DispatchTimeout = 1
  SlowMs = 2
  NearKillMs = 3
  HandlerTimeout = 4
  MaxDuration = 5
  Lead = {r1, r2}
  Cap = 1
  Sends = 2
  BrevoCall = {"contact", "notify"}
  BrevoConfigured = TRUE
  NoAnswer = NoAnswer
  Rounds = 3
  Absent = Absent
  Query = {0, 1, 2}
  MaxEdits = 2
  MaxReads = 2
  Spawned = {"npx", "docker"}
  Arguments = {"-y", "pkg", "pkg@1", "auth-server", "auth-server==1", "--api-key", "--api-key=v", "v", "sk", "/", "/Users/jo Smith/proj"}
  MaxArgs = 2
  Urls <- SomeUrls
  Spots <- SomeSpots
  Wirings = {"marker", "joined", "docs"}
  Words = {{"delete"}, {"run"}, {"reboot"}, {"post"}, {"email"}, {"write"}, {"find"}, {"get"}, {"server"}, {"webhook"}, {"payment"}, {"reset"}, {"get", "reset"}, {"get", "put"}}
  MaxName = 2
  MaxDescribed = 1
  Install = {d1, d2}
  Token = {k1}
  NoToken = NoToken
  Tool = {t1, t2}
  Post = {p1, p2}
  Lookup = {l1}
  DriftBatch <- SomeDrift
  ReceiptBatch <- SomeReceipts
  VerifyCap = 1
  ListCap = 2
  ViewCap = 1
  StreamCap = 1
  HintTtl = 2
  Resends = 1
  DarkServed = TRUE
  Horizon = 2
  MaxChanges = 1
  MaxMoves = 2
  Fp = {t1, t2}
  Key = {a}
  Instance = {x}
  Task = {u, v}
  WindowDays = 2
  MinDays = 2
  Retention = 3
  SeriesMax = 1
  SeenMax = 1
  LastDay = 3
INVARIANTS ProxyIsFair HangsAreSeen LeadsAreKept FailsClosed LateAnswersYield ScanIsHonest IngestHolds CleanMeansSeenNowhere MarksHold
PROPERTIES GradesOnlyRise
CHECK_DEADLOCK FALSE
SYMMETRY Symmetry
