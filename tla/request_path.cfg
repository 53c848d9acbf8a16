CONSTANTS
  r1 = r1
  r2 = r2
  la = la
  lb = lb
  lc = lc
  NoLine = NoLine
  LineRequests = {r1, r2}
  TargetLists <- MCLists
  LineScopes <- MCLineScopes
  BanTime = 1
  ThrottleTime = 1
  MaxLineNow = 2
  MaxLineEvents = 1
  ImageRequests = {r1, r2}
  Slots = 1
  StartInterval = 1
  Backoff = 2
  ImageSize = 2
  ImageScopes <- MCImageScopes
  MaxImageNow = 2
  MaxObjects = 2
  StreamSizes = {2, 3}
  Validators = {"etag", "modified"}
  MaxAttempts = 2
  TicksPerSecond = 2
  MaxStreamNow = 4
  MaxVersions = 3
  Reports = {r1, r2}
  QueueSize = 1
  LineCount = 2
  MaxInterval = 1
  PlayWindow = 2
  BucketTime = 1
  ReportScopes <- MCReportScopes
  MaxPlayNow = 2
  MaxReports = 3
  ExportWindow = 0
  MaxLines = 2
  MaxLogs = 2
  MaxLogNow = 1
  MaxLogFaults = 1
SYMMETRY PathSymmetry
SPECIFICATION PathSpec
INVARIANTS FailureIsEarned ServedWhole WaitersAreLed OneResource StatisticsAddUp LogAccounted
PROPERTY LeftAfterFailure
CHECK_DEADLOCK FALSE
