SPECIFICATION WorkerSpec
CONSTANTS
  Steps = 2
  VideoT <- MCVideoT
  AudioT <- MCAudioT
  ImageT = 999
  AudioRefT = 1000
  Aliased = {"video_shift"}
  Threads = {"t1", "t2"}
  Packages = {"kb", "kc", "ko"}
  Paths <- MCPaths
  NoData = "none"
  Documents <- MCDocuments
  Declaring <- MCDeclaring
  Shards <- MCShards
  Exports = {"x", "y"}
  Torn = "torn"
  Recorded <- MCRecorded
  Slots = {"s1", "s2"}
  SlotFile <- MCSlotFile
  Casts <- MCCasts
  Reqs = {r1, r2}
  Route <- MCRoute
  NoThread = nothread
  NoPackage = nopackage
  NoMode = nomode
  NoReq = noreq
INVARIANT HostRestored
INVARIANT RouteHonoured
INVARIANT OneModel
INVARIANT ReadyIsVerified
INVARIANT NeverOverlap
INVARIANT SelectsComputed
INVARIANT AdmittedAsCompiled
\* constructions and requests are bounded
CHECK_DEADLOCK FALSE
