CONSTANTS
  Blocks = 1
  Refiners = 1
  BlockParts = {"adaln_proj.linear", "attn.qkv_proj", "mlp.fc1"}
  RefinerParts = {"attn.out_proj"}
  Dims <- MCDims
  CombatRank = 1
  ModuleOrder <- MCModuleOrder
  Layout <- MCLayout
  Adapters <- MCAdapters
  Truncated = {"short"}
  NonFinite = {"nan"}
  Paths <- MCPaths
  NoData <- MCNoData
  n1 = n1
  n2 = n2
  s1 = s1
  s2 = s2
  s3 = s3
  p1 = p1
  p2 = p2
  w1 = w1
  w2 = w2
  a1 = a1
  o1 = o1
  o2 = o2
  o3 = o3
  Oracles = {o1, o2, o3}
  PlanPaths <- MCPlans
  PlanText <- MCPlanText
  ReferencePath = "ref"
  Reference <- MCReference
  OracleInputs <- MCOracleInputs
  MicroTargets <- MCMicroTargets
  TempOf <- MCTempOf
  Candidates <- MCCandidates
  ReceiptPath = "receipt"
  Parity <- MCParity
  Converters = {n1, n2}
  SourcePath = "raw"
  NormalPath = "norm"
  Sessions = {s1, s2, s3}
  Expected <- MCExpected
  UsesCache = {s2}
  ChunkRows = 8
  NoModule = nomodule
  Planners = {p1, p2}
  Workers = {w1, w2}
  Aggregators = {a1}
  Shards <- MCShards
  WeightMap <- MCWeightMap
  OfficialHeads <- MCOfficialHeads
  Multiplier <- MCMultiplier
  Terms <- MCTerms
  Sums <- MCSums
  MaxWorkers = 2
  AuditRows = 5
  Starts <- MCStarts
  EditData <- MCEditData
  MaxEdits = 1
  Casts <- MCCasts
SPECIFICATION LoraSpec
SYMMETRY MCSymmetry
\* the commands end
CHECK_DEADLOCK FALSE
INVARIANTS PublishedIsNormalized ReportIsWholeFold PassCoversPlan ReceiptComparesThePlan
