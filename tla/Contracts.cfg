CONSTANTS
  Templates <- MCTemplates
  Known <- MCKnown
  DefaultSize = 2
  TensorOrder <- MCTensorOrder
  QkvPrefixes <- MCQkvPrefixes
  Layout <- MCLayout
  MaxRows = 2
  ShardLimit = 40
  n1 = n1
  n2 = n2
  k1 = k1
  k2 = k2
  k3 = k3
  Normalizers = {n1, n2}
  Paths <- MCPaths
  Raw = "raw"
  Destination = "dst"
  Receipt = "rcp"
  PinnedSource = "R"
  Derived = "T"
  ReceiptData = "receipt"
  NoData = "none"
  MaxFaults = 1
  Content <- MCContent
  ScanInputs <- MCScanInputs
  Starts <- MCStarts
  EditData <- MCEditData
  MaxEdits = 1
  Pinners = {k1, k2, k3}
  Names = {"mine"}
  Exporters = {"e1"}
  Casts <- MCCasts
SPECIFICATION StoreSpec
SYMMETRY MCSymmetry
\* the commands end
CHECK_DEADLOCK FALSE
INVARIANTS SnapshotDescribesSource ReturnedPinLoads ExportedIsAuthorized ReceiptMarksWhole
