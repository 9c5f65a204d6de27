SPECIFICATION LayoutSpec
CONSTANTS
  k1 = k1
  k2 = k2
  Prepares = {p1, p2, p3}
  Clears = {c1}
  Packages = {k1, k2}
  Names = {"model_index.json", "transformer"}
  NoOne = noone
  NoPackage = nopackage
  Overlapping = FALSE
  MaxFaults = 3
SYMMETRY MCSymmetry
INVARIANT ReturnedIsWhole
PROPERTY RefusedLeavesStuck
\* calls are bounded
CHECK_DEADLOCK FALSE
