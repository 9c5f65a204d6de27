\* ExportCleanup
SPECIFICATION Spec
CONSTANTS
  r1 = r1
  r2 = r2
  a1 = a1
  a2 = a2
  Runs = {r1}
  Sources = {s1}
  Artifacts = {a1, a2}
  Contents = {good, bad}
  Good = good
  Parents = {home, away}
  Home = home
  MaxWrites = 0
  MaxForeign = 1
  Foreign = foreign
  NoDir = nodir
  NoFile = nofile
  NoData = nodata
  NoPin = nopin
\* every run ends; sources and foreign steps are bounded
CHECK_DEADLOCK FALSE
PROPERTY NeverRemovesForeign
