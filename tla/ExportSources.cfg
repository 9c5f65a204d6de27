SPECIFICATION Spec
CONSTANTS
  r1 = r1
  r2 = r2
  a1 = a1
  a2 = a2
  Runs = {r1, r2}
  Sources = {s1, s2}
  Artifacts = {a1}
  Contents = {good, bad}
  Good = good
  Parents = {home}
  Home = home
  MaxWrites = 2
  MaxForeign = 0
  Foreign = foreign
  NoDir = nodir
  NoFile = nofile
  NoData = nodata
  NoPin = nopin
INVARIANT TypeOK
INVARIANT SourceBinding
PROPERTY PublishesAtomically
\* every run ends; sources and foreign steps are bounded
CHECK_DEADLOCK FALSE
