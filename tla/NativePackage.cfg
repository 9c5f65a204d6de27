SPECIFICATION Spec
CONSTANTS
  Components = {c1, c2}
  Dirs = {d1, d2}
  Names = {n1, n2}
  Delivered = {n1}
  Contents = {x1, x2}
  Tools = {t1, t2}
  Mats = {m1, m2}
  Reusing = {m1}
  Local = {d1}
  Pubs = {p1, p2}
  Readers = {v1}
  MaxChanges = 1
  Private = private
  NoFile = nofile
  NoReceipt = noreceipt
  NoMat = nomat
SYMMETRY MCSymmetry
INVARIANT TypeOK
INVARIANT NoPartialPackage
INVARIANT AcceptedIsPlanned
PROPERTY PublishesThePlan
PROPERTY PublishesAtomically
\* calls and changes are bounded
CHECK_DEADLOCK FALSE
