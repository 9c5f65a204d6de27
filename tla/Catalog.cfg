SPECIFICATION CatalogSpec
CONSTANTS
  q1 = q1
  q2 = q2
  q3 = q3
  Reqs = {q1, q2, q3}
  Roots <- MCRoots
  Zone <- MCZone
  Name <- MCName
  Files <- MCFiles
  ChangingFiles <- MCChangingFiles
  ChangingRoots = {"official"}
  Audio = {"audio"}
  Schedules = {"turbo_4step"}
  NoReq = noreq
  MaxEdits = 2
SYMMETRY MCSymmetry
INVARIANT CatalogTypeOK
INVARIANT AnswersWholeScan
INVARIANT FreshAnswers
INVARIANT RetryIsServed
\* requests are bounded
CHECK_DEADLOCK FALSE
