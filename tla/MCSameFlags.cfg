SPECIFICATION Spec
CONSTANTS
  t1 = t1
  t2 = t2
  j1 = j1
  j2 = j2
  Users = {1, 2}
  Acted <- BothFirst
  MaxHeight = 2
  RangeFlags <- Ranges
  Terms = {t1, t2}
  NoTerms = none
  Journals = {j1, j2}
  AtOnce = 1
  MaxRuns = 2
  MaxMishaps = 0
INVARIANT SameFlagsResume
CHECK_DEADLOCK FALSE
