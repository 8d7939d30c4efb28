SPECIFICATION MCSpec
CONSTANTS
  t1 = t1
  t2 = t2
  j1 = j1
  j2 = j2
  Users = {1, 2}
  Acted <- Momentums
  MaxHeight = 2
  RangeFlags <- Ranges
  Terms = {t1, t2}
  NoTerms = none
  Journals = {j1, j2}
  AtOnce = 2
  MaxRuns = 3
  MaxMishaps = 1
SYMMETRY Symmetry
INVARIANTS CampaignInv PaidOncePerKey ClosedRangeResumes ReplayResumes SuccessCoversList WarnsBeforeRepeat NoFalseAlarm LogTellsWhatWasSent
PROPERTY ReplayTakesLoggedList
CHECK_DEADLOCK FALSE
