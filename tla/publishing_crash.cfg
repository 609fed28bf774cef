\* The dashboard may stop between a decision and the queueing of its job.
CONSTANTS
  original = original
  translation = translation
  d1 = d1
  d2 = d2
  w1 = w1
  w2 = w2
  Articles = {translation}
  OriginalOf <- MCNoTranslations
  Repositories = {}
  Pubs = {1}
  Directors = {d1}
  Workers = {w1}
  LastVersion <- MCOneVersion
  MaxWaiting = 1
  MaxTries = 2
  DecisionsRace = FALSE
  ChangesOverlap = FALSE
  DashboardDies = TRUE
  MaxFaults = 1
SPECIFICATION FairSpec
PROPERTY ApprovedIsSent
CHECK_DEADLOCK FALSE
