\* A newsroom on PostgreSQL: an update and a withdrawal at the same time; every
\* answer arrives.
CONSTANTS
  original = original
  translation = translation
  d1 = d1
  d2 = d2
  w1 = w1
  w2 = w2
  Articles = {translation}
  OriginalOf <- MCNoTranslations
  Repositories = {}
  Pubs = {1}
  Directors = {d1}
  Workers = {w1, w2}
  LastVersion <- MCOneVersion
  MaxWaiting = 2
  MaxTries = 2
  DecisionsRace = FALSE
  ChangesOverlap = TRUE
  DashboardDies = FALSE
  MaxFaults = 0
SPECIFICATION Spec
INVARIANT WithdrawnIsOffline
CHECK_DEADLOCK FALSE
