\* Publishing: an article and its translation, sent by two workers.
CONSTANTS
  original = original
  translation = translation
  d1 = d1
  d2 = d2
  w1 = w1
  w2 = w2
  Articles = {original, translation}
  OriginalOf <- MCOriginalOf
  Repositories = {original}
  Pubs = {1, 2}
  Directors = {d1}
  Workers = {w1, w2}
  LastVersion <- MCLastVersion
  MaxWaiting = 1
  MaxTries = 2
  DecisionsRace = FALSE
  ChangesOverlap = FALSE
  DashboardDies = TRUE
  MaxFaults = 1
  topic = topic
SPECIFICATION DeskSpec
INVARIANTS
  DeskTypeOK
  NotRepeated
  OnlineIsApproved
  PublishedIsOnline
  PassedGoesOut
  NothingWaits
  OwnersWordStands
  
  NotProposedAgain
  EvidenceStands
SYMMETRY MCSymmetry
CHECK_DEADLOCK FALSE
