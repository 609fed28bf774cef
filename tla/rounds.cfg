\* The rounds: three proposals over two days (the others: as MCRounds gives them).
CONSTANTS
  a1 = a1
  a2 = a2
  a3 = a3
  Prop = {a1, a2, a3}
  PerDay = 1
  Tries = 2
  Settings <- MCSettings
  MaxDay = 2
  MaxDeaths = 1
SPECIFICATION RoundsSpec
INVARIANTS
  DayKeepsItsNumber
  
  DecisionStands
SYMMETRY MCSymmetry
CHECK_DEADLOCK FALSE
