\* A service restarts before its death is noticed.
CONSTANTS
  Tools = {"write_file"}
  Rules <- MCAskRules
  DefaultEffect = "allow"
  Sources = {}
  Effects = {"write_file"}
  PrivateSources = {}
  Egress = {}
  OnEffect = "require_approval"
  Available = {}
  api1 = api1
  api2 = api2
  telegram = telegram
  Runs = {"r"}
  Services = {api1}
  KindOf <- MCKindOf
  Slots = 1
  MaxCalls = 1
  StoreErrors = FALSE
  MayStall = FALSE
  QuickRestart = TRUE
  MaxFaults = 1
SPECIFICATION FairSpec
PROPERTY EveryRunEnds
CHECK_DEADLOCK FALSE
