\* Services crash; the store answers, and live instances are seen alive.
CONSTANTS
  Tools = {"write_file"}
  Rules <- MCAskRules
  DefaultEffect = "allow"
  Sources = {}
  Effects = {"write_file"}
  PrivateSources = {}
  Egress = {}
  OnEffect = "require_approval"
  Available = {}
  api1 = api1
  api2 = api2
  telegram = telegram
  Runs = {"r", "q"}
  Services = {api1, api2}
  KindOf <- MCKindOf
  Slots = 1
  MaxCalls = 1
  StoreErrors = FALSE
  MayStall = FALSE
  QuickRestart = FALSE
  MaxFaults = 2
SPECIFICATION FairSpec
INVARIANTS
  PendingIsShown
PROPERTIES
  ApprovalIsUsed
  EndIsFinal
  EveryRunEnds
CHECK_DEADLOCK FALSE
