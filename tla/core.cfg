\* Everything that may fail fails: stores, services, locks and heartbeats.
CONSTANTS
  Tools = {"fetch_url", "read_file", "write_file", "run_program"}
  Rules <- MCRules
  DefaultEffect = "allow"
  Sources = {"fetch_url", "read_file"}
  Effects = {"write_file", "run_program"}
  PrivateSources = {"read_file"}
  Egress = {"fetch_url"}
  OnEffect = "require_approval"
  Available = {"fetch_url", "read_file", "write_file"}
  api1 = api1
  api2 = api2
  telegram = telegram
  Runs = {"r"}
  Services = {api1, api2, telegram}
  KindOf <- MCKindOf
  Slots = 1
  MaxCalls = 3
  StoreErrors = TRUE
  MayStall = TRUE
  QuickRestart = TRUE
  MaxFaults = 2
SPECIFICATION Spec
INVARIANTS
  TypeOK
  OnlyApproved
  NeverSteered
CHECK_DEADLOCK FALSE
