\* The same instance: notices, refusals and one crash against the webhook's comment.
CONSTANTS
  a1 = a1
  a2 = a2
  b1 = b1
  b2 = b2
  c1 = c1
  c2 = c2
  other = other
  Worker = {a1, a2}
  Draft = {other}
  Payment = {other}
  PlanRow <- MCPlans
  PriceList <- MCPrices
  Pack = 2
  FreeRedraws = 0
  MaxChanges = 2
  MaxDrafts = 2
  MaxCovers = 2
  MaxExtra = 2
  Pay = {a1, a2}
  GwSub = {b1, b2}
  Handler = {other}
  Trial = 1
  Period = 1
  Grace = 1
  Remind = 1
  PropOnly = 1
  NoticesOverlap = FALSE
  MaxDay = 2
  MaxMishaps = 1
  Ref = {a1, a2}
  Who = {other}
  Id = {b1, b2}
  Caller = {c1, c2}
  MaxUpsets = 2
  User = {a1, a2}
  Room = {other}
  Link = {b1, b2}
  Page = {c1, c2}
  CountsOverlap = FALSE
  Roles <- MCRoles
  MaxByHand = 1
  core = core
  None = None
  Requests = {a1, a2, b1, b2, other}
  Processes = {core}
  Kinds <- MCKinds
  ProcessOf <- MCProcessOf
  Limits <- MCLimits
  CallTokens = 2
  LastPeriod = 2
  MaxDeaths = 1
SPECIFICATION MCSpec
INVARIANT PaidIsHonoured
SYMMETRY MCSymmetry
CHECK_DEADLOCK FALSE
