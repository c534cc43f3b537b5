CONSTANTS
  s1 = s1  s2 = s2  poller = poller
  Slots <- AllSlots
  Serves <- AbortServes
  Platforms = {"android", "web"}
  Codes = {"success", "failed", "cancelled", "pending"}
  MaxAge = 1
  Deduct = TRUE
  MaxSessions = 2
  OtherCodes = {}
  MaxCrashes = 0
SPECIFICATION Spec
PROPERTY SuccessIsHeard
CHECK_DEADLOCK FALSE
