CONSTANTS
  s1 = s1  s2 = s2  poller = poller
  Slots <- GatewaySlots
  Serves <- GatewayServes
  Platforms = {"android", "web"}
  Codes = {"success", "failed"}
  MaxAge = 2
  Deduct = TRUE
  MaxSessions = 1
  OtherCodes = {"success"}
  MaxCrashes = 1
SPECIFICATION LiveSpec
INVARIANT VoidIsComplete
PROPERTIES VerdictStands PlacedOrVoided Settles
CHECK_DEADLOCK FALSE
