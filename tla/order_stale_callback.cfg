CONSTANTS
  s1 = s1  s2 = s2  poller = poller
  Slots <- AllSlots
  Serves <- CallbackServes
  Platforms = {"android", "web"}
  Codes = {"success", "failed"}
  MaxAge = 1
  Deduct = TRUE
  MaxSessions = 2
  OtherCodes = {}
  MaxCrashes = 0
SPECIFICATION Spec
PROPERTY PaidStaysPaid
CHECK_DEADLOCK FALSE
