CONSTANTS
  s1 = s1  s2 = s2  poller = poller
  Slots <- AllSlots
  Serves <- AllServes
  Platforms = {"android", "web"}
  Codes = {"success"}
  MaxAge = 1
  Deduct = TRUE
  MaxSessions = 2
  OtherCodes = {"success"}
  MaxCrashes = 0
SPECIFICATION Spec
CONSTRAINT FewRuns
INVARIANTS TypeOK PaidIsCaptured WalletBackIfCancelled
CHECK_DEADLOCK FALSE
