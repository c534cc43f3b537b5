\* Two webhooks, one at a time with the consumer, while the order is created,
\* cancelled, the connection lost and the server restarted.
CONSTANTS
  e1 = e1  e2 = e2
  Events <- MCEvents
  Reports = {"PICKED_UP"}
  Replies = {"DRIVER_ASSIGNED", "FAILED"}
  Prefetch = 1
  Attempts = 2
  MaxCrashes = 1
SPECIFICATION DeliverySpec
CHECK_DEADLOCK FALSE
INVARIANTS DeliveryTypeOK NothingDropped OutcomeIsTrue
PROPERTY MessagesSettle
