SPECIFICATION NotificationSpec
CONSTANTS
  ann = ann bob = bob phone = phone tablet = tablet w1 = w1 w2 = w2
  Request = {1, 2, 3, 4}
  Reader = {ann, bob}
  Hook = {1, 2}
  Mon = 3
  Loose = {4, 5}
  Worker = {w1, w2}
  Period = 1
  Scenarios <- MCScenarios
  Desk = ann
  PageSize = 2
  Endpoint = {phone, tablet}
  MaxPublished = 1
  MaxAttempts = 3
INVARIANTS   RetriesJustified ReceiptsAreTrue
PROPERTIES StateAdvances ReadAllReadsAll  SubscriptionIsTheOwners SilenceIsReported
CHECK_DEADLOCK FALSE
