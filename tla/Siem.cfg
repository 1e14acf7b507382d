SPECIFICATION FairSpec
CONSTANTS
  Runs = {r1, r2}
  OutboxLimit = 1
  MaxAttempts = 2
  UrlAtStart = TRUE
  Reconfigured = TRUE
  MaxEvents = 2
  MaxRestores = 1
  Idle = Idle
  NoTxn = NoTxn
INVARIANT DeliveredIsReceived
PROPERTIES NeverTwiceInOneRun QueuedIsSettled
CHECK_DEADLOCK FALSE
VIEW withoutSends
