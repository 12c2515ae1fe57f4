SPECIFICATION QueueFairSpec
CONSTANTS
  Requests = {r1, r2, r3, r4}
  MaxInFlight = 2
  MaxWaiting = 1
INVARIANTS CountersMatchRequests
PROPERTIES ImplementsSemaphore AcquireReturns
