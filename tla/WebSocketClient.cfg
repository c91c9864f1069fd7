CONSTANTS
  Data = {"hello"}
  Names = {"a", "b"}
  Bodies <- MixedBodies
  MaxArrivals = 2
  MaxPushes = 1
SPECIFICATION Spec
INVARIANTS TypeOK NoLostWakeup HdlPublished NoHandlerAfterDestroy
PROPERTIES ImplementsLatch WaitIsReleased StopReturns DestroyReturns
CHECK_DEADLOCK FALSE
