CONSTANTS
  Data = {"hello", "bye"}
  Bodies = {"news"}
  MaxArrivals = 2
  MaxPushes = 2
SPECIFICATION ConnSpec
INVARIANTS NoStrandedMessage InOrder
PROPERTIES NoCallAfterClose OneWriteInFlight QueueDrains ClosingEnds LoopEnds
CHECK_DEADLOCK FALSE
