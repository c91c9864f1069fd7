CONSTANTS
  Data = {"hello"}
  Bodies = {"news"}
  MaxArrivals = 0
  MaxPushes = 1
SPECIFICATION ConnSpec
INVARIANTS OpenOrFail
CHECK_DEADLOCK FALSE
