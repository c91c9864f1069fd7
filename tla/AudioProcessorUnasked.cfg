CONSTANTS
  Data <- ProgramData
  Names = {"src1", "src2"}
  Bodies <- AllBodies
  Sources <- TwoSources
  Channels <- StereoFiles
  MaxChunks = 1
  ProductChunks = 1
  MaxRounds = 2
  Unsolicited = 1
  Closes = 0
  MaxArrivals = 3
  MaxPushes = 8
SPECIFICATION ProgSpec
INVARIANTS OneProduct NotifyDoesNotBlock
CHECK_DEADLOCK FALSE
