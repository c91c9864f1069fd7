CONSTANTS
  Data <- ProgramData
  Names = {"src1", "src2"}
  Bodies <- AllBodies
  Sources <- TwoSources
  Channels <- MixedFiles
  MaxChunks = 1
  ProductChunks = 1
  MaxRounds = 2
  Unsolicited = 0
  Closes = 0
  MaxArrivals = 2
  MaxPushes = 8
SPECIFICATION ProgSpec
PROPERTIES Completes
CHECK_DEADLOCK FALSE
