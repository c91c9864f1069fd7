CONSTANTS
  Data <- ProgramData
  Names = {"src1", "src2"}
  Bodies <- AllBodies
  Sources <- TwoSources
  Channels <- StereoFiles
  MaxChunks = 2
  ProductChunks = 2
  MaxRounds = 1
  Unsolicited = 0
  Closes = 1
  MaxArrivals = 3
  MaxPushes = 8
SPECIFICATION ProgSpec
INVARIANTS SendsFinishedAudio
CHECK_DEADLOCK FALSE
