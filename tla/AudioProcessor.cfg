CONSTANTS
  Data <- ProgramData
  Names = {"src1", "src2"}
  Bodies <- AllBodies
  Sources <- TwoSources
  Channels <- StereoFiles
  MaxChunks = 1
  ProductChunks = 2
  MaxRounds = 2
  Unsolicited = 0
  Closes = 1
  MaxArrivals = 3
  MaxPushes = 8
SPECIFICATION ProgSpec
INVARIANTS ProgTypeOK AnswersInStep Provenance NoFalseAnnouncement
PROPERTIES SpeaksProtocol
CHECK_DEADLOCK FALSE
