CONSTANTS
  Proxies = {"none", "valid", "invalid"}
  Responses = {"partial", "malformed", "rejected", "accepted"}
  Requests = {"malformed", "partial", "websocket", "http"}
  HttpHandlers = {"absent", "answers", "defers", "ends"}
  MaxAccepts = 2
  Callers = {t1, t2}
  MaxPosted = 1
  MaxReads = 2
  MaxPings = 2
  Utf8Bytes = {65, 127, 128, 143, 144, 159, 160, 191, 193, 194, 223, 224, 225, 237, 239, 240, 241, 244, 245}
  MaxUtf8 = 4
  PayloadSizes = {0, 1, 125, 126, 255, 256, 65535, 65536, 16777216, 2147483647}
  MaskedLength = 9
  Raw <- MCRaw
  Outgoing <- MCOutgoing
  MaxFrames = 3
  PieceSizes = {5}
  Basic = 2
  Extended = 3
  WordSize = 8
  m_max_message_size = 4
  StreamLength = 3
  MaxLen = 2
  MaxAsked = 2
  MaxWrites = 2
  Outputs = {"ostream", "vector", "handler", "none"}
  WindowBits = {8, 12}
  Modes = {"accept", "decline", "largest", "smallest"}
  MaxCalls = 2
  Subprotocols = {"chat"}
  StrangerRequests <- MCRequests
  StrangerResponses <- MCResponses
  HttpStreams <- MCStreams
  HttpPieces = {1, 2, 3, 5, 11, 14}
  max_header_size = 40
  m_body_bytes_max = 4
  istream_buffer = 6
  Tokens = {"a", "b"}
  QuotedTexts <- MCQuoted
  MaxText = 7
  MaxUri = 5
  Bytes64 = {0, 97, 251, 255}
  MaxBytes64 = 5
  Challenges <- MCChallenges
  Noise = 120
  Key3Bytes = 1
  PeerBytes = {0, 97, 255}
  Payloads00 <- MCPayloads
  MaxKey = 4
  MaxStream = 6
  MaxSent = 2
  CloseWith <- MCClose
  StrangePayloads <- MCStrange
  close_reason_size = 2
  MaxMessages = 1
  m_chunkSize = 4
  IntMax = 15
  FileLengths = {0, 1, 3, 4, 5, 12, 13, 16, 33}
  ControlBins <- MCBins
  Strengths = {0, 7, 10}
  MaxFiles = 2
SPECIFICATION PartsSpec
INVARIANTS OneVerdict AcceptLoopLives DeletesItsOwn
  Utf8Exact CodecExact DeliversFrames PreparedIsAccepted WithinLimits
  BytesInOrder WindowsFit SplitIndependent ReadsBack Exchanges00 ClosesAgree
  StoresPeaks
PROPERTIES AttemptEnds ReportsOnlyExpired
CHECK_DEADLOCK FALSE
