CONSTANTS
  SymBits = 4
  CodeBits = 16
  WindowSize = 16
  FineLags = 2
  Storage = 64
  Seed <- MCSeed
  TableTotal = 255
  Order = 2
  Grids = 2
  SubfrSamples = 3
  MaxPulses = 3
  RunStep = 2
  Gains = 3
  Shapes = 2
  GainFloor <- MCGainFloor
  OffsetWindow = 3
  SignBatch = 3
  AcbN = 3
  FcbN = 3
  NumBlocks = 4
  Blocksize = 2
  NumSubframes = 4
  Blocksegs <- MCBlocksegs
  Blocksegs2idx <- MCBlocksegs2idx
  Unvoiced <- MCUnvoiced
  Voiced <- MCVoiced
  Pauses <- MCPauses
  Redundancies = {0, 1}
  MaxFrames = 2
  SeqSpace = 64
  RocMod = 4
  TsMod = 64
  Noise = Noise
  TagLen = 4
  SrtcpTagLen = 10
  IndexTop = 64
  Ssrc <- MCSsrc
  PeerSsrc = 77
  Payloads <- MCPayloads
  Reports <- MCReports
  MaxPosts = 3
  AccessUnits <- MCAccessUnits
  Aggregates <- MCAggregates
  Emojis <- MCEmojis
  MtuPayload = 9
  MaxReassembly = 64
  Copies = 2
  TimestampStep = 1
  VarintBase = 2
  GcmTagLen = 4
  Caller = "a"
  PeerUser = "b"
  Devices <- MCDevices
  Offers <- MCOffers
  Latencies = {0, 40}
  MaxSignals = 5
  MaxWire = 1
  MaxRelayTokens = 2
  LatencyBase = 33554432
  FrameSamples = 4
  SampleRate = 2
  ReadBuffer = 4
  WriteBuffer = 6
  WordTop = 8
  Recordings <- MCRecordings
  PeerFrames <- MCPeerFrames
  MaxOpens = 2
  MaxRecords = 3
SPECIFICATION FormatsSpec
INVARIANTS FramesDecodeAsSent SearchFollowsWire ReadAsMeant HandledAsMeant EndsAgree FramesFollowFile
CHECK_DEADLOCK FALSE
