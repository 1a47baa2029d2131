SPECIFICATION FairSpec
CONSTANTS
  Shapes <- MCShapes
  Streams <- MCStreams
  GraphSizes <- MCGraphSizes
  SynthShapes <- MCSynthShapes
  UpdateSizes <- MCUpdateSizes
  PostConfigs <- MCPostConfigs
  MaxReplicas = 4
  PostCpus = {1, 2}
  LeafIndexes = {0, 1, 2, 3, 4, 5}
  SynthCount = 6
  BaseDegree = 6
  ExpDegree = 8
  TotalParents = 37
  U32 = 64
  ChunkNodes = 3
  Units = 8
  Requests <- MCRequests
  ElementBits = 16
  WriteChunk = 16
  BufferBytes = 8
  PorepConfigs <- MCPorepConfigs
  SealInfos <- MCSealInfos
  UpdateInfos <- MCUpdateInfos
  MaxSectors = 3
  NiMin = 1
  NiMax = 2
  SrsMax = 4
  Calls = {c1, c2}
  Operations <- MCOperations
  Workers = 3
  TreeCount = 2
  NodesCount = 4
  ColumnBatch = 3
  TreeBatch = 2
  WriteBatch = 3
  MaxFaults = 1
INVARIANTS ProvesLeaf ChallengesRight GraphRight PoRepSound PostVerifies PiecesRight AggregatesRight TreesRight
PROPERTY CallsEnd
