SPECIFICATION AlgorithmsSpec
CONSTANTS
  user = user
  forum = forum
  news = news
  family = family
  topic = topic
  Peers <- FourPeers
  PeerType <- TypeOfPeer
  Named <- NamedPeers
  Topics <- OneTopic
  NoTopic = NoTopic
  MaxListed = 2
  Size <- MCSize
  MediaOf <- MCMediaOf
  IsImage <- MCIsImage
  AboveThreshold <- MCAboveThreshold
  Batches <- MCBatches
  SizeLimit = 7
  Tags <- MCTags
  QuoteTags <- MCQuoteTags
  VoidTags <- MCVoidTags
  BlockTags <- MCBlockTags
  Words <- MCWords
  LineBreak = LineBreak
  IsTail <- MCIsTail
  MaxDepth = 5
  MaxPieces = 9
  TextLen = 3
  SpanKinds <- TwoKinds
  MaxSpans = 3
INVARIANTS
  GateFollowsTable
  UnderstoodDelivered
  ComposedRight
  OwnTextKept
  RenderedRight
CHECK_DEADLOCK FALSE
