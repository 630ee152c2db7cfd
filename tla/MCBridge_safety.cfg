SPECIFICATION BridgeSpec
CONSTANTS
  d1 = d1
  NoDialog = NoDialog
  Dialogs <- OneDialog
  TopKnown <- OneDialog
  GonePeers <- None
  Kinds <- Addressed
  MailKinds <- ReplyOrOff
  MaxMsgs = 3
  MaxInbox = 2
  MaxFaults = 1
  MaxMails = 4
  FetchLimit = 9
  BootstrapMode = "tail"
INVARIANTS
  BridgeTypeOK
  OwnPostsNotMailed
PROPERTIES
  NothingCrossesClosedGate
  ImplementsDelivery
