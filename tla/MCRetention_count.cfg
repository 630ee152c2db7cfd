SPECIFICATION RetentionSpec
CONSTANTS
  d1 = d1
  NoDialog = NoDialog
  Dialogs <- OneDialog
  TopKnown <- OneDialog
  GonePeers <- None
  Kinds <- Addressed
  MailKinds <- ReplyOrOff
  MaxMsgs = 1
  MaxInbox = 2
  MaxFaults = 0
  MaxMails = 20
  FetchLimit = 9
  BootstrapMode = "history"
  RetentionAge = 9
  EchoAge = 9
  MaxLedger = 2
  MaxConsumed = 1
  MaxEcho = 2
  MaxClock = 1
PROPERTY
  ConsumedStaysConsumed
