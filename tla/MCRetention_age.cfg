SPECIFICATION RetentionSpec
CONSTANTS
  d1 = d1
  NoDialog = NoDialog
  Dialogs <- OneDialog
  TopKnown <- OneDialog
  GonePeers <- None
  Kinds <- Addressed
  MailKinds <- ReplyOrOff
  MaxMsgs = 1
  MaxInbox = 2
  MaxFaults = 1
  MaxMails = 20
  FetchLimit = 9
  BootstrapMode = "history"
  RetentionAge = 2
  EchoAge = 1
  MaxLedger = 1
  MaxConsumed = 2
  MaxEcho = 2
  MaxClock = 3
INVARIANTS
  RetentionTypeOK
  PurgeRevivesNothing
  EchoWindow
PROPERTIES
  ConsumedStaysConsumed
  AnswersKeptForEver
