SPECIFICATION InboundLiveSpec
CONSTANTS
  d1 = d1
  d2 = d2
  NoDialog = NoDialog
  Dialogs <- TwoDialogs
  TopKnown <- OneDialog
  Kinds <- Addressed
  MaxMsgs = 2
  MaxFaults = 2
  MaxMails = 20
  FetchLimit = 2
  BootstrapMode = "history"
INVARIANTS
  InboundTypeOK
  NoMessageSkipped
  LedgerChronological
  CopiesNeedFaults
  QuietWhileInvalid
PROPERTIES
  EventuallyDelivered
  ImplementsDelivery
