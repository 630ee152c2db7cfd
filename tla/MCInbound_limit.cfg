SPECIFICATION InboundSpec
CONSTANTS
  d1 = d1
  d2 = d2
  NoDialog = NoDialog
  Dialogs <- OneDialog
  TopKnown <- OneDialog
  Kinds <- Addressed
  MaxMsgs = 2
  MaxFaults = 0
  MaxMails = 20
  FetchLimit = 1
  BootstrapMode = "history"
INVARIANT
  NoMessageSkipped
