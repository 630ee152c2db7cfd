SPECIFICATION BridgeLiveSpec
CONSTANTS
  d1 = d1
  NoDialog = NoDialog
  Dialogs <- OneDialog
  TopKnown <- OneDialog
  GonePeers <- None
  Kinds <- AddressedOnly
  MailKinds <- Ordinary
  MaxMsgs = 1
  MaxInbox = 2
  MaxFaults = 1
  MaxMails = 20
  FetchLimit = 9
  BootstrapMode = "history"
PROPERTIES
  EventuallyDelivered
  RepliesEventuallyPosted
  CommandsEventuallyApplied
  NoticesEventuallySent
