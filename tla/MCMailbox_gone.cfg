SPECIFICATION MailboxLiveSpec
CONSTANTS
  d1 = d1
  d2 = d2
  NoDialog = NoDialog
  Dialogs <- TwoDialogs
  GonePeers <- OneGone
  Kinds <- Addressed
  MailKinds <- RepliesOnly
  MaxMsgs = 1
  MaxInbox = 2
  MaxFaults = 0
  MaxMails = 20
PROPERTY
  PeerIsolated
