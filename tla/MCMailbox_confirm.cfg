SPECIFICATION MailboxSpec
CONSTANTS
  d1 = d1
  d2 = d2
  NoDialog = NoDialog
  Dialogs <- OneDialog
  GonePeers <- NoneGone
  Kinds <- Addressed
  MailKinds <- Ordinary
  MaxMsgs = 1
  MaxInbox = 2
  MaxFaults = 1
  MaxMails = 20
INVARIANT
  ConfirmationOwed
