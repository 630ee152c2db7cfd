SPECIFICATION MailboxSpec
CONSTANTS
  d1 = d1
  d2 = d2
  NoDialog = NoDialog
  Dialogs <- TwoDialogs
  GonePeers <- OneGone
  Kinds <- Addressed
  MailKinds <- AllKinds
  MaxMsgs = 1
  MaxInbox = 2
  MaxFaults = 1
  MaxMails = 20
INVARIANTS
  MailboxTypeOK
  ConsumedMeansPosted
  PostsNeedFaults
  LastCommandRules
  ConfirmationsTrue
  OnlyTrustedMailActs
  SessionNoticesNeedFaults
PROPERTIES
  ImplementsAnswers
