----------------------------- MODULE MCMailbox ------------------------------
(* Model checking of Mailbox: small sets of dialogs and of kinds of mail.  *)
EXTENDS Mailbox, TLC

CONSTANTS d1, d2

TwoDialogs == {d1, d2}
OneDialog == {d1}
NoneGone == {}
OneGone == {d2}
Addressed == {"addressed"}
AllKinds == InboxKinds
RepliesOnly == {"text"}
Ordinary == {"text", "off", "on"}
=============================================================================
