------------------------------ MODULE Mailbox ------------------------------
(***************************************************************************)
(* Mail -> Telegram: run_mailbox_cycle.  Each cycle reads all of B's INBOX *)
(* (poll: SEARCH ALL on a read-only mailbox that is never emptied), goes   *)
(* through the mails in UID order, applies the commands, posts the         *)
(* replies, then sends the confirmations that wait (flush_notices) and,    *)
(* while the session is invalid, its notice.                               *)
(*                                                                         *)
(* Of the inbound cycle the standalone specification, the process started  *)
(* as "once --kind mailbox", has a whole delivery as one step              *)
(* (InboundDelivers); module Bridge has the cycle itself in its place.     *)
(***************************************************************************)
EXTENDS Service

CONSTANTS
  MaxInbox,               \* bound: mails in B's INBOX
  MailKinds,              \* the kinds of mail that arrive, see InboxKinds
  GonePeers               \* dialogs that Telegram no longer finds by now

(***************************************************************************)
(* What the classifier, parse_command and extract_reply_text make of a     *)
(* mail: a reply with a text; one with nothing above the quoted tail; a    *)
(* command with the right token; a command line with a wrong token or      *)
(* none, of which parse_command returns None; a mail not from U to B, or   *)
(* an automatic one.                                                       *)
(***************************************************************************)
InboxKinds == {"text", "empty", "on", "off", "wrongToken", "untrusted"}

ASSUME MailboxAssumption ==
  /\ MaxInbox \in Nat
  /\ MailKinds \subseteq InboxKinds
  /\ GonePeers \subseteq Dialogs

VARIABLES
  inbox,                  \* B's INBOX: sequence of [kind, parent]
  posts,                  \* history: set of [ref, dialog, id] posted as U
  pos,                    \* the mail in hand
  end,                    \* the last mail the poll saw
  posted,                 \* the id Telegram gave the post
  toFlush                 \* the notices flush_notices has still to send

mailLocals == <<pos, end, posted, toFlush>>
mailVars == <<inbox, posts>>
mailboxVars == <<serviceVars, mailVars, mailLocals>>

MailTypeOK ==
  /\ inbox \in Seq([kind : InboxKinds, parent : Nat])
  /\ posts \subseteq [ref : Nat, dialog : Dialogs, id : Nat]
  /\ pos \in Nat
  /\ end \in Nat
  /\ posted \in Nat
  /\ toFlush \subseteq [ref : Nat, on : BOOLEAN]

MailLocalsInit ==
  /\ pos = 0
  /\ end = 0
  /\ posted = 0
  /\ toFlush = {}

MailInit ==
  /\ inbox = << >>
  /\ posts = {}
  /\ MailLocalsInit

ForgetMailLocals ==
  /\ pos' = 0
  /\ end' = 0
  /\ posted' = 0
  /\ toFlush' = {}

---------------------------------------------------------------------------
(* What the cycle makes of mail r.                                         *)

Kind(r) == inbox[r].kind
Parent(r) == inbox[r].parent

Trusted(r) == Kind(r) # "untrusted"
IsCommand(r) == Kind(r) \in {"on", "off"}
HasBody(r) == Kind(r) # "empty"

(* Mutated: the dialog of any row. *)
LedgerDialogOfAny(mid) ==
  (CHOOSE row \in ledger : mid \in LedgerIds).dialog

(* ledger_dialog, where the parent has a row. *)
LedgerDialog(mid) == (CHOOSE row \in ledger : row.mid = mid).dialog

IsReply(r) == Trusted(r) /\ ~IsCommand(r) /\ Parent(r) \in LedgerIds

(* Mutated: whatever the command answers; applied again at each poll. *)
AppliesAnyParent(r) == r \notin consumed /\ Trusted(r) /\ IsCommand(r)
AppliesAgain(r) == Trusted(r) /\ IsCommand(r) /\ IsBridgeMessage(Parent(r))

Applies(r) == /\ r \notin consumed
              /\ Trusted(r)
              /\ IsCommand(r)
              /\ IsBridgeMessage(Parent(r))

Posts(r) == /\ r \notin consumed
            /\ IsReply(r)
            /\ DeliveryAllowed
            /\ HasBody(r)
            /\ Due(PostScope(LedgerDialog(Parent(r))))

Target == LedgerDialog(Parent(pos))

---------------------------------------------------------------------------

StartMailbox ==
  /\ Goto("idle", "poll")
  /\ Due(PollScope)
  /\ UNCHANGED <<storeVars, worldVars, ret, mailVars, mailLocals>>

(* Mutated: the newest mail is not read. *)
PollMissesLast ==
  /\ Goto("poll", "mail")
  /\ pos' = 1
  /\ end' = Len(inbox) - 1
  /\ ClearBackoff(PollScope)
  /\ UNCHANGED <<tableVars, worldVars, ret, mailVars, posted, toFlush>>

Poll ==
  /\ Goto("poll", "mail")
  /\ pos' = 1
  /\ end' = Len(inbox)
  /\ ClearBackoff(PollScope)
  /\ UNCHANGED <<tableVars, worldVars, ret, mailVars, posted, toFlush>>

PollFails ==
  /\ Goto("poll", "idle")
  /\ Fault
  /\ RecordFailure(PollScope)
  /\ UNCHANGED <<tableVars, outsideVars, ret, mailVars, mailLocals>>

AtMail == pc = "mail" /\ pos <= end

(* Mutated: every second mail. *)
NextMailButOne ==
  /\ pos' = pos + 2
  /\ UNCHANGED <<end, toFlush>>

NextMail ==
  /\ pos' = pos + 1
  /\ UNCHANGED <<end, toFlush>>

SkipMail ==
  /\ AtMail
  /\ ~Applies(pos)
  /\ ~Posts(pos)
  /\ NextMail
  /\ UNCHANGED <<storeVars, worldVars, pc, ret, mailVars, posted>>

(* set_bridge_enabled(command.enabled, mail.mail_ref) *)
ApplyCommand ==
  /\ AtMail
  /\ Applies(pos)
  /\ SetBridgeEnabled(Kind(pos) = "on", pos)
  /\ pc' = "queue"
  /\ UNCHANGED <<cursor, ledger, echo, valid, notified, waiting, pending,
                 sentNotice, worldVars, ret, mailVars, mailLocals>>

(* queue_notice, a commit of its own *)
QueueConfirmation ==
  /\ Goto("queue", "mail")
  /\ QueueNotice(pos, Kind(pos) = "on")
  /\ NextMail
  /\ UNCHANGED <<cursor, ledger, consumed, echo, enabled, valid, notified,
                 waiting, sentNotice, worldVars, ret, mailVars, posted>>

---------------------------------------------------------------------------
(* post_as_user and what it may answer.                                    *)

(* The post shows up in its dialog, where it is addressed like any other   *)
(* message of a DM or a whitelisted source.                                *)
Posted(d) ==
  /\ chat' = [chat EXCEPT ![d] = Append(@, "addressed")]
  /\ posts' = posts \cup {[ref |-> pos, dialog |-> d, id |-> Len(chat[d]) + 1]}

PostReply ==
  /\ AtMail
  /\ Posts(pos)
  /\ authorized
  /\ Target \notin GonePeers
  /\ Posted(Target)
  /\ posted' = Len(chat[Target]) + 1
  /\ pc' = "commitReply"
  /\ UNCHANGED <<storeVars, authorized, mailU, noticeU, minted, faults, ret,
                 inbox, pos, end, toFlush>>

CommitPost ==
  /\ Goto("commitReply", "mail")
  /\ CommitReply(pos, Target, posted)
  /\ NextMail
  /\ posted' = 0
  /\ UNCHANGED <<cursor, ledger, enabled, valid, notified, waiting, pending,
                 sentNotice, worldVars, ret, mailVars>>

(* FloodWait or Transient; Telegram may have taken the post all the same.  *)
PostFails ==
  /\ AtMail
  /\ Posts(pos)
  /\ Fault
  /\ \/ authorized /\ Target \notin GonePeers /\ Posted(Target)
     \/ UNCHANGED <<chat, posts>>
  /\ RecordFailure(PostScope(Target))
  /\ NextMail
  /\ UNCHANGED <<tableVars, authorized, mailU, noticeU, minted, pc, ret, inbox,
                 posted>>

(* PeerNotFound is not caught around the post: the process exits. *)
PostPeerNotFound ==
  /\ AtMail
  /\ Posts(pos)
  /\ Target \in GonePeers
  /\ ProcessEnds
  /\ ForgetMailLocals
  /\ UNCHANGED <<storeVars, worldVars, mailVars>>

(* Mutated: the next mail instead of the end of the loop. *)
PostSessionInvalidGoesOn ==
  /\ AtMail
  /\ Posts(pos)
  /\ ~authorized
  /\ Invalidate("mail")
  /\ NextMail
  /\ UNCHANGED <<storeVars, worldVars, mailVars, posted>>

(* SessionInvalid: the handler, and no further mail in this cycle. *)
PostSessionInvalid ==
  /\ AtMail
  /\ Posts(pos)
  /\ ~authorized
  /\ Invalidate("flush")
  /\ toFlush' = pending
  /\ UNCHANGED <<storeVars, worldVars, mailVars, pos, end, posted>>

---------------------------------------------------------------------------
(* flush_notices: the notices as they wait now, in the order of created_at, *)
(* which is that of the commands.                                          *)

StartFlush ==
  /\ Goto("mail", "flush")
  /\ pos > end
  /\ toFlush' = pending
  /\ UNCHANGED <<storeVars, worldVars, ret, mailVars, pos, end, posted>>

First == CHOOSE notice \in toFlush : \A other \in toFlush : notice.ref <= other.ref

SendConfirmation ==
  /\ Goto("flush", "flushRecord")
  /\ toFlush # {}
  /\ NoticeReachesU(First)
  /\ UNCHANGED <<storeVars, chat, authorized, mailU, faults, ret, mailVars,
                 mailLocals>>

(* Transient: the mail may have gone out; the next notice has its turn.    *)
ConfirmationFails ==
  /\ pc = "flush"
  /\ toFlush # {}
  /\ Fault
  /\ NoticeReachesU(First) \/ UNCHANGED <<noticeU, minted>>
  /\ toFlush' = toFlush \ {First}
  /\ UNCHANGED <<storeVars, chat, authorized, mailU, pc, ret, mailVars,
                 pos, end, posted>>

RecordConfirmation ==
  /\ Goto("flushRecord", "flushDelete")
  /\ RecordNoticeSent(minted)
  /\ UNCHANGED <<cursor, ledger, consumed, echo, enabled, valid, notified,
                 waiting, pending, worldVars, ret, mailVars, mailLocals>>

DeleteConfirmation ==
  /\ Goto("flushDelete", "flush")
  /\ DeleteNotice(First)
  /\ toFlush' = toFlush \ {First}
  /\ UNCHANGED <<cursor, ledger, consumed, echo, enabled, valid, notified,
                 waiting, sentNotice, worldVars, ret, mailVars, pos, end, posted>>

(* The end of the cycle, through the handler while the session is invalid. *)
EndMailbox ==
  /\ pc = "flush"
  /\ toFlush = {}
  /\ ForgetMailLocals
  /\ \/ valid /\ pc' = "idle" /\ UNCHANGED ret
     \/ ~valid /\ Invalidate("idle")
  /\ UNCHANGED <<storeVars, worldVars, mailVars>>

---------------------------------------------------------------------------
(* U writes to B: in answer to a mail of the bridge, a delivery or a       *)
(* notice, or to none (parent 0).                                          *)

InU == {m.mid : m \in mailU \cup noticeU}

MailArrives(kind, parent) ==
  /\ Len(inbox) < MaxInbox
  /\ inbox' = Append(inbox, [kind |-> kind, parent |-> parent])
  /\ UNCHANGED <<serviceVars, posts, mailLocals>>

MailWorld == \E kind \in MailKinds, parent \in InU \cup {0} :
               MailArrives(kind, parent)

---------------------------------------------------------------------------

MailboxSteps ==
  \/ Poll
  \/ SkipMail
  \/ ApplyCommand
  \/ QueueConfirmation
  \/ PostReply
  \/ CommitPost
  \/ PostPeerNotFound
  \/ PostSessionInvalid
  \/ StartFlush
  \/ SendConfirmation
  \/ RecordConfirmation
  \/ DeleteConfirmation
  \/ EndMailbox

MailboxFailures == PollFails \/ PostFails \/ ConfirmationFails

MailboxCycle == StartMailbox \/ MailboxSteps \/ MailboxFailures

(* A delivery by the inbound cycle, taken whole: one message, mailed and   *)
(* in the ledger; or mailed by an attempt that failed before its commit.   *)
InboundDelivers(d) ==
  /\ pc = "idle"
  /\ DeliveryAllowed
  /\ authorized
  /\ Len(chat[d]) < MaxMsgs
  /\ chat' = [chat EXCEPT ![d] = Append(@, "addressed")]
  /\ mailU' = mailU \cup {[mid |-> minted + 1, dialog |-> d,
                           msgs |-> {Len(chat[d]) + 1}]}
  /\ minted' = minted + 1
  /\ \/ CommitDelivery(d, {minted + 1}, Len(chat[d]) + 1) /\ UNCHANGED faults
     \/ Fault /\ UNCHANGED <<cursor, ledger>>
  /\ UNCHANGED <<consumed, echo, enabled, valid, notified, waiting, pending,
                 sentNotice, authorized, noticeU, pc, ret, mailVars, mailLocals>>

MailboxEnds ==
  /\ Crash \/ Stop
  /\ ForgetMailLocals
  /\ UNCHANGED mailVars

MailboxInit == ServiceInit /\ MailInit

MailboxNext ==
  \/ MailboxCycle
  \/ \E d \in Dialogs : InboundDelivers(d)
  \/ MailWorld
  \/ MailboxEnds
  \/ (Handler \/ Lifecycle \/ Revoke \/ TimePasses)
       /\ UNCHANGED <<mailVars, mailLocals>>

MailboxSpec == MailboxInit /\ [][MailboxNext]_mailboxVars

(* As in Inbound: the steps of the process, its restart and the end of a   *)
(* wait are owed, an outcome with a Fault is not.                          *)
MailboxFairness ==
  /\ WF_mailboxVars(\/ MailboxSteps
                    \/ Handler /\ UNCHANGED <<mailVars, mailLocals>>)
  /\ SF_mailboxVars(StartMailbox)
  /\ WF_mailboxVars(Start /\ UNCHANGED <<mailVars, mailLocals>>)
  /\ \A scope \in Scopes :
       WF_mailboxVars(/\ BackoffElapses(scope)
                      /\ UNCHANGED <<worldVars, pc, ret, mailVars, mailLocals>>)

MailboxLiveSpec == MailboxSpec /\ MailboxFairness

---------------------------------------------------------------------------
(* Properties.                                                             *)

MailboxTypeOK == ServiceTypeOK /\ MailTypeOK

Commands == {r \in DOMAIN inbox : IsCommand(r)}
Replies == {r \in DOMAIN inbox : ~IsCommand(r)}

(* U's replies are posted before they are consumed (README), so a consumed *)
(* reply is in Telegram, in the dialog of the mail it answers, and its     *)
(* post carries the echo marker that keeps it from being mailed back.      *)
ConsumedMeansPosted ==
  \A r \in consumed \cap Replies :
    \E p \in posts, m \in mailU :
      /\ p.ref = r
      /\ m.mid = Parent(r)
      /\ p.dialog = m.dialog
      /\ <<p.dialog, p.id>> \in echo

(* A reply is posted again only where a crash or an error hid the first    *)
(* post: each post after the first was preceded by a fault of its own.     *)
PostsNeedFaults ==
  \A r \in DOMAIN inbox :
    Cardinality({p \in posts : p.ref = r}) <= 1 + faults

(* The bridge is as the last command said, in the order of the INBOX, and  *)
(* on before the first: no old command comes back over a newer one.        *)
LastCommandRules ==
  LET applied == consumed \cap Commands IN
  IF applied = {}
    THEN enabled
    ELSE \E r \in applied : /\ \A s \in applied : s <= r
                            /\ enabled = (Kind(r) = "on")

(* A confirmation tells U of a command that was applied, and what it said; *)
(* each copy after the first was preceded by a fault of its own.           *)
ConfirmationsTrue ==
  \A m \in noticeU : m.about # Session =>
    LET r == m.about.ref IN
    /\ r \in consumed \cap Commands
    /\ m.about.on = (Kind(r) = "on")
    /\ Cardinality({c \in noticeU : c.about.ref = r}) <= 1 + faults

(* Only mails of U, answering a mail the bridge has in its books, have     *)
(* any effect.                                                             *)
OnlyTrustedMailActs ==
  \A r \in consumed \cup {p.ref : p \in posts} :
    Trusted(r) /\ Parent(r) \in LedgerIds \cup sentNotice

(* The mails of the INBOX as U meant them.  A command with a wrong token   *)
(* says its text: parse_command takes it for no command.                   *)
Wish(r) ==
  IF IsCommand(r) THEN Kind(r)
  ELSE IF Kind(r) \in {"text", "wrongToken"} THEN "say" ELSE "nothing"

Letters == {[mid |-> m.mid, dialog |-> m.dialog] : m \in mailU}
Written == [r \in DOMAIN inbox |-> [wish |-> Wish(r), answers |-> Parent(r)]]

Answer == INSTANCE Answers WITH
  letters <- Letters, notices <- noticeU, mails <- Written,
  on <- enabled, acted <- consumed, said <- posts

(* The cycle, its crashes and its retries keep the promise of module       *)
(* Answers: each mail acts at most once, in its order and its place.       *)
ImplementsAnswers == Answer!Spec

(* A reply the bridge can match is posted and consumed, unless it may not  *)
(* post.                                                                   *)
RepliesEventuallyPosted ==
  \A r \in 1 .. MaxInbox :
    (r \in DOMAIN inbox /\ IsReply(r) /\ HasBody(r))
      ~> (r \in consumed \/ ~DeliveryAllowed)

(* A trusted command takes effect.                                         *)
CommandsEventuallyApplied ==
  \A r \in 1 .. MaxInbox :
    (r \in Commands /\ IsBridgeMessage(Parent(r))) ~> (r \in consumed)

(* A queued confirmation goes out, and U is told of an invalid session.    *)
NoticesEventuallySent ==
  /\ \A r \in 1 .. MaxInbox : \A on \in BOOLEAN :
       ([ref |-> r, on |-> on] \in pending)
         ~> (\E m \in noticeU : m.about = [ref |-> r, on |-> on])
  /\ ~valid ~> (notified \/ valid)

---------------------------------------------------------------------------
(* What the documents say and the code does not do.                        *)

(* DESIGN.md:174: a peer that is not found is isolated and logged.  The    *)
(* replies to other dialogs are posted all the same.                       *)
PeerIsolated ==
  \A r \in 1 .. MaxInbox :
    (/\ r \in DOMAIN inbox /\ IsReply(r) /\ HasBody(r)
     /\ LedgerDialog(Parent(r)) \notin GonePeers)
      ~> (r \in consumed \/ ~DeliveryAllowed)

(* README: the confirmation of a command "is persisted and retried".  At   *)
(* rest, every applied command is confirmed or waits to be.                *)
ConfirmationOwed ==
  pc \in {"idle", "down"} =>
    \A r \in consumed \cap Commands :
      \/ \E notice \in pending : notice.ref = r
      \/ \E m \in noticeU : m.about.ref = r
=============================================================================
