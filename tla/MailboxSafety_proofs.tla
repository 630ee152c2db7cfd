----------------------- MODULE MailboxSafety_proofs -----------------------
(***************************************************************************)
(* What mail -> Telegram promises, for every set of dialogs, every INBOX   *)
(* and every number of failures: a consumed reply is in Telegram, only     *)
(* trusted mail acts, and the last command rules.                          *)
(*                                                                         *)
(* None of the three is inductive.  The first two need that a ledger row   *)
(* stands for a mail U has, and that the post to be committed was made     *)
(* (Accounted).  The third needs that a command that was passed over can   *)
(* never be applied later (Ordered): the mail it answers is lost to the    *)
(* bridge, it went out but was never recorded.                             *)
(***************************************************************************)
EXTENDS Mailbox_proofs

USE DEF tableVars, outsideVars

(* A row of the ledger stands for a delivery. *)
LedgerMailed ==
  \A row \in ledger : \E m \in mailU : m.mid = row.mid /\ m.dialog = row.dialog

(* The post to be committed is the one that was made. *)
PostInHand ==
  pc = "commitReply" =>
    \E p \in posts : p.ref = pos /\ p.dialog = Target /\ p.id = posted

PostsInInbox == \A p \in posts : p.ref \in DOMAIN inbox

Accounted ==
  /\ LedgerMailed
  /\ PostInHand
  /\ PostsInInbox
  /\ ConsumedMeansPosted
  /\ OnlyTrustedMailActs

---------------------------------------------------------------------------

RecordPoints == {"noticeRecord", "flushRecord"}

(* A Message-ID in use that the bridge does not know and will not learn. *)
Lost(mid) ==
  /\ mid <= minted
  /\ mid \notin LedgerIds \cup sentNotice
  /\ pc \in RecordPoints => mid # minted

Settled(r) == r \in consumed \/ Lost(Parent(r))

MidsMinted ==
  /\ \A m \in mailU \cup noticeU : m.mid <= minted
  /\ \A r \in DOMAIN inbox : Parent(r) <= minted

(* Before a command that was applied, and before the mail in hand, no      *)
(* command can be applied any more.                                        *)
SettledBefore ==
  /\ \A s \in consumed \cap Commands, r \in Commands : r < s => Settled(r)
  /\ pc \in HandPoints => \A r \in Commands : r < pos => Settled(r)
  /\ pc = "queue" => pos \in consumed

HandInInbox == pc \in HandPoints => pos <= Len(inbox) + 1

Ordered == MidsMinted /\ HandInInbox /\ SettledBefore /\ LastCommandRules

---------------------------------------------------------------------------
(* The steps that touch neither the books nor a post. *)

SharedSteps ==
  /\ Handler \/ Lifecycle \/ Revoke \/ TimePasses
  /\ UNCHANGED <<mailVars, mailLocals>>

QuietSteps ==
  \/ StartMailbox \/ Poll \/ PollFails \/ SkipMail \/ QueueConfirmation
  \/ PostPeerNotFound \/ PostSessionInvalid \/ StartFlush
  \/ SendConfirmation \/ ConfirmationFails \/ RecordConfirmation
  \/ DeleteConfirmation \/ EndMailbox \/ MailboxEnds \/ SharedSteps

Booked ==
  /\ UNCHANGED <<ledger, consumed, echo, mailU, inbox, posts>>
  /\ sentNotice \subseteq sentNotice'
  /\ pc' # "commitReply" \/ UNCHANGED <<pc, pos, posted>>

LEMMA QuietIsBooked == ASSUME MailTyped, QuietSteps PROVE Booked
<1> USE DEF Booked, storeVars, worldVars, mailVars, mailLocals
<1>r. ret # "commitReply"
  BY DEF MailTyped, MailboxTypeOK, ServiceTypeOK
<1>1. CASE StartMailbox \/ Poll \/ PollFails \/ SkipMail \/ QueueConfirmation
  BY <1>1 DEF StartMailbox, Poll, PollFails, SkipMail, AtMail, NextMail,
              QueueConfirmation, Goto
<1>2. CASE PostPeerNotFound \/ PostSessionInvalid \/ StartFlush
  BY <1>2 DEF PostPeerNotFound, PostSessionInvalid, StartFlush, Invalidate,
              ProcessEnds, Goto
<1>3. CASE \/ SendConfirmation \/ ConfirmationFails \/ RecordConfirmation
           \/ DeleteConfirmation \/ EndMailbox \/ MailboxEnds
  BY <1>3 DEF SendConfirmation, ConfirmationFails, RecordConfirmation,
              RecordNoticeSent, DeleteConfirmation, EndMailbox, MailboxEnds,
              Invalidate, ProcessEnds, Crash, Stop, Goto
<1>4. CASE SharedSteps
  BY <1>4, <1>r DEF SharedSteps, Handler, MarkInvalid, SendSessionNotice,
       SessionNoticeFails, RecordSessionNotice, RecordNoticeSent, MarkNotified,
       Lifecycle, Start, Setup, SetupInterrupted, Revoke, TimePasses,
       BackoffElapses, Goto
<1> QED BY <1>1, <1>2, <1>3, <1>4 DEF QuietSteps

(* What a step of the specification is. *)
LEMMA MailboxNextCases ==
  ASSUME [MailboxNext]_mailboxVars
  PROVE  \/ QuietSteps \/ UNCHANGED mailboxVars
         \/ ApplyCommand \/ PostReply \/ CommitPost \/ PostFails
         \/ \E d \in Dialogs : InboundDelivers(d)
         \/ MailWorld
BY DEF MailboxNext, MailboxCycle, MailboxSteps, MailboxFailures, QuietSteps,
       SharedSteps

---------------------------------------------------------------------------
(* Consumed replies and trusted mail. *)

LEMMA BookedAccounts ==
  ASSUME MailTyped, Accounted, Booked PROVE Accounted'
<1> USE DEF Accounted, Booked
<1>1. LedgerMailed' /\ PostsInInbox'
  BY DEF LedgerMailed, PostsInInbox
<1>2. PostInHand'
  BY DEF PostInHand, Target, LedgerDialog, Parent
<1>3. ConsumedMeansPosted'
  BY DEF ConsumedMeansPosted, Replies, IsCommand, Kind, Parent
<1>4. OnlyTrustedMailActs'
  BY DEF OnlyTrustedMailActs, LedgerIds, Trusted, Kind, Parent
<1> QED BY <1>1, <1>2, <1>3, <1>4

(* A command is consumed without a post. *)
LEMMA ApplyAccounts ==
  ASSUME MailTyped, Accounted, ApplyCommand PROVE Accounted'
<1> USE DEF Accounted, ApplyCommand
<1>0. Applies(pos) /\ consumed' = consumed \cup {pos}
  BY DEF SetBridgeEnabled
<1>1. UNCHANGED <<ledger, echo, mailU, inbox, posts, sentNotice>>
  BY DEF worldVars, mailVars
<1>2. LedgerMailed' /\ PostsInInbox' /\ PostInHand'
  BY <1>1 DEF LedgerMailed, PostsInInbox, PostInHand
<1>3. ConsumedMeansPosted'
  BY <1>0, <1>1 DEF ConsumedMeansPosted, Replies, Applies, IsCommand, Kind, Parent
<1>4. OnlyTrustedMailActs'
  BY <1>0, <1>1 DEF OnlyTrustedMailActs, LedgerIds, Trusted, Kind, Parent, Applies,
                    IsBridgeMessage
<1> QED BY <1>2, <1>3, <1>4

(* A post of the reply in hand, whatever is answered to it. *)
LEMMA PostAccounts ==
  ASSUME MailTyped, Accounted, Posts(pos), AtMail,
         Posted(Target) \/ UNCHANGED posts,
         UNCHANGED <<ledger, consumed, echo, mailU, inbox, sentNotice>>,
         pc' = "commitReply" =>
           Posted(Target) /\ posted' = Len(chat[Target]) + 1 /\ pos' = pos
  PROVE  Accounted'
<1> USE DEF Accounted
<1>0. posts \subseteq posts' /\ \A p \in posts' \ posts : p.ref = pos
  BY DEF Posted
<1>1. IsReply(pos) /\ pos \in DOMAIN inbox
  BY PosInInbox DEF Posts, AtMail, HandPoints
<1>2. LedgerMailed' /\ PostsInInbox'
  BY <1>0, <1>1 DEF LedgerMailed, PostsInInbox
<1>3. PostInHand'
  <2> SUFFICES ASSUME pc' = "commitReply"
               PROVE  (\E p \in posts : /\ p.ref = pos /\ p.dialog = Target
                                       /\ p.id = posted)'
    BY DEF PostInHand
  <2>1. Target' = Target /\ pos' = pos
    BY DEF Target, LedgerDialog, Parent
  <2>2. [ref |-> pos, dialog |-> Target, id |-> posted'] \in posts'
    BY DEF Posted
  <2> QED BY <2>1, <2>2
<1>4. ConsumedMeansPosted'
  BY <1>0 DEF ConsumedMeansPosted, Replies, IsCommand, Kind, Parent
<1>5. OnlyTrustedMailActs'
  BY <1>0, <1>1 DEF OnlyTrustedMailActs, IsReply, LedgerIds, Trusted, Kind, Parent
<1> QED BY <1>2, <1>3, <1>4, <1>5

(* The reply is committed: its post is in the books from here on. *)
LEMMA CommitAccounts ==
  ASSUME MailTyped, Accounted, CommitPost PROVE Accounted'
<1> USE DEF Accounted, CommitPost
<1>0. /\ pc = "commitReply" /\ pc' = "mail"
      /\ consumed' = consumed \cup {pos}
      /\ echo' = echo \cup {<<Target, posted>>}
      /\ UNCHANGED <<ledger, mailU, inbox, posts, sentNotice>>
  BY DEF Goto, CommitReply, worldVars, mailVars
<1>1. IsReply(pos)
  BY <1>0 DEF MailTyped, MailInHand
<1>2. LedgerMailed' /\ PostsInInbox' /\ PostInHand'
  BY <1>0 DEF LedgerMailed, PostsInInbox, PostInHand
<1>3. PICK p \in posts : p.ref = pos /\ p.dialog = Target /\ p.id = posted
  BY <1>0 DEF PostInHand
<1>4. PICK row \in ledger : row.mid = Parent(pos) /\ row.dialog = Target
  BY <1>1, TargetInLedger
<1>5. PICK m \in mailU : m.mid = Parent(pos) /\ m.dialog = Target
  BY <1>4 DEF LedgerMailed
<1>6. /\ p.ref = pos /\ m.mid = Parent(pos) /\ p.dialog = m.dialog
      /\ <<p.dialog, p.id>> \in echo'
  BY <1>0, <1>3, <1>5
<1>7. ConsumedMeansPosted'
  BY <1>0, <1>6 DEF ConsumedMeansPosted, Replies, IsCommand, Kind, Parent
<1>8. OnlyTrustedMailActs'
  BY <1>0, <1>1 DEF OnlyTrustedMailActs, IsReply, LedgerIds, Trusted, Kind, Parent
<1> QED BY <1>2, <1>7, <1>8

(* The world's two steps: a delivery, and a mail that arrives. *)
LEMMA DeliveryAccounts ==
  ASSUME MailTyped, Accounted, NEW d \in Dialogs, InboundDelivers(d)
  PROVE  Accounted'
<1> USE DEF Accounted, InboundDelivers
<1>0. /\ pc' = "idle" /\ ledger \subseteq ledger' /\ mailU \subseteq mailU'
      /\ UNCHANGED <<consumed, echo, sentNotice, inbox, posts>>
  BY DEF CommitDelivery, mailVars
<1>1. LedgerMailed'
  <2>1. [mid |-> minted + 1, dialog |-> d, msgs |-> {Len(chat[d]) + 1}] \in mailU'
    OBVIOUS
  <2>2. \A row \in ledger' \ ledger : row = [mid |-> minted + 1, dialog |-> d]
    BY DEF CommitDelivery
  <2> SUFFICES ASSUME NEW row \in ledger'
               PROVE  \E m \in mailU' : m.mid = row.mid /\ m.dialog = row.dialog
    BY DEF LedgerMailed
  <2>3. CASE row \in ledger
    BY <1>0, <2>3 DEF LedgerMailed
  <2>4. CASE row = [mid |-> minted + 1, dialog |-> d]
    BY <2>1, <2>4
  <2> QED BY <2>2, <2>3, <2>4
<1>2. PostInHand' /\ PostsInInbox'
  BY <1>0 DEF PostInHand, PostsInInbox
<1>3. ConsumedMeansPosted'
  BY <1>0 DEF ConsumedMeansPosted, Replies, IsCommand, Kind, Parent
<1>4. OnlyTrustedMailActs'
  BY <1>0 DEF OnlyTrustedMailActs, LedgerIds, Trusted, Kind, Parent
<1> QED BY <1>1, <1>2, <1>3, <1>4

LEMMA ArrivalGrows ==
  ASSUME MailTyped, MailWorld
  PROVE  /\ UNCHANGED <<serviceVars, posts, mailLocals>>
         /\ DOMAIN inbox' = DOMAIN inbox \cup {Len(inbox) + 1}
         /\ \A r \in DOMAIN inbox : inbox'[r] = inbox[r]
         /\ inbox'[Len(inbox) + 1].parent \in InU \cup {0}
BY DEF MailTyped, MailboxTypeOK, MailTypeOK, MailWorld, MailArrives

LEMMA ArrivalAccounts ==
  ASSUME MailTyped, Accounted, MailWorld PROVE Accounted'
<1> USE DEF Accounted
<1>0. UNCHANGED <<ledger, consumed, echo, mailU, sentNotice, posts, pc, pos, posted>>
  BY ArrivalGrows DEF serviceVars, storeVars, worldVars, mailLocals
<1>1. LedgerMailed' /\ PostsInInbox'
  BY <1>0, ArrivalGrows DEF LedgerMailed, PostsInInbox
<1>2. PostInHand'
  <2>1. pc = "commitReply" => Target' = Target
    BY <1>0, ArrivalGrows, PosInInbox
       DEF Target, LedgerDialog, Parent, MailTyped, MailInHand, HandPoints
  <2> QED BY <1>0, <2>1 DEF PostInHand
<1>3. ConsumedMeansPosted'
  BY <1>0, ArrivalGrows DEF ConsumedMeansPosted, Replies, IsCommand, Kind, Parent,
                            MailTyped, ConsumedInInbox
<1>4. OnlyTrustedMailActs'
  BY <1>0, ArrivalGrows DEF OnlyTrustedMailActs, LedgerIds, Trusted, Kind, Parent,
                            MailTyped, ConsumedInInbox, PostsInInbox
<1> QED BY <1>1, <1>2, <1>3, <1>4

LEMMA AccountedStep ==
  MailTyped /\ Accounted /\ [MailboxNext]_mailboxVars => Accounted'
<1> SUFFICES ASSUME MailTyped, Accounted, [MailboxNext]_mailboxVars
             PROVE  Accounted'
  OBVIOUS
<1>1. CASE QuietSteps
  BY <1>1, QuietIsBooked, BookedAccounts
<1>2. CASE UNCHANGED mailboxVars
  BY <1>2, BookedAccounts DEF Booked, mailboxVars, serviceVars, storeVars,
                              worldVars, mailVars, mailLocals
<1>3. CASE PostReply \/ PostFails
  <2>1. UNCHANGED <<ledger, consumed, echo, mailU, inbox, sentNotice>>
    BY <1>3 DEF PostReply, PostFails, storeVars
  <2> QED BY <1>3, <2>1, PostAccounts DEF PostReply, PostFails, AtMail
<1> QED BY <1>1, <1>2, <1>3, MailboxNextCases, ApplyAccounts, CommitAccounts,
           DeliveryAccounts, ArrivalAccounts

MailAccounted == MailTyped /\ Accounted

LEMMA AccountedAlways == MailboxSpec => []MailAccounted
<1>1. MailboxInit => MailAccounted
  BY MailInitTyped DEF MailAccounted, Accounted, MailboxInit, MailInit,
     ServiceInit, StoreInit, LedgerMailed, PostInHand, PostsInInbox,
     ConsumedMeansPosted, OnlyTrustedMailActs
<1>2. MailAccounted /\ [MailboxNext]_mailboxVars => MailAccounted'
  BY MailboxNextTyped, AccountedStep DEF MailAccounted
<1> QED BY <1>1, <1>2, PTL DEF MailboxSpec

(* U's replies are posted before they are consumed: a consumed reply is in *)
(* Telegram, in the dialog of the mail it answers, marked as an echo.      *)
THEOREM RepliesPosted == MailboxSpec => []ConsumedMeansPosted
BY AccountedAlways, PTL DEF MailAccounted, Accounted

(* Only U's mails that answer a mail of the bridge are consumed or posted. *)
THEOREM StrangersIgnored == MailboxSpec => []OnlyTrustedMailActs
BY AccountedAlways, PTL DEF MailAccounted, Accounted

---------------------------------------------------------------------------
(* The last command rules.  What a step does to the Message-IDs, and to    *)
(* the mail in hand.                                                       *)

Known == LedgerIds \cup sentNotice

Learns ==
  /\ minted <= minted'
  /\ \A mid \in Known' : \/ mid \in Known
                         \/ mid > minted
                         \/ pc \in RecordPoints /\ mid = minted
  /\ pc' \in RecordPoints => minted' > minted \/ pc \in RecordPoints
  /\ \A m \in (mailU \cup noticeU)' :
       m \in mailU \cup noticeU \/ m.mid = minted'

(* A mail that is passed over is no command, or one that is consumed, or   *)
(* one that answers a mail in no book.                                     *)
PassedOver(r) == r \in Commands => r \in consumed \/ ~IsBridgeMessage(Parent(r))

QueuedIsConsumed == pc = "queue" => pos \in consumed

Moves ==
  pc' \in HandPoints =>
    \/ pos' = 1 /\ pc' # "queue"
    \/ pc \in HandPoints /\ pos' = pos /\ (pc' = "queue" => pos \in consumed')
    \/ /\ pc \in HandPoints
       /\ pos' = pos + 1
       /\ pc' # "queue"
       /\ pos <= Len(inbox)
       /\ PassedOver(pos)

LEMMA ParentIsNatural ==
  ASSUME MailTyped, NEW r \in DOMAIN inbox PROVE Parent(r) \in Nat
<1> DEFINE Mails == [kind : InboxKinds, parent : Nat]
<1>1. inbox \in Seq(Mails) /\ r \in DOMAIN inbox
  BY DEF MailTyped, MailboxTypeOK, MailTypeOK
<1>2. inbox[r] \in Mails
  <2> HIDE DEF Mails
  <2> QED BY <1>1
<1> QED BY <1>2 DEF Parent

(* What is lost stays lost, so what is settled stays settled. *)
LEMMA SettledForGood ==
  ASSUME MailTyped, MidsMinted, Learns, minted' \in Nat,
         NEW r \in DOMAIN inbox, Settled(r),
         consumed \subseteq consumed', inbox'[r] = inbox[r]
  PROVE  Settled(r)'
<1>1. minted \in Nat /\ Parent(r) \in Nat
  <2>1. minted \in Nat
    BY DEF MailTyped, MailboxTypeOK, ServiceTypeOK
  <2> QED BY <2>1, ParentIsNatural
<1>2. CASE r \in consumed
  BY <1>2 DEF Settled
<1>3. CASE Lost(Parent(r))
  <2>1. Parent(r) <= minted' /\ Parent(r) \notin Known'
    BY <1>1, <1>3 DEF Learns, Lost, Known
  <2>2. pc' \in RecordPoints => Parent(r) # minted'
    BY <1>1, <1>3 DEF Learns, Lost
  <2> QED BY <2>1, <2>2 DEF Settled, Lost, Known, Parent
<1> QED BY <1>2, <1>3 DEF Settled

LEMMA NotAppliedIsPassed ==
  ASSUME ~Applies(pos) PROVE PassedOver(pos)
BY DEF PassedOver, Applies, Commands, Trusted, IsCommand

(* No Message-ID is about to be recorded while a mail is in hand. *)
LEMMA PassedIsSettled ==
  ASSUME MidsMinted, pc \in HandPoints, NEW r \in Commands, PassedOver(r)
  PROVE  Settled(r)
BY DEF PassedOver, Settled, Lost, IsBridgeMessage, HandPoints, RecordPoints, MidsMinted,
       Commands

LEMMA QuietLearns ==
  ASSUME MailTyped, QuietSteps PROVE Learns
<1> USE DEF Learns, Known, LedgerIds, RecordPoints, storeVars, worldVars
<1>0. minted \in Nat /\ ret \notin RecordPoints
  BY DEF MailTyped, MailboxTypeOK, ServiceTypeOK
<1>1. CASE StartMailbox \/ Poll \/ PollFails \/ SkipMail \/ QueueConfirmation
  BY <1>0, <1>1 DEF StartMailbox, Poll, PollFails, SkipMail, AtMail, NextMail,
                    QueueConfirmation, Goto
<1>2. CASE PostPeerNotFound \/ PostSessionInvalid \/ StartFlush
  BY <1>0, <1>2 DEF PostPeerNotFound, PostSessionInvalid, StartFlush, Invalidate,
                    ProcessEnds, Goto
<1>3. CASE SendConfirmation \/ ConfirmationFails
  BY <1>0, <1>3 DEF SendConfirmation, ConfirmationFails, NoticeReachesU, Goto
<1>4. CASE \/ RecordConfirmation \/ DeleteConfirmation \/ EndMailbox
           \/ MailboxEnds
  BY <1>0, <1>4 DEF RecordConfirmation, RecordNoticeSent, DeleteConfirmation,
                    EndMailbox, MailboxEnds, Invalidate, ProcessEnds, Crash, Stop,
                    Goto
<1>5. CASE SharedSteps
  <2>1. CASE SendSessionNotice \/ SessionNoticeFails
    BY <1>0, <2>1 DEF SendSessionNotice, SessionNoticeFails, NoticeReachesU, Goto
  <2>2. CASE MarkInvalid \/ RecordSessionNotice \/ MarkNotified
    BY <1>0, <2>2 DEF MarkInvalid, RecordSessionNotice, RecordNoticeSent,
                      MarkNotified, Goto
  <2>3. CASE Lifecycle \/ Revoke \/ TimePasses
    BY <1>0, <2>3 DEF Lifecycle, Start, Setup, SetupInterrupted, Revoke,
                      TimePasses, BackoffElapses, Goto
  <2> QED BY <1>5, <2>1, <2>2, <2>3 DEF SharedSteps, Handler
<1> QED BY <1>1, <1>2, <1>3, <1>4, <1>5 DEF QuietSteps

LEMMA QuietMoves ==
  ASSUME MailTyped, QueuedIsConsumed, QuietSteps PROVE Moves /\ UNCHANGED enabled
<1> USE DEF Moves, storeVars, worldVars, mailVars, mailLocals
<1>0. ret \notin HandPoints
  BY DEF MailTyped, MailboxTypeOK, ServiceTypeOK, HandPoints
<1>1. CASE StartMailbox \/ Poll \/ PollFails
  BY <1>1 DEF StartMailbox, Poll, PollFails, Goto, HandPoints
<1>2. CASE SkipMail
  <2>1. pos \in DOMAIN inbox /\ pos <= Len(inbox)
    BY <1>2, PosInInbox
       DEF SkipMail, AtMail, HandPoints, MailTyped, MailboxTypeOK, MailTypeOK
  <2>2. PassedOver(pos)
    BY <1>2, NotAppliedIsPassed DEF SkipMail
  <2> QED BY <1>2, <2>1, <2>2 DEF SkipMail, AtMail, NextMail, HandPoints
<1>3. CASE QueueConfirmation
  <2>1. pc = "queue" /\ pc' = "mail" /\ pos' = pos + 1 /\ UNCHANGED enabled
    BY <1>3 DEF QueueConfirmation, Goto, NextMail
  <2>2. pos \in DOMAIN inbox /\ pos <= Len(inbox)
    BY <2>1, PosInInbox
       DEF HandPoints, MailTyped, MailInHand, MailboxTypeOK, MailTypeOK
  <2>3. PassedOver(pos)
    BY <2>1 DEF QueuedIsConsumed, PassedOver
  <2> QED BY <2>1, <2>2, <2>3 DEF HandPoints
<1>4. CASE PostPeerNotFound \/ PostSessionInvalid \/ StartFlush
  BY <1>4 DEF PostPeerNotFound, PostSessionInvalid, StartFlush, Invalidate,
              ProcessEnds, Goto, HandPoints
<1>5. CASE \/ SendConfirmation \/ ConfirmationFails \/ RecordConfirmation
           \/ DeleteConfirmation \/ EndMailbox \/ MailboxEnds
  BY <1>5 DEF SendConfirmation, ConfirmationFails, RecordConfirmation,
              DeleteConfirmation, EndMailbox, MailboxEnds, Invalidate, ProcessEnds,
              Crash, Stop, Goto, HandPoints
<1>6. CASE SharedSteps
  <2>1. CASE Handler \/ Lifecycle
    BY <1>0, <1>6, <2>1
       DEF SharedSteps, Handler, MarkInvalid, SendSessionNotice, SessionNoticeFails,
           RecordSessionNotice, MarkNotified, Lifecycle, Start, Setup,
           SetupInterrupted, Goto, HandPoints
  <2>2. CASE Revoke \/ TimePasses
    BY <1>6, <2>2 DEF SharedSteps, Revoke, TimePasses, BackoffElapses,
                      QueuedIsConsumed
  <2> QED BY <1>6, <2>1, <2>2 DEF SharedSteps
<1> QED BY <1>1, <1>2, <1>3, <1>4, <1>5, <1>6 DEF QuietSteps

(* A step that learns and moves so, and neither reads nor applies a        *)
(* command, keeps the order.                                               *)
LEMMA OrderKept ==
  ASSUME MailTyped, Ordered, Learns, Moves, minted' \in Nat,
         UNCHANGED <<inbox, enabled>>,
         consumed \subseteq consumed', consumed' \cap Commands = consumed \cap Commands
  PROVE  Ordered'
<1> USE DEF Ordered
<1>0. /\ minted \in Nat /\ pos \in Nat
      /\ DOMAIN inbox \subseteq Nat
      /\ Commands' = Commands /\ Commands \subseteq DOMAIN inbox
      /\ Len(inbox) \in Nat
  BY DEF MailTyped, MailboxTypeOK, ServiceTypeOK, MailTypeOK, Commands, IsCommand, Kind
<1>1. MidsMinted'
  <2>1. \A m \in (mailU \cup noticeU)' : m.mid <= minted'
    <3> SUFFICES ASSUME NEW m \in (mailU \cup noticeU)', m.mid # minted'
                 PROVE  m.mid <= minted'
      BY <1>0
    <3>1. m \in mailU \cup noticeU
      BY DEF Learns
    <3>2. m.mid \in Nat /\ m.mid <= minted
      BY <3>1 DEF MidsMinted, MailTyped, MailboxTypeOK, ServiceTypeOK
    <3> QED BY <1>0, <3>2 DEF Learns
  <2>3. \A r \in DOMAIN inbox' : Parent(r)' <= minted'
    BY <1>0, ParentIsNatural DEF MidsMinted, Learns, Parent
  <2> QED BY <2>1, <2>3 DEF MidsMinted
<1>2. HandInInbox'
  BY <1>0 DEF HandInInbox, Moves
<1>3. \A r \in Commands : Settled(r) => Settled(r)'
  BY <1>0, SettledForGood
<1>4. \A s \in consumed' \cap Commands, r \in Commands : r < s => Settled(r)'
  BY <1>3 DEF SettledBefore
<1>5. pc' \in HandPoints => \A r \in Commands : r < pos' => Settled(r)'
  <2>1. CASE pos' = 1
    BY <1>0, <2>1
  <2>2. CASE pc \in HandPoints /\ pos' = pos
    BY <1>3, <2>2 DEF SettledBefore
  <2>3. CASE pc \in HandPoints /\ pos' = pos + 1 /\ PassedOver(pos)
    <3>1. \A r \in Commands : r < pos' => r < pos \/ r = pos
      BY <1>0, <2>3
    <3>2. pos \in Commands => Settled(pos)
      BY <2>3, PassedIsSettled
    <3> QED BY <1>3, <2>3, <3>1, <3>2 DEF SettledBefore
  <2> QED BY <2>1, <2>2, <2>3 DEF Moves
<1>6. pc' = "queue" => pos' \in consumed'
  BY DEF Moves, HandPoints
<1>7. SettledBefore'
  BY <1>0, <1>4, <1>5, <1>6 DEF SettledBefore
<1>8. LastCommandRules'
  BY <1>0 DEF LastCommandRules, Kind
<1> QED BY <1>1, <1>2, <1>7, <1>8

LEMMA QuietOrders ==
  ASSUME MailTyped, MailTyped', Ordered, QuietSteps PROVE Ordered'
<1>0. QueuedIsConsumed
  BY DEF Ordered, SettledBefore, QueuedIsConsumed
<1>1. UNCHANGED <<inbox, consumed, enabled>>
  BY <1>0, QuietIsBooked, QuietMoves DEF Booked
<1>2. minted' \in Nat
  BY DEF MailTyped, MailboxTypeOK, ServiceTypeOK
<1> QED BY <1>0, <1>1, <1>2, QuietLearns, QuietMoves, OrderKept

(* A post, and its commit, pass over no command. *)
LEMMA PostMoves ==
  ASSUME MailTyped, PostReply \/ PostFails \/ CommitPost
  PROVE  /\ Moves /\ UNCHANGED <<inbox, enabled>>
         /\ pc \in {"mail", "commitReply"} /\ IsReply(pos)
         /\ consumed' = consumed \/ consumed' = consumed \cup {pos}
<1>1. pc \in {"mail", "commitReply"} /\ pos <= end
  BY DEF PostReply, PostFails, CommitPost, AtMail, Goto, MailTyped, MailInHand
<1>2. IsReply(pos) /\ pos \in DOMAIN inbox /\ pos <= Len(inbox)
  <2>1. pos \in DOMAIN inbox
    BY <1>1, PosInInbox DEF HandPoints
  <2>2. IsReply(pos)
    BY <1>1 DEF PostReply, PostFails, CommitPost, Posts, MailTyped, MailInHand, Goto
  <2> QED BY <2>1, <2>2 DEF MailTyped, MailboxTypeOK, MailTypeOK
<1>3. PassedOver(pos)
  BY <1>2 DEF PassedOver, Commands, IsReply
<1>4. Moves
  BY <1>1, <1>2, <1>3 DEF Moves, HandPoints, PostReply, PostFails, CommitPost, AtMail,
                    NextMail, Goto
<1>5. UNCHANGED <<inbox, enabled>>
  BY DEF PostReply, PostFails, CommitPost, storeVars, mailVars
<1>6. consumed' = consumed \/ consumed' = consumed \cup {pos}
  BY DEF PostReply, PostFails, CommitPost, CommitReply, storeVars
<1> QED BY <1>1, <1>2, <1>4, <1>5, <1>6

LEMMA PostOrders ==
  ASSUME MailTyped, MailTyped', Ordered, PostReply \/ PostFails \/ CommitPost
  PROVE  Ordered'
<1>0. minted' \in Nat /\ minted \in Nat
  BY DEF MailTyped, MailboxTypeOK, ServiceTypeOK
<1>1. /\ Moves /\ UNCHANGED <<inbox, enabled>>
      /\ pc \in {"mail", "commitReply"} /\ IsReply(pos)
      /\ consumed' = consumed \/ consumed' = consumed \cup {pos}
  BY PostMoves
<1>2. Learns
  BY <1>0, <1>1
     DEF Learns, Known, LedgerIds, RecordPoints, PostReply, PostFails, CommitPost,
         Goto, storeVars, worldVars
<1>3. consumed' \cap Commands = consumed \cap Commands
  BY <1>1 DEF Commands, IsReply
<1> QED BY <1>0, <1>1, <1>2, <1>3, OrderKept

(* The command in hand comes after every command applied before it: one    *)
(* that came later would have found it settled, and it is not.             *)
LEMMA ApplyOrders ==
  ASSUME MailTyped, Ordered, ApplyCommand PROVE Ordered'
<1> USE DEF Ordered
<1>0. /\ pc = "mail" /\ pc' = "queue" /\ pos' = pos /\ pos <= end
      /\ Applies(pos)
      /\ consumed' = consumed \cup {pos}
      /\ enabled' = (Kind(pos) = "on")
      /\ UNCHANGED <<inbox, ledger, sentNotice, minted, mailU, noticeU>>
  BY DEF ApplyCommand, AtMail, SetBridgeEnabled, worldVars, mailVars, mailLocals
<1>1. /\ pos \in Commands /\ Commands' = Commands
      /\ Commands \subseteq Nat /\ pos \in Nat
  BY <1>0, PosInInbox DEF HandPoints, Commands, Applies, IsCommand, Kind, MailTyped,
                          MailboxTypeOK, MailTypeOK
<1>2. ~Settled(pos)
  BY <1>0 DEF Settled, Lost, Applies, IsBridgeMessage
<1>3. \A s \in consumed \cap Commands : s < pos
  <2> SUFFICES ASSUME NEW s \in consumed \cap Commands, ~(s < pos) PROVE FALSE
    OBVIOUS
  <2>0. s \in Nat /\ pos \in Nat
    BY <1>1
  <2>1. s = pos \/ pos < s
    BY <2>0
  <2> QED BY <1>0, <1>1, <1>2, <2>1 DEF SettledBefore, Applies
<1>4. MidsMinted' /\ HandInInbox'
  BY <1>0 DEF MidsMinted, HandInInbox, HandPoints, Parent
<1>5. \A r \in Commands : Settled(r) => Settled(r)'
  BY <1>0 DEF Settled, Lost, LedgerIds, RecordPoints, Parent
<1>6. \A r \in Commands : r < pos => Settled(r)'
  BY <1>0, <1>5 DEF SettledBefore, HandPoints
<1>7. SettledBefore'
  <2>1. \A s \in consumed' \cap Commands, r \in Commands : r < s => Settled(r)'
    BY <1>0, <1>5, <1>6 DEF SettledBefore
  <2> QED BY <1>0, <1>1, <1>6, <2>1 DEF SettledBefore
<1>8. LastCommandRules'
  <2>1. pos \in consumed' \cap Commands'
    BY <1>0, <1>1
  <2>2. \A s \in consumed' \cap Commands' : s <= pos
    <3> SUFFICES ASSUME NEW s \in consumed' \cap Commands' PROVE s <= pos
      OBVIOUS
    <3>1. s \in Nat /\ pos \in Nat /\ (s = pos \/ s < pos)
      BY <1>0, <1>1, <1>3
    <3> QED BY <3>1
  <2>3. enabled' = (inbox'[pos].kind = "on")
    BY <1>0 DEF Kind
  <2>4. \E r \in consumed' \cap Commands' :
          /\ \A s \in consumed' \cap Commands' : s <= r
          /\ enabled' = (inbox'[r].kind = "on")
    BY <2>1, <2>2, <2>3, Zenon
  <2> QED BY <2>1, <2>4, Zenon DEF LastCommandRules, Kind
<1> QED BY <1>4, <1>7, <1>8

LEMMA DeliveryOrders ==
  ASSUME MailTyped, MailTyped', Ordered, NEW d \in Dialogs, InboundDelivers(d)
  PROVE  Ordered'
<1>1. minted \in Nat /\ minted' \in Nat
  BY DEF MailTyped, MailboxTypeOK, ServiceTypeOK
<1>2. /\ pc = "idle" /\ pc' = "idle" /\ minted' = minted + 1
      /\ UNCHANGED <<inbox, enabled, consumed>>
  BY DEF InboundDelivers, mailVars
<1>3. Learns
  BY <1>1, <1>2 DEF Learns, Known, LedgerIds, RecordPoints, InboundDelivers,
                    CommitDelivery
<1>4. Moves
  BY <1>2 DEF Moves, HandPoints
<1> QED BY <1>1, <1>2, <1>3, <1>4, OrderKept

(* A new mail comes last, and answers a mail that is in U's mailbox.       *)
LEMMA ArrivalOrders ==
  ASSUME MailTyped, Ordered, MailWorld PROVE Ordered'
<1> USE DEF Ordered
<1> DEFINE new == Len(inbox) + 1
<1>0. UNCHANGED <<ledger, consumed, enabled, sentNotice, minted, mailU, noticeU, pc, pos>>
  BY ArrivalGrows DEF serviceVars, storeVars, worldVars, mailLocals
<1>1. /\ Len(inbox) \in Nat /\ pos \in Nat /\ minted \in Nat
      /\ DOMAIN inbox = 1 .. Len(inbox)
      /\ Len(inbox') = Len(inbox) + 1
  BY DEF MailTyped, MailboxTypeOK, ServiceTypeOK, MailTypeOK, MailWorld, MailArrives
<1>2. inbox'[new].parent <= minted
  BY <1>1, ArrivalGrows DEF InU, MidsMinted
<1>3. MidsMinted'
  BY <1>0, <1>2, ArrivalGrows DEF MidsMinted, Parent
<1>4. HandInInbox'
  BY <1>0, <1>1 DEF HandInInbox
<1>5. Commands' \ Commands \subseteq {new} /\ Commands \subseteq Commands'
  BY ArrivalGrows DEF Commands, IsCommand, Kind
<1>6. \A r \in DOMAIN inbox : Settled(r) => Settled(r)'
  BY <1>0, ArrivalGrows DEF Settled, Lost, LedgerIds, Parent
<1>7. consumed' \cap Commands' = consumed \cap Commands
  BY <1>0, <1>1, <1>5 DEF MailTyped, ConsumedInInbox, Commands
<1>8. SettledBefore'
  <2>1. \A s \in consumed' \cap Commands', r \in Commands' : r < s => Settled(r)'
    <3> SUFFICES ASSUME NEW s \in consumed' \cap Commands', NEW r \in Commands', r < s
                 PROVE  Settled(r)'
      OBVIOUS
    <3>1. s \in 1 .. Len(inbox)
      BY <1>1, <1>7 DEF Commands
    <3>2. r \in Commands
      BY <1>1, <1>5, <3>1
    <3> QED BY <1>6, <1>7, <3>2 DEF SettledBefore, Commands
  <2>2. pc' \in HandPoints => \A r \in Commands' : r < pos' => Settled(r)'
    <3> SUFFICES ASSUME pc \in HandPoints, NEW r \in Commands', r < pos
                 PROVE  Settled(r)'
      BY <1>0
    <3>1. pos <= new
      BY DEF HandInInbox
    <3>2. r \in Commands
      BY <1>1, <1>5, <3>1
    <3> QED BY <1>6, <3>2 DEF SettledBefore, Commands
  <2> QED BY <1>0, <2>1, <2>2 DEF SettledBefore
<1>9. LastCommandRules'
  <2>1. \A r \in Commands : Kind(r)' = Kind(r)
    BY ArrivalGrows DEF Commands, Kind
  <2> QED BY <1>0, <1>7, <2>1 DEF LastCommandRules
<1> QED BY <1>3, <1>4, <1>8, <1>9

LEMMA MailboxMoves ==
  ASSUME MailTyped, QueuedIsConsumed, [MailboxNext]_mailboxVars PROVE Moves
<1>1. CASE ApplyCommand
  BY <1>1 DEF ApplyCommand, AtMail, SetBridgeEnabled, mailLocals, Moves, HandPoints
<1>2. CASE \E d \in Dialogs : InboundDelivers(d)
  BY <1>2 DEF InboundDelivers, Moves, HandPoints
<1>3. CASE MailWorld \/ UNCHANGED mailboxVars
  <2>1. UNCHANGED <<pc, pos, consumed>>
    BY <1>3, ArrivalGrows DEF mailboxVars, serviceVars, storeVars, mailLocals
  <2> QED BY <2>1 DEF Moves, QueuedIsConsumed
<1> QED BY <1>1, <1>2, <1>3, MailboxNextCases, QuietMoves, PostMoves

LEMMA OrderedStep ==
  MailTyped /\ Ordered /\ [MailboxNext]_mailboxVars => Ordered'
<1> SUFFICES ASSUME MailTyped, Ordered, [MailboxNext]_mailboxVars PROVE Ordered'
  OBVIOUS
<1>0. MailTyped'
  BY MailboxNextTyped
<1>1. CASE UNCHANGED mailboxVars
  BY <1>1 DEF mailboxVars, serviceVars, storeVars, worldVars, mailVars, mailLocals,
              Ordered, MidsMinted, HandInInbox, SettledBefore, Settled, Lost,
              LedgerIds, LastCommandRules, Commands, IsCommand, Kind, Parent
<1> QED BY <1>0, <1>1, MailboxNextCases, QuietOrders, ApplyOrders, PostOrders,
           DeliveryOrders, ArrivalOrders

(* The bridge is as the last command said, in the order of the INBOX: an   *)
(* old command that was passed over never comes back over a newer one.     *)
THEOREM CommandsInOrder == MailboxSpec => []LastCommandRules
<1> DEFINE Inv == MailTyped /\ Ordered
<1>1. MailboxInit => Inv
  BY MailInitTyped DEF Ordered, MailboxInit, MailInit, MailLocalsInit, ServiceInit,
     StoreInit, MidsMinted, HandInInbox, SettledBefore, HandPoints,
     LastCommandRules, Commands
<1>2. Inv /\ [MailboxNext]_mailboxVars => Inv'
  BY MailboxNextTyped, OrderedStep
<1>3. Inv => LastCommandRules
  BY DEF Ordered
<1> QED BY <1>1, <1>2, <1>3, PTL DEF MailboxSpec

---------------------------------------------------------------------------
(* How often U is told and Telegram posted to.                             *)

(* No step takes a consume marker back or changes a mail. *)
MailKept ==
  /\ consumed \subseteq consumed'
  /\ \A r \in DOMAIN inbox : r \in DOMAIN inbox' /\ inbox'[r] = inbox[r]
  /\ faults' = faults \/ faults' = faults + 1

LEMMA MailIsKept ==
  ASSUME MailTyped, [MailboxNext]_mailboxVars PROVE MailKept
<1> USE DEF MailKept, storeVars, worldVars, mailVars
<1>1. CASE MailWorld
  BY <1>1, ArrivalGrows DEF serviceVars
<1>2. CASE \E d \in Dialogs : InboundDelivers(d)
  BY <1>2 DEF InboundDelivers, Fault
<1>3. CASE UNCHANGED mailboxVars
  BY <1>3 DEF mailboxVars, serviceVars
<1>4. CASE MailboxEnds
  BY <1>4 DEF MailboxEnds, Crash, Stop, Fault
<1>5. CASE SharedSteps
  BY <1>5 DEF SharedSteps, Handler, MarkInvalid, SendSessionNotice,
              SessionNoticeFails, RecordSessionNotice, MarkNotified, Lifecycle,
              Start, Setup, SetupInterrupted, Revoke, TimePasses, BackoffElapses,
              Fault
<1>6. CASE MailboxCycle
  <2>1. CASE StartMailbox \/ Poll \/ PollFails \/ SkipMail \/ QueueConfirmation
    BY <2>1 DEF StartMailbox, Poll, PollFails, SkipMail, QueueConfirmation, Fault
  <2>2. CASE ApplyCommand \/ PostReply \/ CommitPost \/ PostFails
    BY <2>2 DEF ApplyCommand, SetBridgeEnabled, PostReply, CommitPost, CommitReply,
                PostFails, Fault
  <2>3. CASE PostPeerNotFound \/ PostSessionInvalid \/ StartFlush
    BY <2>3 DEF PostPeerNotFound, PostSessionInvalid, StartFlush
  <2>4. CASE \/ SendConfirmation \/ ConfirmationFails \/ RecordConfirmation
             \/ DeleteConfirmation \/ EndMailbox
    BY <2>4 DEF SendConfirmation, ConfirmationFails, RecordConfirmation,
                DeleteConfirmation, EndMailbox, Fault
  <2> QED BY <1>6, <2>1, <2>2, <2>3, <2>4
          DEF MailboxCycle, MailboxSteps, MailboxFailures
<1> QED BY <1>1, <1>2, <1>3, <1>4, <1>5, <1>6 DEF MailboxNext, SharedSteps

(* The posts of one reply: one more is possible only while the reply is    *)
(* not consumed and its post not in hand.                                  *)
PostsOf(r) == {p \in posts : p.ref = r}

PostsCounted ==
  \A r \in Nat :
    /\ IsFiniteSet(PostsOf(r))
    /\ Cardinality(PostsOf(r)) <= 1 + faults
    /\ \/ r \in consumed
       \/ pc = "commitReply" /\ pos = r
       \/ Cardinality(PostsOf(r)) <= faults

(* What becomes of a post that waits for its commit. *)
PostHandled ==
  pc = "commitReply" =>
    \/ pc' = "commitReply" /\ pos' = pos
    \/ faults' = faults + 1
    \/ pos \in consumed'

LEMMA NoPostCounts ==
  ASSUME MailTyped, PostsCounted, MailKept, UNCHANGED posts, PostHandled
  PROVE  PostsCounted'
<1>1. faults \in Nat
  BY DEF MailTyped, MailboxTypeOK, ServiceTypeOK
<1>2. ASSUME NEW r \in Nat
      PROVE  /\ PostsOf(r)' = PostsOf(r)
             /\ IsFiniteSet(PostsOf(r))
             /\ Cardinality(PostsOf(r)) \in Nat
  <2>1. PostsOf(r)' = PostsOf(r) /\ IsFiniteSet(PostsOf(r))
    BY DEF PostsOf, PostsCounted
  <2> QED BY <2>1, FS_CardinalityType
<1> QED BY <1>1, <1>2 DEF PostsCounted, MailKept, PostHandled

LEMMA PostCounts ==
  ASSUME MailTyped, PostsCounted, PostReply \/ PostFails PROVE PostsCounted'
<1>1. pos \in Nat /\ faults \in Nat /\ pc = "mail" /\ pos \notin consumed
  BY DEF PostReply, PostFails, AtMail, Posts, MailTyped, MailboxTypeOK, ServiceTypeOK,
         MailTypeOK
<1>2. PICK x : posts' \subseteq posts \cup {x} /\ x.ref = pos /\ posts \subseteq posts'
  <2> DEFINE new == [ref |-> pos, dialog |-> Target, id |-> Len(chat[Target]) + 1]
  <2>1. posts' = posts \/ posts' = posts \cup {new}
    BY DEF PostReply, PostFails, Posted
  <2>2. new.ref = pos
    OBVIOUS
  <2> QED BY <2>1, <2>2
<1>3. consumed' = consumed
  BY DEF PostReply, PostFails, storeVars
<1>4. \/ faults' = faults /\ pc' = "commitReply" /\ pos' = pos
      \/ faults' = faults + 1
  BY DEF PostReply, PostFails, Fault
<1> SUFFICES ASSUME NEW r \in Nat
             PROVE  /\ IsFiniteSet(PostsOf(r)')
                    /\ Cardinality(PostsOf(r)') <= 1 + faults'
                    /\ \/ r \in consumed'
                       \/ pc' = "commitReply" /\ pos' = r
                       \/ Cardinality(PostsOf(r)') <= faults'
  BY DEF PostsCounted
<1>5. /\ IsFiniteSet(PostsOf(r)) /\ Cardinality(PostsOf(r)) \in Nat
      /\ Cardinality(PostsOf(r)) <= 1 + faults
      /\ r \in consumed \/ Cardinality(PostsOf(r)) <= faults
  BY <1>1, FS_CardinalityType DEF PostsCounted
<1>6. CASE r = pos
  <2>1. PostsOf(r)' \subseteq PostsOf(r) \cup {x}
    BY <1>2 DEF PostsOf
  <2>2. /\ IsFiniteSet(PostsOf(r)') /\ Cardinality(PostsOf(r)') \in Nat
        /\ Cardinality(PostsOf(r)') <= Cardinality(PostsOf(r)) + 1
    BY <1>5, <2>1, OneMore
  <2> QED BY <1>1, <1>4, <1>5, <1>6, <2>2
<1>7. CASE r # pos
  <2>1. PostsOf(r)' = PostsOf(r)
    BY <1>2, <1>7 DEF PostsOf
  <2> QED BY <1>1, <1>3, <1>4, <1>5, <2>1
<1> QED BY <1>6, <1>7

LEMMA OthersPostNothing ==
  ASSUME MailTyped, [MailboxNext]_mailboxVars, ~(PostReply \/ PostFails)
  PROVE  UNCHANGED posts /\ PostHandled
<1> USE DEF PostHandled
<1>1. CASE CommitPost
  BY <1>1 DEF CommitPost, CommitReply, mailVars
<1>2. CASE QuietSteps /\ ~MailboxEnds
  <2>1. UNCHANGED posts
    BY <1>2, QuietIsBooked DEF Booked
  <2>2. pc = "commitReply" => SharedSteps
    BY <1>2 DEF QuietSteps, StartMailbox, Poll, PollFails, SkipMail,
                QueueConfirmation, PostPeerNotFound, PostSessionInvalid,
                StartFlush, SendConfirmation, ConfirmationFails,
                RecordConfirmation, DeleteConfirmation, EndMailbox, AtMail, Goto
  <2>3. pc = "commitReply" => UNCHANGED <<pc, pos>>
    BY <2>2 DEF SharedSteps, Handler, MarkInvalid, SendSessionNotice,
                SessionNoticeFails, RecordSessionNotice, MarkNotified, Lifecycle,
                Start, Setup, SetupInterrupted, Revoke, TimePasses, Goto, mailLocals
  <2> QED BY <2>1, <2>3
<1>3. CASE MailboxEnds
  BY <1>3 DEF MailboxEnds, Crash, Stop, Fault, mailVars
<1>4. CASE ApplyCommand \/ \E d \in Dialogs : InboundDelivers(d)
  BY <1>4 DEF ApplyCommand, AtMail, InboundDelivers, mailVars
<1>5. CASE MailWorld \/ UNCHANGED mailboxVars
  BY <1>5, ArrivalGrows DEF mailboxVars, serviceVars, mailVars, mailLocals
<1> QED BY <1>1, <1>2, <1>3, <1>4, <1>5, MailboxNextCases

LEMMA PostsCountedStep ==
  MailTyped /\ PostsCounted /\ [MailboxNext]_mailboxVars => PostsCounted'
BY MailIsKept, PostCounts, OthersPostNothing, NoPostCounts

LEMMA NonePosted == posts = {} /\ faults = 0 => PostsCounted
<1> SUFFICES ASSUME posts = {}, faults = 0 PROVE PostsCounted
  OBVIOUS
<1>1. \A r \in Nat : PostsOf(r) = {}
  BY DEF PostsOf
<1> QED BY <1>1, FS_EmptySet DEF PostsCounted

LEMMA PostsCountedSuffices == MailTyped /\ PostsCounted => PostsNeedFaults
<1>1. MailTyped => DOMAIN inbox \subseteq Nat
  BY DEF MailTyped, MailboxTypeOK, MailTypeOK
<1> QED BY <1>1 DEF PostsCounted, PostsNeedFaults, PostsOf

(* However often the process dies between a post and its commit, and       *)
(* however often Telegram takes a post and answers with an error: a reply  *)
(* is posted at most once more than there were faults.                     *)
THEOREM PostsCostFaults == MailboxSpec => []PostsNeedFaults
<1> DEFINE Inv == MailTyped /\ PostsCounted
<1>1. MailboxInit => Inv
  BY MailInitTyped, NonePosted DEF MailboxInit, MailInit, ServiceInit
<1>2. Inv /\ [MailboxNext]_mailboxVars => Inv'
  BY MailboxNextTyped, PostsCountedStep
<1>3. Inv => PostsNeedFaults
  BY PostsCountedSuffices
<1> QED BY <1>1, <1>2, <1>3, PTL DEF MailboxSpec

---------------------------------------------------------------------------
(* What U is told of the commands.                                         *)

AboutCommand(r) == {c \in noticeU : c.about.ref = r}

Confirms(notice) ==
  notice.ref \in consumed \cap Commands /\ notice.on = (Kind(notice.ref) = "on")

NoticesTrue ==
  /\ toFlush \subseteq pending
  /\ \A notice \in pending : Confirms(notice)
  /\ \A m \in noticeU : m.about # Session => Confirms(m.about)

(* A command that was just applied has been told to nobody. *)
JustApplied ==
  pc = "queue" =>
    /\ pos \in consumed
    /\ AboutCommand(pos) = {}
    /\ \A notice \in pending : notice.ref # pos

(* The confirmation of command r may still be sent: it waits, and is not   *)
(* the one that is sent and about to be deleted.                           *)
AtRecord == pc \in {"flushRecord", "flushDelete"}
Waits(r) == (\E notice \in pending : notice.ref = r) /\ ~(AtRecord /\ First.ref = r)

ConfirmationsCounted ==
  \A r \in Nat \ {0} :
    /\ IsFiniteSet(AboutCommand(r))
    /\ Cardinality(AboutCommand(r)) <= 1 + faults
    /\ Waits(r) => Cardinality(AboutCommand(r)) <= faults

Confirming == NoticesTrue /\ JustApplied /\ ConfirmationsCounted

LEMMA ConfirmingCounts ==
  ASSUME MailTyped, Confirming, NEW r \in Nat \ {0}
  PROVE  /\ IsFiniteSet(AboutCommand(r))
         /\ Cardinality(AboutCommand(r)) \in Nat /\ faults \in Nat
         /\ Cardinality(AboutCommand(r)) <= 1 + faults
         /\ Waits(r) => Cardinality(AboutCommand(r)) <= faults
<1>1. IsFiniteSet(AboutCommand(r))
  BY DEF Confirming, ConfirmationsCounted
<1> QED BY <1>1, FS_CardinalityType
        DEF Confirming, ConfirmationsCounted, MailTyped, MailboxTypeOK, ServiceTypeOK

(* What a notice says of a command stays true: no mail changes. *)
LEMMA StillConfirms ==
  ASSUME MailKept, NEW notice, Confirms(notice) PROVE Confirms(notice)'
BY DEF MailKept, Confirms, Commands, IsCommand, Kind

(* The number of a command is not that of the session. *)
LEMMA CommandIsNatural ==
  ASSUME MailTyped, NEW notice, Confirms(notice) PROVE notice.ref \in Nat \ {0}
<1>1. DOMAIN inbox \subseteq Nat \ {0}
  BY DEF MailTyped, MailboxTypeOK, MailTypeOK
<1> QED BY <1>1 DEF Confirms, Commands

(* A step that tells U nothing of a command, and loses none that is being  *)
(* deleted except by a fault.                                              *)
LEMMA SilentConfirms ==
  ASSUME MailTyped, Confirming, MailKept,
         UNCHANGED pending, toFlush' \subseteq pending,
         noticeU \subseteq noticeU',
         \A m \in noticeU' : m \in noticeU \/ m.about = Session,
         pc' = "queue" => UNCHANGED <<pc, pos>>,
         AtRecord => faults' = faults + 1 \/ (AtRecord' /\ UNCHANGED toFlush)
  PROVE  Confirming'
<1>1. NoticesTrue'
  BY StillConfirms DEF NoticesTrue, Confirming
<1>2. ASSUME NEW r \in Nat \ {0} PROVE AboutCommand(r)' = AboutCommand(r)
  BY <1>2 DEF AboutCommand, Session
<1>3. JustApplied'
  <2> SUFFICES ASSUME pc' = "queue"
               PROVE  /\ pos \in consumed' /\ AboutCommand(pos)' = {}
                      /\ \A notice \in pending : notice.ref # pos
    BY DEF JustApplied, AboutCommand
  <2>1. pc = "queue" /\ pos \in Nat \ {0}
    BY DEF MailTyped, MailboxTypeOK, MailTypeOK, MailInHand, HandPoints
  <2> QED BY <1>2, <2>1 DEF JustApplied, Confirming, MailKept
<1>4. ConfirmationsCounted'
  <2> SUFFICES ASSUME NEW r \in Nat \ {0}
               PROVE  /\ IsFiniteSet(AboutCommand(r)')
                      /\ Cardinality(AboutCommand(r)') <= 1 + faults'
                      /\ Waits(r)' => Cardinality(AboutCommand(r)') <= faults'
    BY DEF ConfirmationsCounted
  <2>1. \/ faults' = faults + 1
        \/ faults' = faults /\ (Waits(r)' => Waits(r))
    BY DEF MailKept, Waits, First
  <2> QED BY <1>2, <2>1, ConfirmingCounts
<1> QED BY <1>1, <1>3, <1>4 DEF Confirming

LEMMA ApplyConfirms ==
  ASSUME MailTyped, Confirming, MailKept, ApplyCommand PROVE Confirming'
<1>1. /\ pc = "mail" /\ pc' = "queue" /\ pos \notin consumed
      /\ pos \in Nat \ {0} /\ pos \in consumed'
      /\ UNCHANGED <<pending, noticeU, faults, toFlush, pos>>
  BY DEF ApplyCommand, AtMail, Applies, SetBridgeEnabled, worldVars, mailLocals,
         MailTyped, MailboxTypeOK, MailTypeOK, MailInHand, HandPoints
<1>2. NoticesTrue'
  BY <1>1, StillConfirms DEF NoticesTrue, Confirming
<1>3. AboutCommand(pos) = {} /\ \A notice \in pending : notice.ref # pos
  BY <1>1 DEF AboutCommand, Confirming, NoticesTrue, Confirms, Session
<1>4. JustApplied'
  BY <1>1, <1>3 DEF JustApplied, AboutCommand
<1>5. ConfirmationsCounted'
  BY <1>1 DEF Confirming, ConfirmationsCounted, AboutCommand, Waits, AtRecord
<1> QED BY <1>2, <1>4, <1>5 DEF Confirming

LEMMA QueueConfirms ==
  ASSUME MailTyped, Confirming, MailKept, QueueConfirmation PROVE Confirming'
<1> DEFINE new == [ref |-> pos, on |-> (Kind(pos) = "on")]
<1>1. /\ pc = "queue" /\ pc' = "mail" /\ pending' = pending \cup {new}
      /\ UNCHANGED <<noticeU, faults, toFlush>>
  BY DEF QueueConfirmation, QueueNotice, NextMail, Goto, worldVars
<1>2. Confirms(new)
  <2>1. pos \in consumed /\ IsCommand(pos) /\ pos \in DOMAIN inbox
    BY <1>1 DEF JustApplied, Confirming, MailTyped, MailInHand, ConsumedInInbox
  <2> QED BY <2>1 DEF Confirms, Commands
<1>3. new.ref = pos /\ pos \in Nat \ {0} /\ AboutCommand(pos) = {}
  BY <1>1, <1>2, CommandIsNatural DEF JustApplied, Confirming
<1> HIDE DEF new
<1>4. NoticesTrue'
  BY <1>1, <1>2, StillConfirms DEF NoticesTrue, Confirming
<1>5. ConfirmationsCounted'
  <2> SUFFICES ASSUME NEW r \in Nat \ {0}
               PROVE  /\ IsFiniteSet(AboutCommand(r))
                      /\ Cardinality(AboutCommand(r)) <= 1 + faults
                      /\ Waits(r)' => Cardinality(AboutCommand(r)) <= faults
    BY <1>1 DEF ConfirmationsCounted, AboutCommand
  <2>1. CASE r = pos
    BY <1>3, <2>1, ConfirmingCounts, FS_EmptySet
  <2>2. CASE r # pos
    <3>1. Waits(r)' => Waits(r)
      BY <1>1, <1>3, <2>2 DEF Waits, AtRecord
    <3> QED BY <3>1, ConfirmingCounts
  <2> QED BY <2>1, <2>2
<1> QED BY <1>1, <1>4, <1>5 DEF Confirming, JustApplied

(* The notice in hand waits. *)
LEMMA FirstWaits ==
  ASSUME MailTyped, Confirming, toFlush # {}
  PROVE  /\ First \in toFlush /\ First \in pending /\ Confirms(First)
         /\ First.ref \in Nat \ {0} /\ First # Session
         /\ ~AtRecord => Waits(First.ref)
<1>1. First \in toFlush /\ First \in pending /\ Confirms(First)
  BY FirstOfNotices
     DEF MailTyped, MailboxTypeOK, MailTypeOK, Confirming, NoticesTrue
<1>2. First.ref \in Nat \ {0}
  BY <1>1, CommandIsNatural
<1> QED BY <1>1, <1>2 DEF Waits, Session

(* The confirmation in hand goes out, or fails and may have gone out. *)
LEMMA TellingConfirms ==
  ASSUME MailTyped, Confirming, MailKept, SendConfirmation \/ ConfirmationFails
  PROVE  Confirming'
<1> DEFINE new == [mid |-> minted + 1, about |-> First]
<1>0. new.about = First
  OBVIOUS
<1>1. /\ pc = "flush" /\ toFlush # {} /\ ~AtRecord
      /\ noticeU \subseteq noticeU' /\ noticeU' \subseteq noticeU \cup {new}
      /\ UNCHANGED pending /\ toFlush' \subseteq toFlush /\ pc' # "queue"
  BY DEF SendConfirmation, ConfirmationFails, Goto, NoticeReachesU, AtRecord,
         storeVars, mailLocals
<1>2. \/ UNCHANGED <<faults, toFlush>> /\ AtRecord'
      \/ faults' = faults + 1
  BY DEF SendConfirmation, ConfirmationFails, Goto, AtRecord, Fault, mailLocals
<1> HIDE DEF new
<1>3. /\ First \in pending /\ Confirms(First) /\ First.ref \in Nat \ {0}
      /\ Waits(First.ref)
  BY <1>1, FirstWaits
<1>4. NoticesTrue'
  BY <1>0, <1>1, <1>3, StillConfirms DEF NoticesTrue, Confirming
<1>5. ConfirmationsCounted'
  <2> SUFFICES ASSUME NEW r \in Nat \ {0}
               PROVE  /\ IsFiniteSet(AboutCommand(r)')
                      /\ Cardinality(AboutCommand(r)') <= 1 + faults'
                      /\ Waits(r)' => Cardinality(AboutCommand(r)') <= faults'
    BY DEF ConfirmationsCounted
  <2>1. CASE r = First.ref
    <3>1. AboutCommand(r)' \subseteq AboutCommand(r) \cup {new}
      BY <1>1 DEF AboutCommand
    <3>2. /\ IsFiniteSet(AboutCommand(r)') /\ Cardinality(AboutCommand(r)') \in Nat
          /\ Cardinality(AboutCommand(r)') <= Cardinality(AboutCommand(r)) + 1
      BY <3>1, OneMore, ConfirmingCounts
    <3>3. Cardinality(AboutCommand(r)) \in Nat /\ faults \in Nat
          /\ Cardinality(AboutCommand(r)) <= faults
      BY <1>3, <2>1, ConfirmingCounts
    <3>4. faults' = faults => ~Waits(r)'
      <4>1. faults' = faults => UNCHANGED toFlush /\ AtRecord'
        BY <1>2, <3>3
      <4> QED BY <2>1, <4>1 DEF Waits, First
    <3> QED BY <1>2, <3>2, <3>3, <3>4
  <2>2. CASE r # First.ref
    <3>1. AboutCommand(r)' = AboutCommand(r)
      BY <1>0, <1>1, <2>2 DEF AboutCommand
    <3>2. Waits(r)' => Waits(r)
      BY <1>1 DEF Waits
    <3>3. /\ IsFiniteSet(AboutCommand(r))
          /\ Cardinality(AboutCommand(r)) \in Nat /\ faults \in Nat
          /\ Cardinality(AboutCommand(r)) <= 1 + faults
          /\ Waits(r) => Cardinality(AboutCommand(r)) <= faults
      BY ConfirmingCounts
    <3> QED BY <1>2, <3>1, <3>2, <3>3
  <2> QED BY <2>1, <2>2
<1> QED BY <1>1, <1>4, <1>5 DEF Confirming, JustApplied

(* It is deleted, and no other notice of its command waits. *)
LEMMA DeleteConfirms ==
  ASSUME MailTyped, Confirming, MailKept, DeleteConfirmation PROVE Confirming'
<1>1. /\ pc = "flushDelete" /\ pc' = "flush" /\ toFlush # {}
      /\ pending' = pending \ {First} /\ toFlush' = toFlush \ {First}
      /\ UNCHANGED <<noticeU, faults>>
  BY DEF DeleteConfirmation, DeleteNotice, Goto, worldVars, MailTyped, MailInHand
<1>2. First \in pending /\ Confirms(First)
  BY <1>1, FirstWaits
<1>3. NoticesTrue'
  BY <1>1, StillConfirms DEF NoticesTrue, Confirming
<1>4. \A notice \in pending' : notice.ref # First.ref
  <2> SUFFICES ASSUME NEW notice \in pending', notice.ref = First.ref PROVE FALSE
    OBVIOUS
  <2>1. notice \in pending /\ Confirms(notice) /\ notice # First
    BY <1>1 DEF Confirming, NoticesTrue
  <2>2. notice.on = First.on
    BY <1>2, <2>1 DEF Confirms
  <2>3. /\ notice = [ref |-> notice.ref, on |-> notice.on]
        /\ First = [ref |-> First.ref, on |-> First.on]
    BY <1>2, <2>1 DEF MailTyped, MailboxTypeOK, ServiceTypeOK, StoreTypeOK
  <2> QED BY <2>1, <2>2, <2>3
<1>5. ConfirmationsCounted'
  <2>1. ASSUME NEW r \in Nat \ {0}
        PROVE  AboutCommand(r)' = AboutCommand(r) /\ (Waits(r)' => Waits(r))
    BY <1>1, <1>4 DEF AboutCommand, Waits
  <2> QED BY <1>1, <2>1 DEF Confirming, ConfirmationsCounted
<1> QED BY <1>1, <1>3, <1>5 DEF Confirming, JustApplied

(* A whole cycle, and the steps that are of neither cycle. *)
LEMMA CycleConfirms ==
  ASSUME MailTyped, Confirming, MailKept, MailboxCycle PROVE Confirming'
<1> USE DEF AtRecord, storeVars, worldVars, mailVars, mailLocals
<1>0. toFlush \subseteq pending
  BY DEF Confirming, NoticesTrue
<1>1. CASE StartMailbox \/ Poll \/ PollFails \/ SkipMail
  <2>1. /\ UNCHANGED <<pending, toFlush, noticeU>> /\ pc' # "queue" /\ ~AtRecord
    BY <1>1 DEF StartMailbox, Poll, PollFails, SkipMail, AtMail, NextMail, Goto
  <2> QED BY <1>0, <2>1, SilentConfirms
<1>2. CASE PostReply \/ CommitPost \/ PostFails
  <2>1. /\ UNCHANGED <<pending, toFlush, noticeU>> /\ pc' # "queue" /\ ~AtRecord
    BY <1>2 DEF PostReply, CommitPost, PostFails, AtMail, NextMail, Goto
  <2> QED BY <1>0, <2>1, SilentConfirms
<1>3. CASE PostPeerNotFound \/ PostSessionInvalid \/ StartFlush \/ EndMailbox
  <2>1. /\ UNCHANGED <<pending, noticeU>> /\ pc' # "queue" /\ ~AtRecord
        /\ toFlush' \subseteq pending
    BY <1>3 DEF PostPeerNotFound, PostSessionInvalid, StartFlush, EndMailbox,
                AtMail, Invalidate, ProcessEnds, ForgetMailLocals, Goto
  <2> QED BY <2>1, SilentConfirms
<1>4. CASE RecordConfirmation
  <2>1. UNCHANGED <<pending, toFlush, noticeU>> /\ pc' # "queue" /\ AtRecord'
    BY <1>4 DEF RecordConfirmation, Goto
  <2> QED BY <1>0, <2>1, SilentConfirms
<1> QED BY <1>1, <1>2, <1>3, <1>4, ApplyConfirms, QueueConfirms, TellingConfirms,
           DeleteConfirms
        DEF MailboxCycle, MailboxSteps, MailboxFailures

LEMMA SharedConfirms ==
  ASSUME MailTyped, Confirming, MailKept, SharedSteps \/ MailboxEnds
  PROVE  Confirming'
<1> USE DEF AtRecord, storeVars, worldVars, mailVars, mailLocals
<1>0. toFlush \subseteq pending /\ ret # "queue"
  BY DEF Confirming, NoticesTrue, MailTyped, MailboxTypeOK, ServiceTypeOK
<1>1. CASE MailboxEnds
  <2>1. /\ UNCHANGED <<pending, noticeU>> /\ pc' = "down" /\ toFlush' = {}
        /\ AtRecord => faults' = faults + 1
    BY <1>1 DEF MailboxEnds, Crash, Stop, ProcessEnds, ForgetMailLocals, Fault
  <2> QED BY <2>1, SilentConfirms
<1>2. CASE SharedSteps
  <2>1. UNCHANGED <<pending, toFlush, pos>>
    BY <1>2 DEF SharedSteps, Handler, MarkInvalid, SendSessionNotice,
                SessionNoticeFails, RecordSessionNotice, MarkNotified, Lifecycle,
                Start, Setup, SetupInterrupted, Revoke, TimePasses, BackoffElapses
  <2>2. /\ noticeU \subseteq noticeU'
        /\ \A m \in noticeU' : m \in noticeU \/ m.about = Session
    BY <1>2 DEF SharedSteps, Handler, MarkInvalid, SendSessionNotice,
                SessionNoticeFails, RecordSessionNotice, MarkNotified, Lifecycle,
                Start, Setup, SetupInterrupted, Revoke, TimePasses, NoticeReachesU
  <2>3. (AtRecord \/ pc' = "queue") => UNCHANGED pc
    BY <1>0, <1>2
       DEF SharedSteps, Handler, MarkInvalid, SendSessionNotice, SessionNoticeFails,
           RecordSessionNotice, MarkNotified, Lifecycle, Start, Setup,
           SetupInterrupted, Revoke, TimePasses, Goto
  <2> QED BY <1>0, <2>1, <2>2, <2>3, SilentConfirms
<1> QED BY <1>1, <1>2

LEMMA ConfirmingStep ==
  MailTyped /\ Confirming /\ [MailboxNext]_mailboxVars => Confirming'
<1> SUFFICES ASSUME MailTyped, Confirming, [MailboxNext]_mailboxVars
             PROVE  Confirming'
  OBVIOUS
<1>0. MailKept /\ toFlush \subseteq pending
  BY MailIsKept DEF Confirming, NoticesTrue
<1>1. CASE MailboxCycle
  BY <1>0, <1>1, CycleConfirms
<1>2. CASE SharedSteps \/ MailboxEnds
  BY <1>0, <1>2, SharedConfirms
<1>3. CASE \E d \in Dialogs : InboundDelivers(d)
  <2>1. UNCHANGED <<pending, toFlush, noticeU>> /\ pc' # "queue" /\ ~AtRecord
    BY <1>3 DEF InboundDelivers, mailLocals, AtRecord
  <2> QED BY <1>0, <2>1, SilentConfirms
<1>4. CASE MailWorld \/ UNCHANGED mailboxVars
  <2>1. UNCHANGED <<pending, toFlush, noticeU, pc, pos>>
    BY <1>4, ArrivalGrows DEF mailboxVars, serviceVars, storeVars, worldVars, mailLocals
  <2> QED BY <1>0, <2>1, SilentConfirms DEF AtRecord
<1> QED BY <1>1, <1>2, <1>3, <1>4 DEF MailboxNext, SharedSteps

LEMMA NoneConfirmed ==
  pending = {} /\ toFlush = {} /\ noticeU = {} /\ faults = 0 /\ pc # "queue"
    => Confirming
<1> SUFFICES ASSUME pending = {}, toFlush = {}, noticeU = {}, faults = 0, pc # "queue"
             PROVE  Confirming
  OBVIOUS
<1>1. \A r \in Nat \ {0} : AboutCommand(r) = {}
  BY DEF AboutCommand
<1>2. ConfirmationsCounted
  BY <1>1, FS_EmptySet DEF ConfirmationsCounted
<1> QED BY <1>2 DEF Confirming, NoticesTrue, JustApplied

LEMMA ConfirmingSuffices == MailTyped /\ Confirming => ConfirmationsTrue
<1> SUFFICES ASSUME MailTyped, Confirming, NEW m \in noticeU, m.about # Session
             PROVE  /\ Confirms(m.about)
                    /\ Cardinality(AboutCommand(m.about.ref)) <= 1 + faults
  BY DEF ConfirmationsTrue, Confirms, AboutCommand
<1>1. Confirms(m.about)
  BY DEF Confirming, NoticesTrue
<1> QED BY <1>1, CommandIsNatural, ConfirmingCounts

(* A confirmation tells U of a command that was applied, and what it said; *)
(* it goes out at most once more than there were faults.                   *)
THEOREM ConfirmationsHold == MailboxSpec => []ConfirmationsTrue
<1> DEFINE Inv == MailTyped /\ Confirming
<1>1. MailboxInit => Inv
  BY MailInitTyped, NoneConfirmed
     DEF MailboxInit, MailInit, MailLocalsInit, ServiceInit, StoreInit
<1>2. Inv /\ [MailboxNext]_mailboxVars => Inv'
  BY MailboxNextTyped, ConfirmingStep
<1>3. Inv => ConfirmationsTrue
  BY ConfirmingSuffices
<1> QED BY <1>1, <1>2, <1>3, PTL DEF MailboxSpec

---------------------------------------------------------------------------
(* The session notices, in the mailbox process.  What waits is a command's *)
(* confirmation, so only invalidate_session sends U a session notice.      *)

LEMMA MailboxTellsNothing ==
  ASSUME MailTyped, Confirming, MailboxCycle PROVE TellsNothing
<1> USE DEF TellsNothing, SessionNotices, HandlerPoints, storeVars, worldVars
<1>1. CASE StartMailbox \/ Poll \/ PollFails \/ SkipMail \/ QueueConfirmation
  BY <1>1 DEF StartMailbox, Poll, PollFails, SkipMail, QueueConfirmation, AtMail,
              Fault, Goto
<1>2. CASE ApplyCommand \/ PostReply \/ CommitPost \/ PostFails
  BY <1>2 DEF ApplyCommand, PostReply, CommitPost, PostFails, AtMail, Fault, Goto
<1>3. CASE PostPeerNotFound \/ PostSessionInvalid \/ StartFlush \/ EndMailbox
  BY <1>3 DEF PostPeerNotFound, PostSessionInvalid, StartFlush, EndMailbox,
              AtMail, Invalidate, ProcessEnds, Goto
<1>4. CASE RecordConfirmation \/ DeleteConfirmation
  BY <1>4 DEF RecordConfirmation, DeleteConfirmation, Goto
<1>5. CASE SendConfirmation \/ ConfirmationFails
  <2>1. First # Session
    BY <1>5, FirstWaits DEF SendConfirmation, ConfirmationFails
  <2>2. UNCHANGED SessionNotices
    BY <1>5, <2>1 DEF SendConfirmation, ConfirmationFails, NoticeReachesU
  <2> HIDE DEF SessionNotices
  <2> QED BY <1>5, <2>2 DEF SendConfirmation, ConfirmationFails, Goto, Fault
<1> QED BY <1>1, <1>2, <1>3, <1>4, <1>5
        DEF MailboxCycle, MailboxSteps, MailboxFailures

LEMMA MailboxCounts ==
  ASSUME MailTyped, Confirming, NoticesCounted, [MailboxNext]_mailboxVars
  PROVE  NoticesCounted'
<1>0. ServiceTypeOK
  BY DEF MailTyped, MailboxTypeOK
<1>1. CASE MailboxCycle
  BY <1>0, <1>1, MailboxTellsNothing, CycleCounts
<1>2. CASE SharedSteps \/ MailboxEnds
  BY <1>0, <1>2, SharedCounts DEF SharedSteps, MailboxEnds, World
<1>3. CASE \/ \E d \in Dialogs : InboundDelivers(d)
           \/ MailWorld \/ UNCHANGED mailboxVars
  <2>1. /\ UNCHANGED <<valid, notified, authorized, noticeU, pc>>
        /\ faults' = faults \/ faults' = faults + 1
    BY <1>3, ArrivalGrows DEF InboundDelivers, mailboxVars, serviceVars, storeVars,
                              worldVars, Fault
  <2> QED BY <1>0, <2>1, IdleCounts
<1> QED BY <1>1, <1>2, <1>3 DEF MailboxNext, SharedSteps

(* U is told of an invalid session once, and once more for each fault: a   *)
(* revocation, a crash before the store says so, a mail that went out in   *)
(* spite of its error.                                                     *)
THEOREM SessionNoticesCostFaults == MailboxSpec => []SessionNoticesNeedFaults
<1> DEFINE Inv == MailTyped /\ Confirming /\ NoticesCounted
<1>1. MailboxInit => Inv
  BY MailInitTyped, NoneConfirmed, NoneTold
     DEF MailboxInit, MailInit, MailLocalsInit, ServiceInit, StoreInit
<1>2. Inv /\ [MailboxNext]_mailboxVars => Inv'
  BY MailboxNextTyped, ConfirmingStep, MailboxCounts
<1>3. Inv => SessionNoticesNeedFaults
  BY CountsNotices
<1> QED BY <1>1, <1>2, <1>3, PTL DEF MailboxSpec

---------------------------------------------------------------------------
(* The promise of module Answers.  Towards U and Telegram a step of the    *)
(* process is one of six deeds, or none of them.                           *)

Rests == UNCHANGED <<mailU, noticeU, minted, inbox, enabled, consumed, posts>>

Delivers ==
  /\ enabled
  /\ minted' = minted + 1
  /\ \E m : m.mid = minted + 1 /\ mailU' = mailU \cup {m}
  /\ UNCHANGED <<noticeU, inbox, enabled, consumed, posts>>

Tells ==
  /\ minted' = minted + 1
  /\ \E about \in toFlush \cup {Session} :
       noticeU' = noticeU \cup {[mid |-> minted + 1, about |-> about]}
  /\ UNCHANGED <<mailU, inbox, enabled, consumed, posts>>

Obeys ==
  /\ pc = "mail" /\ pos \in DOMAIN inbox /\ Applies(pos)
  /\ consumed' = consumed \cup {pos}
  /\ enabled' = (Kind(pos) = "on")
  /\ UNCHANGED <<mailU, noticeU, minted, inbox, posts>>

Says ==
  /\ pos \in DOMAIN inbox /\ Posts(pos) /\ Posted(Target)
  /\ UNCHANGED <<mailU, noticeU, minted, inbox, enabled, consumed>>

Settles ==
  /\ pc = "commitReply"
  /\ consumed' = consumed \cup {pos}
  /\ UNCHANGED <<mailU, noticeU, minted, inbox, enabled, posts>>

Deeds == Rests \/ Delivers \/ Tells \/ MailWorld \/ Obeys \/ Says \/ Settles

LEMMA QuietDeeds == ASSUME MailTyped, QuietSteps PROVE Rests \/ Tells
<1> USE DEF Rests, storeVars, worldVars, mailVars
<1>1. CASE StartMailbox \/ Poll \/ PollFails \/ SkipMail \/ QueueConfirmation
  BY <1>1 DEF StartMailbox, Poll, PollFails, SkipMail, QueueConfirmation
<1>2. CASE PostPeerNotFound \/ PostSessionInvalid \/ StartFlush
  BY <1>2 DEF PostPeerNotFound, PostSessionInvalid, StartFlush
<1>3. CASE SendConfirmation \/ ConfirmationFails
  <2>1. First \in toFlush
    BY <1>3, FirstOfNotices
       DEF SendConfirmation, ConfirmationFails, MailTyped, MailboxTypeOK, MailTypeOK
  <2> QED BY <1>3, <2>1
          DEF SendConfirmation, ConfirmationFails, NoticeReachesU, Tells
<1>4. CASE RecordConfirmation \/ DeleteConfirmation \/ EndMailbox \/ MailboxEnds
  BY <1>4 DEF RecordConfirmation, DeleteConfirmation, EndMailbox, MailboxEnds, Crash,
              Stop
<1>5. CASE SharedSteps
  <2>1. CASE SendSessionNotice \/ SessionNoticeFails
    BY <1>5, <2>1
       DEF SharedSteps, SendSessionNotice, SessionNoticeFails, NoticeReachesU, Tells
  <2>2. CASE MarkInvalid \/ RecordSessionNotice \/ MarkNotified
    BY <1>5, <2>2 DEF SharedSteps, MarkInvalid, RecordSessionNotice, MarkNotified
  <2>3. CASE Lifecycle \/ Revoke \/ TimePasses
    BY <1>5, <2>3 DEF SharedSteps, Lifecycle, Start, Setup, SetupInterrupted, Revoke,
                      TimePasses, BackoffElapses
  <2> QED BY <1>5, <2>1, <2>2, <2>3 DEF SharedSteps, Handler
<1> QED BY <1>1, <1>2, <1>3, <1>4, <1>5 DEF QuietSteps

LEMMA MailboxDeeds ==
  ASSUME MailTyped, [MailboxNext]_mailboxVars PROVE Deeds
<1> USE DEF Deeds
<1>1. CASE UNCHANGED mailboxVars
  BY <1>1 DEF Rests, mailboxVars, serviceVars, storeVars, worldVars, mailVars
<1>2. CASE ApplyCommand
  <2>1. pos \in DOMAIN inbox
    BY <1>2, PosInInbox DEF ApplyCommand, AtMail, HandPoints
  <2> QED BY <1>2, <2>1 DEF ApplyCommand, AtMail, SetBridgeEnabled, Obeys, worldVars,
                            mailVars
<1>3. CASE PostReply \/ PostFails
  <2>1. pos \in DOMAIN inbox
    BY <1>3, PosInInbox DEF PostReply, PostFails, AtMail, HandPoints
  <2> QED BY <1>3, <2>1 DEF PostReply, PostFails, Says, Rests, storeVars
<1>4. CASE CommitPost
  BY <1>4 DEF CommitPost, CommitReply, Goto, Settles, worldVars, mailVars
<1>5. CASE \E d \in Dialogs : InboundDelivers(d)
  <2>1. PICK d \in Dialogs : InboundDelivers(d)
    BY <1>5
  <2> DEFINE m == [mid |-> minted + 1, dialog |-> d, msgs |-> {Len(chat[d]) + 1}]
  <2>2. m.mid = minted + 1 /\ mailU' = mailU \cup {m}
    BY <2>1 DEF InboundDelivers
  <2> HIDE DEF m
  <2>3. Delivers
    BY <2>1, <2>2 DEF InboundDelivers, DeliveryAllowed, Delivers, mailVars
  <2> QED BY <2>3
<1> QED BY <1>1, <1>2, <1>3, <1>4, <1>5, QuietDeeds, MailboxNextCases

(* What waits to be told is told of the command in hand once it is applied; *)
(* nothing but what waits is about to be sent.                             *)
Queues ==
  /\ toFlush' \subseteq pending'
  /\ \A notice \in pending' :
       \/ notice \in pending
       \/ pc = "queue" /\ notice.ref = pos /\ notice.on = (Kind(pos) = "on")

LEMMA MailboxQueues ==
  ASSUME MailTyped, toFlush \subseteq pending, [MailboxNext]_mailboxVars PROVE Queues
<1> USE DEF Queues, storeVars
<1>1. CASE QueueConfirmation
  BY <1>1 DEF QueueConfirmation, QueueNotice, NextMail, Goto
<1>2. CASE DeleteConfirmation
  BY <1>2 DEF DeleteConfirmation, DeleteNotice
<1>3. CASE \/ StartMailbox \/ Poll \/ PollFails \/ SkipMail \/ PostPeerNotFound
           \/ PostSessionInvalid \/ StartFlush \/ SendConfirmation
           \/ ConfirmationFails \/ RecordConfirmation \/ EndMailbox \/ MailboxEnds
  BY <1>3
     DEF StartMailbox, Poll, PollFails, SkipMail, PostPeerNotFound,
         PostSessionInvalid, StartFlush, SendConfirmation, ConfirmationFails,
         RecordConfirmation, EndMailbox, MailboxEnds, Crash, Stop, NextMail,
         ForgetMailLocals, mailLocals
<1>4. CASE SharedSteps
  BY <1>4
     DEF SharedSteps, Handler, MarkInvalid, SendSessionNotice, SessionNoticeFails,
         RecordSessionNotice, MarkNotified, Lifecycle, Start, Setup,
         SetupInterrupted, Revoke, TimePasses, BackoffElapses, mailLocals
<1>5. CASE ApplyCommand \/ PostReply \/ CommitPost \/ PostFails
  BY <1>5 DEF ApplyCommand, PostReply, CommitPost, PostFails, NextMail, mailLocals
<1>6. CASE MailWorld \/ UNCHANGED mailboxVars \/ \E d \in Dialogs : InboundDelivers(d)
  BY <1>6, ArrivalGrows DEF InboundDelivers, mailboxVars, serviceVars, mailLocals
<1> QED BY <1>1, <1>2, <1>3, <1>4, <1>5, <1>6, MailboxNextCases DEF QuietSteps

(* U has each notice that the bridge recorded, and the one it is about to  *)
(* record.                                                                 *)
NoticesSent ==
  /\ \A mid \in sentNotice : \E m \in noticeU : m.mid = mid
  /\ pc \in RecordPoints => \E m \in noticeU : m.mid = minted

(* A post is that of a mail that says something, and where its id says. *)
PostsStand ==
  \A p \in posts :
    /\ p.ref \in DOMAIN inbox /\ Wish(p.ref) = "say"
    /\ p.id <= Len(chat[p.dialog])

Records ==
  /\ noticeU \subseteq noticeU'
  /\ \A mid \in sentNotice' : mid \in sentNotice \/ (pc \in RecordPoints /\ mid = minted)
  /\ pc' \in RecordPoints =>
       \/ pc \in RecordPoints /\ UNCHANGED minted
       \/ \E m \in noticeU' : m.mid = minted'

LEMMA RecordedWasSent == ASSUME NoticesSent, Records PROVE NoticesSent'
BY DEF NoticesSent, Records

LEMMA NoticeIsNew ==
  ASSUME NEW about, NoticeReachesU(about)
  PROVE  noticeU \subseteq noticeU' /\ \E m \in noticeU' : m.mid = minted'
<1> DEFINE new == [mid |-> minted + 1, about |-> about]
<1>1. noticeU' = noticeU \cup {new} /\ new.mid = minted'
  BY DEF NoticeReachesU
<1> HIDE DEF new
<1> QED BY <1>1

LEMMA QuietRecords == ASSUME MailTyped, QuietSteps PROVE Records
<1> USE DEF Records, RecordPoints, storeVars, worldVars
<1>r. ret \notin RecordPoints
  BY DEF MailTyped, MailboxTypeOK, ServiceTypeOK
<1>1. CASE StartMailbox \/ Poll \/ PollFails \/ SkipMail \/ QueueConfirmation
  BY <1>1 DEF StartMailbox, Poll, PollFails, SkipMail, AtMail, QueueConfirmation, Goto
<1>2. CASE PostPeerNotFound \/ PostSessionInvalid \/ StartFlush
  BY <1>2 DEF PostPeerNotFound, PostSessionInvalid, StartFlush, Invalidate,
              ProcessEnds, Goto
<1>3. CASE SendConfirmation \/ ConfirmationFails
  BY <1>3, NoticeIsNew DEF SendConfirmation, ConfirmationFails, Goto
<1>4. CASE RecordConfirmation \/ DeleteConfirmation \/ EndMailbox \/ MailboxEnds
  BY <1>4 DEF RecordConfirmation, RecordNoticeSent, DeleteConfirmation, EndMailbox,
              MailboxEnds, Invalidate, ProcessEnds, Crash, Stop, Goto
<1>5. CASE SharedSteps
  <2>1. CASE SendSessionNotice \/ SessionNoticeFails
    BY <1>r, <2>1, NoticeIsNew DEF SendSessionNotice, SessionNoticeFails, Goto
  <2>2. CASE MarkInvalid \/ RecordSessionNotice \/ MarkNotified
    BY <1>r, <2>2 DEF MarkInvalid, RecordSessionNotice, RecordNoticeSent,
                      MarkNotified, Goto
  <2>3. CASE Lifecycle \/ Revoke \/ TimePasses
    BY <2>3 DEF Lifecycle, Start, Setup, SetupInterrupted, Revoke, TimePasses,
                BackoffElapses, Goto
  <2> QED BY <1>5, <2>1, <2>2, <2>3 DEF SharedSteps, Handler
<1> QED BY <1>1, <1>2, <1>3, <1>4, <1>5 DEF QuietSteps

LEMMA MailboxRecords ==
  ASSUME MailTyped, [MailboxNext]_mailboxVars PROVE Records
<1> USE DEF Records, RecordPoints
<1>1. CASE UNCHANGED mailboxVars \/ MailWorld
  BY <1>1, ArrivalGrows DEF mailboxVars, serviceVars, storeVars, worldVars
<1>2. CASE ApplyCommand \/ PostReply \/ CommitPost \/ PostFails
  BY <1>2 DEF ApplyCommand, PostReply, CommitPost, PostFails, AtMail, Goto, storeVars,
              worldVars
<1>3. CASE \E d \in Dialogs : InboundDelivers(d)
  BY <1>3 DEF InboundDelivers
<1> QED BY <1>1, <1>2, <1>3, QuietRecords, MailboxNextCases

(* The Message-IDs of a deed are counted. *)
LEMMA DeedsMinted ==
  ASSUME MailTyped, MidsMinted, Deeds PROVE MidsMinted'
<1>0. /\ minted \in Nat
      /\ \A m \in mailU \cup noticeU : m.mid \in Nat /\ m.mid <= minted
      /\ \A r \in DOMAIN inbox : Parent(r) \in Nat /\ Parent(r) <= minted
  BY ParentIsNatural DEF MidsMinted, MailTyped, MailboxTypeOK, ServiceTypeOK
<1>1. CASE Rests \/ Obeys \/ Says \/ Settles
  BY <1>1 DEF Rests, Obeys, Says, Settles, MidsMinted, Parent
<1>2. CASE Delivers
  BY <1>0, <1>2 DEF Delivers, MidsMinted, Parent
<1>3. CASE Tells
  <2>1. PICK about : /\ noticeU' = noticeU \cup {[mid |-> minted + 1, about |-> about]}
                     /\ minted' = minted + 1 /\ UNCHANGED <<mailU, inbox>>
    BY <1>3 DEF Tells
  <2>2. \A m \in (mailU \cup noticeU)' : m \in mailU \cup noticeU \/ m.mid = minted + 1
    BY <2>1
  <2> QED BY <1>0, <2>1, <2>2 DEF MidsMinted, Parent
<1>4. CASE MailWorld
  <2>1. UNCHANGED <<minted, mailU, noticeU>>
    BY <1>4, ArrivalGrows DEF serviceVars, worldVars
  <2>2. inbox'[Len(inbox) + 1].parent <= minted
    BY <1>0, <1>4, ArrivalGrows DEF InU
  <2> QED BY <1>0, <1>4, <2>1, <2>2, ArrivalGrows DEF MidsMinted, Parent
<1> QED BY <1>1, <1>2, <1>3, <1>4 DEF Deeds

(* No message of a dialog goes away. *)
ChatsStay == \A d \in Dialogs : Len(chat[d]) <= Len(chat'[d])

LEMMA PostStands ==
  ASSUME MailTyped, Says PROVE PostsStand => PostsStand' /\ ChatsStay
<1> SUFFICES ASSUME PostsStand PROVE PostsStand' /\ ChatsStay
  OBVIOUS
<1>1. /\ Target \in Dialogs /\ pos \in DOMAIN inbox /\ Wish(pos) = "say"
      /\ chat' = [chat EXCEPT ![Target] = Append(@, "addressed")]
      /\ posts' = posts \cup
           {[ref |-> pos, dialog |-> Target, id |-> Len(chat[Target]) + 1]}
      /\ UNCHANGED inbox
  <2>1. inbox[pos] \in [kind : InboxKinds, parent : Nat]
    <3> DEFINE Mails == [kind : InboxKinds, parent : Nat]
    <3>1. inbox \in Seq(Mails) /\ pos \in DOMAIN inbox
      BY DEF Says, MailTyped, MailboxTypeOK, MailTypeOK
    <3> HIDE DEF Mails
    <3>2. inbox[pos] \in Mails
      BY <3>1
    <3> QED BY <3>2 DEF Mails
  <2>2. Wish(pos) = "say"
    BY <2>1 DEF Says, Posts, IsReply, HasBody, Trusted, IsCommand, Wish, Kind, InboxKinds
  <2> QED BY <2>2, TargetInLedger DEF Says, Posted, Posts
<1>2. /\ \A d \in Dialogs : Len(chat[d]) \in Nat
      /\ Len(chat'[Target]) = Len(chat[Target]) + 1
      /\ \A d \in Dialogs : d # Target => Len(chat'[d]) = Len(chat[d])
  BY <1>1 DEF MailTyped, MailboxTypeOK, ServiceTypeOK, MsgKinds
<1>3. ChatsStay
  <2> SUFFICES ASSUME NEW d \in Dialogs PROVE Len(chat[d]) <= Len(chat'[d])
    BY DEF ChatsStay
  <2> QED BY <1>2
<1>4. \A p \in posts : p.dialog \in Dialogs /\ p.id \in Nat
  BY DEF MailTyped, MailboxTypeOK, MailTypeOK
<1>5. ASSUME NEW p \in posts PROVE p.id <= Len(chat'[p.dialog])
  <2>1. p.dialog \in Dialogs /\ p.id \in Nat /\ p.id <= Len(chat[p.dialog])
    BY <1>4 DEF PostsStand
  <2>2. \/ Len(chat'[p.dialog]) = Len(chat[p.dialog]) + 1
        \/ Len(chat'[p.dialog]) = Len(chat[p.dialog])
    BY <1>2, <2>1
  <2> QED BY <1>2, <2>1, <2>2
<1> DEFINE new == [ref |-> pos, dialog |-> Target, id |-> Len(chat[Target]) + 1]
<1>6. new.ref = pos /\ new.dialog = Target /\ new.id <= Len(chat'[Target])
  <2>1. Len(chat[Target]) + 1 <= Len(chat'[Target])
    BY <1>1, <1>2
  <2> QED BY <2>1
<1>7. posts' = posts \cup {new}
  BY <1>1
<1> HIDE DEF new
<1>8. PostsStand'
  BY <1>1, <1>5, <1>6, <1>7 DEF PostsStand, Wish, IsCommand, Kind
<1> QED BY <1>3, <1>8

LEMMA OldPostsStand ==
  ASSUME MailTyped, PostsStand, ChatsStay, chat' \in [Dialogs -> Seq(MsgKinds)],
         UNCHANGED posts, UNCHANGED inbox \/ MailWorld
  PROVE  PostsStand'
<1>1. \A r \in DOMAIN inbox : r \in DOMAIN inbox' /\ inbox'[r] = inbox[r]
  BY ArrivalGrows
<1>2. ASSUME NEW p \in posts PROVE p.id <= Len(chat'[p.dialog])
  <2>1. /\ p.dialog \in Dialogs /\ p.id \in Nat
        /\ Len(chat[p.dialog]) \in Nat /\ Len(chat'[p.dialog]) \in Nat
    BY DEF MailTyped, MailboxTypeOK, MailTypeOK, ServiceTypeOK
  <2> QED BY <2>1 DEF PostsStand, ChatsStay
<1> QED BY <1>1, <1>2 DEF PostsStand, Wish, IsCommand, Kind

LEMMA DeedsStand ==
  ASSUME MailTyped, MailTyped', PostsStand, Deeds, ~Says => ChatsStay
  PROVE  PostsStand'
<1>1. chat' \in [Dialogs -> Seq(MsgKinds)]
  BY DEF MailTyped, MailboxTypeOK, ServiceTypeOK
<1>2. ~Says => UNCHANGED posts /\ (UNCHANGED inbox \/ MailWorld)
  BY ArrivalGrows DEF Deeds, Rests, Delivers, Tells, Obeys, Settles
<1> QED BY <1>1, <1>2, PostStands, OldPostsStand

LEMMA MailboxChatsStay ==
  ASSUME MailTyped, [MailboxNext]_mailboxVars, ~Says PROVE ChatsStay
<1>0. \A d \in Dialogs : Len(chat[d]) \in Nat
  BY DEF MailTyped, MailboxTypeOK, ServiceTypeOK
<1>1. CASE UNCHANGED chat
  BY <1>0, <1>1 DEF ChatsStay
<1>2. CASE \E d \in Dialogs : InboundDelivers(d)
  <2>1. PICK d \in Dialogs : chat' = [chat EXCEPT ![d] = Append(@, "addressed")]
    BY <1>2 DEF InboundDelivers
  <2>2. \A e \in Dialogs : \/ Len(chat'[e]) = Len(chat[e]) + 1
                           \/ Len(chat'[e]) = Len(chat[e])
    BY <2>1 DEF MailTyped, MailboxTypeOK, ServiceTypeOK, MsgKinds
  <2> SUFFICES ASSUME NEW e \in Dialogs PROVE Len(chat[e]) <= Len(chat'[e])
    BY DEF ChatsStay
  <2> QED BY <1>0, <2>2
<1>3. CASE PostReply \/ PostFails
  <2>1. ~Posted(Target)
    BY <1>3, PosInInbox
       DEF PostReply, PostFails, Says, AtMail, HandPoints, storeVars
  <2> QED BY <1>1, <1>3, <2>1 DEF PostReply, PostFails
<1>4. CASE SharedSteps
  BY <1>1, <1>4
     DEF SharedSteps, Handler, MarkInvalid, SendSessionNotice, SessionNoticeFails,
         RecordSessionNotice, MarkNotified, Lifecycle, Start, Setup,
         SetupInterrupted, Revoke, TimePasses, worldVars
<1>5. CASE QuietSteps /\ ~SharedSteps
  BY <1>1, <1>5
     DEF QuietSteps, StartMailbox, Poll, PollFails, SkipMail, QueueConfirmation,
         PostPeerNotFound, PostSessionInvalid, StartFlush, SendConfirmation,
         ConfirmationFails, RecordConfirmation, DeleteConfirmation, EndMailbox,
         MailboxEnds, Crash, Stop, worldVars
<1>6. CASE ApplyCommand \/ CommitPost \/ MailWorld \/ UNCHANGED mailboxVars
  BY <1>1, <1>6, ArrivalGrows
     DEF ApplyCommand, CommitPost, mailboxVars, serviceVars, worldVars
<1> QED BY <1>2, <1>3, <1>4, <1>5, <1>6, MailboxNextCases

---------------------------------------------------------------------------
(* What each deed is to U, in the terms of Answers.                        *)

LEMMA MidsInUse == {m.mid : m \in Letters \cup noticeU} = InU
<1>1. \A m \in mailU : \E letter \in Letters : letter.mid = m.mid
  <2> SUFFICES ASSUME NEW m \in mailU
               PROVE  \E letter \in Letters : letter.mid = m.mid
    OBVIOUS
  <2> DEFINE letter == [mid |-> m.mid, dialog |-> m.dialog]
  <2>1. letter \in Letters /\ letter.mid = m.mid
    BY DEF Letters
  <2> HIDE DEF letter
  <2> QED BY <2>1
<1>2. \A letter \in Letters : \E m \in mailU : letter.mid = m.mid
  BY DEF Letters
<1>3. \A mid : mid \in {m.mid : m \in Letters \cup noticeU} <=> mid \in InU
  BY <1>1, <1>2 DEF InU
<1> QED BY <1>3

LEMMA NextMidIsNew ==
  ASSUME MailTyped, MidsMinted PROVE minted + 1 \notin InU
<1>1. \A m \in mailU \cup noticeU : m.mid \in Nat /\ m.mid <= minted
  BY DEF MidsMinted, MailTyped, MailboxTypeOK, ServiceTypeOK
<1>2. minted \in Nat
  BY DEF MailTyped, MailboxTypeOK, ServiceTypeOK
<1> QED BY <1>1, <1>2 DEF InU

LEMMA WrittenStays == UNCHANGED inbox => UNCHANGED Written
BY DEF Written, Wish, IsCommand, Kind, Parent

LEMMA WrittenIs ==
  /\ DOMAIN Written = DOMAIN inbox
  /\ \A r \in DOMAIN inbox : /\ Written[r].wish = Wish(r)
                             /\ Written[r].answers = Parent(r)
BY DEF Written

LEMMA CommandsAreOrders ==
  /\ Commands = {r \in DOMAIN Written : Written[r].wish \in {"on", "off"}}
  /\ \A r \in Commands : Written[r].wish = Kind(r)
  /\ \A r \in Commands : (Written[r].wish = "on") = (Kind(r) = "on")
<1>1. \A r \in DOMAIN inbox : IsCommand(r) <=> Wish(r) \in {"on", "off"}
  BY DEF Wish, IsCommand
<1>2. \A r \in DOMAIN inbox : IsCommand(r) => Wish(r) = Kind(r)
  BY DEF Wish
<1> QED BY <1>1, <1>2, WrittenIs DEF Commands

LEMMA DeliveryIsLetter ==
  ASSUME MailTyped, MidsMinted, Delivers
  PROVE  \E letter \in Letters' \ Letters :
           letter.mid \notin InU /\ Letters' = Letters \cup {letter}
<1>1. PICK m : m.mid = minted + 1 /\ mailU' = mailU \cup {m}
  BY DEF Delivers
<1> DEFINE letter == [mid |-> m.mid, dialog |-> m.dialog]
<1>2. Letters' = Letters \cup {letter}
  BY <1>1 DEF Letters
<1>3. letter.mid \notin InU
  BY <1>1, NextMidIsNew
<1>4. \A x \in Letters : x.mid \in InU
  BY DEF Letters, InU
<1> HIDE DEF letter
<1> QED BY <1>2, <1>3, <1>4

LEMMA TellingIsNotice ==
  ASSUME MailTyped, MidsMinted, Tells
  PROVE  \E notice \in noticeU' \ noticeU :
           /\ notice.mid \notin InU /\ noticeU' = noticeU \cup {notice}
           /\ notice.about \in toFlush \cup {Session}
<1>1. PICK about \in toFlush \cup {Session} :
        noticeU' = noticeU \cup {[mid |-> minted + 1, about |-> about]}
  BY DEF Tells
<1> DEFINE notice == [mid |-> minted + 1, about |-> about]
<1>2. /\ noticeU' = noticeU \cup {notice}
      /\ notice.mid \notin InU /\ notice.about \in toFlush \cup {Session}
  BY <1>1, NextMidIsNew
<1>3. \A x \in noticeU : x.mid \in InU
  BY DEF InU
<1> HIDE DEF notice
<1> QED BY <1>2, <1>3

(* A sequence that has one element more is the other with it appended. *)
LEMMA IsAppended ==
  ASSUME NEW S, NEW s \in Seq(S), NEW t \in Seq(S), Len(t) = Len(s) + 1,
         \A i \in 1 .. Len(s) : t[i] = s[i]
  PROVE  t = Append(s, t[Len(s) + 1])
<1> DEFINE e == t[Len(s) + 1]
           u == Append(s, e)
<1>1. Len(s) \in Nat /\ Len(s) + 1 \in 1 .. Len(t)
  OBVIOUS
<1>2. e \in S
  BY <1>1
<1> HIDE DEF e
<1>3. u \in Seq(S) /\ Len(u) = Len(s) + 1
  BY <1>2
<1>4. \A i \in 1 .. Len(t) : t[i] = u[i]
  BY <1>1, <1>2 DEF e
<1> HIDE DEF u
<1>5. /\ t = [i \in 1 .. Len(t) |-> t[i]]
      /\ u = [i \in 1 .. Len(u) |-> u[i]]
  BY <1>3
<1> QED BY <1>3, <1>4, <1>5 DEF u, e

LEMMA ArrivalIsMail ==
  ASSUME MailTyped, MailWorld
  PROVE  \E r \in DOMAIN Written' \ DOMAIN Written :
           /\ Written'[r].wish \in {"on", "off", "say", "nothing"}
           /\ Written'[r].answers \in InU \cup {0}
           /\ Written' = Append(Written, Written'[r])
<1>1. PICK n : n = Len(inbox) + 1
  OBVIOUS
<1>2. /\ Len(inbox) \in Nat /\ DOMAIN inbox = 1 .. Len(inbox)
      /\ DOMAIN inbox' = 1 .. n
      /\ \A r \in DOMAIN inbox : inbox'[r] = inbox[r]
      /\ inbox'[n].parent \in InU \cup {0}
  BY <1>1, ArrivalGrows DEF MailTyped, MailboxTypeOK, MailTypeOK, MailWorld, MailArrives
<1>3. /\ n \in DOMAIN inbox' /\ n \notin DOMAIN inbox
      /\ n = Len(inbox) + 1 /\ n \in Nat
  BY <1>1, <1>2
<1>4. /\ DOMAIN Written' = DOMAIN inbox' /\ DOMAIN Written = DOMAIN inbox
      /\ Written'[n].answers = inbox'[n].parent
  BY <1>3 DEF Written, Wish, IsCommand, Kind, Parent
<1>5. Written'[n].wish \in {"on", "off", "say", "nothing"}
  BY <1>3 DEF Written, Wish, IsCommand, Kind, Parent
<1>6. \A r \in DOMAIN inbox : Written'[r] = Written[r]
  BY <1>2, <1>3 DEF Written, Wish, IsCommand, Kind, Parent
<1>7. Written' = Append(Written, Written'[n])
  <2> DEFINE S == {Written[r] : r \in DOMAIN inbox} \cup {Written'[r] : r \in DOMAIN inbox'}
  <2>1. Written \in [1 .. Len(inbox) -> S] /\ Written' \in [1 .. n -> S]
    BY <1>2, <1>4 DEF Written, Wish, IsCommand, Kind, Parent
  <2> HIDE DEF S
  <2>2. /\ Written \in Seq(S) /\ Len(Written) = Len(inbox)
        /\ Written' \in Seq(S) /\ Len(Written') = n
    BY <1>2, <1>3, <2>1
  <2> QED BY <1>2, <1>3, <1>6, <2>2, IsAppended
<1> QED BY <1>2, <1>3, <1>4, <1>5, <1>7


LEMMA MailInHandIs ==
  ASSUME MailTyped, pos \in DOMAIN inbox
  PROVE  Kind(pos) \in InboxKinds /\ Parent(pos) \in Nat
<1> DEFINE Mails == [kind : InboxKinds, parent : Nat]
<1>1. inbox \in Seq(Mails)
  BY DEF MailTyped, MailboxTypeOK, MailTypeOK
<1> HIDE DEF Mails
<1>2. inbox[pos] \in Mails
  BY <1>1
<1> QED BY <1>2 DEF Mails, Kind, Parent

LEMMA ObeysAnOrder ==
  ASSUME MailTyped, LedgerMailed, NoticesSent, Obeys
  PROVE  pos \in Commands \ consumed /\ Parent(pos) \in InU
<1>1. pos \in DOMAIN inbox /\ Applies(pos)
  BY DEF Obeys
<1>2. pos \in Commands \ consumed
  BY <1>1 DEF Commands, Applies
<1>3. Parent(pos) \in LedgerIds \cup sentNotice
  BY <1>1 DEF Applies, IsBridgeMessage
<1>4. \A mid \in LedgerIds : \E m \in mailU : m.mid = mid
  BY DEF LedgerMailed, LedgerIds
<1>5. \E m \in mailU \cup noticeU : m.mid = Parent(pos)
  BY <1>3, <1>4 DEF NoticesSent
<1> QED BY <1>2, <1>5 DEF InU

LEMMA SayingIsSaid ==
  ASSUME MailTyped, LedgerMailed, PostsStand, Says
  PROVE  /\ enabled
         /\ pos \in DOMAIN inbox \ consumed /\ Wish(pos) = "say"
         /\ \E saying \in posts' \ posts :
              /\ saying.ref = pos
              /\ [mid |-> Parent(pos), dialog |-> saying.dialog] \in Letters
              /\ \A s \in posts : s.dialog = saying.dialog => s.id # saying.id
              /\ posts' = posts \cup {saying}
<1>1. /\ pos \in DOMAIN inbox \ consumed /\ IsReply(pos) /\ HasBody(pos) /\ enabled
      /\ posts' = posts \cup
           {[ref |-> pos, dialog |-> Target, id |-> Len(chat[Target]) + 1]}
  BY DEF Says, Posts, Posted, DeliveryAllowed
<1>2. Wish(pos) = "say"
  BY <1>1, MailInHandIs
     DEF IsReply, HasBody, Trusted, IsCommand, Wish, InboxKinds
<1>3. PICK m \in mailU : m.mid = Parent(pos) /\ m.dialog = Target
  BY <1>1, TargetInLedger DEF LedgerMailed
<1>4. [mid |-> Parent(pos), dialog |-> Target] \in Letters
  <2> DEFINE letter == [mid |-> m.mid, dialog |-> m.dialog]
  <2>1. letter \in Letters
    BY DEF Letters
  <2> QED BY <1>3, <2>1
<1>5. Target \in Dialogs /\ Len(chat[Target]) \in Nat
  BY <1>1, TargetInLedger DEF MailTyped, MailboxTypeOK, ServiceTypeOK
<1>6. \A s \in posts : s.id \in Nat /\ (s.dialog = Target => s.id <= Len(chat[Target]))
  BY DEF PostsStand, MailTyped, MailboxTypeOK, MailTypeOK
<1> DEFINE saying == [ref |-> pos, dialog |-> Target, id |-> Len(chat[Target]) + 1]
<1>7. saying.ref = pos /\ saying.dialog = Target /\ saying.id = Len(chat[Target]) + 1
  OBVIOUS
<1>8. posts' = posts \cup {saying}
  BY <1>1
<1> HIDE DEF saying
<1>9. \A s \in posts : s.dialog = saying.dialog => s.id # saying.id
  BY <1>5, <1>6, <1>7
<1>10. saying \in posts' \ posts
  BY <1>8, <1>9
<1> QED BY <1>1, <1>2, <1>4, <1>7, <1>8, <1>9, <1>10

(* What a mail answers is in U's mailbox, and no earlier order is obeyed   *)
(* after a later one.                                                      *)
CommandsComeLater ==
  pc = "mail" /\ pos \in DOMAIN inbox /\ Applies(pos) =>
    \A s \in consumed \cap Commands : s < pos

LEMMA OrderedComesLater ==
  ASSUME MailTyped, Ordered PROVE CommandsComeLater
<1> SUFFICES ASSUME pc = "mail", pos \in DOMAIN inbox, Applies(pos),
                    NEW s \in consumed \cap Commands, ~(s < pos)
             PROVE  FALSE
  BY DEF CommandsComeLater
<1>1. pos \in Commands /\ pos \notin consumed /\ ~Settled(pos)
  BY DEF Commands, Applies, Settled, Lost, IsBridgeMessage
<1>2. s \in Nat /\ pos \in Nat
  BY DEF Commands, MailTyped, MailboxTypeOK, MailTypeOK
<1>3. s = pos \/ pos < s
  BY <1>2
<1> QED BY <1>1, <1>3 DEF Ordered, SettledBefore

DeedsKnown ==
  /\ MidsMinted /\ LedgerMailed /\ PostInHand
  /\ NoticesTrue /\ NoticesSent /\ PostsStand /\ CommandsComeLater

LEMMA DeedsAnswer ==
  ASSUME MailTyped, DeedsKnown, Deeds PROVE [Answer!Next]_Answer!vars
<1> USE DEF DeedsKnown, Answer!vars
<1>1. CASE Rests
  <2>1. UNCHANGED <<Letters, Written>>
    BY <1>1, WrittenStays DEF Rests, Letters
  <2> QED BY <1>1, <2>1 DEF Rests
<1>i. Answer!InUse = InU
  BY MidsInUse DEF Answer!InUse
<1>2. CASE Delivers
  <2>1. PICK letter \in Letters' \ Letters :
          letter.mid \notin InU /\ Letters' = Letters \cup {letter}
    BY <1>2, DeliveryIsLetter
  <2>2. UNCHANGED <<noticeU, Written, enabled, consumed, posts>> /\ enabled
    BY <1>2, WrittenStays DEF Delivers
  <2>3. Answer!Deliver(letter)
    BY <1>i, <2>1, <2>2 DEF Answer!Deliver
  <2> QED BY <2>1, <2>3 DEF Answer!Next
<1>3. CASE Tells
  <2>1. PICK notice \in noticeU' \ noticeU :
          /\ notice.mid \notin InU /\ noticeU' = noticeU \cup {notice}
          /\ notice.about \in toFlush \cup {Session}
    BY <1>3, TellingIsNotice
  <2>2. UNCHANGED <<Letters, Written, enabled, consumed, posts>>
    BY <1>3, WrittenStays DEF Tells, Letters
  <2>3. Answer!Told(notice.about)
    <3>1. CASE notice.about = Session
      BY <3>1 DEF Session, Answer!Told
    <3>2. CASE notice.about # Session
      <4>1. Confirms(notice.about)
        BY <2>1, <3>2 DEF NoticesTrue
      <4> QED BY <4>1, CommandsAreOrders DEF Confirms, Answer!Told, Answer!Orders
    <3> QED BY <3>1, <3>2
  <2>4. Answer!Tell(notice)
    BY <1>i, <2>1, <2>2, <2>3 DEF Answer!Tell
  <2> QED BY <2>1, <2>4 DEF Answer!Next
<1>4. CASE MailWorld
  <2>1. PICK r \in DOMAIN Written' \ DOMAIN Written :
          /\ Written'[r].wish \in {"on", "off", "say", "nothing"}
          /\ Written'[r].answers \in InU \cup {0}
          /\ Written' = Append(Written, Written'[r])
    BY <1>4, ArrivalIsMail
  <2>2. UNCHANGED <<Letters, noticeU, enabled, consumed, posts>>
    BY <1>4, ArrivalGrows DEF serviceVars, storeVars, worldVars, mailLocals, Letters,
                              MailWorld, MailArrives
  <2>3. Answer!Write(Written'[r])
    BY <1>i, <2>1, <2>2 DEF Answer!Write, Answer!Wishes
  <2> QED BY <2>1, <2>3 DEF Answer!Next
<1>5. CASE Obeys
  <2>1. pos \in Commands \ consumed /\ Parent(pos) \in InU /\ pos \in DOMAIN inbox
    BY <1>5, ObeysAnOrder DEF Commands
  <2>2. UNCHANGED <<Letters, noticeU, Written, posts>>
    BY <1>5, WrittenStays DEF Obeys, Letters
  <2>3. \A s \in consumed \cap Commands : s < pos
    BY <1>5 DEF Obeys, CommandsComeLater
  <2>4. /\ consumed' = consumed \cup {pos}
        /\ enabled' = (Written[pos].wish = "on")
    BY <1>5, <2>1, CommandsAreOrders DEF Obeys
  <2>5. Answer!Orders = Commands
    BY CommandsAreOrders DEF Answer!Orders
  <2>6. Answer!Obey(pos)
    BY <1>i, <2>1, <2>2, <2>3, <2>4, <2>5, WrittenIs DEF Answer!Obey
  <2> QED BY <2>1, <2>4, <2>6 DEF Answer!Next
<1>6. CASE Says
  <2>1. enabled /\ pos \in DOMAIN inbox \ consumed /\ Wish(pos) = "say"
    BY <1>6, SayingIsSaid
  <2>2. PICK saying \in posts' \ posts :
          /\ saying.ref = pos
          /\ [mid |-> Parent(pos), dialog |-> saying.dialog] \in Letters
          /\ \A s \in posts : s.dialog = saying.dialog => s.id # saying.id
          /\ posts' = posts \cup {saying}
    BY <1>6, SayingIsSaid
  <2>3. UNCHANGED <<Letters, noticeU, Written, enabled, consumed>>
    BY <1>6, WrittenStays DEF Says, Letters
  <2>4. pos \in Answer!Sayings \ consumed
    BY <2>1, WrittenIs DEF Answer!Sayings
  <2>5. Answer!Say(saying)
    BY <2>1, <2>2, <2>3, <2>4, WrittenIs DEF Answer!Say
  <2> QED BY <2>2, <2>5 DEF Answer!Next
<1>7. CASE Settles
  <2>1. UNCHANGED <<Letters, noticeU, Written, enabled, posts>>
    BY <1>7, WrittenStays DEF Settles, Letters
  <2>2. consumed' = consumed \cup {pos} /\ \E p \in posts : p.ref = pos
    BY <1>7 DEF Settles, PostInHand
  <2>3. Answer!Settle(pos)
    BY <2>1, <2>2 DEF Answer!Settle
  <2>4. CASE pos \in consumed
    BY <2>1, <2>2, <2>4
  <2>5. CASE pos \notin consumed
    BY <2>2, <2>3, <2>5 DEF Answer!Next
  <2> QED BY <2>4, <2>5
<1> QED BY <1>1, <1>2, <1>3, <1>4, <1>5, <1>6, <1>7 DEF Deeds

LEMMA NothingAnswered == ServiceInit /\ MailInit => Answer!Init
<1> SUFFICES ASSUME ServiceInit, MailInit PROVE Answer!Init
  OBVIOUS
<1>1. Letters = {}
  BY DEF ServiceInit, Letters
<1>2. Written = << >>
  <2>1. inbox = << >>
    BY DEF MailInit
  <2>2. DOMAIN Written = {}
    BY <2>1 DEF Written
  <2> QED BY <2>1, <2>2 DEF Written
<1> QED BY <1>1, <1>2 DEF Answer!Init, ServiceInit, StoreInit, MailInit

(* The mailbox process, its crashes and retries, keeps the promise of      *)
(* module Answers: orders are obeyed in turn and at most once, what a mail *)
(* says is said where it belongs until it counts as acted on, and the      *)
(* notices tell what was done.                                             *)
THEOREM MailboxImplementsAnswers == MailboxSpec => ImplementsAnswers
<1> DEFINE Inv == /\ MailTyped /\ Accounted /\ Ordered /\ Confirming
                  /\ NoticesSent /\ PostsStand
<1>1. MailboxInit => Inv /\ Answer!Init
  <2> SUFFICES ASSUME MailboxInit PROVE Inv /\ Answer!Init
    OBVIOUS
  <2> USE DEF MailboxInit, ServiceInit, StoreInit, MailInit, MailLocalsInit
  <2>1. MailTyped /\ Answer!Init
    BY MailInitTyped, NothingAnswered
  <2>2. Accounted
    BY DEF Accounted, LedgerMailed, PostInHand, PostsInInbox, ConsumedMeansPosted,
           OnlyTrustedMailActs
  <2>3. Ordered
    BY DEF Ordered, MidsMinted, HandInInbox, SettledBefore, HandPoints,
           LastCommandRules, Commands
  <2>4. Confirming
    BY NoneConfirmed
  <2>5. NoticesSent /\ PostsStand
    BY DEF NoticesSent, PostsStand, RecordPoints
  <2> QED BY <2>1, <2>2, <2>3, <2>4, <2>5
<1>2. Inv /\ [MailboxNext]_mailboxVars => Inv' /\ [Answer!Next]_Answer!vars
  <2> SUFFICES ASSUME Inv, [MailboxNext]_mailboxVars
               PROVE  Inv' /\ [Answer!Next]_Answer!vars
    OBVIOUS
  <2>1. Deeds /\ DeedsKnown
    BY MailboxDeeds, OrderedComesLater
       DEF DeedsKnown, Accounted, Ordered, Confirming
  <2>2. [Answer!Next]_Answer!vars
    BY <2>1, DeedsAnswer
  <2>3. (MailTyped /\ Accounted /\ Ordered /\ Confirming)'
    BY MailboxNextTyped, AccountedStep, OrderedStep, ConfirmingStep
  <2>4. NoticesSent' /\ PostsStand'
    BY <2>1, <2>3, MailboxRecords, RecordedWasSent, MailboxChatsStay, DeedsStand
  <2> QED BY <2>2, <2>3, <2>4
<1> QED BY <1>1, <1>2, PTL DEF MailboxSpec, ImplementsAnswers, Answer!Spec
=============================================================================
