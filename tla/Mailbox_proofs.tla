--------------------------- MODULE Mailbox_proofs ---------------------------
(***************************************************************************)
(* Proofs about mail -> Telegram, for every set of dialogs, every INBOX    *)
(* and every bound on the failures.                                        *)
(*                                                                         *)
(* MailInHand says which mail and which notice the process has in hand;    *)
(* without it neither the types nor any other invariant is inductive.      *)
(***************************************************************************)
EXTENDS Mailbox, Service_proofs, WellFoundedInduction, TLAPS

USE DEF tableVars, outsideVars

HandPoints == {"mail", "queue", "commitReply"}

MailInHand ==
  /\ pc \in HandPoints => pos >= 1 /\ end <= Len(inbox)
  /\ pc \in {"queue", "commitReply"} => pos <= end
  /\ pc = "queue" => IsCommand(pos)
  /\ pc = "commitReply" => IsReply(pos)
  /\ pc \in {"flushRecord", "flushDelete"} => toFlush # {}

ConsumedInInbox == consumed \subseteq DOMAIN inbox

MailTyped == MailboxTypeOK /\ MailInHand /\ ConsumedInInbox

---------------------------------------------------------------------------
(* The notice that flush_notices takes first. *)

LEMMA LeastNatural ==
  ASSUME NEW T, T \subseteq Nat, T # {}
  PROVE  \E x \in T : \A y \in T : x <= y
<1>1. PICK x \in T : \A y \in T : ~(<<y, x>> \in OpToRel(<, Nat))
  BY NatLessThanWellFounded, WFMin
<1>2. \A y \in T : ~(y < x)
  BY <1>1 DEF OpToRel
<1> QED BY <1>2

LEMMA FirstOfNotices ==
  ASSUME toFlush \subseteq [ref : Nat, on : BOOLEAN], toFlush # {}
  PROVE  First \in toFlush /\ First \in Subjects
<1> DEFINE refs == {notice.ref : notice \in toFlush}
<1>1. PICK x \in refs : \A y \in refs : x <= y
  <2>1. refs \subseteq Nat /\ refs # {}
    OBVIOUS
  <2> QED BY <2>1, LeastNatural
<1>2. PICK notice \in toFlush : notice.ref = x
  BY <1>1
<1>3. \A other \in toFlush : notice.ref <= other.ref
  BY <1>1, <1>2
<1>4. First \in toFlush
  BY <1>3 DEF First
<1> QED BY <1>4 DEF Subjects

(* The dialog of a reply is that of a row of the ledger. *)
LEMMA TargetInLedger ==
  ASSUME MailTyped, IsReply(pos)
  PROVE  /\ Target \in Dialogs
         /\ \E row \in ledger : row.mid = Parent(pos) /\ row.dialog = Target
BY DEF IsReply, Target, LedgerDialog, LedgerIds, MailTyped, MailboxTypeOK,
       ServiceTypeOK, StoreTypeOK

---------------------------------------------------------------------------
(* Types, and what is in hand.                                             *)

LEMMA MailInitTyped == MailboxInit => MailTyped
<1> SUFFICES ASSUME MailboxInit PROVE MailTyped
  OBVIOUS
<1> USE DEF MailboxInit, ServiceInit, StoreInit, MailInit, MailLocalsInit
<1>1. chat \in [Dialogs -> Seq(MsgKinds)]
  OBVIOUS
<1>2. StoreTypeOK
  BY DEF StoreTypeOK
<1>3. ServiceTypeOK
  BY <1>1, <1>2 DEF ServiceTypeOK, Points
<1>4. MailTypeOK
  BY DEF MailTypeOK
<1> QED BY <1>3, <1>4
        DEF MailTyped, MailboxTypeOK, MailInHand, HandPoints, ConsumedInInbox

(* A mail that arrives changes none of those before it. *)
LEMMA InboxGrows ==
  ASSUME MailTypeOK, NEW kind \in MailKinds, NEW parent, MailArrives(kind, parent),
         parent \in InU \cup {0}, ServiceTypeOK
  PROVE  /\ inbox' \in Seq([kind : InboxKinds, parent : Nat])
         /\ Len(inbox') = Len(inbox) + 1
         /\ \A r \in DOMAIN inbox : r \in DOMAIN inbox' /\ inbox'[r] = inbox[r]
<1>1. parent \in Nat
  BY DEF InU, ServiceTypeOK
<1>2. [kind |-> kind, parent |-> parent] \in [kind : InboxKinds, parent : Nat]
  BY <1>1, MailboxAssumption
<1> QED BY <1>2 DEF MailArrives, MailTypeOK

LEMMA MailWorldTyped == MailTyped /\ MailWorld => MailTyped'
<1> SUFFICES ASSUME MailTyped, MailWorld PROVE MailTyped'
  OBVIOUS
<1> USE DEF MailTyped, MailboxTypeOK
<1>1. PICK kind \in MailKinds, parent \in InU \cup {0} : MailArrives(kind, parent)
  BY DEF MailWorld
<1>2. UNCHANGED <<serviceVars, posts, mailLocals>>
  BY <1>1 DEF MailArrives
<1>3. /\ inbox' \in Seq([kind : InboxKinds, parent : Nat])
      /\ Len(inbox') = Len(inbox) + 1
      /\ \A r \in DOMAIN inbox : r \in DOMAIN inbox' /\ inbox'[r] = inbox[r]
  BY <1>1, InboxGrows
<1>4. ServiceTypeOK'
  BY <1>2 DEF ServiceTypeOK, StoreTypeOK, serviceVars, storeVars, worldVars
<1>5. MailTypeOK'
  BY <1>2, <1>3 DEF MailTypeOK, mailLocals
<1>6. pc \in HandPoints => pos >= 1 /\ end <= Len(inbox) /\ Len(inbox) \in Nat
                           /\ end \in Nat /\ pos \in Nat
  BY DEF MailInHand, MailTypeOK
<1>7. pc \in {"queue", "commitReply"} => pos \in DOMAIN inbox
  BY <1>6 DEF MailInHand, HandPoints, MailTypeOK
<1>8. MailInHand'
  BY <1>2, <1>3, <1>6, <1>7
     DEF MailInHand, HandPoints, IsCommand, IsReply, Trusted, Kind, Parent,
         LedgerIds, serviceVars, storeVars, mailLocals
<1>9. ConsumedInInbox'
  BY <1>2, <1>3 DEF ConsumedInInbox, serviceVars, storeVars
<1> QED BY <1>4, <1>5, <1>8, <1>9

(* A whole delivery. *)
LEMMA InboundDeliversTyped ==
  ASSUME MailTyped, NEW d \in Dialogs, InboundDelivers(d)
  PROVE  MailTyped'
<1> USE DEF MailTyped, MailboxTypeOK, ServiceTypeOK, StoreTypeOK
<1>0. "addressed" \in MsgKinds /\ Len(chat[d]) \in Nat
  BY DEF MsgKinds
<1>1. chat' \in [Dialogs -> Seq(MsgKinds)]
  BY <1>0, AppendTyped DEF InboundDelivers
<1>2. mailU' \subseteq [mid : Nat, dialog : Dialogs, msgs : SUBSET Nat]
  BY <1>0 DEF InboundDelivers
<1>3. minted' \in Nat
  BY DEF InboundDelivers
<1>4. cursor' \in [Dialogs -> Nat]
  BY <1>0 DEF InboundDelivers, CommitDelivery, AdvanceCursor, AtLeast
<1>5. ledger' \subseteq [mid : Nat, dialog : Dialogs]
  BY DEF InboundDelivers, CommitDelivery
<1>6. faults' \in Nat
  BY DEF InboundDelivers, Fault
<1>7. StoreTypeOK' /\ ServiceTypeOK'
  BY <1>1, <1>2, <1>3, <1>4, <1>5, <1>6 DEF InboundDelivers
<1>8. MailTypeOK' /\ ConsumedInInbox'
  BY DEF InboundDelivers, MailTypeOK, ConsumedInInbox, mailVars, mailLocals
<1>9. MailInHand'
  BY DEF InboundDelivers, MailInHand, HandPoints
<1> QED BY <1>7, <1>8, <1>9

(* No shared step puts a mail in hand. *)
LEMMA MailSharedTyped ==
  ASSUME MailTyped, Handler \/ Lifecycle \/ Revoke \/ TimePasses,
         UNCHANGED <<mailVars, mailLocals>>
  PROVE  MailTyped'
<1> USE DEF MailTyped, MailboxTypeOK
<1>1. ServiceTypeOK'
  BY HandlerTyped, LifecycleTyped, WorldTyped DEF World
<1>2. MailTypeOK'
  BY DEF MailTypeOK, mailVars, mailLocals
<1>3. UNCHANGED <<consumed, ledger>>
  BY DEF Handler, MarkInvalid, SendSessionNotice, SessionNoticeFails,
         RecordSessionNotice, MarkNotified, Lifecycle, Start, Setup,
         SetupInterrupted, Revoke, TimePasses, BackoffElapses, storeVars
<1>4. pc' = pc \/ pc' \notin HandPoints \cup {"flushRecord", "flushDelete"}
  <2>1. ret \notin HandPoints \cup {"flushRecord", "flushDelete"}
    BY DEF ServiceTypeOK, HandPoints
  <2> QED BY <2>1 DEF HandPoints, Handler, MarkInvalid, SendSessionNotice,
                      SessionNoticeFails, RecordSessionNotice, MarkNotified,
                      Lifecycle, Start, Setup, SetupInterrupted, Revoke,
                      TimePasses, Goto
<1>5. MailInHand'
  BY <1>3, <1>4 DEF MailInHand, HandPoints, mailVars, mailLocals, IsCommand,
                    IsReply, Trusted, Kind, Parent, LedgerIds
<1> QED BY <1>1, <1>2, <1>3, <1>5 DEF ConsumedInInbox, mailVars

(* The mail in hand is in the INBOX. *)
LEMMA PosInInbox ==
  ASSUME MailTyped, pc \in HandPoints, pos <= end
  PROVE  pos \in DOMAIN inbox /\ pos \in Nat
BY DEF MailTyped, MailboxTypeOK, MailTypeOK, MailInHand

(* One mail in hand: it is skipped, applied or posted. *)
LEMMA MailStepTyped ==
  ASSUME MailTyped,
         SkipMail \/ ApplyCommand \/ QueueConfirmation \/ PostReply \/ CommitPost
  PROVE  MailTyped'
<1> USE DEF MailTyped, MailboxTypeOK, ServiceTypeOK, StoreTypeOK, MailTypeOK,
            ConsumedInInbox, HandPoints, storeVars, worldVars, mailVars, mailLocals
<1>1. CASE SkipMail
  <2>1. pos' \in Nat /\ (pos >= 1 => pos' >= 1)
    BY <1>1 DEF SkipMail, NextMail
  <2>2. pc = "mail" /\ pc' = "mail"
    BY <1>1 DEF SkipMail, AtMail
  <2>3. MailInHand'
    BY <1>1, <2>1, <2>2 DEF SkipMail, NextMail, MailInHand
  <2> QED BY <1>1, <2>1, <2>3 DEF SkipMail, NextMail
<1>2. CASE ApplyCommand
  <2>1. pos \in DOMAIN inbox /\ pos \in Nat
    BY <1>2, PosInInbox DEF ApplyCommand, AtMail
  <2>2. enabled' \in BOOLEAN
    BY <1>2 DEF ApplyCommand, SetBridgeEnabled
  <2>3. consumed' \subseteq Nat /\ consumed' \subseteq DOMAIN inbox'
    BY <1>2, <2>1 DEF ApplyCommand, SetBridgeEnabled
  <2>4. pc' \in Points
    BY <1>2 DEF ApplyCommand, Points, MailboxPoints
  <2>5. MailInHand'
    BY <1>2 DEF ApplyCommand, AtMail, Applies, MailInHand, IsCommand, Kind
  <2> QED BY <1>2, <2>2, <2>3, <2>4, <2>5 DEF ApplyCommand
<1>3. CASE QueueConfirmation
  <2>0. (Kind(pos) = "on") \in BOOLEAN
    OBVIOUS
  <2>1. pending' \subseteq [ref : Nat, on : BOOLEAN]
    <3>1. [ref |-> pos, on |-> (Kind(pos) = "on")] \in [ref : Nat, on : BOOLEAN]
      BY <2>0
    <3> QED BY <1>3, <3>1 DEF QueueConfirmation, QueueNotice
  <2>2. pc' \in Points
    BY <1>3 DEF QueueConfirmation, Goto, Points, MailboxPoints
  <2>3. pos' \in Nat
    BY <1>3 DEF QueueConfirmation, NextMail
  <2>4. MailInHand'
    BY <1>3 DEF QueueConfirmation, NextMail, Goto, MailInHand
  <2> QED BY <1>3, <2>1, <2>2, <2>3, <2>4 DEF QueueConfirmation, NextMail
<1>4. CASE PostReply
  <2>1. IsReply(pos)
    BY <1>4 DEF PostReply, Posts
  <2>2. Target \in Dialogs
    BY <2>1, TargetInLedger
  <2>3. "addressed" \in MsgKinds /\ Len(chat[Target]) \in Nat
    BY <2>2 DEF MsgKinds
  <2>4. chat' \in [Dialogs -> Seq(MsgKinds)]
    BY <1>4, <2>2, <2>3, AppendTyped DEF PostReply, Posted
  <2>5. posts' \subseteq [ref : Nat, dialog : Dialogs, id : Nat]
    BY <1>4, <2>2, <2>3 DEF PostReply, Posted
  <2>6. posted' \in Nat
    BY <1>4, <2>3 DEF PostReply
  <2>7. pc' \in Points
    BY <1>4 DEF PostReply, Points, MailboxPoints
  <2>8. MailInHand'
    BY <1>4, <2>1 DEF PostReply, AtMail, MailInHand, IsReply, IsCommand, Trusted,
                      Kind, Parent, LedgerIds
  <2> QED BY <1>4, <2>4, <2>5, <2>6, <2>7, <2>8 DEF PostReply
<1>5. CASE CommitPost
  <2>0. pos \in DOMAIN inbox /\ pos \in Nat
    BY <1>5, PosInInbox DEF CommitPost, Goto, MailInHand
  <2>1. Target \in Dialogs
    BY <1>5, TargetInLedger DEF CommitPost, Goto, MailInHand
  <2>2. echo' \subseteq Dialogs \X Nat
    BY <1>5, <2>1 DEF CommitPost, CommitReply
  <2>3. consumed' \subseteq Nat /\ consumed' \subseteq DOMAIN inbox'
    BY <1>5, <2>0 DEF CommitPost, CommitReply
  <2>4. pc' \in Points
    BY <1>5 DEF CommitPost, Goto, Points, MailboxPoints
  <2>5. pos' \in Nat
    BY <1>5 DEF CommitPost, NextMail
  <2>6. MailInHand'
    BY <1>5 DEF CommitPost, NextMail, Goto, MailInHand
  <2> QED BY <1>5, <2>2, <2>3, <2>4, <2>5, <2>6 DEF CommitPost, NextMail
<1> QED BY <1>1, <1>2, <1>3, <1>4, <1>5

(* The posts that end otherwise. *)
LEMMA PostErrorTyped ==
  ASSUME MailTyped, PostFails \/ PostPeerNotFound \/ PostSessionInvalid
  PROVE  MailTyped'
<1> USE DEF MailTyped, MailboxTypeOK, ServiceTypeOK, StoreTypeOK, MailTypeOK,
            ConsumedInInbox, HandPoints, storeVars, worldVars, mailVars, mailLocals
<1>1. CASE PostFails
  <2>1. Target \in Dialogs
    BY <1>1, TargetInLedger DEF PostFails, Posts
  <2>2. "addressed" \in MsgKinds /\ Len(chat[Target]) \in Nat
    BY <2>1 DEF MsgKinds
  <2>3. chat' \in [Dialogs -> Seq(MsgKinds)]
    <3>1. CASE Posted(Target)
      BY <2>1, <2>2, <3>1, AppendTyped DEF Posted
    <3>2. CASE UNCHANGED chat
      BY <3>2
    <3> QED BY <1>1, <3>1, <3>2 DEF PostFails
  <2>4. posts' \subseteq [ref : Nat, dialog : Dialogs, id : Nat]
    BY <1>1, <2>1, <2>2 DEF PostFails, Posted
  <2>5. waiting' \subseteq Scopes
    BY <1>1, <2>1, ScopesOfCalls DEF PostFails, RecordFailure
  <2>6. faults' \in Nat
    BY <1>1 DEF PostFails, Fault
  <2>7. pos' \in Nat
    BY <1>1 DEF PostFails, NextMail
  <2>8. MailInHand'
    BY <1>1 DEF PostFails, AtMail, NextMail, MailInHand
  <2> QED BY <1>1, <2>3, <2>4, <2>5, <2>6, <2>7, <2>8 DEF PostFails, NextMail
<1>2. CASE PostPeerNotFound
  BY <1>2 DEF PostPeerNotFound, ProcessEnds, ForgetMailLocals, Points, MailInHand
<1>3. CASE PostSessionInvalid
  BY <1>3 DEF PostSessionInvalid, Invalidate, Points, HandlerPoints, MailInHand
<1> QED BY <1>1, <1>2, <1>3

(* The poll, the notices and the ends of the cycle. *)
LEMMA CycleStepTyped ==
  ASSUME MailTyped,
         \/ StartMailbox \/ Poll \/ PollFails \/ StartFlush \/ SendConfirmation
         \/ ConfirmationFails \/ RecordConfirmation \/ DeleteConfirmation
         \/ EndMailbox \/ MailboxEnds
  PROVE  MailTyped'
<1> USE DEF MailTyped, MailboxTypeOK, ServiceTypeOK, StoreTypeOK, MailTypeOK,
            ConsumedInInbox, HandPoints, storeVars, worldVars, mailVars, mailLocals
<1>1. CASE StartMailbox
  BY <1>1 DEF StartMailbox, Goto, Points, MailboxPoints, MailInHand
<1>2. CASE Poll
  <2>1. waiting' \subseteq Scopes
    BY <1>2 DEF Poll, ClearBackoff
  <2>2. pos' \in Nat /\ end' \in Nat /\ pos' >= 1 /\ end' <= Len(inbox')
    BY <1>2 DEF Poll
  <2>3. pc' = "mail" /\ pc' \in Points
    BY <1>2 DEF Poll, Goto, Points, MailboxPoints
  <2>4. MailInHand'
    BY <2>2, <2>3 DEF MailInHand
  <2> QED BY <1>2, <2>1, <2>2, <2>3, <2>4 DEF Poll
<1>3. CASE PollFails
  <2>1. waiting' \subseteq Scopes
    BY <1>3, ScopesOfCalls DEF PollFails, RecordFailure
  <2>2. faults' \in Nat
    BY <1>3 DEF PollFails, Fault
  <2> QED BY <1>3, <2>1, <2>2 DEF PollFails, Goto, Points, MailInHand
<1>4. CASE StartFlush
  BY <1>4 DEF StartFlush, Goto, Points, MailboxPoints, MailInHand
<1>5. CASE SendConfirmation
  <2>1. First \in Subjects
    BY <1>5, FirstOfNotices DEF SendConfirmation
  <2>2. noticeU' \subseteq [mid : Nat, about : Subjects] /\ minted' \in Nat
    BY <1>5, <2>1, NoticeTyped DEF SendConfirmation
  <2>3. pc' \in Points
    BY <1>5 DEF SendConfirmation, Goto, Points, MailboxPoints
  <2>4. MailInHand'
    BY <1>5 DEF SendConfirmation, Goto, MailInHand
  <2> QED BY <1>5, <2>2, <2>3, <2>4 DEF SendConfirmation
<1>6. CASE ConfirmationFails
  <2>1. First \in Subjects
    BY <1>6, FirstOfNotices DEF ConfirmationFails
  <2>2. noticeU' \subseteq [mid : Nat, about : Subjects] /\ minted' \in Nat
    BY <1>6, <2>1, NoticeTyped DEF ConfirmationFails
  <2>3. faults' \in Nat
    BY <1>6 DEF ConfirmationFails, Fault
  <2>4. toFlush' \subseteq [ref : Nat, on : BOOLEAN]
    BY <1>6 DEF ConfirmationFails
  <2> QED BY <1>6, <2>2, <2>3, <2>4 DEF ConfirmationFails, MailInHand
<1>7. CASE RecordConfirmation
  <2>1. sentNotice' \subseteq Nat
    BY <1>7 DEF RecordConfirmation, RecordNoticeSent
  <2> QED BY <1>7, <2>1
          DEF RecordConfirmation, Goto, Points, MailboxPoints, MailInHand
<1>8. CASE DeleteConfirmation
  <2>1. pending' \subseteq [ref : Nat, on : BOOLEAN]
    BY <1>8 DEF DeleteConfirmation, DeleteNotice
  <2>2. toFlush' \subseteq [ref : Nat, on : BOOLEAN]
    BY <1>8 DEF DeleteConfirmation
  <2> QED BY <1>8, <2>1, <2>2
          DEF DeleteConfirmation, Goto, Points, MailboxPoints, MailInHand
<1>9. CASE EndMailbox
  BY <1>9 DEF EndMailbox, Invalidate, ForgetMailLocals, Points, HandlerPoints,
              MailInHand
<1>10. CASE MailboxEnds
  <2>1. ServiceTypeOK'
    BY <1>10, EndTyped DEF MailboxEnds
  <2>2. UNCHANGED consumed /\ pc' = "down"
    BY <1>10 DEF MailboxEnds, Crash, Stop, ProcessEnds
  <2> QED BY <1>10, <2>1, <2>2 DEF MailboxEnds, ForgetMailLocals, MailInHand
<1> QED BY <1>1, <1>2, <1>3, <1>4, <1>5, <1>6, <1>7, <1>8, <1>9, <1>10

LEMMA MailboxNextTyped == MailTyped /\ [MailboxNext]_mailboxVars => MailTyped'
<1> SUFFICES ASSUME MailTyped, [MailboxNext]_mailboxVars PROVE MailTyped'
  OBVIOUS
<1>1. CASE MailboxCycle
  BY <1>1, MailStepTyped, PostErrorTyped, CycleStepTyped
     DEF MailboxCycle, MailboxSteps, MailboxFailures
<1>2. CASE \E d \in Dialogs : InboundDelivers(d)
  BY <1>2, InboundDeliversTyped
<1>3. CASE MailWorld
  BY <1>3, MailWorldTyped
<1>4. CASE MailboxEnds
  BY <1>4, CycleStepTyped
<1>5. CASE /\ Handler \/ Lifecycle \/ Revoke \/ TimePasses
           /\ UNCHANGED <<mailVars, mailLocals>>
  BY <1>5, MailSharedTyped
<1>6. CASE UNCHANGED mailboxVars
  BY <1>6 DEF mailboxVars, serviceVars, storeVars, worldVars, mailVars, mailLocals,
              MailTyped, MailboxTypeOK, ServiceTypeOK, StoreTypeOK, MailTypeOK,
              MailInHand, HandPoints, ConsumedInInbox, IsCommand, IsReply,
              Trusted, Kind, Parent, LedgerIds
<1> QED BY <1>1, <1>2, <1>3, <1>4, <1>5, <1>6 DEF MailboxNext

(* The tables, the world and the locals of the mailbox cycle always have   *)
(* their types.                                                            *)
THEOREM MailboxTypes == MailboxSpec => []MailboxTypeOK
<1>1. MailTyped => MailboxTypeOK
  BY DEF MailTyped
<1> QED BY <1>1, MailInitTyped, MailboxNextTyped, PTL DEF MailboxSpec
=============================================================================
