--------------------------- MODULE Retention_proofs ---------------------------
(***************************************************************************)
(* Proofs about the bridge whose tables are purged, for every two ages,    *)
(* every limit and every clock.                                            *)
(*                                                                         *)
(* A purge runs where no process does (pc is "down"), so what the bridge   *)
(* keeps of its locals survives it; what it takes from the tables is what  *)
(* the invariants here are about.  The limits by count are hypotheses of   *)
(* the theorems, stated as what they have to take (ConsumedFits, EchoFits).*)
(***************************************************************************)
EXTENDS Retention, Bridge_proofs

USE DEF BatchPoints, tableVars, outsideVars, batchVars

---------------------------------------------------------------------------
(* The rows.                                                               *)

LEMMA RowsAre ==
  ASSUME BothTyped
  PROVE  /\ \A mid : LedgerRow(mid) \in Rows <=> mid \in LedgerIds
         /\ \A mid : NoticeRow(mid) \in Rows <=> mid \in sentNotice
         /\ \A r : ConsumedRow(r) \in Rows <=> r \in consumed
         /\ \A d, n : EchoRow(d, n) \in Rows <=> <<d, n>> \in echo
<1>1. \A e \in echo : e = <<e[1], e[2]>>
  BY DEF BothTyped, Typed, InboundTypeOK, ServiceTypeOK, StoreTypeOK
<1>2. ASSUME NEW d, NEW n, EchoRow(d, n) \in Rows PROVE <<d, n>> \in echo
  <2>1. PICK e \in echo : EchoRow(d, n) = EchoRow(e[1], e[2])
    BY <1>2 DEF Rows, EchoRow, LedgerRow, ConsumedRow, NoticeRow
  <2>2. d = e[1] /\ n = e[2]
    BY <2>1 DEF EchoRow
  <2> QED BY <1>1, <2>2
<1>3. ASSUME NEW d, NEW n, <<d, n>> \in echo PROVE EchoRow(d, n) \in Rows
  BY <1>3 DEF Rows, EchoRow
<1>4. ASSUME NEW mid PROVE LedgerRow(mid) \in Rows <=> mid \in LedgerIds
  BY DEF Rows, EchoRow, LedgerRow, ConsumedRow, NoticeRow
<1>5. ASSUME NEW mid PROVE NoticeRow(mid) \in Rows <=> mid \in sentNotice
  BY DEF Rows, EchoRow, LedgerRow, ConsumedRow, NoticeRow
<1>6. ASSUME NEW r PROVE ConsumedRow(r) \in Rows <=> r \in consumed
  BY DEF Rows, EchoRow, LedgerRow, ConsumedRow, NoticeRow
<1> QED BY <1>2, <1>3, <1>4, <1>5, <1>6

(* The limits by count keep rows of the table only. *)
LEMMA PurgeShrinks ==
  ASSUME Purge
  PROVE  /\ pc = "down"
         /\ ledger' \subseteq ledger /\ consumed' \subseteq consumed
         /\ echo' \subseteq echo /\ sentNotice' \subseteq sentNotice
         /\ UNCHANGED <<cursor, enabled, valid, notified, pending, waiting, worldVars,
                        pc, ret, localVars, base, mailVars, mailLocals, clock, rowTime>>
BY DEF Purge, PurgeLedger, PurgeConsumed, PurgeEcho, PurgeNotices, NewestOf

LEMMA PurgeTyped == ASSUME BothTyped, Purge PROVE BothTyped'
<1>1. /\ ServiceTypeOK' /\ LocalTypeOK' /\ MailTypeOK'
  BY PurgeShrinks
     DEF BothTyped, Typed, InboundTypeOK, ServiceTypeOK, StoreTypeOK, LocalTypeOK,
         MailTyped, MailboxTypeOK, MailTypeOK, worldVars, localVars, mailVars, mailLocals
<1>2. InHand' /\ MailInHand' /\ ConsumedInInbox'
  BY PurgeShrinks DEF InHand, MailInHand, ConsumedInInbox, HandPoints, BothTyped,
                      MailTyped, mailVars
<1> QED BY <1>1, <1>2 DEF BothTyped, Typed, InboundTypeOK, MailTyped, MailboxTypeOK

Timed ==
  /\ clock \in Nat
  /\ Rows \subseteq DOMAIN rowTime
  /\ \A row \in DOMAIN rowTime : rowTime[row] \in 0 .. clock

Retained == BothTyped /\ Timed

LEMMA RetentionNextTyped ==
  Retained /\ [RetentionNext]_retentionVars => Retained'
<1> SUFFICES ASSUME Retained, [RetentionNext]_retentionVars PROVE Retained'
  OBVIOUS
<1>0. BothTyped /\ Timed
  BY DEF Retained
<1>1. CASE BridgeNext /\ Stamp /\ UNCHANGED clock
  <2>1. BothTyped'
    BY <1>0, <1>1, BridgeNextTyped
  <2>2. Timed'
    BY <1>0, <1>1 DEF Timed, Stamp
  <2> QED BY <2>1, <2>2 DEF Retained
<1>2. CASE Tick
  <2>1. BothTyped'
    BY <1>0, <1>2, BridgeNextTyped DEF Tick
  <2>2. Rows' = Rows
    BY <1>2 DEF Tick, bridgeVars, serviceVars, storeVars, Rows, LedgerIds
  <2>3. Timed'
    BY <1>0, <1>2, <2>2 DEF Timed, Tick
  <2> QED BY <2>1, <2>3 DEF Retained
<1>3. CASE Purge
  <2>1. Rows' \subseteq Rows
    BY <1>3, PurgeShrinks DEF Rows, LedgerIds
  <2>2. Timed'
    BY <1>0, <1>3, <2>1, PurgeShrinks DEF Timed
  <2> QED BY <1>0, <1>3, <2>2, PurgeTyped DEF Retained
<1>4. CASE UNCHANGED retentionVars
  <2>1. BothTyped'
    BY <1>0, <1>4, BridgeNextTyped DEF retentionVars
  <2>2. Rows' = Rows /\ UNCHANGED <<clock, rowTime>>
    BY <1>4 DEF retentionVars, bridgeVars, serviceVars, storeVars, Rows, LedgerIds
  <2> QED BY <1>0, <2>1, <2>2 DEF Retained, Timed
<1> QED BY <1>1, <1>2, <1>3, <1>4 DEF RetentionNext

LEMMA RetentionInitTyped == RetentionInit => Retained
<1> SUFFICES ASSUME RetentionInit PROVE Retained
  OBVIOUS
<1>1. Rows = {}
  BY DEF RetentionInit, BridgeInit, InboundInit, ServiceInit, StoreInit, Rows, LedgerIds
<1>2. DOMAIN rowTime = {}
  BY DEF RetentionInit
<1> QED BY <1>1, <1>2, BridgeInitTyped DEF RetentionInit, Retained, Timed

(* Every row has a time, which is not ahead of the clock, and a purge      *)
(* leaves the bridge in a state of its own.                                *)
THEOREM RetentionTypes == RetentionSpec => []RetentionTypeOK
<1>1. Retained => RetentionTypeOK
  BY DEF Retained, Timed, RetentionTypeOK, BothTyped, Typed, MailTyped, BridgeTypeOK,
         MailboxTypeOK
<1> QED BY <1>1, RetentionInitTyped, RetentionNextTyped, PTL DEF RetentionSpec

---------------------------------------------------------------------------
(* The books.  A Message-ID is entered once, when it is fresh: counted but *)
(* not entered yet, or not counted.  So one that a purge took out of the   *)
(* books does not come back.                                               *)

Fresh(mid) ==
  \/ mid > minted
  \/ mid \in sent
  \/ pc \in RecordPoints /\ mid = minted

SentCounted ==
  /\ SentInHand
  /\ \A x \in sent : x <= minted
  /\ \A m \in mailU : m.mid <= minted

KnownNotFresh == \A mid \in Known : ~Fresh(mid)

BooksInv == SentCounted /\ KnownNotFresh

(* What a step of the bridge enters in a book was fresh and is so no more; *)
(* nothing becomes fresh.                                                  *)
Entered(mid) == mid \in LedgerIds' \ LedgerIds \/ mid \in sentNotice' \ sentNotice

Enters ==
  \A mid \in Nat :
    /\ Fresh(mid)' => Fresh(mid)
    /\ Entered(mid) => Fresh(mid) /\ ~Fresh(mid)'

LEMMA InboundEnters ==
  ASSUME BothTyped, SentCounted, InboundTurn PROVE Enters /\ SentCounted'
<1>0. /\ minted \in Nat /\ minted' \in Nat /\ sent \subseteq Nat /\ sent' \subseteq Nat
      /\ \A m \in mailU : m.mid \in Nat
      /\ \A m \in mailU' : m.mid \in Nat
  BY InboundTurnTyped DEF BothTyped, Typed, InboundTypeOK, ServiceTypeOK, LocalTypeOK
<1>1. /\ Sends /\ UNCHANGED sentNotice
      /\ pc \notin RecordPoints /\ pc' \notin RecordPoints
  BY InboundTurnSends, InboundTurnStays, InboundTurnFrom
     DEF InboundTurn, BothTyped, InboundPoints, RecordPoints
<1>2. SentInHand'
  BY <1>1 DEF Sends, SentInHand, SentCounted
<1>3. \A m \in mailU' : m.mid <= minted'
  BY <1>0, <1>1 DEF Sends, SentCounted
<1>4. \A x \in sent' : x <= minted'
  <2>1. CASE pc' \in BatchPoints
    BY <1>0, <1>1, <1>3, <2>1 DEF Sends, SentCounted
  <2>2. CASE pc' \notin BatchPoints
    BY <1>2, <2>2 DEF SentInHand
  <2> QED BY <2>1, <2>2
<1>5. \A mid \in Nat : Fresh(mid)' => Fresh(mid)
  BY <1>0, <1>1 DEF Fresh, Sends
<1>6. ASSUME NEW mid \in Nat, Entered(mid)
      PROVE  Fresh(mid) /\ ~Fresh(mid)'
  <2>1. PICK row \in ledger' : row.mid = mid /\ row \notin ledger
    BY <1>1, <1>6 DEF Entered, LedgerIds
  <2>2. mid \in sent /\ pc = "commit"
    BY <1>1, <2>1 DEF Sends
  <2>3. Commit
    BY <2>2 DEF InboundTurn, InboundCycle, StartInbound, ListDialogs, ListFails,
                EndInbound, DialogStep, SkipNotDue, SkipNothingNew, FetchNothing,
                FetchTail, FetchNoneSelected, FetchBatch, FetchFails,
                FetchPeerNotFound, Fetches, DownloadMedia, DownloadFails,
                DownloadPeerNotFound, PartStep, SendPart, SendFails, SendRefused,
                InboundSessionInvalid, TelegramCalled, Goto
  <2>4. sent' = {} /\ minted' = minted
    BY <2>3 DEF Commit, DropBatch, worldVars
  <2>5. mid <= minted
    BY <2>2 DEF SentCounted
  <2> QED BY <1>0, <1>1, <2>2, <2>4, <2>5 DEF Fresh
<1> QED BY <1>2, <1>3, <1>4, <1>5, <1>6 DEF Enters, SentCounted

(* A step that enters nothing and counts no Message-ID, unless to record   *)
(* it next.                                                                *)
LEMMA QuietEnters ==
  ASSUME BothTyped, SentCounted, minted' \in Nat, minted <= minted',
         UNCHANGED <<ledger, sentNotice, mailU>>,
         UNCHANGED sent \/ sent' = {},
         SentInHand',
         pc' \in RecordPoints =>
           minted' > minted \/ (pc \in RecordPoints /\ minted' = minted)
  PROVE  Enters /\ SentCounted'
<1>0. minted \in Nat /\ \A m \in mailU : m.mid \in Nat
  BY DEF BothTyped, Typed, InboundTypeOK, ServiceTypeOK
<1>1. \A x \in sent : x \in Nat
  BY DEF BothTyped, Typed, InboundTypeOK, LocalTypeOK
<1>2. \A x \in sent' : x <= minted'
  BY <1>0, <1>1 DEF SentCounted
<1>3. \A mid \in Nat : Fresh(mid)' => Fresh(mid)
  BY <1>0 DEF Fresh
<1>4. \A m \in mailU' : m.mid <= minted'
  BY <1>0 DEF SentCounted
<1>5. \A mid \in Nat : ~Entered(mid)
  BY DEF Entered, LedgerIds
<1> QED BY <1>2, <1>3, <1>4, <1>5 DEF Enters, SentCounted

(* A notice is entered under the Message-ID that was counted last. *)
LEMMA RecordEnters ==
  ASSUME BothTyped, SentCounted, RecordSessionNotice \/ RecordConfirmation,
         UNCHANGED sent
  PROVE  Enters /\ SentCounted'
<1>0. minted \in Nat
  BY DEF BothTyped, Typed, InboundTypeOK, ServiceTypeOK
<1>1. /\ pc \in RecordPoints /\ pc' \notin RecordPoints /\ pc' \notin BatchPoints
      /\ sentNotice' = sentNotice \cup {minted}
      /\ UNCHANGED <<ledger, minted, mailU>>
  BY DEF RecordSessionNotice, RecordConfirmation, RecordNoticeSent, RecordPoints,
         worldVars, Goto
<1>2. sent = {} /\ sent' = {}
  BY <1>1 DEF SentCounted, SentInHand, RecordPoints
<1>3. \A mid \in Nat : Fresh(mid)' => Fresh(mid)
  BY <1>0, <1>1, <1>2 DEF Fresh
<1>4. ASSUME NEW mid \in Nat, Entered(mid)
      PROVE  Fresh(mid) /\ ~Fresh(mid)'
  <2>1. mid = minted
    BY <1>1, <1>4 DEF Entered, LedgerIds
  <2> QED BY <1>0, <1>1, <1>2, <2>1 DEF Fresh
<1> QED BY <1>1, <1>2, <1>3, <1>4 DEF Enters, SentCounted, SentInHand

LEMMA MailboxEnters ==
  ASSUME BothTyped, SentCounted, MailboxTurn PROVE Enters /\ SentCounted'
<1>1. /\ UNCHANGED <<ledger, mailU, sent>> /\ SentInHand'
      /\ minted' \in Nat /\ minted <= minted'
  BY MailboxTurnStays, MailboxTurnFrom
     DEF MailboxTurn, localVars, BothTyped, SentCounted, SentInHand, MailboxPoints
<1>2. CASE RecordConfirmation
  BY <1>1, <1>2, RecordEnters
<1>3. CASE ~RecordConfirmation
  <2>1. UNCHANGED sentNotice
    BY <1>3 DEF MailboxTurn, MailboxCycle, MailboxSteps, MailboxFailures,
                StartMailbox, Poll, PollFails, SkipMail, ApplyCommand,
                QueueConfirmation, PostReply, CommitPost, PostFails,
                PostPeerNotFound, PostSessionInvalid, StartFlush,
                SendConfirmation, ConfirmationFails, DeleteConfirmation,
                EndMailbox, storeVars
  <2>2. pc' \in RecordPoints => minted' > minted
    <3>1. CASE SendConfirmation
      BY <3>1 DEF SendConfirmation, NoticeReachesU, BothTyped, Typed, InboundTypeOK,
                  ServiceTypeOK
    <3>2. CASE ~SendConfirmation
      BY <1>3, <3>2
         DEF MailboxTurn, MailboxCycle, MailboxSteps, MailboxFailures,
             StartMailbox, Poll, PollFails, SkipMail, ApplyCommand,
             QueueConfirmation, PostReply, CommitPost, PostFails,
             PostPeerNotFound, PostSessionInvalid, StartFlush, ConfirmationFails,
             DeleteConfirmation, EndMailbox, ProcessEnds, Invalidate, AtMail,
             Goto, RecordPoints
    <3> QED BY <3>1, <3>2
  <2> QED BY <1>1, <2>1, <2>2, QuietEnters
<1> QED BY <1>2, <1>3

LEMMA OtherEnters ==
  ASSUME BothTyped, SentCounted, [BridgeNext]_bridgeVars, ~InboundTurn, ~MailboxTurn
  PROVE  Enters /\ SentCounted'
<1>1. /\ UNCHANGED <<mailU, ledger>> /\ SentInHand'
      /\ UNCHANGED sent \/ sent' = {}
  BY OtherLeaves DEF SentCounted, SentInHand
<1>2. minted \in Nat /\ ret \notin RecordPoints
  BY DEF BothTyped, Typed, InboundTypeOK, ServiceTypeOK, RecordPoints
<1>3. CASE RecordSessionNotice /\ UNCHANGED sent
  BY <1>3, RecordEnters
<1>4. CASE /\ UNCHANGED sentNotice
           /\ minted' = minted \/ minted' = minted + 1
           /\ pc' \in RecordPoints =>
                minted' > minted \/ (pc \in RecordPoints /\ minted' = minted)
  <2>1. minted' \in Nat /\ minted <= minted'
    BY <1>2, <1>4
  <2> QED BY <1>1, <1>4, <2>1, QuietEnters
<1>5. CASE Handler /\ UNCHANGED localVars
  BY <1>2, <1>3, <1>4, <1>5
     DEF Handler, MarkInvalid, SendSessionNotice, SessionNoticeFails, MarkNotified,
         NoticeReachesU, Goto, RecordPoints, storeVars, worldVars, localVars
<1>6. CASE Lifecycle \/ World
  BY <1>4, <1>6
     DEF Lifecycle, Start, Setup, SetupInterrupted, World, MessageArrives, Revoke,
         TimePasses, BackoffElapses, Goto, RecordPoints, storeVars, worldVars
<1>7. CASE BridgeEnds \/ MailWorld \/ UNCHANGED bridgeVars
  BY <1>4, <1>7, ArrivalGrows
     DEF BridgeEnds, Crash, Stop, ProcessEnds, RecordPoints, bridgeVars, serviceVars,
         storeVars, worldVars, BothTyped
<1> QED BY <1>5, <1>6, <1>7 DEF BridgeNext, BridgeCycles, InboundTurn, MailboxTurn

LEMMA BridgeEnters ==
  BothTyped /\ SentCounted /\ [BridgeNext]_bridgeVars => Enters /\ SentCounted'
BY InboundEnters, MailboxEnters, OtherEnters

LEMMA BooksStep ==
  BothTyped /\ BooksInv /\ [BridgeNext]_bridgeVars => BooksInv'
<1> SUFFICES ASSUME BothTyped, BooksInv, [BridgeNext]_bridgeVars PROVE BooksInv'
  OBVIOUS
<1>1. BothTyped' /\ Enters /\ SentCounted'
  BY BridgeNextTyped, BridgeEnters DEF BooksInv
<1>2. Known' \subseteq Nat
  BY <1>1
     DEF Known, LedgerIds, BothTyped, Typed, InboundTypeOK, ServiceTypeOK, StoreTypeOK
<1>3. KnownNotFresh'
  BY <1>1, <1>2 DEF KnownNotFresh, Known, Enters, Entered, BooksInv
<1> QED BY <1>1, <1>3 DEF BooksInv

LEMMA PurgeKeepsBooks == ASSUME BooksInv, Purge PROVE BooksInv'
<1>1. /\ UNCHANGED <<pc, sent, minted, mailU>> /\ Known' \subseteq Known
  BY PurgeShrinks DEF worldVars, localVars, Known, LedgerIds
<1> QED BY <1>1 DEF BooksInv, SentCounted, SentInHand, KnownNotFresh, Fresh

---------------------------------------------------------------------------
(* The consume markers.  A mail is consumed when the mail it answers is in *)
(* the books, so that its marker is never older than the book row; and     *)
(* both have the same age to live.                                         *)

BookRows(mid) == {LedgerRow(mid), NoticeRow(mid)}

ConsumedAfter(r) ==
  /\ r \in DOMAIN inbox
  /\ ~Fresh(Parent(r))
  /\ \A row \in BookRows(Parent(r)) :
       row \in Rows => rowTime[row] <= rowTime[ConsumedRow(r)]
  /\ r \in consumed \/ ~IsBridgeMessage(Parent(r))

MarkersInv == \A r : WasThere(ConsumedRow(r)) => ConsumedAfter(r)

(* The limit by count takes all the consume markers there are. *)
ConsumedFits == Cardinality(consumed) <= MaxConsumed

LEMMA ConsumesKnown ==
  ASSUME BothTyped, [BridgeNext]_bridgeVars
  PROVE  /\ MailKept
         /\ \A r \in consumed' \ consumed :
              r \in DOMAIN inbox /\ IsBridgeMessage(Parent(r))
<1>0. MailTyped
  BY DEF BothTyped
<1>1. MailKept
  BY <1>0, AsMailbox, MailIsKept, InboundTurnFrames
<1>2. CASE UNCHANGED consumed
  BY <1>1, <1>2
<1>3. CASE ApplyCommand
  <2>1. pos \in DOMAIN inbox /\ IsBridgeMessage(Parent(pos))
    BY <1>0, <1>3, PosInInbox DEF ApplyCommand, AtMail, Applies, HandPoints
  <2> QED BY <1>1, <1>3, <2>1 DEF ApplyCommand, SetBridgeEnabled
<1>4. CASE CommitPost
  <2>1. IsReply(pos) /\ pos \in DOMAIN inbox
    BY <1>0, <1>4, PosInInbox DEF CommitPost, Goto, MailTyped, MailInHand, HandPoints
  <2> QED BY <1>1, <1>4, <2>1 DEF CommitPost, CommitReply, IsReply, IsBridgeMessage
<1>5. UNCHANGED consumed \/ ApplyCommand \/ CommitPost
  <2>1. CASE MailboxTurn
    BY <2>1 DEF MailboxTurn, MailboxCycle, MailboxSteps, MailboxFailures,
                StartMailbox, Poll, PollFails, SkipMail, QueueConfirmation,
                PostReply, PostFails, PostPeerNotFound, PostSessionInvalid,
                StartFlush, SendConfirmation, ConfirmationFails,
                RecordConfirmation, DeleteConfirmation, EndMailbox, storeVars
  <2> QED BY <2>1, InboundTurnFrames, OtherLeaves
<1> QED BY <1>2, <1>3, <1>4, <1>5

(* The times of the rows after a step of the bridge. *)
LEMMA StampTimes ==
  ASSUME Retained, Stamp
  PROVE  /\ DOMAIN rowTime' = DOMAIN rowTime \cup Rows'
         /\ \A row \in Rows' \ Rows : rowTime'[row] = clock
         /\ \A row \in Rows : rowTime'[row] = rowTime[row] /\ rowTime[row] <= clock
         /\ \A row \in DOMAIN rowTime :
              /\ rowTime[row] \in Nat /\ rowTime'[row] \in Nat
              /\ rowTime[row] <= rowTime'[row]
BY DEF Retained, Timed, Stamp

LEMMA BridgeMarks ==
  ASSUME Retained, BooksInv, MarkersInv, BridgeNext, Stamp
  PROVE  MarkersInv'
<1>0. /\ BothTyped /\ BothTyped' /\ Enters /\ MailKept /\ KnownNotFresh
      /\ Rows \subseteq DOMAIN rowTime
  BY BridgeNextTyped, BridgeEnters, ConsumesKnown DEF Retained, Timed, BooksInv
<1>1. /\ \A mid : LedgerRow(mid) \in Rows <=> mid \in LedgerIds
      /\ \A mid : NoticeRow(mid) \in Rows <=> mid \in sentNotice
      /\ \A r : ConsumedRow(r) \in Rows <=> r \in consumed
  BY <1>0, RowsAre
<1>2. /\ \A mid : LedgerRow(mid) \in Rows' <=> mid \in LedgerIds'
      /\ \A mid : NoticeRow(mid) \in Rows' <=> mid \in sentNotice'
      /\ \A r : ConsumedRow(r) \in Rows' <=> r \in consumed'
  BY DEF Rows, EchoRow, LedgerRow, ConsumedRow, NoticeRow
<1> SUFFICES ASSUME NEW r, WasThere(ConsumedRow(r))' PROVE ConsumedAfter(r)'
  BY DEF MarkersInv, ConsumedRow
<1>3. ConsumedRow(r) \in DOMAIN rowTime \/ ConsumedRow(r) \in Rows' \ Rows
  BY <1>0, StampTimes DEF WasThere, ConsumedRow
<1>4. r \in DOMAIN inbox /\ ~Fresh(Parent(r))
  <2>1. CASE WasThere(ConsumedRow(r))
    BY <2>1 DEF MarkersInv, ConsumedAfter
  <2>2. CASE ConsumedRow(r) \in Rows' \ Rows
    BY <1>0, <1>1, <1>2, <2>2, ConsumesKnown
       DEF KnownNotFresh, Known, IsBridgeMessage
  <2> QED BY <1>3, <2>1, <2>2 DEF WasThere
<1>5. /\ r \in DOMAIN inbox' /\ Parent(r)' = Parent(r)
      /\ Parent(r) \in Nat /\ ~Fresh(Parent(r))' /\ ~Entered(Parent(r))
  <2>1. Parent(r) \in Nat
    BY <1>0, <1>4, ParentIsNatural DEF BothTyped
  <2>2. r \in DOMAIN inbox' /\ Parent(r)' = Parent(r)
    BY <1>0, <1>4 DEF MailKept, Parent
  <2>3. ~Fresh(Parent(r))' /\ ~Entered(Parent(r))
    BY <1>0, <1>4, <2>1, <2>2 DEF Enters, Fresh
  <2> QED BY <2>1, <2>2, <2>3
<1>6. ASSUME NEW row \in BookRows(Parent(r)), row \in Rows'
      PROVE  rowTime'[row] <= rowTime'[ConsumedRow(r)]
  <2>1. row \in Rows
    BY <1>1, <1>2, <1>5, <1>6 DEF BookRows, Entered
  <2>2. rowTime'[row] = rowTime[row] /\ rowTime[row] <= clock /\ rowTime[row] \in Nat
    BY <1>0, <2>1, StampTimes
  <2>3. CASE ConsumedRow(r) \in Rows' \ Rows
    BY <2>2, <2>3, StampTimes
  <2>4. CASE ConsumedRow(r) \in DOMAIN rowTime
    <3>1. rowTime[row] <= rowTime[ConsumedRow(r)]
      BY <2>1, <2>4 DEF MarkersInv, ConsumedAfter, WasThere
    <3> QED BY <2>2, <2>4, <3>1, StampTimes
  <2> QED BY <1>3, <2>3, <2>4
<1>7. r \in consumed' \/ ~IsBridgeMessage(Parent(r))'
  <2>1. CASE ConsumedRow(r) \in Rows' \ Rows
    BY <1>2, <2>1
  <2>2. CASE ConsumedRow(r) \in DOMAIN rowTime
    <3>1. r \in consumed \/ ~IsBridgeMessage(Parent(r))
      BY <2>2 DEF MarkersInv, ConsumedAfter, WasThere
    <3> QED BY <1>0, <1>5, <3>1 DEF MailKept, IsBridgeMessage, Entered
  <2> QED BY <1>3, <2>1, <2>2
<1> QED BY <1>5, <1>6, <1>7 DEF ConsumedAfter, BookRows, LedgerRow, NoticeRow, ConsumedRow

(* A limit that takes them all leaves them all. *)
LEMMA FittingIsKept ==
  ASSUME NEW rows, IsFiniteSet(rows), NEW limit \in Nat, Cardinality(rows) <= limit,
         NEW kept \in SUBSET rows, kept # rows => Cardinality(kept) = limit
  PROVE  kept = rows
<1> SUFFICES ASSUME kept # rows PROVE FALSE
  OBVIOUS
<1>1. /\ IsFiniteSet(kept) /\ Cardinality(kept) <= Cardinality(rows)
      /\ Cardinality(kept) = Cardinality(rows) => kept = rows
  BY FS_Subset
<1>2. Cardinality(kept) \in Nat /\ Cardinality(rows) \in Nat
  BY <1>1, FS_CardinalityType
<1> QED BY <1>1, <1>2

LEMMA ConsumedIsFinite ==
  ASSUME BothTyped PROVE IsFiniteSet(consumed) /\ Cardinality(consumed) \in Nat
<1>1. consumed \subseteq 1 .. Len(inbox) /\ Len(inbox) \in Nat
  BY DEF BothTyped, MailTyped, MailboxTypeOK, MailTypeOK, ConsumedInInbox
<1>2. IsFiniteSet(1 .. Len(inbox))
  BY <1>1, FS_Interval
<1> QED BY <1>1, <1>2, FS_Subset, FS_CardinalityType

LEMMA PurgeKeepsYoungMarkers ==
  ASSUME BothTyped, ConsumedFits, Purge
  PROVE  consumed' = {r \in consumed : Within(ConsumedRow(r), RetentionAge)}
<1> DEFINE young == {r \in consumed : Within(ConsumedRow(r), RetentionAge)}
<1>1. IsFiniteSet(young) /\ Cardinality(young) <= MaxConsumed /\ MaxConsumed \in Nat
  BY ConsumedIsFinite, FS_Subset, FS_CardinalityType, RetentionAssumption
     DEF ConsumedFits
<1>2. /\ consumed' \subseteq young
      /\ consumed' # young => Cardinality(consumed') = MaxConsumed
  BY DEF Purge, PurgeConsumed, NewestOf
<1> HIDE DEF young
<1>3. consumed' = young
  BY <1>1, <1>2, FittingIsKept
<1> QED BY <1>3 DEF young

(* A purge that takes a consume marker takes the rows of the mail that was *)
(* answered too.                                                           *)
LEMMA PurgeMarks ==
  ASSUME Retained, MarkersInv, ConsumedFits, Purge PROVE MarkersInv'
<1>0. /\ UNCHANGED <<inbox, minted, sent, pc, rowTime, clock>>
      /\ ledger' \subseteq ledger /\ sentNotice' \subseteq sentNotice
  BY PurgeShrinks DEF worldVars, localVars, mailVars
<1>1. /\ \A mid : LedgerRow(mid) \in Rows <=> mid \in LedgerIds
      /\ \A mid : NoticeRow(mid) \in Rows <=> mid \in sentNotice
  BY RowsAre DEF Retained
<1>2. Rows' \subseteq Rows
  BY PurgeShrinks DEF Rows, LedgerIds
<1>3. clock \in Nat /\ \A row \in DOMAIN rowTime : rowTime[row] \in Nat
  BY DEF Retained, Timed
<1>4. \A mid \in LedgerIds' : mid \in LedgerIds /\ Within(LedgerRow(mid), RetentionAge)
  BY DEF Purge, PurgeLedger, NewestOf, LedgerIds, RowOfLedger
<1>5. \A mid \in sentNotice' : Within(NoticeRow(mid), RetentionAge)
  BY DEF Purge, PurgeNotices
<1>6. RetentionAge \in Nat
  BY RetentionAssumption
<1> SUFFICES ASSUME NEW r, WasThere(ConsumedRow(r)) PROVE ConsumedAfter(r)'
  BY <1>0 DEF MarkersInv, WasThere, ConsumedRow
<1>7. ConsumedAfter(r)
  BY DEF MarkersInv
<1>8. Parent(r)' = Parent(r)
  BY <1>0 DEF Parent
<1>9. ASSUME r \in consumed, r \notin consumed', IsBridgeMessage(Parent(r))'
      PROVE  FALSE
  <2>1. ~Within(ConsumedRow(r), RetentionAge)
    BY <1>9, PurgeKeepsYoungMarkers DEF Retained
  <2>2. PICK row \in BookRows(Parent(r)) :
          row \in Rows /\ Within(row, RetentionAge)
    BY <1>0, <1>1, <1>4, <1>5, <1>8, <1>9 DEF IsBridgeMessage, BookRows
  <2>3. rowTime[row] <= rowTime[ConsumedRow(r)]
    BY <1>7, <2>2 DEF ConsumedAfter
  <2>4. rowTime[row] \in Nat /\ rowTime[ConsumedRow(r)] \in Nat
    BY <1>3, <2>2 DEF WasThere, Retained, Timed
  <2> QED BY <1>3, <1>6, <2>1, <2>2, <2>3, <2>4 DEF Within
<1>10. IsBridgeMessage(Parent(r))' => IsBridgeMessage(Parent(r))
  BY <1>0, <1>8 DEF IsBridgeMessage, LedgerIds
<1>11. r \in consumed' \/ ~IsBridgeMessage(Parent(r))'
  BY <1>7, <1>9, <1>10 DEF ConsumedAfter
<1>12. ~Fresh(Parent(r))'
  BY <1>0, <1>7, <1>8 DEF ConsumedAfter, Fresh
<1> QED BY <1>0, <1>2, <1>7, <1>8, <1>11, <1>12
        DEF ConsumedAfter, BookRows, LedgerRow, NoticeRow, ConsumedRow

RetentionInv == Retained /\ BooksInv /\ MarkersInv

LEMMA RetentionInvStep ==
  RetentionInv /\ ConsumedFits /\ [RetentionNext]_retentionVars => RetentionInv'
<1> SUFFICES ASSUME RetentionInv, ConsumedFits, [RetentionNext]_retentionVars
             PROVE  RetentionInv'
  OBVIOUS
<1>0. /\ Retained /\ BooksInv /\ MarkersInv /\ BothTyped /\ Retained'
  BY RetentionNextTyped DEF RetentionInv, Retained
<1>1. CASE BridgeNext /\ Stamp
  BY <1>0, <1>1, BooksStep, BridgeMarks DEF RetentionInv
<1>2. CASE Purge
  BY <1>0, <1>2, PurgeKeepsBooks, PurgeMarks DEF RetentionInv
<1>3. CASE UNCHANGED <<bridgeVars, rowTime>>
  <2>1. UNCHANGED <<inbox, minted, sent, pc, rowTime, ledger, sentNotice, consumed, echo>>
    BY <1>3 DEF bridgeVars, serviceVars, storeVars, worldVars, localVars, mailVars
  <2>2. MarkersInv'
    BY <1>0, <2>1 DEF MarkersInv, ConsumedAfter, WasThere, Fresh, Parent, BookRows,
                      IsBridgeMessage, LedgerIds, Rows, LedgerRow, NoticeRow, ConsumedRow
  <2> QED BY <1>0, <1>3, <2>2, BooksStep DEF RetentionInv
<1> QED BY <1>1, <1>2, <1>3 DEF RetentionNext, Tick, retentionVars

LEMMA RetentionInitInv == RetentionInit => RetentionInv
<1> SUFFICES ASSUME RetentionInit PROVE RetentionInv
  OBVIOUS
<1>1. Retained
  BY RetentionInitTyped
<1>2. BooksInv
  BY DEF RetentionInit, BridgeInit, InboundInit, LocalInit, ServiceInit, StoreInit,
         BooksInv, SentCounted, SentInHand, KnownNotFresh, Known, LedgerIds
<1>3. MarkersInv
  <2>1. DOMAIN rowTime = {}
    BY DEF RetentionInit
  <2> QED BY <2>1 DEF MarkersInv, WasThere
<1> QED BY <1>1, <1>2, <1>3 DEF RetentionInv

LEMMA MarkersSuffice == RetentionInv => PurgeRevivesNothing
BY DEF RetentionInv, MarkersInv, ConsumedAfter, PurgeRevivesNothing

(* A mail that was consumed once never acts again: its marker is there, or *)
(* the mail it answers has left the books.  The common age is enough, once *)
(* the limit by count takes all consume markers.                           *)
THEOREM PurgeRevives ==
  RetentionSpec /\ []ConsumedFits => []PurgeRevivesNothing
BY RetentionInitInv, RetentionInvStep, MarkersSuffice, PTL DEF RetentionSpec

(* So no mail is consumed twice, whatever was purged between. *)
LEMMA ConsumesOnce ==
  ASSUME BothTyped, PurgeRevivesNothing, [RetentionNext]_retentionVars
  PROVE  \A r \in consumed' \ consumed : ~WasThere(ConsumedRow(r))
<1>1. CASE Purge
  BY <1>1, PurgeShrinks
<1>2. CASE [BridgeNext]_bridgeVars
  BY <1>2, ConsumesKnown DEF PurgeRevivesNothing
<1> QED BY <1>1, <1>2 DEF RetentionNext, Tick, retentionVars

(* No mail is consumed a second time, so no reply is published again and   *)
(* no command applied again, although its marker may have been purged.     *)
THEOREM ConsumedOnlyOnce ==
  RetentionSpec /\ []ConsumedFits => ConsumedStaysConsumed
<1> DEFINE Once == \A r \in consumed' \ consumed : ~WasThere(ConsumedRow(r))
<1>1. RetentionInv /\ [RetentionNext]_retentionVars => [Once]_retentionVars
  BY ConsumesOnce, MarkersSuffice DEF RetentionInv, Retained
<1> QED
  BY <1>1, RetentionInitInv, RetentionInvStep, PTL
     DEF RetentionSpec, ConsumedStaysConsumed

---------------------------------------------------------------------------
(* The echo markers.  A post whose marker is there is never mailed, so one *)
(* that is mailed lost its marker to a purge, and to its age where the     *)
(* limit by count takes all the markers.                                   *)

EchoFits == Cardinality(echo) <= MaxEcho

EchoKept ==
  \A d, n : WasThere(EchoRow(d, n)) =>
    <<d, n>> \in echo \/ clock - rowTime[EchoRow(d, n)] > EchoAge

EchoInv == Retained /\ Apart /\ IsFiniteSet(echo) /\ EchoKept

(* A step of the bridge marks one post at most. *)
LEMMA BridgeMarksOne ==
  ASSUME BothTyped, [BridgeNext]_bridgeVars
  PROVE  UNCHANGED echo \/ (CommitPost /\ \E e : echo' = echo \cup {e})
<1>1. CASE MailboxTurn
  BY <1>1 DEF MailboxTurn, MailboxCycle, MailboxSteps, MailboxFailures,
              StartMailbox, Poll, PollFails, SkipMail, ApplyCommand,
              QueueConfirmation, PostReply, CommitPost, CommitReply, PostFails,
              PostPeerNotFound, PostSessionInvalid, StartFlush,
              SendConfirmation, ConfirmationFails, RecordConfirmation,
              DeleteConfirmation, EndMailbox, SetBridgeEnabled, storeVars
<1>2. CASE InboundTurn
  BY <1>2, InboundTurnStays DEF InboundTurn, BothTyped
<1> QED BY <1>1, <1>2, OtherLeaves

LEMMA BridgeApart ==
  ASSUME BothTyped, Apart, [BridgeNext]_bridgeVars PROVE Apart'
BY BridgeNextTyped, InboundApart, MailboxApart, OtherApart

LEMMA BridgeKeepsEcho ==
  ASSUME EchoInv, [BridgeNext]_bridgeVars, Retained',
         \/ Stamp /\ UNCHANGED clock
         \/ UNCHANGED <<rowTime, echo>> /\ clock <= clock'
  PROVE  EchoInv'
<1>0. Retained /\ BothTyped /\ Apart' /\ Rows \subseteq DOMAIN rowTime
  BY BridgeApart DEF EchoInv, Retained, Timed
<1>1. echo \subseteq echo' /\ IsFiniteSet(echo')
  BY <1>0, BridgeMarksOne, FS_AddElement DEF EchoInv
<1>2. clock \in Nat /\ clock' \in Nat /\ EchoAge \in Nat
  BY RetentionAssumption DEF EchoInv, Retained, Timed
<1>3. EchoKept'
  <2> SUFFICES ASSUME NEW d, NEW n, WasThere(EchoRow(d, n))', <<d, n>> \notin echo'
               PROVE  clock' - rowTime'[EchoRow(d, n)] > EchoAge
    BY DEF EchoKept, EchoRow
  <2>1. EchoRow(d, n) \notin Rows'
    <3>1. \A e \in echo' : e = <<e[1], e[2]>>
      BY DEF Retained, BothTyped, Typed, InboundTypeOK, ServiceTypeOK, StoreTypeOK
    <3>2. \A e \in echo' : EchoRow(d, n) # EchoRow(e[1], e[2])
      BY <3>1 DEF EchoRow
    <3> QED BY <3>2 DEF Rows, EchoRow, LedgerRow, ConsumedRow, NoticeRow
  <2>2. EchoRow(d, n) \in DOMAIN rowTime
    BY <2>1 DEF Stamp, WasThere, EchoRow
  <2>3. clock - rowTime[EchoRow(d, n)] > EchoAge /\ rowTime[EchoRow(d, n)] \in Nat
    BY <1>1, <2>2 DEF EchoInv, EchoKept, WasThere, Retained, Timed
  <2>4. rowTime'[EchoRow(d, n)] = rowTime[EchoRow(d, n)]
    BY <2>1, <2>2 DEF Stamp
  <2> QED BY <1>2, <2>3, <2>4
<1> QED BY <1>0, <1>1, <1>3 DEF EchoInv

LEMMA PurgeKeepsYoungEchoes ==
  ASSUME EchoInv, EchoFits, Purge
  PROVE  echo' = {e \in echo : Within(RowOfEcho(e), EchoAge)}
<1> DEFINE young == {e \in echo : Within(RowOfEcho(e), EchoAge)}
<1>1. IsFiniteSet(young) /\ Cardinality(young) <= MaxEcho /\ MaxEcho \in Nat
  BY FS_Subset, FS_CardinalityType, RetentionAssumption DEF EchoFits, EchoInv
<1>2. echo' \subseteq young /\ (echo' # young => Cardinality(echo') = MaxEcho)
  BY DEF Purge, PurgeEcho, NewestOf
<1> HIDE DEF young
<1>3. echo' = young
  BY <1>1, <1>2, FittingIsKept
<1> QED BY <1>3 DEF young

LEMMA PurgeKeepsEcho ==
  ASSUME EchoInv, EchoFits, Purge, Retained' PROVE EchoInv'
<1>0. /\ UNCHANGED <<chat, mailU, rowTime, clock, pc>> /\ pc = "down"
      /\ echo' \subseteq echo
  BY PurgeShrinks DEF worldVars
<1>1. IsFiniteSet(echo')
  BY <1>0, FS_Subset DEF EchoInv
<1>2. Apart'
  BY <1>0 DEF EchoInv, Apart, MsgsInDialog, BatchNoEcho, PostFresh, EchoNotMailed,
              MailedTo, Ids
<1>3. EchoKept'
  <2> SUFFICES ASSUME NEW d, NEW n, WasThere(EchoRow(d, n)), <<d, n>> \notin echo'
               PROVE  clock - rowTime[EchoRow(d, n)] > EchoAge
    BY <1>0 DEF EchoKept, WasThere, EchoRow
  <2>1. CASE <<d, n>> \in echo
    <3>1. ~Within(EchoRow(d, n), EchoAge)
      BY <2>1, PurgeKeepsYoungEchoes DEF RowOfEcho
    <3>2. /\ clock \in Nat /\ EchoAge \in Nat
          /\ rowTime[EchoRow(d, n)] \in Nat
      BY RetentionAssumption DEF EchoInv, Retained, Timed, WasThere
    <3> QED BY <3>1, <3>2 DEF Within
  <2>2. CASE <<d, n>> \notin echo
    BY <2>2 DEF EchoInv, EchoKept
  <2> QED BY <2>1, <2>2
<1> QED BY <1>1, <1>2, <1>3 DEF EchoInv

LEMMA EchoInvStep ==
  EchoInv /\ EchoFits /\ [RetentionNext]_retentionVars => EchoInv'
<1> SUFFICES ASSUME EchoInv, EchoFits, [RetentionNext]_retentionVars PROVE EchoInv'
  OBVIOUS
<1>1. Retained /\ Retained'
  BY RetentionNextTyped DEF EchoInv
<1>2. CASE BridgeNext /\ Stamp /\ UNCHANGED clock
  BY <1>1, <1>2, BridgeKeepsEcho
<1>3. CASE Tick \/ UNCHANGED retentionVars
  <2>1. clock <= clock'
    BY <1>1, <1>3 DEF Tick, retentionVars, Retained, Timed
  <2> QED BY <1>1, <1>3, <2>1, BridgeKeepsEcho
          DEF Tick, retentionVars, bridgeVars, serviceVars, storeVars
<1>4. CASE Purge
  BY <1>1, <1>4, PurgeKeepsEcho
<1> QED BY <1>2, <1>3, <1>4 DEF RetentionNext

LEMMA InitEchoInv == RetentionInit => EchoInv
<1> SUFFICES ASSUME RetentionInit PROVE EchoInv
  OBVIOUS
<1>1. Apart /\ echo = {}
  BY DEF RetentionInit, BridgeInit, InboundInit, ServiceInit, StoreInit, Apart,
         MsgsInDialog, BatchNoEcho, PostFresh, EchoNotMailed
<1>2. DOMAIN rowTime = {}
  BY DEF RetentionInit
<1> QED BY <1>1, <1>2, RetentionInitTyped, FS_EmptySet DEF EchoInv, EchoKept, WasThere

LEMMA EchoSuffices == EchoInv => EchoWindow
<1> SUFFICES ASSUME EchoInv, NEW p \in posts, NEW m \in mailU,
                    m.dialog = p.dialog, p.id \in m.msgs,
                    WasThere(EchoRow(p.dialog, p.id))
             PROVE  clock - rowTime[EchoRow(p.dialog, p.id)] > EchoAge
  BY DEF EchoWindow
<1>1. p.dialog \in Dialogs /\ p.id \in Nat
  BY DEF EchoInv, Retained, BothTyped, MailTyped, MailboxTypeOK, MailTypeOK
<1>2. <<p.dialog, p.id>> \notin echo
  BY <1>1 DEF EchoInv, Apart, EchoNotMailed, MailedTo
<1> QED BY <1>2 DEF EchoInv, EchoKept

(* Where the bridge mails a post of its own back to U, the marker of the   *)
(* post is older than the age of markers: the inbound cycle was that late. *)
THEOREM EchoWindowHolds == RetentionSpec /\ []EchoFits => []EchoWindow
BY InitEchoInv, EchoInvStep, EchoSuffices, PTL DEF RetentionSpec

---------------------------------------------------------------------------
(* The promise of module Answers, for the mails that were ever acted on.   *)
(* LastCommandRules, OnlyTrustedMailActs and the other properties of       *)
(* Bridge that speak of the consume markers there are do not outlive a     *)
(* purge; what does is said of the markers there ever were.  That a later  *)
(* command is never followed by an earlier one now rests on the books: the *)
(* mail that the earlier one answers is in none and never will be (Gone).  *)

LEMMA BridgeMoves ==
  ASSUME BothTyped, QueuedIsConsumed, [BridgeNext]_bridgeVars PROVE Moves
<1>1. CASE InboundTurn
  BY <1>1, InboundTurnStays
     DEF InboundTurn, BothTyped, InboundPoints, HandPoints, Moves
<1>2. CASE Arrival
  <2>1. UNCHANGED <<pc, pos, consumed>>
    BY <1>2 DEF Arrival, MessageArrives, storeVars, mailLocals
  <2> QED BY <2>1 DEF Moves, QueuedIsConsumed
<1> QED BY <1>1, <1>2, AsMailbox, MailboxMoves DEF BothTyped

LEMMA BridgeQueues ==
  ASSUME BothTyped, toFlush \subseteq pending, [BridgeNext]_bridgeVars PROVE Queues
<1>1. CASE InboundTurn \/ Arrival
  BY <1>1, InboundTurnFrames DEF Queues
<1> QED BY <1>1, AsMailbox, MailboxQueues DEF BothTyped

LEMMA BooksMailed ==
  ASSUME BothTyped, LedgerMailed, SentMailed, [BridgeNext]_bridgeVars
  PROVE  LedgerMailed' /\ SentMailed'
<1>1. CASE InboundTurn
  <2>1. Sends /\ mailU \subseteq mailU'
    BY <1>1, InboundTurnSends, InboundTurnStays DEF BothTyped, InboundTurn
  <2>2. LedgerMailed'
    BY <2>1 DEF LedgerMailed, SentMailed, Sends
  <2>3. SentMailed'
    BY <2>1 DEF SentMailed, Sends
  <2> QED BY <2>2, <2>3
<1>2. CASE MailboxTurn
  BY <1>2, MailboxTurnStays
     DEF LedgerMailed, SentMailed, BothTyped, MailboxTurn, MailboxPoints
<1>3. CASE ~InboundTurn /\ ~MailboxTurn
  BY <1>3, OtherLeaves DEF LedgerMailed, SentMailed
<1> QED BY <1>1, <1>2, <1>3

LEMMA PostStaysInHand ==
  ASSUME BothTyped, PostInHand, Deeds, [BridgeNext]_bridgeVars PROVE PostInHand'
<1>1. posts \subseteq posts'
  BY ArrivalGrows DEF Deeds, Rests, Delivers, Tells, Obeys, Says, Posted, Settles,
                      MailWorld, MailArrives
<1>2. CASE PostReply
  <2> DEFINE new == [ref |-> pos, dialog |-> Target, id |-> Len(chat[Target]) + 1]
  <2>1. /\ new \in posts' /\ posted' = Len(chat[Target]) + 1
        /\ UNCHANGED <<pos, inbox, ledger>>
    BY <1>2 DEF PostReply, Posted, storeVars
  <2>2. new.ref = pos /\ new.dialog = Target /\ new.id = Len(chat[Target]) + 1
    OBVIOUS
  <2>3. Target' = Target
    BY <2>1 DEF Target, LedgerDialog, Parent
  <2> HIDE DEF new
  <2> QED BY <2>1, <2>2, <2>3 DEF PostInHand
<1>3. CASE ~PostReply
  <2>1. pc' = "commitReply" => UNCHANGED <<pc, pos, posted, Target>>
    BY <1>3, PostStays
  <2> QED BY <1>1, <2>1 DEF PostInHand
<1> QED BY <1>2, <1>3

---------------------------------------------------------------------------
(* A Message-ID that is in no book and will be in none. *)
Gone(mid) == mid \notin Known /\ ~Fresh(mid)

Over(r) == r \in ActedOn \/ Gone(Parent(r))

EverOrder ==
  /\ \A s \in ActedOn \cap Commands, r \in Commands : r < s => Over(r)
  /\ pc \in HandPoints => \A r \in Commands : r < pos => Over(r)
  /\ QueuedIsConsumed
  /\ HandInInbox

EverConfirms(notice) ==
  notice.ref \in ActedOn \cap Commands /\ notice.on = (Kind(notice.ref) = "on")

EverTold ==
  /\ toFlush \subseteq pending
  /\ \A notice \in pending : EverConfirms(notice)
  /\ \A m \in noticeU : m.about # Session => EverConfirms(m.about)

(* What a step of the bridge does to the mails that were acted on. *)
Acts == consumed \subseteq ActedOn /\ ActedOn' = ActedOn \cup (consumed' \ consumed)

LEMMA MarksAreActs ==
  ASSUME RetentionInv, BothTyped', MailKept,
         Stamp \/ UNCHANGED <<bridgeVars, rowTime>>
  PROVE  Acts
<1>1. /\ BothTyped /\ Rows \subseteq DOMAIN rowTime
      /\ consumed \subseteq DOMAIN inbox /\ consumed' \subseteq DOMAIN inbox'
  BY DEF RetentionInv, Retained, Timed, BothTyped, MailTyped, ConsumedInInbox
<1>2. consumed \subseteq ActedOn
  BY <1>1, RowsAre DEF ActedOn, WasThere
<1>3. CASE UNCHANGED <<bridgeVars, rowTime>>
  <2>1. UNCHANGED <<inbox, rowTime, consumed>>
    BY <1>3 DEF bridgeVars, serviceVars, storeVars, mailVars
  <2>2. ActedOn' = ActedOn
    BY <2>1 DEF ActedOn, WasThere, ConsumedRow
  <2> QED BY <1>2, <2>1, <2>2 DEF Acts
<1>4. CASE Stamp
  <2>1. \A r : ConsumedRow(r) \in Rows' <=> r \in consumed'
    BY DEF Rows, EchoRow, LedgerRow, ConsumedRow, NoticeRow
  <2>2. \A r : ConsumedRow(r) \in DOMAIN rowTime' <=>
                 ConsumedRow(r) \in DOMAIN rowTime \/ r \in consumed'
    BY <1>4, <2>1 DEF Stamp
  <2>3. \A r : ConsumedRow(r) \in DOMAIN rowTime => r \in DOMAIN inbox
    BY DEF RetentionInv, MarkersInv, ConsumedAfter, WasThere
  <2>4. \A r : r \in ActedOn <=> ConsumedRow(r) \in DOMAIN rowTime
    BY <2>3 DEF ActedOn, WasThere
  <2>5. \A r : r \in ActedOn' <=> r \in DOMAIN inbox' /\ ConsumedRow(r) \in DOMAIN rowTime'
    BY DEF ActedOn, WasThere, ConsumedRow
  <2>6. \A r : r \in ActedOn' <=> r \in ActedOn \/ r \in consumed'
    BY <1>1, <2>2, <2>3, <2>4, <2>5 DEF MailKept
  <2> QED BY <1>2, <2>6 DEF Acts
<1> QED BY <1>3, <1>4

LEMMA GoneForGood ==
  ASSUME Enters, NEW mid \in Nat, Gone(mid)
  PROVE  mid \notin Known' /\ ~Fresh(mid)'
BY DEF Enters, Gone, Entered, Known, Fresh

(* No Message-ID is fresh while a mail is in hand but one to be minted. *)
LEMMA PassedIsOver ==
  ASSUME BothTyped, MidsMinted, SentCounted, consumed \subseteq ActedOn,
         pc \in HandPoints, NEW r \in Commands, PassedOver(r)
  PROVE  Over(r)
<1>1. CASE r \in consumed
  BY <1>1 DEF Over
<1>2. CASE ~IsBridgeMessage(Parent(r))
  <2>1. r \in DOMAIN inbox /\ Parent(r) \in Nat /\ minted \in Nat /\ Parent(r) <= minted
    <3>1. r \in DOMAIN inbox
      BY DEF Commands
    <3> QED BY <3>1, ParentIsNatural
            DEF MidsMinted, BothTyped, MailTyped, MailboxTypeOK, ServiceTypeOK
  <2>2. sent = {} /\ pc \notin RecordPoints
    BY DEF SentCounted, SentInHand, HandPoints, RecordPoints
  <2>3. ~Fresh(Parent(r))
    BY <2>1, <2>2 DEF Fresh
  <2>4. Parent(r) \notin Known
    BY <1>2 DEF IsBridgeMessage, Known
  <2> QED BY <2>3, <2>4 DEF Over, Gone
<1> QED BY <1>1, <1>2 DEF PassedOver

LEMMA OverForGood ==
  ASSUME BothTyped, Enters, MailKept, ActedOn \subseteq ActedOn',
         NEW r \in DOMAIN inbox, Over(r)
  PROVE  Over(r)'
<1> USE DEF Over, ActedOn, WasThere, ConsumedRow, Parent
<1>1. PICK mid \in Nat : Parent(r) = mid
  BY ParentIsNatural DEF BothTyped
<1>2. Parent(r)' = mid
  BY <1>1 DEF MailKept
<1>3. CASE r \in ActedOn
  BY <1>3
<1>4. CASE Gone(Parent(r))
  <2>1. Gone(mid)
    BY <1>1, <1>4
  <2>2. mid \notin Known' /\ ~Fresh(mid)'
    BY <2>1, GoneForGood
  <2>3. Gone(mid)'
    BY <2>2 DEF Gone, Known, LedgerIds, Fresh
  <2> QED BY <1>2, <2>3 DEF Gone, Known, LedgerIds, Fresh
<1> QED BY <1>3, <1>4

(* A mail that comes is last; so before an old one there are old ones only. *)
LEMMA OldCommands ==
  ASSUME BothTyped, BothTyped', MailKept, NEW r \in Commands', NEW n \in Nat,
         r < n, n <= Len(inbox) + 1
  PROVE  r \in Commands
<1>1. /\ DOMAIN inbox = 1 .. Len(inbox) /\ Len(inbox) \in Nat
      /\ DOMAIN inbox' \subseteq Nat \ {0}
  BY DEF BothTyped, MailTyped, MailboxTypeOK, MailTypeOK
<1>2. r \in DOMAIN inbox' /\ IsCommand(r)'
  BY DEF Commands, IsCommand, Kind
<1>3. r \in DOMAIN inbox
  BY <1>1, <1>2
<1> QED BY <1>2, <1>3 DEF MailKept, Commands, IsCommand, Kind

LEMMA EverOrderStep ==
  ASSUME BothTyped, BothTyped', MidsMinted, SentCounted, EverOrder,
         Deeds, Enters, Moves, MailKept, Acts
  PROVE  EverOrder'
<1>0. /\ DOMAIN inbox = 1 .. Len(inbox) /\ Len(inbox) \in Nat
      /\ DOMAIN inbox' = 1 .. Len(inbox') /\ Len(inbox') \in Nat
      /\ pos \in Nat
  BY DEF BothTyped, MailTyped, MailboxTypeOK, MailTypeOK
<1>1. Len(inbox) <= Len(inbox')
  <2>1. Len(inbox) = 0 \/ Len(inbox) \in DOMAIN inbox'
    BY <1>0 DEF MailKept
  <2> QED BY <1>0, <2>1
<1>2. \A r \in Commands : Over(r) => Over(r)'
  <2> SUFFICES ASSUME NEW r \in Commands, Over(r) PROVE Over(r)'
    OBVIOUS
  <2>1. r \in DOMAIN inbox
    BY DEF Commands
  <2> QED BY <2>1, OverForGood DEF Acts, Over, Gone, ActedOn, WasThere, ConsumedRow,
                                   Parent, Known, LedgerIds, Fresh
<1>3. \A s \in consumed' \ consumed : s = pos /\ pc \in HandPoints
  BY DEF Deeds, Rests, Delivers, Tells, MailWorld, MailArrives, serviceVars, storeVars,
         Obeys, Says, Settles, HandPoints
<1>4. HandInInbox'
  BY <1>0, <1>1 DEF EverOrder, HandInInbox, Moves
<1>5. QueuedIsConsumed'
  BY DEF QueuedIsConsumed, Moves, HandPoints
<1>6. ASSUME NEW s \in ActedOn' \cap Commands', NEW r \in Commands', r < s
      PROVE  Over(r)'
  <2>1. CASE s \in ActedOn
    <3>1. s \in DOMAIN inbox /\ s \in Nat /\ s <= Len(inbox) + 1
      BY <1>0, <2>1 DEF ActedOn
    <3>2. s \in Commands /\ r \in Commands
      <4>1. s \in Commands
        BY <3>1 DEF MailKept, Commands, IsCommand, Kind
      <4> QED BY <1>6, <3>1, <4>1, OldCommands
    <3> QED BY <1>2, <1>6, <2>1, <3>2 DEF EverOrder
  <2>2. CASE s \notin ActedOn
    <3>1. s = pos /\ pc \in HandPoints
      BY <1>3, <2>2 DEF Acts
    <3>2. r \in Commands
      BY <1>0, <1>6, <3>1, OldCommands DEF EverOrder, HandInInbox
    <3> QED BY <1>2, <1>6, <3>1, <3>2 DEF EverOrder
  <2> QED BY <2>1, <2>2
<1>7. ASSUME pc' \in HandPoints, NEW r \in Commands', r < pos'
      PROVE  Over(r)'
  <2>0. r \in Nat /\ r >= 1
    BY <1>0 DEF Commands
  <2>1. CASE pos' = 1
    BY <1>7, <2>0, <2>1
  <2>2. CASE pc \in HandPoints /\ pos' = pos
    <3>1. r \in Commands
      BY <1>0, <1>7, <2>2, OldCommands DEF EverOrder, HandInInbox
    <3> QED BY <1>2, <1>7, <2>2, <3>1 DEF EverOrder
  <2>3. CASE pc \in HandPoints /\ pos' = pos + 1 /\ pos <= Len(inbox) /\ PassedOver(pos)
    <3>1. r \in Commands
      <4>1. pos + 1 \in Nat /\ r < pos + 1 /\ pos + 1 <= Len(inbox) + 1
        BY <1>0, <1>7, <2>3
      <4> QED BY <4>1, OldCommands
    <3>2. CASE r = pos
      <4>1. Over(r)
        BY <2>3, <3>1, <3>2, PassedIsOver DEF Acts
      <4> QED BY <1>2, <3>1, <4>1
    <3>3. CASE r < pos
      BY <1>2, <2>3, <3>1, <3>3 DEF EverOrder
    <3> QED BY <1>0, <1>7, <2>0, <2>3, <3>2, <3>3
  <2> QED BY <1>7, <2>1, <2>2, <2>3 DEF Moves
<1> QED BY <1>4, <1>5, <1>6, <1>7 DEF EverOrder, Over, ActedOn, Commands

LEMMA EverToldStep ==
  ASSUME BothTyped, EverTold, QueuedIsConsumed, Deeds, Queues, MailKept, Acts
  PROVE  EverTold'
<1>1. \A notice : EverConfirms(notice) => EverConfirms(notice)'
  BY DEF EverConfirms, Acts, MailKept, Commands, IsCommand, Kind, ActedOn, WasThere,
         ConsumedRow
<1>2. \A notice \in pending' : EverConfirms(notice)'
  <2> SUFFICES ASSUME NEW notice \in pending', notice \notin pending
               PROVE  EverConfirms(notice)
    BY <1>1 DEF EverTold
  <2>1. pc = "queue" /\ notice.ref = pos /\ notice.on = (Kind(pos) = "on")
    BY DEF Queues
  <2>2. pos \in consumed /\ IsCommand(pos) /\ pos \in DOMAIN inbox
    BY <2>1 DEF QueuedIsConsumed, BothTyped, MailTyped, MailInHand, ConsumedInInbox
  <2> QED BY <2>1, <2>2 DEF EverConfirms, Acts, Commands
<1>3. \A m \in noticeU' : m.about # Session => EverConfirms(m.about)'
  <2> SUFFICES ASSUME NEW m \in noticeU', m.about # Session, m \notin noticeU
               PROVE  EverConfirms(m.about)
    BY <1>1 DEF EverTold
  <2>1. Tells
    BY ArrivalGrows
       DEF Deeds, Rests, Delivers, Obeys, Says, Settles, BothTyped, serviceVars, worldVars
  <2>2. PICK about \in toFlush \cup {Session} :
          noticeU' = noticeU \cup {[mid |-> minted + 1, about |-> about]}
    BY <2>1 DEF Tells
  <2>3. m.about = about
    BY <2>2
  <2> QED BY <2>2, <2>3 DEF EverTold
<1> QED BY <1>2, <1>3 DEF EverTold, Queues, EverConfirms, Session

---------------------------------------------------------------------------
EverInv ==
  /\ RetentionInv
  /\ MidsMinted /\ LedgerMailed /\ SentMailed /\ PostInHand
  /\ DeedsKept
  /\ EverOrder /\ EverTold

LEMMA BridgeKeepsEver ==
  ASSUME EverInv, RetentionInv', [BridgeNext]_bridgeVars,
         Stamp \/ UNCHANGED <<bridgeVars, rowTime>>
  PROVE  EverInv' /\ Deeds /\ Acts
<1>1. /\ BothTyped /\ BothTyped' /\ SentCounted /\ MailTyped /\ GateOpen
      /\ QueuedIsConsumed /\ toFlush \subseteq pending
  BY DEF EverInv, RetentionInv, Retained, BooksInv, BothTyped, DeedsKept, EverOrder,
         EverTold
<1>2. Deeds /\ Enters /\ Moves /\ Queues /\ MailKept
  BY <1>1, BridgeDeeds, BridgeEnters, BridgeMoves, BridgeQueues, ConsumesKnown
<1>3. Acts
  BY <1>1, <1>2, MarksAreActs DEF EverInv
<1>4. MidsMinted' /\ LedgerMailed' /\ SentMailed' /\ PostInHand' /\ DeedsKept'
  BY <1>1, <1>2, DeedsMinted, BooksMailed, PostStaysInHand, DeedsKeptStep DEF EverInv
<1>5. EverOrder' /\ EverTold'
  BY <1>1, <1>2, <1>3, EverOrderStep, EverToldStep DEF EverInv
<1> QED BY <1>2, <1>3, <1>4, <1>5 DEF EverInv

(* A purge takes from the books: what was gone stays gone. *)
LEMMA PurgeKeepsEver ==
  ASSUME EverInv, RetentionInv', Purge
  PROVE  EverInv' /\ UNCHANGED <<Letters, noticeU, Written, enabled, ActedOn, posts>>
<1>1. /\ pc = "down" /\ ledger' \subseteq ledger /\ sentNotice' \subseteq sentNotice
      /\ UNCHANGED <<pc, chat, mailU, noticeU, minted, sent, cur, inbox, posts, pos, enabled,
                     valid, pending, toFlush, rowTime>>
  BY PurgeShrinks DEF worldVars, localVars, mailVars, mailLocals
<1>2. /\ MidsMinted' /\ LedgerMailed' /\ SentMailed' /\ PostInHand'
  BY <1>1 DEF EverInv, MidsMinted, LedgerMailed, SentMailed, PostInHand, Parent
<1>3. DeedsKept'
  BY <1>1 DEF EverInv, DeedsKept, GateOpen, InboundPoints, NoticesSent, PostsStand,
              RecordPoints, Wish, IsCommand, Kind
<1>4. UNCHANGED <<ActedOn, Commands>>
  BY <1>1 DEF ActedOn, WasThere, ConsumedRow, Commands, IsCommand, Kind
<1>5. \A mid : Gone(mid) => Gone(mid)'
  BY <1>1 DEF Gone, Known, LedgerIds, Fresh
<1>6. EverOrder'
  <2>1. \A r : Over(r) => Over(r)'
    BY <1>1, <1>4, <1>5 DEF Over, Parent, Gone, Known, LedgerIds, Fresh, ActedOn,
                            WasThere, ConsumedRow
  <2> QED BY <1>1, <1>4, <2>1
          DEF EverInv, EverOrder, HandPoints, QueuedIsConsumed, HandInInbox
<1>7. EverTold'
  BY <1>1, <1>4 DEF EverInv, EverTold, EverConfirms, Kind
<1>8. UNCHANGED <<Letters, Written>>
  BY <1>1, WrittenStays DEF Letters
<1> QED BY <1>1, <1>2, <1>3, <1>4, <1>6, <1>7, <1>8 DEF EverInv

LEMMA EverInvStep ==
  EverInv /\ ConsumedFits /\ [RetentionNext]_retentionVars => EverInv'
<1> SUFFICES ASSUME EverInv, ConsumedFits, [RetentionNext]_retentionVars PROVE EverInv'
  OBVIOUS
<1>1. RetentionInv'
  BY RetentionInvStep DEF EverInv
<1>2. CASE Purge
  BY <1>1, <1>2, PurgeKeepsEver
<1>3. CASE /\ [BridgeNext]_bridgeVars
           /\ Stamp \/ UNCHANGED <<bridgeVars, rowTime>>
  BY <1>1, <1>3, BridgeKeepsEver
<1> QED BY <1>2, <1>3 DEF RetentionNext, Tick, retentionVars

LEMMA RetentionInitEver == RetentionInit => EverInv
<1> SUFFICES ASSUME RetentionInit PROVE EverInv
  OBVIOUS
<1>1. RetentionInv /\ DeedsKept
  BY RetentionInitInv, BridgeInitDeeds DEF RetentionInit
<1> USE DEF RetentionInit, BridgeInit, InboundInit, LocalInit, MailInit, MailLocalsInit,
            ServiceInit, StoreInit
<1>2. ActedOn = {}
  BY DEF ActedOn
<1>3. EverOrder /\ EverTold
  BY <1>2 DEF EverOrder, EverTold, QueuedIsConsumed, HandInInbox, HandPoints
<1>4. MidsMinted /\ LedgerMailed /\ SentMailed /\ PostInHand
  BY DEF MidsMinted, LedgerMailed, SentMailed, PostInHand
<1> QED BY <1>1, <1>3, <1>4 DEF EverInv

(* A mail in hand that answers one in the books was never acted on, unless *)
(* its marker is there; and no later command was obeyed.                   *)
LEMMA InHandIsNew ==
  ASSUME EverInv, pos \in DOMAIN inbox \ consumed, Parent(pos) \in Known
  PROVE  /\ pos \notin ActedOn
         /\ pos \in Commands => \A s \in ActedOn \cap Commands : s < pos
<1>1. pos \notin ActedOn
  BY MarkersSuffice DEF EverInv, PurgeRevivesNothing, IsBridgeMessage, Known, ActedOn
<1>2. ~Over(pos)
  BY <1>1 DEF Over, Gone
<1>3. ASSUME pos \in Commands, NEW s \in ActedOn \cap Commands PROVE s < pos
  <2>1. s \in Nat /\ pos \in Nat
    BY DEF Commands, EverInv, RetentionInv, Retained, BothTyped, MailTyped,
           MailboxTypeOK, MailTypeOK
  <2>2. ~(pos < s)
    BY <1>2, <1>3 DEF EverInv, EverOrder
  <2>3. s # pos
    BY <1>1
  <2> QED BY <2>1, <2>2, <2>3
<1> QED BY <1>1, <1>3

LEMMA DeedsEverAnswer ==
  ASSUME EverInv, Deeds, Acts PROVE [EverAnswered!Next]_EverAnswered!vars
<1> USE DEF EverAnswered!vars
<1>0. /\ MailTyped /\ MidsMinted /\ LedgerMailed /\ PostInHand
      /\ NoticesSent /\ PostsStand
  BY DEF EverInv, RetentionInv, Retained, BothTyped, DeedsKept
<1>i. EverAnswered!InUse = InU
  BY MidsInUse DEF EverAnswered!InUse
<1>a. UNCHANGED consumed => UNCHANGED ActedOn
  BY DEF Acts
<1>1. CASE Rests
  <2>1. UNCHANGED <<Letters, Written, ActedOn>>
    BY <1>1, <1>a, WrittenStays DEF Rests, Letters
  <2> QED BY <1>1, <2>1 DEF Rests
<1>2. CASE Delivers
  <2>1. PICK letter \in Letters' \ Letters :
          letter.mid \notin InU /\ Letters' = Letters \cup {letter}
    BY <1>0, <1>2, DeliveryIsLetter
  <2>2. UNCHANGED <<noticeU, Written, enabled, ActedOn, posts>> /\ enabled
    BY <1>2, <1>a, WrittenStays DEF Delivers
  <2>3. EverAnswered!Deliver(letter)
    BY <1>i, <2>1, <2>2 DEF EverAnswered!Deliver
  <2> QED BY <2>1, <2>3 DEF EverAnswered!Next
<1>3. CASE Tells
  <2>1. PICK notice \in noticeU' \ noticeU :
          /\ notice.mid \notin InU /\ noticeU' = noticeU \cup {notice}
          /\ notice.about \in toFlush \cup {Session}
    BY <1>0, <1>3, TellingIsNotice
  <2>2. UNCHANGED <<Letters, Written, enabled, ActedOn, posts>>
    BY <1>3, <1>a, WrittenStays DEF Tells, Letters
  <2>3. EverAnswered!Told(notice.about)
    <3>1. CASE notice.about = Session
      BY <3>1 DEF Session, EverAnswered!Told
    <3>2. CASE notice.about # Session
      <4>1. EverConfirms(notice.about)
        BY <2>1, <3>2 DEF EverInv, EverTold
      <4> QED BY <4>1, CommandsAreOrders
              DEF EverConfirms, EverAnswered!Told, EverAnswered!Orders
    <3> QED BY <3>1, <3>2
  <2>4. EverAnswered!Tell(notice)
    BY <1>i, <2>1, <2>2, <2>3 DEF EverAnswered!Tell
  <2> QED BY <2>1, <2>4 DEF EverAnswered!Next
<1>4. CASE MailWorld
  <2>1. PICK r \in DOMAIN Written' \ DOMAIN Written :
          /\ Written'[r].wish \in {"on", "off", "say", "nothing"}
          /\ Written'[r].answers \in InU \cup {0}
          /\ Written' = Append(Written, Written'[r])
    BY <1>0, <1>4, ArrivalIsMail
  <2>2. UNCHANGED <<Letters, noticeU, enabled, ActedOn, posts>>
    BY <1>4, <1>a DEF serviceVars, storeVars, worldVars, Letters, MailWorld, MailArrives
  <2>3. EverAnswered!Write(Written'[r])
    BY <1>i, <2>1, <2>2 DEF EverAnswered!Write, EverAnswered!Wishes
  <2> QED BY <2>1, <2>3 DEF EverAnswered!Next
<1>5. CASE Obeys
  <2>1. pos \in Commands \ consumed /\ Parent(pos) \in InU /\ pos \in DOMAIN inbox
    BY <1>0, <1>5, ObeysAnOrder DEF Commands
  <2>2. UNCHANGED <<Letters, noticeU, Written, posts>>
    BY <1>5, WrittenStays DEF Obeys, Letters
  <2>3. pos \notin ActedOn /\ \A s \in ActedOn \cap Commands : s < pos
    BY <1>5, <2>1, InHandIsNew DEF Obeys, Applies, IsBridgeMessage, Known
  <2>4. /\ ActedOn' = ActedOn \cup {pos}
        /\ enabled' = (Written[pos].wish = "on")
    BY <1>5, <2>1, CommandsAreOrders DEF Obeys, Acts
  <2>5. EverAnswered!Orders = Commands
    BY CommandsAreOrders DEF EverAnswered!Orders
  <2>6. EverAnswered!Obey(pos)
    BY <1>i, <2>1, <2>2, <2>3, <2>4, <2>5, WrittenIs DEF EverAnswered!Obey
  <2> QED BY <2>3, <2>4, <2>6 DEF EverAnswered!Next
<1>6. CASE Says
  <2>1. enabled /\ pos \in DOMAIN inbox \ consumed /\ Wish(pos) = "say"
    BY <1>0, <1>6, SayingIsSaid
  <2>2. PICK saying \in posts' \ posts :
          /\ saying.ref = pos
          /\ [mid |-> Parent(pos), dialog |-> saying.dialog] \in Letters
          /\ \A s \in posts : s.dialog = saying.dialog => s.id # saying.id
          /\ posts' = posts \cup {saying}
    BY <1>0, <1>6, SayingIsSaid
  <2>3. UNCHANGED <<Letters, noticeU, Written, enabled, ActedOn>>
    BY <1>6, <1>a, WrittenStays DEF Says, Letters
  <2>4. pos \in EverAnswered!Sayings \ ActedOn
    <3>1. pos \notin ActedOn
      BY <1>6, <2>1, InHandIsNew DEF Says, Posts, IsReply, Known
    <3> QED BY <2>1, <3>1, WrittenIs DEF EverAnswered!Sayings
  <2>5. EverAnswered!Say(saying)
    BY <2>1, <2>2, <2>3, <2>4, WrittenIs DEF EverAnswered!Say
  <2> QED BY <2>2, <2>5 DEF EverAnswered!Next
<1>7. CASE Settles
  <2>1. UNCHANGED <<Letters, noticeU, Written, enabled, posts>>
    BY <1>7, WrittenStays DEF Settles, Letters
  <2>2. /\ ActedOn' = ActedOn \/ ActedOn' = ActedOn \cup {pos}
        /\ \E p \in posts : p.ref = pos
    BY <1>0, <1>7 DEF Settles, PostInHand, Acts
  <2>3. CASE ActedOn' = ActedOn
    BY <2>1, <2>3
  <2>4. CASE ActedOn' # ActedOn
    <3>1. pos \in ActedOn' \ ActedOn /\ ActedOn' = ActedOn \cup {pos}
      BY <2>2, <2>4
    <3>2. EverAnswered!Settle(pos)
      BY <2>1, <2>2, <3>1 DEF EverAnswered!Settle
    <3> QED BY <3>1, <3>2 DEF EverAnswered!Next
  <2> QED BY <2>3, <2>4
<1> QED BY <1>1, <1>2, <1>3, <1>4, <1>5, <1>6, <1>7 DEF Deeds

LEMMA EverAnswersStep ==
  ASSUME EverInv, ConsumedFits, [RetentionNext]_retentionVars
  PROVE  [EverAnswered!Next]_EverAnswered!vars
<1>1. RetentionInv'
  BY RetentionInvStep DEF EverInv
<1>2. CASE Purge
  BY <1>1, <1>2, PurgeKeepsEver DEF EverAnswered!vars
<1>3. CASE /\ [BridgeNext]_bridgeVars
           /\ Stamp \/ UNCHANGED <<bridgeVars, rowTime>>
  BY <1>1, <1>3, BridgeKeepsEver, DeedsEverAnswer
<1> QED BY <1>2, <1>3 DEF RetentionNext, Tick, retentionVars

LEMMA NothingEverAnswered == RetentionInit => EverAnswered!Init
<1> SUFFICES ASSUME RetentionInit PROVE EverAnswered!Init
  OBVIOUS
<1>1. ServiceInit /\ MailInit /\ ActedOn = {}
  BY DEF RetentionInit, BridgeInit, InboundInit, MailInit, ActedOn
<1> QED BY <1>1, NothingAnswered DEF EverAnswered!Init, Answer!Init

(* No purge breaks the promise of module Answers for what U wrote: a mail  *)
(* whose marker is gone does not act again, and an older command that was  *)
(* passed over does not come back after a newer one.                       *)
THEOREM AnswersOutlivePurges ==
  RetentionSpec /\ []ConsumedFits => AnswersKeptForEver
BY RetentionInitEver, NothingEverAnswered, EverInvStep, EverAnswersStep, PTL
   DEF RetentionSpec, AnswersKeptForEver, EverAnswered!Spec

---------------------------------------------------------------------------
(* How often a reply is posted, where its consume marker may go: one more  *)
(* post is possible only while the reply was never consumed.               *)

EverCounted ==
  \A r \in Nat :
    /\ IsFiniteSet(PostsOf(r))
    /\ Cardinality(PostsOf(r)) <= 1 + faults
    /\ \/ r \in ActedOn
       \/ pc = "commitReply" /\ pos = r
       \/ Cardinality(PostsOf(r)) <= faults

LEMMA NoPostCountsForEver ==
  ASSUME BothTyped, EverCounted, MailKept, Acts, UNCHANGED posts, PostHandled
  PROVE  EverCounted'
<1>1. faults \in Nat
  BY DEF BothTyped, MailTyped, MailboxTypeOK, ServiceTypeOK
<1>2. ASSUME NEW r \in Nat
      PROVE  /\ PostsOf(r)' = PostsOf(r)
             /\ IsFiniteSet(PostsOf(r))
             /\ Cardinality(PostsOf(r)) \in Nat
  <2>1. PostsOf(r)' = PostsOf(r) /\ IsFiniteSet(PostsOf(r))
    BY DEF PostsOf, EverCounted
  <2> QED BY <2>1, FS_CardinalityType
<1>3. ActedOn \subseteq ActedOn' /\ consumed' \subseteq ActedOn'
  BY DEF Acts
<1> HIDE DEF ActedOn
<1> QED BY <1>1, <1>2, <1>3 DEF EverCounted, MailKept, PostHandled

LEMMA PostCountsForEver ==
  ASSUME EverInv, EverCounted, Acts, PostReply \/ PostFails PROVE EverCounted'
<1>0. BothTyped
  BY DEF EverInv, RetentionInv, Retained
<1>1. pos \in Nat /\ faults \in Nat /\ pc = "mail" /\ pos \notin ActedOn
  <2>1. pos \in Nat /\ faults \in Nat /\ pc = "mail" /\ pos <= end /\ Posts(pos)
    BY <1>0 DEF PostReply, PostFails, AtMail, BothTyped, MailTyped, MailboxTypeOK,
                ServiceTypeOK, MailTypeOK
  <2>2. pos \in DOMAIN inbox
    BY <1>0, <2>1, PosInInbox DEF BothTyped, HandPoints
  <2> QED BY <2>1, <2>2, InHandIsNew DEF Posts, IsReply, Known
<1>2. PICK x : posts' \subseteq posts \cup {x} /\ x.ref = pos /\ posts \subseteq posts'
  <2> DEFINE new == [ref |-> pos, dialog |-> Target, id |-> Len(chat[Target]) + 1]
  <2>1. posts' = posts \/ posts' = posts \cup {new}
    BY DEF PostReply, PostFails, Posted
  <2>2. new.ref = pos
    OBVIOUS
  <2> QED BY <2>1, <2>2
<1>3. ActedOn' = ActedOn
  BY DEF PostReply, PostFails, storeVars, Acts
<1>4. \/ faults' = faults /\ pc' = "commitReply" /\ pos' = pos
      \/ faults' = faults + 1
  BY DEF PostReply, PostFails, Fault
<1> SUFFICES ASSUME NEW r \in Nat
             PROVE  /\ IsFiniteSet(PostsOf(r)')
                    /\ Cardinality(PostsOf(r)') <= 1 + faults'
                    /\ \/ r \in ActedOn'
                       \/ pc' = "commitReply" /\ pos' = r
                       \/ Cardinality(PostsOf(r)') <= faults'
  BY DEF EverCounted
<1>5. /\ IsFiniteSet(PostsOf(r)) /\ Cardinality(PostsOf(r)) \in Nat
      /\ Cardinality(PostsOf(r)) <= 1 + faults
      /\ r \in ActedOn \/ Cardinality(PostsOf(r)) <= faults
  BY <1>1, FS_CardinalityType DEF EverCounted
<1>6. CASE r = pos
  <2>1. PostsOf(r)' \subseteq PostsOf(r) \cup {x}
    BY <1>2 DEF PostsOf
  <2>2. /\ IsFiniteSet(PostsOf(r)') /\ Cardinality(PostsOf(r)') \in Nat
        /\ Cardinality(PostsOf(r)') <= Cardinality(PostsOf(r)) + 1
    BY <1>5, <2>1, OneMore
  <2> QED BY <1>1, <1>4, <1>5, <1>6, <2>2
<1>7. CASE r # pos
  <2>1. PostsOf(r)' = PostsOf(r)
    BY <1>2, <1>7 DEF PostsOf
  <2> QED BY <1>1, <1>3, <1>4, <1>5, <2>1
<1> QED BY <1>6, <1>7

LEMMA EverCountedStep ==
  ASSUME EverInv, EverCounted, ConsumedFits, [RetentionNext]_retentionVars
  PROVE  EverCounted'
<1>1. RetentionInv' /\ BothTyped
  BY RetentionInvStep DEF EverInv, RetentionInv, Retained
<1>2. CASE Purge
  <2>1. UNCHANGED <<ActedOn, posts, faults, pc, pos>>
    BY <1>2, PurgeShrinks DEF worldVars, mailVars, mailLocals, ActedOn, WasThere,
                              ConsumedRow
  <2> QED BY <2>1 DEF EverCounted, PostsOf
<1>3. CASE /\ [BridgeNext]_bridgeVars
           /\ Stamp \/ UNCHANGED <<bridgeVars, rowTime>>
  <2>1. Acts /\ MailKept
    BY <1>1, <1>3, BridgeKeepsEver, ConsumesKnown
  <2> QED BY <1>1, <1>3, <2>1, PostCountsForEver, BridgePostsNothing, NoPostCountsForEver
<1> QED BY <1>2, <1>3 DEF RetentionNext, Tick, retentionVars

(* A reply is not posted again because its marker was purged: each post    *)
(* after the first was preceded by a fault, however old the reply gets.    *)
THEOREM RepostsCostFaultsForEver ==
  RetentionSpec /\ []ConsumedFits => []PostsNeedFaults
<1>1. RetentionInit => EverCounted
  <2> SUFFICES ASSUME RetentionInit PROVE EverCounted
    OBVIOUS
  <2>1. posts = {} /\ faults = 0
    BY DEF RetentionInit, BridgeInit, InboundInit, ServiceInit, MailInit
  <2>2. \A r \in Nat : PostsOf(r) = {}
    BY <2>1 DEF PostsOf
  <2> QED BY <2>1, <2>2, FS_EmptySet DEF EverCounted
<1>2. EverInv /\ EverCounted => PostsNeedFaults
  <2>1. EverInv => DOMAIN inbox \subseteq Nat
    BY DEF EverInv, RetentionInv, Retained, BothTyped, MailTyped, MailboxTypeOK, MailTypeOK
  <2> QED BY <2>1 DEF EverCounted, PostsNeedFaults, PostsOf
<1> QED BY <1>1, <1>2, RetentionInitEver, EverInvStep, EverCountedStep, PTL
        DEF RetentionSpec

(* The gate holds through purges: none runs beside a process, so none      *)
(* changes what a cycle saw when it read the gate.                         *)
THEOREM RetentionGateHolds == RetentionSpec => NothingCrossesClosedGate
<1> DEFINE Crossing == mailU' # mailU \/ posts' # posts => DeliveryAllowed
           Inv == Retained /\ GateOpen
<1>1. RetentionInit => Inv
  BY RetentionInitTyped
     DEF RetentionInit, BridgeInit, InboundInit, ServiceInit, GateOpen, InboundPoints
<1>2. ASSUME Inv, [RetentionNext]_retentionVars PROVE Inv' /\ [Crossing]_bridgeVars
  <2>1. Retained' /\ BothTyped
    BY <1>2, RetentionNextTyped DEF Retained
  <2>2. CASE [BridgeNext]_bridgeVars
    BY <1>2, <2>1, <2>2, GateStaysOpen, CrossingAllowed
  <2>3. CASE Purge
    <3>1. pc' = "down" /\ UNCHANGED <<mailU, posts>>
      BY <2>3, PurgeShrinks DEF worldVars, mailVars
    <3> QED BY <2>1, <3>1 DEF GateOpen, InboundPoints
  <2> QED BY <1>2, <2>2, <2>3 DEF RetentionNext, Tick, retentionVars
<1> QED BY <1>1, <1>2, PTL DEF RetentionSpec, NothingCrossesClosedGate

---------------------------------------------------------------------------
(* Limits that take the whole INBOX, as those of the runs do.  Each echo   *)
(* marker was written with the first consume marker of a mail, so there    *)
(* are no more of them than mails.                                         *)

HandNotConsumed == pc = "commitReply" => pos \notin consumed

EchoesCounted ==
  /\ HandNotConsumed
  /\ IsFiniteSet(echo)
  /\ Cardinality(echo) <= Cardinality(ActedOn)

FewMails == Len(inbox) <= MaxInbox

LimitsInv == RetentionInv /\ EchoesCounted /\ FewMails

LEMMA InInterval ==
  ASSUME NEW n \in Nat, NEW S \in SUBSET (1 .. n)
  PROVE  IsFiniteSet(S) /\ Cardinality(S) \in Nat /\ Cardinality(S) <= n
<1>1. IsFiniteSet(1 .. n) /\ Cardinality(1 .. n) = IF 1 > n THEN 0 ELSE n - 1 + 1
  BY FS_Interval
<1>2. Cardinality(1 .. n) = n
  BY <1>1
<1>3. IsFiniteSet(S) /\ Cardinality(S) <= Cardinality(1 .. n)
  BY <1>1, FS_Subset
<1>4. Cardinality(S) \in Nat
  BY <1>3, FS_CardinalityType
<1> QED BY <1>2, <1>3, <1>4

LEMMA OnceIsFinite ==
  ASSUME BothTyped
  PROVE  /\ IsFiniteSet(ActedOn)
         /\ Cardinality(ActedOn) \in Nat /\ Cardinality(ActedOn) <= Len(inbox)
         /\ Cardinality(consumed) <= Len(inbox)
<1>1. DOMAIN inbox = 1 .. Len(inbox) /\ Len(inbox) \in Nat
  BY DEF BothTyped, MailTyped, MailboxTypeOK, MailTypeOK
<1>2. consumed \subseteq 1 .. Len(inbox) /\ ActedOn \subseteq 1 .. Len(inbox)
  BY <1>1 DEF BothTyped, MailTyped, ConsumedInInbox, ActedOn
<1> QED BY <1>1, <1>2, InInterval

LEMMA LimitsFit ==
  ASSUME MaxInbox <= MaxConsumed, LimitsInv PROVE ConsumedFits
<1>1. /\ BothTyped /\ Len(inbox) \in Nat /\ Len(inbox) <= MaxInbox
      /\ MaxInbox \in Nat /\ MaxConsumed \in Nat
  BY MailboxAssumption, RetentionAssumption
     DEF LimitsInv, FewMails, RetentionInv, Retained, BothTyped, MailTyped,
         MailboxTypeOK, MailTypeOK
<1> QED BY <1>1, OnceIsFinite, ConsumedIsFinite DEF ConsumedFits

LEMMA EchoesFit ==
  ASSUME MaxInbox <= MaxEcho, LimitsInv PROVE EchoFits
<1>1. /\ BothTyped /\ Len(inbox) \in Nat /\ Len(inbox) <= MaxInbox
      /\ MaxInbox \in Nat /\ MaxEcho \in Nat
      /\ IsFiniteSet(echo) /\ Cardinality(echo) <= Cardinality(ActedOn)
  BY MailboxAssumption, RetentionAssumption
     DEF LimitsInv, FewMails, EchoesCounted, RetentionInv, Retained, BothTyped,
         MailTyped, MailboxTypeOK, MailTypeOK
<1> QED BY <1>1, OnceIsFinite, FS_CardinalityType DEF EchoFits

LEMMA InboxLimited ==
  ASSUME Retained, FewMails, [RetentionNext]_retentionVars PROVE FewMails'
<1>1. CASE UNCHANGED inbox
  BY <1>1 DEF FewMails
<1>2. CASE MailWorld
  <2>1. Len(inbox') = Len(inbox) + 1 /\ Len(inbox) < MaxInbox /\ Len(inbox) \in Nat
    BY <1>2 DEF MailWorld, MailArrives, Retained, BothTyped, MailTyped,
                MailboxTypeOK, MailTypeOK
  <2> QED BY <2>1, MailboxAssumption DEF FewMails
<1>3. CASE MailboxTurn
  BY <1>1, <1>3
     DEF MailboxTurn, MailboxCycle, MailboxSteps, MailboxFailures, StartMailbox,
         Poll, PollFails, SkipMail, ApplyCommand, QueueConfirmation, PostReply,
         CommitPost, PostFails, PostPeerNotFound, PostSessionInvalid, StartFlush,
         SendConfirmation, ConfirmationFails, RecordConfirmation,
         DeleteConfirmation, EndMailbox, mailVars
<1>4. UNCHANGED inbox \/ MailWorld \/ MailboxTurn
  BY PurgeShrinks
     DEF RetentionNext, BridgeNext, BridgeCycles, MailboxTurn, BridgeEnds, Tick,
         retentionVars, bridgeVars, mailVars
<1> QED BY <1>1, <1>2, <1>3, <1>4

(* A mail once consumed stays among those. *)
LEMMA OnceGrows ==
  ASSUME BothTyped, [BridgeNext]_bridgeVars, Stamp
  PROVE  ActedOn \subseteq ActedOn'
<1>1. MailKept
  BY ConsumesKnown
<1> QED BY <1>1 DEF MailKept, ActedOn, WasThere, Stamp, ConsumedRow

LEMMA BridgeEchoesCounted ==
  ASSUME RetentionInv, RetentionInv', EchoesCounted, BridgeNext, Stamp
  PROVE  EchoesCounted'
<1>0. BothTyped /\ BothTyped' /\ PurgeRevivesNothing
  BY MarkersSuffice DEF RetentionInv, Retained
<1>1. HandNotConsumed'
  <2>1. CASE PostReply
    BY <2>1 DEF PostReply, Posts, HandNotConsumed, storeVars
  <2>2. CASE ~PostReply
    BY <1>0, <2>2, PostStays DEF HandNotConsumed, EchoesCounted
  <2> QED BY <2>1, <2>2
<1>2. ActedOn \subseteq ActedOn'
  BY <1>0, OnceGrows
<1>3. /\ IsFiniteSet(ActedOn) /\ Cardinality(ActedOn) \in Nat
      /\ IsFiniteSet(echo) /\ Cardinality(echo) \in Nat
      /\ Cardinality(echo) <= Cardinality(ActedOn)
  BY <1>0, OnceIsFinite, FS_CardinalityType DEF EchoesCounted
<1>4. IsFiniteSet(ActedOn')
  <2>1. DOMAIN inbox' = 1 .. Len(inbox') /\ Len(inbox') \in Nat
    BY <1>0 DEF BothTyped, MailTyped, MailboxTypeOK, MailTypeOK
  <2>2. ActedOn' \subseteq 1 .. Len(inbox')
    BY <2>1 DEF ActedOn
  <2> QED BY <2>1, <2>2, InInterval
<1>5. CASE UNCHANGED echo
  <2>1. Cardinality(ActedOn) <= Cardinality(ActedOn')
        /\ Cardinality(ActedOn') \in Nat
    BY <1>2, <1>4, FS_Subset, FS_CardinalityType
  <2> QED BY <1>1, <1>3, <1>5, <2>1 DEF EchoesCounted
<1>6. CASE CommitPost /\ \E e : echo' = echo \cup {e}
  <2>1. pos \in consumed' \ consumed
    BY <1>6 DEF CommitPost, CommitReply, Goto, EchoesCounted, HandNotConsumed
  <2>2. pos \in DOMAIN inbox /\ pos \in DOMAIN inbox' /\ ~WasThere(ConsumedRow(pos))
    BY <1>0, <2>1, ConsumesKnown DEF PurgeRevivesNothing, MailKept
  <2>3. ConsumedRow(pos) \in DOMAIN rowTime'
    BY <2>1 DEF Stamp, Rows
  <2>4. pos \notin ActedOn /\ ActedOn \cup {pos} \subseteq ActedOn'
    BY <1>2, <2>2, <2>3 DEF ActedOn, WasThere, ConsumedRow
  <2>5. /\ Cardinality(ActedOn \cup {pos}) = Cardinality(ActedOn) + 1
        /\ IsFiniteSet(ActedOn \cup {pos})
    BY <1>3, <2>4, FS_AddElement
  <2>6. /\ Cardinality(ActedOn \cup {pos}) <= Cardinality(ActedOn')
        /\ Cardinality(ActedOn') \in Nat
    BY <1>4, <2>4, FS_Subset, FS_CardinalityType
  <2>7. PICK e : echo' = echo \cup {e}
    BY <1>6
  <2>8. /\ IsFiniteSet(echo') /\ Cardinality(echo') \in Nat
        /\ Cardinality(echo') <= Cardinality(echo) + 1
    BY <1>3, <2>7, OneMore
  <2> QED BY <1>1, <1>3, <2>5, <2>6, <2>8 DEF EchoesCounted
<1> QED BY <1>0, <1>5, <1>6, BridgeMarksOne

LEMMA LimitsStep ==
  ASSUME MaxInbox <= MaxConsumed, LimitsInv, [RetentionNext]_retentionVars
  PROVE  LimitsInv'
<1>0. /\ RetentionInv /\ EchoesCounted /\ Retained /\ RetentionInv' /\ FewMails'
  BY LimitsFit, RetentionInvStep, InboxLimited DEF LimitsInv, RetentionInv
<1>1. CASE BridgeNext /\ Stamp
  BY <1>0, <1>1, BridgeEchoesCounted DEF LimitsInv
<1>2. CASE Purge
  <2>1. /\ echo' \subseteq echo /\ consumed' \subseteq consumed
        /\ UNCHANGED <<inbox, rowTime, pc, pos>>
    BY <1>2, PurgeShrinks DEF mailVars, mailLocals
  <2>2. ActedOn' = ActedOn /\ HandNotConsumed'
    BY <1>0, <2>1 DEF ActedOn, WasThere, ConsumedRow, HandNotConsumed, EchoesCounted
  <2>3. /\ IsFiniteSet(echo') /\ Cardinality(echo') <= Cardinality(echo)
        /\ Cardinality(echo') \in Nat /\ Cardinality(echo) \in Nat
    BY <1>0, <2>1, FS_Subset, FS_CardinalityType DEF EchoesCounted
  <2>4. Cardinality(ActedOn) \in Nat
    BY <1>0, OnceIsFinite DEF Retained
  <2> QED BY <1>0, <2>2, <2>3, <2>4 DEF LimitsInv, EchoesCounted
<1>3. CASE UNCHANGED <<bridgeVars, rowTime>>
  <2>1. UNCHANGED <<inbox, echo, consumed, pc, pos, rowTime>>
    BY <1>3 DEF bridgeVars, serviceVars, storeVars, mailVars, mailLocals
  <2>2. EchoesCounted'
    BY <1>0, <2>1 DEF EchoesCounted, HandNotConsumed, ActedOn, WasThere, ConsumedRow
  <2> QED BY <1>0, <2>2 DEF LimitsInv
<1> QED BY <1>1, <1>2, <1>3 DEF RetentionNext, Tick, retentionVars

LEMMA InitLimits == RetentionInit => LimitsInv
<1> SUFFICES ASSUME RetentionInit PROVE LimitsInv
  OBVIOUS
<1>1. /\ echo = {} /\ consumed = {} /\ inbox = << >> /\ Len(inbox) = 0
  BY DEF RetentionInit, BridgeInit, InboundInit, ServiceInit, StoreInit, MailInit
<1>2. FewMails
  BY <1>1, MailboxAssumption DEF FewMails
<1>3. BothTyped
  BY RetentionInitTyped DEF Retained
<1>4. EchoesCounted
  BY <1>1, <1>3, OnceIsFinite, FS_EmptySet DEF EchoesCounted, HandNotConsumed
<1> QED BY <1>2, <1>4, RetentionInitInv DEF LimitsInv

(* With limits no smaller than the INBOX grows, the ages alone decide, and *)
(* both windows hold in every behaviour of the bridge and its purges.      *)
THEOREM LimitsThatTakeTheInbox ==
  ASSUME MaxInbox <= MaxConsumed, MaxInbox <= MaxEcho
  PROVE  RetentionSpec =>
           /\ [](PurgeRevivesNothing /\ EchoWindow /\ PostsNeedFaults)
           /\ ConsumedStaysConsumed
           /\ AnswersKeptForEver
<1>1. LimitsInv /\ [RetentionNext]_retentionVars => LimitsInv'
  BY LimitsStep
<1>2. LimitsInv => ConsumedFits /\ EchoFits
  BY LimitsFit, EchoesFit
<1>3. RetentionSpec => []ConsumedFits /\ []EchoFits
  BY <1>1, <1>2, InitLimits, PTL DEF RetentionSpec
<1> QED BY <1>3, PurgeRevives, EchoWindowHolds, RepostsCostFaultsForEver,
           ConsumedOnlyOnce, AnswersOutlivePurges, PTL
=============================================================================
