---------------------------- MODULE Bridge_proofs ----------------------------
(***************************************************************************)
(* Proofs about the bridge as a whole, for every set of dialogs, every     *)
(* INBOX and every number of failures: that neither cycle spoils what the  *)
(* other keeps, and what only the two together promise.                    *)
(*                                                                         *)
(* A step of the bridge is a step of the inbound process that leaves the   *)
(* mailbox locals alone, or the other way round (AsInbound, AsMailbox), so *)
(* the invariants proved of each part need one more case each: the steps   *)
(* of the other cycle.                                                     *)
(***************************************************************************)
EXTENDS Bridge, Inbound_proofs, MailboxSafety_proofs

USE DEF BatchPoints, tableVars, outsideVars, batchVars

InboundTurn == InboundCycle /\ UNCHANGED <<mailVars, mailLocals>>

MailboxTurn == MailboxCycle /\ UNCHANGED <<localVars, base>>

Arrival ==
  /\ \E d \in Dialogs, kind \in Kinds : MessageArrives(d, kind)
  /\ UNCHANGED <<localVars, base, mailVars, mailLocals>>

(* To the inbound process every step but a mailbox cycle's is one of its   *)
(* own, or none.                                                           *)
LEMMA AsInbound ==
  ASSUME [BridgeNext]_bridgeVars
  PROVE  [InboundNext]_inboundVars \/ MailboxTurn
<1>1. CASE MailWorld /\ UNCHANGED <<localVars, base>>
  BY <1>1 DEF MailWorld, MailArrives, inboundVars
<1>2. CASE UNCHANGED bridgeVars
  BY <1>2 DEF bridgeVars, inboundVars
<1>3. CASE BridgeEnds
  BY <1>3 DEF BridgeEnds, InboundEnds, InboundNext
<1>4. CASE BridgeCycles
  BY <1>4 DEF BridgeCycles, MailboxTurn, InboundNext
<1>5. CASE /\ Handler \/ Lifecycle \/ World
           /\ UNCHANGED <<localVars, base, mailVars, mailLocals>>
  BY <1>5 DEF InboundNext
<1> QED BY <1>1, <1>2, <1>3, <1>4, <1>5 DEF BridgeNext

(* To the mailbox process, every step but an inbound cycle's and the       *)
(* arrival of a message.                                                   *)
LEMMA AsMailbox ==
  ASSUME [BridgeNext]_bridgeVars
  PROVE  [MailboxNext]_mailboxVars \/ InboundTurn \/ Arrival
<1>1. CASE MailWorld /\ UNCHANGED <<localVars, base>>
  BY <1>1 DEF MailboxNext
<1>2. CASE UNCHANGED bridgeVars
  BY <1>2 DEF bridgeVars, mailboxVars
<1>3. CASE BridgeEnds
  BY <1>3 DEF BridgeEnds, MailboxEnds, MailboxNext
<1>4. CASE BridgeCycles
  BY <1>4 DEF BridgeCycles, InboundTurn, MailboxNext
<1>5. CASE /\ Handler \/ Lifecycle \/ World
           /\ UNCHANGED <<localVars, base, mailVars, mailLocals>>
  BY <1>5 DEF World, Arrival, MailboxNext
<1> QED BY <1>1, <1>2, <1>3, <1>4, <1>5 DEF BridgeNext

---------------------------------------------------------------------------
(* Where each cycle stands, and what it leaves alone.                      *)

LEMMA InboundTurnStays ==
  ASSUME Typed, InboundCycle
  PROVE  /\ pc' \in InboundPoints \cup {"idle", "down", "invalid"}
         /\ UNCHANGED <<consumed, echo, enabled, valid, pending, sentNotice,
                        noticeU, chat>>
         /\ ledger \subseteq ledger'
         /\ mailU \subseteq mailU'
<1> USE DEF InboundPoints, storeVars, worldVars
<1>1. CASE StartInbound \/ ListDialogs \/ ListFails \/ EndInbound
  BY <1>1 DEF StartInbound, ListDialogs, ListFails, EndInbound, Goto
<1>2. CASE \E job \in todo : DialogStep(job)
  BY <1>2 DEF DialogStep, SkipNotDue, SkipNothingNew, FetchNothing, FetchTail,
              FetchNoneSelected, FetchBatch, FetchFails, FetchPeerNotFound, Fetches
<1>3. CASE DownloadMedia \/ DownloadFails \/ DownloadPeerNotFound
  BY <1>3 DEF DownloadMedia, DownloadFails, DownloadPeerNotFound, Goto
<1>4. CASE \E k \in rest : PartStep(k)
  BY <1>4 DEF PartStep, SendPart, SendFails, SendRefused, MailReachesU,
              ProcessEnds, Goto
<1>5. CASE Commit
  BY <1>5 DEF Commit, CommitDelivery, Goto
<1>6. CASE InboundSessionInvalid
  BY <1>6 DEF InboundSessionInvalid, Invalidate
<1> QED BY <1>1, <1>2, <1>3, <1>4, <1>5, <1>6 DEF InboundCycle

LEMMA MailboxTurnStays ==
  ASSUME MailTyped, MailboxCycle
  PROVE  /\ pc' \in MailboxPoints \cup {"idle", "down", "invalid"}
         /\ UNCHANGED <<cursor, ledger, mailU, valid>>
         /\ echo \subseteq echo'
<1> USE DEF MailboxPoints, storeVars, worldVars
<1>1. CASE StartMailbox \/ Poll \/ PollFails \/ SkipMail
  BY <1>1 DEF StartMailbox, Poll, PollFails, SkipMail, AtMail, Goto
<1>2. CASE ApplyCommand \/ QueueConfirmation
  BY <1>2 DEF ApplyCommand, QueueConfirmation, SetBridgeEnabled, Goto
<1>3. CASE PostReply \/ CommitPost \/ PostFails
  BY <1>3 DEF PostReply, CommitPost, PostFails, CommitReply, AtMail, Goto
<1>4. CASE PostPeerNotFound \/ PostSessionInvalid \/ StartFlush
  BY <1>4 DEF PostPeerNotFound, PostSessionInvalid, StartFlush, ProcessEnds,
              Invalidate, Goto
<1>5. CASE SendConfirmation \/ ConfirmationFails \/ RecordConfirmation
  BY <1>5 DEF SendConfirmation, ConfirmationFails, RecordConfirmation, Goto
<1>6. CASE DeleteConfirmation \/ EndMailbox
  BY <1>6 DEF DeleteConfirmation, EndMailbox, Invalidate, Goto
<1> QED BY <1>1, <1>2, <1>3, <1>4, <1>5, <1>6
        DEF MailboxCycle, MailboxSteps, MailboxFailures

---------------------------------------------------------------------------
(* Types.                                                                  *)

BothTyped == Typed /\ MailTyped

LEMMA BridgeInitTyped == BridgeInit => BothTyped
<1> SUFFICES ASSUME BridgeInit PROVE BothTyped
  OBVIOUS
<1>1. InboundInit /\ MailboxInit
  BY DEF BridgeInit, InboundInit, MailboxInit
<1> QED BY <1>1, InitTyped, MailInitTyped DEF BothTyped

(* The mailbox cycle takes no dialog in hand. *)
LEMMA MailboxTurnTyped ==
  ASSUME BothTyped, MailboxTurn PROVE BothTyped'
<1>1. MailTyped'
  BY MailStepTyped, PostErrorTyped, CycleStepTyped
     DEF BothTyped, MailboxTurn, MailboxCycle, MailboxSteps, MailboxFailures
<1>2. pc' \notin BatchPoints
  BY MailboxTurnStays DEF BothTyped, MailboxTurn, MailboxPoints
<1>3. LocalTypeOK'
  BY DEF MailboxTurn, localVars, LocalTypeOK, BothTyped, Typed, InboundTypeOK
<1> QED BY <1>1, <1>2, <1>3
        DEF BothTyped, Typed, InboundTypeOK, InHand, MailTyped, MailboxTypeOK

(* The inbound cycle takes no mail in hand. *)
LEMMA InboundTurnTyped ==
  ASSUME BothTyped, InboundTurn PROVE BothTyped'
<1>1. Typed'
  BY InboundCycleTyped DEF BothTyped, InboundTurn
<1>2. pc' \notin HandPoints \cup {"flushRecord", "flushDelete"} /\ UNCHANGED consumed
  BY InboundTurnStays DEF BothTyped, InboundTurn, HandPoints, InboundPoints
<1>3. MailTypeOK'
  BY DEF InboundTurn, MailTypeOK, mailVars, mailLocals, BothTyped, MailTyped,
         MailboxTypeOK
<1>4. MailInHand'
  BY <1>2 DEF MailInHand, HandPoints
<1>5. ConsumedInInbox'
  BY <1>2 DEF ConsumedInInbox, InboundTurn, mailVars, BothTyped, MailTyped
<1> QED BY <1>1, <1>3, <1>4, <1>5
        DEF BothTyped, Typed, InboundTypeOK, MailTyped, MailboxTypeOK

LEMMA ArrivalTyped ==
  ASSUME BothTyped, Arrival PROVE BothTyped'
<1>1. InboundNext /\ UNCHANGED <<storeVars, pc, ret, mailVars, mailLocals>>
  BY DEF Arrival, InboundNext, World, MessageArrives
<1>2. Typed'
  BY <1>1, InboundNextTyped DEF BothTyped
<1>3. MailTypeOK' /\ ConsumedInInbox'
  BY <1>1 DEF MailTypeOK, ConsumedInInbox, mailVars, mailLocals, storeVars,
              BothTyped, MailTyped, MailboxTypeOK
<1>4. MailInHand'
  BY <1>1 DEF MailInHand, HandPoints, IsCommand, IsReply, Trusted, Kind, Parent,
              LedgerIds, mailVars, mailLocals, storeVars, BothTyped, MailTyped
<1> QED BY <1>2, <1>3, <1>4
        DEF BothTyped, Typed, InboundTypeOK, MailTyped, MailboxTypeOK

LEMMA BridgeNextTyped == BothTyped /\ [BridgeNext]_bridgeVars => BothTyped'
<1> SUFFICES ASSUME BothTyped, [BridgeNext]_bridgeVars PROVE BothTyped'
  OBVIOUS
<1>1. CASE [InboundNext]_inboundVars /\ [MailboxNext]_mailboxVars
  BY <1>1, InboundNextTyped, MailboxNextTyped DEF BothTyped
<1> QED BY <1>1, AsInbound, AsMailbox, MailboxTurnTyped, InboundTurnTyped,
           ArrivalTyped

(* The tables, the world and the locals of both cycles always have their   *)
(* types, whichever cycle wrote them.                                      *)
THEOREM BridgeTypes == BridgeSpec => []BridgeTypeOK
<1>1. BothTyped => BridgeTypeOK
  BY DEF BothTyped, Typed, MailTyped, BridgeTypeOK, MailboxTypeOK
<1> QED BY <1>1, BridgeInitTyped, BridgeNextTyped, PTL DEF BridgeSpec
---------------------------------------------------------------------------
(* No message is skipped, with posts among the messages.                   *)

(* A post is one more message at the end of its dialog; nothing else of    *)
(* the mailbox cycle reaches the chats.                                    *)
LEMMA MailboxTurnGrows ==
  ASSUME BothTyped, MailboxTurn
  PROVE  ChatGrows /\ BooksGrow /\ UNCHANGED <<cursor, base>>
<1>0. \A d \in Dialogs : Len(chat[d]) \in Nat
  BY DEF BothTyped, Typed, InboundTypeOK, ServiceTypeOK
<1>1. BooksGrow /\ UNCHANGED <<cursor, base>>
  BY MailboxTurnStays DEF BooksGrow, BothTyped, MailboxTurn
<1>2. CASE (PostReply \/ PostFails) /\ Posted(Target)
  <2>1. Target \in Dialogs
    BY <1>2, TargetInLedger DEF PostReply, PostFails, Posts, BothTyped
  <2>2. chat' = [chat EXCEPT ![Target] = Append(@, "addressed")]
    BY <1>2 DEF Posted
  <2>3. "addressed" \in MsgKinds /\ chat \in [Dialogs -> Seq(MsgKinds)]
    BY DEF MsgKinds, BothTyped, Typed, InboundTypeOK, ServiceTypeOK
  <2>4. ChatGrows
    BY <2>1, <2>2, <2>3, AppendTyped DEF ChatGrows, Ids
  <2> QED BY <1>1, <2>4
<1>3. CASE UNCHANGED chat
  BY <1>0, <1>1, <1>3 DEF ChatGrows
<1>4. ((PostReply \/ PostFails) /\ Posted(Target)) \/ UNCHANGED chat
  <2>1. CASE PostReply \/ PostFails
    BY <2>1 DEF PostReply, PostFails
  <2>2. CASE \/ StartMailbox \/ Poll \/ PollFails \/ SkipMail \/ ApplyCommand
             \/ QueueConfirmation \/ CommitPost \/ PostPeerNotFound
             \/ PostSessionInvalid \/ StartFlush \/ SendConfirmation
             \/ ConfirmationFails \/ RecordConfirmation \/ DeleteConfirmation
             \/ EndMailbox
    BY <2>2 DEF StartMailbox, Poll, PollFails, SkipMail, ApplyCommand,
                QueueConfirmation, CommitPost, PostPeerNotFound,
                PostSessionInvalid, StartFlush, SendConfirmation,
                ConfirmationFails, RecordConfirmation, DeleteConfirmation,
                EndMailbox, worldVars
  <2> QED BY <2>1, <2>2 DEF MailboxTurn, MailboxCycle, MailboxSteps, MailboxFailures
<1> QED BY <1>2, <1>3, <1>4

LEMMA BridgeKeeps ==
  ASSUME BothTyped, InboundInv, BacklogFits, [BridgeNext]_bridgeVars
  PROVE  InboundInv'
<1>1. CASE [InboundNext]_inboundVars
  BY <1>1, InboundNextKeeps
<1>2. CASE MailboxTurn
  <2>1. Typed'
    BY BridgeNextTyped DEF BothTyped
  <2>2. CursorInDialog' /\ NoMessageSkipped'
    BY <1>2, <2>1, MailboxTurnGrows, StillNotSkipped DEF InboundInv
  <2>3. BatchKept'
    BY <1>2, MailboxTurnStays DEF BatchKept, BothTyped, MailboxTurn, MailboxPoints
  <2> QED BY <2>1, <2>2, <2>3 DEF InboundInv
<1> QED BY <1>1, <1>2, AsInbound

(* With posts, echoes and commands between the fetches, too, no message    *)
(* that is owed is passed while each backlog fits into one fetch.          *)
THEOREM BridgeSkipsNothing ==
  BridgeSpec /\ []BacklogFits => []NoMessageSkipped
<1> DEFINE Inv == BothTyped /\ InboundInv
<1>1. BridgeInit => Inv
  BY BridgeInitTyped, InitSkipsNothing DEF BridgeInit
<1>2. Inv /\ BacklogFits /\ [BridgeNext]_bridgeVars => Inv'
  BY BridgeNextTyped, BridgeKeeps
<1>3. Inv => NoMessageSkipped
  BY DEF InboundInv
<1> QED BY <1>1, <1>2, <1>3, PTL DEF BridgeSpec

---------------------------------------------------------------------------
(* The gate.  The inbound cycle reads it once: it must stay open until the *)
(* cycle is over, which it does because the mailbox cycle, the handler and *)
(* setup never run within it.                                              *)

GateOpen == pc \in InboundPoints => DeliveryAllowed

LEMMA GateStaysOpen ==
  ASSUME BothTyped, GateOpen, [BridgeNext]_bridgeVars PROVE GateOpen'
<1> USE DEF GateOpen, DeliveryAllowed, InboundPoints
<1>r. ret \notin InboundPoints
  BY DEF BothTyped, Typed, InboundTypeOK, ServiceTypeOK
<1>1. CASE InboundTurn
  <2>1. UNCHANGED <<enabled, valid>>
    BY <1>1, InboundTurnStays DEF InboundTurn, BothTyped
  <2>2. CASE StartInbound
    BY <2>1, <2>2 DEF StartInbound
  <2>3. CASE ~StartInbound
    <3>1. pc \in InboundPoints
      BY <1>1, <2>3
         DEF InboundTurn, InboundCycle, ListDialogs, ListFails, EndInbound,
             DialogStep, SkipNotDue, SkipNothingNew, FetchNothing, FetchTail,
             FetchNoneSelected, FetchBatch, FetchFails, FetchPeerNotFound,
             DownloadMedia, DownloadFails, DownloadPeerNotFound, PartStep,
             SendPart, SendFails, SendRefused, Commit, InboundSessionInvalid,
             TelegramCalled, Fetches, Goto
    <3> QED BY <2>1, <3>1
  <2> QED BY <2>2, <2>3
<1>2. CASE MailboxTurn
  BY <1>2, MailboxTurnStays DEF MailboxTurn, BothTyped, MailboxPoints
<1>3. CASE BridgeEnds
  BY <1>3 DEF BridgeEnds, Crash, Stop, ProcessEnds
<1>4. CASE Handler
  BY <1>4, <1>r DEF Handler, MarkInvalid, SendSessionNotice, SessionNoticeFails,
                    RecordSessionNotice, MarkNotified, Goto
<1>5. CASE Lifecycle
  BY <1>5 DEF Lifecycle, Start, Setup, SetupInterrupted, Goto, storeVars
<1>6. CASE World
  BY <1>6 DEF World, MessageArrives, Revoke, TimePasses, BackoffElapses, storeVars
<1>7. CASE MailWorld
  BY <1>7 DEF MailWorld, MailArrives, serviceVars, storeVars
<1>8. CASE UNCHANGED bridgeVars
  BY <1>8 DEF bridgeVars, serviceVars, storeVars
<1> QED BY <1>1, <1>2, <1>3, <1>4, <1>5, <1>6, <1>7, <1>8
        DEF BridgeNext, BridgeCycles, InboundTurn, MailboxTurn

(* Only a part that is sent adds to U's mail, and only a post to Telegram's *)
(* messages of U.                                                          *)
LEMMA CrossingAllowed ==
  ASSUME BothTyped, GateOpen, [BridgeNext]_bridgeVars,
         mailU' # mailU \/ posts' # posts
  PROVE  DeliveryAllowed
<1>1. CASE InboundTurn
  <2>1. mailU' # mailU
    BY <1>1 DEF InboundTurn, mailVars
  <2>2. pc = "send"
    BY <1>1, <2>1
       DEF InboundTurn, InboundCycle, StartInbound, ListDialogs, ListFails,
           EndInbound, DialogStep, SkipNotDue, SkipNothingNew, FetchNothing,
           FetchTail, FetchNoneSelected, FetchBatch, FetchFails,
           FetchPeerNotFound, DownloadMedia, DownloadFails,
           DownloadPeerNotFound, PartStep, SendPart, SendFails, SendRefused,
           Commit, InboundSessionInvalid, Goto, worldVars
  <2> QED BY <2>2 DEF GateOpen, InboundPoints
<1>2. CASE Arrival
  BY <1>2 DEF Arrival, MessageArrives, mailVars
<1>3. CASE [MailboxNext]_mailboxVars
  <2>1. CASE QuietSteps
    BY <2>1, QuietIsBooked DEF Booked, BothTyped
  <2>2. CASE PostReply \/ PostFails
    BY <2>2 DEF PostReply, PostFails, Posts
  <2>3. CASE \E d \in Dialogs : InboundDelivers(d)
    BY <2>3 DEF InboundDelivers
  <2>4. CASE UNCHANGED mailboxVars \/ ApplyCommand \/ CommitPost \/ MailWorld
    BY <2>4, ArrivalGrows
       DEF mailboxVars, serviceVars, mailVars, worldVars, ApplyCommand, CommitPost,
           BothTyped
  <2> QED BY <1>3, <2>1, <2>2, <2>3, <2>4, MailboxNextCases
<1> QED BY <1>1, <1>2, <1>3, AsMailbox

(* While the bridge is off, or its session is known to be invalid, no      *)
(* message is mailed and no reply posted, whatever ran when the gate       *)
(* closed.                                                                 *)
THEOREM GateHolds == BridgeSpec => NothingCrossesClosedGate
<1> DEFINE Inv == BothTyped /\ GateOpen
           Crossing == mailU' # mailU \/ posts' # posts => DeliveryAllowed
<1>1. BridgeInit => Inv
  BY BridgeInitTyped DEF BridgeInit, InboundInit, ServiceInit, GateOpen, InboundPoints
<1>2. Inv /\ [BridgeNext]_bridgeVars => Inv'
  BY BridgeNextTyped, GateStaysOpen
<1>3. Inv /\ [BridgeNext]_bridgeVars => [Crossing]_bridgeVars
  BY CrossingAllowed
<1> QED BY <1>1, <1>2, <1>3, PTL DEF BridgeSpec, NothingCrossesClosedGate
---------------------------------------------------------------------------
(* What the bridge posted is not mailed back.                              *)

MsgsInDialog == \A m \in mailU : m.msgs \subseteq Ids(m.dialog)

BatchNoEcho ==
  pc \in BatchPoints =>
    \A n \in selected : n \in Ids(cur) /\ <<cur, n>> \notin echo

MailedTo(d, n) == \E m \in mailU : m.dialog = d /\ n \in m.msgs

(* The post to be committed was made after all that has been mailed.       *)
PostFresh ==
  pc = "commitReply" => posted \in Ids(Target) /\ ~MailedTo(Target, posted)

EchoNotMailed == \A d \in Dialogs, n \in Nat : <<d, n>> \in echo => ~MailedTo(d, n)

Apart == MsgsInDialog /\ BatchNoEcho /\ PostFresh /\ EchoNotMailed

(* A step that mails nothing and marks nothing keeps the two apart.        *)
LEMMA StillApart ==
  ASSUME BothTyped, BothTyped', Apart, ChatGrows, UNCHANGED <<mailU, echo>>,
         pc' \in BatchPoints => UNCHANGED <<pc, selected, cur>>,
         pc' = "commitReply" => UNCHANGED <<pc, posted, Target>>
  PROVE  Apart'
<1> USE DEF Apart
<1>0. \A d \in Dialogs : Ids(d) \subseteq Ids(d)'
  BY DEF Ids, ChatGrows, BothTyped, Typed, InboundTypeOK, ServiceTypeOK
<1>1. MsgsInDialog'
  BY <1>0 DEF MsgsInDialog, BothTyped, Typed, InboundTypeOK, ServiceTypeOK
<1>2. BatchNoEcho'
  <2> SUFFICES ASSUME pc' \in BatchPoints, NEW n \in selected'
               PROVE  n \in Ids(cur)' /\ <<cur', n>> \notin echo'
    BY DEF BatchNoEcho
  <2>1. PICK d \in Dialogs : d = cur
    BY DEF BothTyped, Typed, InHand
  <2>2. n \in Ids(d) /\ <<d, n>> \notin echo
    BY <2>1 DEF BatchNoEcho
  <2>3. n \in Ids(d)'
    BY <1>0, <2>2
  <2> QED BY <2>1, <2>2, <2>3 DEF Ids
<1>3. PostFresh'
  <2> SUFFICES ASSUME pc' = "commitReply"
               PROVE  posted' \in Ids(Target)' /\ ~MailedTo(Target, posted)'
    BY DEF PostFresh
  <2>1. PICK d \in Dialogs : d = Target
    BY TargetInLedger DEF BothTyped, MailTyped, MailInHand
  <2>2. posted \in Ids(d) /\ ~MailedTo(d, posted)
    BY <2>1 DEF PostFresh
  <2>3. posted \in Ids(d)'
    BY <1>0, <2>2
  <2> QED BY <2>1, <2>2, <2>3 DEF Ids, MailedTo
<1>4. EchoNotMailed'
  BY DEF EchoNotMailed, MailedTo
<1> QED BY <1>1, <1>2, <1>3, <1>4

(* A batch is fetched: Select leaves the echoes out.                       *)
LEMMA FetchApart ==
  ASSUME BothTyped, Apart, NEW job \in todo, FetchBatch(job) PROVE Apart'
<1> USE DEF Apart
<1>0. job.dialog \in Dialogs
  BY DEF BothTyped, Typed, InboundTypeOK, LocalTypeOK
<1>1. /\ UNCHANGED <<chat, mailU, echo>>
      /\ pc' = "media" /\ cur' = job.dialog /\ selected' = Select(job.dialog)
  BY DEF FetchBatch, storeVars, worldVars
<1>2. MsgsInDialog' /\ EchoNotMailed' /\ PostFresh'
  BY <1>1 DEF MsgsInDialog, EchoNotMailed, MailedTo, PostFresh, Ids
<1>3. BatchNoEcho'
  BY <1>0, <1>1, SelectTyped DEF BatchNoEcho, Select, IsEcho, Ids, BothTyped
<1> QED BY <1>2, <1>3

(* A part is mailed, and may go out again: it holds no echo.               *)
LEMMA PartApart ==
  ASSUME BothTyped, Apart, NEW k \in rest, PartStep(k) PROVE Apart'
<1> USE DEF Apart
<1>0. cur \in Dialogs /\ pc = "send"
  BY DEF PartStep, SendPart, SendFails, SendRefused, Goto, BothTyped, Typed, InHand
<1>1. UNCHANGED <<chat, echo>> /\ pc' # "commitReply"
  BY DEF PartStep, SendPart, SendFails, SendRefused, ProcessEnds, Goto, storeVars,
         worldVars
<1>2. \A n \in Part(k) : n \in Ids(cur) /\ <<cur, n>> \notin echo
  BY <1>0 DEF Part, BatchNoEcho, BothTyped, Typed, InboundTypeOK, LocalTypeOK
<1>3. \A m \in mailU' : m \in mailU \/ (m.dialog = cur /\ m.msgs = Part(k))
  BY DEF PartStep, SendPart, SendFails, SendRefused, MailReachesU, worldVars
<1>4. MsgsInDialog'
  BY <1>1, <1>2, <1>3 DEF MsgsInDialog, Ids
<1>5. EchoNotMailed'
  BY <1>1, <1>2, <1>3 DEF EchoNotMailed, MailedTo
<1>6. BatchNoEcho'
  <2>1. pc' \in BatchPoints => UNCHANGED <<selected, cur>>
    BY DEF PartStep, SendPart, SendFails, SendRefused, ProcessEnds, Goto
  <2> QED BY <1>0, <1>1, <2>1 DEF BatchNoEcho, Ids
<1> QED BY <1>1, <1>4, <1>5, <1>6 DEF PostFresh

LEMMA InboundApart ==
  ASSUME BothTyped, BothTyped', Apart, InboundTurn PROVE Apart'
<1>0. ChatGrows /\ UNCHANGED echo /\ pc' # "commitReply"
  BY InboundTurnStays
     DEF BothTyped, InboundTurn, ChatGrows, InboundPoints, Typed, InboundTypeOK,
         ServiceTypeOK
<1>1. CASE \E job \in todo : FetchBatch(job)
  BY <1>1, FetchApart
<1>2. CASE \E k \in rest : PartStep(k)
  BY <1>2, PartApart
<1>3. CASE DownloadMedia
  BY <1>0, <1>3 DEF DownloadMedia, Goto, Apart, MsgsInDialog, BatchNoEcho, PostFresh,
                    EchoNotMailed, MailedTo, Ids, localVars, worldVars
<1>4. CASE \/ StartInbound \/ ListDialogs \/ ListFails \/ EndInbound
           \/ DownloadFails \/ DownloadPeerNotFound \/ Commit
           \/ InboundSessionInvalid
           \/ \E job \in todo : DialogStep(job) /\ ~FetchBatch(job)
  <2>1. UNCHANGED mailU /\ pc' \notin BatchPoints
    BY <1>4 DEF StartInbound, ListDialogs, ListFails, EndInbound, DownloadFails,
                DownloadPeerNotFound, Commit, InboundSessionInvalid, Invalidate,
                DialogStep, SkipNotDue, SkipNothingNew, FetchNothing, FetchTail,
                FetchNoneSelected, FetchFails, FetchPeerNotFound, Fetches, Goto,
                worldVars
  <2> QED BY <1>0, <2>1, StillApart
<1> QED BY <1>1, <1>2, <1>3, <1>4 DEF InboundTurn, InboundCycle

(* The post is made: it is newer than all that has been mailed.            *)
LEMMA PostApart ==
  ASSUME BothTyped, BothTyped', Apart, MailboxTurn, PostReply PROVE Apart'
<1> USE DEF Apart
<1>1. PICK d \in Dialogs : d = Target
  BY TargetInLedger DEF PostReply, Posts, BothTyped
<1>2. /\ UNCHANGED <<mailU, echo>> /\ pc' = "commitReply" /\ Target' = Target
      /\ posted' = Len(chat[d]) + 1
      /\ chat' = [chat EXCEPT ![d] = Append(@, "addressed")]
  BY <1>1 DEF PostReply, Posted, storeVars, Target, LedgerDialog, Parent
<1>3. /\ chat \in [Dialogs -> Seq(MsgKinds)] /\ Len(chat[d]) \in Nat
      /\ mailU \subseteq [mid : Nat, dialog : Dialogs, msgs : SUBSET Nat]
  BY <1>1 DEF BothTyped, Typed, InboundTypeOK, ServiceTypeOK
<1>4. \A e \in Dialogs : Ids(e) \subseteq Ids(e)'
  BY MailboxTurnGrows, <1>3 DEF ChatGrows, Ids, BothTyped, Typed, InboundTypeOK,
                                ServiceTypeOK
<1>5. MsgsInDialog'
  BY <1>2, <1>3, <1>4 DEF MsgsInDialog
<1>6. PostFresh'
  <2>1. Len(chat'[d]) = Len(chat[d]) + 1
    BY <1>1, <1>2, <1>3 DEF MsgKinds
  <2>2. posted' \in Ids(d)' /\ posted' \notin Ids(d)
    BY <1>2, <1>3, <2>1 DEF Ids
  <2>3. ~MailedTo(d, posted)'
    BY <1>2, <2>2 DEF MailedTo, MsgsInDialog
  <2> QED BY <1>1, <1>2, <2>2, <2>3 DEF PostFresh, Ids, MailedTo
<1>7. BatchNoEcho' /\ EchoNotMailed'
  BY <1>2 DEF BatchNoEcho, EchoNotMailed, MailedTo
<1> QED BY <1>5, <1>6, <1>7

(* The echo marker is written: its post has not been mailed.               *)
LEMMA MarkApart ==
  ASSUME BothTyped, Apart, CommitPost PROVE Apart'
<1> USE DEF Apart
<1>1. /\ pc = "commitReply" /\ pc' = "mail"
      /\ echo' = echo \cup {<<Target, posted>>}
      /\ UNCHANGED <<mailU, chat>>
  BY DEF CommitPost, CommitReply, Goto, worldVars
<1>2. ~MailedTo(Target, posted)
  BY <1>1 DEF PostFresh
<1>3. EchoNotMailed'
  BY <1>1, <1>2 DEF EchoNotMailed, MailedTo
<1>4. MsgsInDialog'
  BY <1>1 DEF MsgsInDialog, Ids
<1> QED BY <1>1, <1>3, <1>4 DEF BatchNoEcho, PostFresh

LEMMA MailboxApart ==
  ASSUME BothTyped, BothTyped', Apart, MailboxTurn PROVE Apart'
<1>1. CASE PostReply
  BY <1>1, PostApart
<1>2. CASE CommitPost
  BY <1>2, MarkApart
<1>3. CASE ~PostReply /\ ~CommitPost
  <2>1. UNCHANGED echo /\ pc' # "commitReply"
    BY <1>3 DEF MailboxTurn, MailboxCycle, MailboxSteps, MailboxFailures,
                StartMailbox, Poll, PollFails, SkipMail, ApplyCommand,
                QueueConfirmation, PostFails, PostPeerNotFound,
                PostSessionInvalid, StartFlush, SendConfirmation,
                ConfirmationFails, RecordConfirmation, DeleteConfirmation,
                EndMailbox, SetBridgeEnabled, ProcessEnds, Invalidate, AtMail,
                Goto, storeVars
  <2>2. UNCHANGED mailU /\ pc' \notin BatchPoints
    BY MailboxTurnStays DEF MailboxTurn, MailboxPoints, BothTyped
  <2> QED BY <2>1, <2>2, MailboxTurnGrows, StillApart
<1> QED BY <1>1, <1>2, <1>3

(* The world and the handler only add messages. *)
LEMMA OtherApart ==
  ASSUME BothTyped, BothTyped', Apart, [BridgeNext]_bridgeVars,
         ~InboundTurn, ~MailboxTurn
  PROVE  Apart'
<1>r. ret \notin BatchPoints \cup {"commitReply"}
  BY DEF BothTyped, Typed, InboundTypeOK, ServiceTypeOK
<1>1. CASE /\ Handler \/ Lifecycle \/ World
           /\ UNCHANGED <<localVars, base, mailVars, mailLocals>>
  <2>1. ChatGrows
    BY <1>1, SharedGrows DEF BothTyped
  <2>2. CASE Handler \/ Lifecycle
    <3>1. UNCHANGED <<mailU, echo>> /\ pc' \notin BatchPoints \cup {"commitReply"}
      BY <1>r, <2>2
         DEF Handler, MarkInvalid, SendSessionNotice, SessionNoticeFails,
             RecordSessionNotice, MarkNotified, Lifecycle, Start, Setup,
             SetupInterrupted, Goto, storeVars, worldVars
    <3> QED BY <2>1, <3>1, StillApart
  <2>3. CASE World
    <3>1. UNCHANGED <<mailU, echo, ledger, pc>>
      BY <2>3 DEF World, MessageArrives, Revoke, TimePasses, BackoffElapses,
                  storeVars, worldVars
    <3>2. UNCHANGED <<selected, cur, posted, Target>>
      BY <1>1, <3>1 DEF localVars, mailVars, mailLocals, Target, LedgerDialog, Parent
    <3> QED BY <2>1, <3>1, <3>2, StillApart
  <2> QED BY <1>1, <2>2, <2>3
<1>2. CASE BridgeEnds
  <2>1. ChatGrows
    BY <1>2, SharedGrows DEF BothTyped, BridgeEnds
  <2>2. UNCHANGED <<mailU, echo>> /\ pc' = "down"
    BY <1>2 DEF BridgeEnds, Crash, Stop, ProcessEnds, storeVars, worldVars
  <2> QED BY <2>1, <2>2, StillApart
<1>3. CASE MailWorld /\ UNCHANGED <<localVars, base>>
  <2>1. /\ UNCHANGED <<mailU, echo, ledger, chat, pc, posted, selected, cur>>
        /\ pc = "commitReply" => Target' = Target
    <3>1. UNCHANGED <<serviceVars, mailLocals, localVars>>
      BY <1>3 DEF MailWorld, MailArrives
    <3>2. pc = "commitReply" => Target' = Target
      BY <1>3, <3>1, ArrivalGrows, PosInInbox
         DEF Target, LedgerDialog, Parent, BothTyped, MailTyped, MailInHand,
             HandPoints, serviceVars, storeVars, mailLocals
    <3> QED BY <3>1, <3>2 DEF serviceVars, storeVars, worldVars, mailLocals, localVars
  <2>2. ChatGrows
    BY <2>1 DEF ChatGrows, BothTyped, Typed, InboundTypeOK, ServiceTypeOK
  <2> QED BY <2>1, <2>2, StillApart
<1>4. CASE UNCHANGED bridgeVars
  <2>1. UNCHANGED <<mailU, echo, ledger, chat, pc, posted, selected, cur, Target>>
    BY <1>4 DEF bridgeVars, serviceVars, storeVars, worldVars, localVars, mailLocals,
                mailVars, Target, LedgerDialog, Parent
  <2>2. ChatGrows
    BY <2>1 DEF ChatGrows, BothTyped, Typed, InboundTypeOK, ServiceTypeOK
  <2> QED BY <2>1, <2>2, StillApart
<1> QED BY <1>1, <1>2, <1>3, <1>4 DEF BridgeNext, BridgeCycles, InboundTurn, MailboxTurn

(* No mail to U carries a post that the bridge made and marked: the post   *)
(* is newer than every batch fetched before its marker is written, and     *)
(* every later fetch leaves it out.                                        *)
THEOREM OwnPostsStayOut == BridgeSpec => []OwnPostsNotMailed
<1> DEFINE Inv == BothTyped /\ Apart
<1>1. BridgeInit => Inv
  BY BridgeInitTyped DEF BridgeInit, InboundInit, ServiceInit, StoreInit, Apart,
     MsgsInDialog, BatchNoEcho, PostFresh, EchoNotMailed
<1>2. Inv /\ [BridgeNext]_bridgeVars => Inv'
  BY BridgeNextTyped, InboundApart, MailboxApart, OtherApart
<1>3. Inv => OwnPostsNotMailed
  <2> SUFFICES ASSUME Inv, NEW p \in posts, <<p.dialog, p.id>> \in echo
               PROVE  ~MailedTo(p.dialog, p.id)
    BY DEF OwnPostsNotMailed, MailedTo
  <2>1. p.dialog \in Dialogs /\ p.id \in Nat
    BY DEF BothTyped, MailTyped, MailboxTypeOK, MailTypeOK
  <2> QED BY <2>1 DEF Apart, EchoNotMailed
<1> QED BY <1>1, <1>2, <1>3, PTL DEF BridgeSpec
---------------------------------------------------------------------------
(* Replies and commands, with the inbound cycle in place of its one-step   *)
(* stand-in: between the send of a part and its commit the mail is out and *)
(* not in the ledger, while U may already answer it.                       *)

(* The steps that are of neither cycle. *)
LEMMA OtherLeaves ==
  ASSUME BothTyped, [BridgeNext]_bridgeVars, ~InboundTurn, ~MailboxTurn
  PROVE  /\ UNCHANGED <<mailU, ledger, consumed, echo>>
         /\ \/ UNCHANGED <<pc, batchVars>>
            \/ pc' \notin BatchPoints /\ sent' = {}
            \/ pc' \notin BatchPoints /\ pc \notin BatchPoints /\ UNCHANGED sent
<1>r. ret \notin BatchPoints
  BY DEF BothTyped, Typed, InboundTypeOK, ServiceTypeOK
<1>1. CASE Handler /\ UNCHANGED localVars
  BY <1>r, <1>1 DEF Handler, MarkInvalid, SendSessionNotice, SessionNoticeFails,
                    RecordSessionNotice, MarkNotified, Goto, storeVars, worldVars,
                    localVars
<1>2. CASE Lifecycle /\ UNCHANGED localVars
  BY <1>2 DEF Lifecycle, Start, Setup, SetupInterrupted, Goto, storeVars, worldVars,
              localVars
<1>3. CASE World /\ UNCHANGED localVars
  BY <1>3 DEF World, MessageArrives, Revoke, TimePasses, BackoffElapses, storeVars,
              worldVars, localVars
<1>4. CASE BridgeEnds
  BY <1>4 DEF BridgeEnds, Crash, Stop, ProcessEnds, ForgetLocals, storeVars, worldVars
<1>5. CASE MailWorld /\ UNCHANGED <<localVars, base>>
  BY <1>5 DEF MailWorld, MailArrives, serviceVars, storeVars, worldVars, localVars
<1>6. CASE UNCHANGED bridgeVars
  BY <1>6 DEF bridgeVars, serviceVars, storeVars, worldVars, localVars
<1> QED BY <1>1, <1>2, <1>3, <1>4, <1>5, <1>6
        DEF BridgeNext, BridgeCycles, InboundTurn, MailboxTurn

(* What a step of the inbound cycle does to the Message-IDs. *)
Sends ==
  /\ minted <= minted'
  /\ \A row \in ledger' : row \in ledger \/ (row.mid \in sent /\ row.dialog = cur
                                             /\ pc = "commit")
  /\ \A x \in sent' : x \in sent \/ x > minted
  /\ \A m \in mailU' : m \in mailU \/ m.mid <= minted'
  /\ pc' \notin BatchPoints =>
       \/ sent' = {}
       \/ pc \notin BatchPoints /\ UNCHANGED sent
  /\ pc' \in BatchPoints =>
       \/ sent' = {}
       \/ /\ pc \in BatchPoints /\ UNCHANGED cur
          /\ \A x \in sent' : x \in sent \/ \E m \in mailU' : m.mid = x /\ m.dialog = cur

LEMMA InboundTurnSends ==
  ASSUME BothTyped, InboundTurn PROVE Sends
<1> USE DEF Sends
<1>0. minted \in Nat
  BY DEF BothTyped, Typed, InboundTypeOK, ServiceTypeOK
<1>1. CASE StartInbound \/ ListDialogs \/ ListFails \/ EndInbound
  BY <1>0, <1>1 DEF StartInbound, ListDialogs, ListFails, EndInbound, Goto, storeVars,
                    worldVars, localVars
<1>2. CASE \E job \in todo : DialogStep(job)
  BY <1>0, <1>2 DEF DialogStep, SkipNotDue, SkipNothingNew, FetchNothing, FetchTail,
                    FetchNoneSelected, FetchBatch, FetchFails, FetchPeerNotFound,
                    Fetches, storeVars, worldVars
<1>3. CASE DownloadMedia \/ DownloadFails \/ DownloadPeerNotFound
  BY <1>0, <1>3 DEF DownloadMedia, DownloadFails, DownloadPeerNotFound, DropBatch,
                    Goto, storeVars, worldVars, localVars
<1>4. CASE \E k \in rest : SendFails(k) \/ SendRefused(k)
  BY <1>0, <1>4 DEF SendFails, SendRefused, MailReachesU, ProcessEnds, DropBatch,
                    ForgetLocals, Goto, storeVars, worldVars
<1>5. CASE \E k \in rest : SendPart(k)
  <2>1. PICK k \in rest : SendPart(k)
    BY <1>5
  <2> DEFINE part == [mid |-> minted + 1, dialog |-> cur, msgs |-> Part(k)]
  <2>2. /\ mailU' = mailU \cup {part} /\ minted' = minted + 1
        /\ sent' = sent \cup {minted + 1} /\ pc = "send" /\ UNCHANGED <<cur, ledger>>
        /\ pc' \in BatchPoints
    BY <2>1 DEF SendPart, MailReachesU, storeVars
  <2>3. part.mid = minted + 1 /\ part.dialog = cur
    OBVIOUS
  <2> HIDE DEF part
  <2> QED BY <1>0, <2>2, <2>3
<1>6. CASE Commit
  BY <1>0, <1>6 DEF Commit, CommitDelivery, DropBatch, Goto, worldVars
<1>7. CASE InboundSessionInvalid
  BY <1>0, <1>7 DEF InboundSessionInvalid, Invalidate, ForgetLocals, storeVars, worldVars
<1> QED BY <1>1, <1>2, <1>3, <1>4, <1>5, <1>6, <1>7
        DEF InboundTurn, InboundCycle, PartStep

(* Each part that counts as sent is in U's mailbox, under its dialog. *)
SentMailed ==
  pc \in BatchPoints =>
    \A x \in sent : \E m \in mailU : m.mid = x /\ m.dialog = cur

LEMMA BridgeAccounts ==
  ASSUME BothTyped, Accounted, SentMailed, [BridgeNext]_bridgeVars
  PROVE  Accounted' /\ SentMailed'
<1>1. CASE InboundTurn
  <2>1. Sends /\ mailU \subseteq mailU' /\ ledger \subseteq ledger'
    BY <1>1, InboundTurnSends, InboundTurnStays DEF BothTyped, InboundTurn
  <2>2. UNCHANGED <<consumed, echo, sentNotice, inbox, posts>> /\ pc' # "commitReply"
    BY <1>1, InboundTurnStays DEF BothTyped, InboundTurn, InboundPoints, mailVars
  <2>3. LedgerMailed'
    BY <2>1 DEF LedgerMailed, SentMailed, Sends, Accounted
  <2>4. SentMailed'
    BY <2>1 DEF SentMailed, Sends
  <2>5. PostInHand' /\ PostsInInbox'
    BY <2>2 DEF PostInHand, PostsInInbox, Accounted
  <2>6. ConsumedMeansPosted'
    BY <2>1, <2>2 DEF ConsumedMeansPosted, Replies, IsCommand, Kind, Parent, Accounted
  <2>7. OnlyTrustedMailActs'
    BY <2>1, <2>2 DEF OnlyTrustedMailActs, LedgerIds, Trusted, Kind, Parent, Accounted
  <2> QED BY <2>3, <2>4, <2>5, <2>6, <2>7 DEF Accounted
<1>2. CASE MailboxTurn
  <2>1. Accounted'
    BY <1>2, AccountedStep DEF BothTyped, MailboxTurn, MailboxNext
  <2>2. SentMailed'
    BY <1>2, MailboxTurnStays DEF SentMailed, BothTyped, MailboxTurn, MailboxPoints
  <2> QED BY <2>1, <2>2
<1>3. CASE ~InboundTurn /\ ~MailboxTurn
  <2>1. SentMailed'
    BY <1>3, OtherLeaves DEF SentMailed
  <2>2. CASE Arrival
    <3>1. Booked
      BY <2>2 DEF Arrival, MessageArrives, Booked, storeVars, mailVars, mailLocals
    <3> QED BY <2>1, <3>1, BookedAccounts DEF BothTyped
  <2> QED BY <1>3, <2>1, <2>2, AsMailbox, AccountedStep DEF BothTyped
<1> QED BY <1>1, <1>2, <1>3

BridgeAccounted == BothTyped /\ Accounted /\ SentMailed

LEMMA BridgeAccountedAlways == BridgeSpec => []BridgeAccounted
<1>1. BridgeInit => BridgeAccounted
  BY BridgeInitTyped DEF BridgeAccounted, BridgeInit, InboundInit, MailInit,
     ServiceInit, StoreInit, Accounted, LedgerMailed, PostInHand, PostsInInbox,
     ConsumedMeansPosted, OnlyTrustedMailActs, SentMailed
<1>2. BridgeAccounted /\ [BridgeNext]_bridgeVars => BridgeAccounted'
  BY BridgeNextTyped, BridgeAccounts DEF BridgeAccounted
<1> QED BY <1>1, <1>2, PTL DEF BridgeSpec

(* A consumed reply is in Telegram, in the dialog whose batch the mail it  *)
(* answers carried.                                                        *)
THEOREM BridgeRepliesPosted == BridgeSpec => []ConsumedMeansPosted
BY BridgeAccountedAlways, PTL DEF BridgeAccounted, Accounted

(* Only U's mails that answer a mail of the bridge act, also those that    *)
(* answer a part before it is in the ledger.                               *)
THEOREM BridgeStrangersIgnored == BridgeSpec => []OnlyTrustedMailActs
BY BridgeAccountedAlways, PTL DEF BridgeAccounted, Accounted

---------------------------------------------------------------------------
(* The order of the commands.  A part that is sent is not Lost for good:   *)
(* its commit will record it.  But no poll runs before that, so no command *)
(* that answers it has been passed over.                                   *)

SentInHand == pc \notin BatchPoints => sent = {}

UnsentBefore ==
  \A s \in consumed \cap Commands, r \in Commands :
    r < s => r \in consumed \/ Parent(r) \notin sent

CommandOrder == Ordered /\ SentInHand /\ UnsentBefore

LEMMA InboundOrders ==
  ASSUME BothTyped, CommandOrder, InboundTurn PROVE CommandOrder'
<1> USE DEF CommandOrder, Ordered
<1>1. Sends
  BY InboundTurnSends
<1>2. /\ UNCHANGED <<consumed, enabled, sentNotice, noticeU, inbox>>
      /\ pc' \notin HandPoints \cup RecordPoints
  BY InboundTurnStays DEF BothTyped, InboundTurn, InboundPoints, mailVars,
                          HandPoints, RecordPoints
<1>3. /\ minted \in Nat /\ minted' \in Nat /\ minted <= minted'
      /\ \A r \in DOMAIN inbox : Parent(r) \in Nat /\ Parent(r) <= minted
  <2>1. minted' \in Nat
    BY InboundTurnTyped DEF BothTyped, Typed, InboundTypeOK, ServiceTypeOK
  <2>2. \A r \in DOMAIN inbox : Parent(r) \in Nat
    BY ParentIsNatural DEF BothTyped
  <2> QED BY <1>1, <2>1, <2>2
          DEF Sends, MidsMinted, BothTyped, Typed, InboundTypeOK, ServiceTypeOK
<1>4. MidsMinted'
  <2>1. \A m \in (mailU \cup noticeU)' : m.mid <= minted'
    <3> SUFFICES ASSUME NEW m \in (mailU \cup noticeU)' PROVE m.mid <= minted'
      OBVIOUS
    <3>1. CASE m \in mailU \cup noticeU
      <4>1. m.mid \in Nat /\ m.mid <= minted
        BY <3>1 DEF MidsMinted, BothTyped, Typed, InboundTypeOK, ServiceTypeOK
      <4> QED BY <1>3, <4>1
    <3> QED BY <1>1, <1>2, <3>1 DEF Sends
  <2>2. \A r \in DOMAIN inbox : Parent(r) <= minted'
    BY <1>3
  <2> QED BY <1>2, <2>1, <2>2 DEF MidsMinted, Parent
<1>5. Commands' = Commands /\ Commands \subseteq DOMAIN inbox
  BY <1>2 DEF Commands, IsCommand, Kind
<1>6. ASSUME NEW s \in consumed \cap Commands, NEW r \in Commands, r < s
      PROVE  Settled(r)' /\ (r \in consumed \/ Parent(r) \notin sent')
  <2>1. CASE r \in consumed
    BY <1>2, <2>1 DEF Settled
  <2>2. CASE r \notin consumed
    <3>1. Parent(r) \notin sent /\ Lost(Parent(r))
      BY <1>6, <2>2 DEF UnsentBefore, SettledBefore, Settled
    <3>2. Parent(r) \in Nat /\ Parent(r) <= minted /\ Parent(r) <= minted'
      BY <1>3, <1>5
    <3>3. Parent(r) \notin sent'
      BY <1>1, <1>3, <3>1, <3>2 DEF Sends
    <3>4. Parent(r) \notin LedgerIds' \cup sentNotice'
      BY <1>1, <1>2, <3>1 DEF Sends, LedgerIds, Lost
    <3> QED BY <1>2, <3>2, <3>3, <3>4 DEF Settled, Lost, Parent
  <2> QED BY <2>1, <2>2
<1>7. SettledBefore' /\ UnsentBefore'
  <2>1. \A s \in consumed' \cap Commands', r \in Commands' : r < s => Settled(r)'
    BY <1>2, <1>5, <1>6
  <2>2. \A s \in consumed' \cap Commands', r \in Commands' :
          r < s => r \in consumed' \/ Parent(r)' \notin sent'
    BY <1>2, <1>5, <1>6 DEF Parent
  <2> QED BY <1>2, <2>1, <2>2 DEF SettledBefore, UnsentBefore, HandPoints
<1>8. LastCommandRules' /\ HandInInbox'
  BY <1>2, <1>5 DEF LastCommandRules, HandInInbox, Kind
<1>9. SentInHand'
  BY <1>1 DEF Sends, SentInHand
<1> QED BY <1>4, <1>7, <1>8, <1>9

LEMMA OtherOrders ==
  ASSUME BothTyped, CommandOrder, [BridgeNext]_bridgeVars, ~InboundTurn, ~MailboxTurn
  PROVE  CommandOrder'
<1> USE DEF CommandOrder
<1>1. Ordered'
  <2>1. CASE Arrival
    <3>1. UNCHANGED <<ledger, consumed, enabled, sentNotice, minted, mailU, noticeU,
                      pc, pos, inbox>>
      BY <2>1 DEF Arrival, MessageArrives, storeVars, mailVars, mailLocals
    <3> QED BY <3>1 DEF Ordered, MidsMinted, HandInInbox, SettledBefore, Settled, Lost,
                        LedgerIds, LastCommandRules, Commands, IsCommand, Kind, Parent
  <2> QED BY <2>1, AsMailbox, OrderedStep DEF BothTyped
<1>2. UNCHANGED consumed /\ (UNCHANGED sent \/ sent' = {})
  BY OtherLeaves
<1>3. SentInHand'
  BY OtherLeaves DEF SentInHand
<1>4. UnsentBefore'
  <2>1. CASE UNCHANGED inbox
    BY <1>2, <2>1 DEF UnsentBefore, Commands, IsCommand, Kind, Parent
  <2>2. CASE MailWorld
    <3>1. /\ DOMAIN inbox = 1 .. Len(inbox) /\ Len(inbox) \in Nat
          /\ consumed \subseteq DOMAIN inbox
      BY DEF BothTyped, MailTyped, MailboxTypeOK, MailTypeOK, ConsumedInInbox
    <3>2. /\ DOMAIN inbox' = DOMAIN inbox \cup {Len(inbox) + 1}
          /\ \A r \in DOMAIN inbox : inbox'[r] = inbox[r]
      BY <2>2, ArrivalGrows DEF BothTyped
    <3> SUFFICES ASSUME NEW s \in consumed' \cap Commands', NEW r \in Commands', r < s
                 PROVE  (r \in consumed \/ Parent(r) \notin sent)'
      BY DEF UnsentBefore
    <3>3. s \in 1 .. Len(inbox) /\ r \in DOMAIN inbox'
      BY <1>2, <3>1 DEF Commands
    <3>4. r \in DOMAIN inbox
      BY <3>1, <3>2, <3>3
    <3>5. s \in consumed \cap Commands /\ r \in Commands
      BY <1>2, <3>1, <3>2, <3>3, <3>4 DEF Commands, IsCommand, Kind
    <3>6. r \in consumed \/ Parent(r) \notin sent
      BY <3>5 DEF UnsentBefore
    <3> QED BY <1>2, <3>2, <3>4, <3>6 DEF Parent
  <2>3. UNCHANGED inbox \/ MailWorld
    BY DEF BridgeNext, BridgeCycles, InboundTurn, MailboxTurn, BridgeEnds,
           bridgeVars, mailVars
  <2> QED BY <2>1, <2>2, <2>3
<1> QED BY <1>1, <1>3, <1>4

LEMMA MailboxOrders ==
  ASSUME BothTyped, CommandOrder, MailboxTurn PROVE CommandOrder'
<1> USE DEF CommandOrder
<1>1. Ordered'
  BY OrderedStep DEF BothTyped, MailboxTurn, MailboxNext
<1>2. pc \notin BatchPoints
  BY DEF MailboxTurn, MailboxCycle, MailboxSteps, MailboxFailures, StartMailbox,
         Poll, PollFails, SkipMail, ApplyCommand, QueueConfirmation, PostReply,
         CommitPost, PostFails, PostPeerNotFound, PostSessionInvalid, StartFlush,
         SendConfirmation, ConfirmationFails, RecordConfirmation,
         DeleteConfirmation, EndMailbox, AtMail, Goto
<1>3. sent = {} /\ sent' = {}
  BY <1>2 DEF SentInHand, MailboxTurn, localVars
<1> QED BY <1>1, <1>3 DEF SentInHand, UnsentBefore

(* The last command rules, also where commands answer parts whose batch    *)
(* failed, was repeated, or was committed after U had answered.            *)
THEOREM BridgeCommandsInOrder == BridgeSpec => []LastCommandRules
<1> DEFINE Inv == BothTyped /\ CommandOrder
<1>1. BridgeInit => Inv
  BY BridgeInitTyped
     DEF BridgeInit, InboundInit, LocalInit, MailInit, MailLocalsInit, ServiceInit,
         StoreInit, CommandOrder, Ordered, SentInHand, UnsentBefore, MidsMinted,
         HandInInbox, SettledBefore, HandPoints, LastCommandRules, Commands
<1>2. Inv /\ [BridgeNext]_bridgeVars => Inv'
  BY BridgeNextTyped, InboundOrders, MailboxOrders, OtherOrders
<1>3. Inv => LastCommandRules
  BY DEF CommandOrder, Ordered
<1> QED BY <1>1, <1>2, <1>3, PTL DEF BridgeSpec

---------------------------------------------------------------------------
(* The ledger stays in order, with the ids of confirmations between those  *)
(* of deliveries.                                                          *)

LEMMA MailboxTurnFrom ==
  ASSUME BothTyped, MailboxTurn
  PROVE  /\ pc \in {"idle"} \cup MailboxPoints
         /\ minted \in Nat /\ minted' \in Nat /\ minted <= minted'
         /\ faults' = faults \/ faults' = faults + 1
<1> USE DEF MailboxPoints, storeVars, worldVars
<1>0. minted \in Nat
  BY DEF BothTyped, Typed, InboundTypeOK, ServiceTypeOK
<1>1. CASE StartMailbox \/ Poll \/ PollFails \/ SkipMail
  BY <1>0, <1>1 DEF StartMailbox, Poll, PollFails, SkipMail, AtMail, Goto, Fault
<1>2. CASE ApplyCommand \/ QueueConfirmation \/ CommitPost
  BY <1>0, <1>2 DEF ApplyCommand, QueueConfirmation, CommitPost, AtMail, Goto
<1>3. CASE PostReply \/ PostFails \/ PostPeerNotFound
  BY <1>0, <1>3 DEF PostReply, PostFails, PostPeerNotFound, AtMail, Goto, Fault
<1>4. CASE PostSessionInvalid \/ StartFlush \/ EndMailbox
  BY <1>0, <1>4 DEF PostSessionInvalid, StartFlush, EndMailbox, AtMail, Goto
<1>5. CASE SendConfirmation \/ ConfirmationFails
  BY <1>0, <1>5 DEF SendConfirmation, ConfirmationFails, NoticeReachesU, Goto, Fault
<1>6. CASE RecordConfirmation \/ DeleteConfirmation
  BY <1>0, <1>6 DEF RecordConfirmation, DeleteConfirmation, Goto
<1> QED BY <1>1, <1>2, <1>3, <1>4, <1>5, <1>6
        DEF MailboxTurn, MailboxCycle, MailboxSteps, MailboxFailures

LEMMA InboundTurnFrom ==
  ASSUME BothTyped, InboundTurn
  PROVE  pc \in {"idle"} \cup InboundPoints
BY DEF InboundPoints, InboundTurn, InboundCycle, StartInbound, ListDialogs,
       ListFails, EndInbound, DialogStep, SkipNotDue, SkipNothingNew, FetchNothing,
       FetchTail, FetchNoneSelected, FetchBatch, FetchFails, FetchPeerNotFound,
       Fetches, DownloadMedia, DownloadFails, DownloadPeerNotFound, PartStep,
       SendPart, SendFails, SendRefused, Commit, InboundSessionInvalid,
       TelegramCalled, Goto

LEMMA BridgeOrders ==
  BothTyped /\ OrderInv /\ [BridgeNext]_bridgeVars => OrderInv'
<1> SUFFICES ASSUME BothTyped, OrderInv, [BridgeNext]_bridgeVars PROVE OrderInv'
  OBVIOUS
<1>1. CASE [InboundNext]_inboundVars
  BY <1>1, InboundNextOrdered DEF BothTyped
<1>2. CASE MailboxTurn
  <2>1. Typed /\ Typed'
    BY BridgeNextTyped DEF BothTyped
  <2>2. UNCHANGED <<mailU, ledger, sent, cursor>> /\ minted <= minted'
    BY <1>2, MailboxTurnStays, MailboxTurnFrom DEF MailboxTurn, localVars, BothTyped
  <2>3. pc' \notin BatchPoints
    BY <1>2, MailboxTurnStays DEF MailboxTurn, MailboxPoints, BothTyped
  <2>4. \A d \in Dialogs : cursor[d] <= cursor'[d]
    BY <2>1, <2>2 DEF Typed, InboundTypeOK, ServiceTypeOK, StoreTypeOK
  <2> QED BY <2>1, <2>2, <2>3, <2>4, OrderFramed
<1> QED BY <1>1, <1>2, AsInbound

LEMMA BridgeInitOrdered == BridgeInit => OrderInv
BY InitOrdered DEF BridgeInit

(* Of two mails of a dialog in the ledger, the one sent later carries only *)
(* later messages, also where posts and commands fall between them.        *)
THEOREM BridgeChronological == BridgeSpec => []LedgerChronological
<1> DEFINE Inv == BothTyped /\ OrderInv
<1>1. BridgeInit => Inv
  BY BridgeInitTyped, BridgeInitOrdered
<1>2. Inv /\ [BridgeNext]_bridgeVars => Inv'
  BY BridgeNextTyped, BridgeOrders
<1>3. Inv => LedgerChronological
  BY DEF OrderInv
<1> QED BY <1>1, <1>2, <1>3, PTL DEF BridgeSpec

---------------------------------------------------------------------------
(* What each further copy of a post, a confirmation, a session notice or a *)
(* message costs: a fault of its own.  The inbound cycle faults too, and   *)
(* the arrival of a message does nothing to the counts.                    *)

LEMMA InboundTurnFrames ==
  ASSUME BothTyped, InboundTurn \/ Arrival
  PROVE  /\ MailKept
         /\ UNCHANGED <<posts, consumed, pending, noticeU, toFlush, pos>>
         /\ \/ UNCHANGED pc
            \/ pc \notin MailboxPoints /\ pc' \notin MailboxPoints
<1>1. CASE InboundTurn
  <2>1. /\ UNCHANGED <<consumed, pending, noticeU>>
        /\ pc' \in InboundPoints \cup {"idle", "down", "invalid"}
        /\ faults' = faults \/ faults' = faults + 1
    BY <1>1, InboundTurnStays, FaultsCount DEF InboundTurn, BothTyped
  <2>2. UNCHANGED <<inbox, posts, toFlush, pos>>
    BY <1>1 DEF InboundTurn, mailVars, mailLocals
  <2>3. pc \in {"idle"} \cup InboundPoints
    BY <1>1, InboundTurnFrom
  <2> QED BY <2>1, <2>2, <2>3 DEF MailKept, InboundPoints, MailboxPoints
<1>2. CASE Arrival
  BY <1>2 DEF Arrival, MessageArrives, storeVars, mailVars, mailLocals, MailKept
<1> QED BY <1>1, <1>2

LEMMA BridgePostsNothing ==
  ASSUME BothTyped, [BridgeNext]_bridgeVars, ~(PostReply \/ PostFails)
  PROVE  UNCHANGED posts /\ PostHandled
<1>1. CASE [MailboxNext]_mailboxVars
  BY <1>1, OthersPostNothing DEF BothTyped
<1>2. CASE InboundTurn \/ Arrival
  BY <1>2, InboundTurnFrames DEF MailboxPoints, PostHandled
<1> QED BY <1>1, <1>2, AsMailbox

LEMMA BridgePostsCounted ==
  BothTyped /\ PostsCounted /\ [BridgeNext]_bridgeVars => PostsCounted'
<1> SUFFICES ASSUME BothTyped, PostsCounted, [BridgeNext]_bridgeVars
             PROVE  PostsCounted'
  OBVIOUS
<1>0. MailTyped /\ MailKept
  BY AsMailbox, MailIsKept, InboundTurnFrames DEF BothTyped
<1>1. CASE PostReply \/ PostFails
  BY <1>0, <1>1, PostCounts
<1>2. CASE ~(PostReply \/ PostFails)
  BY <1>0, <1>2, BridgePostsNothing, NoPostCounts
<1> QED BY <1>1, <1>2

(* A reply is posted again only after a fault, whatever ran between the    *)
(* two posts.                                                              *)
THEOREM BridgePostsCostFaults == BridgeSpec => []PostsNeedFaults
<1> DEFINE Inv == BothTyped /\ PostsCounted
<1>1. BridgeInit => Inv
  BY BridgeInitTyped, NonePosted DEF BridgeInit, InboundInit, ServiceInit, MailInit
<1>2. Inv /\ [BridgeNext]_bridgeVars => Inv'
  BY BridgeNextTyped, BridgePostsCounted
<1>3. Inv => PostsNeedFaults
  BY PostsCountedSuffices DEF BothTyped
<1> QED BY <1>1, <1>2, <1>3, PTL DEF BridgeSpec

LEMMA BridgeConfirms ==
  BothTyped /\ Confirming /\ [BridgeNext]_bridgeVars => Confirming'
<1> SUFFICES ASSUME BothTyped, Confirming, [BridgeNext]_bridgeVars
             PROVE  Confirming'
  OBVIOUS
<1>0. MailTyped
  BY DEF BothTyped
<1>1. CASE [MailboxNext]_mailboxVars
  BY <1>0, <1>1, ConfirmingStep
<1>2. CASE InboundTurn \/ Arrival
  <2>1. toFlush' \subseteq pending
    BY <1>2, InboundTurnFrames DEF Confirming, NoticesTrue
  <2>2. pc' = "queue" => UNCHANGED <<pc, pos>>
    BY <1>2, InboundTurnFrames DEF MailboxPoints
  <2>3. AtRecord => AtRecord' /\ UNCHANGED toFlush
    BY <1>2, InboundTurnFrames DEF MailboxPoints, AtRecord
  <2> QED BY <1>0, <1>2, <2>1, <2>2, <2>3, InboundTurnFrames, SilentConfirms
<1> QED BY <1>1, <1>2, AsMailbox

LEMMA BridgeInitConfirms == BridgeInit => Confirming
BY NoneConfirmed
   DEF BridgeInit, InboundInit, MailInit, MailLocalsInit, ServiceInit, StoreInit

(* A confirmation tells U of a command that was applied, and its copies    *)
(* cost a fault each, in the whole bridge.                                 *)
THEOREM BridgeConfirmationsHold == BridgeSpec => []ConfirmationsTrue
<1> DEFINE Inv == BothTyped /\ Confirming
<1>1. BridgeInit => Inv
  BY BridgeInitTyped, BridgeInitConfirms
<1>2. Inv /\ [BridgeNext]_bridgeVars => Inv'
  BY BridgeNextTyped, BridgeConfirms
<1>3. Inv => ConfirmationsTrue
  BY ConfirmingSuffices DEF BothTyped
<1> QED BY <1>1, <1>2, <1>3, PTL DEF BridgeSpec

LEMMA BridgeCounts ==
  ASSUME BothTyped, Confirming, NoticesCounted, [BridgeNext]_bridgeVars
  PROVE  NoticesCounted'
<1>0. ServiceTypeOK /\ MailTyped /\ Typed
  BY DEF BothTyped, Typed, InboundTypeOK
<1>1. CASE [MailboxNext]_mailboxVars
  BY <1>0, <1>1, MailboxCounts
<1>2. CASE InboundTurn
  BY <1>0, <1>2, InboundTellsNothing, CycleCounts DEF InboundTurn
<1>3. CASE Arrival
  BY <1>0, <1>3, SharedCounts DEF Arrival, World
<1> QED BY <1>1, <1>2, <1>3, AsMailbox

(* Whichever cycle found the session invalid, U is told of it once, and    *)
(* once more for each fault.                                               *)
THEOREM BridgeSessionNoticesCostFaults ==
  BridgeSpec => []SessionNoticesNeedFaults
<1> DEFINE Inv == BothTyped /\ Confirming /\ NoticesCounted
<1>1. BridgeInit => Inv
  BY BridgeInitTyped, BridgeInitConfirms, NoneTold DEF BridgeInit, InboundInit
<1>2. Inv /\ [BridgeNext]_bridgeVars => Inv'
  BY BridgeNextTyped, BridgeConfirms, BridgeCounts
<1>3. Inv => SessionNoticesNeedFaults
  BY CountsNotices
<1> QED BY <1>1, <1>2, <1>3, PTL DEF BridgeSpec

LEMMA BridgeCopies ==
  ASSUME BothTyped, CopiesInv, NoneRefused, [BridgeNext]_bridgeVars
  PROVE  CopiesInv'
<1>1. CASE [InboundNext]_inboundVars
  BY <1>1, InboundNextCopies
<1>2. CASE MailboxTurn
  <2>1. Typed /\ Typed' /\ OrderInv'
    BY BridgeNextTyped, BridgeOrders DEF BothTyped, CopiesInv
  <2>2. UNCHANGED <<mailU, cursor>> /\ pc' \notin BatchPoints
    BY <1>2, MailboxTurnStays DEF MailboxTurn, MailboxPoints, BothTyped
  <2>3. BatchInChat'
    BY <2>2 DEF BatchInChat
  <2>4. \A d \in Dialogs, n \in Nat : ~InSentPart(d, n)
    BY <1>2, MailboxTurnFrom DEF InSentPart, MailboxPoints
  <2>5. \A d \in Dialogs : cursor[d] <= cursor'[d]
    BY <2>1, <2>2 DEF Typed, InboundTypeOK, ServiceTypeOK, StoreTypeOK
  <2>6. CopiesCounted'
    BY <1>2, <2>1, <2>2, <2>4, <2>5, CopiesFramed, MailboxTurnFrom DEF CopiesInv
  <2> QED BY <2>1, <2>3, <2>6 DEF CopiesInv
<1> QED BY <1>1, <1>2, AsInbound

(* While the mail server refuses no message for good, U gets no message    *)
(* twice without a fault; a post of the bridge is a message like another.  *)
THEOREM BridgeCopiesCostFaults ==
  BridgeSpec /\ []NoneRefused => []CopiesNeedFaults
<1> DEFINE Inv == BothTyped /\ CopiesInv
<1>1. BridgeInit => Inv
  BY BridgeInitTyped, InitCopies DEF BridgeInit
<1>2. Inv /\ NoneRefused /\ [BridgeNext]_bridgeVars => Inv'
  BY BridgeNextTyped, BridgeCopies
<1>3. Inv => CopiesNeedFaults
  BY CopiesSuffice DEF CopiesInv
<1> QED BY <1>1, <1>2, <1>3, PTL DEF BridgeSpec

---------------------------------------------------------------------------
(* The bridge keeps the promise of module Delivery.  A post is a message   *)
(* that arrives; its echo marker withdraws it, before any fetch: no cycle  *)
(* comes between the post and its marker.                                  *)

(* The post to be committed lies ahead of the cursor. *)
PostAhead ==
  pc = "commitReply" => posted \in Ids(Target) /\ posted > cursor[Target]

LEMMA PostAheadFramed ==
  ASSUME BothTyped, PostAhead, ChatGrows,
         pc' = "commitReply" => UNCHANGED <<pc, posted, Target, cursor>>
  PROVE  PostAhead'
<1> SUFFICES ASSUME pc' = "commitReply"
             PROVE  (posted \in Ids(Target) /\ posted > cursor[Target])'
  BY DEF PostAhead
<1>1. PICK d \in Dialogs : d = Target
  BY TargetInLedger DEF BothTyped, MailTyped, MailInHand
<1>2. posted \in Ids(d) /\ posted > cursor[d]
  BY <1>1 DEF PostAhead
<1>3. posted \in Ids(d)'
  BY <1>2 DEF ChatGrows, Ids, BothTyped, Typed, InboundTypeOK, ServiceTypeOK
<1> QED BY <1>1, <1>2, <1>3 DEF Ids

(* The post is made: it is the newest message of its dialog. *)
LEMMA PostIsAhead ==
  ASSUME BothTyped, CursorInDialog, PostReply PROVE PostAhead'
<1>1. PICK d \in Dialogs : d = Target
  BY TargetInLedger DEF PostReply, Posts, BothTyped
<1>2. /\ UNCHANGED <<ledger, cursor>> /\ Target' = Target
      /\ posted' = Len(chat[d]) + 1
      /\ chat' = [chat EXCEPT ![d] = Append(@, "addressed")]
  BY <1>1 DEF PostReply, Posted, storeVars, Target, LedgerDialog, Parent
<1>3. /\ chat \in [Dialogs -> Seq(MsgKinds)] /\ Len(chat[d]) \in Nat
      /\ cursor[d] \in Nat /\ cursor[d] <= Len(chat[d])
  BY <1>1 DEF BothTyped, Typed, InboundTypeOK, ServiceTypeOK, StoreTypeOK,
              CursorInDialog
<1>4. Len(chat'[d]) = Len(chat[d]) + 1
  BY <1>1, <1>2, <1>3 DEF MsgKinds
<1>5. posted' \in Ids(d)' /\ posted' > cursor[d]
  BY <1>2, <1>3, <1>4 DEF Ids
<1> QED BY <1>1, <1>2, <1>5 DEF PostAhead, Ids

(* What a step leaves of the post in hand. *)
LEMMA PostStays ==
  ASSUME BothTyped, [BridgeNext]_bridgeVars, ~PostReply
  PROVE  pc' = "commitReply" =>
           UNCHANGED <<pc, pos, posted, Target, cursor, consumed>>
<1>r. ret # "commitReply"
  BY DEF BothTyped, Typed, InboundTypeOK, ServiceTypeOK
<1>1. CASE InboundTurn
  BY <1>1, InboundTurnStays DEF InboundTurn, BothTyped, InboundPoints
<1>2. CASE MailboxTurn
  BY <1>2 DEF MailboxTurn, MailboxCycle, MailboxSteps, MailboxFailures,
              StartMailbox, Poll, PollFails, SkipMail, ApplyCommand, CommitPost,
              QueueConfirmation, PostFails, PostPeerNotFound,
              PostSessionInvalid, StartFlush, SendConfirmation,
              ConfirmationFails, RecordConfirmation, DeleteConfirmation,
              EndMailbox, ProcessEnds, Invalidate, AtMail, Goto
<1>3. CASE /\ Handler \/ Lifecycle \/ World
           /\ UNCHANGED <<localVars, base, mailVars, mailLocals>>
  BY <1>3, <1>r
     DEF Handler, MarkInvalid, SendSessionNotice, SessionNoticeFails,
         RecordSessionNotice, MarkNotified, Lifecycle, Start, Setup,
         SetupInterrupted, World, MessageArrives, Revoke, TimePasses,
         BackoffElapses, Goto, storeVars, worldVars, mailVars, mailLocals, Target,
         LedgerDialog, Parent
<1>4. CASE BridgeEnds
  BY <1>4 DEF BridgeEnds, Crash, Stop, ProcessEnds
<1>5. CASE MailWorld
  BY <1>5, ArrivalGrows, PosInInbox
     DEF Target, LedgerDialog, Parent, BothTyped, MailTyped, MailInHand,
         HandPoints, serviceVars, storeVars, mailLocals
<1>6. CASE UNCHANGED bridgeVars
  BY <1>6 DEF bridgeVars, serviceVars, storeVars, mailVars, mailLocals, Target,
              LedgerDialog, Parent
<1> QED BY <1>1, <1>2, <1>3, <1>4, <1>5, <1>6
        DEF BridgeNext, BridgeCycles, InboundTurn, MailboxTurn

(* Every step of the bridge only adds messages. *)
LEMMA BridgeGrows ==
  ASSUME BothTyped, [BridgeNext]_bridgeVars PROVE ChatGrows
<1>1. CASE MailboxTurn
  BY <1>1, MailboxTurnGrows
<1>2. CASE UNCHANGED chat
  BY <1>2 DEF ChatGrows, BothTyped, Typed, InboundTypeOK, ServiceTypeOK
<1>3. CASE InboundCycle
  BY <1>2, <1>3, CycleLeavesChats
<1>4. CASE InboundEnds \/ (Handler \/ Lifecycle \/ World)
  BY <1>4, SharedGrows DEF InboundEnds, BothTyped
<1> QED BY <1>1, <1>2, <1>3, <1>4, AsInbound
        DEF InboundNext, inboundVars, serviceVars, worldVars

LEMMA PostAheadStep ==
  BothTyped /\ CursorInDialog /\ PostAhead /\ [BridgeNext]_bridgeVars => PostAhead'
BY BridgeGrows, PostStays, PostIsAhead, PostAheadFramed

PromiseInv == BothTyped /\ ExactInv /\ PostAhead

(* The marker of a post is of a message that is there. *)
LEMMA MarkedPostIsThere ==
  ASSUME BothTyped, BothTyped', PostAhead, EchoInDialog, MailboxTurn
  PROVE  EchoInDialog'
<1>1. ChatGrows
  BY MailboxTurnGrows
<1>2. CASE UNCHANGED echo
  BY <1>1, <1>2, EchoStaysInDialog DEF BothTyped
<1>3. CASE CommitPost
  <2>1. /\ echo' = echo \cup {<<Target, posted>>} /\ UNCHANGED chat
        /\ posted \in Ids(Target)
    BY <1>3 DEF CommitPost, CommitReply, PostAhead, worldVars, Goto
  <2> QED BY <2>1 DEF EchoInDialog, Ids
<1>4. CommitPost \/ UNCHANGED echo
  BY DEF MailboxTurn, MailboxCycle, MailboxSteps, MailboxFailures,
         StartMailbox, Poll, PollFails, SkipMail, ApplyCommand,
         QueueConfirmation, PostReply, PostFails, PostPeerNotFound,
         PostSessionInvalid, StartFlush, SendConfirmation, ConfirmationFails,
         RecordConfirmation, DeleteConfirmation, EndMailbox, SetBridgeEnabled,
         storeVars
<1> QED BY <1>2, <1>3, <1>4

LEMMA PromiseKept ==
  PromiseInv /\ BacklogFits /\ [BridgeNext]_bridgeVars => PromiseInv'
<1> SUFFICES ASSUME PromiseInv, BacklogFits, [BridgeNext]_bridgeVars
             PROVE  PromiseInv'
  OBVIOUS
<1>1. /\ BothTyped /\ ExactInv /\ InboundInv /\ OrderInv /\ BatchExact /\ EchoInDialog
      /\ PostAhead /\ CursorInDialog
  BY DEF PromiseInv, ExactInv, InboundInv
<1>2. BothTyped' /\ PostAhead'
  BY <1>1, BridgeNextTyped, PostAheadStep
<1>3. CASE [InboundNext]_inboundVars
  BY <1>1, <1>2, <1>3, InboundNextExact DEF PromiseInv
<1>4. CASE MailboxTurn
  <2>1. InboundInv' /\ OrderInv'
    BY <1>1, BridgeKeeps, BridgeOrders
  <2>2. BatchExact'
    BY <1>1, <1>4, MailboxTurnStays DEF BatchExact, MailboxTurn, MailboxPoints,
                                        BothTyped
  <2>3. EchoInDialog'
    BY <1>1, <1>2, <1>4, MarkedPostIsThere
  <2> QED BY <1>2, <2>1, <2>2, <2>3 DEF PromiseInv, ExactInv
<1> QED BY <1>3, <1>4, AsInbound

(* The post in Telegram is one more message to hand over. *)
LEMMA PostArrives ==
  ASSUME PromiseInv, PostReply \/ PostFails, Posted(Target)
  PROVE  Promise!Next
<1>0. PICK d \in Dialogs : d = Target
  BY TargetInLedger DEF PostReply, PostFails, Posts, PromiseInv, BothTyped
<1> DEFINE new == Len(chat[d]) + 1
<1>1. /\ CursorInDialog /\ LedgerBelowCursor /\ EchoInDialog
      /\ chat \in [Dialogs -> Seq(MsgKinds)] /\ cursor \in [Dialogs -> Nat]
      /\ chat' = [chat EXCEPT ![d] = Append(@, "addressed")]
      /\ UNCHANGED <<cursor, ledger, mailU, echo>>
  <2>1. CursorInDialog /\ LedgerBelowCursor /\ EchoInDialog /\ BothTyped
    BY DEF PromiseInv, ExactInv, InboundInv, OrderInv
  <2>2. chat \in [Dialogs -> Seq(MsgKinds)] /\ cursor \in [Dialogs -> Nat]
    BY <2>1 DEF BothTyped, Typed, InboundTypeOK, ServiceTypeOK, StoreTypeOK
  <2> QED BY <1>0, <2>1, <2>2 DEF PostReply, PostFails, Posted, storeVars
<1>2. /\ Len(chat[d]) \in Nat
      /\ Len(chat'[d]) = new
      /\ chat'[d][new] = "addressed"
      /\ \A n \in Ids(d) : chat'[d][n] = chat[d][n]
      /\ \A e \in Dialogs : e # d => chat'[e] = chat[e]
  BY <1>1 DEF Ids, MsgKinds
<1>3. Ids(d)' = Ids(d) \cup {new} /\ new \notin Ids(d) /\ new \in Nat
  BY <1>2 DEF Ids
<1>4. <<d, new>> \notin echo
  BY <1>1, <1>3 DEF EchoInDialog
<1>5. ~Delivered(d, new)
  <2>1. cursor[d] \in Nat /\ cursor[d] <= Len(chat[d])
    BY <1>1 DEF CursorInDialog
  <2>2. ~ (new <= cursor[d])
    BY <1>2, <2>1
  <2> QED BY <1>1, <2>2 DEF LedgerBelowCursor, Delivered
<1>6. Wanted(d)' = Wanted(d) \cup {new}
  BY <1>1, <1>2, <1>3, <1>4 DEF Wanted, IsAddressed, IsEcho
<1>7. Got(d)' = Got(d)
  BY <1>1, <1>3, <1>5 DEF Got, Delivered, LedgerIds
<1>8. ASSUME NEW e \in Dialogs, e # d
      PROVE  Wanted(e)' = Wanted(e) /\ Got(e)' = Got(e)
  BY <1>1, <1>2, <1>8
     DEF Wanted, Got, Ids, IsAddressed, IsEcho, Delivered, LedgerIds
<1>9. Lasts' = [Lasts EXCEPT ![d] = @ + 1] /\ Lasts[d] + 1 = new
  BY <1>2 DEF Lasts
<1>10. Wants' = [Wants EXCEPT ![d] = @ \cup {n \in {Lasts[d] + 1} : TRUE}]
  BY <1>6, <1>8, <1>9 DEF Wants
<1>11. Gots' = Gots
  BY <1>7, <1>8 DEF Gots
<1>12. Promise!Arrive(d, TRUE)
  BY <1>1, <1>9, <1>10, <1>11, PromiseArrives
<1> QED BY <1>12 DEF Promise!Next

LEMMA PromiseWithdraws ==
  ASSUME NEW d \in Dialogs, NEW n, n > cursor[d],
         Wants' = [Wants EXCEPT ![d] = @ \ {n}],
         UNCHANGED <<Lasts, cursor, Gots>>
  PROVE  Promise!Withdraw(d, n)
BY DEF Promise!Withdraw, Lasts, Wants, Gots, Wanted, Got

(* The marker withdraws the post, unless it was marked before. *)
LEMMA MarkWithdraws ==
  ASSUME PromiseInv, CommitPost
  PROVE  Promise!Next \/ UNCHANGED Promise!vars
<1>0. PICK d \in Dialogs : d = Target
  BY TargetInLedger DEF CommitPost, Goto, PromiseInv, BothTyped, MailTyped, MailInHand
<1>1. /\ echo' = echo \cup {<<d, posted>>} /\ posted > cursor[d]
      /\ UNCHANGED <<chat, cursor, ledger, mailU>>
      /\ Typed /\ MidsFresh
  BY <1>0 DEF CommitPost, CommitReply, Goto, worldVars, PromiseInv, PostAhead,
              ExactInv, OrderInv, InboundInv
<1>2. UNCHANGED <<Lasts, Gots>>
  BY <1>1, GotFramed DEF Lasts
<1>3. Wanted(d)' = Wanted(d) \ {posted}
  BY <1>1 DEF Wanted, Ids, IsAddressed, IsEcho
<1>4. ASSUME NEW e \in Dialogs, e # d PROVE Wanted(e)' = Wanted(e)
  BY <1>1, <1>4 DEF Wanted, Ids, IsAddressed, IsEcho
<1>5. Wants' = [Wants EXCEPT ![d] = @ \ {posted}]
  BY <1>3, <1>4 DEF Wants
<1>6. CASE posted \in Wanted(d)
  <2>1. Promise!Withdraw(d, posted)
    BY <1>1, <1>2, <1>5, PromiseWithdraws
  <2> QED BY <1>6, <2>1 DEF Promise!Next, Wanted
<1>7. CASE posted \notin Wanted(d)
  <2>1. Wants' = Wants
    BY <1>3, <1>4, <1>7 DEF Wants
  <2> QED BY <1>1, <1>2, <2>1, PromiseStutters
<1> QED BY <1>6, <1>7

LEMMA MailboxTurnImplements ==
  ASSUME PromiseInv, MailboxTurn
  PROVE  Promise!Next \/ UNCHANGED Promise!vars
<1>1. Typed /\ MidsFresh /\ BothTyped
  BY DEF PromiseInv, ExactInv, OrderInv, InboundInv
<1>2. CASE UNCHANGED <<chat, echo>>
  BY <1>1, <1>2, MailboxTurnStays, GotFramed, WantsFramed, PromiseStutters
     DEF MailboxTurn, BothTyped
<1>3. CASE CommitPost
  BY <1>3, MarkWithdraws
<1>4. CASE (PostReply \/ PostFails) /\ Posted(Target)
  BY <1>4, PostArrives
<1>5. \/ UNCHANGED <<chat, echo>> \/ CommitPost
      \/ (PostReply \/ PostFails) /\ Posted(Target)
  BY DEF MailboxTurn, MailboxCycle, MailboxSteps, MailboxFailures,
         StartMailbox, Poll, PollFails, SkipMail, ApplyCommand,
         QueueConfirmation, PostReply, PostFails, PostPeerNotFound,
         PostSessionInvalid, StartFlush, SendConfirmation, ConfirmationFails,
         RecordConfirmation, DeleteConfirmation, EndMailbox, SetBridgeEnabled,
         storeVars, worldVars
<1> QED BY <1>2, <1>3, <1>4, <1>5

(* With replies posted, marked and crashed over between the fetches, the   *)
(* bridge hands over what Delivery promises, as long as no backlog         *)
(* outgrows one fetch: a post that was not marked is handed over like any  *)
(* other message, one that was marked is not.                              *)
THEOREM BridgeImplementsDelivery ==
  BridgeSpec /\ []BacklogFits => ImplementsDelivery
<1>1. BridgeInit => Promise!Init
  BY DEF BridgeInit, InboundInit, ServiceInit, StoreInit, Promise!Init, Ids, Delivered
<1>2. BridgeInit => PromiseInv
  BY BridgeInitTyped, InitExact
     DEF PromiseInv, PostAhead, BridgeInit, InboundInit, ServiceInit
<1>3. PromiseInv /\ BacklogFits /\ [BridgeNext]_bridgeVars
        => [Promise!Next]_(Promise!vars)
  BY AsInbound, InboundNextImplements, MailboxTurnImplements DEF PromiseInv
<1> QED
  BY <1>1, <1>2, <1>3, PromiseKept, PTL
     DEF BridgeSpec, ImplementsDelivery, Promise!Spec


---------------------------------------------------------------------------
(* The promise of module Answers, where the inbound cycle delivers part by *)
(* part: each part is a letter of its own.                                 *)

LEMMA InboundTurnDeeds ==
  ASSUME BothTyped, GateOpen, InboundTurn PROVE Rests \/ Delivers
<1>0. UNCHANGED <<noticeU, inbox, enabled, consumed, posts>>
  BY InboundTurnStays DEF InboundTurn, BothTyped, mailVars
<1>1. CASE \E k \in rest : PartStep(k)
  <2>1. PICK k \in rest : PartStep(k)
    BY <1>1
  <2>2. CASE MailReachesU(Part(k))
    <3> DEFINE part == [mid |-> minted + 1, dialog |-> cur, msgs |-> Part(k)]
    <3>1. mailU' = mailU \cup {part} /\ minted' = minted + 1 /\ part.mid = minted + 1
      BY <2>2 DEF MailReachesU
    <3> HIDE DEF part
    <3>2. pc = "send" \/ UNCHANGED minted
      BY <2>1 DEF PartStep, SendPart, SendFails, SendRefused, Goto, worldVars
    <3>3. minted \in Nat
      BY DEF BothTyped, Typed, InboundTypeOK, ServiceTypeOK
    <3>4. enabled
      BY <3>1, <3>2, <3>3 DEF GateOpen, InboundPoints, DeliveryAllowed
    <3> QED BY <1>0, <3>1, <3>4 DEF Delivers
  <2>3. CASE UNCHANGED <<mailU, minted>>
    BY <1>0, <2>3 DEF Rests
  <2> QED BY <2>1, <2>2, <2>3
          DEF PartStep, SendPart, SendFails, SendRefused, worldVars
<1>2. CASE ~\E k \in rest : PartStep(k)
  <2>1. UNCHANGED <<mailU, minted>>
    BY <1>2 DEF InboundTurn, InboundCycle, StartInbound, ListDialogs, ListFails,
                EndInbound, DialogStep, SkipNotDue, SkipNothingNew, FetchNothing,
                FetchTail, FetchNoneSelected, FetchBatch, FetchFails,
                FetchPeerNotFound, DownloadMedia, DownloadFails,
                DownloadPeerNotFound, Commit, InboundSessionInvalid, worldVars
  <2> QED BY <1>0, <2>1 DEF Rests
<1> QED BY <1>1, <1>2

LEMMA BridgeDeeds ==
  ASSUME BothTyped, GateOpen, [BridgeNext]_bridgeVars PROVE Deeds
<1>1. CASE Arrival
  BY <1>1 DEF Arrival, MessageArrives, Deeds, Rests, storeVars, mailVars
<1>2. CASE InboundTurn
  BY <1>2, InboundTurnDeeds DEF Deeds
<1>3. CASE [MailboxNext]_mailboxVars
  BY <1>3, MailboxDeeds DEF BothTyped
<1> QED BY <1>1, <1>2, <1>3, AsMailbox

LEMMA BridgeRecords ==
  ASSUME BothTyped, [BridgeNext]_bridgeVars PROVE Records
<1>1. CASE Arrival
  BY <1>1 DEF Arrival, MessageArrives, Records, storeVars
<1>2. CASE InboundTurn
  BY <1>2, InboundTurnStays DEF InboundTurn, BothTyped, Records, RecordPoints,
                                InboundPoints
<1>3. CASE [MailboxNext]_mailboxVars
  BY <1>3, MailboxRecords DEF BothTyped
<1> QED BY <1>1, <1>2, <1>3, AsMailbox

LEMMA BridgeChatsStay ==
  ASSUME BothTyped, [BridgeNext]_bridgeVars PROVE ChatsStay
BY BridgeGrows DEF ChatGrows, ChatsStay

(* What both cycles keep that the answers rest on. *)
DeedsKept == GateOpen /\ NoticesSent /\ PostsStand

LEMMA DeedsKeptStep ==
  BothTyped /\ DeedsKept /\ [BridgeNext]_bridgeVars => DeedsKept'
<1> SUFFICES ASSUME BothTyped, DeedsKept, [BridgeNext]_bridgeVars PROVE DeedsKept'
  OBVIOUS
<1>1. GateOpen'
  BY GateStaysOpen DEF DeedsKept
<1>2. NoticesSent'
  BY BridgeRecords, RecordedWasSent DEF DeedsKept
<1>3. PostsStand'
  <2>1. MailTyped /\ MailTyped'
    BY BridgeNextTyped DEF BothTyped
  <2> QED BY <2>1, BridgeDeeds, BridgeChatsStay, DeedsStand DEF DeedsKept
<1> QED BY <1>1, <1>2, <1>3 DEF DeedsKept

LEMMA BridgeInitDeeds == BridgeInit => DeedsKept
BY DEF BridgeInit, InboundInit, ServiceInit, StoreInit, MailInit, DeedsKept, GateOpen,
       NoticesSent, PostsStand, RecordPoints, InboundPoints

(* The whole bridge keeps the promise of module Answers: what U writes is  *)
(* obeyed or said once, in its order and its place, although the letters   *)
(* it answers are parts of batches that may yet fail.                      *)
THEOREM BridgeImplementsAnswers == BridgeSpec => ImplementsAnswers
<1> DEFINE Inv == /\ BothTyped /\ Accounted /\ SentMailed /\ CommandOrder
                  /\ Confirming /\ DeedsKept
<1>1. BridgeInit => Inv /\ Answer!Init
  <2> SUFFICES ASSUME BridgeInit PROVE Inv /\ Answer!Init
    OBVIOUS
  <2>1. BothTyped /\ Confirming /\ DeedsKept /\ Answer!Init
    BY BridgeInitTyped, BridgeInitConfirms, BridgeInitDeeds, NothingAnswered
       DEF BridgeInit, InboundInit
  <2> USE DEF BridgeInit, InboundInit, LocalInit, MailInit, MailLocalsInit,
              ServiceInit, StoreInit
  <2>2. Accounted /\ SentMailed
    BY DEF Accounted, LedgerMailed, PostInHand, PostsInInbox, ConsumedMeansPosted,
           OnlyTrustedMailActs, SentMailed
  <2>3. CommandOrder
    BY DEF CommandOrder, Ordered, SentInHand, UnsentBefore, MidsMinted,
           HandInInbox, SettledBefore, HandPoints, LastCommandRules, Commands
  <2> QED BY <2>1, <2>2, <2>3
<1>2. Inv /\ [BridgeNext]_bridgeVars => Inv' /\ [Answer!Next]_Answer!vars
  <2> SUFFICES ASSUME Inv, [BridgeNext]_bridgeVars
               PROVE  Inv' /\ [Answer!Next]_Answer!vars
    OBVIOUS
  <2>1. MailTyped /\ Deeds /\ DeedsKnown
    BY BridgeDeeds, OrderedComesLater
       DEF DeedsKnown, BothTyped, CommandOrder, Accounted, Ordered, Confirming, DeedsKept
  <2>2. [Answer!Next]_Answer!vars
    BY <2>1, DeedsAnswer
  <2>3. Inv'
    BY BridgeNextTyped, BridgeAccounts, InboundOrders, MailboxOrders, OtherOrders,
       BridgeConfirms, DeedsKeptStep
  <2> QED BY <2>2, <2>3
<1> QED BY <1>1, <1>2, PTL DEF BridgeSpec, ImplementsAnswers, Answer!Spec
=============================================================================
