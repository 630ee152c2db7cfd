--------------------------- MODULE Inbound_proofs ---------------------------
(***************************************************************************)
(* Proofs about Telegram -> mail, for every set of dialogs, every number   *)
(* of messages and every bound on the failures.                            *)
(*                                                                         *)
(* InboundTypeOK is not inductive by itself: Commit writes "cur" into the  *)
(* ledger and is typed only while a dialog is in hand.  NoMessageSkipped   *)
(* needs to know, besides, what a batch still promises between the fetch   *)
(* and the commit (BatchKept) and that the cursor stays within its dialog. *)
(***************************************************************************)
EXTENDS Inbound, Service_proofs, TLAPS

BatchPoints == {"media", "send", "commit"}

InHand == pc \in BatchPoints => cur \in Dialogs

Typed == InboundTypeOK /\ InHand

USE DEF BatchPoints, tableVars, outsideVars, batchVars

---------------------------------------------------------------------------
(* Types.                                                                  *)

LEMMA InitTyped == InboundInit => Typed
<1> SUFFICES ASSUME InboundInit PROVE Typed
  OBVIOUS
<1> USE DEF InboundInit, ServiceInit, StoreInit, LocalInit
<1>1. chat \in [Dialogs -> Seq(MsgKinds)]
  OBVIOUS
<1>2. StoreTypeOK
  BY DEF StoreTypeOK
<1>3. ServiceTypeOK
  BY <1>1, <1>2 DEF ServiceTypeOK, Points
<1> QED BY <1>3 DEF Typed, InboundTypeOK, LocalTypeOK, InHand

(* The messages that a fetch selects are message ids. *)
LEMMA SelectTyped ==
  ASSUME Typed, NEW d \in Dialogs
  PROVE  /\ Len(chat[d]) \in Nat
         /\ Ids(d) \subseteq Nat
         /\ Select(d) \subseteq Ids(d)
BY DEF Typed, InboundTypeOK, ServiceTypeOK, Select, FetchSince, Ids

(* A cursor that advances stays a number. *)
LEMMA CursorTyped ==
  ASSUME cursor \in [Dialogs -> Nat], NEW d \in Dialogs, NEW h \in Nat,
         AdvanceCursor(d, h)
  PROVE  /\ cursor' \in [Dialogs -> Nat]
         /\ cursor'[d] = AtLeast(cursor[d], h)
         /\ \A e \in Dialogs : e # d => cursor'[e] = cursor[e]
BY DEF AdvanceCursor, AtLeast

(* One dialog of the cycle keeps the types. *)
LEMMA DialogStepTyped ==
  ASSUME Typed, NEW job \in todo, DialogStep(job)
  PROVE  Typed'
<1> USE DEF Typed, InboundTypeOK, ServiceTypeOK, StoreTypeOK, LocalTypeOK,
            worldVars, storeVars, Done, DoneWell, ClearBackoff, Fetches
<1>d. job.dialog \in Dialogs
  OBVIOUS
<1>l. Len(chat[job.dialog]) \in Nat
  BY <1>d, SelectTyped
<1>1. CASE SkipNotDue(job)
  BY <1>1 DEF SkipNotDue, InHand
<1>2. CASE SkipNothingNew(job)
  BY <1>2 DEF SkipNothingNew, InHand
<1>3. CASE FetchNothing(job)
  BY <1>3 DEF FetchNothing, InHand
<1>4. CASE FetchTail(job)
  <2>1. cursor' \in [Dialogs -> Nat]
    BY <1>4, <1>d, <1>l, CursorTyped DEF FetchTail
  <2>2. base' \in [Dialogs -> Nat]
    BY <1>4, <1>d, <1>l DEF FetchTail
  <2> QED BY <1>4, <2>1, <2>2 DEF FetchTail, InHand
<1>5. CASE FetchNoneSelected(job)
  <2>1. cursor' \in [Dialogs -> Nat]
    BY <1>5, <1>d, <1>l, CursorTyped DEF FetchNoneSelected
  <2> QED BY <1>5, <2>1 DEF FetchNoneSelected, InHand
<1>6. CASE FetchBatch(job)
  <2>1. Select(job.dialog) \subseteq Nat
    BY <1>d, SelectTyped
  <2>2. pc' \in Points
    BY <1>6 DEF FetchBatch, Points, InboundPoints
  <2> QED BY <1>6, <1>d, <1>l, <2>1, <2>2 DEF FetchBatch, InHand
<1>7. CASE FetchFails(job)
  <2>1. waiting' \subseteq Scopes
    BY <1>7, <1>d, ScopesOfCalls DEF FetchFails, RecordFailure
  <2>2. faults' \in Nat
    BY <1>7 DEF FetchFails, Fault
  <2> QED BY <1>7, <2>1, <2>2 DEF FetchFails, InHand
<1>8. CASE FetchPeerNotFound(job)
  <2>1. faults' \in Nat
    BY <1>8 DEF FetchPeerNotFound, Fault
  <2> QED BY <1>8, <2>1 DEF FetchPeerNotFound, InHand
<1> QED BY <1>1, <1>2, <1>3, <1>4, <1>5, <1>6, <1>7, <1>8 DEF DialogStep

(* A part of the batch in hand keeps the types. *)
LEMMA PartStepTyped ==
  ASSUME Typed, NEW k \in rest, PartStep(k)
  PROVE  Typed'
<1> USE DEF Typed, InboundTypeOK, ServiceTypeOK, StoreTypeOK, LocalTypeOK,
            worldVars, storeVars
<1>c. cur \in Dialogs
  BY DEF PartStep, SendPart, SendFails, SendRefused, Goto, InHand
<1>p. Part(k) \in SUBSET Nat
  BY DEF Part
<1>m. MailReachesU(Part(k)) =>
        /\ mailU' \subseteq [mid : Nat, dialog : Dialogs, msgs : SUBSET Nat]
        /\ minted' \in Nat
  BY <1>c, <1>p DEF MailReachesU
<1>1. CASE SendPart(k)
  <2>1. sent' \subseteq Nat
    BY <1>1 DEF SendPart
  <2>2. rest' \subseteq selected
    BY <1>1 DEF SendPart
  <2>3. pc' \in Points
    BY <1>1 DEF SendPart, Points, InboundPoints
  <2> QED BY <1>1, <1>c, <1>m, <2>1, <2>2, <2>3 DEF SendPart, InHand
<1>2. CASE SendFails(k)
  <2>1. waiting' \subseteq Scopes
    BY <1>2, <1>c, ScopesOfCalls DEF SendFails, RecordFailure
  <2>2. faults' \in Nat
    BY <1>2 DEF SendFails, Fault
  <2>3. /\ mailU' \subseteq [mid : Nat, dialog : Dialogs, msgs : SUBSET Nat]
        /\ minted' \in Nat
    BY <1>2, <1>m DEF SendFails
  <2>4. pc' \in Points /\ pc' = "pick"
    BY <1>2 DEF SendFails, Goto, Points, InboundPoints
  <2> QED BY <1>2, <2>1, <2>2, <2>3, <2>4 DEF SendFails, DropBatch, InHand
<1>3. CASE SendRefused(k)
  BY <1>3 DEF SendRefused, ProcessEnds, ForgetLocals, InHand, Points
<1> QED BY <1>1, <1>2, <1>3 DEF PartStep

(* The steps of the inbound cycle keep the types. *)
LEMMA InboundCycleTyped == Typed /\ InboundCycle => Typed'
<1> SUFFICES ASSUME Typed, InboundCycle PROVE Typed'
  OBVIOUS
<1> USE DEF Typed, InboundTypeOK, ServiceTypeOK, StoreTypeOK, LocalTypeOK,
            worldVars, storeVars, localVars
<1>1. CASE StartInbound
  BY <1>1 DEF StartInbound, Goto, InHand, Points, InboundPoints
<1>2. CASE ListDialogs
  <2>1. todo' \subseteq [dialog : Dialogs, top : Nat]
    BY <1>2, SelectTyped DEF ListDialogs, TopId, NoTop
  <2>2. waiting' \subseteq Scopes
    BY <1>2 DEF ListDialogs, ClearBackoff
  <2> QED BY <1>2, <2>1, <2>2
          DEF ListDialogs, Goto, InHand, Points, InboundPoints
<1>3. CASE ListFails
  <2>1. waiting' \subseteq Scopes
    BY <1>3, ScopesOfCalls DEF ListFails, RecordFailure
  <2>2. faults' \in Nat
    BY <1>3 DEF ListFails, Fault
  <2> QED BY <1>3, <2>1, <2>2 DEF ListFails, Goto, InHand, Points
<1>4. CASE EndInbound
  BY <1>4 DEF EndInbound, Goto, InHand, Points
<1>5. CASE \E job \in todo : DialogStep(job)
  BY <1>5, DialogStepTyped
<1>6. CASE DownloadMedia
  BY <1>6 DEF DownloadMedia, Goto, InHand, Points, InboundPoints
<1>7. CASE DownloadFails
  <2>1. waiting' \subseteq Scopes
    BY <1>7, ScopesOfCalls DEF DownloadFails, RecordFailure, Goto, InHand
  <2>2. faults' \in Nat
    BY <1>7 DEF DownloadFails, Fault
  <2> QED BY <1>7, <2>1, <2>2
          DEF DownloadFails, DropBatch, Goto, InHand, Points, InboundPoints
<1>8. CASE DownloadPeerNotFound
  <2>1. faults' \in Nat
    BY <1>8 DEF DownloadPeerNotFound, Fault
  <2> QED BY <1>8, <2>1 DEF DownloadPeerNotFound, DropBatch, Goto, InHand,
                            Points, InboundPoints
<1>9. CASE \E k \in rest : PartStep(k)
  BY <1>9, PartStepTyped
<1>10. CASE Commit
  <2>1. cur \in Dialogs
    BY <1>10 DEF Commit, Goto, InHand
  <2>2. cursor' \in [Dialogs -> Nat]
    BY <1>10, <2>1, CursorTyped DEF Commit, CommitDelivery
  <2>3. ledger' \subseteq [mid : Nat, dialog : Dialogs]
    BY <1>10, <2>1 DEF Commit, CommitDelivery
  <2>4. waiting' \subseteq Scopes
    BY <1>10 DEF Commit, ClearBackoff
  <2> QED BY <1>10, <2>2, <2>3, <2>4
          DEF Commit, DropBatch, Goto, InHand, Points, InboundPoints
<1>11. CASE InboundSessionInvalid
  BY <1>11 DEF InboundSessionInvalid, Invalidate, ForgetLocals, InHand,
               Points, HandlerPoints
<1> QED BY <1>1, <1>2, <1>3, <1>4, <1>5, <1>6, <1>7, <1>8, <1>9, <1>10, <1>11
        DEF InboundCycle

(* No shared step puts a dialog in hand. *)
LEMMA SharedKeepsInHand ==
  ASSUME ServiceTypeOK, InHand, UNCHANGED cur,
         Handler \/ Lifecycle \/ World \/ Crash \/ Stop
  PROVE  InHand'
<1>1. CASE World
  BY <1>1 DEF World, MessageArrives, Revoke, TimePasses, InHand
<1>2. CASE Lifecycle
  BY <1>2 DEF Lifecycle, Start, Setup, SetupInterrupted, Goto, InHand
<1>3. CASE Crash \/ Stop
  BY <1>3 DEF Crash, Stop, ProcessEnds, InHand
<1>4. CASE Handler
  <2>1. ret \notin BatchPoints
    BY DEF ServiceTypeOK
  <2> QED BY <1>4, <2>1
          DEF Handler, MarkInvalid, SendSessionNotice, SessionNoticeFails,
              RecordSessionNotice, MarkNotified, Goto, InHand
<1> QED BY <1>1, <1>2, <1>3, <1>4

(* Every step of the inbound process keeps the types. *)
LEMMA InboundNextTyped == Typed /\ [InboundNext]_inboundVars => Typed'
<1> SUFFICES ASSUME Typed, [InboundNext]_inboundVars PROVE Typed'
  OBVIOUS
<1>1. CASE InboundCycle
  BY <1>1, InboundCycleTyped
<1>2. CASE InboundEnds
  <2>1. ServiceTypeOK'
    BY <1>2, EndTyped DEF InboundEnds, Typed, InboundTypeOK
  <2>2. pc' \notin BatchPoints
    BY <1>2 DEF InboundEnds, Crash, Stop, ProcessEnds
  <2>3. LocalTypeOK'
    BY <1>2 DEF InboundEnds, ForgetLocals, LocalTypeOK, Typed, InboundTypeOK
  <2> QED BY <2>1, <2>2, <2>3 DEF Typed, InboundTypeOK, InHand
<1>3. CASE (Handler \/ Lifecycle \/ World) /\ UNCHANGED <<localVars, base>>
  <2>1. ServiceTypeOK'
    BY <1>3, HandlerTyped, LifecycleTyped, WorldTyped DEF Typed, InboundTypeOK
  <2>2. InHand'
    BY <1>3, SharedKeepsInHand DEF Typed, InboundTypeOK, localVars
  <2>3. LocalTypeOK'
    BY <1>3 DEF LocalTypeOK, localVars, Typed, InboundTypeOK
  <2> QED BY <2>1, <2>2, <2>3 DEF Typed, InboundTypeOK
<1>4. CASE UNCHANGED inboundVars
  BY <1>4 DEF inboundVars, serviceVars, storeVars, worldVars, localVars, Typed,
              InboundTypeOK, ServiceTypeOK, StoreTypeOK, LocalTypeOK, InHand
<1> QED BY <1>1, <1>2, <1>3, <1>4 DEF InboundNext

(* The tables, Telegram and the locals of the cycle always have their      *)
(* types; the ledger names only dialogs that are tracked.                  *)
THEOREM InboundTypes == InboundSpec => []InboundTypeOK
<1>1. Typed => InboundTypeOK
  BY DEF Typed
<1> QED BY <1>1, InitTyped, InboundNextTyped, PTL DEF InboundSpec

---------------------------------------------------------------------------
(* No message is skipped.                                                  *)

CursorInDialog == \A d \in Dialogs : cursor[d] <= Len(chat[d])

(* What the batch in hand still promises: all that the bridge owes of the  *)
(* ids it will pass is in the batch, and what has left "rest" is in a mail *)
(* whose Message-ID the commit will write.                                 *)
BatchKept ==
  pc \in BatchPoints =>
    /\ high <= Len(chat[cur])
    /\ \A n \in Ids(cur) :
         n > cursor[cur] /\ n <= high /\ Owed(cur, n) => n \in selected
    /\ \A n \in selected \ rest :
         \E m \in mailU : m.mid \in sent /\ m.dialog = cur /\ n \in m.msgs
    /\ pc = "commit" => rest = {}

InboundInv == Typed /\ CursorInDialog /\ BatchKept /\ NoMessageSkipped

(* The messages that wait in a dialog fit into one fetch. *)
BacklogFits == \A d \in Dialogs : Len(chat[d]) - cursor[d] <= FetchLimit

(* Telegram adds messages and changes none. *)
ChatGrows ==
  /\ \A d \in Dialogs : Len(chat[d]) <= Len(chat'[d])
  /\ \A d \in Dialogs : \A n \in Ids(d) : chat'[d][n] = chat[d][n]

(* Nothing that has been delivered is taken back. *)
BooksGrow ==
  /\ ledger \subseteq ledger'
  /\ mailU \subseteq mailU'
  /\ echo \subseteq echo'

LEMMA DeliveredStays ==
  ASSUME BooksGrow, NEW d, NEW n, Delivered(d, n)
  PROVE  Delivered(d, n)'
BY DEF BooksGrow, Delivered, LedgerIds

(* A message that is owed after a step was owed before, if it was there.   *)
LEMMA OwedBefore ==
  ASSUME ChatGrows, BooksGrow, NEW d \in Dialogs, NEW n \in Ids(d),
         base'[d] = base[d], Owed(d, n)'
  PROVE  Owed(d, n)
BY DEF Owed, ChatGrows, BooksGrow, IsAddressed, IsEcho

(* A step that leaves the cursors alone skips nothing. *)
LEMMA StillNotSkipped ==
  ASSUME Typed, Typed', CursorInDialog, NoMessageSkipped,
         ChatGrows, BooksGrow, UNCHANGED <<cursor, base>>
  PROVE  CursorInDialog' /\ NoMessageSkipped'
<1>0. \A d \in Dialogs :
        /\ cursor[d] \in Nat /\ cursor'[d] \in Nat
        /\ Len(chat[d]) \in Nat /\ Len(chat'[d]) \in Nat
        /\ Len(chat[d]) <= Len(chat'[d])
  BY DEF Typed, InboundTypeOK, ServiceTypeOK, StoreTypeOK, ChatGrows
<1>1. CursorInDialog'
  BY <1>0 DEF CursorInDialog
<1>2. ASSUME NEW d \in Dialogs, NEW n \in Ids(d)', n <= cursor'[d], Owed(d, n)'
      PROVE  Delivered(d, n)'
  <2>1. n \in Ids(d)
    BY <1>0, <1>2 DEF Ids, CursorInDialog
  <2>2. Owed(d, n)
    BY <1>2, <2>1, OwedBefore
  <2>3. Delivered(d, n)
    BY <1>2, <2>1, <2>2 DEF NoMessageSkipped
  <2> QED BY <2>3, DeliveredStays
<1> QED BY <1>1, <1>2 DEF NoMessageSkipped

(* A step that moves the cursor of one dialog over messages that are       *)
(* delivered, or not owed, skips nothing.                                  *)
LEMMA CursorMoves ==
  ASSUME Typed, CursorInDialog, NoMessageSkipped,
         NEW d \in Dialogs, NEW h \in Nat, AdvanceCursor(d, h), h <= Len(chat[d]),
         BooksGrow, UNCHANGED chat,
         \A e \in Dialogs : e # d => base'[e] = base[e],
         \A n \in Ids(d) : n <= cursor'[d] /\ Owed(d, n)' => Delivered(d, n)'
  PROVE  CursorInDialog' /\ NoMessageSkipped'
<1>0. /\ cursor \in [Dialogs -> Nat]
      /\ \A e \in Dialogs : Len(chat[e]) \in Nat
  BY DEF Typed, InboundTypeOK, ServiceTypeOK, StoreTypeOK
<1>1. /\ cursor' \in [Dialogs -> Nat]
      /\ cursor'[d] = AtLeast(cursor[d], h)
      /\ \A e \in Dialogs : e # d => cursor'[e] = cursor[e]
  BY <1>0, CursorTyped
<1>2. CursorInDialog'
  BY <1>0, <1>1 DEF CursorInDialog, AtLeast
<1>3. ChatGrows
  BY <1>0 DEF ChatGrows
<1>4. ASSUME NEW e \in Dialogs, NEW n \in Ids(e), n <= cursor'[e], Owed(e, n)'
      PROVE  Delivered(e, n)'
  <2>1. CASE e = d
    BY <1>4, <2>1
  <2>2. CASE e # d
    <3>1. Owed(e, n)
      BY <1>3, <1>4, <2>2, OwedBefore
    <3>2. Delivered(e, n)
      BY <1>1, <1>4, <2>2, <3>1 DEF NoMessageSkipped
    <3> QED BY <3>2, DeliveredStays
  <2> QED BY <2>1, <2>2
<1>5. \A e \in Dialogs : Ids(e)' = Ids(e)
  BY DEF Ids
<1> QED BY <1>2, <1>4, <1>5 DEF NoMessageSkipped

(* While the backlog fits into a fetch, the fetch selects all that is owed. *)
LEMMA SelectTakesOwed ==
  ASSUME Typed, BacklogFits, NEW d \in Dialogs, NEW n \in Ids(d),
         n > cursor[d], Owed(d, n)
  PROVE  n \in Select(d)
<1>1. /\ cursor[d] \in Nat
      /\ Len(chat[d]) \in Nat
      /\ Len(chat[d]) - cursor[d] <= FetchLimit
      /\ FetchLimit \in Nat
  BY InboundAssumption
     DEF Typed, InboundTypeOK, ServiceTypeOK, StoreTypeOK, BacklogFits
<1>2. n \in FetchSince(d)
  BY <1>1 DEF FetchSince, Ids
<1> QED BY <1>2 DEF Select, Owed

LEMMA DialogStepKeeps ==
  ASSUME InboundInv, Typed', BacklogFits, NEW job \in todo, DialogStep(job)
  PROVE  CursorInDialog' /\ BatchKept' /\ NoMessageSkipped'
<1> USE DEF InboundInv
<1>d. job.dialog \in Dialogs
  BY DEF Typed, InboundTypeOK, LocalTypeOK
<1>l. Len(chat[job.dialog]) \in Nat /\ cursor[job.dialog] \in Nat
  BY <1>d DEF Typed, InboundTypeOK, ServiceTypeOK, StoreTypeOK
<1>g. UNCHANGED <<chat, ledger, mailU, echo>> => ChatGrows /\ BooksGrow
  BY DEF ChatGrows, BooksGrow, Typed, InboundTypeOK, ServiceTypeOK
<1>1. CASE UNCHANGED <<cursor, base, chat, ledger, mailU, echo>> /\ pc' = "pick"
  BY <1>1, <1>g, StillNotSkipped DEF BatchKept
<1>2. CASE FetchTail(job)
  <2> DEFINE d == job.dialog
  <2>1. \A n \in Ids(d) : ~Owed(d, n)'
    BY <1>2, <1>d, <1>l DEF FetchTail, Owed, Ids, Typed, InboundTypeOK, LocalTypeOK
  <2>2. /\ AdvanceCursor(d, Len(chat[d]))
        /\ UNCHANGED <<chat, ledger, mailU, echo, pc>>
        /\ \A e \in Dialogs : e # d => base'[e] = base[e]
    BY <1>2 DEF FetchTail, storeVars, worldVars, Typed, InboundTypeOK, LocalTypeOK
  <2>3. CursorInDialog' /\ NoMessageSkipped'
    BY <1>d, <1>g, <1>l, <2>1, <2>2, CursorMoves
  <2>4. pc' = "pick"
    BY <1>2 DEF FetchTail, Fetches
  <2> QED BY <2>3, <2>4 DEF BatchKept
<1>3. CASE FetchNoneSelected(job)
  <2> DEFINE d == job.dialog
  <2>1. /\ AdvanceCursor(d, Len(chat[d]))
        /\ Select(d) = {}
        /\ UNCHANGED <<chat, ledger, mailU, echo, base, pc>>
    BY <1>3 DEF FetchNoneSelected, worldVars
  <2>2. ASSUME NEW n \in Ids(d), n <= cursor'[d], Owed(d, n)'
        PROVE  Delivered(d, n)'
    <3>1. Owed(d, n)
      BY <1>d, <1>g, <2>1, <2>2, OwedBefore
    <3>2. ~(n > cursor[d])
      BY <1>d, <2>1, <3>1, SelectTakesOwed
    <3>3. Delivered(d, n)
      BY <1>d, <1>l, <3>1, <3>2 DEF NoMessageSkipped, Ids
    <3> QED BY <1>g, <2>1, <3>3, DeliveredStays
  <2>3. CursorInDialog' /\ NoMessageSkipped'
    BY <1>d, <1>g, <1>l, <2>1, <2>2, CursorMoves
  <2>4. pc' = "pick"
    BY <1>3 DEF FetchNoneSelected, Fetches
  <2> QED BY <2>3, <2>4 DEF BatchKept
<1>4. CASE FetchBatch(job)
  <2> DEFINE d == job.dialog
  <2>1. /\ UNCHANGED <<chat, ledger, mailU, echo, base, cursor>>
        /\ pc' = "media" /\ cur' = d /\ high' = Len(chat[d])
        /\ selected' = Select(d) /\ rest' = Select(d)
    BY <1>4 DEF FetchBatch, worldVars, storeVars
  <2>2. CursorInDialog' /\ NoMessageSkipped'
    BY <1>g, <2>1, StillNotSkipped
  <2>3. ASSUME NEW n \in Ids(d), n > cursor[d], Owed(d, n)'
        PROVE  n \in Select(d)
    <3>1. Owed(d, n)
      BY <1>d, <1>g, <2>1, <2>3, OwedBefore
    <3> QED BY <1>d, <2>3, <3>1, SelectTakesOwed
  <2>4. Ids(cur)' = Ids(d) /\ (\A n \in Ids(d) : Owed(cur, n)' = Owed(d, n)')
    BY <2>1 DEF Ids, Owed, IsAddressed, IsEcho
  <2>5. BatchKept'
    BY <1>l, <2>1, <2>3, <2>4 DEF BatchKept
  <2> QED BY <2>2, <2>5
<1> QED
  BY <1>1, <1>2, <1>3, <1>4
     DEF DialogStep, SkipNotDue, SkipNothingNew, FetchNothing, FetchFails,
         FetchPeerNotFound, Fetches, Done, DoneWell, storeVars, worldVars

LEMMA PartStepKeeps ==
  ASSUME InboundInv, Typed', NEW k \in rest, PartStep(k)
  PROVE  CursorInDialog' /\ BatchKept' /\ NoMessageSkipped'
<1> USE DEF InboundInv
<1>c. cur \in Dialogs
  BY DEF PartStep, SendPart, SendFails, SendRefused, Goto, InHand, Typed
<1>0. UNCHANGED <<chat, ledger, echo, cursor, base>> /\ mailU \subseteq mailU'
  BY DEF PartStep, SendPart, SendFails, SendRefused, MailReachesU, storeVars, worldVars
<1>g. ChatGrows /\ BooksGrow
  BY <1>0 DEF ChatGrows, BooksGrow, Typed, InboundTypeOK, ServiceTypeOK
<1>1. CursorInDialog' /\ NoMessageSkipped'
  BY <1>0, <1>g, StillNotSkipped
<1>2. CASE SendPart(k)
  <2>1. /\ UNCHANGED <<selected, cur, high>>
        /\ rest' = rest \ Part(k)
        /\ sent' = sent \cup {minted + 1}
        /\ mailU' = mailU \cup {[mid |-> minted + 1, dialog |-> cur, msgs |-> Part(k)]}
        /\ pc' = "commit" => rest' = {}
        /\ pc = "send"
    BY <1>2 DEF SendPart, MailReachesU
  <2>2. ASSUME NEW n \in selected' \ rest'
        PROVE  \E m \in mailU' : m.mid \in sent' /\ m.dialog = cur' /\ n \in m.msgs
    <3>1. CASE n \in rest
      <4> DEFINE part == [mid |-> minted + 1, dialog |-> cur, msgs |-> Part(k)]
      <4>1. n \in part.msgs /\ part.mid \in sent' /\ part.dialog = cur'
        BY <2>1, <2>2, <3>1
      <4> QED BY <2>1, <4>1
    <3>2. CASE n \notin rest
      BY <2>1, <2>2, <3>2 DEF BatchKept
    <3> QED BY <3>1, <3>2
  <2>3. \A n \in Ids(cur)' : Owed(cur, n)' => Owed(cur, n)
    BY <1>0, <2>1 DEF Ids, Owed, IsAddressed, IsEcho
  <2>4. Ids(cur)' = Ids(cur)
    BY <1>0, <2>1 DEF Ids
  <2>5. \A n \in Ids(cur)' :
          n > cursor'[cur'] /\ n <= high' /\ Owed(cur, n)' => n \in selected'
    BY <1>0, <2>1, <2>3, <2>4 DEF BatchKept
  <2>6. high' <= Len(chat'[cur'])
    BY <1>0, <2>1 DEF BatchKept
  <2> QED BY <1>1, <2>1, <2>2, <2>5, <2>6 DEF BatchKept
<1>3. CASE SendFails(k) \/ SendRefused(k)
  BY <1>1, <1>3 DEF SendFails, SendRefused, Goto, ProcessEnds, BatchKept
<1> QED BY <1>2, <1>3 DEF PartStep

(* What the commit writes is delivered by then. *)
LEMMA CommitKeeps ==
  ASSUME InboundInv, Typed', Commit
  PROVE  CursorInDialog' /\ BatchKept' /\ NoMessageSkipped'
<1> USE DEF InboundInv
<1>1. /\ pc = "commit" /\ pc' = "pick"
      /\ CommitDelivery(cur, sent, high)
      /\ UNCHANGED <<chat, mailU, echo, base>>
  BY DEF Commit, Goto, worldVars
<1>2. PICK d \in Dialogs : d = cur
  BY <1>1 DEF Typed, InHand
<1>3. high \in Nat /\ high <= Len(chat[d]) /\ rest = {}
  BY <1>1, <1>2 DEF BatchKept, Typed, InboundTypeOK, LocalTypeOK
<1>4. /\ AdvanceCursor(d, high)
      /\ ledger' = ledger \cup {[mid |-> m, dialog |-> d] : m \in sent}
  BY <1>1, <1>2 DEF CommitDelivery
<1>5. ChatGrows /\ BooksGrow
  BY <1>1, <1>4 DEF ChatGrows, BooksGrow, Typed, InboundTypeOK, ServiceTypeOK
<1>6. /\ cursor[d] \in Nat
      /\ cursor'[d] = AtLeast(cursor[d], high)
  BY <1>3, <1>4, CursorTyped DEF Typed, InboundTypeOK, ServiceTypeOK, StoreTypeOK
<1>7. ASSUME NEW n \in Ids(d), n <= cursor'[d], Owed(d, n)'
      PROVE  Delivered(d, n)'
  <2>1. Owed(d, n)
    BY <1>1, <1>5, <1>7, OwedBefore
  <2>2. CASE n <= cursor[d]
    <3>1. Delivered(d, n)
      BY <2>1, <2>2 DEF NoMessageSkipped
    <3> QED BY <1>5, <3>1, DeliveredStays
  <2>3. CASE ~(n <= cursor[d])
    <3>1. n > cursor[d] /\ n <= high
      BY <1>3, <1>6, <1>7, <2>3 DEF AtLeast, Ids
    <3>2. n \in selected \ rest
      BY <1>1, <1>2, <1>3, <2>1, <3>1 DEF BatchKept
    <3>3. PICK m \in mailU : m.mid \in sent /\ m.dialog = d /\ n \in m.msgs
      BY <1>1, <1>2, <3>2 DEF BatchKept
    <3>4. [mid |-> m.mid, dialog |-> d] \in ledger'
      BY <1>4, <3>3
    <3>5. m.mid \in LedgerIds'
      BY <3>4 DEF LedgerIds
    <3> QED BY <1>1, <3>3, <3>5 DEF Delivered
  <2> QED BY <2>2, <2>3
<1>8. CursorInDialog' /\ NoMessageSkipped'
  BY <1>1, <1>3, <1>4, <1>5, <1>7, CursorMoves
<1> QED BY <1>1, <1>8 DEF BatchKept

LEMMA InboundCycleKeeps ==
  InboundInv /\ BacklogFits /\ InboundCycle => InboundInv'
<1> SUFFICES ASSUME InboundInv, BacklogFits, InboundCycle PROVE InboundInv'
  OBVIOUS
<1>t. Typed'
  BY InboundCycleTyped DEF InboundInv
<1>1. CASE \E job \in todo : DialogStep(job)
  BY <1>t, <1>1, DialogStepKeeps DEF InboundInv
<1>2. CASE \E k \in rest : PartStep(k)
  BY <1>t, <1>2, PartStepKeeps DEF InboundInv
<1>3. CASE Commit
  BY <1>t, <1>3, CommitKeeps DEF InboundInv
<1>4. CASE \/ StartInbound \/ ListDialogs \/ ListFails \/ EndInbound \/ DownloadMedia
           \/ DownloadFails \/ DownloadPeerNotFound \/ InboundSessionInvalid
  <2>1. UNCHANGED <<cursor, base, chat, ledger, mailU, echo>>
    BY <1>4 DEF StartInbound, ListDialogs, ListFails, EndInbound, DownloadMedia,
                DownloadFails, DownloadPeerNotFound, InboundSessionInvalid,
                storeVars, worldVars
  <2>2. ChatGrows /\ BooksGrow
    BY <2>1 DEF ChatGrows, BooksGrow, InboundInv, Typed, InboundTypeOK, ServiceTypeOK
  <2>3. CursorInDialog' /\ NoMessageSkipped'
    BY <1>t, <2>1, <2>2, StillNotSkipped DEF InboundInv
  <2>4. BatchKept'
    <3>1. CASE DownloadMedia
      <4>1. /\ UNCHANGED <<selected, rest, sent, high, cur>>
            /\ pc = "media" /\ pc' = "send"
        BY <3>1 DEF DownloadMedia, Goto, localVars
      <4>2. \A n \in Ids(cur)' : Owed(cur, n)' => Owed(cur, n)
        BY <2>1, <4>1 DEF Ids, Owed, IsAddressed, IsEcho
      <4>3. Ids(cur)' = Ids(cur)
        BY <2>1, <4>1 DEF Ids
      <4> QED BY <2>1, <4>1, <4>2, <4>3 DEF BatchKept, InboundInv
    <3>2. CASE ~DownloadMedia
      BY <1>4, <3>2
         DEF StartInbound, ListDialogs, ListFails, EndInbound, DownloadFails,
             DownloadPeerNotFound, InboundSessionInvalid, Invalidate, Goto, BatchKept
    <3> QED BY <3>1, <3>2
  <2> QED BY <1>t, <2>3, <2>4 DEF InboundInv
<1> QED BY <1>1, <1>2, <1>3, <1>4 DEF InboundCycle

(* Messages that arrive while a batch is in hand lie above what it passes. *)
LEMMA OtherStepKeepsBatch ==
  ASSUME InboundInv, ChatGrows, BooksGrow,
         UNCHANGED <<cursor, base, cur, selected, rest, high, sent, pc>>
  PROVE  BatchKept'
<1> SUFFICES ASSUME pc \in BatchPoints PROVE BatchKept'
  BY DEF BatchKept
<1>1. PICK d \in Dialogs : d = cur
  BY DEF InboundInv, Typed, InHand
<1>2. Len(chat[d]) \in Nat /\ Len(chat[d]) <= Len(chat'[d]) /\ high \in Nat
  BY <1>1 DEF ChatGrows, InboundInv, Typed, InboundTypeOK, ServiceTypeOK, LocalTypeOK
<1>3. /\ high <= Len(chat[d])
      /\ \A n \in Ids(d) : n > cursor[d] /\ n <= high /\ Owed(d, n) => n \in selected
      /\ \A n \in selected \ rest :
           \E m \in mailU : m.mid \in sent /\ m.dialog = d /\ n \in m.msgs
      /\ pc = "commit" => rest = {}
  BY <1>1 DEF InboundInv, BatchKept
<1>4. ASSUME NEW n \in Ids(d)', n > cursor'[d], n <= high', Owed(d, n)'
      PROVE  n \in selected'
  <2>1. n \in Ids(d)
    BY <1>2, <1>3, <1>4 DEF Ids
  <2>2. Owed(d, n)
    BY <1>4, <2>1, OwedBefore
  <2> QED BY <1>3, <1>4, <2>1, <2>2
<1>5. /\ high' <= Len(chat'[d])
      /\ \A n \in selected' \ rest' :
           \E m \in mailU' : m.mid \in sent' /\ m.dialog = d /\ n \in m.msgs
      /\ pc' = "commit" => rest' = {}
  <2>1. high' <= Len(chat'[d])
    BY <1>2, <1>3
  <2> QED BY <1>3, <2>1 DEF BooksGrow
<1>6. Ids(cur)' = Ids(d)' /\ (\A n : Owed(cur, n)' <=> Owed(d, n)')
  BY <1>1 DEF Ids, Owed, IsAddressed, IsEcho
<1> QED BY <1>1, <1>4, <1>5, <1>6 DEF BatchKept

(* What the steps outside the cycles do to the chats and the books. *)
LEMMA SharedGrows ==
  ASSUME Typed, Handler \/ Lifecycle \/ World \/ Crash \/ Stop
  PROVE  /\ ChatGrows
         /\ BooksGrow
         /\ UNCHANGED cursor
<1>0. \A d \in Dialogs : Len(chat[d]) \in Nat
  BY DEF Typed, InboundTypeOK, ServiceTypeOK
<1>1. CASE \E d \in Dialogs, kind \in Kinds : MessageArrives(d, kind)
  <2>1. PICK d \in Dialogs, kind \in Kinds : MessageArrives(d, kind)
    BY <1>1
  <2>2. ChatGrows
    BY <1>0, <2>1, AppendTyped, ServiceAssumption
       DEF MessageArrives, ChatGrows, Ids, Typed, InboundTypeOK, ServiceTypeOK
  <2> QED BY <2>1, <2>2 DEF MessageArrives, BooksGrow, storeVars
<1>2. CASE Handler \/ Lifecycle \/ Revoke \/ TimePasses \/ Crash \/ Stop
  <2>1. UNCHANGED <<chat, cursor, ledger, mailU, echo>>
    BY <1>2 DEF Handler, MarkInvalid, SendSessionNotice, SessionNoticeFails,
                RecordSessionNotice, MarkNotified, Lifecycle, Start, Setup,
                SetupInterrupted, Revoke, TimePasses, BackoffElapses, Crash, Stop,
                storeVars, worldVars
  <2> QED BY <1>0, <2>1 DEF ChatGrows, BooksGrow
<1> QED BY <1>1, <1>2 DEF World

(* The inductive step. *)
LEMMA InboundNextKeeps ==
  InboundInv /\ BacklogFits /\ [InboundNext]_inboundVars => InboundInv'
<1> SUFFICES ASSUME InboundInv, BacklogFits, [InboundNext]_inboundVars
             PROVE  InboundInv'
  OBVIOUS
<1>t. Typed /\ Typed'
  BY InboundNextTyped DEF InboundInv
<1>1. CASE InboundCycle
  BY <1>1, InboundCycleKeeps
<1>2. CASE InboundEnds
  <2>1. ChatGrows /\ BooksGrow /\ UNCHANGED <<cursor, base>>
    BY <1>t, <1>2, SharedGrows DEF InboundEnds
  <2>2. BatchKept'
    BY <1>2 DEF InboundEnds, Crash, Stop, ProcessEnds, BatchKept
  <2> QED BY <1>t, <2>1, <2>2, StillNotSkipped DEF InboundInv
<1>3. CASE (Handler \/ Lifecycle \/ World) /\ UNCHANGED <<localVars, base>>
  <2>1. ChatGrows /\ BooksGrow /\ UNCHANGED <<cursor, base>>
    BY <1>t, <1>3, SharedGrows
  <2>2. BatchKept'
    <3>1. CASE World
      BY <1>3, <2>1, <3>1, OtherStepKeepsBatch
         DEF World, MessageArrives, Revoke, TimePasses, localVars
    <3>2. CASE Handler \/ Lifecycle
      <4>1. ret \notin BatchPoints
        BY <1>t DEF Typed, InboundTypeOK, ServiceTypeOK
      <4> QED BY <3>2, <4>1
              DEF Handler, MarkInvalid, SendSessionNotice, SessionNoticeFails,
                  RecordSessionNotice, MarkNotified, Lifecycle, Start, Setup,
                  SetupInterrupted, Goto, BatchKept
    <3> QED BY <1>3, <3>1, <3>2
  <2> QED BY <1>t, <2>1, <2>2, StillNotSkipped DEF InboundInv
<1>4. CASE UNCHANGED inboundVars
  <2>1. UNCHANGED <<chat, cursor, base, ledger, mailU, echo, pc, cur, selected,
                    rest, high, sent>>
    BY <1>4 DEF inboundVars, serviceVars, storeVars, worldVars, localVars
  <2>2. ChatGrows /\ BooksGrow
    BY <1>t, <2>1 DEF ChatGrows, BooksGrow, Typed, InboundTypeOK, ServiceTypeOK
  <2> QED BY <1>t, <2>1, <2>2, StillNotSkipped, OtherStepKeepsBatch DEF InboundInv
<1> QED BY <1>1, <1>2, <1>3, <1>4 DEF InboundNext

LEMMA InitSkipsNothing == InboundInit => InboundInv
<1> SUFFICES ASSUME InboundInit PROVE InboundInv
  OBVIOUS
<1>1. \A d \in Dialogs : cursor[d] = 0 /\ Len(chat[d]) \in Nat
  BY InitTyped DEF InboundInit, ServiceInit, StoreInit, Typed, InboundTypeOK,
                   ServiceTypeOK
<1>2. NoMessageSkipped
  BY <1>1 DEF NoMessageSkipped, Ids
<1> QED BY <1>1, <1>2, InitTyped
        DEF InboundInv, CursorInDialog, BatchKept, InboundInit, ServiceInit

(* README: "No accepted message is skipped".  It holds of every behaviour  *)
(* in which no dialog ever holds more waiting messages than one fetch      *)
(* takes, through every failure and crash; the limit is the only thing     *)
(* that can break it.                                                      *)
THEOREM NothingSkippedWhileBacklogFits ==
  InboundSpec /\ []BacklogFits => []NoMessageSkipped
<1>1. InboundInv => NoMessageSkipped
  BY DEF InboundInv
<1> QED BY <1>1, InitSkipsNothing, InboundNextKeeps, PTL DEF InboundSpec

---------------------------------------------------------------------------
(* Only an arrival changes a chat. *)
LEMMA CycleLeavesChats == InboundCycle => UNCHANGED chat
BY DEF InboundCycle, StartInbound, ListDialogs, ListFails, EndInbound, DialogStep,
       SkipNotDue, SkipNothingNew, FetchNothing, FetchTail, FetchNoneSelected,
       FetchBatch, FetchFails, FetchPeerNotFound, DownloadMedia, DownloadFails,
       DownloadPeerNotFound, PartStep, SendPart, SendFails, SendRefused, Commit,
       InboundSessionInvalid, worldVars

LEMMA SharedLeavesChats ==
  Handler \/ Lifecycle \/ Revoke \/ TimePasses \/ Crash \/ Stop => UNCHANGED chat
BY DEF Handler, MarkInvalid, SendSessionNotice, SessionNoticeFails,
       RecordSessionNotice, MarkNotified, Lifecycle, Start, Setup,
       SetupInterrupted, Revoke, TimePasses, Crash, Stop, worldVars

---------------------------------------------------------------------------
(* An invalid session.                                                     *)

(* From the moment set_session(False) is committed until the operator runs *)
(* setup, no step of the process stands where it could call Telegram for   *)
(* messages or mail them.                                                  *)
THEOREM InvalidSessionIsQuiet == InboundSpec => []QuietWhileInvalid
<1> DEFINE Inv == Typed /\ QuietWhileInvalid
<1>1. InboundInit => Inv
  BY InitTyped DEF InboundInit, ServiceInit, QuietWhileInvalid, InboundPoints
<1>2. Inv /\ [InboundNext]_inboundVars => Inv'
  <2> SUFFICES ASSUME Inv, [InboundNext]_inboundVars PROVE QuietWhileInvalid'
    BY InboundNextTyped
  <2> USE DEF QuietWhileInvalid, InboundPoints
  <2>r. ret \notin InboundPoints
    BY DEF Typed, InboundTypeOK, ServiceTypeOK
  <2>1. CASE InboundCycle
    <3>1. CASE StartInbound
      BY <3>1 DEF StartInbound, DeliveryAllowed, storeVars
    <3>2. CASE \E job \in todo : DialogStep(job)
      BY <3>2 DEF DialogStep, SkipNotDue, SkipNothingNew, FetchNothing, FetchTail,
                  FetchNoneSelected, FetchBatch, FetchFails, FetchPeerNotFound,
                  Fetches, storeVars
    <3>3. CASE \E k \in rest : PartStep(k)
      BY <3>3 DEF PartStep, SendPart, SendFails, SendRefused, ProcessEnds, Goto,
                  storeVars
    <3>4. CASE \/ ListDialogs \/ ListFails \/ EndInbound \/ DownloadMedia
               \/ DownloadFails \/ DownloadPeerNotFound \/ Commit
      BY <3>4 DEF ListDialogs, ListFails, EndInbound, DownloadMedia, DownloadFails,
                  DownloadPeerNotFound, Commit, Goto, storeVars
    <3>5. CASE InboundSessionInvalid
      BY <3>5 DEF InboundSessionInvalid, Invalidate
    <3> QED BY <2>1, <3>1, <3>2, <3>3, <3>4, <3>5 DEF InboundCycle
  <2>2. CASE InboundEnds
    BY <2>2 DEF InboundEnds, Crash, Stop, ProcessEnds
  <2>3. CASE Handler
    BY <2>3, <2>r DEF Handler, MarkInvalid, SendSessionNotice, SessionNoticeFails,
                      RecordSessionNotice, MarkNotified, Goto
  <2>4. CASE Lifecycle
    BY <2>4 DEF Lifecycle, Start, Setup, SetupInterrupted, Goto, storeVars
  <2>5. CASE World
    BY <2>5 DEF World, MessageArrives, Revoke, TimePasses, BackoffElapses, storeVars
  <2>6. CASE UNCHANGED inboundVars
    BY <2>6 DEF inboundVars, serviceVars, storeVars
  <2> QED BY <2>1, <2>2, <2>3, <2>4, <2>5, <2>6 DEF InboundNext
<1>3. Inv => QuietWhileInvalid
  OBVIOUS
<1> QED BY <1>1, <1>2, <1>3, PTL DEF InboundSpec
---------------------------------------------------------------------------
(* Order.  The Message-IDs of a batch are newer than all in the ledger,    *)
(* its parts go out in order, and what the ledger has lies at or below the *)
(* cursor while what a batch holds lies above: so the mails of a dialog in *)
(* the ledger are in the order of their messages.                          *)

MidsFresh ==
  /\ \A m \in mailU : m.mid <= minted
  /\ \A row \in ledger : row.mid <= minted
  /\ \A x \in sent : x <= minted /\ \A row \in ledger : row.mid < x
  /\ \A m1, m2 \in mailU : m1.mid = m2.mid => m1 = m2

PartsOrdered ==
  pc \in BatchPoints =>
    /\ \A n \in selected : n > cursor[cur] /\ n <= high
    /\ \A m \in mailU : m.mid \in sent =>
         /\ m.dialog = cur
         /\ m.msgs \subseteq selected \ rest
         /\ \A n \in m.msgs, k \in rest : n < k
    /\ \A m1, m2 \in mailU :
         m1.mid \in sent /\ m2.mid \in sent /\ m1.mid < m2.mid
         => \A n1 \in m1.msgs, n2 \in m2.msgs : n1 < n2

LedgerBelowCursor ==
  \A m \in mailU : m.mid \in LedgerIds => \A n \in m.msgs : n <= cursor[m.dialog]

OrderInv == MidsFresh /\ PartsOrdered /\ LedgerBelowCursor /\ LedgerChronological

(* The ranges that the arithmetic below is about. *)
LEMMA OrderRanges ==
  ASSUME Typed
  PROVE  /\ minted \in Nat /\ high \in Nat
         /\ cursor \in [Dialogs -> Nat]
         /\ selected \subseteq Nat /\ rest \subseteq selected /\ sent \subseteq Nat
         /\ \A m \in mailU : m.mid \in Nat /\ m.dialog \in Dialogs /\ m.msgs \subseteq Nat
         /\ \A row \in ledger : row.mid \in Nat /\ row.dialog \in Dialogs
BY DEF Typed, InboundTypeOK, ServiceTypeOK, StoreTypeOK, LocalTypeOK

(* A step that neither mails nor books keeps the order. *)
LEMMA OrderFramed ==
  ASSUME Typed, Typed', OrderInv, UNCHANGED <<mailU, ledger>>,
         minted <= minted',
         \A d \in Dialogs : cursor[d] <= cursor'[d],
         sent' = {} \/ UNCHANGED sent,
         pc' \in BatchPoints =>
           pc \in BatchPoints /\ UNCHANGED <<cursor, batchVars>>
  PROVE  OrderInv'
<1> USE DEF OrderInv
<1>0. minted' \in Nat /\ cursor' \in [Dialogs -> Nat]
  BY DEF Typed, InboundTypeOK, ServiceTypeOK, StoreTypeOK
<1>1. MidsFresh'
  <2>1. \A x \in Nat : x <= minted => x <= minted'
    BY <1>0, OrderRanges
  <2> QED BY <2>1, OrderRanges DEF MidsFresh
<1>2. PartsOrdered'
  BY DEF PartsOrdered
<1>3. LedgerBelowCursor'
  <2> SUFFICES ASSUME NEW m \in mailU, m.mid \in LedgerIds, NEW n \in m.msgs
               PROVE  n <= cursor'[m.dialog]
    BY DEF LedgerBelowCursor, LedgerIds
  <2>1. n <= cursor[m.dialog] /\ cursor[m.dialog] <= cursor'[m.dialog]
    BY OrderRanges DEF LedgerBelowCursor
  <2>2. n \in Nat /\ cursor[m.dialog] \in Nat /\ cursor'[m.dialog] \in Nat
    BY <1>0, OrderRanges
  <2> QED BY <2>1, <2>2
<1>4. LedgerChronological'
  BY DEF LedgerChronological, LedgerIds
<1> QED BY <1>1, <1>2, <1>3, <1>4
LEMMA CursorGrows ==
  ASSUME cursor \in [Dialogs -> Nat], NEW d \in Dialogs, NEW h \in Nat,
         AdvanceCursor(d, h)
  PROVE  \A e \in Dialogs : cursor[e] <= cursor'[e]
<1>1. /\ cursor'[d] = AtLeast(cursor[d], h)
      /\ \A e \in Dialogs : e # d => cursor'[e] = cursor[e]
  BY CursorTyped
<1>2. cursor[d] <= AtLeast(cursor[d], h)
  BY DEF AtLeast
<1> QED BY <1>1, <1>2

(* A part is mailed under a fresh Message-ID, and holds what comes next. *)
LEMMA PartOrdered ==
  ASSUME Typed, Typed', OrderInv, NEW k \in rest, SendPart(k) \/ SendFails(k),
         MailReachesU(Part(k))
  PROVE  OrderInv'
<1> USE DEF OrderInv
<1>0. PICK part : /\ part = [mid |-> minted + 1, dialog |-> cur, msgs |-> Part(k)]
                  /\ mailU' = mailU \cup {part}
  BY DEF MailReachesU
<1>1. /\ part.mid = minted + 1 /\ part.dialog = cur /\ part.msgs = Part(k)
      /\ minted' = minted + 1 /\ pc = "send"
      /\ UNCHANGED <<ledger, cursor>>
  BY <1>0 DEF MailReachesU, SendPart, SendFails, Goto, storeVars
<1>2. \/ /\ sent' = sent \cup {minted + 1} /\ rest' = rest \ Part(k)
         /\ UNCHANGED <<cur, selected, high>>
      \/ sent' = {} /\ pc' \notin BatchPoints
  BY DEF SendPart, SendFails, DropBatch, Goto
<1>r. \A m \in mailU : m.mid <= minted /\ m.mid \in Nat
  BY OrderRanges DEF MidsFresh
<1>f. \A row \in ledger : row.mid <= minted /\ row.mid \in Nat
  BY OrderRanges DEF MidsFresh
<1>3. MidsFresh'
  <2>1. \A m \in mailU' : m.mid <= minted'
    BY <1>0, <1>1, <1>r, OrderRanges
  <2>2. \A row \in ledger' : row.mid <= minted'
    BY <1>1, <1>f, OrderRanges
  <2>3. \A x \in sent' : x <= minted' /\ \A row \in ledger' : row.mid < x
    <3>1. \A x \in sent : x <= minted' /\ \A row \in ledger : row.mid < x
      BY <1>1, OrderRanges DEF MidsFresh
    <3>2. minted + 1 <= minted' /\ \A row \in ledger : row.mid < minted + 1
      BY <1>1, <1>f, OrderRanges
    <3> QED BY <1>1, <1>2, <3>1, <3>2
  <2>4. \A m1, m2 \in mailU' : m1.mid = m2.mid => m1 = m2
    <3>1. \A m \in mailU : m.mid # part.mid
      BY <1>1, <1>r, OrderRanges
    <3> QED BY <1>0, <3>1 DEF MidsFresh
  <2> QED BY <2>1, <2>2, <2>3, <2>4 DEF MidsFresh
<1>4. part.mid \notin LedgerIds' /\ LedgerIds' = LedgerIds
  BY <1>1, <1>f, OrderRanges DEF LedgerIds
<1>5. LedgerBelowCursor'
  BY <1>0, <1>1, <1>4 DEF LedgerBelowCursor
<1>6. LedgerChronological'
  BY <1>0, <1>4 DEF LedgerChronological
<1>7. PartsOrdered'
  <2> SUFFICES ASSUME pc' \in BatchPoints,
                      sent' = sent \cup {minted + 1}, rest' = rest \ Part(k),
                      UNCHANGED <<cur, selected, high>>
               PROVE  PartsOrdered'
    BY <1>2 DEF PartsOrdered
  <2>1. /\ \A n \in selected : n > cursor[cur] /\ n <= high
        /\ \A m \in mailU : m.mid \in sent =>
             /\ m.dialog = cur /\ m.msgs \subseteq selected \ rest
             /\ \A n \in m.msgs, j \in rest : n < j
        /\ \A m1, m2 \in mailU :
             m1.mid \in sent /\ m2.mid \in sent /\ m1.mid < m2.mid
             => \A n1 \in m1.msgs, n2 \in m2.msgs : n1 < n2
    BY <1>1 DEF PartsOrdered
  <2>2. \A m \in mailU : m.mid \in sent' => m.mid \in sent
    BY <1>r, OrderRanges
  <2>3. /\ part.msgs \subseteq selected \ rest'
        /\ \A n \in part.msgs, j \in rest' : n < j
    BY <1>1, OrderRanges DEF Part
  <2>4. \A m \in mailU' : m.mid \in sent' =>
          /\ m.dialog = cur' /\ m.msgs \subseteq selected' \ rest'
          /\ \A n \in m.msgs, j \in rest' : n < j
    BY <1>0, <1>1, <2>1, <2>2, <2>3
  <2>5. ASSUME NEW m1 \in mailU', NEW m2 \in mailU', m1.mid \in sent',
               m2.mid \in sent', m1.mid < m2.mid, NEW n1 \in m1.msgs, NEW n2 \in m2.msgs
        PROVE  n1 < n2
    <3>1. m1 # part
      BY <1>0, <1>1, <1>r, <2>5, OrderRanges
    <3>2. CASE m2 = part
      <4>1. n2 \in rest /\ m1 \in mailU /\ m1.mid \in sent
        BY <1>0, <1>1, <2>2, <2>5, <3>1, <3>2 DEF Part
      <4> QED BY <2>1, <2>5, <4>1
    <3>3. CASE m2 # part
      BY <1>0, <2>1, <2>2, <2>5, <3>1, <3>3
    <3> QED BY <3>2, <3>3
  <2>6. \A n \in selected' : n > cursor'[cur'] /\ n <= high'
    BY <1>1, <2>1
  <2> QED BY <2>4, <2>5, <2>6 DEF PartsOrdered
<1> QED BY <1>3, <1>5, <1>6, <1>7

(* The batch enters the ledger, above all that was there. *)
LEMMA CommitOrdered ==
  ASSUME Typed, Typed', OrderInv, Commit PROVE OrderInv'
<1> USE DEF OrderInv
<1>1. PICK d \in Dialogs : d = cur
  BY DEF Commit, Goto, Typed, InHand
<1>2. /\ ledger' = ledger \cup {[mid |-> x, dialog |-> d] : x \in sent}
      /\ AdvanceCursor(d, high)
      /\ pc = "commit" /\ pc' = "pick" /\ sent' = {}
      /\ UNCHANGED <<mailU, minted>>
  BY <1>1 DEF Commit, CommitDelivery, DropBatch, Goto, worldVars
<1>3. LedgerIds' \subseteq LedgerIds \cup sent
  BY <1>2 DEF LedgerIds
<1>4. /\ \A e \in Dialogs : cursor[e] <= cursor'[e]
      /\ cursor' \in [Dialogs -> Nat]
      /\ high <= cursor'[d]
  BY <1>2, OrderRanges, CursorTyped, CursorGrows DEF AtLeast
<1>5. /\ \A n \in selected : n > cursor[d] /\ n <= high
      /\ \A m \in mailU : m.mid \in sent => m.dialog = d /\ m.msgs \subseteq selected
      /\ \A m1, m2 \in mailU :
           m1.mid \in sent /\ m2.mid \in sent /\ m1.mid < m2.mid
           => \A n1 \in m1.msgs, n2 \in m2.msgs : n1 < n2
  BY <1>1, <1>2 DEF PartsOrdered
<1>6. MidsFresh'
  <2>1. \A row \in ledger' : row \in ledger \/ row.mid \in sent
    BY <1>2
  <2> QED BY <1>2, <2>1 DEF MidsFresh
<1>7. LedgerBelowCursor'
  <2> SUFFICES ASSUME NEW m \in mailU, m.mid \in LedgerIds', NEW n \in m.msgs
               PROVE  n <= cursor'[m.dialog]
    BY <1>2 DEF LedgerBelowCursor
  <2>0. n \in Nat /\ m.dialog \in Dialogs
    BY OrderRanges
  <2>1. CASE m.mid \in LedgerIds
    <3>1. n <= cursor[m.dialog] /\ cursor[m.dialog] <= cursor'[m.dialog]
      BY <1>4, <2>0, <2>1 DEF LedgerBelowCursor
    <3>2. cursor[m.dialog] \in Nat /\ cursor'[m.dialog] \in Nat
      BY <1>4, <2>0, OrderRanges
    <3> QED BY <2>0, <3>1, <3>2
  <2>2. CASE m.mid \in sent
    <3>1. m.dialog = d /\ n <= high /\ high <= cursor'[d] /\ cursor'[d] \in Nat
      BY <1>4, <1>5, <2>2
    <3> QED BY <2>0, <3>1, OrderRanges
  <2> QED BY <1>3, <2>1, <2>2
<1>8. LedgerChronological'
  <2> SUFFICES ASSUME NEW m1 \in mailU, NEW m2 \in mailU,
                      m1.mid \in LedgerIds', m2.mid \in LedgerIds',
                      m1.dialog = m2.dialog, m1.mid < m2.mid,
                      NEW n1 \in m1.msgs, NEW n2 \in m2.msgs
               PROVE  n1 < n2
    BY <1>2 DEF LedgerChronological
  <2>1. CASE m1.mid \in LedgerIds /\ m2.mid \in LedgerIds
    BY <2>1 DEF LedgerChronological
  <2>2. CASE m1.mid \in sent /\ m2.mid \in sent
    BY <1>5, <2>2
  <2>3. CASE m1.mid \in LedgerIds /\ m2.mid \in sent
    <3>1. n1 <= cursor[d] /\ n2 > cursor[d]
      BY <1>5, <2>3 DEF LedgerBelowCursor
    <3> QED BY <3>1, OrderRanges
  <2>4. CASE m1.mid \in sent /\ m2.mid \in LedgerIds
    <3>1. m2.mid < m1.mid
      BY <2>4 DEF MidsFresh, LedgerIds
    <3> QED BY <3>1, OrderRanges
  <2> QED BY <1>3, <2>1, <2>2, <2>3, <2>4
<1>9. PartsOrdered'
  BY <1>2 DEF PartsOrdered
<1> QED BY <1>6, <1>7, <1>8, <1>9

(* A fetch takes what lies above the cursor. *)
LEMMA FetchOrdered ==
  ASSUME Typed, Typed', OrderInv, NEW job \in todo, FetchBatch(job) PROVE OrderInv'
<1> USE DEF OrderInv
<1>0. job.dialog \in Dialogs
  BY DEF Typed, InboundTypeOK, LocalTypeOK
<1>1. /\ UNCHANGED <<mailU, ledger, cursor, minted>>
      /\ cur' = job.dialog /\ selected' = Select(job.dialog)
      /\ high' = Len(chat[job.dialog]) /\ sent' = {}
  BY DEF FetchBatch, storeVars, worldVars
<1>2. PartsOrdered'
  BY <1>0, <1>1, SelectTyped DEF PartsOrdered, Select, FetchSince, Ids
<1>3. MidsFresh' /\ LedgerBelowCursor' /\ LedgerChronological'
  BY <1>1 DEF MidsFresh, LedgerBelowCursor, LedgerChronological, LedgerIds
<1> QED BY <1>2, <1>3

(* The steps of a dialog that take no batch. *)
LEMMA OtherDialogStep ==
  ASSUME Typed, NEW job \in todo, DialogStep(job), ~FetchBatch(job)
  PROVE  /\ UNCHANGED <<mailU, ledger, minted, sent, chat, echo>>
         /\ pc' = "pick"
         /\ \A d \in Dialogs : cursor[d] <= cursor'[d]
<1>0. job.dialog \in Dialogs /\ cursor \in [Dialogs -> Nat]
  BY DEF Typed, InboundTypeOK, LocalTypeOK, ServiceTypeOK, StoreTypeOK
<1>1. CASE UNCHANGED cursor
  BY <1>0, <1>1
     DEF DialogStep, SkipNotDue, SkipNothingNew, FetchNothing, FetchTail,
         FetchNoneSelected, FetchFails, FetchPeerNotFound, Fetches, storeVars,
         worldVars
<1>2. CASE FetchTail(job) \/ FetchNoneSelected(job)
  <2>1. \A d \in Dialogs : cursor[d] <= cursor'[d]
    BY <1>0, <1>2, SelectTyped, CursorGrows DEF FetchTail, FetchNoneSelected
  <2> QED BY <1>2, <2>1 DEF FetchTail, FetchNoneSelected, Fetches, worldVars
<1> QED
  BY <1>1, <1>2
     DEF DialogStep, SkipNotDue, SkipNothingNew, FetchNothing, FetchFails,
         FetchPeerNotFound, storeVars

LEMMA InboundCycleOrdered ==
  ASSUME Typed, Typed', OrderInv, InboundCycle PROVE OrderInv'
<1>0. /\ minted \in Nat /\ \A d \in Dialogs : cursor[d] \in Nat
  BY OrderRanges
<1>1. CASE \E job \in todo : FetchBatch(job)
  BY <1>1, FetchOrdered
<1>2. CASE \E job \in todo : DialogStep(job) /\ ~FetchBatch(job)
  <2>1. /\ UNCHANGED <<mailU, ledger, minted, sent>> /\ pc' = "pick"
        /\ \A d \in Dialogs : cursor[d] <= cursor'[d]
    BY <1>2, OtherDialogStep
  <2> QED BY <1>0, <2>1, OrderFramed
<1>3. CASE \E k \in rest : PartStep(k) /\ MailReachesU(Part(k))
  <2>1. PICK k \in rest : PartStep(k) /\ MailReachesU(Part(k))
    BY <1>3
  <2>2. CASE SendRefused(k)
    <3>1. minted' = minted /\ minted' = minted + 1
      BY <2>1, <2>2 DEF SendRefused, MailReachesU, worldVars
    <3> QED BY <1>0, <3>1
  <2> QED BY <2>1, <2>2, PartOrdered DEF PartStep
<1>4. CASE \E k \in rest : PartStep(k) /\ ~MailReachesU(Part(k))
  <2>1. UNCHANGED <<mailU, ledger, minted, cursor>> /\ sent' = {}
        /\ pc' \notin BatchPoints
    BY <1>4 DEF PartStep, SendPart, SendFails, SendRefused, DropBatch, ForgetLocals,
                ProcessEnds, Goto, storeVars, worldVars
  <2> QED BY <1>0, <2>1, OrderFramed
<1>5. CASE Commit
  BY <1>5, CommitOrdered
<1>6. CASE DownloadMedia
  <2>1. UNCHANGED <<mailU, ledger, minted, cursor, batchVars>> /\ pc \in BatchPoints
    BY <1>6 DEF DownloadMedia, Goto, storeVars, worldVars, localVars
  <2> QED BY <1>0, <2>1, OrderFramed
<1>7. CASE \/ StartInbound \/ ListDialogs \/ ListFails \/ EndInbound
           \/ DownloadFails \/ DownloadPeerNotFound \/ InboundSessionInvalid
  <2>1. /\ UNCHANGED <<mailU, ledger, minted, cursor>>
        /\ pc' \notin BatchPoints
        /\ sent' = {} \/ UNCHANGED sent
    BY <1>7 DEF StartInbound, ListDialogs, ListFails, EndInbound, DownloadFails,
                DownloadPeerNotFound, InboundSessionInvalid, Invalidate, DropBatch,
                ForgetLocals, Goto, storeVars, worldVars, localVars
  <2> QED BY <1>0, <2>1, OrderFramed
<1> QED BY <1>1, <1>2, <1>3, <1>4, <1>5, <1>6, <1>7 DEF InboundCycle

(* The steps outside the cycle neither mail a batch nor book one. *)
LEMMA SharedOrdered ==
  ASSUME Typed, Typed', OrderInv,
         \/ (Handler \/ Lifecycle \/ World) /\ UNCHANGED <<localVars, base>>
         \/ InboundEnds
  PROVE  OrderInv'
<1>0. minted \in Nat /\ minted' \in Nat /\ \A d \in Dialogs : cursor[d] \in Nat
  BY OrderRanges DEF Typed, InboundTypeOK, ServiceTypeOK
<1>r. ret \notin BatchPoints
  BY DEF Typed, InboundTypeOK, ServiceTypeOK
<1>1. UNCHANGED <<mailU, ledger, cursor>> /\ minted <= minted'
  BY <1>0 DEF Handler, MarkInvalid, SendSessionNotice, SessionNoticeFails,
              RecordSessionNotice, MarkNotified, NoticeReachesU, Lifecycle, Start,
              Setup, SetupInterrupted, World, MessageArrives, Revoke, TimePasses,
              BackoffElapses, InboundEnds, Crash, Stop, storeVars, worldVars
<1>2. sent' = {} \/ UNCHANGED sent
  BY DEF InboundEnds, ForgetLocals, localVars
<1>3. pc' \in BatchPoints => pc \in BatchPoints /\ UNCHANGED batchVars
  BY <1>r DEF Handler, MarkInvalid, SendSessionNotice, SessionNoticeFails,
              RecordSessionNotice, MarkNotified, Lifecycle, Start, Setup,
              SetupInterrupted, World, MessageArrives, Revoke, TimePasses,
              InboundEnds, Crash, Stop, ProcessEnds, Goto, localVars
<1> QED BY <1>0, <1>1, <1>2, <1>3, OrderFramed

LEMMA InitOrdered == InboundInit => OrderInv
BY DEF InboundInit, ServiceInit, StoreInit, LocalInit, OrderInv, MidsFresh,
       PartsOrdered, LedgerBelowCursor, LedgerChronological

LEMMA InboundNextOrdered ==
  Typed /\ OrderInv /\ [InboundNext]_inboundVars => OrderInv'
<1> SUFFICES ASSUME Typed, OrderInv, [InboundNext]_inboundVars PROVE OrderInv'
  OBVIOUS
<1>t. Typed'
  BY InboundNextTyped
<1>1. CASE UNCHANGED inboundVars
  BY <1>1 DEF inboundVars, serviceVars, storeVars, worldVars, localVars, OrderInv,
              MidsFresh, PartsOrdered, LedgerBelowCursor, LedgerChronological, LedgerIds
<1> QED BY <1>t, <1>1, InboundCycleOrdered, SharedOrdered DEF InboundNext

(* README: "Telegram messages are processed chronologically".  Of two      *)
(* mails of a dialog in the ledger the later carries only later messages,  *)
(* for any number of dialogs, messages, parts, failures and restarts.      *)
THEOREM Chronological == InboundSpec => []LedgerChronological
<1> DEFINE Inv == Typed /\ OrderInv
<1>1. InboundInit => Inv
  BY InitTyped, InitOrdered
<1>2. Inv /\ [InboundNext]_inboundVars => Inv'
  BY InboundNextTyped, InboundNextOrdered
<1>3. Inv => LedgerChronological
  BY DEF OrderInv
<1> QED BY <1>1, <1>2, <1>3, PTL DEF InboundSpec
---------------------------------------------------------------------------
(* The refinement.  The cycle implements Delivery while each backlog fits  *)
(* into one fetch: the batch in hand is then exactly what is wanted of the *)
(* run of messages that its commit will take.                              *)

Wanted(d) == {n \in Ids(d) : IsAddressed(d, n) /\ ~IsEcho(d, n)}

Got(d) == {n \in Ids(d) : Delivered(d, n)}

BatchExact ==
  pc \in BatchPoints =>
    /\ selected # {}
    /\ selected = {n \in Wanted(cur) : cursor[cur] < n /\ n <= high}

EchoInDialog == \A d \in Dialogs, n \in Nat : <<d, n>> \in echo => n \in Ids(d)

ExactInv == InboundInv /\ OrderInv /\ BatchExact /\ EchoInDialog

(* What a fetch selects, while the backlog fits. *)
LEMMA SelectExact ==
  ASSUME Typed, BacklogFits, NEW d \in Dialogs
  PROVE  Select(d) = {n \in Wanted(d) : cursor[d] < n /\ n <= Len(chat[d])}
<1>1. /\ cursor[d] \in Nat /\ Len(chat[d]) \in Nat /\ FetchLimit \in Nat
      /\ Len(chat[d]) - cursor[d] <= FetchLimit
  BY InboundAssumption
     DEF Typed, InboundTypeOK, ServiceTypeOK, StoreTypeOK, BacklogFits
<1>2. \A n \in Ids(d) : n > cursor[d] => n > Len(chat[d]) - FetchLimit
  BY <1>1 DEF Ids
<1> QED BY <1>1, <1>2 DEF Select, FetchSince, Wanted, Ids

(* Arrivals do not change what is wanted of the run in hand. *)
LEMMA ExactFramed ==
  ASSUME Typed, BatchKept, BatchExact, ChatGrows, pc \in BatchPoints,
         UNCHANGED <<echo, cursor, cur, selected, high>>
  PROVE  BatchExact'
<1>1. PICK d \in Dialogs : d = cur
  BY DEF Typed, InHand
<1>2. /\ Len(chat[d]) \in Nat /\ Len(chat[d]) <= Len(chat'[d])
      /\ high \in Nat /\ high <= Len(chat[d])
  BY <1>1 DEF ChatGrows, BatchKept, Typed, InboundTypeOK, ServiceTypeOK, LocalTypeOK
<1>3. /\ Wanted(d) = {n \in Ids(d) : chat[d][n] # "ignored" /\ <<d, n>> \notin echo}
      /\ Wanted(d)' = {n \in Ids(d)' : chat'[d][n] # "ignored" /\ <<d, n>> \notin echo}
  BY DEF Wanted, IsAddressed, IsEcho
<1>4. \A n : n <= high => (n \in Wanted(d) <=> n \in Wanted(d)')
  <2>1. \A n : n <= high => (n \in Ids(d) <=> n \in Ids(d)')
    <3>1. Len(chat'[d]) \in Int \/ Ids(d)' = Ids(d)'
      OBVIOUS
    <3> QED BY <1>2 DEF Ids
  <2>2. \A n \in Ids(d) : chat'[d][n] = chat[d][n]
    BY DEF ChatGrows
  <2> QED BY <1>3, <2>1, <2>2
<1>5. selected # {} /\ selected = {n \in Wanted(d) : cursor[d] < n /\ n <= high}
  BY <1>1 DEF BatchExact
<1>6. selected' = {n \in Wanted(d)' : cursor'[d] < n /\ n <= high'}
  BY <1>4, <1>5
<1>7. Wanted(cur)' = Wanted(d)'
  BY <1>1 DEF Wanted, Ids, IsAddressed, IsEcho
<1> QED BY <1>1, <1>5, <1>6, <1>7 DEF BatchExact

LEMMA CycleLeavesEcho == InboundCycle => UNCHANGED echo
BY DEF InboundCycle, StartInbound, ListDialogs, ListFails, EndInbound, DialogStep,
       SkipNotDue, SkipNothingNew, FetchNothing, FetchTail, FetchNoneSelected,
       FetchBatch, FetchFails, FetchPeerNotFound, DownloadMedia, DownloadFails,
       DownloadPeerNotFound, PartStep, SendPart, SendFails, SendRefused, Commit,
       InboundSessionInvalid, storeVars

LEMMA EchoStaysInDialog ==
  ASSUME EchoInDialog, ChatGrows, UNCHANGED echo, Typed, Typed' PROVE EchoInDialog'
BY DEF EchoInDialog, ChatGrows, Ids, Typed, InboundTypeOK, ServiceTypeOK

LEMMA CycleExact ==
  ASSUME InboundInv, BatchExact, BacklogFits, InboundCycle PROVE BatchExact'
<1>0. Typed /\ ChatGrows /\ UNCHANGED <<chat, echo>>
  BY CycleLeavesChats, CycleLeavesEcho
     DEF InboundInv, ChatGrows, Typed, InboundTypeOK, ServiceTypeOK
<1>1. CASE \E job \in todo : FetchBatch(job)
  <2>1. PICK job \in todo : FetchBatch(job)
    BY <1>1
  <2>2. PICK d \in Dialogs : d = job.dialog
    BY <1>0 DEF Typed, InboundTypeOK, LocalTypeOK
  <2>3. /\ UNCHANGED <<cursor, chat, echo>>
        /\ cur' = d /\ selected' = Select(d) /\ high' = Len(chat[d]) /\ Select(d) # {}
    BY <1>0, <2>1, <2>2 DEF FetchBatch, storeVars
  <2>4. Wanted(cur)' = Wanted(d)
    BY <2>3 DEF Wanted, Ids, IsAddressed, IsEcho
  <2> QED BY <1>0, <2>3, <2>4, SelectExact DEF BatchExact
<1>2. CASE DownloadMedia \/ \E k \in rest : SendPart(k)
  <2>1. pc \in BatchPoints /\ UNCHANGED <<cursor, cur, selected, high>>
    BY <1>2 DEF DownloadMedia, SendPart, Goto, storeVars, localVars
  <2> QED BY <1>0, <2>1, ExactFramed DEF InboundInv
<1>3. CASE \/ StartInbound \/ ListDialogs \/ ListFails \/ EndInbound
           \/ \E job \in todo : DialogStep(job) /\ ~FetchBatch(job)
           \/ DownloadFails \/ DownloadPeerNotFound
           \/ \E k \in rest : SendFails(k) \/ SendRefused(k)
           \/ Commit \/ InboundSessionInvalid
  <2>1. pc' \notin BatchPoints
    BY <1>0, <1>3, OtherDialogStep
       DEF StartInbound, ListDialogs, ListFails, EndInbound, DownloadFails,
           DownloadPeerNotFound, SendFails, SendRefused, Commit,
           InboundSessionInvalid, Invalidate, ProcessEnds, Goto
  <2> QED BY <2>1 DEF BatchExact
<1> QED BY <1>1, <1>2, <1>3 DEF InboundCycle, PartStep

(* The steps outside the cycle. *)
LEMMA SharedExact ==
  ASSUME Typed, BatchKept, BatchExact,
         \/ (Handler \/ Lifecycle \/ World) /\ UNCHANGED <<localVars, base>>
         \/ InboundEnds
  PROVE  BatchExact' /\ UNCHANGED echo /\ ChatGrows
<1>r. ret \notin BatchPoints
  BY DEF Typed, InboundTypeOK, ServiceTypeOK
<1>1. UNCHANGED <<echo, cursor>> /\ ChatGrows
  <2>1. UNCHANGED echo
    BY DEF Handler, MarkInvalid, SendSessionNotice, SessionNoticeFails,
           RecordSessionNotice, MarkNotified, Lifecycle, Start, Setup,
           SetupInterrupted, World, MessageArrives, Revoke, TimePasses,
           BackoffElapses, InboundEnds, Crash, Stop, storeVars
  <2> QED BY <2>1, SharedGrows DEF InboundEnds
<1>2. pc' \in BatchPoints => pc \in BatchPoints /\ UNCHANGED batchVars
  BY <1>r DEF Handler, MarkInvalid, SendSessionNotice, SessionNoticeFails,
              RecordSessionNotice, MarkNotified, Lifecycle, Start, Setup,
              SetupInterrupted, World, MessageArrives, Revoke, TimePasses,
              InboundEnds, Crash, Stop, ProcessEnds, Goto, localVars
<1> QED BY <1>1, <1>2, ExactFramed DEF BatchExact

LEMMA InboundNextExact ==
  ExactInv /\ BacklogFits /\ [InboundNext]_inboundVars => ExactInv'
<1> SUFFICES ASSUME ExactInv, BacklogFits, [InboundNext]_inboundVars PROVE ExactInv'
  OBVIOUS
<1> USE DEF ExactInv
<1>1. InboundInv' /\ OrderInv'
  BY InboundNextKeeps, InboundNextOrdered DEF InboundInv
<1>2. CASE InboundCycle
  <2>1. ChatGrows /\ UNCHANGED echo
    BY <1>2, CycleLeavesChats, CycleLeavesEcho
       DEF ChatGrows, InboundInv, Typed, InboundTypeOK, ServiceTypeOK
  <2> QED BY <1>1, <1>2, <2>1, CycleExact, EchoStaysInDialog DEF InboundInv
<1>3. CASE UNCHANGED inboundVars
  <2>1. UNCHANGED <<chat, echo, cursor, pc, cur, selected, high>>
    BY <1>3 DEF inboundVars, serviceVars, storeVars, worldVars, localVars
  <2> QED BY <1>1, <2>1 DEF BatchExact, EchoInDialog, Wanted, Ids, IsAddressed, IsEcho
<1> QED BY <1>1, <1>2, <1>3, SharedExact, EchoStaysInDialog DEF InboundNext, InboundInv
LEMMA InitExact == InboundInit => ExactInv
BY InitSkipsNothing, InitOrdered
   DEF InboundInit, ServiceInit, StoreInit, ExactInv, BatchExact, EchoInDialog

(* The variables of Delivery, as functions of those of the cycle. *)
Lasts == [d \in Dialogs |-> Len(chat[d])]
Wants == [d \in Dialogs |-> Wanted(d)]
Gots == [d \in Dialogs |-> Got(d)]

LEMMA PromiseStutters ==
  ASSUME UNCHANGED <<Lasts, Wants, cursor, Gots>>
  PROVE  UNCHANGED Promise!vars
BY DEF Promise!vars, Lasts, Wants, Gots, Wanted, Got

LEMMA PromiseArrives ==
  ASSUME NEW d \in Dialogs, NEW isWanted \in BOOLEAN,
         Lasts' = [Lasts EXCEPT ![d] = @ + 1],
         Wants' = [Wants EXCEPT ![d] = @ \cup {n \in {Lasts[d] + 1} : isWanted}],
         UNCHANGED <<cursor, Gots>>
  PROVE  Promise!Arrive(d, isWanted)
BY DEF Promise!Arrive, Lasts, Wants, Gots, Wanted, Got

LEMMA PromiseStarts ==
  ASSUME NEW d \in Dialogs, NEW h, BootstrapMode = "tail", cursor[d] = 0,
         cursor' = [cursor EXCEPT ![d] = h],
         UNCHANGED <<Lasts, Wants, Gots>>
  PROVE  Promise!StartAfter(d, h)
BY DEF Promise!StartAfter, Lasts, Wants, Gots, Wanted, Got

LEMMA PromiseTakes ==
  ASSUME NEW d \in Dialogs, NEW h,
         cursor' = [cursor EXCEPT ![d] = h],
         Gots' = [Gots EXCEPT ![d] = @ \cup {n \in Wants[d] : cursor[d] < n /\ n <= h}],
         UNCHANGED <<Lasts, Wants>>
  PROVE  Promise!Take(d, h)
BY DEF Promise!Take, Lasts, Wants, Gots, Wanted, Got

(* A mail that is not in the ledger delivers nothing. *)
LEMMA GotFramed ==
  ASSUME Typed, MidsFresh, UNCHANGED <<chat, ledger>>,
         \/ UNCHANGED mailU
         \/ \E m : mailU' = mailU \cup {m} /\ m.mid = minted + 1
  PROVE  UNCHANGED Gots
<1>1. minted + 1 \notin LedgerIds /\ LedgerIds' = LedgerIds
  <2>1. \A row \in ledger : row.mid \in Nat /\ row.mid <= minted /\ minted \in Nat
    BY OrderRanges DEF MidsFresh
  <2>2. \A row \in ledger : row.mid # minted + 1
    BY <2>1
  <2> QED BY <2>2 DEF LedgerIds
<1>2. \A m \in mailU' : m.mid \in LedgerIds => m \in mailU
  BY <1>1
<1>3. mailU \subseteq mailU'
  OBVIOUS
<1>4. ASSUME NEW d \in Dialogs, NEW n
      PROVE  Delivered(d, n)' <=> Delivered(d, n)
  BY <1>1, <1>2, <1>3 DEF Delivered
<1>5. ASSUME NEW d \in Dialogs PROVE Got(d)' = Got(d)
  BY <1>4 DEF Got, Ids
<1> QED BY <1>5 DEF Gots

LEMMA WantsFramed ==
  ASSUME UNCHANGED <<chat, echo>> PROVE UNCHANGED <<Lasts, Wants>>
BY DEF Lasts, Wants, Wanted, Ids, IsAddressed, IsEcho
(* A message arrives: it is new, so it is no post of the bridge yet and in *)
(* no mail of the ledger.                                                  *)
LEMMA ArrivalImplements ==
  ASSUME ExactInv, NEW d \in Dialogs, NEW kind \in Kinds, MessageArrives(d, kind)
  PROVE  Promise!Arrive(d, kind # "ignored")
<1> DEFINE new == Len(chat[d]) + 1
<1>0. /\ Typed /\ CursorInDialog /\ LedgerBelowCursor /\ EchoInDialog
      /\ chat \in [Dialogs -> Seq(MsgKinds)]
      /\ chat' = [chat EXCEPT ![d] = Append(@, kind)]
      /\ UNCHANGED <<cursor, ledger, mailU, echo>>
  BY DEF ExactInv, InboundInv, OrderInv, Typed, InboundTypeOK, ServiceTypeOK,
         MessageArrives, storeVars, tableVars
<1>1. /\ Len(chat[d]) \in Nat
      /\ Len(chat'[d]) = new
      /\ chat'[d][new] = kind
      /\ \A n \in Ids(d) : chat'[d][n] = chat[d][n]
      /\ \A e \in Dialogs : e # d => chat'[e] = chat[e]
  BY <1>0 DEF Ids
<1>2. Ids(d)' = Ids(d) \cup {new} /\ new \notin Ids(d) /\ new \in Nat
  BY <1>1 DEF Ids
<1>3. <<d, new>> \notin echo
  BY <1>0, <1>2 DEF EchoInDialog
<1>4. ~Delivered(d, new)
  <2>1. cursor[d] < new
    BY <1>0, <1>1 DEF CursorInDialog, Typed, InboundTypeOK, ServiceTypeOK, StoreTypeOK
  <2>2. cursor[d] \in Nat
    BY <1>0 DEF Typed, InboundTypeOK, ServiceTypeOK, StoreTypeOK
  <2>3. ~ (new <= cursor[d])
    BY <1>2, <2>1, <2>2
  <2> QED BY <1>0, <2>3 DEF LedgerBelowCursor, Delivered
<1>5. Wanted(d)' = Wanted(d) \cup {n \in {new} : kind # "ignored"}
  BY <1>0, <1>1, <1>2, <1>3 DEF Wanted, IsAddressed, IsEcho
<1>6. Got(d)' = Got(d)
  BY <1>0, <1>2, <1>4 DEF Got, Delivered, LedgerIds
<1>7. ASSUME NEW e \in Dialogs, e # d
      PROVE  Wanted(e)' = Wanted(e) /\ Got(e)' = Got(e)
  BY <1>0, <1>1, <1>7
     DEF Wanted, Got, Ids, IsAddressed, IsEcho, Delivered, LedgerIds
<1>8. /\ Lasts' = [Lasts EXCEPT ![d] = @ + 1]
      /\ Lasts[d] + 1 = new
  BY <1>1 DEF Lasts
<1>9. Wants' = [Wants EXCEPT ![d] = @ \cup {n \in {Lasts[d] + 1} : kind # "ignored"}]
  BY <1>5, <1>7, <1>8 DEF Wants
<1>10. Gots' = Gots
  BY <1>6, <1>7 DEF Gots
<1>11. (kind # "ignored") \in BOOLEAN
  OBVIOUS
<1> QED BY <1>0, <1>8, <1>9, <1>10, <1>11, PromiseArrives

(* A fetch that moves the cursor over messages of which none is selected.  *)
LEMMA SkipImplements ==
  ASSUME ExactInv, BacklogFits, NEW job \in todo,
         FetchTail(job) \/ FetchNoneSelected(job)
  PROVE  Promise!Next
<1>0. PICK d \in Dialogs : d = job.dialog
  BY DEF ExactInv, InboundInv, Typed, InboundTypeOK, LocalTypeOK
<1>1. /\ Typed /\ MidsFresh
      /\ cursor \in [Dialogs -> Nat] /\ Len(chat[d]) \in Nat
  BY DEF ExactInv, InboundInv, OrderInv, Typed, InboundTypeOK, ServiceTypeOK,
         StoreTypeOK
<1>2. /\ UNCHANGED <<chat, echo, ledger, mailU>>
      /\ AdvanceCursor(d, Len(chat[d]))
      /\ FetchSince(d) # {}
  BY <1>0 DEF FetchTail, FetchNoneSelected, worldVars
<1>3. UNCHANGED <<Lasts, Wants, Gots>>
  BY <1>1, <1>2, GotFramed, WantsFramed
<1>4. cursor[d] < Len(chat[d])
  BY <1>1, <1>2 DEF FetchSince, Ids
<1>5. cursor' = [cursor EXCEPT ![d] = Len(chat[d])]
  <2>1. AtLeast(cursor[d], Len(chat[d])) = Len(chat[d])
    BY <1>1, <1>4 DEF AtLeast
  <2> QED BY <1>2, <2>1 DEF AdvanceCursor
<1>6. Len(chat[d]) \in cursor[d] + 1 .. Lasts[d]
  BY <1>1, <1>4 DEF Lasts
<1>7. CASE FetchTail(job)
  <2>1. BootstrapMode = "tail" /\ cursor[d] = 0
    BY <1>0, <1>7 DEF FetchTail, Bootstraps
  <2>2. Promise!StartAfter(d, Len(chat[d]))
    BY <1>3, <1>5, <2>1, PromiseStarts
  <2> QED BY <1>6, <2>2 DEF Promise!Next, Lasts
<1>8. CASE FetchNoneSelected(job)
  <2>1. Select(d) = {}
    BY <1>0, <1>8 DEF FetchNoneSelected
  <2>2. {n \in Wants[d] : cursor[d] < n /\ n <= Len(chat[d])} = {}
    BY <1>1, <2>1, SelectExact DEF Wants
  <2>3. Gots' = [Gots EXCEPT ![d] = @ \cup
                   {n \in Wants[d] : cursor[d] < n /\ n <= Len(chat[d])}]
    BY <1>3, <2>2 DEF Gots
  <2>4. Promise!Take(d, Len(chat[d]))
    BY <1>3, <1>5, <2>3, PromiseTakes
  <2> QED BY <1>6, <2>4 DEF Promise!Next, Lasts
<1> QED BY <1>7, <1>8

(* The commit hands over what was wanted of the run it takes. *)
LEMMA CommitImplements ==
  ASSUME ExactInv, Commit
  PROVE  Promise!Next
<1>0. PICK d \in Dialogs : d = cur
  BY DEF ExactInv, InboundInv, Commit, Goto, Typed, InHand
<1>1. /\ Typed /\ OrderInv /\ BatchKept /\ BatchExact
      /\ cursor \in [Dialogs -> Nat] /\ Len(chat[d]) \in Nat /\ high \in Nat
  <2>1. Typed /\ OrderInv /\ BatchKept /\ BatchExact
    BY DEF ExactInv, InboundInv
  <2> QED BY <2>1, SelectTyped, OrderRanges
<1>2. /\ pc = "commit"
      /\ ledger' = ledger \cup {[mid |-> x, dialog |-> d] : x \in sent}
      /\ AdvanceCursor(d, high)
      /\ UNCHANGED <<chat, echo, mailU>>
  BY <1>0 DEF Commit, Goto, CommitDelivery, worldVars
<1>3. /\ high <= Len(chat[d])
      /\ selected # {}
      /\ selected = {n \in Wanted(d) : cursor[d] < n /\ n <= high}
      /\ \A n \in selected : \E m \in mailU : m.mid \in sent /\ m.dialog = d /\ n \in m.msgs
  BY <1>0, <1>1, <1>2 DEF BatchKept, BatchExact
<1>4. \A m \in mailU : m.mid \in sent => m.dialog = d /\ m.msgs \subseteq selected
  BY <1>0, <1>1, <1>2 DEF OrderInv, PartsOrdered
<1>5. cursor[d] < high
  <2>1. PICK n \in selected : n \in Nat /\ cursor[d] < n /\ n <= high
    BY <1>3 DEF Wanted, Ids
  <2> QED BY <1>1, <2>1
<1>6. cursor' = [cursor EXCEPT ![d] = high]
  <2>1. AtLeast(cursor[d], high) = high
    BY <1>1, <1>5 DEF AtLeast
  <2> QED BY <1>2, <2>1 DEF AdvanceCursor
<1>7. LedgerIds' = LedgerIds \cup sent
  <2>1. LedgerIds' = {row.mid : row \in ledger'}
    BY DEF LedgerIds
  <2>2. \A x \in sent : [mid |-> x, dialog |-> d] \in ledger'
    BY <1>2
  <2>3. \A row \in ledger' : row \in ledger \/ row.mid \in sent
    BY <1>2
  <2>4. ledger \subseteq ledger'
    BY <1>2
  <2>5. sent \subseteq LedgerIds'
    <3>1. \A x \in sent : [mid |-> x, dialog |-> d].mid = x
      OBVIOUS
    <3> QED BY <2>1, <2>2, <3>1
  <2> QED BY <2>1, <2>3, <2>4, <2>5 DEF LedgerIds
<1>8. \A n : Delivered(d, n)' <=> Delivered(d, n) \/ n \in selected
  BY <1>2, <1>3, <1>4, <1>7 DEF Delivered
<1>9. \A e \in Dialogs : e # d => \A n : Delivered(e, n)' <=> Delivered(e, n)
  BY <1>2, <1>4, <1>7 DEF Delivered
<1>10. Got(d)' = Got(d) \cup {n \in Wants[d] : cursor[d] < n /\ n <= high}
  <2>1. selected \subseteq Ids(d) /\ Ids(d)' = Ids(d)
    BY <1>2, <1>3 DEF Wanted, Ids
  <2>2. Got(d)' = Got(d) \cup selected
    BY <1>8, <2>1 DEF Got
  <2> QED BY <1>3, <2>2 DEF Wants
<1>11. \A e \in Dialogs : e # d => Got(e)' = Got(e)
  BY <1>2, <1>9 DEF Got, Ids
<1>12. Gots' = [Gots EXCEPT ![d] = @ \cup
                  {n \in Wants[d] : cursor[d] < n /\ n <= high}]
  BY <1>10, <1>11 DEF Gots
<1>13. Promise!Take(d, high)
  BY <1>2, <1>6, <1>12, WantsFramed, PromiseTakes
<1>14. high \in cursor[d] + 1 .. Lasts[d]
  BY <1>1, <1>3, <1>5 DEF Lasts
<1> QED BY <1>13, <1>14 DEF Promise!Next, Lasts

(* All the other steps of the cycle. *)
LEMMA OtherCycleStepStutters ==
  ASSUME ExactInv, InboundCycle, ~Commit,
         \A job \in todo : ~FetchTail(job) /\ ~FetchNoneSelected(job)
  PROVE  UNCHANGED Promise!vars
<1>0. Typed /\ MidsFresh
  BY DEF ExactInv, InboundInv, OrderInv
<1>1. UNCHANGED <<chat, echo>>
  BY CycleLeavesChats, CycleLeavesEcho
<1>2. /\ UNCHANGED <<cursor, ledger>>
      /\ \/ UNCHANGED mailU
         \/ \E m : mailU' = mailU \cup {m} /\ m.mid = minted + 1
  <2>1. CASE \E k \in rest : PartStep(k)
    <3>1. PICK k \in rest : PartStep(k)
      BY <2>1
    <3>2. UNCHANGED <<cursor, ledger>>
      BY <3>1 DEF PartStep, SendPart, SendFails, SendRefused, storeVars
    <3>3. \/ UNCHANGED mailU
          \/ mailU' = mailU \cup {[mid |-> minted + 1, dialog |-> cur, msgs |-> Part(k)]}
      BY <3>1 DEF PartStep, SendPart, SendFails, SendRefused, MailReachesU, worldVars
    <3> QED BY <3>2, <3>3
  <2>2. CASE \/ StartInbound \/ ListDialogs \/ ListFails \/ EndInbound
             \/ \E job \in todo : DialogStep(job)
             \/ DownloadMedia \/ DownloadFails \/ DownloadPeerNotFound
             \/ InboundSessionInvalid
    BY <2>2
       DEF StartInbound, ListDialogs, ListFails, EndInbound, DialogStep, SkipNotDue,
           SkipNothingNew, FetchNothing, FetchBatch, FetchFails, FetchPeerNotFound,
           DownloadMedia, DownloadFails, DownloadPeerNotFound,
           InboundSessionInvalid, storeVars, worldVars
  <2> QED BY <2>1, <2>2 DEF InboundCycle
<1> QED BY <1>0, <1>1, <1>2, GotFramed, WantsFramed, PromiseStutters

LEMMA SharedImplements ==
  ASSUME ExactInv,
         \/ (Handler \/ Lifecycle \/ World) /\ UNCHANGED <<localVars, base>>
         \/ InboundEnds
  PROVE  Promise!Next \/ UNCHANGED Promise!vars
<1>0. Typed /\ MidsFresh
  BY DEF ExactInv, InboundInv, OrderInv
<1>1. CASE \E d \in Dialogs, kind \in Kinds : MessageArrives(d, kind)
  <2>1. PICK d \in Dialogs, kind \in Kinds : MessageArrives(d, kind)
    BY <1>1
  <2>2. Promise!Arrive(d, kind # "ignored") /\ (kind # "ignored") \in BOOLEAN
    BY <2>1, ArrivalImplements
  <2> QED BY <2>2 DEF Promise!Next
<1>2. CASE Handler \/ Lifecycle \/ Revoke \/ TimePasses \/ Crash \/ Stop
  <2>1. UNCHANGED <<chat, echo, cursor, ledger, mailU>>
    BY <1>2
       DEF Handler, MarkInvalid, SendSessionNotice, SessionNoticeFails, NoticeReachesU,
           RecordSessionNotice, MarkNotified, Lifecycle, Start, Setup,
           SetupInterrupted, Revoke, TimePasses, BackoffElapses, Crash, Stop,
           storeVars, worldVars
  <2> QED BY <1>0, <2>1, GotFramed, WantsFramed, PromiseStutters
<1> QED BY <1>1, <1>2 DEF World, InboundEnds

LEMMA InboundNextImplements ==
  ASSUME ExactInv, BacklogFits, [InboundNext]_inboundVars
  PROVE  [Promise!Next]_(Promise!vars)
<1>1. CASE UNCHANGED inboundVars
  <2>1. UNCHANGED <<chat, echo, cursor, ledger, mailU>> /\ Typed /\ MidsFresh
    BY <1>1
       DEF inboundVars, serviceVars, storeVars, worldVars, ExactInv, InboundInv, OrderInv
  <2> QED BY <2>1, GotFramed, WantsFramed, PromiseStutters
<1>2. CASE InboundCycle
  BY <1>2, SkipImplements, CommitImplements, OtherCycleStepStutters
<1> QED BY <1>1, <1>2, SharedImplements DEF InboundNext

(* The cycle with its process, its failures and its restarts keeps the     *)
(* promise of module Delivery: the messages of a dialog are taken in       *)
(* order, and all that are wanted of a run are handed over as the cursor   *)
(* passes it, as long as no backlog outgrows one fetch.                    *)
THEOREM CycleImplementsDelivery ==
  InboundSpec /\ []BacklogFits => ImplementsDelivery
<1>1. InboundInit => Promise!Init
  BY DEF InboundInit, ServiceInit, StoreInit, Promise!Init, Ids, Delivered
<1> QED
  BY <1>1, InitExact, InboundNextExact, InboundNextImplements, PTL
     DEF InboundSpec, ImplementsDelivery, Promise!Spec
---------------------------------------------------------------------------
(* How often a message is mailed, and U told of the session.               *)

(* A step of the cycle meets one fault at most.                            *)
LEMMA FaultsCount ==
  ASSUME Typed, InboundCycle
  PROVE  /\ faults \in Nat /\ faults' \in Nat /\ faults <= faults'
         /\ faults' = faults \/ faults' = faults + 1
<1> USE DEF worldVars
<1>0. faults \in Nat
  BY DEF Typed, InboundTypeOK, ServiceTypeOK
<1>1. CASE StartInbound \/ ListDialogs \/ ListFails \/ EndInbound
  BY <1>0, <1>1 DEF StartInbound, ListDialogs, ListFails, EndInbound, Fault
<1>2. CASE \E job \in todo : DialogStep(job)
  BY <1>0, <1>2
     DEF DialogStep, SkipNotDue, SkipNothingNew, FetchNothing, FetchTail,
         FetchNoneSelected, FetchBatch, FetchFails, FetchPeerNotFound, Fault
<1>3. CASE \/ DownloadMedia \/ DownloadFails \/ DownloadPeerNotFound \/ Commit
           \/ InboundSessionInvalid
  BY <1>0, <1>3 DEF DownloadMedia, DownloadFails, DownloadPeerNotFound, Commit,
                    InboundSessionInvalid, Fault
<1>4. CASE \E k \in rest : PartStep(k)
  BY <1>0, <1>4 DEF PartStep, SendPart, SendFails, SendRefused, Fault
<1> QED BY <1>1, <1>2, <1>3, <1>4 DEF InboundCycle

(* The batch in hand is of messages of its dialog. *)
BatchInChat == pc \in BatchPoints => selected \subseteq Ids(cur)

LEMMA BatchStaysInChat ==
  ASSUME Typed, BatchInChat, ChatGrows,
         pc' \in BatchPoints => pc \in BatchPoints /\ UNCHANGED <<cur, selected>>
  PROVE  BatchInChat'
<1> SUFFICES ASSUME pc' \in BatchPoints PROVE selected \subseteq Ids(cur)'
  BY DEF BatchInChat
<1>1. PICK d \in Dialogs : d = cur
  BY DEF Typed, InHand
<1>2. Len(chat[d]) \in Nat /\ Len(chat[d]) <= Len(chat'[d]) /\ cur' = d
  BY <1>1 DEF ChatGrows, Typed, InboundTypeOK, ServiceTypeOK
<1> QED BY <1>1, <1>2 DEF BatchInChat, Ids

LEMMA CycleBatchInChat ==
  ASSUME Typed, BatchInChat, InboundCycle PROVE BatchInChat'
<1>0. ChatGrows /\ UNCHANGED chat
  BY CycleLeavesChats DEF ChatGrows, Typed, InboundTypeOK, ServiceTypeOK
<1>1. CASE \E job \in todo : FetchBatch(job)
  <2>1. PICK job \in todo : FetchBatch(job)
    BY <1>1
  <2>2. job.dialog \in Dialogs
    BY DEF Typed, InboundTypeOK, LocalTypeOK
  <2> QED BY <1>0, <2>1, <2>2, SelectTyped DEF FetchBatch, BatchInChat, Ids
<1>2. CASE ~\E job \in todo : FetchBatch(job)
  <2>1. CASE \E job \in todo : DialogStep(job)
    BY <1>2, <2>1, OtherDialogStep DEF BatchInChat
  <2>2. CASE (\E k \in rest : PartStep(k)) \/ DownloadMedia
    <3>1. pc' \in BatchPoints => pc \in BatchPoints /\ UNCHANGED <<cur, selected>>
      BY <2>2 DEF PartStep, SendPart, SendFails, SendRefused, ProcessEnds,
                  DownloadMedia, Goto, localVars
    <3> QED BY <1>0, <3>1, BatchStaysInChat
  <2>3. CASE \/ StartInbound \/ ListDialogs \/ ListFails \/ EndInbound
             \/ DownloadFails \/ DownloadPeerNotFound \/ Commit
             \/ InboundSessionInvalid
    BY <2>3 DEF StartInbound, ListDialogs, ListFails, EndInbound, DownloadFails,
                DownloadPeerNotFound, Commit, InboundSessionInvalid, Invalidate,
                Goto, BatchInChat
  <2> QED BY <2>1, <2>2, <2>3 DEF InboundCycle
<1> QED BY <1>1, <1>2

(* No message is refused for good: a refusal ends the process, and the     *)
(* restart repeats the parts before it without a fault.                    *)
NoneRefused == \A d \in Dialogs : \A n \in Ids(d) : chat[d][n] # "refused"

(* The message went out with a part of the batch in hand. *)
InSentPart(d, n) == pc \in {"send", "commit"} /\ cur = d /\ n \in selected \ rest

(* A message that the cursor has not passed may go out once more, unless   *)
(* it has just done so: then a fault must come first.                      *)
CopiesCounted ==
  \A d \in Dialogs, n \in Nat :
    /\ IsFiniteSet(Copies(d, n))
    /\ Cardinality(Copies(d, n)) <= 1 + faults
    /\ n > cursor[d] /\ ~InSentPart(d, n) => Cardinality(Copies(d, n)) <= faults

LEMMA CopiesAreNumbers ==
  ASSUME Typed, CopiesCounted, NEW d \in Dialogs, NEW n \in Nat
  PROVE  /\ IsFiniteSet(Copies(d, n)) /\ Cardinality(Copies(d, n)) \in Nat
         /\ faults \in Nat /\ cursor[d] \in Nat
         /\ Cardinality(Copies(d, n)) <= 1 + faults
         /\ n > cursor[d] /\ ~InSentPart(d, n) => Cardinality(Copies(d, n)) <= faults
<1>1. IsFiniteSet(Copies(d, n))
  BY DEF CopiesCounted
<1> QED BY <1>1, FS_CardinalityType
        DEF CopiesCounted, Typed, InboundTypeOK, ServiceTypeOK, StoreTypeOK

(* A step that mails nothing, and gives up no part that is out without a   *)
(* fault or a cursor that passes it.                                       *)
LEMMA CopiesFramed ==
  ASSUME Typed, Typed', CopiesCounted, UNCHANGED mailU,
         \A d \in Dialogs : cursor[d] <= cursor'[d],
         \/ faults' = faults + 1
         \/ /\ faults' = faults
            /\ \A d \in Dialogs, n \in Nat :
                 InSentPart(d, n) => InSentPart(d, n)' \/ n <= cursor'[d]
  PROVE  CopiesCounted'
<1> SUFFICES ASSUME NEW d \in Dialogs, NEW n \in Nat
             PROVE  /\ IsFiniteSet(Copies(d, n))
                    /\ Cardinality(Copies(d, n)) <= 1 + faults'
                    /\ n > cursor'[d] /\ ~InSentPart(d, n)' =>
                         Cardinality(Copies(d, n)) <= faults'
  BY DEF CopiesCounted, Copies
<1>1. /\ cursor[d] \in Nat /\ cursor'[d] \in Nat /\ cursor[d] <= cursor'[d]
  BY DEF Typed, InboundTypeOK, ServiceTypeOK, StoreTypeOK
<1>2. \/ faults' = faults + 1
      \/ /\ faults' = faults
         /\ n > cursor'[d] /\ ~InSentPart(d, n)' => ~InSentPart(d, n)
  BY <1>1
<1> QED BY <1>1, <1>2, CopiesAreNumbers

(* A part goes out: its messages lie above the cursor and are in no other  *)
(* part of the batch.                                                      *)
LEMMA PartCounted ==
  ASSUME Typed, Typed', OrderInv, CopiesCounted, NEW k \in rest,
         SendPart(k) \/ SendFails(k)
  PROVE  CopiesCounted'
<1> DEFINE part == [mid |-> minted + 1, dialog |-> cur, msgs |-> Part(k)]
<1>0. part.dialog = cur /\ part.msgs = Part(k)
  OBVIOUS
<1>1. /\ pc = "send" /\ UNCHANGED cursor
      /\ mailU \subseteq mailU' /\ mailU' \subseteq mailU \cup {part}
  BY DEF SendPart, SendFails, MailReachesU, Goto, storeVars
<1>2. \/ /\ faults' = faults /\ UNCHANGED <<cur, selected>>
         /\ rest' = rest \ Part(k) /\ pc' \in {"send", "commit"}
      \/ faults' = faults + 1
  BY DEF SendPart, SendFails, Fault
<1> HIDE DEF part
<1>3. \A n \in Part(k) : n \in rest /\ n \in Nat /\ n > cursor[cur]
  BY <1>1, OrderRanges DEF Part, OrderInv, PartsOrdered
<1> SUFFICES ASSUME NEW d \in Dialogs, NEW n \in Nat
             PROVE  /\ IsFiniteSet(Copies(d, n)')
                    /\ Cardinality(Copies(d, n)') <= 1 + faults'
                    /\ n > cursor[d] /\ ~InSentPart(d, n)' =>
                         Cardinality(Copies(d, n)') <= faults'
  BY <1>1 DEF CopiesCounted
<1>4. CASE d = cur /\ n \in Part(k)
  <2>1. Copies(d, n)' \subseteq Copies(d, n) \cup {part}
    BY <1>1 DEF Copies
  <2>2. /\ IsFiniteSet(Copies(d, n)') /\ Cardinality(Copies(d, n)') \in Nat
        /\ Cardinality(Copies(d, n)') <= Cardinality(Copies(d, n)) + 1
    BY <2>1, OneMore, CopiesAreNumbers
  <2>3. n > cursor[d] /\ ~InSentPart(d, n)
    BY <1>3, <1>4 DEF InSentPart
  <2>4. /\ Cardinality(Copies(d, n)) \in Nat /\ faults \in Nat
        /\ Cardinality(Copies(d, n)) <= faults
    BY <2>3, CopiesAreNumbers
  <2>5. faults' = faults => InSentPart(d, n)'
    <3>1. n \in selected
      BY <1>3, <1>4, OrderRanges
    <3> QED BY <1>2, <1>4, <2>4, <3>1 DEF InSentPart
  <2> QED BY <1>2, <2>2, <2>4, <2>5
<1>5. CASE ~(d = cur /\ n \in Part(k))
  <2>1. Copies(d, n)' = Copies(d, n)
    BY <1>0, <1>1, <1>5 DEF Copies
  <2>2. faults' = faults => (~InSentPart(d, n)' => ~InSentPart(d, n))
    <3>1. faults # faults + 1
      BY DEF Typed, InboundTypeOK, ServiceTypeOK
    <3> QED BY <1>2, <3>1 DEF InSentPart
  <2> QED BY <1>2, <2>1, <2>2, CopiesAreNumbers
<1> QED BY <1>4, <1>5

LEMMA CycleCopies ==
  ASSUME Typed, Typed', OrderInv, BatchInChat, NoneRefused, CopiesCounted,
         InboundCycle
  PROVE  CopiesCounted'
<1>0. /\ \A d \in Dialogs : cursor[d] \in Nat
      /\ faults' = faults \/ faults' = faults + 1
  BY FaultsCount, OrderRanges
<1>1. CASE \E k \in rest : PartStep(k)
  <2>1. PICK k \in rest : PartStep(k)
    BY <1>1
  <2>2. ~SendRefused(k)
    <3> SUFFICES ASSUME SendRefused(k) PROVE FALSE
      OBVIOUS
    <3>1. PICK n \in Part(k) : chat[cur][n] = "refused"
      BY DEF SendRefused, Refused
    <3>2. n \in Ids(cur) /\ cur \in Dialogs
      BY <3>1, OrderRanges DEF SendRefused, Part, BatchInChat, Typed, InHand
    <3> QED BY <3>1, <3>2 DEF NoneRefused
  <2> QED BY <2>1, <2>2, PartCounted DEF PartStep
<1>2. CASE Commit
  <2>1. PICK d \in Dialogs : d = cur
    BY <1>2 DEF Commit, Goto, Typed, InHand
  <2>2. /\ AdvanceCursor(d, high) /\ pc = "commit"
        /\ UNCHANGED <<mailU, faults>>
    BY <1>2, <2>1 DEF Commit, CommitDelivery, Goto, worldVars
  <2>3. /\ \A e \in Dialogs : cursor[e] <= cursor'[e]
        /\ high <= cursor'[d] /\ cursor'[d] \in Nat
    BY <2>2, OrderRanges, CursorTyped, CursorGrows DEF AtLeast
  <2>4. \A e \in Dialogs, n \in Nat : InSentPart(e, n) => n <= cursor'[e]
    BY <2>1, <2>2, <2>3, OrderRanges DEF InSentPart, OrderInv, PartsOrdered
  <2> QED BY <2>2, <2>3, <2>4, CopiesFramed
<1>3. CASE \E job \in todo : DialogStep(job)
  <2>1. /\ \A d \in Dialogs : cursor[d] <= cursor'[d]
        /\ UNCHANGED mailU
    <3>1. CASE \E job \in todo : FetchBatch(job)
      BY <1>0, <3>1 DEF FetchBatch, storeVars, worldVars
    <3> QED BY <1>3, <3>1, OtherDialogStep
  <2>2. pc = "pick"
    BY <1>3 DEF DialogStep, SkipNotDue, SkipNothingNew, FetchNothing, FetchTail,
                FetchNoneSelected, FetchBatch, FetchFails, FetchPeerNotFound, Fetches
  <2> QED BY <1>0, <2>1, <2>2, CopiesFramed DEF InSentPart
<1>4. CASE \/ StartInbound \/ ListDialogs \/ ListFails \/ EndInbound
           \/ DownloadMedia \/ DownloadFails \/ DownloadPeerNotFound
           \/ InboundSessionInvalid
  <2>1. UNCHANGED <<mailU, cursor>> /\ pc \notin {"send", "commit"}
    BY <1>4 DEF StartInbound, ListDialogs, ListFails, EndInbound, DownloadMedia,
                DownloadFails, DownloadPeerNotFound, InboundSessionInvalid,
                TelegramCalled, Fetches, Goto, storeVars, worldVars
  <2> QED BY <1>0, <2>1, CopiesFramed DEF InSentPart
<1> QED BY <1>1, <1>2, <1>3, <1>4 DEF InboundCycle

(* The steps outside the cycle mail no message, and end a batch only with  *)
(* a crash.                                                                *)
LEMMA SharedCopies ==
  ASSUME Typed, Typed', BatchInChat, CopiesCounted,
         \/ (Handler \/ Lifecycle \/ World) /\ UNCHANGED <<localVars, base>>
         \/ InboundEnds
  PROVE  BatchInChat' /\ CopiesCounted'
<1> USE DEF storeVars, worldVars, localVars
<1>r. ret \notin BatchPoints /\ \A d \in Dialogs : cursor[d] \in Nat
  BY DEF Typed, InboundTypeOK, ServiceTypeOK, StoreTypeOK
<1>g. ChatGrows /\ UNCHANGED cursor
  BY SharedGrows DEF InboundEnds
<1>1. CASE Handler /\ UNCHANGED localVars
  <2>1. /\ UNCHANGED mailU /\ pc \notin BatchPoints /\ pc' \notin BatchPoints
        /\ faults' = faults \/ faults' = faults + 1
    BY <1>r, <1>1 DEF Handler, MarkInvalid, SendSessionNotice, SessionNoticeFails,
                      RecordSessionNotice, MarkNotified, Fault, Goto
  <2> QED BY <1>r, <1>g, <2>1, CopiesFramed, BatchStaysInChat DEF InSentPart
<1>2. CASE Lifecycle /\ UNCHANGED localVars
  <2>1. /\ UNCHANGED mailU /\ pc \notin BatchPoints /\ pc' \notin BatchPoints
        /\ faults' = faults \/ faults' = faults + 1
    BY <1>2 DEF Lifecycle, Start, Setup, SetupInterrupted, Fault, Goto
  <2> QED BY <1>r, <1>g, <2>1, CopiesFramed, BatchStaysInChat DEF InSentPart
<1>3. CASE World /\ UNCHANGED localVars
  <2>1. /\ UNCHANGED <<mailU, pc, cur, selected, rest>>
        /\ faults' = faults \/ faults' = faults + 1
    BY <1>3 DEF World, MessageArrives, Revoke, TimePasses, Fault
  <2> QED BY <1>r, <1>g, <2>1, CopiesFramed, BatchStaysInChat DEF InSentPart
<1>4. CASE InboundEnds
  <2>1. /\ UNCHANGED mailU /\ pc' \notin BatchPoints
        /\ \/ faults' = faults + 1
           \/ faults' = faults /\ pc \notin BatchPoints
    BY <1>4 DEF InboundEnds, Crash, Stop, ProcessEnds, Fault
  <2> QED BY <1>r, <1>g, <2>1, CopiesFramed, BatchStaysInChat DEF InSentPart
<1> QED BY <1>1, <1>2, <1>3, <1>4

CopiesInv == Typed /\ OrderInv /\ BatchInChat /\ CopiesCounted

LEMMA InboundNextCopies ==
  CopiesInv /\ NoneRefused /\ [InboundNext]_inboundVars => CopiesInv'
<1> SUFFICES ASSUME CopiesInv, NoneRefused, [InboundNext]_inboundVars
             PROVE  CopiesInv'
  OBVIOUS
<1>1. Typed /\ Typed' /\ OrderInv'
  BY InboundNextTyped, InboundNextOrdered DEF CopiesInv
<1>2. CASE UNCHANGED inboundVars
  BY <1>1, <1>2 DEF inboundVars, serviceVars, storeVars, worldVars, localVars,
                    CopiesInv, BatchInChat, Ids, CopiesCounted, Copies, InSentPart
<1> QED BY <1>1, <1>2, CycleCopies, CycleBatchInChat, SharedCopies
        DEF CopiesInv, InboundNext

LEMMA NoneMailed == mailU = {} /\ faults = 0 => CopiesCounted
<1> SUFFICES ASSUME mailU = {}, faults = 0 PROVE CopiesCounted
  OBVIOUS
<1>1. \A d \in Dialogs, n \in Nat : Copies(d, n) = {}
  BY DEF Copies
<1> QED BY <1>1, FS_EmptySet DEF CopiesCounted

LEMMA InitCopies == InboundInit => CopiesInv
BY InitTyped, InitOrdered, NoneMailed
   DEF CopiesInv, BatchInChat, InboundInit, ServiceInit

LEMMA CopiesSuffice == CopiesCounted => CopiesNeedFaults
BY DEF CopiesCounted, CopiesNeedFaults, Ids

(* U gets a message at most once more than there were faults, however the  *)
(* batches are cut into parts and wherever an attempt fails: as long as no *)
(* mail is refused for good.                                               *)
THEOREM CopiesCostFaults ==
  InboundSpec /\ []NoneRefused => []CopiesNeedFaults
<1>1. CopiesInv => CopiesNeedFaults
  BY CopiesSuffice DEF CopiesInv
<1> QED BY <1>1, InitCopies, InboundNextCopies, PTL DEF InboundSpec

(* No message is refused where none of that kind arrives. *)
LEMMA KindsStay ==
  ASSUME "refused" \notin Kinds, Typed, NoneRefused,
         \/ UNCHANGED chat
         \/ \E d \in Dialogs, kind \in Kinds \cup {"addressed"} :
              chat' = [chat EXCEPT ![d] = Append(@, kind)]
  PROVE  NoneRefused'
<1>1. CASE UNCHANGED chat
  BY <1>1 DEF NoneRefused, Ids
<1>2. CASE \E d \in Dialogs, kind \in Kinds \cup {"addressed"} :
             chat' = [chat EXCEPT ![d] = Append(@, kind)]
  <2>1. PICK d \in Dialogs, kind \in Kinds \cup {"addressed"} :
          chat' = [chat EXCEPT ![d] = Append(@, kind)]
    BY <1>2
  <2>2. kind \in MsgKinds /\ kind # "refused" /\ chat \in [Dialogs -> Seq(MsgKinds)]
    BY ServiceAssumption DEF MsgKinds, Typed, InboundTypeOK, ServiceTypeOK
  <2> SUFFICES ASSUME NEW e \in Dialogs, NEW n \in 1 .. Len(chat'[e])
               PROVE  chat'[e][n] # "refused"
    BY DEF NoneRefused, Ids
  <2>3. chat[e] \in Seq(MsgKinds) /\ \A j \in 1 .. Len(chat[e]) : chat[e][j] # "refused"
    BY <2>2 DEF NoneRefused, Ids
  <2>4. CASE e # d
    BY <2>1, <2>2, <2>3, <2>4
  <2>5. CASE e = d
    <3>1. chat'[e] = Append(chat[e], kind)
      BY <2>1, <2>2, <2>5
    <3> QED BY <2>2, <2>3, <3>1
  <2> QED BY <2>4, <2>5
<1> QED BY <1>1, <1>2

(* The same where Telegram sends nothing that the mail server refuses, as  *)
(* in the runs.                                                            *)
THEOREM CopiesCostFaultsUnrefused ==
  "refused" \notin Kinds => (InboundSpec => []CopiesNeedFaults)
<1> SUFFICES ASSUME "refused" \notin Kinds
             PROVE  InboundSpec => []CopiesNeedFaults
  OBVIOUS
<1>1. InboundInit => Typed /\ NoneRefused
  BY InitTyped DEF InboundInit, ServiceInit, NoneRefused, Ids
<1>2. Typed /\ NoneRefused /\ [InboundNext]_inboundVars => (Typed /\ NoneRefused)'
  <2> SUFFICES ASSUME Typed, NoneRefused, [InboundNext]_inboundVars
               PROVE  NoneRefused'
    BY InboundNextTyped
  <2>1. UNCHANGED chat \/ \E d \in Dialogs, kind \in Kinds : MessageArrives(d, kind)
    BY CycleLeavesChats, SharedLeavesChats
       DEF InboundNext, InboundEnds, World, inboundVars, serviceVars, worldVars
  <2> QED BY <2>1, KindsStay DEF MessageArrives
<1> QED BY <1>1, <1>2, CopiesCostFaults, PTL DEF InboundSpec

(* The inbound cycle calls invalidate_session only when Telegram refused   *)
(* the session.                                                            *)
LEMMA InboundTellsNothing == ASSUME Typed, InboundCycle PROVE TellsNothing
<1> USE DEF TellsNothing, SessionNotices, HandlerPoints, storeVars, worldVars
<1>1. CASE StartInbound \/ ListDialogs \/ ListFails \/ EndInbound
  BY <1>1 DEF StartInbound, ListDialogs, ListFails, EndInbound, Fault, Goto
<1>2. CASE \E job \in todo : DialogStep(job)
  BY <1>2 DEF DialogStep, SkipNotDue, SkipNothingNew, FetchNothing, FetchTail,
              FetchNoneSelected, FetchBatch, FetchFails, FetchPeerNotFound,
              Fetches, Fault
<1>3. CASE DownloadMedia \/ DownloadFails \/ DownloadPeerNotFound \/ Commit
  BY <1>3 DEF DownloadMedia, DownloadFails, DownloadPeerNotFound, Commit, Fault, Goto
<1>4. CASE \E k \in rest : PartStep(k)
  BY <1>4 DEF PartStep, SendPart, SendFails, SendRefused, ProcessEnds, Fault, Goto
<1>5. CASE InboundSessionInvalid
  BY <1>5 DEF InboundSessionInvalid, TelegramCalled, Fetches, Invalidate
<1> QED BY <1>1, <1>2, <1>3, <1>4, <1>5 DEF InboundCycle

(* U is told of an invalid session once, and once more for each fault,     *)
(* also in the process that runs the inbound cycle alone.                  *)
THEOREM InboundSessionNoticesCostFaults ==
  InboundSpec => []SessionNoticesNeedFaults
<1> DEFINE Inv == Typed /\ NoticesCounted
<1>1. InboundInit => Inv
  BY InitTyped, NoneTold DEF InboundInit
<1>2. Inv /\ [InboundNext]_inboundVars => Inv'
  <2> SUFFICES ASSUME Typed, NoticesCounted, [InboundNext]_inboundVars
               PROVE  NoticesCounted'
    BY InboundNextTyped
  <2>0. ServiceTypeOK
    BY DEF Typed, InboundTypeOK
  <2>1. CASE UNCHANGED inboundVars
    BY <2>0, <2>1, IdleCounts DEF inboundVars, serviceVars, storeVars, worldVars
  <2> QED BY <2>0, <2>1, InboundTellsNothing, CycleCounts, SharedCounts
          DEF InboundNext, InboundEnds
<1>3. Inv => SessionNoticesNeedFaults
  BY CountsNotices
<1> QED BY <1>1, <1>2, <1>3, PTL DEF InboundSpec
=============================================================================
