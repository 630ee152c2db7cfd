------------------------------ MODULE Inbound ------------------------------
(***************************************************************************)
(* Telegram -> mail: run_inbound_cycle, run over and over, with the two    *)
(* Telegram calls it makes per dialog (fetch_since, download_media) and    *)
(* the mail it sends part by part.  This is the process started as         *)
(* "once --kind inbound"; module Bridge composes the cycle with the        *)
(* mailbox cycle.                                                          *)
(*                                                                         *)
(* The id of a message is its position in its dialog.  compose_batch cuts  *)
(* the batch into parts between messages before the first is sent; where   *)
(* it cuts is chosen here part by part, as the parts are sent.             *)
(***************************************************************************)
EXTENDS Service

CONSTANTS
  FetchLimit,             \* TG_FETCH_LIMIT
  BootstrapMode,          \* BOOTSTRAP_MODE: "tail" or "history"
  TopKnown                \* dialogs that list_tracked_dialogs gives a top_id

ASSUME InboundAssumption ==
  /\ FetchLimit \in Nat \ {0}
  /\ BootstrapMode \in {"tail", "history"}
  /\ TopKnown \subseteq Dialogs

VARIABLES
  todo,                   \* dialogs of this cycle still to do, each with its top_id
  cur,                    \* the dialog in hand
  selected,               \* the messages of its batch
  rest,                   \* those of them not in a sent part yet
  high,                   \* the high-watermark of the batch
  sent,                   \* Message-IDs of the parts sent
  base                    \* history: the cursor that the tail bootstrap wrote

batchVars == <<cur, selected, rest, high, sent>>
localVars == <<todo, batchVars>>
inboundVars == <<serviceVars, localVars, base>>

NoTop == 0                \* top_id is None

LocalTypeOK ==
  /\ todo \subseteq [dialog : Dialogs, top : Nat]
  /\ cur \in Dialogs \cup {NoDialog}
  /\ selected \subseteq Nat
  /\ rest \subseteq selected
  /\ high \in Nat
  /\ sent \subseteq Nat
  /\ base \in [Dialogs -> Nat]

InboundTypeOK == ServiceTypeOK /\ LocalTypeOK

LocalInit ==
  /\ todo = {}
  /\ cur = NoDialog
  /\ selected = {}
  /\ rest = {}
  /\ high = 0
  /\ sent = {}

InboundInit ==
  /\ ServiceInit
  /\ LocalInit
  /\ base = [d \in Dialogs |-> 0]

---------------------------------------------------------------------------
(* What the cycle reads of a dialog.                                       *)

Ids(d) == 1 .. Len(chat[d])

IsAddressed(d, n) == chat[d][n] # "ignored"

(* iter_messages(min_id, limit) gives the newest messages above min_id. *)
FetchSince(d) == {n \in Ids(d) : n > cursor[d] /\ n > Len(chat[d]) - FetchLimit}

(* Mutated: no echo check. *)
SelectWithEchoes(d) == {n \in FetchSince(d) : n > cursor[d] /\ IsAddressed(d, n)}

Select(d) ==
  {n \in FetchSince(d) : n > cursor[d] /\ ~IsEcho(d, n) /\ IsAddressed(d, n)}

(* Mutated: the position of the last message for its id. *)
TopIdOffByOne(d) == IF d \in TopKnown THEN Len(chat[d]) - 1 ELSE NoTop

(* list_tracked_dialogs: the id of the last message, if the listing has it. *)
TopId(d) == IF d \in TopKnown THEN Len(chat[d]) ELSE NoTop

(* Mutated: off by one, the newest message looks seen. *)
NothingNewOffByOne(job) == job.top # NoTop /\ job.top <= cursor[job.dialog] + 1

(* Ids start at 1, so an empty dialog (no message, top_id None) is NoTop too. *)
NothingNew(job) == job.top # NoTop /\ job.top <= cursor[job.dialog]

(* Mutated: whatever the cursor. *)
BootstrapsAlways(d) == d \in Dialogs /\ BootstrapMode = "tail"

Bootstraps(d) == cursor[d] = 0 /\ BootstrapMode = "tail"

ForgetLocals ==
  /\ todo' = {}
  /\ cur' = NoDialog
  /\ selected' = {}
  /\ rest' = {}
  /\ high' = 0
  /\ sent' = {}

(* The batch in hand is given up or done; the other dialogs are not. *)
DropBatch ==
  /\ cur' = NoDialog
  /\ selected' = {}
  /\ rest' = {}
  /\ high' = 0
  /\ sent' = {}
  /\ UNCHANGED todo

---------------------------------------------------------------------------
(* The start of a cycle.  When the gate is closed the cycle is no step.    *)

(* Mutated: the gate is left out. *)
StartInboundUngated ==
  /\ Goto("idle", "list")
  /\ Due(ListScope)
  /\ UNCHANGED <<storeVars, worldVars, ret, localVars, base>>

StartInbound ==
  /\ Goto("idle", "list")
  /\ DeliveryAllowed
  /\ Due(ListScope)
  /\ UNCHANGED <<storeVars, worldVars, ret, localVars, base>>

ListDialogs ==
  /\ Goto("list", "pick")
  /\ authorized
  /\ todo' = {[dialog |-> d, top |-> TopId(d)] : d \in Dialogs}
  /\ ClearBackoff(ListScope)
  /\ UNCHANGED <<tableVars, worldVars, ret, batchVars, base>>

(* FloodWait or Transient from the listing. *)
ListFails ==
  /\ Goto("list", "idle")
  /\ Fault
  /\ RecordFailure(ListScope)
  /\ UNCHANGED <<tableVars, outsideVars, ret, localVars, base>>

EndInbound ==
  /\ Goto("pick", "idle")
  /\ todo = {}
  /\ UNCHANGED <<storeVars, worldVars, ret, localVars, base>>

---------------------------------------------------------------------------
(* One dialog: the steps that end with the next dialog.                    *)

Done(job) == todo' = todo \ {job}

(* clear_backoff(scope); continue *)
DoneWell(job) == Done(job) /\ ClearBackoff(DialogScope(job.dialog))

SkipNotDue(job) ==
  /\ pc = "pick"
  /\ ~Due(DialogScope(job.dialog))
  /\ Done(job)
  /\ UNCHANGED <<storeVars, worldVars, pc, ret, batchVars, base>>

SkipNothingNew(job) ==
  /\ pc = "pick"
  /\ Due(DialogScope(job.dialog))
  /\ NothingNew(job)
  /\ DoneWell(job)
  /\ UNCHANGED <<tableVars, worldVars, pc, ret, batchVars, base>>

(* The call of fetch_since is made. *)
Fetches(job) ==
  /\ pc = "pick"
  /\ Due(DialogScope(job.dialog))
  /\ ~NothingNew(job)

FetchNothing(job) ==
  /\ Fetches(job)
  /\ authorized
  /\ FetchSince(job.dialog) = {}
  /\ DoneWell(job)
  /\ UNCHANGED <<tableVars, worldVars, pc, ret, batchVars, base>>

(* The first messages seen of a dialog in tail mode: only the cursor moves. *)
FetchTail(job) ==
  LET d == job.dialog IN
  /\ Fetches(job)
  /\ authorized
  /\ FetchSince(d) # {}
  /\ Bootstraps(d)
  /\ AdvanceCursor(d, Len(chat[d]))
  /\ base' = [base EXCEPT ![d] = Len(chat[d])]
  /\ DoneWell(job)
  /\ UNCHANGED <<ledger, consumed, echo, enabled, valid, notified, pending,
                 sentNotice, worldVars, pc, ret, batchVars>>

(* Echoes and messages not addressed only: the cursor passes them. *)
FetchNoneSelected(job) ==
  LET d == job.dialog IN
  /\ Fetches(job)
  /\ authorized
  /\ FetchSince(d) # {}
  /\ ~Bootstraps(d)
  /\ Select(d) = {}
  /\ AdvanceCursor(d, Len(chat[d]))
  /\ DoneWell(job)
  /\ UNCHANGED <<ledger, consumed, echo, enabled, valid, notified, pending,
                 sentNotice, worldVars, pc, ret, batchVars, base>>

FetchBatch(job) ==
  LET d == job.dialog IN
  /\ Fetches(job)
  /\ authorized
  /\ ~Bootstraps(d)
  /\ Select(d) # {}
  /\ cur' = d
  /\ selected' = Select(d)
  /\ rest' = Select(d)
  /\ high' = Len(chat[d])
  /\ sent' = {}
  /\ Done(job)
  /\ pc' = "media"
  /\ UNCHANGED <<storeVars, worldVars, ret, base>>

(* FloodWait or Transient from the fetch. *)
FetchFails(job) ==
  /\ Fetches(job)
  /\ Fault
  /\ RecordFailure(DialogScope(job.dialog))
  /\ Done(job)
  /\ UNCHANGED <<tableVars, outsideVars, pc, ret, batchVars, base>>

(* PeerNotFound from the fetch: logged, and on to the next dialog. *)
FetchPeerNotFound(job) ==
  /\ Fetches(job)
  /\ Fault
  /\ Done(job)
  /\ UNCHANGED <<storeVars, outsideVars, pc, ret, batchVars, base>>

---------------------------------------------------------------------------
(* The batch in hand.                                                      *)

(* Mutated: a message whose media is unavailable falls out of the batch. *)
DownloadMediaDrops ==
  /\ Goto("media", "send")
  /\ \E n \in rest : rest' = IF rest = {n} THEN rest ELSE rest \ {n}
  /\ UNCHANGED <<storeVars, worldVars, ret, todo, cur, selected, high, sent, base>>

(* The media of every message is downloaded, or replaced by a marker where *)
(* it is unavailable.  Without media Telegram is not called at all.        *)
DownloadMedia ==
  /\ Goto("media", "send")
  /\ UNCHANGED <<storeVars, worldVars, ret, localVars, base>>

(* FloodWait or Transient from a download. *)
DownloadFails ==
  /\ Goto("media", "pick")
  /\ Fault
  /\ RecordFailure(DialogScope(cur))
  /\ DropBatch
  /\ UNCHANGED <<tableVars, outsideVars, ret, base>>

DownloadPeerNotFound ==
  /\ Goto("media", "pick")
  /\ Fault
  /\ DropBatch
  /\ UNCHANGED <<storeVars, outsideVars, ret, base>>

(* The next part: the messages of the batch up to k. *)
Part(k) == {n \in rest : n <= k}

Refused(part) == \E n \in part : chat[cur][n] = "refused"

MailReachesU(part) ==
  /\ mailU' = mailU \cup {[mid |-> minted + 1, dialog |-> cur, msgs |-> part]}
  /\ minted' = minted + 1

SendPart(k) ==
  /\ pc = "send"
  /\ ~Refused(Part(k))
  /\ MailReachesU(Part(k))
  /\ sent' = sent \cup {minted + 1}
  /\ rest' = rest \ Part(k)
  /\ pc' = IF rest' = {} THEN "commit" ELSE "send"
  /\ UNCHANGED <<storeVars, chat, authorized, noticeU, faults, ret,
                 todo, cur, selected, high, base>>

(* SmtpMailer.send raised Transient; the server may have taken the mail.   *)
SendFails(k) ==
  /\ Goto("send", "pick")
  /\ Fault
  /\ \/ ~Refused(Part(k)) /\ MailReachesU(Part(k))
     \/ UNCHANGED <<mailU, minted>>
  /\ RecordFailure(DialogScope(cur))
  /\ DropBatch
  /\ UNCHANGED <<tableVars, chat, authorized, noticeU, ret, base>>

(* MailSizeRejected has no handler: the process exits. *)
SendRefused(k) ==
  /\ pc = "send"
  /\ Refused(Part(k))
  /\ ProcessEnds
  /\ ForgetLocals
  /\ UNCHANGED <<storeVars, worldVars, base>>

(* Mutated: the cursor goes to the newest message, fetched or not. *)
CommitToNewest ==
  /\ Goto("commit", "pick")
  /\ CommitDelivery(cur, sent, Len(chat[cur]))
  /\ ClearBackoff(DialogScope(cur))
  /\ DropBatch
  /\ UNCHANGED <<consumed, echo, enabled, valid, notified, pending, sentNotice,
                 worldVars, ret, base>>

(* commit_delivery, and clear_backoff of the dialog. *)
Commit ==
  /\ Goto("commit", "pick")
  /\ CommitDelivery(cur, sent, high)
  /\ ClearBackoff(DialogScope(cur))
  /\ DropBatch
  /\ UNCHANGED <<consumed, echo, enabled, valid, notified, pending, sentNotice,
                 worldVars, ret, base>>

---------------------------------------------------------------------------
(* SessionInvalid from any Telegram call of the cycle: the handler, and    *)
(* the cycle is over.                                                      *)

TelegramCalled == \/ pc \in {"list", "media"}
                  \/ \E job \in todo : Fetches(job)

(* Mutated: the next dialog instead of the end of the cycle. *)
InboundSessionInvalidGoesOn ==
  /\ TelegramCalled
  /\ ~authorized
  /\ Invalidate("pick")
  /\ DropBatch
  /\ UNCHANGED <<storeVars, worldVars, base>>

InboundSessionInvalid ==
  /\ TelegramCalled
  /\ ~authorized
  /\ Invalidate("idle")
  /\ ForgetLocals
  /\ UNCHANGED <<storeVars, worldVars, base>>

---------------------------------------------------------------------------

DialogStep(job) ==
  \/ SkipNotDue(job)
  \/ SkipNothingNew(job)
  \/ FetchNothing(job)
  \/ FetchTail(job)
  \/ FetchNoneSelected(job)
  \/ FetchBatch(job)
  \/ FetchFails(job)
  \/ FetchPeerNotFound(job)

PartStep(k) == SendPart(k) \/ SendFails(k) \/ SendRefused(k)

InboundCycle ==
  \/ StartInbound
  \/ ListDialogs
  \/ ListFails
  \/ EndInbound
  \/ \E job \in todo : DialogStep(job)
  \/ DownloadMedia
  \/ DownloadFails
  \/ DownloadPeerNotFound
  \/ \E k \in rest : PartStep(k)
  \/ Commit
  \/ InboundSessionInvalid

InboundEnds ==
  /\ Crash \/ Stop
  /\ ForgetLocals
  /\ UNCHANGED base

InboundNext ==
  \/ InboundCycle
  \/ InboundEnds
  \/ (Handler \/ Lifecycle \/ World) /\ UNCHANGED <<localVars, base>>

InboundSpec == InboundInit /\ [][InboundNext]_inboundVars

(***************************************************************************)
(* The loop of run goes on, the operator's service manager restarts the    *)
(* process (Restart=on-failure), and a wait ends.  A process that is       *)
(* stopped and started for ever gets to begin a cycle now and then.  No    *)
(* outcome with a Fault in it is owed.                                     *)
(***************************************************************************)
InboundSteps ==
  \/ StartInbound \/ ListDialogs \/ EndInbound
  \/ \E job \in todo : DialogStep(job)
  \/ DownloadMedia
  \/ \E k \in rest : PartStep(k)
  \/ Commit
  \/ InboundSessionInvalid
  \/ Handler /\ UNCHANGED <<localVars, base>>

InboundFairness ==
  /\ WF_inboundVars(InboundSteps)
  /\ SF_inboundVars(StartInbound)
  /\ WF_inboundVars(Start /\ UNCHANGED <<localVars, base>>)
  /\ \A scope \in Scopes :
       WF_inboundVars(/\ BackoffElapses(scope)
                      /\ UNCHANGED <<worldVars, pc, ret, localVars, base>>)

InboundLiveSpec == InboundSpec /\ InboundFairness

---------------------------------------------------------------------------
(* Properties.                                                             *)

(* Message n of dialog d is in a mail that the ledger knows: U has it, and *)
(* a reply to that mail finds its way back.                                *)
Delivered(d, n) ==
  \E m \in mailU : m.mid \in LedgerIds /\ m.dialog = d /\ n \in m.msgs

(* What the bridge owes of a dialog: the addressed messages after the tail *)
(* it started from, its own posts apart.                                   *)
Owed(d, n) == n \in Ids(d) /\ n > base[d] /\ IsAddressed(d, n) /\ ~IsEcho(d, n)

(* README: "No accepted message is skipped".  The cursor never passes a    *)
(* message the bridge owes before that message is in U's mailbox and in    *)
(* the ledger, whatever failed or crashed on the way.                      *)
NoMessageSkipped ==
  \A d \in Dialogs : \A n \in Ids(d) :
    n <= cursor[d] /\ Owed(d, n) => Delivered(d, n)

(* README: "Telegram messages are processed chronologically".  Of two      *)
(* mails of a dialog in the ledger, the one sent later carries only later  *)
(* messages; so the retries of a batch leave one copy of each message      *)
(* that a reply can be matched to.                                         *)
LedgerChronological ==
  \A m1, m2 \in mailU :
    /\ m1.mid \in LedgerIds
    /\ m2.mid \in LedgerIds
    /\ m1.dialog = m2.dialog
    /\ m1.mid < m2.mid
    => \A n1 \in m1.msgs, n2 \in m2.msgs : n1 < n2

Copies(d, n) == {m \in mailU : m.dialog = d /\ n \in m.msgs}

(* At-least-once delivery repeats a message only where an attempt failed:  *)
(* each copy after the first was preceded by a fault of its own.           *)
CopiesNeedFaults ==
  \A d \in Dialogs : \A n \in Ids(d) :
    Cardinality(Copies(d, n)) <= 1 + faults

(* Once the store says the session is invalid the cycle is where no        *)
(* Telegram call and no delivery can follow, until setup.                  *)
QuietWhileInvalid == ~valid => pc \notin InboundPoints

(* The detailed cycle implements the promise of module Delivery.           *)
Promise == INSTANCE Delivery WITH
  SkipsHistory <- BootstrapMode = "tail",
  last <- [d \in Dialogs |-> Len(chat[d])],
  wanted <- [d \in Dialogs |-> {n \in Ids(d) : IsAddressed(d, n) /\ ~IsEcho(d, n)}],
  upto <- cursor,
  got <- [d \in Dialogs |-> {n \in Ids(d) : Delivered(d, n)}]

ImplementsDelivery == Promise!Spec

(* A message the bridge owes is delivered, unless it turns out to be the   *)
(* bridge's own post, the operator is needed (the session is lost) or the  *)
(* bridge is switched off.                                                 *)
EventuallyDelivered ==
  \A d \in Dialogs : \A n \in 1 .. MaxMsgs :
    Owed(d, n) ~> Delivered(d, n) \/ IsEcho(d, n) \/ ~DeliveryAllowed
=============================================================================
