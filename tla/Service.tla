------------------------------ MODULE Service ------------------------------
(***************************************************************************)
(* The bridge process as the inbound and the mailbox cycle share it: the   *)
(* world outside (Telegram, U's mailbox), where the one asyncio task       *)
(* stands (pc), the handler invalidate_session that both cycles call, the  *)
(* end of a process and its restart, and setup.                            *)
(*                                                                         *)
(* A step of the process ends at each answer of an external call and at    *)
(* each commit: these are the points between which a crash makes a         *)
(* difference.  The cycles run one after the other in one task (run), and  *)
(* no second process runs beside it (LifetimeLock).                        *)
(*                                                                         *)
(* Failures are bounded in number by MaxFaults, so every behaviour has a   *)
(* last one.  A mail that the server refuses for good makes the process    *)
(* exit and start over without end; MaxMails bounds what is sent then.     *)
(***************************************************************************)
EXTENDS BridgeStore, Sequences

CONSTANTS
  MaxFaults,              \* bound: failures, crashes and revocations
  MaxMails,               \* bound: no restart once B has sent so many mails
  MaxMsgs,                \* bound: messages that arrive in a dialog
  Kinds,                  \* the kinds of message that arrive, see MsgKinds
  NoDialog                \* a model value

(***************************************************************************)
(* What the bridge makes of a message: is_addressed holds of it            *)
(* ("addressed") or not ("ignored"); a "refused" message is addressed, and *)
(* the mail server refuses for good every mail that carries it (SMTP 552   *)
(* or 554, or compose_batch cannot fit it: MailSizeRejected).              *)
(***************************************************************************)
MsgKinds == {"addressed", "ignored", "refused"}

ASSUME ServiceAssumption ==
  /\ MaxFaults \in Nat
  /\ MaxMails \in Nat
  /\ MaxMsgs \in Nat
  /\ Kinds \subseteq MsgKinds
  /\ NoDialog \notin Dialogs

VARIABLES
  chat,                   \* Telegram: for each dialog the kinds of its messages
  authorized,             \* Telegram: the session file is accepted
  mailU,                  \* U's mailbox: deliveries, set of [mid, dialog, msgs]
  noticeU,                \* U's mailbox: notices, set of [mid, about]
  minted,                 \* Message-IDs used so far
  faults,                 \* failures so far
  pc,                     \* what the task does next
  ret                     \* where invalidate_session returns to

outsideVars == <<chat, authorized, mailU, noticeU, minted>>
worldVars == <<outsideVars, faults>>
serviceVars == <<storeVars, worldVars, pc, ret>>

InboundPoints == {"list", "pick", "media", "send", "commit"}
MailboxPoints == {"poll", "mail", "queue", "commitReply", "flush",
                  "flushRecord", "flushDelete"}
HandlerPoints == {"invalid", "notice", "noticeRecord", "noticeMark"}
Points == {"down", "idle"} \cup InboundPoints \cup MailboxPoints
                           \cup HandlerPoints

(* What a notice is about: the session, or the command whose effect it     *)
(* confirms.                                                               *)
Session == [ref |-> 0, on |-> FALSE]
Subjects == [ref : Nat, on : BOOLEAN]

ServiceTypeOK ==
  /\ StoreTypeOK
  /\ chat \in [Dialogs -> Seq(MsgKinds)]
  /\ authorized \in BOOLEAN
  /\ mailU \subseteq [mid : Nat, dialog : Dialogs, msgs : SUBSET Nat]
  /\ noticeU \subseteq [mid : Nat, about : Subjects]
  /\ minted \in Nat
  /\ faults \in Nat
  /\ pc \in Points
  /\ ret \in {"idle", "flush"}

(* A new installation: nothing authorized, no process. *)
ServiceInit ==
  /\ StoreInit
  /\ chat = [d \in Dialogs |-> << >>]
  /\ authorized = FALSE
  /\ mailU = {}
  /\ noticeU = {}
  /\ minted = 0
  /\ faults = 0
  /\ pc = "down"
  /\ ret = "idle"

Fault ==
  /\ faults < MaxFaults
  /\ faults' = faults + 1

Goto(from, to) == pc = from /\ pc' = to

---------------------------------------------------------------------------
(* invalidate_session.  The caller enters it with Invalidate, and the      *)
(* handler goes on at "ret" when it returns.                               *)

Invalidate(back) ==
  /\ pc' = "invalid"
  /\ ret' = back

(* if health.valid: set_session(False, False); read notified again. *)
MarkInvalid ==
  /\ pc = "invalid"
  /\ valid' = FALSE
  /\ notified' = (notified /\ ~valid)
  /\ pc' = IF notified' THEN ret ELSE "notice"
  /\ UNCHANGED <<cursor, ledger, consumed, echo, enabled, waiting, pending,
                 sentNotice, worldVars, ret>>

(* A mail from B reaches U's mailbox under the next Message-ID. *)
NoticeReachesU(about) ==
  /\ noticeU' = noticeU \cup {[mid |-> minted + 1, about |-> about]}
  /\ minted' = minted + 1

SendSessionNotice ==
  /\ Goto("notice", "noticeRecord")
  /\ NoticeReachesU(Session)
  /\ UNCHANGED <<storeVars, chat, authorized, mailU, faults, ret>>

(* SmtpMailer.send raised Transient: the server may have taken the mail all *)
(* the same.  Only the backoff is written.                                 *)
SessionNoticeFails ==
  /\ Goto("notice", ret)
  /\ Fault
  /\ NoticeReachesU(Session) \/ UNCHANGED <<noticeU, minted>>
  /\ RecordFailure(SessionNoticeScope)
  /\ UNCHANGED <<tableVars, chat, authorized, mailU, ret>>

RecordSessionNotice ==
  /\ Goto("noticeRecord", "noticeMark")
  /\ RecordNoticeSent(minted)
  /\ UNCHANGED <<cursor, ledger, consumed, echo, enabled, valid, notified,
                 waiting, pending, worldVars, ret>>

(* Mutated: only the backoff is cleared. *)
MarkNotifiedForgotten ==
  /\ Goto("noticeMark", ret)
  /\ ClearBackoff(SessionNoticeScope)
  /\ UNCHANGED <<tableVars, worldVars, ret>>

MarkNotified ==
  /\ Goto("noticeMark", ret)
  /\ notified' = TRUE
  /\ ClearBackoff(SessionNoticeScope)
  /\ UNCHANGED <<cursor, ledger, consumed, echo, enabled, valid, pending,
                 sentNotice, worldVars, ret>>

Handler ==
  \/ MarkInvalid
  \/ SendSessionNotice
  \/ SessionNoticeFails
  \/ RecordSessionNotice
  \/ MarkNotified

---------------------------------------------------------------------------
(* The process ends and starts.  Its local state is gone; the modules of   *)
(* the cycles say so of theirs.                                            *)

ProcessEnds ==
  /\ pc' = "down"
  /\ ret' = "idle"

(* A crash, or an error that no handler of a cycle catches (MailAuthError,  *)
(* PeerNotFound outside the per-dialog try): main prints it and returns 2. *)
Crash ==
  /\ pc # "down"
  /\ Fault
  /\ ProcessEnds
  /\ UNCHANGED <<storeVars, outsideVars>>

(* SIGTERM while the loop sleeps between two cycles. *)
Stop ==
  /\ pc = "idle"
  /\ ProcessEnds
  /\ UNCHANGED <<storeVars, worldVars>>

Start ==
  /\ Goto("down", "idle")
  /\ minted < MaxMails
  /\ UNCHANGED <<storeVars, worldVars, ret>>

(* run_setup: authorize, then set_session(True, False) and clear_tg_backoff. *)
(* It takes the lock, so no process runs.                                  *)
Setup ==
  /\ pc = "down"
  /\ authorized' = TRUE
  /\ valid' = TRUE
  /\ notified' = FALSE
  /\ ClearTgBackoff
  /\ UNCHANGED <<cursor, ledger, consumed, echo, enabled, pending, sentNotice,
                 chat, mailU, noticeU, minted, faults, pc, ret>>

(* Setup dies after the authorization: Telegram has it, the store does not. *)
SetupInterrupted ==
  /\ pc = "down"
  /\ Fault
  /\ authorized' = TRUE
  /\ UNCHANGED <<storeVars, chat, mailU, noticeU, minted, pc, ret>>

Lifecycle == Start \/ Setup \/ SetupInterrupted

---------------------------------------------------------------------------
(* The world.                                                              *)

MessageArrives(d, kind) ==
  /\ Len(chat[d]) < MaxMsgs
  /\ chat' = [chat EXCEPT ![d] = Append(@, kind)]
  /\ UNCHANGED <<storeVars, authorized, mailU, noticeU, minted, faults, pc, ret>>

(* Telegram revokes the session. *)
Revoke ==
  /\ authorized
  /\ Fault
  /\ authorized' = FALSE
  /\ UNCHANGED <<storeVars, chat, mailU, noticeU, minted, pc, ret>>

TimePasses ==
  /\ \E scope \in Scopes : BackoffElapses(scope)
  /\ UNCHANGED <<worldVars, pc, ret>>

World ==
  \/ \E d \in Dialogs, kind \in Kinds : MessageArrives(d, kind)
  \/ Revoke
  \/ TimePasses

---------------------------------------------------------------------------
(* invalidate_session tells U once: each session notice after the first    *)
(* was preceded by a fault of its own (a revocation, a crash before        *)
(* mark_session_notified, a mail that went out in spite of its error).     *)
SessionNoticesNeedFaults ==
  Cardinality({m \in noticeU : m.about = Session}) <= 1 + faults
=============================================================================
