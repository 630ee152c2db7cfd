---------------------------- MODULE BridgeStore ----------------------------
(***************************************************************************)
(* The SQLite store of the bridge (state.py): one variable per table, and  *)
(* one operator per method.  A method that runs several statements in one  *)
(* transaction is one operator, so its tables change in one step; a caller *)
(* that calls two methods takes two steps and may crash between them.      *)
(*                                                                         *)
(* Row timestamps and the audit columns of dialog_cursor are left out.     *)
(* A runtime_backoff row is kept as what its readers see: its scope is in  *)
(* "waiting" while not_before lies ahead.  Time is not counted, the wait   *)
(* of a scope may end at any step (BackoffElapses).                        *)
(*                                                                         *)
(* A Message-ID (mail_out.make_message_id, a fresh uuid) is a natural      *)
(* number, the count of the Message-IDs used so far; a mail_ref            *)
(* (INBOX:uidvalidity:uid) is the position of the mail in B's INBOX.       *)
(***************************************************************************)
EXTENDS Integers, FiniteSets

CONSTANT Dialogs          \* the dialog_ids of the tracked dialogs

VARIABLES
  cursor,                 \* dialog_cursor.last_id, 0 while there is no row
  ledger,                 \* mail_ledger: set of [mid, dialog]
  consumed,               \* consumed_mail: set of mail_refs
  echo,                   \* posted_echo: set of <<dialog_id, posted_msg_id>>
  enabled,                \* bridge_state.enabled
  valid,                  \* session_health.valid
  notified,               \* session_health.notified
  waiting,                \* scopes of runtime_backoff whose not_before is ahead
  pending,                \* pending_notice: set of [ref, on]
  sentNotice              \* sent_notice: set of Message-IDs

tableVars == <<cursor, ledger, consumed, echo, enabled, valid, notified,
               pending, sentNotice>>
storeVars == <<tableVars, waiting>>

---------------------------------------------------------------------------
(* Backoff scopes.  "mail:notice:<kind>" is written by flush_notices and   *)
(* read by nobody, so it has no place here.                                *)

ListScope == <<"tg:list">>
DialogScope(d) == <<"tg", d>>
PostScope(d) == <<"tg:post", d>>
PollScope == <<"mail:poll">>
SessionNoticeScope == <<"mail:session-notice">>

TgScopes == {ListScope} \cup {DialogScope(d) : d \in Dialogs}
                        \cup {PostScope(d) : d \in Dialogs}
Scopes == TgScopes \cup {PollScope, SessionNoticeScope}

---------------------------------------------------------------------------

StoreTypeOK ==
  /\ cursor \in [Dialogs -> Nat]
  /\ ledger \subseteq [mid : Nat, dialog : Dialogs]
  /\ consumed \subseteq Nat
  /\ echo \subseteq Dialogs \X Nat
  /\ enabled \in BOOLEAN
  /\ valid \in BOOLEAN
  /\ notified \in BOOLEAN
  /\ waiting \subseteq Scopes
  /\ pending \subseteq [ref : Nat, on : BOOLEAN]
  /\ sentNotice \subseteq Nat

(* What _migrate leaves in a new database: the bridge is on, the session   *)
(* is not valid until setup says so.                                       *)
StoreInit ==
  /\ cursor = [d \in Dialogs |-> 0]
  /\ ledger = {}
  /\ consumed = {}
  /\ echo = {}
  /\ enabled = TRUE
  /\ valid = FALSE
  /\ notified = FALSE
  /\ waiting = {}
  /\ pending = {}
  /\ sentNotice = {}

---------------------------------------------------------------------------
(* Reads.                                                                  *)

LedgerIds == {row.mid : row \in ledger}

IsBridgeMessage(mid) == mid \in LedgerIds \cup sentNotice

IsEcho(d, n) == <<d, n>> \in echo

DeliveryAllowed == enabled /\ valid

Due(scope) == scope \notin waiting

---------------------------------------------------------------------------
(* Writes.  Each names the tables it changes; the caller says UNCHANGED of *)
(* the others.                                                             *)

AtLeast(a, b) == IF a >= b THEN a ELSE b

(* advance_cursor: last_id = max(last_id, high_watermark). *)
AdvanceCursor(d, high) ==
  cursor' = [cursor EXCEPT ![d] = AtLeast(cursor[d], high)]

(* Mutated: the ledger rows are committed without the cursor. *)
CommitLedgerOnly(d, mids, high) ==
  /\ mids # {}
  /\ ledger' = ledger \cup {[mid |-> m, dialog |-> d] : m \in mids}
  /\ high > 0 /\ UNCHANGED cursor

(* commit_delivery: the ledger rows and the cursor in one transaction. *)
CommitDelivery(d, mids, high) ==
  /\ mids # {}
  /\ ledger' = ledger \cup {[mid |-> m, dialog |-> d] : m \in mids}
  /\ AdvanceCursor(d, high)

(* Mutated: one of the two markers is forgotten. *)
CommitReplyNotConsumed(ref, d, posted) ==
  /\ echo' = echo \cup {<<d, posted>>}
  /\ ref > 0 /\ UNCHANGED consumed
CommitReplyNoEcho(ref, d, posted) ==
  /\ <<d, posted>> \notin echo /\ UNCHANGED echo
  /\ consumed' = consumed \cup {ref}

(* commit_reply: the echo marker and the consume marker in one transaction. *)
CommitReply(ref, d, posted) ==
  /\ echo' = echo \cup {<<d, posted>>}
  /\ consumed' = consumed \cup {ref}

(* set_bridge_enabled: the new state and the consume marker in one transaction. *)
SetBridgeEnabled(on, ref) ==
  /\ enabled' = on
  /\ consumed' = consumed \cup {ref}

QueueNotice(ref, on) == pending' = pending \cup {[ref |-> ref, on |-> on]}

(* Mutated: the row stays; DELETE without its WHERE. *)
DeleteNoticeNever(notice) == notice \in pending /\ UNCHANGED pending
DeleteEveryNotice(notice) == notice \in pending /\ pending' = {}

DeleteNotice(notice) == pending' = pending \ {notice}

RecordNoticeSent(mid) == sentNotice' = sentNotice \cup {mid}

(* record_failure: next_backoff always sets not_before ahead of now. *)
RecordFailure(scope) == waiting' = waiting \cup {scope}

ClearBackoff(scope) == waiting' = waiting \ {scope}

(* clear_tg_backoff: DELETE ... WHERE scope LIKE 'tg:%'. *)
ClearTgBackoff == waiting' = waiting \ TgScopes

(* The wait of a scope ends; the row stays until somebody clears it. *)
BackoffElapses(scope) ==
  /\ scope \in waiting
  /\ waiting' = waiting \ {scope}
  /\ UNCHANGED tableVars
=============================================================================
