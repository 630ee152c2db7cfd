----------------------------- MODULE Retention ------------------------------
(***************************************************************************)
(* The bridge with the times of its rows, and the command purge            *)
(* (purge_retention): rows of four tables are deleted by age, and those of *)
(* three of them by count.  Every row carries the time it was inserted     *)
(* (delivered_at, consumed_at, posted_at, created_at); INSERT OR IGNORE    *)
(* leaves the time of a row that is there.                                 *)
(*                                                                         *)
(* Nothing but the command runs a purge, and it takes the lifetime lock:   *)
(* no bridge process runs beside it.  The clock does not step back.        *)
(***************************************************************************)
EXTENDS Bridge

CONSTANTS
  RetentionAge,           \* RETENTION_SECONDS
  EchoAge,                \* ECHO_RETENTION_SECONDS
  MaxLedger,              \* RETENTION_MAX_LEDGER
  MaxConsumed,            \* RETENTION_MAX_CONSUMED
  MaxEcho,                \* RETENTION_MAX_ECHO
  MaxClock                \* bound: the time

(* What from_env accepts. *)
ASSUME RetentionAssumption ==
  /\ {RetentionAge, EchoAge, MaxLedger, MaxConsumed, MaxEcho} \subseteq Nat \ {0}
  /\ EchoAge <= RetentionAge
  /\ MaxClock \in Nat

VARIABLES
  clock,                  \* the time, in the units of the ages
  rowTime                 \* the time of each row there is, and of each there was

retentionVars == <<bridgeVars, clock, rowTime>>

LedgerRow(mid) == <<"ledger", mid>>
ConsumedRow(ref) == <<"consumed", ref>>
EchoRow(d, n) == <<"echo", d, n>>
NoticeRow(mid) == <<"notice", mid>>

Rows ==
  {LedgerRow(mid) : mid \in LedgerIds} \cup {ConsumedRow(r) : r \in consumed}
    \cup {EchoRow(e[1], e[2]) : e \in echo}
    \cup {NoticeRow(mid) : mid \in sentNotice}

WasThere(row) == row \in DOMAIN rowTime

RetentionInit ==
  /\ BridgeInit
  /\ clock = 0
  /\ rowTime = << >>

(* The rows that a step of the bridge inserts get the time of the step. *)
Stamp ==
  rowTime' = [row \in DOMAIN rowTime \cup Rows' |->
                IF row \in Rows' \ Rows THEN clock ELSE rowTime[row]]

Tick ==
  /\ clock < MaxClock
  /\ clock' = clock + 1
  /\ UNCHANGED <<bridgeVars, rowTime>>

---------------------------------------------------------------------------
(* purge_retention, one transaction.                                       *)

(* Mutated: one comparison off by a unit. *)
WithinExclusive(row, age) == clock - rowTime[row] < age

(* DELETE ... WHERE time < now - age *)
Within(row, age) == clock - rowTime[row] <= age

(* What may be left of the rows by ORDER BY time DESC LIMIT -1 OFFSET limit: *)
(* the newest of them; rows of one time in any order.                      *)
NewestOf(rows, limit, Row(_)) ==
  {kept \in SUBSET rows :
     /\ Cardinality(kept) <= limit
     /\ kept # rows => Cardinality(kept) = limit
     /\ \A k \in kept, r \in rows \ kept : rowTime[Row(k)] >= rowTime[Row(r)]}

RowOfLedger(entry) == LedgerRow(entry.mid)
RowOfEcho(e) == EchoRow(e[1], e[2])

(* Mutated: the ledger is cut by count alone. *)
PurgeLedgerByCount == ledger' \in NewestOf(ledger, MaxLedger, RowOfLedger)

PurgeLedger ==
  ledger' \in NewestOf({entry \in ledger : Within(RowOfLedger(entry), RetentionAge)},
                       MaxLedger, RowOfLedger)

(* Mutated: the consume markers go with the short age of the echo markers. *)
PurgeConsumedEarly ==
  consumed' \in NewestOf({r \in consumed : Within(ConsumedRow(r), EchoAge)},
                         MaxConsumed, ConsumedRow)

PurgeConsumed ==
  consumed' \in NewestOf({r \in consumed : Within(ConsumedRow(r), RetentionAge)},
                         MaxConsumed, ConsumedRow)

PurgeEcho ==
  echo' \in NewestOf({e \in echo : Within(RowOfEcho(e), EchoAge)},
                     MaxEcho, RowOfEcho)

(* sent_notice has no limit of its own. *)
PurgeNotices ==
  sentNotice' = {mid \in sentNotice : Within(NoticeRow(mid), RetentionAge)}

Purge ==
  /\ pc = "down"
  /\ PurgeLedger
  /\ PurgeConsumed
  /\ PurgeEcho
  /\ PurgeNotices
  /\ UNCHANGED <<cursor, enabled, valid, notified, pending, waiting, worldVars,
                 pc, ret, localVars, base, mailVars, mailLocals, clock, rowTime>>

RetentionNext ==
  \/ BridgeNext /\ Stamp /\ UNCHANGED clock
  \/ Tick
  \/ Purge

RetentionSpec == RetentionInit /\ [][RetentionNext]_retentionVars

---------------------------------------------------------------------------
(* Properties.                                                             *)

RetentionTypeOK ==
  /\ BridgeTypeOK
  /\ clock \in Nat
  /\ Rows \subseteq DOMAIN rowTime
  /\ \A row \in DOMAIN rowTime : rowTime[row] \in 0 .. clock

(* A mail that was consumed once never acts again: its consume marker is   *)
(* there, or the mail it answers is in no book any more, so that the mail  *)
(* is a stranger's.  This is what the common age of the ledger, the        *)
(* notices and the consume markers is for; MaxConsumed has to take all the *)
(* consumed mails that answer a mail in the books.                         *)
PurgeRevivesNothing ==
  \A r \in DOMAIN inbox :
    WasThere(ConsumedRow(r)) => r \in consumed \/ ~IsBridgeMessage(Parent(r))

(* alg-dedup-idempotency: no second publication of what was consumed.      *)
ConsumedStaysConsumed ==
  [][\A r \in consumed' \ consumed : ~WasThere(ConsumedRow(r))]_retentionVars

(* The bridge mails a post of its own back to U only where its echo marker *)
(* was purged: the inbound cycle did not fetch the post for longer than    *)
(* ECHO_RETENTION_SECONDS.                                                 *)
EchoWindow ==
  \A p \in posts, m \in mailU :
    LET row == EchoRow(p.dialog, p.id) IN
    m.dialog = p.dialog /\ p.id \in m.msgs /\ WasThere(row)
      => clock - rowTime[row] > EchoAge

(* The mails that were ever acted on keep the promise of module Answers,   *)
(* whatever the purges leave of the markers and of the books.              *)
ActedOn == {r \in DOMAIN inbox : WasThere(ConsumedRow(r))}

EverAnswered == INSTANCE Answers WITH
  letters <- Letters, notices <- noticeU, mails <- Written,
  on <- enabled, acted <- ActedOn, said <- posts

AnswersKeptForEver == EverAnswered!Spec
=============================================================================
