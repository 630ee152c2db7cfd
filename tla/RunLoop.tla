------------------------------ MODULE RunLoop -------------------------------
(***************************************************************************)
(* The timers of BridgeService.run and the rows of runtime_backoff, with   *)
(* time counted.  Here a cycle is only its external calls, in their order, *)
(* and what each makes of its backoff row; what they do to messages and    *)
(* mails is in Inbound and Mailbox, where time is not counted.             *)
(*                                                                         *)
(* Every time is relative to the present: toIn and toMail are next_in and  *)
(* next_mail less the clock, so nothing grows without end.  One dialog     *)
(* stands for every dialog, one call of a cycle for all calls of its kind  *)
(* (the fetch, the downloads and the mails of a dialog; the posts of a     *)
(* poll; the confirmations that wait), and the bridge is on.               *)
(***************************************************************************)
EXTENDS Integers, FiniteSets

CONSTANTS
  Collect, Send,          \* COLLECT_INTERVAL_SECONDS, SEND_INTERVAL_SECONDS
  BackoffMin, BackoffMax, \* BACKOFF_MIN_SECONDS, BACKOFF_MAX_SECONDS
  MinNap,                 \* the shortest sleep of the loop, .1 s
  RestartSec,             \* the unit waits so long before a restart
  FloodWaits,             \* waits that Telegram asks for
  MaxCall,                \* bound: how long a call takes
  MaxFaults               \* bound: calls that fail, and crashes

(* What from_env accepts, in a unit of time not longer than MinNap. *)
ASSUME LoopAssumption ==
  /\ {Collect, Send, BackoffMin, BackoffMax, MinNap} \subseteq Nat \ {0}
  /\ BackoffMin <= BackoffMax
  /\ FloodWaits \subseteq Nat
  /\ {RestartSec, MaxCall, MaxFaults} \subseteq Nat

TgScopes == {"tg:list", "tg:dialog", "tg:post"}
NoticeScope == "mail:session-notice"
ConfirmationScope == "mail:notice"  \* of the confirmation that waits
UnreadScopes == {NoticeScope, ConfirmationScope}
GatedScopes == TgScopes \cup {"mail:poll"}
Scopes == GatedScopes \cup UnreadScopes

VARIABLES
  at,                     \* where run stands
  age,                    \* the clock less the loop's own reading of it, "now"
  toIn, toMail,           \* next_in and next_mail, less the clock
  row,                    \* runtime_backoff: [past, delay, failures] of a scope
  health,                 \* session_health: "valid", "invalid" or "told"
  pending,                \* there is a row in pending_notice
  stopping,               \* _stop
  faults,
  sinceStop,              \* history: the time since _stop was set
  rest,                   \* history: how long a scope still has to be left alone
  most,                   \* history: and how long it may still be left alone
  failed,                 \* history: the failures of a scope since it succeeded
  tried                   \* history: the scopes called in the last step

timerVars == <<toIn, toMail>>
waitVars == <<rest, most, failed>>
historyVars == <<sinceStop, waitVars, tried>>
loopVars == <<at, age, timerVars, row, health, pending, stopping, faults, historyVars>>

InboundPoints == {"gate", "list", "dialog", "inNotice", "inEnd"}
MailboxPoints == {"poll", "post", "postNotice", "flush", "lastNotice", "mailEnd"}
Points == {"top", "check", "doze", "ended", "dead"}
            \cup InboundPoints \cup MailboxPoints

NoRow == [past |-> 0, delay |-> 0, failures |-> 0]

LoopInit ==
  /\ at = "top"
  /\ age = 0
  /\ toIn = 0
  /\ toMail = 0
  /\ row = [s \in Scopes |-> NoRow]
  /\ health \in {"valid", "invalid"}
  /\ pending = FALSE
  /\ stopping = FALSE
  /\ faults = 0
  /\ sinceStop = 0
  /\ rest = [s \in Scopes |-> 0]
  /\ most = [s \in Scopes |-> 0]
  /\ failed = [s \in Scopes |-> 0]
  /\ tried = {}

Smaller(a, b) == IF a <= b THEN a ELSE b
Larger(a, b) == IF a >= b THEN a ELSE b

---------------------------------------------------------------------------
(* Time, and the rows of runtime_backoff.                                  *)

(* Mutated: the time that passes is taken off. *)
AgedBackwards(dt) ==
  [s \in Scopes |-> [row[s] EXCEPT !.past = @ - dt]]

(* A row is only told apart until its not_before is reached. *)
Aged(dt) ==
  [s \in Scopes |-> [past |-> Smaller(row[s].delay, row[s].past + dt),
                     delay |-> row[s].delay,
                     failures |-> row[s].failures]]

(* What is left of a wait. *)
Lapsed(wait, dt) == [s \in Scopes |-> Larger(0, wait[s] - dt)]

Waited(dt) == rest' = Lapsed(rest, dt) /\ most' = Lapsed(most, dt)

Passes(dt) ==
  /\ age' = age + dt
  /\ toIn' = toIn - dt
  /\ toMail' = toMail - dt
  /\ sinceStop' = IF stopping THEN sinceStop + dt ELSE 0

(* _due: there is no row, or its not_before is past. *)
Due(scope) == row[scope].past >= row[scope].delay

(* The jitter, a tenth at most. *)
Jitter(delay) == (delay + 9) \div 10

(* The wait after a failure that follows so many others. *)
Base(failures) == Smaller(BackoffMax, BackoffMin * 2^failures)

(* next_backoff: the delays it may choose. *)
Delays(failures) ==
  LET base == Base(failures) IN
  {d \in BackoffMin .. BackoffMax : base <= d /\ d <= base + Jitter(base)}

FloodDelay(wait) == Larger(BackoffMin, wait)

(* DESIGN.md: min(max, minimum * 2^(failures-1)), a small jitter, and the  *)
(* minimum observed.                                                       *)
LongestDelay(failures) ==
  LET base == Base(failures - 1)
  IN Smaller(BackoffMax, Larger(BackoffMin, base + Jitter(base)))

Fault ==
  /\ faults < MaxFaults
  /\ faults' = faults + 1

(* record_failure, after a call that took dt. *)
RecordFailure(scope, dt) ==
  LET Writes(delay, asked, limit) ==
        /\ row' = [Aged(dt) EXCEPT ![scope] = [past |-> 0, delay |-> delay,
                                              failures |-> row[scope].failures + 1]]
        /\ rest' = [Lapsed(rest, dt) EXCEPT ![scope] = asked]
        /\ most' = [Lapsed(most, dt) EXCEPT ![scope] = limit]
  IN /\ failed' = [failed EXCEPT ![scope] = @ + 1]
     /\ \/ \E delay \in Delays(row[scope].failures) :
             Writes(delay, BackoffMin, LongestDelay(failed[scope] + 1))
        \/ \E wait \in FloodWaits :
             scope \in TgScopes /\ Writes(FloodDelay(wait), FloodDelay(wait), FloodDelay(wait))

(* Mutated: the row goes, its count of failures stays. *)
ClearBackoffNotBefore(scope, dt) ==
  /\ row' = [Aged(dt) EXCEPT ![scope] = [past |-> 0, delay |-> 0, failures |-> @.failures]]
  /\ Waited(dt)
  /\ failed' = [failed EXCEPT ![scope] = 0]

ClearBackoff(scope, dt) ==
  /\ row' = [Aged(dt) EXCEPT ![scope] = NoRow]
  /\ Waited(dt)
  /\ failed' = [failed EXCEPT ![scope] = 0]

KeepRows(dt) == row' = Aged(dt) /\ Waited(dt) /\ UNCHANGED failed

(* A success after which nobody clears the row. *)
LeaveRow(scope, dt) ==
  row' = Aged(dt) /\ Waited(dt) /\ failed' = [failed EXCEPT ![scope] = 0]

---------------------------------------------------------------------------
(* The calls of the two cycles.                                            *)

Quiet == tried' = {} /\ UNCHANGED <<age, timerVars, row, waitVars, sinceStop>>

Goto(from, to) == at = from /\ at' = to

(* One call under a scope, of any duration. *)
Call(scope, from, dt) ==
  /\ at = from
  /\ tried' = {scope}
  /\ Passes(dt)
  /\ UNCHANGED stopping

Succeeds(scope, dt) == ClearBackoff(scope, dt) /\ UNCHANGED <<health, pending, faults>>
Fails(scope, dt) == Fault /\ RecordFailure(scope, dt) /\ UNCHANGED <<health, pending>>
SessionLost(dt) == Fault /\ health' = "invalid" /\ KeepRows(dt) /\ UNCHANGED pending

Alone == UNCHANGED <<health, pending, stopping, faults>>

Skips(from, to) == Goto(from, to) /\ Quiet /\ Alone

(* Mutated: a scope that is not due is waited for. *)
InboundGateWaits ==
  \/ health = "valid" /\ Due("tg:list") /\ Skips("gate", "list")
  \/ ~(health = "valid" /\ Due("tg:list")) /\ Skips("gate", "gate")

InboundGate ==
  \/ health = "valid" /\ Due("tg:list") /\ Skips("gate", "list")
  \/ ~(health = "valid" /\ Due("tg:list")) /\ Skips("gate", "inEnd")

List(dt) ==
  /\ Call("tg:list", "list", dt)
  /\ \/ Succeeds("tg:list", dt) /\ at' = "dialog"
     \/ Fails("tg:list", dt) /\ at' = "inEnd"
     \/ SessionLost(dt) /\ at' = "inNotice"

(* continue for a dialog that is not due. *)
DialogSkipped == ~Due("tg:dialog") /\ Skips("dialog", "inEnd")

(* The listing already says that there is nothing new. *)
DialogNothingNew ==
  /\ Due("tg:dialog")
  /\ Goto("dialog", "inEnd")
  /\ ClearBackoff("tg:dialog", 0)
  /\ tried' = {}
  /\ UNCHANGED <<age, timerVars, sinceStop>>
  /\ Alone

(* The peer may be gone, which writes no row. *)
Dialog(dt) ==
  /\ Due("tg:dialog")
  /\ Call("tg:dialog", "dialog", dt)
  /\ \/ Succeeds("tg:dialog", dt) /\ at' = "inEnd"
     \/ Fails("tg:dialog", dt) /\ at' = "inEnd"
     \/ Fault /\ KeepRows(dt) /\ at' = "inEnd" /\ UNCHANGED <<health, pending>>
     \/ SessionLost(dt) /\ at' = "inNotice"

(* invalidate_session: it reads "notified" and never its own backoff row. *)
Notice(from, to, dt) ==
  /\ health = "invalid"
  /\ Call(NoticeScope, from, dt)
  /\ at' = to
  /\ \/ ClearBackoff(NoticeScope, dt) /\ health' = "told" /\ UNCHANGED <<pending, faults>>
     \/ Fails(NoticeScope, dt)

NoticeSkipped == health # "invalid" /\ Skips("lastNotice", "mailEnd")

PollSkipped == ~Due("mail:poll") /\ Skips("poll", "mailEnd")

Poll(dt) ==
  /\ Due("mail:poll")
  /\ Call("mail:poll", "poll", dt)
  /\ \/ Succeeds("mail:poll", dt) /\ at' = "post"
     \/ Fails("mail:poll", dt) /\ at' = "mailEnd"

(* A command among the mails; its confirmation has a scope of its own,     *)
(* which has no row yet.                                                   *)
Command ==
  /\ Goto("post", "post")
  /\ ~pending
  /\ pending' = TRUE
  /\ row' = [row EXCEPT ![ConfirmationScope] = NoRow]
  /\ rest' = [rest EXCEPT ![ConfirmationScope] = 0]
  /\ most' = [most EXCEPT ![ConfirmationScope] = 0]
  /\ failed' = [failed EXCEPT ![ConfirmationScope] = 0]
  /\ tried' = {}
  /\ UNCHANGED <<age, timerVars, sinceStop, health, stopping, faults>>

(* There is no reply, or it may not be posted now. *)
PostSkipped == Skips("post", "flush")

Post(dt) ==
  /\ health = "valid"
  /\ Due("tg:post")
  /\ Call("tg:post", "post", dt)
  /\ \/ LeaveRow("tg:post", dt) /\ at' = "flush" /\ UNCHANGED <<health, pending, faults>>
     \/ Fails("tg:post", dt) /\ at' = "flush"
     \/ SessionLost(dt) /\ at' = "postNotice"

FlushNothing == ~pending /\ Skips("flush", "lastNotice")

(* flush_notices: it does not ask whether the confirmation is due. *)
Flush(dt) ==
  /\ pending
  /\ Call(ConfirmationScope, "flush", dt)
  /\ at' = "lastNotice"
  /\ \/ LeaveRow(ConfirmationScope, dt) /\ pending' = FALSE /\ UNCHANGED <<health, faults>>
     \/ Fails(ConfirmationScope, dt)

(* What the cycles do between two calls. *)
Passing ==
  \/ InboundGate \/ DialogSkipped \/ DialogNothingNew
  \/ PollSkipped \/ Command \/ PostSkipped \/ FlushNothing \/ NoticeSkipped

Calls ==
  \/ Passing
  \/ \E dt \in 0 .. MaxCall :
       \/ List(dt) \/ Dialog(dt) \/ Poll(dt) \/ Post(dt) \/ Flush(dt)
       \/ Notice("inNotice", "inEnd", dt)
       \/ Notice("postNotice", "flush", dt)
       \/ Notice("lastNotice", "mailEnd", dt)

---------------------------------------------------------------------------
(* The loop of run.  "now" is read once in each turn: the check of the     *)
(* mailbox timer after a long inbound cycle still uses the old reading.    *)

(* Mutated: _stop is looked at in an idle turn only. *)
LoopEndsIdle == stopping /\ toIn > 0 /\ Goto("top", "ended") /\ Quiet /\ Alone

LoopEnds == stopping /\ Goto("top", "ended") /\ Quiet /\ Alone

NewReading == age' = 0 /\ tried' = {} /\ UNCHANGED <<timerVars, row, waitVars, sinceStop>>

InboundTurn == ~stopping /\ toIn <= 0 /\ Goto("top", "gate") /\ NewReading /\ Alone

InboundNotYet == ~stopping /\ toIn > 0 /\ Goto("top", "check") /\ NewReading /\ Alone

(* Mutated: "elif", one cycle a turn. *)
InboundDoneElse ==
  /\ Goto("inEnd", "doze")
  /\ toIn' = Collect - age
  /\ tried' = {}
  /\ UNCHANGED <<age, toMail, row, waitVars, sinceStop>>
  /\ Alone

(* next_in = now + interval *)
InboundDone ==
  /\ Goto("inEnd", "check")
  /\ toIn' = Collect - age
  /\ tried' = {}
  /\ UNCHANGED <<age, toMail, row, waitVars, sinceStop>>
  /\ Alone

MailboxTurn == toMail <= -age /\ Goto("check", "poll") /\ Quiet /\ Alone

MailboxNotYet == toMail > -age /\ Goto("check", "doze") /\ Quiet /\ Alone

MailboxDone ==
  /\ Goto("mailEnd", "doze")
  /\ toMail' = Send - age
  /\ tried' = {}
  /\ UNCHANGED <<age, toIn, row, waitVars, sinceStop>>
  /\ Alone

(* Mutated: the whole interval once more. *)
NapInterval == Collect + Send

Nap == Larger(MinNap, Smaller(toIn, toMail))

(* asyncio.sleep; _stop does not cut it short. *)
Sleep ==
  /\ Goto("doze", "top")
  /\ Passes(Nap)
  /\ KeepRows(Nap)
  /\ tried' = {}
  /\ Alone

Turn ==
  \/ LoopEnds \/ InboundTurn \/ InboundNotYet \/ InboundDone
  \/ MailboxTurn \/ MailboxNotYet \/ MailboxDone \/ Sleep

(* SIGTERM *)
Stop ==
  /\ at \notin {"ended", "dead"}
  /\ ~stopping
  /\ stopping' = TRUE
  /\ Quiet
  /\ UNCHANGED <<at, health, pending, faults>>

(* An error that no cycle handles; the rows survive it. *)
Dies ==
  /\ at \notin {"ended", "dead"}
  /\ Fault
  /\ at' = "dead"
  /\ Quiet
  /\ UNCHANGED <<health, pending, stopping>>

(* Mutated: the rows are not kept over a restart. *)
RestartAfresh ==
  /\ Goto("dead", "top")
  /\ toIn' = 0 /\ toMail' = 0 /\ age' = 0
  /\ stopping' = FALSE /\ sinceStop' = 0
  /\ row' = [s \in Scopes |-> NoRow]
  /\ Waited(RestartSec)
  /\ tried' = {} /\ UNCHANGED <<failed, health, pending, faults>>

Restart ==
  /\ Goto("dead", "top")
  /\ toIn' = 0 /\ toMail' = 0 /\ age' = 0
  /\ stopping' = FALSE /\ sinceStop' = 0
  /\ KeepRows(RestartSec)
  /\ tried' = {}
  /\ UNCHANGED <<health, pending, faults>>

(* run_setup between two processes: set_session and clear_tg_backoff. *)
Setup ==
  /\ at = "dead"
  /\ health' = "valid"
  /\ row' = [s \in Scopes |-> IF s \in TgScopes THEN NoRow ELSE row[s]]
  /\ rest' = [s \in Scopes |-> IF s \in TgScopes THEN 0 ELSE rest[s]]
  /\ most' = [s \in Scopes |-> IF s \in TgScopes THEN 0 ELSE most[s]]
  /\ failed' = [s \in Scopes |-> IF s \in TgScopes THEN 0 ELSE failed[s]]
  /\ tried' = {}
  /\ UNCHANGED <<at, age, timerVars, pending, stopping, faults, sinceStop>>

LoopNext == Calls \/ Turn \/ Stop \/ Dies \/ Restart \/ Setup

LoopSpec == LoopInit /\ [][LoopNext]_loopVars

(* The task runs on, and the unit restarts it. *)
LoopLiveSpec == LoopSpec /\ WF_loopVars(Calls \/ Turn) /\ WF_loopVars(Restart)

---------------------------------------------------------------------------
(* Properties.                                                             *)

LoopTypeOK ==
  /\ at \in Points
  /\ age \in Nat
  /\ toIn \in Int
  /\ toMail \in Int
  /\ row \in [Scopes -> [past : Nat, delay : Nat, failures : Nat]]
  /\ health \in {"valid", "invalid", "told"}
  /\ pending \in BOOLEAN
  /\ stopping \in BOOLEAN
  /\ faults \in Nat
  /\ sinceStop \in Nat
  /\ rest \in [Scopes -> Nat]
  /\ most \in [Scopes -> Nat]
  /\ failed \in [Scopes -> Nat]
  /\ tried \subseteq Scopes

(* The longest inbound and mailbox cycles: three calls and five. *)
LongestInbound == 3 * MaxCall
LongestMailbox == 5 * MaxCall

(* Neither cycle is late for long, however long both take and however      *)
(* short the intervals are: where the loop reads the clock, its two timers *)
(* are at most one turn of the loop behind.                                *)
TimersOnTime ==
  at = "top" =>
    /\ toIn >= -(LongestInbound + LongestMailbox + MinNap)
    /\ toMail >= -(LongestInbound + LongestMailbox + MinNap)

(* After SIGTERM the process ends within one turn of the loop, the sleep   *)
(* that nothing cuts short included.                                       *)
EndsSoon ==
  stopping /\ at # "dead" =>
    sinceStop <= LongestInbound + LongestMailbox
                   + Larger(MinNap, Smaller(Collect, Send))

(* No listing, dialog, post or poll is tried again before the wait that    *)
(* Telegram asked for or the configured minimum is over, whatever happens  *)
(* in between, a restart of the process included.  Setup starts afresh.    *)
GatedCallsWait ==
  [][\A s \in GatedScopes : rest[s] > 0 => s \notin tried']_loopVars

(* Nor is a listing, a dialog or a poll left alone for longer than its     *)
(* failures since its last success ask for: the flood wait, or the         *)
(* doubled minimum with its jitter.                                        *)
WaitsNoLonger ==
  \A s \in GatedScopes \ {"tg:post"} : ~Due(s) => most[s] > 0

(* alg-backoff-on-floodwait: the interval between two tries is never less  *)
(* than the backoff, that of the mails to the user included.  The code     *)
(* writes the rows of the session notice and of the confirmations, and     *)
(* reads them nowhere.                                                     *)
EveryCallWaits ==
  [][\A s \in Scopes : rest[s] > 0 => s \notin tried']_loopVars

(* Neither cycle starves the other, unless the process is to stop. *)
CyclesForEver ==
  /\ []<>(at = "gate" \/ stopping)
  /\ []<>(at = "poll" \/ stopping)

(* SIGTERM ends the process; or it dies on the way and is started again. *)
StopEnds == stopping ~> at \in {"ended", "dead"}
=============================================================================
