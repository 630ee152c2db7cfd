--------------------------- MODULE RunLoop_proofs ---------------------------
(***************************************************************************)
(* The timers and the backoff rows of RunLoop, for every interval, every   *)
(* length of the calls and every number of failures.                       *)
(***************************************************************************)
EXTENDS RunLoop, TLAPS

Rows == [past : Nat, delay : Nat, failures : Nat]

(* The units of time are numbers, the four settings and the nap positive.  *)
LEMMA Settings ==
  /\ Collect \in Nat /\ Collect > 0
  /\ Send \in Nat /\ Send > 0
  /\ BackoffMin \in Nat /\ BackoffMin > 0
  /\ BackoffMax \in Nat
  /\ MinNap \in Nat /\ MinNap > 0
  /\ RestartSec \in Nat
  /\ MaxCall \in Nat
  /\ MaxFaults \in Nat
  /\ FloodWaits \subseteq Nat
BY LoopAssumption

---------------------------------------------------------------------------
(* The rows.                                                               *)

(* How much a scope has to be left alone at most: what is left of its row. *)
RestsWithin(r, w) == r.past <= r.delay /\ w <= r.delay - r.past

(* How much it may be left alone at least. *)
EndsWithin(r, m) == r.delay - r.past <= m

(* The scopes whose row a success clears. *)
ClearedScopes == GatedScopes \ {"tg:post"}

(* Every scope that somebody asks about is left alone no longer than its   *)
(* row says.                                                               *)
RowsCover(rows, rests) == \A s \in GatedScopes : RestsWithin(rows[s], rests[s])

(* And, where a success clears the row, no longer than its failures ask,   *)
(* which the row has counted.                                              *)
RowsEnd(rows, limits) == \A s \in ClearedScopes : EndsWithin(rows[s], limits[s])

RowsCount(rows, counts) == \A s \in ClearedScopes : rows[s].failures = counts[s]

LEMMA ScopesUsed ==
  /\ GatedScopes = {"tg:list", "tg:dialog", "tg:post", "mail:poll"}
  /\ ClearedScopes = {"tg:list", "tg:dialog", "mail:poll"}
  /\ Scopes = GatedScopes \cup {NoticeScope, ConfirmationScope}
  /\ TgScopes \subseteq Scopes
  /\ {NoticeScope, ConfirmationScope} \cap GatedScopes = {}
  /\ {NoticeScope, ConfirmationScope} \cap TgScopes = {}
BY DEF Scopes, GatedScopes, ClearedScopes, UnreadScopes, TgScopes, NoticeScope,
       ConfirmationScope

WaitTypes ==
  /\ row \in [Scopes -> Rows]
  /\ rest \in [Scopes -> Nat]
  /\ most \in [Scopes -> Nat]
  /\ failed \in [Scopes -> Nat]

RowsOK ==
  /\ WaitTypes
  /\ RowsCover(row, rest)
  /\ RowsEnd(row, most)
  /\ RowsCount(row, failed)

(* Time takes from the row and from both waits alike. *)
LEMMA AgedOK ==
  ASSUME RowsOK, NEW dt \in Nat
  PROVE  /\ Aged(dt) \in [Scopes -> Rows]
         /\ Lapsed(rest, dt) \in [Scopes -> Nat]
         /\ Lapsed(most, dt) \in [Scopes -> Nat]
         /\ RowsCover(Aged(dt), Lapsed(rest, dt))
         /\ RowsEnd(Aged(dt), Lapsed(most, dt))
         /\ \A s \in Scopes : Aged(dt)[s].failures = row[s].failures
<1>1. ASSUME NEW s \in Scopes
      PROVE  /\ Aged(dt)[s] \in Rows
             /\ Lapsed(rest, dt)[s] \in Nat /\ Lapsed(most, dt)[s] \in Nat
             /\ RestsWithin(row[s], rest[s]) => RestsWithin(Aged(dt)[s], Lapsed(rest, dt)[s])
             /\ EndsWithin(row[s], most[s]) => EndsWithin(Aged(dt)[s], Lapsed(most, dt)[s])
             /\ Aged(dt)[s].failures = row[s].failures
  <2>1. /\ row[s].past \in Nat /\ row[s].delay \in Nat /\ row[s].failures \in Nat
        /\ rest[s] \in Nat /\ most[s] \in Nat
    BY <1>1 DEF RowsOK, WaitTypes, Rows
  <2>2. /\ Aged(dt)[s] = [past |-> Smaller(row[s].delay, row[s].past + dt),
                          delay |-> row[s].delay, failures |-> row[s].failures]
        /\ Lapsed(rest, dt)[s] = Larger(0, rest[s] - dt)
        /\ Lapsed(most, dt)[s] = Larger(0, most[s] - dt)
    BY <1>1 DEF Aged, Lapsed
  <2>3. Smaller(row[s].delay, row[s].past + dt) \in Nat
    BY <2>1 DEF Smaller
  <2>4. Larger(0, rest[s] - dt) \in Nat /\ Larger(0, most[s] - dt) \in Nat
    BY <2>1 DEF Larger
  <2>5. Aged(dt)[s] \in Rows
    BY <2>1, <2>2, <2>3 DEF Rows
  <2>6. ASSUME RestsWithin(row[s], rest[s])
        PROVE  RestsWithin(Aged(dt)[s], Lapsed(rest, dt)[s])
    BY <2>1, <2>2, <2>6 DEF RestsWithin, Smaller, Larger
  <2>7. ASSUME EndsWithin(row[s], most[s])
        PROVE  EndsWithin(Aged(dt)[s], Lapsed(most, dt)[s])
    BY <2>1, <2>2, <2>7 DEF EndsWithin, Smaller, Larger
  <2> QED BY <2>2, <2>4, <2>5, <2>6, <2>7
<1>2. Aged(dt) \in [Scopes -> Rows]
  BY <1>1 DEF Aged
<1>3. Lapsed(rest, dt) \in [Scopes -> Nat] /\ Lapsed(most, dt) \in [Scopes -> Nat]
  BY <1>1 DEF Lapsed
<1>4. GatedScopes \subseteq Scopes /\ ClearedScopes \subseteq Scopes
  BY ScopesUsed
<1> QED BY <1>1, <1>2, <1>3, <1>4 DEF RowsOK, RowsCover, RowsEnd

LEMMA KeepRowsOK ==
  ASSUME RowsOK, NEW dt \in Nat, KeepRows(dt)
  PROVE  RowsOK'
<1>1. ClearedScopes \subseteq Scopes
  BY ScopesUsed
<1> QED BY <1>1, AgedOK DEF RowsOK, WaitTypes, RowsCover, RowsEnd, RowsCount, KeepRows, Waited

(* A success that leaves the row is none of a scope that a success clears. *)
LEMMA LeaveRowOK ==
  ASSUME RowsOK, NEW scope \in Scopes, scope \notin ClearedScopes, NEW dt \in Nat,
         LeaveRow(scope, dt)
  PROVE  RowsOK'
<1>1. ClearedScopes \subseteq Scopes
  BY ScopesUsed
<1>2. failed' \in [Scopes -> Nat] /\ \A s \in ClearedScopes : failed'[s] = failed[s]
  BY <1>1 DEF LeaveRow, RowsOK, WaitTypes
<1> QED BY <1>1, <1>2, AgedOK
        DEF RowsOK, WaitTypes, RowsCover, RowsEnd, RowsCount, LeaveRow, Waited

(* A row may only be cleared once its scope need not be left alone; the    *)
(* session notice is not asked about.                                      *)
LEMMA ClearBackoffOK ==
  ASSUME RowsOK, NEW scope \in Scopes, NEW dt \in Nat,
         scope \notin GatedScopes \/ Due(scope), ClearBackoff(scope, dt)
  PROVE  RowsOK'
<1>1. /\ Aged(dt) \in [Scopes -> Rows]
      /\ Lapsed(rest, dt) \in [Scopes -> Nat]
      /\ Lapsed(most, dt) \in [Scopes -> Nat]
      /\ RowsCover(Aged(dt), Lapsed(rest, dt))
      /\ RowsEnd(Aged(dt), Lapsed(most, dt))
      /\ \A s \in Scopes : Aged(dt)[s].failures = row[s].failures
  BY AgedOK
<1>2. NoRow \in Rows
  BY DEF NoRow, Rows
<1>3. GatedScopes \subseteq Scopes /\ ClearedScopes \subseteq Scopes
  BY ScopesUsed
<1>4. WaitTypes'
  BY <1>1, <1>2 DEF ClearBackoff, Waited, RowsOK, WaitTypes
<1>5. ASSUME NEW s \in GatedScopes
      PROVE  RestsWithin(row'[s], rest'[s])
  <2>1. CASE s = scope
    <3>1. row'[s] = NoRow /\ rest'[s] = Lapsed(rest, dt)[s]
      BY <1>1, <1>3, <2>1 DEF ClearBackoff, Waited
    <3>2. row[s].past >= row[s].delay
      BY <1>5, <2>1 DEF Due
    <3>3. RestsWithin(row[s], rest[s]) /\ row[s] \in Rows /\ rest[s] \in Nat
      BY <1>3 DEF RowsOK, RowsCover, WaitTypes
    <3>4. rest[s] = 0
      BY <3>2, <3>3 DEF RestsWithin, Rows
    <3>5. Lapsed(rest, dt)[s] = 0
      BY <3>4, <1>3 DEF Lapsed, Larger
    <3> QED BY <3>1, <3>5 DEF RestsWithin, NoRow
  <2>2. CASE s # scope
    BY <1>1, <1>3, <2>2 DEF ClearBackoff, Waited, RowsCover
  <2> QED BY <2>1, <2>2
<1>6. ASSUME NEW s \in ClearedScopes
      PROVE  EndsWithin(row'[s], most'[s]) /\ row'[s].failures = failed'[s]
  <2>1. CASE s = scope
    <3>1. row'[s] = NoRow /\ most'[s] \in Nat /\ failed'[s] = 0
      BY <1>1, <1>3, <2>1 DEF ClearBackoff, Waited, RowsOK, WaitTypes
    <3> QED BY <3>1 DEF EndsWithin, NoRow
  <2>2. CASE s # scope
    <3>1. row'[s] = Aged(dt)[s] /\ most'[s] = Lapsed(most, dt)[s] /\ failed'[s] = failed[s]
      BY <1>1, <1>3, <2>2 DEF ClearBackoff, Waited, RowsOK, WaitTypes
    <3> QED BY <3>1, <1>1, <1>3 DEF RowsEnd, RowsOK, RowsCount
  <2> QED BY <2>1, <2>2
<1> QED BY <1>4, <1>5, <1>6 DEF RowsOK, RowsCover, RowsEnd, RowsCount

(* The longest that a base with its jitter can be, in the bounds of the    *)
(* configuration.                                                          *)
LEMMA LongestDelayNat ==
  ASSUME NEW failures \in Nat
  PROVE  /\ Base(failures) + Jitter(Base(failures)) \in Int
         /\ LongestDelay(failures + 1) =
              Smaller(BackoffMax, Larger(BackoffMin, Base(failures) + Jitter(Base(failures))))
         /\ LongestDelay(failures + 1) \in Nat
<1> DEFINE longest == Base(failures) + Jitter(Base(failures))
<1>1. Base(failures) \in Int
  BY Settings DEF Base, Smaller
<1>2. longest \in Int
  BY <1>1 DEF Jitter
<1>3. LongestDelay(failures + 1) = Smaller(BackoffMax, Larger(BackoffMin, longest))
  BY failures + 1 - 1 = failures DEF LongestDelay
<1> HIDE DEF longest
<1>4. LongestDelay(failures + 1) \in Nat
  BY <1>2, <1>3, Settings DEF Smaller, Larger
<1> QED BY <1>2, <1>3, <1>4 DEF longest

(* What next_backoff chooses is as long as the minimum and, where the      *)
(* count is right, no longer than the document allows.                     *)
LEMMA DelaysBound ==
  ASSUME NEW failures \in Nat, NEW delay \in Delays(failures)
  PROVE  /\ delay \in Nat /\ BackoffMin <= delay
         /\ LongestDelay(failures + 1) \in Nat
         /\ delay <= LongestDelay(failures + 1)
<1> DEFINE longest == Base(failures) + Jitter(Base(failures))
<1>1. delay \in Nat /\ BackoffMin <= delay /\ delay <= BackoffMax /\ delay <= longest
  BY Settings DEF Delays
<1>2. /\ longest \in Int
      /\ LongestDelay(failures + 1) = Smaller(BackoffMax, Larger(BackoffMin, longest))
      /\ LongestDelay(failures + 1) \in Nat
  BY LongestDelayNat
<1> HIDE DEF longest
<1> QED BY <1>1, <1>2 DEF Smaller, Larger

(* A failure writes a row at least as long as what was asked for, the      *)
(* minimum or the wait of Telegram, and at most as long as its count       *)
(* allows.                                                                 *)
LEMMA RecordFailureOK ==
  ASSUME RowsOK, NEW scope \in Scopes, NEW dt \in Nat, RecordFailure(scope, dt)
  PROVE  RowsOK'
<1>1. /\ Aged(dt) \in [Scopes -> Rows]
      /\ Lapsed(rest, dt) \in [Scopes -> Nat]
      /\ Lapsed(most, dt) \in [Scopes -> Nat]
      /\ RowsCover(Aged(dt), Lapsed(rest, dt))
      /\ RowsEnd(Aged(dt), Lapsed(most, dt))
      /\ \A s \in Scopes : Aged(dt)[s].failures = row[s].failures
  BY AgedOK
<1>2. row[scope].failures \in Nat /\ failed[scope] \in Nat
  BY DEF RowsOK, WaitTypes, Rows
<1> DEFINE Writes(delay, asked, limit) ==
             /\ row' = [Aged(dt) EXCEPT ![scope] =
                          [past |-> 0, delay |-> delay,
                           failures |-> row[scope].failures + 1]]
             /\ rest' = [Lapsed(rest, dt) EXCEPT ![scope] = asked]
             /\ most' = [Lapsed(most, dt) EXCEPT ![scope] = limit]
<1>3. \/ \E delay \in Delays(row[scope].failures) :
           Writes(delay, BackoffMin, LongestDelay(failed[scope] + 1))
      \/ \E wait \in FloodWaits : Writes(FloodDelay(wait), FloodDelay(wait), FloodDelay(wait))
  BY DEF RecordFailure
<1>4. LongestDelay(failed[scope] + 1) \in Nat
  BY <1>2, LongestDelayNat
<1>5. PICK delay \in Nat, asked \in Nat, limit \in Nat :
        /\ asked <= delay
        /\ scope \in ClearedScopes => delay <= limit
        /\ Writes(delay, asked, limit)
  <2>1. CASE \E delay \in Delays(row[scope].failures) :
               Writes(delay, BackoffMin, LongestDelay(failed[scope] + 1))
    <3>1. PICK delay \in Delays(row[scope].failures) :
            Writes(delay, BackoffMin, LongestDelay(failed[scope] + 1))
      BY <2>1
    <3>2. delay \in Nat /\ BackoffMin <= delay /\ BackoffMin \in Nat
      BY <1>2, DelaysBound, Settings
    <3>3. scope \in ClearedScopes => delay <= LongestDelay(failed[scope] + 1)
      BY <1>2, DelaysBound DEF RowsOK, RowsCount
    <3> HIDE DEF Writes
    <3> QED BY <1>4, <3>1, <3>2, <3>3
  <2>2. CASE \E wait \in FloodWaits :
               Writes(FloodDelay(wait), FloodDelay(wait), FloodDelay(wait))
    <3>1. PICK wait \in FloodWaits :
            Writes(FloodDelay(wait), FloodDelay(wait), FloodDelay(wait))
      BY <2>2
    <3>2. FloodDelay(wait) \in Nat
      BY Settings DEF FloodDelay, Larger
    <3>3. \A n \in Nat : n <= n
      OBVIOUS
    <3> HIDE DEF Writes
    <3> QED BY <3>1, <3>2, <3>3
  <2> HIDE DEF Writes
  <2> QED BY <1>3, <2>1, <2>2
<1>6. failed' = [failed EXCEPT ![scope] = @ + 1]
  BY DEF RecordFailure
<1>7. [past |-> 0, delay |-> delay, failures |-> row[scope].failures + 1] \in Rows
  BY <1>2 DEF Rows
<1>8. WaitTypes'
  BY <1>1, <1>2, <1>5, <1>6, <1>7 DEF RowsOK, WaitTypes
<1>9. ClearedScopes \subseteq GatedScopes /\ GatedScopes \subseteq Scopes
  BY ScopesUsed
<1>10. ASSUME NEW s \in GatedScopes
       PROVE  RestsWithin(row'[s], rest'[s])
  <2>1. CASE s = scope
    BY <1>1, <1>5, <2>1 DEF RestsWithin
  <2>2. CASE s # scope
    BY <1>1, <1>5, <1>9, <2>2 DEF RowsCover
  <2> QED BY <2>1, <2>2
<1>11. ASSUME NEW s \in ClearedScopes
       PROVE  EndsWithin(row'[s], most'[s]) /\ row'[s].failures = failed'[s]
  <2>1. CASE s = scope
    <3>1. row'[s].failures = row[s].failures + 1 /\ failed'[s] = failed[s] + 1
      BY <1>1, <1>5, <1>6, <2>1 DEF RowsOK, WaitTypes
    <3>2. row[s].failures = failed[s]
      BY <2>1 DEF RowsOK, RowsCount
    <3>3. EndsWithin(row'[s], most'[s])
      BY <1>1, <1>5, <2>1 DEF EndsWithin
    <3> QED BY <3>1, <3>2, <3>3
  <2>2. CASE s # scope
    <3>1. row'[s] = Aged(dt)[s] /\ most'[s] = Lapsed(most, dt)[s] /\ failed'[s] = failed[s]
      BY <1>1, <1>5, <1>6, <1>9, <2>2 DEF RowsOK, WaitTypes
    <3> QED BY <3>1, <1>1, <1>9 DEF RowsEnd, RowsOK, RowsCount
  <2> QED BY <2>1, <2>2
<1> QED BY <1>8, <1>10, <1>11 DEF RowsOK, RowsCover, RowsEnd, RowsCount

---------------------------------------------------------------------------
(* The clock.  A turn of the loop passes through the control points in one *)
(* direction, so what it has spent is bounded at each of them.             *)

SkipEdges ==
  {<<"gate", "list">>, <<"gate", "inEnd">>, <<"dialog", "inEnd">>,
   <<"poll", "mailEnd">>, <<"post", "post">>, <<"post", "flush">>,
   <<"flush", "lastNotice">>, <<"lastNotice", "mailEnd">>}

CallEdges ==
  {<<"list", "dialog">>, <<"list", "inEnd">>, <<"list", "inNotice">>,
   <<"dialog", "inEnd">>, <<"dialog", "inNotice">>, <<"inNotice", "inEnd">>,
   <<"poll", "post">>, <<"poll", "mailEnd">>, <<"post", "flush">>,
   <<"post", "postNotice">>, <<"postNotice", "flush">>,
   <<"flush", "lastNotice">>, <<"lastNotice", "mailEnd">>}

TurnPoints == InboundPoints \cup {"check"} \cup MailboxPoints \cup {"doze"}

(* The points after the inbound timer was looked at. *)
AfterInbound == {"check"} \cup MailboxPoints \cup {"doze"}

Budget(p) ==
  IF p \in {"gate", "list"} THEN 0
  ELSE IF p = "dialog" THEN MaxCall
  ELSE IF p = "inNotice" THEN MaxCall + MaxCall
  ELSE IF p \in {"inEnd", "check", "poll"} THEN LongestInbound
  ELSE IF p = "post" THEN LongestInbound + MaxCall
  ELSE IF p = "postNotice" THEN LongestInbound + MaxCall + MaxCall
  ELSE IF p = "flush" THEN LongestInbound + MaxCall + MaxCall + MaxCall
  ELSE IF p = "lastNotice" THEN LongestInbound + MaxCall + MaxCall + MaxCall + MaxCall
  ELSE LongestInbound + LongestMailbox

ClockStands == UNCHANGED <<age, timerVars, sinceStop>>

(* A step of a cycle is one along an edge that takes no time, or along one *)
(* that takes no longer than a call.                                       *)
LEMMA CallsFollowEdges ==
  ASSUME Calls
  PROVE  /\ UNCHANGED stopping
         /\ \/ ClockStands /\ <<at, at'>> \in SkipEdges
            \/ /\ <<at, at'>> \in CallEdges
               /\ \E dt \in 0 .. MaxCall : Passes(dt)
<1>1. CASE Passing
  BY <1>1 DEF Passing, InboundGate, DialogSkipped, DialogNothingNew, PollSkipped,
              Command, PostSkipped, FlushNothing, NoticeSkipped, Skips, Goto, Quiet,
              Alone, ClockStands, timerVars, SkipEdges
<1>2. ASSUME NEW dt \in 0 .. MaxCall,
             \/ List(dt) \/ Dialog(dt) \/ Poll(dt) \/ Post(dt) \/ Flush(dt)
             \/ Notice("inNotice", "inEnd", dt)
             \/ Notice("postNotice", "flush", dt)
             \/ Notice("lastNotice", "mailEnd", dt)
      PROVE  UNCHANGED stopping /\ Passes(dt) /\ <<at, at'>> \in CallEdges
  BY <1>2 DEF List, Dialog, Poll, Post, Flush, Notice, Call, CallEdges
<1> QED BY <1>1, <1>2 DEF Calls

LEMMA BudgetGrows ==
  /\ \A p \in Points : Budget(p) \in Nat /\ Budget(p) <= LongestInbound + LongestMailbox
  /\ \A e \in SkipEdges : Budget(e[1]) <= Budget(e[2])
  /\ \A e \in CallEdges : Budget(e[1]) + MaxCall <= Budget(e[2])
  /\ LongestInbound \in Nat /\ LongestMailbox \in Nat
<1>1. MaxCall \in Nat
  BY Settings
<1>2. LongestInbound = 3 * MaxCall /\ LongestMailbox = 5 * MaxCall
  BY DEF LongestInbound, LongestMailbox
<1>3. \A e \in SkipEdges : Budget(e[1]) <= Budget(e[2])
  BY <1>1, <1>2 DEF SkipEdges, Budget
<1>4. \A e \in CallEdges : Budget(e[1]) + MaxCall <= Budget(e[2])
  BY <1>1, <1>2 DEF CallEdges, Budget
<1>5. ASSUME NEW p \in Points
      PROVE  Budget(p) \in Nat /\ Budget(p) <= LongestInbound + LongestMailbox
  BY <1>1, <1>2 DEF Budget
<1> QED BY <1>1, <1>2, <1>3, <1>4, <1>5

LongestTurn == LongestInbound + LongestMailbox
LongestNap == Larger(MinNap, Smaller(Collect, Send))

ClockTypes ==
  /\ at \in Points
  /\ age \in Nat
  /\ toIn \in Int
  /\ toMail \in Int
  /\ stopping \in BOOLEAN
  /\ sinceStop \in Nat

(* Both timers have been set at most one interval ahead. *)
TimersSet == toIn <= Collect /\ toMail <= Send

(* Within a turn: what it has spent, and since when the process is to stop.*)
TurnSpent == at \in TurnPoints => age <= Budget(at) /\ sinceStop <= age

(* A timer that was looked at is ahead of the loop's reading of the clock. *)
TimersAhead ==
  /\ at \in AfterInbound => toIn + age >= 1
  /\ at = "doze" => toMail + age >= 1

StopCounted ==
  /\ ~stopping => sinceStop = 0
  /\ at \in {"top", "ended"} => sinceStop <= LongestTurn + LongestNap

ClockInv ==
  ClockTypes /\ TimersSet /\ TurnSpent /\ TimersAhead /\ TimersOnTime /\ StopCounted
LEMMA ClockInit == LoopInit => ClockInv
<1> SUFFICES ASSUME LoopInit PROVE ClockInv
  OBVIOUS
<1>1. /\ at = "top" /\ age = 0 /\ toIn = 0 /\ toMail = 0 /\ sinceStop = 0
      /\ stopping = FALSE
  BY DEF LoopInit
<1>2. LongestInbound \in Nat /\ LongestMailbox \in Nat /\ LongestNap \in Nat
  BY Settings, BudgetGrows DEF LongestNap, Larger, Smaller
<1>3. ClockTypes
  BY <1>1, 0 \in Nat, 0 \in Int DEF ClockTypes, Points
<1>4. "top" \notin TurnPoints /\ "top" \notin AfterInbound
  BY DEF TurnPoints, AfterInbound, InboundPoints, MailboxPoints
<1>5. StopCounted
  BY <1>1, <1>2 DEF StopCounted, LongestTurn
<1>6. TimersOnTime
  BY <1>1, <1>2, Settings DEF TimersOnTime
<1> QED BY <1>1, <1>3, <1>4, <1>5, <1>6, Settings
        DEF ClockInv, TimersSet, TurnSpent, TimersAhead

(* A step of a cycle along an edge. *)
LEMMA ClockCalls ==
  ASSUME ClockInv, Calls
  PROVE  ClockInv'
<1> USE DEF ClockInv, ClockTypes
<1>e. /\ stopping' = stopping
      /\ \/ ClockStands /\ <<at, at'>> \in SkipEdges
         \/ /\ <<at, at'>> \in CallEdges
            /\ \E dt \in 0 .. MaxCall : Passes(dt)
  BY CallsFollowEdges
<1>p. /\ at \in TurnPoints
      /\ at' \in TurnPoints /\ at' \in Points
      /\ at' \in AfterInbound => at \in AfterInbound
      /\ at' \notin {"top", "ended", "doze"}
  BY <1>e DEF SkipEdges, CallEdges, TurnPoints, AfterInbound, InboundPoints,
             MailboxPoints, Points
<1>b. Budget(at) \in Nat /\ Budget(at') \in Nat
  BY <1>p, BudgetGrows
<1>t. TimersOnTime' /\ (StopCounted' <=> (~stopping' => sinceStop' = 0))
  BY <1>p DEF TimersOnTime, StopCounted
<1>1. CASE ClockStands /\ <<at, at'>> \in SkipEdges
  <2>1. UNCHANGED <<age, toIn, toMail, sinceStop>>
    BY <1>1 DEF ClockStands, timerVars
  <2>2. Budget(at) <= Budget(at')
    BY <1>1, BudgetGrows
  <2>3. TurnSpent'
    BY <1>p, <1>b, <2>1, <2>2 DEF TurnSpent
  <2>4. TimersSet' /\ TimersAhead' /\ StopCounted'
    BY <1>e, <1>p, <1>t, <2>1 DEF TimersSet, TimersAhead, StopCounted
  <2> QED BY <1>e, <1>p, <1>t, <2>1, <2>3, <2>4
<1>2. ASSUME NEW dt \in 0 .. MaxCall, Passes(dt), <<at, at'>> \in CallEdges
      PROVE  ClockInv'
  <2>0. dt \in Nat /\ dt <= MaxCall /\ MaxCall \in Nat
    BY Settings
  <2>1. /\ age' = age + dt /\ toIn' = toIn - dt /\ toMail' = toMail - dt
        /\ sinceStop' = IF stopping THEN sinceStop + dt ELSE 0
    BY <1>2 DEF Passes
  <2>2. Budget(at) + MaxCall <= Budget(at')
    BY <1>2, BudgetGrows
  <2>3. TurnSpent'
    BY <1>p, <1>b, <2>0, <2>1, <2>2 DEF TurnSpent
  <2>4. TimersSet'
    BY <2>0, <2>1, Settings DEF TimersSet
  <2>5. TimersAhead'
    BY <1>p, <2>0, <2>1 DEF TimersAhead
  <2>6. StopCounted'
    BY <1>e, <1>t, <2>1
  <2>7. ClockTypes'
    BY <1>e, <1>p, <2>0, <2>1
  <2> QED BY <1>t, <2>3, <2>4, <2>5, <2>6, <2>7
<1> QED BY <1>e, <1>1, <1>2
(* Steps that neither take time nor touch a timer, off the points of a     *)
(* turn or along it.                                                       *)
LEMMA ClockTurn ==
  ASSUME ClockInv, Turn
  PROVE  ClockInv'
<1> USE DEF ClockInv, ClockTypes, Goto, Quiet, Alone, timerVars
<1> DEFINE N == LongestInbound + LongestMailbox
<1>n. /\ LongestInbound \in Nat /\ LongestMailbox \in Nat /\ LongestNap \in Nat
      /\ Collect \in Nat /\ Collect > 0 /\ Send \in Nat /\ Send > 0
      /\ MinNap \in Nat /\ MinNap > 0
  BY Settings, BudgetGrows DEF LongestNap, Larger, Smaller
<1>b. /\ Budget("gate") = 0 /\ Budget("inEnd") = LongestInbound
      /\ Budget("check") = LongestInbound /\ Budget("poll") = LongestInbound
      /\ Budget("mailEnd") = N /\ Budget("doze") = N
  BY DEF Budget
<1>p. /\ {"gate", "inEnd", "check", "poll", "mailEnd", "doze"} \subseteq TurnPoints
      /\ TurnPoints \subseteq Points /\ {"top", "ended"} \subseteq Points
      /\ {"check", "poll", "mailEnd", "doze"} \subseteq AfterInbound
      /\ "top" \notin TurnPoints /\ "ended" \notin TurnPoints
      /\ {"gate", "top", "ended"} \cap AfterInbound = {}
  BY DEF TurnPoints, AfterInbound, InboundPoints, MailboxPoints, Points
<1>1. CASE LoopEnds
  BY <1>1, <1>p DEF LoopEnds, TimersSet, TurnSpent, TimersAhead, TimersOnTime, StopCounted
<1>2. CASE InboundTurn
  BY <1>2, <1>p, <1>b DEF InboundTurn, NewReading, TimersSet, TurnSpent, TimersAhead,
                          TimersOnTime, StopCounted
<1>3. CASE InboundNotYet
  BY <1>3, <1>p, <1>b, <1>n DEF InboundNotYet, NewReading, TimersSet, TurnSpent,
                                TimersAhead, TimersOnTime, StopCounted
<1>4. CASE InboundDone
  BY <1>4, <1>p, <1>b, <1>n DEF InboundDone, TimersSet, TurnSpent, TimersAhead,
                                TimersOnTime, StopCounted
<1>5. CASE MailboxTurn
  BY <1>5, <1>p, <1>b, <1>n DEF MailboxTurn, TimersSet, TurnSpent, TimersAhead,
                                TimersOnTime, StopCounted
<1>6. CASE MailboxNotYet
  BY <1>6, <1>p, <1>b, <1>n DEF MailboxNotYet, TimersSet, TurnSpent, TimersAhead,
                                TimersOnTime, StopCounted
<1>7. CASE MailboxDone
  BY <1>7, <1>p, <1>b, <1>n DEF MailboxDone, TimersSet, TurnSpent, TimersAhead,
                                TimersOnTime, StopCounted
<1>8. CASE Sleep
  <2>1. /\ at = "doze" /\ at' = "top" /\ stopping' = stopping
        /\ age' = age + Nap /\ toIn' = toIn - Nap /\ toMail' = toMail - Nap
        /\ sinceStop' = IF stopping THEN sinceStop + Nap ELSE 0
    BY <1>8 DEF Sleep, Passes
  <2>2. /\ age <= N /\ sinceStop <= age
        /\ toIn + age >= 1 /\ toMail + age >= 1
        /\ toIn <= Collect /\ toMail <= Send
    BY <2>1, <1>p, <1>b DEF TurnSpent, TimersAhead, TimersSet
  <2>3. /\ Nap \in Nat
        /\ Nap <= LongestNap
        /\ toIn - Nap >= -(N + MinNap)
        /\ toMail - Nap >= -(N + MinNap)
    BY <1>n, <2>2 DEF Nap, LongestNap, Larger, Smaller
  <2>4. TimersOnTime'
    BY <2>1, <2>3 DEF TimersOnTime
  <2>5. StopCounted'
    BY <1>n, <2>1, <2>2, <2>3 DEF StopCounted, LongestTurn
  <2>6. TimersSet' /\ TurnSpent' /\ TimersAhead'
    BY <1>n, <1>p, <2>1, <2>2, <2>3 DEF TimersSet, TurnSpent, TimersAhead
  <2>7. ClockTypes'
    BY <1>p, <2>1, <2>3
  <2> QED BY <2>4, <2>5, <2>6, <2>7
<1> QED BY <1>1, <1>2, <1>3, <1>4, <1>5, <1>6, <1>7, <1>8 DEF Turn

(* SIGTERM, the death of the process, its restart and setup.               *)
LEMMA ClockProcess ==
  ASSUME ClockInv, Stop \/ Dies \/ Restart \/ Setup
  PROVE  ClockInv'
<1> USE DEF ClockInv, ClockTypes, Goto, Quiet, timerVars
<1>n. /\ LongestInbound \in Nat /\ LongestMailbox \in Nat /\ LongestNap \in Nat
      /\ Collect \in Nat /\ Send \in Nat /\ MinNap \in Nat
  BY Settings, BudgetGrows DEF LongestNap, Larger, Smaller
<1>p. /\ {"top", "dead"} \subseteq Points
      /\ {"top", "dead"} \cap (TurnPoints \cup AfterInbound) = {}
  BY DEF TurnPoints, AfterInbound, InboundPoints, MailboxPoints, Points
<1>1. CASE Stop
  BY <1>1, <1>n DEF Stop, TimersSet, TurnSpent, TimersAhead, TimersOnTime, StopCounted,
                    LongestTurn
<1>2. CASE Dies
  BY <1>2, <1>p DEF Dies, TimersSet, TurnSpent, TimersAhead, TimersOnTime, StopCounted
<1>3. CASE Restart
  <2>1. /\ at' = "top" /\ toIn' = 0 /\ toMail' = 0 /\ age' = 0 /\ sinceStop' = 0
        /\ stopping' = FALSE
    BY <1>3 DEF Restart
  <2>2. ClockTypes'
    BY <2>1, <1>p, 0 \in Nat, 0 \in Int
  <2>3. TimersOnTime' /\ TimersSet'
    BY <2>1, <1>n DEF TimersOnTime, TimersSet
  <2>4. TurnSpent' /\ TimersAhead'
    BY <2>1, <1>p DEF TurnSpent, TimersAhead
  <2>5. StopCounted'
    BY <2>1, <1>n DEF StopCounted, LongestTurn
  <2> QED BY <2>2, <2>3, <2>4, <2>5
<1>4. CASE Setup
  BY <1>4, <1>p DEF Setup, TimersSet, TurnSpent, TimersAhead, TimersOnTime, StopCounted
<1> QED BY <1>1, <1>2, <1>3, <1>4
---------------------------------------------------------------------------
(* The rows, step by step.                                                 *)

(* The gate of the inbound cycle asks for the listing; nothing happens to  *)
(* its row before the listing itself.                                      *)
RowsInv == RowsOK /\ (at = "list" => Due("tg:list"))

(* What one call makes of the rows, in each of its outcomes.               *)
LEMMA OutcomesKeepRows ==
  ASSUME RowsOK, NEW scope \in Scopes, NEW dt \in Nat,
         \/ KeepRows(dt)
         \/ SessionLost(dt)
         \/ Fails(scope, dt)
         \/ scope \notin ClearedScopes /\ LeaveRow(scope, dt)
         \/ /\ scope \notin GatedScopes \/ Due(scope)
            /\ Succeeds(scope, dt) \/ ClearBackoff(scope, dt)
  PROVE  RowsOK'
BY KeepRowsOK, LeaveRowOK, RecordFailureOK, ClearBackoffOK DEF SessionLost, Fails, Succeeds

(* A new command has a scope that nobody asks about. *)
LEMMA CommandKeepsRows ==
  ASSUME RowsOK, Command
  PROVE  RowsOK'
<1>1. /\ row' = [row EXCEPT ![ConfirmationScope] = NoRow]
      /\ rest' = [rest EXCEPT ![ConfirmationScope] = 0]
      /\ most' = [most EXCEPT ![ConfirmationScope] = 0]
      /\ failed' = [failed EXCEPT ![ConfirmationScope] = 0]
  BY DEF Command
<1>2. NoRow \in Rows /\ 0 \in Nat
  BY DEF NoRow, Rows
<1>3. WaitTypes'
  BY <1>1, <1>2 DEF RowsOK, WaitTypes
<1>4. \A s \in GatedScopes : row'[s] = row[s] /\ rest'[s] = rest[s] /\ most'[s] = most[s]
                             /\ failed'[s] = failed[s]
  BY <1>1, ScopesUsed DEF RowsOK, WaitTypes
<1>5. ClearedScopes \subseteq GatedScopes
  BY ScopesUsed
<1> QED BY <1>3, <1>4, <1>5 DEF RowsOK, RowsCover, RowsEnd, RowsCount

LEMMA RowsCalls ==
  ASSUME RowsInv, Calls
  PROVE  RowsInv'
<1> USE DEF RowsInv
<1>s. /\ {"tg:list", "tg:dialog", "tg:post", "mail:poll", NoticeScope, ConfirmationScope}
           \subseteq Scopes
      /\ {NoticeScope, ConfirmationScope} \cap GatedScopes = {}
      /\ {"tg:post", NoticeScope, ConfirmationScope} \cap ClearedScopes = {}
  BY ScopesUsed
<1>1. CASE InboundGate \/ DialogSkipped \/ PollSkipped \/ PostSkipped \/ FlushNothing
           \/ NoticeSkipped
  <2>1. row' = row /\ rest' = rest /\ most' = most /\ failed' = failed
    BY <1>1 DEF InboundGate, DialogSkipped, PollSkipped, PostSkipped, FlushNothing,
                NoticeSkipped, Skips, Quiet, waitVars
  <2>2. at' = "list" => Due("tg:list")
    BY <1>1 DEF InboundGate, DialogSkipped, PollSkipped, PostSkipped, FlushNothing,
                NoticeSkipped, Skips, Goto
  <2> QED BY <2>1, <2>2 DEF RowsOK, WaitTypes, RowsCover, RowsEnd, RowsCount, Due
<1>2. CASE DialogNothingNew
  <2>1. at' # "list"
    BY <1>2 DEF DialogNothingNew, Goto
  <2>2. Due("tg:dialog") /\ ClearBackoff("tg:dialog", 0)
    BY <1>2 DEF DialogNothingNew
  <2> QED BY <2>1, <2>2, <1>s, ClearBackoffOK
<1>3. CASE Command
  BY <1>3, CommandKeepsRows DEF Command, Goto
<1>4. ASSUME NEW dt \in 0 .. MaxCall,
             \/ List(dt) \/ Dialog(dt) \/ Poll(dt) \/ Post(dt) \/ Flush(dt)
             \/ Notice("inNotice", "inEnd", dt)
             \/ Notice("postNotice", "flush", dt)
             \/ Notice("lastNotice", "mailEnd", dt)
      PROVE  RowsInv'
  <2>0. dt \in Nat
    BY Settings
  <2>1. at' # "list"
    BY <1>4 DEF List, Dialog, Poll, Post, Flush, Notice, Call
  <2>2. CASE List(dt)
    <3>1. Due("tg:list")
      BY <2>2 DEF List, Call
    <3> QED BY <2>0, <2>1, <2>2, <3>1, <1>s, OutcomesKeepRows DEF List
  <2>3. CASE Dialog(dt)
    BY <2>0, <2>1, <2>3, <1>s, OutcomesKeepRows DEF Dialog
  <2>4. CASE Poll(dt)
    BY <2>0, <2>1, <2>4, <1>s, OutcomesKeepRows DEF Poll
  <2>5. CASE Post(dt)
    BY <2>0, <2>1, <2>5, <1>s, OutcomesKeepRows DEF Post
  <2>6. CASE Flush(dt)
    BY <2>0, <2>1, <2>6, <1>s, OutcomesKeepRows DEF Flush
  <2>7. ASSUME NEW from, NEW to, Notice(from, to, dt)
        PROVE  RowsOK'
    BY <2>0, <2>7, <1>s, OutcomesKeepRows DEF Notice
  <2> QED BY <1>4, <2>1, <2>2, <2>3, <2>4, <2>5, <2>6, <2>7
<1> QED BY <1>1, <1>2, <1>3, <1>4 DEF Calls, Passing

LEMMA RowsRest ==
  ASSUME RowsInv, ClockTypes, Turn \/ Stop \/ Dies \/ Restart \/ Setup
  PROVE  RowsInv'
<1> USE DEF RowsInv
<1>1. CASE LoopEnds \/ InboundTurn \/ InboundNotYet \/ InboundDone
           \/ MailboxTurn \/ MailboxNotYet \/ MailboxDone \/ Stop \/ Dies
  <2>1. /\ row' = row /\ rest' = rest /\ most' = most /\ failed' = failed
        /\ at' = "list" => at = "list"
    BY <1>1 DEF LoopEnds, InboundTurn, InboundNotYet, InboundDone, MailboxTurn,
                MailboxNotYet, MailboxDone, Stop, Dies, Goto, Quiet, NewReading, waitVars
  <2> QED BY <2>1 DEF RowsOK, WaitTypes, RowsCover, RowsEnd, RowsCount, Due
<1>2. CASE Sleep
  <2>1. Nap \in Nat
    BY Settings DEF ClockTypes, Nap, Larger, Smaller
  <2> QED BY <1>2, <2>1, KeepRowsOK DEF Sleep, Goto
<1>3. CASE Restart
  BY <1>3, KeepRowsOK, Settings DEF Restart, Goto
<1>4. CASE Setup
  <2>1. at' # "list"
    BY <1>4 DEF Setup
  <2>2. NoRow \in Rows /\ 0 \in Nat
    BY DEF NoRow, Rows
  <2>3. WaitTypes'
    BY <1>4, <2>2 DEF Setup, RowsOK, WaitTypes
  <2>4. \A s \in Scopes :
          \/ row'[s] = NoRow /\ rest'[s] = 0 /\ most'[s] = 0 /\ failed'[s] = 0
          \/ row'[s] = row[s] /\ rest'[s] = rest[s] /\ most'[s] = most[s]
             /\ failed'[s] = failed[s]
    BY <1>4 DEF Setup
  <2>5. RestsWithin(NoRow, 0) /\ EndsWithin(NoRow, 0) /\ NoRow.failures = 0
    BY DEF RestsWithin, EndsWithin, NoRow
  <2>6. GatedScopes \subseteq Scopes /\ ClearedScopes \subseteq Scopes
    BY ScopesUsed
  <2>7. RowsCover(row', rest')
    BY <2>4, <2>5, <2>6 DEF RowsOK, RowsCover
  <2>8. RowsEnd(row', most') /\ RowsCount(row', failed')
    BY <2>4, <2>5, <2>6 DEF RowsOK, RowsEnd, RowsCount
  <2> QED BY <2>1, <2>3, <2>7, <2>8 DEF RowsOK
<1> QED BY <1>1, <1>2, <1>3, <1>4 DEF Turn
---------------------------------------------------------------------------
(* What is left of the types.                                              *)

FlagsOK ==
  /\ health \in {"valid", "invalid", "told"}
  /\ pending \in BOOLEAN
  /\ faults \in Nat
  /\ tried \subseteq Scopes

LEMMA FlagsKept ==
  ASSUME FlagsOK, LoopNext
  PROVE  FlagsOK'
<1> USE DEF FlagsOK
<1>f. Fault => faults' \in Nat
  BY DEF Fault
<1>1. CASE Passing
  BY <1>1 DEF Passing, InboundGate, DialogSkipped, DialogNothingNew, PollSkipped,
              Command, PostSkipped, FlushNothing, NoticeSkipped, Skips, Quiet, Alone
<1>2. ASSUME NEW dt \in 0 .. MaxCall, List(dt) \/ Dialog(dt) \/ Poll(dt) \/ Post(dt)
      PROVE  FlagsOK'
  BY <1>f, <1>2, ScopesUsed DEF List, Dialog, Poll, Post, Call, Succeeds, Fails, SessionLost
<1>3. ASSUME NEW dt \in 0 .. MaxCall, NEW from, NEW to, Flush(dt) \/ Notice(from, to, dt)
      PROVE  FlagsOK'
  BY <1>f, <1>3, ScopesUsed DEF Flush, Notice, Call, Fails
<1>4. CASE Turn
  BY <1>4 DEF Turn, LoopEnds, InboundTurn, InboundNotYet, InboundDone, MailboxTurn,
              MailboxNotYet, MailboxDone, Sleep, Quiet, NewReading, Alone
<1>5. CASE Stop \/ Dies \/ Restart \/ Setup
  BY <1>f, <1>5 DEF Stop, Dies, Restart, Setup, Quiet
<1> QED BY <1>1, <1>2, <1>3, <1>4, <1>5 DEF LoopNext, Calls

LoopInv == ClockInv /\ RowsInv /\ FlagsOK

LEMMA LoopInvKept == LoopInv /\ [LoopNext]_loopVars => LoopInv'
<1> SUFFICES ASSUME LoopInv, [LoopNext]_loopVars PROVE LoopInv'
  OBVIOUS
<1>1. CASE LoopNext
  <2>1. ClockInv'
    BY <1>1, ClockCalls, ClockTurn, ClockProcess DEF LoopInv, LoopNext
  <2>2. RowsInv'
    BY <1>1, RowsCalls, RowsRest DEF LoopInv, LoopNext, ClockInv
  <2>3. FlagsOK'
    BY <1>1, FlagsKept DEF LoopInv
  <2> QED BY <2>1, <2>2, <2>3 DEF LoopInv
<1>2. CASE UNCHANGED loopVars
  <2> USE <1>2 DEF loopVars, timerVars, historyVars, waitVars, LoopInv
  <2>1. ClockInv'
    BY DEF ClockInv, ClockTypes, TimersSet, TurnSpent, TimersAhead, TimersOnTime,
           StopCounted
  <2>2. RowsInv'
    BY DEF RowsInv, RowsOK, WaitTypes, RowsCover, RowsEnd, RowsCount, Due
  <2>3. FlagsOK'
    BY DEF FlagsOK
  <2> QED BY <2>1, <2>2, <2>3
<1> QED BY <1>1, <1>2

LEMMA LoopInvInit == LoopInit => LoopInv
<1> SUFFICES ASSUME LoopInit PROVE LoopInv
  OBVIOUS
<1>1. ClockInv
  BY ClockInit
<1>2. NoRow \in Rows /\ 0 \in Nat
  BY DEF NoRow, Rows
<1>3. WaitTypes
  BY <1>2 DEF LoopInit, WaitTypes
<1>4. RowsCover(row, rest) /\ RowsEnd(row, most) /\ RowsCount(row, failed)
  BY ScopesUsed DEF LoopInit, RowsCover, RowsEnd, RowsCount, RestsWithin, EndsWithin, NoRow
<1>5. at # "list" /\ FlagsOK
  BY DEF LoopInit, FlagsOK
<1> QED BY <1>1, <1>3, <1>4, <1>5 DEF LoopInv, RowsInv, RowsOK

LEMMA LoopInvariant == LoopSpec => []LoopInv
BY LoopInvInit, LoopInvKept, PTL DEF LoopSpec

---------------------------------------------------------------------------
(* Theorems.                                                               *)

(* The control point, the timers and the rows keep their types.            *)
THEOREM LoopTypes == LoopSpec => []LoopTypeOK
<1>1. LoopInv => LoopTypeOK
  BY DEF LoopInv, ClockInv, ClockTypes, RowsInv, RowsOK, WaitTypes, FlagsOK, LoopTypeOK, Rows
<1> QED BY <1>1, LoopInvariant, PTL

(* Neither cycle of the run loop is ever more than one turn of the loop    *)
(* late, whatever the intervals, the calls and the failures.               *)
THEOREM CyclesOnTime == LoopSpec => []TimersOnTime
<1>1. LoopInv => TimersOnTime
  BY DEF LoopInv, ClockInv
<1> QED BY <1>1, LoopInvariant, PTL

(* A process told to stop is gone within one turn and one sleep.           *)
THEOREM ProcessEndsSoon == LoopSpec => []EndsSoon
<1>1. LoopInv => EndsSoon
  <2> SUFFICES ASSUME LoopInv, stopping, at # "dead"
               PROVE  sinceStop <= LongestTurn + LongestNap
    BY DEF EndsSoon, LongestTurn, LongestNap
  <2> USE DEF LoopInv, ClockInv, ClockTypes
  <2>1. CASE at \in {"top", "ended"}
    BY <2>1 DEF StopCounted
  <2>2. CASE at \in TurnPoints
    <3>1. age <= Budget(at) /\ sinceStop <= age
      BY <2>2 DEF TurnSpent
    <3>2. Budget(at) \in Nat /\ Budget(at) <= LongestTurn /\ LongestTurn \in Nat
      BY BudgetGrows DEF LongestTurn
    <3>3. LongestNap \in Nat
      BY Settings DEF LongestNap, Larger, Smaller
    <3> QED BY <3>1, <3>2, <3>3
  <2> QED BY <2>1, <2>2 DEF Points, TurnPoints
<1> QED BY <1>1, LoopInvariant, PTL

(* No listing, dialog, post or poll is tried before the wait that Telegram *)
(* asked for, or the configured minimum, is over; restarts do not shorten  *)
(* it.                                                                     *)
THEOREM NoEarlyRetry == LoopSpec => GatedCallsWait
<1>1. LoopInv /\ [LoopNext]_loopVars =>
        [\A s \in GatedScopes : rest[s] > 0 => s \notin tried']_loopVars
  <2> SUFFICES ASSUME LoopInv, LoopNext, NEW s \in GatedScopes, s \in tried'
               PROVE  ~(rest[s] > 0)
    OBVIOUS
  <2>1. Due(s) => ~(rest[s] > 0)
    <3>1. RestsWithin(row[s], rest[s]) /\ row[s] \in Rows /\ rest[s] \in Nat
      BY ScopesUsed DEF LoopInv, RowsInv, RowsOK, WaitTypes, RowsCover
    <3> QED BY <3>1 DEF Due, RestsWithin, Rows
  <2>2. CASE Calls
    <3>1. CASE Passing
      BY <3>1 DEF Passing, InboundGate, DialogSkipped, DialogNothingNew, PollSkipped,
                  Command, PostSkipped, FlushNothing, NoticeSkipped, Skips, Quiet
    <3>2. ASSUME NEW dt \in 0 .. MaxCall, List(dt) \/ Dialog(dt) \/ Poll(dt) \/ Post(dt)
          PROVE  Due(s)
      BY <3>2 DEF List, Dialog, Poll, Post, Call, LoopInv, RowsInv
    <3>3. ASSUME NEW dt \in 0 .. MaxCall, NEW from, NEW to, Flush(dt) \/ Notice(from, to, dt)
          PROVE  FALSE
      BY <3>3, ScopesUsed DEF Flush, Notice, Call
    <3> QED BY <2>1, <2>2, <3>1, <3>2, <3>3 DEF Calls
  <2>3. CASE Turn \/ Stop \/ Dies \/ Restart \/ Setup
    BY <2>3 DEF Turn, LoopEnds, InboundTurn, InboundNotYet, InboundDone, MailboxTurn,
                MailboxNotYet, MailboxDone, Sleep, Stop, Dies, Restart, Setup, Quiet,
                NewReading
  <2> QED BY <2>2, <2>3 DEF LoopNext
<1> QED BY <1>1, LoopInvariant, PTL DEF LoopSpec, GatedCallsWait

(* A listing, a dialog or a poll that waits has failed since its last      *)
(* success so often, or was asked by Telegram to wait so long, that it may *)
(* still wait; the count of its row is right over restarts.                *)
THEOREM NoLateRetry == LoopSpec => []WaitsNoLonger
<1>1. LoopInv => WaitsNoLonger
  <2> SUFFICES ASSUME LoopInv, NEW s \in ClearedScopes, ~Due(s)
               PROVE  most[s] > 0
    BY DEF WaitsNoLonger, ClearedScopes
  <2>1. EndsWithin(row[s], most[s]) /\ row[s] \in Rows /\ most[s] \in Nat
    BY ScopesUsed DEF LoopInv, RowsInv, RowsOK, WaitTypes, RowsEnd
  <2> QED BY <2>1 DEF Due, EndsWithin, Rows
<1> QED BY <1>1, LoopInvariant, PTL
=============================================================================
