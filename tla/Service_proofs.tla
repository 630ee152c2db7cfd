--------------------------- MODULE Service_proofs ---------------------------
(***************************************************************************)
(* What the shared steps of the process do to the types, for every value   *)
(* of the constants, and to the count of the session notices.  The proofs  *)
(* about the cycles cite these lemmas for the steps that are not their own.*)
(***************************************************************************)
EXTENDS Service, FiniteSetTheorems, TLAPS

USE DEF tableVars, outsideVars

(* Every scope that a failure is recorded under is a scope. *)
LEMMA ScopesOfCalls ==
  /\ ListScope \in Scopes
  /\ PollScope \in Scopes
  /\ SessionNoticeScope \in Scopes
  /\ \A d \in Dialogs : DialogScope(d) \in Scopes /\ PostScope(d) \in Scopes
BY DEF Scopes, TgScopes

(* A mail that reaches U keeps the two sets of mails typed. *)
LEMMA NoticeTyped ==
  ASSUME ServiceTypeOK, NEW about \in Subjects, NoticeReachesU(about)
  PROVE  /\ noticeU' \subseteq [mid : Nat, about : Subjects]
         /\ minted' \in Nat
BY DEF ServiceTypeOK, NoticeReachesU

(* invalidate_session leaves every table and the world typed, and goes on  *)
(* at a point of the caller.                                               *)
LEMMA HandlerTyped == ServiceTypeOK /\ Handler => ServiceTypeOK'
<1> SUFFICES ASSUME ServiceTypeOK, Handler PROVE ServiceTypeOK'
  OBVIOUS
<1> USE DEF ServiceTypeOK, StoreTypeOK, worldVars, storeVars
<1>0. Session \in Subjects
  BY DEF Session, Subjects
<1>r. ret \in Points
  BY DEF Points, MailboxPoints
<1>1. CASE MarkInvalid
  <2>1. notified' \in BOOLEAN /\ valid' \in BOOLEAN
    BY <1>1 DEF MarkInvalid
  <2>2. pc' \in Points
    BY <1>1, <1>r DEF MarkInvalid, Points, HandlerPoints
  <2> QED BY <1>1, <2>1, <2>2 DEF MarkInvalid
<1>2. CASE SendSessionNotice
  <2>1. noticeU' \subseteq [mid : Nat, about : Subjects] /\ minted' \in Nat
    BY <1>0, <1>2, NoticeTyped DEF SendSessionNotice
  <2>2. pc' \in Points
    BY <1>2 DEF SendSessionNotice, Goto, Points, HandlerPoints
  <2> QED BY <1>2, <2>1, <2>2 DEF SendSessionNotice
<1>3. CASE SessionNoticeFails
  <2>1. noticeU' \subseteq [mid : Nat, about : Subjects] /\ minted' \in Nat
    BY <1>0, <1>3, NoticeTyped DEF SessionNoticeFails
  <2>2. pc' \in Points
    BY <1>3, <1>r DEF SessionNoticeFails, Goto
  <2>3. waiting' \subseteq Scopes
    BY <1>3, ScopesOfCalls DEF SessionNoticeFails, RecordFailure
  <2>4. faults' \in Nat
    BY <1>3 DEF SessionNoticeFails, Fault
  <2> QED BY <1>3, <2>1, <2>2, <2>3, <2>4 DEF SessionNoticeFails
<1>4. CASE RecordSessionNotice
  <2>1. sentNotice' \subseteq Nat
    BY <1>4 DEF RecordSessionNotice, RecordNoticeSent
  <2>2. pc' \in Points
    BY <1>4 DEF RecordSessionNotice, Goto, Points, HandlerPoints
  <2> QED BY <1>4, <2>1, <2>2 DEF RecordSessionNotice
<1>5. CASE MarkNotified
  <2>1. waiting' \subseteq Scopes /\ notified' \in BOOLEAN
    BY <1>5 DEF MarkNotified, ClearBackoff
  <2>2. pc' \in Points
    BY <1>5, <1>r DEF MarkNotified, Goto
  <2> QED BY <1>5, <2>1, <2>2 DEF MarkNotified
<1> QED BY <1>1, <1>2, <1>3, <1>4, <1>5 DEF Handler

(* Start, setup, and a setup that is interrupted. *)
LEMMA LifecycleTyped == ServiceTypeOK /\ Lifecycle => ServiceTypeOK'
<1> SUFFICES ASSUME ServiceTypeOK, Lifecycle PROVE ServiceTypeOK'
  OBVIOUS
<1> USE DEF ServiceTypeOK, StoreTypeOK, worldVars, storeVars
<1>1. CASE Start
  <2>1. pc' \in Points
    BY <1>1 DEF Start, Goto, Points
  <2> QED BY <1>1, <2>1 DEF Start
<1>2. CASE Setup
  <2>1. waiting' \subseteq Scopes
    BY <1>2 DEF Setup, ClearTgBackoff
  <2>2. authorized' \in BOOLEAN /\ valid' \in BOOLEAN /\ notified' \in BOOLEAN
    BY <1>2 DEF Setup
  <2> QED BY <1>2, <2>1, <2>2 DEF Setup
<1>3. CASE SetupInterrupted
  <2>1. faults' \in Nat /\ authorized' \in BOOLEAN
    BY <1>3 DEF SetupInterrupted, Fault
  <2> QED BY <1>3, <2>1 DEF SetupInterrupted
<1> QED BY <1>1, <1>2, <1>3 DEF Lifecycle

(* A crash, a stop, and the exit of an uncaught error. *)
LEMMA EndTyped == ServiceTypeOK /\ (Crash \/ Stop) => ServiceTypeOK'
<1> SUFFICES ASSUME ServiceTypeOK, Crash \/ Stop PROVE ServiceTypeOK'
  OBVIOUS
<1>1. pc' \in Points /\ ret' \in {"idle", "flush"}
  BY DEF Crash, Stop, ProcessEnds, Points
<1>2. faults' \in Nat
  BY DEF Crash, Stop, Fault, ServiceTypeOK, worldVars
<1> QED BY <1>1, <1>2
        DEF ServiceTypeOK, StoreTypeOK, Crash, Stop, worldVars, storeVars

(* A message at the end of a dialog. *)
LEMMA AppendTyped ==
  ASSUME chat \in [Dialogs -> Seq(MsgKinds)],
         NEW d \in Dialogs, NEW kind \in MsgKinds,
         chat' = [chat EXCEPT ![d] = Append(@, kind)]
  PROVE  /\ chat' \in [Dialogs -> Seq(MsgKinds)]
         /\ \A e \in Dialogs : Len(chat[e]) \in Nat /\ Len(chat'[e]) >= Len(chat[e])
         /\ \A e \in Dialogs : \A n \in 1 .. Len(chat[e]) : chat'[e][n] = chat[e][n]
<1>1. Append(chat[d], kind) \in Seq(MsgKinds)
  OBVIOUS
<1> QED BY <1>1

(* Messages, revocations and the end of a wait. *)
LEMMA WorldTyped == ServiceTypeOK /\ World => ServiceTypeOK'
<1> SUFFICES ASSUME ServiceTypeOK, World PROVE ServiceTypeOK'
  OBVIOUS
<1> USE DEF ServiceTypeOK, StoreTypeOK, worldVars, storeVars
<1>1. CASE \E d \in Dialogs, kind \in Kinds : MessageArrives(d, kind)
  <2>1. PICK d \in Dialogs, kind \in Kinds : MessageArrives(d, kind)
    BY <1>1
  <2>2. chat' \in [Dialogs -> Seq(MsgKinds)]
    BY <2>1, AppendTyped, ServiceAssumption DEF MessageArrives
  <2> QED BY <2>1, <2>2 DEF MessageArrives
<1>2. CASE Revoke
  <2>1. faults' \in Nat
    BY <1>2 DEF Revoke, Fault
  <2>2. authorized' \in BOOLEAN
    BY <1>2 DEF Revoke
  <2> QED BY <1>2, <2>1, <2>2 DEF Revoke
<1>3. CASE TimePasses
  BY <1>3 DEF TimePasses, BackoffElapses
<1> QED BY <1>1, <1>2, <1>3 DEF World
---------------------------------------------------------------------------
(* U is told once.                                                         *)

(* A set of mails that grows by one at most. *)
LEMMA OneMore ==
  ASSUME NEW S, IsFiniteSet(S), NEW x, NEW T, T \subseteq S \cup {x}
  PROVE  /\ IsFiniteSet(T)
         /\ Cardinality(T) \in Nat /\ Cardinality(S) \in Nat
         /\ Cardinality(T) <= Cardinality(S) + 1
<1>0. Cardinality(S) \in Nat
  BY FS_CardinalityType
<1>1. /\ IsFiniteSet(S \cup {x})
      /\ Cardinality(S \cup {x}) <= Cardinality(S) + 1
  BY <1>0, FS_AddElement
<1>2. IsFiniteSet(T) /\ Cardinality(T) <= Cardinality(S \cup {x})
  BY <1>1, FS_Subset
<1>3. Cardinality(T) \in Nat /\ Cardinality(S \cup {x}) \in Nat
  BY <1>1, <1>2, FS_CardinalityType
<1> QED BY <1>0, <1>1, <1>2, <1>3

SessionNotices == {m \in noticeU : m.about = Session}

(* No further session notice goes out without a fault: the last one is     *)
(* being recorded, or the store says that U was told, or the session is    *)
(* good.                                                                   *)
SessionTold ==
  \/ pc \in {"noticeRecord", "noticeMark"}
  \/ notified /\ ~valid
  \/ authorized /\ valid

(* invalidate_session was called with a reason, and sends with a reason.   *)
HandlerStands ==
  /\ pc \in {"notice", "noticeRecord", "noticeMark"} => ~valid /\ ~notified
  /\ pc = "invalid" => ~(authorized /\ valid)

NoticesCounted ==
  /\ HandlerStands
  /\ IsFiniteSet(SessionNotices)
  /\ Cardinality(SessionNotices) <= 1 + faults
  /\ ~SessionTold => Cardinality(SessionNotices) <= faults

(* A step that tells U nothing, and spends a fault where it makes another  *)
(* notice possible.                                                        *)
LEMMA SilentCounts ==
  ASSUME NoticesCounted, HandlerStands', faults \in Nat, faults' \in Nat,
         SessionNotices' = SessionNotices, faults <= faults',
         SessionTold => SessionTold' \/ faults < faults'
  PROVE  NoticesCounted'
<1>1. Cardinality(SessionNotices) \in Nat
  BY FS_CardinalityType DEF NoticesCounted
<1> QED BY <1>1 DEF NoticesCounted

(* A step that may tell U, and spends its chance or a fault on it. *)
LEMMA TellingCounts ==
  ASSUME NoticesCounted, HandlerStands', faults \in Nat, faults' \in Nat,
         NEW x, SessionNotices' \subseteq SessionNotices \cup {x}, ~SessionTold,
         (SessionTold' /\ faults' = faults) \/ faults' = faults + 1
  PROVE  NoticesCounted'
<1>1. /\ IsFiniteSet(SessionNotices') /\ Cardinality(SessionNotices) \in Nat
      /\ Cardinality(SessionNotices') \in Nat
      /\ Cardinality(SessionNotices') <= Cardinality(SessionNotices) + 1
  BY OneMore DEF NoticesCounted
<1> QED BY <1>1 DEF NoticesCounted

(* What the steps of the cycles do: they enter the handler with a reason.  *)
TellsNothing ==
  /\ UNCHANGED <<valid, notified, authorized, SessionNotices>>
  /\ faults' = faults \/ faults' = faults + 1
  /\ pc \notin HandlerPoints
  /\ pc' \notin HandlerPoints \/ (pc' = "invalid" /\ ~(authorized /\ valid))

LEMMA CycleCounts ==
  ASSUME ServiceTypeOK, NoticesCounted, TellsNothing PROVE NoticesCounted'
<1>1. HandlerStands'
  BY DEF HandlerStands, TellsNothing, HandlerPoints
<1>2. faults \in Nat /\ faults' \in Nat /\ faults <= faults'
  BY DEF TellsNothing, ServiceTypeOK
<1>3. SessionTold => SessionTold'
  BY DEF SessionTold, TellsNothing, HandlerPoints
<1> QED BY <1>1, <1>2, <1>3, SilentCounts DEF TellsNothing

LEMMA SharedCounts ==
  ASSUME ServiceTypeOK, NoticesCounted,
         Handler \/ Lifecycle \/ World \/ Crash \/ Stop
  PROVE  NoticesCounted'
<1> USE DEF storeVars, worldVars
<1>0. faults \in Nat /\ ret \notin HandlerPoints /\ HandlerStands
  BY DEF ServiceTypeOK, HandlerPoints, NoticesCounted
<1>1. CASE MarkInvalid
  <2>1. HandlerStands'
    BY <1>0, <1>1 DEF MarkInvalid, HandlerStands, HandlerPoints
  <2>2. UNCHANGED <<SessionNotices, faults>>
    BY <1>1 DEF MarkInvalid, SessionNotices
  <2>3. SessionTold => SessionTold'
    BY <1>0, <1>1 DEF MarkInvalid, SessionTold, HandlerStands
  <2> QED BY <1>0, <2>1, <2>2, <2>3, SilentCounts
<1>2. CASE SendSessionNotice
  <2>1. HandlerStands' /\ ~SessionTold /\ SessionTold'
    BY <1>0, <1>2 DEF SendSessionNotice, HandlerStands, SessionTold, Goto
  <2>2. SessionNotices' \subseteq
          SessionNotices \cup {[mid |-> minted + 1, about |-> Session]}
    BY <1>2 DEF SendSessionNotice, NoticeReachesU, SessionNotices
  <2>3. UNCHANGED faults
    BY <1>2 DEF SendSessionNotice
  <2> QED BY <1>0, <2>1, <2>2, <2>3, TellingCounts
<1>3. CASE SessionNoticeFails
  <2>1. HandlerStands' /\ ~SessionTold
    BY <1>0, <1>3 DEF SessionNoticeFails, HandlerStands, HandlerPoints, SessionTold,
                      Goto
  <2>2. SessionNotices' \subseteq
          SessionNotices \cup {[mid |-> minted + 1, about |-> Session]}
    BY <1>3 DEF SessionNoticeFails, NoticeReachesU, SessionNotices
  <2>3. faults' = faults + 1
    BY <1>3 DEF SessionNoticeFails, Fault
  <2> QED BY <1>0, <2>1, <2>2, <2>3, TellingCounts
<1>4. CASE RecordSessionNotice
  <2>1. HandlerStands' /\ SessionTold'
    BY <1>0, <1>4 DEF RecordSessionNotice, HandlerStands, SessionTold, Goto
  <2>2. UNCHANGED <<SessionNotices, faults>>
    BY <1>4 DEF RecordSessionNotice, SessionNotices
  <2> QED BY <1>0, <2>1, <2>2, SilentCounts
<1>5. CASE MarkNotified
  <2>1. HandlerStands' /\ SessionTold'
    BY <1>0, <1>5 DEF MarkNotified, HandlerStands, HandlerPoints, SessionTold, Goto
  <2>2. UNCHANGED <<SessionNotices, faults>>
    BY <1>5 DEF MarkNotified, SessionNotices
  <2> QED BY <1>0, <2>1, <2>2, SilentCounts
<1>6. CASE Start \/ Stop
  <2>1. HandlerStands' /\ UNCHANGED <<SessionNotices, faults>>
    BY <1>6 DEF Start, Stop, ProcessEnds, HandlerStands, SessionNotices, Goto
  <2>2. SessionTold => SessionTold'
    BY <1>6 DEF Start, Stop, ProcessEnds, SessionTold, Goto
  <2> QED BY <1>0, <2>1, <2>2, SilentCounts
<1>7. CASE Setup
  <2>1. HandlerStands' /\ SessionTold' /\ UNCHANGED <<SessionNotices, faults>>
    BY <1>7 DEF Setup, HandlerStands, SessionNotices, SessionTold
  <2> QED BY <1>0, <2>1, SilentCounts
<1>8. CASE SetupInterrupted \/ Crash \/ Revoke
  <2>1. HandlerStands'
    BY <1>0, <1>8 DEF SetupInterrupted, Crash, Revoke, ProcessEnds, HandlerStands
  <2>2. UNCHANGED SessionNotices /\ faults' = faults + 1
    BY <1>8 DEF SetupInterrupted, Crash, Revoke, Fault, SessionNotices
  <2> QED BY <1>0, <2>1, <2>2, SilentCounts
<1>9. CASE \/ \E d \in Dialogs, kind \in Kinds : MessageArrives(d, kind)
           \/ TimePasses
  <2>1. UNCHANGED <<pc, valid, notified, authorized, noticeU, faults>>
    BY <1>9 DEF MessageArrives, TimePasses, BackoffElapses
  <2> QED BY <1>0, <2>1, SilentCounts DEF HandlerStands, SessionTold, SessionNotices
<1> QED BY <1>1, <1>2, <1>3, <1>4, <1>5, <1>6, <1>7, <1>8, <1>9
        DEF Handler, Lifecycle, World

LEMMA NoneTold == ServiceInit => NoticesCounted
<1>1. ASSUME ServiceInit PROVE SessionNotices = {} /\ HandlerStands /\ faults = 0
  BY <1>1 DEF ServiceInit, SessionNotices, HandlerStands
<1> QED BY <1>1, FS_EmptySet DEF NoticesCounted

LEMMA CountsNotices == NoticesCounted => SessionNoticesNeedFaults
BY DEF NoticesCounted, SessionNotices, SessionNoticesNeedFaults

(* A step that touches neither the session nor U's notices. *)
LEMMA IdleCounts ==
  ASSUME NoticesCounted, ServiceTypeOK,
         UNCHANGED <<valid, notified, authorized, noticeU, pc>>,
         faults' = faults \/ faults' = faults + 1
  PROVE  NoticesCounted'
<1>1. faults \in Nat /\ faults' \in Nat /\ faults <= faults' /\ HandlerStands
  BY DEF ServiceTypeOK, NoticesCounted
<1> QED BY <1>1, SilentCounts DEF HandlerStands, SessionTold, SessionNotices
=============================================================================
