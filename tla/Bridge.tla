------------------------------- MODULE Bridge -------------------------------
(***************************************************************************)
(* The whole bridge, the process started as "run": the inbound and the     *)
(* mailbox cycle by turns in one task, over one store and one Telegram     *)
(* account.  A post that the mailbox cycle makes is a message that the     *)
(* inbound cycle fetches, a command that the mailbox cycle applies closes  *)
(* the gate of the inbound cycle, and a session that either finds invalid  *)
(* is invalid for both.                                                    *)
(***************************************************************************)
EXTENDS Inbound, Mailbox

bridgeVars == <<serviceVars, localVars, base, mailVars, mailLocals>>

BridgeTypeOK == InboundTypeOK /\ MailTypeOK

BridgeInit == InboundInit /\ MailInit

(* Either cycle runs to its end before the other starts: both begin at     *)
(* "idle" and leave through it.  The timers of run decide which is next.   *)
BridgeCycles ==
  \/ InboundCycle /\ UNCHANGED <<mailVars, mailLocals>>
  \/ MailboxCycle /\ UNCHANGED <<localVars, base>>

BridgeEnds ==
  /\ Crash \/ Stop
  /\ ForgetLocals
  /\ ForgetMailLocals
  /\ UNCHANGED <<base, mailVars>>

BridgeNext ==
  \/ BridgeCycles
  \/ BridgeEnds
  \/ (Handler \/ Lifecycle \/ World)
       /\ UNCHANGED <<localVars, base, mailVars, mailLocals>>
  \/ MailWorld /\ UNCHANGED <<localVars, base>>

BridgeSpec == BridgeInit /\ [][BridgeNext]_bridgeVars

(* The fairness of the two cycles, each left alone by the other.  That the *)
(* loop of run starves neither of them is shown of module RunLoop.         *)
BridgeFairness ==
  /\ WF_bridgeVars(\/ InboundSteps /\ UNCHANGED <<mailVars, mailLocals>>
                   \/ MailboxSteps /\ UNCHANGED <<localVars, base>>)
  /\ SF_bridgeVars(StartInbound /\ UNCHANGED <<mailVars, mailLocals>>)
  /\ SF_bridgeVars(StartMailbox /\ UNCHANGED <<localVars, base>>)
  /\ WF_bridgeVars(Start /\ UNCHANGED <<localVars, base, mailVars, mailLocals>>)
  /\ \A scope \in Scopes :
       WF_bridgeVars(/\ BackoffElapses(scope)
                     /\ UNCHANGED <<worldVars, pc, ret, localVars, base,
                                    mailVars, mailLocals>>)

BridgeLiveSpec == BridgeSpec /\ BridgeFairness

---------------------------------------------------------------------------
(* Properties of the whole; NoMessageSkipped, LedgerChronological,         *)
(* ConsumedMeansPosted and LastCommandRules of the parts hold here too.    *)

(* What the bridge posted as U and marked is never mailed back to U.       *)
OwnPostsNotMailed ==
  \A p \in posts, m \in mailU :
    <<p.dialog, p.id>> \in echo => ~(m.dialog = p.dialog /\ p.id \in m.msgs)

(* Nothing crosses the bridge while it is off or its session invalid: no   *)
(* message is mailed and no reply posted.  The gate is read once at the    *)
(* start of an inbound cycle and again at each reply.                      *)
NothingCrossesClosedGate ==
  [][mailU' # mailU \/ posts' # posts => DeliveryAllowed]_bridgeVars
=============================================================================
