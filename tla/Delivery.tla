------------------------------ MODULE Delivery ------------------------------
(***************************************************************************)
(* What the inbound direction promises of each dialog, with no process, no *)
(* mail server and no failure in it: the messages of a dialog are taken in *)
(* order, a run of them at a time, and all that are wanted of the run are  *)
(* handed over with it.  Inbound implements this with the cursor for       *)
(* "upto" and the messages in ledgered mails for "got".                    *)
(***************************************************************************)
EXTENDS Integers

CONSTANTS
  Dialogs,
  SkipsHistory            \* TRUE: the messages there at the start may be passed

VARIABLES
  last,                   \* the newest message of each dialog
  wanted,                 \* the messages to hand over
  upto,                   \* the messages taken
  got                     \* the messages handed over

vars == <<last, wanted, upto, got>>

Init ==
  /\ last = [d \in Dialogs |-> 0]
  /\ wanted = [d \in Dialogs |-> {}]
  /\ upto = [d \in Dialogs |-> 0]
  /\ got = [d \in Dialogs |-> {}]

Arrive(d, isWanted) ==
  /\ last' = [last EXCEPT ![d] = @ + 1]
  /\ wanted' = [wanted EXCEPT ![d] = @ \cup {n \in {last[d] + 1} : isWanted}]
  /\ UNCHANGED <<upto, got>>

(* A message not taken yet turns out to be the bridge's own. *)
Withdraw(d, n) ==
  /\ n > upto[d]
  /\ wanted' = [wanted EXCEPT ![d] = @ \ {n}]
  /\ UNCHANGED <<last, upto, got>>

Take(d, h) ==
  /\ upto' = [upto EXCEPT ![d] = h]
  /\ got' = [got EXCEPT ![d] = @ \cup {n \in wanted[d] : upto[d] < n /\ n <= h}]
  /\ UNCHANGED <<last, wanted>>

(* The tail bootstrap: the dialog starts after the messages already there. *)
StartAfter(d, h) ==
  /\ SkipsHistory
  /\ upto[d] = 0
  /\ upto' = [upto EXCEPT ![d] = h]
  /\ UNCHANGED <<last, wanted, got>>

Next ==
  \E d \in Dialogs :
    \/ \E isWanted \in BOOLEAN : Arrive(d, isWanted)
    \/ \E n \in wanted[d] : Withdraw(d, n)
    \/ \E h \in upto[d] + 1 .. last[d] : Take(d, h) \/ StartAfter(d, h)

Spec == Init /\ [][Next]_vars
=============================================================================
