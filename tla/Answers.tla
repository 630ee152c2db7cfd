------------------------------ MODULE Answers -------------------------------
(***************************************************************************)
(* What the bridge promises of the mails that U writes to it, with no      *)
(* process, no poll and no failure in it.  U gets letters (deliveries) and *)
(* notices, and answers them.  A mail is acted on at most once.  One that  *)
(* orders the bridge on or off is obeyed in the order of arrival, or not   *)
(* at all; one that says something is said in the dialog of the letter it  *)
(* answers, while the bridge is on, until it counts as acted on, and then  *)
(* it has been said.                                                       *)
(*                                                                         *)
(* Mailbox and Bridge implement this with the consume markers for "acted", *)
(* Retention with those that ever were.                                    *)
(***************************************************************************)
EXTENDS Integers, Sequences

VARIABLES
  letters,                \* set of [mid, dialog] that U has got
  notices,                \* set of [mid, about] that U has got
  mails,                  \* what U wrote: sequence of [wish, answers]
  on,                     \* the bridge is on
  acted,                  \* the mails acted on
  said                    \* set of [ref, dialog, id] in Telegram

vars == <<letters, notices, mails, on, acted, said>>

Wishes == {"on", "off", "say", "nothing"}

Orders == {r \in DOMAIN mails : mails[r].wish \in {"on", "off"}}
Sayings == {r \in DOMAIN mails : mails[r].wish = "say"}

(* The Message-IDs in U's mailbox. *)
InUse == {m.mid : m \in letters \cup notices}

Init ==
  /\ letters = {}
  /\ notices = {}
  /\ mails = << >>
  /\ on = TRUE
  /\ acted = {}
  /\ said = {}

Deliver(letter) ==
  /\ on
  /\ letter.mid \notin InUse
  /\ letters' = letters \cup {letter}
  /\ UNCHANGED <<notices, mails, on, acted, said>>

(* A notice is about the session, or tells what an order did. *)
Told(about) ==
  \/ about = [ref |-> 0, on |-> FALSE]
  \/ /\ about.ref \in Orders \cap acted
     /\ about.on = (mails[about.ref].wish = "on")

Tell(notice) ==
  /\ Told(notice.about)
  /\ notice.mid \notin InUse
  /\ notices' = notices \cup {notice}
  /\ UNCHANGED <<letters, mails, on, acted, said>>

(* A mail answers one that is there, or none. *)
Write(mail) ==
  /\ mail.wish \in Wishes
  /\ mail.answers \in InUse \cup {0}
  /\ mails' = Append(mails, mail)
  /\ UNCHANGED <<letters, notices, on, acted, said>>

Obey(r) ==
  /\ r \in Orders \ acted
  /\ mails[r].answers \in InUse
  /\ \A s \in Orders \cap acted : s < r
  /\ on' = (mails[r].wish = "on")
  /\ acted' = acted \cup {r}
  /\ UNCHANGED <<letters, notices, mails, said>>

Say(saying) ==
  /\ on
  /\ saying.ref \in Sayings \ acted
  /\ [mid |-> mails[saying.ref].answers, dialog |-> saying.dialog] \in letters
  /\ \A s \in said : s.dialog = saying.dialog => s.id # saying.id
  /\ said' = said \cup {saying}
  /\ UNCHANGED <<letters, notices, mails, on, acted>>

Settle(r) ==
  /\ \E s \in said : s.ref = r
  /\ acted' = acted \cup {r}
  /\ UNCHANGED <<letters, notices, mails, on, said>>

(* What is new is named by the state it is new in. *)
Next ==
  \/ \E letter \in letters' \ letters : Deliver(letter)
  \/ \E notice \in notices' \ notices : Tell(notice)
  \/ \E r \in DOMAIN mails' \ DOMAIN mails : Write(mails'[r])
  \/ \E r \in acted' \ acted : Obey(r) \/ Settle(r)
  \/ \E saying \in said' \ said : Say(saying)

Spec == Init /\ [][Next]_vars
=============================================================================
