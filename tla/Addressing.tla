----------------------------- MODULE Addressing -----------------------------
(***************************************************************************)
(* Which dialogs the bridge polls (list_tracked_dialogs) and which of      *)
(* their messages it accepts (is_addressed), as the configuration says.    *)
(*                                                                         *)
(* A source is a configured string in the form canonical_source leaves it: *)
(* a username or a number, with or without a topic.  Telegram numbers a    *)
(* user 7 as 7, a basic group 7 as -7 and a channel or supergroup 7 as     *)
(* -1007; Telethon also finds a chat it has seen by the bare 7.  _dialog   *)
(* writes -1007 for every peer that is no user.  Numbers of different      *)
(* peers differ.  The orchestrator gives is_addressed no username of its   *)
(* own, so a mention is Telegram's flag and never a text.                  *)
(***************************************************************************)
EXTENDS Integers, FiniteSets

CONSTANTS
  Peers,                  \* users, channels and groups of the account
  PeerType,               \* "dm", "channel", "group" (a supergroup), "basic"
  Named,                  \* those with a username
  Topics,                 \* forum topics of the groups
  NoTopic,
  MaxListed               \* bound: sources in the two lists together

ASSUME AddressingAssumption ==
  /\ PeerType \in [Peers -> {"dm", "channel", "group", "basic"}]
  /\ Named \subseteq {p \in Peers : PeerType[p] # "basic"}
  /\ NoTopic \notin Topics
  /\ MaxListed \in Nat

MentionPolicies == {"all", "selected", "forced_list"}
BotPolicies == {"none", "all", "selected"}

(* How a number names a peer. *)
Forms(p) ==
  CASE PeerType[p] = "dm" -> {"plain"}
    [] PeerType[p] = "basic" -> {"plain", "minus"}
    [] OTHER -> {"plain", "minus100"}

(* A user names a chat in a way that resolves, and topics only of          *)
(* supergroups.                                                            *)
Sources ==
  {s \in [by : {"name", "plain", "minus", "minus100"}, peer : Peers,
         topic : Topics \cup {NoTopic}] :
     /\ \/ s.by = "name" /\ s.peer \in Named
        \/ s.by \in Forms(s.peer)
     /\ s.topic # NoTopic => PeerType[s.peer] = "group"}

(* What the settings give; of the bots one is looked at, who may be listed *)
(* by its username or by its number.                                       *)
Configs ==
  LET Lists == {list \in SUBSET Sources : Cardinality(list) <= MaxListed} IN
  {c \in [whitelist : Lists, mention_list : Lists, mention_policy : MentionPolicies,
         discover : BOOLEAN, bot_policy : BotPolicies,
         bot_list : SUBSET {"id", "name"}] :
     Cardinality(c.whitelist) + Cardinality(c.mention_list) <= MaxListed}

(* A message: who sent it, and whether it mentions U. *)
Messages == [is_bot : BOOLEAN, username : BOOLEAN, mentioned : BOOLEAN]

VARIABLES
  config,                 \* Settings
  verdict                 \* the last answer: [dialog, message, addressed], or {}

addressingVars == <<config, verdict>>

---------------------------------------------------------------------------

(* The dialog that is made of a source. *)
PlaceOf(source) == [peer |-> source.peer, topic |-> source.topic]

IsUser(p) == PeerType[p] = "dm"

(* _dialog: the source type; a topic of a group is a dialog of its own.    *)
SourceType(d) ==
  CASE IsUser(d.peer) -> "dm"
    [] PeerType[d.peer] = "channel" -> "channel"
    [] d.topic # NoTopic -> "topic"
    [] OTHER -> "group"

(* And the dialog_id: -100 before the number of every peer that is no user.*)
DialogId(d) ==
  [by |-> IF IsUser(d.peer) THEN "plain" ELSE "minus100", peer |-> d.peer, topic |-> d.topic]

(* list_tracked_dialogs: all chats, or the private chats and the places    *)
(* that are configured.                                                    *)
Tracked(c) ==
  IF c.mention_policy = "all" /\ c.discover
    THEN {[peer |-> p, topic |-> NoTopic] : p \in Peers}
    ELSE {[peer |-> p, topic |-> NoTopic] : p \in {q \in Peers : IsUser(q)}}
           \cup {PlaceOf(s) : s \in c.whitelist \cup c.mention_list}

(* fetch_since resolves the dialog_id anew, and finds no basic group by it.*)
Fetched(d) == PeerType[d.peer] # "basic"

(* Mutated: the username of a chat is forgotten. *)
IdsByNumber(d) == {DialogId(d)}

(* The strings a dialog is known by.  The third of the code repeats the    *)
(* topic of a topic, and is the string of no source.                       *)
Ids(d) ==
  {DialogId(d)}
    \cup (IF d.peer \in Named
            THEN {[by |-> "name", peer |-> d.peer, topic |-> NoTopic]} ELSE {})

Listed(d, list) == Ids(d) \cap list # {}

BotInList(c, m) ==
  \/ m.username /\ "name" \in c.bot_list
  \/ "id" \in c.bot_list

BotAllowed(c, m) ==
  \/ c.bot_policy = "all"
  \/ c.bot_policy = "selected" /\ BotInList(c, m)

Counted(c, d, m) ==
  CASE c.mention_policy = "all" -> m.mentioned
    [] c.mention_policy = "selected" -> m.mentioned /\ Listed(d, c.mention_list)
    [] c.mention_policy = "forced_list" -> Listed(d, c.mention_list)

(* Mutated: the whitelist comes before the bots. *)
IsAddressedBotsLast(c, d, m) ==
  \/ Listed(d, c.whitelist)
  \/ /\ m.is_bot => BotAllowed(c, m)
     /\ SourceType(d) = "dm" \/ Counted(c, d, m)

IsAddressed(c, d, m) ==
  /\ m.is_bot => BotAllowed(c, m)
  /\ \/ SourceType(d) = "dm"
     \/ Listed(d, c.whitelist)
     \/ Counted(c, d, m)

AddressingInit == config \in Configs /\ verdict = {}

Classify ==
  /\ verdict = {}
  /\ \E d \in Tracked(config), m \in Messages :
       verdict' = {[dialog |-> d, message |-> m,
                    addressed |-> IsAddressed(config, d, m)]}
  /\ UNCHANGED config

AddressingSpec == AddressingInit /\ [][Classify]_addressingVars

---------------------------------------------------------------------------
(* Properties.                                                             *)

(* The decision table of alg-addressing-gate.md, its first row that fits.  *)
(* A mention counts where there is one and the policy looks at the source. *)
Table(c, d, m) ==
  LET inWhitelist == Listed(d, c.whitelist)
      mentionCounted == /\ m.mentioned
                        /\ c.mention_policy = "all" \/ Listed(d, c.mention_list)
  IN CASE m.is_bot /\ c.bot_policy = "none" -> FALSE
       [] m.is_bot /\ c.bot_policy = "selected" /\ ~BotInList(c, m) -> FALSE
       [] OTHER -> SourceType(d) = "dm" \/ inWhitelist \/ mentionCounted

(* The gate decides as the table does.  Under forced_list it asks for no   *)
(* mention: there it decides as the table does where U is mentioned.       *)
GateFollowsTable ==
  \A v \in verdict :
    v.addressed = Table(config, v.dialog,
                        IF config.mention_policy = "forced_list"
                          THEN [v.message EXCEPT !.mentioned = TRUE] ELSE v.message)

(* What people write in a place is polled, fetched and accepted. *)
Delivers(c, d) ==
  /\ d \in Tracked(c)
  /\ Fetched(d)
  /\ \A m \in Messages : ~m.is_bot => IsAddressed(c, d, m)

(* The sources that the listing and the gate take for the same place: a    *)
(* chat by its username, or a place by the number _dialog makes of it; a   *)
(* basic group has no such number that it is found by, and no topic is     *)
(* polled where all chats are discovered.                                  *)
Understood(c, s) ==
  /\ \/ s.by = "name" /\ s.topic = NoTopic
     \/ s = DialogId(PlaceOf(s))
  /\ s.topic # NoTopic => ~(c.mention_policy = "all" /\ c.discover)

(* Listing, fetch and gate agree on the whitelist: what people write in a  *)
(* place on it is delivered where they understand the source, and is not   *)
(* where they do not, if no other source helps.                            *)
UnderstoodDelivered ==
  \A s \in config.whitelist :
    /\ Understood(config, s) => Delivers(config, PlaceOf(s))
    /\ ~Understood(config, s) /\ config.whitelist = {s} /\ config.mention_list = {}
         => ~Delivers(config, PlaceOf(s))
=============================================================================
