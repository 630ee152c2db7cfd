---------------------------- MODULE MCAlgorithms ----------------------------
(* Model checking of the algorithms that stand alone, one in a behaviour:  *)
(* the others stay as they start.                                          *)
EXTENDS Addressing, Composer, ReplyText, RenderEntities, TLC

CONSTANTS user, forum, news, family, topic

VARIABLE subject

algorithmVars == <<addressingVars, composerVars, replyVars, renderVars, subject>>

(* A private chat, a forum and a channel with usernames, a basic group. *)
FourPeers == {user, forum, news, family}
TypeOfPeer == user :> "dm" @@ forum :> "group" @@ news :> "channel" @@ family :> "basic"
NamedPeers == {forum, news}
OneTopic == {topic}

(* A message has so much text and one medium or none; a mail has an        *)
(* envelope, which is longer with the part in the subject.                 *)
Media ==
  {[image |-> TRUE, bytes |-> 3], [image |-> TRUE, bytes |-> 9],
   [image |-> FALSE, bytes |-> 3], [image |-> FALSE, bytes |-> 5]}

MCMessages == [text : 1 .. 2, media : {{}} \cup {{x} : x \in Media}]
MCBatches == UNION {[1 .. n -> MCMessages] : n \in 1 .. 4}

MCMediaOf(m) == m.media
MCIsImage(x) == x.image
MCAboveThreshold(x) == x.bytes > 4

MCSize(b, g, omitted, part, nparts) ==
  LET Bytes(k) == LET kept == {x \in b[k].media : <<k, x>> \notin omitted}
                  IN b[k].text + (IF kept = {} THEN 0 ELSE (CHOOSE x \in kept : TRUE).bytes)
      sum[k \in g.first - 1 .. g.last] ==
        IF k < g.first THEN (IF nparts = 1 THEN 1 ELSE 2) ELSE sum[k - 1] + Bytes(k)
  IN sum[g.last]

(* A line that ends in "wrote:" starts a tail. *)
MCTags == {"div", "blockquote"}
MCQuoteTags == {"blockquote"}
MCVoidTags == {"br"}
MCBlockTags == {"div", "blockquote", "br"}
MCWords == {"own", "wrote:"}
MCIsTail(line) == line # << >> /\ line[Len(line)] = "wrote:"

(* A span with an argument and one without. *)
TwoKinds == {"bold", "texturl"}

NoConfig == [whitelist |-> {}, mention_list |-> {}, mention_policy |-> "selected",
             discover |-> FALSE, bot_policy |-> "all", bot_list |-> {}]

AlgorithmsInit ==
  /\ subject \in {"addressing", "composer", "reply", "render"}
  /\ IF subject = "addressing" THEN AddressingInit
     ELSE config = NoConfig /\ verdict = {}
  /\ IF subject = "composer" THEN ComposerInit
     ELSE batch = << >> /\ groups = << >> /\ at = 0 /\ drafts = << >> /\ outcome = "none"
  /\ ReplyInit
  /\ IF subject = "render" THEN RenderInit
     ELSE entities = << >> /\ done = -1 /\ open = << >> /\ out = << >>

AlgorithmsNext ==
  /\ UNCHANGED subject
  /\ \/ /\ subject = "addressing" /\ Classify
        /\ UNCHANGED <<composerVars, replyVars, renderVars>>
     \/ /\ subject = "composer" /\ ComposerNext
        /\ UNCHANGED <<addressingVars, replyVars, renderVars>>
     \/ /\ subject = "reply" /\ ReplyNext
        /\ UNCHANGED <<addressingVars, composerVars, renderVars>>
     \/ /\ subject = "render" /\ RenderNext
        /\ UNCHANGED <<addressingVars, composerVars, replyVars>>

AlgorithmsSpec == AlgorithmsInit /\ [][AlgorithmsNext]_algorithmVars
=============================================================================
