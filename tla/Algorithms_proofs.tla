-------------------------- MODULE Algorithms_proofs -------------------------
(***************************************************************************)
(* The algorithms that stand alone, for every configuration, batch and     *)
(* document: the gate that decides what is mailed, compose_batch for every *)
(* limit and every measure of the size of a mail (nothing is assumed of    *)
(* Size, not even that a mail with less in it is smaller), and the parser  *)
(* of HTML replies for documents of any length and any nesting.            *)
(***************************************************************************)
EXTENDS Addressing, Composer, ReplyText, FiniteSetTheorems,
        WellFoundedInduction, TLAPS

(* What is addressed.                                                      *)

(* The answers given so far are those of is_addressed for a message of a   *)
(* dialog that is listed.                                                  *)
AddressingInv ==
  /\ config \in Configs
  /\ \A v \in verdict :
       /\ v.message \in Messages
       /\ v.addressed = IsAddressed(config, v.dialog, v.message)

LEMMA AddressingInvariant == AddressingSpec => []AddressingInv
<1>1. AddressingInit => AddressingInv
  BY DEF AddressingInit, AddressingInv
<1>2. AddressingInv /\ [Classify]_addressingVars => AddressingInv'
  <2> SUFFICES ASSUME AddressingInv, [Classify]_addressingVars
               PROVE  AddressingInv'
    OBVIOUS
  <2> USE DEF AddressingInv
  <2>1. CASE Classify
    <3>1. PICK d \in Tracked(config), m \in Messages :
            verdict' = {[dialog |-> d, message |-> m,
                         addressed |-> IsAddressed(config, d, m)]}
      BY <2>1 DEF Classify
    <3>2. config' = config
      BY <2>1 DEF Classify
    <3> QED BY <3>1, <3>2
  <2>2. CASE UNCHANGED addressingVars
    BY <2>2 DEF addressingVars
  <2> QED BY <2>1, <2>2
<1> QED BY <1>1, <1>2, PTL DEF AddressingSpec

(* The gate is the decision table, whatever is listed where; under         *)
(* forced_list that of the message with a mention in it.                   *)
LEMMA GateIsTable ==
  ASSUME NEW c \in Configs, NEW d, NEW m \in Messages
  PROVE  IsAddressed(c, d, m) =
           Table(c, d, IF c.mention_policy = "forced_list"
                         THEN [m EXCEPT !.mentioned = TRUE] ELSE m)
<1> DEFINE r == IF c.mention_policy = "forced_list"
                  THEN [m EXCEPT !.mentioned = TRUE] ELSE m
<1>0. /\ r.is_bot = m.is_bot
      /\ r.username = m.username
      /\ r.mentioned = (m.mentioned \/ c.mention_policy = "forced_list")
  BY DEF Messages
<1> HIDE DEF r
<1>1. c.mention_policy \in MentionPolicies /\ c.bot_policy \in BotPolicies
  BY DEF Configs
<1>2. Counted(c, d, m) <=>
        r.mentioned /\ (c.mention_policy = "all" \/ Listed(d, c.mention_list))
  BY <1>0, <1>1 DEF Counted, MentionPolicies
<1>3. BotAllowed(c, m) <=>
        /\ c.bot_policy # "none"
        /\ ~(c.bot_policy = "selected" /\ ~BotInList(c, m))
  BY <1>1 DEF BotAllowed, BotPolicies
<1>4. IsAddressed(c, d, m) <=>
        /\ m.is_bot => BotAllowed(c, m)
        /\ SourceType(d) = "dm" \/ Listed(d, c.whitelist) \/ Counted(c, d, m)
  BY DEF IsAddressed
<1>5. BotInList(c, r) <=> BotInList(c, m)
  BY <1>0 DEF BotInList
<1>6. Table(c, d, r) <=>
        /\ ~(r.is_bot /\ c.bot_policy = "none")
        /\ ~(r.is_bot /\ c.bot_policy = "selected" /\ ~BotInList(c, r))
        /\ \/ SourceType(d) = "dm"
           \/ Listed(d, c.whitelist)
           \/ /\ r.mentioned
              /\ c.mention_policy = "all" \/ Listed(d, c.mention_list)
  BY DEF Table
<1>7. IsAddressed(c, d, m) \in BOOLEAN /\ Table(c, d, r) \in BOOLEAN
  BY DEF IsAddressed, Table
<1>8. IsAddressed(c, d, m) = Table(c, d, r)
  BY <1>0, <1>2, <1>3, <1>4, <1>5, <1>6, <1>7
<1> QED BY <1>8 DEF r

(* Every answer of the gate is that of the decision table, for every       *)
(* account and configuration; under forced_list it takes each message for  *)
(* one that mentions U.                                                    *)
THEOREM GateByTable == AddressingSpec => []GateFollowsTable
<1>1. AddressingInv => GateFollowsTable
  BY GateIsTable DEF AddressingInv, GateFollowsTable
<1> QED BY <1>1, AddressingInvariant, PTL

(* A source that is understood goes by one of the names its place has.     *)
LEMMA UnderstoodListed ==
  ASSUME NEW c \in Configs, NEW s \in c.whitelist, Understood(c, s)
  PROVE  /\ s \in Sources
         /\ Listed(PlaceOf(s), c.whitelist)
<1>1. s \in Sources
  BY DEF Configs
<1>2. s = [by |-> s.by, peer |-> s.peer, topic |-> s.topic]
  BY <1>1 DEF Sources
<1>3. s \in Ids(PlaceOf(s))
  <2>1. CASE s = DialogId(PlaceOf(s))
    BY <2>1 DEF Ids
  <2>2. CASE s.by = "name" /\ s.topic = NoTopic
    <3>1. s.peer \in Named
      BY <1>1, <2>2 DEF Sources, Forms
    <3> QED BY <1>2, <2>2, <3>1 DEF Ids, PlaceOf
  <2> QED BY <2>1, <2>2 DEF Understood
<1> QED BY <1>1, <1>3 DEF Listed

(* And it is of no basic group, whose number no dialog_id has.             *)
LEMMA UnderstoodFetched ==
  ASSUME NEW c \in Configs, NEW s \in Sources, Understood(c, s)
  PROVE  Fetched(PlaceOf(s))
<1>1. SUFFICES ASSUME PeerType[s.peer] = "basic" PROVE FALSE
  BY DEF Fetched, PlaceOf
<1>2. s.peer \notin Named
  BY <1>1, AddressingAssumption
<1>3. s.by \in {"plain", "minus"}
  BY <1>1, <1>2 DEF Sources, Forms
<1>4. s = DialogId(PlaceOf(s))
  BY <1>3 DEF Understood
<1>5. s.by = "minus100"
  BY <1>1, <1>4 DEF DialogId, PlaceOf, IsUser
<1> QED BY <1>3, <1>5

(* Alone on the lists, a source that is not understood delivers nothing:   *)
(* its place is not polled, or a message of it that mentions nobody is     *)
(* dropped.                                                                *)
LEMMA NotUnderstoodDropped ==
  ASSUME NEW c \in Configs, NEW s \in Sources, ~Understood(c, s),
         c.whitelist = {s}, c.mention_list = {}
  PROVE  ~Delivers(c, PlaceOf(s))
<1> DEFINE d == PlaceOf(s)
           plain == [is_bot |-> FALSE, username |-> FALSE, mentioned |-> FALSE]
<1>0. /\ s.by \in {"name", "plain", "minus", "minus100"}
      /\ s.peer \in Peers
      /\ s.topic # NoTopic => PeerType[s.peer] = "group"
      /\ s.by # "name" => s.by \in Forms(s.peer)
      /\ s = [by |-> s.by, peer |-> s.peer, topic |-> s.topic]
  BY DEF Sources
<1>1. CASE s.topic # NoTopic /\ c.mention_policy = "all" /\ c.discover
  <2>1. d \notin Tracked(c)
    BY <1>1 DEF Tracked, PlaceOf
  <2> QED BY <2>1 DEF Delivers
<1>2. CASE ~(s.topic # NoTopic /\ c.mention_policy = "all" /\ c.discover)
  <2>1. s # DialogId(d) /\ ~(s.by = "name" /\ s.topic = NoTopic)
    BY <1>2 DEF Understood
  <2>2. ~Listed(d, c.whitelist) /\ ~Listed(d, c.mention_list)
    <3>1. s \notin Ids(d)
      BY <2>1 DEF Ids
    <3> QED BY <3>1 DEF Listed
  <2>3. SourceType(d) # "dm"
    <3>1. PeerType[s.peer] # "dm"
      <4>1. SUFFICES ASSUME PeerType[s.peer] = "dm" PROVE FALSE
        OBVIOUS
      <4>2. s.topic = NoTopic
        BY <1>0, <4>1
      <4>3. s.by = "plain"
        BY <1>0, <2>1, <4>1, <4>2 DEF Forms
      <4> QED BY <1>0, <2>1, <4>1, <4>2, <4>3 DEF DialogId, PlaceOf, IsUser
    <3> QED BY <3>1 DEF SourceType, PlaceOf, IsUser
  <2>4. plain \in Messages /\ ~plain.is_bot /\ ~plain.mentioned
    BY DEF Messages
  <2>5. ~Counted(c, d, plain)
    <3>1. c.mention_policy \in MentionPolicies
      BY DEF Configs
    <3> QED BY <2>2, <2>4, <3>1 DEF Counted, MentionPolicies
  <2>6. ~IsAddressed(c, d, plain)
    BY <2>2, <2>3, <2>5 DEF IsAddressed
  <2> QED BY <2>4, <2>6 DEF Delivers
<1> QED BY <1>1, <1>2

(* What is on the whitelist is polled and fetched, and what people write   *)
(* there is mailed, for every source that listing and gate take for the    *)
(* same place; and for no other, unless it is listed in another way too.   *)
THEOREM WhitelistHolds == AddressingSpec => []UnderstoodDelivered
<1>1. AddressingInv => UnderstoodDelivered
  <2> SUFFICES ASSUME AddressingInv, NEW s \in config.whitelist
               PROVE  /\ Understood(config, s) => Delivers(config, PlaceOf(s))
                      /\ ~Understood(config, s) /\ config.whitelist = {s}
                           /\ config.mention_list = {}
                           => ~Delivers(config, PlaceOf(s))
    BY DEF UnderstoodDelivered
  <2>1. config \in Configs /\ s \in Sources
    BY DEF AddressingInv, Configs
  <2>2. ASSUME Understood(config, s) PROVE Delivers(config, PlaceOf(s))
    <3>1. Listed(PlaceOf(s), config.whitelist)
      BY <2>1, <2>2, UnderstoodListed
    <3>2. PlaceOf(s) \in Tracked(config)
      <4>1. CASE config.mention_policy = "all" /\ config.discover
        <5>1. s.topic = NoTopic /\ s.peer \in Peers
          BY <2>1, <2>2, <4>1 DEF Understood, Sources
        <5> QED BY <4>1, <5>1 DEF Tracked, PlaceOf
      <4>2. CASE ~(config.mention_policy = "all" /\ config.discover)
        BY <4>2 DEF Tracked
      <4> QED BY <4>1, <4>2
    <3>3. Fetched(PlaceOf(s))
      BY <2>1, <2>2, UnderstoodFetched
    <3> QED BY <3>1, <3>2, <3>3 DEF Delivers, IsAddressed
  <2>3. ASSUME ~Understood(config, s), config.whitelist = {s}, config.mention_list = {}
        PROVE  ~Delivers(config, PlaceOf(s))
    BY <2>1, <2>3, NotUnderstoodDropped
  <2> QED BY <2>2, <2>3
<1> QED BY <1>1, AddressingInvariant, PTL

---------------------------------------------------------------------------
(* compose_batch.                                                          *)

Slices == [first : Nat, last : Nat]

(* The groups cover the batch, one after the other.                        *)
Covers(gs) ==
  /\ gs \in Seq(Slices)
  /\ gs # << >>
  /\ gs[1].first = 1
  /\ gs[Len(gs)].last = Len(batch)
  /\ \A k \in 1 .. Len(gs) :
       1 <= gs[k].first /\ gs[k].first <= gs[k].last /\ gs[k].last <= Len(batch)
  /\ \A k \in 2 .. Len(gs) : gs[k].first = gs[k - 1].last + 1

(* Each draft is that of the group at its place.                           *)
DraftOf(k) ==
  /\ drafts[k].group = groups[k]
  /\ ~TooLarge(drafts[k].group, drafts[k].omitted, k)
  /\ drafts[k].omitted # LargeFiles(drafts[k].group) =>
       /\ Alone(drafts[k].group)
       /\ TooLarge(drafts[k].group, LargeFiles(drafts[k].group), k)

DraftsOfGroups ==
  /\ drafts = [k \in 1 .. Len(drafts) |-> drafts[k]]
  /\ Len(drafts) \in Nat
  /\ Len(drafts) = at - 1
  /\ \A k \in 1 .. Len(drafts) : DraftOf(k)

OutcomeRight ==
  /\ outcome = "drafts" => at > Len(groups)
  /\ outcome = "refused" =>
       \E k \in 1 .. Len(groups) :
         Alone(groups[k]) /\ TooLarge(groups[k], MediaIn(groups[k]), k)

ComposerInv ==
  /\ batch \in Batches
  /\ Covers(groups)
  /\ at \in 1 .. Len(groups) + 1
  /\ DraftsOfGroups
  /\ OutcomeRight

(* A group that is not a single message has two halves, which cover it.    *)
LEMMA HalvesCover ==
  ASSUME NEW g \in Slices, g.first <= g.last, ~Alone(g)
  PROVE  /\ Halved(g) \in Seq(Slices) /\ Len(Halved(g)) = 2
         /\ Halved(g)[1].first = g.first
         /\ Halved(g)[1].first <= Halved(g)[1].last
         /\ Halved(g)[2].first = Halved(g)[1].last + 1
         /\ Halved(g)[2].first <= Halved(g)[2].last
         /\ Halved(g)[2].last = g.last
<1> DEFINE n == (g.last - g.first + 1) \div 2
<1>1. g.first \in Nat /\ g.last \in Nat /\ g.first < g.last
  BY DEF Slices, Alone
<1>2. n \in Nat /\ 1 <= n /\ n <= g.last - g.first
  BY <1>1
<1>3. Halved(g) = <<Slice(g.first, g.first + n - 1), Slice(g.first + n, g.last)>>
  BY DEF Halved
<1> HIDE DEF n
<1>4. /\ Slice(g.first, g.first + n - 1) \in Slices
      /\ Slice(g.first + n, g.last) \in Slices
  BY <1>1, <1>2 DEF Slice, Slices
<1>5. Halved(g) \in Seq(Slices) /\ Len(Halved(g)) = 2
  BY <1>3, <1>4
<1>6. /\ Halved(g)[1] = Slice(g.first, g.first + n - 1)
      /\ Halved(g)[2] = Slice(g.first + n, g.last)
  BY <1>3
<1> QED BY <1>1, <1>2, <1>5, <1>6 DEF Slice

(* The halves in the place of their group cover the batch as before.       *)
LEMMA SplitCovers ==
  ASSUME Covers(groups), Len(batch) \in Nat, NEW k \in 1 .. Len(groups),
         ~Alone(groups[k])
  PROVE  Covers(Replaced(k, Halved(groups[k])))
<1> DEFINE g == groups[k]  h == Halved(g)  new == Replaced(k, h)
<1>1. /\ groups \in Seq(Slices) /\ Len(groups) \in Nat /\ Len(groups) >= 1
      /\ \A j \in 1 .. Len(groups) : groups[j] \in Slices
  BY DEF Covers
<1>2. g \in Slices /\ 1 <= g.first /\ g.first <= g.last /\ g.last <= Len(batch)
  BY <1>1 DEF Covers
<1>3. /\ h \in Seq(Slices) /\ Len(h) = 2
      /\ h[1] \in Slices /\ h[2] \in Slices
      /\ h[1].first = g.first /\ h[1].first <= h[1].last
      /\ h[2].first = h[1].last + 1 /\ h[2].first <= h[2].last
      /\ h[2].last = g.last
  BY <1>2, HalvesCover
<1> HIDE DEF h, g
<1>4. /\ DOMAIN new = 1 .. Len(groups) + 1
      /\ \A j \in 1 .. Len(groups) + 1 :
           /\ j < k => new[j] = groups[j]
           /\ j = k => new[j] = h[1]
           /\ j = k + 1 => new[j] = h[2]
           /\ j > k + 1 => new[j] = groups[j - 1]
  BY <1>1 DEF Replaced
<1>5. ASSUME NEW j \in 1 .. Len(groups) + 1 PROVE new[j] \in Slices
  <2>1. CASE j <= k + 1
    BY <1>1, <1>3, <1>4, <2>1
  <2>2. CASE j > k + 1
    <3>1. j - 1 \in 1 .. Len(groups)
      BY <1>1, <2>2
    <3> QED BY <1>1, <1>4, <2>2, <3>1
  <2> QED BY <1>1, <2>1, <2>2
<1>6. new \in Seq(Slices) /\ Len(new) = Len(groups) + 1
  BY <1>1, <1>4, <1>5 DEF Replaced
<1> HIDE DEF new
<1>f. \A s \in Slices : s.first \in Nat /\ s.last \in Nat
  BY DEF Slices
<1>7. new # << >> /\ new[1].first = 1
  <2>1. CASE k = 1
    BY <1>1, <1>3, <1>4, <1>6, <2>1 DEF Covers, g
  <2>2. CASE k > 1
    BY <1>1, <1>4, <1>6, <2>2 DEF Covers
  <2> QED BY <2>1, <2>2
<1>8. new[Len(new)].last = Len(batch)
  <2>1. CASE k = Len(groups)
    BY <1>1, <1>3, <1>4, <1>6, <2>1 DEF Covers, g
  <2>2. CASE k < Len(groups)
    BY <1>1, <1>4, <1>6, <2>2 DEF Covers
  <2> QED BY <1>1, <2>1, <2>2
<1>9. ASSUME NEW j \in 1 .. Len(new)
      PROVE  1 <= new[j].first /\ new[j].first <= new[j].last
               /\ new[j].last <= Len(batch)
  <2>1. CASE j < k
    BY <1>1, <1>4, <1>6, <2>1 DEF Covers
  <2>2. CASE j = k \/ j = k + 1
    BY <1>1, <1>2, <1>3, <1>4, <1>6, <1>f, <2>2
  <2>3. CASE j > k + 1
    <3>1. j - 1 \in 1 .. Len(groups) /\ new[j] = groups[j - 1]
      BY <1>1, <1>4, <1>6, <2>3
    <3> QED BY <3>1 DEF Covers
  <2> QED BY <1>1, <1>6, <2>1, <2>2, <2>3
<1>10. ASSUME NEW j \in 2 .. Len(new)
       PROVE  new[j].first = new[j - 1].last + 1
  <2>0. \A i \in 2 .. Len(groups) : groups[i].first = groups[i - 1].last + 1
    BY DEF Covers
  <2>j. j \in 1 .. Len(groups) + 1 /\ j - 1 \in 1 .. Len(groups) + 1
    BY <1>1, <1>6
  <2>1. CASE j < k
    <3>1. j \in 2 .. Len(groups) /\ j - 1 < k
      BY <1>1, <1>6, <2>1
    <3>2. new[j] = groups[j]
      BY <1>4, <2>1, <2>j
    <3>3. new[j - 1] = groups[j - 1]
      BY <1>4, <2>j, <3>1
    <3> QED BY <2>0, <3>1, <3>2, <3>3
  <2>2. CASE j = k
    BY <1>1, <1>3, <1>4, <1>6, <2>0, <2>2, <2>j DEF g
  <2>3. CASE j = k + 1
    BY <1>1, <1>3, <1>4, <1>6, <2>3
  <2>4. CASE j = k + 2
    <3>1. j - 1 \in 2 .. Len(groups) /\ new[j] = groups[j - 1] /\ new[j - 1] = h[2]
      BY <1>1, <1>4, <1>6, <2>4, <2>j
    <3>2. groups[(j - 1) - 1] = groups[k]
      BY <2>4
    <3> QED BY <1>3, <2>0, <3>1, <3>2 DEF g
  <2>5. CASE j > k + 2
    <3>1. /\ j - 1 \in 2 .. Len(groups)
          /\ new[j] = groups[j - 1] /\ new[j - 1] = groups[(j - 1) - 1]
      BY <1>1, <1>4, <1>6, <2>5, <2>j
    <3> QED BY <2>0, <3>1
  <2> QED BY <1>1, <1>6, <2>1, <2>2, <2>3, <2>4, <2>5
<1> QED BY <1>6, <1>7, <1>8, <1>9, <1>10 DEF Covers, new, h, g
---------------------------------------------------------------------------
(* The steps.                                                              *)

LEMMA BatchLength == ASSUME batch \in Batches PROVE Len(batch) \in Nat \ {0}
BY ComposerAssumption

(* What is measured is the same as long as the batch and the groups are.   *)
LEMMA MeasuresStand ==
  ASSUME UNCHANGED <<batch, groups>>
  PROVE  /\ \A g, m, k : TooLarge(g, m, k)' <=> TooLarge(g, m, k)
         /\ \A g : LargeFiles(g)' = LargeFiles(g) /\ MediaIn(g)' = MediaIn(g)
BY DEF TooLarge, LargeFiles, MediaIn

(* And so are the drafts.                                                  *)
LEMMA DraftsStand ==
  ASSUME ComposerInv, UNCHANGED <<batch, groups, at, drafts>>
  PROVE  /\ batch' \in Batches /\ Covers(groups)' /\ at' \in 1 .. Len(groups') + 1
         /\ DraftsOfGroups'
<1>1. \A k \in 1 .. Len(drafts) : DraftOf(k) => DraftOf(k)'
  BY MeasuresStand DEF DraftOf
<1> QED BY <1>1 DEF ComposerInv, Covers, DraftsOfGroups

(* A draft that fits is added for the group in hand.                       *)
LEMMA AddDraftKeeps ==
  ASSUME ComposerInv, Composing, NEW omitted, AddDraft(omitted),
         ~TooLarge(groups[at], omitted, at),
         omitted # LargeFiles(groups[at]) => Alone(groups[at]) /\ TooLargeNow
  PROVE  ComposerInv'
<1> USE DEF ComposerInv, DraftsOfGroups
<1>1. /\ at' = at + 1 /\ batch' = batch /\ groups' = groups /\ outcome' = outcome
      /\ drafts' = Append(drafts, [group |-> groups[at], omitted |-> omitted])
  BY DEF AddDraft
<1>2. Len(groups) \in Nat /\ at \in 1 .. Len(groups)
  BY DEF Covers, Composing
<1>3. /\ \A g, m, k : TooLarge(g, m, k)' <=> TooLarge(g, m, k)
      /\ \A g : LargeFiles(g)' = LargeFiles(g) /\ MediaIn(g)' = MediaIn(g)
  BY <1>1, MeasuresStand
<1>4. drafts \in Seq({drafts[k] : k \in 1 .. Len(drafts)})
  BY DEF DraftsOfGroups
<1>5. /\ drafts' = [k \in 1 .. Len(drafts) + 1 |->
                     IF k = Len(drafts) + 1
                       THEN [group |-> groups[at], omitted |-> omitted]
                       ELSE drafts[k]]
      /\ Len(drafts') = Len(drafts) + 1
  BY <1>1, <1>4
<1>6. ASSUME NEW k \in 1 .. Len(drafts') PROVE DraftOf(k)'
  <2>1. CASE k = Len(drafts) + 1
    <3>1. drafts'[k] = [group |-> groups[at], omitted |-> omitted] /\ k = at
      BY <1>2, <1>5, <2>1
    <3>2. drafts'[k].group = groups[at] /\ drafts'[k].omitted = omitted
      BY <3>1
    <3> QED BY <1>1, <1>3, <3>1, <3>2 DEF DraftOf, TooLargeNow
  <2>2. CASE k \in 1 .. Len(drafts)
    <3>1. drafts'[k] = drafts[k]
      BY <1>5, <2>2
    <3>2. DraftOf(k)
      BY <2>2
    <3> QED BY <1>1, <1>3, <3>1, <3>2 DEF DraftOf
  <2> QED BY <1>5, <2>1, <2>2
<1>7. DraftsOfGroups'
  BY <1>1, <1>2, <1>5, <1>6
<1>8. Covers(groups)' /\ at' \in 1 .. Len(groups') + 1
  BY <1>1, <1>2 DEF Covers
<1>9. OutcomeRight'
  BY <1>1, <1>3 DEF OutcomeRight, Composing
<1> QED BY <1>1, <1>7, <1>8, <1>9

LEMMA ComposerStepKeeps == ComposerInv /\ [ComposerNext]_composerVars => ComposerInv'
<1> SUFFICES ASSUME ComposerInv, [ComposerNext]_composerVars PROVE ComposerInv'
  OBVIOUS
<1>g. Len(groups) \in Nat /\ Len(groups) >= 1 /\ groups \in Seq(Slices)
  BY DEF ComposerInv, Covers
<1>1. CASE Keep
  BY <1>1, AddDraftKeeps DEF Keep, TooLargeNow
<1>2. CASE Split
  <2> USE DEF ComposerInv
  <2>1. /\ groups' = Replaced(at, Halved(groups[at])) /\ at' = 1 /\ drafts' = << >>
        /\ batch' = batch /\ outcome' = outcome /\ outcome = "composing"
        /\ at \in 1 .. Len(groups) /\ ~Alone(groups[at])
    BY <1>2, <1>g DEF Split, Composing
  <2>2. Covers(groups)'
    BY <2>1, SplitCovers, BatchLength DEF Covers
  <2>3. at' \in 1 .. Len(groups') + 1
    BY <2>1, <2>2 DEF Covers
  <2>4. Len(drafts') = 0 /\ drafts' = [k \in 1 .. Len(drafts') |-> drafts'[k]]
    BY <2>1
  <2>5. DraftsOfGroups' /\ OutcomeRight'
    BY <2>1, <2>4 DEF DraftsOfGroups, OutcomeRight
  <2> QED BY <2>1, <2>2, <2>3, <2>5
<1>3. CASE Degrade
  BY <1>3, AddDraftKeeps DEF Degrade, TooLargeBare
<1>4. CASE Refuse
  <2> USE DEF ComposerInv
  <2>1. /\ outcome' = "refused" /\ UNCHANGED <<batch, groups, at, drafts>>
        /\ at \in 1 .. Len(groups) /\ Alone(groups[at])
        /\ TooLarge(groups[at], MediaIn(groups[at]), at)
    BY <1>4, <1>g DEF Refuse, Composing, TooLargeBare
  <2>2. OutcomeRight'
    BY <2>1, MeasuresStand DEF OutcomeRight
  <2> QED BY <2>1, <2>2, DraftsStand
<1>5. CASE Finish
  <2>1. outcome' = "drafts" /\ UNCHANGED <<batch, groups, at, drafts>> /\ at > Len(groups)
    BY <1>5 DEF Finish
  <2>2. OutcomeRight'
    BY <2>1 DEF OutcomeRight
  <2> QED BY <2>1, <2>2, DraftsStand DEF ComposerInv
<1>6. CASE UNCHANGED composerVars
  <2>1. UNCHANGED <<batch, groups, at, drafts, outcome>>
    BY <1>6 DEF composerVars
  <2>2. OutcomeRight'
    BY <2>1, MeasuresStand DEF ComposerInv, OutcomeRight
  <2> QED BY <2>1, <2>2, DraftsStand DEF ComposerInv
<1> QED BY <1>1, <1>2, <1>3, <1>4, <1>5, <1>6 DEF ComposerNext

LEMMA ComposerInitKeeps == ComposerInit => ComposerInv
<1> SUFFICES ASSUME ComposerInit PROVE ComposerInv
  OBVIOUS
<1>1. Len(batch) \in Nat \ {0} /\ batch \in Batches
  BY BatchLength DEF ComposerInit
<1>2. Slice(1, Len(batch)) \in Slices
  BY <1>1 DEF Slice, Slices
<1>3. /\ groups \in Seq(Slices) /\ Len(groups) = 1
      /\ groups[1] = Slice(1, Len(batch)) /\ at = 1
  BY <1>2 DEF ComposerInit
<1>4. Covers(groups)
  BY <1>1, <1>3 DEF Covers, Slice
<1>5. drafts = [k \in 1 .. Len(drafts) |-> drafts[k]] /\ Len(drafts) = 0
  BY DEF ComposerInit
<1>6. DraftsOfGroups /\ OutcomeRight
  BY <1>3, <1>5 DEF DraftsOfGroups, OutcomeRight, ComposerInit
<1> QED BY <1>1, <1>3, <1>4, <1>6 DEF ComposerInv

---------------------------------------------------------------------------
(* Theorems.                                                               *)

(* What compose_batch returns carries every message of the batch once and  *)
(* in order, in mails within the limit; beside the files above the         *)
(* threshold it omits media only of a message that does not fit alone, and *)
(* it refuses a batch only for a message that does not fit even so.        *)
THEOREM Composition == ComposerSpec => []ComposedRight
<1>1. ComposerInv => ComposedRight
  <2> SUFFICES ASSUME ComposerInv PROVE ComposedRight
    OBVIOUS
  <2> USE DEF ComposerInv, DraftsOfGroups
  <2>1. ASSUME outcome = "drafts"
        PROVE  InOrder /\ WithinLimit /\ OmittedForCause
    <3>1. Len(groups) \in Nat /\ Len(groups) >= 1
      BY DEF Covers
    <3>2. Len(drafts) = Len(groups)
      BY <2>1, <3>1 DEF OutcomeRight
    <3>3. \A k \in 1 .. Len(drafts) : drafts[k].group = groups[k]
      BY DEF DraftOf
    <3>4. drafts[1].group.first = 1 /\ drafts[Len(drafts)].group.last = Len(batch)
      BY <3>1, <3>2, <3>3 DEF Covers
    <3>5. ASSUME NEW k \in 1 .. Len(drafts)
          PROVE  /\ drafts[k].group.first <= drafts[k].group.last
                 /\ k > 1 => drafts[k].group.first = drafts[k - 1].group.last + 1
      <4>1. drafts[k].group.first <= drafts[k].group.last
        BY <3>2, <3>3 DEF Covers
      <4>2. CASE k > 1
        <5>1. k \in 2 .. Len(groups) /\ k - 1 \in 1 .. Len(drafts)
          BY <3>1, <3>2, <4>2
        <5> QED BY <3>3, <4>1, <5>1 DEF Covers
      <4> QED BY <4>1, <4>2
    <3>6. InOrder
      BY <3>2, <3>4, <3>5 DEF InOrder
    <3> QED BY <3>6 DEF WithinLimit, OmittedForCause, DraftOf
  <2> QED BY <2>1 DEF ComposedRight, OutcomeRight
<1> QED BY <1>1, ComposerInitKeeps, ComposerStepKeeps, PTL DEF ComposerSpec

---------------------------------------------------------------------------
(* The parser of HTML replies.                                             *)

Elements == [tag : Tags, quote : BOOLEAN]

(* The open elements of the tag that is counted, from the q-th on.         *)
OpenOfTag(q) == {k \in q .. Len(stack) : stack[k].tag = skipTag}

(* The parser is inside the q-th element, the outermost quote, and counts  *)
(* the elements of its tag that are still open.                            *)
InsideQuote(q) ==
  /\ q \in 1 .. Len(stack)
  /\ stack[q].quote
  /\ stack[q].tag = skipTag
  /\ \A k \in 1 .. q - 1 : ~stack[k].quote
  /\ skip = Cardinality(OpenOfTag(q))

ReplyInv ==
  /\ stack \in Seq(Elements)
  /\ skip \in Nat
  /\ parts \in Texts
  /\ outside = parts
  /\ skip = 0 => ~InQuote
  /\ skip > 0 => \E q \in 1 .. Len(stack) : InsideQuote(q)

(* A set of numbers that is not empty has a smallest one.                  *)
LEMMA Smallest ==
  ASSUME NEW S, S \subseteq Nat, S # {}
  PROVE  \E m \in S : \A k \in S : m <= k
<1> DEFINE R == OpToRel(<, Nat)
<1>1. IsWellFoundedOn(R, Nat)
  BY NatLessThanWellFounded
<1>2. \A x, y \in Nat : x < y => <<x, y>> \in R
  BY DEF OpToRel
<1> HIDE DEF R
<1>3. PICK m \in S : \A k \in S : ~(<<k, m>> \in R)
  BY <1>1, WFMin
<1>4. \A k \in S : m \in Nat /\ k \in Nat /\ ~(k < m)
  BY <1>2, <1>3
<1>5. \A k \in S : m <= k
  BY <1>4
<1> QED BY <1>3, <1>5

LEMMA OpenOfTagFinite ==
  ASSUME stack \in Seq(Elements), NEW q \in Nat
  PROVE  IsFiniteSet(OpenOfTag(q))
<1>1. IsFiniteSet(q .. Len(stack))
  BY FS_Interval
<1>2. OpenOfTag(q) \subseteq q .. Len(stack)
  BY DEF OpenOfTag
<1> QED BY <1>1, <1>2, FS_Subset

(* A line break keeps a text a text.                                       *)
LEMMA BrokenText ==
  ASSUME NEW text \in Texts, NEW tag
  PROVE  Broken(text, tag) \in Texts
BY DEF Broken, Texts

(* A start tag is counted exactly where it has the tag of the quote, and   *)
(* breaks the line exactly where it is in no quote.                        *)
LEMMA OpensKeeps ==
  ASSUME ReplyInv, NEW tag \in Tags, NEW quote \in BOOLEAN, Opens(tag, quote)
  PROVE  ReplyInv'
<1> USE DEF ReplyInv
<1> DEFINE e == [tag |-> tag, quote |-> quote]
<1>n. PICK n \in Nat : n = Len(stack)
  OBVIOUS
<1>1. e \in Elements /\ e.tag = tag /\ e.quote = quote
  BY DEF Elements
<1>2. /\ stack' = Append(stack, e) /\ stack' \in Seq(Elements)
      /\ Len(stack') = n + 1 /\ stack'[n + 1] = e
      /\ \A k \in 1 .. n : stack'[k] = stack[k]
  BY <1>n, <1>1 DEF Opens
<1>t. outside' = IF quote \/ InQuote THEN outside ELSE Broken(outside, tag)
  BY DEF Opens
<1> HIDE DEF e
<1>3. CASE skip > 0
  <2>1. PICK q \in 1 .. Len(stack) : InsideQuote(q)
    BY <1>3
  <2>2. /\ skip' = IF tag = skipTag THEN skip + 1 ELSE skip
        /\ skipTag' = skipTag /\ parts' = parts
    BY <1>3 DEF Opens, HandleStarttag
  <2>i. InQuote
    BY <2>1 DEF InsideQuote, InQuote
  <2>3. q \in 1 .. n /\ q \in Nat
    BY <1>n, <1>1, <2>1
  <2>4. OpenOfTag(q)' = IF tag = skipTag THEN OpenOfTag(q) \cup {n + 1} ELSE OpenOfTag(q)
    BY <1>n, <1>1, <1>2, <2>2, <2>3 DEF OpenOfTag
  <2>5. n + 1 \notin OpenOfTag(q) /\ IsFiniteSet(OpenOfTag(q))
    BY <1>n, <1>1, <2>3, OpenOfTagFinite DEF OpenOfTag
  <2>a. Cardinality(OpenOfTag(q) \cup {n + 1}) = Cardinality(OpenOfTag(q)) + 1
    BY <2>5, FS_AddElement
  <2>6. skip' = Cardinality(OpenOfTag(q)')
    BY <2>1, <2>2, <2>4, <2>a DEF InsideQuote
  <2>7. /\ q \in 1 .. Len(stack') /\ stack'[q].quote /\ stack'[q].tag = skipTag'
        /\ \A k \in 1 .. q - 1 : ~stack'[k].quote
    BY <1>1, <1>2, <2>1, <2>2, <2>3 DEF InsideQuote
  <2>8. InsideQuote(q)' /\ q \in 1 .. Len(stack')
    BY <2>6, <2>7 DEF InsideQuote
  <2>9. skip' \in Nat /\ skip' > 0
    BY <1>3, <2>2
  <2> QED BY <1>2, <1>t, <2>2, <2>i, <2>8, <2>9
<1>4. CASE skip = 0 /\ ~quote
  <2>1. skip' = 0 /\ parts' = Broken(parts, tag)
    BY <1>4 DEF Opens, HandleStarttag
  <2>2. ~InQuote'
    BY <1>n, <1>1, <1>2, <1>4 DEF InQuote
  <2>3. outside' = parts' /\ parts' \in Texts
    BY <1>t, <1>4, <2>1, BrokenText
  <2> QED BY <1>2, <2>1, <2>2, <2>3
<1>5. CASE skip = 0 /\ quote
  <2>1. skip' = 1 /\ skipTag' = tag /\ parts' = parts
    BY <1>5 DEF Opens, HandleStarttag
  <2>2. \A k \in 1 .. n : ~stack[k].quote
    BY <1>n, <1>5 DEF InQuote
  <2>3. OpenOfTag(n + 1)' = {n + 1}
    BY <1>1, <1>2, <2>1 DEF OpenOfTag
  <2>4. skip' = Cardinality(OpenOfTag(n + 1)')
    BY <2>1, <2>3, FS_Singleton
  <2>a. /\ n + 1 \in 1 .. Len(stack')
        /\ stack'[n + 1].quote /\ stack'[n + 1].tag = skipTag'
    <3>1. stack'[n + 1].quote
      BY <1>1, <1>2, <1>5
    <3>2. n + 1 \in 1 .. Len(stack') /\ stack'[n + 1].tag = skipTag'
      BY <1>n, <1>1, <1>2, <2>1
    <3> QED BY <3>1, <3>2
  <2>b. \A k \in 1 .. (n + 1) - 1 : ~stack'[k].quote
    BY <1>n, <1>2, <2>2
  <2>5. InsideQuote(n + 1)' /\ n + 1 \in 1 .. Len(stack')
    BY <2>4, <2>a, <2>b DEF InsideQuote
  <2> QED BY <1>2, <1>t, <1>5, <2>1, <2>5
<1> QED BY <1>3, <1>4, <1>5

(* br and img are no tag of a quote; outside of quotes br breaks the line. *)
LEMMA OpensVoidKeeps ==
  ASSUME ReplyInv, NEW tag \in VoidTags, OpensVoid(tag)
  PROVE  ReplyInv'
<1> USE DEF ReplyInv
<1>1. stack' = stack /\ outside' = IF InQuote THEN outside ELSE Broken(outside, tag)
  BY DEF OpensVoid
<1>2. CASE skip > 0
  <2>1. PICK q \in 1 .. Len(stack) : InsideQuote(q)
    BY <1>2
  <2>2. stack[q] \in Elements
    OBVIOUS
  <2>3. skipTag \in Tags /\ InQuote
    BY <2>1, <2>2 DEF InsideQuote, InQuote, Elements
  <2>4. UNCHANGED <<skip, skipTag, parts>>
    BY <1>2, <2>3, ReplyTextAssumption DEF OpensVoid, HandleStarttag
  <2>5. InsideQuote(q)'
    BY <1>1, <2>1, <2>4 DEF InsideQuote, OpenOfTag
  <2> QED BY <1>1, <1>2, <2>3, <2>4, <2>5
<1>3. CASE skip = 0
  <2>1. ~InQuote /\ skip' = 0 /\ parts' = Broken(parts, tag)
    BY <1>3 DEF OpensVoid, HandleStarttag
  <2>2. ~InQuote'
    BY <1>1, <2>1 DEF InQuote
  <2> QED BY <1>1, <2>1, <2>2, BrokenText
<1> QED BY <1>2, <1>3

(* The parser is in a quote exactly while it skips.                        *)
LEMMA SkipsInQuotes == ReplyInv => (skip = 0 <=> ~InQuote)
BY DEF ReplyInv, InsideQuote, InQuote

LEMMA StartendtagKeeps ==
  ASSUME ReplyInv, NEW tag \in VoidTags, HandleStartendtag(tag)
  PROVE  ReplyInv'
<1>1. UNCHANGED <<stack, skip, skipTag>>
  BY DEF HandleStartendtag
<1>2. parts' \in Texts /\ outside' = parts'
  BY SkipsInQuotes, BrokenText DEF HandleStartendtag, ReplyInv
<1> QED BY <1>1, <1>2 DEF ReplyInv, InQuote, InsideQuote, OpenOfTag

(* An end tag ends the quote exactly where it is that of the quote itself. *)
LEMMA ClosesKeeps ==
  ASSUME ReplyInv, Closes
  PROVE  ReplyInv'
<1> USE DEF ReplyInv
<1>n. PICK n \in Nat : n = Len(stack)
  OBVIOUS
<1>1. n >= 1
  BY <1>n DEF Closes
<1>2. /\ stack' = SubSeq(stack, 1, n - 1) /\ stack' \in Seq(Elements)
      /\ Len(stack') = n - 1
      /\ \A k \in 1 .. n - 1 : stack'[k] = stack[k]
      /\ parts' = parts /\ outside' = outside
  BY <1>n, <1>1 DEF Closes
<1>e. HandleEndtag(stack[n].tag)
  BY <1>n DEF Closes
<1>3. CASE skip > 0
  <2>1. PICK q \in 1 .. n : InsideQuote(q)
    BY <1>n, <1>3
  <2>2. q \in Nat /\ IsFiniteSet(OpenOfTag(q)) /\ q \in OpenOfTag(q)
    BY <1>n, <1>1, <2>1, OpenOfTagFinite DEF InsideQuote, OpenOfTag
  <2>3. skip = Cardinality(OpenOfTag(q))
    BY <2>1 DEF InsideQuote
  <2>4. CASE q = n
    <3>1. OpenOfTag(q) = {n}
      BY <1>n, <1>1, <2>2, <2>4 DEF OpenOfTag
    <3>2. skip = 1
      BY <2>3, <3>1, FS_Singleton
    <3>a. skip' = 0
      BY <1>e, <2>1, <2>4, <3>2 DEF HandleEndtag, InsideQuote
    <3>3. ~InQuote'
      BY <1>1, <1>2, <2>1, <2>4 DEF InQuote, InsideQuote
    <3> QED BY <1>2, <3>a, <3>3
  <2>5. CASE q < n /\ stack[n].tag = skipTag
    <3>1. n \in OpenOfTag(q)
      BY <1>n, <1>1, <2>1, <2>5 DEF OpenOfTag
    <3>2. Cardinality(OpenOfTag(q) \ {n}) = skip - 1 /\ IsFiniteSet(OpenOfTag(q) \ {n})
      BY <2>2, <2>3, <3>1, FS_RemoveElement
    <3>3. q \in OpenOfTag(q) \ {n}
      BY <2>2, <2>5
    <3>4. skip - 1 # 0
      BY <3>2, <3>3, FS_EmptySet
    <3>5. skip' = skip - 1 /\ skipTag' = skipTag
      BY <1>e, <1>3, <2>5, <3>4 DEF HandleEndtag
    <3>6. OpenOfTag(q)' = OpenOfTag(q) \ {n}
      BY <1>n, <1>1, <1>2, <2>1, <3>5 DEF OpenOfTag
    <3>7. InsideQuote(q)' /\ q \in 1 .. Len(stack')
      BY <1>1, <1>2, <2>1, <2>5, <3>2, <3>5, <3>6 DEF InsideQuote
    <3>8. skip' \in Nat /\ skip' > 0
      BY <1>3, <3>4, <3>5
    <3> QED BY <1>2, <3>7, <3>8
  <2>6. CASE q < n /\ stack[n].tag # skipTag
    <3>1. skip' = skip /\ skipTag' = skipTag
      BY <1>e, <2>6 DEF HandleEndtag
    <3>2. OpenOfTag(q)' = OpenOfTag(q)
      BY <1>n, <1>1, <1>2, <2>1, <2>6, <3>1 DEF OpenOfTag
    <3>3. InsideQuote(q)' /\ q \in 1 .. Len(stack')
      BY <1>1, <1>2, <2>1, <2>6, <3>1, <3>2 DEF InsideQuote
    <3> QED BY <1>2, <1>3, <3>1, <3>3
  <2> QED BY <1>1, <2>1, <2>4, <2>5, <2>6
<1>4. CASE skip = 0
  <2>1. skip' = 0
    BY <1>e, <1>4 DEF HandleEndtag
  <2>2. ~InQuote'
    BY <1>n, <1>1, <1>2, <1>4 DEF InQuote
  <2> QED BY <1>2, <2>1, <2>2
<1> QED BY <1>3, <1>4

(* Text is kept exactly where it is outside every quote.                   *)
LEMMA DataKeeps ==
  ASSUME ReplyInv, NEW x \in Words \cup {LineBreak}, Data(x)
  PROVE  ReplyInv'
<1>1. UNCHANGED <<stack, skip, skipTag>>
  BY DEF Data
<1>2. parts' \in Texts /\ outside' = parts'
  BY SkipsInQuotes DEF Data, ReplyInv, Texts
<1> QED BY <1>1, <1>2 DEF ReplyInv, InQuote, InsideQuote, OpenOfTag

LEMMA ReplyInvariant == ReplySpec => []ReplyInv
<1>1. ReplyInit => ReplyInv
  BY DEF ReplyInit, ReplyInv, InQuote, Texts
<1>2. ReplyInv /\ [ReplyNext]_replyVars => ReplyInv'
  <2> SUFFICES ASSUME ReplyInv, [ReplyNext]_replyVars PROVE ReplyInv'
    OBVIOUS
  <2>1. CASE ReplyNext
    BY <2>1, OpensKeeps, OpensVoidKeeps, StartendtagKeeps, ClosesKeeps, DataKeeps
    DEF ReplyNext
  <2>2. CASE UNCHANGED replyVars
    BY <2>2 DEF replyVars, ReplyInv, InQuote, InsideQuote, OpenOfTag
  <2> QED BY <2>1, <2>2
<1> QED BY <1>1, <1>2, PTL DEF ReplySpec

(* strip_quoted_tail keeps the lines before the first of the tail.         *)
LEMMA TailStripped ==
  ASSUME NEW text \in Texts
  PROVE  \E n \in 0 .. Len(text) :
           /\ StripQuotedTail(text) = SubSeq(text, 1, n)
           /\ \A k \in LineStarts(text) : k <= n => ~IsTail(LineFrom(text, k))
           /\ n < Len(text) => n + 1 \in TailStarts(text)
<1> DEFINE ends == TailStarts(text)
           first == CHOOSE k \in ends : \A j \in ends : k <= j
<1>n. Len(text) \in Nat
  BY DEF Texts
<1>1. /\ Len(text) \in Nat /\ SubSeq(text, 1, Len(text)) = text
      /\ ends \subseteq LineStarts(text) /\ LineStarts(text) \subseteq 1 .. Len(text)
      /\ \A k \in LineStarts(text) : k \notin ends => ~IsTail(LineFrom(text, k))
  BY DEF Texts, TailStarts, LineStarts
<1>2. CASE ends = {}
  <2>1. StripQuotedTail(text) = SubSeq(text, 1, Len(text))
    BY <1>1, <1>2 DEF StripQuotedTail
  <2>2. PICK n \in 0 .. Len(text) : n = Len(text)
    <3>1. Len(text) \in 0 .. Len(text)
      BY <1>n
    <3> QED BY <3>1
  <2> HIDE DEF ends
  <2>3. \A k \in LineStarts(text) : ~IsTail(LineFrom(text, k))
    BY <1>1, <1>2
  <2>4. StripQuotedTail(text) = SubSeq(text, 1, n) /\ ~(n < Len(text))
    BY <1>n, <2>1, <2>2
  <2> QED BY <2>3, <2>4
<1>3. CASE ends # {}
  <2>1. \E k \in ends : \A j \in ends : k <= j
    <3>1. ends \subseteq Nat
      BY <1>1
    <3> QED BY <1>3, <3>1, Smallest
  <2>2. first \in ends /\ \A j \in ends : first <= j
    BY <2>1
  <2>3. StripQuotedTail(text) = SubSeq(text, 1, first - 1)
    BY <1>3 DEF StripQuotedTail
  <2> HIDE DEF first, ends
  <2>4. first \in 1 .. Len(text)
    BY <1>1, <2>2
  <2>5. ASSUME NEW k \in LineStarts(text), k <= first - 1 PROVE k \notin ends
    <3>1. k \in 1 .. Len(text) /\ ~(first <= k)
      BY <1>1, <2>4, <2>5
    <3> QED BY <2>2, <3>1
  <2>6. first - 1 \in 0 .. Len(text) /\ (first - 1) + 1 = first
    BY <1>1, <2>4
  <2> QED BY <1>1, <2>2, <2>3, <2>5, <2>6 DEF ends
<1> QED BY <1>2, <1>3

(* The text of an HTML reply is all that U wrote outside the quotes, with  *)
(* the line breaks of its blocks, up to the first line of a quoted tail,   *)
(* and nothing of the quotes, however deep the elements nest and whatever  *)
(* their tags.                                                             *)
THEOREM OwnTextOnly == ReplySpec => []OwnTextKept
<1>1. ReplyInv => OwnTextKept
  BY TailStripped DEF ReplyInv, OwnTextKept, ReplyBody
<1> QED BY <1>1, ReplyInvariant, PTL
=============================================================================
