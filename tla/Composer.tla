------------------------------ MODULE Composer ------------------------------
(***************************************************************************)
(* EmailComposer.compose_batch: a batch becomes one mail, or several where *)
(* one would exceed EMAIL_SIZE_LIMIT_BYTES.  Files above the threshold for *)
(* attachments are never in a mail.  A group of messages that is too large *)
(* all the same is halved and the composition starts over, a message that  *)
(* is too large alone gives up all its media.  A group is a slice of the   *)
(* batch, kept as the positions of its first and last message.             *)
(***************************************************************************)
EXTENDS Integers, Sequences

CONSTANTS
  Size(_, _, _, _, _),    \* bytes of the mail of a group of a batch that leaves
                          \* out the given media, as one part of so many
  MediaOf(_),             \* the media of a message
  IsImage(_),             \* a medium is shown in the mail, not attached
  AboveThreshold(_),      \* it exceeds ATTACHMENT_THRESHOLD_BYTES
  Batches,                \* the batches looked at, sequences of messages
  SizeLimit               \* EMAIL_SIZE_LIMIT_BYTES

ASSUME ComposerAssumption ==
  /\ SizeLimit \in Nat
  /\ \A b \in Batches : Len(b) \in Nat \ {0}

VARIABLES
  batch,
  groups,                 \* sequence of [first, last]
  at,                     \* the group composed next
  drafts,                 \* sequence of [group, omitted]
  outcome                 \* "composing", "drafts" or "refused"

composerVars == <<batch, groups, at, drafts, outcome>>

Slice(first, last) == [first |-> first, last |-> last]

ComposerInit ==
  /\ batch \in Batches
  /\ groups = <<Slice(1, Len(batch))>>
  /\ at = 1
  /\ drafts = << >>
  /\ outcome = "composing"

Composing == outcome = "composing" /\ at <= Len(groups)

(* The media of a group, each with the position of its message. *)
MediaIn(g) == UNION {{<<k, x>> : x \in MediaOf(batch[k])} : k \in g.first .. g.last}

(* What a mail never attaches. *)
LargeFiles(g) == {m \in MediaIn(g) : ~IsImage(m[2]) /\ AboveThreshold(m[2])}

(* As part of the mails that the groups make now. *)
TooLarge(g, omitted, part) == Size(batch, g, omitted, part, Len(groups)) > SizeLimit

(* The group in hand as it stands, and without any media. *)
TooLargeNow == TooLarge(groups[at], LargeFiles(groups[at]), at)
TooLargeBare == TooLarge(groups[at], MediaIn(groups[at]), at)

(* The draft of a group is added, the next group follows. *)
AddDraft(omitted) ==
  /\ drafts' = Append(drafts, [group |-> groups[at], omitted |-> omitted])
  /\ at' = at + 1
  /\ UNCHANGED <<batch, groups, outcome>>

Keep ==
  /\ Composing
  /\ ~TooLargeNow
  /\ AddDraft(LargeFiles(groups[at]))

Alone(g) == g.first = g.last

(* Mutated: the message in the middle falls between the halves. *)
HalvedWithGap(g) ==
  LET n == (g.last - g.first + 1) \div 2 IN
  <<Slice(g.first, g.first + n - 1), Slice(g.last - n + 1, g.last)>>

Halved(g) ==
  LET n == (g.last - g.first + 1) \div 2 IN
  <<Slice(g.first, g.first + n - 1), Slice(g.first + n, g.last)>>

(* groups[k : k+1] = halves *)
Replaced(k, halves) ==
  [j \in 1 .. Len(groups) + 1 |->
     IF j < k THEN groups[j]
     ELSE IF j > k + 1 THEN groups[j - 1] ELSE halves[j - k + 1]]

Split ==
  /\ Composing
  /\ TooLargeNow
  /\ ~Alone(groups[at])
  /\ groups' = Replaced(at, Halved(groups[at]))
  /\ at' = 1
  /\ drafts' = << >>
  /\ UNCHANGED <<batch, outcome>>

(* All the media of the one message go at once, images and files. *)
Degrade ==
  /\ Composing
  /\ TooLargeNow
  /\ Alone(groups[at])
  /\ ~TooLargeBare
  /\ AddDraft(MediaIn(groups[at]))

(* MailSizeRejected *)
Refuse ==
  /\ Composing
  /\ Alone(groups[at])
  /\ TooLargeNow
  /\ TooLargeBare
  /\ outcome' = "refused"
  /\ UNCHANGED <<batch, groups, at, drafts>>

Finish ==
  /\ outcome = "composing"
  /\ at > Len(groups)
  /\ outcome' = "drafts"
  /\ UNCHANGED <<batch, groups, at, drafts>>

ComposerNext == Keep \/ Split \/ Degrade \/ Refuse \/ Finish

ComposerSpec == ComposerInit /\ [][ComposerNext]_composerVars

---------------------------------------------------------------------------
(* Properties.                                                             *)

(* alg-oversize-degrade: the mails carry every message of the batch, once, *)
(* in the order of the batch;                                              *)
InOrder ==
  /\ Len(drafts) = Len(groups)
  /\ drafts[1].group.first = 1
  /\ drafts[Len(drafts)].group.last = Len(batch)
  /\ \A k \in 1 .. Len(drafts) :
       /\ drafts[k].group.first <= drafts[k].group.last
       /\ k > 1 => drafts[k].group.first = drafts[k - 1].group.last + 1

(* each of them is within the limit, as the part that it became;           *)
WithinLimit == \A k \in 1 .. Len(drafts) :
  ~TooLarge(drafts[k].group, drafts[k].omitted, k)

(* and beside the files above the threshold, media are left out only of a  *)
(* message that does not fit alone.  The documents leave out files before  *)
(* they split a batch; the code splits first.                              *)
OmittedForCause == \A k \in 1 .. Len(drafts) :
  LET g == drafts[k].group IN
  drafts[k].omitted # LargeFiles(g) => Alone(g) /\ TooLarge(g, LargeFiles(g), k)

(* What compose_batch returns is all of this; and it refuses a batch only  *)
(* where some message does not fit alone and without its media.            *)
ComposedRight ==
  /\ outcome = "drafts" => InOrder /\ WithinLimit /\ OmittedForCause
  /\ outcome = "refused" =>
       \E k \in 1 .. Len(groups) :
         Alone(groups[k]) /\ TooLarge(groups[k], MediaIn(groups[k]), k)
=============================================================================
