--------------------------- MODULE RenderEntities ---------------------------
(***************************************************************************)
(* render_entities: the text of a message with its formatting spans        *)
(* becomes HTML.  It walks over the positions where something starts or    *)
(* ends; a text piece is the pair of its bounds, a tag names its span.     *)
(* Offsets are positions in the text (Telegram counts UTF-16 units, so     *)
(* this holds of texts without characters beyond the first plane).         *)
(***************************************************************************)
EXTENDS Integers, FiniteSets, SequencesExt

CONSTANTS
  TextLen,                \* the length of the text
  SpanKinds,              \* bold, italic, code, pre, texturl
  MaxSpans                \* bound: spans of one message

ASSUME RenderAssumption == TextLen \in Nat \ {0} /\ MaxSpans \in Nat

Spans == {e \in [kind : SpanKinds, from : 0 .. TextLen, to : 0 .. TextLen] :
            e.from < e.to}

(* Spans as Telegram gives them: of two, one holds the other or they are   *)
(* apart.                                                                  *)
Laminar(spans) ==
  \A e, f \in spans : \/ e.to <= f.from \/ f.to <= e.from
                      \/ e.from <= f.from /\ f.to <= e.to
                      \/ f.from <= e.from /\ e.to <= f.to

VARIABLES
  entities,               \* the spans, in the order Telegram gives them
  done,                   \* i: the text before it is written
  open,                   \* stack: the spans whose tag is open
  out                     \* sequence of tokens

renderVars == <<entities, done, open, out>>

Starts(pos) == SelectSeq(entities, LAMBDA e : e.from = pos)

Positions ==
  {0, TextLen} \cup UNION {{entities[k].from, entities[k].to} : k \in DOMAIN entities}

RenderInit ==
  /\ \E n \in 0 .. MaxSpans : \E spans \in kSubset(n, Spans) :
       Laminar(spans) /\ entities \in SetToSeqs(spans)
  /\ done = -1
  /\ open = << >>
  /\ out = << >>

TextPiece(a, b) == [token |-> "text", from |-> a, to |-> b]
OpenTag(e) == [token |-> "open", span |-> e]
CloseTag(e) == [token |-> "close", span |-> e]

(* Mutated: spans that start together open in the order they come. *)
OpeningAsGiven(pos) == Starts(pos)

(* The longest of the spans that start here opens first. *)
Opening(pos) == SortSeq(Starts(pos), LAMBDA e, f : e.to > f.to)

TagsOf(seq, Tag(_)) == [k \in DOMAIN seq |-> Tag(seq[k])]

At(pos) ==
  LET closing == Reverse(SelectSeq(open, LAMBDA e : e.to = pos))
      opening == Opening(pos)
  IN /\ out' = out \o (IF pos > done /\ done >= 0 THEN <<TextPiece(done, pos)>> ELSE << >>)
                   \o TagsOf(closing, CloseTag) \o TagsOf(opening, OpenTag)
     /\ open' = SelectSeq(open, LAMBDA e : e.to # pos) \o opening
     /\ done' = pos
     /\ UNCHANGED entities

RenderNext ==
  \E pos \in Positions :
    /\ pos > done
    /\ \A q \in Positions : q > done => pos <= q
    /\ At(pos)

RenderSpec == RenderInit /\ [][RenderNext]_renderVars

---------------------------------------------------------------------------
Misnested == [kind |-> "misnested", from |-> 0, to |-> 0]

(* What is written so far is the text from its start, each piece once and  *)
(* in order, and each tag closes the one opened last: the HTML is well     *)
(* nested, and at the end nothing is open.                                 *)
RenderedRight ==
  LET texts == SelectSeq(out, LAMBDA t : t.token = "text")
      tags == SelectSeq(out, LAMBDA t : t.token # "text")
      nest[k \in 0 .. Len(tags)] ==
        IF k = 0 THEN << >>
        ELSE LET t == tags[k] before == nest[k - 1] IN
             IF t.token = "open" THEN Append(before, t.span)
             ELSE IF before # << >> /\ Last(before) = t.span THEN Front(before)
             ELSE <<Misnested>>
  IN /\ nest[Len(tags)] = open
     /\ done = TextLen => open = << >>
     /\ done > 0 => /\ texts # << >>
                    /\ texts[1].from = 0
                    /\ texts[Len(texts)].to = done
                    /\ \A k \in 2 .. Len(texts) : texts[k].from = texts[k - 1].to
=============================================================================
