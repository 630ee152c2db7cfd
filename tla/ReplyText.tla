----------------------------- MODULE ReplyText ------------------------------
(***************************************************************************)
(* The text of a reply that has only an HTML body: the parser _Text, which *)
(* leaves out quoted originals, and strip_quoted_tail after it.  The       *)
(* parser knows no tree.  It keeps the tag that opened a quote and counts  *)
(* the tags of that name inside it, and so has to find where the quote     *)
(* ends, with elements of any names nested in any way.                     *)
(*                                                                         *)
(* The document arrives piece by piece.  It is well nested, as mail        *)
(* clients write it; a void element (br, img) is opened and never closed,  *)
(* and none is marked as a quote.  Text is a sequence of words and line    *)
(* breaks; how spaces and blank lines are collapsed is left out.           *)
(***************************************************************************)
EXTENDS Integers, Sequences

CONSTANTS
  Tags,                   \* tags of elements with an end tag
  QuoteTags,              \* those that are quotes by name: blockquote, cite
  VoidTags,               \* br, img: no end tag
  BlockTags,              \* _BLOCK: tags that start a line; of the void ones br
  Words,                  \* what a text has beside line breaks
  LineBreak,
  IsTail(_),              \* a line, as its words, starts a quoted tail
                          \* ("... wrote:", ">", a rule)
  MaxDepth,               \* bound: elements open at once
  MaxPieces               \* bound: pieces of the document

ASSUME ReplyTextAssumption ==
  /\ QuoteTags \subseteq Tags
  /\ VoidTags \cap Tags = {}
  /\ BlockTags \subseteq Tags \cup VoidTags
  /\ LineBreak \notin Words
  /\ MaxDepth \in Nat
  /\ MaxPieces \in Nat

Texts == Seq(Words \cup {LineBreak})

NoTag == "none"

VARIABLES
  stack,                  \* the open elements, each [tag, quote]
  skip,                   \* _skip
  skipTag,                \* _skip_tag
  parts,                  \* parts: the text kept
  outside,                \* history: the text outside every quote
  pieces                  \* pieces so far

replyVars == <<stack, skip, skipTag, parts, outside, pieces>>

ReplyInit ==
  /\ stack = << >>
  /\ skip = 0
  /\ skipTag = NoTag
  /\ parts = << >>
  /\ outside = << >>
  /\ pieces = 0

Piece == pieces < MaxPieces /\ pieces' = pieces + 1

InQuote == \E k \in 1 .. Len(stack) : stack[k].quote

(* A block begins a line of the text it is part of. *)
Broken(text, tag) == IF tag \in BlockTags THEN Append(text, LineBreak) ELSE text

(* handle_starttag; quote: the tag or its class says it is one (_is_quote). *)
HandleStarttag(tag, quote) ==
  \/ /\ skip > 0
     /\ skip' = IF tag = skipTag THEN skip + 1 ELSE skip
     /\ UNCHANGED <<skipTag, parts>>
  \/ /\ skip = 0 /\ quote
     /\ skip' = 1
     /\ skipTag' = tag
     /\ UNCHANGED parts
  \/ /\ skip = 0 /\ ~quote
     /\ parts' = Broken(parts, tag)
     /\ UNCHANGED <<skip, skipTag>>

(* Mutated: any end tag ends the quote. *)
HandleEndtagAny(tag) ==
  /\ skip' = IF skip > 0 THEN skip - 1 ELSE skip
  /\ skipTag' = IF skip' = 0 THEN NoTag ELSE skipTag

(* handle_endtag *)
HandleEndtag(tag) ==
  \/ /\ skip > 0 /\ tag = skipTag
     /\ skip' = skip - 1
     /\ skipTag' = IF skip' = 0 THEN NoTag ELSE skipTag
  \/ /\ ~(skip > 0 /\ tag = skipTag)
     /\ UNCHANGED <<skip, skipTag>>

Opens(tag, quote) ==
  /\ Piece
  /\ tag \in QuoteTags => quote
  /\ Len(stack) < MaxDepth
  /\ stack' = Append(stack, [tag |-> tag, quote |-> quote])
  /\ HandleStarttag(tag, quote)
  /\ outside' = IF quote \/ InQuote THEN outside ELSE Broken(outside, tag)

(* <br>: html.parser calls handle_starttag for it, *)
OpensVoid(tag) ==
  /\ Piece
  /\ HandleStarttag(tag, FALSE)
  /\ outside' = IF InQuote THEN outside ELSE Broken(outside, tag)
  /\ UNCHANGED stack

(* and for <br/> handle_startendtag. *)
HandleStartendtag(tag) ==
  /\ Piece
  /\ parts' = IF skip = 0 THEN Broken(parts, tag) ELSE parts
  /\ outside' = IF InQuote THEN outside ELSE Broken(outside, tag)
  /\ UNCHANGED <<stack, skip, skipTag>>

Closes ==
  /\ Piece
  /\ stack # << >>
  /\ HandleEndtag(stack[Len(stack)].tag)
  /\ stack' = SubSeq(stack, 1, Len(stack) - 1)
  /\ UNCHANGED <<parts, outside>>

(* handle_data; the text between two tags may have lines of its own. *)
Data(x) ==
  /\ Piece
  /\ parts' = IF skip = 0 THEN Append(parts, x) ELSE parts
  /\ outside' = IF InQuote THEN outside ELSE Append(outside, x)
  /\ UNCHANGED <<stack, skip, skipTag>>

ReplyNext ==
  \/ \E tag \in Tags, quote \in BOOLEAN : Opens(tag, quote)
  \/ \E tag \in VoidTags : OpensVoid(tag) \/ HandleStartendtag(tag)
  \/ Closes
  \/ \E x \in Words \cup {LineBreak} : Data(x)

ReplySpec == ReplyInit /\ [][ReplyNext]_replyVars

---------------------------------------------------------------------------
(* strip_quoted_tail *)

LineStarts(text) == {k \in 1 .. Len(text) : k = 1 \/ text[k - 1] = LineBreak}

(* The words from a place on to the next break. *)
LineFrom(text, k) ==
  SubSeq(text, k,
         CHOOSE n \in k - 1 .. Len(text) :
           /\ \A j \in k .. n : text[j] # LineBreak
           /\ n < Len(text) => text[n + 1] = LineBreak)

TailStarts(text) == {k \in LineStarts(text) : IsTail(LineFrom(text, k))}

(* The lines before the first that starts a tail. *)
StripQuotedTail(text) ==
  IF TailStarts(text) = {} THEN text
  ELSE SubSeq(text, 1,
              (CHOOSE k \in TailStarts(text) : \A j \in TailStarts(text) : k <= j) - 1)

(* extract_reply_text of an HTML body *)
ReplyBody == StripQuotedTail(parts)

---------------------------------------------------------------------------
(* Properties.                                                             *)

(* What goes to Telegram is U's own: all the text outside the quotes, also *)
(* between and after them, line by line up to the first line of a quoted   *)
(* tail, and nothing else.                                                 *)
OwnTextKept ==
  /\ parts = outside
  /\ \E n \in 0 .. Len(outside) :
       /\ ReplyBody = SubSeq(outside, 1, n)
       /\ \A k \in LineStarts(outside) : k <= n => ~IsTail(LineFrom(outside, k))
       /\ n < Len(outside) => n + 1 \in TailStarts(outside)
=============================================================================
