------------------------------ MODULE InjectId ------------------------------
(***************************************************************************)
(* InjectId.inject() gives a stored message a new identifier.  A line of   *)
(* the message is a sequence of tokens of these kinds:                     *)
(*   "open", "close"  the tags of a MessageID element without attributes,  *)
(*   "attrOpen"       the start tag of one with attributes,                *)
(*   "tag"            any other tag,                                       *)
(*   "text", "blank"  character data, and character data of blanks only,   *)
(*   "head"           the first part of a tag that is broken over two      *)
(*                    lines, and at the start of the next line its rest:   *)
(*   "openTail", "closeTail"  of a MessageID tag, with all of "MessageID>",*)
(*   "cutTail"        of a MessageID start tag, with a part of it only,    *)
(*   "tail"           of any other tag.                                    *)
(* id tells generated identifiers (1, 2, ...) from stored data (0).        *)
(***************************************************************************)
EXTENDS Integers, SequencesExt

Tails == {"openTail", "closeTail", "cutTail", "tail"}
TokenKinds == {"open", "close", "attrOpen", "tag", "text", "blank", "head"} \cup Tails

Token(kind) == [kind |-> kind, id |-> 0]
Generated(n) == [kind |-> "text", id |-> n]

\* The start tag of a MessageID element, or the rest of one.
OpensMessageId(token) == token.kind \in {"open", "attrOpen", "openTail", "cutTail"}

\* "MessageID>" ends these tags; with attributes only the end tag has it.
EndsWithMessageId(token) == token.kind \in {"open", "close", "openTail", "closeTail"}
StartsWithLess(token) == token.kind \in {"open", "close", "attrOpen", "tag", "head"}

FirstTag(line) == SelectInSeq(line, EndsWithMessageId)
NextTag(line)  == SelectInSubSeq(line, FirstTag(line) + 1, Len(line), StartsWithLess)

Replaced(line, from, id) ==
  SubSeq(line, 1, FirstTag(line)) \o <<Generated(id)>> \o SubSeq(line, from, Len(line))

\* Seeded fault: the scan for '<' stops at the end of the line.
InjectBounded(line, id) ==
  IF FirstTag(line) = 0 \/ NextTag(line) = 0 THEN {line}
  ELSE {Replaced(line, NextTag(line), id)}

\* Seeded fault: the copy goes on after the '<', and the tag is lost.
InjectSkippingTag(line, id) ==
  IF FirstTag(line) = 0 THEN {line}
  ELSE IF NextTag(line) = 0 THEN {} ELSE {Replaced(line, NextTag(line) + 1, id)}

\* The set of the one line that inject(line) returns; it is empty when the
\* scan for '<' runs over the end of the line and throws.
inject(line, id) ==
  IF FirstTag(line) = 0 THEN {line}
  ELSE IF NextTag(line) = 0 THEN {} ELSE {Replaced(line, NextTag(line), id)}
=============================================================================
