----------------------------- MODULE ValueReader -----------------------------
(***************************************************************************)
(* ValueIterator, the reader that rebeldb-core/src/parser.rs and           *)
(* rebeldb/src/parser.rs share line by line: they differ in what a string, *)
(* a word, a number and a block become, so those are parameters.           *)
(*                                                                         *)
(* An action reads one token to its end.  The recursion of parse_block is  *)
(* the sequence of blocks begun and not ended.  A bracket closes a block   *)
(* only where it ends a word or a number (last_in_block); the end of the   *)
(* text closes every block that holds something and forgets one that       *)
(* holds nothing.                                                          *)
(***************************************************************************)
EXTENDS Integers, SequencesExt

CONSTANTS
  Letters,       \* characters that begin a word
  MaxNumber,     \* i64::MAX
  StringOf(_, _), WordOf(_, _, _), NumberOf(_, _), BlockOf(_, _)
                 \* each takes the memory and the content, and returns a
                 \* record of memory, value and error

VARIABLES
  text,      \* input
  pos,       \* characters taken from the cursor
  open,      \* values of the blocks being read, the innermost last
  out,       \* values the iterator has returned
  memory,    \* what the values are made in
  reading    \* "reading", "end", or the error the iterator returned

readerVars == <<text, pos, open, out, memory, reading>>

DigitSeq == <<"0", "1", "2", "3", "4", "5", "6", "7", "8", "9">>
Digits   == Range(DigitSeq)
Blanks   == {" ", "\n", "\t"}
WordChars == Letters \union Digits \union {"_", "-"}

(* The first position from i on whose character is not in chars.           *)
Past(i, chars) == CHOOSE j \in i .. Len(text) + 1 :
  /\ j =< Len(text) => text[j] \notin chars
  /\ \A k \in i .. j - 1 : text[k] \in chars

(* skip_whitespace *)
Start == Past(pos + 1, Blanks)
At(i) == IF i =< Len(text) THEN text[i] ELSE ""
Reads(chars) == reading = "reading" /\ At(Start) \in chars

-----------------------------------------------------------------------------
Refuse(error) ==
  /\ reading' = error
  /\ UNCHANGED <<text, pos, open, out, memory>>

(* A value for the innermost block, or for the caller when there is none.  *)
Give(v, blocks, m) ==
  /\ IF blocks = << >> THEN out' = Append(out, v) /\ open' = blocks
     ELSE out' = out /\ open' = Append(Front(blocks), Append(Last(blocks), v))
  /\ memory' = m
  /\ UNCHANGED reading

(* Mutant: the value before the bracket is left out of the block. *)
CloseWith_Drops(blocks, values, m) ==
  LET made == BlockOf(m, Front(values))
  IN  IF made.error = "none" THEN Give(made.value, blocks, made.memory)
      ELSE reading' = made.error /\ UNCHANGED <<open, out, memory>>

(* The innermost block ends; blocks are those around it. *)
CloseWith(blocks, values, m) ==
  LET made == BlockOf(m, values)
  IN  IF made.error = "none" THEN Give(made.value, blocks, made.memory)
      ELSE reading' = made.error /\ UNCHANGED <<open, out, memory>>

(* The token that ends at `end`, the character after it taken with it. *)
Take(made, end, closes) ==
  /\ text' = text
  /\ pos' = end
  /\ IF made.error # "none" THEN reading' = made.error /\ UNCHANGED <<open, out, memory>>
     ELSE IF closes /\ open # << >> THEN CloseWith(Front(open), Append(Last(open), made.value), made.memory)
     ELSE Give(made.value, open, made.memory)

OpenBlock ==
  /\ Reads({"["})
  /\ pos' = Start
  /\ open' = Append(open, << >>)
  /\ UNCHANGED <<text, out, memory, reading>>

(* parse_string *)
ReadString ==
  /\ Reads({"\""})
  /\ LET end == CHOOSE j \in Start + 1 .. Len(text) + 1 :
           /\ j =< Len(text) => text[j] = "\""
           /\ \A k \in Start + 1 .. j - 1 : text[k] # "\""
     IN  IF end > Len(text) THEN Refuse("UnexpectedEnd")
         ELSE Take(StringOf(memory, SubSeq(text, Start + 1, end - 1)), end, FALSE)

(* parse_word *)
ReadWord ==
  /\ Reads(Letters)
  /\ LET end  == Past(Start + 1, WordChars)
         name == SubSeq(text, Start, end - 1)
     IN  CASE end > Len(text) -> Refuse("UnexpectedEnd")
           [] At(end) = ":"   -> Take(WordOf(memory, name, TRUE), end, FALSE)
           [] At(end) \in Blanks \union {"]"} ->
                Take(WordOf(memory, name, FALSE), end, At(end) = "]")
           [] OTHER -> Refuse("UnexpectedChar")

(* parse_number *)
TooLarge == -1
AddDigit(n, d) ==
  LET next == 10 * n + (CHOOSE v \in 0 .. 9 : DigitSeq[v + 1] = d)
  IN  IF n = TooLarge \/ next > MaxNumber THEN TooLarge ELSE next

ReadNumber ==
  /\ Reads(Digits \union {"+", "-"})
  /\ LET end   == Past(Start + 1, Digits)
         first == IF At(Start) \in Digits THEN Start ELSE Start + 1
         n     == FoldLeft(AddDigit, 0, SubSeq(text, first, end - 1))
     IN  CASE first = end -> Refuse("UnexpectedEnd")
           [] first # end /\ n = TooLarge -> Refuse("NumberTooLarge")
           [] OTHER -> Take(NumberOf(memory, IF At(Start) = "-" THEN -n ELSE n),
                            Min({end, Len(text)}), At(end) = "]")

Unexpected ==
  /\ reading = "reading"
  /\ Start =< Len(text)
  /\ At(Start) \notin Letters \union Digits \union {"[", "\"", "+", "-"}
  /\ Refuse("UnexpectedChar")

(* The text is at its end inside a block. *)
EndOfBlock ==
  /\ Reads({""})
  /\ open # << >>
  /\ UNCHANGED <<text, pos>>
  /\ IF Last(open) = << >> THEN open' = Front(open) /\ UNCHANGED <<out, memory, reading>>
     ELSE CloseWith(Front(open), Last(open), memory)

EndOfText ==
  /\ Reads({""})
  /\ open = << >>
  /\ reading' = "end"
  /\ UNCHANGED <<text, pos, open, out, memory>>

ReaderNext ==
  \/ OpenBlock \/ ReadString \/ ReadWord \/ ReadNumber \/ Unexpected
  \/ EndOfBlock \/ EndOfText
=============================================================================
