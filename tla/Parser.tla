------------------------------- MODULE Parser -------------------------------
(***************************************************************************)
(* The parser of rebel/src/parse.rs with the collector it drives.  One     *)
(* action is one turn of the loop in parse(): the next character that is   *)
(* neither blank nor comment begins a token, the token is read to its end, *)
(* the collector is told, and process_block_end settles paths and blocks.  *)
(*                                                                         *)
(* The parser has no lookahead: the character after a word or a number is  *)
(* consumed with it, and only what it opens or closes is acted on          *)
(* ("consumed" in the code).  A text is a sequence of characters; a name   *)
(* that no property looks into is one letter.                              *)
(***************************************************************************)
EXTENDS ParseCollector

CONSTANTS
  Texts,     \* the texts to parse
  Letters,   \* characters that begin a word
  WordMod    \* 2^32

ASSUME ParserWordAssumption == WordMod \in Nat /\ WordMod > 1

VARIABLES
  text,      \* input
  pos,       \* cursor: the characters consumed so far
  inPath,    \* in_path
  collector, \* a ParseCollector or a ValueCollector
  reading    \* "reading", "done", or the error parse_block returned

parserVars == <<text, pos, inPath, collector, reading>>

DigitSeq  == <<"0", "1", "2", "3", "4", "5", "6", "7", "8", "9">>
Digits    == Range(DigitSeq)
Blanks    == {" ", "\n", "\t"}
WordChars == Letters \union Digits \union {"_", "-", "?"}
MaxInt    == WordMod \div 2 - 1

-----------------------------------------------------------------------------
(* The calls on the collector, of either kind.                             *)

IsModule(c) == c.kind = "module"

begin_block(c) == IF IsModule(c) THEN Begin(c) ELSE BeginBlock(c)
begin_path(c)  == IF IsModule(c) THEN Begin(c) ELSE BeginPath(c)
end_block(c)   == IF IsModule(c) THEN End(c, BLOCK) ELSE EndBlock(c)
end_path(c)    == IF IsModule(c) THEN End(c, PATH) ELSE EndPath(c)

word(c, set, name) ==
  IF IsModule(c) THEN Word(c, IF set THEN SET_WORD ELSE WORD, name)
  ELSE PushValue(c, <<IF set THEN "set_word" ELSE "word", name>>)
string(c, chars) ==
  IF IsModule(c) THEN String(c, chars) ELSE PushValue(c, <<"string", chars>>)
integer(c, n) ==
  IF IsModule(c) THEN Integer(c, n % WordMod) ELSE PushValue(c, <<"int", n>>)

(* The code returns at the first error of the collector.                   *)
After(c, then) == IF c.error = "none" THEN then ELSE c

-----------------------------------------------------------------------------
(* The first position from i on that holds none of the characters. *)
Past(i, chars) == CHOOSE j \in i .. Len(text) + 1 :
  /\ j =< Len(text) => text[j] \notin chars
  /\ \A k \in i .. j - 1 : text[k] \in chars

(* skip_whitespace: a comment goes from ; to the end of the line. *)
Skipped(j) ==
  \/ text[j] \in Blanks \union {";"}
  \/ \E i \in pos + 1 .. j - 1 : text[i] = ";" /\ \A k \in i .. j - 1 : text[k] # "\n"
TokenStart == CHOOSE j \in pos + 1 .. Len(text) + 1 :
  /\ j =< Len(text) => ~Skipped(j)
  /\ \A k \in pos + 1 .. j - 1 : Skipped(k)

AtToken == reading = "reading" /\ TokenStart =< Len(text)
TokenChar == text[TokenStart]

Refuse(error) ==
  /\ reading' = error
  /\ UNCHANGED <<text, pos, inPath, collector>>

(* Mutant: a path is left open when the text goes on after it. *)
Settled_PathOnlyByBracket(c, consumed) ==
  LET unpathed == IF consumed = "]" /\ inPath THEN After(c, end_path(c)) ELSE c
  IN  IF consumed = "]" THEN After(unpathed, end_block(unpathed)) ELSE unpathed

(* process_block_end *)
Settled(c, consumed) ==
  LET unpathed == IF consumed # "/" /\ inPath THEN After(c, end_path(c)) ELSE c
  IN  IF consumed = "]" THEN After(unpathed, end_block(unpathed)) ELSE unpathed

(* The token that ends at `next` has been handed to the collector c. *)
Take(c, next, consumed) ==
  /\ collector' = Settled(c, consumed)
  /\ inPath' = (consumed = "/")
  /\ pos' = next
  /\ reading' = IF collector'.error = "none" THEN "reading" ELSE "CollectorError"
  /\ UNCHANGED text

OpenBlock ==
  /\ AtToken
  /\ TokenChar = "["
  /\ Take(begin_block(collector), TokenStart, "")

CloseBlock ==
  /\ AtToken
  /\ TokenChar = "]"
  /\ Take(collector, TokenStart, "]")

(* parse_string *)
Unescaped == [n |-> "\n", r |-> "\r", t |-> "\t"] @@ "\"" :> "\"" @@ "\\" :> "\\"
ScanString(s, c) ==
  CASE s.found # "no" -> s
    [] s.found = "no" /\ s.escaped ->
         IF c \in DOMAIN Unescaped
         THEN [s EXCEPT !.chars = Append(@, Unescaped[c]), !.escaped = FALSE, !.read = @ + 1]
         ELSE [s EXCEPT !.found = "UnexpectedChar"]
    [] s.found = "no" /\ ~s.escaped /\ c = "\\" -> [s EXCEPT !.escaped = TRUE, !.read = @ + 1]
    [] s.found = "no" /\ ~s.escaped /\ c = "\"" -> [s EXCEPT !.found = "yes", !.read = @ + 1]
    [] OTHER -> [s EXCEPT !.chars = Append(@, c), !.read = @ + 1]
StringFrom(start) ==
  FoldLeft(ScanString, [chars |-> << >>, escaped |-> FALSE, found |-> "no", read |-> 0],
           SubSeq(text, start + 1, Len(text)))

ReadString ==
  /\ AtToken
  /\ TokenChar = "\""
  /\ LET s == StringFrom(TokenStart)
     IN  CASE s.found = "no"  -> Refuse("EndOfInput")
           [] s.found = "yes" -> Take(string(collector, s.chars), TokenStart + s.read, "")
           [] OTHER           -> Refuse(s.found)

(* parse_word and collect_word: the word ends before the first character   *)
(* that is none of its own. *)
ReadWord ==
  /\ AtToken
  /\ TokenChar \in Letters
  /\ LET end      == Past(TokenStart + 1, WordChars)
         name     == SubSeq(text, TokenStart, end - 1)
         consumed == IF end =< Len(text) THEN text[end] ELSE ""
         opened   == IF consumed = "/" /\ ~inPath THEN begin_path(collector) ELSE collector
     IN  IF consumed \in Blanks \union {"", ":", "]", "/"}
         THEN Take(After(opened, word(opened, consumed = ":", name)),
                   Min({end, Len(text)}), consumed)
         ELSE Refuse("UnexpectedChar")

(* parse_number: any character ends it, and is gone unless it is ]. *)
Overflow == -1
AddDigit(n, d) ==
  LET next == 10 * n + (CHOOSE v \in 0 .. 9 : DigitSeq[v + 1] = d)
  IN  IF n = Overflow \/ next > MaxInt THEN Overflow ELSE next

ReadNumber ==
  /\ AtToken
  /\ TokenChar \in Digits \union {"+", "-"}
  /\ LET end    == Past(TokenStart + 1, Digits)
         first  == IF TokenChar \in Digits THEN TokenStart ELSE TokenStart + 1
         n      == FoldLeft(AddDigit, 0, SubSeq(text, first, end - 1))
         closes == IF end =< Len(text) /\ text[end] = "]" THEN "]" ELSE ""
     IN  CASE first = end -> Refuse("EndOfInput")
           [] first # end /\ n = Overflow -> Refuse("IntegerOverflow")
           [] OTHER -> Take(integer(collector, IF TokenChar = "-" THEN -n ELSE n),
                            Min({end, Len(text)}), closes)

(* Mutant: what begins no token is passed over. *)
Unexpected_Skips ==
  /\ AtToken
  /\ TokenChar \notin Letters \union Digits \union {"[", "]", "\"", "+", "-"}
  /\ Take(collector, TokenStart, "")

Unexpected ==
  /\ AtToken
  /\ TokenChar \notin Letters \union Digits \union {"[", "]", "\"", "+", "-"}
  /\ Refuse("UnexpectedChar")

(* Nothing is left but blanks and comments: parse_block ends the block it  *)
(* began. *)
EndText ==
  /\ reading = "reading"
  /\ TokenStart > Len(text)
  /\ collector' = end_block(collector)
  /\ pos' = Len(text)
  /\ reading' = IF collector'.error = "none" THEN "done" ELSE "CollectorError"
  /\ UNCHANGED <<text, inPath>>

(* A text and the collector that has seen parse_block begin its block. *)
StartsWith(t, c) ==
  /\ text = t
  /\ pos = 0
  /\ inPath = FALSE
  /\ collector = begin_block(c)
  /\ reading = "reading"

Init ==
  \E t \in Texts, c \in {NewCollector(EmptyHeap, << >>), NewValueCollector} : StartsWith(t, c)

Next ==
  \/ OpenBlock \/ CloseBlock \/ ReadString \/ ReadWord \/ ReadNumber
  \/ Unexpected \/ EndText

Spec == Init /\ [][Next]_parserVars

(* The stacks of the ParseCollector keep within their limits and agree     *)
(* with each other, whatever the text: its values lie above the base of    *)
(* their block, and no more values and bases are held than there is room.  *)
StacksAgree ==
  IsModule(collector) =>
    /\ BasesInOrder(collector)
    /\ Len(collector.stack) =< ParseCap
    /\ Len(collector.bases) =< BaseCap
    /\ collector.error # "UnexpectedError"
    /\ collector.heap.used =< HeapCap
    /\ Len(collector.symbols) =< SymbolCap
=============================================================================
