-------------------------- MODULE ParserReference --------------------------
(***************************************************************************)
(* The language the parser reads, as a grammar: the Value a text denotes,  *)
(* by recursion on nesting, without cursor, stacks, consumed characters or *)
(* path flag.                                                              *)
(*                                                                         *)
(* The grammar is narrower than the parser, which accepts more: it drops   *)
(* the character after a number, takes blanks after the / of a path, and   *)
(* lets a path end with its text or a ] close the outermost block.  What   *)
(* such texts yield is not part of the language.                           *)
(***************************************************************************)
EXTENDS Parser

Back == INSTANCE ModuleValues WITH IntMod <- WordMod

(* One phrase: was it well formed, its values, the position after it. *)
Phrase(values, next) == [ok |-> TRUE, values |-> values, next |-> next]
Bad == [ok |-> FALSE, values |-> << >>, next |-> 0]

RECURSIVE AfterGap(_, _), Run(_, _, _), Items(_, _, _), Segments(_, _), Quoted(_, _, _)

EndsLine(t, i) == CHOOSE j \in i .. Len(t) + 1 :
  /\ j > Len(t) \/ t[j] = "\n"
  /\ \A k \in i .. j - 1 : t[k] # "\n"

(* Blanks and comments. *)
AfterGap(t, i) ==
  CASE i > Len(t) -> i
    [] i =< Len(t) /\ t[i] \in Blanks -> AfterGap(t, i + 1)
    [] i =< Len(t) /\ t[i] = ";" -> AfterGap(t, EndsLine(t, i))
    [] OTHER -> i

Delimited(t, i) == i > Len(t) \/ t[i] \in Blanks \union {"]"}

(* The position after the run of characters of a set. *)
Run(t, i, chars) == IF i =< Len(t) /\ t[i] \in chars THEN Run(t, i + 1, chars) ELSE i

Named(t, i) == SubSeq(t, i, Run(t, i, WordChars) - 1)

(* What the digits denote in base 10. *)
Denotes(digits) ==
  LET place[k \in 0 .. Len(digits)] ==
        IF k = 0 THEN 0
        ELSE 10 * place[k - 1] + (CHOOSE v \in 0 .. 9 : DigitSeq[v + 1] = digits[k])
  IN  place[Len(digits)]

Number(t, i) ==
  LET first == IF t[i] \in Digits THEN i ELSE i + 1
      next  == Run(t, first, Digits)
      n     == Denotes(SubSeq(t, first, next - 1))
  IN  IF first = next \/ ~Delimited(t, next) \/ n > MaxInt THEN Bad
      ELSE Phrase(<<<<"int", IF t[i] = "-" THEN -n ELSE n>>>>, next)

Quoted(t, i, chars) ==
  CASE i > Len(t) -> Bad
    [] i =< Len(t) /\ t[i] = "\"" -> Phrase(<<<<"string", chars>>>>, i + 1)
    [] i =< Len(t) /\ t[i] = "\\" ->
         IF i < Len(t) /\ t[i + 1] \in DOMAIN Unescaped
         THEN Quoted(t, i + 2, Append(chars, Unescaped[t[i + 1]])) ELSE Bad
    [] OTHER -> Quoted(t, i + 1, Append(chars, t[i]))

(* A word or a set-word; `next` is the position of what follows. *)
WordAt(t, i) ==
  LET next == Run(t, i, WordChars)
  IN  IF next =< Len(t) /\ t[next] = ":"
      THEN Phrase(<<<<"set_word", Named(t, i)>>>>, next + 1)
      ELSE Phrase(<<<<"word", Named(t, i)>>>>, next)

PlainWord(w) == w.values[1][1] = "word"

(* Words joined by /; the last segment may be anything but a block. *)
Joined(r, rest) == IF rest.ok THEN Phrase(r.values \o rest.values, rest.next) ELSE Bad
WordSegment(t, w) ==
  CASE PlainWord(w) /\ w.next =< Len(t) /\ t[w.next] = "/" -> Joined(w, Segments(t, w.next + 1))
    [] PlainWord(w) /\ ~Delimited(t, w.next) /\ t[w.next] # "/" -> Bad
    [] OTHER -> w

Segments(t, i) ==
  CASE i > Len(t) -> Bad
    [] i =< Len(t) /\ t[i] \in Letters -> WordSegment(t, WordAt(t, i))
    [] i =< Len(t) /\ t[i] = "\"" -> Quoted(t, i + 1, << >>)
    [] i =< Len(t) /\ t[i] \in Digits \union {"+", "-"} -> Number(t, i)
    [] OTHER -> Bad

AsPath(segments) ==
  IF segments.ok /\ Len(segments.values) > 1
  THEN Phrase(<<<<"path", segments.values>>>>, segments.next) ELSE segments

AsBlock(items) ==
  IF items.ok THEN Phrase(<<<<"block", items.values>>>>, items.next) ELSE Bad

Item(t, i) == IF t[i] = "[" THEN AsBlock(Items(t, i + 1, TRUE)) ELSE AsPath(Segments(t, i))

ItemsOn(t, r, nested) == IF r.ok THEN Joined(r, Items(t, r.next, nested)) ELSE Bad

(* Items up to the end of the text, or of the block they are nested in. *)
ItemsAt(t, i, nested) ==
  CASE i > Len(t) -> IF nested THEN Bad ELSE Phrase(<< >>, i)
    [] i =< Len(t) /\ t[i] = "]" -> IF nested THEN Phrase(<< >>, i + 1) ELSE Bad
    [] OTHER -> ItemsOn(t, Item(t, i), nested)
Items(t, i, nested) == ItemsAt(t, AfterGap(t, i), nested)

Meaning == Items(text, 1, FALSE)

-----------------------------------------------------------------------------
(* What Module::parse and collector::parse return. *)
Parsed ==
  IF IsModule(collector)
  THEN Back!to_value([heap |-> collector.heap, symbols |-> collector.symbols],
                     Last(collector.stack))
  ELSE IntoValue(collector)

Expected ==
  IF ~IsModule(collector) /\ Len(Meaning.values) = 1 THEN Meaning.values[1]
  ELSE <<"block", Meaning.values>>

Limits == {"OutOfMemory", "SymbolTableFull", "StringTooLong"}

(* Every well-formed text is read as the value it denotes, by either       *)
(* collector, unless a limit is met: whatever characters a token consumed  *)
(* beyond its own end, and however paths, blocks, strings and comments     *)
(* follow one another.                                                     *)
ReadsWellFormedText ==
  /\ reading = "done" /\ Meaning.ok => Parsed = Expected
  /\ reading \notin {"reading", "done"} /\ Meaning.ok => collector.error \in Limits

(* Where the parser takes more than the language.  The brackets of a text  *)
(* are those outside of its strings and comments. *)
OutlineStep(o, c) ==
  CASE o.mode = "code" -> [mode |-> CASE c = ";" -> "comment" [] c = "\"" -> "string" [] OTHER -> "code",
                           brackets |-> IF c \in {"[", "]"} THEN Append(o.brackets, c) ELSE o.brackets]
    [] o.mode = "comment" -> [o EXCEPT !.mode = IF c = "\n" THEN "code" ELSE @]
    [] o.mode = "string"  -> [o EXCEPT !.mode = CASE c = "\"" -> "code" [] c = "\\" -> "escape" [] OTHER -> @]
    [] o.mode = "escape"  -> [o EXCEPT !.mode = "string"]
Brackets == FoldLeft(OutlineStep, [mode |-> "code", brackets |-> << >>], text).brackets

Opened(n) == Len(SelectSeq(SubSeq(Brackets, 1, n), LAMBDA c : c = "["))
Unbalanced ==
  \/ 2 * Opened(Len(Brackets)) # Len(Brackets)
  \/ \E n \in DOMAIN Brackets : 2 * Opened(n) < n
GluedNumber == \E i \in 1 .. Len(text) - 1 :
  text[i] \in Digits /\ text[i + 1] \notin Digits \union Blanks \union {"]"}
OpenPath == \E i \in DOMAIN text :
  /\ text[i] = "/"
  /\ i < Len(text) => text[i + 1] \notin Letters \union Digits \union {"\"", "+", "-"}

(* Any other text that is not well formed is refused, before its last      *)
(* character or after it: no error is lost on the way, and no token is     *)
(* taken for another.                                                      *)
RefusesMalformedText ==
  reading = "done" /\ ~Unbalanced /\ ~GluedNumber /\ ~OpenPath => Meaning.ok

-----------------------------------------------------------------------------
(* What of a value is left in its form: items without the brackets of      *)
(* their blocks. *)
RECURSIVE Bare(_)
Bare(v) == IF v[1] = "block" THEN FlattenSeq([i \in DOMAIN v[2] |-> Bare(v[2][i])]) ELSE <<v>>

RECURSIVE Plain(_)
Plain(v) ==
  CASE v[1] = "block" -> \A i \in DOMAIN v[2] : Plain(v[2][i])
    [] v[1] = "path"  -> Len(v[2]) > 1 /\ \A i \in DOMAIN v[2] : v[2][i][1] \in {"word", "int", "set_word"}
    [] OTHER -> v[1] # "string"

(* What was read and is printed with form can be read again, and is what   *)
(* was read but for brackets: numbers keep their sign and value, words     *)
(* their kind, paths stay one item and items stay apart.  Strings are out, *)
(* they lose their quotes; so are paths of one segment, which are printed  *)
(* as the segment.  A number read is what to_int_value makes of its text,  *)
(* and what it makes of the string to_string_value makes of the number.    *)
ReadsWhatIsShown ==
  reading = "done" /\ ~IsModule(collector) /\ Plain(Parsed) =>
    LET again == Items(Back!form(Parsed), 1, FALSE)
    IN  /\ again.ok /\ again.values = Bare(Parsed)
        /\ Parsed[1] = "int" =>
             /\ Back!to_int_value(Back!to_string_value(Parsed)) = Parsed
             /\ Back!to_int_value(<<"string", text>>) \in {Parsed, <<"none", 0>>}
=============================================================================
