----------------------------- MODULE Evaluators -----------------------------
(***************************************************************************)
(* The three small runtimes beside rebel: rebeldb-core, which runs one     *)
(* text; the console of rebeldb, which runs line after line in one         *)
(* Context; rebel2, which reads a text into blocks.  A behaviour is of one *)
(* of them, and all three use the same variables: their readers are the    *)
(* same program, and its parts keep the same things under other names.     *)
(***************************************************************************)
EXTENDS Integers, SequencesExt

-----------------------------------------------------------------------------
(* How values are written, and what a line of them is worth: the reference *)
(* the three small runtimes are compared with.  A program is a sequence of *)
(* items <<kind, content>>.  Items are separated by blanks; the bracket    *)
(* that ends a block stands right after its last item, which is a word or  *)
(* a number, since the readers of rebeldb see it nowhere else.             *)
CONSTANT Add   \* the word bound to add

LOCAL Digit(d) == <<"0", "1", "2", "3", "4", "5", "6", "7", "8", "9">>[d + 1]
RECURSIVE Numeral(_)
Numeral(n) ==
  CASE n < 0 -> <<"-">> \o Numeral(-n)
    [] n \in 0 .. 9 -> <<Digit(n)>>
    [] OTHER -> Append(Numeral(n \div 10), Digit(n % 10))

RECURSIVE Spelled(_)
Spelled(items) ==
  FlattenSeq([i \in DOMAIN items |->
    LET content == items[i][2]
    IN  CASE items[i][1] = "int"      -> Append(Numeral(content), " ")
          [] items[i][1] = "word"     -> Append(content, " ")
          [] items[i][1] = "set_word" -> content \o <<":", " ">>
          [] items[i][1] = "string"   -> <<"\"">> \o content \o <<"\"", " ">>
          [] items[i][1] = "block"    -> <<"[">> \o Front(Spelled(content)) \o <<"]", " ">>])

Number(item) == item[1] = "int"
IsAdd(item)  == item = <<"word", Add>>

(* One expression: a number, or add and two expressions.  Every proper     *)
(* beginning has more numbers to come than it has places to end. *)
Expression(items) ==
  LET numbers(i) == Cardinality({j \in 1 .. i : Number(items[j])})
      adds(i)    == Cardinality({j \in 1 .. i : IsAdd(items[j])})
  IN  /\ items # << >>
      /\ \A i \in DOMAIN items : Number(items[i]) \/ IsAdd(items[i])
      /\ numbers(Len(items)) = adds(Len(items)) + 1
      /\ \A i \in 1 .. Len(items) - 1 : numbers(i) =< adds(i)

Addends(items) == SelectSeq(items, Number)
Worth(items) == FoldLeft(LAMBDA sum, item : sum + item[2], 0, Addends(items))

-----------------------------------------------------------------------------
CONSTANTS
  Programs,    \* programs whose spelling is among the texts
  Texts,       \* other texts
  Lines, MaxLines, OverflowChecks,
  Letters, MaxNumber, MaxInt, Half, Alphabet, ByteMod, IntBytes, WideBytes,
  MemoryCells, SymbolsStart, HeapStart, HashCells, CellChars, StackCap, OpCap,
  InlineBuffer, InlineMax, HashBytes, NameMax

ASSUME EvaluatorsAssumption ==
  /\ SymbolsStart < HeapStart /\ HeapStart =< MemoryCells
  /\ ByteMod ^ IntBytes = 2 * (MaxNumber + 1)
  /\ InlineBuffer < ByteMod - 1 /\ InlineMax < ByteMod /\ NameMax < ByteMod
  /\ InlineMax < ByteMod ^ WideBytes
  /\ ByteMod >= 32

VARIABLES
  crate,                                   \* whose behaviour this is
  text, pos, open, out, memory, reading,   \* see ValueReader
  loads, root, stack, ops, stage, answer,  \* see CoreEval
  lines, found                             \* see Console

vars == <<crate, text, pos, open, out, memory, reading,
          loads, root, stack, ops, stage, answer, lines, found>>

Core   == INSTANCE CoreEval
Db     == INSTANCE Console
Rebel2 == INSTANCE Rebel2 WITH parse <- out, ops <- open, store <- memory

(* What the other two keep is at rest. *)
CoreRests == loads = FALSE /\ root = << >>
DbRests   == lines = 0 /\ found = Db!Nothing
StackRests == stack = << >> /\ ops = << >> /\ stage = "none" /\ answer = << >>

SpelledPrograms == {Spelled(p) : p \in Programs}

Init ==
  \/ /\ crate = "core"
     /\ \E t \in Texts \union SpelledPrograms, l \in BOOLEAN : Core!CoreInit(t, l)
     /\ DbRests
  \/ /\ crate = "db"
     /\ Db!ConsoleInit
     /\ CoreRests
  \/ /\ crate = "rebel2"
     /\ \E t \in Texts \union SpelledPrograms : Rebel2!Rebel2Init(t)
     /\ CoreRests /\ DbRests /\ StackRests

CoreStep ==
  /\ crate = "core"
  /\ Core!CoreNext
  /\ UNCHANGED <<crate, lines, found>>
DbStep ==
  /\ crate = "db"
  /\ Db!ConsoleNext
  /\ UNCHANGED <<crate, loads, root>>
Rebel2Step ==
  /\ crate = "rebel2"
  /\ Rebel2!Rebel2Next
  /\ UNCHANGED <<crate, loads, root, stack, ops, stage, answer, lines, found>>

Next == CoreStep \/ DbStep \/ Rebel2Step
Spec == Init /\ [][Next]_vars

-----------------------------------------------------------------------------
ProgramOf == [t \in SpelledPrograms |-> CHOOSE p \in Programs : Spelled(p) = t]
IsSpelled == text \in SpelledPrograms

(* Every item of a program, those in its blocks included. *)
RECURSIVE Inside(_)
Inside(items) ==
  Range(items) \union UNION {Inside(b[2]) : b \in {item \in Range(items) : item[1] = "block"}}

Spellings(items) == {i[2] : i \in {item \in Inside(items) : item[1] \in {"string", "word", "set_word"}}}
NumbersIn(items) == {i[2] : i \in {item \in Inside(items) : Number(item)}}

(* What rebeldb-core refuses, and for which reason: a number beyond the    *)
(* one that new_int admits last, a string or a name too long, a memory     *)
(* without the room, or without a place for another name. *)
CoreRefuses(items, error) ==
  LET cells == {HashCells} \union {Len(i[2]) : i \in {item \in Inside(items) : item[1] = "block"}}
  IN  CASE error = "IntegerOutOfRange" -> \E n \in NumbersIn(items) : n \notin -Half .. 2 * Half - 1
        [] error = "StringTooLong" -> \E s \in Spellings(items) : Len(s) > Core!HashSize
        [] error = "OutOfMemory"   -> memory.heap + Max(cells) > MemoryCells
        [] error = "panic"         -> memory.next + HashCells > MemoryCells
        [] OTHER -> FALSE

(* No name has been written over the cells of a value or of what it holds. *)
RECURSIVE Spared(_)
Spared(v) ==
  v[1] \in {"string", "block"} =>
    /\ v[3] >= memory.next
    /\ v[1] = "block" =>
         \A a \in v[3] .. v[3] + v[2] - 1 :
           memory.cells[a][1] = "value" => Spared(memory.cells[a][2])

(* rebeldb-core, before its process takes the first value.  A number from  *)
(* Half on is admitted and comes back negative: see DocumentedRange. *)
CoreReads ==
  LET p == ProgramOf[text]
  IN  /\ reading \in {"reading", "end"} \/ CoreRefuses(p, reading)
      /\ (stage \in {"loading", "values"} /\ stack = << >> /\ ops = << >>) =>
           /\ Len(out) = Len(p)
           /\ \A i \in DOMAIN out :
                (Spared(out[i]) /\ NumbersIn(<<p[i]>>) \subseteq -Half .. Half - 1) =>
                  Core!Denotes(memory, out[i]) = p[i]

(* The console, before it calls anything: the values on the stack, above   *)
(* those the line found there. *)
DbReads ==
  LET below == Len(found.stack)
      values == SubSeq(stack, below + 1, Len(stack))
  IN  /\ reading \in {"reading", "end", "OutOfBounds"}
      /\ (stage = "eval" /\ Len(ops) = Len(found.ops) + Len(SelectSeq(ProgramOf[text], IsAdd))) =>
           /\ SubSeq(stack, 1, below) = found.stack
           /\ [i \in DOMAIN values |-> Db!Denotes(memory, values[i])]
                = SelectSeq(ProgramOf[text], LAMBDA item : ~IsAdd(item))

(* rebel2: a set-word in a block reads back as a word, and a block too     *)
(* long to be packed does not read back at all. *)
RECURSIVE Bytes(_), BlockBytes(_), InBlock(_)
Bytes(item) ==
  LET kept(n) == IF n =< InlineMax THEN 2 + n ELSE 1 + HashBytes
  IN  CASE item[1] = "int"    -> 1 + IntBytes
        [] item[1] = "string" -> kept(Len(item[2]))
        [] item[1] = "block"  -> kept(BlockBytes(item[2]))
        [] OTHER -> 2 + Len(item[2])
BlockBytes(items) == FoldLeft(LAMBDA sum, item : sum + Bytes(item) + 1, 1, items)
InBlock(item) ==
  CASE item[1] = "set_word" -> <<"word", item[2]>>
    [] item[1] = "block" ->
         IF BlockBytes(item[2]) > InlineMax THEN <<"unreadable">>
         ELSE <<"block", [i \in DOMAIN item[2] |-> InBlock(item[2][i])]>>
    [] OTHER -> item
Rebel2Reads ==
  /\ reading \in {"reading", "end", "OutOfBounds"}
  /\ reading = "end" =>
       [i \in DOMAIN out |-> Rebel2!Denotes(out[i])]
         = [i \in DOMAIN ProgramOf[text] |->
              LET item == ProgramOf[text][i]
              IN  IF item[1] = "set_word" THEN item ELSE InBlock(item)]

(* A text that spells a program is read as that program.  Following every  *)
(* value through the memory it was made in gives back what was written:    *)
(* the cells of rebeldb-core's memory (those that no name was written      *)
(* over: names run into the heap, and only there may they do harm), the    *)
(* bytes and hashes of rebeldb's contents, the packed blocks of rebel2 and *)
(* their offsets.  A text is refused only for want of room, for a string   *)
(* or a name too long, or in rebeldb-core for a number too large. *)
ReadsWhatIsSpelled ==
  IsSpelled => CASE crate = "core"   -> CoreReads
                 [] crate = "db"     -> DbReads
                 [] crate = "rebel2" -> Rebel2Reads

(* "Valid range: -2^46 .. 2^46 - 1" (rebeldb-core/src/value.rs:115): no    *)
(* text with a number outside is read.  The upper bound new_int checks is  *)
(* twice that, and as_int makes such a number negative. *)
DocumentedRange ==
  (IsSpelled /\ crate = "core" /\ reading = "end") =>
    NumbersIn(ProgramOf[text]) \subseteq -Half .. Half - 1

(* The numbers stay in the range, and so do the sums on the way. *)
SumsWithin(numbers, low, high) ==
  /\ \A i \in DOMAIN numbers : numbers[i][2] \in low .. high
  /\ \A i \in DOMAIN numbers : Worth(SubSeq(numbers, i, Len(numbers))) \in low .. high

Means(value, rest) ==
  /\ answer = <<"OK", value>>
  /\ stack = rest
  /\ ops = << >>

(* One expression of additions is worth what it says, however it nests,    *)
(* although functions are called only when everything is read and take     *)
(* what is on top then; and nothing of it is left.                         *)
(* On the console a line also ends what the lines before it left behind: a *)
(* function that was read before a line failed is still on its stack, and  *)
(* adds the value of this line to the value on top of those it found.  Its *)
(* answer is that sum, unless there is no number to add to, and nothing    *)
(* else of what it found is touched. *)
ExpressionsMeanThemselves ==
  (IsSpelled /\ Expression(ProgramOf[text])) =>
    LET p       == ProgramOf[text]
        numbers == Addends(p)
        kept    == Len(found.stack) - Len(found.ops)
        taken   == SubSeq(found.stack, kept + 1, Len(found.stack))
        all     == taken \o numbers
    IN  /\ (/\ crate = "core" /\ loads /\ stage = "over"
            /\ Len(numbers) =< StackCap /\ Len(p) - Len(numbers) =< OpCap
            /\ SumsWithin(numbers, -Half, Half - 1)) =>
             Means(<<"int", 0, Worth(p) % (2 * Half)>>, << >>)
        /\ (crate = "db" /\ stage = "prompt") =>
             IF kept < 0 \/ \E i \in DOMAIN taken : ~Number(taken[i])
             THEN answer[1] = "ERR"
             ELSE SumsWithin(all, -MaxNumber - 1, MaxNumber) =>
                    Means(<<"int", Worth(all)>>, SubSeq(found.stack, 1, kept))
=============================================================================
