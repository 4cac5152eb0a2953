------------------------------- MODULE Console -------------------------------
(***************************************************************************)
(* The console of rebeldb-cli, which huly-cli offers as well, and the      *)
(* Context of rebeldb it keeps from line to line.  The values of a line    *)
(* are read into the Context one by one as the reader makes them, then     *)
(* eval calls what is on the op stack, the last first, and the value left  *)
(* on top is the answer.                                                   *)
(*                                                                         *)
(* A line that fails leaves on both stacks what it had put there, and a    *)
(* line that succeeds may leave values below its answer.  The next line    *)
(* finds them.                                                             *)
(***************************************************************************)
EXTENDS Integers, SequencesExt

-----------------------------------------------------------------------------
(* Values of rebeldb (crates/rebeldb/src/value.rs, heap.rs).  The content  *)
(* of a string or a block is kept in the value while it fits, one byte of  *)
(* length before it; a longer one goes to the heap, and the value keeps    *)
(* 0xff and its hash.  A block is the bytes of its values one after        *)
(* another.                                                                *)
(*                                                                         *)
(* Bytes are numbers.  A character is its place in Alphabet; the heap is   *)
(* the sequence of what was put there, and the hash of a content its place *)
(* in it, over HashBytes bytes: distinct contents have distinct hashes.    *)
CONSTANTS
  Alphabet,     \* a sequence of all the characters
  InlineBuffer, \* INLINE_CONTENT_BUFFER, 38
  HashBytes,    \* 32
  ByteMod,      \* 256
  IntBytes      \* 8

External == ByteMod - 1
IntMod   == ByteMod ^ IntBytes

Chars(s)    == [i \in DOMAIN s |-> CHOOSE k \in DOMAIN Alphabet : Alphabet[k] = s[i]]
CharsOf(bs) == [i \in DOMAIN bs |-> Alphabet[bs[i]]]

(* to_le_bytes and from_le_bytes of an i64 *)
IntLE(n) == [i \in 1 .. IntBytes |-> ((n % IntMod) \div ByteMod ^ (i - 1)) % ByteMod]
FromLE(bs) ==
  LET n == FoldLeft(LAMBDA sum, i : sum + bs[i] * ByteMod ^ (i - 1), 0,
                    [i \in 1 .. IntBytes |-> i])
  IN  IF 2 * n >= IntMod THEN n - IntMod ELSE n

Made(h, v) == [memory |-> h, value |-> v, error |-> "none"]
NotMade(h, e) == [memory |-> h, value |-> << >>, error |-> e]

-----------------------------------------------------------------------------
(* Heap::put *)
Put(h, bytes) == IF bytes \in Range(h) THEN h ELSE Append(h, bytes)
HashOf(h, bytes) ==
  [i \in 1 .. HashBytes |-> IF i = 1 THEN CHOOSE k \in DOMAIN h : h[k] = bytes ELSE 0]

(* Content::new *)
Content(h, bytes) ==
  IF Len(bytes) < InlineBuffer THEN Made(h, <<Len(bytes)>> \o bytes)
  ELSE Made(Put(h, bytes), <<External>> \o HashOf(Put(h, bytes), bytes))

(* Symbol::new *)
WordValue(h, name, sets) ==
  IF Len(name) < InlineBuffer
  THEN Made(h, <<IF sets THEN "set_word" ELSE "word", <<Len(name)>> \o Chars(name)>>)
  ELSE NotMade(h, "OutOfBounds")

NumberValue(h, n) == Made(h, <<"int", n>>)

StringValue(h, s) ==
  LET content == Content(h, Chars(s)) IN [content EXCEPT !.value = <<"bytes", @>>]

(* Serialize for Value: a content and a symbol are written as they are     *)
(* kept, without what is unused of the buffer. *)
Serialized(v) ==
  CASE v[1] = "int"      -> <<1>> \o IntLE(v[2])
    [] v[1] = "bytes"    -> <<4, 1>> \o v[2]
    [] v[1] = "word"     -> <<5>> \o v[2]
    [] v[1] = "set_word" -> <<6>> \o v[2]
    [] v[1] = "block"    -> <<7>> \o v[2]

(* Value::block *)
BlockValue(h, values) ==
  LET content == Content(h, FlattenSeq([i \in DOMAIN values |-> Serialized(values[i])]))
  IN  [content EXCEPT !.value = <<"block", @>>]

-----------------------------------------------------------------------------
(* Deserialize.  A length that no content kept in a value has stands for a *)
(* hash. *)
OutOfBounds == <<"OutOfBounds">>
NoBytes == <<-1>>

(* Content::deserialize, and Symbol::deserialize where every length is one *)
ContentIn(bytes, limit) ==
  LET n == IF bytes[1] < limit THEN bytes[1] ELSE HashBytes
  IN  IF bytes = << >> THEN NoBytes
      ELSE IF Len(bytes) < n + 1 THEN NoBytes ELSE SubSeq(bytes, 1, n + 1)

Of(kind, content) == IF content = NoBytes THEN OutOfBounds ELSE <<kind, content>>

Deserialized(bytes) ==
  CASE bytes = << >> -> OutOfBounds
    [] bytes # << >> /\ bytes[1] = 1 ->
         IF Len(bytes) < IntBytes + 1 THEN OutOfBounds
         ELSE <<"int", FromLE(SubSeq(bytes, 2, IntBytes + 1))>>
    [] bytes # << >> /\ bytes[1] = 4 ->
         IF Len(bytes) < 2 THEN OutOfBounds
         ELSE Of("bytes", ContentIn(SubSeq(bytes, 3, Len(bytes)), InlineBuffer))
    [] bytes # << >> /\ bytes[1] = 5 -> Of("word", ContentIn(Tail(bytes), ByteMod))
    [] bytes # << >> /\ bytes[1] = 6 -> Of("set_word", ContentIn(Tail(bytes), ByteMod))
    [] bytes # << >> /\ bytes[1] = 7 -> Of("block", ContentIn(Tail(bytes), InlineBuffer))

-----------------------------------------------------------------------------
(* What a value stands for, its blocks read value by value. *)
BytesOf(h, content) ==
  IF content[1] = External THEN h[content[2]] ELSE Tail(content)

RECURSIVE Denotes(_, _), AllIn(_, _)
Denotes(h, v) ==
  CASE v[1] = "bytes" -> <<"string", CharsOf(BytesOf(h, v[2]))>>
    [] v[1] \in {"word", "set_word"} -> <<v[1], CharsOf(Tail(v[2]))>>
    [] v[1] = "block" -> <<"block", AllIn(h, BytesOf(h, v[2]))>>
    [] OTHER -> v
AllIn(h, bytes) ==
  IF bytes = << >> THEN << >>
  ELSE LET v == Deserialized(bytes)
       IN  <<Denotes(h, v)>>
             \o AllIn(h, SubSeq(bytes, Len(Serialized(v)) + 1, Len(bytes)))

-----------------------------------------------------------------------------
CONSTANTS
  Letters, MaxNumber,   \* see ValueReader
  Add,                  \* the name of add
  Lines,                \* what may be typed
  MaxLines,             \* bound on the lines of a session
  OverflowChecks        \* is the build one that checks i64 sums?

VARIABLES
  text, pos, open, out, memory, reading,   \* see ValueReader
  stack, ops,
  stage,    \* "prompt", "reading", "eval", "over"
  answer,   \* what was printed last
  lines,    \* lines typed so far
  found     \* history: the two stacks as they were when the line was typed

reader == <<text, pos, open, out, memory, reading>>
context == <<stack, ops>>
shell  == <<stage, answer, lines, found>>
consoleVars == <<reader, context, shell>>

Reader == INSTANCE ValueReader WITH
  StringOf <- StringValue, WordOf <- WordValue, NumberOf <- NumberValue,
  BlockOf <- BlockValue

Nothing == [stack |-> << >>, ops |-> << >>]

ConsoleInit ==
  /\ text = << >> /\ pos = 0 /\ open = << >> /\ out = << >>
  /\ memory = << >>
  /\ reading = "end"
  /\ stack = << >> /\ ops = << >>
  /\ stage = "prompt"
  /\ answer = << >>
  /\ lines = 0
  /\ found = Nothing

Type ==
  /\ stage = "prompt"
  /\ lines < MaxLines
  /\ lines' = lines + 1
  /\ text' \in Lines
  /\ pos' = 0 /\ open' = << >> /\ out' = << >>
  /\ reading' = "reading"
  /\ stage' = "reading"
  /\ found' = [stack |-> stack, ops |-> ops]
  /\ UNCHANGED <<memory, context, answer>>

(* :quit, end of input, or an error of the terminal *)
Quit ==
  /\ stage = "prompt"
  /\ stage' = "over"
  /\ UNCHANGED <<reader, context, answer, lines, found>>

Fails(error) ==
  /\ stage' = "prompt"
  /\ answer' = <<"ERR", error>>
  /\ UNCHANGED <<lines, found>>

(* The reader goes on to its next value when the Context has read the one  *)
(* before. *)
Read ==
  /\ stage = "reading"
  /\ out = << >>
  /\ Reader!ReaderNext
  /\ UNCHANGED context
  /\ IF reading' = "reading" THEN UNCHANGED shell
     ELSE IF reading' = "end" THEN stage' = "eval" /\ UNCHANGED <<answer, lines, found>>
     ELSE Fails(reading')

(* Context::read and push: a word is looked up in env, where only add is.  *)
ReadValue ==
  /\ stage = "reading"
  /\ out # << >>
  /\ out' = Tail(out)
  /\ LET v == Head(out)
     IN  CASE v[1] = "word" /\ CharsOf(Tail(v[2])) = Add ->
                ops' = Append(ops, v) /\ UNCHANGED <<stack, shell>>
           [] v[1] = "word" /\ CharsOf(Tail(v[2])) # Add ->
                Fails("WordNotFound") /\ UNCHANGED context
           [] OTHER -> stack' = Append(stack, v) /\ UNCHANGED <<ops, shell>>
  /\ UNCHANGED <<text, pos, open, memory, reading>>

(* a + b of two i64 *)
Overflows(n) == n \notin -MaxNumber - 1 .. MaxNumber
Wrapped(n) ==
  IF n > MaxNumber THEN n - 2 * (MaxNumber + 1)
  ELSE IF n < -MaxNumber - 1 THEN n + 2 * (MaxNumber + 1) ELSE n

Panics ==
  /\ stage' = "over"
  /\ answer' = <<"panic">>
  /\ UNCHANGED <<lines, found>>

(* Mutant: add looks at its two values without taking them off the stack. *)
CallAdd_Peeks ==
  /\ stage = "eval"
  /\ ops # << >>
  /\ ops' = Front(ops)
  /\ LET n == Len(stack)
     IN  IF n < 2 THEN Fails("ArityMismatch") /\ stack' = stack
         ELSE LET a == stack[n - 1]
                  b == stack[n]
              IN  IF a[1] # "int" \/ b[1] # "int" THEN Fails("MismatchedType") /\ stack' = stack
                  ELSE IF Overflows(a[2] + b[2]) /\ OverflowChecks
                  THEN Panics /\ stack' = stack
                  ELSE stack' = Append(stack, <<"int", Wrapped(a[2] + b[2])>>) /\ UNCHANGED shell
  /\ UNCHANGED reader

(* Context::eval and add: what was popped is gone when add fails. *)
CallAdd ==
  /\ stage = "eval"
  /\ ops # << >>
  /\ ops' = Front(ops)
  /\ LET n == Len(stack)
     IN  IF n < 2 THEN Fails("ArityMismatch") /\ stack' = << >>
         ELSE LET a == stack[n - 1]
                  b == stack[n]
                  rest == SubSeq(stack, 1, n - 2)
              IN  IF a[1] # "int" \/ b[1] # "int" THEN Fails("MismatchedType") /\ stack' = rest
                  ELSE IF Overflows(a[2] + b[2]) /\ OverflowChecks
                  THEN Panics /\ stack' = rest
                  ELSE stack' = Append(rest, <<"int", Wrapped(a[2] + b[2])>>) /\ UNCHANGED shell
  /\ UNCHANGED reader

(* The answer is printed: a string that went to the heap is not there to   *)
(* print, and Display panics. *)
Answer ==
  /\ stage = "eval"
  /\ ops = << >>
  /\ LET v == IF stack = << >> THEN <<"none">> ELSE Last(stack)
     IN  IF v[1] = "bytes" /\ v[2][1] = External THEN Panics
         ELSE /\ stage' = "prompt"
              /\ answer' = <<"OK", v>>
              /\ UNCHANGED <<lines, found>>
  /\ stack' = (IF stack = << >> THEN stack ELSE Front(stack))
  /\ UNCHANGED <<reader, ops>>

ConsoleNext == Type \/ Quit \/ Read \/ ReadValue \/ CallAdd \/ Answer
=============================================================================
