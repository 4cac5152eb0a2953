------------------------------ MODULE CoreEval ------------------------------
(***************************************************************************)
(* rebeldb-core: a text is read into a vector of values, the core module   *)
(* is loaded (the tests load it, run() leaves it out), the values are read *)
(* into a Process, and eval calls what is on the op stack, the last first. *)
(* Words are looked up when they are read; a word that is not there reads  *)
(* as none.  Functions wait until everything is read.                      *)
(***************************************************************************)
EXTENDS Integers, SequencesExt

-----------------------------------------------------------------------------
(* The memory and the values of rebeldb-core (crates/rebeldb-core/src/     *)
(* value.rs).  A value is 64 bits: a tag, and 47 bits that are a number or *)
(* 15 bits of length over a 32-bit address.  Here it is the tuple of what  *)
(* those bits mean; the memory is counted in cells of eight bytes, which   *)
(* is the size of a value.                                                 *)
(*                                                                         *)
(* Symbols are written from SymbolsStart on, one after another, and the    *)
(* heap hands out cells from HeapStart on.  Nothing stops the symbols at   *)
(* HeapStart: those that come after write over what is on the heap.        *)
CONSTANTS
  MemoryCells,    \* cells of memory (0x2000)
  SymbolsStart,   \* first cell of the symbols (0x20)
  HeapStart,      \* first cell of the heap (0x200)
  HashCells,      \* cells of a string or symbol: HASH_SIZE / 8
  CellChars,      \* characters a cell holds (8)
  Half            \* 2^46

HashSize == HashCells * CellChars

Made(m, v)  == [memory |-> m, value |-> v, error |-> "none"]
NotMade(m, e) == [memory |-> m, value |-> << >>, error |-> e]

(* OwnMemory::new *)
NewMemory == [cells   |-> [a \in 0 .. MemoryCells - 1 |-> <<"zero">>],
              heap    |-> HeapStart,
              symbols |-> << >>,        \* names in the order they came
              next    |-> SymbolsStart]

(* cells with the contents written from the address on *)
Written(cells, address, contents) ==
  [a \in DOMAIN cells |->
     IF a \in address .. address + Len(contents) - 1
     THEN contents[a - address + 1] ELSE cells[a]]

Fits(m, size) == m.heap + size =< MemoryCells

(* Mutant: the cells of an allocation are not set aside. *)
Allocated_Reused(m, contents) == [m EXCEPT !.cells = Written(@, m.heap, contents)]

(* alloc, and the bytes copied to what it returns *)
Allocated(m, contents) ==
  [m EXCEPT !.cells = Written(@, m.heap, contents), !.heap = @ + Len(contents)]

(* The bytes of a string, zeroes after them. *)
CharCells(s) == [i \in 1 .. HashCells |->
  <<"chars", SubSeq(s, CellChars * (i - 1) + 1, Min({CellChars * i, Len(s)}))>>]

-----------------------------------------------------------------------------
(* get_or_add_symbol: past the end of the memory the write panics. *)
SymbolAt(m, name) ==
  SymbolsStart + HashCells * ((CHOOSE i \in DOMAIN m.symbols : m.symbols[i] = name) - 1)

(* Mutant: the name is copied to where the pointer is after it moved. *)
GetOrAddSymbol_Late(m, name) ==
  CASE Len(name) > HashSize -> NotMade(m, "StringTooLong")
    [] Len(name) =< HashSize /\ name \in Range(m.symbols) -> Made(m, SymbolAt(m, name))
    [] OTHER ->
         IF m.next + HashCells > MemoryCells THEN NotMade(m, "panic")
         ELSE Made([m EXCEPT !.cells = Written(@, m.next + HashCells, CharCells(name)),
                             !.symbols = Append(@, name), !.next = @ + HashCells], m.next)

GetOrAddSymbol(m, name) ==
  CASE Len(name) > HashSize -> NotMade(m, "StringTooLong")
    [] Len(name) =< HashSize /\ name \in Range(m.symbols) -> Made(m, SymbolAt(m, name))
    [] OTHER ->
         IF m.next + HashCells > MemoryCells THEN NotMade(m, "panic")
         ELSE Made([m EXCEPT !.cells = Written(@, m.next, CharCells(name)),
                             !.symbols = Append(@, name), !.next = @ + HashCells], m.next)

None == <<"none", 0, 0>>

(* Value::word and set_word *)
WordValue(m, name, sets) ==
  LET made == GetOrAddSymbol(m, name)
  IN  IF made.error # "none" THEN made
      ELSE [made EXCEPT !.value = <<IF sets THEN "set_word" ELSE "word", 0, @>>]

(* new_int: the check admits twice the numbers that 47 bits tell apart. *)
NewInt(m, n) ==
  IF -Half =< n /\ n =< 2 * Half - 1
  THEN Made(m, <<"int", 0, n % (2 * Half)>>)
  ELSE NotMade(m, "IntegerOutOfRange")
AsInt(v) == IF v[3] >= Half THEN v[3] - 2 * Half ELSE v[3]

(* Value::string *)
StringValue(m, s) ==
  CASE Len(s) > HashSize -> NotMade(m, "StringTooLong")
    [] Len(s) =< HashSize /\ ~Fits(m, HashCells) -> NotMade(m, "OutOfMemory")
    [] OTHER -> Made(Allocated(m, CharCells(s)), <<"string", Len(s), m.heap>>)

(* Value::block *)
BlockValue(m, values) ==
  IF Fits(m, Len(values))
  THEN Made(Allocated(m, [i \in DOMAIN values |-> <<"value", values[i]>>]),
            <<"block", Len(values), m.heap>>)
  ELSE NotMade(m, "OutOfMemory")

(* context_put: an entry is in front of those before it. *)
ContextPut(m, context, symbol, value) ==
  IF Fits(m, 2)
  THEN Made(Allocated(m, <<<<"entry", symbol, context[3]>>, <<"value", value>>>>),
            <<"context", 0, m.heap>>)
  ELSE NotMade(m, "OutOfMemory")

EmptyContext == <<"context", 0, 0>>

(* context_find, from the newest entry on; context_get *)
ContextFind(m, address, symbol) ==
  LET Find[a \in 0 .. MemoryCells] ==
        IF a = 0 \/ m.cells[a][2] = symbol THEN a ELSE Find[m.cells[a][3]]
  IN  Find[address]
ContextGet(m, context, symbol) ==
  LET a == ContextFind(m, context[3], symbol)
  IN  IF a = 0 THEN None ELSE m.cells[a + 1][2]

-----------------------------------------------------------------------------
(* What a value stands for: as_inline_string, and blocks value by value.   *)
(* Cells that hold something else are garbage. *)
RECURSIVE Denotes(_, _)
Denotes(m, v) ==
  LET cell(i) == m.cells[v[3] + i - 1]
      chars   == FlattenSeq([i \in 1 .. HashCells |-> cell(i)[2]])
  IN  CASE v[1] = "int"  -> <<"int", AsInt(v)>>
        [] v[1] \in {"word", "set_word"} ->
             <<v[1], m.symbols[(v[3] - SymbolsStart) \div HashCells + 1]>>
        [] v[1] = "string" ->
             IF \E i \in 1 .. HashCells : cell(i)[1] # "chars" THEN <<"garbage">>
             ELSE <<"string", SubSeq(chars, 1, Min({v[2], Len(chars)}))>>
        [] v[1] = "block" ->
             IF \E i \in 1 .. v[2] : cell(i)[1] # "value" THEN <<"garbage">>
             ELSE <<"block", [i \in 1 .. v[2] |-> Denotes(m, cell(i)[2])]>>
        [] OTHER -> v

-----------------------------------------------------------------------------
CONSTANTS
  Letters, MaxNumber,   \* see ValueReader
  Add,                  \* the name of add
  StackCap, OpCap       \* 4096 and 256

VARIABLES
  text, pos, open, out, memory, reading,   \* see ValueReader
  loads,    \* is the core module loaded?
  root,     \* root_ctx
  stack, ops,
  stage,    \* "reading", "loading", "values", "eval", "over"
  answer    \* what run returned: OK and a value, or ERROR and which

reader == <<text, pos, open, out, memory, reading>>
process == <<loads, root, stack, ops>>
coreVars == <<reader, process, stage, answer>>

Reader == INSTANCE ValueReader WITH
  StringOf <- StringValue, WordOf <- WordValue, NumberOf <- NewInt, BlockOf <- BlockValue

CoreInit(t, loaded) ==
  /\ text = t /\ pos = 0 /\ open = << >> /\ out = << >>
  /\ memory = NewMemory
  /\ reading = "reading"
  /\ loads = loaded
  /\ root = EmptyContext
  /\ stack = << >> /\ ops = << >>
  /\ stage = "reading"
  /\ answer = << >>

Fails(error) ==
  /\ stage' = "over"
  /\ answer' = <<"ERROR", error>>

(* collect: the first error is the answer. *)
Read ==
  /\ stage = "reading"
  /\ Reader!ReaderNext
  /\ UNCHANGED process
  /\ IF reading' = "reading" THEN UNCHANGED <<stage, answer>>
     ELSE IF reading' # "end" THEN Fails(reading')
     ELSE stage' = (IF loads THEN "loading" ELSE "values") /\ UNCHANGED answer

(* load_module of the one function there is. *)
LoadModule ==
  /\ stage = "loading"
  /\ LET symbol == GetOrAddSymbol(memory, Add)
         put    == ContextPut(symbol.memory, root, symbol.value, <<"native", 0, 0>>)
     IN  IF symbol.error # "none" THEN Fails(symbol.error) /\ UNCHANGED <<memory, root>>
         ELSE /\ memory' = put.memory
              /\ IF put.error # "none" THEN Fails(put.error) /\ UNCHANGED root
                 ELSE root' = put.value /\ stage' = "values" /\ UNCHANGED answer
  /\ UNCHANGED <<text, pos, open, out, reading, loads, stack, ops>>

(* Stack::push on either stack. *)
Push(v) ==
  IF v[1] = "native"
  THEN /\ IF Len(ops) = OpCap THEN Fails("StackOverflow") /\ UNCHANGED ops
          ELSE ops' = Append(ops, v) /\ UNCHANGED <<stage, answer>>
       /\ UNCHANGED stack
  ELSE /\ IF Len(stack) = StackCap THEN Fails("StackOverflow") /\ UNCHANGED stack
          ELSE stack' = Append(stack, v) /\ UNCHANGED <<stage, answer>>
       /\ UNCHANGED ops

(* read *)
ReadValue ==
  /\ stage = "values"
  /\ out # << >>
  /\ out' = Tail(out)
  /\ Push(IF Head(out)[1] = "word" THEN ContextGet(memory, root, Head(out)[3]) ELSE Head(out))
  /\ UNCHANGED <<text, pos, open, memory, reading, loads, root>>

AllRead ==
  /\ stage = "values"
  /\ out = << >>
  /\ stage' = "eval"
  /\ UNCHANGED <<reader, process, answer>>

(* Mutant: add takes the two values and pushes the lower one. *)
Sum_Lower(a, b) == NewInt(memory, AsInt(a))

Sum(a, b) == NewInt(memory, AsInt(a) + AsInt(b))

(* The op is off its stack before add takes its frame, and the frame is    *)
(* gone before the sum is made. *)
CallAdd ==
  /\ stage = "eval"
  /\ ops # << >>
  /\ ops' = Front(ops)
  /\ LET n == Len(stack)
     IN  IF n < 2 THEN Fails("NotEnoughArgs") /\ UNCHANGED stack
         ELSE LET a == stack[n - 1]
                  b == stack[n]
                  rest == SubSeq(stack, 1, n - 2)
              IN  IF a[1] # "int" \/ b[1] # "int"
                  THEN Fails("TypeMismatch") /\ stack' = rest
                  ELSE IF Sum(a, b).error # "none"
                  THEN Fails(Sum(a, b).error) /\ stack' = rest
                  ELSE stack' = Append(rest, Sum(a, b).value) /\ UNCHANGED <<stage, answer>>
  /\ UNCHANGED <<reader, loads, root>>

Result ==
  /\ stage = "eval"
  /\ ops = << >>
  /\ stage' = "over"
  /\ answer' = <<"OK", IF stack = << >> THEN None ELSE Last(stack)>>
  /\ stack' = (IF stack = << >> THEN stack ELSE Front(stack))
  /\ UNCHANGED <<reader, loads, root, ops>>

CoreNext == Read \/ LoadModule \/ ReadValue \/ AllRead \/ CallAdd \/ Result
=============================================================================
