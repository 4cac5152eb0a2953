--------------------------- MODULE ParseCollector ---------------------------
(***************************************************************************)
(* The two collectors of the parser, whose calls are operators on the      *)
(* collector c; after an error further calls change nothing, as the parser *)
(* returns at once.                                                        *)
(*                                                                         *)
(* Behind Module::parse (rebel/src/core.rs) values pile up on one stack,   *)
(* the positions where blocks and paths began on another, and a block or   *)
(* path that ends moves from the stack to the heap.  While it parses the   *)
(* collector borrows the Module, whose heap and symbols it holds.          *)
(* Positions count values (two words each).                                *)
(*                                                                         *)
(* Behind collector::parse (rebel/src/collector.rs) is a stack of the      *)
(* blocks and paths being built, as Values: tuples <<kind, content>>.      *)
(***************************************************************************)
EXTENDS Integers, SequencesExt, Memory

CONSTANTS
  ParseCap,   \* values the parse stack holds (31: [Word; 64] less the length)
  BaseCap     \* positions the ops stack holds (31: [Word; 32])
ASSUME ParseAssumption == ParseCap \in Nat /\ BaseCap \in Nat \ {0}

NewCollector(heap, symbols) ==
  [kind |-> "module", heap |-> heap, symbols |-> symbols,
   stack |-> << >>, bases |-> << >>, error |-> "none"]

CollectorFails(c, error) == [c EXCEPT !.error = error]

Push(c, val) ==
  IF Len(c.stack) < ParseCap THEN [c EXCEPT !.stack = Append(@, val)]
  ELSE CollectorFails(c, "OutOfMemory")

(* Mutant: the position noted is that of the value after the next one. *)
Begin_OneTooHigh(c) ==
  IF Len(c.bases) < BaseCap THEN [c EXCEPT !.bases = Append(@, Len(c.stack) + 1)]
  ELSE CollectorFails(c, "OutOfMemory")

Begin(c) ==
  IF Len(c.bases) < BaseCap THEN [c EXCEPT !.bases = Append(@, Len(c.stack))]
  ELSE CollectorFails(c, "OutOfMemory")

(* pop_all the values above bp, alloc_block them, push the block.          *)
Gather(c, tag, bp) ==
  LET values == SubSeq(c.stack, bp + 1, Len(c.stack))
      below  == [c EXCEPT !.stack = SubSeq(@, 1, bp)]
  IN  IF ~Fits(c.heap, BlockWords(values)) THEN CollectorFails(below, "OutOfMemory")
      ELSE Push([below EXCEPT !.heap = WithBlock(@, values)],
                <<tag, Len(c.heap.blocks) + 1>>)

(* The base is popped first. *)
End(c, tag) ==
  LET bp     == Last(c.bases)
      popped == [c EXCEPT !.bases = Front(@)]
  IN  CASE c.bases = << >> -> CollectorFails(c, "StackUnderflow")
        [] c.bases # << >> /\ bp > Len(c.stack) -> CollectorFails(popped, "UnexpectedError")
        [] OTHER -> Gather(popped, tag, bp)

Word(c, tag, name) ==
  IF SymbolError(c.symbols, name) # "none"
  THEN CollectorFails(c, SymbolError(c.symbols, name))
  ELSE Push([c EXCEPT !.symbols = WithSymbol(@, name)], <<tag, SymbolId(c.symbols, name)>>)

String(c, chars) ==
  IF ~Fits(c.heap, StringWords(chars)) THEN CollectorFails(c, "OutOfMemory")
  ELSE Push([c EXCEPT !.heap = WithString(@, chars)],
            <<INLINE_STRING, Len(c.heap.blocks) + 1>>)

Integer(c, data) == Push(c, <<INT, data>>)

(* No base is above a later one or above the stack: what was collected     *)
(* before a block began is never taken into it, and the subtraction in     *)
(* pop_all never fails.                                                    *)
BasesInOrder(c) ==
  \A i \in DOMAIN c.bases :
    c.bases[i] =< IF i = Len(c.bases) THEN Len(c.stack) ELSE c.bases[i + 1]

-----------------------------------------------------------------------------
(* The ValueCollector.  It follows the parser with less care: the end of a *)
(* block is passed over when only one is open, and a block inside a path   *)
(* is an error.                                                            *)
NewValueCollector == [kind |-> "value", stack |-> << >>, inPath |-> FALSE, error |-> "none"]

PushValue(c, value) ==
  IF c.stack = << >> THEN CollectorFails(c, "UnexpectedError")
  ELSE [c EXCEPT !.stack[Len(c.stack)] = Append(@, value)]

BeginBlock(c) ==
  IF c.inPath THEN CollectorFails(c, "InvalidPath")
  ELSE [c EXCEPT !.stack = Append(@, << >>)]

BeginPath(c) == [c EXCEPT !.inPath = TRUE, !.stack = Append(@, << >>)]

(* The innermost open block becomes a value of the one around it. *)
Closed(c, kind) == PushValue([c EXCEPT !.stack = Front(@)], <<kind, Last(c.stack)>>)

EndBlock(c) == IF Len(c.stack) > 1 THEN Closed(c, "block") ELSE c

EndPath(c) ==
  IF c.stack = << >> THEN CollectorFails([c EXCEPT !.inPath = FALSE], "UnexpectedError")
  ELSE Closed([c EXCEPT !.inPath = FALSE], "path")

(* into_value: a text of one value is that value, any other a block. *)
IntoValue(c) ==
  CASE c.stack = << >> -> <<"none", 0>>
    [] c.stack # << >> /\ Len(Last(c.stack)) = 1 -> Last(c.stack)[1]
    [] OTHER -> <<"block", Last(c.stack)>>
=============================================================================
