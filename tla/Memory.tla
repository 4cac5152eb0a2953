------------------------------- MODULE Memory -------------------------------
(***************************************************************************)
(* What a Module keeps on its heap and in its symbol table                 *)
(* (rebel/src/mem.rs, rebel/src/core.rs), as the code that uses them sees  *)
(* it.                                                                     *)
(*                                                                         *)
(* A value is the pair <<tag, data>> the code stores.  Blocks and contexts *)
(* have addresses of their own kind, their index, and the words they       *)
(* occupy are counted against the heap, which hands every word out once.   *)
(***************************************************************************)
EXTENDS Integers, Sequences, ContextOps

CONSTANTS
  HeapCap,     \* words of the heap
  SymbolCap,   \* symbols the table holds (1024 words \div 9)
  NameCap      \* bytes of the longest name (31)
ASSUME HeapAssumption == HeapCap \in Nat
ASSUME SymbolAssumption == SymbolCap \in Nat /\ NameCap \in Nat

NONE      == 0
INT       == 1
BLOCK     == 2
CONTEXT   == 3
NATIVE_FN == 4
INLINE_STRING == 5
WORD      == 6
SET_WORD  == 7
GET_WORD  == 8
FUNC      == 9
BOOL      == 10
PATH      == 11

(* VmValue::from_tag_data accepts these tags. *)
KnownTags == {NONE, INT, BLOCK, CONTEXT, INLINE_STRING, WORD, SET_WORD, FUNC, BOOL, PATH}

Bool(b) == <<BOOL, IF b THEN 1 ELSE 0>>

(* alloc_block takes the length word and the values; alloc_context three   *)
(* words an entry, the header and the length word; alloc_string the length *)
(* word, the number of bytes, and four bytes a word.                       *)
BlockWords(vals)   == 2 * Len(vals) + 1
ContextWords(size) == 3 * size + 2
StringWords(chars) == 2 + (Len(chars) + 3) \div 4

Fits(h, words) == h.used + words =< HeapCap

WithBlock(h, vals) ==
  [h EXCEPT !.blocks = Append(@, vals), !.used = @ + BlockWords(vals)]
WithString(h, chars) ==
  [h EXCEPT !.blocks = Append(@, chars), !.used = @ + StringWords(chars)]
WithContext(h, ctx) ==
  [h EXCEPT !.ctxs = Append(@, ctx), !.used = @ + ContextWords(ctx.cap)]

EmptyHeap == [blocks |-> << >>, ctxs |-> << >>, used |-> 0]

-----------------------------------------------------------------------------
(* The symbol table (see Interning) is the sequence of the names interned  *)
(* so far.  A name is a sequence of characters.                            *)
Interned(symbols, name) == \E i \in DOMAIN symbols : symbols[i] = name

SymbolId(symbols, name) ==
  IF Interned(symbols, name)
  THEN CHOOSE i \in DOMAIN symbols : symbols[i] = name
  ELSE Len(symbols) + 1

(* get_or_insert_symbol: its error, and the table it leaves. *)
SymbolError(symbols, name) ==
  LET tooLong == Len(name) > NameCap
  IN  CASE tooLong -> "StringTooLong"
        [] ~tooLong /\ ~Interned(symbols, name) /\ Len(symbols) >= SymbolCap ->
             "SymbolTableFull"
        [] OTHER -> "none"

WithSymbol(symbols, name) ==
  IF Interned(symbols, name) THEN symbols ELSE Append(symbols, name)
=============================================================================
