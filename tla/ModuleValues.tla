---------------------------- MODULE ModuleValues ----------------------------
(***************************************************************************)
(* Values outside and inside a Module (rebel/src/core.rs): alloc_value     *)
(* lays a Value out in the Module's memory, to_value reads it back, and    *)
(* form shows a Value as a text.                                           *)
(*                                                                         *)
(* A Value is a tuple <<kind, content>> (see ParseCollector); a context is *)
(* the sequence of its pairs <<name, Value>>.  A module is a record of its *)
(* heap and symbols.  Operators that fail return <<"error", which>>, or a  *)
(* record with an error.  RECURSIVE operators are for TLC alone.           *)
(***************************************************************************)
EXTENDS SequencesExt, Memory

CONSTANT IntMod   \* 2^32

AsInt(data) == IF 2 * data >= IntMod THEN data - IntMod ELSE data

Failed(v) == v[1] = "error"
FirstFailure(vs) == vs[Min({i \in DOMAIN vs : Failed(vs[i])})]

(* Mutant: a set-word is read back as a word. *)
KindOf_OneWord(tag) ==
  CASE tag \in {WORD, SET_WORD} -> "word" [] tag = GET_WORD -> "get_word"
    [] tag = BLOCK -> "block" [] tag = PATH -> "path"

KindOf(tag) ==
  CASE tag = WORD -> "word" [] tag = SET_WORD -> "set_word" [] tag = GET_WORD -> "get_word"
    [] tag = BLOCK -> "block" [] tag = PATH -> "path"

(* get_block_value, and the pairs of a context in the order of its table,  *)
(* which is that of hashes: here that of symbols. *)
RECURSIVE to_value(_, _)
Listed(vs, kind, content) ==
  IF \E i \in DOMAIN vs : Failed(vs[i]) THEN FirstFailure(vs) ELSE <<kind, content>>

BlockValue(m, kind, block) ==
  LET vs == [i \in DOMAIN block |->
               IF block[i][1] \in KnownTags THEN to_value(m, block[i]) ELSE <<"error", "UnknownTag">>]
  IN  Listed(vs, kind, vs)

ContextValue(m, entries) ==
  LET keys == SetToSortSeq(DOMAIN entries, <)
      vs == [i \in DOMAIN keys |->
               IF entries[keys[i]][1] \in KnownTags THEN to_value(m, entries[keys[i]])
               ELSE <<"error", "UnknownTag">>]
  IN  Listed(vs, "context", [i \in DOMAIN keys |-> <<m.symbols[keys[i]], vs[i]>>])

(* to_value; a function reads as none. *)
to_value(m, val) ==
  CASE val[1] \in {NONE, FUNC} -> <<"none", 0>>
    [] val[1] = INT  -> <<"int", AsInt(val[2])>>
    [] val[1] = BOOL -> <<"bool", val[2] # 0>>
    [] val[1] \in {WORD, SET_WORD, GET_WORD} -> <<KindOf(val[1]), m.symbols[val[2]]>>
    [] val[1] = INLINE_STRING -> <<"string", m.heap.blocks[val[2]]>>
    [] val[1] \in {BLOCK, PATH} -> BlockValue(m, KindOf(val[1]), m.heap.blocks[val[2]])
    [] val[1] = CONTEXT -> ContextValue(m, m.heap.ctxs[val[2]].entries)
    [] OTHER -> <<"error", "UnknownTag">>

-----------------------------------------------------------------------------
(* What an allocation leaves and returns. *)
Allocated(m, val) == [m |-> m, error |-> "none", val |-> val]
NotAllocated(m, error) == [m |-> m, error |-> error, val |-> <<NONE, 0>>]

(* get_or_insert_symbol and alloc_string *)
AllocSymbol(m, tag, name) ==
  IF SymbolError(m.symbols, name) # "none"
  THEN NotAllocated(m, SymbolError(m.symbols, name))
  ELSE Allocated([m EXCEPT !.symbols = WithSymbol(@, name)], <<tag, SymbolId(m.symbols, name)>>)

AllocString(m, chars) ==
  IF Fits(m.heap, StringWords(chars))
  THEN Allocated([m EXCEPT !.heap = WithString(@, chars)],
                 <<INLINE_STRING, Len(m.heap.blocks) + 1>>)
  ELSE NotAllocated(m, "OutOfMemory")

RECURSIVE alloc_value(_, _)
RECURSIVE AllocItems(_, _, _), AllocItemsOn(_, _, _)
RECURSIVE AllocPairs(_, _, _), AllocPairsOn(_, _, _)

(* alloc_block: the items first, then the block of what they became. *)
AllocItems(r, items, vals) ==
  IF r.error # "none" \/ items = << >> THEN [r EXCEPT !.val = vals]
  ELSE AllocItemsOn(alloc_value(r.m, Head(items)), Tail(items), vals)
AllocItemsOn(r, items, vals) == AllocItems(r, items, Append(vals, r.val))

AllocBlock(r, tag) ==
  CASE r.error # "none" -> NotAllocated(r.m, r.error)
    [] r.error = "none" /\ ~Fits(r.m.heap, BlockWords(r.val)) -> NotAllocated(r.m, "OutOfMemory")
    [] OTHER -> Allocated([r.m EXCEPT !.heap = WithBlock(@, r.val)],
                          <<tag, Len(r.m.heap.blocks) + 1>>)

(* A context is allocated with room for its pairs and filled one by one:   *)
(* of two pairs with one key the last one stays. *)
AllocPair(r, ctx, key) ==
  CASE r.error # "none" -> r
    [] r.error = "none" /\ PutResult(r.m.heap.ctxs[ctx], key) # "ok" ->
         NotAllocated(r.m, PutResult(r.m.heap.ctxs[ctx], key))
    [] OTHER -> [r EXCEPT !.m.heap.ctxs[ctx] = Put(@, key, r.val)]

AllocPairs(r, ctx, pairs) ==
  IF r.error # "none" \/ pairs = << >> THEN r
  ELSE AllocPairsOn(AllocSymbol(r.m, WORD, Head(pairs)[1]), ctx, pairs)
AllocPairsOn(key, ctx, pairs) ==
  IF key.error # "none" THEN key
  ELSE AllocPairs(AllocPair(alloc_value(key.m, Head(pairs)[2]), ctx, key.val[2]),
                  ctx, Tail(pairs))

AllocContext(m, pairs) ==
  LET size == Len(pairs)
      ctx  == Len(m.heap.ctxs) + 1
      opened == [m EXCEPT !.heap = WithContext(@, EmptyContext(size))]
  IN  IF ~Fits(m.heap, ContextWords(size)) THEN NotAllocated(m, "OutOfMemory")
      ELSE [AllocPairs(Allocated(opened, <<CONTEXT, ctx>>), ctx, pairs) EXCEPT
              !.val = <<CONTEXT, ctx>>]

alloc_value(m, value) ==
  CASE value[1] = "none" -> Allocated(m, <<NONE, 0>>)
    [] value[1] = "int"  -> Allocated(m, <<INT, value[2] % IntMod>>)
    [] value[1] = "bool" -> Allocated(m, Bool(value[2]))
    [] value[1] = "string"   -> AllocString(m, value[2])
    [] value[1] = "word"     -> AllocSymbol(m, WORD, value[2])
    [] value[1] = "set_word" -> AllocSymbol(m, SET_WORD, value[2])
    [] value[1] = "get_word" -> AllocSymbol(m, GET_WORD, value[2])
    [] value[1] = "block"    -> AllocBlock(AllocItems(Allocated(m, << >>), value[2], << >>), BLOCK)
    [] value[1] = "path"     -> AllocBlock(AllocItems(Allocated(m, << >>), value[2], << >>), PATH)
    [] value[1] = "context"  -> AllocContext(m, value[2])

-----------------------------------------------------------------------------
(* Values as texts (rebel/src/value.rs): form, which Display prints, and   *)
(* the conversions to a string and to an integer.  A text is a sequence of *)
(* characters.  Blocks lose their brackets and strings their quotes.       *)

FormDigits == <<"0", "1", "2", "3", "4", "5", "6", "7", "8", "9">>

RECURSIVE Numeral(_)
Numeral(n) ==
  CASE n < 0  -> <<"-">> \o Numeral(-n)
    [] n \in 0 .. 9 -> <<FormDigits[n + 1]>>
    [] n > 9  -> Numeral(n \div 10) \o <<FormDigits[(n % 10) + 1]>>

(* Texts with a separator between them. *)
Joined(texts, separator) ==
  FoldLeft(LAMBDA done, i : IF i = 1 THEN texts[1] ELSE done \o separator \o texts[i],
           << >>, [i \in DOMAIN texts |-> i])

None  == <<"n", "o", "n", "e">>
Truth == [b \in BOOLEAN |-> IF b THEN <<"t", "r", "u", "e">> ELSE <<"f", "a", "l", "s", "e">>]
Make  == <<"m", "a", "k", "e", " ", "o", "b", "j", "e", "c", "t", "!", " ", "[">>

(* Mutant: the sign of a path is put between the items of any block. *)
RECURSIVE form_Slashes(_)
form_Slashes(v) ==
  LET kind == v[1]
  IN  CASE kind = "int"      -> Numeral(v[2])
        [] kind = "set_word" -> v[2] \o <<":">>
        [] kind \in {"word", "string"} -> v[2]
        [] kind \in {"block", "path"} -> Joined([i \in DOMAIN v[2] |-> form_Slashes(v[2][i])], <<"/">>)

RECURSIVE form(_)
form(v) ==
  LET kind == v[1]
  IN  CASE kind = "none"     -> None
        [] kind = "int"      -> Numeral(v[2])
        [] kind = "bool"     -> Truth[v[2]]
        [] kind = "set_word" -> v[2] \o <<":">>
        [] kind = "get_word" -> <<":">> \o v[2]
        [] kind \in {"word", "string"} -> v[2]
        [] kind = "block"    -> Joined([i \in DOMAIN v[2] |-> form(v[2][i])], <<" ">>)
        [] kind = "path"     -> Joined([i \in DOMAIN v[2] |-> form(v[2][i])], <<"/">>)
        [] kind = "context"  ->
             Make \o Joined([i \in DOMAIN v[2] |-> v[2][i][1] \o <<":">> \o form(v[2][i][2])], <<" ">>)
                  \o <<"]">>

(* A get-word is given the form of a set-word here, unlike in form. *)
to_string_value(v) ==
  <<"string", IF v[1] = "get_word" THEN v[2] \o <<":">> ELSE form(v)>>

(* str::parse::<i32>: a sign and digits that keep within the type. *)
NumberIn(text) ==
  LET signed == text # << >> /\ text[1] \in {"+", "-"}
      digits == IF signed THEN Tail(text) ELSE text
      value  == FoldLeft(LAMBDA n, d : 10 * n + (CHOOSE k \in 0 .. 9 : FormDigits[k + 1] = d), 0, digits)
      number == IF signed /\ text[1] = "-" THEN -value ELSE value
  IN  IF digits = << >> \/ ~(Range(digits) \subseteq Range(FormDigits)) THEN {}
      ELSE {n \in {number} : -(IntMod \div 2) =< n /\ n < IntMod \div 2}

to_int_value(v) ==
  CASE v[1] = "int" -> v
    [] v[1] = "string" /\ NumberIn(v[2]) # {} -> <<"int", CHOOSE n \in NumberIn(v[2]) : TRUE>>
    [] OTHER -> <<"none", 0>>
=============================================================================
