----------------------------- MODULE WordMemory -----------------------------
(***************************************************************************)
(* Memory of rebel/src/mem.rs, word by word, as Heap and as Stack, with    *)
(* the calls Module and Exec (rebel/src/core.rs) make on them.             *)
(*                                                                         *)
(* A memory is its words; word 0 counts those in use, and an address is    *)
(* counted from word 1.  A block is its length and its words.  Nothing is  *)
(* cleared: alloc_context writes a header and takes the entries as they    *)
(* are, pop leaves the words where they were.                              *)
(***************************************************************************)
EXTENDS ContextOps, Integers, Sequences

CONSTANTS
  HeapRoom, StackRoom,  \* words after word 0
  SealBit,              \* 0x8000_0000
  SystemSize, TableWords,   \* of the system context and the symbol table, 1024 each
  Hash,                 \* hash_u32, as a function
  Blocks, Strings, Sizes, Symbols, Pairs, Pushes, Counts   \* what calls are given

Reserved  == 3          \* words the Module keeps at the start of its heap
EntrySize == 3
Magic     == SealBit    \* 0xdeadbeef

(* The heap has room for what Module::init puts there, and no context is   *)
(* so large that its count reaches the seal. *)
ASSUME RoomAssumption ==
  /\ HeapRoom \in Nat /\ StackRoom \in Nat
  /\ SystemSize \in Nat /\ TableWords \in Nat \ {0}
  /\ Reserved + (EntrySize * SystemSize + 2) + (TableWords + 1) =< HeapRoom
  /\ SealBit \in Nat /\ SealBit > HeapRoom

(* Calls are given words, and symbols of the symbol table, which start at 1. *)
ASSUME CallsAssumption ==
  /\ Symbols \subseteq Nat \ {0} /\ Hash \in [Symbols -> Nat]
  /\ Blocks \subseteq Seq(Nat) /\ Strings \subseteq Seq(0..255)
  /\ Sizes \subseteq Nat /\ Counts \subseteq Nat /\ Pairs \subseteq Nat \X Nat
  /\ Pushes \subseteq Seq(Nat) \ {<< >>}

VARIABLES
  heap, stack,   \* the words of each
  given,         \* ghost: the addresses given out, and the kind of object there
  answer,        \* what the last call returned
  objects        \* ghost: what the words stand for
memoryVars == <<heap, stack, given, answer, objects>>

-----------------------------------------------------------------------------
(* Memory: what is read, and the memory after a call.                      *)

Zeroed(room) == [i \in 0..room |-> 0]
len(m)       == m[0]
Slice(m, from, n) == [i \in 1..n |-> m[from + i]]
init(m, value)    == [m EXCEPT ![0] = value]

Stored(m, from, words) ==
  [i \in DOMAIN m |-> IF i - from \in DOMAIN words THEN words[i - from] ELSE m[i]]

(* alloc *)
Takes(m, n)     == len(m) + n \in DOMAIN m
Taken(m, words) == init(Stored(m, len(m), words), len(m) + Len(words))

(* alloc_empty_block and alloc_block; the address is len(m) before. *)
EmptyBlock_SizeNotCounted(m, size) == init(Stored(m, len(m), <<size>>), len(m) + size)
EmptyBlock(m, size) == init(Stored(m, len(m), <<size>>), len(m) + size + 1)
BlockTaken(m, words)   == Stored(EmptyBlock(m, Len(words)), len(m) + 1, words)

(* get_block *)
InBlock(m, a)   == a + 1 \in DOMAIN m /\ a + 1 + m[a + 1] \in DOMAIN m
BlockOf(m, a)   == Slice(m, a + 1, m[a + 1])

-----------------------------------------------------------------------------
(* Contexts in a block: a header and entries of three words.               *)

ContextBlock(m, size) == Stored(EmptyBlock(m, EntrySize * size + 1), len(m) + 1, <<0>>)

Capacity(c)  == (Len(c) - 1) \div EntrySize
KeyOf(c, i)   == c[2 + EntrySize * i]
ValueOf(c, i) == <<c[3 + EntrySize * i], c[4 + EntrySize * i]>>
Probe(c, s, k) == (Hash[s] + k) % Capacity(c)
IsSealed(c)  == c[1] >= SealBit

Least(S) == CHOOSE k \in S : \A j \in S : k =< j

(* The entry where put stops: free, or the symbol's. *)
Stops(c, s)  == {k \in 0..Capacity(c) - 1 : KeyOf(c, Probe(c, s, k)) \in {0, s}}
StopOf(c, s) == Probe(c, s, Least(Stops(c, s)))

(* A free entry is counted; the seal is not set then. *)
Entered(c, i, s, v) ==
  LET entry == <<s, v[1], v[2]>>
  IN  [j \in DOMAIN c |->
         IF j = 1 THEN (IF KeyOf(c, i) = 0 THEN c[1] + 1 ELSE c[1])
         ELSE IF j - (1 + EntrySize * i) \in DOMAIN entry THEN entry[j - (1 + EntrySize * i)]
         ELSE c[j]]

put(c, s, v) ==
  LET refused(error) == [answer |-> error, words |-> c]
  IN  CASE Capacity(c) = 0 -> refused("SymbolTableFull")
        [] Capacity(c) # 0 /\ IsSealed(c) /\ (Stops(c, s) = {} \/ KeyOf(c, StopOf(c, s)) = 0) ->
             refused("WordNotFound")
        [] Capacity(c) # 0 /\ ~IsSealed(c) /\ Stops(c, s) = {} -> refused("ContextFull")
        [] OTHER -> [answer |-> "ok", words |-> Entered(c, StopOf(c, s), s, v)]

(* get looks at every entry, free ones too. *)
Holding(c, s) == {k \in 0..Capacity(c) - 1 : KeyOf(c, Probe(c, s, k)) = s}
get(c, s) == ValueOf(c, Probe(c, s, Least(Holding(c, s))))

-----------------------------------------------------------------------------
(* Bytes in words, the first byte lowest.                                  *)

WordBytes == 4
Packed(bytes) ==
  [w \in 1..((Len(bytes) + 3) \div WordBytes) |->
     LET byte(j) == LET i == WordBytes * (w - 1) + j IN IF i =< Len(bytes) THEN bytes[i] ELSE 0
     IN  byte(1) + 256 * byte(2) + 65536 * byte(3) + 16777216 * byte(4)]
Shifts == <<1, 256, 65536, 16777216>>
ByteOf(words, i) ==
  (words[(i \div WordBytes) + 1] \div Shifts[(i % WordBytes) + 1]) % 256

(* alloc_string puts the number of bytes before them. *)
StringWords(bytes) == <<Len(bytes)>> \o Packed(bytes)
StringIn(words) == [i \in 1..words[1] |-> ByteOf(Tail(words), i - 1)]

-----------------------------------------------------------------------------
(* The objects the words stand for: what reading them gives.               *)
EntriesOf(c) == [s \in {t \in Symbols : Holding(c, t) # {}} |-> get(c, s)]
Reading(kind, words) ==
  CASE kind = "string"  -> <<"string", StringIn(words)>>
    [] kind = "context" ->
         <<"context", [cap |-> Capacity(words), sealed |-> IsSealed(words), entries |-> EntriesOf(words)]>>
    [] OTHER -> <<kind, words>>
ObjectAt(a) == Reading(given[a], IF InBlock(heap, a) THEN BlockOf(heap, a) ELSE << >>)
Objects == [a \in DOMAIN given |-> ObjectAt(a)]

-----------------------------------------------------------------------------
(* Module::init: the header, the system context and the symbol table.      *)
Made ==
  LET system  == Reserved
      begun   == ContextBlock(init(Zeroed(HeapRoom), Reserved), SystemSize)
      symbols == len(begun)
      tables  == Stored(EmptyBlock(begun, TableWords), symbols + 1, <<0>>)
  IN  [heap |-> Stored(tables, 0, <<Magic, symbols, system>>), system |-> system, symbols |-> symbols]

Init ==
  /\ heap = Made.heap
  /\ stack = Zeroed(StackRoom)
  /\ given = [a \in {Made.system, Made.symbols} |-> IF a = Made.system THEN "context" ELSE "table"]
  /\ answer = <<"none">>
  /\ objects = Objects

Gives(what) == answer' = what
Only(what)  == Gives(what) /\ UNCHANGED <<heap, stack, given>>

(* A block is allocated, and its address given out as one of a kind. *)
Allocates(words, kind) ==
  IF Takes(heap, Len(words) + 1)
  THEN /\ heap' = BlockTaken(heap, words)
       /\ given' = WithEntry(given, len(heap), kind)
       /\ Gives(<<"address", len(heap)>>)
       /\ UNCHANGED stack
  ELSE Only(<<"OutOfMemory">>)

AllocBlock(words)  == Allocates(words, "block")
AllocString(bytes) == Allocates(StringWords(bytes), "string")

AllocContext(size) ==
  IF Takes(heap, EntrySize * size + 2)
  THEN /\ heap' = ContextBlock(heap, size)
       /\ given' = WithEntry(given, len(heap), "context")
       /\ Gives(<<"address", len(heap)>>)
       /\ UNCHANGED stack
  ELSE Only(<<"OutOfMemory">>)

(* The addresses of a kind: the tag beside an address says what is there. *)
At(kind) == {a \in DOMAIN given : given[a] = kind}

(* Through get_block_mut. *)
PutAt(a, s, v) ==
  LET made == put(BlockOf(heap, a), s, v)
  IN  IF InBlock(heap, a)
      THEN heap' = Stored(heap, a + 1, made.words) /\ Gives(<<made.answer>>) /\ UNCHANGED <<stack, given>>
      ELSE Only(<<"OutOfBounds">>)

SealAt(a) ==
  /\ InBlock(heap, a)
  /\ heap' = [heap EXCEPT ![a + 2] = IF @ >= SealBit THEN @ ELSE @ + SealBit]
  /\ Gives(<<"ok">>)
  /\ UNCHANGED <<stack, given>>

(* Stack: alloc and push, pop, peek_all, pop_all, set_len. *)
LastOf(n) == Slice(stack, len(stack) - n, n)

Push(words) ==
  IF Takes(stack, Len(words))
  THEN stack' = Taken(stack, words) /\ Gives(<<"ok">>) /\ UNCHANGED <<heap, given>>
  ELSE Only(<<"OutOfMemory">>)

Pop(n) ==
  IF n =< len(stack)
  THEN stack' = init(stack, len(stack) - n) /\ Gives(<<"words", LastOf(n)>>) /\ UNCHANGED <<heap, given>>
  ELSE Only(<<"StackUnderflow">>)

(* Exec::leave *)
Leave(base) ==
  LET left == init(stack, base)
  IN  CASE len(stack) = base + 2 -> Only(<<"ok">>)
        [] len(stack) = base -> Push(<<0, 0>>)
        [] len(stack) < base -> Only(<<"StackUnderflow">>)
        [] OTHER ->
             IF len(stack) < 2 THEN Only(<<"StackUnderflow">>)
             ELSE /\ UNCHANGED <<heap, given>>
                  /\ IF Takes(left, 2) THEN stack' = Taken(left, LastOf(2)) /\ Gives(<<"ok">>)
                     ELSE stack' = left /\ Gives(<<"OutOfMemory">>)

(* pop_all, alloc_block and push: a block of what lies above the base. *)
Gather(base, tag) ==
  LET words == LastOf(len(stack) - base)
      left  == init(stack, base)
  IN  IF base > len(stack) THEN Only(<<"StackUnderflow">>)
      ELSE IF ~Takes(heap, Len(words) + 1)
      THEN stack' = left /\ Gives(<<"OutOfMemory">>) /\ UNCHANGED <<heap, given>>
      ELSE /\ heap' = BlockTaken(heap, words)
           /\ given' = WithEntry(given, len(heap), "block")
           /\ IF Takes(left, 2) THEN stack' = Taken(left, <<tag, len(heap)>>) /\ Gives(<<"ok">>)
              ELSE stack' = left /\ Gives(<<"OutOfMemory">>)

Calls ==
  \/ \E words \in Blocks : AllocBlock(words)
  \/ \E bytes \in Strings : AllocString(bytes)
  \/ \E size \in Sizes : AllocContext(size)
  \/ \E a \in At("context"), s \in Symbols, v \in Pairs : PutAt(a, s, v)
  \/ \E a \in At("context") : SealAt(a)
  \/ \E words \in Pushes : Push(words)
  \/ \E n \in Counts : Pop(n) \/ Leave(n)
  \/ \E n \in Counts, words \in Pushes : Gather(n, words[1])

Next == Calls /\ objects' = Objects'

Spec == Init /\ [][Next]_memoryVars

-----------------------------------------------------------------------------
(* Every address stands for the object that was put there, whatever other  *)
(* objects came before and after it, were written through, or share the    *)
(* heap with the words of a gathered block: no call reaches past the words *)
(* of its own object, a new context is empty though its entries are not    *)
(* cleared, and the stack never shows a word that was popped.              *)
Store == INSTANCE ObjectStore WITH
  stack <- Slice(stack, 0, len(stack)), used <- len(heap), Begun <- Made.heap[0],
  Start <- [a \in {Made.system, Made.symbols} |->
              IF a = Made.system THEN <<"context", EmptyContext(SystemSize)>>
              ELSE <<"table", [i \in 1..TableWords |-> 0]>>]
ImplementsStore == Store!Spec
=============================================================================
