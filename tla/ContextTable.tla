---------------------------- MODULE ContextTable ----------------------------
(***************************************************************************)
(* Context of rebel/src/mem.rs: an open-addressing hash table of entries   *)
(* [symbol, tag, data] with a header word that holds the entry count and,  *)
(* in its top bit, the seal.  A symbol id of 0 marks a free entry.         *)
(* A [tag, data] pair is an opaque value; a call is one action (the table  *)
(* is borrowed for its duration), its probe loop the choice of the first   *)
(* probe number at which it stops.                                         *)
(***************************************************************************)
EXTENDS Naturals, FiniteSets

CONSTANTS
  Symbol,   \* symbol ids: they start at 1
  Value,    \* [tag, data] pairs
  Hash,     \* hash_u32, as a function
  Sizes,    \* the sizes alloc_context is called with
  SealBit,  \* 0x8000_0000
  NoValue   \* what a free entry holds

ASSUME SymbolAssumption == Symbol \subseteq Nat \ {0}
ASSUME HashAssumption == Hash \in [Symbol -> Nat]
ASSUME SizesAssumption == Sizes \subseteq 0 .. SealBit - 1
ASSUME SealBitAssumption == SealBit \in Nat \ {0}

VARIABLES
  cap,      \* data.len() / ENTRY_SIZE, fixed at allocation
  header,   \* entry count, plus SealBit once sealed
  keys,     \* first word of each entry
  vals,     \* the other two words of each entry
  reply     \* the last call and what it returned

vars == <<cap, header, keys, vals, reply>>

Index == 0 .. cap - 1

(* h % capacity, then one further (modulo capacity) at each turn. *)
Slot(s, k) == (Hash[s] + k) % cap

Sealed == header >= SealBit                                 \* header & 0x8000_0000
Count  == IF Sealed THEN header - SealBit ELSE header       \* header & 0x7FFF_FFFF

Used == {i \in Index : keys[i] # 0}

Answer(call, kind, content) == [call |-> call, kind |-> kind, content |-> content]

(* alloc_context: a block of 3 * size + 1 words, all free. *)
Init ==
  /\ cap \in Sizes
  /\ header = 0
  /\ keys = [i \in Index |-> 0]
  /\ vals = [i \in Index |-> NoValue]
  /\ reply = Answer(<<"none">>, "none", {})

(* Mutant: put looks for a free entry only. *)
StopsAt_FreeOnly(s, k) == keys[Slot(s, k)] = 0

(* put's loop leaves at the first entry that is free or holds the symbol. *)
StopsAt(s, k) == keys[Slot(s, k)] \in {0, s}
StopsFirstAt(s, k) == StopsAt(s, k) /\ \A j \in 0 .. k - 1 : ~StopsAt(s, j)

(* Mutant: an overwrite counts as a new entry. *)
PutExisting_Counts(s, v) ==
  \E k \in Index :
    /\ StopsFirstAt(s, k)
    /\ keys[Slot(s, k)] = s
    /\ header' = header + 1
    /\ vals' = [vals EXCEPT ![Slot(s, k)] = v]
    /\ reply' = Answer(<<"put", s>>, "ok", {})
    /\ UNCHANGED <<cap, keys>>

(* The symbol is there: overwrite, sealed or not. *)
PutExisting(s, v) ==
  \E k \in Index :
    /\ StopsFirstAt(s, k)
    /\ keys[Slot(s, k)] = s
    /\ vals' = [vals EXCEPT ![Slot(s, k)] = v]
    /\ reply' = Answer(<<"put", s>>, "ok", {})
    /\ UNCHANGED <<cap, header, keys>>

(* Mutant: any free entry will do. *)
PutNew_AnyFree(s, v) ==
  \E k \in Index :
    /\ \A j \in Index : keys[j] # s
    /\ keys[Slot(s, k)] = 0
    /\ ~Sealed
    /\ header' = Count + 1
    /\ keys' = [keys EXCEPT ![Slot(s, k)] = s]
    /\ vals' = [vals EXCEPT ![Slot(s, k)] = v]
    /\ reply' = Answer(<<"put", s>>, "ok", {})
    /\ UNCHANGED cap

(* Mutant: the seal is not looked at; writing the count takes it off. *)
PutNew_Unseals(s, v) ==
  \E k \in Index :
    /\ StopsFirstAt(s, k)
    /\ keys[Slot(s, k)] = 0
    /\ header' = Count + 1
    /\ keys' = [keys EXCEPT ![Slot(s, k)] = s]
    /\ vals' = [vals EXCEPT ![Slot(s, k)] = v]
    /\ reply' = Answer(<<"put", s>>, "ok", {})
    /\ UNCHANGED cap

(* Mutant: the first word of the value goes where the symbol belongs. *)
PutNew_MovesValue(s, v) ==
  \E k \in Index :
    /\ StopsFirstAt(s, k)
    /\ keys[Slot(s, k)] = 0
    /\ ~Sealed
    /\ header' = Count + 1
    /\ keys' = [keys EXCEPT ![Slot(s, k)] = v]
    /\ vals' = [vals EXCEPT ![Slot(s, k)] = v]
    /\ reply' = Answer(<<"put", s>>, "ok", {})
    /\ UNCHANGED cap

(* A free entry comes first: take it unless the context is sealed. *)
PutNew(s, v) ==
  \E k \in Index :
    /\ StopsFirstAt(s, k)
    /\ keys[Slot(s, k)] = 0
    /\ ~Sealed
    /\ header' = Count + 1
    /\ keys' = [keys EXCEPT ![Slot(s, k)] = s]
    /\ vals' = [vals EXCEPT ![Slot(s, k)] = v]
    /\ reply' = Answer(<<"put", s>>, "ok", {})
    /\ UNCHANGED cap

(* No place for the symbol: nothing is written. *)
PutRefused(s) ==
  /\ \A k \in Index : StopsFirstAt(s, k) => keys[Slot(s, k)] = 0 /\ Sealed
  /\ reply' = Answer(<<"put", s>>, CASE cap = 0 -> "SymbolTableFull"
                       [] cap # 0 /\ Sealed -> "WordNotFound"
                       [] OTHER -> "ContextFull", {})
  /\ UNCHANGED <<cap, header, keys, vals>>

PutEntry(s, v) == PutExisting(s, v) \/ PutNew(s, v) \/ PutRefused(s)

(* Mutant: get gives up one entry early. *)
Get_OffByOne(s) ==
  /\ \/ \E k \in 0 .. cap - 2 :
          /\ keys[Slot(s, k)] = s
          /\ \A j \in 0 .. k - 1 : keys[Slot(s, j)] # s
          /\ reply' = Answer(<<"get", s>>, "value", {vals[Slot(s, k)]})
     \/ /\ \A k \in 0 .. cap - 2 : keys[Slot(s, k)] # s
        /\ reply' = Answer(<<"get", s>>, "WordNotFound", {})
  /\ UNCHANGED <<cap, header, keys, vals>>

(* get looks at every entry, free ones included, until the symbol turns up. *)
Get(s) ==
  /\ \/ \E k \in Index :
          /\ keys[Slot(s, k)] = s
          /\ \A j \in 0 .. k - 1 : keys[Slot(s, j)] # s
          /\ reply' = Answer(<<"get", s>>, "value", {vals[Slot(s, k)]})
     \/ /\ \A k \in Index : keys[Slot(s, k)] # s
        /\ reply' = Answer(<<"get", s>>, "WordNotFound", {})
  /\ UNCHANGED <<cap, header, keys, vals>>

SealContext ==
  /\ header' = IF Sealed THEN header ELSE header + SealBit
  /\ reply' = Answer(<<"seal">>, "ok", {})
  /\ UNCHANGED <<cap, keys, vals>>

(* entry_count: the header word, seal bit included. *)
EntryCount == header

(* The iterator walks the entries in order and stops after entry_count of  *)
(* them have been found.                                                   *)
Yielded == {i \in Used : Cardinality({j \in Used : j < i}) < EntryCount}

Iterate ==
  /\ reply' = Answer(<<"iterate">>, "entries", {<<keys[i], vals[i]>> : i \in Yielded})
  /\ UNCHANGED <<cap, header, keys, vals>>

Next ==
  \/ \E s \in Symbol, v \in Value : PutEntry(s, v)
  \/ \E s \in Symbol : Get(s)
  \/ SealContext
  \/ Iterate

Spec == Init /\ [][Next]_vars
-----------------------------------------------------------------------------
(* The header and every entry stay of their types; an entry's value is one *)
(* a caller has put there, never a neighbour's.                            *)
TypeOK ==
  /\ cap \in Sizes
  /\ header \in Nat
  /\ keys \in [Index -> Symbol \union {0}]
  /\ vals \in [Index -> Value \union {NoValue}]

(* The header's count is the number of entries in use, through every       *)
(* overwrite, refusal and seal: the iterator stops by it.                  *)
CountExact == Count = Cardinality(Used)

(* A symbol has one entry at most: put stops at the first free entry, so a *)
(* probe that missed an entry further on would leave two.                  *)
OneEntryPerSymbol ==
  \A i, j \in Used : keys[i] = keys[j] => i = j

(* No free entry before a symbol's own on its probe sequence, and every    *)
(* entry in use holds a value.                                             *)
Reachable ==
  \A i \in Used :
    /\ vals[i] \in Value
    /\ \E k \in Index :
         /\ Slot(keys[i], k) = i
         /\ \A j \in 0 .. k - 1 : Slot(keys[i], j) \in Used

(* Once sealed, a context gains no symbol and never becomes unsealed: the  *)
(* loop variable's context of foreach relies on it, so that assignments in *)
(* the loop body fall through to the enclosing contexts.                   *)
SealIsFinal ==
  [][Sealed => Sealed' /\ {keys'[i] : i \in Used'} = {keys[i] : i \in Used}]_vars

EntryAt(s) == CHOOSE i \in Used : keys[i] = s

Abstract == INSTANCE BoundedMap WITH
  ctx <- [cap     |-> cap,
          sealed  |-> Sealed,
          entries |-> [s \in {keys[i] : i \in Used} |-> vals[EntryAt(s)]]]

(* The hash table is a bounded map: a put is seen by every later get and   *)
(* by the iterator, a refusal has no effect, and refusals happen exactly   *)
(* when the map is full or sealed.                                         *)
ImplementsBoundedMap == Abstract!Spec

(* The doc of entry_count (mem.rs:611-618): it answers with the number of  *)
(* entries in the context.                                                 *)
EntryCountIsNumberOfEntries == EntryCount = Cardinality(Used)
=============================================================================
