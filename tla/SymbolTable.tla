---------------------------- MODULE SymbolTable ----------------------------
(***************************************************************************)
(* The symbol table of rebel/src/mem.rs: an open-addressing hash table in  *)
(* one array of words.  Of the DataLen words after the count, the first    *)
(* DataLen \div 9 are the lookup slots (0, or the id of a symbol), and the *)
(* rest holds the symbols, 8 words each, in the order of their ids.        *)
(* A symbol is an opaque value here: the code compares all its 8 words and *)
(* hashes all of them, so only equality and the hash matter.               *)
(*                                                                         *)
(* A call is one action: the table is borrowed mutably for its duration.   *)
(* The probe loop of get_or_insert is the choice of the first probe number *)
(* k at which it stops.                                                    *)
(***************************************************************************)
EXTENDS Naturals

CONSTANTS
  Symbol,    \* the symbols programs use
  DataLen,   \* words after the count word
  Hash,      \* hash_u32x8, as a function
  Ids,       \* the ids callers may ask for
  NoSymbol   \* what a value position holds before it is written

ASSUME DataLenAssumption == DataLen \in Nat
ASSUME HashAssumption == Hash \in [Symbol -> Nat]
ASSUME IdsAssumption == Ids \subseteq Nat
ASSUME NoSymbolAssumption == NoSymbol \notin Symbol

VARIABLES
  count,     \* first word of the block: the number of symbols
  slots,     \* lookup words
  values,    \* the 8-word value positions that lie inside the block
  reply      \* what the last call returned

vars == <<count, slots, values, reply>>

(* Mutant: the slot word of each symbol is forgotten. *)
NumSlots_EightWords == DataLen \div 8

(* let symbols = data.len() / 9 *)
NumSlots == DataLen \div 9
SlotIndex == 0 .. NumSlots - 1

(* data.get_mut(offset..offset + 8) with offset = symbols + (pos - 1) * 8: *)
(* does the position lie inside the block?                                 *)
InBounds(pos) == NumSlots + (pos - 1) * 8 + 8 =< DataLen
Position == {p \in 1 .. DataLen : InBounds(p)}

(* The slot looked at by probe number k: h % symbols, then one further     *)
(* (modulo symbols) at each turn of the loop.                              *)
Slot(s, k) == (Hash[s] + k) % NumSlots

(* Mutant: the stored symbol is not compared, only free slots end a probe. *)
StopsAt_NoCompare(s, k) == slots[Slot(s, k)] = 0

(* The loop leaves at probe k: the slot is free, holds a position outside  *)
(* the block, or holds this very symbol.                                   *)
StopsAt(s, k) ==
  LET pos == slots[Slot(s, k)]
  IN  pos # 0 /\ InBounds(pos) => values[pos] = s

StopsFirstAt(s, k) ==
  /\ StopsAt(s, k)
  /\ \A j \in 0 .. k - 1 : ~StopsAt(s, j)

Reply(kind, sym, id) == [kind |-> kind, sym |-> sym, id |-> id]

Init ==
  /\ count = 0
  /\ slots = [i \in SlotIndex |-> 0]
  /\ values = [p \in Position |-> NoSymbol]
  /\ reply = Reply("none", "none", 0)

(* The probe ends at a slot that holds an id: it is returned, or the read  *)
(* of its value fails.                                                     *)
InternKnown(s) ==
  \E k \in SlotIndex :
    LET pos == slots[Slot(s, k)]
    IN  /\ StopsFirstAt(s, k)
        /\ pos # 0
        /\ reply' = IF InBounds(pos) THEN Reply("interned", s, pos)
                                     ELSE Reply("OutOfBounds", s, 0)
        /\ UNCHANGED <<count, slots, values>>

(* Mutant: any free slot on the probe sequence is taken, not the first. *)
InternNew_AnyFree(s) ==
  \E k \in SlotIndex :
    LET i   == Slot(s, k)
        pos == count + 1
    IN  /\ slots[i] = 0
        /\ \A j \in SlotIndex : slots[j] # 0 => values[slots[j]] # s
        /\ count' = pos
        /\ slots' = [slots EXCEPT ![i] = pos]
        /\ values' = [values EXCEPT ![pos] = s]
        /\ reply' = Reply("interned", s, pos)

(* Mutant: the count is not advanced, so ids are handed out twice. *)
InternNew_NoCount(s) ==
  \E k \in SlotIndex :
    LET i   == Slot(s, k)
        pos == count + 1
    IN  /\ StopsFirstAt(s, k)
        /\ slots[i] = 0
        /\ slots' = [slots EXCEPT ![i] = pos]
        /\ values' = [values EXCEPT ![pos] = s]
        /\ reply' = Reply("interned", s, pos)
        /\ UNCHANGED count

(* Mutant: the hash of the symbol is stored instead of the symbol. *)
InternNew_StoresHash(s) ==
  \E k \in SlotIndex :
    LET i   == Slot(s, k)
        pos == count + 1
    IN  /\ StopsFirstAt(s, k)
        /\ slots[i] = 0
        /\ count' = pos
        /\ slots' = [slots EXCEPT ![i] = pos]
        /\ values' = [values EXCEPT ![pos] = Hash[s]]
        /\ reply' = Reply("interned", s, pos)

(* The probe ends at a free slot.  The count and the slot are written      *)
(* before the value position is bounds-checked.                            *)
InternNew(s) ==
  \E k \in SlotIndex :
    LET i   == Slot(s, k)
        pos == count + 1
    IN  /\ StopsFirstAt(s, k)
        /\ slots[i] = 0
        /\ count' = pos
        /\ slots' = [slots EXCEPT ![i] = pos]
        /\ values' = IF InBounds(pos) THEN [values EXCEPT ![pos] = s] ELSE values
        /\ reply' = IF InBounds(pos) THEN Reply("interned", s, pos)
                                     ELSE Reply("OutOfBounds", s, 0)

(* No probe stops (or there is no slot at all). *)
InternFull(s) ==
  /\ \A k \in SlotIndex : ~StopsAt(s, k)
  /\ reply' = Reply("SymbolTableFull", s, 0)
  /\ UNCHANGED <<count, slots, values>>

GetOrInsert(s) == InternKnown(s) \/ InternNew(s) \/ InternFull(s)

(* Mutant: the newest id is refused. *)
Get_OffByOne(id) ==
  /\ reply' = IF id # 0 /\ id < count /\ InBounds(id)
              THEN Reply("symbol", values[id], id)
              ELSE Reply("BadSymbol", "none", id)
  /\ UNCHANGED <<count, slots, values>>

(* get: ids start at 1 and end at the count. *)
Get(id) ==
  /\ reply' = IF id # 0 /\ id =< count /\ InBounds(id)
              THEN Reply("symbol", values[id], id)
              ELSE Reply("BadSymbol", "none", id)
  /\ UNCHANGED <<count, slots, values>>

Next ==
  \/ \E s \in Symbol : GetOrInsert(s)
  \/ \E id \in Ids : Get(id)

Spec == Init /\ [][Next]_vars
-----------------------------------------------------------------------------
(* The count, the slots and the symbols stored stay of their types: a slot *)
(* that took anything but an id would send the probe to a foreign block.   *)
TypeOK ==
  /\ count \in Nat
  /\ slots \in [SlotIndex -> Nat]
  /\ values \in [Position -> Symbol \union {NoSymbol}]

(* Every slot holds 0 or a valid id, and every id sits in exactly one slot. *)
Dense ==
  /\ \A i \in SlotIndex : slots[i] =< count
  /\ \A id \in 1 .. count : \E i \in SlotIndex : slots[i] = id
  /\ \A i, j \in SlotIndex : slots[i] # 0 /\ slots[i] = slots[j] => i = j

(* get_or_insert bumps the count and claims the slot before it checks that *)
(* the value fits (mem.rs:488-498): no id may ever lie outside the block,  *)
(* for any DataLen, or the table is left half-updated.                     *)
NeverHalfUpdated ==
  /\ \A id \in 1 .. count : InBounds(id) /\ values[id] \in Symbol
  /\ reply.kind # "OutOfBounds"

(* The probe sequence of an interned symbol meets no free slot before its  *)
(* own: linear probing finds it again whatever was inserted since.         *)
Reachable ==
  \A i \in SlotIndex : slots[i] # 0 =>
    LET s == values[slots[i]]
    IN  \E k \in SlotIndex :
          /\ Slot(s, k) = i
          /\ \A j \in 0 .. k - 1 : slots[Slot(s, j)] # 0

(* No two ids stand for the same symbol (words are compared by id). *)
NoAlias ==
  \A a, b \in 1 .. count : values[a] = values[b] => a = b

(* The refinement: the table is an interning of its value positions. *)
Abstract == INSTANCE Interning WITH
  Capacity <- NumSlots,
  names    <- [id \in 1 .. count |-> values[id]]

(* Interning, as its callers see it, is what the hash table implements:    *)
(* ids are dense, stable and injective, read-back returns the symbol       *)
(* interned, and a symbol is refused only when every slot is taken.        *)
ImplementsInterning == Abstract!Spec
=============================================================================
