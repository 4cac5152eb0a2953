------------------------- MODULE SymbolTableProofs -------------------------
(***************************************************************************)
(* Theorems about SymbolTable, for every DataLen, every set of symbols and *)
(* every hash function.                                                    *)
(***************************************************************************)
EXTENDS SymbolTable, FiniteSetTheorems, SequenceTheorems, TLAPS

(* The inductive invariant.  Dense and Reachable carry the argument:       *)
(* Reachable is what makes a probe that stops at a free slot a proof that  *)
(* the symbol is not in the table.                                         *)
Filled == \A id \in 1 .. count : id \in Position /\ values[id] \in Symbol

IInv == TypeOK /\ Dense /\ Filled /\ Reachable /\ NoAlias

-----------------------------------------------------------------------------
(* Arithmetic of the layout.                                               *)

(* A slot and its position take nine words: all slots fit in the data. *)
LEMMA NumSlotsType == NumSlots \in Nat /\ 9 * NumSlots =< DataLen
BY DataLenAssumption DEF NumSlots

(* A position up to the number of slots lies inside the block. *)
LEMMA Fits ==
  ASSUME NEW pos \in 1 .. NumSlots
  PROVE  InBounds(pos) /\ pos \in Position
BY NumSlotsType, DataLenAssumption DEF InBounds, Position

(* A probe never leaves the lookup words. *)
LEMMA SlotType ==
  ASSUME NEW s \in Symbol, NEW k \in SlotIndex
  PROVE  Slot(s, k) \in SlotIndex
<1>1. Hash[s] \in Nat
  BY HashAssumption
<1>2. k \in Nat /\ NumSlots \in Nat \ {0}
  BY NumSlotsType DEF SlotIndex
<1>3. Hash[s] + k \in Nat
  BY <1>1, <1>2
<1> QED
  BY <1>2, <1>3 DEF Slot, SlotIndex

(* While some slot is free the ids in use are fewer than the slots: each   *)
(* id has a slot of its own, and none of them is the free one.             *)
LEMMA RoomForOne ==
  ASSUME TypeOK, Dense, NEW free \in SlotIndex, slots[free] = 0
  PROVE  count + 1 =< NumSlots
<1> DEFINE Used == SlotIndex \ {free}
           f == [id \in 1 .. count |-> CHOOSE i \in SlotIndex : slots[i] = id]
<1>1. \A id \in 1 .. count : f[id] \in SlotIndex /\ slots[f[id]] = id
  BY DEF Dense
<1>2. f \in [1 .. count -> Used]
  BY <1>1
<1>3. \A a, b \in 1 .. count : f[a] = f[b] => a = b
  BY <1>1
<1>4. f \in Injection(1 .. count, Used)
  BY <1>2, <1>3 DEF Injection, IsInjective
<1>5. /\ IsFiniteSet(SlotIndex)
      /\ Cardinality(SlotIndex) = NumSlots
  <2>1. 0 \in Int /\ NumSlots - 1 \in Int /\ NumSlots \in Nat
    BY NumSlotsType
  <2>2. /\ IsFiniteSet(0 .. NumSlots - 1)
        /\ Cardinality(0 .. NumSlots - 1)
             = IF 0 > NumSlots - 1 THEN 0 ELSE NumSlots - 1 - 0 + 1
    BY ONLY <2>1, FS_Interval
  <2> QED
    BY <2>1, <2>2 DEF SlotIndex
<1>6. IsFiniteSet(Used) /\ Cardinality(Used) = NumSlots - 1
  BY <1>5, FS_RemoveElement
<1>7. Cardinality(1 .. count) =< Cardinality(Used)
  BY <1>4, <1>6, FS_Injection
<1>8. Cardinality(1 .. count) = count
  BY FS_Interval DEF TypeOK
<1> HIDE DEF Used
<1> QED
  BY <1>6, <1>7, <1>8, NumSlotsType DEF TypeOK

(* A symbol already in the table stops its own probe at its own slot, and  *)
(* nothing earlier is free: a probe that first stops at a free slot means  *)
(* that the symbol is new.                                                 *)
LEMMA FreeMeansNew ==
  ASSUME IInv, NEW s \in Symbol, NEW k \in SlotIndex,
         StopsFirstAt(s, k), slots[Slot(s, k)] = 0
  PROVE  \A id \in 1 .. count : values[id] # s
<1> SUFFICES ASSUME NEW id \in 1 .. count, values[id] = s
             PROVE  FALSE
  OBVIOUS
<1>1. PICK i \in SlotIndex : slots[i] = id
  BY DEF IInv, Dense
<1>2. slots[i] # 0
  BY <1>1 DEF IInv, TypeOK
<1>3. PICK m \in SlotIndex : /\ Slot(s, m) = i
                             /\ \A j \in 0 .. m - 1 : slots[Slot(s, j)] # 0
  BY <1>1, <1>2 DEF IInv, Reachable
<1>4. StopsAt(s, m)
  BY <1>1, <1>3 DEF StopsAt
<1>5. k \in Nat /\ m \in Nat
  BY DEF SlotIndex
<1>6. CASE m < k
  <2>1. m \in 0 .. k - 1
    BY <1>5, <1>6
  <2> QED
    BY <2>1, <1>4 DEF StopsFirstAt
<1>7. CASE k < m
  <2>1. k \in 0 .. m - 1
    BY <1>5, <1>7
  <2> QED
    BY <2>1, <1>3
<1>8. CASE k = m
  BY <1>8, <1>3, <1>2
<1> QED
  BY <1>5, <1>6, <1>7, <1>8
-----------------------------------------------------------------------------
(* The invariant holds initially and is preserved by each operation.       *)

(* The zeroed table of SymbolTable::init satisfies the invariant. *)
LEMMA InitIInv == Init => IInv
<1> SUFFICES ASSUME Init PROVE IInv
  OBVIOUS
<1>1. TypeOK
  BY DEF Init, TypeOK
<1>2. Dense /\ Filled /\ Reachable /\ NoAlias
  BY <1>1 DEF Init, Dense, Filled, Reachable, NoAlias
<1> QED
  BY <1>1, <1>2 DEF IInv

(* A step that leaves the three tables alone. *)
LEMMA FrameIInv ==
  ASSUME IInv, UNCHANGED <<count, slots, values>>
  PROVE  IInv'
BY DEF IInv, TypeOK, Dense, Filled, Reachable, NoAlias

(* get_or_insert of a new symbol: count, slot and position change at once. *)
LEMMA NewIInv ==
  ASSUME IInv, NEW s \in Symbol, InternNew(s)
  PROVE  IInv'
<1>1. PICK k \in SlotIndex :
        /\ StopsFirstAt(s, k)
        /\ slots[Slot(s, k)] = 0
        /\ count' = count + 1
        /\ slots' = [slots EXCEPT ![Slot(s, k)] = count + 1]
        /\ values' = IF InBounds(count + 1)
                     THEN [values EXCEPT ![count + 1] = s] ELSE values
  BY DEF InternNew
<1> DEFINE i == Slot(s, k)
<1>2. i \in SlotIndex
  BY SlotType
<1>3. count \in Nat /\ count + 1 =< NumSlots
  BY <1>1, <1>2, RoomForOne DEF IInv, TypeOK
<1>4. InBounds(count + 1) /\ count + 1 \in Position
  BY <1>3, Fits
<1>5. values' = [values EXCEPT ![count + 1] = s]
  BY <1>1, <1>4
<1>6. slots' = [slots EXCEPT ![i] = count + 1] /\ slots[i] = 0
  BY <1>1
<1>7. count' = count + 1
  BY <1>1
<1> HIDE DEF i
<1>8. TypeOK'
  <2>1. count' \in Nat
    BY <1>3, <1>7
  <2>2. slots' \in [SlotIndex -> Nat]
    <3>1. slots \in [SlotIndex -> Nat] /\ count + 1 \in Nat
      BY <1>3 DEF IInv, TypeOK
    <3> QED
      BY ONLY <3>1, <1>6
  <2>3. values' \in [Position -> Symbol \union {NoSymbol}]
    BY <1>5 DEF IInv, TypeOK
  <2> QED
    BY <2>1, <2>2, <2>3 DEF TypeOK
<1>9. \A j \in SlotIndex : slots'[j] = IF j = i THEN count + 1 ELSE slots[j]
  BY <1>2, <1>6 DEF IInv, TypeOK
<1>10. Dense'
  <2>1. \A j \in SlotIndex : slots'[j] =< count'
    BY <1>3, <1>7, <1>9 DEF IInv, TypeOK, Dense
  <2>2. \A id \in 1 .. count' : \E j \in SlotIndex : slots'[j] = id
    <3> SUFFICES ASSUME NEW id \in 1 .. count + 1
                 PROVE  \E j \in SlotIndex : slots'[j] = id
      BY <1>7
    <3>1. CASE id = count + 1
      BY <3>1, <1>2, <1>9
    <3>2. CASE id # count + 1
      <4>1. id \in 1 .. count
        BY <3>2, <1>3
      <4>2. PICK j \in SlotIndex : slots[j] = id
        BY <4>1 DEF IInv, Dense
      <4>3. j # i
        BY <4>1, <4>2, <1>6
      <4> QED
        BY <4>2, <4>3, <1>9
    <3> QED
      BY <3>1, <3>2
  <2>3. \A j, m \in SlotIndex : slots'[j] # 0 /\ slots'[j] = slots'[m] => j = m
    BY <1>3, <1>9 DEF IInv, TypeOK, Dense
  <2> QED
    BY <2>1, <2>2, <2>3 DEF Dense
<1>11. \A p \in Position : values'[p] = IF p = count + 1 THEN s ELSE values[p]
  BY <1>4, <1>5 DEF IInv, TypeOK
<1>12. Filled'
  BY <1>3, <1>4, <1>7, <1>11 DEF IInv, Filled
<1>13. Reachable'
  <2> SUFFICES ASSUME NEW j \in SlotIndex, slots'[j] # 0
               PROVE  \E m \in SlotIndex :
                        /\ Slot(values'[slots'[j]], m) = j
                        /\ \A n \in 0 .. m - 1 :
                             slots'[Slot(values'[slots'[j]], n)] # 0
    BY DEF Reachable, Slot
  <2>1. CASE j = i
    <3>1. values'[slots'[j]] = s
      BY <2>1, <1>4, <1>9, <1>11
    <3>2. \A n \in 0 .. k - 1 : slots'[Slot(s, n)] # 0
      <4> SUFFICES ASSUME NEW n \in 0 .. k - 1
                   PROVE  slots'[Slot(s, n)] # 0
        OBVIOUS
      <4>1. n \in SlotIndex
        BY NumSlotsType DEF SlotIndex
      <4>2. slots[Slot(s, n)] # 0
        BY <1>1 DEF StopsFirstAt, StopsAt
      <4>3. Slot(s, n) \in SlotIndex
        BY <4>1, SlotType
      <4> QED
        BY <4>2, <4>3, <1>3, <1>9
    <3> QED
      BY <3>1, <3>2, <2>1 DEF i
  <2>2. CASE j # i
    <3> DEFINE t == values[slots[j]]
    <3>1. slots'[j] = slots[j] /\ slots[j] # 0
      BY <2>2, <1>9
    <3>2. slots[j] \in 1 .. count
      BY <3>1, <1>3 DEF IInv, TypeOK, Dense
    <3>3. slots[j] \in Position /\ t \in Symbol
      BY <3>2 DEF IInv, Filled
    <3>4. values'[slots'[j]] = t
      BY <3>1, <3>2, <3>3, <1>3, <1>11
    <3>5. PICK m \in SlotIndex : /\ Slot(t, m) = j
                                 /\ \A n \in 0 .. m - 1 : slots[Slot(t, n)] # 0
      BY <3>1 DEF IInv, Reachable
    <3> HIDE DEF t
    <3>6. \A n \in 0 .. m - 1 : slots'[Slot(t, n)] # 0
      <4> SUFFICES ASSUME NEW n \in 0 .. m - 1
                   PROVE  slots'[Slot(t, n)] # 0
        OBVIOUS
      <4>1. n \in SlotIndex
        BY NumSlotsType DEF SlotIndex
      <4>2. Slot(t, n) \in SlotIndex
        BY <4>1, <3>3, SlotType
      <4> QED
        BY <4>2, <3>5, <1>3, <1>9
    <3> QED
      BY <3>4, <3>5, <3>6
  <2> QED
    BY <2>1, <2>2
<1>14. NoAlias'
  <2>1. \A id \in 1 .. count : values[id] # s /\ values'[id] = values[id]
    BY <1>1, <1>3, <1>6, <1>11, FreeMeansNew DEF IInv, Filled, i
  <2>2. values'[count + 1] = s
    BY <1>4, <1>11
  <2> SUFFICES ASSUME NEW a \in 1 .. count + 1, NEW b \in 1 .. count + 1,
                      values'[a] = values'[b]
               PROVE  a = b
    BY <1>7 DEF NoAlias
  <2>3. CASE a = count + 1 \/ b = count + 1
    BY <2>1, <2>2, <2>3, <1>3
  <2>4. CASE a # count + 1 /\ b # count + 1
    <3>1. a \in 1 .. count /\ b \in 1 .. count
      BY <2>4, <1>3
    <3> QED
      BY <3>1, <2>1 DEF IInv, NoAlias
  <2> QED
    BY <2>3, <2>4
<1> QED
  BY <1>8, <1>10, <1>12, <1>13, <1>14 DEF IInv

(* Every call keeps the invariant: only an insertion changes the table. *)
LEMMA StepIInv == IInv /\ [Next]_vars => IInv'
<1> SUFFICES ASSUME IInv, [Next]_vars PROVE IInv'
  OBVIOUS
<1>1. ASSUME NEW s \in Symbol, InternKnown(s) PROVE IInv'
  BY <1>1, FrameIInv DEF InternKnown
<1>2. ASSUME NEW s \in Symbol, InternNew(s) PROVE IInv'
  BY <1>2, NewIInv
<1>3. ASSUME NEW s \in Symbol, InternFull(s) PROVE IInv'
  BY <1>3, FrameIInv DEF InternFull
<1>4. ASSUME NEW id \in Ids, Get(id) PROVE IInv'
  BY <1>4, FrameIInv DEF Get
<1>5. CASE UNCHANGED vars
  BY <1>5, FrameIInv DEF vars
<1> QED
  BY <1>1, <1>2, <1>3, <1>4, <1>5 DEF Next, GetOrInsert

(* So it holds in every state that calls can reach. *)
LEMMA Invariance == Spec => []IInv
BY InitIInv, StepIInv, PTL DEF Spec

-----------------------------------------------------------------------------
(* The shape of the table never breaks: the count, the lookup words and    *)
(* the stored values keep their types whatever is interned or read.        *)
THEOREM TypeCorrect == Spec => []TypeOK
BY Invariance, PTL DEF IInv

(* Two ids never stand for one symbol, for every hash function: comparing  *)
(* words by id, as the interpreter does, compares their names.             *)
THEOREM IdsAreUnique == Spec => []NoAlias
BY Invariance, PTL DEF IInv

(* Ids are dense: each from 1 to the count has exactly one slot, and no    *)
(* slot holds anything else.                                               *)
THEOREM IdsAreDense == Spec => []Dense
BY Invariance, PTL DEF IInv

(* Linear probing finds every interned symbol again, for every hash        *)
(* function and every order of insertions.                                 *)
THEOREM ProbeFindsIt == Spec => []Reachable
BY Invariance, PTL DEF IInv

(* get_or_insert never reports OutOfBounds, and never leaves an id whose   *)
(* value lies outside the block: claiming the count and the slot before    *)
(* the bounds check is harmless for every size of the block.               *)
THEOREM NoHalfUpdate == Spec => []NeverHalfUpdated
<1>1. Init => NeverHalfUpdated
  BY DEF Init, NeverHalfUpdated, Reply
<1>2. ASSUME IInv, IInv', NeverHalfUpdated, [Next]_vars
      PROVE  NeverHalfUpdated'
  <2>1. \A id \in 1 .. count' : InBounds(id) /\ values'[id] \in Symbol
    BY <1>2 DEF IInv, Filled, Position
  <2>2. ASSUME NEW s \in Symbol, InternKnown(s) PROVE reply'.kind # "OutOfBounds"
    <3>1. PICK k \in SlotIndex : LET pos == slots[Slot(s, k)]
             IN  /\ pos # 0
                 /\ reply' = IF InBounds(pos) THEN Reply("interned", s, pos)
                                              ELSE Reply("OutOfBounds", s, 0)
      BY <2>2 DEF InternKnown
    <3>2. slots[Slot(s, k)] \in 1 .. count
      BY <1>2, <3>1, SlotType DEF IInv, TypeOK, Dense
    <3>3. InBounds(slots[Slot(s, k)])
      BY <1>2, <3>2 DEF IInv, Filled, Position
    <3> QED
      BY <3>1, <3>3 DEF Reply
  <2>3. ASSUME NEW s \in Symbol, InternNew(s) PROVE reply'.kind # "OutOfBounds"
    <3>1. PICK k \in SlotIndex :
            /\ slots[Slot(s, k)] = 0
            /\ reply' = IF InBounds(count + 1) THEN Reply("interned", s, count + 1)
                                               ELSE Reply("OutOfBounds", s, 0)
      BY <2>3 DEF InternNew
    <3>2. count + 1 \in 1 .. NumSlots
      BY <1>2, <3>1, SlotType, RoomForOne, NumSlotsType DEF IInv, TypeOK
    <3> QED
      BY <3>1, <3>2, Fits DEF Reply
  <2>4. ASSUME NEW s \in Symbol, InternFull(s) PROVE reply'.kind # "OutOfBounds"
    BY <2>4 DEF InternFull, Reply
  <2>5. ASSUME NEW id \in Ids, Get(id) PROVE reply'.kind # "OutOfBounds"
    BY <2>5 DEF Get, Reply
  <2>6. CASE UNCHANGED vars
    BY <1>2, <2>6 DEF vars, NeverHalfUpdated
  <2> QED
    BY <1>2, <2>1, <2>2, <2>3, <2>4, <2>5, <2>6
       DEF Next, GetOrInsert, NeverHalfUpdated
<1> QED
  BY <1>1, <1>2, Invariance, PTL DEF Spec

-----------------------------------------------------------------------------
(* The refinement.                                                         *)

(* A remainder stays what it is when multiples of the divisor are added.   *)
LEMMA ModOfSum ==
  ASSUME NEW n \in Nat \ {0}, NEW q \in Nat, NEW r \in 0 .. n - 1
  PROVE  (q * n + r) % n = r
OBVIOUS

(* Linear probing looks at every slot. *)
LEMMA ProbeCovers ==
  ASSUME NEW s \in Symbol, NEW i \in SlotIndex
  PROVE  \E k \in SlotIndex : Slot(s, k) = i
<1>1. Hash[s] \in Nat
  BY HashAssumption
<1> DEFINE n == NumSlots
           h == Hash[s]
           q == h \div n
           r == h % n
<1>2. n \in Nat \ {0} /\ i \in 0 .. n - 1
  BY NumSlotsType DEF SlotIndex
<1>3. q \in Nat /\ r \in 0 .. n - 1 /\ h = q * n + r
  BY <1>1, <1>2
<1> HIDE DEF n, h, q, r
<1>4. CASE r =< i
  <2>1. i - r \in 0 .. n - 1 /\ h + (i - r) = q * n + i
    BY <1>2, <1>3, <1>4
  <2>2. (h + (i - r)) % n = i
    BY <2>1, <1>2, <1>3, ModOfSum
  <2> QED
    BY <2>1, <2>2 DEF Slot, SlotIndex, n, h
<1>5. CASE r > i
  <2>1. (i - r) + n \in 0 .. n - 1 /\ h + ((i - r) + n) = (q + 1) * n + i
    BY <1>2, <1>3, <1>5
  <2>2. (h + ((i - r) + n)) % n = i
    BY <2>1, <1>2, <1>3, ModOfSum
  <2> QED
    BY <2>1, <2>2 DEF Slot, SlotIndex, n, h
<1> QED
  BY <1>2, <1>3, <1>4, <1>5

(* When no probe stops, every slot is taken, so the table is full. *)
LEMMA NoStopMeansFull ==
  ASSUME IInv, NEW s \in Symbol, \A k \in SlotIndex : ~StopsAt(s, k)
  PROVE  NumSlots =< count
<1>1. \A i \in SlotIndex : slots[i] # 0
  <2> SUFFICES ASSUME NEW i \in SlotIndex PROVE slots[i] # 0
    OBVIOUS
  <2>1. PICK k \in SlotIndex : Slot(s, k) = i
    BY ProbeCovers
  <2> QED
    BY <2>1 DEF StopsAt
<1>2. slots \in [SlotIndex -> 1 .. count]
  BY <1>1 DEF IInv, TypeOK, Dense
<1>3. slots \in Injection(SlotIndex, 1 .. count)
  BY <1>1, <1>2 DEF IInv, Dense, Injection, IsInjective
<1>4. count \in Nat /\ 0 \in Int /\ 1 \in Int /\ count \in Int
      /\ NumSlots \in Nat /\ NumSlots - 1 \in Int
  BY NumSlotsType DEF IInv, TypeOK
<1>5. IsFiniteSet(1 .. count) /\ Cardinality(1 .. count) = count
  BY <1>4, FS_Interval
<1>6. Cardinality(SlotIndex) = NumSlots
  <2>1. Cardinality(0 .. NumSlots - 1)
          = IF 0 > NumSlots - 1 THEN 0 ELSE NumSlots - 1 - 0 + 1
    BY ONLY <1>4, FS_Interval
  <2> QED
    BY <2>1, <1>4 DEF SlotIndex
<1>7. Cardinality(SlotIndex) =< Cardinality(1 .. count)
  BY <1>3, <1>5, FS_Injection
<1> QED
  BY <1>5, <1>6, <1>7

(* The abstract list of names, as the refinement maps it. *)
Names == [id \in 1 .. count |-> values[id]]

(* The abstract list is a list of symbols, one for each id. *)
LEMMA NamesType ==
  ASSUME IInv
  PROVE  /\ Names \in Seq(Symbol)
         /\ Len(Names) = count
         /\ DOMAIN Names = 1 .. count
         /\ \A id \in 1 .. count : Names[id] = values[id]
<1>1. count \in Nat
  BY DEF IInv, TypeOK
<1>2. \A id \in 1 .. count : values[id] \in Symbol
  BY DEF IInv, Filled
<1> QED
  BY <1>1, <1>2 DEF Names

(* A call that finds its symbol is the abstract Known. *)
LEMMA KnownStep ==
  ASSUME IInv, NEW s \in Symbol, InternKnown(s)
  PROVE  Abstract!Known(s)
<1>1. PICK k \in SlotIndex : LET pos == slots[Slot(s, k)]
         IN  /\ StopsAt(s, k)
             /\ pos # 0
             /\ reply' = IF InBounds(pos) THEN Reply("interned", s, pos)
                                          ELSE Reply("OutOfBounds", s, 0)
             /\ UNCHANGED <<count, slots, values>>
  BY DEF InternKnown, StopsFirstAt
<1> DEFINE pos == slots[Slot(s, k)]
<1>2. pos \in 1 .. count
  BY <1>1, SlotType DEF IInv, TypeOK, Dense
<1>3. InBounds(pos)
  BY <1>2 DEF IInv, Filled, Position
<1>4. values[pos] = s
  BY <1>1, <1>3 DEF StopsAt
<1>5. reply' = Reply("interned", s, pos) /\ Names' = Names
  BY <1>1, <1>3 DEF Names
<1> HIDE DEF pos
<1>6. pos \in DOMAIN Names /\ Names[pos] = s
  BY <1>2, <1>4, NamesType
<1> QED
  BY <1>5, <1>6 DEF Abstract!Known, Abstract!Reply, Reply, Names

(* A call that inserts its symbol is the abstract Fresh. *)
LEMMA FreshStep ==
  ASSUME IInv, IInv', NEW s \in Symbol, InternNew(s)
  PROVE  Abstract!Fresh(s)
<1>1. PICK k \in SlotIndex :
        /\ StopsFirstAt(s, k)
        /\ slots[Slot(s, k)] = 0
        /\ count' = count + 1
        /\ values' = IF InBounds(count + 1)
                     THEN [values EXCEPT ![count + 1] = s] ELSE values
        /\ reply' = IF InBounds(count + 1) THEN Reply("interned", s, count + 1)
                                           ELSE Reply("OutOfBounds", s, 0)
  BY DEF InternNew
<1>2. count \in Nat /\ count + 1 \in 1 .. NumSlots
  BY <1>1, SlotType, RoomForOne, NumSlotsType DEF IInv, TypeOK
<1>3. InBounds(count + 1) /\ count + 1 \in Position
  BY <1>2, Fits
<1>4. /\ values' = [values EXCEPT ![count + 1] = s]
      /\ reply' = Reply("interned", s, count + 1)
  BY <1>1, <1>3
<1>5. \A id \in 1 .. count : Names[id] # s
  BY <1>1, FreeMeansNew, NamesType
<1>6. Names' = Append(Names, s)
  <2>1. Names' = [id \in 1 .. count + 1 |-> IF id = count + 1 THEN s ELSE values[id]]
    <3>1. Names' = [id \in 1 .. count + 1 |-> values'[id]]
      BY <1>1 DEF Names
    <3>2. \A id \in 1 .. count + 1 :
             values'[id] = IF id = count + 1 THEN s ELSE values[id]
      <4> SUFFICES ASSUME NEW id \in 1 .. count + 1
                   PROVE  values'[id] = IF id = count + 1 THEN s ELSE values[id]
        OBVIOUS
      <4>1. CASE id = count + 1
        BY <4>1, <1>3, <1>4 DEF IInv, TypeOK
      <4>2. CASE id # count + 1
        <5>1. id \in 1 .. count
          BY <4>2, <1>2
        <5> QED
          BY <5>1, <4>2, <1>4 DEF IInv, TypeOK, Filled
      <4> QED
        BY <4>1, <4>2
    <3> QED
      BY <3>1, <3>2
  <2>2. Names \in Seq(Symbol) /\ Len(Names) = count
    BY NamesType
  <2>3. Append(Names, s) = [id \in 1 .. count + 1 |->
                              IF id = count + 1 THEN s ELSE Names[id]]
    <3>1. /\ Append(Names, s) \in Seq(Symbol)
          /\ Len(Append(Names, s)) = count + 1
          /\ \A id \in 1 .. count : Append(Names, s)[id] = Names[id]
          /\ Append(Names, s)[count + 1] = s
      BY <2>2, AppendProperties
    <3>2. /\ DOMAIN Append(Names, s) = 1 .. count + 1
          /\ Append(Names, s)
               = [id \in DOMAIN Append(Names, s) |-> Append(Names, s)[id]]
      BY <3>1, LenProperties
    <3>3. \A id \in 1 .. count + 1 :
             Append(Names, s)[id] = IF id = count + 1 THEN s ELSE Names[id]
      BY <3>1, <1>2
    <3> HIDE DEF Names
    <3> QED
      BY <3>2, <3>3
  <2>4. \A id \in 1 .. count + 1 : id # count + 1 => Names[id] = values[id]
    BY <1>2, NamesType
  <2> QED
    BY <2>1, <2>3, <2>4
<1>7. /\ \A id \in DOMAIN Names : Names[id] # s
      /\ Len(Names) < NumSlots
      /\ Names' = Append(Names, s)
      /\ reply' = Abstract!Reply("interned", s, Len(Names) + 1)
  <2>1. DOMAIN Names = 1 .. count /\ Len(Names) = count
    BY NamesType
  <2>2. count < NumSlots
    BY <1>2, NumSlotsType
  <2> QED
    BY <1>4, <1>5, <1>6, <2>1, <2>2 DEF Abstract!Reply, Reply
<1> QED
  BY <1>7 DEF Abstract!Fresh, Names

(* A call that finds no slot is the abstract Refused. *)
LEMMA RefusedStep ==
  ASSUME IInv, NEW s \in Symbol, InternFull(s)
  PROVE  Abstract!Refused(s)
<1>1. \A k \in SlotIndex : ~StopsAt(s, k)
  BY DEF InternFull
<1>2. NumSlots =< count
  BY <1>1, NoStopMeansFull
<1>3. \A id \in 1 .. count : values[id] # s
  <2> SUFFICES ASSUME NEW id \in 1 .. count, values[id] = s PROVE FALSE
    OBVIOUS
  <2>1. PICK i \in SlotIndex : slots[i] = id
    BY DEF IInv, Dense
  <2>2. PICK k \in SlotIndex : Slot(s, k) = i
    BY ProbeCovers
  <2>3. StopsAt(s, k)
    BY <2>1, <2>2 DEF StopsAt
  <2> QED
    BY <2>3, <1>1
<1>4. Names' = Names /\ reply' = Reply("SymbolTableFull", s, 0)
  BY DEF InternFull, Names
<1> QED
  BY <1>2, <1>3, <1>4, NamesType
     DEF Abstract!Refused, Abstract!Reply, Reply, Names

(* Reading a symbol by its id is the abstract ReadBack. *)
LEMMA ReadBackStep ==
  ASSUME IInv, NEW id \in Ids, Get(id)
  PROVE  Abstract!ReadBack(id)
<1>1. id \in Nat /\ count \in Nat
  BY IdsAssumption DEF IInv, TypeOK
<1>2. (id # 0 /\ id =< count /\ InBounds(id)) <=> id \in 1 .. count
  BY <1>1 DEF IInv, Filled, Position
<1>3. Names' = Names
  BY DEF Get, Names
<1>4. reply' = IF id \in DOMAIN Names THEN Reply("symbol", Names[id], id)
                                     ELSE Reply("BadSymbol", "none", id)
  BY <1>2, NamesType DEF Get
<1> QED
  BY <1>3, <1>4 DEF Abstract!ReadBack, Abstract!Reply, Reply, Names

(* The hash table implements an interning map: ids are given in order, are *)
(* never changed and never shared, read-back returns what was interned,    *)
(* and SymbolTableFull is answered only when NumSlots symbols are held.    *)
THEOREM Refinement == Spec => ImplementsInterning
<1>1. Init => Abstract!Init
  BY DEF Init, Abstract!Init, Abstract!Reply, Reply
<1>2. ASSUME IInv, IInv', [Next]_vars
      PROVE  [Abstract!Next]_(Abstract!vars)
  <2>1. ASSUME NEW s \in Symbol, InternKnown(s) PROVE Abstract!Next
    BY <1>2, <2>1, KnownStep DEF Abstract!Next
  <2>2. ASSUME NEW s \in Symbol, InternNew(s) PROVE Abstract!Next
    BY <1>2, <2>2, FreshStep DEF Abstract!Next
  <2>3. ASSUME NEW s \in Symbol, InternFull(s) PROVE Abstract!Next
    BY <1>2, <2>3, RefusedStep DEF Abstract!Next
  <2>4. ASSUME NEW id \in Ids, Get(id) PROVE Abstract!Next
    BY <1>2, <2>4, ReadBackStep DEF Abstract!Next
  <2>5. CASE UNCHANGED vars
    BY <2>5 DEF vars, Abstract!vars
  <2> QED
    BY <1>2, <2>1, <2>2, <2>3, <2>4, <2>5 DEF Next, GetOrInsert
<1> QED
  BY <1>1, <1>2, Invariance, PTL DEF Spec, ImplementsInterning, Abstract!Spec
=============================================================================
