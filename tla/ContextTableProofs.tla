------------------------- MODULE ContextTableProofs -------------------------
(***************************************************************************)
(* Theorems about ContextTable, for every set of symbols and of values,    *)
(* every hash function, every size and every width of the header word.     *)
(***************************************************************************)
EXTENDS ContextTable, FiniteSetTheorems, WellFoundedInduction, TLAPS

(* The inductive invariant.  Reachable makes a probe that stops at a free  *)
(* entry a proof that the symbol has none; CountExact keeps the count      *)
(* below the seal bit, so that only seal sets it.                          *)
IInv == TypeOK /\ CountExact /\ OneEntryPerSymbol /\ Reachable

-----------------------------------------------------------------------------
(* The entries of a context.                                               *)

(* A context has finitely many entries, fewer than the seal bit. *)
LEMMA CapacityType ==
  ASSUME TypeOK
  PROVE  /\ cap \in Nat /\ cap < SealBit
         /\ IsFiniteSet(Index) /\ Cardinality(Index) = cap
<1>1. cap \in Nat /\ cap < SealBit
  BY SizesAssumption, SealBitAssumption DEF TypeOK
<1>2. 0 \in Int /\ cap - 1 \in Int
  BY <1>1
<1>3. /\ IsFiniteSet(0 .. cap - 1)
      /\ Cardinality(0 .. cap - 1) = IF 0 > cap - 1 THEN 0 ELSE cap - 1 - 0 + 1
  BY ONLY <1>2, FS_Interval
<1> QED
  BY <1>1, <1>3 DEF Index

(* So are the entries in use. *)
LEMMA UsedType ==
  ASSUME TypeOK
  PROVE  /\ IsFiniteSet(Used)
         /\ Cardinality(Used) \in Nat
         /\ Cardinality(Used) =< cap
         /\ Cardinality(Used) = cap => Used = Index
<1>1. Used \in SUBSET Index
  BY DEF Used
<1>2. IsFiniteSet(Index) /\ Cardinality(Index) = cap
  BY CapacityType
<1>3. IsFiniteSet(Used) /\ Cardinality(Used) =< cap
      /\ (Cardinality(Used) = cap => Used = Index)
  BY <1>1, <1>2, FS_Subset
<1> QED
  BY <1>3, FS_CardinalityType

(* A probe never leaves the entries. *)
LEMMA SlotType ==
  ASSUME TypeOK, NEW s \in Symbol, NEW k \in Index
  PROVE  Slot(s, k) \in Index
<1>1. Hash[s] \in Nat
  BY HashAssumption
<1>2. k \in Nat /\ cap \in Nat \ {0}
  BY CapacityType DEF Index
<1>3. Hash[s] + k \in Nat
  BY <1>1, <1>2
<1> QED
  BY <1>2, <1>3 DEF Slot, Index

(* put stops at a free entry only if the symbol has none of its own: its   *)
(* own entry has no free one before it on the symbol's probe.              *)
LEMMA FreeMeansNew ==
  ASSUME TypeOK, Reachable, NEW s \in Symbol, NEW k \in Index,
         StopsFirstAt(s, k), keys[Slot(s, k)] = 0
  PROVE  \A i \in Used : keys[i] # s
<1> SUFFICES ASSUME NEW i \in Used, keys[i] = s
             PROVE  FALSE
  OBVIOUS
<1>1. PICK m \in Index : /\ Slot(s, m) = i
                         /\ \A j \in 0 .. m - 1 : Slot(s, j) \in Used
  BY DEF Reachable
<1>2. StopsAt(s, m) /\ keys[Slot(s, m)] # 0
  BY <1>1 DEF StopsAt, Used
<1>3. k \in Nat /\ m \in Nat
  BY CapacityType DEF Index
<1>4. CASE m < k
  <2>1. m \in 0 .. k - 1
    BY <1>3, <1>4
  <2> QED
    BY <2>1, <1>2 DEF StopsFirstAt
<1>5. CASE k < m
  <2>1. k \in 0 .. m - 1
    BY <1>3, <1>5
  <2> QED
    BY <2>1, <1>1 DEF Used
<1>6. CASE k = m
  BY <1>6, <1>2
<1> QED
  BY <1>3, <1>4, <1>5, <1>6

-----------------------------------------------------------------------------
(* The invariant holds initially and is preserved by each operation.       *)

(* alloc_context makes a context with no entry in use. *)
LEMMA InitIInv == Init => IInv
<1> SUFFICES ASSUME Init PROVE IInv
  OBVIOUS
<1>1. TypeOK
  BY DEF Init, TypeOK
<1>2. Used = {}
  BY DEF Init, Used
<1>3. CountExact
  BY <1>2, FS_EmptySet, SealBitAssumption DEF Init, CountExact, Count, Sealed
<1>4. OneEntryPerSymbol /\ Reachable
  BY <1>2 DEF OneEntryPerSymbol, Reachable
<1> QED
  BY <1>1, <1>3, <1>4 DEF IInv

(* A step that leaves the block alone. *)
LEMMA FrameIInv ==
  ASSUME IInv, UNCHANGED <<cap, header, keys, vals>>
  PROVE  IInv'
<1>1. Index' = Index
  BY DEF Index
<1>2. Used' = Used
  BY <1>1 DEF Used
<1>3. TypeOK' /\ CountExact'
  BY <1>1, <1>2 DEF IInv, TypeOK, CountExact, Count, Sealed
<1>4. OneEntryPerSymbol' /\ Reachable'
  BY <1>1, <1>2 DEF IInv, OneEntryPerSymbol, Reachable, Slot
<1> QED
  BY <1>3, <1>4 DEF IInv

(* An overwrite puts a value where the symbol's last one was. *)
LEMMA ExistingIInv ==
  ASSUME IInv, NEW s \in Symbol, NEW v \in Value, PutExisting(s, v)
  PROVE  IInv'
<1>1. PICK k \in Index : vals' = [vals EXCEPT ![Slot(s, k)] = v]
  BY DEF PutExisting
<1>2. cap' = cap /\ header' = header /\ keys' = keys
  BY DEF PutExisting
<1>3. Index' = Index /\ Used' = Used
  BY <1>2 DEF Index, Used
<1>4. TypeOK' /\ CountExact' /\ OneEntryPerSymbol'
  BY <1>1, <1>2, <1>3
     DEF IInv, TypeOK, CountExact, Count, Sealed, OneEntryPerSymbol
<1>5. \A i \in Used : vals'[i] \in Value
  BY <1>1 DEF IInv, TypeOK, Reachable, Used
<1>6. Reachable'
  BY <1>2, <1>3, <1>5 DEF IInv, Reachable, Slot
<1> QED
  BY <1>4, <1>6 DEF IInv

(* A new entry: the count, the symbol and the value are written together.  *)
LEMMA NewIInv ==
  ASSUME IInv, NEW s \in Symbol, NEW v \in Value, PutNew(s, v)
  PROVE  /\ IInv'
         /\ ~Sealed /\ ~Sealed'
<1>1. PICK k \in Index :
        /\ StopsFirstAt(s, k)
        /\ keys[Slot(s, k)] = 0
        /\ keys' = [keys EXCEPT ![Slot(s, k)] = s]
        /\ vals' = [vals EXCEPT ![Slot(s, k)] = v]
  BY DEF PutNew
<1>2. cap' = cap /\ ~Sealed /\ header' = Count + 1
  BY DEF PutNew
<1> DEFINE i == Slot(s, k)
<1>3. i \in Index /\ i \notin Used
  BY <1>1, SlotType DEF IInv, Used
<1>4. s # 0
  BY SymbolAssumption
<1>5. TypeOK /\ OneEntryPerSymbol /\ Reachable
  BY DEF IInv
<1>6. \A e \in Used : keys[e] # s
  BY <1>1, <1>5, FreeMeansNew
<1>7. /\ keys' = [keys EXCEPT ![i] = s]
      /\ vals' = [vals EXCEPT ![i] = v]
      /\ \A j \in 0 .. k - 1 : keys[Slot(s, j)] # 0
  BY <1>1 DEF StopsFirstAt, StopsAt
<1>8. Index' = Index
  BY <1>2 DEF Index
<1>9. \A e \in Index : /\ keys'[e] = IF e = i THEN s ELSE keys[e]
                       /\ vals'[e] = IF e = i THEN v ELSE vals[e]
  BY <1>5, <1>7 DEF TypeOK
<1>10. Used' = Used \union {i}
  BY <1>3, <1>4, <1>8, <1>9 DEF Used
<1>11. Cardinality(Used') = Cardinality(Used) + 1
  BY <1>3, <1>5, <1>10, UsedType, FS_AddElement
<1>12. Cardinality(Used) < cap
  BY <1>3, <1>5, UsedType, CapacityType
<1>13. header' = Cardinality(Used) + 1
  BY <1>2 DEF IInv, CountExact
<1>14. ~Sealed'
  BY <1>5, <1>12, <1>13, CapacityType, UsedType, SealBitAssumption DEF Sealed
<1>15. CountExact'
  BY <1>11, <1>13, <1>14 DEF CountExact, Count
<1>16. TypeOK'
  <2>1. header' \in Nat
    BY <1>5, <1>13, UsedType
  <2> QED
    BY <2>1, <1>2, <1>5, <1>7, <1>8 DEF TypeOK
<1>17. OneEntryPerSymbol'
  <2> SUFFICES ASSUME NEW a \in Used', NEW b \in Used', keys'[a] = keys'[b]
               PROVE  a = b
    BY DEF OneEntryPerSymbol
  <2>1. a \in Index /\ b \in Index
    BY <1>8 DEF Used
  <2>2. CASE a = i \/ b = i
    BY <2>1, <2>2, <1>6, <1>9, <1>10
  <2>3. CASE a # i /\ b # i
    BY <2>1, <2>3, <1>5, <1>9, <1>10 DEF OneEntryPerSymbol
  <2> QED
    BY <2>2, <2>3
<1>18. Reachable'
  <2> SUFFICES ASSUME NEW e \in Used'
               PROVE  /\ vals'[e] \in Value
                      /\ \E m \in Index :
                           /\ Slot(keys'[e], m) = e
                           /\ \A j \in 0 .. m - 1 : Slot(keys'[e], j) \in Used'
    BY <1>2, <1>8 DEF Reachable, Slot
  <2>1. CASE e = i
    <3>1. keys'[e] = s /\ vals'[e] = v
      BY <2>1, <1>3, <1>9
    <3>2. \A j \in 0 .. k - 1 : Slot(s, j) \in Used'
      <4> SUFFICES ASSUME NEW j \in 0 .. k - 1 PROVE Slot(s, j) \in Used
        BY <1>10
      <4>1. j \in Index
        BY <1>5, CapacityType DEF Index
      <4> QED
        BY <4>1, <1>5, <1>7, SlotType DEF Used
    <3> QED
      BY <3>1, <3>2, <2>1
  <2>2. CASE e # i
    <3>1. e \in Used /\ keys'[e] = keys[e] /\ vals'[e] = vals[e]
      BY <2>2, <1>9, <1>10 DEF Used
    <3> QED
      BY <3>1, <1>5, <1>10 DEF Reachable
  <2> QED
    BY <2>1, <2>2
<1> QED
  BY <1>2, <1>14, <1>15, <1>16, <1>17, <1>18 DEF IInv

(* seal changes the top bit of the header alone. *)
LEMMA SealIInv ==
  ASSUME IInv, SealContext
  PROVE  IInv' /\ Sealed' /\ Count' = Count
<1>1. cap' = cap /\ keys' = keys /\ vals' = vals
  BY DEF SealContext
<1>2. header' = IF Sealed THEN header ELSE header + SealBit
  BY DEF SealContext
<1>3. Index' = Index /\ Used' = Used
  BY <1>1 DEF Index, Used
<1>4. header' \in Nat /\ Sealed' /\ Count' = Count
  BY <1>2, SealBitAssumption DEF IInv, TypeOK, Sealed, Count
<1>5. TypeOK' /\ CountExact' /\ OneEntryPerSymbol'
  BY <1>1, <1>3, <1>4 DEF IInv, TypeOK, CountExact, OneEntryPerSymbol
<1>6. Reachable'
  BY <1>1, <1>3 DEF IInv, Reachable, Slot
<1> QED
  BY <1>4, <1>5, <1>6 DEF IInv

(* Every call keeps the invariant. *)
LEMMA StepIInv == IInv /\ [Next]_vars => IInv'
<1> SUFFICES ASSUME IInv, [Next]_vars PROVE IInv'
  OBVIOUS
<1>1. ASSUME NEW s \in Symbol, NEW v \in Value, PutExisting(s, v) PROVE IInv'
  BY <1>1, ExistingIInv
<1>2. ASSUME NEW s \in Symbol, NEW v \in Value, PutNew(s, v) PROVE IInv'
  BY <1>2, NewIInv
<1>3. ASSUME NEW s \in Symbol, PutRefused(s) PROVE IInv'
  BY <1>3, FrameIInv DEF PutRefused
<1>4. ASSUME NEW s \in Symbol, Get(s) PROVE IInv'
  BY <1>4, FrameIInv DEF Get
<1>5. CASE SealContext
  BY <1>5, SealIInv
<1>6. CASE Iterate
  BY <1>6, FrameIInv DEF Iterate
<1>7. CASE UNCHANGED vars
  BY <1>7, FrameIInv DEF vars
<1> QED
  BY <1>1, <1>2, <1>3, <1>4, <1>5, <1>6, <1>7 DEF Next, PutEntry

(* So it holds in every state that calls can reach. *)
LEMMA Invariance == Spec => []IInv
BY InitIInv, StepIInv, PTL DEF Spec

-----------------------------------------------------------------------------
(* Header and entries keep their types: no put writes outside its entry.   *)
THEOREM TypeCorrect == Spec => []TypeOK
BY Invariance, PTL DEF IInv

(* The count in the header is the number of entries in use, whatever the   *)
(* hash function, through overwrites, refusals and seals.                  *)
THEOREM CountIsExact == Spec => []CountExact
BY Invariance, PTL DEF IInv

(* put never makes a second entry for a symbol.                            *)
THEOREM OneEntry == Spec => []OneEntryPerSymbol
BY Invariance, PTL DEF IInv

(* Linear probing finds every bound symbol again, and finds a value there. *)
THEOREM ProbeFindsIt == Spec => []Reachable
BY Invariance, PTL DEF IInv

(* seal is final: no later call unseals a context or binds a new symbol in *)
(* it, for every size and every sequence of calls.                         *)
THEOREM SealFinal == Spec => SealIsFinal
<1> DEFINE Step == Sealed => /\ Sealed'
                             /\ {keys'[i] : i \in Used'} = {keys[i] : i \in Used}
<1>1. ASSUME IInv, Next PROVE Step
  <2>1. ASSUME header' = header, keys' = keys, cap' = cap PROVE Step
    BY <2>1 DEF Sealed, Used, Index
  <2>2. ASSUME NEW s \in Symbol, NEW v \in Value, PutExisting(s, v) PROVE Step
    BY <2>1, <2>2 DEF PutExisting
  <2>3. ASSUME NEW s \in Symbol, NEW v \in Value, PutNew(s, v) PROVE Step
    BY <1>1, <2>3, NewIInv
  <2>4. ASSUME NEW s \in Symbol, PutRefused(s) PROVE Step
    BY <2>1, <2>4 DEF PutRefused
  <2>5. ASSUME NEW s \in Symbol, Get(s) PROVE Step
    BY <2>1, <2>5 DEF Get
  <2>6. CASE SealContext
    <3>1. keys' = keys /\ cap' = cap
      BY <2>6 DEF SealContext
    <3>2. Used' = Used
      BY <3>1 DEF Used, Index
    <3> QED
      BY <1>1, <2>6, <3>1, <3>2, SealIInv
  <2>7. CASE Iterate
    BY <2>1, <2>7 DEF Iterate
  <2> HIDE DEF Step
  <2> QED
    BY <1>1, <2>2, <2>3, <2>4, <2>5, <2>6, <2>7 DEF Next, PutEntry
<1>2. ASSUME IInv, [Next]_vars PROVE [Step]_vars
  BY <1>1, <1>2
<1> QED
  BY <1>2, Invariance, PTL DEF Spec, SealIsFinal

-----------------------------------------------------------------------------
(* The refinement: what a probe that does not stop says of the table.      *)

(* The least-number principle, from the well-foundedness of < on Nat.      *)
LEMMA LeastElement ==
  ASSUME NEW T \in SUBSET Nat, T # {}
  PROVE  \E x \in T : \A y \in 0 .. x - 1 : y \notin T
<1> DEFINE R == OpToRel(<, Nat)
<1>1. IsWellFoundedOn(R, Nat)
  BY NatLessThanWellFounded, Zenon
<1>2. \A x, y \in Nat : <<x, y>> \in R <=> x < y
  BY DEF OpToRel
<1> HIDE DEF R
<1>3. PICK x \in T : \A y \in T : ~(<<y, x>> \in R)
  BY <1>1, WFMin, Zenon
<1>4. \A y \in 0 .. x - 1 : y \notin T
  <2> SUFFICES ASSUME NEW y \in 0 .. x - 1, y \in T PROVE FALSE
    OBVIOUS
  <2>1. x \in Nat /\ y \in Nat /\ y < x
    OBVIOUS
  <2>2. <<y, x>> \in R
    BY <2>1, <1>2
  <2> QED
    BY <2>2, <1>3
<1> QED
  BY <1>4

(* A remainder stays what it is when multiples of the divisor are added.   *)
LEMMA ModOfSum ==
  ASSUME NEW n \in Nat \ {0}, NEW q \in Nat, NEW r \in 0 .. n - 1
  PROVE  (q * n + r) % n = r
OBVIOUS

(* Linear probing looks at every entry. *)
LEMMA ProbeCovers ==
  ASSUME TypeOK, NEW s \in Symbol, NEW i \in Index
  PROVE  \E k \in Index : Slot(s, k) = i
<1>1. Hash[s] \in Nat
  BY HashAssumption
<1> DEFINE n == cap
           h == Hash[s]
           q == h \div n
           r == h % n
<1>2. n \in Nat \ {0} /\ i \in 0 .. n - 1
  BY CapacityType DEF Index
<1>3. q \in Nat /\ r \in 0 .. n - 1 /\ h = q * n + r
  BY <1>1, <1>2
<1> HIDE DEF n, h, q, r
<1>4. CASE r =< i
  <2>1. i - r \in 0 .. n - 1 /\ h + (i - r) = q * n + i
    BY <1>2, <1>3, <1>4
  <2>2. (h + (i - r)) % n = i
    BY <2>1, <1>2, <1>3, ModOfSum
  <2> QED
    BY <2>1, <2>2 DEF Slot, Index, n, h
<1>5. CASE r > i
  <2>1. (i - r) + n \in 0 .. n - 1 /\ h + ((i - r) + n) = (q + 1) * n + i
    BY <1>2, <1>3, <1>5
  <2>2. (h + ((i - r) + n)) % n = i
    BY <2>1, <1>2, <1>3, ModOfSum
  <2> QED
    BY <2>1, <2>2 DEF Slot, Index, n, h
<1> QED
  BY <1>2, <1>3, <1>4, <1>5

(* A probe that stops somewhere stops somewhere first. *)
LEMMA FirstStop ==
  ASSUME TypeOK, NEW s \in Symbol, NEW m \in Index, StopsAt(s, m)
  PROVE  \E k \in Index : StopsFirstAt(s, k)
<1> DEFINE T == {j \in Index : StopsAt(s, j)}
<1>1. T \in SUBSET Nat /\ T # {}
  BY CapacityType DEF Index
<1>2. PICK k \in T : \A j \in 0 .. k - 1 : j \notin T
  BY <1>1, LeastElement
<1>3. \A j \in 0 .. k - 1 : j \in Index
  BY CapacityType DEF Index
<1> QED
  BY <1>2, <1>3 DEF StopsFirstAt

-----------------------------------------------------------------------------
(* The map a table stands for.                                             *)

KeySet == {keys[i] : i \in Used}

Bindings == [s \in KeySet |-> vals[EntryAt(s)]]

Ctx == [cap |-> cap, sealed |-> Sealed, entries |-> Bindings]

(* An entry in use is its symbol's binding. *)
EntriesAreBindings ==
  /\ DOMAIN Bindings = KeySet
  /\ \A i \in Used : keys[i] \in KeySet /\ Bindings[keys[i]] = vals[i]

(* One entry per symbol is what makes a table stand for a map... *)
LEMMA BindingsType == OneEntryPerSymbol => EntriesAreBindings
<1> SUFFICES ASSUME OneEntryPerSymbol, NEW i \in Used
             PROVE  keys[i] \in KeySet /\ Bindings[keys[i]] = vals[i]
  BY DEF EntriesAreBindings, Bindings
<1>1. keys[i] \in KeySet
  BY DEF KeySet
<1>2. EntryAt(keys[i]) = i
  BY DEF EntryAt, OneEntryPerSymbol
<1> QED
  BY <1>1, <1>2 DEF Bindings

(* ... before a step and after it. *)
LEMMA NextBindingsType == OneEntryPerSymbol' => EntriesAreBindings'
BY BindingsType, PTL

(* The map has as many keys as the table has entries in use. *)
LEMMA KeySetCardinality ==
  ASSUME IInv
  PROVE  IsFiniteSet(KeySet) /\ Cardinality(KeySet) = Cardinality(Used)
<1> DEFINE f == [i \in Used |-> keys[i]]
<1>1. f \in Bijection(Used, KeySet)
  BY DEF IInv, OneEntryPerSymbol, KeySet,
         Bijection, Injection, Surjection, IsInjective
<1>2. IsFiniteSet(Used)
  BY UsedType DEF IInv
<1> QED
  BY <1>1, <1>2, FS_Bijection DEF ExistsBijection

(* If put finds no place for a symbol it is unbound, and an unsealed table *)
(* is full: a free entry or one of the symbol's would have stopped it.     *)
LEMMA RefusedFacts ==
  ASSUME IInv, NEW s \in Symbol, PutRefused(s)
  PROVE  /\ s \notin KeySet
         /\ ~Sealed => Cardinality(Used) = cap
<1>1. TypeOK /\ Reachable
  BY DEF IInv
<1>2. \A k \in Index : StopsFirstAt(s, k) => keys[Slot(s, k)] = 0 /\ Sealed
  BY DEF PutRefused
<1>3. s \notin KeySet
  <2> SUFFICES ASSUME NEW i \in Used, keys[i] = s PROVE FALSE
    BY DEF KeySet
  <2>1. PICK m \in Index : Slot(s, m) = i
    BY <1>1, ProbeCovers DEF Used
  <2>2. PICK k \in Index : StopsFirstAt(s, k)
    BY <2>1, <1>1, FirstStop DEF StopsAt
  <2>3. \A j \in Used : keys[j] # s
    BY <2>2, <1>1, <1>2, FreeMeansNew
  <2> QED
    BY <2>3
<1>4. ASSUME ~Sealed PROVE Cardinality(Used) = cap
  <2>1. \A i \in Index : keys[i] # 0
    <3> SUFFICES ASSUME NEW i \in Index, keys[i] = 0 PROVE FALSE
      OBVIOUS
    <3>1. PICK m \in Index : Slot(s, m) = i
      BY <1>1, ProbeCovers
    <3>2. PICK k \in Index : StopsFirstAt(s, k)
      BY <3>1, <1>1, FirstStop DEF StopsAt
    <3> QED
      BY <3>2, <1>2, <1>4
  <2>2. Used = Index
    BY <2>1 DEF Used
  <2> QED
    BY <2>2, <1>1, CapacityType
<1> QED
  BY <1>3, <1>4

(* A put of a bound symbol is the abstract PutEntry: it replaces the value.*)
LEMMA ExistingStep ==
  ASSUME IInv, IInv', NEW s \in Symbol, NEW v \in Value, PutExisting(s, v)
  PROVE  Abstract!PutEntry(s, v)
<1>1. PICK k \in Index : /\ keys[Slot(s, k)] = s
                         /\ vals' = [vals EXCEPT ![Slot(s, k)] = v]
  BY DEF PutExisting
<1>2. /\ cap' = cap /\ header' = header /\ keys' = keys
      /\ reply' = Answer(<<"put", s>>, "ok", {})
  BY DEF PutExisting
<1> DEFINE i == Slot(s, k)
<1>3. i \in Used /\ keys[i] = s /\ s \in KeySet
  BY <1>1, SlotType, SymbolAssumption DEF IInv, Used, KeySet
<1>4. vals' = [vals EXCEPT ![i] = v]
  BY <1>1
<1> HIDE DEF i
<1>5. Used' = Used /\ KeySet' = KeySet /\ Sealed' = Sealed
  BY <1>2 DEF Used, Index, KeySet, Sealed
<1>6. Bindings' = Abstract!WithEntry(Bindings, s, v)
  <2>1. /\ DOMAIN Bindings = KeySet
        /\ \A e \in Used : Bindings[keys[e]] = vals[e]
    BY BindingsType DEF IInv, EntriesAreBindings
  <2>2. Bindings' = [t \in KeySet |-> Bindings'[t]]
    BY <1>5 DEF Bindings
  <2>3. \A e \in Used' : Bindings'[keys'[e]] = vals'[e]
    BY NextBindingsType DEF IInv, EntriesAreBindings
  <2>4. \A t \in KeySet : Bindings'[t] = IF t = s THEN v ELSE Bindings[t]
    <3> SUFFICES ASSUME NEW e \in Used
                 PROVE  Bindings'[keys[e]] = IF keys[e] = s THEN v ELSE Bindings[keys[e]]
      BY DEF KeySet
    <3>1. Bindings'[keys[e]] = vals'[e]
      BY <1>2, <1>5, <2>3
    <3>2. keys[e] = s <=> e = i
      BY <1>3 DEF IInv, OneEntryPerSymbol
    <3>3. vals'[e] = IF e = i THEN v ELSE vals[e]
      BY <1>4, <1>3 DEF IInv, TypeOK, Used
    <3> QED
      BY <3>1, <3>2, <3>3, <2>1
  <2>5. KeySet \union {s} = KeySet
    BY <1>3
  <2> QED
    BY <2>1, <2>2, <2>4, <2>5 DEF Abstract!WithEntry
<1>7. Abstract!PutResult(Ctx, s) = "ok"
  <2>1. cap # 0
    BY CapacityType, <1>3 DEF IInv, Used, Index
  <2>2. Abstract!Bound(Ctx, s)
    BY <1>3, BindingsType DEF IInv, EntriesAreBindings, Abstract!Bound, Ctx
  <2> QED
    BY <2>1, <2>2 DEF Abstract!PutResult, Ctx
<1>8. Ctx' = Abstract!Put(Ctx, s, v)
  BY <1>2, <1>5, <1>6, <1>7 DEF Abstract!Put, Ctx
<1> QED
  BY <1>2, <1>7, <1>8
     DEF Abstract!PutEntry, Abstract!Answer, Answer, Ctx, Bindings, KeySet

(* The instance counts with the same cardinality as the table. *)
LEMMA SameCardinality == \A S : Abstract!Cardinality(S) = Cardinality(S)
BY DEF Abstract!Cardinality, Cardinality

(* A put that takes a free entry is the abstract PutEntry: it adds a key.  *)
LEMMA NewStep ==
  ASSUME IInv, IInv', NEW s \in Symbol, NEW v \in Value, PutNew(s, v)
  PROVE  Abstract!PutEntry(s, v)
<1>1. PICK k \in Index : /\ StopsFirstAt(s, k)
                         /\ keys[Slot(s, k)] = 0
                         /\ keys' = [keys EXCEPT ![Slot(s, k)] = s]
                         /\ vals' = [vals EXCEPT ![Slot(s, k)] = v]
  BY DEF PutNew
<1>2. cap' = cap /\ reply' = Answer(<<"put", s>>, "ok", {})
  BY DEF PutNew
<1>3. ~Sealed /\ ~Sealed'
  BY NewIInv
<1> DEFINE i == Slot(s, k)
<1>4. i \in Index /\ i \notin Used
  BY <1>1, SlotType DEF IInv, Used
<1>5. \A e \in Used : keys[e] # s
  BY <1>1, FreeMeansNew DEF IInv
<1>6. \A e \in Index : /\ keys'[e] = IF e = i THEN s ELSE keys[e]
                       /\ vals'[e] = IF e = i THEN v ELSE vals[e]
  BY <1>1 DEF IInv, TypeOK
<1> HIDE DEF i
<1>7. Used' = Used \union {i}
  BY <1>2, <1>4, <1>6, SymbolAssumption DEF Used, Index
<1>8. KeySet' = KeySet \union {s} /\ s \notin KeySet
  <2>1. \A e \in Used : keys'[e] = keys[e]
    BY <1>4, <1>6 DEF Used
  <2>2. keys'[i] = s
    BY <1>4, <1>6
  <2> QED
    BY <2>1, <2>2, <1>5, <1>7 DEF KeySet
<1>9. Bindings' = Abstract!WithEntry(Bindings, s, v)
  <2>1. /\ DOMAIN Bindings = KeySet
        /\ \A e \in Used : Bindings[keys[e]] = vals[e]
    BY BindingsType DEF IInv, EntriesAreBindings
  <2>2. Bindings' = [t \in KeySet \union {s} |-> Bindings'[t]]
    BY <1>8 DEF Bindings
  <2>3. \A e \in Used' : Bindings'[keys'[e]] = vals'[e]
    BY NextBindingsType DEF IInv, EntriesAreBindings
  <2>4. Bindings'[s] = v
    BY <2>3, <1>4, <1>6, <1>7
  <2>5. \A t \in KeySet : Bindings'[t] = Bindings[t]
    <3> SUFFICES ASSUME NEW e \in Used
                 PROVE  Bindings'[keys[e]] = Bindings[keys[e]]
      BY DEF KeySet
    <3>1. keys'[e] = keys[e] /\ vals'[e] = vals[e] /\ e \in Used'
      BY <1>4, <1>6, <1>7 DEF Used
    <3> QED
      BY <3>1, <2>1, <2>3
  <2>6. \A t \in KeySet \union {s} :
           Bindings'[t] = IF t = s THEN v ELSE Bindings[t]
    BY <2>4, <2>5, <1>8
  <2> QED
    BY <2>1, <2>2, <2>6 DEF Abstract!WithEntry
<1>10. Abstract!PutResult(Ctx, s) = "ok"
  <2>1. cap # 0
    BY CapacityType, <1>4 DEF IInv, Index
  <2>2. DOMAIN Bindings = KeySet
    BY DEF Bindings
  <2>3. ~Abstract!Bound(Ctx, s)
    BY <1>8, <2>2 DEF Abstract!Bound, Ctx
  <2>4. Cardinality(KeySet) < cap
    BY <1>4, KeySetCardinality, UsedType, CapacityType DEF IInv
  <2> QED
    <3>0. Sealed = FALSE
      BY <1>3
    <3>1. Ctx = [cap |-> cap, sealed |-> FALSE, entries |-> Bindings]
      BY <3>0 DEF Ctx
    <3>2. Abstract!Cardinality(KeySet) < cap
      BY <2>4, SameCardinality
    <3> QED
      BY <2>1, <2>2, <2>3, <3>1, <3>2 DEF Abstract!PutResult
<1>11. Ctx' = Abstract!Put(Ctx, s, v)
  <2>1. Sealed' = Sealed
    BY <1>3 DEF Sealed
  <2> QED
    BY <2>1, <1>2, <1>9, <1>10 DEF Abstract!Put, Ctx
<1> QED
  BY <1>2, <1>10, <1>11
     DEF Abstract!PutEntry, Abstract!Answer, Answer, Ctx, Bindings, KeySet

(* A step that leaves the block alone leaves the map alone. *)
LEMMA FrameCtx ==
  ASSUME UNCHANGED <<cap, header, keys, vals>>
  PROVE  Ctx' = Ctx
BY DEF Ctx, Sealed, Bindings, KeySet, EntryAt, Used, Index

(* A refused put is the abstract PutEntry, and refuses for its reason: no  *)
(* capacity at all, sealed, or as many bindings as entries.                *)
LEMMA RefusedStep ==
  ASSUME IInv, NEW s \in Symbol, NEW v \in Value, PutRefused(s)
  PROVE  Abstract!PutEntry(s, v)
<1> DEFINE kind == CASE cap = 0 -> "SymbolTableFull"
                     [] cap # 0 /\ Sealed -> "WordNotFound"
                     [] OTHER -> "ContextFull"
<1>1. reply' = Answer(<<"put", s>>, kind, {})
  BY DEF PutRefused
<1>2. Ctx' = Ctx
  BY FrameCtx DEF PutRefused
<1>3. s \notin KeySet /\ (~Sealed => Cardinality(KeySet) = cap)
  BY RefusedFacts, KeySetCardinality
<1>4. DOMAIN Bindings = KeySet
  BY DEF Bindings
<1>5. ~Abstract!Bound(Ctx, s)
  BY <1>3, <1>4 DEF Abstract!Bound, Ctx
<1>6. cap \in Nat
  BY CapacityType DEF IInv
<1>7. Abstract!PutResult(Ctx, s) = kind /\ kind # "ok"
  <2>1. CASE cap = 0
    BY <2>1 DEF Abstract!PutResult, Ctx
  <2>2. CASE cap # 0 /\ Sealed
    BY <2>2, <1>5 DEF Abstract!PutResult, Ctx
  <2>3. CASE cap # 0 /\ ~Sealed
    <3>0. Sealed = FALSE
      BY <2>3
    <3>1. Ctx = [cap |-> cap, sealed |-> FALSE, entries |-> Bindings]
      BY <3>0 DEF Ctx
    <3>2. ~(Abstract!Cardinality(KeySet) < cap)
      BY <2>3, <1>3, <1>6, SameCardinality
    <3>3. kind = "ContextFull"
      BY <2>3
    <3> HIDE DEF kind
    <3> QED
      BY <2>3, <1>4, <1>5, <3>1, <3>2, <3>3 DEF Abstract!PutResult
  <2> QED
    BY <2>1, <2>2, <2>3
<1> HIDE DEF kind
<1>8. Ctx' = Abstract!Put(Ctx, s, v)
  BY <1>2, <1>7 DEF Abstract!Put
<1> QED
  BY <1>1, <1>7, <1>8
     DEF Abstract!PutEntry, Abstract!Answer, Answer, Ctx, Bindings, KeySet

(* get is the abstract Lookup: looking at every entry finds the binding. *)
LEMMA GetStep ==
  ASSUME IInv, NEW s \in Symbol, Get(s)
  PROVE  Abstract!Lookup(s)
<1>1. Ctx' = Ctx
  BY FrameCtx DEF Get
<1>2. /\ DOMAIN Bindings = KeySet
      /\ \A e \in Used : keys[e] \in KeySet /\ Bindings[keys[e]] = vals[e]
  BY BindingsType DEF IInv, EntriesAreBindings
<1>3. ASSUME NEW k \in Index, keys[Slot(s, k)] = s,
             reply' = Answer(<<"get", s>>, "value", {vals[Slot(s, k)]})
      PROVE  Abstract!Lookup(s)
  <2>1. Slot(s, k) \in Used
    BY <1>3, SlotType, SymbolAssumption DEF IInv, Used
  <2>2. s \in KeySet /\ Bindings[s] = vals[Slot(s, k)]
    BY <1>3, <2>1, <1>2
  <2> QED
    BY <1>1, <1>2, <1>3, <2>2
       DEF Abstract!Lookup, Abstract!Bound, Abstract!Answer, Answer,
           Ctx, Bindings, KeySet
<1>4. ASSUME \A k \in Index : keys[Slot(s, k)] # s,
             reply' = Answer(<<"get", s>>, "WordNotFound", {})
      PROVE  Abstract!Lookup(s)
  <2>1. s \notin KeySet
    BY <1>4, ProbeCovers DEF IInv, KeySet, Used
  <2> QED
    BY <1>1, <1>2, <1>4, <2>1
       DEF Abstract!Lookup, Abstract!Bound, Abstract!Answer, Answer,
           Ctx, Bindings, KeySet
<1> QED
  BY <1>3, <1>4 DEF Get

(* The abstract Seal, on a context given field by field. *)
LEMMA SealRecord ==
  ASSUME NEW c, NEW b, NEW e
  PROVE  Abstract!Seal([cap |-> c, sealed |-> b, entries |-> e])
           = [cap |-> c, sealed |-> TRUE, entries |-> e]
<1> DEFINE Field == {"cap", "sealed", "entries"}
           t == TRUE
           r == [cap |-> c, sealed |-> b, entries |-> e]
           q == [cap |-> c, sealed |-> t, entries |-> e]
<1>1. Abstract!Seal(r) = [r EXCEPT !.sealed = t]
  BY DEF Abstract!Seal
<1> HIDE DEF t
<1>2. DOMAIN r = Field /\ q = [x \in Field |-> q[x]]
  OBVIOUS
<1>3. \A x \in Field : q[x] = IF x = "sealed" THEN t ELSE r[x]
  OBVIOUS
<1> HIDE DEF Field, r, q
<1>4. [r EXCEPT !.sealed = t] = q
  BY <1>2, <1>3
<1> QED
  BY <1>1, <1>4 DEF r, q, t

(* seal is the abstract SealContext: no binding changes. *)
LEMMA SealStep ==
  ASSUME IInv, SealContext
  PROVE  Abstract!SealContext
<1>1. cap' = cap /\ keys' = keys /\ vals' = vals
  BY DEF SealContext
<1>2. Bindings' = Bindings
  BY <1>1 DEF Bindings, KeySet, EntryAt, Used, Index
<1>3. Sealed' = TRUE
  BY SealIInv DEF Sealed
<1>4. Ctx' = Abstract!Seal(Ctx)
  <2>1. Ctx' = [cap |-> cap, sealed |-> TRUE, entries |-> Bindings]
    BY <1>1, <1>2, <1>3 DEF Ctx
  <2>2. Abstract!Seal(Ctx) = [cap |-> cap, sealed |-> TRUE, entries |-> Bindings]
    BY SealRecord, Zenon DEF Ctx
  <2> QED
    BY <2>1, <2>2
<1> QED
  BY <1>4 DEF SealContext, Abstract!SealContext, Abstract!Answer, Answer,
              Ctx, Bindings, KeySet

(* The iterator misses nothing, sealed or not: before any entry in use     *)
(* there are fewer than the header says.                                   *)
LEMMA AllYielded ==
  ASSUME IInv
  PROVE  Yielded = Used
<1>1. Cardinality(Used) =< header
  BY UsedType, SealBitAssumption DEF IInv, TypeOK, CountExact, Count, Sealed
<1>2. ASSUME NEW i \in Used
      PROVE  Cardinality({j \in Used : j < i}) < header
  <2> DEFINE B == {j \in Used : j < i}
  <2>1. B \in SUBSET Used /\ B # Used
    BY CapacityType DEF IInv, Used, Index
  <2>2. IsFiniteSet(Used)
    BY UsedType DEF IInv
  <2>3. IsFiniteSet(B) /\ Cardinality(B) =< Cardinality(Used)
        /\ Cardinality(B) # Cardinality(Used)
    BY <2>1, <2>2, FS_Subset
  <2>4. Cardinality(B) \in Nat /\ Cardinality(Used) \in Nat /\ header \in Nat
    BY <2>2, <2>3, FS_CardinalityType DEF IInv, TypeOK
  <2> QED
    BY <2>3, <2>4, <1>1
<1> QED
  BY <1>2 DEF Yielded, EntryCount

(* So iteration is the abstract Iterate: it yields every binding. *)
LEMMA IterateStep ==
  ASSUME IInv, Iterate
  PROVE  Abstract!Iterate
<1>1. Ctx' = Ctx
  BY FrameCtx DEF Iterate
<1>2. /\ DOMAIN Bindings = KeySet
      /\ \A e \in Used : Bindings[keys[e]] = vals[e]
  BY BindingsType DEF IInv, EntriesAreBindings
<1>3. {<<keys[i], vals[i]>> : i \in Used} = {<<s, Bindings[s]>> : s \in KeySet}
  BY <1>2 DEF KeySet
<1>4. reply' = Answer(<<"iterate">>, "entries", {<<s, Bindings[s]>> : s \in KeySet})
  BY <1>3, AllYielded DEF Iterate
<1> QED
  BY <1>1, <1>2, <1>4
     DEF Abstract!Iterate, Abstract!Answer, Answer, Ctx, Bindings, KeySet

(* The hash table implements a bounded map: every get and every iteration  *)
(* answers with the values put last, and a put is refused exactly when the *)
(* map has no capacity, is sealed, or is full - for every hash function.   *)
THEOREM Refinement == Spec => ImplementsBoundedMap
<1>1. Init => Abstract!Init
  <2> SUFFICES ASSUME Init PROVE Abstract!Init
    OBVIOUS
  <2>1. Used = {}
    BY DEF Init, Used
  <2>2. Bindings = << >>
    BY <2>1 DEF Bindings, KeySet
  <2>3. Sealed = FALSE
    BY SealBitAssumption DEF Init, Sealed
  <2>4. Ctx = Abstract!EmptyContext(cap)
    BY <2>2, <2>3 DEF Ctx, Abstract!EmptyContext
  <2> QED
    BY <2>4 DEF Init, Abstract!Init, Abstract!Answer, Answer, Ctx, Bindings, KeySet
<1>2. ASSUME IInv, IInv', [Next]_vars
      PROVE  [Abstract!Next]_(Abstract!vars)
  <2>1. ASSUME NEW s \in Symbol, NEW v \in Value, PutExisting(s, v)
        PROVE  Abstract!Next
    BY <1>2, <2>1, ExistingStep DEF Abstract!Next
  <2>2. ASSUME NEW s \in Symbol, NEW v \in Value, PutNew(s, v)
        PROVE  Abstract!Next
    BY <1>2, <2>2, NewStep DEF Abstract!Next
  <2>3. ASSUME NEW s \in Symbol, NEW v \in Value, PutRefused(s)
        PROVE  Abstract!Next
    BY <1>2, <2>3, RefusedStep DEF Abstract!Next
  <2>4. ASSUME NEW s \in Symbol, Get(s) PROVE Abstract!Next
    BY <1>2, <2>4, GetStep DEF Abstract!Next
  <2>5. CASE SealContext
    BY <1>2, <2>5, SealStep DEF Abstract!Next
  <2>6. CASE Iterate
    BY <1>2, <2>6, IterateStep DEF Abstract!Next
  <2>7. CASE UNCHANGED vars
    BY <2>7, FrameCtx DEF vars, Abstract!vars, Ctx, Bindings, KeySet
  <2> QED
    BY <1>2, <2>1, <2>2, <2>3, <2>4, <2>5, <2>6, <2>7 DEF Next, PutEntry
<1> QED
  BY <1>1, <1>2, Invariance, PTL DEF Spec, ImplementsBoundedMap, Abstract!Spec
=============================================================================
