-------------------------- MODULE WordMemoryProofs --------------------------
(***************************************************************************)
(* Theorems about WordMemory, for heaps and stacks of every size, every    *)
(* hash function, and whatever words, bytes and symbols calls are given.   *)
(***************************************************************************)
EXTENDS WordMemory, FiniteSetTheorems, SequenceTheorems, WellFoundedInduction, TLAPS

-----------------------------------------------------------------------------
(* Contexts in a block.                                                    *)

Entries(c) == 0 .. Capacity(c) - 1
UsedIn(c)  == {i \in Entries(c) : KeyOf(c, i) # 0}
CountOf(c) == IF IsSealed(c) THEN c[1] - SealBit ELSE c[1]

(* The words of a context: a header and entries of three words, the count  *)
(* exact, one entry for a symbol at most, and no free entry before it on   *)
(* its probe. *)
Shaped(c) ==
  /\ c \in Seq(Nat) /\ Capacity(c) \in Nat /\ Capacity(c) < SealBit
  /\ Len(c) = EntrySize * Capacity(c) + 1
  /\ \A i \in Entries(c) : KeyOf(c, i) \in Symbols \union {0}
Counted(c) == CountOf(c) = Cardinality(UsedIn(c))
OneEntry(c) == \A i, j \in UsedIn(c) : KeyOf(c, i) = KeyOf(c, j) => i = j
Reached(c) ==
  \A i \in UsedIn(c) : \E k \in Entries(c) :
    /\ Probe(c, KeyOf(c, i), k) = i
    /\ \A j \in 0 .. k - 1 : Probe(c, KeyOf(c, i), j) \in UsedIn(c)
ContextWords(c) == Shaped(c) /\ Counted(c) /\ OneEntry(c) /\ Reached(c)

(* The map the words stand for. *)
ContextOf(c) == [cap |-> Capacity(c), sealed |-> IsSealed(c), entries |-> EntriesOf(c)]

(* A context has as many entries as its capacity says. *)
LEMMA EntriesType ==
  ASSUME NEW c, Shaped(c)
  PROVE  IsFiniteSet(Entries(c)) /\ Cardinality(Entries(c)) = Capacity(c)
<1>1. 0 \in Int /\ Capacity(c) - 1 \in Int /\ Capacity(c) \in Nat
  BY DEF Shaped
<1>2. /\ IsFiniteSet(0 .. Capacity(c) - 1)
      /\ Cardinality(0 .. Capacity(c) - 1)
           = IF 0 > Capacity(c) - 1 THEN 0 ELSE Capacity(c) - 1 - 0 + 1
  BY ONLY <1>1, FS_Interval
<1> QED
  BY <1>1, <1>2 DEF Entries

(* No more of them are in use than there are. *)
LEMMA UsedType ==
  ASSUME NEW c, Shaped(c)
  PROVE  /\ IsFiniteSet(UsedIn(c)) /\ Cardinality(UsedIn(c)) \in Nat
         /\ Cardinality(UsedIn(c)) =< Capacity(c)
         /\ Cardinality(UsedIn(c)) = Capacity(c) => UsedIn(c) = Entries(c)
<1>1. UsedIn(c) \in SUBSET Entries(c)
  BY DEF UsedIn
<1>2. /\ IsFiniteSet(UsedIn(c)) /\ Cardinality(UsedIn(c)) =< Cardinality(Entries(c))
      /\ Cardinality(UsedIn(c)) = Cardinality(Entries(c)) => UsedIn(c) = Entries(c)
  BY <1>1, EntriesType, FS_Subset
<1> QED
  BY <1>2, EntriesType, FS_CardinalityType

(* A probe stays among the entries. *)
LEMMA ProbeType ==
  ASSUME NEW c, Shaped(c), NEW s \in Symbols, NEW k \in Entries(c)
  PROVE  Probe(c, s, k) \in Entries(c)
<1>1. Hash[s] + k \in Nat /\ Capacity(c) \in Nat \ {0}
  BY CallsAssumption DEF Entries, Shaped
<1> QED
  BY <1>1 DEF Probe, Entries

(* The remainder of a number put together from quotient and remainder. *)
LEMMA ModOfSum ==
  ASSUME NEW n \in Nat \ {0}, NEW q \in Nat, NEW r \in 0 .. n - 1
  PROVE  (q * n + r) % n = r
OBVIOUS

(* It comes to every one of them. *)
LEMMA ProbeCovers ==
  ASSUME NEW c, Shaped(c), NEW s \in Symbols, NEW i \in Entries(c)
  PROVE  \E k \in Entries(c) : Probe(c, s, k) = i
<1> DEFINE n == Capacity(c)
           h == Hash[s]
           q == h \div n
           r == h % n
<1>1. h \in Nat /\ n \in Nat \ {0} /\ i \in 0 .. n - 1
  BY CallsAssumption DEF Entries, Shaped
<1> HIDE DEF n, h
<1>2. q \in Nat /\ r \in 0 .. n - 1 /\ h = q * n + r
  BY <1>1
<1> HIDE DEF q, r
<1>3. CASE r =< i
  <2>1. i - r \in 0 .. n - 1 /\ h + (i - r) = q * n + i
    BY <1>1, <1>2, <1>3
  <2>2. (h + (i - r)) % n = i
    BY <2>1, <1>1, <1>2, ModOfSum
  <2> QED
    BY <2>1, <2>2 DEF Probe, Entries, n, h
<1>4. CASE r > i
  <2>1. (i - r) + n \in 0 .. n - 1 /\ h + ((i - r) + n) = (q + 1) * n + i
    BY <1>1, <1>2, <1>4
  <2>2. (h + ((i - r) + n)) % n = i
    BY <2>1, <1>1, <1>2, ModOfSum
  <2> QED
    BY <2>1, <2>2 DEF Probe, Entries, n, h
<1> QED
  BY <1>1, <1>2, <1>3, <1>4

(* Some numbers have a least one among them, and Least is it. *)
LEMMA LeastElement ==
  ASSUME NEW T \in SUBSET Nat, T # {}
  PROVE  Least(T) \in T /\ \A y \in 0 .. Least(T) - 1 : y \notin T
<1> DEFINE R == OpToRel(<, Nat)
<1>1. IsWellFoundedOn(R, Nat)
  BY NatLessThanWellFounded, Zenon
<1>2. \A x, y \in Nat : <<x, y>> \in R <=> x < y
  BY DEF OpToRel
<1> HIDE DEF R
<1>3. PICK x \in T : \A y \in T : ~(<<y, x>> \in R)
  BY <1>1, WFMin, Zenon
<1>4. ASSUME NEW y \in T PROVE x =< y
  <2>1. ~(y < x) /\ x \in Nat /\ y \in Nat
    BY <1>2, <1>3
  <2> QED
    BY <2>1
<1>5. Least(T) \in T /\ \A y \in T : Least(T) =< y
  BY <1>4, Zenon DEF Least
<1>6. ASSUME NEW y \in 0 .. Least(T) - 1 PROVE y \notin T
  <2>1. Least(T) \in Nat
    BY <1>5
  <2>2. y < Least(T) /\ y \in Nat
    BY <2>1
  <2> QED
    BY <2>1, <2>2, <1>5
<1> QED
  BY <1>5, <1>6

(* put stops at the first entry that is free or the symbol's... *)
LEMMA FirstStop ==
  ASSUME NEW c, Shaped(c), NEW s \in Symbols, Stops(c, s) # {}
  PROVE  LET k == Least(Stops(c, s))
         IN  /\ k \in Entries(c) /\ StopOf(c, s) = Probe(c, s, k)
             /\ StopOf(c, s) \in Entries(c) /\ KeyOf(c, StopOf(c, s)) \in {0, s}
             /\ \A j \in 0 .. k - 1 :
                  j \in Entries(c) /\ KeyOf(c, Probe(c, s, j)) \notin {0, s}
<1> DEFINE k == Least(Stops(c, s))
<1>1. Stops(c, s) \in SUBSET Nat /\ Capacity(c) \in Nat
  BY DEF Stops, Shaped
<1>2. k \in Stops(c, s) /\ \A j \in 0 .. k - 1 : j \notin Stops(c, s)
  BY <1>1, LeastElement
<1> HIDE DEF k
<1>3. k \in Entries(c) /\ KeyOf(c, Probe(c, s, k)) \in {0, s}
  BY <1>2 DEF Stops, Entries
<1>4. \A j \in 0 .. k - 1 : j \in Entries(c)
  BY <1>1, <1>3 DEF Entries
<1>5. \A j \in 0 .. k - 1 : KeyOf(c, Probe(c, s, j)) \notin {0, s}
  BY <1>2, <1>4 DEF Stops, Entries
<1>6. StopOf(c, s) = Probe(c, s, k) /\ Probe(c, s, k) \in Entries(c)
  BY <1>3, ProbeType DEF StopOf, k
<1> QED
  BY <1>3, <1>4, <1>5, <1>6 DEF k

(* ... and when that is free, the symbol has none. *)
LEMMA FreeMeansNew ==
  ASSUME NEW c, Shaped(c), Reached(c), NEW s \in Symbols,
         Stops(c, s) # {}, KeyOf(c, StopOf(c, s)) = 0
  PROVE  \A i \in UsedIn(c) : KeyOf(c, i) # s
<1> SUFFICES ASSUME NEW i \in UsedIn(c), KeyOf(c, i) = s PROVE FALSE
  OBVIOUS
<1> DEFINE k == Least(Stops(c, s))
<1>1. PICK m \in Entries(c) : /\ Probe(c, s, m) = i
                              /\ \A j \in 0 .. m - 1 : Probe(c, s, j) \in UsedIn(c)
  BY DEF Reached
<1>2. /\ k \in Entries(c) /\ KeyOf(c, Probe(c, s, k)) = 0
      /\ \A j \in 0 .. k - 1 : KeyOf(c, Probe(c, s, j)) \notin {0, s}
  BY FirstStop
<1> HIDE DEF k
<1>3. k \in Nat /\ m \in Nat
  BY <1>1, <1>2 DEF Entries, Shaped
<1>4. CASE m < k
  <2>1. m \in 0 .. k - 1
    BY <1>3, <1>4
  <2> QED
    BY <2>1, <1>1, <1>2
<1>5. CASE k < m
  <2>1. k \in 0 .. m - 1
    BY <1>3, <1>5
  <2> QED
    BY <2>1, <1>1, <1>2 DEF UsedIn
<1>6. CASE k = m
  BY <1>6, <1>1, <1>2 DEF UsedIn
<1> QED
  BY <1>3, <1>4, <1>5, <1>6

(* With nowhere to stop every entry is in use, and not for the symbol. *)
LEMMA NoStop ==
  ASSUME NEW c, Shaped(c), NEW s \in Symbols, Stops(c, s) = {}
  PROVE  UsedIn(c) = Entries(c) /\ \A i \in UsedIn(c) : KeyOf(c, i) # s
<1>1. ASSUME NEW i \in Entries(c) PROVE KeyOf(c, i) \notin {0, s}
  <2>1. PICK k \in Entries(c) : Probe(c, s, k) = i
    BY ProbeCovers
  <2> QED
    BY <2>1 DEF Stops, Entries
<1> QED
  BY <1>1 DEF UsedIn

(* An entry in use is what get finds for its symbol. *)
LEMMA EntriesAreBindings ==
  ASSUME NEW c, Shaped(c), OneEntry(c)
  PROVE  /\ EntriesOf(c) = [s \in DOMAIN EntriesOf(c) |-> EntriesOf(c)[s]]
         /\ DOMAIN EntriesOf(c) = {KeyOf(c, i) : i \in UsedIn(c)}
         /\ \A i \in UsedIn(c) : EntriesOf(c)[KeyOf(c, i)] = ValueOf(c, i)
<1>1. ASSUME NEW i \in UsedIn(c)
      PROVE  /\ KeyOf(c, i) \in Symbols /\ Holding(c, KeyOf(c, i)) # {}
             /\ get(c, KeyOf(c, i)) = ValueOf(c, i)
  <2> DEFINE s == KeyOf(c, i)
             k == Least(Holding(c, s))
  <2>1. i \in Entries(c) /\ s # 0 /\ s \in Symbols
    BY DEF UsedIn, Shaped
  <2> HIDE DEF s
  <2>2. PICK m \in Entries(c) : Probe(c, s, m) = i
    BY <2>1, ProbeCovers
  <2>3. m \in Holding(c, s)
    BY <2>2 DEF Holding, Entries, s
  <2>4. Holding(c, s) \in SUBSET Nat
    BY DEF Holding, Shaped
  <2>5. k \in Holding(c, s)
    BY <2>3, <2>4, LeastElement
  <2> HIDE DEF k
  <2>6. k \in Entries(c) /\ KeyOf(c, Probe(c, s, k)) = s
    BY <2>5 DEF Holding, Entries
  <2>7. Probe(c, s, k) \in UsedIn(c)
    BY <2>1, <2>6, ProbeType DEF UsedIn
  <2>8. Probe(c, s, k) = i
    BY <2>6, <2>7 DEF OneEntry, s
  <2> QED
    BY <2>1, <2>3, <2>8 DEF get, k, s
<1>2. ASSUME NEW s \in Symbols, Holding(c, s) # {}
      PROVE  \E i \in UsedIn(c) : KeyOf(c, i) = s
  <2>1. PICK k \in Entries(c) : KeyOf(c, Probe(c, s, k)) = s
    BY <1>2 DEF Holding, Entries
  <2> QED
    BY <2>1, ProbeType, CallsAssumption DEF UsedIn
<1>3. DOMAIN EntriesOf(c) = {t \in Symbols : Holding(c, t) # {}}
  BY DEF EntriesOf
<1>4. {t \in Symbols : Holding(c, t) # {}} = {KeyOf(c, i) : i \in UsedIn(c)}
  BY <1>1, <1>2
<1> QED
  BY <1>1, <1>3, <1>4 DEF EntriesOf

(* So a context binds as many symbols as it has entries in use. *)
LEMMA BindingsCount ==
  ASSUME NEW c, Shaped(c), OneEntry(c)
  PROVE  Cardinality(DOMAIN EntriesOf(c)) = Cardinality(UsedIn(c))
<1> DEFINE K == {KeyOf(c, i) : i \in UsedIn(c)}
           f == [i \in UsedIn(c) |-> KeyOf(c, i)]
<1>1. f \in Bijection(UsedIn(c), K)
  BY DEF OneEntry, Bijection, Injection, Surjection, IsInjective
<1>2. IsFiniteSet(UsedIn(c))
  BY UsedType
<1>3. Cardinality(K) = Cardinality(UsedIn(c))
  BY <1>1, <1>2, FS_Bijection DEF ExistsBijection
<1> QED
  BY <1>3, EntriesAreBindings

-----------------------------------------------------------------------------
(* put and seal on the words of a context, and a new one.                  *)

(* Where the words of an entry are. *)
LEMMA EntryPlaces ==
  ASSUME NEW c, Shaped(c), NEW e \in Entries(c)
  PROVE  /\ e \in Nat /\ DOMAIN c = 1 .. Len(c) /\ Len(c) \in Nat /\ 1 \in DOMAIN c
         /\ 2 + 3 * e \in DOMAIN c /\ 3 + 3 * e \in DOMAIN c /\ 4 + 3 * e \in DOMAIN c
         /\ KeyOf(c, e) = c[2 + 3 * e]
         /\ ValueOf(c, e) = <<c[3 + 3 * e], c[4 + 3 * e]>>
<1>1. e \in Nat /\ Capacity(c) \in Nat /\ e =< Capacity(c) - 1
  BY DEF Entries, Shaped
<1>2. DOMAIN c = 1 .. Len(c) /\ Len(c) = 3 * Capacity(c) + 1
  BY DEF Shaped, EntrySize
<1> HIDE DEF Capacity
<1>3. 2 + 3 * e \in 1 .. Len(c) /\ 3 + 3 * e \in 1 .. Len(c) /\ 4 + 3 * e \in 1 .. Len(c)
  BY <1>1, <1>2
<1> QED
  BY <1>1, <1>2, <1>3 DEF KeyOf, ValueOf, EntrySize

(* put writes the words of its entry and the count, and no others. *)
LEMMA EnteredFacts ==
  ASSUME NEW c, Shaped(c), NEW i \in Entries(c), NEW s \in Symbols, NEW v \in Nat \X Nat
  PROVE  LET d == Entered(c, i, s, v)
         IN  /\ d \in Seq(Nat) /\ Len(d) = Len(c) /\ Capacity(d) = Capacity(c)
             /\ d[1] = IF KeyOf(c, i) = 0 THEN c[1] + 1 ELSE c[1]
             /\ \A e \in Entries(c) : /\ KeyOf(d, e) = IF e = i THEN s ELSE KeyOf(c, e)
                                      /\ ValueOf(d, e) = IF e = i THEN v ELSE ValueOf(c, e)
<1> DEFINE d == Entered(c, i, s, v)
           entry == <<s, v[1], v[2]>>
           at == 1 + 3 * i
<1>1. /\ i \in Nat /\ DOMAIN c = 1 .. Len(c) /\ Len(c) \in Nat /\ 1 \in DOMAIN c
      /\ \A j \in DOMAIN c : c[j] \in Nat
  BY EntryPlaces DEF Shaped
<1>2. entry[1] = s /\ entry[2] = v[1] /\ entry[3] = v[2] /\ DOMAIN entry = 1 .. 3
  OBVIOUS
<1>3. s \in Nat /\ v[1] \in Nat /\ v[2] \in Nat /\ v = <<v[1], v[2]>>
  BY CallsAssumption
<1>4. d = [j \in DOMAIN c |->
             IF j = 1 THEN (IF KeyOf(c, i) = 0 THEN c[1] + 1 ELSE c[1])
             ELSE IF j - at \in DOMAIN entry THEN entry[j - at] ELSE c[j]]
  BY DEF Entered, EntrySize
<1> HIDE DEF d, entry
<1>5. at \in Nat /\ at >= 1
  BY <1>1
<1>6. ASSUME NEW j \in DOMAIN c
      PROVE  d[j] \in Nat /\ (j # 1 /\ j - at \notin 1 .. 3 => d[j] = c[j])
                          /\ (j # 1 /\ j - at \in 1 .. 3 => d[j] = entry[j - at])
  <2>1. CASE j = 1
    BY <2>1, <1>1, <1>4
  <2>2. CASE j # 1 /\ j - at \in 1 .. 3
    <3>1. d[j] = entry[j - at]
      BY <2>2, <1>2, <1>4
    <3>2. j - at = 1 \/ j - at = 2 \/ j - at = 3
      BY <2>2
    <3>3. entry[j - at] \in Nat
      BY <3>2, <1>2, <1>3
    <3> QED
      BY <3>1, <3>3, <2>2
  <2>3. CASE j # 1 /\ j - at \notin 1 .. 3
    BY <2>3, <1>1, <1>2, <1>4
  <2> QED
    BY <2>1, <2>2, <2>3
<1>7. DOMAIN d = 1 .. Len(c)
  BY <1>1, <1>4
<1>8. d \in Seq(Nat) /\ Len(d) = Len(c)
  <2>1. d \in [1 .. Len(c) -> Nat]
    BY <1>1, <1>4, <1>6, <1>7
  <2> QED
    BY SMTT(30), <2>1, <1>1
<1>9. Capacity(d) = Capacity(c)
  BY <1>8 DEF Capacity
<1>10. d[1] = IF KeyOf(c, i) = 0 THEN c[1] + 1 ELSE c[1]
  BY <1>1, <1>4
<1>11. ASSUME NEW e \in Entries(c)
       PROVE  /\ KeyOf(d, e) = IF e = i THEN s ELSE KeyOf(c, e)
              /\ ValueOf(d, e) = IF e = i THEN v ELSE ValueOf(c, e)
  <2>1. /\ e \in Nat /\ 2 + 3 * e \in DOMAIN c /\ 3 + 3 * e \in DOMAIN c /\ 4 + 3 * e \in DOMAIN c
        /\ KeyOf(c, e) = c[2 + 3 * e] /\ ValueOf(c, e) = <<c[3 + 3 * e], c[4 + 3 * e]>>
    BY EntryPlaces
  <2>2. KeyOf(d, e) = d[2 + 3 * e] /\ ValueOf(d, e) = <<d[3 + 3 * e], d[4 + 3 * e]>>
    BY DEF KeyOf, ValueOf, EntrySize
  <2>3. CASE e = i
    <3>1. (2 + 3 * e) - at = 1 /\ (3 + 3 * e) - at = 2 /\ (4 + 3 * e) - at = 3
      BY <2>1, <2>3, <1>1
    <3>2. 2 + 3 * e # 1 /\ 3 + 3 * e # 1 /\ 4 + 3 * e # 1
      BY <2>1
    <3> HIDE DEF at
    <3>3. d[2 + 3 * e] = entry[1] /\ d[3 + 3 * e] = entry[2] /\ d[4 + 3 * e] = entry[3]
      BY <3>1, <3>2, <2>1, <1>6
    <3> QED
      BY <3>3, <2>2, <2>3, <1>2, <1>3
  <2>4. CASE e # i
    <3>1. /\ (2 + 3 * e) - at \notin 1 .. 3 /\ (3 + 3 * e) - at \notin 1 .. 3
          /\ (4 + 3 * e) - at \notin 1 .. 3
      BY <2>1, <2>4, <1>1
    <3>2. 2 + 3 * e # 1 /\ 3 + 3 * e # 1 /\ 4 + 3 * e # 1
      BY <2>1
    <3> HIDE DEF at
    <3>3. d[2 + 3 * e] = c[2 + 3 * e] /\ d[3 + 3 * e] = c[3 + 3 * e] /\ d[4 + 3 * e] = c[4 + 3 * e]
      BY <3>1, <3>2, <2>1, <1>6
    <3> QED
      BY <3>3, <2>1, <2>2, <2>4
  <2> QED
    BY <2>3, <2>4
<1> QED
  BY <1>8, <1>9, <1>10, <1>11 DEF d

(* An entry's words written: the context stays one, and the map it stands  *)
(* for has the symbol's new value. *)
LEMMA EnteredIsBound ==
  ASSUME NEW c, ContextWords(c), NEW s \in Symbols, NEW v \in Nat \X Nat,
         Stops(c, s) # {}, KeyOf(c, StopOf(c, s)) = 0 => ~IsSealed(c)
  PROVE  LET d == Entered(c, StopOf(c, s), s, v)
         IN  /\ ContextWords(d) /\ Len(d) = Len(c) /\ Capacity(d) = Capacity(c)
             /\ IsSealed(d) <=> IsSealed(c)
             /\ EntriesOf(d) = WithEntry(EntriesOf(c), s, v)
             /\ s \in DOMAIN EntriesOf(c) <=> KeyOf(c, StopOf(c, s)) # 0
<1> DEFINE i == StopOf(c, s)
           d == Entered(c, i, s, v)
           k == Least(Stops(c, s))
<1>1. Shaped(c) /\ Counted(c) /\ OneEntry(c) /\ Reached(c)
  BY DEF ContextWords
<1>2. /\ k \in Entries(c) /\ i = Probe(c, s, k) /\ i \in Entries(c) /\ KeyOf(c, i) \in {0, s}
      /\ \A j \in 0 .. k - 1 : j \in Entries(c) /\ KeyOf(c, Probe(c, s, j)) \notin {0, s}
  BY <1>1, FirstStop
<1> HIDE DEF i, k
<1>3. /\ d \in Seq(Nat) /\ Len(d) = Len(c) /\ Capacity(d) = Capacity(c)
      /\ d[1] = IF KeyOf(c, i) = 0 THEN c[1] + 1 ELSE c[1]
      /\ \A e \in Entries(c) : /\ KeyOf(d, e) = IF e = i THEN s ELSE KeyOf(c, e)
                               /\ ValueOf(d, e) = IF e = i THEN v ELSE ValueOf(c, e)
  BY <1>1, <1>2, EnteredFacts
<1> HIDE DEF d
<1>4. Entries(d) = Entries(c) /\ \A t, m : Probe(d, t, m) = Probe(c, t, m)
  BY <1>3 DEF Entries, Probe
<1>5. s # 0 /\ s \in Symbols
  BY CallsAssumption
<1>6. Shaped(d)
  BY <1>1, <1>3, <1>4 DEF Shaped
<1>7. UsedIn(d) = UsedIn(c) \union {i}
  BY <1>2, <1>3, <1>4, <1>5 DEF UsedIn
<1>8. \A e \in UsedIn(c) : KeyOf(c, e) = s => e = i
  <2>1. CASE KeyOf(c, i) = 0
    BY <2>1, <1>1, <1>5, FreeMeansNew DEF i
  <2>2. CASE KeyOf(c, i) = s
    BY <2>2, <1>1, <1>2, <1>5 DEF OneEntry, UsedIn
  <2> QED
    BY <2>1, <2>2, <1>2
<1>9. c[1] \in Nat /\ SealBit \in Nat /\ Capacity(c) \in Nat /\ Capacity(c) < SealBit
  <2>1. 1 \in DOMAIN c
    BY <1>1, <1>2, EntryPlaces
  <2> QED
    BY <2>1, <1>1, RoomAssumption DEF Shaped
<1>10. Counted(d) /\ (IsSealed(d) <=> IsSealed(c))
  <2>1. CASE KeyOf(c, i) = 0
    <3>1. i \notin UsedIn(c)
      BY <2>1 DEF UsedIn
    <3>2. Cardinality(UsedIn(d)) = Cardinality(UsedIn(c)) + 1
      BY <3>1, <1>1, <1>7, UsedType, FS_AddElement
    <3>3. ~IsSealed(c) /\ c[1] = Cardinality(UsedIn(c))
      BY <2>1, <1>1 DEF i, Counted, CountOf
    <3>4. d[1] = Cardinality(UsedIn(d))
      BY <2>1, <3>2, <3>3, <1>3
    <3>5. Cardinality(UsedIn(d)) =< Capacity(c) /\ Cardinality(UsedIn(d)) \in Nat
      BY <1>3, <1>6, UsedType
    <3>6. ~IsSealed(d)
      BY <3>4, <3>5, <1>9 DEF IsSealed
    <3> QED
      BY <3>3, <3>4, <3>6 DEF Counted, CountOf
  <2>2. CASE KeyOf(c, i) # 0
    <3>1. UsedIn(d) = UsedIn(c) /\ d[1] = c[1]
      BY <2>2, <1>2, <1>3, <1>7 DEF UsedIn
    <3> QED
      BY <3>1, <1>1 DEF Counted, CountOf, IsSealed
  <2> QED
    BY <2>1, <2>2
<1>11. OneEntry(d)
  <2> SUFFICES ASSUME NEW a \in UsedIn(d), NEW b \in UsedIn(d), KeyOf(d, a) = KeyOf(d, b)
               PROVE  a = b
    BY DEF OneEntry
  <2>1. a \in Entries(c) /\ b \in Entries(c)
    BY <1>4 DEF UsedIn
  <2>2. CASE a = i \/ b = i
    BY <2>1, <2>2, <1>3, <1>7, <1>8
  <2>3. CASE a # i /\ b # i
    BY <2>1, <2>3, <1>1, <1>3, <1>7 DEF OneEntry
  <2> QED
    BY <2>2, <2>3
<1>12. Reached(d)
  <2> SUFFICES ASSUME NEW e \in UsedIn(d)
               PROVE  \E m \in Entries(c) :
                        /\ Probe(c, KeyOf(d, e), m) = e
                        /\ \A j \in 0 .. m - 1 : Probe(c, KeyOf(d, e), j) \in UsedIn(d)
    BY <1>4 DEF Reached
  <2>1. CASE e = i
    <3>1. \A j \in 0 .. k - 1 : Probe(c, s, j) \in UsedIn(c)
      BY <1>1, <1>2, <1>5, ProbeType DEF UsedIn
    <3>2. KeyOf(d, e) = s
      BY <2>1, <1>2, <1>3
    <3> QED
      BY <2>1, <3>1, <3>2, <1>2, <1>7
  <2>2. CASE e # i
    <3>1. e \in UsedIn(c) /\ KeyOf(d, e) = KeyOf(c, e)
      BY <2>2, <1>3, <1>7 DEF UsedIn
    <3> QED
      BY <3>1, <1>1, <1>7 DEF Reached
  <2> QED
    BY <2>1, <2>2
<1>13. DOMAIN EntriesOf(d) = DOMAIN EntriesOf(c) \union {s}
  <2>1. /\ DOMAIN EntriesOf(c) = {KeyOf(c, e) : e \in UsedIn(c)}
        /\ DOMAIN EntriesOf(d) = {KeyOf(d, e) : e \in UsedIn(d)}
    BY <1>1, <1>6, <1>11, EntriesAreBindings
  <2>2. \A e \in UsedIn(c) : KeyOf(d, e) = KeyOf(c, e)
    BY <1>2, <1>3 DEF UsedIn
  <2>3. KeyOf(d, i) = s
    BY <1>2, <1>3
  <2> QED
    BY <2>1, <2>2, <2>3, <1>7
<1>14. ASSUME NEW t \in DOMAIN EntriesOf(d)
       PROVE  EntriesOf(d)[t] = IF t = s THEN v ELSE EntriesOf(c)[t]
  <2>1. PICK e \in UsedIn(d) : KeyOf(d, e) = t
    BY ZenonT(30), <1>6, <1>11, EntriesAreBindings
  <2>2. EntriesOf(d)[t] = ValueOf(d, e)
    BY <2>1, <1>6, <1>11, EntriesAreBindings
  <2>3. CASE e = i
    BY <2>1, <2>2, <2>3, <1>2, <1>3
  <2>4. CASE e # i
    <3>1. e \in UsedIn(c) /\ e \in Entries(c)
      BY <2>4, <1>7 DEF UsedIn
    <3>2. KeyOf(c, e) = t /\ ValueOf(d, e) = ValueOf(c, e) /\ t # s
      BY <2>1, <2>4, <3>1, <1>3, <1>8
    <3> QED
      BY <2>2, <3>1, <3>2, <1>1, EntriesAreBindings
  <2> QED
    BY <2>3, <2>4
<1>15. EntriesOf(d) = WithEntry(EntriesOf(c), s, v)
  <2>1. EntriesOf(d) = [t \in DOMAIN EntriesOf(d) |-> EntriesOf(d)[t]]
    BY <1>6, <1>11, EntriesAreBindings
  <2> QED
    BY <2>1, <1>13, <1>14 DEF WithEntry
<1>16. s \in DOMAIN EntriesOf(c) <=> KeyOf(c, i) # 0
  <2>1. DOMAIN EntriesOf(c) = {KeyOf(c, e) : e \in UsedIn(c)}
    BY <1>1, EntriesAreBindings
  <2> QED
    BY <2>1, <1>2, <1>5, <1>8 DEF UsedIn
<1> QED
  BY <1>3, <1>6, <1>10, <1>11, <1>12, <1>15, <1>16 DEF ContextWords, i, d

(* The map's own fields, and what a put with an effect makes of them. *)
LEMMA PutRecord ==
  ASSUME NEW cap, NEW sealed, NEW entries, NEW s, NEW v,
         PutResult([cap |-> cap, sealed |-> sealed, entries |-> entries], s) = "ok"
  PROVE  Put([cap |-> cap, sealed |-> sealed, entries |-> entries], s, v)
           = [cap |-> cap, sealed |-> sealed, entries |-> WithEntry(entries, s, v)]
<1> DEFINE Field == {"cap", "sealed", "entries"}
           bound == WithEntry(entries, s, v)
           r == [cap |-> cap, sealed |-> sealed, entries |-> entries]
           q == [cap |-> cap, sealed |-> sealed, entries |-> bound]
<1>1. Put(r, s, v) = [r EXCEPT !.entries = bound]
  BY DEF Put
<1> HIDE DEF bound
<1>2. DOMAIN r = Field /\ q = [x \in Field |-> q[x]]
  OBVIOUS
<1>3. \A x \in Field : q[x] = IF x = "entries" THEN bound ELSE r[x]
  OBVIOUS
<1> HIDE DEF Field, r, q
<1>4. [r EXCEPT !.entries = bound] = q
  BY <1>2, <1>3
<1> QED
  BY <1>1, <1>4 DEF r, q, bound

(* Why a put is refused or not, for a map given field by field. *)
LEMMA PutResults ==
  ASSUME NEW cap \in Nat, NEW sealed, sealed = TRUE \/ sealed = FALSE, NEW entries, NEW s
  PROVE  LET result == PutResult([cap |-> cap, sealed |-> sealed, entries |-> entries], s)
         IN  /\ cap = 0 => result = "SymbolTableFull"
             /\ cap # 0 /\ s \in DOMAIN entries => result = "ok"
             /\ cap # 0 /\ s \notin DOMAIN entries /\ sealed = TRUE => result = "WordNotFound"
             /\ cap # 0 /\ s \notin DOMAIN entries /\ sealed = FALSE
                  => result = IF Cardinality(DOMAIN entries) < cap THEN "ok" ELSE "ContextFull"
<1> DEFINE r == [cap |-> cap, sealed |-> sealed, entries |-> entries]
<1>1. r.cap = cap /\ r.sealed = sealed /\ r.entries = entries
  OBVIOUS
<1> HIDE DEF r
<1>2. Bound(r, s) <=> s \in DOMAIN entries
  BY <1>1 DEF Bound
<1>3. cap = 0 => PutResult(r, s) = "SymbolTableFull"
  BY <1>1 DEF PutResult
<1>4. cap # 0 /\ s \in DOMAIN entries => PutResult(r, s) = "ok"
  BY <1>1, <1>2 DEF PutResult
<1>5. cap # 0 /\ s \notin DOMAIN entries /\ sealed = TRUE => PutResult(r, s) = "WordNotFound"
  BY <1>1, <1>2 DEF PutResult
<1>6. cap # 0 /\ s \notin DOMAIN entries /\ sealed = FALSE
        => PutResult(r, s) = IF Cardinality(DOMAIN entries) < cap THEN "ok" ELSE "ContextFull"
  <2> SUFFICES ASSUME cap # 0, s \notin DOMAIN entries, sealed = FALSE
               PROVE  PutResult(r, s) = IF Cardinality(DOMAIN entries) < cap THEN "ok"
                                        ELSE "ContextFull"
    OBVIOUS
  <2>1. r.sealed = FALSE /\ ~Bound(r, s) /\ r.cap # 0
    BY <1>1, <1>2
  <2>2. PutResult(r, s) = IF Cardinality(DOMAIN r.entries) < r.cap THEN "ok" ELSE "ContextFull"
    BY <2>1 DEF PutResult
  <2> QED
    BY <2>2, <1>1
<1> QED
  BY <1>3, <1>4, <1>5, <1>6 DEF r

(* put is the map's Put, answer and effect: it refuses for want of         *)
(* capacity, for the seal, or because as many symbols are bound as there   *)
(* are entries, and writes nothing then. *)
LEMMA PutIsPut ==
  ASSUME NEW c, ContextWords(c), NEW s \in Symbols, NEW v \in Nat \X Nat
  PROVE  /\ put(c, s, v).answer = PutResult(ContextOf(c), s)
         /\ ContextOf(put(c, s, v).words) = Put(ContextOf(c), s, v)
         /\ ContextWords(put(c, s, v).words) /\ Len(put(c, s, v).words) = Len(c)
<1> DEFINE cap == Capacity(c)
           sealed == IsSealed(c)
           entries == EntriesOf(c)
           result == PutResult(ContextOf(c), s)
           Full == Stops(c, s) = {}
           Free == KeyOf(c, StopOf(c, s)) = 0
<1>1. Shaped(c) /\ Counted(c) /\ OneEntry(c) /\ Reached(c) /\ cap \in Nat
  BY DEF ContextWords, Shaped
<1>2. ContextOf(c) = [cap |-> cap, sealed |-> sealed, entries |-> entries]
  BY DEF ContextOf
<1>3. sealed = TRUE \/ sealed = FALSE
  BY DEF IsSealed
<1>4. /\ DOMAIN entries = {KeyOf(c, i) : i \in UsedIn(c)}
      /\ Cardinality(DOMAIN entries) = Cardinality(UsedIn(c))
  BY <1>1, EntriesAreBindings, BindingsCount
<1>5. Full => s \notin DOMAIN entries /\ Cardinality(DOMAIN entries) = cap
  BY <1>1, <1>4, NoStop, EntriesType
<1>6. ~Full /\ Free => s \notin DOMAIN entries
  BY <1>1, <1>4, FreeMeansNew
<1>7. ~Full => cap # 0
  BY <1>1 DEF Stops
<1>8. ~Full /\ ~Free => s \in DOMAIN entries
  <2> SUFFICES ASSUME ~Full, ~Free PROVE s \in DOMAIN entries
    OBVIOUS
  <2>1. StopOf(c, s) \in Entries(c) /\ KeyOf(c, StopOf(c, s)) \in {0, s}
    BY <1>1, FirstStop
  <2> QED
    BY <2>1, <1>4 DEF UsedIn
<1>9. ~Full /\ Free => Cardinality(DOMAIN entries) < cap
  <2> SUFFICES ASSUME ~Full, Free PROVE Cardinality(DOMAIN entries) < cap
    OBVIOUS
  <2>1. StopOf(c, s) \in Entries(c) /\ StopOf(c, s) \notin UsedIn(c)
    BY <1>1, FirstStop DEF UsedIn
  <2> QED
    BY <2>1, <1>1, <1>4, UsedType
<1> DEFINE refused(error) == [answer |-> error, words |-> c]
<1>10. /\ cap = 0 => put(c, s, v) = refused("SymbolTableFull")
       /\ cap # 0 /\ sealed /\ (Full \/ Free) => put(c, s, v) = refused("WordNotFound")
       /\ cap # 0 /\ ~sealed /\ Full => put(c, s, v) = refused("ContextFull")
       /\ ~Full /\ (Free => ~sealed) =>
            put(c, s, v) = [answer |-> "ok", words |-> Entered(c, StopOf(c, s), s, v)]
  <2>1. cap = 0 => put(c, s, v) = refused("SymbolTableFull")
    BY Zenon DEF put
  <2>2. cap # 0 /\ sealed /\ (Full \/ Free) => put(c, s, v) = refused("WordNotFound")
    BY Zenon DEF put
  <2>3. cap # 0 /\ ~sealed /\ Full => put(c, s, v) = refused("ContextFull")
    BY Zenon DEF put
  <2>4. ~Full /\ (Free => ~sealed) =>
          put(c, s, v) = [answer |-> "ok", words |-> Entered(c, StopOf(c, s), s, v)]
    BY <1>7, Zenon DEF put
  <2> QED
    BY <2>1, <2>2, <2>3, <2>4
<1> HIDE DEF cap, sealed, entries, Full, Free
<1>11. /\ cap = 0 => result = "SymbolTableFull"
       /\ cap # 0 /\ s \in DOMAIN entries => result = "ok"
       /\ cap # 0 /\ s \notin DOMAIN entries /\ sealed = TRUE => result = "WordNotFound"
       /\ cap # 0 /\ s \notin DOMAIN entries /\ sealed = FALSE
            => result = IF Cardinality(DOMAIN entries) < cap THEN "ok" ELSE "ContextFull"
  <2> DEFINE r == PutResult([cap |-> cap, sealed |-> sealed, entries |-> entries], s)
  <2>1. /\ cap = 0 => r = "SymbolTableFull"
        /\ cap # 0 /\ s \in DOMAIN entries => r = "ok"
        /\ cap # 0 /\ s \notin DOMAIN entries /\ sealed = TRUE => r = "WordNotFound"
        /\ cap # 0 /\ s \notin DOMAIN entries /\ sealed = FALSE
             => r = IF Cardinality(DOMAIN entries) < cap THEN "ok" ELSE "ContextFull"
    BY <1>1, <1>3, PutResults, Zenon
  <2>2. result = r
    BY <1>2, Zenon
  <2> QED
    BY <2>1, <2>2, Zenon
<1> HIDE DEF result
<1>12. ASSUME NEW error, put(c, s, v) = refused(error), result = error, error # "ok"
       PROVE  /\ put(c, s, v).answer = result
              /\ ContextOf(put(c, s, v).words) = Put(ContextOf(c), s, v)
              /\ ContextWords(put(c, s, v).words) /\ Len(put(c, s, v).words) = Len(c)
  <2>1. put(c, s, v).answer = error /\ put(c, s, v).words = c
    BY <1>12
  <2>2. Put(ContextOf(c), s, v) = ContextOf(c)
    BY <1>12 DEF Put, result
  <2> QED
    BY <2>1, <2>2, <1>12
<1>13. CASE cap = 0
  BY <1>10, <1>11, <1>12, <1>13 DEF result
<1>14. CASE cap # 0 /\ sealed /\ (Full \/ Free)
  <2>1. result = "WordNotFound"
    BY <1>3, <1>5, <1>6, <1>11, <1>14
  <2> QED
    BY <2>1, <1>10, <1>12, <1>14 DEF result
<1>15. CASE cap # 0 /\ ~sealed /\ Full
  <2>1. result = "ContextFull"
    BY <1>1, <1>3, <1>5, <1>11, <1>15
  <2> QED
    BY <2>1, <1>10, <1>12, <1>15 DEF result
<1>16. CASE ~Full /\ (Free => ~sealed)
  <2> DEFINE d == Entered(c, StopOf(c, s), s, v)
  <2>1. result = "ok"
    BY <1>3, <1>6, <1>7, <1>8, <1>9, <1>11, <1>16
  <2>2. put(c, s, v).answer = "ok" /\ put(c, s, v).words = d
    BY <1>10, <1>16
  <2>3. /\ ContextWords(d) /\ Len(d) = Len(c) /\ Capacity(d) = cap
        /\ IsSealed(d) <=> IsSealed(c)
        /\ EntriesOf(d) = WithEntry(entries, s, v)
    BY <1>16, EnteredIsBound DEF Full, Free, sealed, cap, entries
  <2> HIDE DEF d
  <2>4. IsSealed(d) = sealed
    BY <2>3 DEF sealed, IsSealed
  <2>5. ContextOf(d) = [cap |-> cap, sealed |-> sealed, entries |-> WithEntry(entries, s, v)]
    BY <2>3, <2>4 DEF ContextOf
  <2>6. Put(ContextOf(c), s, v) = ContextOf(d)
    BY <2>1, <2>5, <1>2, PutRecord DEF result
  <2> QED
    BY <2>1, <2>2, <2>3, <2>6 DEF result
<1> QED
  BY <1>13, <1>14, <1>15, <1>16

(* Sealing sets a bit of the count and nothing else: what is bound stays,  *)
(* and is counted. *)
LEMMA SealIsSeal ==
  ASSUME NEW c, ContextWords(c), NEW d \in Seq(Nat), Len(d) = Len(c),
         d[1] = IF c[1] >= SealBit THEN c[1] ELSE c[1] + SealBit,
         \A j \in 2 .. Len(c) : d[j] = c[j]
  PROVE  ContextWords(d) /\ ContextOf(d) = Seal(ContextOf(c))
<1>1. Shaped(c) /\ Counted(c) /\ OneEntry(c) /\ Reached(c)
  BY DEF ContextWords
<1>2. Capacity(d) = Capacity(c) /\ Entries(d) = Entries(c) /\ \A t, m : Probe(d, t, m) = Probe(c, t, m)
  BY DEF Capacity, Entries, Probe
<1>3. ASSUME NEW e \in Entries(c)
      PROVE  KeyOf(d, e) = KeyOf(c, e) /\ ValueOf(d, e) = ValueOf(c, e)
  <2>1. /\ e \in Nat /\ DOMAIN c = 1 .. Len(c) /\ Len(c) \in Nat
        /\ 2 + 3 * e \in DOMAIN c /\ 3 + 3 * e \in DOMAIN c /\ 4 + 3 * e \in DOMAIN c
        /\ KeyOf(c, e) = c[2 + 3 * e] /\ ValueOf(c, e) = <<c[3 + 3 * e], c[4 + 3 * e]>>
    BY <1>1, EntryPlaces
  <2>2. 2 + 3 * e \in 2 .. Len(c) /\ 3 + 3 * e \in 2 .. Len(c) /\ 4 + 3 * e \in 2 .. Len(c)
    BY <2>1
  <2>3. KeyOf(d, e) = d[2 + 3 * e] /\ ValueOf(d, e) = <<d[3 + 3 * e], d[4 + 3 * e]>>
    BY DEF KeyOf, ValueOf, EntrySize
  <2> QED
    BY <2>1, <2>2, <2>3
<1>4. UsedIn(d) = UsedIn(c)
  BY <1>2, <1>3 DEF UsedIn
<1>5. c[1] \in Nat /\ SealBit \in Nat
  BY <1>1, RoomAssumption DEF Shaped, EntrySize
<1>6. IsSealed(d) /\ CountOf(d) = CountOf(c)
  <2>1. CASE c[1] >= SealBit
    BY <2>1, <1>5 DEF IsSealed, CountOf
  <2>2. CASE ~(c[1] >= SealBit)
    <3>1. d[1] = c[1] + SealBit
      BY <2>2
    <3>2. d[1] >= SealBit /\ d[1] - SealBit = c[1]
      BY <3>1, <1>5
    <3> QED
      BY <2>2, <3>2 DEF IsSealed, CountOf
  <2> QED
    BY <2>1, <2>2
<1>7. Shaped(d) /\ Counted(d) /\ OneEntry(d)
  BY <1>1, <1>2, <1>3, <1>4, <1>6 DEF Shaped, Counted, OneEntry, UsedIn
<1>8. Reached(d)
  BY <1>1, <1>2, <1>3, <1>4 DEF Reached, UsedIn
<1>9. EntriesOf(d) = EntriesOf(c)
  <2>1. /\ EntriesOf(c) = [s \in DOMAIN EntriesOf(c) |-> EntriesOf(c)[s]]
        /\ DOMAIN EntriesOf(c) = {KeyOf(c, i) : i \in UsedIn(c)}
        /\ \A i \in UsedIn(c) : EntriesOf(c)[KeyOf(c, i)] = ValueOf(c, i)
    BY <1>1, EntriesAreBindings
  <2>2. /\ EntriesOf(d) = [s \in DOMAIN EntriesOf(d) |-> EntriesOf(d)[s]]
        /\ DOMAIN EntriesOf(d) = {KeyOf(d, i) : i \in UsedIn(d)}
        /\ \A i \in UsedIn(d) : EntriesOf(d)[KeyOf(d, i)] = ValueOf(d, i)
    BY <1>7, EntriesAreBindings
  <2>3. DOMAIN EntriesOf(d) = DOMAIN EntriesOf(c)
    BY <2>1, <2>2, <1>3, <1>4 DEF UsedIn
  <2>4. ASSUME NEW s \in DOMAIN EntriesOf(c) PROVE EntriesOf(d)[s] = EntriesOf(c)[s]
    <3>1. PICK i \in UsedIn(c) : KeyOf(c, i) = s
      BY <2>1
    <3>2. KeyOf(d, i) = s /\ ValueOf(d, i) = ValueOf(c, i) /\ i \in UsedIn(d)
      BY <3>1, <1>3, <1>4 DEF UsedIn
    <3> QED
      BY <3>1, <3>2, <2>1, <2>2
  <2> QED
    BY <2>1, <2>2, <2>3, <2>4
<1>10. ContextOf(d) = Seal(ContextOf(c))
  <2> DEFINE Field == {"cap", "sealed", "entries"}
             t == TRUE
             r == ContextOf(c)
             q == [cap |-> Capacity(c), sealed |-> t, entries |-> EntriesOf(c)]
  <2>1. IsSealed(d) = t
    BY <1>6 DEF IsSealed
  <2>2. ContextOf(d) = q
    BY <2>1, <1>2, <1>9 DEF ContextOf
  <2>3. Seal(r) = [r EXCEPT !.sealed = t]
    BY DEF Seal
  <2> HIDE DEF t
  <2>4. DOMAIN r = Field /\ q = [x \in Field |-> q[x]]
    BY DEF ContextOf
  <2>5. \A x \in Field : q[x] = IF x = "sealed" THEN t ELSE r[x]
    BY DEF ContextOf
  <2> HIDE DEF Field, r, q
  <2>6. [r EXCEPT !.sealed = t] = q
    BY <2>4, <2>5
  <2> QED
    BY <2>2, <2>3, <2>6 DEF r
<1> QED
  BY <1>7, <1>8, <1>10 DEF ContextWords

(* Words that are all zero are an empty context. *)
LEMMA ZerosAreEmpty ==
  ASSUME NEW size \in Nat, size < SealBit, NEW c \in Seq(Nat), Len(c) = EntrySize * size + 1,
         \A i \in 1 .. Len(c) : c[i] = 0
  PROVE  ContextWords(c) /\ ContextOf(c) = EmptyContext(size)
<1>1. Len(c) = 3 * size + 1 /\ Capacity(c) = size
  BY DEF EntrySize, Capacity
<1>2. \A e \in Entries(c) : KeyOf(c, e) = 0
  BY <1>1 DEF Entries, KeyOf, EntrySize
<1>3. Shaped(c) /\ UsedIn(c) = {}
  BY <1>1, <1>2 DEF Shaped, UsedIn
<1>4. c[1] = 0 /\ ~IsSealed(c)
  BY <1>1, RoomAssumption DEF IsSealed
<1>5. Counted(c)
  BY <1>3, <1>4, FS_EmptySet DEF Counted, CountOf
<1>6. OneEntry(c) /\ Reached(c)
  BY <1>3 DEF OneEntry, Reached
<1>7. EntriesOf(c) = << >>
  <2>1. DOMAIN EntriesOf(c) = {}
    BY <1>3, <1>6, EntriesAreBindings
  <2>2. EntriesOf(c) = [s \in DOMAIN EntriesOf(c) |-> EntriesOf(c)[s]]
    BY <1>3, <1>6, EntriesAreBindings
  <2> QED
    BY <2>1, <2>2
<1>8. ContextOf(c) = EmptyContext(size)
  <2>1. IsSealed(c) = FALSE
    BY <1>4 DEF IsSealed
  <2> QED
    BY <2>1, <1>1, <1>7 DEF ContextOf, EmptyContext
<1> QED
  BY <1>3, <1>5, <1>6, <1>8 DEF ContextWords

-----------------------------------------------------------------------------
(* Strings in words.                                                       *)

(* Four bytes come out of their word as they went in. *)
WordOf(a, b, c, d) == a + 256 * b + 65536 * c + 16777216 * d

Byte == 0 .. 255
Digit(w, r) == (w \div Shifts[r + 1]) % 256

(* Its quotient. *)
LEMMA DivOfSum ==
  ASSUME NEW n \in Nat \ {0}, NEW q \in Nat, NEW r \in 0 .. n - 1
  PROVE  (q * n + r) \div n = q
OBVIOUS

(* The four bytes a word was packed from, read back one by one. *)
LEMMA BytesOfWord ==
  ASSUME NEW a \in Byte, NEW b \in Byte, NEW c \in Byte, NEW d \in Byte
  PROVE  /\ WordOf(a, b, c, d) \in Nat
         /\ Digit(WordOf(a, b, c, d), 0) = a /\ Digit(WordOf(a, b, c, d), 1) = b
         /\ Digit(WordOf(a, b, c, d), 2) = c /\ Digit(WordOf(a, b, c, d), 3) = d
<1> DEFINE w == WordOf(a, b, c, d)
           x == b + 256 * c + 65536 * d
           y == c + 256 * d
<1>0. a \in 0 .. 255 /\ b \in 0 .. 255 /\ c \in 0 .. 255 /\ d \in 0 .. 255
  BY DEF Byte
<1>1. w \in Nat /\ x \in Nat /\ y \in Nat
  BY <1>0, SMT DEF WordOf
<1>2. w = x * 256 + a /\ x = y * 256 + b /\ y = d * 256 + c
  BY <1>0, SMT DEF WordOf
<1>3. w = y * 65536 + (b * 256 + a) /\ w = d * 16777216 + (c * 65536 + b * 256 + a)
  BY <1>0, SMT DEF WordOf
<1> HIDE DEF w, x, y
<1>4. w % 256 = a /\ w \div 256 = x /\ x % 256 = b /\ y % 256 = c /\ d % 256 = d
  <2>1. 256 \in Nat \ {0} /\ a \in 0 .. 256 - 1 /\ b \in 0 .. 256 - 1 /\ c \in 0 .. 256 - 1
    BY <1>0, SMT
  <2>2. w % 256 = a /\ w \div 256 = x
    BY <1>1, <1>2, <2>1, ModOfSum, DivOfSum, SMT
  <2>3. x % 256 = b /\ y % 256 = c /\ d % 256 = d
    BY <1>0, <1>1, <1>2, <2>1, ModOfSum, SMT
  <2> QED
    BY <2>2, <2>3
<1>5. w \div 65536 = y
  <2> DEFINE n == 65536
             r == b * 256 + a
  <2>1. r \in Nat /\ r < n /\ w = y * n + r
    BY <1>0, <1>3, SMT
  <2> HIDE DEF r
  <2>2. w \div n = y
    BY <1>0, <2>1, <1>1, SMT
  <2> QED
    BY <2>2, SMT
<1>6. w \div 16777216 = d
  <2> DEFINE n == 16777216
             r == c * 65536 + b * 256 + a
  <2>1. r \in Nat /\ r < n /\ w = d * n + r
    BY <1>0, <1>3, SMT
  <2> HIDE DEF r
  <2>2. w \div n = d
    BY <1>0, <2>1, <1>1, SMT
  <2> QED
    BY <2>2, SMT
<1>7. w \div 1 = w
  BY <1>1, SMT
<1>8. /\ Digit(w, 0) = (w \div 1) % 256 /\ Digit(w, 1) = (w \div 256) % 256
      /\ Digit(w, 2) = (w \div 65536) % 256 /\ Digit(w, 3) = (w \div 16777216) % 256
  BY SMT DEF Digit, Shifts
<1> QED
  BY <1>1, <1>4, <1>5, <1>6, <1>7, <1>8, SMT DEF w

(* The byte at a place of a word of a string; those past its end are zero. *)
PackedByte(bytes, w, j) == IF 4 * (w - 1) + j =< Len(bytes) THEN bytes[4 * (w - 1) + j] ELSE 0

(* What is packed: as many words as are needed, each of four bytes. *)
LEMMA PackedWords ==
  ASSUME NEW bytes \in Seq(Byte)
  PROVE  /\ Packed(bytes) \in Seq(Nat) /\ Len(Packed(bytes)) = (Len(bytes) + 3) \div 4
         /\ \A w \in 1 .. (Len(bytes) + 3) \div 4 :
              /\ \A j \in 1 .. 4 : PackedByte(bytes, w, j) \in Byte
              /\ Packed(bytes)[w] = WordOf(PackedByte(bytes, w, 1), PackedByte(bytes, w, 2),
                                           PackedByte(bytes, w, 3), PackedByte(bytes, w, 4))
<1> DEFINE n == (Len(bytes) + 3) \div 4
           Word(w) == WordOf(PackedByte(bytes, w, 1), PackedByte(bytes, w, 2),
                             PackedByte(bytes, w, 3), PackedByte(bytes, w, 4))
<1>1. Len(bytes) \in Nat /\ n \in Nat
  OBVIOUS
<1>2. ASSUME NEW w \in 1 .. n, NEW j \in 1 .. 4 PROVE PackedByte(bytes, w, j) \in Byte
  <2> DEFINE i == 4 * (w - 1) + j
  <2>1. i >= 1 /\ i \in Nat
    BY <1>1
  <2>2. PackedByte(bytes, w, j) = IF i =< Len(bytes) THEN bytes[i] ELSE 0
    BY DEF PackedByte
  <2> HIDE DEF i
  <2>3. CASE i =< Len(bytes)
    <3>1. i \in 1 .. Len(bytes)
      BY <2>1, <2>3, <1>1
    <3>2. bytes[i] \in Byte
      BY <3>1
    <3> QED
      BY <3>2, <2>2, <2>3
  <2>4. CASE ~(i =< Len(bytes))
    BY <2>2, <2>4 DEF Byte
  <2> QED
    BY <2>3, <2>4
<1>3. Packed(bytes) = [w \in 1 .. n |-> Word(w)]
  BY SMT DEF Packed, PackedByte, WordBytes, WordOf
<1>4. \A w \in 1 .. n : Word(w) \in Nat
  <2> SUFFICES ASSUME NEW w \in 1 .. n PROVE Word(w) \in Nat
    OBVIOUS
  <2>1. /\ PackedByte(bytes, w, 1) \in Byte /\ PackedByte(bytes, w, 2) \in Byte
        /\ PackedByte(bytes, w, 3) \in Byte /\ PackedByte(bytes, w, 4) \in Byte
    BY <1>2
  <2> QED
    BY <2>1, BytesOfWord, Zenon
<1> HIDE DEF n, Word
<1>5. Packed(bytes) \in Seq(Nat) /\ Len(Packed(bytes)) = n
  BY <1>1, <1>3, <1>4
<1> QED
  BY <1>2, <1>3, <1>5 DEF n, Word

(* What Module::alloc_string packs into words, Module::to_value reads back *)
(* from them: the same bytes, whatever their number and whatever zeros     *)
(* among them. *)
THEOREM StringReadsBack ==
  ASSUME NEW bytes \in Seq(Byte)
  PROVE  /\ StringWords(bytes) \in Seq(Nat) /\ Len(StringWords(bytes)) = 1 + (Len(bytes) + 3) \div 4
         /\ StringIn(StringWords(bytes)) = bytes
<1> DEFINE words == StringWords(bytes)
           packed == Packed(bytes)
           n == (Len(bytes) + 3) \div 4
<1>1. packed \in Seq(Nat) /\ Len(packed) = n /\ Len(bytes) \in Nat /\ n \in Nat
  BY PackedWords
<1> HIDE DEF packed, n
<1>2. words = <<Len(bytes)>> \o packed
  BY DEF StringWords, packed
<1>3. <<Len(bytes)>> \in Seq(Nat) /\ Len(<<Len(bytes)>>) = 1 /\ <<Len(bytes)>>[1] = Len(bytes)
  BY <1>1
<1> HIDE DEF words
<1>4. /\ words \in Seq(Nat) /\ Len(words) = 1 + n
      /\ \A i \in 1 .. 1 + n : words[i] = IF i =< 1 THEN <<Len(bytes)>>[i] ELSE packed[i - 1]
  <2>1. /\ words \in Seq(Nat) /\ Len(words) = Len(<<Len(bytes)>>) + Len(packed)
        /\ \A i \in 1 .. Len(<<Len(bytes)>>) + Len(packed) :
             words[i] = IF i =< Len(<<Len(bytes)>>) THEN <<Len(bytes)>>[i]
                        ELSE packed[i - Len(<<Len(bytes)>>)]
    BY <1>1, <1>2, <1>3, ConcatProperties
  <2> QED
    BY <2>1, <1>1, <1>3
<1>5. words[1] = Len(bytes)
  BY <1>1, <1>3, <1>4
<1>6. Tail(words) = packed
  <2>1. words # << >>
    BY <1>1, <1>4
  <2>2. /\ Tail(words) \in Seq(Nat) /\ Len(Tail(words)) = n
        /\ \A i \in 1 .. n : Tail(words)[i] = words[i + 1]
    BY <2>1, <1>1, <1>4, HeadTailProperties
  <2>3. \A i \in 1 .. n : words[i + 1] = packed[i]
    BY <1>1, <1>4
  <2> QED
    BY <2>2, <2>3, <1>1, SeqEqual
<1>7. ASSUME NEW i \in 1 .. Len(bytes) PROVE ByteOf(packed, i - 1) = bytes[i]
  <2> DEFINE q == (i - 1) \div 4
             r == (i - 1) % 4
             w == q + 1
  <2>1. i - 1 \in Nat /\ q \in Nat /\ r \in 0 .. 3 /\ i = 4 * q + r + 1
    OBVIOUS
  <2>2. w \in 1 .. n
    BY <1>1, <2>1 DEF n
  <2>3. ByteOf(packed, i - 1) = Digit(packed[w], r)
    BY SMT DEF ByteOf, WordBytes, Digit
  <2>4. bytes[i] = PackedByte(bytes, w, r + 1)
    BY <2>1 DEF PackedByte
  <2> HIDE DEF q, r, w
  <2>5. /\ PackedByte(bytes, w, 1) \in Byte /\ PackedByte(bytes, w, 2) \in Byte
        /\ PackedByte(bytes, w, 3) \in Byte /\ PackedByte(bytes, w, 4) \in Byte
        /\ packed[w] = WordOf(PackedByte(bytes, w, 1), PackedByte(bytes, w, 2),
                              PackedByte(bytes, w, 3), PackedByte(bytes, w, 4))
    BY <2>2, PackedWords DEF packed, n
  <2>6. /\ Digit(packed[w], 0) = PackedByte(bytes, w, 1)
        /\ Digit(packed[w], 1) = PackedByte(bytes, w, 2)
        /\ Digit(packed[w], 2) = PackedByte(bytes, w, 3)
        /\ Digit(packed[w], 3) = PackedByte(bytes, w, 4)
    <3> DEFINE a == PackedByte(bytes, w, 1)
               b == PackedByte(bytes, w, 2)
               c == PackedByte(bytes, w, 3)
               d == PackedByte(bytes, w, 4)
    <3>1. a \in Byte /\ b \in Byte /\ c \in Byte /\ d \in Byte
      BY <2>5
    <3>2. packed[w] = WordOf(a, b, c, d)
      BY <2>5
    <3> HIDE DEF a, b, c, d
    <3>3. /\ Digit(WordOf(a, b, c, d), 0) = a /\ Digit(WordOf(a, b, c, d), 1) = b
          /\ Digit(WordOf(a, b, c, d), 2) = c /\ Digit(WordOf(a, b, c, d), 3) = d
      BY <3>1, BytesOfWord
    <3>4. /\ Digit(packed[w], 0) = a /\ Digit(packed[w], 1) = b
          /\ Digit(packed[w], 2) = c /\ Digit(packed[w], 3) = d
      BY <3>2, <3>3
    <3> QED
      BY <3>4 DEF a, b, c, d
  <2>7. 0 + 1 = 1 /\ 1 + 1 = 2 /\ 2 + 1 = 3 /\ 3 + 1 = 4
    OBVIOUS
  <2>8. r = 0 \/ r = 1 \/ r = 2 \/ r = 3
    BY <2>1
  <2> QED
    BY <2>3, <2>4, <2>6, <2>7, <2>8, SMT
<1>8. StringIn(words) = bytes
  <2>1. StringIn(words) = [i \in 1 .. Len(bytes) |-> ByteOf(packed, i - 1)]
    BY <1>5, <1>6 DEF StringIn
  <2>2. bytes = [i \in 1 .. Len(bytes) |-> bytes[i]]
    OBVIOUS
  <2> QED
    BY <2>1, <2>2, <1>7
<1> QED
  BY <1>4, <1>8 DEF words, n

-----------------------------------------------------------------------------
(* Words written, and memory taken.                                        *)

Memories(room) == {m \in [0 .. room -> Nat] : m[0] =< room}

(* The words of a memory are numbers, and no more of them are in use than it has. *)
LEMMA MemoryType ==
  ASSUME NEW room \in Nat, NEW m \in Memories(room)
  PROVE  m \in [0 .. room -> Nat] /\ m[0] \in Nat /\ m[0] =< room
BY DEF Memories

(* Nothing but the words stored changes. *)
LEMMA StoredFacts ==
  ASSUME NEW room \in Nat, NEW m \in [0 .. room -> Nat], NEW from \in Nat,
         NEW words \in Seq(Nat), from + Len(words) =< room
  PROVE  /\ Stored(m, from, words) \in [0 .. room -> Nat]
         /\ \A i \in 0 .. room : i =< from \/ i > from + Len(words) => Stored(m, from, words)[i] = m[i]
         /\ \A i \in 1 .. Len(words) : Stored(m, from, words)[from + i] = words[i]
<1> DEFINE n == Len(words)
           stored == Stored(m, from, words)
<1>1. DOMAIN m = 0 .. room /\ DOMAIN words = 1 .. n /\ n \in Nat /\ \A i \in 1 .. n : words[i] \in Nat
  OBVIOUS
<1>2. stored = [i \in 0 .. room |-> IF i - from \in 1 .. n THEN words[i - from] ELSE m[i]]
  BY <1>1 DEF Stored
<1> HIDE DEF n, stored
<1>3. ASSUME NEW i \in 0 .. room
      PROVE  stored[i] = (IF i - from \in 1 .. n THEN words[i - from] ELSE m[i]) /\ stored[i] \in Nat
  BY <1>1, <1>2
<1>4. stored \in [0 .. room -> Nat]
  BY <1>2, <1>3
<1>5. ASSUME NEW i \in 0 .. room, i =< from \/ i > from + n
      PROVE  stored[i] = m[i]
  <2>1. i - from \notin 1 .. n
    BY <1>1, <1>5
  <2> QED
    BY <2>1, <1>3
<1>6. ASSUME NEW i \in 1 .. n
      PROVE  stored[from + i] = words[i]
  <2>1. from + i \in 0 .. room
    BY <1>1 DEF n
  <2>2. (from + i) - from = i
    BY <1>1
  <2> QED
    BY <2>1, <2>2, <1>3
<1> QED
  BY <1>4, <1>5, <1>6 DEF n, stored

(* So it is when word 0 counts more words than before, or fewer. *)
LEMMA InitFacts ==
  ASSUME NEW room \in Nat, NEW m \in [0 .. room -> Nat], NEW n \in 0 .. room
  PROVE  /\ init(m, n) \in Memories(room) /\ init(m, n)[0] = n
         /\ \A i \in 1 .. room : init(m, n)[i] = m[i]
BY DEF init, Memories

(* alloc: the words follow those in use. *)
LEMMA TakenFacts ==
  ASSUME NEW room \in Nat, NEW m \in Memories(room), NEW u \in Nat, u = m[0],
         NEW words \in Seq(Nat), u + Len(words) =< room
  PROVE  /\ Taken(m, words) \in Memories(room) /\ Taken(m, words)[0] = u + Len(words)
         /\ \A i \in 1 .. u : Taken(m, words)[i] = m[i]
         /\ \A i \in 1 .. Len(words) : Taken(m, words)[u + i] = words[i]
<1> DEFINE stored == Stored(m, u, words)
           n == Len(words)
<1>1. m \in [0 .. room -> Nat] /\ u \in Nat /\ u =< room /\ n \in Nat /\ u + n =< room
  BY MemoryType
<1>2. /\ stored \in [0 .. room -> Nat]
      /\ \A i \in 0 .. room : i =< u \/ i > u + n => stored[i] = m[i]
      /\ \A i \in 1 .. n : stored[u + i] = words[i]
  BY ZenonT(30), <1>1, StoredFacts
<1>3. Taken(m, words) = init(stored, u + n)
  BY DEF Taken, len
<1> HIDE DEF stored, n
<1>4. u + n \in 0 .. room
  BY <1>1
<1>5. /\ init(stored, u + n) \in Memories(room) /\ init(stored, u + n)[0] = u + n
      /\ \A i \in 1 .. room : init(stored, u + n)[i] = stored[i]
  BY <1>2, <1>4, InitFacts
<1>6. ASSUME NEW i \in 1 .. u PROVE Taken(m, words)[i] = m[i]
  <2>1. i \in 1 .. room /\ i \in 0 .. room /\ i =< u
    BY <1>1
  <2> QED
    BY <2>1, <1>2, <1>3, <1>5
<1>7. ASSUME NEW i \in 1 .. n PROVE Taken(m, words)[u + i] = words[i]
  <2>1. u + i \in 1 .. room
    BY SMTT(30), <1>1
  <2> QED
    BY <2>1, <1>2, <1>3, <1>5
<1> QED
  BY <1>3, <1>5, <1>6, <1>7 DEF n

(* A block taken: its length, and the words after it as they were. *)
LEMMA EmptyBlockFacts ==
  ASSUME NEW room \in Nat, NEW m \in Memories(room), NEW u \in Nat, u = m[0],
         NEW size \in Nat, u + size + 1 =< room
  PROVE  /\ EmptyBlock(m, size) \in Memories(room) /\ EmptyBlock(m, size)[0] = u + size + 1
         /\ EmptyBlock(m, size)[u + 1] = size
         /\ \A i \in 1 .. room : i # u + 1 => EmptyBlock(m, size)[i] = m[i]
<1> DEFINE stored == Stored(m, u, <<size>>)
           n == u + size + 1
<1>1. m \in [0 .. room -> Nat]
  BY MemoryType
<1>2. EmptyBlock(m, size) = init(stored, n)
  BY DEF EmptyBlock, len
<1>3. DOMAIN m = 0 .. room /\ DOMAIN <<size>> = 1 .. 1 /\ <<size>>[1] = size
  BY <1>1
<1>4. stored = [i \in 0 .. room |-> IF i - u \in 1 .. 1 THEN <<size>>[i - u] ELSE m[i]]
  BY <1>3 DEF Stored
<1>5. ASSUME NEW i \in 0 .. room
      PROVE  stored[i] = IF i = u + 1 THEN size ELSE m[i]
  <2>1. stored[i] = IF i - u \in 1 .. 1 THEN <<size>>[i - u] ELSE m[i]
    BY <1>4
  <2>2. i - u \in 1 .. 1 <=> i = u + 1
    OBVIOUS
  <2>3. i = u + 1 => i - u = 1
    OBVIOUS
  <2> HIDE DEF stored
  <2> QED
    BY <2>1, <2>2, <2>3, <1>3
<1>6. stored = [i \in 0 .. room |-> stored[i]]
  BY <1>4
<1> HIDE DEF stored
<1>7. stored \in [0 .. room -> Nat]
  BY <1>1, <1>5, <1>6
<1>8. n \in 0 .. room /\ u + 1 \in 1 .. room
  OBVIOUS
<1> HIDE DEF n
<1>9. /\ init(stored, n) \in Memories(room) /\ init(stored, n)[0] = n
      /\ \A i \in 1 .. room : init(stored, n)[i] = stored[i]
  BY <1>7, <1>8, InitFacts
<1>10. \A i \in 1 .. room : i \in 0 .. room
  OBVIOUS
<1>11. \A i \in 1 .. room : init(stored, n)[i] = IF i = u + 1 THEN size ELSE m[i]
  BY <1>5, <1>9, <1>10
<1> QED
  BY <1>2, <1>8, <1>9, <1>11 DEF n

(* get_block: a block's words. *)
LEMMA BlockWords ==
  ASSUME NEW room \in Nat, NEW m \in [0 .. room -> Nat], NEW a \in Nat,
         a + 1 =< room, a + 1 + m[a + 1] =< room
  PROVE  /\ InBlock(m, a) /\ m[a + 1] \in Nat
         /\ BlockOf(m, a) \in Seq(Nat) /\ Len(BlockOf(m, a)) = m[a + 1]
         /\ \A i \in 1 .. m[a + 1] : BlockOf(m, a)[i] = m[a + 1 + i]
<1>1. m[a + 1] \in Nat /\ DOMAIN m = 0 .. room
  OBVIOUS
<1> DEFINE n == m[a + 1]
<1>2. BlockOf(m, a) = [i \in 1 .. n |-> m[a + 1 + i]]
  BY DEF BlockOf, Slice
<1>3. \A i \in 1 .. n : m[a + 1 + i] \in Nat
  <2> SUFFICES ASSUME NEW i \in 1 .. n PROVE m[a + 1 + i] \in Nat
    OBVIOUS
  <2>1. a + 1 + i \in 0 .. room
    BY <1>1
  <2> QED
    BY <2>1
<1>4. InBlock(m, a)
  BY <1>1 DEF InBlock
<1> HIDE DEF n
<1>5. BlockOf(m, a) \in Seq(Nat) /\ Len(BlockOf(m, a)) = n
  BY SMTT(30), <1>1, <1>2, <1>3 DEF n
<1>6. \A i \in 1 .. n : BlockOf(m, a)[i] = m[a + 1 + i]
  BY <1>2
<1> QED
  BY <1>1, <1>4, <1>5, <1>6 DEF n

(* Words written at the start of a block just taken, no more than it has. *)
LEMMA FilledBlockFacts ==
  ASSUME NEW room \in Nat, NEW m \in Memories(room), NEW u \in Nat, u = m[0],
         NEW size \in Nat, u + size + 1 =< room, NEW words \in Seq(Nat), Len(words) =< size,
         NEW f, f = u + 1, NEW k, k = Stored(EmptyBlock(m, size), f, words)
  PROVE  /\ k \in Memories(room) /\ k[0] = u + size + 1 /\ k[u + 1] = size
         /\ \A i \in 1 .. u : k[i] = m[i]
         /\ BlockOf(k, u) \in Seq(Nat) /\ Len(BlockOf(k, u)) = size
         /\ Len(words) = size => BlockOf(k, u) = words
         /\ \A i \in 1 .. room : i > k[0] => k[i] = m[i]
<1> DEFINE e == EmptyBlock(m, size)
           l == Len(words)
           from == u + 1
           n == Stored(e, from, words)
<1>1. l \in Nat /\ l =< size
  OBVIOUS
<1>2. /\ e \in Memories(room) /\ e[0] = u + size + 1 /\ e[from] = size
      /\ \A i \in 1 .. room : i # from => e[i] = m[i]
  <2>1. /\ room \in Nat /\ m \in Memories(room) /\ u \in Nat /\ u = m[0]
        /\ size \in Nat /\ u + size + 1 =< room
    OBVIOUS
  <2>2. e \in Memories(room) /\ e[0] = u + size + 1 /\ e[from] = size
    BY ONLY <2>1, EmptyBlockFacts, SMTT(30)
  <2>3. \A i \in 1 .. room : i # from => e[i] = m[i]
    BY ONLY <2>1, EmptyBlockFacts, SMTT(30)
  <2> QED
    BY <2>2, <2>3
<1> HIDE DEF e
<1>3. e \in [0 .. room -> Nat]
  BY <1>2 DEF Memories
<1>4. from \in Nat /\ from + l =< room /\ from >= 1 /\ from =< room
  BY <1>1
<1> HIDE DEF from
<1>5. /\ n \in [0 .. room -> Nat]
      /\ \A i \in 0 .. room : i =< from \/ i > from + l => n[i] = e[i]
      /\ \A i \in 1 .. l : n[from + i] = words[i]
  BY ONLY ZenonT(30), <1>3, <1>4, room \in Nat, words \in Seq(Nat), StoredFacts
<1> HIDE DEF n, l
<1>6. n[0] = u + size + 1 /\ n[from] = size
  <2>1. 0 \in 0 .. room /\ 0 =< from /\ from \in 0 .. room /\ from =< from
    BY <1>4
  <2> QED
    BY <2>1, <1>2, <1>5
<1>7. ASSUME NEW i \in 1 .. u PROVE n[i] = m[i]
  <2>1. i \in 0 .. room /\ i \in 1 .. room /\ i # from /\ i =< from
    BY <1>1 DEF from
  <2> QED
    BY <2>1, <1>2, <1>5
<1>8. ASSUME NEW i \in 1 .. room, i > from + l PROVE n[i] = m[i]
  <2>1. i \in 0 .. room /\ i # from
    BY <1>1, <1>4, <1>8
  <2> QED
    BY <2>1, <1>2, <1>5, <1>8
<1>9. n \in Memories(room)
  <2>1. u + size + 1 =< room
    OBVIOUS
  <2> QED
    BY <2>1, <1>5, <1>6 DEF Memories
<1>10. k = n /\ f = from
  BY DEF n, e, from
<1>11. ASSUME NEW i \in 1 .. room, i > u + size + 1 PROVE n[i] = m[i]
  <2>1. u \in Nat /\ size \in Nat /\ room \in Nat
    OBVIOUS
  <2>2. i > from + l
    BY ONLY <2>1, <1>1, <1>11, SMTT(30) DEF from
  <2> QED
    BY <2>2, <1>8
<1>12. /\ BlockOf(n, u) \in Seq(Nat) /\ Len(BlockOf(n, u)) = size
       /\ \A i \in 1 .. size : BlockOf(n, u)[i] = n[from + i]
  <2>1. BlockOf(n, u) = [i \in 1 .. size |-> n[from + i]]
    BY <1>6 DEF BlockOf, Slice, from
  <2>2. ASSUME NEW i \in 1 .. size PROVE n[from + i] \in Nat
    <3>1. from + i \in 0 .. room
      BY SMTT(30) DEF from
    <3> QED
      BY <3>1, <1>5
  <2> QED
    BY <2>1, <2>2
<1>13. ASSUME NEW i \in 1 .. l PROVE BlockOf(n, u)[i] = words[i]
  <2>1. i \in 1 .. size
    BY <1>1
  <2> QED
    BY <2>1, <1>5, <1>12
<1>14. ASSUME Len(words) = size PROVE BlockOf(n, u) = words
  <2>1. l = size
    BY <1>14 DEF l
  <2> QED
    BY <2>1, <1>12, <1>13, <1>14, SeqEqual
<1>15. \A i \in 1 .. room : i > n[0] => n[i] = m[i]
  BY <1>6, <1>11
<1> QED
  BY <1>6, <1>7, <1>9, <1>10, <1>12, <1>14, <1>15 DEF from

(* A block of zeros, taken from a memory never used past its words. *)
LEMMA ZeroBlockFacts ==
  ASSUME NEW room \in Nat, NEW h \in Memories(room), NEW u \in Nat, u = h[0],
         \A i \in 1 .. room : i > u => h[i] = 0,
         NEW n \in Nat \ {0}, u + n + 1 =< room,
         NEW f, f = u + 1, NEW t, t = Stored(EmptyBlock(h, n), f, << 0 >>)
  PROVE  /\ t \in Memories(room) /\ t[0] = u + n + 1 /\ t[u + 1] = n
         /\ \A i \in 1 .. u : t[i] = h[i]
         /\ \A i \in 1 .. room : i > u + n + 1 => t[i] = 0
         /\ BlockOf(t, u) \in Seq(Nat) /\ Len(BlockOf(t, u)) = n
         /\ \A i \in 1 .. n : BlockOf(t, u)[i] = 0
<1> DEFINE words == << 0 >>
           k == t
<1>1. words \in Seq(Nat) /\ Len(words) = 1
  OBVIOUS
<1>2. k = Stored(EmptyBlock(h, n), f, words) /\ f = u + 1
  OBVIOUS
<1> HIDE DEF k, words
<1>3. /\ room \in Nat /\ h \in Memories(room) /\ u \in Nat /\ u = h[0] /\ n \in Nat
      /\ u + n + 1 =< room /\ words \in Seq(Nat) /\ Len(words) =< n
  BY <1>1
<1>4. k \in Memories(room) /\ k[0] = u + n + 1 /\ k[u + 1] = n
  BY ONLY <1>2, <1>3, FilledBlockFacts
<1>5. \A i \in 1 .. u : k[i] = h[i]
  BY ONLY SMTT(30), <1>2, <1>3, FilledBlockFacts
<1>6. BlockOf(k, u) \in Seq(Nat) /\ Len(BlockOf(k, u)) = n
  BY ONLY <1>2, <1>3, FilledBlockFacts
<1>7. \A i \in 1 .. room : i > k[0] => k[i] = h[i]
  BY ONLY SMTT(30), <1>2, <1>3, FilledBlockFacts
<1>8. ASSUME NEW i \in 1 .. room, i > u + n + 1 PROVE k[i] = 0
  <2>1. i > u
    BY <1>8
  <2> QED
    BY <2>1, <1>4, <1>7, <1>8
<1> DEFINE e == EmptyBlock(h, n)
<1>9. e \in [0 .. room -> Nat] /\ \A i \in 1 .. room : i > u + 1 => e[i] = 0
  <2>1. e \in Memories(room)
    BY ONLY <1>3, EmptyBlockFacts
  <2>2. \A i \in 1 .. room : i # u + 1 => e[i] = h[i]
    BY ONLY <1>3, EmptyBlockFacts
  <2> HIDE DEF e
  <2>3. \A i \in 1 .. room : i > u + 1 => i > u /\ i # u + 1
    OBVIOUS
  <2>4. e \in [0 .. room -> Nat]
    BY <2>1 DEF Memories
  <2> QED
    BY <2>2, <2>3, <2>4
<1>10. ASSUME NEW i \in 1 .. n PROVE BlockOf(k, u)[i] = 0
  <2> DEFINE j == f + i
  <2>1. f \in Nat /\ f + n =< room /\ f = u + 1
    BY <1>2
  <2>2. j \in 1 .. room /\ j \in 0 .. room /\ j > u + 1 /\ j - f = i
    <3>1. i \in Nat /\ i >= 1 /\ i =< n
      OBVIOUS
    <3> QED
      BY ONLY <3>1, <2>1, u \in Nat, n \in Nat, room \in Nat
  <2>3. BlockOf(k, u)[i] = k[j]
    BY <2>1, <1>4 DEF BlockOf, Slice
  <2> HIDE DEF e, j
  <2>4. k = [x \in 0 .. room |-> IF x - f \in DOMAIN words THEN words[x - f] ELSE e[x]]
    BY <1>2, <1>9 DEF Stored, e
  <2>5. k[j] = IF i \in DOMAIN words THEN words[i] ELSE e[j]
    BY <2>2, <2>4
  <2>6. i \in DOMAIN words => words[i] = 0
    BY DEF words
  <2> QED
    BY <2>2, <2>3, <2>5, <2>6, <1>9
<1> QED
  BY <1>4, <1>5, <1>6, <1>8, <1>10 DEF k

-----------------------------------------------------------------------------
(* How objects lie in the words of a heap.                                 *)

Kinds == {"block", "table", "string", "context"}

(* The words past those in use are as they were at the start; each object  *)
(* lies among those in use and ends where the next one begins, at the      *)
(* latest; a context is one. *)
LaidOut(h, g) ==
  /\ h \in Memories(HeapRoom)
  /\ \A i \in 1 .. HeapRoom : i > h[0] => h[i] = 0
  /\ g \in [DOMAIN g -> Kinds] /\ DOMAIN g \subseteq Nat
  /\ \A a \in DOMAIN g : a + 1 =< h[0] /\ a + 1 + h[a + 1] =< h[0]
  /\ \A a, b \in DOMAIN g : a < b => a + 1 + h[a + 1] =< b
  /\ \A a \in DOMAIN g : g[a] = "context" => ContextWords(BlockOf(h, a))

ObjectsOf(h, g) == [a \in DOMAIN g |-> Reading(g[a], BlockOf(h, a))]

(* An object's words, one by one, are its block. *)
LEMMA SameBlock ==
  ASSUME NEW h, NEW k, NEW a \in Nat, h[a + 1] \in Nat, k[a + 1] = h[a + 1],
         \A i \in 1 .. h[a + 1] : k[a + 1 + i] = h[a + 1 + i]
  PROVE  BlockOf(k, a) = BlockOf(h, a)
BY DEF BlockOf, Slice

(* An address given out is that of a block within the words in use. *)
LEMMA LaidOutBlock ==
  ASSUME NEW h, NEW g, LaidOut(h, g), NEW a \in DOMAIN g
  PROVE  /\ a \in Nat /\ h[0] \in Nat /\ h[a + 1] \in Nat
         /\ a + 1 =< h[0] /\ a + 1 + h[a + 1] =< h[0] /\ h[0] =< HeapRoom
         /\ InBlock(h, a)
         /\ BlockOf(h, a) \in Seq(Nat) /\ Len(BlockOf(h, a)) = h[a + 1]
         /\ \A i \in 1 .. h[a + 1] : BlockOf(h, a)[i] = h[a + 1 + i]
<1>1. /\ a \in Nat /\ h \in [0 .. HeapRoom -> Nat] /\ h[0] \in Nat /\ h[0] =< HeapRoom
      /\ a + 1 =< h[0] /\ a + 1 + h[a + 1] =< h[0] /\ HeapRoom \in Nat
  BY RoomAssumption, MemoryType DEF LaidOut
<1>2. h[a + 1] \in Nat
  <2> DEFINE u == h[0]
             f == a + 1
  <2>1. f \in 0 .. HeapRoom
    <3>1. u \in Nat /\ u =< HeapRoom /\ f =< u /\ f \in Nat
      BY <1>1
    <3> HIDE DEF u, f
    <3> QED
      BY <3>1, <1>1
  <2> QED
    BY <2>1, <1>1
<1>3. a + 1 =< HeapRoom /\ a + 1 + h[a + 1] =< HeapRoom
  <2> DEFINE u == h[0]
             e == a + 1 + h[a + 1]
             f == a + 1
  <2>1. u \in Nat /\ u =< HeapRoom /\ e =< u /\ f =< u /\ e \in Nat /\ f \in Nat
    BY <1>1, <1>2
  <2> HIDE DEF u, e, f
  <2>2. e =< HeapRoom /\ f =< HeapRoom
    BY <2>1, <1>1
  <2> QED
    BY <2>2 DEF e, f
<1> QED
  BY <1>1, <1>2, <1>3, BlockWords

(* What reading a heap gives is what its words stand for. *)
LEMMA ReadsObjects ==
  ASSUME LaidOut(heap, given)
  PROVE  Objects = ObjectsOf(heap, given)
<1>1. \A a \in DOMAIN given : ObjectAt(a) = Reading(given[a], BlockOf(heap, a))
  BY LaidOutBlock DEF ObjectAt
<1> QED
  BY <1>1 DEF Objects, ObjectsOf

(* An object of its own, after all the others. *)
LEMMA Allocated ==
  ASSUME NEW h, NEW g, LaidOut(h, g), NEW u \in Nat, u = h[0],
         NEW k \in Memories(HeapRoom), NEW size \in Nat, k[0] = u + size + 1,
         \A i \in 1 .. u : k[i] = h[i], k[u + 1] = size,
         \A i \in 1 .. HeapRoom : i > u + size + 1 => k[i] = 0,
         NEW kind \in Kinds, kind = "context" => ContextWords(BlockOf(k, u))
  PROVE  /\ u \notin DOMAIN g /\ u \in 0 .. HeapRoom
         /\ LaidOut(k, WithEntry(g, u, kind))
         /\ ObjectsOf(k, WithEntry(g, u, kind))
              = WithEntry(ObjectsOf(h, g), u, Reading(kind, BlockOf(k, u)))
<1> DEFINE f == WithEntry(g, u, kind)
           D == DOMAIN g
<1>1. /\ DOMAIN f = D \union {u} /\ f = [a \in D \union {u} |-> IF a = u THEN kind ELSE g[a]]
      /\ g \in [D -> Kinds] /\ D \subseteq Nat
  BY DEF WithEntry, LaidOut
<1>2. ASSUME NEW a \in D
      PROVE  /\ a \in Nat /\ h[a + 1] \in Nat /\ a + 1 =< u /\ a + 1 + h[a + 1] =< u
             /\ k[a + 1] = h[a + 1] /\ BlockOf(k, a) = BlockOf(h, a) /\ a # u
             /\ f[a] = g[a]
  <2> DEFINE n == h[a + 1]
  <2>1. a \in Nat /\ n \in Nat /\ a + 1 =< u /\ a + 1 + n =< u
    BY LaidOutBlock
  <2>2. k[a + 1] = n
    BY <2>1
  <2>3. \A i \in 1 .. n : k[a + 1 + i] = h[a + 1 + i]
    <3> SUFFICES ASSUME NEW i \in 1 .. n PROVE k[a + 1 + i] = h[a + 1 + i]
      OBVIOUS
    <3> HIDE DEF n
    <3>1. a + 1 + i \in 1 .. u
      BY <2>1
    <3> QED
      BY <3>1
  <2>4. BlockOf(k, a) = BlockOf(h, a)
    BY <2>1, <2>2, <2>3, SameBlock
  <2> HIDE DEF n
  <2>5. a # u
    BY <2>1
  <2> QED
    BY <2>1, <2>2, <2>4, <2>5, <1>1 DEF n
<1> HIDE DEF f, D
<1>3. u \notin D
  BY <1>2
<1>4. f \in [DOMAIN f -> Kinds] /\ DOMAIN f \subseteq Nat
  BY <1>1
<1>5. ASSUME NEW a \in DOMAIN f PROVE a + 1 =< k[0] /\ a + 1 + k[a + 1] =< k[0]
  <2>1. CASE a = u
    BY <2>1
  <2>2. CASE a \in D
    <3> DEFINE n == h[a + 1]
    <3>1. a \in Nat /\ n \in Nat /\ a + 1 =< u /\ a + 1 + n =< u /\ k[a + 1] = n
      BY <1>2, <2>2
    <3> HIDE DEF n
    <3> QED
      BY <3>1
  <2> QED
    BY <2>1, <2>2, <1>1
<1>6. ASSUME NEW a \in DOMAIN f, NEW b \in DOMAIN f, a < b PROVE a + 1 + k[a + 1] =< b
  <2>1. CASE a = u
    <3>1. b \in D
      BY <2>1, <1>1, <1>6
    <3>2. b \in Nat /\ b + 1 =< u
      BY <3>1, <1>2
    <3> QED
      BY <3>2, <2>1, <1>6
  <2>2. CASE a \in D /\ b = u
    BY <2>2, <1>2
  <2>3. CASE a \in D /\ b \in D
    <3>1. a + 1 + h[a + 1] =< b
      BY <2>3, <1>6 DEF LaidOut, D
    <3> QED
      BY <3>1, <2>3, <1>2
  <2> QED
    BY <2>1, <2>2, <2>3, <1>1
<1>7. ASSUME NEW a \in DOMAIN f, f[a] = "context" PROVE ContextWords(BlockOf(k, a))
  <2>1. CASE a = u
    BY <2>1, <1>1, <1>7
  <2>2. CASE a \in D
    BY <2>2, <1>2, <1>7 DEF LaidOut, D
  <2> QED
    BY <2>1, <2>2, <1>1
<1>8. LaidOut(k, f)
  BY <1>4, <1>5, <1>6, <1>7 DEF LaidOut
<1>9. ObjectsOf(k, f) = WithEntry(ObjectsOf(h, g), u, Reading(kind, BlockOf(k, u)))
  <2>1. DOMAIN ObjectsOf(h, g) = D /\ \A a \in D : ObjectsOf(h, g)[a] = Reading(g[a], BlockOf(h, a))
    BY DEF ObjectsOf, D
  <2>2. ObjectsOf(k, f) = [a \in D \union {u} |-> Reading(f[a], BlockOf(k, a))]
    BY <1>1 DEF ObjectsOf
  <2>3. f[u] = kind
    BY <1>1
  <2> QED
    BY <2>1, <2>2, <2>3, <1>2, <1>3 DEF WithEntry
<1>10. u \in 0 .. HeapRoom
  BY RoomAssumption DEF LaidOut, Memories
<1> QED
  BY <1>3, <1>8, <1>9, <1>10 DEF f, D

(* A context's words written over with as many others: the other objects   *)
(* are as they were. *)
LEMMA Rewritten ==
  ASSUME NEW h, NEW g, LaidOut(h, g), NEW a \in DOMAIN g, g[a] = "context",
         NEW d \in Seq(Nat), ContextWords(d), Len(d) = h[a + 1]
  PROVE  LET k == Stored(h, a + 1, d)
         IN  LaidOut(k, g) /\ ObjectsOf(k, g) = [ObjectsOf(h, g) EXCEPT ![a] = Reading("context", d)]
<1> DEFINE k == Stored(h, a + 1, d)
           from == a + 1
           n == Len(d)
           D == DOMAIN g
           u == h[0]
<1>1. /\ a \in Nat /\ n \in Nat /\ u \in Nat /\ from =< u /\ from + n =< u
      /\ u =< HeapRoom /\ h[from] = n
  BY LaidOutBlock
<1>2. h \in [0 .. HeapRoom -> Nat] /\ HeapRoom \in Nat
  BY RoomAssumption DEF LaidOut, Memories
<1>3. /\ k \in [0 .. HeapRoom -> Nat]
      /\ \A i \in 0 .. HeapRoom : i =< from \/ i > from + n => k[i] = h[i]
      /\ \A i \in 1 .. n : k[from + i] = d[i]
  <2> HIDE DEF u, n
  <2>1. from \in Nat /\ from + n =< HeapRoom
    BY <1>1, <1>2
  <2> HIDE DEF from
  <2> QED
    BY ONLY <2>1, <1>2, d \in Seq(Nat), StoredFacts DEF n, from
<1> HIDE DEF k, u, n
<1>4. k[0] = u
  <2>1. 0 \in 0 .. HeapRoom /\ 0 =< from
    BY <1>1, <1>2
  <2> QED
    BY <2>1, <1>3 DEF u
<1>5. k[from] = n
  <2>1. from \in 0 .. HeapRoom /\ from =< from
    BY <1>1, <1>2
  <2> QED
    BY <2>1, <1>1, <1>3
<1>6. BlockOf(k, a) = d
  <2>1. BlockOf(k, a) = [i \in 1 .. n |-> k[from + i]]
    BY <1>5 DEF BlockOf, Slice
  <2>2. d = [i \in 1 .. n |-> d[i]]
    BY DEF n
  <2> QED
    BY <2>1, <2>2, <1>3
<1>7. ASSUME NEW b \in D, b # a
      PROVE  k[b + 1] = h[b + 1] /\ BlockOf(k, b) = BlockOf(h, b)
  <2> DEFINE l == h[b + 1]
  <2>1. b \in Nat /\ l \in Nat /\ b + 1 =< u /\ b + 1 + l =< u
    BY LaidOutBlock DEF u
  <2>2. (a < b => from + n =< b) /\ (b < a => b + 1 + l =< a)
    BY <1>1 DEF LaidOut
  <2> HIDE DEF l, D, from
  <2>3. ASSUME NEW i \in 0 .. l PROVE k[b + 1 + i] = h[b + 1 + i]
    <3>1. b + 1 + i \in 0 .. HeapRoom
      BY <2>1, <1>1, <1>2
    <3>2. b + 1 + i =< from \/ b + 1 + i > from + n
      BY <2>1, <2>2, <1>1, <1>7 DEF from
    <3> QED
      BY <3>1, <3>2, <1>3
  <2>4. k[b + 1] = l
    <3>1. 0 \in 0 .. l /\ b + 1 + 0 = b + 1
      BY <2>1
    <3> QED
      BY <3>1, <2>3 DEF l
  <2>5. ASSUME NEW i \in 1 .. l PROVE k[b + 1 + i] = h[b + 1 + i]
    <3>1. i \in 0 .. l
      BY <2>1
    <3> QED
      BY <3>1, <2>3
  <2> QED
    BY <2>1, <2>4, <2>5, SameBlock DEF l
<1>8. LaidOut(k, g)
  <2>1. k \in Memories(HeapRoom)
    BY <1>1, <1>3, <1>4 DEF Memories
  <2>2. ASSUME NEW i \in 1 .. HeapRoom, i > k[0] PROVE k[i] = 0
    <3>1. i \in 0 .. HeapRoom /\ i > from + n
      BY <2>2, <1>1, <1>2, <1>4
    <3>2. h[i] = 0
      BY <2>2, <1>4 DEF LaidOut, u
    <3> QED
      BY <3>1, <3>2, <1>3
  <2>3. \A b \in D : k[b + 1] = h[b + 1]
    BY <1>1, <1>5, <1>7
  <2>4. \A b \in D : g[b] = "context" => ContextWords(BlockOf(k, b))
    BY <1>6, <1>7 DEF LaidOut
  <2> QED
    BY <2>1, <2>2, <2>3, <2>4, <1>4 DEF LaidOut, u
<1>9. ObjectsOf(k, g) = [ObjectsOf(h, g) EXCEPT ![a] = Reading("context", d)]
  BY <1>6, <1>7 DEF ObjectsOf
<1> QED
  BY <1>8, <1>9 DEF k

-----------------------------------------------------------------------------
(* The words a stack shows.                                                *)

Shown(m) == Slice(m, 0, len(m))

(* The words the stack shows, in number. *)
LEMMA ShownType ==
  ASSUME NEW room \in Nat, NEW m \in Memories(room), NEW u \in Nat, u = m[0]
  PROVE  /\ Shown(m) \in Seq(Nat) /\ Len(Shown(m)) = u /\ u =< room
         /\ \A i \in 1 .. u : Shown(m)[i] = m[i] /\ m[i] \in Nat
<1>1. m \in [0 .. room -> Nat] /\ u =< room
  BY MemoryType
<1>2. Shown(m) = [i \in 1 .. u |-> m[0 + i]]
  BY DEF Shown, Slice, len
<1>3. ASSUME NEW i \in 1 .. u PROVE m[0 + i] = m[i] /\ m[i] \in Nat
  <2>1. i \in 0 .. room /\ 0 + i = i
    BY <1>1
  <2> QED
    BY <2>1, <1>1
<1>4. \A i \in 1 .. u : Shown(m)[i] = m[i]
  BY <1>2, <1>3
<1>5. Shown(m) \in [1 .. u -> Nat]
  BY <1>2, <1>3
<1> QED
  BY <1>1, <1>3, <1>4, <1>5

(* Words pushed follow those shown. *)
LEMMA ShownPush ==
  ASSUME NEW room \in Nat, NEW m \in Memories(room), NEW u \in Nat, u = m[0],
         NEW words \in Seq(Nat), u + Len(words) =< room
  PROVE  Taken(m, words) \in Memories(room) /\ Shown(Taken(m, words)) = Shown(m) \o words
<1> DEFINE t == Taken(m, words)
           n == Len(words)
           v == u + n
           both == Shown(m) \o words
<1>1. /\ t \in Memories(room) /\ t[0] = v /\ n \in Nat /\ v \in Nat
      /\ \A i \in 1 .. u : t[i] = m[i]
      /\ \A i \in 1 .. n : t[u + i] = words[i]
  BY SMTT(30), TakenFacts
<1>2. /\ Shown(m) \in Seq(Nat) /\ Len(Shown(m)) = u
      /\ \A i \in 1 .. u : Shown(m)[i] = m[i]
  BY ShownType
<1>3. /\ both \in Seq(Nat) /\ Len(both) = v
      /\ \A i \in 1 .. v : both[i] = IF i =< u THEN Shown(m)[i] ELSE words[i - u]
  <2> DEFINE shown == Shown(m)
  <2> HIDE DEF shown, v, n, both
  <2>1. shown \in Seq(Nat) /\ words \in Seq(Nat)
    BY <1>2 DEF shown
  <2>2. /\ shown \o words \in Seq(Nat)
        /\ Len(shown \o words) = Len(shown) + Len(words)
        /\ \A i \in 1 .. Len(shown) + Len(words) :
             (shown \o words)[i] = IF i =< Len(shown) THEN shown[i] ELSE words[i - Len(shown)]
    BY ONLY <2>1, ConcatProperties
  <2>3. Len(shown) = u /\ Len(words) = n /\ u + n = v /\ both = shown \o words
    BY <1>2 DEF shown, v, n, both
  <2> QED
    BY <2>2, <2>3 DEF shown
<1> HIDE DEF t, both
<1>4. /\ Shown(t) \in Seq(Nat) /\ Len(Shown(t)) = v
      /\ \A i \in 1 .. v : Shown(t)[i] = t[i]
  <2> HIDE DEF v
  <2> QED
    BY <1>1, ShownType
<1> HIDE DEF n
<1>5. ASSUME NEW i \in 1 .. v PROVE Shown(t)[i] = both[i]
  <2>1. CASE i =< u
    <3>1. i \in 1 .. u
      BY <2>1
    <3> QED
      BY <3>1, <2>1, <1>1, <1>2, <1>3, <1>4
  <2>2. CASE ~(i =< u)
    <3>1. i - u \in 1 .. n /\ u + (i - u) = i
      BY SMTT(30), <2>2, <1>1
    <3>2. t[i] = words[i - u]
      BY <3>1, <1>1
    <3> QED
      BY <3>2, <2>2, <1>3, <1>4
  <2> QED
    BY <2>1, <2>2
<1>6. Shown(t) = both
  BY <1>3, <1>4, <1>5, SeqEqual
<1> QED
  BY <1>1, <1>6 DEF t, both

(* Words popped are gone, whatever lies in the memory above. *)
LEMMA ShownPop ==
  ASSUME NEW room \in Nat, NEW m \in Memories(room), NEW u \in Nat, u = m[0], NEW n \in 0 .. u
  PROVE  /\ init(m, n) \in Memories(room) /\ init(m, n)[0] = n
         /\ Shown(init(m, n)) = SubSeq(Shown(m), 1, n)
<1> DEFINE t == init(m, n)
           below == SubSeq(Shown(m), 1, n)
<1>1. /\ Shown(m) \in Seq(Nat) /\ Len(Shown(m)) = u /\ u =< room
      /\ \A i \in 1 .. u : Shown(m)[i] = m[i] /\ m[i] \in Nat
  BY ShownType
<1>2. m \in [0 .. room -> Nat] /\ n \in 0 .. room /\ n \in Nat
  BY <1>1, MemoryType
<1>3. t \in Memories(room) /\ t[0] = n /\ \A i \in 1 .. room : t[i] = m[i]
  BY <1>2, InitFacts
<1> HIDE DEF t
<1>4. /\ Shown(t) \in Seq(Nat) /\ Len(Shown(t)) = n
      /\ \A i \in 1 .. n : Shown(t)[i] = t[i]
  BY <1>2, <1>3, ShownType
<1>5. ASSUME NEW i \in 1 .. n
      PROVE  i \in 1 .. u /\ i \in 1 .. room /\ Shown(m)[i] \in Nat /\ Shown(m)[i] = t[i]
  <2>1. i \in 1 .. u /\ i \in 1 .. room
    BY <1>1, <1>2
  <2> QED
    BY <2>1, <1>1, <1>3
<1>6. /\ below \in Seq(Nat) /\ Len(below) = n
      /\ \A i \in 1 .. n : below[i] = Shown(m)[i]
  <2>1. 1 \in Int /\ n \in Int /\ \A i \in 1 .. n : Shown(m)[i] \in Nat
    BY <1>2, <1>5
  <2>2. /\ below \in Seq(Nat) /\ Len(below) = (IF 1 =< n THEN n - 1 + 1 ELSE 0)
        /\ \A i \in 1 .. n - 1 + 1 : below[i] = Shown(m)[1 + i - 1]
    BY <2>1, SubSeqProperties
  <2>3. n - 1 + 1 = n /\ \A i \in 1 .. n : 1 + i - 1 = i
    BY <1>2
  <2> HIDE DEF below
  <2> QED
    BY <2>2, <2>3, <1>2
<1> HIDE DEF below
<1>7. Shown(t) = below
  BY <1>4, <1>5, <1>6, SeqEqual
<1> QED
  BY <1>3, <1>7 DEF t, below

(* The words on top, taken from the memory. *)
LEMMA ShownTop ==
  ASSUME NEW room \in Nat, NEW m \in Memories(room), NEW u \in Nat, u = m[0], NEW n \in 0 .. u
  PROVE  /\ Slice(m, u - n, n) = SubSeq(Shown(m), u - n + 1, u)
         /\ Slice(m, u - n, n) \in Seq(Nat) /\ Len(Slice(m, u - n, n)) = n
<1> DEFINE top == SubSeq(Shown(m), u - n + 1, u)
           slice == Slice(m, u - n, n)
           from == u - n
<1>1. /\ Shown(m) \in Seq(Nat) /\ Len(Shown(m)) = u /\ u =< room
      /\ \A i \in 1 .. u : Shown(m)[i] = m[i] /\ m[i] \in Nat
  BY ShownType
<1>2. n \in Nat /\ from \in Nat /\ from + n = u /\ u - n + 1 = from + 1
  OBVIOUS
<1>3. slice = [i \in 1 .. n |-> m[from + i]]
  BY DEF Slice
<1> HIDE DEF from
<1>4. ASSUME NEW i \in 1 .. n PROVE from + i \in 1 .. u /\ m[from + i] \in Nat
  <2>1. from + i \in 1 .. u
    BY <1>2
  <2> QED
    BY <2>1, <1>1
<1>5. slice \in [1 .. n -> Nat]
  BY <1>3, <1>4
<1>6. slice \in Seq(Nat) /\ Len(slice) = n
  <2> HIDE DEF slice
  <2> QED
    BY <1>2, <1>5
<1>7. /\ top \in Seq(Nat) /\ Len(top) = n
      /\ \A i \in 1 .. n : top[i] = m[from + i]
  <2> DEFINE f == from + 1
  <2>1. f \in Int /\ u \in Int /\ top = SubSeq(Shown(m), f, u)
    <3>1. top = SubSeq(Shown(m), u - n + 1, u) /\ u - n + 1 = f
      BY <1>2 DEF f
    <3> HIDE DEF top
    <3>2. f \in Int /\ u \in Int
      BY <1>2 DEF f
    <3> HIDE DEF f
    <3> QED
      BY <3>1, <3>2
  <2>2. \A i \in f .. u : Shown(m)[i] \in Nat
    <3> SUFFICES ASSUME NEW i \in f .. u PROVE Shown(m)[i] \in Nat
      OBVIOUS
    <3>1. i \in 1 .. u
      BY <1>2
    <3> QED
      BY <3>1, <1>1
  <2> HIDE DEF f, top
  <2>3. /\ top \in Seq(Nat) /\ Len(top) = (IF f =< u THEN u - f + 1 ELSE 0)
        /\ \A i \in 1 .. u - f + 1 : top[i] = Shown(m)[f + i - 1]
    BY SMTT(30), <2>1, <2>2, SubSeqProperties
  <2>4. u - f + 1 = n /\ (f =< u <=> 1 =< n) /\ \A i \in 1 .. n : f + i - 1 = from + i
    BY <1>2 DEF f
  <2>5. Len(top) = n
    BY <2>3, <2>4, <1>2
  <2>6. ASSUME NEW i \in 1 .. n PROVE top[i] = m[from + i]
    <3>1. top[i] = Shown(m)[from + i]
      BY <2>3, <2>4
    <3> QED
      BY <3>1, <1>1, <1>4
  <2> QED
    BY <2>3, <2>5, <2>6
<1>8. slice = top
  <2>1. \A i \in 1 .. n : slice[i] = top[i]
    BY <1>3, <1>7
  <2> HIDE DEF slice, top
  <2> QED
    BY <2>1, <1>6, <1>7, SeqEqual
<1> QED
  BY <1>6, <1>8

-----------------------------------------------------------------------------
(* The heap and its objects, and the stack, through every call.            *)

IInv ==
  /\ LaidOut(heap, given)
  /\ stack \in Memories(StackRoom)
  /\ objects = ObjectsOf(heap, given)

(* Reading a heap again gives what its words stand for again. *)
LEMMA ReadsNext ==
  ASSUME LaidOut(heap', given')
  PROVE  Objects' = ObjectsOf(heap', given')
<1>1. \A a \in DOMAIN given' : ObjectAt(a)' = Reading(given'[a], BlockOf(heap', a))
  BY LaidOutBlock DEF ObjectAt
<1> QED
  BY <1>1 DEF Objects, ObjectsOf

(* The store's operators on contexts are those the words were shown to     *)
(* follow. *)
LEMMA SameCardinality ==
  ASSUME NEW S
  PROVE  Store!Cardinality(S) = Cardinality(S)
BY DEF Store!Cardinality, Cardinality, Store!IsFiniteSet, IsFiniteSet

(* The operators on contexts are those of the store: it takes them from    *)
(* the same module. *)
LEMMA SameResult ==
  ASSUME NEW c, NEW s
  PROVE  Store!PutResult(c, s) = PutResult(c, s)
BY SameCardinality DEF Store!PutResult, PutResult, Store!Bound, Bound

(* put. *)
LEMMA SamePut ==
  ASSUME NEW c, NEW s, NEW v
  PROVE  Store!Put(c, s, v) = Put(c, s, v)
BY SameResult DEF Store!Put, Put, Store!WithEntry, WithEntry

(* A map with one more entry. *)
LEMMA SameWithEntry ==
  ASSUME NEW f, NEW a, NEW b
  PROVE  Store!WithEntry(f, a, b) = WithEntry(f, a, b)
BY DEF Store!WithEntry, WithEntry

(* seal. *)
LEMMA SameSeal ==
  ASSUME NEW c
  PROVE  Store!Seal(c) = Seal(c)
BY DEF Store!Seal, Seal

(* What an object takes of the heap is its words and their count. *)
LEMMA WordsOfBlock ==
  ASSUME NEW words
  PROVE  /\ Store!WordsOf(<<"block", words>>) = 1 + Len(words)
         /\ Reading("block", words) = <<"block", words>>
BY DEF Store!WordsOf, Reading

(* A string's words, their number, and what they read as. *)
LEMMA WordsOfString ==
  ASSUME NEW bytes \in Seq(Byte)
  PROVE  /\ StringWords(bytes) \in Seq(Nat)
         /\ Store!WordsOf(<<"string", bytes>>) = 1 + Len(StringWords(bytes))
         /\ Reading("string", StringWords(bytes)) = <<"string", bytes>>
<1> DEFINE q == (Len(bytes) + 3) \div 4
<1>1. StringWords(bytes) \in Seq(Nat) /\ Len(StringWords(bytes)) = 1 + q /\ q \in Nat
  BY StringReadsBack
<1>2. Store!WordsOf(<<"string", bytes>>) = 2 + q
  BY DEF Store!WordsOf
<1>3. Reading("string", StringWords(bytes)) = <<"string", bytes>>
  BY StringReadsBack DEF Reading
<1> HIDE DEF q
<1>4. 2 + q = 1 + (1 + q)
  BY <1>1
<1> QED
  BY <1>1, <1>2, <1>3, <1>4

(* An empty context's. *)
LEMMA WordsOfContext ==
  ASSUME NEW size \in Nat, NEW c, ContextOf(c) = EmptyContext(size)
  PROVE  /\ Store!EmptyContext(size) = EmptyContext(size)
         /\ Store!WordsOf(<<"context", EmptyContext(size)>>) = 2 + 3 * size
         /\ Reading("context", c) = <<"context", EmptyContext(size)>>
BY DEF Store!WordsOf, Store!EmptyContext, EmptyContext, Reading, ContextOf

(* A block taken and given out is an object placed. *)
LEMMA PlacedStep ==
  ASSUME IInv, NEW u \in Nat, u = heap[0], NEW size \in Nat,
         heap' \in Memories(HeapRoom), heap'[0] = u + size + 1, heap'[u + 1] = size,
         \A i \in 1 .. u : heap'[i] = heap[i],
         \A i \in 1 .. HeapRoom : i > u + size + 1 => heap'[i] = 0,
         NEW kind \in Kinds, kind = "context" => ContextWords(BlockOf(heap', u)),
         given' = WithEntry(given, u, kind), objects' = Objects',
         NEW object, object = Reading(kind, BlockOf(heap', u)), Store!WordsOf(object) = size + 1
  PROVE  /\ u \in 0 .. HeapRoom /\ LaidOut(heap', given') /\ objects' = ObjectsOf(heap', given')
         /\ Store!Placed(object, u)
<1>1. LaidOut(heap, given) /\ objects = ObjectsOf(heap, given)
  BY DEF IInv
<1>2. /\ u \notin DOMAIN given /\ u \in 0 .. HeapRoom
      /\ LaidOut(heap', given')
      /\ ObjectsOf(heap', given') = WithEntry(ObjectsOf(heap, given), u, object)
  BY <1>1, Allocated
<1>3. objects' = WithEntry(objects, u, object)
  BY <1>1, <1>2, ReadsNext
<1>4. u \notin DOMAIN objects
  BY <1>1, <1>2 DEF ObjectsOf
<1>5. heap'[0] = heap[0] + Store!WordsOf(object)
  OBVIOUS
<1> QED
  BY <1>1, <1>2, <1>3, <1>4, <1>5, ReadsNext, SameWithEntry DEF Store!Placed, len

(* A call that leaves the heap alone leaves the objects alone. *)
LEMMA SameObjects ==
  ASSUME IInv, heap' = heap, given' = given, objects' = Objects'
  PROVE  /\ LaidOut(heap', given') /\ objects' = ObjectsOf(heap', given') /\ objects' = objects
         /\ len(heap)' = len(heap)
BY ReadsNext DEF IInv, len

(* One that only answers is a step of the store that only tells. *)
LEMMA OnlyTells ==
  ASSUME IInv, NEW what, Only(what), objects' = Objects'
  PROVE  IInv' /\ Store!Tells(what)
BY SameObjects DEF IInv, Only, Gives, Store!Tells, Store!Answers, len

(* Whether there is room. *)
LEMMA RoomLeft ==
  ASSUME IInv, NEW n \in Nat
  PROVE  /\ heap[0] \in Nat /\ stack[0] \in Nat /\ stack[0] =< StackRoom
         /\ Takes(heap, n) <=> heap[0] + n =< HeapRoom
         /\ Takes(stack, n) <=> stack[0] + n =< StackRoom
<1>1. /\ heap \in [0 .. HeapRoom -> Nat] /\ heap[0] \in Nat
      /\ stack \in [0 .. StackRoom -> Nat] /\ stack[0] \in Nat /\ stack[0] =< StackRoom
      /\ HeapRoom \in Nat /\ StackRoom \in Nat
  BY RoomAssumption DEF IInv, LaidOut, Memories
<1> DEFINE u == heap[0]
           v == stack[0]
<1>2. (Takes(heap, n) <=> u + n \in 0 .. HeapRoom) /\ (Takes(stack, n) <=> v + n \in 0 .. StackRoom)
  BY <1>1 DEF Takes, len
<1>3. u \in Nat /\ v \in Nat
  BY <1>1
<1> HIDE DEF u, v
<1>4. (Takes(heap, n) <=> u + n =< HeapRoom) /\ (Takes(stack, n) <=> v + n =< StackRoom)
  BY <1>1, <1>2, <1>3
<1> QED
  BY <1>1, <1>4 DEF u, v

(* The words of a block after those in use. *)
LEMMA BlockTakenFacts ==
  ASSUME IInv, NEW u \in Nat, u = heap[0], NEW words \in Seq(Nat),
         u + Len(words) + 1 =< HeapRoom, heap' = BlockTaken(heap, words)
  PROVE  /\ heap' \in Memories(HeapRoom) /\ heap'[0] = u + Len(words) + 1
         /\ heap'[u + 1] = Len(words) /\ BlockOf(heap', u) = words
         /\ \A i \in 1 .. u : heap'[i] = heap[i]
         /\ \A i \in 1 .. HeapRoom : i > u + Len(words) + 1 => heap'[i] = 0
<1> DEFINE n == Len(words)
           k == Stored(EmptyBlock(heap, n), u + 1, words)
<1>1. /\ HeapRoom \in Nat /\ heap \in Memories(HeapRoom) /\ n \in Nat
      /\ \A i \in 1 .. HeapRoom : i > u => heap[i] = 0
  BY RoomAssumption DEF IInv, LaidOut
<1>2. heap' = k
  BY DEF BlockTaken, len
<1>3. /\ k \in Memories(HeapRoom) /\ k[0] = u + n + 1 /\ k[u + 1] = n
      /\ BlockOf(k, u) = words
      /\ \A i \in 1 .. u : k[i] = heap[i]
      /\ \A i \in 1 .. HeapRoom : i > k[0] => k[i] = 0
  <2> DEFINE f == u + 1
  <2>1. k = Stored(EmptyBlock(heap, n), f, words) /\ f = u + 1
    BY <1>1
  <2> HIDE DEF k, f
  <2>2. /\ HeapRoom \in Nat /\ heap \in Memories(HeapRoom) /\ u \in Nat /\ u = heap[0] /\ n \in Nat
        /\ u + n + 1 =< HeapRoom /\ words \in Seq(Nat) /\ Len(words) = n /\ Len(words) =< n
    BY <1>1
  <2> HIDE DEF n
  <2>3. k \in Memories(HeapRoom) /\ k[0] = u + n + 1 /\ k[u + 1] = n
    BY ONLY <2>1, <2>2, FilledBlockFacts
  <2>4. BlockOf(k, u) = words
    BY ONLY <2>1, <2>2, FilledBlockFacts
  <2>5. \A i \in 1 .. u : k[i] = heap[i]
    BY ONLY SMTT(30), <2>1, <2>2, FilledBlockFacts
  <2>6. \A i \in 1 .. HeapRoom : i > k[0] => k[i] = heap[i]
    BY ONLY SMTT(30), <2>1, <2>2, FilledBlockFacts
  <2>7. \A i \in 1 .. HeapRoom : i > k[0] => i > u
    BY <2>2, <2>3
  <2> QED
    BY <2>3, <2>4, <2>5, <2>6, <2>7, <1>1
<1> QED
  BY <1>2, <1>3 DEF n

(* alloc_block and alloc_string place an object, or tell there is no room. *)
LEMMA AllocatesStep ==
  ASSUME IInv, NEW words \in Seq(Nat), NEW kind \in {"block", "string"},
         Allocates(words, kind), objects' = Objects',
         NEW object, object = Reading(kind, words), Store!WordsOf(object) = 1 + Len(words)
  PROVE  IInv' /\ Store!Place(object)
<1> DEFINE u == heap[0]
           n == Len(words)
<1>1. u \in Nat /\ n \in Nat /\ (Takes(heap, n + 1) <=> u + n + 1 =< HeapRoom)
  <2>1. n + 1 \in Nat /\ n \in Nat
    OBVIOUS
  <2> HIDE DEF n
  <2>2. heap[0] \in Nat /\ (Takes(heap, n + 1) <=> heap[0] + (n + 1) =< HeapRoom)
    BY <2>1, RoomLeft
  <2> QED
    BY <2>1, <2>2
<1>2. Store!Fits(object) <=> u + n + 1 =< HeapRoom
  <2>1. Store!Fits(object) <=> u + (1 + n) =< HeapRoom
    BY DEF Store!Fits, len
  <2> HIDE DEF u, n
  <2> QED
    BY <2>1, <1>1
<1>3. CASE Takes(heap, n + 1)
  <2>1. /\ heap' = BlockTaken(heap, words) /\ given' = WithEntry(given, u, kind)
        /\ answer' = <<"address", u>> /\ stack' = stack
    BY <1>3 DEF Allocates, Gives, len
  <2>2. /\ heap' \in Memories(HeapRoom) /\ heap'[0] = u + n + 1
        /\ heap'[u + 1] = n /\ BlockOf(heap', u) = words
        /\ \A i \in 1 .. u : heap'[i] = heap[i]
        /\ \A i \in 1 .. HeapRoom : i > u + n + 1 => heap'[i] = 0
    <3> HIDE DEF u
    <3> QED
      BY <2>1, <1>1, <1>3, BlockTakenFacts DEF u
  <2>3. kind \in Kinds /\ kind # "context" /\ Store!WordsOf(object) = n + 1
    BY <1>1 DEF Kinds
  <2>4. /\ u \in 0 .. HeapRoom /\ LaidOut(heap', given') /\ objects' = ObjectsOf(heap', given')
        /\ Store!Placed(object, u)
    <3> DEFINE w == u
    <3>1. w = heap[0]
      OBVIOUS
    <3> HIDE DEF w, u, n
    <3> QED
      BY ZenonT(30), <3>1, <2>1, <2>2, <2>3, <1>1, PlacedStep DEF w
  <2>5. IInv'
    BY <2>1, <2>4 DEF IInv
  <2> QED
    BY <2>1, <2>4, <2>5, <1>1, <1>2, <1>3 DEF Store!Place, Store!Answers, len
<1>4. CASE ~Takes(heap, n + 1)
  <2>1. Only(<<"OutOfMemory">>)
    BY <1>4 DEF Allocates
  <2> QED
    BY <2>1, <1>1, <1>2, <1>4, OnlyTells DEF Store!Place
<1> QED
  BY <1>3, <1>4

(* The words of a context after those in use: zeros. *)
LEMMA ContextTakenFacts ==
  ASSUME NEW h \in Memories(HeapRoom), NEW u \in Nat, u = h[0],
         \A i \in 1 .. HeapRoom : i > u => h[i] = 0,
         NEW size \in Nat, NEW n, n = 3 * size + 1, u + n + 1 =< HeapRoom,
         NEW t, t = ContextBlock(h, size)
  PROVE  /\ t \in Memories(HeapRoom) /\ t[0] = u + n + 1 /\ t[u + 1] = n
         /\ \A i \in 1 .. u : t[i] = h[i]
         /\ \A i \in 1 .. HeapRoom : i > u + n + 1 => t[i] = 0
         /\ ContextWords(BlockOf(t, u)) /\ ContextOf(BlockOf(t, u)) = EmptyContext(size)
<1>1. HeapRoom \in Nat /\ SealBit \in Nat /\ HeapRoom < SealBit
  BY RoomAssumption
<1>2. n \in Nat \ {0} /\ size < SealBit /\ n = EntrySize * size + 1
  BY <1>1 DEF EntrySize
<1> DEFINE f == u + 1
<1>3. t = Stored(EmptyBlock(h, n), f, << 0 >>) /\ f = u + 1
  BY DEF ContextBlock, EntrySize, len
<1> HIDE DEF f
<1>4. /\ t \in Memories(HeapRoom) /\ t[0] = u + n + 1 /\ t[u + 1] = n
      /\ \A i \in 1 .. u : t[i] = h[i]
      /\ \A i \in 1 .. HeapRoom : i > u + n + 1 => t[i] = 0
      /\ BlockOf(t, u) \in Seq(Nat) /\ Len(BlockOf(t, u)) = n
      /\ \A i \in 1 .. n : BlockOf(t, u)[i] = 0
  <2>1. /\ HeapRoom \in Nat /\ h \in Memories(HeapRoom) /\ u \in Nat /\ u = h[0]
        /\ \A i \in 1 .. HeapRoom : i > u => h[i] = 0
        /\ n \in Nat \ {0} /\ u + n + 1 =< HeapRoom
    BY <1>1, <1>2
  <2>2. t \in Memories(HeapRoom) /\ t[0] = u + n + 1 /\ t[u + 1] = n
    BY ONLY <2>1, <1>3, ZeroBlockFacts, SMTT(60)
  <2>3. \A i \in 1 .. u : t[i] = h[i]
    BY ONLY <2>1, <1>3, ZeroBlockFacts, SMTT(60)
  <2>4. \A i \in 1 .. HeapRoom : i > u + n + 1 => t[i] = 0
    BY ONLY <2>1, <1>3, ZeroBlockFacts, SMTT(60)
  <2>5. /\ BlockOf(t, u) \in Seq(Nat) /\ Len(BlockOf(t, u)) = n
        /\ \A i \in 1 .. n : BlockOf(t, u)[i] = 0
    BY ONLY <2>1, <1>3, ZeroBlockFacts, SMTT(60)
  <2> QED
    BY <2>2, <2>3, <2>4, <2>5
<1>5. ContextWords(BlockOf(t, u)) /\ ContextOf(BlockOf(t, u)) = EmptyContext(size)
  BY <1>2, <1>4, ZerosAreEmpty
<1> QED
  BY <1>4, <1>5

(* alloc_context: the entries, not cleared, are those of a heap never used. *)
LEMMA AllocContextStep ==
  ASSUME IInv, NEW size \in Nat, AllocContext(size), objects' = Objects'
  PROVE  IInv' /\ Store!AllocContext(size)
<1> DEFINE u == heap[0]
           n == 3 * size + 1
           object == <<"context", EmptyContext(size)>>
<1>1. /\ u \in Nat /\ n \in Nat /\ (Takes(heap, n + 1) <=> u + n + 1 =< HeapRoom)
      /\ HeapRoom \in Nat /\ SealBit \in Nat /\ HeapRoom < SealBit
      /\ heap \in Memories(HeapRoom) /\ \A i \in 1 .. HeapRoom : i > u => heap[i] = 0
  <2>1. n + 1 \in Nat /\ n \in Nat
    OBVIOUS
  <2> HIDE DEF n
  <2>2. heap[0] \in Nat /\ (Takes(heap, n + 1) <=> heap[0] + (n + 1) =< HeapRoom)
    BY <2>1, RoomLeft
  <2>3. /\ HeapRoom \in Nat /\ SealBit \in Nat /\ HeapRoom < SealBit
        /\ heap \in Memories(HeapRoom) /\ \A i \in 1 .. HeapRoom : i > u => heap[i] = 0
    BY RoomAssumption DEF IInv, LaidOut
  <2> QED
    BY <2>1, <2>2, <2>3
<1>2. Store!AllocContext(size) <=> Store!Place(object)
  BY DEF Store!AllocContext, Store!EmptyContext, EmptyContext
<1>3. Store!WordsOf(object) = n + 1
  <2>1. Store!WordsOf(object) = 2 + 3 * size
    BY DEF Store!WordsOf, EmptyContext
  <2> QED
    BY <2>1
<1>4. 3 * size + 2 = n + 1 /\ size =< n
  OBVIOUS
<1> HIDE DEF object
<1>5. Store!Fits(object) <=> u + n + 1 =< HeapRoom
  <2>1. Store!Fits(object) <=> u + (n + 1) =< HeapRoom
    BY <1>3 DEF Store!Fits, len
  <2> HIDE DEF u, n
  <2> QED
    BY <2>1, <1>1
<1>6. CASE Takes(heap, n + 1)
  <2>1. /\ heap' = ContextBlock(heap, size) /\ given' = WithEntry(given, u, "context")
        /\ answer' = <<"address", u>> /\ stack' = stack
    BY <1>4, <1>6 DEF AllocContext, EntrySize, Gives, len
  <2>2. u + n + 1 =< HeapRoom
    BY <1>1, <1>6
  <2> DEFINE w == u
  <2>3. w \in Nat /\ w = heap[0] /\ w + n + 1 =< HeapRoom /\ w = u
    BY <2>2, <1>1
  <2> HIDE DEF w, u
  <2>4. /\ heap' \in Memories(HeapRoom) /\ heap'[0] = w + n + 1 /\ heap'[w + 1] = n
        /\ \A i \in 1 .. w : heap'[i] = heap[i]
        /\ \A i \in 1 .. HeapRoom : i > w + n + 1 => heap'[i] = 0
        /\ ContextWords(BlockOf(heap', w)) /\ ContextOf(BlockOf(heap', w)) = EmptyContext(size)
    <3>1. /\ heap \in Memories(HeapRoom) /\ \A i \in 1 .. HeapRoom : i > w => heap[i] = 0
          /\ n = 3 * size + 1 /\ w + n + 1 =< HeapRoom /\ w \in Nat /\ w = heap[0]
      BY <2>3, <1>1
    <3> HIDE DEF n
    <3> QED
      BY ONLY <3>1, <2>1, size \in Nat, ContextTakenFacts
  <2> HIDE DEF n
  <2>11. object = Reading("context", BlockOf(heap', w)) /\ "context" \in Kinds
    BY <2>4, WordsOfContext DEF object, Kinds
  <2>12. /\ w \in 0 .. HeapRoom /\ LaidOut(heap', given') /\ objects' = ObjectsOf(heap', given')
         /\ Store!Placed(object, w)
    BY <2>1, <2>3, <2>4, <2>11, <1>1, <1>3, PlacedStep
  <2>13. IInv'
    BY <2>1, <2>12 DEF IInv
  <2> QED
    BY <2>1, <2>2, <2>3, <2>12, <2>13, <1>2, <1>5 DEF Store!Place, Store!Answers, len
<1>7. CASE ~Takes(heap, n + 1)
  <2>1. Only(<<"OutOfMemory">>)
    BY <1>4, <1>7 DEF AllocContext, EntrySize
  <2> QED
    BY <2>1, <1>1, <1>2, <1>5, <1>7, OnlyTells DEF Store!Place
<1> QED
  BY <1>6, <1>7

(* Words of a context's own written over change that object alone. *)
LEMMA RewrittenStep ==
  ASSUME IInv, NEW a \in At("context"), NEW d \in Seq(Nat), ContextWords(d),
         Len(d) = heap[a + 1], heap' = Stored(heap, a + 1, d),
         given' = given, stack' = stack, objects' = Objects'
  PROVE  /\ IInv' /\ len(heap)' = len(heap)
         /\ a \in Store!OfKind("context")
         /\ objects[a] = <<"context", ContextOf(BlockOf(heap, a))>>
         /\ objects' = [objects EXCEPT ![a] = <<"context", ContextOf(d)>>]
<1>1. /\ LaidOut(heap, given) /\ objects = ObjectsOf(heap, given) /\ stack \in Memories(StackRoom)
      /\ a \in DOMAIN given /\ given[a] = "context"
  BY DEF IInv, At
<1>2. /\ LaidOut(heap', given)
      /\ ObjectsOf(heap', given) = [ObjectsOf(heap, given) EXCEPT ![a] = Reading("context", d)]
  BY <1>1, Rewritten
<1>3. LaidOut(heap', given') /\ objects' = ObjectsOf(heap', given')
  BY <1>2, ReadsNext
<1>4. \A c : Reading("context", c) = <<"context", ContextOf(c)>>
  BY DEF Reading, ContextOf
<1>5. DOMAIN objects = DOMAIN given /\ objects[a] = <<"context", ContextOf(BlockOf(heap, a))>>
  BY <1>1, <1>4 DEF ObjectsOf
<1>6. a \in Store!OfKind("context")
  BY <1>1, <1>5 DEF Store!OfKind
<1>7. heap'[0] = heap[0]
  <2> DEFINE f == a + 1
             n == Len(d)
  <2>1. /\ a \in Nat /\ HeapRoom \in Nat /\ heap \in [0 .. HeapRoom -> Nat]
        /\ f \in Nat /\ n \in Nat /\ f + n =< HeapRoom
    <3>1. /\ a \in Nat /\ heap[0] \in Nat /\ heap[a + 1] \in Nat
          /\ a + 1 + heap[a + 1] =< heap[0] /\ heap[0] =< HeapRoom
      BY <1>1, LaidOutBlock
    <3>2. HeapRoom \in Nat /\ heap \in [0 .. HeapRoom -> Nat]
      BY <1>1, RoomAssumption DEF LaidOut, Memories
    <3> DEFINE u == heap[0]
               e == heap[a + 1]
    <3>3. u \in Nat /\ e \in Nat /\ a + 1 + e =< u /\ u =< HeapRoom /\ n = e
      BY <3>1
    <3> HIDE DEF u, e, n
    <3> QED
      BY <3>1, <3>2, <3>3
  <2>2. heap' = [i \in 0 .. HeapRoom |-> IF i - f \in 1 .. n THEN d[i - f] ELSE heap[i]]
    <3>1. DOMAIN heap = 0 .. HeapRoom /\ DOMAIN d = 1 .. n /\ heap' = Stored(heap, f, d)
      BY <2>1
    <3> HIDE DEF f, n
    <3> QED
      BY ONLY <3>1 DEF Stored
  <2>3. 0 - f \notin 1 .. n /\ 0 \in 0 .. HeapRoom
    BY <2>1
  <2> HIDE DEF f, n
  <2>4. heap'[0] = (IF 0 - f \in 1 .. n THEN d[0 - f] ELSE heap[0])
    BY ONLY <2>2, <2>3
  <2> QED
    BY ONLY <2>3, <2>4
<1> QED
  BY <1>1, <1>2, <1>3, <1>4, <1>5, <1>6, <1>7 DEF IInv, len

(* Of an object's two parts, the second changes. *)
LEMMA SecondChanged ==
  ASSUME NEW x, NEW y
  PROVE  [<<"context", x>> EXCEPT ![2] = y] = <<"context", y>>
OBVIOUS

(* put through an address puts in the map there, and answers as it does. *)
LEMMA PutAtStep ==
  ASSUME IInv, NEW a \in At("context"), NEW s \in Symbols, NEW v \in Nat \X Nat,
         PutAt(a, s, v), objects' = Objects'
  PROVE  IInv' /\ a \in Store!OfKind("context") /\ Store!PutAt(a, s, v)
<1> DEFINE c == BlockOf(heap, a)
           d == put(c, s, v).words
<1>1. /\ a \in DOMAIN given /\ given[a] = "context" /\ LaidOut(heap, given)
  BY DEF IInv, At
<1>2. /\ InBlock(heap, a) /\ Len(c) = heap[a + 1] /\ ContextWords(c)
  BY <1>1, LaidOutBlock DEF LaidOut
<1>3. /\ heap' = Stored(heap, a + 1, d) /\ answer' = <<put(c, s, v).answer>>
      /\ stack' = stack /\ given' = given
  BY <1>2 DEF PutAt, Gives
<1> HIDE DEF c
<1>4. /\ put(c, s, v).answer = PutResult(ContextOf(c), s)
      /\ ContextOf(d) = Put(ContextOf(c), s, v)
      /\ ContextWords(d) /\ Len(d) = Len(c)
  BY <1>2, PutIsPut
<1> HIDE DEF d
<1>5. d \in Seq(Nat)
  BY <1>4 DEF ContextWords, Shaped
<1>6. /\ IInv' /\ len(heap)' = len(heap)
      /\ a \in Store!OfKind("context")
      /\ objects[a] = <<"context", ContextOf(BlockOf(heap, a))>>
      /\ objects' = [objects EXCEPT ![a] = <<"context", ContextOf(d)>>]
  BY <1>2, <1>3, <1>4, <1>5, RewrittenStep
<1>7. objects[a] = <<"context", ContextOf(c)>>
  BY <1>6 DEF c
<1>8. answer' = <<Store!PutResult(objects[a][2], s)>>
  BY <1>3, <1>4, <1>7, SameResult
<1>9. [objects[a] EXCEPT ![2] = Store!Put(objects[a][2], s, v)] = <<"context", ContextOf(d)>>
  BY <1>4, <1>7, SamePut, SecondChanged
<1>10. objects' = [objects EXCEPT ![a][2] = Store!Put(@, s, v)]
  BY <1>6, <1>9
<1> QED
  BY <1>3, <1>6, <1>8, <1>10 DEF Store!PutAt, Store!Answers, len

(* seal sets the bit of the header, once. *)
LEMMA SealAtStep ==
  ASSUME IInv, NEW a \in At("context"), SealAt(a), objects' = Objects'
  PROVE  IInv' /\ a \in Store!OfKind("context") /\ Store!SealAt(a)
<1> DEFINE c == BlockOf(heap, a)
           n == heap[a + 1]
           head == IF c[1] >= SealBit THEN c[1] ELSE c[1] + SealBit
           d == [c EXCEPT ![1] = head]
<1>1. a \in DOMAIN given /\ given[a] = "context" /\ LaidOut(heap, given)
  BY DEF IInv, At
<1>2. /\ a \in Nat /\ n \in Nat /\ a + 1 + n =< HeapRoom
      /\ c \in Seq(Nat) /\ Len(c) = n /\ ContextWords(c)
      /\ \A i \in 1 .. n : c[i] = heap[a + 1 + i]
  <2>1. /\ a \in Nat /\ n \in Nat /\ c \in Seq(Nat) /\ Len(c) = n /\ ContextWords(c)
        /\ \A i \in 1 .. n : c[i] = heap[a + 1 + i]
    BY <1>1, LaidOutBlock DEF LaidOut
  <2>2. heap[0] \in Nat /\ a + 1 + n =< heap[0] /\ heap[0] =< HeapRoom /\ HeapRoom \in Nat
    BY <1>1, LaidOutBlock, RoomAssumption
  <2> DEFINE u == heap[0]
  <2>3. u \in Nat /\ a + 1 + n =< u /\ u =< HeapRoom /\ HeapRoom \in Nat
    BY <2>2
  <2> HIDE DEF u, n, c
  <2>4. a + 1 + n =< HeapRoom
    BY <2>1, <2>3
  <2> QED
    BY <2>1, <2>4
<1>3. HeapRoom \in Nat /\ heap \in [0 .. HeapRoom -> Nat] /\ SealBit \in Nat
  BY <1>1, RoomAssumption DEF LaidOut, Memories
<1>4. /\ heap' = [heap EXCEPT ![a + 2] = IF heap[a + 2] >= SealBit THEN heap[a + 2] ELSE heap[a + 2] + SealBit]
      /\ answer' = <<"ok">> /\ stack' = stack /\ given' = given
  BY DEF SealAt, Gives
<1> HIDE DEF c, n
<1>5. 1 \in 1 .. n
  <2>1. Len(c) = EntrySize * Capacity(c) + 1 /\ Capacity(c) \in Nat
    BY <1>2 DEF ContextWords, Shaped
  <2> DEFINE q == Capacity(c)
  <2> HIDE DEF q
  <2>2. n = 3 * q + 1 /\ q \in Nat
    BY <2>1, <1>2 DEF EntrySize, q
  <2> QED
    BY <2>2
<1>6. c[1] \in Nat /\ c[1] = heap[a + 2] /\ head \in Nat
  <2>1. c[1] \in Nat
    BY <1>2, <1>5
  <2>2. c[1] = heap[a + 1 + 1] /\ a + 1 + 1 = a + 2
    BY <1>2, <1>5
  <2> QED
    BY <2>1, <2>2, <1>3
<1>7. /\ d \in Seq(Nat) /\ Len(d) = n /\ d[1] = head
      /\ \A j \in 2 .. n : d[j] = c[j]
  <2> HIDE DEF head
  <2> QED
    BY <1>2, <1>5, <1>6
<1>8. heap' = Stored(heap, a + 1, d)
  <2> DEFINE f == a + 1
  <2>1. Stored(heap, f, d) = [i \in 0 .. HeapRoom |-> IF i - f \in 1 .. n THEN d[i - f] ELSE heap[i]]
    BY <1>3, <1>7 DEF Stored
  <2>2. heap' = [i \in 0 .. HeapRoom |-> IF i = a + 2 THEN head ELSE heap[i]]
    BY <1>3, <1>4, <1>6
  <2> HIDE DEF head, d
  <2>3. ASSUME NEW i \in 0 .. HeapRoom
        PROVE  (IF i - f \in 1 .. n THEN d[i - f] ELSE heap[i]) = (IF i = a + 2 THEN head ELSE heap[i])
    <3>1. CASE i = a + 2
      <4>1. i - f = 1
        BY <3>1, <1>2
      <4> HIDE DEF f
      <4> QED
        BY <4>1, <3>1, <1>5, <1>7
    <3>2. CASE i # a + 2 /\ i - f \in 1 .. n
      <4> DEFINE j == i - f
      <4>1. j \in 2 .. n /\ j \in 1 .. n /\ a + 1 + j = i
        BY <3>2, <1>2
      <4> HIDE DEF j
      <4>2. d[j] = heap[i]
        BY <4>1, <1>2, <1>7
      <4> QED
        BY <4>2, <3>2 DEF j
    <3>3. CASE i # a + 2 /\ i - f \notin 1 .. n
      BY <3>3
    <3> QED
      BY <3>1, <3>2, <3>3
  <2> QED
    BY <2>1, <2>2, <2>3
<1>9. ContextWords(d) /\ ContextOf(d) = Seal(ContextOf(c))
  <2> HIDE DEF d
  <2> QED
    BY <1>2, <1>7, SealIsSeal
<1> HIDE DEF d
<1>10. /\ IInv' /\ len(heap)' = len(heap)
       /\ a \in Store!OfKind("context")
       /\ objects[a] = <<"context", ContextOf(BlockOf(heap, a))>>
       /\ objects' = [objects EXCEPT ![a] = <<"context", ContextOf(d)>>]
  BY <1>4, <1>7, <1>8, <1>9, RewrittenStep DEF n
<1>11. objects[a] = <<"context", ContextOf(c)>>
  BY <1>10 DEF c
<1>12. [objects[a] EXCEPT ![2] = Store!Seal(objects[a][2])] = <<"context", ContextOf(d)>>
  BY <1>9, <1>11, SameSeal, SecondChanged
<1>13. objects' = [objects EXCEPT ![a][2] = Store!Seal(@)]
  BY <1>10, <1>12
<1> QED
  BY <1>4, <1>10, <1>13 DEF Store!SealAt, Store!Answers, len

(* The words the store's stack is. *)
LEMMA StackType ==
  ASSUME IInv
  PROVE  /\ StackRoom \in Nat /\ stack \in Memories(StackRoom)
         /\ stack[0] \in Nat /\ stack[0] =< StackRoom
         /\ Shown(stack) \in Seq(Nat) /\ Len(Shown(stack)) = stack[0]
         /\ \A n : Store!Below(n) = SubSeq(Shown(stack), 1, n)
         /\ \A n : Store!Top(n) = SubSeq(Shown(stack), stack[0] - n + 1, stack[0])
<1> DEFINE v == stack[0]
<1>1. StackRoom \in Nat /\ stack \in Memories(StackRoom) /\ v \in Nat /\ v =< StackRoom
  BY RoomAssumption, MemoryType DEF IInv
<1>2. Shown(stack) \in Seq(Nat) /\ Len(Shown(stack)) = v
  <2> DEFINE u == v
  <2>1. u \in Nat /\ u = stack[0]
    BY <1>1
  <2> HIDE DEF u
  <2>2. Shown(stack) \in Seq(Nat) /\ Len(Shown(stack)) = u
    BY <1>1, <2>1, ShownType
  <2> QED
    BY <2>1, <2>2
<1>3. Shown(stack) = Slice(stack, 0, len(stack))
  BY DEF Shown
<1>4. /\ \A n : Store!Below(n) = SubSeq(Shown(stack), 1, n)
      /\ \A n : Store!Top(n) = SubSeq(Shown(stack), Len(Shown(stack)) - n + 1, Len(Shown(stack)))
  BY <1>3 DEF Store!Below, Store!Top
<1> QED
  BY <1>1, <1>2, <1>4

(* A call that changes the words shown, and nothing else. *)
LEMMA BecomesStep ==
  ASSUME IInv, stack' \in Memories(StackRoom), NEW words, Shown(stack') = words,
         NEW what, answer' = what, heap' = heap, given' = given, objects' = Objects'
  PROVE  IInv' /\ Store!Becomes(words, what)
<1>1. Slice(stack, 0, len(stack))' = words
  BY DEF Shown, len
<1> QED
  BY <1>1, SameObjects DEF IInv, Store!Becomes, Store!Answers, len

(* push and alloc of Stack. *)
LEMMA PushStep ==
  ASSUME IInv, NEW words \in Seq(Nat), Push(words), objects' = Objects'
  PROVE  IInv' /\ Store!Push(words)
<1> DEFINE v == stack[0]
           n == Len(words)
           both == Shown(stack) \o words
<1>1. /\ StackRoom \in Nat /\ stack \in Memories(StackRoom) /\ v \in Nat /\ n \in Nat
      /\ Len(Shown(stack)) = v
  BY StackType
<1>2. Takes(stack, n) <=> v + n =< StackRoom
  BY <1>1, RoomLeft
<1>3. /\ v + n =< StackRoom => (Store!Push(words) <=> Store!Becomes(both, <<"ok">>))
      /\ ~(v + n =< StackRoom) => (Store!Push(words) <=> Store!Tells(<<"OutOfMemory">>))
  BY <1>1 DEF Store!Push, Shown
<1>4. CASE v + n =< StackRoom
  <2>1. /\ stack' = Taken(stack, words) /\ answer' = <<"ok">>
        /\ heap' = heap /\ given' = given
    BY <1>2, <1>4 DEF Push, Gives
  <2> DEFINE u == v
  <2>2. u \in Nat /\ u = stack[0] /\ u + n =< StackRoom
    BY <1>1, <1>4
  <2> HIDE DEF u, v
  <2>3. Taken(stack, words) \in Memories(StackRoom) /\ Shown(Taken(stack, words)) = both
    BY <1>1, <2>2, ShownPush
  <2> QED
    BY <2>1, <2>3, <1>3, <1>4, BecomesStep
<1>5. CASE ~(v + n =< StackRoom)
  <2>1. Only(<<"OutOfMemory">>)
    BY <1>2, <1>5 DEF Push
  <2> QED
    BY <2>1, <1>3, <1>5, OnlyTells
<1> QED
  BY <1>4, <1>5

(* The words on top, as Stack::peek_all reads them. *)
LEMMA LastOfStack ==
  ASSUME IInv, NEW n \in Nat, n =< stack[0]
  PROVE  /\ LastOf(n) = Store!Top(n)
         /\ LastOf(n) \in Seq(Nat) /\ Len(LastOf(n)) = n
<1> DEFINE u == stack[0]
<1>1. /\ StackRoom \in Nat /\ stack \in Memories(StackRoom) /\ u \in Nat /\ u = stack[0]
      /\ Store!Top(n) = SubSeq(Shown(stack), u - n + 1, u)
  BY StackType
<1>2. LastOf(n) = Slice(stack, u - n, n)
  BY DEF LastOf, len
<1>3. n \in 0 .. u
  BY <1>1
<1> HIDE DEF u
<1>4. /\ Slice(stack, u - n, n) = SubSeq(Shown(stack), u - n + 1, u)
      /\ Slice(stack, u - n, n) \in Seq(Nat) /\ Len(Slice(stack, u - n, n)) = n
  BY <1>1, <1>3, ShownTop
<1> QED
  BY <1>1, <1>2, <1>4

(* The words below a base, and a pair above them. *)
LEMMA CutStack ==
  ASSUME IInv, NEW n \in Nat, n =< stack[0]
  PROVE  LET left == init(stack, n)
         IN  /\ left \in Memories(StackRoom) /\ Shown(left) = Store!Below(n)
             /\ Takes(left, 2) <=> n + 2 =< StackRoom
             /\ \A pair \in Seq(Nat) :
                  Len(pair) = 2 /\ n + 2 =< StackRoom
                    => /\ Taken(left, pair) \in Memories(StackRoom)
                       /\ Shown(Taken(left, pair)) = Store!Below(n) \o pair
<1> DEFINE u == stack[0]
           left == init(stack, n)
<1>1. /\ StackRoom \in Nat /\ stack \in Memories(StackRoom) /\ u \in Nat /\ u = stack[0]
      /\ Store!Below(n) = SubSeq(Shown(stack), 1, n)
  BY StackType
<1>2. n \in 0 .. u
  BY <1>1
<1> HIDE DEF u
<1>3. /\ left \in Memories(StackRoom) /\ left[0] = n /\ Shown(left) = SubSeq(Shown(stack), 1, n)
  BY <1>1, <1>2, ShownPop
<1> HIDE DEF left
<1>4. Takes(left, 2) <=> n + 2 =< StackRoom
  <2>1. DOMAIN left = 0 .. StackRoom
    BY <1>3 DEF Memories
  <2> QED
    BY <2>1, <1>1, <1>3 DEF Takes, len
<1>5. ASSUME NEW pair \in Seq(Nat), Len(pair) = 2, n + 2 =< StackRoom
      PROVE  /\ Taken(left, pair) \in Memories(StackRoom)
             /\ Shown(Taken(left, pair)) = Shown(left) \o pair
  <2>1. n = left[0] /\ n + Len(pair) =< StackRoom
    BY <1>3, <1>5
  <2> QED
    BY <2>1, <1>1, <1>3, ShownPush
<1> QED
  BY <1>1, <1>3, <1>4, <1>5 DEF left

(* pop of Stack. *)
LEMMA PopStep ==
  ASSUME IInv, NEW n \in Nat, Pop(n), objects' = Objects'
  PROVE  IInv' /\ Store!Pop(n)
<1> DEFINE v == stack[0]
<1>1. v \in Nat /\ Len(Shown(stack)) = v
  BY StackType
<1>2. /\ n =< v => (Store!Pop(n) <=> Store!Becomes(Store!Below(v - n), <<"words", Store!Top(n)>>))
      /\ ~(n =< v) => (Store!Pop(n) <=> Store!Tells(<<"StackUnderflow">>))
  BY <1>1 DEF Store!Pop, Shown
<1>3. CASE n =< v
  <2> DEFINE m == v - n
  <2>1. m \in Nat /\ m =< v
    BY <1>1, <1>3
  <2>2. /\ stack' = init(stack, m) /\ answer' = <<"words", LastOf(n)>>
        /\ heap' = heap /\ given' = given
    BY <1>3 DEF Pop, Gives, len
  <2> HIDE DEF m
  <2>3. init(stack, m) \in Memories(StackRoom) /\ Shown(init(stack, m)) = Store!Below(m)
    BY <2>1, CutStack
  <2>4. LastOf(n) = Store!Top(n)
    BY <1>3, LastOfStack
  <2>5. IInv' /\ Store!Becomes(Store!Below(m), <<"words", Store!Top(n)>>)
    BY <2>2, <2>3, <2>4, BecomesStep
  <2> QED
    BY <2>5, <1>2, <1>3 DEF m
<1>4. CASE ~(n =< v)
  <2>1. Only(<<"StackUnderflow">>)
    BY <1>4 DEF Pop, len
  <2> QED
    BY <2>1, <1>2, <1>4, OnlyTells
<1> QED
  BY <1>3, <1>4

(* Exec::leave, by the height of the stack above the base. *)
LEMMA LeaveStep ==
  ASSUME IInv, NEW n \in Nat, Leave(n), objects' = Objects'
  PROVE  IInv' /\ Store!Leave(n)
<1> DEFINE v == stack[0]
           over == v - n
           pair == Store!Top(2)
           zeros == <<0, 0>>
<1>1. /\ v \in Nat /\ v =< StackRoom /\ StackRoom \in Nat
      /\ Shown(stack) \in Seq(Nat) /\ Len(Shown(stack)) = v
  BY StackType
<1>2. /\ over < 0 => (Store!Leave(n) <=> Store!Tells(<<"StackUnderflow">>))
      /\ over = 0 => (Store!Leave(n) <=> Store!Push(zeros))
      /\ over > 0 /\ v < 2 => (Store!Leave(n) <=> Store!Tells(<<"StackUnderflow">>))
      /\ over > 0 /\ ~(v < 2) /\ n + 2 =< StackRoom
           => (Store!Leave(n) <=> Store!Becomes(Store!Below(n) \o pair, <<"ok">>))
      /\ over > 0 /\ ~(v < 2) /\ ~(n + 2 =< StackRoom)
           => (Store!Leave(n) <=> Store!Becomes(Store!Below(n), <<"OutOfMemory">>))
  <2>1. Len(Slice(stack, 0, len(stack))) = v
    BY <1>1 DEF Shown
  <2>2. over \in Int
    BY <1>1
  <2> HIDE DEF v, pair
  <2>3. Len(Slice(stack, 0, len(stack))) - n = over
    BY <2>1
  <2> HIDE DEF over
  <2> QED
    BY <2>1, <2>2, <2>3 DEF Store!Leave, pair
<1>3. CASE over < 0
  <2>1. v < n /\ v # n /\ v # n + 2
    BY <1>1, <1>3
  <2>2. Only(<<"StackUnderflow">>)
    BY <2>1 DEF Leave, len
  <2> QED
    BY <2>2, <1>2, <1>3, OnlyTells
<1>4. CASE over = 0
  <2>1. v = n /\ v # n + 2
    BY <1>1, <1>4
  <2>2. Push(zeros)
    BY <2>1 DEF Leave, len
  <2>3. zeros \in Seq(Nat)
    OBVIOUS
  <2> HIDE DEF zeros
  <2> QED
    BY <2>2, <2>3, <1>2, <1>4, PushStep
<1>5. CASE over = 2
  <2>1. v = n + 2 /\ over > 0 /\ ~(v < 2) /\ n + 2 =< StackRoom
    BY <1>1, <1>5
  <2>2. Only(<<"ok">>)
    BY <2>1 DEF Leave, len
  <2>3. Store!Below(n) \o pair = Shown(stack)
    <3> DEFINE S == Shown(stack)
               u == v
               k == n + 1
    <3>1. Store!Below(n) = SubSeq(S, 1, n) /\ pair = SubSeq(S, u - 2 + 1, u)
      BY StackType
    <3>2. u - 2 + 1 = n + 1
      BY <2>1
    <3>3. S \in Seq(Nat) /\ Len(S) = u
      BY <1>1
    <3> HIDE DEF S, u, pair
    <3>4. 1 \in 1 .. Len(S) + 1 /\ n \in 1 - 1 .. Len(S) /\ u \in n .. Len(S)
      BY SMTT(30), <3>2, <3>3, <1>1 DEF u
    <3>5. SubSeq(S, 1, n) \o SubSeq(S, n + 1, u) = SubSeq(S, 1, u)
      BY <3>3, <3>4, ConcatAdjacentSubSeq
    <3>6. SubSeq(S, 1, u) = S
      BY <3>3, SubSeqFull
    <3> QED
      BY <3>1, <3>2, <3>5, <3>6 DEF S
  <2>4. stack' = stack /\ heap' = heap /\ given' = given /\ answer' = <<"ok">>
    BY <2>2 DEF Only, Gives
  <2>5. stack \in Memories(StackRoom)
    BY StackType
  <2> HIDE DEF pair
  <2>6. IInv' /\ Store!Becomes(Store!Below(n) \o pair, <<"ok">>)
    BY <2>3, <2>4, <2>5, BecomesStep
  <2> QED
    BY <2>1, <2>6, <1>2
<1>6. CASE over > 0 /\ over # 2 /\ v < 2
  <2>1. ~(v = n + 2) /\ ~(v = n) /\ ~(v < n)
    BY <1>1, <1>6
  <2>2. Only(<<"StackUnderflow">>)
    BY <2>1, <1>6 DEF Leave, len
  <2> QED
    BY <2>2, <1>2, <1>6, OnlyTells
<1>7. CASE over > 0 /\ over # 2 /\ ~(v < 2)
  <2> DEFINE left == init(stack, n)
             last == LastOf(2)
  <2>1. ~(v = n + 2) /\ ~(v = n) /\ ~(v < n) /\ n =< v /\ 2 =< v
    BY <1>1, <1>7
  <2>2. /\ heap' = heap /\ given' = given
        /\ Takes(left, 2) => stack' = Taken(left, last) /\ answer' = <<"ok">>
        /\ ~Takes(left, 2) => stack' = left /\ answer' = <<"OutOfMemory">>
    BY <2>1, <1>7 DEF Leave, Gives, len
  <2> HIDE DEF last
  <2>3. last \in Seq(Nat) /\ Len(last) = 2 /\ last = pair
    BY <2>1, LastOfStack DEF last
  <2>4. /\ left \in Memories(StackRoom) /\ Shown(left) = Store!Below(n)
        /\ Takes(left, 2) <=> n + 2 =< StackRoom
        /\ n + 2 =< StackRoom => /\ Taken(left, last) \in Memories(StackRoom)
                                 /\ Shown(Taken(left, last)) = Store!Below(n) \o last
    BY <2>1, <2>3, CutStack
  <2> HIDE DEF left, pair
  <2>5. CASE n + 2 =< StackRoom
    <3>1. IInv' /\ Store!Becomes(Store!Below(n) \o pair, <<"ok">>)
      BY <2>2, <2>3, <2>4, <2>5, BecomesStep
    <3> QED
      BY <3>1, <2>5, <1>2, <1>7
  <2>6. CASE ~(n + 2 =< StackRoom)
    <3>1. IInv' /\ Store!Becomes(Store!Below(n), <<"OutOfMemory">>)
      BY <2>2, <2>4, <2>6, BecomesStep
    <3> QED
      BY <3>1, <2>6, <1>2, <1>7
  <2> QED
    BY <2>5, <2>6
<1>8. over \in Int
  BY <1>1
<1> HIDE DEF over
<1>9. over < 0 \/ over = 0 \/ over = 2 \/ (over > 0 /\ over # 2)
  BY <1>8
<1> QED
  BY <1>3, <1>4, <1>5, <1>6, <1>7, <1>9

(* A block gathered holds the words that lay above the base, and its       *)
(* address takes their place. *)
LEMMA GatherStep ==
  ASSUME IInv, NEW n \in Nat, NEW tag \in Nat, Gather(n, tag), objects' = Objects'
  PROVE  IInv' /\ Store!Gather(n, tag)
<1> DEFINE v == stack[0]
           u == heap[0]
           l == v - n
           object == <<"block", Store!Top(l)>>
           left == init(stack, n)
           words == LastOf(l)
           pair == <<tag, u>>
<1>1. /\ v \in Nat /\ v =< StackRoom /\ StackRoom \in Nat
      /\ Shown(stack) \in Seq(Nat) /\ Len(Shown(stack)) = v /\ u \in Nat
  BY StackType, RoomLeft
<1>2. /\ n > v => (Store!Gather(n, tag) <=> Store!Tells(<<"StackUnderflow">>))
      /\ n =< v /\ ~Store!Fits(object)
           => (Store!Gather(n, tag) <=> Store!Becomes(Store!Below(n), <<"OutOfMemory">>))
      /\ n =< v /\ Store!Fits(object)
           => (Store!Gather(n, tag) <=>
                 \E a \in 0 .. HeapRoom :
                   /\ IF n + 2 =< StackRoom
                      THEN Slice(stack, 0, len(stack))' = Store!Below(n) \o <<tag, a>>
                             /\ Store!Answers(<<"ok">>)
                      ELSE Slice(stack, 0, len(stack))' = Store!Below(n)
                             /\ Store!Answers(<<"OutOfMemory">>)
                   /\ Store!Placed(object, a))
  <2>1. Len(Slice(stack, 0, len(stack))) = v
    BY <1>1 DEF Shown
  <2> HIDE DEF v, u
  <2>2. ~(n > v /\ n =< v) /\ (n > v \/ n =< v)
    BY <1>1
  <2> QED
    BY <2>1, <2>2 DEF Store!Gather
<1>3. CASE n > v
  <2>1. Only(<<"StackUnderflow">>)
    BY <1>3 DEF Gather, len
  <2> QED
    BY <2>1, <1>2, <1>3, OnlyTells
<1>4. CASE n =< v
  <2>1. l \in Nat /\ l =< v /\ ~(n > v)
    BY <1>1, <1>4
  <2>2. /\ ~Takes(heap, Len(words) + 1)
             => stack' = left /\ answer' = <<"OutOfMemory">> /\ heap' = heap /\ given' = given
        /\ Takes(heap, Len(words) + 1)
             => /\ heap' = BlockTaken(heap, words) /\ given' = WithEntry(given, u, "block")
                /\ Takes(left, 2) => stack' = Taken(left, pair) /\ answer' = <<"ok">>
                /\ ~Takes(left, 2) => stack' = left /\ answer' = <<"OutOfMemory">>
    BY <2>1 DEF Gather, Gives, len
  <2> HIDE DEF words, l
  <2>3. words \in Seq(Nat) /\ Len(words) = l /\ words = Store!Top(l)
    BY <2>1, LastOfStack DEF words
  <2>4. /\ left \in Memories(StackRoom) /\ Shown(left) = Store!Below(n)
        /\ Takes(left, 2) <=> n + 2 =< StackRoom
        /\ \A p \in Seq(Nat) : Len(p) = 2 /\ n + 2 =< StackRoom
             => /\ Taken(left, p) \in Memories(StackRoom)
                /\ Shown(Taken(left, p)) = Store!Below(n) \o p
    BY <1>4, CutStack
  <2>5. pair \in Seq(Nat) /\ Len(pair) = 2
    BY <1>1
  <2> HIDE DEF left
  <2>6. /\ Store!WordsOf(object) = l + 1 /\ object = Reading("block", words)
        /\ (Takes(heap, Len(words) + 1) <=> u + l + 1 =< HeapRoom)
        /\ (Store!Fits(object) <=> u + l + 1 =< HeapRoom)
    <3>1. Store!WordsOf(object) = 1 + l /\ object = Reading("block", words)
      BY <2>3, WordsOfBlock
    <3>2. l + 1 \in Nat
      BY <2>1
    <3>3. Takes(heap, l + 1) <=> u + (l + 1) =< HeapRoom
      BY <3>2, RoomLeft
    <3>4. Store!Fits(object) <=> u + (1 + l) =< HeapRoom
      BY <3>1 DEF Store!Fits, len
    <3> HIDE DEF u, object
    <3> QED
      BY <3>1, <3>3, <3>4, <2>1, <2>3, <1>1
  <2> HIDE DEF object
  <2>7. CASE ~(u + l + 1 =< HeapRoom)
    <3>1. IInv' /\ Store!Becomes(Store!Below(n), <<"OutOfMemory">>)
      BY <2>2, <2>4, <2>6, <2>7, BecomesStep
    <3> QED
      BY <3>1, <2>6, <2>7, <1>2, <1>4
  <2>8. CASE u + l + 1 =< HeapRoom
    <3> DEFINE w == u
    <3>1. w \in Nat /\ w = heap[0] /\ w = u
      BY <1>1
    <3>2. heap' = BlockTaken(heap, words) /\ given' = WithEntry(given, w, "block")
      BY <2>2, <2>6, <2>8
    <3> HIDE DEF w, u
    <3>3. w + Len(words) + 1 =< HeapRoom
      BY <2>3, <2>8, <3>1
    <3>4. /\ heap' \in Memories(HeapRoom) /\ heap'[0] = w + l + 1
          /\ heap'[w + 1] = l /\ BlockOf(heap', w) = words
          /\ \A i \in 1 .. w : heap'[i] = heap[i]
          /\ \A i \in 1 .. HeapRoom : i > w + l + 1 => heap'[i] = 0
      BY <2>3, <3>1, <3>2, <3>3, BlockTakenFacts
    <3>5. /\ w \in 0 .. HeapRoom /\ LaidOut(heap', given') /\ objects' = ObjectsOf(heap', given')
          /\ Store!Placed(object, w)
      <4>1. "block" \in Kinds /\ "block" # "context"
        BY DEF Kinds
      <4> QED
        BY <4>1, <2>1, <2>6, <3>1, <3>2, <3>4, PlacedStep
    <3>6. CASE n + 2 =< StackRoom
      <4>1. stack' = Taken(left, pair) /\ answer' = <<"ok">>
        BY <2>2, <2>4, <2>6, <2>8, <3>6
      <4>2. stack' \in Memories(StackRoom) /\ Shown(stack') = Store!Below(n) \o <<tag, w>>
        BY <4>1, <2>4, <2>5, <3>1, <3>6
      <4>3. Slice(stack, 0, len(stack))' = Store!Below(n) \o <<tag, w>>
        BY <4>2 DEF Shown, len
      <4> QED
        BY <4>1, <4>2, <4>3, <3>5, <3>6, <2>6, <2>8, <1>2, <1>4 DEF IInv, Store!Answers
    <3>7. CASE ~(n + 2 =< StackRoom)
      <4>1. stack' = left /\ answer' = <<"OutOfMemory">>
        BY <2>2, <2>4, <2>6, <2>8, <3>7
      <4>2. stack' \in Memories(StackRoom) /\ Shown(stack') = Store!Below(n)
        BY <4>1, <2>4
      <4>3. Slice(stack, 0, len(stack))' = Store!Below(n)
        BY <4>2 DEF Shown, len
      <4> QED
        BY <4>1, <4>2, <4>3, <3>5, <3>7, <2>6, <2>8, <1>2, <1>4 DEF IInv, Store!Answers
    <3> QED
      BY <3>6, <3>7
  <2> QED
    BY <2>7, <2>8
<1>5. n > v \/ n =< v
  BY <1>1
<1> QED
  BY <1>3, <1>4, <1>5

-----------------------------------------------------------------------------
(* The heap Module::init makes.                                            *)

(* A symbol table with nothing in it. *)
EmptyTable == [i \in 1 .. TableWords |-> 0]

(* The words of a symbol table. *)
LEMMA TableTakenFacts ==
  ASSUME NEW h \in Memories(HeapRoom), NEW u \in Nat, u = h[0],
         \A i \in 1 .. HeapRoom : i > u => h[i] = 0,
         NEW n, n = TableWords, u + n + 1 =< HeapRoom,
         NEW f, f = u + 1, NEW t, t = Stored(EmptyBlock(h, TableWords), f, << 0 >>)
  PROVE  /\ t \in Memories(HeapRoom) /\ t[0] = u + n + 1 /\ t[u + 1] = n
         /\ \A i \in 1 .. u : t[i] = h[i]
         /\ \A i \in 1 .. HeapRoom : i > u + n + 1 => t[i] = 0
         /\ BlockOf(t, u) = EmptyTable
<1>1. HeapRoom \in Nat /\ n \in Nat \ {0}
  BY RoomAssumption
<1>2. t = Stored(EmptyBlock(h, n), f, << 0 >>)
  OBVIOUS
<1>3. /\ HeapRoom \in Nat /\ h \in Memories(HeapRoom) /\ u \in Nat /\ u = h[0]
      /\ \A i \in 1 .. HeapRoom : i > u => h[i] = 0
      /\ n \in Nat \ {0} /\ u + n + 1 =< HeapRoom /\ f = u + 1
  BY <1>1
<1>4. t \in Memories(HeapRoom) /\ t[0] = u + n + 1 /\ t[u + 1] = n
  BY ONLY <1>2, <1>3, ZeroBlockFacts, SMTT(60)
<1>5. \A i \in 1 .. u : t[i] = h[i]
  BY ONLY <1>2, <1>3, ZeroBlockFacts, SMTT(60)
<1>6. \A i \in 1 .. HeapRoom : i > u + n + 1 => t[i] = 0
  BY ONLY <1>2, <1>3, ZeroBlockFacts, SMTT(60)
<1>7. /\ BlockOf(t, u) \in Seq(Nat) /\ Len(BlockOf(t, u)) = n
      /\ \A i \in 1 .. n : BlockOf(t, u)[i] = 0
  BY ONLY <1>2, <1>3, ZeroBlockFacts, SMTT(60)
<1>8. BlockOf(t, u) = EmptyTable
  <2> DEFINE b == BlockOf(t, u)
  <2>1. b \in Seq(Nat) /\ Len(b) = n /\ \A i \in 1 .. n : b[i] = 0
    BY <1>7
  <2> HIDE DEF b
  <2>2. b = [i \in 1 .. n |-> 0]
    BY ONLY <2>1, <1>1, SMTT(30)
  <2> QED
    BY <2>2 DEF EmptyTable, b
<1> QED
  BY <1>4, <1>5, <1>6, <1>8

(* Words written before all objects change none of them. *)
LEMMA HeaderKept ==
  ASSUME NEW h, NEW g, LaidOut(h, g), NEW d \in Seq(Nat), NEW n \in Nat, Len(d) = n, n =< h[0],
         \A a \in DOMAIN g : n =< a,
         NEW k, k = Stored(h, 0, d)
  PROVE  LaidOut(k, g) /\ ObjectsOf(k, g) = ObjectsOf(h, g) /\ k[0] = h[0]
<1> DEFINE u == h[0]
<1>1. h \in [0 .. HeapRoom -> Nat] /\ HeapRoom \in Nat /\ u \in Nat /\ u =< HeapRoom /\ n =< u
  BY RoomAssumption, MemoryType DEF LaidOut
<1> HIDE DEF u
<1>2. /\ k \in [0 .. HeapRoom -> Nat]
      /\ \A i \in 0 .. HeapRoom : i =< 0 \/ i > 0 + Len(d) => k[i] = h[i]
  <2>1. 0 \in Nat /\ 0 + Len(d) =< HeapRoom
    BY <1>1
  <2> QED
    BY ONLY SMTT(30), <2>1, <1>1, d \in Seq(Nat), k = Stored(h, 0, d), StoredFacts
<1>3. \A i \in 0 .. HeapRoom : i = 0 \/ i > n => k[i] = h[i]
  BY <1>2
<1>4. k[0] = u /\ k \in Memories(HeapRoom)
  BY <1>1, <1>2, <1>3 DEF u, Memories
<1>5. ASSUME NEW a \in DOMAIN g
      PROVE  k[a + 1] = h[a + 1] /\ BlockOf(k, a) = BlockOf(h, a)
  <2> DEFINE l == h[a + 1]
  <2>1. a \in Nat /\ l \in Nat /\ a + 1 =< u /\ a + 1 + l =< u /\ n =< a
    BY LaidOutBlock DEF u
  <2> HIDE DEF l
  <2>2. ASSUME NEW i \in 0 .. l PROVE k[a + 1 + i] = h[a + 1 + i]
    <3>1. i \in Nat /\ i =< l
      BY <2>1
    <3>2. a + 1 + i \in 0 .. HeapRoom
      BY ONLY <3>1, <2>1, <1>1, SMTT(30)
    <3>3. a + 1 + i > n
      BY ONLY <3>1, <2>1, n \in Nat, SMTT(30)
    <3> QED
      BY <3>2, <3>3, <1>3
  <2>3. k[a + 1] = l
    <3>1. 0 \in 0 .. l /\ a + 1 + 0 = a + 1
      BY <2>1
    <3> QED
      BY <3>1, <2>2 DEF l
  <2>4. ASSUME NEW i \in 1 .. l PROVE k[a + 1 + i] = h[a + 1 + i]
    <3>1. i \in 0 .. l
      BY <2>1
    <3> QED
      BY <3>1, <2>2
  <2> QED
    BY <2>1, <2>3, <2>4, SameBlock DEF l
<1>6. LaidOut(k, g)
  <2>1. ASSUME NEW i \in 1 .. HeapRoom, i > k[0] PROVE k[i] = 0
    <3>1. i \in 0 .. HeapRoom /\ i > n /\ i > u
      BY <2>1, <1>1, <1>4
    <3>2. h[i] = 0
      BY <3>1 DEF LaidOut, u
    <3> QED
      BY <3>1, <3>2, <1>3
  <2> QED
    BY <2>1, <1>4, <1>5 DEF LaidOut, u
<1>7. ObjectsOf(k, g) = ObjectsOf(h, g)
  BY <1>5 DEF ObjectsOf
<1> QED
  BY <1>4, <1>6, <1>7 DEF u

(* The system context and the table of symbols, empty. *)
FirstGiven ==
  [a \in {Made.system, Made.symbols} |-> IF a = Made.system THEN "context" ELSE "table"]
FirstObjects ==
  [a \in {Made.system, Made.symbols} |->
     IF a = Made.system THEN <<"context", EmptyContext(SystemSize)>>
     ELSE <<"table", EmptyTable>>]

(* What Module::init lays out. *)
LEMMA MadeFacts ==
  LaidOut(Made.heap, FirstGiven) /\ ObjectsOf(Made.heap, FirstGiven) = FirstObjects
<1> DEFINE h == init(Zeroed(HeapRoom), Reserved)
           u == Reserved
           n == 3 * SystemSize + 1
           g == [x \in {} |-> "context"]
           begun == ContextBlock(h, SystemSize)
<1>1. /\ HeapRoom \in Nat /\ n \in Nat /\ SystemSize \in Nat /\ TableWords \in Nat \ {0}
      /\ u \in Nat /\ u = 3 /\ u + (n + 1) + (TableWords + 1) =< HeapRoom /\ Magic \in Nat
      /\ n = 3 * SystemSize + 1 /\ u + n + 1 =< HeapRoom /\ u \in 0 .. HeapRoom
  <2>1. /\ HeapRoom \in Nat /\ SystemSize \in Nat /\ TableWords \in Nat \ {0} /\ SealBit \in Nat
        /\ 3 + (3 * SystemSize + 2) + (TableWords + 1) =< HeapRoom
    BY RoomAssumption DEF Reserved, EntrySize
  <2> QED
    BY <2>1 DEF Reserved, Magic
<1>2. /\ h \in Memories(HeapRoom) /\ u = h[0]
      /\ \A i \in 1 .. HeapRoom : h[i] = 0
  <2> DEFINE z == Zeroed(HeapRoom)
  <2>1. z \in [0 .. HeapRoom -> Nat] /\ \A i \in 1 .. HeapRoom : z[i] = 0
    BY <1>1 DEF Zeroed
  <2> HIDE DEF z
  <2>2. /\ init(z, u) \in Memories(HeapRoom) /\ init(z, u)[0] = u
        /\ \A i \in 1 .. HeapRoom : init(z, u)[i] = z[i]
    BY <1>1, <2>1, InitFacts
  <2> QED
    BY <2>1, <2>2 DEF z
<1> HIDE DEF h, u, n
<1>3. LaidOut(h, g) /\ ObjectsOf(h, g) = [x \in {} |-> << >>]
  BY <1>2 DEF LaidOut, ObjectsOf
<1>4. /\ begun \in Memories(HeapRoom) /\ begun[0] = u + n + 1 /\ begun[u + 1] = n
      /\ \A i \in 1 .. u : begun[i] = h[i]
      /\ \A i \in 1 .. HeapRoom : i > u + n + 1 => begun[i] = 0
      /\ ContextWords(BlockOf(begun, u)) /\ ContextOf(BlockOf(begun, u)) = EmptyContext(SystemSize)
  <2>1. begun = ContextBlock(h, SystemSize)
    OBVIOUS
  <2> HIDE DEF begun
  <2> QED
    BY ONLY <2>1, <1>1, <1>2, ContextTakenFacts
<1> HIDE DEF begun, g
<1> DEFINE g1 == WithEntry(g, u, "context")
<1>5. /\ LaidOut(begun, g1)
      /\ ObjectsOf(begun, g1) = WithEntry(ObjectsOf(h, g), u, Reading("context", BlockOf(begun, u)))
  <2>1. "context" \in Kinds
    BY DEF Kinds
  <2> QED
    BY <2>1, <1>1, <1>2, <1>3, <1>4, Allocated
<1>6. PICK w \in Nat : w = u + n + 1 /\ w = begun[0] /\ w + TableWords + 1 =< HeapRoom
  <2> DEFINE v == u + n + 1
  <2>1. v \in Nat /\ v = begun[0] /\ v + TableWords + 1 =< HeapRoom
    BY <1>1, <1>4
  <2> QED
    BY <2>1
<1> HIDE DEF g1
<1> DEFINE f == w + 1
           tables == Stored(EmptyBlock(begun, TableWords), f, << 0 >>)
           header == <<Magic, w, Reserved>>
           made == Stored(tables, 0, header)
<1>7. f = w + 1 /\ tables = Stored(EmptyBlock(begun, TableWords), f, << 0 >>)
  OBVIOUS
<1> HIDE DEF f, tables
<1>8. \A i \in 1 .. HeapRoom : i > w => begun[i] = 0
  BY <1>4, <1>6
<1>9. /\ tables \in Memories(HeapRoom) /\ tables[0] = w + TableWords + 1
      /\ tables[w + 1] = TableWords
      /\ \A i \in 1 .. w : tables[i] = begun[i]
      /\ \A i \in 1 .. HeapRoom : i > w + TableWords + 1 => tables[i] = 0
      /\ BlockOf(tables, w) = EmptyTable
  <2> DEFINE n1 == TableWords
  <2>1. /\ begun \in Memories(HeapRoom) /\ w = begun[0]
        /\ \A i \in 1 .. HeapRoom : i > w => begun[i] = 0
        /\ n1 = TableWords /\ w + n1 + 1 =< HeapRoom
    BY <1>1, <1>4, <1>6, <1>8
  <2> HIDE DEF n1
  <2>2. /\ tables \in Memories(HeapRoom) /\ tables[0] = w + n1 + 1 /\ tables[w + 1] = n1
    <3>1. tables \in Memories(HeapRoom)
      BY ONLY <2>1, <1>7, w \in Nat, TableTakenFacts
    <3>2. tables[0] = w + n1 + 1
      BY ONLY <2>1, <1>7, w \in Nat, TableTakenFacts
    <3>3. tables[w + 1] = n1
      BY ONLY <2>1, <1>7, w \in Nat, TableTakenFacts
    <3> QED
      BY <3>1, <3>2, <3>3
  <2>3. \A i \in 1 .. w : tables[i] = begun[i]
    BY ONLY <2>1, <1>7, w \in Nat, TableTakenFacts
  <2>4. \A i \in 1 .. HeapRoom : i > w + n1 + 1 => tables[i] = 0
    BY ONLY <2>1, <1>7, w \in Nat, TableTakenFacts
  <2>5. BlockOf(tables, w) = EmptyTable
    BY ONLY <2>1, <1>7, w \in Nat, TableTakenFacts
  <2> QED
    BY <2>2, <2>3, <2>4, <2>5 DEF n1
<1> DEFINE g2 == WithEntry(g1, w, "table")
<1>10. /\ LaidOut(tables, g2)
       /\ ObjectsOf(tables, g2) = WithEntry(ObjectsOf(begun, g1), w, Reading("table", BlockOf(tables, w)))
  <2>1. "table" \in Kinds /\ "table" # "context"
    BY DEF Kinds
  <2> QED
    BY <2>1, <1>1, <1>5, <1>6, <1>9, Allocated
<1>11. Made = [heap |-> made, system |-> u, symbols |-> w]
  BY <1>6 DEF Made, len, begun, h, u, tables, f
<1>12. u # w /\ DOMAIN g = {} /\ u =< w
  BY <1>1, <1>6 DEF g
<1>13. g2 = FirstGiven
  BY <1>11, <1>12 DEF FirstGiven, WithEntry, g1
<1>14. ObjectsOf(tables, g2) = FirstObjects
  <2>1. Reading("context", BlockOf(begun, u)) = <<"context", EmptyContext(SystemSize)>>
    BY <1>4 DEF Reading, ContextOf
  <2>3. Reading("table", BlockOf(tables, w)) = <<"table", EmptyTable>>
    BY <1>9 DEF Reading
  <2> QED
    <3>1. ObjectsOf(begun, g1) = [a \in {u} |-> <<"context", EmptyContext(SystemSize)>>]
      BY <2>1, <1>3, <1>5 DEF WithEntry
    <3>2. ObjectsOf(tables, g2)
            = [a \in {u, w} |-> IF a = w THEN <<"table", EmptyTable>>
                                ELSE <<"context", EmptyContext(SystemSize)>>]
      BY <2>3, <3>1, <1>10 DEF WithEntry
    <3> QED
      BY <3>2, <1>11, <1>12 DEF FirstObjects
<1>15. /\ header \in Seq(Nat) /\ Len(header) = 3 /\ 3 \in Nat /\ 3 =< tables[0]
       /\ \A a \in DOMAIN g2 : 3 =< a
  <2>1. DOMAIN g2 = {u, w}
    BY <1>12 DEF g1, WithEntry
  <2> QED
    BY <2>1, <1>1, <1>6, <1>9, <1>12 DEF Reserved
<1> HIDE DEF g2
<1>16. LaidOut(made, g2) /\ ObjectsOf(made, g2) = ObjectsOf(tables, g2)
  <2> DEFINE l == 3
  <2>1. made = Stored(tables, 0, header)
    OBVIOUS
  <2>2. header \in Seq(Nat) /\ Len(header) = l /\ l \in Nat /\ l =< tables[0] /\ \A a \in DOMAIN g2 : l =< a
    BY <1>15
  <2> HIDE DEF made, header, l
  <2> QED
    BY <2>1, <2>2, <1>10, HeaderKept
<1> QED
  BY <1>11, <1>13, <1>14, <1>16

-----------------------------------------------------------------------------
(* The refinement.                                                         *)

(* Module::init makes what the store starts with, in a heap laid out. *)
LEMMA InitStep ==
  ASSUME Init
  PROVE  IInv /\ Store!Init
<1>1. /\ heap = Made.heap /\ given = FirstGiven /\ answer = <<"none">>
      /\ stack = Zeroed(StackRoom) /\ objects = Objects
  BY DEF Init, FirstGiven
<1>2. LaidOut(heap, given) /\ ObjectsOf(heap, given) = FirstObjects
  BY <1>1, MadeFacts
<1>3. objects = FirstObjects
  BY <1>1, <1>2, ReadsObjects
<1>4. stack \in Memories(StackRoom) /\ Slice(stack, 0, len(stack)) = << >>
  <2>1. StackRoom \in Nat
    BY RoomAssumption
  <2>2. stack \in [0 .. StackRoom -> Nat] /\ stack[0] = 0
    BY <1>1, <2>1 DEF Zeroed
  <2>3. Slice(stack, 0, 0) = << >>
    BY DEF Slice
  <2> QED
    BY <2>1, <2>2, <2>3 DEF Memories, len
<1> QED
  BY <1>1, <1>2, <1>3, <1>4 DEF IInv, Store!Init, FirstObjects, EmptyTable, len

(* A call is a call of the store. *)
LEMMA CallStep ==
  ASSUME IInv, Next
  PROVE  IInv' /\ Store!Next
<1>1. Calls /\ objects' = Objects'
  BY DEF Next
<1>2. ASSUME NEW words \in Blocks, AllocBlock(words)
      PROVE  IInv' /\ Store!AllocBlock(words)
  <2>1. words \in Seq(Nat)
    BY CallsAssumption
  <2> QED
    BY <1>1, <1>2, <2>1, AllocatesStep, WordsOfBlock DEF AllocBlock, Store!AllocBlock
<1>3. ASSUME NEW bytes \in Strings, AllocString(bytes)
      PROVE  IInv' /\ Store!AllocString(bytes)
  <2>1. bytes \in Seq(Byte)
    BY CallsAssumption DEF Byte
  <2> QED
    BY <1>1, <1>3, <2>1, AllocatesStep, WordsOfString DEF AllocString, Store!AllocString
<1>4. ASSUME NEW size \in Sizes, AllocContext(size)
      PROVE  IInv' /\ Store!AllocContext(size)
  BY <1>1, <1>4, CallsAssumption, AllocContextStep
<1>5. ASSUME NEW a \in At("context"), NEW s \in Symbols, NEW v \in Pairs, PutAt(a, s, v)
      PROVE  IInv' /\ a \in Store!OfKind("context") /\ Store!PutAt(a, s, v)
  BY <1>1, <1>5, CallsAssumption, PutAtStep
<1>6. ASSUME NEW a \in At("context"), SealAt(a)
      PROVE  IInv' /\ a \in Store!OfKind("context") /\ Store!SealAt(a)
  BY <1>1, <1>6, SealAtStep
<1>7. ASSUME NEW words \in Pushes, Push(words)
      PROVE  IInv' /\ Store!Push(words)
  BY <1>1, <1>7, CallsAssumption, PushStep
<1>8. ASSUME NEW n \in Counts, Pop(n)
      PROVE  IInv' /\ Store!Pop(n)
  BY <1>1, <1>8, CallsAssumption, PopStep
<1>9. ASSUME NEW n \in Counts, Leave(n)
      PROVE  IInv' /\ Store!Leave(n)
  BY <1>1, <1>9, CallsAssumption, LeaveStep
<1>10. ASSUME NEW n \in Counts, NEW words \in Pushes, Gather(n, words[1])
       PROVE  IInv' /\ Store!Gather(n, words[1])
  <2>1. words[1] \in Nat /\ n \in Nat
    BY CallsAssumption
  <2> QED
    BY <1>1, <1>10, <2>1, GatherStep
<1> QED
  BY <1>1, <1>2, <1>3, <1>4, <1>5, <1>6, <1>7, <1>8, <1>9, <1>10 DEF Calls, Store!Next

(* A step that changes nothing is one of the store. *)
LEMMA StutterStep ==
  ASSUME IInv, UNCHANGED memoryVars
  PROVE  IInv' /\ UNCHANGED Store!vars
BY DEF memoryVars, IInv, LaidOut, ObjectsOf, Store!vars, Slice, len, BlockOf, InBlock

(* The invariant the refinement needs: the blocks of the objects given out *)
(* lie one after another in the words in use, none reaching into another,  *)
(* the words above are untouched, and the words of a context are a table   *)
(* every key of which a probe from its hash reaches (Memory and Context of *)
(* mem.rs, alloc_block, alloc_context, put, and get_block_mut). *)
THEOREM MemoryInvariant == Spec => []IInv
<1>1. Init => IInv
  BY InitStep
<1>2. IInv /\ [Next]_memoryVars => IInv'
  BY CallStep, StutterStep
<1> QED
  BY <1>1, <1>2, PTL DEF Spec

(* Memory of mem.rs, with the heap and the stack kept in words, does what  *)
(* the store of objects promises: a call changes the object it is given    *)
(* and no other, an address stands for what was put there, and the stack   *)
(* shows what was pushed and was not popped. *)
THEOREM Refinement == Spec => ImplementsStore
<1>1. Init => Store!Init
  BY InitStep
<1>2. IInv /\ [Next]_memoryVars => [Store!Next]_(Store!vars)
  BY CallStep, StutterStep
<1> QED
  BY <1>1, <1>2, MemoryInvariant, PTL DEF Spec, ImplementsStore, Store!Spec
=============================================================================
