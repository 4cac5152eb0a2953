---------------------------- MODULE ParserProofs ----------------------------
(***************************************************************************)
(* Proofs about the parser with the ParseCollector: for every text and all *)
(* limits, the stack of values and the stack of positions agree.  That     *)
(* pop_all never meets a position above the stack follows from the order   *)
(* of the positions alone, so nothing is assumed of the text: whatever the *)
(* parser takes for a token, the calls it makes keep the order.            *)
(***************************************************************************)
EXTENDS Parser, SequenceTheorems, TLAPS

IsSequence(s) == \E S : s \in Seq(S)

(* A ParseCollector whose stacks agree. *)
Collects(h, y, s, b, e) ==
  [kind |-> "module", heap |-> h, symbols |-> y, stack |-> s, bases |-> b, error |-> e]

(* The positions b lie in order below a stack of n values. *)
InOrder(b, n) ==
  \A i \in 1 .. Len(b) : b[i] =< IF i = Len(b) THEN n ELSE b[i + 1]

IsHeap(h) == h = [blocks |-> h.blocks, ctxs |-> h.ctxs, used |-> h.used]

Sound(h, y, s, b, e) ==
  /\ IsHeap(h) /\ h.used =< HeapCap
  /\ IsSequence(y) /\ Len(y) =< SymbolCap
  /\ IsSequence(s) /\ Len(s) =< ParseCap
  /\ b \in Seq(Nat) /\ Len(b) =< BaseCap
  /\ InOrder(b, Len(s))
  /\ e # "UnexpectedError"

Agrees(c) == \E h, y, s, b, e : c = Collects(h, y, s, b, e) /\ Sound(h, y, s, b, e)

(* A ValueCollector: nothing is said of its stack. *)
Values(c) == \E s, p, e : c = [kind |-> "value", stack |-> s, inPath |-> p, error |-> e]

-----------------------------------------------------------------------------
(* Sequences of anything.                                                  *)

(* What the operations on a stack do, whatever lies on it. *)
LEMMA Stacked ==
  ASSUME NEW s, IsSequence(s), NEW v
  PROVE  /\ Len(s) \in Nat
         /\ IsSequence(Append(s, v)) /\ Len(Append(s, v)) = Len(s) + 1
         /\ \A n \in 0 .. Len(s) : IsSequence(SubSeq(s, 1, n)) /\ Len(SubSeq(s, 1, n)) = n
  <1>1. PICK S : s \in Seq(S)
    BY DEF IsSequence
  <1>2. s \in Seq(S \union {v}) /\ v \in S \union {v}
    BY <1>1, SeqDef
  <1>3. Append(s, v) \in Seq(S \union {v}) /\ Len(Append(s, v)) = Len(s) + 1
    BY <1>2, AppendProperties
  <1>4. ASSUME NEW n \in 0 .. Len(s)
        PROVE  SubSeq(s, 1, n) \in Seq(S) /\ Len(SubSeq(s, 1, n)) = n
    BY <1>1, SubSeqProperties
  <1>5. QED
    BY <1>1, <1>3, <1>4, LenProperties DEF IsSequence

(* A ParseCollector in which one part is replaced. *)
LEMMA Parts ==
  ASSUME NEW h, NEW y, NEW s, NEW b, NEW e
  PROVE  /\ Collects(h, y, s, b, e).heap = h /\ Collects(h, y, s, b, e).symbols = y
         /\ Collects(h, y, s, b, e).stack = s /\ Collects(h, y, s, b, e).bases = b
         /\ \A x : [Collects(h, y, s, b, e) EXCEPT !.heap = x] = Collects(x, y, s, b, e)
         /\ \A x : [Collects(h, y, s, b, e) EXCEPT !.symbols = x] = Collects(h, x, s, b, e)
         /\ \A x : [Collects(h, y, s, b, e) EXCEPT !.stack = x] = Collects(h, y, x, b, e)
         /\ \A x : [Collects(h, y, s, b, e) EXCEPT !.bases = x] = Collects(h, y, s, x, e)
         /\ \A x : [Collects(h, y, s, b, e) EXCEPT !.error = x] = Collects(h, y, s, b, x)
  <1>1. /\ Collects(h, y, s, b, e).heap = h /\ Collects(h, y, s, b, e).symbols = y
        /\ Collects(h, y, s, b, e).stack = s /\ Collects(h, y, s, b, e).bases = b
    BY DEF Collects
  <1>2. ASSUME NEW x PROVE [Collects(h, y, s, b, e) EXCEPT !.heap = x] = Collects(x, y, s, b, e)
    BY DEF Collects
  <1>3. ASSUME NEW x PROVE [Collects(h, y, s, b, e) EXCEPT !.symbols = x] = Collects(h, x, s, b, e)
    BY DEF Collects
  <1>4. ASSUME NEW x PROVE [Collects(h, y, s, b, e) EXCEPT !.stack = x] = Collects(h, y, x, b, e)
    BY DEF Collects
  <1>5. ASSUME NEW x PROVE [Collects(h, y, s, b, e) EXCEPT !.bases = x] = Collects(h, y, s, x, e)
    BY DEF Collects
  <1>6. ASSUME NEW x PROVE [Collects(h, y, s, b, e) EXCEPT !.error = x] = Collects(h, y, s, b, x)
    BY DEF Collects
  <1>7. QED
    BY <1>1, <1>2, <1>3, <1>4, <1>5, <1>6

(* There is room for one more value, and no position is above it.          *)
LEMMA ParseStackFits ==
  ASSUME NEW h, NEW y, NEW s, NEW b, NEW e, Sound(h, y, s, b, e), NEW v, Len(s) < ParseCap
  PROVE  Sound(h, y, Append(s, v), b, e)
  <1>1. Len(s) \in Nat /\ IsSequence(Append(s, v)) /\ Len(Append(s, v)) = Len(s) + 1
    BY Stacked DEF Sound
  <1>2. InOrder(b, Len(s) + 1)
    <2> SUFFICES ASSUME NEW i \in 1 .. Len(b)
                 PROVE  b[i] =< IF i = Len(b) THEN Len(s) + 1 ELSE b[i + 1]
      BY DEF InOrder
    <2>1. b[i] \in Nat /\ b[i] =< IF i = Len(b) THEN Len(s) ELSE b[i + 1]
      BY ElementOfSeq DEF Sound, InOrder
    <2>2. QED
      BY <1>1, <2>1
  <1>3. Len(s) + 1 =< ParseCap
    BY <1>1, ParseAssumption
  <1>4. QED
    BY <1>1, <1>2, <1>3 DEF Sound

(* Push *)
LEMMA PushAgrees ==
  ASSUME NEW c, Agrees(c), NEW v
  PROVE  Agrees(Push(c, v))
  <1>1. PICK h, y, s, b, e : c = Collects(h, y, s, b, e) /\ Sound(h, y, s, b, e)
    BY DEF Agrees
  <1>2. CASE Len(s) < ParseCap
    <2>1. Push(c, v) = Collects(h, y, Append(s, v), b, e)
      BY <1>1, <1>2 DEF Push, Collects
    <2>2. QED
      BY <1>1, <1>2, <2>1, ParseStackFits DEF Agrees
  <1>3. CASE ~(Len(s) < ParseCap)
    <2>1. Push(c, v) = Collects(h, y, s, b, "OutOfMemory")
      BY <1>1, <1>3 DEF Push, Collects, CollectorFails
    <2>2. Sound(h, y, s, b, "OutOfMemory")
      BY <1>1 DEF Sound
    <2>3. QED
      BY <2>1, <2>2 DEF Agrees
  <1>4. QED
    BY <1>2, <1>3

(* A call that fails leaves the stacks as they are. *)
LEMMA FailureAgrees ==
  ASSUME NEW c, Agrees(c), NEW error, error # "UnexpectedError"
  PROVE  Agrees(CollectorFails(c, error))
  <1>1. PICK h, y, s, b, e : c = Collects(h, y, s, b, e) /\ Sound(h, y, s, b, e)
    BY DEF Agrees
  <1>2. CollectorFails(c, error) = Collects(h, y, s, b, error)
    BY <1>1 DEF CollectorFails, Collects
  <1>3. Sound(h, y, s, b, error)
    BY <1>1 DEF Sound
  <1>4. QED
    BY <1>2, <1>3 DEF Agrees

(* Begin: the position noted is the top of the stack, above all others. *)
LEMMA BeginAgrees ==
  ASSUME NEW c, Agrees(c)
  PROVE  Agrees(Begin(c))
  <1>1. PICK h, y, s, b, e : c = Collects(h, y, s, b, e) /\ Sound(h, y, s, b, e)
    BY DEF Agrees
  <1>2. CASE Len(b) < BaseCap
    <2>1. Begin(c) = Collects(h, y, s, Append(b, Len(s)), e)
      BY <1>1, <1>2 DEF Begin, Collects
    <2>2. Len(s) \in Nat /\ b \in Seq(Nat)
      BY <1>1, Stacked DEF Sound
    <2>3. /\ Append(b, Len(s)) \in Seq(Nat) /\ Len(Append(b, Len(s))) = Len(b) + 1
          /\ \A i \in 1 .. Len(b) : Append(b, Len(s))[i] = b[i]
          /\ Append(b, Len(s))[Len(b) + 1] = Len(s)
      BY <2>2, AppendProperties
    <2>4. InOrder(Append(b, Len(s)), Len(s))
      <3> SUFFICES ASSUME NEW i \in 1 .. Len(b) + 1
                   PROVE  Append(b, Len(s))[i] =<
                            IF i = Len(b) + 1 THEN Len(s) ELSE Append(b, Len(s))[i + 1]
        BY <2>3 DEF InOrder
      <3>0. Len(b) \in Nat
        BY <2>2, LenProperties
      <3>1. CASE i = Len(b) + 1
        BY <2>2, <2>3, <3>1
      <3>2. CASE i = Len(b)
        <4>1. Append(b, Len(s))[i] = b[i] /\ b[i] =< Len(s)
          BY <1>1, <2>3, <3>0, <3>2 DEF Sound, InOrder
        <4>2. QED
          BY <2>3, <3>0, <3>2, <4>1
      <3>3. CASE i < Len(b)
        <4>1. /\ Append(b, Len(s))[i] = b[i] /\ Append(b, Len(s))[i + 1] = b[i + 1]
              /\ b[i] =< b[i + 1]
          BY <1>1, <2>3, <3>0, <3>3 DEF Sound, InOrder
        <4>2. QED
          BY <3>0, <3>3, <4>1
      <3>4. QED
        BY <3>0, <3>1, <3>2, <3>3
    <2>5. Len(b) + 1 =< BaseCap
      BY <1>2, <2>2, LenProperties, ParseAssumption
    <2>6. Sound(h, y, s, Append(b, Len(s)), e)
      BY <1>1, <2>3, <2>4, <2>5 DEF Sound
    <2>7. QED
      BY <2>1, <2>6 DEF Agrees
  <1>3. CASE ~(Len(b) < BaseCap)
    <2>1. Begin(c) = CollectorFails(c, "OutOfMemory")
      BY <1>1, <1>3 DEF Begin, Collects
    <2>2. QED
      BY <2>1, FailureAgrees
  <1>4. QED
    BY <1>2, <1>3

(* The position that is taken off, and those that stay, below it. *)
LEMMA LastPosition ==
  ASSUME NEW b \in Seq(Nat), b # << >>, NEW n \in Nat, InOrder(b, n)
  PROVE  /\ Last(b) \in 0 .. n
         /\ Front(b) \in Seq(Nat) /\ Len(Front(b)) = Len(b) - 1
         /\ InOrder(Front(b), Last(b))
  <1>1. PICK k : k = Len(b)
    OBVIOUS
  <1>2. k \in Nat /\ k >= 1
    BY <1>1, EmptySeq, LenProperties
  <1>3. \A i \in 1 .. k : b[i] \in Nat /\ b[i] =< IF i = k THEN n ELSE b[i + 1]
    BY <1>1, ElementOfSeq DEF InOrder
  <1>4. PICK f : f = Front(b)
    OBVIOUS
  <1>5. f = SubSeq(b, 1, k - 1)
    BY <1>1, <1>4 DEF Front
  <1>6. \A i \in 1 .. k - 1 : b[i] \in Nat
    BY <1>2, <1>3
  <1>7. PICK m \in Int : m = k - 1
    BY <1>2
  <1>8. /\ f \in Seq(Nat) /\ Len(f) = m
        /\ \A i \in 1 .. m : f[i] = b[i]
    <2>1. /\ SubSeq(b, 1, m) \in Seq(Nat)
          /\ Len(SubSeq(b, 1, m)) = IF 1 =< m THEN m - 1 + 1 ELSE 0
          /\ \A i \in 1 .. m - 1 + 1 : SubSeq(b, 1, m)[i] = b[1 + i - 1]
      BY <1>6, <1>7, SubSeqProperties
    <2>2. QED
      BY <1>2, <1>5, <1>7, <2>1
  <1>9. Last(b) = b[k]
    BY <1>1 DEF Last
  <1>10. InOrder(f, b[k])
    <2> SUFFICES ASSUME NEW i \in 1 .. m
                 PROVE  f[i] =< IF i = m THEN b[k] ELSE f[i + 1]
      BY <1>8 DEF InOrder
    <2>1. f[i] = b[i] /\ i \in 1 .. k /\ i # k
      <3>1. f[i] = b[i]
        BY <1>8
      <3>2. QED
        BY <1>2, <1>7, <3>1
    <2>2. b[i] =< b[i + 1]
      BY <1>3, <2>1
    <2>3. CASE i = m
      <3>1. i + 1 = k
        BY <1>2, <1>7, <2>3
      <3>2. QED
        BY <2>1, <2>2, <2>3, <3>1
    <2>4. CASE i # m
      <3>1. i + 1 \in 1 .. m
        BY <1>7, <2>4
      <3>2. f[i + 1] = b[i + 1]
        BY <1>8, <3>1
      <3>3. QED
        BY <2>1, <2>2, <2>4, <3>2
    <2>5. QED
      BY <2>3, <2>4
  <1>11. b[k] \in 0 .. n
    BY <1>2, <1>3
  <1>12. QED
    BY <1>4, <1>7, <1>8, <1>9, <1>10, <1>11, <1>1

(* What lies above a position moves to the heap; the positions below stay  *)
(* in order below it. *)
LEMMA GatherAgrees ==
  ASSUME NEW h, NEW y, NEW s, NEW b, NEW e, Sound(h, y, s, b, e),
         NEW bp \in 0 .. Len(s), InOrder(b, bp), NEW tag
  PROVE  Agrees(Gather(Collects(h, y, s, b, e), tag, bp))
  <1>1. PICK c : c = Collects(h, y, s, b, e)
    OBVIOUS
  <1>2. c.heap = h /\ c.stack = s
    BY <1>1, Parts
  <1>3. PICK values, r : values = SubSeq(s, bp + 1, Len(s)) /\ r = SubSeq(s, 1, bp)
    OBVIOUS
  <1>4. IsSequence(r) /\ Len(r) = bp /\ Len(s) \in Nat
    BY <1>3, Stacked DEF Sound
  <1>5. bp =< ParseCap
    BY <1>4, ParseAssumption DEF Sound
  <1>6. ASSUME NEW h1, IsHeap(h1), h1.used =< HeapCap, NEW error, error # "UnexpectedError"
        PROVE  Agrees(Collects(h1, y, r, b, error))
    <2>1. Sound(h1, y, r, b, error)
      BY <1>4, <1>5, <1>6 DEF Sound
    <2>2. QED
      BY <2>1 DEF Agrees
  <1>7. PICK p : p = [c EXCEPT !.stack = SubSeq(@, 1, bp)]
    OBVIOUS
  <1>8. p = Collects(h, y, r, b, e)
    <2>1. p = [c EXCEPT !.stack = r]
      BY <1>2, <1>3, <1>7, Zenon
    <2>2. QED
      BY <1>1, <2>1, Parts
  <1>9. Gather(c, tag, bp) =
          IF ~Fits(h, BlockWords(values)) THEN CollectorFails(p, "OutOfMemory")
          ELSE Push([p EXCEPT !.heap = WithBlock(@, values)], <<tag, Len(h.blocks) + 1>>)
    <2>1. values = SubSeq(c.stack, bp + 1, Len(c.stack))
      BY <1>2, <1>3, Zenon
    <2>2. Gather(c, tag, bp) =
            IF ~Fits(c.heap, BlockWords(SubSeq(c.stack, bp + 1, Len(c.stack))))
            THEN CollectorFails([c EXCEPT !.stack = SubSeq(@, 1, bp)], "OutOfMemory")
            ELSE Push([[c EXCEPT !.stack = SubSeq(@, 1, bp)] EXCEPT
                         !.heap = WithBlock(@, SubSeq(c.stack, bp + 1, Len(c.stack)))],
                      <<tag, Len(c.heap.blocks) + 1>>)
      BY Zenon DEF Gather
    <2>3. QED
      BY <1>2, <1>7, <2>1, <2>2, Zenon
  <1>10. CASE ~Fits(h, BlockWords(values))
    <2>1. CollectorFails(p, "OutOfMemory") = Collects(h, y, r, b, "OutOfMemory")
      BY <1>8, Parts DEF CollectorFails
    <2>2. Agrees(Collects(h, y, r, b, "OutOfMemory"))
      BY <1>6 DEF Sound
    <2>3. QED
      BY <1>1, <1>9, <1>10, <2>1, <2>2, Zenon
  <1>11. CASE Fits(h, BlockWords(values))
    <2>1. PICK h1 : h1 = WithBlock(h, values)
      OBVIOUS
    <2>2. IsHeap(h1) /\ h1.used = h.used + BlockWords(values)
      BY <2>1 DEF WithBlock, IsHeap, Sound
    <2>3. e # "UnexpectedError" /\ h1.used =< HeapCap
      BY <1>11, <2>2 DEF Fits, Sound
    <2>4. Agrees(Collects(h1, y, r, b, e))
      BY <1>6, <2>2, <2>3
    <2>5. p.heap = h /\ [p EXCEPT !.heap = h1] = Collects(h1, y, r, b, e)
      BY <1>8, Parts
    <2>6. Gather(c, tag, bp) = Push(Collects(h1, y, r, b, e), <<tag, Len(h.blocks) + 1>>)
      BY <1>9, <1>11, <2>1, <2>5, Zenon
    <2>7. QED
      BY <1>1, <2>4, <2>6, PushAgrees
  <1>12. QED
    BY <1>10, <1>11

(* End: the values above the last position move to the heap, and the       *)
(* position before it stays below what is left.                            *)
LEMMA EndAgrees ==
  ASSUME NEW c, Agrees(c), NEW tag
  PROVE  Agrees(End(c, tag))
  <1>1. PICK h, y, s, b, e : c = Collects(h, y, s, b, e) /\ Sound(h, y, s, b, e)
    BY DEF Agrees
  <1>2. /\ c.heap = h /\ c.stack = s /\ c.bases = b
        /\ [c EXCEPT !.bases = Front(@)] = Collects(h, y, s, Front(b), e)
    BY <1>1, Parts
  <1>3. CASE b = << >>
    <2>1. End(c, tag) = CollectorFails(c, "StackUnderflow")
      BY <1>2, <1>3 DEF End
    <2>2. QED
      BY <2>1, FailureAgrees
  <1>4. CASE b # << >>
    <2>1. Len(s) \in Nat /\ b \in Seq(Nat) /\ Len(b) \in Nat
      BY <1>1, Stacked, LenProperties DEF Sound
    <2>2. PICK bp, f : bp = Last(b) /\ f = Front(b)
      OBVIOUS
    <2>3. bp \in 0 .. Len(s) /\ f \in Seq(Nat) /\ Len(f) = Len(b) - 1 /\ InOrder(f, bp)
      BY <1>1, <1>4, <2>1, <2>2, LastPosition DEF Sound
    <2>4. InOrder(f, Len(s))
      <3>1. \A i \in 1 .. Len(f) : f[i] \in Nat /\ f[i] =< IF i = Len(f) THEN bp ELSE f[i + 1]
        BY <2>3, ElementOfSeq DEF InOrder
      <3>2. bp \in Nat /\ bp =< Len(s)
        BY <2>1, <2>3
      <3>3. ASSUME NEW i \in 1 .. Len(f)
            PROVE  f[i] =< IF i = Len(f) THEN Len(s) ELSE f[i + 1]
        BY <2>1, <3>1, <3>2
      <3>4. QED
        BY <3>3 DEF InOrder
    <2>5. Len(f) =< BaseCap
      BY <1>1, <2>1, <2>3, ParseAssumption DEF Sound
    <2>6. Sound(h, y, s, f, e)
      BY <1>1, <2>3, <2>4, <2>5 DEF Sound
    <2>7. ~(bp > Len(s))
      BY <2>1, <2>3
    <2>8. End(c, tag) = Gather(Collects(h, y, s, f, e), tag, bp)
      BY <1>2, <1>4, <2>2, <2>7 DEF End
    <2>9. QED
      BY <2>3, <2>6, <2>8, GatherAgrees
  <1>5. QED
    BY <1>3, <1>4

(* Word: the symbol table takes a new name only while it has room. *)
LEMMA WordAgrees ==
  ASSUME NEW c, Agrees(c), NEW tag, NEW name
  PROVE  Agrees(Word(c, tag, name))
  <1>1. PICK h, y, s, b, e : c = Collects(h, y, s, b, e) /\ Sound(h, y, s, b, e)
    BY DEF Agrees
  <1>2. c.symbols = y
    BY <1>1, Parts
  <1>3. CASE SymbolError(y, name) # "none"
    <2>1. SymbolError(y, name) # "UnexpectedError"
      BY DEF SymbolError
    <2>2. Word(c, tag, name) = CollectorFails(c, SymbolError(y, name))
      BY <1>2, <1>3 DEF Word
    <2>3. QED
      BY <2>1, <2>2, FailureAgrees
  <1>4. CASE SymbolError(y, name) = "none"
    <2>1. PICK z : z = WithSymbol(y, name)
      OBVIOUS
    <2>2. IsSequence(z) /\ Len(z) =< SymbolCap
      <3>1. CASE Interned(y, name)
        BY <1>1, <2>1, <3>1 DEF WithSymbol, Sound
      <3>2. CASE ~Interned(y, name)
        <4>1. ~(Len(y) >= SymbolCap)
          BY <1>4, <3>2 DEF SymbolError
        <4>2. z = Append(y, name)
          BY <2>1, <3>2 DEF WithSymbol
        <4>3. IsSequence(z) /\ Len(z) = Len(y) + 1 /\ Len(y) \in Nat
          BY <1>1, <4>2, Stacked DEF Sound
        <4>4. QED
          BY <4>1, <4>3, SymbolAssumption
      <3>3. QED
        BY <3>1, <3>2
    <2>3. Sound(h, z, s, b, e)
      BY <1>1, <2>2 DEF Sound
    <2>4. Agrees(Collects(h, z, s, b, e))
      BY <2>3 DEF Agrees
    <2>5. [c EXCEPT !.symbols = WithSymbol(@, name)] = Collects(h, z, s, b, e)
      BY <1>1, <1>2, <2>1, Parts
    <2>6. Word(c, tag, name) = Push(Collects(h, z, s, b, e), <<tag, SymbolId(y, name)>>)
      BY <1>2, <1>4, <2>5 DEF Word
    <2>7. QED
      BY <2>4, <2>6, PushAgrees
  <1>5. QED
    BY <1>3, <1>4

(* String: its words are taken from the heap only while they are there. *)
LEMMA StringAgrees ==
  ASSUME NEW c, Agrees(c), NEW chars
  PROVE  Agrees(String(c, chars))
  <1>1. PICK h, y, s, b, e : c = Collects(h, y, s, b, e) /\ Sound(h, y, s, b, e)
    BY DEF Agrees
  <1>2. c.heap = h
    BY <1>1, Parts
  <1>3. CASE ~Fits(h, StringWords(chars))
    <2>1. String(c, chars) = CollectorFails(c, "OutOfMemory")
      BY <1>2, <1>3 DEF String
    <2>2. QED
      BY <2>1, FailureAgrees
  <1>4. CASE Fits(h, StringWords(chars))
    <2>1. PICK h1 : h1 = WithString(h, chars)
      OBVIOUS
    <2>2. IsHeap(h1) /\ h1.used = h.used + StringWords(chars)
      BY <1>1, <2>1 DEF WithString, IsHeap, Sound
    <2>3. Sound(h1, y, s, b, e)
      BY <1>1, <1>4, <2>2 DEF Fits, Sound
    <2>4. Agrees(Collects(h1, y, s, b, e))
      BY <2>3 DEF Agrees
    <2>5. [c EXCEPT !.heap = WithString(@, chars)] = Collects(h1, y, s, b, e)
      BY <1>1, <1>2, <2>1, Parts
    <2>6. String(c, chars) =
            Push(Collects(h1, y, s, b, e), <<INLINE_STRING, Len(h.blocks) + 1>>)
      BY <1>2, <1>4, <2>5 DEF String
    <2>7. QED
      BY <2>4, <2>6, PushAgrees
  <1>5. QED
    BY <1>3, <1>4

-----------------------------------------------------------------------------
(* Either collector.                                                       *)

(* The two collectors are told apart by their kind. *)
LEMMA Kinds ==
  ASSUME NEW c
  PROVE  (Agrees(c) => IsModule(c)) /\ (Values(c) => ~IsModule(c))
  BY DEF Agrees, Values, Collects, IsModule

(* A ValueCollector stays one when one of its parts is replaced. *)
LEMMA ValueParts ==
  ASSUME NEW c, Values(c), NEW x
  PROVE  /\ Values([c EXCEPT !.stack = x]) /\ Values([c EXCEPT !.inPath = x])
         /\ Values([c EXCEPT !.error = x])
  <1>1. PICK s, p, e : c = [kind |-> "value", stack |-> s, inPath |-> p, error |-> e]
    BY DEF Values
  <1>2. [c EXCEPT !.stack = x] = [kind |-> "value", stack |-> x, inPath |-> p, error |-> e]
    BY <1>1
  <1>3. [c EXCEPT !.inPath = x] = [kind |-> "value", stack |-> s, inPath |-> x, error |-> e]
    BY <1>1
  <1>4. [c EXCEPT !.error = x] = [kind |-> "value", stack |-> s, inPath |-> p, error |-> x]
    BY <1>1
  <1>5. QED
    BY ZenonT(30), <1>2, <1>3, <1>4 DEF Values

(* A ValueCollector stays one when it is called, whatever with. *)
LEMMA ValuesStay ==
  ASSUME NEW c, Values(c)
  PROVE  /\ \A v : Values(PushValue(c, v))
         /\ Values(BeginBlock(c)) /\ Values(BeginPath(c))
         /\ Values(EndBlock(c)) /\ Values(EndPath(c))
  <1>1. ASSUME NEW d, Values(d), NEW error PROVE Values(CollectorFails(d, error))
    BY <1>1, ValueParts DEF CollectorFails
  <1>2. ASSUME NEW d, Values(d), NEW v PROVE Values(PushValue(d, v))
    <2>1. CASE d.stack = << >>
      BY <1>1, <1>2, <2>1 DEF PushValue
    <2>2. CASE d.stack # << >>
      <3>1. PICK x : x = [d.stack EXCEPT ![Len(d.stack)] = Append(@, v)]
        OBVIOUS
      <3>2. PushValue(d, v) = [d EXCEPT !.stack = x]
        BY <2>2, <3>1 DEF PushValue
      <3>3. Values([d EXCEPT !.stack = x])
        BY <1>2, ValueParts
      <3>4. QED
        BY <3>2, <3>3
    <2>3. QED
      BY <2>1, <2>2
  <1>3. Values(BeginBlock(c))
    <2>1. Values([c EXCEPT !.stack = Append(@, << >>)])
      BY ValueParts
    <2>2. QED
      BY <1>1, <2>1 DEF BeginBlock
  <1>4. Values(BeginPath(c))
    <2>1. PICK d : d = [c EXCEPT !.inPath = TRUE]
      OBVIOUS
    <2>2. Values(d)
      BY <2>1, ValueParts
    <2>3. Values([d EXCEPT !.stack = Append(c.stack, << >>)])
      BY <2>2, ValueParts
    <2>4. d.stack = c.stack
      BY <2>1 DEF Values
    <2>5. BeginPath(c) = [d EXCEPT !.stack = Append(c.stack, << >>)]
      BY <2>1, <2>4, Zenon DEF BeginPath
    <2>6. QED
      BY <2>3, <2>5
  <1>5. ASSUME NEW d, Values(d), NEW k PROVE Values(Closed(d, k))
    <2>1. Values([d EXCEPT !.stack = Front(@)])
      BY <1>5, ValueParts
    <2>2. Closed(d, k) = PushValue([d EXCEPT !.stack = Front(@)], <<k, Last(d.stack)>>)
      BY Zenon DEF Closed
    <2>3. QED
      BY <1>2, <2>1, <2>2
  <1>6. Values(EndBlock(c))
    BY <1>5 DEF EndBlock
  <1>7. Values(EndPath(c))
    <2>1. PICK d : d = [c EXCEPT !.inPath = FALSE]
      OBVIOUS
    <2>2. Values(d)
      BY <2>1, ValueParts
    <2>3. Values(CollectorFails(d, "UnexpectedError")) /\ Values(Closed(d, "path"))
      BY <1>1, <1>5, <2>2
    <2>4. \/ EndPath(c) = CollectorFails(d, "UnexpectedError")
          \/ EndPath(c) = Closed(d, "path")
      BY <2>1, Zenon DEF EndPath
    <2>5. QED
      BY <2>3, <2>4
  <1>8. QED
    BY <1>2, <1>3, <1>4, <1>6, <1>7

Sane(c) == Agrees(c) \/ Values(c)

(* The calls the parser makes leave a sane collector sane. *)
LEMMA CallsStaySane ==
  ASSUME NEW c, Sane(c), NEW set, NEW name, NEW n
  PROVE  /\ Sane(begin_block(c)) /\ Sane(begin_path(c))
         /\ Sane(end_block(c)) /\ Sane(end_path(c))
         /\ Sane(word(c, set, name)) /\ Sane(string(c, name)) /\ Sane(integer(c, n))
  <1>1. CASE Agrees(c)
    <2>1. IsModule(c)
      BY <1>1, Kinds
    <2>2. Agrees(begin_block(c)) /\ Agrees(begin_path(c))
      BY <1>1, <2>1, BeginAgrees DEF begin_block, begin_path
    <2>3. Agrees(end_block(c)) /\ Agrees(end_path(c))
      BY <1>1, <2>1, EndAgrees DEF end_block, end_path
    <2>4. Agrees(word(c, set, name)) /\ Agrees(string(c, name))
      BY <1>1, <2>1, WordAgrees, StringAgrees DEF word, string
    <2>5. Agrees(integer(c, n))
      BY <1>1, <2>1, PushAgrees DEF integer, Integer
    <2>6. QED
      BY <2>2, <2>3, <2>4, <2>5 DEF Sane
  <1>2. CASE Values(c)
    <2>1. ~IsModule(c)
      BY <1>2, Kinds
    <2>2. Values(begin_block(c)) /\ Values(begin_path(c)) /\ Values(end_block(c)) /\ Values(end_path(c))
      BY <1>2, <2>1, ValuesStay DEF begin_block, begin_path, end_block, end_path
    <2>3. Values(word(c, set, name)) /\ Values(string(c, name)) /\ Values(integer(c, n))
      BY <1>2, <2>1, ValuesStay DEF word, string, integer
    <2>4. QED
      BY <2>2, <2>3 DEF Sane
  <1>3. QED
    BY <1>1, <1>2 DEF Sane

-----------------------------------------------------------------------------
(* The parser.                                                             *)

(* process_block_end *)
LEMMA SettledSane ==
  ASSUME NEW c, Sane(c), NEW consumed
  PROVE  Sane(Settled(c, consumed))
  <1>1. PICK u : u = IF consumed # "/" /\ inPath THEN After(c, end_path(c)) ELSE c
    OBVIOUS
  <1>2. Sane(u)
    BY <1>1, CallsStaySane DEF After
  <1>3. Settled(c, consumed) = IF consumed = "]" THEN After(u, end_block(u)) ELSE u
    BY <1>1 DEF Settled
  <1>4. QED
    BY <1>2, <1>3, CallsStaySane DEF After

(* A turn of the loop. *)
LEMMA TakeSane ==
  ASSUME NEW c, Sane(c), NEW next, NEW consumed, Take(c, next, consumed)
  PROVE  Sane(collector')
  BY SettledSane DEF Take

IInv == Sane(collector)

(* parse_block begins a block in a new collector. *)
LEMMA InitIInv == Init => IInv
  <1> SUFFICES ASSUME NEW t \in Texts, NEW c \in {NewCollector(EmptyHeap, << >>), NewValueCollector},
                      StartsWith(t, c)
               PROVE  IInv
    BY DEF Init
  <1>1. IsSequence(<< >>) /\ Len(<< >>) = 0 /\ << >> \in Seq(Nat)
    BY EmptySeq DEF IsSequence
  <1>2. Agrees(NewCollector(EmptyHeap, << >>))
    <2>1. NewCollector(EmptyHeap, << >>) = Collects(EmptyHeap, << >>, << >>, << >>, "none")
      BY DEF NewCollector, Collects
    <2>2. IsHeap(EmptyHeap) /\ EmptyHeap.used = 0
      BY DEF EmptyHeap, IsHeap
    <2>3. Sound(EmptyHeap, << >>, << >>, << >>, "none")
      BY <1>1, <2>2, HeapAssumption, SymbolAssumption, ParseAssumption DEF Sound, InOrder
    <2>4. QED
      BY <2>1, <2>3 DEF Agrees
  <1>3. Values(NewValueCollector)
    BY DEF NewValueCollector, Values
  <1>4. Sane(c)
    BY <1>2, <1>3 DEF Sane
  <1>5. QED
    BY <1>4, CallsStaySane DEF StartsWith, IInv

(* Each token leaves the collector sane, one that is refused too. *)
LEMMA NextIInv == IInv /\ [Next]_parserVars => IInv'
  <1> SUFFICES ASSUME Sane(collector), [Next]_parserVars
               PROVE  Sane(collector')
    BY DEF IInv, Sane, Agrees, Values
  <1>1. \A error : Refuse(error) => Sane(collector')
    BY DEF Refuse
  <1>2. CASE OpenBlock
    <2>1. Sane(begin_block(collector))
      BY CallsStaySane
    <2>2. QED
      BY <1>2, <2>1, TakeSane DEF OpenBlock
  <1>3. CASE CloseBlock
    BY <1>3, TakeSane DEF CloseBlock
  <1>4. CASE ReadString
    <2>1. \A chars : Sane(string(collector, chars))
      BY CallsStaySane
    <2>2. \/ \E error : Refuse(error)
          \/ \E chars, next : Take(string(collector, chars), next, "")
      BY <1>4 DEF ReadString
    <2>3. QED
      BY <1>1, <2>1, <2>2, TakeSane
  <1>5. CASE ReadWord
    <2>1. PICK name, set, end, consumed, opened :
            /\ opened = IF consumed = "/" /\ ~inPath THEN begin_path(collector) ELSE collector
            /\ \/ Refuse("UnexpectedChar")
               \/ Take(After(opened, word(opened, set, name)), end, consumed)
      BY <1>5 DEF ReadWord
    <2>2. Sane(opened)
      BY <2>1, CallsStaySane
    <2>3. Sane(After(opened, word(opened, set, name)))
      BY <2>2, CallsStaySane DEF After
    <2>4. QED
      BY <1>1, <2>1, <2>3, TakeSane
  <1>6. CASE ReadNumber
    <2>1. \A n : Sane(integer(collector, n))
      BY CallsStaySane
    <2>2. \/ \E error : Refuse(error)
          \/ \E n, next, consumed : Take(integer(collector, n), next, consumed)
      BY <1>6 DEF ReadNumber
    <2>3. QED
      BY <1>1, <2>1, <2>2, TakeSane
  <1>7. CASE Unexpected
    BY <1>1, <1>7 DEF Unexpected
  <1>8. CASE EndText
    BY <1>8, CallsStaySane DEF EndText
  <1>9. CASE UNCHANGED parserVars
    BY <1>9 DEF parserVars
  <1>10. QED
    BY <1>2, <1>3, <1>4, <1>5, <1>6, <1>7, <1>8, <1>9 DEF Next

(* In a sane collector of a Module the stacks agree. *)
LEMMA SaneAgrees == IInv => StacksAgree
  <1> SUFFICES ASSUME Sane(collector), IsModule(collector)
               PROVE  /\ BasesInOrder(collector)
                      /\ Len(collector.stack) =< ParseCap
                      /\ Len(collector.bases) =< BaseCap
                      /\ collector.error # "UnexpectedError"
                      /\ collector.heap.used =< HeapCap
                      /\ Len(collector.symbols) =< SymbolCap
    BY DEF IInv, StacksAgree
  <1>1. Agrees(collector)
    BY Kinds DEF Sane
  <1>2. PICK h, y, s, b, e : collector = Collects(h, y, s, b, e) /\ Sound(h, y, s, b, e)
    BY <1>1 DEF Agrees
  <1>3. /\ collector.heap = h /\ collector.symbols = y /\ collector.stack = s
        /\ collector.bases = b /\ collector.error = e
    BY <1>2 DEF Collects
  <1>4. DOMAIN b = 1 .. Len(b)
    BY <1>2, LenProperties DEF Sound
  <1>5. BasesInOrder(collector)
    BY <1>2, <1>3, <1>4 DEF Sound, InOrder, BasesInOrder
  <1>6. QED
    BY <1>2, <1>3, <1>5 DEF Sound

(* The collector's stacks, the heap and the symbol table it writes to keep *)
(* their limits and the positions stay in order, whatever the text: a      *)
(* block never takes what was there before it began.                       *)
THEOREM StacksKeepAgreeing == Spec => []StacksAgree
  BY InitIInv, NextIInv, SaneAgrees, PTL DEF Spec
=============================================================================
