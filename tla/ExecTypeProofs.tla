--------------------------- MODULE ExecTypeProofs ---------------------------
(***************************************************************************)
(* Proofs about the virtual machine: TypeOK holds of every program, and    *)
(* whatever operations have run short.                                     *)
(***************************************************************************)
EXTENDS ExecProofs

-----------------------------------------------------------------------------
(* What is left of all this once operations have run short: values are     *)
(* still words, and addresses of contexts and places in blocks still lead  *)
(* where they did.                                                         *)

(* What a cell is made of. *)
Words == 0 .. WordMod - 1

(* A context of such values. *)
SaneContext(ctx) ==
  /\ ctx = [cap |-> ctx.cap, sealed |-> ctx.sealed, entries |-> ctx.entries]
  /\ ctx.cap \in Nat
  /\ ctx.entries = [sym \in DOMAIN ctx.entries |-> ctx.entries[sym]]
  /\ DOMAIN ctx.entries \subseteq Words
  /\ \A sym \in DOMAIN ctx.entries : ctx.entries[sym] \in Cells

(* A memory of words. *)
SaneHeap(h) ==
  /\ h = [blocks |-> h.blocks, ctxs |-> h.ctxs, used |-> h.used]
  /\ h.used \in 0 .. HeapCap
  /\ Len(h.blocks) + HeapCap - h.used < WordMod /\ Len(h.ctxs) + HeapCap - h.used < WordMod
  /\ h.blocks \in Seq(Seq(Cells)) /\ h.ctxs \in Seq(Range(h.ctxs))
  /\ \A a \in DOMAIN h.blocks : 2 * Len(h.blocks[a]) < WordMod
  /\ \A c \in DOMAIN h.ctxs : SaneContext(h.ctxs[c])

(* The block at an address, or none. *)
BlockIn(h, a) == IF a \in DOMAIN h.blocks THEN h.blocks[a] ELSE << >>

(* A place in a block. *)
Spot(h, a, i) == a \in Nat /\ i \in 0 .. Len(BlockIn(h, a))

(* A frame that can be left. *)
FrameSane(h, f) ==
  /\ f.op \in ReturnOps \union CallOps
  /\ f.bp \in Nat
  /\ f.op = "SET_WORD" => f.word \in Words
  /\ f.op \in ReturnOps => Spot(h, f.word, f.arity - LeaveMarker)

FramesSane(h, o) == IsSequence(o) /\ \A j \in DOMAIN o : FrameSane(h, o[j])

(* An Exec within its limits. *)
Sane(h, v) ==
  \E b, i, s, o, e : /\ v = Machine(b, i, s, o, e)
                     /\ Spot(h, b, i)
                     /\ s \in Seq(Cells) /\ Len(s) =< StackCap
                     /\ FramesSane(h, o) /\ Len(o) =< OpCap
                     /\ e \in Seq(DOMAIN h.ctxs) /\ Len(e) =< EnvCap

(* So does the machine after a turn. *)
SaneNext == SaneHeap(heap') /\ Sane(heap', vm')

(* No block gets shorter, no context goes. *)
Extended(h, h2) ==
  /\ \A a : Len(BlockIn(h, a)) \in Nat /\ Len(BlockIn(h2, a)) \in Nat
            /\ Len(BlockIn(h, a)) =< Len(BlockIn(h2, a))
  /\ DOMAIN h.ctxs \subseteq DOMAIN h2.ctxs

(* The parts of such a memory are sequences. *)
LEMMA SaneShape ==
  ASSUME NEW h, SaneHeap(h)
  PROVE  /\ IsSequence(h.blocks) /\ IsSequence(h.ctxs)
         /\ Len(h.blocks) \in Nat /\ DOMAIN h.blocks = 1 .. Len(h.blocks)
         /\ Len(h.ctxs) \in Nat /\ DOMAIN h.ctxs = 1 .. Len(h.ctxs)
         /\ h = Mem(h.blocks, h.ctxs, h.used) /\ h.used \in Nat
         /\ Len(h.blocks) < WordMod /\ Len(h.ctxs) < WordMod
         /\ \A a : /\ BlockIn(h, a) \in Seq(Cells) /\ IsSequence(BlockIn(h, a))
                   /\ Len(BlockIn(h, a)) \in Nat /\ DOMAIN BlockIn(h, a) = 1 .. Len(BlockIn(h, a))
                   /\ 2 * Len(BlockIn(h, a)) < WordMod
  <1>1. IsSequence(h.blocks) /\ IsSequence(h.ctxs)
    BY DEF SaneHeap, IsSequence
  <1>2. h = Mem(h.blocks, h.ctxs, h.used)
    BY DEF SaneHeap, Mem
  <1>3. ASSUME NEW a
        PROVE  BlockIn(h, a) \in Seq(Cells) /\ 2 * Len(BlockIn(h, a)) < WordMod
    <2>1. CASE a \in DOMAIN h.blocks
      <3>1. h.blocks \in Seq(Seq(Cells)) /\ a \in 1 .. Len(h.blocks)
        BY <1>1, <2>1, Indexed DEF SaneHeap
      <3>2. h.blocks[a] \in Seq(Cells)
        BY <3>1, ElementOfSeq
      <3>3. QED
        BY <2>1, <3>2 DEF SaneHeap, BlockIn
    <2>2. CASE a \notin DOMAIN h.blocks
      <3>1. BlockIn(h, a) = << >>
        BY <2>2 DEF BlockIn
      <3>2. WordMod \in Nat /\ 0 < WordMod
        BY WordModAssumption DEF PATH
      <3>3. QED
        BY <3>1, <3>2
    <2>3. QED
      BY <2>1, <2>2
  <1>4. \A a : IsSequence(BlockIn(h, a))
    BY <1>3 DEF IsSequence
  <1>5. Len(h.blocks) < WordMod /\ Len(h.ctxs) < WordMod /\ h.used \in Nat
    <2>1. Len(h.blocks) \in Nat /\ Len(h.ctxs) \in Nat /\ HeapCap \in Nat /\ WordMod \in Nat
      BY <1>1, Indexed, HeapAssumption, WordModAssumption
    <2>2. h.used \in 0 .. HeapCap /\ Len(h.blocks) + HeapCap - h.used < WordMod
          /\ Len(h.ctxs) + HeapCap - h.used < WordMod
      BY DEF SaneHeap
    <2>3. QED
      BY <2>1, <2>2
  <1>6. QED
    BY <1>1, <1>2, <1>3, <1>4, <1>5, Indexed

(* Its own blocks are those BlockAt reads. *)
LEMMA SameBlocks ==
  \A a : BlockAt(a) = BlockIn(heap, a)
  BY DEF BlockAt, BlockIn

(* A memory in which values lead to what their tags say is one. *)
LEMMA GoodIsSane ==
  ASSUME NEW h, GoodHeap(h)
  PROVE  SaneHeap(h)
  <1>1. \A a \in DOMAIN h.blocks : 2 * Len(h.blocks[a]) < WordMod
    BY DEF GoodHeap, GoodBlock
  <1>2. ASSUME NEW c \in DOMAIN h.ctxs PROVE SaneContext(h.ctxs[c])
    <2>1. PICK ctx : ctx = h.ctxs[c]
      OBVIOUS
    <2>2. GoodContext(h, ctx)
      BY <2>1 DEF GoodHeap
    <2>3. SaneContext(ctx)
      BY <2>2 DEF GoodContext, Good, SaneContext, Words
    <2>4. QED
      BY <2>1, <2>3
  <1>3. QED
    BY <1>1, <1>2 DEF GoodHeap, SaneHeap

(* A block of values is added. *)
LEMMA SaneBlockAdded ==
  ASSUME NEW h, SaneHeap(h), NEW block \in Seq(Cells),
         NEW words \in Nat, words > 2 * Len(block), h.used + words =< HeapCap,
         NEW h2, h2 = Mem(Append(h.blocks, block), h.ctxs, h.used + words)
  PROVE  SaneHeap(h2) /\ Extended(h, h2) /\ Len(h2.blocks) \in Words
  <1> DEFINE n == Len(h.blocks)
  <1>1. /\ n \in Nat /\ DOMAIN h.blocks = 1 .. n /\ Len(h.ctxs) \in Nat
        /\ h.blocks \in Seq(Seq(Cells)) /\ h.used \in 0 .. HeapCap
        /\ n + HeapCap - h.used < WordMod /\ Len(h.ctxs) + HeapCap - h.used < WordMod
    BY SaneShape DEF SaneHeap
  <1>2. h2.blocks = Append(h.blocks, block) /\ h2.ctxs = h.ctxs /\ h2.used = h.used + words
    BY DEF Mem
  <1>3. /\ h2.blocks \in Seq(Seq(Cells)) /\ Len(h2.blocks) = n + 1
        /\ h2.blocks[n + 1] = block /\ \A a \in 1 .. n : h2.blocks[a] = h.blocks[a]
    <2>1. /\ Append(h.blocks, block) \in Seq(Seq(Cells)) /\ Len(Append(h.blocks, block)) = n + 1
          /\ Append(h.blocks, block)[n + 1] = block
          /\ \A a \in 1 .. n : Append(h.blocks, block)[a] = h.blocks[a]
      BY <1>1, AppendProperties
    <2>2. QED
      BY <1>2, <2>1
  <1>4. DOMAIN h2.blocks = 1 .. n + 1 /\ IsSequence(h2.blocks)
    BY <1>3, Indexed DEF IsSequence
  <1>5. Len(block) \in Nat /\ HeapCap \in Nat /\ WordMod \in Nat /\ HeapCap < WordMod
    BY LenProperties, HeapAssumption, WordModAssumption
  <1>6. \A a \in DOMAIN h2.blocks : 2 * Len(h2.blocks[a]) < WordMod
    <2>1. 2 * Len(block) < WordMod
      BY <1>1, <1>5
    <2>2. \A a \in 1 .. n : 2 * Len(h2.blocks[a]) < WordMod
      BY <1>1, <1>3 DEF SaneHeap
    <2>3. \A a \in 1 .. n + 1 : a = n + 1 \/ a \in 1 .. n
      BY ONLY <1>1, SMTT(30)
    <2>4. QED
      BY <1>3, <1>4, <2>1, <2>2, <2>3
  <1>7. /\ h2.used \in 0 .. HeapCap
        /\ Len(h2.blocks) + HeapCap - h2.used < WordMod /\ Len(h2.ctxs) + HeapCap - h2.used < WordMod
        /\ Len(h2.blocks) \in Words
    <2>1. words >= 1 /\ h.used \in Nat
      BY <1>1, <1>5
    <2>2. /\ h.used + words \in 0 .. HeapCap /\ n + 1 \in 0 .. WordMod - 1
          /\ n + 1 + HeapCap - (h.used + words) < WordMod
          /\ Len(h.ctxs) + HeapCap - (h.used + words) < WordMod
      BY <1>1, <1>5, <2>1, Room
    <2>3. QED
      BY <1>2, <1>3, <2>1, <2>2 DEF Words
  <1>8. h2 = [blocks |-> h2.blocks, ctxs |-> h2.ctxs, used |-> h2.used]
    BY DEF Mem
  <1>9. h2.ctxs \in Seq(Range(h2.ctxs)) /\ \A c \in DOMAIN h2.ctxs : SaneContext(h2.ctxs[c])
    BY <1>2 DEF SaneHeap
  <1>10. SaneHeap(h2)
    BY <1>3, <1>6, <1>7, <1>8, <1>9 DEF SaneHeap
  <1>11. ASSUME NEW a PROVE Len(BlockIn(h, a)) =< Len(BlockIn(h2, a))
    <2>1. Len(BlockIn(h, a)) \in Nat /\ Len(BlockIn(h2, a)) \in Nat
      BY <1>10, SaneShape
    <2>2. CASE a \in 1 .. n
      <3>1. BlockIn(h, a) = h.blocks[a] /\ BlockIn(h2, a) = h.blocks[a]
        <4>1. a \in 1 .. n + 1
          BY <1>1, <2>2
        <4>2. QED
          BY <1>1, <1>3, <1>4, <2>2, <4>1 DEF BlockIn
      <3>2. QED
        BY <2>1, <3>1
    <2>3. CASE a \notin 1 .. n
      <3>1. BlockIn(h, a) = << >>
        BY <1>1, <2>3 DEF BlockIn
      <3>2. Len(BlockIn(h, a)) = 0
        BY <3>1
      <3>3. QED
        BY <2>1, <3>2
    <2>4. QED
      BY <2>2, <2>3
  <1>12. Extended(h, h2)
    <2>1. DOMAIN h.ctxs \subseteq DOMAIN h2.ctxs
      BY <1>2
    <2>2. \A a : Len(BlockIn(h, a)) \in Nat /\ Len(BlockIn(h2, a)) \in Nat
      BY <1>10, SaneShape
    <2>3. QED
      BY <1>11, <2>1, <2>2 DEF Extended
  <1>13. QED
    BY <1>7, <1>10, <1>12

(* Other contexts, the blocks as they are. *)
LEMMA SameBlocksExtended ==
  ASSUME NEW h, SaneHeap(h), NEW h2, SaneHeap(h2), h2.blocks = h.blocks,
         DOMAIN h.ctxs \subseteq DOMAIN h2.ctxs
  PROVE  Extended(h, h2)
  <1>1. ASSUME NEW a
        PROVE  /\ Len(BlockIn(h, a)) \in Nat /\ Len(BlockIn(h2, a)) \in Nat
               /\ Len(BlockIn(h, a)) =< Len(BlockIn(h2, a))
    <2>1. BlockIn(h, a) = BlockIn(h2, a)
      BY DEF BlockIn
    <2>2. Len(BlockIn(h, a)) \in Nat
      BY SaneShape
    <2>3. QED
      BY <2>1, <2>2
  <1>2. QED
    BY <1>1 DEF Extended

(* A context is added. *)
LEMMA SaneContextAdded ==
  ASSUME NEW h, SaneHeap(h), NEW ctx, SaneContext(ctx),
         h.used + ContextWords(ctx.cap) =< HeapCap,
         NEW h2, h2 = Mem(h.blocks, Append(h.ctxs, ctx), h.used + ContextWords(ctx.cap))
  PROVE  /\ SaneHeap(h2) /\ Extended(h, h2)
         /\ Len(h2.ctxs) \in DOMAIN h2.ctxs /\ Len(h2.ctxs) = Len(h.ctxs) + 1
  <1> DEFINE n == Len(h.ctxs)
  <1>1. /\ n \in Nat /\ DOMAIN h.ctxs = 1 .. n /\ Len(h.blocks) \in Nat
        /\ h.used \in 0 .. HeapCap /\ IsSequence(h.ctxs)
        /\ Len(h.blocks) + HeapCap - h.used < WordMod /\ n + HeapCap - h.used < WordMod
    BY SaneShape DEF SaneHeap
  <1>2. /\ h2.blocks = h.blocks /\ h2.ctxs = Append(h.ctxs, ctx)
        /\ h2.used = h.used + ContextWords(ctx.cap)
    BY DEF Mem
  <1>3. /\ IsSequence(h2.ctxs) /\ Len(h2.ctxs) = n + 1
        /\ h2.ctxs[n + 1] = ctx /\ \A c \in 1 .. n : h2.ctxs[c] = h.ctxs[c]
    <2>1. /\ IsSequence(Append(h.ctxs, ctx)) /\ Len(Append(h.ctxs, ctx)) = n + 1
          /\ Append(h.ctxs, ctx)[n + 1] = ctx
          /\ \A c \in 1 .. n : Append(h.ctxs, ctx)[c] = h.ctxs[c]
      BY <1>1, Stacked
    <2>2. QED
      BY <1>2, <2>1
  <1>4. DOMAIN h2.ctxs = 1 .. n + 1
    BY <1>3, Indexed
  <1>5. /\ ContextWords(ctx.cap) \in Nat /\ ContextWords(ctx.cap) >= 2
        /\ HeapCap \in Nat /\ WordMod \in Nat /\ HeapCap < WordMod
    BY HeapAssumption, WordModAssumption DEF ContextWords, SaneContext
  <1>6. \A c \in DOMAIN h2.ctxs : SaneContext(h2.ctxs[c])
    <2>1. \A c \in 1 .. n : SaneContext(h2.ctxs[c])
      BY <1>1, <1>3 DEF SaneHeap
    <2>2. \A c \in 1 .. n + 1 : c = n + 1 \/ c \in 1 .. n
      BY <1>1
    <2>3. QED
      BY <1>3, <1>4, <2>1, <2>2
  <1>7. /\ h2.used \in 0 .. HeapCap
        /\ Len(h2.blocks) + HeapCap - h2.used < WordMod /\ Len(h2.ctxs) + HeapCap - h2.used < WordMod
    <2>1. PICK words : words = ContextWords(ctx.cap)
      OBVIOUS
    <2>2. /\ h.used + words \in 0 .. HeapCap
          /\ n + 1 + HeapCap - (h.used + words) < WordMod
          /\ Len(h.blocks) + HeapCap - (h.used + words) < WordMod
      <3>1. words \in Nat /\ words >= 1 /\ h.used \in Nat /\ h.used + words =< HeapCap
        BY <1>1, <1>5, <2>1
      <3>2. QED
        BY <1>1, <1>5, <3>1, Room
    <2>3. QED
      BY <1>2, <1>3, <2>1, <2>2
  <1>8. h2 = [blocks |-> h2.blocks, ctxs |-> h2.ctxs, used |-> h2.used]
    BY DEF Mem
  <1>9. h2.blocks \in Seq(Seq(Cells)) /\ h2.ctxs \in Seq(Range(h2.ctxs))
    BY <1>2, <1>3, OwnRange DEF SaneHeap
  <1>10. \A a \in DOMAIN h2.blocks : 2 * Len(h2.blocks[a]) < WordMod
    BY <1>2 DEF SaneHeap
  <1>11. SaneHeap(h2)
    BY <1>6, <1>7, <1>8, <1>9, <1>10 DEF SaneHeap
  <1>12. DOMAIN h.ctxs \subseteq DOMAIN h2.ctxs /\ n + 1 \in DOMAIN h2.ctxs
    BY <1>1, <1>4
  <1>13. Extended(h, h2)
    BY <1>2, <1>11, <1>12, SameBlocksExtended
  <1>14. QED
    BY <1>3, <1>11, <1>12, <1>13

(* A value is put in a context. *)
LEMMA PutSane ==
  ASSUME NEW ctx, SaneContext(ctx), NEW sym \in Words, NEW val \in Cells
  PROVE  SaneContext(Put(ctx, sym, val))
  <1>1. PICK m, k, f, old : /\ m = WithEntry(ctx.entries, sym, val) /\ k = ctx.cap /\ f = ctx.sealed
                            /\ old = ctx.entries
    OBVIOUS
  <1>2. /\ m = [s \in DOMAIN m |-> m[s]] /\ DOMAIN m = DOMAIN old \union {sym}
        /\ \A s \in DOMAIN m : m[s] = IF s = sym THEN val ELSE old[s]
    BY <1>1 DEF WithEntry
  <1>3. Put(ctx, sym, val) = ctx \/ Put(ctx, sym, val) = [cap |-> k, sealed |-> f, entries |-> m]
    <2>1. Put(ctx, sym, val) = ctx \/ Put(ctx, sym, val) = [ctx EXCEPT !.entries = m]
      BY <1>1 DEF Put
    <2>2. ctx = [cap |-> k, sealed |-> f, entries |-> old]
      BY <1>1 DEF SaneContext
    <2>3. [[cap |-> k, sealed |-> f, entries |-> old] EXCEPT !.entries = m]
            = [cap |-> k, sealed |-> f, entries |-> m]
      OBVIOUS
    <2>4. QED
      BY <2>1, <2>2, <2>3, Zenon
  <1>4. \A s \in DOMAIN m : m[s] \in Cells
    BY <1>1, <1>2 DEF SaneContext
  <1>5. DOMAIN m \subseteq Words /\ k \in Nat
    BY <1>1, <1>2 DEF SaneContext
  <1>6. SaneContext([cap |-> k, sealed |-> f, entries |-> m])
    BY <1>2, <1>4, <1>5 DEF SaneContext
  <1>7. QED
    BY <1>3, <1>6

(* And the memory has that context. *)
LEMMA SaneContextChanged ==
  ASSUME NEW h, SaneHeap(h), NEW c \in DOMAIN h.ctxs, NEW sym \in Words, NEW val \in Cells,
         NEW h2, h2 = [h EXCEPT !.ctxs[c] = Put(@, sym, val)]
  PROVE  SaneHeap(h2) /\ Extended(h, h2)
  <1>1. /\ IsSequence(h.ctxs) /\ Len(h.ctxs) \in Nat /\ DOMAIN h.ctxs = 1 .. Len(h.ctxs)
        /\ h = Mem(h.blocks, h.ctxs, h.used)
    BY SaneShape
  <1>2. PICK x, g : x = Put(h.ctxs[c], sym, val) /\ g = [h.ctxs EXCEPT ![c] = x]
    OBVIOUS
  <1>3. SaneContext(x)
    <2>1. PICK ctx : ctx = h.ctxs[c]
      OBVIOUS
    <2>2. SaneContext(ctx)
      BY <2>1 DEF SaneHeap
    <2>3. QED
      BY <1>2, <2>1, <2>2, PutSane
  <1>4. h2 = Mem(h.blocks, g, h.used)
    <2>1. h2 = [h EXCEPT !.ctxs = g]
      BY <1>2
    <2>2. QED
      BY <1>1, <2>1 DEF Mem
  <1>5. IsSequence(g) /\ Len(g) = Len(h.ctxs)
    <2>1. PICK S : h.ctxs \in Seq(S)
      BY <1>1 DEF IsSequence
    <2>2. h.ctxs \in [1 .. Len(h.ctxs) -> S \union {x}]
      BY <2>1, LenProperties
    <2>3. g \in [1 .. Len(h.ctxs) -> S \union {x}]
      BY <1>1, <1>2, <2>2
    <2>4. g \in Seq(S \union {x})
      BY <1>1, <2>3, SeqDef
    <2>5. QED
      BY <1>1, <2>3, <2>4, LenProperties DEF IsSequence
  <1>6. DOMAIN g = DOMAIN h.ctxs /\ g[c] = x /\ \A d \in DOMAIN h.ctxs : d # c => g[d] = h.ctxs[d]
    BY <1>1, <1>2, <1>5, Indexed
  <1>7. h2.blocks = h.blocks /\ h2.ctxs = g /\ h2.used = h.used
    BY <1>4 DEF Mem
  <1>8. \A d \in DOMAIN h2.ctxs : SaneContext(h2.ctxs[d])
    <2>1. \A d \in DOMAIN h.ctxs : SaneContext(h.ctxs[d])
      BY DEF SaneHeap
    <2>2. QED
      BY <1>3, <1>6, <1>7, <2>1
  <1>9. h2 = [blocks |-> h2.blocks, ctxs |-> h2.ctxs, used |-> h2.used]
    BY <1>4 DEF Mem
  <1>10. h2.blocks \in Seq(Seq(Cells)) /\ h2.ctxs \in Seq(Range(h2.ctxs))
    BY <1>5, <1>7, OwnRange DEF SaneHeap
  <1>11. SaneHeap(h2)
    BY <1>5, <1>7, <1>8, <1>9, <1>10 DEF SaneHeap
  <1>12. QED
    BY <1>6, <1>7, <1>11, SameBlocksExtended

(* A nonempty sequence has a last element, and what is before it. *)
LEMMA SequenceEnds ==
  ASSUME NEW S, NEW s \in Seq(S)
  PROVE  /\ Len(s) \in Nat /\ DOMAIN s = 1 .. Len(s) /\ \A j \in 1 .. Len(s) : s[j] \in S
         /\ s # << >> => Len(s) >= 1 /\ Last(s) \in S /\ Front(s) \in Seq(S) /\ Len(Front(s)) = Len(s) - 1
         /\ \A m \in 0 .. Len(s) : SubSeq(s, 1, m) \in Seq(S) /\ Len(SubSeq(s, 1, m)) = m
         /\ \A x \in S : Append(s, x) \in Seq(S) /\ Len(Append(s, x)) = Len(s) + 1
  <1>1. Len(s) \in Nat /\ DOMAIN s = 1 .. Len(s) /\ \A j \in 1 .. Len(s) : s[j] \in S
    BY LenProperties, ElementOfSeq
  <1>2. \A x \in S : Append(s, x) \in Seq(S) /\ Len(Append(s, x)) = Len(s) + 1
    BY AppendProperties
  <1>3. ASSUME NEW m \in 0 .. Len(s)
        PROVE  SubSeq(s, 1, m) \in Seq(S) /\ Len(SubSeq(s, 1, m)) = m
    <2>1. m \in Int /\ 1 \in Int /\ \A j \in 1 .. m : s[j] \in S
      BY <1>1
    <2>2. /\ SubSeq(s, 1, m) \in Seq(S)
          /\ Len(SubSeq(s, 1, m)) = IF 1 =< m THEN m - 1 + 1 ELSE 0
      BY <2>1, SubSeqProperties
    <2>3. m \in Nat /\ (1 =< m => m - 1 + 1 = m) /\ (~(1 =< m) => m = 0)
      BY <1>1
    <2>4. QED
      BY <2>2, <2>3
  <1>4. ASSUME s # << >>
        PROVE  Len(s) >= 1 /\ Last(s) \in S /\ Front(s) \in Seq(S) /\ Len(Front(s)) = Len(s) - 1
    <2>1. Len(s) # 0
      BY <1>4, EmptySeq
    <2>2. Len(s) >= 1 /\ Len(s) \in 1 .. Len(s) /\ Len(s) - 1 \in 0 .. Len(s)
      BY <1>1, <2>1
    <2>3. Front(s) = SubSeq(s, 1, Len(s) - 1)
      BY DEF Front
    <2>4. QED
      BY <1>1, <1>3, <2>2, <2>3 DEF Last
  <1>5. QED
    BY <1>1, <1>2, <1>3, <1>4

(* What an Exec has. *)
LEMMA SaneParts ==
  ASSUME NEW h, NEW v, Sane(h, v)
  PROVE  /\ v = Machine(v.block, v.ip, v.stack, v.ops, v.env)
         /\ Spot(h, v.block, v.ip)
         /\ v.stack \in Seq(Cells) /\ Len(v.stack) =< StackCap
         /\ Sp(v) \in Nat /\ Sp(v) = Len(v.stack) /\ (v.stack # << >> => Sp(v) >= 1 /\ Last(v.stack) \in Cells)
         /\ FramesSane(h, v.ops) /\ Len(v.ops) =< OpCap
         /\ v.env \in Seq(DOMAIN h.ctxs) /\ Len(v.env) \in Nat /\ Len(v.env) =< EnvCap
  <1>1. PICK b, i, s, o, e : /\ v = Machine(b, i, s, o, e)
                             /\ Spot(h, b, i)
                             /\ s \in Seq(Cells) /\ Len(s) =< StackCap
                             /\ FramesSane(h, o) /\ Len(o) =< OpCap
                             /\ e \in Seq(DOMAIN h.ctxs) /\ Len(e) =< EnvCap
    BY DEF Sane
  <1>2. v.block = b /\ v.ip = i /\ v.stack = s /\ v.ops = o /\ v.env = e
    BY <1>1, MachineParts
  <1>3. Len(s) \in Nat /\ Len(e) \in Nat /\ (s # << >> => Len(s) >= 1 /\ Last(s) \in Cells)
    BY <1>1, SequenceEnds
  <1>4. QED
    BY <1>1, <1>2, <1>3 DEF Sp

(* An Exec at another place, with other values, frames or contexts. *)
LEMMA SaneMoves ==
  ASSUME NEW h, NEW v, Sane(h, v)
  PROVE  /\ \A x \in Seq(Cells) : Len(x) =< StackCap => Sane(h, [v EXCEPT !.stack = x])
         /\ \A x : FramesSane(h, x) /\ Len(x) =< OpCap => Sane(h, [v EXCEPT !.ops = x])
         /\ \A x \in Seq(DOMAIN h.ctxs) : Len(x) =< EnvCap => Sane(h, [v EXCEPT !.env = x])
         /\ \A x : Spot(h, v.block, x) => Sane(h, [v EXCEPT !.ip = x])
         /\ \A a, x : Spot(h, a, x) => Sane(h, [[v EXCEPT !.block = a] EXCEPT !.ip = x])
  <1>1. PICK b, i, s, o, e : /\ v = Machine(b, i, s, o, e)
                             /\ Spot(h, b, i)
                             /\ s \in Seq(Cells) /\ Len(s) =< StackCap
                             /\ FramesSane(h, o) /\ Len(o) =< OpCap
                             /\ e \in Seq(DOMAIN h.ctxs) /\ Len(e) =< EnvCap
    BY DEF Sane
  <1>2. \A x : /\ [v EXCEPT !.block = x] = Machine(x, i, s, o, e)
               /\ [v EXCEPT !.ip = x] = Machine(b, x, s, o, e)
               /\ [v EXCEPT !.ops = x] = Machine(b, i, s, x, e)
               /\ [v EXCEPT !.stack = x] = Machine(b, i, x, o, e)
               /\ [v EXCEPT !.env = x] = Machine(b, i, s, o, x)
    BY <1>1, MachineParts
  <1>3. v.block = b
    BY <1>1, MachineParts
  <1>4. ASSUME NEW x \in Seq(Cells), Len(x) =< StackCap PROVE Sane(h, [v EXCEPT !.stack = x])
    <2>1. [v EXCEPT !.stack = x] = Machine(b, i, x, o, e)
      BY <1>2
    <2>2. Sane(h, Machine(b, i, x, o, e))
      BY <1>1, <1>4 DEF Sane
    <2>3. QED
      BY <2>1, <2>2, Zenon
  <1>5. ASSUME NEW x, FramesSane(h, x), Len(x) =< OpCap PROVE Sane(h, [v EXCEPT !.ops = x])
    <2>1. [v EXCEPT !.ops = x] = Machine(b, i, s, x, e)
      BY <1>2
    <2>2. Sane(h, Machine(b, i, s, x, e))
      BY <1>1, <1>5 DEF Sane
    <2>3. QED
      BY <2>1, <2>2, Zenon
  <1>6. ASSUME NEW x \in Seq(DOMAIN h.ctxs), Len(x) =< EnvCap PROVE Sane(h, [v EXCEPT !.env = x])
    <2>1. [v EXCEPT !.env = x] = Machine(b, i, s, o, x)
      BY <1>2
    <2>2. Sane(h, Machine(b, i, s, o, x))
      BY <1>1, <1>6 DEF Sane
    <2>3. QED
      BY <2>1, <2>2, Zenon
  <1>7. ASSUME NEW x, Spot(h, v.block, x) PROVE Sane(h, [v EXCEPT !.ip = x])
    <2>1. [v EXCEPT !.ip = x] = Machine(b, x, s, o, e)
      BY <1>2
    <2>2. Sane(h, Machine(b, x, s, o, e))
      BY <1>1, <1>3, <1>7 DEF Sane
    <2>3. QED
      BY <2>1, <2>2, Zenon
  <1>8. ASSUME NEW a, NEW x, Spot(h, a, x) PROVE Sane(h, [[v EXCEPT !.block = a] EXCEPT !.ip = x])
    <2>1. PICK w : w = [v EXCEPT !.block = a]
      OBVIOUS
    <2>2. w = Machine(a, i, s, o, e)
      BY <1>2, <2>1
    <2>3. [w EXCEPT !.ip = x] = Machine(a, x, s, o, e)
      BY <2>2, MachineParts
    <2>4. Sane(h, Machine(a, x, s, o, e))
      BY <1>1, <1>8 DEF Sane
    <2>5. Sane(h, [w EXCEPT !.ip = x])
      BY <2>3, <2>4, Zenon
    <2>6. QED
      BY <2>1, <2>5, Zenon
  <1>9. QED
    BY <1>4, <1>5, <1>6, <1>7, <1>8

(* A place and a frame stay what they are in a memory that has more. *)
LEMMA SaneGrows ==
  ASSUME NEW h, NEW h2, Extended(h, h2)
  PROVE  /\ \A a, i : Spot(h, a, i) => Spot(h2, a, i)
         /\ \A o : FramesSane(h, o) => FramesSane(h2, o)
         /\ \A v : Sane(h, v) => Sane(h2, v)
  <1>1. ASSUME NEW a, NEW i, Spot(h, a, i) PROVE Spot(h2, a, i)
    BY <1>1 DEF Spot, Extended
  <1>2. ASSUME NEW o, FramesSane(h, o) PROVE FramesSane(h2, o)
    BY <1>1, <1>2 DEF FramesSane, FrameSane
  <1>3. ASSUME NEW v, Sane(h, v) PROVE Sane(h2, v)
    <2>1. PICK b, i, s, o, e : /\ v = Machine(b, i, s, o, e)
                               /\ Spot(h, b, i)
                               /\ s \in Seq(Cells) /\ Len(s) =< StackCap
                               /\ FramesSane(h, o) /\ Len(o) =< OpCap
                               /\ e \in Seq(DOMAIN h.ctxs) /\ Len(e) =< EnvCap
      BY <1>3 DEF Sane
    <2>2. e \in Seq(DOMAIN h2.ctxs)
      <3>1. e \in [1 .. Len(e) -> DOMAIN h.ctxs] /\ Len(e) \in Nat
        BY <2>1, LenProperties
      <3>2. e \in [1 .. Len(e) -> DOMAIN h2.ctxs]
        BY <3>1 DEF Extended
      <3>3. QED
        BY <3>1, <3>2, SeqDef
    <2>3. Spot(h2, b, i) /\ FramesSane(h2, o)
      BY <1>1, <1>2, <2>1
    <2>4. QED
      BY <2>1, <2>2, <2>3 DEF Sane
  <1>4. QED
    BY <1>1, <1>2, <1>3

(* A frame more, or the one on top less. *)
LEMMA FramesPushed ==
  ASSUME NEW h, NEW o, FramesSane(h, o)
  PROVE  /\ Len(o) \in Nat
         /\ \A f : FrameSane(h, f) => FramesSane(h, Append(o, f)) /\ Len(Append(o, f)) = Len(o) + 1
         /\ o # << >> => /\ FramesSane(h, Front(o)) /\ Len(Front(o)) =< Len(o) /\ Len(Front(o)) < Len(o)
                         /\ FrameSane(h, Last(o))
  <1>1. IsSequence(o) /\ Len(o) \in Nat /\ DOMAIN o = 1 .. Len(o)
    BY Indexed DEF FramesSane
  <1>2. ASSUME NEW f, FrameSane(h, f)
        PROVE  FramesSane(h, Append(o, f)) /\ Len(Append(o, f)) = Len(o) + 1
    <2>1. /\ IsSequence(Append(o, f)) /\ Len(Append(o, f)) = Len(o) + 1
          /\ \A j \in 1 .. Len(o) : Append(o, f)[j] = o[j]
          /\ Append(o, f)[Len(o) + 1] = f
      BY <1>1, Stacked
    <2>2. DOMAIN Append(o, f) = 1 .. Len(o) + 1
      BY <2>1, Indexed
    <2>3. \A j \in 1 .. Len(o) + 1 : j \in 1 .. Len(o) \/ j = Len(o) + 1
      BY <1>1
    <2>4. QED
      BY <1>1, <1>2, <2>1, <2>2, <2>3 DEF FramesSane
  <1>3. ASSUME o # << >>
        PROVE  /\ FramesSane(h, Front(o)) /\ Len(Front(o)) = Len(o) - 1
               /\ FrameSane(h, Last(o))
    <2>1. PICK S : o \in Seq(S)
      BY <1>1 DEF IsSequence
    <2>2. Len(o) >= 1
      BY <1>3, <2>1, SequenceEnds
    <2>3. Len(o) \in 1 .. Len(o) /\ Len(o) - 1 \in 0 .. Len(o)
      BY <1>1, <2>2
    <2>4. PICK q, m : m = Len(o) - 1 /\ q = SubSeq(o, 1, m)
      OBVIOUS
    <2>5. IsSequence(q) /\ Len(q) = m /\ \A j \in 1 .. m : q[j] = o[j]
      BY <1>1, <2>3, <2>4, Truncated
    <2>6. DOMAIN q = 1 .. m /\ \A j \in 1 .. m : j \in 1 .. Len(o)
      BY <1>1, <2>3, <2>4, <2>5, Indexed
    <2>7. FramesSane(h, q)
      BY <1>1, <2>5, <2>6 DEF FramesSane
    <2>8. Front(o) = q
      BY <2>4 DEF Front
    <2>9. FrameSane(h, Last(o))
      BY <1>1, <2>3 DEF FramesSane, Last
    <2>10. QED
      BY <2>4, <2>5, <2>7, <2>8, <2>9
  <1>4. o # << >> => Len(Front(o)) =< Len(o) /\ Len(Front(o)) < Len(o)
    BY <1>1, <1>3
  <1>5. QED
    BY <1>1, <1>2, <1>3, <1>4

(* The frame on top goes. *)
LEMMA SanePopped ==
  ASSUME NEW h, Sane(h, vm), vm.ops # << >>
  PROVE  /\ Sane(h, PopFrame(vm)) /\ FrameSane(h, Top)
         /\ PopFrame(vm).stack = vm.stack /\ PopFrame(vm).env = vm.env
         /\ PopFrame(vm).ops = Front(vm.ops) /\ Len(PopFrame(vm).ops) < OpCap
  <1>1. PICK q : q = Front(vm.ops)
    OBVIOUS
  <1>2. FramesSane(h, q) /\ Len(q) =< OpCap /\ Len(q) < OpCap /\ FrameSane(h, Top)
    <2>1. FramesSane(h, vm.ops) /\ Len(vm.ops) =< OpCap
      BY SaneParts
    <2>2. Len(vm.ops) \in Nat /\ FramesSane(h, q) /\ Len(q) < Len(vm.ops) /\ Len(q) \in Nat /\ FrameSane(h, Top)
      BY <1>1, <2>1, FramesPushed DEF Top
    <2>3. OpCap \in Nat
      BY CapsAssumption
    <2>4. QED
      BY <2>1, <2>2, <2>3
  <1>3. PopFrame(vm) = [vm EXCEPT !.ops = q]
    BY <1>1 DEF PopFrame
  <1>4. Sane(h, [vm EXCEPT !.ops = q])
    BY <1>2, SaneMoves
  <1>5. PopFrame(vm) = Machine(vm.block, vm.ip, vm.stack, q, vm.env)
    <2>1. PICK b, i, s, o, e : b = vm.block /\ i = vm.ip /\ s = vm.stack /\ o = vm.ops /\ e = vm.env
      OBVIOUS
    <2>2. vm = Machine(b, i, s, o, e)
      BY <2>1, SaneParts
    <2>3. [Machine(b, i, s, o, e) EXCEPT !.ops = q] = Machine(b, i, s, q, e)
      BY MachineParts
    <2>4. PopFrame(vm) = Machine(b, i, s, q, e)
      BY <1>3, <2>2, <2>3, Zenon
    <2>5. QED
      BY <2>1, <2>4
  <1>6. /\ PopFrame(vm).stack = vm.stack /\ PopFrame(vm).env = vm.env
        /\ PopFrame(vm).ops = q
    BY <1>5, MachineParts
  <1>7. Sane(h, PopFrame(vm))
    BY <1>3, <1>4, Zenon
  <1>8. QED
    BY <1>1, <1>2, <1>6, <1>7

(* The ways a turn ends. *)
LEMMA TurnSane ==
  ASSUME SaneHeap(heap'), Sane(heap', vm)
  PROVE  /\ \A error : Fail(error) => SaneNext
         /\ \A v : Sane(heap', v) /\ Continue(v) => SaneNext
  BY DEF Fail, Continue, SaneNext

(* Values are taken. *)
LEMMA SaneBelow ==
  ASSUME NEW h, NEW v, Sane(h, v), NEW n \in 0 .. Sp(v)
  PROVE  /\ Below(v, n) \in Seq(Cells) /\ Len(Below(v, n)) = Sp(v) - n
         /\ Sane(h, [v EXCEPT !.stack = Below(v, n)])
         /\ \A j \in 1 .. n : Arg(v, n, j) \in Cells
  <1>1. v.stack \in Seq(Cells) /\ Sp(v) \in Nat /\ Sp(v) = Len(v.stack) /\ Sp(v) =< StackCap
    BY SaneParts
  <1>2. PICK m : m = Sp(v) - n
    OBVIOUS
  <1>3. m \in 0 .. Len(v.stack)
    BY <1>1, <1>2
  <1>4. Below(v, n) \in Seq(Cells) /\ Len(Below(v, n)) = m
    BY <1>1, <1>2, <1>3, SequenceEnds DEF Below
  <1>5. m =< StackCap
    BY <1>1, <1>2, CapsAssumption
  <1>6. \A j \in 1 .. n : Arg(v, n, j) \in Cells
    <2>1. \A j \in 1 .. n : Sp(v) - n + j \in 1 .. Len(v.stack)
      BY <1>1
    <2>2. QED
      BY <1>1, <2>1, SequenceEnds DEF Arg
  <1>7. Sane(h, [v EXCEPT !.stack = Below(v, n)])
    BY <1>4, <1>5, SaneMoves
  <1>8. QED
    BY <1>2, <1>4, <1>6, <1>7

(* A value is pushed in place of others. *)
LEMMA ReturnSane ==
  ASSUME SaneHeap(heap'), Sane(heap', vm),
         NEW v, Sane(heap', v), NEW n \in 0 .. Sp(v), NEW val \in Cells, Return(v, n, val)
  PROVE  SaneNext
  <1>1. PICK s : s = Below(v, n)
    OBVIOUS
  <1>2. s \in Seq(Cells) /\ Len(s) = Sp(v) - n /\ Sp(v) \in Nat
    BY <1>1, SaneBelow, SaneParts
  <1>3. Append(s, val) \in Seq(Cells) /\ Len(Append(s, val)) = Sp(v) - n + 1
    BY <1>2, SequenceEnds
  <1>4. Fail("OutOfMemory") \/ (Sp(v) - n < StackCap /\ Continue([v EXCEPT !.stack = Append(s, val)]))
    BY <1>1 DEF Return
  <1>5. Sp(v) - n < StackCap => Len(Append(s, val)) =< StackCap
    BY <1>2, <1>3, CapsAssumption
  <1>6. QED
    BY <1>3, <1>4, <1>5, SaneMoves, TurnSane

(* A value or a frame is pushed. *)
LEMMA PushSane ==
  ASSUME SaneHeap(heap'), Sane(heap', vm), NEW v, Sane(heap', v)
  PROVE  /\ \A val \in Cells : PushValue(v, val) => SaneNext
         /\ \A op \in CallOps : \A word, arity :
              (op = "SET_WORD" => word \in Words) /\ PushOp(v, op, word, arity) => SaneNext
         /\ \A b \in Words, op \in ReturnOps : Jump(v, b, op) => SaneNext
  <1>1. 0 \in 0 .. Sp(v) /\ Sp(v) \in Nat
    BY SaneParts
  <1>2. ASSUME NEW val \in Cells, PushValue(v, val) PROVE SaneNext
    BY <1>1, <1>2, ReturnSane DEF PushValue
  <1>3. ASSUME NEW f, FrameSane(heap', f), Len(v.ops) < OpCap
        PROVE  FramesSane(heap', Append(v.ops, f)) /\ Len(Append(v.ops, f)) =< OpCap
    <2>1. FramesSane(heap', v.ops)
      BY SaneParts
    <2>2. /\ FramesSane(heap', Append(v.ops, f)) /\ Len(Append(v.ops, f)) = Len(v.ops) + 1
          /\ Len(v.ops) \in Nat
      BY <1>3, <2>1, FramesPushed
    <2>3. QED
      BY <1>3, <2>2, CapsAssumption
  <1>4. ASSUME NEW op \in CallOps, NEW word, NEW arity, op = "SET_WORD" => word \in Words,
               PushOp(v, op, word, arity)
        PROVE  SaneNext
    <2>1. PICK f, x : f = Frame(op, word, Sp(v), arity) /\ x = Append(v.ops, f)
      OBVIOUS
    <2>2. Fail("OutOfMemory") \/ (Len(v.ops) < OpCap /\ Continue([v EXCEPT !.ops = x]))
      BY <1>4, <2>1 DEF PushOp
    <2>3. FrameSane(heap', f)
      <3>1. f.op = op /\ f.word = word /\ f.bp = Sp(v)
        BY <2>1 DEF Frame
      <3>2. op \notin ReturnOps
        BY DEF CallOps, ReturnOps
      <3>3. QED
        BY <1>1, <1>4, <3>1, <3>2 DEF FrameSane
    <2>4. QED
      BY <1>3, <2>1, <2>2, <2>3, SaneMoves, TurnSane
  <1>5. ASSUME NEW b \in Words, NEW op \in ReturnOps, Jump(v, b, op) PROVE SaneNext
    <2>1. PICK f, o : f = Frame(op, v.block, Sp(v), LeaveMarker + v.ip) /\ o = Append(v.ops, f)
      OBVIOUS
    <2>2. \/ Fail("OutOfMemory")
          \/ Len(v.ops) < OpCap /\ Continue([v EXCEPT !.ops = o, !.block = b, !.ip = 0])
      BY <1>5, <2>1 DEF Jump
    <2>3. FrameSane(heap', f)
      <3>1. /\ f.op = op /\ f.word = v.block /\ f.bp = Sp(v) /\ f.arity = LeaveMarker + v.ip
        BY <2>1 DEF Frame
      <3>2. Spot(heap', v.block, v.ip) /\ Len(BlockIn(heap', v.block)) \in Nat
        BY SaneParts, SaneShape
      <3>3. v.ip \in Nat /\ LeaveMarker \in Nat
        BY <3>2, MarkerAssumption DEF Spot
      <3>4. f.arity - LeaveMarker = v.ip
        BY <3>1, <3>3
      <3>5. op # "SET_WORD"
        BY DEF ReturnOps
      <3>6. QED
        BY <1>1, <3>1, <3>2, <3>4, <3>5 DEF FrameSane
    <2>4. PICK w : w = [v EXCEPT !.ops = o]
      OBVIOUS
    <2>5. Len(v.ops) < OpCap => Sane(heap', w)
      <3>1. Len(v.ops) < OpCap => Sane(heap', [v EXCEPT !.ops = o])
        BY <1>3, <2>1, <2>3, SaneMoves
      <3>2. QED
        BY <2>4, <3>1, Zenon
    <2>6. Spot(heap', b, 0)
      <3>1. Len(BlockIn(heap', b)) \in Nat /\ b \in Nat
        BY SaneShape, WordModAssumption DEF Words
      <3>2. QED
        BY <3>1 DEF Spot
    <2>7. Len(v.ops) < OpCap => Sane(heap', [[w EXCEPT !.block = b] EXCEPT !.ip = 0])
      BY <2>5, <2>6, SaneMoves
    <2>8. [v EXCEPT !.ops = o, !.block = b, !.ip = 0] = [[w EXCEPT !.block = b] EXCEPT !.ip = 0]
      <3>1. [v EXCEPT !.ops = o, !.block = b, !.ip = 0]
              = [[[v EXCEPT !.ops = o] EXCEPT !.block = b] EXCEPT !.ip = 0]
        OBVIOUS
      <3>2. QED
        BY <2>4, <3>1, Zenon
    <2>9. PICK z : z = [[w EXCEPT !.block = b] EXCEPT !.ip = 0]
      OBVIOUS
    <2>10. \/ Fail("OutOfMemory")
           \/ Len(v.ops) < OpCap /\ Continue(z)
      BY <2>2, <2>8, <2>9, Zenon
    <2>11. Len(v.ops) < OpCap => Sane(heap', z)
      BY <2>7, <2>9, Zenon
    <2>12. QED
      BY <2>10, <2>11, TurnSane
  <1>6. QED
    BY <1>2, <1>4, <1>5

(* The Exec goes on where a frame returns to, with the same values. *)
LEMMA ResumeSane ==
  ASSUME NEW h, NEW v, Sane(h, v), NEW f, Spot(h, f.word, f.arity - LeaveMarker)
  PROVE  Sane(h, Resume(v, f)) /\ Resume(v, f).stack = v.stack
  <1>1. PICK a, i : a = f.word /\ i = f.arity - LeaveMarker
    OBVIOUS
  <1>2. Resume(v, f) = [[v EXCEPT !.block = a] EXCEPT !.ip = i]
    BY <1>1 DEF Resume
  <1>3. Sane(h, [[v EXCEPT !.block = a] EXCEPT !.ip = i])
    BY <1>1, SaneMoves
  <1>4. Sane(h, Resume(v, f))
    BY <1>2, <1>3, Zenon
  <1>5. Resume(v, f).stack = v.stack
    <2>1. PICK b, j, s, o, e : b = v.block /\ j = v.ip /\ s = v.stack /\ o = v.ops /\ e = v.env
      OBVIOUS
    <2>2. v = Machine(b, j, s, o, e)
      BY <2>1, SaneParts
    <2>3. PICK w : w = [v EXCEPT !.block = a]
      OBVIOUS
    <2>4. w = Machine(a, j, s, o, e)
      BY <2>2, <2>3, MachineParts
    <2>5. [w EXCEPT !.ip = i] = Machine(a, i, s, o, e)
      BY <2>4, MachineParts
    <2>6. Resume(v, f) = Machine(a, i, s, o, e)
      BY <1>2, <2>3, <2>5, Zenon
    <2>7. QED
      BY <2>1, <2>6, MachineParts
  <1>6. QED
    BY <1>4, <1>5

(* leave *)
LEMMA LeaveSane ==
  ASSUME SaneHeap(heap'), Sane(heap', vm),
         NEW v, Sane(heap', v), NEW f, FrameSane(heap', f), f.op \in ReturnOps, Leave(v, f)
  PROVE  SaneNext
  <1>1. PICK n, w, none, zero : /\ n = Sp(v) - f.bp /\ w = Resume(v, f) /\ none = <<NONE, 0>>
                                /\ zero = 0
    OBVIOUS
  <1>2. Sane(heap', w) /\ Sp(w) = Sp(v) /\ Sp(v) \in Nat /\ f.bp \in Nat
    BY <1>1, SaneParts, ResumeSane DEF Sp, FrameSane
  <1>3. \/ Fail("StackUnderflow")
        \/ Return(w, zero, none)
        \/ n > 0 /\ Return(w, n, Last(v.stack))
    <2>1. n < 0 \/ n = 0 \/ n > 0
      BY <1>1, <1>2
    <2>2. QED
      BY <1>1, <2>1 DEF Leave
  <1>4. ASSUME Return(w, zero, none) PROVE SaneNext
    <2>1. none \in Cells
      BY <1>1, Tags DEF NONE
    <2>2. zero \in 0 .. Sp(w)
      BY <1>1, <1>2
    <2>3. QED
      BY <1>2, <1>4, <2>1, <2>2, ReturnSane
  <1>5. ASSUME n > 0, Return(w, n, Last(v.stack)) PROVE SaneNext
    <2>1. n \in 0 .. Sp(w) /\ Sp(v) # 0
      BY <1>1, <1>2, <1>5
    <2>2. v.stack # << >>
      BY <2>1 DEF Sp
    <2>3. Last(v.stack) \in Cells
      BY <2>2, SaneParts
    <2>4. QED
      BY <1>2, <1>5, <2>1, <2>3, ReturnSane
  <1>6. QED
    BY <1>3, <1>4, <1>5, TurnSane

(* Such is the machine before a turn. *)
SaneNow == SaneHeap(heap) /\ Sane(heap, vm)

(* Two words of a cell. *)
LEMMA CellWords ==
  /\ \A val \in Cells : val[1] \in Words /\ val[2] \in Words
  /\ \A a, b \in Words : <<a, b>> \in Cells
  /\ \A b \in Words, tag \in 0 .. 11 : <<tag, b>> \in Cells
  /\ \A x : Bool(x) \in Cells
  /\ 0 \in Words /\ Words \subseteq Nat
  <1>1. /\ \A val \in Cells : val[1] \in Words /\ val[2] \in Words
        /\ \A a, b \in Words : <<a, b>> \in Cells
        /\ 0 .. 11 \subseteq Words
    BY Tags DEF Words
  <1>2. Words \subseteq Nat
    BY DEF Words
  <1>3. ASSUME NEW x PROVE Bool(x) \in Cells
    <2>1. \E d \in {0, 1} : Bool(x) = <<BOOL, d>>
      BY DEF Bool
    <2>2. BOOL \in 0 .. 11 /\ {0, 1} \subseteq 0 .. 11
      BY DEF BOOL
    <2>3. QED
      BY <1>1, <2>1, <2>2
  <1>4. 0 \in Words
    BY <1>1
  <1>5. ASSUME NEW b \in Words, NEW tag \in 0 .. 11 PROVE <<tag, b>> \in Cells
    BY <1>1, <1>5
  <1>6. QED
    BY <1>1, <1>2, <1>3, <1>4, <1>5

(* get_block::<2> reads words, from whatever word on. *)
LEMMA PairSane ==
  ASSUME SaneHeap(heap), NEW a, NEW offset \in Nat, HasPair(a, offset)
  PROVE  PairAt(a, offset) \in Cells
  <1>1. PICK block, n : block = BlockAt(a) /\ n = Len(block)
    OBVIOUS
  <1>2. block \in Seq(Cells) /\ n \in Nat /\ \A j \in 1 .. n : block[j] \in Cells
    BY <1>1, SameBlocks, SaneShape, SequenceEnds
  <1>3. offset + 2 =< 2 * n
    BY <1>1 DEF HasPair
  <1>4. ASSUME NEW k \in Nat, k < 2 * n PROVE WordOf(a, k) \in Words
    <2>1. PICK q, r : q = k \div 2 /\ r = k % 2
      OBVIOUS
    <2>2. q \in Nat /\ r \in {0, 1} /\ q + 1 \in 1 .. n
      BY <1>2, <1>4, <2>1
    <2>3. WordOf(a, k) = block[q + 1][r + 1]
      BY <1>1, <2>1 DEF WordOf
    <2>4. block[q + 1] \in Cells
      BY <1>2, <2>2
    <2>5. block[q + 1][1] \in Words /\ block[q + 1][2] \in Words
      BY <2>4, CellWords
    <2>6. r + 1 = 1 \/ r + 1 = 2
      BY <2>2
    <2>7. QED
      BY <2>3, <2>5, <2>6
  <1>5. WordOf(a, offset) \in Words
    <2>1. offset < 2 * n
      BY <1>2, <1>3
    <2>2. QED
      BY <1>4, <2>1
  <1>6. WordOf(a, offset + 1) \in Words
    <2>1. offset + 1 \in Nat /\ offset + 1 < 2 * n
      BY <1>2, <1>3
    <2>2. QED
      BY <1>4, <2>1
  <1>7. QED
    BY <1>5, <1>6, CellWords DEF PairAt

(* The arguments of a native, when it finds their tags. *)
LEMMA TaggedSane ==
  ASSUME NEW h, NEW v, Sane(h, v), NEW tags, Len(tags) \in Nat, ArgError(v, tags) = "none"
  PROVE  Len(tags) \in 0 .. Sp(v)
  <1>1. Sp(v) \in Nat
    BY SaneParts
  <1>2. ~(Sp(v) < Len(tags))
    BY DEF ArgError
  <1>3. QED
    BY <1>1, <1>2

(* i32 addition leaves a word. *)
LEMMA SumsAreWords ==
  ASSUME NEW a \in Words, NEW b \in Words, NEW sum \in SignedSums(a, b), sum # -1
  PROVE  sum \in Words
  <1>1. PICK x : x = Signed(a) + Signed(b)
    OBVIOUS
  <1>2. x \in Int /\ WordMod \in Nat /\ WordMod > 0
    BY <1>1, WordModAssumption DEF Signed, Words, PATH
  <1>3. sum = Wrap(x)
    BY <1>1 DEF SignedSums
  <1>4. x % WordMod \in 0 .. WordMod - 1
    BY <1>2
  <1>5. QED
    BY <1>3, <1>4 DEF Wrap, Words

(* u32 addition, too. *)
LEMMA NextOffsetIsWord ==
  ASSUME NEW a \in Words, NEW sum \in NextOffset(a), sum # -1
  PROVE  sum \in Words
  <1>1. PICK x : x = a + 2
    OBVIOUS
  <1>2. x \in Nat /\ WordMod \in Nat /\ WordMod > 0
    BY <1>1, WordModAssumption DEF Words, PATH
  <1>3. (sum = x /\ x < WordMod) \/ sum = x % WordMod
    BY <1>1 DEF NextOffset, Sums, Wrap
  <1>4. x % WordMod \in 0 .. WordMod - 1
    BY <1>2
  <1>5. QED
    BY <1>2, <1>3, <1>4 DEF Words

(* The natives that leave the memory as it is. *)
LEMMA PlainNativesSane ==
  ASSUME SaneNow, add \/ lt \/ func_do \/ either \/ reduce \/ is_block \/ print
  PROVE  SaneNext
  <1>1. heap' = heap /\ vm.ops # << >>
    BY DEF add, lt, func_do, either, reduce, is_block, print, Calls, Run
  <1>2. PICK v : v = PopFrame(vm)
    OBVIOUS
  <1>3. /\ SaneHeap(heap') /\ Sane(heap', vm) /\ Sane(heap', v) /\ Sp(v) \in Nat
        /\ (v.stack # << >> => 1 \in 0 .. Sp(v) /\ Last(v.stack) \in Cells)
    <2>1. SaneHeap(heap') /\ Sane(heap', vm) /\ Sane(heap', v)
      BY <1>1, <1>2, SanePopped DEF SaneNow
    <2>2. /\ Sp(v) \in Nat
          /\ (v.stack # << >> => Sp(v) >= 1 /\ Last(v.stack) \in Cells)
      BY <2>1, SaneParts
    <2>3. QED
      BY <2>1, <2>2
  <1>4. ASSUME NEW error, Fail(error) PROVE SaneNext
    BY <1>3, <1>4, TurnSane
  <1>5. ASSUME NEW tags, Len(tags) \in Nat, ArgError(v, tags) = "none"
        PROVE  Len(tags) \in 0 .. Sp(v) /\ \A j \in 1 .. Len(tags) : Arg(v, Len(tags), j) \in Cells
    BY <1>3, <1>5, TaggedSane, SaneBelow
  <1>6. ASSUME NEW n \in 0 .. Sp(v), NEW b \in Words, NEW op \in ReturnOps,
               Jump([v EXCEPT !.stack = Below(v, n)], b, op)
        PROVE  SaneNext
    <2>1. PICK w : w = [v EXCEPT !.stack = Below(v, n)]
      OBVIOUS
    <2>2. Sane(heap', w)
      <3>1. Sane(heap', [v EXCEPT !.stack = Below(v, n)])
        BY <1>3, SaneBelow
      <3>2. QED
        BY <2>1, <3>1, Zenon
    <2>3. Jump(w, b, op)
      BY <1>6, <2>1, Zenon
    <2>4. QED
      BY <1>3, <2>2, <2>3, PushSane
  <1>7. CASE add
    <2>1. PICK tags : tags = <<INT, INT>>
      OBVIOUS
    <2>2. \/ \E error : Fail(error)
          \/ /\ ArgError(v, tags) = "none"
             /\ \E sum \in SignedSums(Arg(v, 2, 1)[2], Arg(v, 2, 2)[2]) :
                  sum # -1 /\ Return(v, 2, <<INT, sum>>)
      BY <1>2, <1>7, <2>1 DEF add
    <2>3. Len(tags) = 2 /\ Len(tags) \in Nat
      BY <2>1
    <2>4. ASSUME ArgError(v, tags) = "none",
                 NEW sum \in SignedSums(Arg(v, 2, 1)[2], Arg(v, 2, 2)[2]), sum # -1,
                 Return(v, 2, <<INT, sum>>)
          PROVE  SaneNext
      <3>1. 2 \in 0 .. Sp(v) /\ \A j \in 1 .. 2 : Arg(v, 2, j) \in Cells
        BY <1>5, <2>3, <2>4
      <3>2. PICK a, b : a = Arg(v, 2, 1)[2] /\ b = Arg(v, 2, 2)[2]
        OBVIOUS
      <3>3. a \in Words /\ b \in Words
        BY <3>1, <3>2, CellWords
      <3>4. sum \in Words
        BY <2>4, <3>2, <3>3, SumsAreWords
      <3>5. <<INT, sum>> \in Cells
        <4>1. INT \in 0 .. 11
          BY DEF INT
        <4>2. QED
          BY <3>4, <4>1, CellWords
      <3>6. QED
        BY <1>3, <2>4, <3>1, <3>5, ReturnSane
    <2>5. QED
      BY <1>4, <2>2, <2>4
  <1>8. CASE lt
    <2>1. PICK tags : tags = <<INT, INT>>
      OBVIOUS
    <2>2. \/ \E error : Fail(error)
          \/ ArgError(v, tags) = "none" /\ \E x : Return(v, 2, Bool(x))
      BY <1>2, <1>8, <2>1 DEF lt
    <2>3. Len(tags) = 2 /\ Len(tags) \in Nat
      BY <2>1
    <2>4. ASSUME NEW x, Return(v, 2, Bool(x)), 2 \in 0 .. Sp(v) PROVE SaneNext
      BY <1>3, <2>4, CellWords, ReturnSane
    <2>5. QED
      BY <1>4, <1>5, <2>2, <2>3, <2>4
  <1>9. CASE func_do
    <2>1. PICK tags, b : tags = <<BLOCK>> /\ b = Arg(v, 1, 1)[2]
      OBVIOUS
    <2>2. \/ \E error : Fail(error)
          \/ ArgError(v, tags) = "none" /\ Jump([v EXCEPT !.stack = Below(v, 1)], b, "LEAVE_BLOCK")
      BY <1>2, <1>9, <2>1 DEF func_do
    <2>3. Len(tags) = 1 /\ Len(tags) \in Nat /\ "LEAVE_BLOCK" \in ReturnOps
      BY <2>1 DEF ReturnOps
    <2>4. ArgError(v, tags) = "none" => 1 \in 0 .. Sp(v) /\ b \in Words
      <3>1. ArgError(v, tags) = "none" => 1 \in 0 .. Sp(v) /\ \A j \in 1 .. 1 : Arg(v, 1, j) \in Cells
        BY <1>5, <2>3
      <3>2. QED
        BY <2>1, <3>1, CellWords
    <2>5. QED
      BY <1>4, <1>6, <2>2, <2>3, <2>4
  <1>10. CASE either
    <2>1. PICK tags, branch, b :
            /\ tags = <<BOOL, BLOCK, BLOCK>> /\ branch = (IF Arg(v, 3, 1)[2] # 0 THEN 2 ELSE 3)
            /\ b = Arg(v, 3, branch)[2]
      OBVIOUS
    <2>2. \/ \E error : Fail(error)
          \/ ArgError(v, tags) = "none" /\ Jump([v EXCEPT !.stack = Below(v, 3)], b, "LEAVE_BLOCK")
      BY <1>2, <1>10, <2>1 DEF either
    <2>3. Len(tags) = 3 /\ Len(tags) \in Nat /\ "LEAVE_BLOCK" \in ReturnOps
      BY <2>1 DEF ReturnOps
    <2>4. ArgError(v, tags) = "none" => 3 \in 0 .. Sp(v) /\ b \in Words
      <3>1. ArgError(v, tags) = "none" => 3 \in 0 .. Sp(v) /\ \A j \in 1 .. 3 : Arg(v, 3, j) \in Cells
        BY <1>5, <2>3
      <3>2. branch \in 1 .. 3
        BY <2>1
      <3>3. QED
        BY <2>1, <3>1, <3>2, CellWords
    <2>5. QED
      BY <1>4, <1>6, <2>2, <2>3, <2>4
  <1>11. CASE reduce
    <2>1. PICK b : b = Last(v.stack)[2]
      OBVIOUS
    <2>2. \/ Fail("StackUnderflow")
          \/ Continue(v)
          \/ v.stack # << >> /\ Jump([v EXCEPT !.stack = Below(v, 1)], b, "REDUCE")
      BY <1>2, <1>11, <2>1 DEF reduce
    <2>3. v.stack # << >> => b \in Words
      BY <1>3, <2>1, CellWords
    <2>4. "REDUCE" \in ReturnOps
      BY DEF ReturnOps
    <2>5. QED
      BY <1>3, <1>6, <2>2, <2>3, <2>4, TurnSane
  <1>12. CASE is_block
    <2>1. \/ Fail("StackUnderflow")
          \/ v.stack # << >> /\ \E x : Return(v, 1, Bool(x))
      BY <1>2, <1>12 DEF is_block
    <2>2. ASSUME NEW x, v.stack # << >>, Return(v, 1, Bool(x)) PROVE SaneNext
      BY <1>3, <2>2, CellWords, ReturnSane
    <2>3. QED
      BY <1>4, <2>1, <2>2
  <1>13. CASE print
    <2>1. \/ Fail("StackUnderflow") \/ Fail("UnknownTag")
          \/ v.stack # << >> /\ Continue([v EXCEPT !.stack = Front(v.stack)])
      BY <1>2, <1>13 DEF print
    <2>2. Front(v.stack) = Below(v, 1)
      BY DEF Front, Below, Sp
    <2>3. v.stack # << >> => Sane(heap', [v EXCEPT !.stack = Below(v, 1)])
      BY <1>3, SaneBelow
    <2>4. ASSUME v.stack # << >>, Continue([v EXCEPT !.stack = Front(v.stack)]) PROVE SaneNext
      <3>1. PICK w : w = [v EXCEPT !.stack = Front(v.stack)]
        OBVIOUS
      <3>2. Sane(heap', w) /\ Continue(w)
        BY <2>2, <2>3, <2>4, <3>1, Zenon
      <3>3. QED
        BY <1>3, <3>2, TurnSane
    <2>5. QED
      BY <1>4, <2>1, <2>4
  <1>14. QED
    BY <1>7, <1>8, <1>9, <1>10, <1>11, <1>12, <1>13

(* A heap in which some parts are replaced. *)
LEMMA SaneHeapMoves ==
  ASSUME NEW h, SaneHeap(h), NEW x, NEW y
  PROVE  /\ OtherBlocks(h, x, y) = Mem(x, h.ctxs, y)
         /\ OtherContexts(h, x, y) = Mem(h.blocks, x, y)
  <1>1. PICK b, c, u : b = h.blocks /\ c = h.ctxs /\ u = h.used
    OBVIOUS
  <1>2. h = Mem(b, c, u)
    BY <1>1, SaneShape
  <1>3. /\ [Mem(b, c, u) EXCEPT !.blocks = x] = Mem(x, c, u)
        /\ [Mem(b, c, u) EXCEPT !.ctxs = x] = Mem(b, x, u)
    BY DEF Mem
  <1>4. /\ [Mem(x, c, u) EXCEPT !.used = y] = Mem(x, c, y)
        /\ [Mem(b, x, u) EXCEPT !.used = y] = Mem(b, x, y)
    BY DEF Mem
  <1>5. QED
    BY <1>1, <1>2, <1>3, <1>4, Zenon DEF OtherBlocks, OtherContexts

(* alloc_block *)
LEMMA SaneBlockTaken ==
  ASSUME SaneHeap(heap), NEW vals \in Seq(Cells), BlockFits(vals), NEW h, h = WithBlock(heap, vals)
  PROVE  SaneHeap(h) /\ Extended(heap, h) /\ Len(h.blocks) \in Words
  <1>1. PICK words : words = BlockWords(vals)
    OBVIOUS
  <1>2. Len(vals) \in Nat
    BY LenProperties
  <1>3. words \in Nat /\ words > 2 * Len(vals)
    BY <1>1, <1>2 DEF BlockWords
  <1>4. heap.used + words =< HeapCap
    BY <1>1 DEF BlockFits, Fits
  <1>5. h = OtherBlocks(heap, Append(heap.blocks, vals), heap.used + words)
    BY <1>1 DEF WithBlock, OtherBlocks
  <1>6. h = Mem(Append(heap.blocks, vals), heap.ctxs, heap.used + words)
    BY <1>5, SaneHeapMoves
  <1>7. QED
    BY <1>3, <1>4, <1>6, SaneBlockAdded

(* alloc_context *)
LEMMA SaneContextTaken ==
  ASSUME SaneHeap(heap), NEW ctx, SaneContext(ctx), ContextFits(ctx.cap), NEW h, h = WithContext(heap, ctx)
  PROVE  /\ SaneHeap(h) /\ Extended(heap, h)
         /\ Len(h.ctxs) \in DOMAIN h.ctxs /\ Len(h.ctxs) = Len(heap.ctxs) + 1
  <1>1. PICK words : words = ContextWords(ctx.cap)
    OBVIOUS
  <1>2. heap.used + words =< HeapCap
    BY <1>1 DEF ContextFits, Fits
  <1>3. h = OtherContexts(heap, Append(heap.ctxs, ctx), heap.used + words)
    BY <1>1 DEF WithContext, OtherContexts
  <1>4. h = Mem(heap.blocks, Append(heap.ctxs, ctx), heap.used + words)
    BY <1>3, SaneHeapMoves
  <1>5. QED
    BY <1>1, <1>2, <1>4, SaneContextAdded

(* A context with nothing in it. *)
LEMMA EmptySane ==
  ASSUME NEW size \in Nat
  PROVE  SaneContext(EmptyContext(size)) /\ EmptyContext(size).cap = size
  <1>1. PICK ctx, none : ctx = EmptyContext(size) /\ none = << >>
    OBVIOUS
  <1>2. ctx = [cap |-> size, sealed |-> FALSE, entries |-> none]
    BY <1>1 DEF EmptyContext
  <1>3. DOMAIN none = {} /\ none = [sym \in DOMAIN none |-> none[sym]]
    BY <1>1
  <1>4. ctx.cap = size /\ ctx.entries = none /\ ctx.sealed = FALSE
    BY <1>2
  <1>5. SaneContext(ctx)
    BY <1>2, <1>3, <1>4 DEF SaneContext
  <1>6. QED
    BY <1>1, <1>4, <1>5

(* A context more on env. *)
LEMMA SaneEntered ==
  ASSUME NEW h, NEW v, Sane(h, v), NEW c \in DOMAIN h.ctxs, Len(v.env) # EnvCap
  PROVE  Append(v.env, c) \in Seq(DOMAIN h.ctxs) /\ Len(Append(v.env, c)) =< EnvCap
  <1>1. v.env \in Seq(DOMAIN h.ctxs) /\ Len(v.env) \in Nat /\ Len(v.env) =< EnvCap
    BY SaneParts
  <1>2. PICK e, S : e = v.env /\ S = DOMAIN h.ctxs
    OBVIOUS
  <1>3. Append(e, c) \in Seq(S) /\ Len(Append(e, c)) = Len(e) + 1
    <2>1. e \in Seq(S) /\ c \in S
      BY <1>1, <1>2
    <2>2. QED
      BY <2>1, SequenceEnds
  <1>4. QED
    BY <1>1, <1>2, <1>3, CapsAssumption

(* Or one less. *)
LEMMA SaneLeft ==
  ASSUME NEW h, NEW v, Sane(h, v), v.env # << >>
  PROVE  /\ Front(v.env) \in Seq(DOMAIN h.ctxs) /\ Len(Front(v.env)) =< EnvCap
         /\ Last(v.env) \in DOMAIN h.ctxs
  <1>1. v.env \in Seq(DOMAIN h.ctxs) /\ Len(v.env) \in Nat /\ Len(v.env) =< EnvCap
    BY SaneParts
  <1>2. /\ Front(v.env) \in Seq(DOMAIN h.ctxs) /\ Len(Front(v.env)) = Len(v.env) - 1
        /\ Last(v.env) \in DOMAIN h.ctxs
    BY <1>1, SequenceEnds
  <1>3. QED
    BY <1>1, <1>2, CapsAssumption

(* Other values, other contexts and other frames at once. *)
LEMMA SaneTogether ==
  ASSUME NEW h, NEW v, Sane(h, v), NEW x \in Seq(Cells), Len(x) =< StackCap,
         NEW y \in Seq(DOMAIN h.ctxs), Len(y) =< EnvCap
  PROVE  /\ Sane(h, [v EXCEPT !.stack = x, !.env = y])
         /\ Sane(h, [v EXCEPT !.env = y, !.stack = x])
         /\ \A z : FramesSane(h, z) /\ Len(z) =< OpCap =>
              Sane(h, [v EXCEPT !.stack = x, !.env = y, !.ops = z])
  <1>1. PICK v1, v2, v3, v4 : /\ v1 = [v EXCEPT !.stack = x] /\ v2 = [v1 EXCEPT !.env = y]
                              /\ v3 = [v EXCEPT !.env = y] /\ v4 = [v3 EXCEPT !.stack = x]
    OBVIOUS
  <1>2. Sane(h, v1) /\ Sane(h, v3)
    <2>1. Sane(h, [v EXCEPT !.stack = x]) /\ Sane(h, [v EXCEPT !.env = y])
      BY SaneMoves
    <2>2. QED
      BY <1>1, <2>1, Zenon
  <1>3. Sane(h, v2) /\ Sane(h, v4)
    <2>1. Sane(h, [v1 EXCEPT !.env = y]) /\ Sane(h, [v3 EXCEPT !.stack = x])
      BY <1>2, SaneMoves
    <2>2. QED
      BY <1>1, <2>1, Zenon
  <1>4. /\ [v EXCEPT !.stack = x, !.env = y] = [[v EXCEPT !.stack = x] EXCEPT !.env = y]
        /\ [v EXCEPT !.env = y, !.stack = x] = [[v EXCEPT !.env = y] EXCEPT !.stack = x]
    OBVIOUS
  <1>5. /\ Sane(h, [v EXCEPT !.stack = x, !.env = y])
        /\ Sane(h, [v EXCEPT !.env = y, !.stack = x])
    BY <1>1, <1>3, <1>4, Zenon
  <1>6. ASSUME NEW z, FramesSane(h, z), Len(z) =< OpCap
        PROVE  Sane(h, [v EXCEPT !.stack = x, !.env = y, !.ops = z])
    <2>1. Sane(h, [v2 EXCEPT !.ops = z])
      BY <1>3, <1>6, SaneMoves
    <2>2. [v EXCEPT !.stack = x, !.env = y, !.ops = z]
            = [[[v EXCEPT !.stack = x] EXCEPT !.env = y] EXCEPT !.ops = z]
      OBVIOUS
    <2>3. QED
      BY <1>1, <2>1, <2>2, Zenon
  <1>7. QED
    BY <1>5, <1>6

(* The natives that make a block. *)
LEMMA BlockNativesSane ==
  ASSUME SaneNow, func \/ form
  PROVE  SaneNext
  <1>1. vm.ops # << >>
    BY DEF func, form, Calls, Run
  <1>2. PICK v, h : v = PopFrame(vm) /\ h = heap'
    OBVIOUS
  <1>3. /\ SaneHeap(heap) /\ Sane(heap, vm) /\ Sane(heap, v) /\ Sp(v) \in Nat
        /\ (v.stack # << >> => 1 \in 0 .. Sp(v))
    <2>1. SaneHeap(heap) /\ Sane(heap, vm) /\ Sane(heap, v)
      BY <1>1, <1>2, SanePopped DEF SaneNow
    <2>2. Sp(v) \in Nat /\ (v.stack # << >> => Sp(v) >= 1)
      BY <2>1, SaneParts
    <2>3. QED
      BY <2>1, <2>2
  <1>4. ASSUME h = heap, NEW error, Fail(error) PROVE SaneNext
    BY <1>2, <1>3, <1>4, TurnSane
  <1>5. ASSUME SaneHeap(h), Extended(heap, h), NEW n \in 0 .. Sp(v), NEW val \in Cells, Return(v, n, val)
        PROVE  SaneNext
    <2>1. Sane(h, vm) /\ Sane(h, v)
      BY <1>3, <1>5, SaneGrows
    <2>2. QED
      BY <1>2, <1>5, <2>1, ReturnSane
  <1>6. CASE func
    <2>1. PICK tags, a, b, desc :
            /\ tags = <<BLOCK, BLOCK>> /\ a = Arg(v, 2, 1)[2] /\ b = Arg(v, 2, 2)
            /\ desc = <<<<INT, 2 * Len(BlockAt(a))>>, <<BLOCK, a>>, b>>
      OBVIOUS
    <2>2. \/ h = heap /\ \E error : Fail(error)
          \/ /\ ArgError(v, tags) = "none" /\ BlockFits(desc)
             /\ h = WithBlock(heap, desc)
             /\ Return(v, 2, <<FUNC, Len(h.blocks)>>)
      BY <1>2, <1>6, <2>1 DEF func
    <2>3. Len(tags) = 2 /\ Len(tags) \in Nat
      BY <2>1
    <2>4. ASSUME ArgError(v, tags) = "none", BlockFits(desc), h = WithBlock(heap, desc),
                 Return(v, 2, <<FUNC, Len(h.blocks)>>)
          PROVE  SaneNext
      <3>1. 2 \in 0 .. Sp(v)
        BY <1>3, <2>3, <2>4, TaggedSane
      <3>2. \A j \in 1 .. 2 : Arg(v, 2, j) \in Cells
        BY <1>3, <3>1, SaneBelow
      <3>3. a \in Words /\ b \in Cells
        <4>1. Arg(v, 2, 1) \in Cells /\ Arg(v, 2, 2) \in Cells
          BY <3>2
        <4>2. QED
          BY <2>1, <4>1, CellWords
      <3>4. desc \in Seq(Cells)
        <4>1. PICK p, q : p = <<INT, 2 * Len(BlockAt(a))>> /\ q = <<BLOCK, a>>
          OBVIOUS
        <4>2. 2 * Len(BlockAt(a)) \in Words
          <5>1. /\ Len(BlockIn(heap, a)) \in Nat /\ 2 * Len(BlockIn(heap, a)) < WordMod
            BY <1>3, SaneShape
          <5>2. QED
            BY <5>1, SameBlocks, WordModAssumption DEF Words
        <4>3. INT \in 0 .. 11 /\ BLOCK \in 0 .. 11
          BY DEF INT, BLOCK
        <4>4. p \in Cells /\ q \in Cells
          BY <3>3, <4>1, <4>2, <4>3, CellWords
        <4>5. desc = <<p, q, b>>
          BY <2>1, <4>1
        <4>6. QED
          BY <3>3, <4>4, <4>5
      <3>5. SaneHeap(h) /\ Extended(heap, h) /\ Len(h.blocks) \in Words
        BY <1>3, <2>4, <3>4, SaneBlockTaken
      <3>6. <<FUNC, Len(h.blocks)>> \in Cells
        <4>1. FUNC \in 0 .. 11
          BY DEF FUNC
        <4>2. QED
          BY <3>5, <4>1, CellWords
      <3>7. QED
        BY <1>5, <2>4, <3>1, <3>5, <3>6
    <2>5. QED
      BY <1>4, <2>2, <2>4
  <1>7. CASE form
    <2>1. \/ h = heap /\ \E error : Fail(error)
          \/ /\ v.stack # << >>
             /\ \E size \in FormSizes :
                  /\ ~(heap.used + size + 1 > HeapCap)
                  /\ h = OtherBlocks(heap, Append(heap.blocks, << >>), heap.used + size + 1)
                  /\ Return(v, 1, <<INLINE_STRING, Len(h.blocks)>>)
      BY <1>2, <1>7 DEF form, OtherBlocks
    <2>2. ASSUME v.stack # << >>, NEW size \in FormSizes, ~(heap.used + size + 1 > HeapCap),
                 h = OtherBlocks(heap, Append(heap.blocks, << >>), heap.used + size + 1),
                 Return(v, 1, <<INLINE_STRING, Len(h.blocks)>>)
          PROVE  SaneNext
      <3>1. PICK block, words : block = << >> /\ words = size + 1
        OBVIOUS
      <3>2. block \in Seq(Cells) /\ Len(block) = 0
        BY <3>1
      <3>3. size \in Nat
        BY CapsAssumption
      <3>4. /\ words \in Nat /\ words > 2 * Len(block) /\ heap.used + words =< HeapCap
            /\ heap.used + size + 1 = heap.used + words
        <4>1. heap.used \in Nat /\ HeapCap \in Nat
          BY <1>3, SaneShape, HeapAssumption
        <4>2. QED
          BY <2>2, <3>1, <3>2, <3>3, <4>1
      <3>5. h = Mem(Append(heap.blocks, block), heap.ctxs, heap.used + words)
        <4>1. h = OtherBlocks(heap, Append(heap.blocks, block), heap.used + words)
          BY <2>2, <3>1, <3>4
        <4>2. QED
          BY <1>3, <4>1, SaneHeapMoves
      <3>6. SaneHeap(h) /\ Extended(heap, h) /\ Len(h.blocks) \in Words
        BY <1>3, <3>2, <3>4, <3>5, SaneBlockAdded
      <3>7. <<INLINE_STRING, Len(h.blocks)>> \in Cells
        <4>1. INLINE_STRING \in 0 .. 11
          BY DEF INLINE_STRING
        <4>2. QED
          BY <3>6, <4>1, CellWords
      <3>8. QED
        BY <1>3, <1>5, <2>2, <3>6, <3>7
    <2>3. QED
      BY <1>4, <2>1, <2>2
  <1>8. QED
    BY <1>6, <1>7

(* A context keeps its size when it takes a value or is sealed. *)
LEMMA SaneSealed ==
  ASSUME NEW ctx, SaneContext(ctx)
  PROVE  /\ SaneContext(Seal(ctx)) /\ Seal(ctx).cap = ctx.cap
         /\ \A sym, val : Put(ctx, sym, val).cap = ctx.cap
  <1>1. PICK k, f, e, g : k = ctx.cap /\ f = ctx.sealed /\ e = ctx.entries /\ g = TRUE
    OBVIOUS
  <1>2. ctx = [cap |-> k, sealed |-> f, entries |-> e]
    BY <1>1 DEF SaneContext
  <1>3. [[cap |-> k, sealed |-> f, entries |-> e] EXCEPT !.sealed = g]
          = [cap |-> k, sealed |-> g, entries |-> e]
    OBVIOUS
  <1>4. PICK c : c = [cap |-> k, sealed |-> g, entries |-> e]
    OBVIOUS
  <1>5. Seal(ctx) = c
    BY <1>1, <1>2, <1>3, <1>4, Zenon DEF Seal
  <1>6. c.cap = k /\ c.sealed = g /\ c.entries = e
    BY <1>4
  <1>7. SaneContext(c)
    <2>1. c = [cap |-> c.cap, sealed |-> c.sealed, entries |-> c.entries]
      BY <1>4, <1>6
    <2>2. c.cap = ctx.cap /\ c.entries = ctx.entries
      BY <1>1, <1>6
    <2>3. /\ ctx.cap \in Nat
          /\ ctx.entries = [sym \in DOMAIN ctx.entries |-> ctx.entries[sym]]
          /\ DOMAIN ctx.entries \subseteq Words
          /\ \A sym \in DOMAIN ctx.entries : ctx.entries[sym] \in Cells
      BY DEF SaneContext
    <2>4. QED
      BY <2>1, <2>2, <2>3 DEF SaneContext
  <1>8. ASSUME NEW sym, NEW val PROVE Put(ctx, sym, val).cap = ctx.cap
    <2>1. PICK w, m : w = Put(ctx, sym, val) /\ m = WithEntry(ctx.entries, sym, val)
      OBVIOUS
    <2>2. w = ctx \/ w = [ctx EXCEPT !.entries = m]
      BY <2>1 DEF Put
    <2>3. [[cap |-> k, sealed |-> f, entries |-> e] EXCEPT !.entries = m]
            = [cap |-> k, sealed |-> f, entries |-> m]
      OBVIOUS
    <2>4. w = ctx \/ w = [cap |-> k, sealed |-> f, entries |-> m]
      BY <1>2, <2>2, <2>3, Zenon
    <2>5. w.cap = k
      BY <1>1, <2>4
    <2>6. QED
      BY <1>1, <2>1, <2>5
  <1>9. QED
    BY <1>1, <1>5, <1>6, <1>7, <1>8

(* context *)
LEMMA ContextSane ==
  ASSUME SaneNow, context
  PROVE  SaneNext
  <1>1. vm.ops # << >>
    BY DEF context, Calls, Run
  <1>2. PICK v, h, tags, ctx, c, f, x, y, z, a :
          /\ v = PopFrame(vm) /\ h = heap' /\ tags = <<BLOCK>>
          /\ ctx = EmptyContext(ContextSize) /\ c = Len(heap.ctxs) + 1
          /\ f = Frame("CONTEXT", 0, Sp(v) - 1, 1)
          /\ x = Below(v, 1) /\ y = Append(v.env, c) /\ z = Append(v.ops, f)
          /\ a = Arg(v, 1, 1)[2]
    OBVIOUS
  <1>3. SaneHeap(heap) /\ Sane(heap, vm) /\ Sane(heap, v) /\ Sp(v) \in Nat
    <2>1. SaneHeap(heap) /\ Sane(heap, vm) /\ Sane(heap, v)
      BY <1>1, <1>2, SanePopped DEF SaneNow
    <2>2. QED
      BY <2>1, SaneParts
  <1>4. \/ h = heap /\ \E error : Fail(error)
        \/ /\ ArgError(v, tags) = "none" /\ ContextFits(ContextSize) /\ h = WithContext(heap, ctx)
           /\ \/ Fail("OutOfMemory")
              \/ /\ Len(v.env) # EnvCap /\ Len(v.ops) # OpCap
                 /\ Jump([v EXCEPT !.stack = x, !.env = y, !.ops = z], a, "LEAVE_BLOCK")
    BY <1>2 DEF context
  <1>5. ASSUME h = heap, NEW error, Fail(error) PROVE SaneNext
    BY <1>2, <1>3, <1>5, TurnSane
  <1>6. ASSUME ContextFits(ContextSize), h = WithContext(heap, ctx)
        PROVE  /\ SaneHeap(h) /\ Sane(h, vm) /\ Sane(h, v) /\ c \in DOMAIN h.ctxs
    <2>1. SaneContext(ctx) /\ ctx.cap = ContextSize
      BY <1>2, EmptySane, CapsAssumption
    <2>2. /\ SaneHeap(h) /\ Extended(heap, h)
          /\ Len(h.ctxs) \in DOMAIN h.ctxs /\ Len(h.ctxs) = Len(heap.ctxs) + 1
      BY <1>3, <1>6, <2>1, SaneContextTaken
    <2>3. QED
      BY <1>2, <1>3, <2>2, SaneGrows
  <1>7. ASSUME ContextFits(ContextSize), h = WithContext(heap, ctx), NEW error, Fail(error)
        PROVE  SaneNext
    BY <1>2, <1>6, <1>7, TurnSane
  <1>8. ASSUME ArgError(v, tags) = "none", ContextFits(ContextSize), h = WithContext(heap, ctx),
               Len(v.env) # EnvCap, Len(v.ops) # OpCap,
               Jump([v EXCEPT !.stack = x, !.env = y, !.ops = z], a, "LEAVE_BLOCK")
        PROVE  SaneNext
    <2>1. 1 \in 0 .. Sp(v)
      <3>1. Len(tags) = 1 /\ Len(tags) \in Nat
        BY <1>2
      <3>2. QED
        BY <1>3, <1>8, <3>1, TaggedSane
    <2>2. x \in Seq(Cells) /\ Len(x) = Sp(v) - 1 /\ a \in Words
      <3>1. /\ Below(v, 1) \in Seq(Cells) /\ Len(Below(v, 1)) = Sp(v) - 1
            /\ \A j \in 1 .. 1 : Arg(v, 1, j) \in Cells
        BY <1>3, <2>1, SaneBelow
      <3>2. Arg(v, 1, 1) \in Cells
        BY <3>1
      <3>3. QED
        BY <1>2, <3>1, <3>2, CellWords
    <2>3. Len(x) =< StackCap
      <3>1. Len(v.stack) =< StackCap /\ Sp(v) = Len(v.stack)
        BY <1>3, SaneParts
      <3>2. QED
        BY <1>3, <2>2, <3>1, CapsAssumption
    <2>4. SaneHeap(h) /\ Sane(h, vm) /\ Sane(h, v) /\ c \in DOMAIN h.ctxs
      BY <1>6, <1>8
    <2>5. y \in Seq(DOMAIN h.ctxs) /\ Len(y) =< EnvCap
      BY <1>2, <1>8, <2>4, SaneEntered
    <2>6. FrameSane(h, f)
      <3>1. f.op = "CONTEXT" /\ f.bp = Sp(v) - 1
        BY <1>2 DEF Frame
      <3>2. Sp(v) - 1 \in Nat
        BY <1>3, <2>1
      <3>3. QED
        BY <3>1, <3>2 DEF FrameSane, CallOps, ReturnOps
    <2>7. FramesSane(h, z) /\ Len(z) =< OpCap
      <3>1. FramesSane(h, v.ops) /\ Len(v.ops) =< OpCap
        BY <2>4, SaneParts
      <3>2. FramesSane(h, z) /\ Len(z) = Len(v.ops) + 1 /\ Len(v.ops) \in Nat
        BY <1>2, <2>6, <3>1, FramesPushed
      <3>3. QED
        BY <1>8, <3>1, <3>2, CapsAssumption
    <2>8. PICK w : w = [v EXCEPT !.stack = x, !.env = y, !.ops = z]
      OBVIOUS
    <2>9. Sane(h, w)
      <3>1. Sane(h, [v EXCEPT !.stack = x, !.env = y, !.ops = z])
        BY <2>2, <2>3, <2>4, <2>5, <2>7, SaneTogether
      <3>2. QED
        BY <2>8, <3>1, Zenon
    <2>10. Jump(w, a, "LEAVE_BLOCK") /\ "LEAVE_BLOCK" \in ReturnOps
      BY <1>8, <2>8, Zenon DEF ReturnOps
    <2>11. QED
      BY <1>2, <2>2, <2>4, <2>9, <2>10, PushSane
  <1>9. QED
    BY <1>4, <1>5, <1>7, <1>8

(* foreach *)
LEMMA ForeachSane ==
  ASSUME SaneNow, foreach
  PROVE  SaneNext
  <1>1. vm.ops # << >>
    BY DEF foreach, Calls, Run
  <1>2. PICK v, h, tags, zero, one, word, data, body, pair, ctx :
          /\ v = PopFrame(vm) /\ h = heap' /\ tags = <<WORD, BLOCK, BLOCK>> /\ zero = 0 /\ one = 1
          /\ word = Arg(v, 3, 1)[2] /\ data = Arg(v, 3, 2)[2] /\ body = Arg(v, 3, 3)[2]
          /\ pair = PairAt(data, zero) /\ ctx = Seal(Put(EmptyContext(one), word, pair))
    OBVIOUS
  <1>3. PICK c, y, x : /\ c = Len(WithContext(heap, ctx).ctxs) /\ y = Append(v.env, c)
                       /\ x = Append(v.stack, <<INT, zero>>)
    OBVIOUS
  <1>4. SaneHeap(heap) /\ Sane(heap, vm) /\ Sane(heap, v) /\ Sp(v) \in Nat
    <2>1. SaneHeap(heap) /\ Sane(heap, vm) /\ Sane(heap, v)
      BY <1>1, <1>2, SanePopped DEF SaneNow
    <2>2. QED
      BY <2>1, SaneParts
  <1>5. \/ h = heap /\ \E error : Fail(error)
        \/ h = heap /\ ArgError(v, tags) = "none" /\ Continue([v EXCEPT !.stack = Below(v, 3)])
        \/ /\ ArgError(v, tags) = "none" /\ HasPair(data, zero) /\ ContextFits(one)
           /\ h = WithContext(heap, ctx)
           /\ \/ Fail("OutOfMemory")
              \/ /\ Len(v.env) # EnvCap /\ Sp(v) # StackCap
                 /\ Jump([v EXCEPT !.env = y, !.stack = x], body, "FOREACH")
    BY <1>2, <1>3 DEF foreach, WithOffset
  <1>6. ASSUME h = heap, NEW error, Fail(error) PROVE SaneNext
    BY <1>2, <1>4, <1>6, TurnSane
  <1>7. ArgError(v, tags) = "none" => 3 \in 0 .. Sp(v) /\ word \in Words /\ body \in Words
    <2> SUFFICES ASSUME ArgError(v, tags) = "none" PROVE 3 \in 0 .. Sp(v) /\ word \in Words /\ body \in Words
      OBVIOUS
    <2>1. Len(tags) = 3 /\ Len(tags) \in Nat
      BY <1>2
    <2>2. 3 \in 0 .. Sp(v)
      BY <1>4, <2>1, TaggedSane
    <2>3. \A j \in 1 .. 3 : Arg(v, 3, j) \in Cells
      BY <1>4, <2>2, SaneBelow
    <2>4. Arg(v, 3, 1) \in Cells /\ Arg(v, 3, 3) \in Cells
      BY <2>3
    <2>5. QED
      BY <1>2, <2>2, <2>4, CellWords
  <1>8. ASSUME h = heap, ArgError(v, tags) = "none", Continue([v EXCEPT !.stack = Below(v, 3)])
        PROVE  SaneNext
    <2>1. PICK w : w = [v EXCEPT !.stack = Below(v, 3)]
      OBVIOUS
    <2>2. Sane(heap, [v EXCEPT !.stack = Below(v, 3)])
      BY <1>4, <1>7, <1>8, SaneBelow
    <2>3. Sane(heap, w) /\ Continue(w)
      BY <1>8, <2>1, <2>2, Zenon
    <2>4. QED
      BY <1>2, <1>4, <1>8, <2>3, TurnSane
  <1>9. ASSUME ArgError(v, tags) = "none", HasPair(data, zero), ContextFits(one),
               h = WithContext(heap, ctx)
        PROVE  /\ SaneHeap(h) /\ Sane(h, vm) /\ Sane(h, v) /\ c \in DOMAIN h.ctxs
    <2>1. pair \in Cells
      <3>1. zero \in Nat
        BY <1>2
      <3>2. QED
        BY <1>2, <1>4, <1>9, <3>1, PairSane
    <2>2. PICK none, full : none = EmptyContext(one) /\ full = Put(none, word, pair)
      OBVIOUS
    <2>3. SaneContext(none) /\ none.cap = one
      <3>1. one \in Nat
        BY <1>2
      <3>2. QED
        BY <2>2, <3>1, EmptySane
    <2>4. SaneContext(full) /\ full.cap = one
      BY <1>7, <1>9, <2>1, <2>2, <2>3, PutSane, SaneSealed
    <2>5. SaneContext(ctx) /\ ctx.cap = one
      BY <1>2, <2>2, <2>4, SaneSealed
    <2>6. /\ SaneHeap(h) /\ Extended(heap, h) /\ Len(h.ctxs) \in DOMAIN h.ctxs
      BY <1>4, <1>9, <2>5, SaneContextTaken
    <2>7. QED
      BY <1>3, <1>4, <1>9, <2>6, SaneGrows
  <1>10. ASSUME ArgError(v, tags) = "none", HasPair(data, zero), ContextFits(one),
                h = WithContext(heap, ctx), NEW error, Fail(error)
         PROVE  SaneNext
    BY <1>2, <1>9, <1>10, TurnSane
  <1>11. ASSUME ArgError(v, tags) = "none", HasPair(data, zero), ContextFits(one),
                h = WithContext(heap, ctx), Len(v.env) # EnvCap, Sp(v) # StackCap,
                Jump([v EXCEPT !.env = y, !.stack = x], body, "FOREACH")
         PROVE  SaneNext
    <2>1. SaneHeap(h) /\ Sane(h, vm) /\ Sane(h, v) /\ c \in DOMAIN h.ctxs
      BY <1>9, <1>11
    <2>2. x \in Seq(Cells) /\ Len(x) =< StackCap
      <3>1. v.stack \in Seq(Cells) /\ Len(v.stack) =< StackCap /\ Sp(v) = Len(v.stack)
        BY <1>4, SaneParts
      <3>2. <<INT, zero>> \in Cells
        <4>1. INT \in 0 .. 11 /\ zero \in Words
          BY <1>2, CellWords DEF INT
        <4>2. QED
          BY <4>1, CellWords
      <3>3. x \in Seq(Cells) /\ Len(x) = Len(v.stack) + 1
        BY <1>3, <3>1, <3>2, SequenceEnds
      <3>4. QED
        BY <1>4, <1>11, <3>1, <3>3, CapsAssumption
    <2>3. y \in Seq(DOMAIN h.ctxs) /\ Len(y) =< EnvCap
      BY <1>3, <1>11, <2>1, SaneEntered
    <2>4. PICK w : w = [v EXCEPT !.env = y, !.stack = x]
      OBVIOUS
    <2>5. Sane(h, w)
      <3>1. Sane(h, [v EXCEPT !.env = y, !.stack = x])
        BY <2>1, <2>2, <2>3, SaneTogether
      <3>2. QED
        BY <2>4, <3>1, Zenon
    <2>6. Jump(w, body, "FOREACH") /\ "FOREACH" \in ReturnOps
      BY <1>11, <2>4, Zenon DEF ReturnOps
    <2>7. QED
      BY <1>2, <1>7, <1>11, <2>1, <2>5, <2>6, PushSane
  <1>12. QED
    BY <1>5, <1>6, <1>8, <1>10, <1>11

(* SET_WORD *)
LEMMA SetWordSane ==
  ASSUME SaneNow, SetWord
  PROVE  SaneNext
  <1>1. vm.ops # << >> /\ Top.op = "SET_WORD"
    BY DEF SetWord, Run
  <1>2. PICK v, h, sym, s, e, takers, c, val :
          /\ h = heap' /\ v = PopFrame(vm) /\ sym = Top.word /\ s = v.stack /\ e = v.env
          /\ takers = {j \in DOMAIN e : PutResult(heap.ctxs[e[j]], sym) # "WordNotFound"}
          /\ c = e[Max(takers)] /\ val = Last(s)
    OBVIOUS
  <1>3. SaneHeap(heap) /\ Sane(heap, vm) /\ Sane(heap, v) /\ FrameSane(heap, Top)
    BY <1>1, <1>2, SanePopped DEF SaneNow
  <1>4. \/ h = heap /\ \E error : Fail(error)
        \/ /\ s # << >> /\ takers # {}
           /\ h = [heap EXCEPT !.ctxs[c] = Put(@, sym, val)]
           /\ Continue(v)
    BY <1>2 DEF SetWord
  <1>5. ASSUME h = heap, NEW error, Fail(error) PROVE SaneNext
    BY <1>2, <1>3, <1>5, TurnSane
  <1>6. ASSUME s # << >>, takers # {}, h = [heap EXCEPT !.ctxs[c] = Put(@, sym, val)], Continue(v)
        PROVE  SaneNext
    <2>1. e \in Seq(DOMAIN heap.ctxs) /\ val \in Cells
      BY <1>2, <1>3, <1>6, SaneParts
    <2>2. PICK S : S = DOMAIN heap.ctxs
      OBVIOUS
    <2>3. Len(e) \in Nat /\ DOMAIN e = 1 .. Len(e) /\ \A j \in 1 .. Len(e) : e[j] \in S
      BY <2>1, <2>2, SequenceEnds
    <2>4. Max(takers) \in takers
      <3>1. takers \in SUBSET (1 .. Len(e))
        BY <1>2, <2>3
      <3>2. QED
        BY <1>6, <2>3, <3>1, MaxMember
    <2>5. c \in DOMAIN heap.ctxs
      BY <1>2, <2>2, <2>3, <2>4
    <2>6. sym \in Words
      BY <1>1, <1>2, <1>3 DEF FrameSane
    <2>7. SaneHeap(h) /\ Extended(heap, h)
      BY <1>3, <1>6, <2>1, <2>5, <2>6, SaneContextChanged
    <2>8. Sane(h, vm) /\ Sane(h, v)
      BY <1>3, <2>7, SaneGrows
    <2>9. QED
      BY <1>2, <1>6, <2>7, <2>8, TurnSane
  <1>7. QED
    BY <1>4, <1>5, <1>6

(* A call: its context has the arguments, if there are enough. *)
LEMMA CallFunctionSane ==
  ASSUME SaneNow, NEW v, Sane(heap, v), NEW desc, CallFunction(v, desc)
  PROVE  SaneNext
  <1>1. SaneHeap(heap) /\ Sane(heap, vm) /\ Sp(v) \in Nat
    BY SaneParts DEF SaneNow
  <1>2. PICK h, params, m, body, size, args, none, ctx :
          /\ h = heap' /\ params = BlockAt(BlockAt(desc)[2][2]) /\ m = Len(params)
          /\ body = BlockAt(desc)[3][2] /\ size = 2 * m
          /\ args = Arguments(v, params)
          /\ none = EmptyContext(size) /\ ctx = [none EXCEPT !.entries = args]
    OBVIOUS
  <1>3. PICK c, x, y, wrong : /\ c = Len(WithContext(heap, ctx).ctxs)
                              /\ x = Below(v, m) /\ y = Append(v.env, c)
                              /\ wrong = {j \in 1 .. m : params[j][1] # WORD}
    OBVIOUS
  <1>4. params \in Seq(Cells) /\ m \in Nat /\ DOMAIN params = 1 .. m /\ \A j \in 1 .. m : params[j] \in Cells
    BY <1>1, <1>2, SameBlocks, SaneShape, SequenceEnds
  <1>5. \/ h = heap /\ \E error : Fail(error)
        \/ ContextFits(size) /\ h = WithContext(heap, none) /\ \E error : Fail(error)
        \/ /\ ContextFits(size) /\ ~(Len(BlockAt(desc)) < 3)
           /\ wrong \union (1 .. m - Sp(v)) = {}
           /\ h = WithContext(heap, ctx)
           /\ \/ Fail("OutOfMemory")
              \/ /\ Len(v.env) # EnvCap
                 /\ Jump([v EXCEPT !.stack = x, !.env = y], body, "LEAVE_FUNC")
    BY <1>2, <1>3 DEF CallFunction
  <1>6. SaneContext(none) /\ none.cap = size
    <2>1. size \in Nat
      BY <1>2, <1>4
    <2>2. QED
      BY <1>2, <2>1, EmptySane
  <1>7. ASSUME h = heap, NEW error, Fail(error) PROVE SaneNext
    BY <1>1, <1>2, <1>7, TurnSane
  <1>8. ASSUME NEW made, SaneContext(made), made.cap = size, ContextFits(size),
               h = WithContext(heap, made)
        PROVE  SaneHeap(h) /\ Sane(h, vm) /\ Sane(h, v) /\ Len(h.ctxs) \in DOMAIN h.ctxs
    <2>1. SaneHeap(h) /\ Extended(heap, h) /\ Len(h.ctxs) \in DOMAIN h.ctxs
      BY <1>1, <1>8, SaneContextTaken
    <2>2. QED
      BY <1>1, <2>1, SaneGrows
  <1>9. ASSUME ContextFits(size), h = WithContext(heap, none), NEW error, Fail(error)
        PROVE  SaneNext
    BY <1>2, <1>6, <1>8, <1>9, TurnSane
  <1>10. ASSUME ContextFits(size), ~(Len(BlockAt(desc)) < 3), wrong \union (1 .. m - Sp(v)) = {},
                h = WithContext(heap, ctx)
         PROVE  /\ m \in 0 .. Sp(v) /\ body \in Words
                /\ SaneHeap(h) /\ Sane(h, vm) /\ Sane(h, v) /\ c \in DOMAIN h.ctxs
    <2>1. m \in 0 .. Sp(v)
      <3>1. 1 .. m - Sp(v) = {}
        BY <1>10
      <3>2. ~(1 \in 1 .. m - Sp(v))
        BY <3>1
      <3>3. ~(1 =< m - Sp(v))
        BY <1>1, <1>4, <3>2
      <3>4. QED
        BY <1>1, <1>4, <3>3
    <2>2. body \in Words
      <3>1. PICK block : block = BlockAt(desc)
        OBVIOUS
      <3>2. block \in Seq(Cells)
        BY <1>1, <3>1, SameBlocks, SaneShape
      <3>3. Len(block) \in Nat /\ \A j \in 1 .. Len(block) : block[j] \in Cells
        BY <3>2, SequenceEnds
      <3>4. 3 \in 1 .. Len(block)
        BY <1>10, <3>1, <3>3
      <3>5. QED
        BY <1>2, <3>1, <3>3, <3>4, CellWords
    <2>3. /\ args = [sym \in DOMAIN args |-> args[sym]] /\ DOMAIN args \subseteq Words
          /\ \A sym \in DOMAIN args : args[sym] \in Cells
      <3> DEFINE At(sym) == {j \in 1 .. m : params[j][2] = sym}
                 Names   == {params[j][2] : j \in 1 .. m}
      <3>1. args = [sym \in Names |-> Arg(v, m, Min(At(sym)))]
        BY <1>2, <1>4 DEF Arguments
      <3>2. ASSUME NEW sym \in Names PROVE Arg(v, m, Min(At(sym))) \in Cells
        <4>1. At(sym) \in SUBSET Nat /\ At(sym) \subseteq 1 .. m /\ At(sym) # {}
          BY <1>4
        <4> HIDE DEF At
        <4>2. Min(At(sym)) \in At(sym)
          BY <4>1, MinMember
        <4>3. Min(At(sym)) \in 1 .. m
          BY <4>1, <4>2
        <4>4. QED
          BY <1>1, <2>1, <4>3, SaneBelow
      <3>3. Names \subseteq Words
        BY <1>4, CellWords
      <3> HIDE DEF At, Names
      <3>4. DOMAIN args = Names /\ \A sym \in Names : args[sym] = Arg(v, m, Min(At(sym)))
        BY <3>1
      <3>5. args = [sym \in Names |-> args[sym]]
        BY <3>1
      <3>6. QED
        BY <3>2, <3>3, <3>4, <3>5
    <2>4. SaneContext(ctx) /\ ctx.cap = size
      <3>1. PICK f, old : f = none.sealed /\ old = none.entries
        OBVIOUS
      <3>2. none = [cap |-> size, sealed |-> f, entries |-> old] /\ size \in Nat
        BY <1>6, <3>1 DEF SaneContext
      <3>3. [[cap |-> size, sealed |-> f, entries |-> old] EXCEPT !.entries = args]
              = [cap |-> size, sealed |-> f, entries |-> args]
        OBVIOUS
      <3>4. ctx = [cap |-> size, sealed |-> f, entries |-> args]
        BY <1>2, <3>2, <3>3, Zenon
      <3>5. ctx.cap = size /\ ctx.sealed = f /\ ctx.entries = args
        BY <3>4
      <3>6. ctx = [cap |-> ctx.cap, sealed |-> ctx.sealed, entries |-> ctx.entries]
        BY <3>4, <3>5
      <3>7. QED
        BY <2>3, <3>2, <3>5, <3>6 DEF SaneContext
    <2>5. SaneHeap(h) /\ Sane(h, vm) /\ Sane(h, v) /\ Len(h.ctxs) \in DOMAIN h.ctxs
      BY <1>8, <1>10, <2>4
    <2>6. QED
      BY <1>3, <1>10, <2>1, <2>2, <2>5
  <1>11. ASSUME ContextFits(size), ~(Len(BlockAt(desc)) < 3), wrong \union (1 .. m - Sp(v)) = {},
                h = WithContext(heap, ctx), NEW error, Fail(error)
         PROVE  SaneNext
    BY <1>2, <1>10, <1>11, TurnSane
  <1>12. ASSUME ContextFits(size), ~(Len(BlockAt(desc)) < 3), wrong \union (1 .. m - Sp(v)) = {},
                h = WithContext(heap, ctx), Len(v.env) # EnvCap,
                Jump([v EXCEPT !.stack = x, !.env = y], body, "LEAVE_FUNC")
         PROVE  SaneNext
    <2>1. /\ m \in 0 .. Sp(v) /\ body \in Words
          /\ SaneHeap(h) /\ Sane(h, vm) /\ Sane(h, v) /\ c \in DOMAIN h.ctxs
      BY <1>10, <1>12
    <2>2. x \in Seq(Cells) /\ Len(x) =< StackCap
      <3>1. x \in Seq(Cells) /\ Len(x) = Sp(v) - m
        BY <1>3, <2>1, SaneBelow
      <3>2. Len(v.stack) =< StackCap /\ Sp(v) = Len(v.stack)
        BY <2>1, SaneParts
      <3>3. QED
        BY <1>1, <2>1, <3>1, <3>2, CapsAssumption
    <2>3. y \in Seq(DOMAIN h.ctxs) /\ Len(y) =< EnvCap
      BY <1>3, <1>12, <2>1, SaneEntered
    <2>4. PICK w : w = [v EXCEPT !.stack = x, !.env = y]
      OBVIOUS
    <2>5. Sane(h, w)
      <3>1. Sane(h, [v EXCEPT !.stack = x, !.env = y])
        BY <2>1, <2>2, <2>3, SaneTogether
      <3>2. QED
        BY <2>4, <3>1, Zenon
    <2>6. Jump(w, body, "LEAVE_FUNC") /\ "LEAVE_FUNC" \in ReturnOps
      BY <1>12, <2>4, Zenon DEF ReturnOps
    <2>7. QED
      BY <1>2, <2>1, <2>5, <2>6, PushSane
  <1>13. QED
    BY <1>5, <1>7, <1>9, <1>11, <1>12

(* CALL_FUNC *)
LEMMA CallFuncSane ==
  ASSUME SaneNow, CallFunc
  PROVE  SaneNext
  <1>1. vm.ops # << >> /\ CallFunction(PopFrame(vm), Top.word)
    BY DEF CallFunc, Run
  <1>2. Sane(heap, PopFrame(vm))
    BY <1>1, SanePopped DEF SaneNow
  <1>3. QED
    BY <1>1, <1>2, CallFunctionSane

(* CONTEXT *)
LEMMA EndContextSane ==
  ASSUME SaneNow, EndContext
  PROVE  SaneNext
  <1>1. heap' = heap /\ vm.ops # << >>
    BY DEF EndContext, Run
  <1>2. PICK v, y, val : v = PopFrame(vm) /\ y = Front(v.env) /\ val = <<CONTEXT, Last(v.env)>>
    OBVIOUS
  <1>3. SaneHeap(heap') /\ Sane(heap', vm) /\ Sane(heap', v) /\ SaneHeap(heap)
    BY <1>1, <1>2, SanePopped DEF SaneNow
  <1>4. \/ Fail("StackUnderflow")
        \/ v.stack # << >> /\ v.env # << >> /\ Return([v EXCEPT !.env = y], 1, val)
    BY <1>2 DEF EndContext
  <1>5. ASSUME v.stack # << >>, v.env # << >>, Return([v EXCEPT !.env = y], 1, val) PROVE SaneNext
    <2>1. y \in Seq(DOMAIN heap'.ctxs) /\ Len(y) =< EnvCap /\ Last(v.env) \in DOMAIN heap'.ctxs
      BY <1>2, <1>3, <1>5, SaneLeft
    <2>2. PICK w : w = [v EXCEPT !.env = y]
      OBVIOUS
    <2>3. Sane(heap', w)
      <3>1. Sane(heap', [v EXCEPT !.env = y])
        BY <1>3, <2>1, SaneMoves
      <3>2. QED
        BY <2>2, <3>1, Zenon
    <2>4. w.stack = v.stack
      <3>1. PICK b, i, s, o, e : v = Machine(b, i, s, o, e) /\ s = v.stack
        BY <1>3, SaneParts
      <3>2. w = Machine(b, i, s, o, y)
        BY <2>2, <3>1, MachineParts
      <3>3. QED
        BY <3>1, <3>2, MachineParts
    <2>5. 1 \in 0 .. Sp(w)
      BY <1>5, <2>3, <2>4, SaneParts
    <2>6. val \in Cells
      <3>1. Last(v.env) \in Words
        <4>1. /\ Len(heap'.ctxs) \in Nat /\ DOMAIN heap'.ctxs = 1 .. Len(heap'.ctxs)
              /\ Len(heap'.ctxs) < WordMod
          BY <1>3, SaneShape
        <4>2. QED
          BY <2>1, <4>1, WordModAssumption DEF Words
      <3>2. CONTEXT \in 0 .. 11
        BY DEF CONTEXT
      <3>3. QED
        BY <1>2, <3>1, <3>2, CellWords
    <2>7. Return(w, 1, val)
      BY <1>5, <2>2, Zenon
    <2>8. QED
      BY <1>3, <2>3, <2>5, <2>6, <2>7, ReturnSane
  <1>6. QED
    BY <1>3, <1>4, <1>5, TurnSane

(* Whatever a word stands for, it is made of words. *)
LEMMA ResolveSane ==
  ASSUME SaneHeap(heap), NEW env \in Seq(DOMAIN heap.ctxs), NEW val \in Cells
  PROVE  resolve(env, val) \in AnswersIn(Cells)
  <1> DEFINE G == Cells
             D == Nat
  <1>1. G \in SUBSET Cells /\ val \in G /\ \A w \in G : w[1] = CONTEXT => w[2] \in D
    BY CellWords
  <1>2. \A c \in DOMAIN heap.ctxs : \A sym \in DOMAIN heap.ctxs[c].entries :
          heap.ctxs[c].entries[sym] \in G
    BY DEF SaneHeap, SaneContext
  <1>3. env \in Seq(D)
    <2>1. /\ IsSequence(env) /\ Len(env) \in Nat /\ DOMAIN env = 1 .. Len(env)
          /\ \A j \in 1 .. Len(env) : env[j] \in DOMAIN heap.ctxs
      <3>1. PICK S : S = DOMAIN heap.ctxs
        OBVIOUS
      <3>2. Len(env) \in Nat /\ DOMAIN env = 1 .. Len(env) /\ \A j \in 1 .. Len(env) : env[j] \in S
        BY <3>1, SequenceEnds
      <3>3. QED
        BY <3>1, <3>2 DEF IsSequence
    <2>2. DOMAIN heap.ctxs \subseteq Nat
      BY SaneShape
    <2>3. env \in Seq(Range(env))
      BY <2>1, OwnRange
    <2>4. env \in [1 .. Len(env) -> Range(env)]
      BY <2>1, <2>3, LenProperties
    <2>5. env \in [1 .. Len(env) -> D]
      BY <2>1, <2>2, <2>4
    <2>6. QED
      BY <2>1, <2>5, SeqDef
  <1> HIDE DEF G, D
  <1>4. ASSUME NEW e \in Seq(D), NEW sym PROVE find_word(e, sym) \in AnswersIn(G)
    <2>1. IsSequence(e)
      BY DEF IsSequence
    <2>2. QED
      BY <1>1, <1>2, <2>1, FindWithin
  <1>5. Closed(G, D) /\ \A a : Len(BlockAt(a)) \in Nat
    <2>1. Closed(G, D)
      BY <1>1, <1>4 DEF Closed
    <2>2. QED
      BY <2>1, SameBlocks, SaneShape
  <1>6. Cardinality(BoundSymbols) \in Nat
    <2>1. BoundSymbols \subseteq 0 .. WordMod - 1
      BY DEF BoundSymbols, Range, SaneHeap, SaneContext, Words
    <2>2. IsFiniteSet(0 .. WordMod - 1)
      BY Tags, FS_Interval
    <2>3. QED
      BY <2>1, <2>2, FS_Subset, FS_CardinalityType
  <1>7. resolve(env, val) \in AnswersIn(G)
    BY <1>1, <1>3, <1>5, <1>6, ResolveWithin
  <1>8. QED
    BY <1>7 DEF G

(* A native function that is fetched, with the literal that `foreach` takes. *)
LEMMA FetchNativeSane ==
  ASSUME SaneNow, heap' = heap, NEW v, Sane(heap, v), NEW native, FetchNative(v, native)
  PROVE  SaneNext
  <1>1. SaneHeap(heap) /\ Sane(heap, vm) /\ Sp(v) \in Nat
    BY SaneParts DEF SaneNow
  <1>2. PICK a, offset, val, p, j, f :
          /\ a = v.block /\ offset = 2 * v.ip /\ val = PairAt(a, offset)
          /\ f = Frame("CALL_NATIVE", native, Sp(v), 3) /\ p = Append(v.ops, f) /\ j = v.ip + 1
    OBVIOUS
  <1>3. \/ \E error : Fail(error)
        \/ /\ Len(v.ops) # OpCap /\ HasPair(a, offset)
           /\ PushValue([v EXCEPT !.ops = p, !.ip = j], val)
        \/ \E arity : PushOp(v, "CALL_NATIVE", native, arity)
    BY <1>2 DEF FetchNative
  <1>4. ASSUME NEW error, Fail(error) PROVE SaneNext
    BY <1>1, <1>4, TurnSane
  <1>5. ASSUME NEW arity, PushOp(v, "CALL_NATIVE", native, arity) PROVE SaneNext
    <2>1. PICK op : op = "CALL_NATIVE"
      OBVIOUS
    <2>2. op \in CallOps /\ op # "SET_WORD"
      BY <2>1 DEF CallOps
    <2>3. QED
      BY <1>1, <1>5, <2>1, <2>2, PushSane
  <1>6. ASSUME Len(v.ops) # OpCap, HasPair(a, offset), PushValue([v EXCEPT !.ops = p, !.ip = j], val)
        PROVE  SaneNext
    <2>1. PICK n : n = Len(BlockAt(a))
      OBVIOUS
    <2>2. n = Len(BlockIn(heap, a)) /\ n \in Nat
      BY <1>1, <2>1, SameBlocks, SaneShape
    <2>3. a \in Nat /\ v.ip \in 0 .. n /\ FramesSane(heap, v.ops) /\ Len(v.ops) =< OpCap
      BY <1>2, <2>2, SaneParts DEF Spot
    <2>4. offset + 2 =< 2 * n
      BY <1>6, <2>1 DEF HasPair
    <2>5. offset \in Nat /\ j \in 0 .. n
      <3>1. PICK i : i = v.ip
        OBVIOUS
      <3>2. offset = 2 * i /\ j = i + 1 /\ i \in 0 .. n
        BY <1>2, <2>3, <3>1
      <3>3. QED
        BY ONLY <2>2, <2>4, <3>2
    <2>6. val \in Cells
      BY <1>1, <1>2, <1>6, <2>5, PairSane
    <2>7. FramesSane(heap, p) /\ Len(p) =< OpCap
      <3>1. FrameSane(heap, f)
        <4>1. f.op = "CALL_NATIVE" /\ f.bp = Sp(v)
          BY <1>2 DEF Frame
        <4>2. QED
          BY <1>1, <4>1 DEF FrameSane, CallOps, ReturnOps
      <3>2. FramesSane(heap, p) /\ Len(p) = Len(v.ops) + 1 /\ Len(v.ops) \in Nat
        BY <1>2, <2>3, <3>1, FramesPushed
      <3>3. QED
        BY <1>6, <2>3, <3>2, CapsAssumption
    <2>8. PICK x, w : x = [v EXCEPT !.ops = p] /\ w = [x EXCEPT !.ip = j]
      OBVIOUS
    <2>9. Sane(heap, x)
      <3>1. Sane(heap, [v EXCEPT !.ops = p])
        BY <2>7, SaneMoves
      <3>2. QED
        BY <2>8, <3>1, Zenon
    <2>10. x.block = a
      <3>1. PICK b, i, s, o, e : v = Machine(b, i, s, o, e) /\ b = a
        BY <1>2, SaneParts
      <3>2. x = Machine(b, i, s, p, e)
        BY <2>8, <3>1, MachineParts
      <3>3. QED
        BY <3>1, <3>2, MachineParts
    <2>11. Sane(heap, w)
      <3>1. Spot(heap, x.block, j)
        BY <2>2, <2>3, <2>5, <2>10 DEF Spot
      <3>2. Sane(heap, [x EXCEPT !.ip = j])
        BY <2>9, <3>1, SaneMoves
      <3>3. QED
        BY <2>8, <3>2, Zenon
    <2>12. PushValue(w, val)
      BY <1>6, <2>8, Zenon
    <2>13. QED
      BY <1>1, <2>6, <2>11, <2>12, PushSane
  <1>7. QED
    BY <1>3, <1>4, <1>5, <1>6

(* Fetch *)
LEMMA FetchSane ==
  ASSUME SaneNow, Fetch
  PROVE  SaneNext
  <1>1. ~AtEnd /\ SaneHeap(heap) /\ Sane(heap, vm)
    BY DEF Fetch, SaneNow
  <1>2. PICK val, offset, r, tag, data, x, v :
          /\ offset = 2 * vm.ip /\ val = PairAt(vm.block, offset)
          /\ r = resolve(vm.env, val) /\ tag = r.val[1] /\ data = r.val[2]
          /\ x = vm.ip + 1 /\ v = [vm EXCEPT !.ip = x]
    OBVIOUS
  <1>3. offset \in Nat /\ HasPair(vm.block, offset) /\ Spot(heap, vm.block, x)
    <2>1. PICK n : n = Len(BlockAt(vm.block))
      OBVIOUS
    <2>2. n = Len(BlockIn(heap, vm.block)) /\ n \in Nat
      BY <1>1, <2>1, SameBlocks, SaneShape
    <2>3. vm.block \in Nat /\ vm.ip \in 0 .. n
      BY <1>1, <2>2, SaneParts DEF Spot
    <2>4. HasPair(vm.block, offset) /\ offset + 2 =< 2 * n
      BY <1>1, <1>2, <2>1 DEF AtEnd, HasPair
    <2>5. offset \in Nat /\ x \in 0 .. n
      BY <1>2, <2>2, <2>3, <2>4
    <2>6. QED
      BY <2>2, <2>3, <2>4, <2>5 DEF Spot
  <1>4. Sane(heap, v)
    <2>1. Sane(heap, [vm EXCEPT !.ip = x])
      BY <1>1, <1>3, SaneMoves
    <2>2. QED
      BY <1>2, <2>1, Zenon
  <1>5. r.val \in Cells /\ data \in Words
    <2>1. val \in Cells
      BY <1>1, <1>2, <1>3, PairSane
    <2>2. vm.env \in Seq(DOMAIN heap.ctxs)
      BY <1>1, SaneParts
    <2>3. r \in AnswersIn(Cells)
      BY <1>1, <1>2, <2>1, <2>2, ResolveSane
    <2>4. r.val \in Cells
      BY <2>3 DEF AnswersIn
    <2>5. QED
      BY <1>2, <2>4, CellWords
  <1>6. \/ heap' = heap /\ \E error : Fail(error)
        \/ heap' = heap /\ FetchNative(v, data)
        \/ FetchFunc(v, data)
        \/ heap' = heap /\ PushOp(v, "SET_WORD", data, 1)
        \/ heap' = heap /\ PushValue(v, r.val)
    <2>1. LET r0 == resolve(vm.env, PairAt(vm.block, 2 * vm.ip))
              v0 == [vm EXCEPT !.ip = @ + 1]
              tag0 == r0.val[1]
              data0 == r0.val[2]
          IN  CASE r0.error # "none" -> Fail(r0.error) /\ UNCHANGED heap
                [] r0.error = "none" /\ tag0 = NATIVE_FN -> FetchNative(v0, data0) /\ UNCHANGED heap
                [] r0.error = "none" /\ tag0 = FUNC -> FetchFunc(v0, data0)
                [] r0.error = "none" /\ tag0 = SET_WORD ->
                     PushOp(v0, "SET_WORD", data0, 1) /\ UNCHANGED heap
                [] OTHER -> PushValue(v0, r0.val) /\ UNCHANGED heap
      BY DEF Fetch
    <2>2. CASE r.error # "none" \/ tag \in {NATIVE_FN, FUNC, SET_WORD}
      BY <1>2, <2>1, <2>2
    <2>3. CASE r.error = "none" /\ tag \notin {NATIVE_FN, FUNC, SET_WORD}
      BY <1>2, <2>1, <2>3
    <2>4. QED
      BY <2>2, <2>3
  <1>7. ASSUME heap' = heap, NEW error, Fail(error) PROVE SaneNext
    BY <1>1, <1>7, TurnSane
  <1>8. ASSUME heap' = heap, FetchNative(v, data) PROVE SaneNext
    BY <1>4, <1>8, FetchNativeSane
  <1>9. ASSUME heap' = heap, PushOp(v, "SET_WORD", data, 1) PROVE SaneNext
    <2>1. PICK op : op = "SET_WORD"
      OBVIOUS
    <2>2. op \in CallOps
      BY <2>1 DEF CallOps
    <2>3. QED
      BY <1>1, <1>4, <1>5, <1>9, <2>1, <2>2, PushSane
  <1>10. ASSUME heap' = heap, PushValue(v, r.val) PROVE SaneNext
    BY <1>1, <1>4, <1>5, <1>10, PushSane
  <1>11. ASSUME FetchFunc(v, data) PROVE SaneNext
    <2>1. \/ heap' = heap /\ \E error : Fail(error)
          \/ CallFunction(v, data)
          \/ heap' = heap /\ \E arity : PushOp(v, "CALL_FUNC", data, arity)
      BY <1>11 DEF FetchFunc
    <2>2. ASSUME heap' = heap, NEW arity, PushOp(v, "CALL_FUNC", data, arity) PROVE SaneNext
      <3>1. PICK op : op = "CALL_FUNC"
        OBVIOUS
      <3>2. op \in CallOps /\ op # "SET_WORD"
        BY <3>1 DEF CallOps
      <3>3. QED
        BY <1>1, <1>4, <2>2, <3>1, <3>2, PushSane
    <2>3. ASSUME CallFunction(v, data) PROVE SaneNext
      BY <1>4, <2>3, CallFunctionSane
    <2>4. QED
      BY <1>7, <2>1, <2>2, <2>3
  <1>12. QED
    BY <1>6, <1>7, <1>8, <1>9, <1>10, <1>11

(* LEAVE_BLOCK and LEAVE_FUNC *)
LEMMA BlockEndSane ==
  ASSUME SaneNow, LeaveBlock \/ LeaveFunc
  PROVE  SaneNext
  <1>1. heap' = heap /\ vm.ops # << >> /\ Top.op \in ReturnOps
    BY DEF LeaveBlock, LeaveFunc, EndOf, ReturnOps
  <1>2. PICK v, y, f : v = PopFrame(vm) /\ y = Front(v.env) /\ f = Top
    OBVIOUS
  <1>3. /\ SaneHeap(heap') /\ Sane(heap', vm) /\ Sane(heap', v)
        /\ FrameSane(heap', f) /\ f.op \in ReturnOps
    BY <1>1, <1>2, SanePopped DEF SaneNow
  <1>4. CASE LeaveBlock
    BY <1>2, <1>3, <1>4, LeaveSane DEF LeaveBlock
  <1>5. CASE LeaveFunc
    <2>1. \/ Fail("StackUnderflow")
          \/ v.env # << >> /\ Leave([v EXCEPT !.env = y], f)
      BY <1>2, <1>5 DEF LeaveFunc
    <2>2. ASSUME v.env # << >>, Leave([v EXCEPT !.env = y], f) PROVE SaneNext
      <3>1. y \in Seq(DOMAIN heap'.ctxs) /\ Len(y) =< EnvCap
        BY <1>2, <1>3, <2>2, SaneLeft
      <3>2. PICK w : w = [v EXCEPT !.env = y]
        OBVIOUS
      <3>3. Sane(heap', w)
        <4>1. Sane(heap', [v EXCEPT !.env = y])
          BY <1>3, <3>1, SaneMoves
        <4>2. QED
          BY <3>2, <4>1, Zenon
      <3>4. Leave(w, f)
        BY <2>2, <3>2, Zenon
      <3>5. QED
        BY <1>3, <3>3, <3>4, LeaveSane
    <2>3. QED
      BY <1>3, <2>1, <2>2, TurnSane
  <1>6. QED
    BY <1>4, <1>5

(* The values above the n-th. *)
LEMMA SequenceRest ==
  ASSUME NEW S, NEW s \in Seq(S), NEW n \in 0 .. Len(s), NEW t, t = SubSeq(s, n + 1, Len(s))
  PROVE  t \in Seq(S) /\ Len(t) = Len(s) - n
  <1>1. PICK a, z : a = n + 1 /\ z = Len(s)
    OBVIOUS
  <1>2. Len(s) \in Nat /\ a \in Int /\ z \in Int /\ \A j \in 1 .. Len(s) : s[j] \in S
    BY <1>1, SequenceEnds
  <1>3. \A j \in a .. z : s[j] \in S
    BY <1>1, <1>2
  <1>4. /\ SubSeq(s, a, z) \in Seq(S)
        /\ Len(SubSeq(s, a, z)) = IF a =< z THEN z - a + 1 ELSE 0
    BY <1>2, <1>3, SubSeqProperties
  <1>5. z - a + 1 = Len(s) - n /\ (~(a =< z) => Len(s) - n = 0)
    BY <1>1, <1>2
  <1>6. QED
    BY <1>1, <1>4, <1>5

(* REDUCE *)
LEMMA LeaveReduceSane ==
  ASSUME SaneNow, LeaveReduce
  PROVE  SaneNext
  <1>1. vm.ops # << >> /\ Top.op \in ReturnOps
    BY DEF LeaveReduce, EndOf, ReturnOps
  <1>2. PICK v, f, n, s, w, h, values, val, m :
          /\ v = PopFrame(vm) /\ f = Top /\ n = f.bp /\ s = v.stack /\ w = Resume(v, f) /\ h = heap'
          /\ values = SubSeq(s, n + 1, Sp(v)) /\ val = <<BLOCK, Len(h.blocks)>> /\ m = Len(values)
    OBVIOUS
  <1>3. /\ SaneHeap(heap) /\ Sane(heap, vm) /\ Sane(heap, v)
        /\ FrameSane(heap, f) /\ f.op \in ReturnOps
    BY <1>1, <1>2, SanePopped DEF SaneNow
  <1>4. s \in Seq(Cells) /\ Sp(v) = Len(s) /\ Sp(v) \in Nat /\ n \in Nat
    BY <1>2, <1>3, SaneParts DEF FrameSane
  <1>5. \/ h = heap /\ \E error : Fail(error)
        \/ /\ ~(Sp(v) < n) /\ BlockFits(values) /\ h = WithBlock(heap, values) /\ Return(w, m, val)
    BY <1>2 DEF LeaveReduce
  <1>6. ASSUME h = heap, NEW error, Fail(error) PROVE SaneNext
    BY <1>2, <1>3, <1>6, TurnSane
  <1>7. ASSUME ~(Sp(v) < n), BlockFits(values), h = WithBlock(heap, values), Return(w, m, val)
        PROVE  SaneNext
    <2>1. n \in 0 .. Len(s)
      BY <1>4, <1>7
    <2>2. values \in Seq(Cells) /\ m = Len(s) - n
      BY <1>2, <1>4, <2>1, SequenceRest
    <2>3. SaneHeap(h) /\ Extended(heap, h) /\ Len(h.blocks) \in Words
      BY <1>3, <1>7, <2>2, SaneBlockTaken
    <2>4. Sane(h, vm) /\ Sane(h, v) /\ Spot(h, f.word, f.arity - LeaveMarker)
      BY <1>3, <2>3, SaneGrows DEF FrameSane
    <2>5. Sane(h, w) /\ w.stack = s
      BY <1>2, <2>4, ResumeSane
    <2>6. m \in 0 .. Sp(w)
      <3>1. Sp(w) = Len(s)
        BY <2>5 DEF Sp
      <3>2. QED
        BY <1>4, <2>1, <2>2, <3>1
    <2>7. val \in Cells
      <3>1. BLOCK \in 0 .. 11
        BY DEF BLOCK
      <3>2. QED
        BY <1>2, <2>3, <3>1, CellWords
    <2>8. QED
      BY <1>2, <1>7, <2>3, <2>4, <2>5, <2>6, <2>7, ReturnSane
  <1>8. QED
    BY <1>5, <1>6, <1>7

(* FOREACH: the next value of the data is bound, or the loop is left. *)
LEMMA LeaveForeachSane ==
  ASSUME SaneNow, LeaveForeach
  PROVE  SaneNext
  <1>1. vm.ops # << >> /\ Top.op = "FOREACH"
    BY DEF LeaveForeach, EndOf
  <1>2. PICK u, f, p, m, s, t, v :
          /\ u = PopFrame(vm) /\ f = Top /\ p = f.bp /\ m = p - 1 /\ s = vm.stack
          /\ t = SubSeq(s, 1, m) /\ v = [u EXCEPT !.stack = t]
    OBVIOUS
  <1>3. /\ SaneHeap(heap) /\ Sane(heap, vm) /\ Sane(heap, u) /\ FrameSane(heap, f)
        /\ u.env = vm.env /\ u.ops = Front(vm.ops) /\ Len(u.ops) < OpCap
    BY <1>1, <1>2, SanePopped DEF SaneNow
  <1>4. PICK e, o, c, h, offset, g, word, data, body, x, y, z :
          /\ e = v.env /\ o = v.ops /\ c = Last(e) /\ h = heap' /\ offset = s[p][2]
          /\ g = Frame("FOREACH", f.word, f.bp, f.arity)
          /\ word = Arg(v, 3, 1)[2] /\ data = Arg(v, 3, 2)[2] /\ body = Arg(v, 3, 3)[2]
          /\ x = Below(v, 3) /\ y = Front(e) /\ z = Append(o, g)
    OBVIOUS
  <1>5. \/ h = heap /\ \E error : Fail(error)
        \/ /\ ~(Sp(vm) < p) /\ ~(p < 4) /\ e # << >>
           /\ \/ h = heap /\ Continue(Resume([v EXCEPT !.stack = x, !.env = y], f))
              \/ \E j \in NextOffset(offset) :
                   /\ j # -1 /\ HasPair(data, j)
                   /\ h = [heap EXCEPT !.ctxs[c] = Put(@, word, PairAt(data, j))]
                   /\ Continue([v EXCEPT !.stack = Append(t, <<INT, j>>), !.ops = z,
                                         !.block = body, !.ip = 0])
    <2>1. /\ t = SubSeq(vm.stack, 1, Top.bp - 1) /\ v = [PopFrame(vm) EXCEPT !.stack = t] /\ f = Top
          /\ c = Last(v.env) /\ offset = vm.stack[Top.bp][2] /\ y = Front(v.env) /\ z = Append(v.ops, g)
      BY <1>2, <1>4
    <2>2. \/ h = heap /\ (Fail("InternalError") \/ Fail("StackUnderflow") \/ Fail("panic"))
          \/ h = heap /\ Fail(PutResult(heap.ctxs[c], word))
          \/ /\ ~(Sp(vm) < p) /\ ~(p < 4 \/ v.env = << >>)
             /\ h = heap /\ Continue(Resume([v EXCEPT !.stack = x, !.env = y], f))
          \/ /\ ~(Sp(vm) < p) /\ ~(p < 4 \/ v.env = << >>)
             /\ \E j \in NextOffset(offset) :
                  /\ j # -1 /\ HasPair(data, j)
                  /\ h = [heap EXCEPT !.ctxs[c] = Put(@, word, PairAt(data, j))]
                  /\ Continue([v EXCEPT !.stack = Append(t, <<INT, j>>), !.ops = z,
                                        !.block = body, !.ip = 0])
      BY <1>2, <1>4, <2>1 DEF LeaveForeach
    <2>3. v.env = e
      BY <1>4
    <2>4. QED
      BY <2>2, <2>3, Zenon
  <1>6. ASSUME h = heap, NEW error, Fail(error) PROVE SaneNext
    BY <1>3, <1>4, <1>6, TurnSane
  <1>7. ASSUME ~(Sp(vm) < p), ~(p < 4), e # << >>
        PROVE  /\ Sane(heap, v) /\ v.stack = t /\ t \in Seq(Cells) /\ Len(t) = m
               /\ m \in Nat /\ m >= 3 /\ m + 1 =< StackCap
               /\ offset \in Words /\ 3 \in 0 .. Sp(v)
               /\ word \in Words /\ body \in Words
               /\ c \in DOMAIN heap.ctxs /\ y \in Seq(DOMAIN heap.ctxs) /\ Len(y) =< EnvCap
               /\ FramesSane(heap, o) /\ Len(o) < OpCap
    <2>1. s \in Seq(Cells) /\ Sp(vm) = Len(s) /\ Len(s) \in Nat /\ Len(s) =< StackCap /\ p \in Nat
      BY <1>2, <1>3, SaneParts DEF FrameSane
    <2>2. /\ p \in 1 .. Len(s) /\ m \in 0 .. Len(s) /\ m \in Nat /\ m >= 3 /\ m + 1 =< Len(s)
          /\ m + 1 =< StackCap /\ m =< StackCap
      <3>1. PICK n : n = Len(s)
        OBVIOUS
      <3>2. /\ m = p - 1 /\ ~(n < p) /\ ~(p < 4) /\ p \in Nat /\ n \in Nat /\ n =< StackCap
            /\ StackCap \in Nat
        BY <1>2, <1>7, <2>1, <3>1, CapsAssumption
      <3>3. /\ p \in 1 .. n /\ m \in 0 .. n /\ m \in Nat /\ m >= 3 /\ m + 1 =< n
            /\ m + 1 =< StackCap /\ m =< StackCap
        BY ONLY <3>2
      <3>4. QED
        BY <3>1, <3>3
    <2>3. t \in Seq(Cells) /\ Len(t) = m /\ s[p] \in Cells
      BY <1>2, <2>1, <2>2, SequenceEnds
    <2>4. Sane(heap, v)
      <3>1. Sane(heap, [u EXCEPT !.stack = t])
        BY <1>3, <2>2, <2>3, SaneMoves
      <3>2. QED
        BY <1>2, <3>1, Zenon
    <2>5. v.stack = t /\ v.ops = u.ops
      <3>1. PICK b, i, s0, o0, e0 : u = Machine(b, i, s0, o0, e0) /\ o0 = u.ops
        BY <1>3, SaneParts
      <3>2. [Machine(b, i, s0, o0, e0) EXCEPT !.stack = t] = Machine(b, i, t, o0, e0)
        BY MachineParts
      <3>3. v = Machine(b, i, t, o0, e0)
        BY <1>2, <3>1, <3>2, Zenon
      <3>4. QED
        BY <3>1, <3>3, MachineParts
    <2>6. 3 \in 0 .. Sp(v)
      <3>1. Sp(v) = m
        BY <2>3, <2>5 DEF Sp
      <3>2. QED
        BY <2>2, <3>1
    <2>7. word \in Words /\ body \in Words
      <3>1. \A j \in 1 .. 3 : Arg(v, 3, j) \in Cells
        BY <2>4, <2>6, SaneBelow
      <3>2. Arg(v, 3, 1) \in Cells /\ Arg(v, 3, 3) \in Cells
        BY <3>1
      <3>3. QED
        BY <1>4, <3>2, CellWords
    <2>8. offset \in Words
      BY <1>4, <2>3, CellWords
    <2>9. c \in DOMAIN heap.ctxs /\ y \in Seq(DOMAIN heap.ctxs) /\ Len(y) =< EnvCap
      BY <1>4, <1>7, <2>4, SaneLeft
    <2>10. FramesSane(heap, o) /\ Len(o) < OpCap
      BY <1>3, <1>4, <2>4, <2>5, SaneParts
    <2>11. QED
      BY <2>2, <2>3, <2>4, <2>5, <2>6, <2>7, <2>8, <2>9, <2>10
  <1>8. ASSUME ~(Sp(vm) < p), ~(p < 4), e # << >>,
               h = heap, Continue(Resume([v EXCEPT !.stack = x, !.env = y], f))
        PROVE  SaneNext
    <2>1. /\ Sane(heap, v) /\ 3 \in 0 .. Sp(v) /\ Len(t) = m /\ v.stack = t
          /\ m \in Nat /\ m + 1 =< StackCap
          /\ y \in Seq(DOMAIN heap.ctxs) /\ Len(y) =< EnvCap
      BY <1>7, <1>8
    <2>2. x \in Seq(Cells) /\ Len(x) =< StackCap
      <3>1. x \in Seq(Cells) /\ Len(x) = Sp(v) - 3
        BY <1>4, <2>1, SaneBelow
      <3>2. Sp(v) = m
        BY <2>1 DEF Sp
      <3>3. QED
        BY <2>1, <3>1, <3>2, CapsAssumption
    <2>3. PICK w : w = [v EXCEPT !.stack = x, !.env = y]
      OBVIOUS
    <2>4. Sane(heap, w)
      <3>1. Sane(heap, [v EXCEPT !.stack = x, !.env = y])
        BY <2>1, <2>2, SaneTogether
      <3>2. QED
        BY <2>3, <3>1, Zenon
    <2>5. Spot(heap, f.word, f.arity - LeaveMarker)
      <3>1. f.op \in ReturnOps
        BY <1>1, <1>2 DEF ReturnOps
      <3>2. QED
        BY <1>3, <3>1 DEF FrameSane
    <2>6. Sane(heap, Resume(w, f)) /\ Continue(Resume(w, f))
      <3>1. Continue(Resume(w, f))
        BY <1>8, <2>3, Zenon
      <3>2. QED
        BY <2>4, <2>5, <3>1, ResumeSane
    <2>7. QED
      BY <1>3, <1>4, <1>8, <2>6, TurnSane
  <1>9. ASSUME ~(Sp(vm) < p), ~(p < 4), e # << >>,
               NEW j \in NextOffset(offset), j # -1, HasPair(data, j),
               h = [heap EXCEPT !.ctxs[c] = Put(@, word, PairAt(data, j))],
               Continue([v EXCEPT !.stack = Append(t, <<INT, j>>), !.ops = z, !.block = body, !.ip = 0])
        PROVE  SaneNext
    <2>1. /\ Sane(heap, v) /\ t \in Seq(Cells) /\ Len(t) = m
          /\ m \in Nat /\ m + 1 =< StackCap
          /\ offset \in Words /\ word \in Words /\ body \in Words
          /\ c \in DOMAIN heap.ctxs
          /\ FramesSane(heap, o) /\ Len(o) < OpCap
      BY <1>7, <1>9
    <2>2. j \in Words /\ j \in Nat
      BY <1>9, <2>1, NextOffsetIsWord, CellWords
    <2>3. PICK pair, q, t2 : pair = PairAt(data, j) /\ q = <<INT, j>> /\ t2 = Append(t, q)
      OBVIOUS
    <2>4. pair \in Cells
      BY <1>3, <1>9, <2>2, <2>3, PairSane
    <2>5. q \in Cells
      <3>1. INT \in 0 .. 11
        BY DEF INT
      <3>2. QED
        BY <2>2, <2>3, <3>1, CellWords
    <2>6. SaneHeap(h) /\ Extended(heap, h)
      BY <1>3, <1>9, <2>1, <2>3, <2>4, SaneContextChanged
    <2>7. Sane(h, vm) /\ Sane(h, v) /\ FramesSane(h, o) /\ FrameSane(h, f)
      <3>1. FrameSane(h, f)
        BY <1>3, <2>6, SaneGrows DEF FrameSane
      <3>2. QED
        BY <1>3, <2>1, <2>6, <3>1, SaneGrows
    <2>8. t2 \in Seq(Cells) /\ Len(t2) =< StackCap
      <3>1. t2 \in Seq(Cells) /\ Len(t2) = m + 1
        BY <2>1, <2>3, <2>5, SequenceEnds
      <3>2. QED
        BY <2>1, <3>1
    <2>9. FramesSane(h, z) /\ Len(z) =< OpCap
      <3>1. FrameSane(h, g)
        <4>1. g.op = f.op /\ g.word = f.word /\ g.bp = f.bp /\ g.arity = f.arity
          BY <1>1, <1>2, <1>4 DEF Frame
        <4>2. QED
          BY <2>7, <4>1 DEF FrameSane
      <3>2. FramesSane(h, z) /\ Len(z) = Len(o) + 1 /\ Len(o) \in Nat
        BY <1>4, <2>7, <3>1, FramesPushed
      <3>3. QED
        BY <2>1, <3>2, CapsAssumption
    <2>10. Spot(h, body, 0)
      <3>1. Len(BlockIn(h, body)) \in Nat /\ body \in Nat
        BY <2>1, <2>6, SaneShape, CellWords
      <3>2. QED
        BY <3>1 DEF Spot
    <2>11. PICK w1, w2, w4 : /\ w1 = [v EXCEPT !.stack = t2] /\ w2 = [w1 EXCEPT !.ops = z]
                             /\ w4 = [[w2 EXCEPT !.block = body] EXCEPT !.ip = 0]
      OBVIOUS
    <2>12. Sane(h, w1)
      <3>1. Sane(h, [v EXCEPT !.stack = t2])
        BY <2>7, <2>8, SaneMoves
      <3>2. QED
        BY <2>11, <3>1, Zenon
    <2>13. Sane(h, w2)
      <3>1. Sane(h, [w1 EXCEPT !.ops = z])
        BY <2>9, <2>12, SaneMoves
      <3>2. QED
        BY <2>11, <3>1, Zenon
    <2>14. Sane(h, w4)
      <3>1. Sane(h, [[w2 EXCEPT !.block = body] EXCEPT !.ip = 0])
        BY <2>10, <2>13, SaneMoves
      <3>2. QED
        BY <2>11, <3>1, Zenon
    <2>15. Continue(w4)
      <3>1. [v EXCEPT !.stack = t2, !.ops = z, !.block = body, !.ip = 0] = w4
        <4>1. [v EXCEPT !.stack = t2, !.ops = z, !.block = body, !.ip = 0]
                = [[[[v EXCEPT !.stack = t2] EXCEPT !.ops = z] EXCEPT !.block = body] EXCEPT !.ip = 0]
          OBVIOUS
        <4>2. QED
          BY <2>11, <4>1, Zenon
      <3>2. QED
        BY <1>9, <2>3, <3>1
    <2>16. QED
      BY <1>4, <2>6, <2>7, <2>14, <2>15, TurnSane
  <1>10. QED
    BY <1>5, <1>6, <1>8, <1>9

(* Every turn. *)
LEMMA NextSane ==
  ASSUME SaneNow, [Next]_vars
  PROVE  SaneNext
  <1>1. CASE CallNative
    BY <1>1, PlainNativesSane, BlockNativesSane, ContextSane, ForeachSane DEF CallNative
  <1>2. CASE Finish \/ UNCHANGED vars
    <2>1. heap' = heap /\ vm' = vm
      BY <1>2 DEF Finish, vars
    <2>2. QED
      BY <2>1 DEF SaneNow, SaneNext
  <1>3. CASE EndBlock
    BY <1>2, <1>3, BlockEndSane, LeaveReduceSane, LeaveForeachSane DEF EndBlock
  <1>4. QED
    BY <1>1, <1>2, <1>3, FetchSane, SetWordSane, CallFuncSane, EndContextSane DEF Next

(* A program, loaded. *)
LEMMA InitSane ==
  ASSUME Init
  PROVE  SaneNow
  <1>1. PICK pr \in Programs : vm = NewExec(pr.main) /\ heap = Loaded(pr)
    BY DEF Init
  <1>2. GoodHeap(heap) /\ pr.main \in DOMAIN pr.blocks
    BY <1>1, ProgramsAssumption
  <1>3. SaneHeap(heap)
    BY <1>2, GoodIsSane
  <1>4. pr.main \in DOMAIN heap.blocks /\ heap.ctxs = <<pr.system>>
    BY <1>1, <1>2 DEF Loaded
  <1>5. PICK b, i, s, o, e : b = pr.main /\ i = 0 /\ s = << >> /\ o = << >> /\ e = <<1>>
    OBVIOUS
  <1>6. vm = Machine(b, i, s, o, e)
    BY <1>1, <1>5 DEF NewExec, Machine
  <1>7. Spot(heap, b, i)
    <2>1. DOMAIN heap.blocks = 1 .. Len(heap.blocks) /\ Len(BlockIn(heap, b)) \in Nat
      BY <1>3, SaneShape
    <2>2. b \in Nat
      BY <1>4, <1>5, <2>1
    <2>3. QED
      BY <1>5, <2>1, <2>2 DEF Spot
  <1>8. s \in Seq(Cells) /\ Len(s) =< StackCap /\ FramesSane(heap, o) /\ Len(o) =< OpCap
    <2>1. s \in Seq(Cells) /\ Len(s) = 0 /\ o \in Seq({1}) /\ DOMAIN o = {} /\ Len(o) = 0
      BY <1>5
    <2>2. QED
      BY <2>1, CapsAssumption DEF FramesSane, IsSequence
  <1>9. e \in Seq(DOMAIN heap.ctxs) /\ Len(e) =< EnvCap
    <2>1. 1 \in DOMAIN heap.ctxs
      BY <1>4
    <2>2. PICK S : S = DOMAIN heap.ctxs
      OBVIOUS
    <2>3. 1 \in S
      BY <2>1, <2>2
    <2>4. <<1>> \in Seq(S) /\ Len(<<1>>) = 1
      BY <2>3
    <2>5. QED
      BY <1>5, <2>2, <2>4, CapsAssumption
  <1>10. QED
    BY <1>3, <1>6, <1>7, <1>8, <1>9 DEF SaneNow, Sane

(* The flag is one. *)
LEMMA FlagStays ==
  ASSUME borrowed \in BOOLEAN, [Next]_vars
  PROVE  borrowed' \in BOOLEAN
  BY DEF Next, vars, Fetch, SetWord, CallFunc, EndContext, CallNative, EndBlock, Finish, LeaveBlock,
         LeaveFunc, LeaveReduce, LeaveForeach, EndOf, Run, Calls, add, lt, func_do, context, func,
         either, print, is_block, reduce, foreach, form

(* What every machine keeps, also one whose operations ran short. *)
SaneAlways == SaneNow /\ borrowed \in BOOLEAN

(* The limits hold in it. *)
LEMMA SaneTypes ==
  ASSUME SaneAlways
  PROVE  TypeOK
  <1>1. SaneHeap(heap) /\ Sane(heap, vm) /\ borrowed \in BOOLEAN
    BY DEF SaneAlways, SaneNow
  <1>2. /\ Spot(heap, vm.block, vm.ip) /\ vm.stack \in Seq(Cells)
        /\ Len(vm.stack) =< StackCap /\ Len(vm.ops) =< OpCap /\ Len(vm.env) =< EnvCap
        /\ FramesSane(heap, vm.ops) /\ vm.env \in Seq(DOMAIN heap.ctxs)
    BY <1>1, SaneParts
  <1>3. vm.block \in Nat /\ vm.ip \in 0 .. Len(BlockAt(vm.block))
    BY <1>2, SameBlocks DEF Spot
  <1>4. \A i \in DOMAIN vm.stack : vm.stack[i] \in Cells
    BY <1>2, SequenceEnds
  <1>5. \A i \in DOMAIN vm.ops : vm.ops[i].op \in ReturnOps \union CallOps
    BY <1>2 DEF FramesSane, FrameSane
  <1>6. \A i \in DOMAIN vm.env : vm.env[i] \in DOMAIN heap.ctxs
    <2>1. PICK S, e : S = DOMAIN heap.ctxs /\ e = vm.env
      OBVIOUS
    <2>2. \A i \in DOMAIN e : e[i] \in S
      BY <1>2, <2>1, SequenceEnds
    <2>3. QED
      BY <2>1, <2>2
  <1>7. heap.used =< HeapCap
    BY <1>1, HeapAssumption DEF SaneHeap
  <1>8. QED
    BY <1>1, <1>2, <1>3, <1>4, <1>5, <1>6, <1>7 DEF TypeOK

(* Whatever a program does, also with calls that ran short of arguments    *)
(* and loops whose offset was overwritten: values stay words, the stacks   *)
(* and the heap within their limits, ip in its block, and env leads to     *)
(* contexts that exist. *)
THEOREM TypesAlways == Spec => []TypeOK
  <1>1. Init => SaneAlways
    BY InitSane DEF SaneAlways, Init
  <1>2. SaneAlways /\ [Next]_vars => SaneAlways'
    <2> SUFFICES ASSUME SaneAlways, [Next]_vars PROVE SaneAlways'
      OBVIOUS
    <2>1. SaneNext /\ borrowed' \in BOOLEAN
      BY NextSane, FlagStays DEF SaneAlways
    <2>2. QED
      BY <2>1 DEF SaneAlways, SaneNow, SaneNext, Sane, Spot, FramesSane, FrameSane
  <1>3. SaneAlways => TypeOK
    BY SaneTypes
  <1>4. QED
    BY <1>1, <1>2, <1>3, PTL DEF Spec
=============================================================================
