----------------------------- MODULE ExecProofs -----------------------------
(***************************************************************************)
(* Proofs about the virtual machine.                                       *)
(***************************************************************************)
EXTENDS Exec, FiniteSetTheorems, SequenceTheorems, WellFoundedInduction, TLAPS

IsSequence(s) == \E S : s \in Seq(S)

(* The number of frames in ops that own a context. *)
Owned(ops) == Cardinality({i \in DOMAIN ops : ops[i].op \in OwnerOps})

(* An Exec. *)
Machine(b, i, s, o, e) == [block |-> b, ip |-> i, stack |-> s, ops |-> o, env |-> e]

(* v has n contexts more than its frames own, the first one apart. *)
Excess(v, n) ==
  \E b, i, s, o, e : /\ v = Machine(b, i, s, o, e)
                     /\ IsSequence(o) /\ IsSequence(e)
                     /\ Len(e) = 1 + Owned(o) + n
Balanced(v) == Excess(v, 0)

(* One more for a frame that owns a context. *)
Owns(op) == IF op \in OwnerOps THEN 1 ELSE 0

-----------------------------------------------------------------------------
(* What the operations on a stack do, whatever lies on it. *)
LEMMA Stacked ==
  ASSUME NEW s, IsSequence(s)
  PROVE  /\ Len(s) \in Nat
         /\ \A v : /\ IsSequence(Append(s, v)) /\ Len(Append(s, v)) = Len(s) + 1
                   /\ Append(s, v)[Len(s) + 1] = v
                   /\ \A i \in 1 .. Len(s) : Append(s, v)[i] = s[i]
         /\ s # << >> => /\ IsSequence(Front(s)) /\ Len(Front(s)) = Len(s) - 1 /\ Len(s) > 0
                         /\ \A i \in 1 .. Len(s) - 1 : Front(s)[i] = s[i]
  <1>1. PICK S : s \in Seq(S)
    BY DEF IsSequence
  <1>2. Len(s) \in Nat
    BY <1>1, LenProperties
  <1>3. ASSUME NEW v
        PROVE  /\ IsSequence(Append(s, v)) /\ Len(Append(s, v)) = Len(s) + 1
               /\ Append(s, v)[Len(s) + 1] = v
               /\ \A i \in 1 .. Len(s) : Append(s, v)[i] = s[i]
    <2>1. s \in Seq(S \union {v}) /\ v \in S \union {v}
      BY <1>1, SeqDef
    <2>2. /\ Append(s, v) \in Seq(S \union {v}) /\ Len(Append(s, v)) = Len(s) + 1
          /\ Append(s, v)[Len(s) + 1] = v
          /\ \A i \in 1 .. Len(s) : Append(s, v)[i] = s[i]
      BY <2>1, AppendProperties
    <2>3. QED
      BY <2>2 DEF IsSequence
  <1>4. ASSUME s # << >>
        PROVE  /\ IsSequence(Front(s)) /\ Len(Front(s)) = Len(s) - 1 /\ Len(s) > 0
               /\ \A i \in 1 .. Len(s) - 1 : Front(s)[i] = s[i]
    <2>1. Len(s) \in Nat /\ Len(s) >= 1
      BY <1>1, <1>4, EmptySeq
    <2>2. /\ Front(s) \in Seq(S) /\ Len(Front(s)) = Len(s) - 1
          /\ \A i \in 1 .. Len(s) - 1 : Front(s)[i] = s[i]
      <3>1. \A i \in 1 .. Len(s) - 1 : s[i] \in S
        BY <1>1, <2>1, ElementOfSeq
      <3>2. /\ SubSeq(s, 1, Len(s) - 1) \in Seq(S)
            /\ Len(SubSeq(s, 1, Len(s) - 1)) = Len(s) - 1
            /\ \A i \in 1 .. Len(s) - 1 : SubSeq(s, 1, Len(s) - 1)[i] = s[i]
        <4> DEFINE m == Len(s) - 1
        <4>1. m \in Int /\ m - 1 + 1 = m /\ \A i \in 1 .. m : 1 + i - 1 = i
          BY <2>1
        <4>2. m \in Nat /\ (~(1 =< m) => m = 0)
          BY <2>1
        <4> HIDE DEF m
        <4>3. /\ SubSeq(s, 1, m) \in Seq(S)
              /\ Len(SubSeq(s, 1, m)) = IF 1 =< m THEN m - 1 + 1 ELSE 0
              /\ \A i \in 1 .. m - 1 + 1 : SubSeq(s, 1, m)[i] = s[1 + i - 1]
          BY <3>1, <4>1, SubSeqProperties DEF m
        <4>4. QED
          BY <4>1, <4>2, <4>3 DEF m
      <3>3. QED
        BY <3>2 DEF Front
    <2>3. QED
      BY <2>1, <2>2 DEF IsSequence
  <1>5. QED
    BY <1>2, <1>3, <1>4

(* The owners among a stack of frames and one more. *)
LEMMA OwnedByOneMore ==
  ASSUME NEW ops, IsSequence(ops), NEW f
  PROVE  Owned(ops) \in Nat /\ Owned(Append(ops, f)) = Owned(ops) + Owns(f.op)
  <1> DEFINE A == {i \in DOMAIN ops : ops[i].op \in OwnerOps}
             B == {i \in DOMAIN Append(ops, f) : Append(ops, f)[i].op \in OwnerOps}
             n == Len(ops) + 1
  <1>1. Len(ops) \in Nat /\ DOMAIN ops = 1 .. Len(ops)
    BY Stacked DEF IsSequence
  <1>2. IsSequence(Append(ops, f)) /\ Len(Append(ops, f)) = n /\ Append(ops, f)[n] = f
        /\ \A i \in 1 .. Len(ops) : Append(ops, f)[i] = ops[i]
    BY Stacked
  <1>3. DOMAIN Append(ops, f) = 1 .. n
    BY <1>2 DEF IsSequence
  <1>4. IsFiniteSet(A) /\ n \notin A
    <2>1. IsFiniteSet(1 .. Len(ops)) /\ A \subseteq 1 .. Len(ops) /\ n \notin 1 .. Len(ops)
      <3>1. IsFiniteSet(1 .. Len(ops))
        BY <1>1, FS_Interval
      <3>2. A \subseteq 1 .. Len(ops)
        BY <1>1
      <3>3. n \notin 1 .. Len(ops)
        BY <1>1
      <3>4. QED
        BY <3>1, <3>2, <3>3
    <2>2. QED
      BY <2>1, FS_Subset
  <1>5. B = IF f.op \in OwnerOps THEN A \union {n} ELSE A
    BY <1>1, <1>2, <1>3
  <1>6. Cardinality(A) \in Nat /\ Cardinality(A \union {n}) = Cardinality(A) + 1
    BY <1>4, FS_AddElement, FS_CardinalityType
  <1> HIDE DEF A, B, n
  <1>7. Cardinality(B) = Cardinality(A) + Owns(f.op)
    <2>1. CASE f.op \in OwnerOps
      <3>1. B = A \union {n} /\ Owns(f.op) = 1
        BY <1>5, <2>1 DEF Owns
      <3>2. QED
        BY <1>6, <3>1
    <2>2. CASE f.op \notin OwnerOps
      <3>1. B = A /\ Owns(f.op) = 0
        BY <1>5, <2>2 DEF Owns
      <3>2. QED
        BY <1>6, <3>1
    <2>3. QED
      BY <2>1, <2>2
  <1>8. QED
    BY <1>6, <1>7 DEF Owned, A, B

(* The owners among all frames but the top one. *)
LEMMA OwnedByOneLess ==
  ASSUME NEW ops, IsSequence(ops), ops # << >>
  PROVE  Owned(Front(ops)) \in Nat /\ Owned(ops) = Owned(Front(ops)) + Owns(Last(ops).op)
  <1> DEFINE A == {i \in DOMAIN Front(ops) : Front(ops)[i].op \in OwnerOps}
             B == {i \in DOMAIN ops : ops[i].op \in OwnerOps}
             n == Len(ops)
  <1>1. /\ n \in Nat /\ n > 0 /\ IsSequence(Front(ops)) /\ Len(Front(ops)) = n - 1
        /\ \A i \in 1 .. n - 1 : Front(ops)[i] = ops[i]
    BY Stacked
  <1>2. DOMAIN ops = 1 .. n /\ DOMAIN Front(ops) = 1 .. n - 1
    BY <1>1 DEF IsSequence
  <1>3. IsFiniteSet(A) /\ n \notin A
    <2>1. IsFiniteSet(1 .. n - 1)
      BY <1>1, FS_Interval
    <2>2. A \subseteq 1 .. n - 1 /\ n \notin 1 .. n - 1
      BY <1>1, <1>2
    <2>3. QED
      BY <2>1, <2>2, FS_Subset
  <1>4. Last(ops) = ops[n]
    BY DEF Last
  <1>5. B = IF Last(ops).op \in OwnerOps THEN A \union {n} ELSE A
    BY <1>1, <1>2, <1>4
  <1>6. Cardinality(A) \in Nat /\ Cardinality(A \union {n}) = Cardinality(A) + 1
    BY <1>3, FS_AddElement, FS_CardinalityType
  <1> HIDE DEF A, B, n
  <1>7. Cardinality(B) = Cardinality(A) + Owns(Last(ops).op)
    <2>1. CASE Last(ops).op \in OwnerOps
      <3>1. B = A \union {n} /\ Owns(Last(ops).op) = 1
        BY <1>5, <2>1 DEF Owns
      <3>2. QED
        BY <1>6, <3>1
    <2>2. CASE Last(ops).op \notin OwnerOps
      <3>1. B = A /\ Owns(Last(ops).op) = 0
        BY <1>5, <2>2 DEF Owns
      <3>2. QED
        BY <1>6, <3>1
    <2>3. QED
      BY <2>1, <2>2
  <1>8. QED
    BY <1>6, <1>7 DEF Owned, A, B

-----------------------------------------------------------------------------
(* An Exec in which some parts are replaced. *)
LEMMA MachineParts ==
  ASSUME NEW b, NEW i, NEW s, NEW o, NEW e
  PROVE  /\ Machine(b, i, s, o, e).block = b /\ Machine(b, i, s, o, e).ip = i
         /\ Machine(b, i, s, o, e).stack = s /\ Machine(b, i, s, o, e).ops = o
         /\ Machine(b, i, s, o, e).env = e
         /\ \A x : [Machine(b, i, s, o, e) EXCEPT !.stack = x] = Machine(b, i, x, o, e)
         /\ \A x : [Machine(b, i, s, o, e) EXCEPT !.ip = x] = Machine(b, x, s, o, e)
         /\ \A x : [Machine(b, i, s, o, e) EXCEPT !.ops = x] = Machine(b, i, s, x, e)
         /\ \A x : [Machine(b, i, s, o, e) EXCEPT !.env = x] = Machine(b, i, s, o, x)
         /\ \A x : [Machine(b, i, s, o, e) EXCEPT !.block = x] = Machine(x, i, s, o, e)
  <1>1. /\ Machine(b, i, s, o, e).block = b /\ Machine(b, i, s, o, e).ip = i
        /\ Machine(b, i, s, o, e).stack = s /\ Machine(b, i, s, o, e).ops = o
        /\ Machine(b, i, s, o, e).env = e
    BY DEF Machine
  <1>2. ASSUME NEW x
        PROVE  [Machine(b, i, s, o, e) EXCEPT !.stack = x] = Machine(b, i, x, o, e)
    BY DEF Machine
  <1>3. ASSUME NEW x
        PROVE  [Machine(b, i, s, o, e) EXCEPT !.ip = x] = Machine(b, x, s, o, e)
    BY DEF Machine
  <1>4. ASSUME NEW x
        PROVE  [Machine(b, i, s, o, e) EXCEPT !.ops = x] = Machine(b, i, s, x, e)
    BY DEF Machine
  <1>5. ASSUME NEW x
        PROVE  [Machine(b, i, s, o, e) EXCEPT !.env = x] = Machine(b, i, s, o, x)
    BY DEF Machine
  <1>6. ASSUME NEW x
        PROVE  [Machine(b, i, s, o, e) EXCEPT !.block = x] = Machine(x, i, s, o, e)
    BY DEF Machine
  <1>7. QED
    BY <1>1, <1>2, <1>3, <1>4, <1>5, <1>6

(* A frame more, or a context more or less. *)
LEMMA ExcessMoves ==
  ASSUME NEW b, NEW i, NEW s, NEW o, NEW e, NEW n \in Int, Excess(Machine(b, i, s, o, e), n)
  PROVE  /\ \A x, y, z : Excess(Machine(x, y, z, o, e), n)
         /\ \A x, y, z, f : Excess(Machine(x, y, z, Append(o, f), e), n - Owns(f.op))
         /\ \A x, y, z, c : Excess(Machine(x, y, z, o, Append(e, c)), n + 1)
         /\ e # << >> => \A x, y, z : Excess(Machine(x, y, z, o, Front(e)), n - 1)
         /\ o # << >> => \A x, y, z : Excess(Machine(x, y, z, Front(o), e), n + Owns(Last(o).op))
  <1>1. IsSequence(o) /\ IsSequence(e) /\ Len(e) = 1 + Owned(o) + n
    <2>1. PICK b1, i1, s1, o1, e1 : /\ Machine(b, i, s, o, e) = Machine(b1, i1, s1, o1, e1)
                                    /\ IsSequence(o1) /\ IsSequence(e1)
                                    /\ Len(e1) = 1 + Owned(o1) + n
      BY DEF Excess
    <2>2. o = o1 /\ e = e1
      BY <2>1 DEF Machine
    <2>3. QED
      BY <2>1, <2>2
  <1>2. Owned(o) \in Nat /\ \A op : Owns(op) \in Nat
    BY <1>1, OwnedByOneMore DEF Owns
  <1>3. \A x, y, z : Excess(Machine(x, y, z, o, e), n)
    BY <1>1 DEF Excess
  <1>4. ASSUME NEW f PROVE \A x, y, z : Excess(Machine(x, y, z, Append(o, f), e), n - Owns(f.op))
    <2>1. IsSequence(Append(o, f)) /\ Owned(Append(o, f)) = Owned(o) + Owns(f.op)
      BY <1>1, Stacked, OwnedByOneMore
    <2>2. Len(e) = 1 + Owned(Append(o, f)) + (n - Owns(f.op))
      BY <1>1, <1>2, <2>1
    <2>3. QED
      BY <1>1, <2>1, <2>2 DEF Excess
  <1>5. ASSUME NEW c PROVE \A x, y, z : Excess(Machine(x, y, z, o, Append(e, c)), n + 1)
    <2>1. IsSequence(Append(e, c)) /\ Len(Append(e, c)) = Len(e) + 1
      BY <1>1, Stacked
    <2>2. Len(Append(e, c)) = 1 + Owned(o) + (n + 1)
      BY <1>1, <1>2, <2>1
    <2>3. QED
      BY <1>1, <2>1, <2>2 DEF Excess
  <1>6. ASSUME e # << >> PROVE \A x, y, z : Excess(Machine(x, y, z, o, Front(e)), n - 1)
    <2>1. IsSequence(Front(e)) /\ Len(Front(e)) = Len(e) - 1
      BY <1>1, <1>6, Stacked
    <2>2. Len(Front(e)) = 1 + Owned(o) + (n - 1)
      BY <1>1, <1>2, <2>1
    <2>3. QED
      BY <1>1, <2>1, <2>2 DEF Excess
  <1>7. ASSUME o # << >>
        PROVE  \A x, y, z : Excess(Machine(x, y, z, Front(o), e), n + Owns(Last(o).op))
    <2>1. /\ IsSequence(Front(o)) /\ Owned(Front(o)) \in Nat
          /\ Owned(o) = Owned(Front(o)) + Owns(Last(o).op)
      BY <1>1, <1>7, Stacked, OwnedByOneLess
    <2>2. Len(e) = 1 + Owned(Front(o)) + (n + Owns(Last(o).op))
      BY <1>1, <1>2, <2>1
    <2>3. QED
      BY <1>1, <2>1, <2>2 DEF Excess
  <1>8. QED
    BY <1>3, <1>4, <1>5, <1>6, <1>7

-----------------------------------------------------------------------------
(* How a turn ends. *)

(* Another stack, position or block changes neither frames nor contexts. *)
LEMMA ExcessElsewhere ==
  ASSUME NEW v, NEW n \in Int, Excess(v, n)
  PROVE  /\ \A x : Excess([v EXCEPT !.stack = x], n)
         /\ \A x : Excess([v EXCEPT !.ip = x], n)
         /\ \A x : Excess([v EXCEPT !.block = x], n)
         /\ \A f : Excess([v EXCEPT !.ops = Append(@, f)], n - Owns(f.op))
         /\ \A c : Excess([v EXCEPT !.env = Append(@, c)], n + 1)
         /\ v.env # << >> => Excess([v EXCEPT !.env = Front(@)], n - 1)
         /\ v.ops # << >> => Excess([v EXCEPT !.ops = Front(@)], n + Owns(Last(v.ops).op))
  <1>1. PICK b, i, s, o, e : v = Machine(b, i, s, o, e)
    BY DEF Excess
  <1>2. v.ops = o /\ v.env = e
    BY <1>1, MachineParts
  <1>3. Excess(Machine(b, i, s, o, e), n)
    BY <1>1
  <1>4. /\ \A x, y, z : Excess(Machine(x, y, z, o, e), n)
        /\ \A x, y, z, f : Excess(Machine(x, y, z, Append(o, f), e), n - Owns(f.op))
        /\ \A x, y, z, c : Excess(Machine(x, y, z, o, Append(e, c)), n + 1)
        /\ e # << >> => \A x, y, z : Excess(Machine(x, y, z, o, Front(e)), n - 1)
        /\ o # << >> => \A x, y, z : Excess(Machine(x, y, z, Front(o), e), n + Owns(Last(o).op))
    BY <1>3, ExcessMoves
  <1>5. ASSUME NEW x PROVE Excess([v EXCEPT !.stack = x], n)
    <2>1. [v EXCEPT !.stack = x] = Machine(b, i, x, o, e)
      BY <1>1 DEF Machine
    <2>2. QED
      BY <1>4, <2>1
  <1>6. ASSUME NEW x PROVE Excess([v EXCEPT !.ip = x], n)
    <2>1. [v EXCEPT !.ip = x] = Machine(b, x, s, o, e)
      BY <1>1 DEF Machine
    <2>2. QED
      BY <1>4, <2>1
  <1>7. ASSUME NEW x PROVE Excess([v EXCEPT !.block = x], n)
    <2>1. [v EXCEPT !.block = x] = Machine(x, i, s, o, e)
      BY <1>1 DEF Machine
    <2>2. QED
      BY <1>4, <2>1
  <1>8. ASSUME NEW f PROVE Excess([v EXCEPT !.ops = Append(@, f)], n - Owns(f.op))
    <2>2. PICK g : g = Append(o, f)
      OBVIOUS
    <2>3. [v EXCEPT !.ops = g] = Machine(b, i, s, g, e)
      BY <1>1, SMTT(30) DEF Machine
    <2>1. [v EXCEPT !.ops = Append(@, f)] = Machine(b, i, s, Append(o, f), e)
      BY <1>2, <2>2, <2>3
    <2>4. QED
      BY <1>4, <2>1
  <1>9. ASSUME NEW c PROVE Excess([v EXCEPT !.env = Append(@, c)], n + 1)
    <2>1. [v EXCEPT !.env = Append(@, c)] = Machine(b, i, s, o, Append(e, c))
      BY <1>1, SMTT(30) DEF Machine
    <2>2. QED
      BY <1>4, <2>1
  <1>10. ASSUME v.env # << >> PROVE Excess([v EXCEPT !.env = Front(@)], n - 1)
    <2>1. [v EXCEPT !.env = Front(@)] = Machine(b, i, s, o, Front(e))
      BY <1>1 DEF Machine
    <2>2. QED
      BY <1>2, <1>4, <1>10, <2>1
  <1>11. ASSUME v.ops # << >>
         PROVE  Excess([v EXCEPT !.ops = Front(@)], n + Owns(Last(v.ops).op))
    <2>1. [v EXCEPT !.ops = Front(@)] = Machine(b, i, s, Front(o), e)
      BY <1>1 DEF Machine
    <2>2. QED
      BY <1>2, <1>4, <1>11, <2>1
  <1>12. QED
    BY <1>5, <1>6, <1>7, <1>8, <1>9, <1>10, <1>11

(* The same where there is no excess. *)
LEMMA BalancedElsewhere ==
  ASSUME NEW v, Balanced(v)
  PROVE  /\ \A x : Balanced([v EXCEPT !.stack = x])
         /\ \A x : Balanced([v EXCEPT !.ip = x])
         /\ \A x : Balanced([v EXCEPT !.block = x])
  <1>1. PICK n : n = 0
    OBVIOUS
  <1>2. n \in Int /\ Excess(v, n)
    BY <1>1 DEF Balanced
  <1>3. /\ \A x : Excess([v EXCEPT !.stack = x], n)
        /\ \A x : Excess([v EXCEPT !.ip = x], n)
        /\ \A x : Excess([v EXCEPT !.block = x], n)
    BY <1>2, ExcessElsewhere
  <1>4. QED
    BY <1>1, <1>3 DEF Balanced

(* Fail, Continue, Return, PushValue *)
LEMMA EndsBalanced ==
  ASSUME Balanced(vm), NEW v, Balanced(v)
  PROVE  /\ \A error : Fail(error) => Balanced(vm')
         /\ Continue(v) => Balanced(vm')
         /\ \A n, val : Return(v, n, val) => Balanced(vm')
         /\ \A val : PushValue(v, val) => Balanced(vm')
         /\ \A s : Continue([v EXCEPT !.stack = s]) => Balanced(vm')
  <1>1. ASSUME NEW error, Fail(error) PROVE Balanced(vm')
    <2>1. vm' = vm
      BY <1>1 DEF Fail
    <2>2. QED
      BY <2>1
  <1>2. ASSUME NEW w, Balanced(w), Continue(w) PROVE Balanced(vm')
    BY <1>2 DEF Continue
  <1>3. ASSUME NEW s PROVE Balanced([v EXCEPT !.stack = s])
    BY BalancedElsewhere
  <1>4. ASSUME NEW n, NEW val, Return(v, n, val) PROVE Balanced(vm')
    <2>1. \/ Continue([v EXCEPT !.stack = Append(Below(v, n), val)])
          \/ Fail("OutOfMemory")
      BY <1>4 DEF Return
    <2>2. QED
      BY <2>1, <1>1, <1>2, <1>3, Zenon
  <1>5. \A val : PushValue(v, val) => Balanced(vm')
    BY <1>4 DEF PushValue
  <1>6. QED
    BY <1>1, <1>2, <1>3, <1>4, <1>5, Zenon

(* PushOp of a frame that owns no context; Jump with the context its frame *)
(* owns, if it owns one. *)
LEMMA CallsBalanced ==
  ASSUME Balanced(vm), NEW v, NEW op
  PROVE  /\ Balanced(v) /\ op \notin OwnerOps => \A word, arity : PushOp(v, op, word, arity) => Balanced(vm')
         /\ Excess(v, Owns(op)) => \A b : Jump(v, b, op) => Balanced(vm')
  <1>1. /\ Owns(op) \in Int /\ Owns(op) - Owns(op) = 0
        /\ op \notin OwnerOps => 0 \in Int /\ 0 - Owns(op) = 0
    <2>1. Owns(op) \in {0, 1} /\ (op \notin OwnerOps => Owns(op) = 0)
      BY DEF Owns
    <2>2. QED
      BY <2>1
  <1>2. \A word, bp, arity : Frame(op, word, bp, arity).op = op
    BY DEF Frame
  <1>3. ASSUME NEW error, Fail(error) PROVE Balanced(vm')
    <2>1. vm' = vm
      BY <1>3 DEF Fail
    <2>2. QED
      BY <2>1
  <1>4. ASSUME Balanced(v), op \notin OwnerOps, NEW word, NEW arity, PushOp(v, op, word, arity)
        PROVE  Balanced(vm')
    <2>1. \/ Continue([v EXCEPT !.ops = Append(@, Frame(op, word, Sp(v), arity))])
          \/ Fail("OutOfMemory")
      BY <1>4 DEF PushOp
    <2>2. PICK f : f = Frame(op, word, Sp(v), arity)
      OBVIOUS
    <2>3. f.op = op /\ Excess(v, 0) /\ 0 \in Int
      BY <1>2, <1>4, <2>2 DEF Balanced
    <2>4. Excess([v EXCEPT !.ops = Append(@, f)], 0 - Owns(f.op))
      BY <2>3, ExcessElsewhere
    <2>5. Balanced([v EXCEPT !.ops = Append(@, f)])
      BY <1>1, <1>4, <2>3, <2>4 DEF Balanced
    <2>6. QED
      BY <1>3, <2>1, <2>2, <2>5 DEF Continue
  <1>5. ASSUME Excess(v, Owns(op)), NEW b, Jump(v, b, op)
        PROVE  Balanced(vm')
    <2>0. PICK f : f = Frame(op, v.block, Sp(v), LeaveMarker + v.ip)
      OBVIOUS
    <2> DEFINE w1 == [v EXCEPT !.ops = Append(@, f)]
               w2 == [w1 EXCEPT !.block = b]
               w3 == [w2 EXCEPT !.ip = 0]
    <2>1. f.op = op
      BY <1>2, <2>0
    <2>2. Continue([v EXCEPT !.ops = Append(@, f), !.block = b, !.ip = 0]) \/ Fail("OutOfMemory")
      BY <1>5, <2>0 DEF Jump
    <2>3. [v EXCEPT !.ops = Append(@, f), !.block = b, !.ip = 0] = w3
      OBVIOUS
    <2>4. Balanced(w1)
      <3>1. Excess(w1, Owns(op) - Owns(f.op))
        BY <1>1, <1>5, ExcessElsewhere
      <3>2. QED
        BY <1>1, <2>1, <3>1 DEF Balanced
    <2> HIDE DEF w1
    <2>5. Balanced(w2)
      BY <2>4, BalancedElsewhere
    <2> HIDE DEF w2
    <2>6. Balanced(w3)
      BY <2>5, BalancedElsewhere
    <2> HIDE DEF w3
    <2>7. QED
      BY <1>3, <2>2, <2>3, <2>6 DEF Continue
  <1>6. QED
    BY <1>4, <1>5

-----------------------------------------------------------------------------
(* The operation on top goes: so must the context it owns. *)
LEMMA PoppedExcess ==
  ASSUME Balanced(vm), vm.ops # << >>
  PROVE  /\ Excess(PopFrame(vm), Owns(Top.op))
         /\ Top.op \notin OwnerOps => Balanced(PopFrame(vm))
  <1>1. PICK n : n = 0
    OBVIOUS
  <1>2. n \in Int /\ Excess(vm, n)
    BY <1>1 DEF Balanced
  <1>3. Excess([vm EXCEPT !.ops = Front(@)], n + Owns(Last(vm.ops).op))
    BY <1>2, ExcessElsewhere
  <1>4. Owns(Top.op) \in {0, 1} /\ (Top.op \notin OwnerOps => Owns(Top.op) = 0)
    BY DEF Owns
  <1>5. n + Owns(Top.op) = Owns(Top.op)
    BY <1>1, <1>4
  <1>6. Excess(PopFrame(vm), Owns(Top.op))
    BY <1>3, <1>5 DEF PopFrame, Top
  <1>7. QED
    BY <1>4, <1>6 DEF Balanced

(* A native function owns no context. *)
LEMMA NativePopped ==
  ASSUME Balanced(vm), NEW name, Calls(name)
  PROVE  Balanced(PopFrame(vm))
  <1>1. vm.ops # << >> /\ Top.op = "CALL_NATIVE"
    BY DEF Calls, Run
  <1>2. QED
    BY <1>1, PoppedExcess DEF OwnerOps

(* Back to the block a frame remembers. *)
LEMMA ResumeBalanced ==
  ASSUME NEW v, Balanced(v), NEW f
  PROVE  Balanced(Resume(v, f))
  <1> DEFINE w == [v EXCEPT !.block = f.word]
  <1>1. Resume(v, f) = [w EXCEPT !.ip = f.arity - LeaveMarker]
    BY DEF Resume
  <1>2. Balanced(w)
    BY BalancedElsewhere
  <1> HIDE DEF w
  <1>3. QED
    BY <1>1, <1>2, BalancedElsewhere

(* A frame that owns nothing. *)
LEMMA PlainFrame ==
  ASSUME NEW v, Balanced(v), NEW f, Owns(f.op) = 0
  PROVE  Balanced([v EXCEPT !.ops = Append(@, f)])
  <1>1. PICK n : n = 0
    OBVIOUS
  <1>2. n \in Int /\ Excess(v, n) /\ n - Owns(f.op) = n
    BY <1>1 DEF Balanced
  <1>3. Excess([v EXCEPT !.ops = Append(@, f)], n - Owns(f.op))
    BY <1>2, ExcessElsewhere
  <1>4. QED
    BY <1>1, <1>2, <1>3 DEF Balanced

(* Leave *)
LEMMA LeaveBalanced ==
  ASSUME Balanced(vm), NEW v, Balanced(v), NEW f, Leave(v, f)
  PROVE  Balanced(vm')
  <1>1. Balanced(Resume(v, f))
    BY ResumeBalanced
  <1>2. \/ \E error : Fail(error)
        \/ \E n, val : Return(Resume(v, f), n, val)
    BY DEF Leave
  <1>3. QED
    BY <1>1, <1>2, EndsBalanced

-----------------------------------------------------------------------------
(* The native functions. *)

(* Natives that enter no block keep the contexts and the frames in step.   *)
LEMMA SimpleNativesBalanced ==
  ASSUME Balanced(vm), add \/ lt \/ is_block \/ form \/ func \/ print
  PROVE  Balanced(vm')
  <1> DEFINE v == PopFrame(vm)
  <1>1. Balanced(v)
    BY NativePopped DEF add, lt, is_block, form, func, print
  <1>2. \/ \E error : Fail(error)
        \/ \E n, val : Return(v, n, val)
        \/ \E s : Continue([v EXCEPT !.stack = s])
    <2>1. CASE add
      BY <2>1 DEF add
    <2>2. CASE lt
      BY <2>2 DEF lt
    <2>3. CASE is_block
      BY <2>3 DEF is_block
    <2>4. CASE form
      BY <2>4 DEF form
    <2>5. CASE func
      BY <2>5 DEF func
    <2>6. CASE print
      BY <2>6 DEF print
    <2>7. QED
      BY <2>1, <2>2, <2>3, <2>4, <2>5, <2>6
  <1> HIDE DEF v
  <1>3. QED
    BY <1>1, <1>2, EndsBalanced

(* do, either and reduce run a block under a frame that owns nothing. *)
LEMMA BlockNativesBalanced ==
  ASSUME Balanced(vm), func_do \/ either \/ reduce
  PROVE  Balanced(vm')
  <1> DEFINE v == PopFrame(vm)
  <1>1. Balanced(v)
    BY NativePopped DEF func_do, either, reduce
  <1>2. \/ \E error : Fail(error)
        \/ Continue(v)
        \/ \E s, b, op : op \in {"LEAVE_BLOCK", "REDUCE"} /\ Jump([v EXCEPT !.stack = s], b, op)
    <2>1. CASE func_do
      BY <2>1 DEF func_do
    <2>2. CASE either
      BY <2>2 DEF either
    <2>3. CASE reduce
      BY <2>3 DEF reduce
    <2>4. QED
      BY <2>1, <2>2, <2>3
  <1> HIDE DEF v
  <1>3. ASSUME NEW s, NEW b, NEW op \in {"LEAVE_BLOCK", "REDUCE"}, Jump([v EXCEPT !.stack = s], b, op)
        PROVE  Balanced(vm')
    <2>1. PICK w : w = [v EXCEPT !.stack = s]
      OBVIOUS
    <2>2. Balanced(w)
      BY <1>1, <2>1, BalancedElsewhere
    <2>3. Owns(op) = 0
      BY DEF Owns, OwnerOps
    <2>4. Excess(w, Owns(op)) /\ Jump(w, b, op)
      BY <1>3, <2>1, <2>2, <2>3 DEF Balanced
    <2>5. QED
      BY <2>4, CallsBalanced
  <1>4. QED
    BY <1>1, <1>2, <1>3, EndsBalanced

(* A context that no frame owns yet. *)
LEMMA EnteredExcess ==
  ASSUME NEW v
  PROVE  /\ Balanced(v) => \A c : Excess([v EXCEPT !.env = Append(@, c)], 1)
         /\ Excess(v, 1) => \A g : Excess([v EXCEPT !.stack = g], 1)
         /\ Excess(v, 1) => \A f : Owns(f.op) = 1 => Balanced([v EXCEPT !.ops = Append(@, f)])
  <1>1. PICK n, m : n = 0 /\ m = 1
    OBVIOUS
  <1>2. n \in Int /\ m \in Int /\ n + 1 = m /\ m - m = n
    BY <1>1
  <1>3. ASSUME Excess(v, n), NEW c PROVE Excess([v EXCEPT !.env = Append(@, c)], m)
    <2>1. Excess([v EXCEPT !.env = Append(@, c)], n + 1)
      BY <1>2, <1>3, ExcessElsewhere
    <2>2. QED
      BY <1>2, <2>1
  <1>4. ASSUME Excess(v, m), NEW g PROVE Excess([v EXCEPT !.stack = g], m)
    BY <1>2, <1>4, ExcessElsewhere
  <1>5. ASSUME Excess(v, m), NEW f, Owns(f.op) = m PROVE Excess([v EXCEPT !.ops = Append(@, f)], n)
    <2>1. Excess([v EXCEPT !.ops = Append(@, f)], m - Owns(f.op))
      BY <1>2, <1>5, ExcessElsewhere
    <2>2. QED
      BY <1>2, <1>5, <2>1
  <1>6. QED
    BY <1>1, <1>3, <1>4, <1>5 DEF Balanced

(* context: the frame CONTEXT owns the new context. *)
LEMMA ContextBalanced ==
  ASSUME Balanced(vm), context
  PROVE  Balanced(vm')
  <1>1. Balanced(PopFrame(vm))
    BY NativePopped DEF context
  <1>2. PICK v : v = PopFrame(vm)
    OBVIOUS
  <1>3. PICK s, c, f, b :
          /\ f.op = "CONTEXT"
          /\ \/ \E error : Fail(error)
             \/ Jump([v EXCEPT !.stack = s, !.env = Append(@, c), !.ops = Append(@, f)], b, "LEAVE_BLOCK")
    <2>1. Frame("CONTEXT", 0, Sp(v) - 1, 1).op = "CONTEXT"
      BY DEF Frame
    <2>2. QED
      BY <1>2, <2>1 DEF context
  <1> DEFINE w1 == [v EXCEPT !.stack = s]
             w2 == [w1 EXCEPT !.env = Append(@, c)]
             w3 == [w2 EXCEPT !.ops = Append(@, f)]
  <1>4. [v EXCEPT !.stack = s, !.env = Append(@, c), !.ops = Append(@, f)] = w3
    OBVIOUS
  <1>5. Balanced(w1)
    BY <1>1, <1>2, BalancedElsewhere
  <1> HIDE DEF w1
  <1>6. Excess(w2, 1)
    BY <1>5, EnteredExcess
  <1> HIDE DEF w2
  <1>7. Owns(f.op) = 1 /\ Owns("LEAVE_BLOCK") = 0
    BY <1>3 DEF Owns, OwnerOps
  <1>8. Balanced(w3)
    BY <1>6, <1>7, EnteredExcess
  <1> HIDE DEF w3
  <1>9. Excess(w3, Owns("LEAVE_BLOCK"))
    BY <1>7, <1>8 DEF Balanced
  <1>10. QED
    BY <1>1, <1>3, <1>4, <1>9, EndsBalanced, CallsBalanced

(* foreach: the frame of the loop owns its context. *)
LEMMA ForeachBalanced ==
  ASSUME Balanced(vm), foreach
  PROVE  Balanced(vm')
  <1>1. Balanced(PopFrame(vm))
    BY NativePopped DEF foreach
  <1>2. PICK v : v = PopFrame(vm)
    OBVIOUS
  <1>3. PICK s, c, b :
          \/ \E error : Fail(error)
          \/ Continue([v EXCEPT !.stack = s])
          \/ Jump([v EXCEPT !.env = Append(@, c), !.stack = WithOffset(@)], b, "FOREACH")
    BY <1>2 DEF foreach
  <1> DEFINE w1 == [v EXCEPT !.env = Append(@, c)]
             w2 == [w1 EXCEPT !.stack = WithOffset(@)]
  <1>4. [v EXCEPT !.env = Append(@, c), !.stack = WithOffset(@)] = w2
    OBVIOUS
  <1>5. Excess(w1, 1)
    BY <1>1, <1>2, EnteredExcess
  <1> HIDE DEF w1
  <1>6. Excess(w2, 1)
    BY <1>5, EnteredExcess
  <1> HIDE DEF w2
  <1>7. Owns("FOREACH") = 1
    BY DEF Owns, OwnerOps
  <1>8. Excess(w2, Owns("FOREACH"))
    BY <1>6, <1>7
  <1>9. QED
    BY <1>1, <1>2, <1>3, <1>4, <1>8, EndsBalanced, CallsBalanced

-----------------------------------------------------------------------------
(* Words and functions. *)

(* SET_WORD *)
LEMMA SetWordBalanced ==
  ASSUME Balanced(vm), SetWord
  PROVE  Balanced(vm')
  <1>1. Balanced(PopFrame(vm))
    <2>1. vm.ops # << >> /\ Top.op = "SET_WORD"
      BY DEF SetWord, Run
    <2>2. QED
      BY <2>1, PoppedExcess DEF OwnerOps
  <1>2. Continue(PopFrame(vm)) \/ \E error : Fail(error)
    BY DEF SetWord
  <1>3. QED
    BY <1>1, <1>2, EndsBalanced

(* A call: its frame owns the context of its arguments. *)
LEMMA CallFunctionBalanced ==
  ASSUME Balanced(vm), NEW v, Balanced(v), NEW desc, CallFunction(v, desc)
  PROVE  Balanced(vm')
  <1>1. PICK s, c, b :
          \/ \E error : Fail(error)
          \/ Jump([v EXCEPT !.stack = s, !.env = Append(@, c)], b, "LEAVE_FUNC")
    BY DEF CallFunction
  <1> DEFINE w1 == [v EXCEPT !.stack = s]
             w2 == [w1 EXCEPT !.env = Append(@, c)]
  <1>2. [v EXCEPT !.stack = s, !.env = Append(@, c)] = w2
    OBVIOUS
  <1>3. Balanced(w1)
    BY BalancedElsewhere
  <1> HIDE DEF w1
  <1>4. Excess(w2, 1)
    BY <1>3, EnteredExcess
  <1> HIDE DEF w2
  <1>5. Owns("LEAVE_FUNC") = 1
    BY DEF Owns, OwnerOps
  <1>6. QED
    BY <1>1, <1>2, <1>4, <1>5, EndsBalanced, CallsBalanced

(* CALL_FUNC *)
LEMMA CallFuncBalanced ==
  ASSUME Balanced(vm), CallFunc
  PROVE  Balanced(vm')
  <1>1. vm.ops # << >> /\ Top.op = "CALL_FUNC" /\ CallFunction(PopFrame(vm), Top.word)
    BY DEF CallFunc, Run
  <1>2. Balanced(PopFrame(vm))
    BY <1>1, PoppedExcess DEF OwnerOps
  <1>3. QED
    BY <1>1, <1>2, CallFunctionBalanced

(* The next value: the frames it may add own nothing yet. *)
LEMMA FetchBalanced ==
  ASSUME Balanced(vm), Fetch
  PROVE  Balanced(vm')
  <1> DEFINE v == [vm EXCEPT !.ip = @ + 1]
             r == resolve(vm.env, PairAt(vm.block, 2 * vm.ip))
  <1>1. Balanced(v)
    BY BalancedElsewhere
  <1>2. \/ Fail(r.error)
        \/ FetchNative(v, r.val[2])
        \/ FetchFunc(v, r.val[2])
        \/ PushOp(v, "SET_WORD", r.val[2], 1)
        \/ PushValue(v, r.val)
    BY DEF Fetch
  <1> HIDE DEF v, r
  <1>3. ASSUME NEW fn, FetchNative(v, fn) PROVE Balanced(vm')
    <2>1. PICK f, val, arity :
            /\ f.op = "CALL_NATIVE"
            /\ \/ \E error : Fail(error)
               \/ PushValue([v EXCEPT !.ops = Append(@, f), !.ip = @ + 1], val)
               \/ PushOp(v, "CALL_NATIVE", fn, arity)
      <3>1. Frame("CALL_NATIVE", fn, Sp(v), 3).op = "CALL_NATIVE"
        BY DEF Frame
      <3>2. QED
        BY <1>3, <3>1 DEF FetchNative
    <2> DEFINE w1 == [v EXCEPT !.ops = Append(@, f)]
               w2 == [w1 EXCEPT !.ip = @ + 1]
    <2>2. [v EXCEPT !.ops = Append(@, f), !.ip = @ + 1] = w2
      OBVIOUS
    <2>3. Owns(f.op) = 0 /\ "CALL_NATIVE" \notin OwnerOps
      BY <2>1 DEF Owns, OwnerOps
    <2>4. Balanced(w1)
      BY <1>1, <2>3, PlainFrame
    <2> HIDE DEF w1
    <2>5. Balanced(w2)
      BY <2>4, BalancedElsewhere
    <2> HIDE DEF w2
    <2>6. QED
      BY <1>1, <2>1, <2>2, <2>3, <2>5, EndsBalanced, CallsBalanced
  <1>4. ASSUME NEW desc, FetchFunc(v, desc) PROVE Balanced(vm')
    <2>1. \/ \E error : Fail(error)
          \/ CallFunction(v, desc)
          \/ \E arity : PushOp(v, "CALL_FUNC", desc, arity)
      BY <1>4 DEF FetchFunc
    <2>2. "CALL_FUNC" \notin OwnerOps
      BY DEF OwnerOps
    <2>3. QED
      BY <1>1, <2>1, <2>2, EndsBalanced, CallsBalanced, CallFunctionBalanced
  <1>5. "SET_WORD" \notin OwnerOps
    BY DEF OwnerOps
  <1>6. QED
    BY <1>1, <1>2, <1>3, <1>4, <1>5, EndsBalanced, CallsBalanced

-----------------------------------------------------------------------------
(* The end of a block. *)

(* What a frame owned, and what is left when its context goes. *)
LEMMA ReleasedExcess ==
  ASSUME NEW v, Excess(v, 1), v.env # << >>
  PROVE  Balanced([v EXCEPT !.env = Front(@)])
  <1>1. PICK n, m : n = 0 /\ m = 1
    OBVIOUS
  <1>2. m \in Int /\ m - 1 = n
    BY <1>1
  <1>3. Excess([v EXCEPT !.env = Front(@)], m - 1)
    BY <1>1, <1>2, ExcessElsewhere
  <1>4. QED
    BY <1>1, <1>2, <1>3 DEF Balanced

(* CONTEXT *)
LEMMA EndContextBalanced ==
  ASSUME Balanced(vm), EndContext
  PROVE  Balanced(vm')
  <1>1. vm.ops # << >> /\ Top.op = "CONTEXT"
    BY DEF EndContext, Run
  <1>2. Excess(PopFrame(vm), 1)
    <2>1. Owns(Top.op) = 1
      BY <1>1 DEF Owns, OwnerOps
    <2>2. QED
      BY <1>1, <2>1, PoppedExcess
  <1> DEFINE v == PopFrame(vm)
  <1>3. \/ Fail("StackUnderflow")
        \/ v.env # << >> /\ \E val : Return([v EXCEPT !.env = Front(@)], 1, val)
    BY DEF EndContext
  <1> HIDE DEF v
  <1>4. CASE Fail("StackUnderflow")
    BY <1>4, EndsBalanced
  <1>5. ASSUME v.env # << >>, NEW val, Return([v EXCEPT !.env = Front(@)], 1, val)
        PROVE  Balanced(vm')
    <2>1. Balanced([v EXCEPT !.env = Front(@)])
      BY <1>2, <1>5, ReleasedExcess DEF v
    <2>2. QED
      BY <1>5, <2>1, EndsBalanced
  <1>6. QED
    BY <1>3, <1>4, <1>5

(* LEAVE_BLOCK and REDUCE own nothing, LEAVE_FUNC the context of the call. *)
LEMMA LeavesBalanced ==
  ASSUME Balanced(vm), LeaveBlock \/ LeaveReduce \/ LeaveFunc
  PROVE  Balanced(vm')
  <1> DEFINE v == PopFrame(vm)
  <1>1. CASE LeaveBlock
    <2>1. vm.ops # << >> /\ Top.op = "LEAVE_BLOCK" /\ Leave(v, Top)
      BY <1>1 DEF LeaveBlock, EndOf
    <2>2. Balanced(v)
      BY <2>1, PoppedExcess DEF OwnerOps
    <2> HIDE DEF v
    <2>3. QED
      BY <2>1, <2>2, LeaveBalanced
  <1>2. CASE LeaveReduce
    <2>1. vm.ops # << >> /\ Top.op = "REDUCE"
      BY <1>2 DEF LeaveReduce, EndOf
    <2>2. Balanced(v)
      BY <2>1, PoppedExcess DEF OwnerOps
    <2>3. \/ \E error : Fail(error)
          \/ \E n, val : Return(Resume(v, Top), n, val)
      BY <1>2 DEF LeaveReduce
    <2> HIDE DEF v
    <2>4. Balanced(Resume(v, Top))
      BY <2>2, ResumeBalanced
    <2>5. QED
      BY <2>3, <2>4, EndsBalanced
  <1>3. CASE LeaveFunc
    <2>1. /\ vm.ops # << >> /\ Top.op = "LEAVE_FUNC"
          /\ \/ Fail("StackUnderflow")
             \/ v.env # << >> /\ Leave([v EXCEPT !.env = Front(@)], Top)
      BY <1>3 DEF LeaveFunc, EndOf
    <2>2. Excess(v, 1)
      <3>1. Owns(Top.op) = 1
        BY <2>1 DEF Owns, OwnerOps
      <3>2. QED
        BY <2>1, <3>1, PoppedExcess
    <2> HIDE DEF v
    <2>3. v.env # << >> => Balanced([v EXCEPT !.env = Front(@)])
      BY <2>2, ReleasedExcess
    <2>4. QED
      BY <2>1, <2>3, EndsBalanced, LeaveBalanced
  <1>4. QED
    BY <1>1, <1>2, <1>3

(* FOREACH: while the data goes on, another frame takes the place of the   *)
(* frame of the loop and owns its context; then the context goes with it.  *)
LEMMA LeaveForeachBalanced ==
  ASSUME Balanced(vm), LeaveForeach
  PROVE  Balanced(vm')
  <1>1. vm.ops # << >> /\ Top.op = "FOREACH"
    BY DEF LeaveForeach, EndOf
  <1>2. Excess(PopFrame(vm), 1)
    <2>1. Owns(Top.op) = 1
      BY <1>1 DEF Owns, OwnerOps
    <2>2. QED
      BY <1>1, <2>1, PoppedExcess
  <1>3. PICK v : v = [PopFrame(vm) EXCEPT !.stack = SubSeq(vm.stack, 1, Top.bp - 1)]
    OBVIOUS
  <1>4. Excess(v, 1)
    BY <1>2, <1>3, EnteredExcess
  <1>5. \/ \E error : Fail(error)
        \/ \E s, f, b : /\ f.op = "FOREACH"
                        /\ Continue([v EXCEPT !.stack = s, !.ops = Append(@, f), !.block = b, !.ip = 0])
        \/ v.env # << >> /\ \E s : Continue(Resume([v EXCEPT !.stack = s, !.env = Front(@)], Top))
    <2>1. Frame("FOREACH", Top.word, Top.bp, Top.arity).op = "FOREACH"
      BY DEF Frame
    <2>2. QED
      BY <1>3, <2>1 DEF LeaveForeach
  <1>6. ASSUME NEW s, NEW f, NEW b, f.op = "FOREACH",
               Continue([v EXCEPT !.stack = s, !.ops = Append(@, f), !.block = b, !.ip = 0])
        PROVE  Balanced(vm')
    <2> DEFINE w1 == [v EXCEPT !.stack = s]
               w2 == [w1 EXCEPT !.ops = Append(@, f)]
               w3 == [w2 EXCEPT !.block = b]
               w4 == [w3 EXCEPT !.ip = 0]
    <2>1. [v EXCEPT !.stack = s, !.ops = Append(@, f), !.block = b, !.ip = 0] = w4
      OBVIOUS
    <2>2. Owns(f.op) = 1
      BY <1>6 DEF Owns, OwnerOps
    <2>3. Excess(w1, 1)
      BY <1>4, EnteredExcess
    <2> HIDE DEF w1
    <2>4. Balanced(w2)
      BY <2>2, <2>3, EnteredExcess
    <2> HIDE DEF w2
    <2>5. Balanced(w3)
      BY <2>4, BalancedElsewhere
    <2> HIDE DEF w3
    <2>6. Balanced(w4)
      BY <2>5, BalancedElsewhere
    <2> HIDE DEF w4
    <2>7. QED
      BY <1>6, <2>1, <2>6 DEF Continue
  <1>7. ASSUME v.env # << >>, NEW s, Continue(Resume([v EXCEPT !.stack = s, !.env = Front(@)], Top))
        PROVE  Balanced(vm')
    <2> DEFINE w1 == [v EXCEPT !.stack = s]
               w2 == [w1 EXCEPT !.env = Front(@)]
    <2>1. [v EXCEPT !.stack = s, !.env = Front(@)] = w2
      OBVIOUS
    <2>2. Excess(w1, 1) /\ w1.env = v.env
      <3>1. Excess(w1, 1)
        BY <1>4, EnteredExcess
      <3>2. w1.env = v.env
        BY <1>4 DEF Excess, Machine
      <3>3. QED
        BY <3>1, <3>2
    <2> HIDE DEF w1
    <2>3. Balanced(w2)
      BY <1>7, <2>2, ReleasedExcess
    <2> HIDE DEF w2
    <2>4. Balanced(Resume(w2, Top))
      BY <2>3, ResumeBalanced
    <2>5. QED
      BY <1>7, <2>1, <2>4 DEF Continue
  <1>8. QED
    BY <1>5, <1>6, <1>7, EndsBalanced

-----------------------------------------------------------------------------
(* Init *)
LEMMA InitBalanced ==
  ASSUME Init
  PROVE  Balanced(vm)
  <1>1. PICK main : vm = Machine(main, 0, << >>, << >>, <<1>>)
    BY DEF Init, NewExec, Machine
  <1>2. IsSequence(<< >>) /\ IsSequence(<<1>>) /\ Len(<<1>>) = 1
    <2>1. << >> \in Seq({1}) /\ <<1>> \in Seq({1}) /\ Len(<<1>>) = 1
      OBVIOUS
    <2>2. QED
      BY <2>1 DEF IsSequence
  <1>3. Owned(<< >>) = 0
    <2>1. {i \in DOMAIN << >> : << >>[i].op \in OwnerOps} = {}
      OBVIOUS
    <2>2. QED
      BY <2>1, FS_EmptySet DEF Owned
  <1>4. Len(<<1>>) = 1 + Owned(<< >>) + 0
    BY <1>2, <1>3
  <1>5. QED
    BY <1>1, <1>2, <1>4 DEF Balanced, Excess

(* A turn of the loop. *)
LEMMA NextBalanced ==
  ASSUME Balanced(vm), [Next]_vars
  PROVE  Balanced(vm')
  <1>1. CASE Fetch
    BY <1>1, FetchBalanced
  <1>2. CASE SetWord
    BY <1>2, SetWordBalanced
  <1>3. CASE CallFunc
    BY <1>3, CallFuncBalanced
  <1>4. CASE EndContext
    BY <1>4, EndContextBalanced
  <1>5. CASE CallNative
    BY <1>5, SimpleNativesBalanced, BlockNativesBalanced, ContextBalanced, ForeachBalanced
       DEF CallNative
  <1>6. CASE EndBlock
    <2>1. CASE Finish
      BY <2>1 DEF Finish
    <2>2. CASE LeaveForeach
      BY <2>2, LeaveForeachBalanced
    <2>3. CASE LeaveBlock \/ LeaveReduce \/ LeaveFunc
      BY <2>3, LeavesBalanced
    <2>4. QED
      BY <1>6, <2>1, <2>2, <2>3 DEF EndBlock
  <1>7. CASE UNCHANGED vars
    BY <1>7 DEF vars
  <1>8. QED
    BY <1>1, <1>2, <1>3, <1>4, <1>5, <1>6, <1>7 DEF Next

(* Every context on env but the first belongs to one frame, whatever the   *)
(* program, the limits and the way its blocks end: eval never leaves or    *)
(* keeps a scope it did not enter or leave. *)
THEOREM EveryContextHasItsFrame == Spec => []EnvMatchesFrames
  <1>1. Init => Balanced(vm)
    BY InitBalanced
  <1>2. Balanced(vm) /\ [Next]_vars => Balanced(vm)'
    BY NextBalanced
  <1>3. Balanced(vm) => EnvMatchesFrames
    <2> SUFFICES ASSUME Balanced(vm) PROVE EnvMatchesFrames
      OBVIOUS
    <2>1. PICK b, i, s, o, e : /\ vm = Machine(b, i, s, o, e)
                               /\ IsSequence(o) /\ IsSequence(e)
                               /\ Len(e) = 1 + Owned(o) + 0
      BY DEF Balanced, Excess
    <2>2. vm.ops = o /\ vm.env = e
      BY <2>1, MachineParts
    <2>3. Owned(o) \in Nat /\ Owned(o) = Cardinality(Owners)
      BY <2>1, <2>2, OwnedByOneMore DEF Owned, Owners
    <2>4. QED
      BY <2>1, <2>2, <2>3 DEF EnvMatchesFrames
  <1>4. QED
    BY <1>1, <1>2, <1>3, PTL DEF Spec

-----------------------------------------------------------------------------
(* Numbers. *)

(* A set of numbers has a least element. *)
LEMMA Smallest ==
  ASSUME NEW T \in SUBSET Nat, T # {}
  PROVE  \E x \in T : \A y \in T : x =< y
  <1> DEFINE R == OpToRel(<, Nat)
  <1>1. IsWellFoundedOn(R, Nat)
    BY NatLessThanWellFounded, Zenon
  <1>2. \A x, y \in Nat : <<x, y>> \in R <=> x < y
    BY DEF OpToRel
  <1> HIDE DEF R
  <1>3. PICK x \in T : \A y \in T : ~(<<y, x>> \in R)
    BY <1>1, WFMin, Zenon
  <1>4. ASSUME NEW y \in T PROVE x =< y
    <2>1. x \in Nat /\ y \in Nat
      OBVIOUS
    <2>2. ~(y < x)
      BY <1>2, <1>3, <2>1
    <2>3. QED
      BY <2>1, <2>2
  <1>5. QED
    BY <1>4

(* The least element of a set of numbers is one of its elements.           *)
LEMMA MinMember ==
  ASSUME NEW T \in SUBSET Nat, T # {}
  PROVE  Min(T) \in T
  <1>1. PICK x \in T : \A y \in T : x =< y
    BY Smallest
  <1>2. QED
    BY <1>1 DEF Min

(* So is the greatest one of a bounded set.                                *)
LEMMA MaxMember ==
  ASSUME NEW n \in Nat, NEW T \in SUBSET (1 .. n), T # {}
  PROVE  Max(T) \in T
  <1> DEFINE U == {m \in Nat : \A y \in T : y =< m}
  <1>1. n \in U /\ U \in SUBSET Nat
    OBVIOUS
  <1>2. PICK x \in U : \A y \in U : x =< y
    <2>1. U # {}
      BY <1>1
    <2> HIDE DEF U
    <2>2. QED
      BY <1>1, <2>1, Smallest
  <1>3. x \in T
    <2> SUFFICES ASSUME x \notin T PROVE FALSE
      OBVIOUS
    <2>1. x \in Nat /\ x >= 1
      <3>1. PICK y : y \in T
        OBVIOUS
      <3>2. x \in Nat /\ y =< x /\ y \in Nat /\ y >= 1
        BY <3>1
      <3>3. QED
        BY <3>2
    <2>2. \A y \in T : y \in Nat /\ y =< x /\ y # x
      OBVIOUS
    <2>3. x - 1 \in U
      BY <2>1, <2>2
    <2>4. QED
      BY <1>2, <2>1, <2>3
  <1>4. x \in T /\ \A y \in T : x >= y
    BY <1>3
  <1>5. QED
    BY <1>4 DEF Max

(* What holds at first and is kept holds everywhere. *)
LEMMA Everywhere ==
  ASSUME NEW N \in Nat, NEW T, NEW g, g[0] \in T, \A n \in 1 .. N : g[n - 1] \in T => g[n] \in T
  PROVE  \A n \in 0 .. N : g[n] \in T
  <1> DEFINE B == {n \in 0 .. N : g[n] \notin T}
  <1> SUFFICES ASSUME B # {} PROVE FALSE
    OBVIOUS
  <1>1. B \in SUBSET Nat
    OBVIOUS
  <1> HIDE DEF B
  <1>2. PICK x \in B : \A y \in B : x =< y
    BY <1>1, Smallest
  <1> USE DEF B
  <1>3. x \in 1 .. N /\ x - 1 \in 0 .. N /\ x - 1 \notin B
    <2>1. x # 0
      OBVIOUS
    <2>2. x \in Nat /\ x - 1 < x
      OBVIOUS
    <2>3. QED
      BY <1>2, <2>1, <2>2
  <1>4. QED
    BY <1>3

(* A recursion step by step has a solution. *)
Iterates(g, N, T, base, F) ==
  g \in [0 .. N -> T] /\ g[0] = base /\ \A n \in 1 .. N : g[n] = F[n][g[n - 1]]
(* Such a recursion exists.                                                *)
LEMMA Iteration ==
  ASSUME NEW N \in Nat, NEW T, NEW base \in T, NEW F \in [1 .. N -> [T -> T]]
  PROVE  \E g : Iterates(g, N, T, base, F)
  <1> DEFINE P(m) == \E g \in [0 .. m -> T] : g[0] = base /\ \A n \in 1 .. m : g[n] = F[n][g[n - 1]]
             B == {m \in 0 .. N : ~P(m)}
  <1> SUFFICES ASSUME ~P(N) PROVE FALSE
    BY DEF Iterates
  <1>1. B \in SUBSET Nat /\ N \in B
    OBVIOUS
  <1> HIDE DEF B
  <1>2. PICK x \in B : \A y \in B : x =< y
    BY <1>1, Smallest
  <1> USE DEF B
  <1>3. P(0)
    <2> DEFINE g == [i \in 0 .. 0 |-> base]
    <2>1. g \in [0 .. 0 -> T] /\ g[0] = base
      OBVIOUS
    <2>2. \A n \in 1 .. 0 : FALSE
      OBVIOUS
    <2> HIDE DEF g
    <2>3. QED
      BY <2>1, <2>2
  <1>4. x \in 1 .. N /\ x - 1 \in 0 .. N /\ P(x - 1)
    <2>1. x # 0 /\ x \in 0 .. N
      BY <1>3
    <2>2. x - 1 \in 0 .. N /\ ~(x =< x - 1)
      BY <2>1
    <2>3. x - 1 \notin B
      BY <1>2, <2>2
    <2>4. QED
      BY <2>1, <2>2, <2>3
  <1>5. PICK g \in [0 .. x - 1 -> T] : g[0] = base /\ \A n \in 1 .. x - 1 : g[n] = F[n][g[n - 1]]
    BY <1>4
  <1> DEFINE h == [i \in 0 .. x |-> IF i = x THEN F[x][g[x - 1]] ELSE g[i]]
  <1>6. g[x - 1] \in T /\ F[x] \in [T -> T]
    BY <1>4
  <1>7. h \in [0 .. x -> T]
    BY <1>4, <1>6
  <1>8. h[0] = base /\ h[x] = F[x][g[x - 1]] /\ h[x - 1] = g[x - 1]
    BY <1>4, <1>5
  <1>9. \A n \in 1 .. x - 1 : h[n] = g[n] /\ h[n - 1] = g[n - 1]
    BY <1>4
  <1>10. \A n \in 1 .. x : n = x \/ n \in 1 .. x - 1
    BY <1>4
  <1> HIDE DEF h
  <1>11. P(x)
    <2>1. h \in [0 .. x -> T] /\ h[0] = base
      BY <1>7, <1>8
    <2>2. ASSUME NEW n \in 1 .. x PROVE h[n] = F[n][h[n - 1]]
      <3>1. CASE n = x
        BY <1>8, <3>1
      <3>2. CASE n \in 1 .. x - 1
        BY <1>5, <1>9, <3>2
      <3>3. QED
        BY <1>10, <3>1, <3>2
    <2>3. QED
      BY <2>1, <2>2
  <1>12. QED
    BY <1>11

-----------------------------------------------------------------------------
(* Sequences. *)

(* A sequence is indexed by the numbers up to its length.                  *)
LEMMA Indexed ==
  ASSUME NEW s, IsSequence(s)
  PROVE  Len(s) \in Nat /\ DOMAIN s = 1 .. Len(s)
  BY Stacked DEF IsSequence

(* The first m elements. *)
LEMMA Truncated ==
  ASSUME NEW s, IsSequence(s), NEW m \in 0 .. Len(s)
  PROVE  /\ IsSequence(SubSeq(s, 1, m)) /\ Len(SubSeq(s, 1, m)) = m
         /\ \A i \in 1 .. m : SubSeq(s, 1, m)[i] = s[i]
  <1>1. PICK S : s \in Seq(S)
    BY DEF IsSequence
  <1>2. Len(s) \in Nat /\ \A i \in 1 .. m : s[i] \in S
    BY <1>1, LenProperties, ElementOfSeq
  <1>3. m \in Nat /\ m - 1 + 1 = m /\ (~(1 =< m) => m = 0) /\ \A i \in 1 .. m : 1 + i - 1 = i
    BY <1>2
  <1>4. /\ SubSeq(s, 1, m) \in Seq(S)
        /\ Len(SubSeq(s, 1, m)) = IF 1 =< m THEN m - 1 + 1 ELSE 0
        /\ \A i \in 1 .. m - 1 + 1 : SubSeq(s, 1, m)[i] = s[1 + i - 1]
    BY <1>2, <1>3, SubSeqProperties
  <1>5. QED
    BY <1>3, <1>4 DEF IsSequence

-----------------------------------------------------------------------------
(* The heap. *)

Mem(b, c, u) == [blocks |-> b, ctxs |-> c, used |-> u]

(* h2 has all that h has: its blocks as they are, its contexts with the    *)
(* values they have now, the keys of sealed ones among them.               *)
Grown(h, h2) ==
  /\ Len(h.blocks) =< Len(h2.blocks) /\ Len(h.ctxs) =< Len(h2.ctxs)
  /\ \A a \in DOMAIN h.blocks : h2.blocks[a] = h.blocks[a]
  /\ \A c \in DOMAIN h.ctxs :
       /\ h2.ctxs[c].cap = h.ctxs[c].cap /\ h2.ctxs[c].sealed = h.ctxs[c].sealed
       /\ h.ctxs[c].sealed => DOMAIN h2.ctxs[c].entries = DOMAIN h.ctxs[c].entries

(* The parts of a memory are sequences.                                    *)
LEMMA HeapShape ==
  ASSUME NEW h, GoodHeap(h)
  PROVE  /\ IsSequence(h.blocks) /\ IsSequence(h.ctxs)
         /\ Len(h.blocks) \in Nat /\ DOMAIN h.blocks = 1 .. Len(h.blocks)
         /\ Len(h.ctxs) \in Nat /\ DOMAIN h.ctxs = 1 .. Len(h.ctxs)
         /\ h = Mem(h.blocks, h.ctxs, h.used)
         /\ \A a \in DOMAIN h.blocks : /\ IsSequence(h.blocks[a])
                                       /\ Len(h.blocks[a]) \in Nat
                                       /\ DOMAIN h.blocks[a] = 1 .. Len(h.blocks[a])
  <1>1. IsSequence(h.blocks) /\ IsSequence(h.ctxs)
    BY DEF GoodHeap, IsSequence
  <1>2. h = Mem(h.blocks, h.ctxs, h.used)
    BY DEF GoodHeap, Mem
  <1>3. ASSUME NEW a \in DOMAIN h.blocks PROVE IsSequence(h.blocks[a])
    <2>1. h.blocks \in Seq(Seq(Cells)) /\ a \in 1 .. Len(h.blocks)
      BY <1>1, Indexed DEF GoodHeap
    <2>2. h.blocks[a] \in Seq(Cells)
      BY <2>1, ElementOfSeq
    <2>3. QED
      BY <2>2 DEF IsSequence
  <1>4. QED
    BY <1>1, <1>2, <1>3, Indexed

(* Where a function's parts are. *)
LEMMA FunctionParts ==
  ASSUME NEW h, GoodHeap(h), NEW desc, Describes(h, desc)
  PROVE  /\ desc \in DOMAIN h.blocks /\ Len(h.blocks[desc]) = 3
         /\ \A i \in 1 .. 3 : Good(h, h.blocks[desc][i])
         /\ h.blocks[desc][2][2] \in DOMAIN h.blocks
         /\ h.blocks[desc][3][2] \in DOMAIN h.blocks
  <1>1. desc \in DOMAIN h.blocks /\ Len(h.blocks[desc]) = 3 /\ DOMAIN h.blocks[desc] = 1 .. 3
    BY HeapShape DEF Describes
  <1>2. \A i \in 1 .. 3 : Good(h, h.blocks[desc][i])
    BY <1>1 DEF GoodHeap, GoodBlock
  <1>3. \A val : Good(h, val) /\ val[1] = BLOCK => val[2] \in DOMAIN h.blocks
    BY DEF Good
  <1>4. h.blocks[desc][2][1] = BLOCK /\ h.blocks[desc][3][1] = BLOCK
    BY DEF Describes
  <1>5. QED
    BY <1>1, <1>2, <1>3, <1>4

(* A value stays good. *)
LEMMA GoodStays ==
  ASSUME NEW h, GoodHeap(h), NEW h2, IsSequence(h2.blocks), IsSequence(h2.ctxs), Grown(h, h2)
  PROVE  /\ \A a \in DOMAIN h.blocks : a \in DOMAIN h2.blocks /\ h2.blocks[a] = h.blocks[a]
         /\ \A c \in DOMAIN h.ctxs : c \in DOMAIN h2.ctxs
         /\ \A desc : Describes(h, desc) => Describes(h2, desc)
         /\ \A val : Good(h, val) => Good(h2, val)
  <1>1. /\ \A a \in DOMAIN h.blocks : a \in DOMAIN h2.blocks /\ h2.blocks[a] = h.blocks[a]
        /\ \A c \in DOMAIN h.ctxs : c \in DOMAIN h2.ctxs
    BY HeapShape, Indexed DEF Grown
  <1>2. ASSUME NEW desc, Describes(h, desc) PROVE Describes(h2, desc)
    <2>1. desc \in DOMAIN h.blocks /\ h.blocks[desc][2][2] \in DOMAIN h.blocks
      BY <1>2, FunctionParts
    <2>2. QED
      BY <1>1, <1>2, <2>1 DEF Describes
  <1>3. QED
    BY <1>1, <1>2 DEF Good

(* A sequence is over the set of its own elements.                         *)
LEMMA OwnRange ==
  ASSUME NEW s, IsSequence(s)
  PROVE  s \in Seq(Range(s))
  <1>1. PICK S : s \in Seq(S)
    BY DEF IsSequence
  <1>2. Len(s) \in Nat /\ s \in [1 .. Len(s) -> S] /\ DOMAIN s = 1 .. Len(s)
    BY <1>1, LenProperties
  <1>3. s \in [1 .. Len(s) -> Range(s)]
    BY <1>2 DEF Range
  <1>4. QED
    BY <1>2, <1>3, SeqDef

(* Words are taken for one object more. *)
LEMMA Room ==
  ASSUME NEW n \in Nat, NEW m \in Nat, NEW used \in Nat, NEW words \in Nat, words >= 1,
         NEW cap \in Nat, NEW mod \in Nat, used + words =< cap,
         n + cap - used < mod, m + cap - used < mod
  PROVE  /\ used + words \in 0 .. cap /\ n + 1 \in 0 .. mod - 1
         /\ n + 1 + cap - (used + words) < mod /\ m + cap - (used + words) < mod
  OBVIOUS

(* A block of good cells added where there is room: the memory stays good, and grows. *)
LEMMA BlockAdded ==
  ASSUME NEW h, GoodHeap(h), NEW block \in Seq(Cells), \A i \in DOMAIN block : Good(h, block[i]),
         NEW words \in Nat, words > 2 * Len(block), h.used + words =< HeapCap,
         NEW h2, h2 = Mem(Append(h.blocks, block), h.ctxs, h.used + words)
  PROVE  /\ GoodHeap(h2) /\ Grown(h, h2)
         /\ Len(h2.blocks) \in DOMAIN h2.blocks /\ Len(h2.blocks) \in 0 .. WordMod - 1
         /\ h2.blocks[Len(h2.blocks)] = block
  <1> DEFINE n == Len(h.blocks)
  <1>1. /\ n \in Nat /\ DOMAIN h.blocks = 1 .. n /\ Len(h.ctxs) \in Nat
        /\ h.blocks \in Seq(Seq(Cells)) /\ h.used \in 0 .. HeapCap
        /\ n + HeapCap - h.used < WordMod /\ Len(h.ctxs) + HeapCap - h.used < WordMod
    BY HeapShape DEF GoodHeap
  <1>2. h2.blocks = Append(h.blocks, block) /\ h2.ctxs = h.ctxs /\ h2.used = h.used + words
    BY DEF Mem
  <1>3. /\ h2.blocks \in Seq(Seq(Cells)) /\ Len(h2.blocks) = n + 1
        /\ h2.blocks[n + 1] = block /\ \A a \in 1 .. n : h2.blocks[a] = h.blocks[a]
    <2>1. /\ Append(h.blocks, block) \in Seq(Seq(Cells)) /\ Len(Append(h.blocks, block)) = n + 1
          /\ Append(h.blocks, block)[n + 1] = block
          /\ \A a \in 1 .. n : Append(h.blocks, block)[a] = h.blocks[a]
      BY <1>1, AppendProperties
    <2>2. QED
      BY <1>2, <2>1
  <1>4. DOMAIN h2.blocks = 1 .. n + 1 /\ IsSequence(h2.blocks) /\ IsSequence(h2.ctxs)
    BY <1>2, <1>3, HeapShape, Indexed DEF IsSequence
  <1>5. Len(block) \in Nat /\ HeapCap \in Nat /\ WordMod \in Nat /\ HeapCap < WordMod
    BY LenProperties, HeapAssumption, WordModAssumption
  <1>6. Grown(h, h2)
    <2>1. \A a \in 1 .. n : h2.blocks[a] = h.blocks[a]
      BY <1>3
    <2>2. Len(h.blocks) =< Len(h2.blocks) /\ n \in Nat
      BY <1>1, <1>3
    <2>3. QED
      BY <1>1, <1>2, <2>1, <2>2 DEF Grown
  <1>7. \A val : Good(h, val) => Good(h2, val)
    BY <1>4, <1>6, GoodStays
  <1>8. \A a \in DOMAIN h2.blocks : GoodBlock(h2, h2.blocks[a])
    <2>1. 2 * Len(block) < WordMod
      BY <1>1, <1>5
    <2>2. GoodBlock(h2, block)
      BY <1>7, <2>1 DEF GoodBlock
    <2>3. ASSUME NEW a \in 1 .. n PROVE GoodBlock(h2, h2.blocks[a])
      <3>1. GoodBlock(h, h.blocks[a])
        BY <1>1, <2>3 DEF GoodHeap
      <3>2. QED
        BY <1>3, <1>7, <3>1 DEF GoodBlock
    <2>4. \A a \in 1 .. n + 1 : a = n + 1 \/ a \in 1 .. n
      BY <1>1
    <2>5. QED
      BY <1>3, <1>4, <2>2, <2>3, <2>4
  <1>9. \A c \in DOMAIN h2.ctxs : GoodContext(h2, h2.ctxs[c])
    BY <1>2, <1>7 DEF GoodHeap, GoodContext
  <1>10. /\ h2.used \in 0 .. HeapCap
         /\ Len(h2.blocks) + HeapCap - h2.used < WordMod /\ Len(h2.ctxs) + HeapCap - h2.used < WordMod
         /\ Len(h2.blocks) \in 0 .. WordMod - 1
    <2>1. words >= 1 /\ h.used \in Nat
      BY <1>1, <1>5
    <2>2. /\ h.used + words \in 0 .. HeapCap /\ n + 1 \in 0 .. WordMod - 1
          /\ n + 1 + HeapCap - (h.used + words) < WordMod
          /\ Len(h.ctxs) + HeapCap - (h.used + words) < WordMod
      BY <1>1, <1>5, <2>1, Room
    <2>3. QED
      BY <1>2, <1>3, <2>1, <2>2
  <1>11. h2 = [blocks |-> h2.blocks, ctxs |-> h2.ctxs, used |-> h2.used]
    BY DEF Mem
  <1>12. GoodHeap(h2)
    BY <1>2, <1>3, <1>8, <1>9, <1>10, <1>11 DEF GoodHeap
  <1>13. QED
    BY <1>1, <1>3, <1>4, <1>6, <1>10, <1>12

(* The same for a context.                                                 *)
LEMMA ContextAdded ==
  ASSUME NEW h, GoodHeap(h), NEW ctx, GoodContext(h, ctx),
         h.used + ContextWords(ctx.cap) =< HeapCap,
         NEW h2, h2 = Mem(h.blocks, Append(h.ctxs, ctx), h.used + ContextWords(ctx.cap))
  PROVE  /\ GoodHeap(h2) /\ Grown(h, h2)
         /\ Len(h2.ctxs) \in DOMAIN h2.ctxs /\ Len(h2.ctxs) \in 0 .. WordMod - 1
         /\ Len(h2.ctxs) = Len(h.ctxs) + 1 /\ h2.ctxs[Len(h2.ctxs)] = ctx
  <1> DEFINE n == Len(h.ctxs)
  <1>1. /\ n \in Nat /\ DOMAIN h.ctxs = 1 .. n /\ Len(h.blocks) \in Nat
        /\ h.used \in 0 .. HeapCap /\ IsSequence(h.ctxs) /\ IsSequence(h.blocks)
        /\ Len(h.blocks) + HeapCap - h.used < WordMod /\ n + HeapCap - h.used < WordMod
    BY HeapShape DEF GoodHeap
  <1>2. /\ h2.blocks = h.blocks /\ h2.ctxs = Append(h.ctxs, ctx)
        /\ h2.used = h.used + ContextWords(ctx.cap)
    BY DEF Mem
  <1>3. /\ IsSequence(h2.ctxs) /\ Len(h2.ctxs) = n + 1
        /\ h2.ctxs[n + 1] = ctx /\ \A c \in 1 .. n : h2.ctxs[c] = h.ctxs[c]
    <2>1. /\ IsSequence(Append(h.ctxs, ctx)) /\ Len(Append(h.ctxs, ctx)) = n + 1
          /\ Append(h.ctxs, ctx)[n + 1] = ctx
          /\ \A c \in 1 .. n : Append(h.ctxs, ctx)[c] = h.ctxs[c]
      BY <1>1, Stacked
    <2>2. QED
      BY <1>2, <2>1
  <1>4. DOMAIN h2.ctxs = 1 .. n + 1 /\ IsSequence(h2.blocks)
    BY <1>1, <1>2, <1>3, Indexed
  <1>5. /\ ContextWords(ctx.cap) \in Nat /\ ContextWords(ctx.cap) >= 2
        /\ HeapCap \in Nat /\ WordMod \in Nat /\ HeapCap < WordMod
    BY HeapAssumption, WordModAssumption DEF ContextWords, GoodContext
  <1>6. Grown(h, h2)
    <2>1. \A c \in 1 .. n : h2.ctxs[c] = h.ctxs[c]
      BY <1>3
    <2>2. Len(h.ctxs) =< Len(h2.ctxs) /\ Len(h.blocks) \in Nat
      BY <1>1, <1>3
    <2>3. QED
      BY <1>1, <1>2, <2>1, <2>2 DEF Grown
  <1>7. \A val : Good(h, val) => Good(h2, val)
    BY <1>3, <1>4, <1>6, GoodStays
  <1>8. \A a \in DOMAIN h2.blocks : GoodBlock(h2, h2.blocks[a])
    BY <1>2, <1>7 DEF GoodHeap, GoodBlock
  <1>9. \A c \in DOMAIN h2.ctxs : GoodContext(h2, h2.ctxs[c])
    <2>1. GoodContext(h2, ctx)
      BY <1>7 DEF GoodContext
    <2>2. \A c \in 1 .. n : GoodContext(h2, h2.ctxs[c])
      <3>1. ASSUME NEW c \in 1 .. n PROVE GoodContext(h2, h2.ctxs[c])
        <4>1. PICK y : y = h.ctxs[c]
          OBVIOUS
        <4>2. GoodContext(h, y)
          BY <1>1, <4>1 DEF GoodHeap
        <4>3. GoodContext(h2, y)
          BY <1>7, <4>2 DEF GoodContext
        <4>4. QED
          BY <1>3, <4>1, <4>3
      <3>2. QED
        BY <3>1
    <2>3. \A c \in 1 .. n + 1 : c = n + 1 \/ c \in 1 .. n
      BY <1>1
    <2>4. QED
      BY <1>3, <1>4, <2>1, <2>2, <2>3
  <1>10. /\ h2.used \in 0 .. HeapCap
         /\ Len(h2.blocks) + HeapCap - h2.used < WordMod /\ Len(h2.ctxs) + HeapCap - h2.used < WordMod
         /\ Len(h2.ctxs) \in 0 .. WordMod - 1
    <2>1. PICK words : words = ContextWords(ctx.cap)
      OBVIOUS
    <2>2. /\ h.used + words \in 0 .. HeapCap /\ n + 1 \in 0 .. WordMod - 1
          /\ n + 1 + HeapCap - (h.used + words) < WordMod
          /\ Len(h.blocks) + HeapCap - (h.used + words) < WordMod
      <3>1. words \in Nat /\ words >= 1 /\ h.used \in Nat /\ h.used + words =< HeapCap
        BY <1>1, <1>5, <2>1
      <3>2. QED
        BY <1>1, <1>5, <3>1, Room
    <2>3. QED
      BY <1>2, <1>3, <2>1, <2>2
  <1>11. h2 = [blocks |-> h2.blocks, ctxs |-> h2.ctxs, used |-> h2.used]
    BY DEF Mem
  <1>12. h2.blocks \in Seq(Seq(Cells)) /\ h2.ctxs \in Seq(Range(h2.ctxs))
    BY <1>2, <1>3, OwnRange DEF GoodHeap
  <1>13. GoodHeap(h2)
    BY <1>8, <1>9, <1>10, <1>11, <1>12 DEF GoodHeap
  <1>14. QED
    BY <1>1, <1>3, <1>4, <1>6, <1>10, <1>13

(* A value put in a context. *)
LEMMA PutGood ==
  ASSUME NEW h, NEW ctx, GoodContext(h, ctx), NEW sym \in 0 .. WordMod - 1, NEW val, Good(h, val),
         PutResult(ctx, sym) = "ok"
  PROVE  /\ GoodContext(h, Put(ctx, sym, val))
         /\ Put(ctx, sym, val).cap = ctx.cap /\ Put(ctx, sym, val).sealed = ctx.sealed
         /\ DOMAIN Put(ctx, sym, val).entries = DOMAIN ctx.entries \union {sym}
         /\ ctx.sealed => sym \in DOMAIN ctx.entries
  <1>1. PICK m : m = WithEntry(ctx.entries, sym, val)
    OBVIOUS
  <1>2. /\ m = [s \in DOMAIN m |-> m[s]] /\ DOMAIN m = DOMAIN ctx.entries \union {sym}
        /\ \A s \in DOMAIN m : m[s] = IF s = sym THEN val ELSE ctx.entries[s]
    BY <1>1 DEF WithEntry
  <1>3. Put(ctx, sym, val) = [cap |-> ctx.cap, sealed |-> ctx.sealed, entries |-> m]
    <2>1. Put(ctx, sym, val) = [ctx EXCEPT !.entries = m]
      BY <1>1 DEF Put
    <2>2. ctx = [cap |-> ctx.cap, sealed |-> ctx.sealed, entries |-> ctx.entries]
      BY DEF GoodContext
    <2>3. QED
      BY <2>1, <2>2
  <1>4. \A s \in DOMAIN m : Good(h, m[s])
    BY <1>2 DEF GoodContext
  <1>5. DOMAIN m \subseteq 0 .. WordMod - 1 /\ ctx.cap \in Nat
    BY <1>2 DEF GoodContext
  <1>6. GoodContext(h, Put(ctx, sym, val))
    BY <1>2, <1>3, <1>4, <1>5 DEF GoodContext
  <1>7. ctx.sealed => sym \in DOMAIN ctx.entries
    BY DEF PutResult, Bound
  <1>8. QED
    BY <1>2, <1>3, <1>6, <1>7

(* And for a word put into a context.                                      *)
LEMMA ContextChanged ==
  ASSUME NEW h, GoodHeap(h), NEW c \in DOMAIN h.ctxs, NEW sym \in 0 .. WordMod - 1,
         NEW val, Good(h, val), PutResult(h.ctxs[c], sym) = "ok",
         NEW h2, h2 = [h EXCEPT !.ctxs[c] = Put(@, sym, val)]
  PROVE  /\ GoodHeap(h2) /\ Grown(h, h2)
  <1>1. /\ IsSequence(h.ctxs) /\ IsSequence(h.blocks)
        /\ Len(h.ctxs) \in Nat /\ DOMAIN h.ctxs = 1 .. Len(h.ctxs)
        /\ h = Mem(h.blocks, h.ctxs, h.used)
    BY HeapShape
  <1>2. PICK x : x = Put(h.ctxs[c], sym, val)
    OBVIOUS
  <1>3. /\ GoodContext(h, x) /\ x.cap = h.ctxs[c].cap /\ x.sealed = h.ctxs[c].sealed
        /\ DOMAIN x.entries = DOMAIN h.ctxs[c].entries \union {sym}
        /\ h.ctxs[c].sealed => sym \in DOMAIN h.ctxs[c].entries
    BY <1>2, PutGood DEF GoodHeap
  <1>4. PICK g : g = [h.ctxs EXCEPT ![c] = x]
    OBVIOUS
  <1>5. h2 = Mem(h.blocks, g, h.used)
    <2>1. h2 = [h EXCEPT !.ctxs = g]
      BY <1>2, <1>4
    <2>2. QED
      BY <1>1, <2>1 DEF Mem
  <1>6. IsSequence(g) /\ Len(g) = Len(h.ctxs)
    <2>1. PICK S : h.ctxs \in Seq(S)
      BY <1>1 DEF IsSequence
    <2>2. h.ctxs \in [1 .. Len(h.ctxs) -> S \union {x}]
      BY <2>1, LenProperties
    <2>3. g \in [1 .. Len(h.ctxs) -> S \union {x}]
      BY <1>1, <1>4, <2>2
    <2>4. g \in Seq(S \union {x})
      BY <1>1, <2>3, SeqDef
    <2>5. QED
      BY <1>1, <2>3, <2>4, LenProperties DEF IsSequence
  <1>7. DOMAIN g = DOMAIN h.ctxs /\ g[c] = x /\ \A d \in DOMAIN h.ctxs : d # c => g[d] = h.ctxs[d]
    BY <1>1, <1>4, <1>6, Indexed
  <1>8. h2.blocks = h.blocks /\ h2.ctxs = g /\ h2.used = h.used
    BY <1>5 DEF Mem
  <1>9. Grown(h, h2)
    <2>1. Len(h.blocks) \in Nat /\ Len(h.ctxs) \in Nat
      BY HeapShape
    <2>2. ASSUME NEW d \in DOMAIN h.ctxs
          PROVE  /\ g[d].cap = h.ctxs[d].cap /\ g[d].sealed = h.ctxs[d].sealed
                 /\ h.ctxs[d].sealed => DOMAIN g[d].entries = DOMAIN h.ctxs[d].entries
      BY <1>3, <1>7
    <2>3. QED
      BY <1>6, <1>8, <2>1, <2>2 DEF Grown
  <1>10. \A v : Good(h, v) => Good(h2, v)
    <2>1. IsSequence(h2.blocks) /\ IsSequence(h2.ctxs)
      BY <1>1, <1>6, <1>8
    <2>2. QED
      BY <1>9, <2>1, GoodStays, Zenon
  <1>11. \A a \in DOMAIN h2.blocks : GoodBlock(h2, h2.blocks[a])
    BY <1>8, <1>10 DEF GoodHeap, GoodBlock
  <1>12. \A d \in DOMAIN h2.ctxs : GoodContext(h2, h2.ctxs[d])
    <2>1. GoodContext(h2, x)
      BY <1>3, <1>10 DEF GoodContext
    <2>2. \A d \in DOMAIN h.ctxs : d # c => GoodContext(h2, h2.ctxs[d])
      <3>1. ASSUME NEW d \in DOMAIN h.ctxs, d # c PROVE GoodContext(h2, h2.ctxs[d])
        <4>1. PICK y : y = h.ctxs[d]
          OBVIOUS
        <4>2. GoodContext(h, y)
          BY <4>1 DEF GoodHeap
        <4>3. GoodContext(h2, y)
          BY <1>10, <4>2 DEF GoodContext
        <4>4. QED
          BY <1>7, <1>8, <3>1, <4>1, <4>3
      <3>2. QED
        BY <3>1
    <2>3. QED
      BY <1>7, <1>8, <2>1, <2>2
  <1>13. h2 = [blocks |-> h2.blocks, ctxs |-> h2.ctxs, used |-> h2.used]
    BY <1>5 DEF Mem
  <1>14. h2.blocks \in Seq(Seq(Cells)) /\ h2.ctxs \in Seq(Range(h2.ctxs))
    BY <1>6, <1>8, OwnRange DEF GoodHeap
  <1>15. GoodHeap(h2)
    BY <1>6, <1>8, <1>11, <1>12, <1>13, <1>14 DEF GoodHeap
  <1>16. QED
    BY <1>9, <1>15

-----------------------------------------------------------------------------
(* Values that lead nowhere. *)

(* Two words make a cell.                                                  *)
LEMMA Tags ==
  /\ WordMod \in Nat /\ 0 .. 11 \subseteq 0 .. WordMod - 1
  /\ \A a, b \in 0 .. WordMod - 1 : <<a, b>> \in Cells /\ <<a, b>>[1] = a /\ <<a, b>>[2] = b
  /\ \A val \in Cells : val[1] \in 0 .. WordMod - 1 /\ val[2] \in 0 .. WordMod - 1
  <1>1. WordMod \in Nat /\ WordMod > 11
    BY WordModAssumption DEF PATH
  <1>2. ASSUME NEW a \in 0 .. WordMod - 1, NEW b \in 0 .. WordMod - 1
        PROVE  <<a, b>> \in Cells /\ <<a, b>>[1] = a /\ <<a, b>>[2] = b
    BY DEF Cells
  <1>3. \A val \in Cells : val[1] \in 0 .. WordMod - 1 /\ val[2] \in 0 .. WordMod - 1
    BY DEF Cells
  <1>4. QED
    BY <1>1, <1>2, <1>3

(* What a cell with each tag must lead to.                                 *)
LEMMA PlainGood ==
  ASSUME NEW h, NEW data \in 0 .. WordMod - 1
  PROVE  /\ \A tag \in {NONE, INT, INLINE_STRING, BOOL} : Good(h, <<tag, data>>)
         /\ data \in DOMAIN h.blocks => Good(h, <<BLOCK, data>>)
         /\ data \in DOMAIN h.ctxs => Good(h, <<CONTEXT, data>>)
         /\ Describes(h, data) => Good(h, <<FUNC, data>>)
  <1>1. \A tag \in 0 .. 11 : /\ <<tag, data>> \in Cells
                             /\ <<tag, data>>[1] = tag /\ <<tag, data>>[2] = data
    BY Tags
  <1>2. ASSUME NEW tag \in {NONE, INT, INLINE_STRING, BOOL} PROVE Good(h, <<tag, data>>)
    BY <1>1 DEF Good, NONE, INT, INLINE_STRING, BOOL, BLOCK, CONTEXT, NATIVE_FN, FUNC
  <1>3. data \in DOMAIN h.blocks => Good(h, <<BLOCK, data>>)
    BY <1>1 DEF Good, BLOCK, CONTEXT, NATIVE_FN, FUNC
  <1>4. data \in DOMAIN h.ctxs => Good(h, <<CONTEXT, data>>)
    BY <1>1 DEF Good, BLOCK, CONTEXT, NATIVE_FN, FUNC
  <1>5. Describes(h, data) => Good(h, <<FUNC, data>>)
    BY <1>1 DEF Good, BLOCK, CONTEXT, NATIVE_FN, FUNC
  <1>6. QED
    BY <1>2, <1>3, <1>4, <1>5

-----------------------------------------------------------------------------
(* What words and paths stand for is good. *)

GoodEnv(env) == IsSequence(env) /\ \A i \in DOMAIN env : env[i] \in DOMAIN heap.ctxs

(* An answer: nothing is said of a value that comes with an error. *)
Errors == {"none", "WordNotFound", "diverged", "panic", "OutOfMemory", "UnexpectedEndOfBlock",
           "OutOfBounds"}
AnswersIn(G) == {r \in [error : Errors, val : Cells] : r.error = "none" => r.val \in G}
GoodCells == {val \in Cells : Good(heap, val)}
Answers == AnswersIn(GoodCells)

(* An error is an answer, and so is a value that was found.                *)
LEMMA SimpleAnswers ==
  ASSUME NEW G \in SUBSET Cells
  PROVE  /\ \A error \in Errors \ {"none"} : NotFound(error) \in AnswersIn(G)
         /\ \A val \in G : Found(val) \in AnswersIn(G)
  <1>1. <<NONE, 0>> \in Cells
    BY Tags DEF NONE
  <1>2. QED
    BY <1>1 DEF AnswersIn, Errors, NotFound, Found

(* What find_word answers when every context has values of a kind only. *)
LEMMA FindWithin ==
  ASSUME NEW G \in SUBSET Cells, NEW env, IsSequence(env),
         \A c \in DOMAIN heap.ctxs : \A sym \in DOMAIN heap.ctxs[c].entries :
           heap.ctxs[c].entries[sym] \in G,
         NEW sym
  PROVE  find_word(env, sym) \in AnswersIn(G)
  <1> DEFINE stops == {i \in DOMAIN env : env[i] \in DOMAIN heap.ctxs => Bound(heap.ctxs[env[i]], sym)}
             top == Max(stops)
             found == heap.ctxs[env[top]].entries[sym]
  <1>1. \/ find_word(env, sym) = NotFound("WordNotFound")
        \/ find_word(env, sym) = NotFound("OutOfBounds")
        \/ stops # {} /\ env[top] \in DOMAIN heap.ctxs /\ find_word(env, sym) = Found(found)
    BY DEF find_word
  <1>2. ASSUME stops # {}, env[top] \in DOMAIN heap.ctxs PROVE Found(found) \in AnswersIn(G)
    <2>1. stops \in SUBSET (1 .. Len(env)) /\ Len(env) \in Nat
      BY Indexed
    <2> HIDE DEF stops
    <2>2. top \in stops
      BY <1>2, <2>1, MaxMember
    <2> USE DEF stops
    <2>3. sym \in DOMAIN heap.ctxs[env[top]].entries
      BY <1>2, <2>2 DEF Bound
    <2> HIDE DEF top, stops
    <2>4. found \in G
      BY <1>2, <2>3
    <2> HIDE DEF found
    <2>5. QED
      BY <2>4, SimpleAnswers
  <1> HIDE DEF stops, top, found
  <1>3. QED
    BY <1>1, <1>2, SimpleAnswers DEF Errors

(* Whatever words are found, following word after word answers likewise. *)
LEMMA ChaseWithin ==
  ASSUME NEW G \in SUBSET Cells, NEW env, Cardinality(BoundSymbols) \in Nat,
         \A sym : find_word(env, sym) \in AnswersIn(G), NEW val \in G
  PROVE  Chase(env)[val] \in AnswersIn(G)
  <1> DEFINE Step(r) == [w \in Cells |->
                           LET hit == find_word(env, w[2])
                           IN  IF w[1] # WORD THEN Found(w)
                               ELSE IF hit.error # "none" THEN hit
                               ELSE r[hit.val]]
             base == [w \in Cells |-> IF w[1] # WORD THEN Found(w) ELSE NotFound("diverged")]
             turns == Cardinality(BoundSymbols) + 1
             Body(g) == [n \in 0 .. turns |-> 
        [w \in Cells |->
           LET hit == find_word(env, w[2])
           IN  IF w[1] # WORD THEN Found(w)
               ELSE IF n = 0 THEN NotFound("diverged")
               ELSE IF hit.error # "none" THEN hit
               ELSE g[n - 1][hit.val]]]
             chase == CHOOSE g : g = Body(g)
             Replies == [error : Errors, val : Cells]
             T == {r \in [Cells -> Replies] : \A w \in Cells : w \in G => r[w] \in AnswersIn(G)}
  <1>1. Chase(env) = chase[turns]
    BY DEF Chase
  <1>2. turns \in Nat /\ turns >= 1
    OBVIOUS
  <1>3. ASSUME NEW w \in Cells
        PROVE  /\ find_word(env, w[2]) \in AnswersIn(G) /\ find_word(env, w[2]) \in Replies
               /\ Found(w) \in Replies /\ (w \in G => Found(w) \in AnswersIn(G))
    BY SimpleAnswers DEF Found, AnswersIn, Errors
  <1>4. NotFound("diverged") \in Replies /\ NotFound("diverged") \in AnswersIn(G)
    BY SimpleAnswers DEF AnswersIn, Errors
  <1> HIDE DEF Replies
  <1>5. base \in T
    <2>1. ASSUME NEW w \in Cells
          PROVE  base[w] \in Replies /\ (w \in G => base[w] \in AnswersIn(G))
      <3>1. base[w] = IF w[1] # WORD THEN Found(w) ELSE NotFound("diverged")
        OBVIOUS
      <3> HIDE DEF base
      <3>2. QED
        BY <1>3, <1>4, <3>1
    <2>2. base = [w \in Cells |-> base[w]]
      OBVIOUS
    <2> HIDE DEF base
    <2>3. base \in [Cells -> Replies]
      BY <2>1, <2>2
    <2>4. QED
      BY <2>1, <2>3
  <1>6. ASSUME NEW r \in T PROVE Step(r) \in T
    <2>1. ASSUME NEW w \in Cells
          PROVE  Step(r)[w] \in Replies /\ (w \in G => Step(r)[w] \in AnswersIn(G))
      <3> DEFINE hit == find_word(env, w[2])
      <3>1. /\ hit \in AnswersIn(G) /\ hit \in Replies /\ hit.val \in Cells
            /\ hit.error = "none" => hit.val \in G
        <4>1. hit \in AnswersIn(G) /\ hit \in Replies
          BY <1>3
        <4> HIDE DEF hit
        <4>2. QED
          BY <4>1 DEF AnswersIn
      <3>2. r[hit.val] \in Replies /\ (hit.error = "none" => r[hit.val] \in AnswersIn(G))
        BY <3>1
      <3>3. Step(r)[w] = IF w[1] # WORD THEN Found(w) ELSE IF hit.error # "none" THEN hit ELSE r[hit.val]
        OBVIOUS
      <3>4. Found(w) \in Replies /\ (w \in G => Found(w) \in AnswersIn(G))
        BY <1>3
      <3> HIDE DEF hit, Step
      <3>5. QED
        BY <3>1, <3>2, <3>3, <3>4
    <2>2. Step(r) \in [Cells -> Replies]
      <3>1. Step(r) = [w \in Cells |-> Step(r)[w]]
        OBVIOUS
      <3> HIDE DEF Step
      <3>2. QED
        BY <2>1, <3>1
    <2> HIDE DEF Step
    <2>3. QED
      BY <2>1, <2>2
  <1>7. ASSUME NEW g
        PROVE  Body(g)[0] = base /\ \A n \in 1 .. turns : Body(g)[n] = Step(g[n - 1])
    <2>1. Body(g)[0] = base
      BY <1>2
    <2>2. ASSUME NEW n \in 1 .. turns PROVE Body(g)[n] = Step(g[n - 1])
      BY <1>2, <2>2
    <2>3. QED
      BY <2>1, <2>2
  <1>8. \A g : Body(g) = [n \in 0 .. turns |-> Body(g)[n]]
    OBVIOUS
  <1> HIDE DEF base, T, Step, Body, turns
  <1>9. \E g : g = Body(g)
    <2> DEFINE F == [n \in 1 .. turns |-> [r \in T |-> Step(r)]]
    <2>1. F \in [1 .. turns -> [T -> T]]
      BY <1>6
    <2>2. \A n \in 1 .. turns : \A r \in T : F[n][r] = Step(r)
      OBVIOUS
    <2> HIDE DEF F
    <2>3. \E g : Iterates(g, turns, T, base, F)
      BY <1>2, <1>5, <2>1, Iteration
    <2>4. PICK g \in [0 .. turns -> T] :
                 g[0] = base /\ \A n \in 1 .. turns : g[n] = F[n][g[n - 1]]
      BY <2>3 DEF Iterates
    <2>5. \A n \in 0 .. turns : g[n] = Body(g)[n]
      <3>1. \A n \in 1 .. turns : g[n - 1] \in T
        BY <1>2
      <3>2. \A n \in 1 .. turns : g[n] = Body(g)[n]
        BY <1>7, <2>2, <2>4, <3>1
      <3>3. \A n \in 0 .. turns : n = 0 \/ n \in 1 .. turns
        BY <1>2
      <3>4. QED
        BY <1>7, <2>4, <3>2, <3>3
    <2>6. g = [n \in 0 .. turns |-> g[n]]
      OBVIOUS
    <2>7. g = Body(g)
      BY <1>8, <2>5, <2>6
    <2>8. QED
      BY <2>7
  <1>10. chase = Body(chase)
    BY <1>9
  <1> HIDE DEF chase
  <1>11. \A n \in 0 .. turns : chase[n] \in T
    <2>1. chase[0] \in T
      BY <1>5, <1>7, <1>10
    <2>2. \A n \in 1 .. turns : chase[n - 1] \in T => chase[n] \in T
      BY <1>6, <1>7, <1>10
    <2>3. QED
      BY <1>2, <2>1, <2>2, Everywhere
  <1>12. chase[turns] \in T /\ val \in Cells
    BY <1>2, <1>11
  <1>13. QED
    BY <1>1, <1>12 DEF T

(* How far a path was followed. *)
WalksIn(G, D) == {w \in [error : Errors \union {"walking"}, val : Cells, env : Seq(D)] :
                    w.error = "none" => w.val \in G}

(* Contexts of D answer with values of G, whose contexts are of D. *)
Closed(G, D) ==
  /\ G \in SUBSET Cells
  /\ \A env \in Seq(D) : \A sym : find_word(env, sym) \in AnswersIn(G)
  /\ \A val \in G : val[1] = CONTEXT => val[2] \in D

(* A step along a path leaves the walk on contexts that exist.             *)
LEMMA EnterWithin ==
  ASSUME NEW G, NEW D, Closed(G, D), NEW w \in WalksIn(G, D), NEW segment
  PROVE  Enter(w, segment) \in WalksIn(G, D)
  <1> DEFINE hit == find_word(w.env, segment[2])
             error == CASE segment[1] # WORD -> "panic"
                        [] segment[1] = WORD /\ hit.error # "none" -> hit.error
                        [] OTHER -> IF hit.val[1] # CONTEXT THEN "none"
                                    ELSE IF Len(w.env) < EnvCap THEN "walking"
                                    ELSE "OutOfMemory"
  <1>1. CASE w.error # "walking"
    <2>1. Enter(w, segment) = w
      BY <1>1 DEF Enter
    <2>2. QED
      BY <2>1
  <1>2. CASE w.error = "walking"
    <2>1. w.env \in Seq(D)
      BY DEF WalksIn
    <2>3. hit \in AnswersIn(G)
      BY <2>1 DEF Closed
    <2>4. /\ hit.error \in Errors /\ hit.val \in Cells
          /\ hit.error = "none" => hit.val \in G
      <3> HIDE DEF hit
      <3>1. QED
        BY <2>3 DEF AnswersIn
    <2>5. Enter(w, segment) =
            [error |-> error, val |-> hit.val,
             env |-> IF error = "walking" THEN Append(w.env, hit.val[2]) ELSE w.env]
      BY <1>2 DEF Enter
    <2> HIDE DEF hit
    <2>6. /\ error \in Errors \union {"walking"}
          /\ error = "none" => hit.error = "none"
          /\ error = "walking" => hit.error = "none" /\ hit.val[1] = CONTEXT
      BY <2>4 DEF Errors
    <2> HIDE DEF error
    <2>7. error = "walking" => hit.val[2] \in D
      BY <2>4, <2>6 DEF Closed
    <2>8. error = "walking" => Append(w.env, hit.val[2]) \in Seq(D)
      BY <2>1, <2>7, AppendProperties
    <2>9. QED
      BY <2>1, <2>4, <2>5, <2>6, <2>8 DEF WalksIn
  <1>3. QED
    BY <1>1, <1>2

(* So does the whole path.                                                 *)
LEMMA WalkWithin ==
  ASSUME NEW G, NEW D, Closed(G, D), NEW env \in Seq(D), NEW path, Len(path) \in Nat
  PROVE  Walk(env, path) \in WalksIn(G, D)
  <1> DEFINE base == [error |-> "walking", val |-> <<NONE, 0>>, env |-> env]
             turns == Len(path)
             Body(g) == [n \in 0 .. turns |-> 
                           IF n = 0 THEN base ELSE Enter(g[n - 1], path[n])]
             walk == CHOOSE g : g = [n \in 0 .. Len(path) |->
               IF n = 0 THEN [error |-> "walking", val |-> <<NONE, 0>>, env |-> env]
               ELSE Enter(g[n - 1], path[n])]
  <1>1. Walk(env, path) = walk[turns]
    BY DEF Walk
  <1>2. base \in WalksIn(G, D)
    <2>1. <<NONE, 0>> \in Cells
      BY Tags DEF NONE
    <2>3. QED
      BY <2>1 DEF WalksIn
  <1>3. walk = CHOOSE g : g = Body(g)
    OBVIOUS
  <1>4. ASSUME NEW g
        PROVE  Body(g)[0] = base /\ \A n \in 1 .. turns : Body(g)[n] = Enter(g[n - 1], path[n])
    <2>1. Body(g)[0] = base
      OBVIOUS
    <2>2. ASSUME NEW n \in 1 .. turns PROVE Body(g)[n] = Enter(g[n - 1], path[n])
      BY <2>2
    <2>3. QED
      BY <2>1, <2>2
  <1>5. \A g : Body(g) = [n \in 0 .. turns |-> Body(g)[n]]
    OBVIOUS
  <1> HIDE DEF base, Body, walk
  <1>6. \E g : g = Body(g)
    <2> DEFINE F == [n \in 1 .. turns |-> [r \in WalksIn(G, D) |-> Enter(r, path[n])]]
    <2>1. F \in [1 .. turns -> [WalksIn(G, D) -> WalksIn(G, D)]]
      BY EnterWithin
    <2>2. \A n \in 1 .. turns : \A r \in WalksIn(G, D) : F[n][r] = Enter(r, path[n])
      OBVIOUS
    <2> HIDE DEF F
    <2>3. \E g : Iterates(g, turns, WalksIn(G, D), base, F)
      BY <1>2, <2>1, Iteration
    <2>4. PICK g \in [0 .. turns -> WalksIn(G, D)] :
                 g[0] = base /\ \A n \in 1 .. turns : g[n] = F[n][g[n - 1]]
      BY <2>3 DEF Iterates
    <2>5. \A n \in 0 .. turns : g[n] = Body(g)[n]
      <3>1. \A n \in 1 .. turns : g[n - 1] \in WalksIn(G, D)
        OBVIOUS
      <3>2. \A n \in 1 .. turns : g[n] = Body(g)[n]
        BY <1>4, <2>2, <2>4, <3>1
      <3>3. \A n \in 0 .. turns : n = 0 \/ n \in 1 .. turns
        OBVIOUS
      <3>4. QED
        BY <1>4, <2>4, <3>2, <3>3
    <2>6. g = [n \in 0 .. turns |-> g[n]]
      OBVIOUS
    <2>7. g = Body(g)
      BY <1>5, <2>5, <2>6
    <2>8. QED
      BY <2>7
  <1>7. walk = Body(walk)
    BY <1>3, <1>6
  <1>8. \A n \in 0 .. turns : walk[n] \in WalksIn(G, D)
    <2>1. walk[0] \in WalksIn(G, D)
      BY <1>2, <1>4, <1>7
    <2>2. \A n \in 1 .. turns : walk[n - 1] \in WalksIn(G, D) => walk[n] \in WalksIn(G, D)
      BY <1>4, <1>7, EnterWithin
    <2>3. QED
      BY <2>1, <2>2, Everywhere
  <1>9. QED
    BY <1>1, <1>8

(* BlockAt reads a sequence.                                               *)
LEMMA BlockShape ==
  ASSUME GoodHeap(heap), NEW a
  PROVE  Len(BlockAt(a)) \in Nat /\ (a \in DOMAIN heap.blocks => BlockAt(a) = heap.blocks[a])
  <1>1. CASE a \in DOMAIN heap.blocks
    BY <1>1, HeapShape DEF BlockAt
  <1>2. CASE a \notin DOMAIN heap.blocks
    BY <1>2 DEF BlockAt
  <1>3. QED
    BY <1>1, <1>2

(* What resolve answers. *)
LEMMA ResolveWithin ==
  ASSUME NEW G, NEW D, Closed(G, D), NEW env \in Seq(D), Cardinality(BoundSymbols) \in Nat,
         \A a : Len(BlockAt(a)) \in Nat, NEW val \in G
  PROVE  resolve(env, val) \in AnswersIn(G)
  <1>1. Chase(env)[val] \in AnswersIn(G)
    BY ChaseWithin DEF Closed
  <1>2. ASSUME NEW path PROVE Walked(env, path) \in AnswersIn(G)
    <2>1. PICK w : w = Walk(env, BlockAt(path))
      OBVIOUS
    <2>2. w \in WalksIn(G, D)
      BY <2>1, WalkWithin
    <2>3. Walked(env, path) = IF w.error = "walking" THEN NotFound("UnexpectedEndOfBlock")
                              ELSE [error |-> w.error, val |-> w.val]
      BY <2>1 DEF Walked
    <2>4. NotFound("UnexpectedEndOfBlock") \in AnswersIn(G)
      BY SimpleAnswers DEF Errors, Closed
    <2>5. w.error # "walking" => [error |-> w.error, val |-> w.val] \in AnswersIn(G)
      BY <2>2 DEF WalksIn, AnswersIn
    <2>6. QED
      BY <2>3, <2>4, <2>5
  <1>3. QED
    BY <1>1, <1>2 DEF resolve

(* In a good heap, an error or a good value. *)
LEMMA ResolveGood ==
  ASSUME GoodHeap(heap), NEW env, GoodEnv(env), Cardinality(BoundSymbols) \in Nat,
         NEW val, Good(heap, val)
  PROVE  resolve(env, val) \in Answers
  <1> DEFINE G == GoodCells
             D == DOMAIN heap.ctxs
  <1>1. G \in SUBSET Cells /\ val \in G /\ \A w \in G : w[1] = CONTEXT => w[2] \in D
    BY DEF GoodCells, Good
  <1>2. \A c \in DOMAIN heap.ctxs : \A sym \in DOMAIN heap.ctxs[c].entries :
          heap.ctxs[c].entries[sym] \in G
    BY DEF GoodHeap, GoodContext, GoodCells, Good
  <1> HIDE DEF G, D
  <1>3. ASSUME NEW e \in Seq(D), NEW sym PROVE find_word(e, sym) \in AnswersIn(G)
    <2>1. IsSequence(e)
      BY DEF IsSequence
    <2>2. QED
      BY <1>1, <1>2, <2>1, FindWithin
  <1>4. env \in Seq(D)
    <2>1. /\ env \in Seq(Range(env)) /\ Len(env) \in Nat /\ DOMAIN env = 1 .. Len(env)
      BY OwnRange, Indexed DEF GoodEnv
    <2>2. env \in [1 .. Len(env) -> Range(env)]
      BY <2>1, LenProperties
    <2>3. env \in [1 .. Len(env) -> D]
      BY <2>1, <2>2 DEF GoodEnv, D
    <2>4. QED
      BY <2>1, <2>3, SeqDef
  <1>5. Closed(G, D) /\ \A a : Len(BlockAt(a)) \in Nat
    BY <1>1, <1>3, BlockShape DEF Closed
  <1>6. resolve(env, val) \in AnswersIn(G)
    BY <1>1, <1>4, <1>5, ResolveWithin
  <1>7. QED
    BY <1>6 DEF Answers, G

(* Finitely many symbols are bound. *)
LEMMA FewSymbols ==
  ASSUME GoodHeap(heap)
  PROVE  Cardinality(BoundSymbols) \in Nat
  <1>1. BoundSymbols \subseteq 0 .. WordMod - 1
    BY DEF BoundSymbols, Range, GoodHeap, GoodContext
  <1>2. IsFiniteSet(0 .. WordMod - 1)
    BY Tags, FS_Interval
  <1>3. QED
    BY <1>1, <1>2, FS_Subset, FS_CardinalityType

-----------------------------------------------------------------------------
(* Stacks, frames and contexts that fit each other. *)

(* Where the arguments under a frame begin that stay there while it runs. *)
Base(f) == IF f.op = "FOREACH" THEN f.bp - 4 ELSE f.bp

(* How many frames own a context, up to the i-th. *)
Rank(o, i) == Cardinality({j \in 1 .. i : o[j].op \in OwnerOps})

FrameGood(h, f) ==
  /\ f.op \in CallOps \union ReturnOps
  /\ f.bp \in Nat
  /\ f.op \in ReturnOps => /\ f.word \in DOMAIN h.blocks
                          /\ f.arity - LeaveMarker \in 0 .. Len(h.blocks[f.word])
  /\ f.op = "FOREACH" => f.bp >= 4
  /\ f.op = "SET_WORD" => f.word \in 0 .. WordMod - 1
  /\ f.op \in {"SET_WORD", "CONTEXT"} => f.arity = 1
  /\ f.op = "CALL_NATIVE" => f.word \in DOMAIN Arity /\ f.arity = Arity[f.word]
  /\ f.op = "CALL_FUNC" => /\ Describes(h, f.word)
                          /\ f.arity = Len(h.blocks[h.blocks[f.word][2][2]])

(* A loop with its offset at bp and its word in context c. *)
LoopGood(h, s, bp, c) ==
  /\ s[bp - 3][1] = WORD /\ s[bp - 2][1] = BLOCK /\ s[bp - 1][1] = BLOCK /\ s[bp][1] = INT
  /\ s[bp][2] % 2 = 0 /\ s[bp][2] + 2 =< 2 * Len(h.blocks[s[bp - 2][2]])
  /\ h.ctxs[c].sealed /\ h.ctxs[c].cap # 0
  /\ DOMAIN h.ctxs[c].entries = {s[bp - 3][2]}

(* Values and contexts within the limits. *)
Held(h, s, o, e) ==
  /\ IsSequence(s) /\ IsSequence(o) /\ IsSequence(e)
  /\ Len(s) =< StackCap /\ Len(o) =< OpCap /\ Len(e) =< EnvCap
  /\ \A i \in 1 .. Len(s) : Good(h, s[i])
  /\ \A i \in 1 .. Len(e) : e[i] \in DOMAIN h.ctxs

(* Frames one above the other, the top one not above n. *)
Nested(h, o, n) ==
  /\ \A i \in 1 .. Len(o) : FrameGood(h, o[i]) /\ o[i].bp =< n
  /\ \A i, j \in 1 .. Len(o) : i < j => o[i].bp =< Base(o[j])

Looping(h, s, o, e) ==
  \A i \in 1 .. Len(o) : o[i].op = "FOREACH" => LoopGood(h, s, o[i].bp, e[1 + Rank(o, i)])

(* The values above the n-th are free to take, and k contexts have no      *)
(* frame.                                                                  *)
Sound(h, s, o, e, n, k) ==
  /\ Held(h, s, o, e)
  /\ k \in Nat /\ Len(e) = 1 + Owned(o) + k
  /\ n \in 0 .. Len(s)
  /\ Nested(h, o, n)
  /\ Looping(h, s, o, e)

(* The lengths and the frames of sound stacks.                             *)
LEMMA SoundShape ==
  ASSUME NEW h, NEW s, NEW o, NEW e, NEW n, NEW k, Sound(h, s, o, e, n, k)
  PROVE  /\ Len(s) \in Nat /\ Len(o) \in Nat /\ Len(e) \in Nat /\ Owned(o) \in Nat
         /\ n \in Nat /\ n =< Len(s) /\ k \in Nat
         /\ IsSequence(s) /\ IsSequence(o) /\ IsSequence(e)
         /\ Len(e) = 1 + Owned(o) + k
         /\ \A i \in 1 .. Len(o) : /\ FrameGood(h, o[i]) /\ o[i].bp \in Nat /\ o[i].bp =< n
                                  /\ (o[i].op = "FOREACH" => o[i].bp >= 4)
  <1>1. IsSequence(s) /\ IsSequence(o) /\ IsSequence(e)
    BY DEF Sound, Held
  <1>2. Len(s) \in Nat /\ Len(o) \in Nat /\ Len(e) \in Nat /\ Owned(o) \in Nat
    BY <1>1, Indexed, OwnedByOneMore
  <1>3. n \in Nat /\ n =< Len(s) /\ k \in Nat /\ Len(e) = 1 + Owned(o) + k
    BY <1>2 DEF Sound
  <1>4. QED
    BY <1>1, <1>2, <1>3 DEF Sound, Nested, FrameGood

(* The frames up to one of them own no more contexts than all frames. *)
LEMMA RankBounds ==
  ASSUME NEW o, IsSequence(o), NEW i \in 1 .. Len(o)
  PROVE  /\ Rank(o, i) \in Nat /\ Rank(o, i) =< Owned(o)
         /\ Rank(o, Len(o)) = Owned(o)
  <1> DEFINE A == {j \in 1 .. i : o[j].op \in OwnerOps}
             B == {j \in DOMAIN o : o[j].op \in OwnerOps}
  <1>1. DOMAIN o = 1 .. Len(o) /\ Len(o) \in Nat
    BY Indexed
  <1>2. A \subseteq B
    BY <1>1
  <1>3. IsFiniteSet(B)
    <2>1. B \subseteq 1 .. Len(o) /\ IsFiniteSet(1 .. Len(o))
      BY <1>1, FS_Interval
    <2>2. QED
      BY <2>1, FS_Subset
  <1> HIDE DEF A, B
  <1>4. IsFiniteSet(A) /\ Cardinality(A) =< Cardinality(B) /\ Cardinality(A) \in Nat
    BY <1>2, <1>3, FS_Subset, FS_CardinalityType
  <1>5. Rank(o, Len(o)) = Owned(o)
    BY <1>1 DEF Rank, Owned
  <1>6. QED
    BY <1>4, <1>5 DEF Rank, Owned, A, B

(* A loop is not disturbed by what happens above it on the stack. *)
LEMMA LoopingAbove ==
  ASSUME NEW h, NEW s, NEW o, NEW e, NEW n, NEW k, Sound(h, s, o, e, n, k),
         NEW t, \A i \in 1 .. n : t[i] = s[i]
  PROVE  Looping(h, t, o, e)
  <1> SUFFICES ASSUME NEW i \in 1 .. Len(o), o[i].op = "FOREACH"
               PROVE  LoopGood(h, t, o[i].bp, e[1 + Rank(o, i)])
    BY DEF Looping
  <1>1. LoopGood(h, s, o[i].bp, e[1 + Rank(o, i)])
    BY DEF Sound, Looping
  <1>2. PICK p : p = o[i].bp
    OBVIOUS
  <1>3. p \in Nat /\ p >= 4 /\ p =< n /\ n \in Nat
    <2>1. /\ n \in Nat
          /\ \A j \in 1 .. Len(o) : /\ o[j].bp \in Nat /\ o[j].bp =< n
                                   /\ (o[j].op = "FOREACH" => o[j].bp >= 4)
      BY SoundShape
    <2>2. QED
      BY <1>2, <2>1
  <1>4. t[p - 3] = s[p - 3] /\ t[p - 2] = s[p - 2] /\ t[p - 1] = s[p - 1] /\ t[p] = s[p]
    BY <1>3
  <1>5. QED
    BY <1>1, <1>2, <1>4 DEF LoopGood

(* Values go, down to the n-th. *)
LEMMA SoundTruncated ==
  ASSUME NEW h, NEW s, NEW o, NEW e, NEW n, NEW k, Sound(h, s, o, e, n, k), NEW m \in n .. Len(s)
  PROVE  Sound(h, SubSeq(s, 1, m), o, e, n, k)
  <1> DEFINE t == SubSeq(s, 1, m)
  <1>1. n \in Nat /\ Len(s) \in Nat /\ m \in 0 .. Len(s) /\ IsSequence(s)
    BY SoundShape
  <1>2. IsSequence(t) /\ Len(t) = m /\ \A i \in 1 .. m : t[i] = s[i]
    BY <1>1, Truncated
  <1> HIDE DEF t
  <1>3. Looping(h, t, o, e)
    BY <1>1, <1>2, LoopingAbove
  <1>4. Held(h, t, o, e)
    <2>1. Len(t) =< StackCap
      BY <1>1, <1>2, CapsAssumption DEF Sound, Held
    <2>2. \A i \in 1 .. Len(t) : Good(h, t[i])
      BY <1>1, <1>2 DEF Sound, Held
    <2>3. QED
      BY <1>2, <2>1, <2>2 DEF Sound, Held
  <1>5. n \in 0 .. Len(t)
    BY <1>1, <1>2
  <1>6. QED
    BY <1>3, <1>4, <1>5 DEF Sound, t

(* A value comes. *)
LEMMA SoundPushed ==
  ASSUME NEW h, NEW s, NEW o, NEW e, NEW n, NEW k, Sound(h, s, o, e, n, k),
         NEW val, Good(h, val), Len(s) < StackCap
  PROVE  Sound(h, Append(s, val), o, e, n, k)
  <1> DEFINE t == Append(s, val)
  <1>1. n \in Nat /\ Len(s) \in Nat /\ n =< Len(s) /\ IsSequence(s)
    BY SoundShape
  <1>2. IsSequence(t) /\ Len(t) = Len(s) + 1 /\ t[Len(s) + 1] = val /\ \A i \in 1 .. Len(s) : t[i] = s[i]
    BY <1>1, Stacked
  <1> HIDE DEF t
  <1>3. Looping(h, t, o, e)
    BY <1>1, <1>2, LoopingAbove
  <1>4. Held(h, t, o, e)
    <2>1. Len(t) =< StackCap
      BY <1>1, <1>2, CapsAssumption
    <2>2. \A i \in 1 .. Len(t) : Good(h, t[i])
      <3>1. \A i \in 1 .. Len(s) : Good(h, t[i])
        BY <1>2 DEF Sound, Held
      <3>2. \A i \in 1 .. Len(t) : i = Len(s) + 1 \/ i \in 1 .. Len(s)
        BY <1>1, <1>2
      <3>3. QED
        BY <1>2, <3>1, <3>2
    <2>3. QED
      BY <1>2, <2>1, <2>2 DEF Sound, Held
  <1>5. n \in 0 .. Len(t)
    BY <1>1, <1>2
  <1>6. QED
    BY <1>3, <1>4, <1>5 DEF Sound, t

(* Fewer values are free to take. *)
LEMMA SoundRaised ==
  ASSUME NEW h, NEW s, NEW o, NEW e, NEW n, NEW k, Sound(h, s, o, e, n, k), NEW m \in n .. Len(s)
  PROVE  Sound(h, s, o, e, m, k)
  <1>1. n \in Nat /\ Len(s) \in Nat /\ m \in 0 .. Len(s) /\ n =< m /\ m \in Nat
    BY SoundShape
  <1>2. Nested(h, o, m)
    <2>1. ASSUME NEW i \in 1 .. Len(o) PROVE o[i].bp =< m
      <3>1. \A j \in 1 .. Len(o) : o[j].bp \in Nat /\ o[j].bp =< n
        BY SoundShape
      <3>2. QED
        BY <1>1, <3>1
    <2>2. QED
      BY <2>1 DEF Sound, Nested
  <1>3. QED
    BY <1>1, <1>2 DEF Sound

(* A context comes that has no frame yet. *)
LEMMA SoundEntered ==
  ASSUME NEW h, NEW s, NEW o, NEW e, NEW n, NEW k, Sound(h, s, o, e, n, k),
         NEW c \in DOMAIN h.ctxs, Len(e) < EnvCap
  PROVE  /\ Sound(h, s, o, Append(e, c), n, k + 1)
         /\ Append(e, c)[Len(e) + 1] = c
  <1> DEFINE t == Append(e, c)
  <1>1. /\ Len(e) \in Nat /\ IsSequence(e) /\ IsSequence(o) /\ k \in Nat /\ Owned(o) \in Nat
        /\ Len(e) = 1 + Owned(o) + k
    BY SoundShape
  <1>2. IsSequence(t) /\ Len(t) = Len(e) + 1 /\ t[Len(e) + 1] = c /\ \A i \in 1 .. Len(e) : t[i] = e[i]
    <2>1. IsSequence(e)
      BY <1>1
    <2>2. QED
      BY <2>1, Stacked
  <1>0. EnvCap \in Nat
    BY CapsAssumption
  <1> HIDE DEF t
  <1>3. Looping(h, s, o, t)
    <2> SUFFICES ASSUME NEW i \in 1 .. Len(o), o[i].op = "FOREACH"
                 PROVE  LoopGood(h, s, o[i].bp, t[1 + Rank(o, i)])
      BY DEF Looping
    <2>1. Rank(o, i) \in Nat /\ Rank(o, i) =< Owned(o)
      BY <1>1, RankBounds
    <2>2. 1 + Rank(o, i) \in 1 .. Len(e)
      BY <1>1, <2>1
    <2>3. t[1 + Rank(o, i)] = e[1 + Rank(o, i)]
      BY <1>2, <2>2
    <2>4. QED
      BY <2>3 DEF Sound, Looping
  <1>4. Held(h, s, o, t)
    <2>1. Len(t) =< EnvCap
      BY <1>0, <1>1, <1>2
    <2>2. \A i \in 1 .. Len(t) : t[i] \in DOMAIN h.ctxs
      <3>1. \A i \in 1 .. Len(e) : t[i] \in DOMAIN h.ctxs
        BY <1>2 DEF Sound, Held
      <3>2. \A i \in 1 .. Len(t) : i = Len(e) + 1 \/ i \in 1 .. Len(e)
        BY <1>1, <1>2
      <3>3. QED
        BY <1>2, <3>1, <3>2
    <2>3. QED
      BY <1>2, <2>1, <2>2 DEF Sound, Held
  <1>5. k + 1 \in Nat /\ Len(t) = 1 + Owned(o) + (k + 1)
    BY <1>1, <1>2
  <1>6. QED
    BY <1>2, <1>3, <1>4, <1>5 DEF Sound, t

(* The last of the contexts without a frame goes. *)
LEMMA SoundLeft ==
  ASSUME NEW h, NEW s, NEW o, NEW e, NEW n, NEW k, Sound(h, s, o, e, n, k), k >= 1
  PROVE  /\ e # << >> /\ Last(e) \in DOMAIN h.ctxs /\ Last(e) = e[1 + Owned(o) + k]
         /\ Sound(h, s, o, Front(e), n, k - 1)
  <1> DEFINE t == Front(e)
  <1>1. /\ Len(e) \in Nat /\ IsSequence(e) /\ IsSequence(o) /\ k \in Nat /\ Owned(o) \in Nat
        /\ Len(e) = 1 + Owned(o) + k
    BY SoundShape
  <1>2. e # << >>
    BY <1>1
  <1>3. IsSequence(t) /\ Len(t) = Len(e) - 1 /\ \A i \in 1 .. Len(e) - 1 : t[i] = e[i]
    BY <1>1, <1>2, Stacked
  <1>0. EnvCap \in Nat
    BY CapsAssumption
  <1>4. Last(e) = e[Len(e)] /\ Last(e) \in DOMAIN h.ctxs
    <2>1. Last(e) = e[Len(e)] /\ Len(e) \in 1 .. Len(e)
      BY <1>1 DEF Last
    <2>2. QED
      BY <2>1 DEF Sound, Held
  <1> HIDE DEF t
  <1>5. Looping(h, s, o, t)
    <2> SUFFICES ASSUME NEW i \in 1 .. Len(o), o[i].op = "FOREACH"
                 PROVE  LoopGood(h, s, o[i].bp, t[1 + Rank(o, i)])
      BY DEF Looping
    <2>1. Rank(o, i) \in Nat /\ Rank(o, i) =< Owned(o)
      BY <1>1, RankBounds
    <2>2. 1 + Rank(o, i) \in 1 .. Len(e) - 1
      BY <1>1, <2>1
    <2>3. t[1 + Rank(o, i)] = e[1 + Rank(o, i)]
      BY <1>3, <2>2
    <2>4. QED
      BY <2>3 DEF Sound, Looping
  <1>6. Held(h, s, o, t)
    <2>1. Len(t) =< EnvCap
      <3>1. Len(e) =< EnvCap
        BY DEF Sound, Held
      <3>2. QED
        BY <1>0, <1>1, <1>3, <3>1
    <2>2. \A i \in 1 .. Len(t) : t[i] \in DOMAIN h.ctxs
      <3>1. \A i \in 1 .. Len(e) - 1 : e[i] \in DOMAIN h.ctxs
        BY <1>1 DEF Sound, Held
      <3>2. QED
        BY <1>3, <3>1
    <2>3. QED
      BY <1>3, <2>1, <2>2 DEF Sound, Held
  <1>7. k - 1 \in Nat /\ Len(t) = 1 + Owned(o) + (k - 1)
    BY <1>1, <1>3
  <1>8. QED
    BY <1>1, <1>2, <1>4, <1>5, <1>6, <1>7 DEF Sound, t

(* The rank of a frame depends on the frames up to it. *)
LEMMA SameRank ==
  ASSUME NEW o, NEW p, NEW i \in Nat, \A j \in 1 .. i : p[j] = o[j]
  PROVE  Rank(p, i) = Rank(o, i)
  <1>1. {j \in 1 .. i : p[j].op \in OwnerOps} = {j \in 1 .. i : o[j].op \in OwnerOps}
    OBVIOUS
  <1>2. QED
    BY <1>1 DEF Rank

(* A frame comes, with the context it owns. *)
LEMMA SoundCalled ==
  ASSUME NEW h, NEW s, NEW o, NEW e, NEW n, NEW k, Sound(h, s, o, e, n, k),
         NEW f, FrameGood(h, f), n =< Base(f), f.bp =< Len(s), Len(o) < OpCap, Owns(f.op) =< k,
         f.op = "FOREACH" => LoopGood(h, s, f.bp, e[2 + Owned(o)])
  PROVE  Sound(h, s, Append(o, f), e, f.bp, k - Owns(f.op))
  <1> DEFINE q == Append(o, f)
             m == Len(o) + 1
  <1>1. /\ Len(e) \in Nat /\ Len(s) \in Nat /\ Len(o) \in Nat /\ n \in Nat /\ k \in Nat
        /\ IsSequence(o) /\ Owned(o) \in Nat /\ Len(e) = 1 + Owned(o) + k
    BY SoundShape
  <1>2. /\ IsSequence(q) /\ Len(q) = m /\ q[m] = f /\ \A i \in 1 .. Len(o) : q[i] = o[i]
    BY <1>1, Stacked
  <1>3. Owned(q) = Owned(o) + Owns(f.op) /\ Owns(f.op) \in {0, 1}
    BY <1>1, OwnedByOneMore DEF Owns
  <1>4. f.bp \in Nat /\ Base(f) =< f.bp /\ n =< f.bp
    <2>1. f.bp \in Nat /\ (f.op = "FOREACH" => f.bp >= 4)
      BY DEF FrameGood
    <2>2. QED
      BY <1>1, <2>1 DEF Base
  <1>0. OpCap \in Nat
    BY CapsAssumption
  <1>5. \A i \in 1 .. m : i = m \/ i \in 1 .. Len(o)
    BY <1>1
  <1> HIDE DEF q, m
  <1>6. Looping(h, s, q, e)
    <2> SUFFICES ASSUME NEW i \in 1 .. m, q[i].op = "FOREACH"
                 PROVE  LoopGood(h, s, q[i].bp, e[1 + Rank(q, i)])
      BY <1>2 DEF Looping
    <2>1. CASE i = m
      <3>1. Rank(q, m) = Owned(q)
        BY <1>1, <1>2, RankBounds DEF m
      <3>2. f.op = "FOREACH" /\ Owns(f.op) = 1
        BY <1>2, <2>1 DEF Owns, OwnerOps
      <3>3. 1 + Rank(q, m) = 2 + Owned(o)
        BY <1>1, <1>3, <3>1, <3>2
      <3>4. QED
        BY <1>2, <2>1, <3>2, <3>3
    <2>2. CASE i \in 1 .. Len(o)
      <3>1. i \in Nat /\ \A j \in 1 .. i : q[j] = o[j]
        <4>1. Len(o) \in Nat /\ i \in 1 .. Len(o)
          BY <1>1, <2>2
        <4>2. i \in Nat /\ 1 .. i \subseteq 1 .. Len(o)
          BY <4>1
        <4>3. \A j \in 1 .. Len(o) : q[j] = o[j]
          BY <1>2
        <4>4. QED
          BY <4>2, <4>3
      <3>2. Rank(q, i) = Rank(o, i)
        BY <3>1, SameRank
      <3>3. QED
        BY <1>2, <2>2, <3>2 DEF Sound, Looping
    <2>3. QED
      BY <1>5, <2>1, <2>2
  <1>7. Nested(h, q, f.bp)
    <2>0. \A j \in 1 .. Len(o) : FrameGood(h, o[j]) /\ o[j].bp \in Nat /\ o[j].bp =< n
      BY SoundShape
    <2>1. ASSUME NEW i \in 1 .. m PROVE FrameGood(h, q[i]) /\ q[i].bp =< f.bp
      <3>1. CASE i = m
        BY <1>2, <1>4, <3>1
      <3>2. CASE i \in 1 .. Len(o)
        <4>1. q[i] = o[i]
          BY <1>2, <3>2
        <4>2. FrameGood(h, o[i]) /\ o[i].bp \in Nat /\ o[i].bp =< n
          BY <2>0, <3>2
        <4>3. n \in Nat /\ f.bp \in Nat /\ n =< f.bp
          BY <1>1, <1>4
        <4>4. o[i].bp =< f.bp
          BY <4>2, <4>3
        <4>5. QED
          BY <4>1, <4>2, <4>4
      <3>3. QED
        BY <1>5, <3>1, <3>2
    <2>2. ASSUME NEW i \in 1 .. m, NEW j \in 1 .. m, i < j PROVE q[i].bp =< Base(q[j])
      <3>1. i \in 1 .. Len(o)
        BY <1>1, <2>2 DEF m
      <3>2. CASE j = m
        <4>1. Base(f) \in Int
          BY <1>4 DEF Base
        <4>2. o[i].bp =< Base(f)
          BY <1>1, <2>0, <3>1, <4>1
        <4>3. QED
          BY <1>2, <3>1, <3>2, <4>2
      <3>3. CASE j \in 1 .. Len(o)
        BY <1>2, <2>2, <3>1, <3>3 DEF Sound, Nested
      <3>4. QED
        BY <1>5, <3>2, <3>3
    <2>3. QED
      BY <1>2, <2>1, <2>2 DEF Nested
  <1>8. Held(h, s, q, e)
    <2>1. Len(q) =< OpCap
      BY <1>0, <1>1, <1>2 DEF m
    <2>2. QED
      BY <1>2, <2>1 DEF Sound, Held
  <1>9. /\ k - Owns(f.op) \in Nat /\ Len(e) = 1 + Owned(q) + (k - Owns(f.op))
        /\ f.bp \in 0 .. Len(s)
    BY <1>1, <1>3, <1>4
  <1>10. QED
    BY <1>6, <1>7, <1>8, <1>9 DEF Sound, q

(* The frame on top goes and leaves its context, if it owns one. *)
LEMMA SoundReturned ==
  ASSUME NEW h, NEW s, NEW o, NEW e, NEW n, NEW k, Sound(h, s, o, e, n, k), o # << >>
  PROVE  /\ Sound(h, s, Front(o), e, Base(Last(o)), k + Owns(Last(o).op))
         /\ FrameGood(h, Last(o)) /\ Last(o).bp =< n
         /\ Last(o).op = "FOREACH" => LoopGood(h, s, Last(o).bp, e[2 + Owned(Front(o))])
  <1> DEFINE f == Last(o)
             q == Front(o)
             m == Len(o)
  <1>1. /\ Len(e) \in Nat /\ Len(s) \in Nat /\ m \in Nat /\ n \in Nat /\ k \in Nat /\ n =< Len(s)
        /\ IsSequence(o) /\ Owned(o) \in Nat /\ Len(e) = 1 + Owned(o) + k
    BY SoundShape
  <1>2. /\ IsSequence(q) /\ Len(q) = m - 1 /\ m > 0 /\ \A i \in 1 .. m - 1 : q[i] = o[i]
    BY <1>1, Stacked
  <1>3. /\ Owned(q) \in Nat /\ Owned(o) = Owned(q) + Owns(f.op) /\ Owns(f.op) \in {0, 1}
    BY <1>1, OwnedByOneLess DEF Owns
  <1>4. f = o[m] /\ m \in 1 .. m
    BY <1>1, <1>2 DEF Last
  <1>0. OpCap \in Nat
    BY CapsAssumption
  <1> HIDE DEF q, m, f
  <1>5. /\ FrameGood(h, f) /\ f.bp =< n /\ f.bp \in Nat /\ (f.op = "FOREACH" => f.bp >= 4)
    <2>1. \A i \in 1 .. m : /\ FrameGood(h, o[i]) /\ o[i].bp \in Nat /\ o[i].bp =< n
                            /\ (o[i].op = "FOREACH" => o[i].bp >= 4)
      BY SoundShape DEF m
    <2>2. QED
      BY <1>4, <2>1
  <1>6. Base(f) \in 0 .. Len(s)
    BY <1>1, <1>5 DEF Base
  <1>7. Looping(h, s, q, e)
    <2> SUFFICES ASSUME NEW i \in 1 .. m - 1, q[i].op = "FOREACH"
                 PROVE  LoopGood(h, s, q[i].bp, e[1 + Rank(q, i)])
      BY <1>2 DEF Looping
    <2>1. i \in Nat /\ i \in 1 .. m /\ \A j \in 1 .. i : q[j] = o[j]
      BY <1>1, <1>2
    <2>2. Rank(q, i) = Rank(o, i)
      BY <2>1, SameRank
    <2>3. QED
      BY <1>2, <2>1, <2>2 DEF Sound, Looping, m
  <1>8. Nested(h, q, Base(f))
    <2>1. ASSUME NEW i \in 1 .. m - 1 PROVE FrameGood(h, q[i]) /\ q[i].bp =< Base(f)
      <3>1. i \in 1 .. m /\ i < m
        BY <1>1
      <3>2. FrameGood(h, o[i]) /\ o[i].bp =< Base(o[m])
        BY <1>4, <3>1 DEF Sound, Nested, m
      <3>3. QED
        BY <1>2, <1>4, <3>2
    <2>2. ASSUME NEW i \in 1 .. m - 1, NEW j \in 1 .. m - 1, i < j PROVE q[i].bp =< Base(q[j])
      <3>1. i \in 1 .. m /\ j \in 1 .. m
        BY <1>1
      <3>2. o[i].bp =< Base(o[j])
        BY <2>2, <3>1 DEF Sound, Nested, m
      <3>3. QED
        BY <1>2, <3>2
    <2>3. QED
      BY <1>2, <2>1, <2>2 DEF Nested
  <1>9. Held(h, s, q, e)
    <2>1. Len(q) =< OpCap
      <3>1. m =< OpCap
        BY DEF Sound, Held, m
      <3>2. QED
        BY <1>0, <1>1, <1>2, <3>1
    <2>2. QED
      BY <1>2, <2>1 DEF Sound, Held
  <1>10. k + Owns(f.op) \in Nat /\ Len(e) = 1 + Owned(q) + (k + Owns(f.op))
    BY <1>1, <1>3
  <1>11. ASSUME f.op = "FOREACH" PROVE LoopGood(h, s, f.bp, e[2 + Owned(q)])
    <2>1. Rank(o, m) = Owned(o)
      BY <1>1, <1>4, RankBounds DEF m
    <2>2. Owns(f.op) = 1
      BY <1>11 DEF Owns, OwnerOps
    <2>3. 1 + Rank(o, m) = 2 + Owned(q)
      BY <1>1, <1>3, <2>1, <2>2
    <2>4. LoopGood(h, s, o[m].bp, e[1 + Rank(o, m)])
      BY <1>4, <1>11 DEF Sound, Looping, m
    <2>5. QED
      BY <1>4, <2>3, <2>4
  <1>12. Sound(h, s, q, e, Base(f), k + Owns(f.op))
    BY <1>6, <1>7, <1>8, <1>9, <1>10 DEF Sound
  <1>13. QED
    BY <1>5, <1>11, <1>12 DEF f, q

(* The heap grows. *)
LEMMA SoundGrown ==
  ASSUME NEW h, GoodHeap(h), NEW h2, GoodHeap(h2), Grown(h, h2),
         NEW s, NEW o, NEW e, NEW n, NEW k, Sound(h, s, o, e, n, k)
  PROVE  Sound(h2, s, o, e, n, k)
  <1>1. IsSequence(h2.blocks) /\ IsSequence(h2.ctxs)
    BY HeapShape
  <1>2. /\ \A a \in DOMAIN h.blocks : a \in DOMAIN h2.blocks /\ h2.blocks[a] = h.blocks[a]
        /\ \A c \in DOMAIN h.ctxs : c \in DOMAIN h2.ctxs
        /\ \A desc : Describes(h, desc) => Describes(h2, desc)
        /\ \A val : Good(h, val) => Good(h2, val)
    BY <1>1, GoodStays
  <1>3. Held(h2, s, o, e)
    BY <1>2 DEF Sound, Held
  <1>4. ASSUME NEW f, FrameGood(h, f) PROVE FrameGood(h2, f)
    <2>1. ASSUME f.op = "CALL_FUNC"
          PROVE  Describes(h2, f.word) /\ f.arity = Len(h2.blocks[h2.blocks[f.word][2][2]])
      <3>1. Describes(h, f.word) /\ f.arity = Len(h.blocks[h.blocks[f.word][2][2]])
        BY <1>4, <2>1 DEF FrameGood
      <3>2. f.word \in DOMAIN h.blocks /\ h.blocks[f.word][2][2] \in DOMAIN h.blocks
        BY <3>1, FunctionParts
      <3>3. QED
        BY <1>2, <3>1, <3>2
    <2>2. ASSUME f.op \in ReturnOps
          PROVE  f.word \in DOMAIN h2.blocks /\ f.arity - LeaveMarker \in 0 .. Len(h2.blocks[f.word])
      <3>1. f.word \in DOMAIN h.blocks /\ f.arity - LeaveMarker \in 0 .. Len(h.blocks[f.word])
        BY <1>4, <2>2 DEF FrameGood
      <3>2. QED
        BY <1>2, <3>1
    <2>3. QED
      BY <1>4, <2>1, <2>2 DEF FrameGood
  <1>5. Nested(h2, o, n)
    BY <1>4 DEF Sound, Nested
  <1>6. Looping(h2, s, o, e)
    <2> SUFFICES ASSUME NEW i \in 1 .. Len(o), o[i].op = "FOREACH"
                 PROVE  LoopGood(h2, s, o[i].bp, e[1 + Rank(o, i)])
      BY DEF Looping
    <2>1. PICK p, c : p = o[i].bp /\ c = e[1 + Rank(o, i)]
      OBVIOUS
    <2>2. LoopGood(h, s, p, c)
      BY <2>1 DEF Sound, Looping
    <2>3. p - 2 \in 1 .. Len(s)
      <3>1. /\ n \in Nat /\ n =< Len(s) /\ Len(s) \in Nat
            /\ \A j \in 1 .. Len(o) : /\ o[j].bp \in Nat /\ o[j].bp =< n
                                     /\ (o[j].op = "FOREACH" => o[j].bp >= 4)
        BY SoundShape
      <3>2. p \in Nat /\ p >= 4 /\ p =< n
        BY <2>1, <3>1
      <3>3. QED
        BY <3>1, <3>2
    <2>4. s[p - 2][2] \in DOMAIN h.blocks
      <3>1. Good(h, s[p - 2])
        BY <2>3 DEF Sound, Held
      <3>2. QED
        BY <2>2, <3>1 DEF Good, LoopGood
    <2>5. c \in DOMAIN h.ctxs
      <3>1. Rank(o, i) \in Nat /\ Rank(o, i) =< Owned(o)
        BY SoundShape, RankBounds
      <3>2. 1 + Rank(o, i) \in 1 .. Len(e)
        BY <3>1, SoundShape
      <3>3. QED
        BY <2>1, <3>2 DEF Sound, Held
    <2>6. /\ h2.ctxs[c].cap = h.ctxs[c].cap /\ h2.ctxs[c].sealed = h.ctxs[c].sealed
          /\ h.ctxs[c].sealed => DOMAIN h2.ctxs[c].entries = DOMAIN h.ctxs[c].entries
      BY <2>5 DEF Grown
    <2>7. h2.blocks[s[p - 2][2]] = h.blocks[s[p - 2][2]]
      BY <1>2, <2>4
    <2>8. LoopGood(h2, s, p, c)
      BY <2>2, <2>6, <2>7 DEF LoopGood
    <2>9. QED
      BY <2>1, <2>8
  <1>7. QED
    BY <1>3, <1>5, <1>6 DEF Sound

-----------------------------------------------------------------------------
(* The machine. *)

(* A place in a block. *)
Place(h, b, i) == b \in DOMAIN h.blocks /\ i \in 0 .. Len(h.blocks[b])

(* A machine between two turns. *)
Whole(h, v) ==
  \E b, i, s, o, e : /\ v = Machine(b, i, s, o, e) /\ Place(h, b, i)
                     /\ Sound(h, s, o, e, Len(s), 0)

(* A machine stays whole when the memory grows.                            *)
LEMMA WholeGrown ==
  ASSUME NEW h, GoodHeap(h), NEW h2, GoodHeap(h2), Grown(h, h2)
  PROVE  /\ \A b, i : Place(h, b, i) => Place(h2, b, i)
         /\ \A v : Whole(h, v) => Whole(h2, v)
  <1>1. IsSequence(h2.blocks) /\ IsSequence(h2.ctxs)
    BY HeapShape
  <1>2. \A a \in DOMAIN h.blocks : a \in DOMAIN h2.blocks /\ h2.blocks[a] = h.blocks[a]
    BY <1>1, GoodStays
  <1>3. \A b, i : Place(h, b, i) => Place(h2, b, i)
    BY <1>2 DEF Place
  <1>4. QED
    BY <1>3, SoundGrown DEF Whole

(* Continuing with sound stacks leaves the machine whole.                  *)
LEMMA ContinueWhole ==
  ASSUME NEW h, NEW b, NEW i, NEW s, NEW o, NEW e, NEW n, Place(h, b, i), Sound(h, s, o, e, n, 0),
         Continue(Machine(b, i, s, o, e))
  PROVE  Whole(h, vm')
  <1>1. Len(s) \in n .. Len(s) /\ vm' = Machine(b, i, s, o, e)
    BY SoundShape DEF Continue
  <1>2. PICK k : k = 0
    OBVIOUS
  <1>3. Sound(h, s, o, e, Len(s), k)
    BY <1>1, <1>2, SoundRaised
  <1>4. QED
    BY <1>1, <1>2, <1>3 DEF Whole

(* Stopping with an error leaves it as it was.                             *)
LEMMA FailWhole ==
  ASSUME NEW h, Whole(h, vm), NEW error, Fail(error)
  PROVE  Whole(h, vm')
  <1>1. vm' = vm
    BY DEF Fail
  <1>2. QED
    BY <1>1

(* Return takes values that are free. *)
LEMMA ReturnWhole ==
  ASSUME NEW h, Whole(h, vm), NEW b, NEW i, NEW s, NEW o, NEW e, NEW n,
         Place(h, b, i), Sound(h, s, o, e, n, 0), NEW m \in 0 .. Len(s) - n, NEW val, Good(h, val),
         Return(Machine(b, i, s, o, e), m, val)
  PROVE  Whole(h, vm')
  <1>1. PICK k, l, t : k = 0 /\ l = Len(s) - m /\ t = SubSeq(s, 1, l)
    OBVIOUS
  <1>2. Len(s) \in Nat /\ n \in Nat /\ l \in n .. Len(s) /\ IsSequence(s) /\ l \in 0 .. Len(s)
    BY <1>1, SoundShape
  <1>3. Sound(h, t, o, e, n, k)
    BY <1>1, <1>2, SoundTruncated
  <1>4. Len(t) = l
    BY <1>1, <1>2, Truncated
  <1>5. Sp(Machine(b, i, s, o, e)) = Len(s) /\ Below(Machine(b, i, s, o, e), m) = t
    BY <1>1, MachineParts DEF Sp, Below
  <1>6. \/ Fail("OutOfMemory")
        \/ /\ l < StackCap
           /\ Continue([Machine(b, i, s, o, e) EXCEPT !.stack = Append(t, val)])
    BY <1>1, <1>5 DEF Return
  <1>7. [Machine(b, i, s, o, e) EXCEPT !.stack = Append(t, val)] = Machine(b, i, Append(t, val), o, e)
    <2>1. PICK u : u = Append(t, val)
      OBVIOUS
    <2>2. [Machine(b, i, s, o, e) EXCEPT !.stack = u] = Machine(b, i, u, o, e)
      BY MachineParts
    <2>3. QED
      BY <2>1, <2>2
  <1>8. l < StackCap => Sound(h, Append(t, val), o, e, n, 0)
    BY <1>1, <1>3, <1>4, SoundPushed
  <1>9. QED
    BY <1>6, <1>7, <1>8, FailWhole, ContinueWhole

(* Pushing a good value leaves the machine whole.                          *)
LEMMA PushValueWhole ==
  ASSUME NEW h, Whole(h, vm), NEW b, NEW i, NEW s, NEW o, NEW e, NEW n,
         Place(h, b, i), Sound(h, s, o, e, n, 0), NEW val, Good(h, val),
         PushValue(Machine(b, i, s, o, e), val)
  PROVE  Whole(h, vm')
  <1>1. PICK m : m = 0
    OBVIOUS
  <1>2. m \in 0 .. Len(s) - n /\ Return(Machine(b, i, s, o, e), m, val)
    BY <1>1, SoundShape DEF PushValue
  <1>3. QED
    BY <1>2, ReturnWhole

(* A frame comes that owns all contexts there are to own. *)
LEMMA FrameWhole ==
  ASSUME NEW h, NEW s, NEW o, NEW e, NEW n, NEW f, NEW k, k = Owns(f.op),
         Sound(h, s, o, e, n, k), FrameGood(h, f), n =< Base(f),
         f.bp =< Len(s), Len(o) < OpCap,
         f.op = "FOREACH" => LoopGood(h, s, f.bp, e[2 + Owned(o)])
  PROVE  Sound(h, s, Append(o, f), e, f.bp, 0)
  <1>1. k = Owns(f.op)
    OBVIOUS
  <1>2. Owns(f.op) \in {0, 1}
    BY DEF Owns
  <1>3. Owns(f.op) =< k /\ k - Owns(f.op) = 0
    BY <1>1, <1>2
  <1>4. Sound(h, s, Append(o, f), e, f.bp, k - Owns(f.op))
    BY <1>1, <1>3, SoundCalled
  <1>5. QED
    BY <1>3, <1>4

(* An error. *)
LEMMA FailGrown ==
  ASSUME GoodHeap(heap), Whole(heap, vm), NEW h, GoodHeap(h), Grown(heap, h), NEW error, Fail(error)
  PROVE  Whole(h, vm')
  <1>1. Whole(h, vm)
    BY WholeGrown
  <1>2. QED
    BY <1>1, FailWhole

(* Jump *)
LEMMA JumpWhole ==
  ASSUME NEW h, GoodHeap(h), Whole(h, vm), NEW b, NEW i, NEW s, NEW o, NEW e, NEW n,
         NEW a \in DOMAIN h.blocks, NEW op \in ReturnOps,
         Place(h, b, i), Sound(h, s, o, e, n, Owns(op)),
         op = "FOREACH" => n =< Len(s) - 4 /\ LoopGood(h, s, Len(s), e[2 + Owned(o)]),
         Jump(Machine(b, i, s, o, e), a, op)
  PROVE  Whole(h, vm')
  <1>1. PICK f : f = Frame(op, b, Len(s), LeaveMarker + i)
    OBVIOUS
  <1>2. n \in Nat /\ Len(s) \in Nat /\ n =< Len(s)
    BY SoundShape
  <1>3. /\ f.op = op /\ f.word = b /\ f.bp = Len(s) /\ f.arity = LeaveMarker + i
        /\ op \notin CallOps
    BY <1>1 DEF Frame, ReturnOps, CallOps
  <1>4. i \in Nat /\ f.arity - LeaveMarker = i
    <2>1. Len(h.blocks[b]) \in Nat
      BY HeapShape DEF Place
    <2>2. QED
      BY <1>3, <2>1, MarkerAssumption DEF Place
  <1>5. FrameGood(h, f)
    BY <1>2, <1>3, <1>4 DEF FrameGood, Place, CallOps
  <1>6. n =< Base(f)
    BY <1>2, <1>3 DEF Base
  <1>7. \/ Fail("OutOfMemory")
        \/ Len(o) < OpCap /\ Continue(Machine(a, 0, s, Append(o, f), e))
    <2>1. PICK g, z : g = Append(o, f) /\ z = 0
      OBVIOUS
    <2>2. [Machine(b, i, s, o, e) EXCEPT !.ops = g, !.block = a, !.ip = z] = Machine(a, z, s, g, e)
      <3>1. [Machine(b, i, s, o, e) EXCEPT !.ops = g] = Machine(b, i, s, g, e)
        BY MachineParts
      <3>2. [Machine(b, i, s, g, e) EXCEPT !.block = a] = Machine(a, i, s, g, e)
        BY MachineParts
      <3>3. [Machine(a, i, s, g, e) EXCEPT !.ip = z] = Machine(a, z, s, g, e)
        BY MachineParts
      <3>4. QED
        BY <3>1, <3>2, <3>3, Zenon
    <2>3. /\ Machine(b, i, s, o, e).ops = o /\ Machine(b, i, s, o, e).block = b
          /\ Machine(b, i, s, o, e).ip = i /\ Sp(Machine(b, i, s, o, e)) = Len(s)
      BY MachineParts DEF Sp
    <2>4. \/ Fail("OutOfMemory")
          \/ /\ Len(o) < OpCap
             /\ Continue([Machine(b, i, s, o, e) EXCEPT !.ops = g, !.block = a, !.ip = z])
      BY <1>1, <2>1, <2>3 DEF Jump
    <2>5. QED
      BY <2>1, <2>2, <2>4
  <1>8. Len(o) < OpCap => Sound(h, s, Append(o, f), e, f.bp, 0)
    <2>1. PICK k : k = Owns(f.op)
      OBVIOUS
    <2>2. Sound(h, s, o, e, n, k) /\ f.bp =< Len(s)
      BY <1>2, <1>3, <2>1
    <2>3. f.op = "FOREACH" => LoopGood(h, s, f.bp, e[2 + Owned(o)])
      BY <1>3
    <2>4. QED
      BY <1>5, <1>6, <2>1, <2>2, <2>3, FrameWhole
  <1>9. Place(h, a, 0)
    BY HeapShape DEF Place
  <1>10. QED
    BY <1>7, <1>8, <1>9, FailWhole, ContinueWhole

(* PushOp *)
LEMMA PushOpWhole ==
  ASSUME NEW h, Whole(h, vm), NEW b, NEW i, NEW s, NEW o, NEW e,
         NEW op, NEW word, NEW arity, op \notin OwnerOps,
         Place(h, b, i), Sound(h, s, o, e, Len(s), 0), FrameGood(h, Frame(op, word, Len(s), arity)),
         PushOp(Machine(b, i, s, o, e), op, word, arity)
  PROVE  Whole(h, vm')
  <1>1. PICK f, n : f = Frame(op, word, Len(s), arity) /\ n = Len(s)
    OBVIOUS
  <1>2. n \in Nat /\ f.op = op /\ f.bp = n /\ Owns(f.op) = 0
    BY <1>1, SoundShape DEF Frame, Owns
  <1>3. op # "FOREACH" /\ n =< Base(f)
    BY <1>2 DEF OwnerOps, Base
  <1>4. \/ Fail("OutOfMemory")
        \/ Len(o) < OpCap /\ Continue(Machine(b, i, s, Append(o, f), e))
    <2>1. PICK g : g = Append(o, f)
      OBVIOUS
    <2>2. [Machine(b, i, s, o, e) EXCEPT !.ops = g] = Machine(b, i, s, g, e)
      BY MachineParts
    <2>3. Machine(b, i, s, o, e).ops = o /\ Sp(Machine(b, i, s, o, e)) = Len(s)
      BY MachineParts DEF Sp
    <2>4. \/ Fail("OutOfMemory")
          \/ Len(o) < OpCap /\ Continue([Machine(b, i, s, o, e) EXCEPT !.ops = g])
      BY <1>1, <2>1, <2>3 DEF PushOp
    <2>5. QED
      BY <2>1, <2>2, <2>4
  <1>5. PICK k : k = Owns(f.op)
    OBVIOUS
  <1>6. Len(o) < OpCap => Sound(h, s, Append(o, f), e, f.bp, 0)
    <2>1. Sound(h, s, o, e, n, k) /\ FrameGood(h, f) /\ f.bp =< Len(s) /\ f.op # "FOREACH"
      BY <1>1, <1>2, <1>3, <1>5
    <2>2. QED
      BY <1>3, <1>5, <2>1, FrameWhole
  <1>7. QED
    BY <1>4, <1>6, FailWhole, ContinueWhole

-----------------------------------------------------------------------------
(* The frame on top goes. *)
Popped(b, i, s, o, e, f) ==
  /\ PopFrame(vm) = Machine(b, i, s, o, e) /\ Top = f
  /\ vm.stack = s /\ vm.env = e
  /\ Place(heap, b, i)
  /\ Sound(heap, s, o, e, Base(f), Owns(f.op))
  /\ FrameGood(heap, f) /\ f.bp =< Len(s)
  /\ f.op = "FOREACH" => LoopGood(heap, s, f.bp, e[2 + Owned(o)])
  /\ Pending <=> Len(s) = f.bp + f.arity

(* What the frame on top leaves. *)
LEMMA PopWhole ==
  ASSUME Whole(heap, vm), vm.ops # << >>
  PROVE  \E b, i, s, o, e, f : Popped(b, i, s, o, e, f)
  <1>1. PICK b, i, s, o, e : /\ vm = Machine(b, i, s, o, e) /\ Place(heap, b, i)
                             /\ Sound(heap, s, o, e, Len(s), 0)
    BY DEF Whole
  <1>2. PICK q, f, n, k : q = Front(o) /\ f = Last(o) /\ n = Len(s) /\ k = 0
    OBVIOUS
  <1>3. vm.ops = o /\ vm.stack = s /\ vm.env = e
    BY <1>1, MachineParts
  <1>4. Sound(heap, s, o, e, n, k) /\ o # << >>
    BY <1>1, <1>2, <1>3
  <1>5. /\ Sound(heap, s, q, e, Base(f), k + Owns(f.op))
        /\ FrameGood(heap, f) /\ f.bp =< n
        /\ f.op = "FOREACH" => LoopGood(heap, s, f.bp, e[2 + Owned(q)])
    BY <1>2, <1>4, SoundReturned
  <1>6. k + Owns(f.op) = Owns(f.op)
    BY <1>2 DEF Owns
  <1>7. PopFrame(vm) = Machine(b, i, s, q, e)
    <2>1. [Machine(b, i, s, o, e) EXCEPT !.ops = q] = Machine(b, i, s, q, e)
      BY MachineParts
    <2>2. PopFrame(vm) = [vm EXCEPT !.ops = q]
      BY <1>2, <1>3 DEF PopFrame
    <2>3. QED
      BY <1>1, <2>1, <2>2
  <1>8. Top = f /\ (Pending <=> Len(s) = f.bp + f.arity)
    BY <1>2, <1>3, <1>4 DEF Top, Pending, Sp
  <1>9. Popped(b, i, s, q, e, f)
    BY <1>1, <1>2, <1>3, <1>5, <1>6, <1>7, <1>8 DEF Popped
  <1>10. QED
    BY <1>9

(* m values wait for an operation. *)
Ready(b, i, s, o, e, n, m) ==
  /\ PopFrame(vm) = Machine(b, i, s, o, e)
  /\ Place(heap, b, i)
  /\ Sound(heap, s, o, e, n, 0)
  /\ n \in Nat /\ m \in Nat /\ Len(s) = n + m

(* The natives there are. *)
LEMMA ArityOf ==
  /\ \A name \in DOMAIN Native : Native[name] \in DOMAIN Arity /\ Native[name] \in 0 .. WordMod - 1
  /\ \A name \in {"add", "lt", "func"} : Native[name] \in DOMAIN Arity /\ Arity[Native[name]] = 2
  /\ \A name \in {"either", "foreach"} : Native[name] \in DOMAIN Arity /\ Arity[Native[name]] = 3
  /\ \A name \in {"do", "context", "reduce", "print", "is_block", "form"} :
       Native[name] \in DOMAIN Arity /\ Arity[Native[name]] = 1
  <1>1. \A name \in DOMAIN Native : /\ Native[name] \in DOMAIN Arity
                                   /\ Arity[Native[name]] = NativeArity(Native[name])
    <2>1. \A name \in DOMAIN Native : Native[name] \in Natives
      BY DEF Natives
    <2>2. QED
      BY <2>1 DEF Arity
  <1>2. DOMAIN Native = {"add", "lt", "do", "context", "func", "either", "print", "is_block",
                         "reduce", "foreach", "form"}
    BY DEF Native
  <1>3. \A name \in {"add", "lt", "func"} : NativeArity(Native[name]) = 2
    BY DEF Native, NativeArity
  <1>4. \A name \in {"either", "foreach"} : NativeArity(Native[name]) = 3
    BY DEF Native, NativeArity
  <1>5. \A name \in {"do", "context", "reduce", "print", "is_block", "form"} :
           NativeArity(Native[name]) = 1
    BY DEF Native, NativeArity
  <1>6. \A name \in DOMAIN Native : Native[name] \in 0 .. WordMod - 1
    <2>1. \A name \in DOMAIN Native : Native[name] \in 0 .. 10
      BY <1>2 DEF Native
    <2>2. QED
      BY <2>1, Tags
  <1>7. QED
    BY <1>1, <1>2, <1>3, <1>4, <1>5, <1>6

(* A call that has its arguments. *)
LEMMA NativeReady ==
  ASSUME Whole(heap, vm), NEW name, NEW m \in Nat, Arity[Native[name]] = m,
         Calls(name), ~borrowed'
  PROVE  \E b, i, s, o, e, n : Ready(b, i, s, o, e, n, m)
  <1>1. vm.ops # << >> /\ Top.op = "CALL_NATIVE" /\ Pending /\ Top.word = Native[name]
    BY DEF Calls, Run
  <1>2. PICK b, i, s, o, e, f : Popped(b, i, s, o, e, f)
    BY <1>1, PopWhole
  <1>3. f.op = "CALL_NATIVE" /\ f.word = Native[name] /\ Len(s) = f.bp + f.arity
    BY <1>1, <1>2 DEF Popped
  <1>4. f.bp \in Nat /\ f.arity = m
    BY <1>2, <1>3 DEF Popped, FrameGood
  <1>5. PICK n : n = f.bp
    OBVIOUS
  <1>6. Base(f) = n /\ Owns(f.op) = 0
    BY <1>3, <1>5 DEF Base, Owns, OwnerOps
  <1>7. Sound(heap, s, o, e, n, 0)
    BY <1>2, <1>6 DEF Popped
  <1>8. Ready(b, i, s, o, e, n, m)
    BY <1>2, <1>3, <1>4, <1>5, <1>7 DEF Ready, Popped
  <1>9. QED
    BY <1>8

(* The values that wait. *)
LEMMA ReadyArgs ==
  ASSUME NEW b, NEW i, NEW s, NEW o, NEW e, NEW n, NEW m, Ready(b, i, s, o, e, n, m)
  PROVE  /\ Sp(PopFrame(vm)) = n + m /\ PopFrame(vm).stack = s
         /\ m \in 0 .. Len(s) - n /\ Len(s) \in Nat /\ Below(PopFrame(vm), m) = SubSeq(s, 1, n)
         /\ \A j \in 1 .. m : /\ Arg(PopFrame(vm), m, j) = s[n + j] /\ n + j \in 1 .. Len(s)
                              /\ Good(heap, Arg(PopFrame(vm), m, j))
         /\ m # 0 => /\ s # << >> /\ Last(s) = s[n + m]
                     /\ Last(PopFrame(vm).stack) = Last(s) /\ Good(heap, Last(s))
  <1>1. PopFrame(vm).stack = s /\ Sp(PopFrame(vm)) = n + m /\ n \in Nat /\ m \in Nat /\ Len(s) = n + m
    BY MachineParts DEF Ready, Sp
  <1>2. Len(s) \in Nat /\ m \in 0 .. Len(s) - n /\ Below(PopFrame(vm), m) = SubSeq(s, 1, n)
    <2>1. n + m - m = n /\ m \in 0 .. n + m - n
      BY <1>1
    <2>2. QED
      BY <1>1, <2>1 DEF Below
  <1>3. \A j \in 1 .. Len(s) : Good(heap, s[j])
    BY DEF Ready, Sound, Held
  <1>4. ASSUME NEW j \in 1 .. m
        PROVE  /\ Arg(PopFrame(vm), m, j) = s[n + j] /\ n + j \in 1 .. Len(s)
               /\ Good(heap, Arg(PopFrame(vm), m, j))
    <2>1. n + m - m + j = n + j /\ n + j \in 1 .. Len(s)
      BY <1>1
    <2>2. Arg(PopFrame(vm), m, j) = s[n + j]
      BY <1>1, <2>1 DEF Arg
    <2>3. QED
      BY <1>3, <2>1, <2>2
  <1>5. ASSUME m # 0
        PROVE  /\ s # << >> /\ Last(s) = s[n + m]
               /\ Last(PopFrame(vm).stack) = Last(s) /\ Good(heap, Last(s))
    <2>1. n + m \in 1 .. Len(s) /\ Last(s) = s[n + m]
      BY <1>1, <1>5 DEF Last
    <2>2. s # << >>
      BY <2>1
    <2>3. QED
      BY <1>1, <1>3, <2>1, <2>2
  <1>6. QED
    BY <1>1, <1>2, <1>4, <1>5

(* Sound and well placed, in the heap as it is and in one that has grown. *)
LEMMA ReadyGrown ==
  ASSUME GoodHeap(heap), NEW b, NEW i, NEW s, NEW o, NEW e, NEW n, NEW m, Ready(b, i, s, o, e, n, m),
         NEW h, GoodHeap(h), Grown(heap, h)
  PROVE  Place(h, b, i) /\ Sound(h, s, o, e, n, 0)
  <1>1. PICK k : k = 0
    OBVIOUS
  <1>2. Place(heap, b, i) /\ Sound(heap, s, o, e, n, k)
    BY <1>1 DEF Ready
  <1>3. Sound(h, s, o, e, n, k)
    BY <1>2, SoundGrown
  <1>4. QED
    BY <1>1, <1>2, <1>3, WholeGrown

(* A heap that stays as it is. *)
LEMMA GrownSame ==
  ASSUME NEW h, GoodHeap(h)
  PROVE  Grown(h, h)
  <1>1. Len(h.blocks) =< Len(h.blocks) /\ Len(h.ctxs) =< Len(h.ctxs)
    BY HeapShape
  <1>2. QED
    BY <1>1 DEF Grown

(* Return of a native's result. *)
LEMMA ReturnReady ==
  ASSUME GoodHeap(heap), Whole(heap, vm),
         NEW b, NEW i, NEW s, NEW o, NEW e, NEW n, NEW m, Ready(b, i, s, o, e, n, m),
         NEW h, GoodHeap(h), Grown(heap, h), NEW val, Good(h, val), Return(PopFrame(vm), m, val)
  PROVE  Whole(h, vm')
  <1>1. Place(h, b, i) /\ Sound(h, s, o, e, n, 0) /\ Whole(h, vm)
    BY ReadyGrown, WholeGrown
  <1>2. m \in 0 .. Len(s) - n /\ Return(Machine(b, i, s, o, e), m, val)
    BY ReadyArgs DEF Ready
  <1>3. QED
    BY <1>1, <1>2, ReturnWhole

(* The arguments of a native go: what is left. *)
LEMMA ArgumentsGone ==
  ASSUME NEW b, NEW i, NEW s, NEW o, NEW e, NEW n, NEW m, Ready(b, i, s, o, e, n, m)
  PROVE  \E t : /\ t = SubSeq(s, 1, n) /\ Below(PopFrame(vm), m) = t
                /\ Sound(heap, t, o, e, n, 0)
                /\ Len(t) = n /\ IsSequence(t) /\ \A j \in 1 .. n : t[j] = s[j]
  <1>1. PICK k, t : k = 0 /\ t = SubSeq(s, 1, n)
    OBVIOUS
  <1>2. n \in 0 .. Len(s) /\ n \in n .. Len(s)
    <2>1. n \in Nat /\ m \in Nat /\ Len(s) = n + m
      BY DEF Ready
    <2>2. QED
      BY <2>1
  <1>3. Sound(heap, s, o, e, n, k)
    BY <1>1 DEF Ready
  <1>4. Sound(heap, t, o, e, n, k)
    BY <1>1, <1>2, <1>3, SoundTruncated
  <1>5. IsSequence(t) /\ Len(t) = n /\ \A j \in 1 .. n : t[j] = s[j]
    <2>1. IsSequence(s)
      BY <1>3, SoundShape
    <2>2. QED
      BY <1>1, <1>2, <2>1, Truncated
  <1>6. Below(PopFrame(vm), m) = t
    BY <1>1, ReadyArgs
  <1>7. QED
    BY <1>1, <1>4, <1>5, <1>6

(* The machine without them. *)
LEMMA ArgumentsTaken ==
  ASSUME NEW b, NEW i, NEW s, NEW o, NEW e, NEW n, NEW m, Ready(b, i, s, o, e, n, m)
  PROVE  [PopFrame(vm) EXCEPT !.stack = Below(PopFrame(vm), m)] = Machine(b, i, SubSeq(s, 1, n), o, e)
  <1>1. PICK k, t, v : k = 0 /\ t = SubSeq(s, 1, n) /\ v = PopFrame(vm)
    OBVIOUS
  <1>2. v = Machine(b, i, s, o, e) /\ Below(v, m) = t
    <2>1. Below(PopFrame(vm), m) = SubSeq(s, 1, n)
      BY ArgumentsGone
    <2>2. QED
      BY <1>1, <2>1 DEF Ready
  <1>3. [v EXCEPT !.stack = t] = Machine(b, i, t, o, e)
    BY <1>2 DEF Machine
  <1>4. QED
    BY <1>1, <1>2, <1>3

(* A native goes on with a block. *)
LEMMA JumpReady ==
  ASSUME GoodHeap(heap), Whole(heap, vm),
         NEW b, NEW i, NEW s, NEW o, NEW e, NEW n, NEW m, Ready(b, i, s, o, e, n, m),
         NEW a \in DOMAIN heap.blocks, NEW op \in {"LEAVE_BLOCK", "REDUCE"},
         Jump([PopFrame(vm) EXCEPT !.stack = Below(PopFrame(vm), m)], a, op)
  PROVE  Whole(heap, vm')
  <1>1. PICK k, t : k = 0 /\ t = SubSeq(s, 1, n)
    OBVIOUS
  <1>2. /\ [PopFrame(vm) EXCEPT !.stack = Below(PopFrame(vm), m)] = Machine(b, i, t, o, e)
        /\ Sound(heap, t, o, e, n, k)
    <2>1. [PopFrame(vm) EXCEPT !.stack = Below(PopFrame(vm), m)] = Machine(b, i, SubSeq(s, 1, n), o, e)
      BY ArgumentsTaken
    <2>2. PICK u : u = SubSeq(s, 1, n) /\ Sound(heap, u, o, e, n, 0)
      BY ArgumentsGone
    <2>3. u = t
      BY <1>1, <2>2
    <2>4. QED
      BY <1>1, <2>1, <2>2, <2>3
  <1>3. Jump(Machine(b, i, t, o, e), a, op)
    BY <1>2
  <1>4. Owns(op) = k /\ op \in ReturnOps /\ op # "FOREACH"
    BY <1>1 DEF Owns, OwnerOps, ReturnOps
  <1>5. Place(heap, b, i) /\ Sound(heap, t, o, e, n, Owns(op))
    BY <1>2, <1>4 DEF Ready
  <1>6. QED
    BY <1>3, <1>4, <1>5, JumpWhole

(* What the tags say of the arguments. *)
LEMMA Tagged ==
  ASSUME NEW v, Sp(v) \in Nat, NEW tags, Len(tags) \in Nat, ArgError(v, tags) = "none"
  PROVE  \A j \in DOMAIN tags : Arg(v, Len(tags), j)[1] = tags[j]
  <1>1. Sp(v) < Len(tags) \/ Sp(v) >= Len(tags)
    OBVIOUS
  <1>2. QED
    BY <1>1 DEF ArgError

(* Of one argument, of two and of three. *)
LEMMA OneTag ==
  ASSUME NEW v, Sp(v) \in Nat, NEW tags, ArgError(v, tags) = "none", NEW x
  PROVE  tags = <<x>> => Arg(v, 1, 1)[1] = x
  <1>1. ASSUME tags = <<x>>
        PROVE  /\ Len(tags) = 1 /\ Len(tags) \in Nat
               /\ 1 \in DOMAIN tags
               /\ tags[1] = x
    BY <1>1
  <1>2. Len(tags) \in Nat => \A j \in DOMAIN tags : Arg(v, Len(tags), j)[1] = tags[j]
    BY Tagged
  <1>3. QED
    BY <1>1, <1>2, Zenon

(* The tags of two arguments that were checked.                            *)
LEMMA TwoTags ==
  ASSUME NEW v, Sp(v) \in Nat, NEW tags, ArgError(v, tags) = "none", NEW x, NEW y
  PROVE  tags = <<x, y>> => Arg(v, 2, 1)[1] = x /\ Arg(v, 2, 2)[1] = y
  <1>1. ASSUME tags = <<x, y>>
        PROVE  /\ Len(tags) = 2 /\ Len(tags) \in Nat
               /\ 1 \in DOMAIN tags /\ 2 \in DOMAIN tags
               /\ tags[1] = x /\ tags[2] = y
    BY <1>1
  <1>2. Len(tags) \in Nat => \A j \in DOMAIN tags : Arg(v, Len(tags), j)[1] = tags[j]
    BY Tagged
  <1>3. QED
    BY <1>1, <1>2, Zenon

(* The tags of three arguments that were checked.                          *)
LEMMA ThreeTags ==
  ASSUME NEW v, Sp(v) \in Nat, NEW tags, ArgError(v, tags) = "none", NEW x, NEW y, NEW z
  PROVE  tags = <<x, y, z>> => Arg(v, 3, 1)[1] = x /\ Arg(v, 3, 2)[1] = y /\ Arg(v, 3, 3)[1] = z
  <1>1. ASSUME tags = <<x, y, z>>
        PROVE  /\ Len(tags) = 3 /\ Len(tags) \in Nat
               /\ 1 \in DOMAIN tags /\ 2 \in DOMAIN tags /\ 3 \in DOMAIN tags
               /\ tags[1] = x /\ tags[2] = y /\ tags[3] = z
    BY <1>1
  <1>2. Len(tags) \in Nat => \A j \in DOMAIN tags : Arg(v, Len(tags), j)[1] = tags[j]
    BY Tagged
  <1>3. QED
    BY <1>1, <1>2, Zenon

-----------------------------------------------------------------------------
(* What one turn keeps. *)
Fit  == GoodHeap(heap) /\ Whole(heap, vm)
Kept == GoodHeap(heap') /\ Whole(heap', vm')

(* The natives that use one value or two and leave one. *)
LEMMA AddKept ==
  ASSUME Fit, add, ~borrowed'
  PROVE  Kept
  <1>1. GoodHeap(heap) /\ Whole(heap, vm) /\ heap' = heap /\ Calls("add")
    BY DEF Fit, add
  <1>2. PICK b, i, s, o, e, n, m : Ready(b, i, s, o, e, n, m) /\ m = 2
    <2>1. PICK m : m = 2
      OBVIOUS
    <2>2. \E b, i, s, o, e, n : Ready(b, i, s, o, e, n, m)
      BY <1>1, <2>1, ArityOf, NativeReady
    <2>3. QED
      BY <2>1, <2>2
  <1>3. PICK v : v = PopFrame(vm)
    OBVIOUS
  <1>4. ASSUME NEW sum \in 0 .. WordMod - 1, Return(v, 2, <<INT, sum>>)
        PROVE  Whole(heap, vm')
    <2>1. PICK val : val = <<INT, sum>>
      OBVIOUS
    <2>2. Good(heap, val)
      BY <2>1, PlainGood
    <2>3. Return(PopFrame(vm), m, val)
      BY <1>2, <1>3, <1>4, <2>1
    <2>4. QED
      BY <1>1, <1>2, <2>2, <2>3, GrownSame, ReturnReady
  <1>5. \/ \E error : Fail(error)
        \/ \E sum \in SignedSums(Arg(v, 2, 1)[2], Arg(v, 2, 2)[2]) : sum # -1 /\ Return(v, 2, <<INT, sum>>)
    BY <1>3 DEF add
  <1>6. \A x, y : SignedSums(x, y) \subseteq {-1} \union 0 .. WordMod - 1 \/ x \notin Int \/ y \notin Int
    <2> SUFFICES ASSUME NEW x \in Int, NEW y \in Int
                 PROVE  SignedSums(x, y) \subseteq {-1} \union 0 .. WordMod - 1
      OBVIOUS
    <2>1. WordMod \in Nat /\ WordMod > 0
      BY Tags, WordModAssumption DEF PATH
    <2>2. Signed(x) \in Int /\ Signed(y) \in Int
      BY <2>1 DEF Signed
    <2>3. PICK sum : sum = Signed(x) + Signed(y)
      OBVIOUS
    <2>4. Wrap(sum) \in 0 .. WordMod - 1
      BY <2>1, <2>2, <2>3 DEF Wrap
    <2>5. SignedSums(x, y) \subseteq {-1, Wrap(sum)}
      BY <2>3 DEF SignedSums
    <2>6. QED
      BY <2>4, <2>5
  <1>7. Arg(v, 2, 1)[2] \in Int /\ Arg(v, 2, 2)[2] \in Int
    <2>1. Good(heap, Arg(v, 2, 1)) /\ Good(heap, Arg(v, 2, 2))
      BY <1>2, <1>3, ReadyArgs
    <2>2. QED
      BY <2>1, Tags DEF Good
  <1>8. Whole(heap, vm')
    BY <1>1, <1>4, <1>5, <1>6, <1>7, FailWhole
  <1>9. QED
    BY <1>1, <1>8 DEF Kept

(* A BOOL. *)
LEMMA BoolGood ==
  ASSUME NEW h, NEW x
  PROVE  Good(h, Bool(x))
  <1>1. PICK d : d = IF x THEN 1 ELSE 0
    OBVIOUS
  <1>2. d \in 0 .. WordMod - 1
    <2>1. d = 1 \/ d = 0
      BY <1>1
    <2>2. QED
      BY <2>1, Tags
  <1>3. Bool(x) = <<BOOL, d>>
    BY <1>1 DEF Bool
  <1>4. QED
    BY <1>2, <1>3, PlainGood

(* lt *)
LEMMA LtKept ==
  ASSUME Fit, lt, ~borrowed'
  PROVE  Kept
  <1>1. GoodHeap(heap) /\ Whole(heap, vm) /\ heap' = heap /\ Calls("lt")
    BY DEF Fit, lt
  <1>2. PICK b, i, s, o, e, n, m : Ready(b, i, s, o, e, n, m) /\ m = 2
    <2>1. PICK m : m = 2
      OBVIOUS
    <2>2. \E b, i, s, o, e, n : Ready(b, i, s, o, e, n, m)
      BY <1>1, <2>1, ArityOf, NativeReady
    <2>3. QED
      BY <2>1, <2>2
  <1>3. \/ \E error : Fail(error)
        \/ \E x : Return(PopFrame(vm), 2, Bool(x))
    BY DEF lt
  <1>4. ASSUME NEW x, Return(PopFrame(vm), 2, Bool(x))
        PROVE  Whole(heap, vm')
    <2>1. PICK val : val = Bool(x)
      OBVIOUS
    <2>2. Good(heap, val)
      BY <2>1, BoolGood
    <2>3. Return(PopFrame(vm), m, val)
      BY <1>2, <1>4, <2>1
    <2>4. QED
      BY <1>1, <1>2, <2>2, <2>3, GrownSame, ReturnReady
  <1>5. QED
    BY <1>1, <1>3, <1>4, FailWhole DEF Kept

(* is_block *)
LEMMA IsBlockKept ==
  ASSUME Fit, is_block, ~borrowed'
  PROVE  Kept
  <1>1. GoodHeap(heap) /\ Whole(heap, vm) /\ heap' = heap /\ Calls("is_block")
    BY DEF Fit, is_block
  <1>2. PICK b, i, s, o, e, n, m : Ready(b, i, s, o, e, n, m) /\ m = 1
    <2>1. PICK m : m = 1
      OBVIOUS
    <2>2. \E b, i, s, o, e, n : Ready(b, i, s, o, e, n, m)
      BY <1>1, <2>1, ArityOf, NativeReady
    <2>3. QED
      BY <2>1, <2>2
  <1>3. \/ \E error : Fail(error)
        \/ \E x : Return(PopFrame(vm), 1, Bool(x))
    BY DEF is_block
  <1>4. ASSUME NEW x, Return(PopFrame(vm), 1, Bool(x))
        PROVE  Whole(heap, vm')
    <2>1. PICK val : val = Bool(x)
      OBVIOUS
    <2>2. Good(heap, val)
      BY <2>1, BoolGood
    <2>3. Return(PopFrame(vm), m, val)
      BY <1>2, <1>4, <2>1
    <2>4. QED
      BY <1>1, <1>2, <2>2, <2>3, GrownSame, ReturnReady
  <1>5. QED
    BY <1>1, <1>3, <1>4, FailWhole DEF Kept

(* print *)
LEMMA PrintKept ==
  ASSUME Fit, print, ~borrowed'
  PROVE  Kept
  <1>1. GoodHeap(heap) /\ Whole(heap, vm) /\ heap' = heap /\ Calls("print")
    BY DEF Fit, print
  <1>2. PICK b, i, s, o, e, n, m : Ready(b, i, s, o, e, n, m) /\ m = 1
    <2>1. PICK m : m = 1
      OBVIOUS
    <2>2. \E b, i, s, o, e, n : Ready(b, i, s, o, e, n, m)
      BY <1>1, <2>1, ArityOf, NativeReady
    <2>3. QED
      BY <2>1, <2>2
  <1>3. PICK v : v = PopFrame(vm)
    OBVIOUS
  <1>4. \/ \E error : Fail(error)
        \/ Continue([v EXCEPT !.stack = Below(v, m)])
    <2>1. Front(v.stack) = Below(v, m)
      BY <1>2 DEF Front, Below, Sp
    <2>2. \/ \E error : Fail(error)
          \/ Continue([v EXCEPT !.stack = Front(v.stack)])
      BY <1>3 DEF print
    <2>3. QED
      BY <2>1, <2>2
  <1>5. ASSUME Continue([v EXCEPT !.stack = Below(v, m)]) PROVE Whole(heap, vm')
    <2>1. /\ [v EXCEPT !.stack = Below(v, m)] = Machine(b, i, SubSeq(s, 1, n), o, e)
          /\ Sound(heap, SubSeq(s, 1, n), o, e, n, 0)
      <3>1. [v EXCEPT !.stack = Below(v, m)] = Machine(b, i, SubSeq(s, 1, n), o, e)
        BY <1>2, <1>3, ArgumentsTaken
      <3>2. PICK u : u = SubSeq(s, 1, n) /\ Sound(heap, u, o, e, n, 0)
        BY <1>2, ArgumentsGone
      <3>3. QED
        BY <3>1, <3>2
    <2>2. Place(heap, b, i) /\ Continue(Machine(b, i, SubSeq(s, 1, n), o, e))
      BY <1>2, <1>5, <2>1 DEF Ready
    <2>3. QED
      BY <2>1, <2>2, ContinueWhole
  <1>6. QED
    BY <1>1, <1>4, <1>5, FailWhole DEF Kept

(* A heap in which some parts are replaced. *)
OtherBlocks(h, x, y)   == [h EXCEPT !.blocks = x, !.used = y]
OtherContexts(h, x, y) == [h EXCEPT !.ctxs = x, !.used = y]

(* Its parts. *)
LEMMA HeapMoves ==
  ASSUME NEW h, GoodHeap(h), NEW x, NEW y
  PROVE  /\ OtherBlocks(h, x, y) = Mem(x, h.ctxs, y)
         /\ OtherContexts(h, x, y) = Mem(h.blocks, x, y)
  <1>1. PICK b, c, u : b = h.blocks /\ c = h.ctxs /\ u = h.used
    OBVIOUS
  <1>2. h = Mem(b, c, u)
    BY <1>1, HeapShape
  <1>3. /\ [Mem(b, c, u) EXCEPT !.blocks = x] = Mem(x, c, u)
        /\ [Mem(b, c, u) EXCEPT !.ctxs = x] = Mem(b, x, u)
    BY DEF Mem
  <1>4. /\ [Mem(x, c, u) EXCEPT !.used = y] = Mem(x, c, y)
        /\ [Mem(b, x, u) EXCEPT !.used = y] = Mem(b, x, y)
    BY DEF Mem
  <1>5. QED
    BY <1>1, <1>2, <1>3, <1>4, Zenon DEF OtherBlocks, OtherContexts

(* alloc_block *)
LEMMA BlockTaken ==
  ASSUME GoodHeap(heap), NEW vals \in Seq(Cells), \A j \in DOMAIN vals : Good(heap, vals[j]),
         BlockFits(vals), NEW h, h = WithBlock(heap, vals)
  PROVE  /\ GoodHeap(h) /\ Grown(heap, h)
         /\ Len(h.blocks) \in DOMAIN h.blocks /\ Len(h.blocks) \in 0 .. WordMod - 1
         /\ h.blocks[Len(h.blocks)] = vals
  <1>1. PICK x, w, y : x = Append(heap.blocks, vals) /\ w = BlockWords(vals) /\ y = heap.used + w
    OBVIOUS
  <1>2. h = OtherBlocks(heap, x, y)
    BY <1>1 DEF WithBlock, OtherBlocks
  <1>3. h = Mem(x, heap.ctxs, y)
    BY <1>2, HeapMoves
  <1>4. w \in Nat /\ w > 2 * Len(vals)
    <2>1. Len(vals) \in Nat
      BY LenProperties
    <2>2. QED
      BY <1>1, <2>1 DEF BlockWords
  <1>5. heap.used + w =< HeapCap
    BY <1>1 DEF BlockFits, Fits
  <1>6. QED
    BY <1>1, <1>3, <1>4, <1>5, BlockAdded

(* form *)
LEMMA FormKept ==
  ASSUME Fit, form, ~borrowed'
  PROVE  Kept
  <1>1. GoodHeap(heap) /\ Whole(heap, vm) /\ Calls("form")
    BY DEF Fit, form
  <1>2. PICK b, i, s, o, e, n, m : Ready(b, i, s, o, e, n, m) /\ m = 1
    <2>1. PICK m : m = 1
      OBVIOUS
    <2>2. \E b, i, s, o, e, n : Ready(b, i, s, o, e, n, m)
      BY <1>1, <2>1, ArityOf, NativeReady
    <2>3. QED
      BY <2>1, <2>2
  <1>3. PICK h : h = heap'
    OBVIOUS
  <1>4. \/ h = heap /\ \E error : Fail(error)
        \/ \E size \in FormSizes :
             /\ ~(heap.used + size + 1 > HeapCap)
             /\ h = OtherBlocks(heap, Append(heap.blocks, << >>), heap.used + size + 1)
             /\ Return(PopFrame(vm), 1, <<INLINE_STRING, Len(h.blocks)>>)
    BY <1>3 DEF form, OtherBlocks
  <1>5. ASSUME NEW size \in FormSizes, ~(heap.used + size + 1 > HeapCap),
               h = OtherBlocks(heap, Append(heap.blocks, << >>), heap.used + size + 1),
               Return(PopFrame(vm), 1, <<INLINE_STRING, Len(h.blocks)>>)
        PROVE  GoodHeap(h) /\ Whole(h, vm')
    <2>1. PICK block, words, x, y : /\ block = << >> /\ words = size + 1
                                    /\ x = Append(heap.blocks, block) /\ y = heap.used + words
      OBVIOUS
    <2>2. size \in Nat /\ heap.used \in Nat /\ HeapCap \in Nat
      BY <1>1, <1>5, CapsAssumption, HeapAssumption DEF GoodHeap
    <2>3. y = heap.used + size + 1 /\ words \in Nat /\ words > 0 /\ heap.used + words =< HeapCap
      BY <1>5, <2>1, <2>2
    <2>4. h = OtherBlocks(heap, x, y)
      BY <1>5, <2>1, <2>3
    <2>5. h = Mem(x, heap.ctxs, y)
      BY <1>1, <2>4, HeapMoves
    <2>6. /\ block \in Seq(Cells) /\ \A j \in DOMAIN block : Good(heap, block[j])
          /\ words > 2 * Len(block)
      BY <2>1, <2>3
    <2>7. /\ GoodHeap(h) /\ Grown(heap, h)
          /\ Len(h.blocks) \in DOMAIN h.blocks /\ Len(h.blocks) \in 0 .. WordMod - 1
      <3>1. h = Mem(Append(heap.blocks, block), heap.ctxs, heap.used + words)
        BY <2>1, <2>5, Zenon
      <3>2. QED
        BY <1>1, <2>3, <2>6, <3>1, BlockAdded
    <2>8. PICK val : val = <<INLINE_STRING, Len(h.blocks)>>
      OBVIOUS
    <2>9. Good(h, val)
      BY <2>7, <2>8, PlainGood
    <2>10. Return(PopFrame(vm), m, val)
      BY <1>2, <1>5, <2>8
    <2>11. QED
      BY <1>1, <1>2, <2>7, <2>9, <2>10, ReturnReady
  <1>6. ASSUME h = heap, NEW error, Fail(error) PROVE GoodHeap(h) /\ Whole(h, vm')
    BY <1>1, <1>6, FailWhole
  <1>7. GoodHeap(h) /\ Whole(h, vm')
    BY <1>4, <1>5, <1>6
  <1>8. QED
    BY <1>3, <1>7 DEF Kept

(* func *)
LEMMA FuncKept ==
  ASSUME Fit, func, ~borrowed'
  PROVE  Kept
  <1>1. GoodHeap(heap) /\ Whole(heap, vm) /\ Calls("func")
    BY DEF Fit, func
  <1>2. PICK b, i, s, o, e, n, m : Ready(b, i, s, o, e, n, m) /\ m = 2
    <2>1. PICK m : m = 2
      OBVIOUS
    <2>2. \E b, i, s, o, e, n : Ready(b, i, s, o, e, n, m)
      BY <1>1, <2>1, ArityOf, NativeReady
    <2>3. QED
      BY <2>1, <2>2
  <1>3. PICK h, v, p, body : /\ h = heap' /\ v = PopFrame(vm)
                             /\ p = Arg(v, 2, 1)[2] /\ body = Arg(v, 2, 2)
    OBVIOUS
  <1>4. PICK desc : desc = <<<<INT, 2 * Len(BlockAt(p))>>, <<BLOCK, p>>, body>>
    OBVIOUS
  <1>5. \/ h = heap /\ \E error : Fail(error)
        \/ /\ ArgError(v, <<BLOCK, BLOCK>>) = "none"
           /\ BlockFits(desc) /\ h = WithBlock(heap, desc)
           /\ Return(v, 2, <<FUNC, Len(h.blocks)>>)
    BY <1>3, <1>4 DEF func
  <1>6. ASSUME ArgError(v, <<BLOCK, BLOCK>>) = "none", BlockFits(desc), h = WithBlock(heap, desc),
               Return(v, 2, <<FUNC, Len(h.blocks)>>)
        PROVE  GoodHeap(h) /\ Whole(h, vm')
    <2>1. Good(heap, Arg(v, 2, 1)) /\ Good(heap, body) /\ Sp(v) \in Nat
      <3>1. \A j \in 1 .. m : Good(heap, Arg(v, m, j))
        BY <1>2, <1>3, ReadyArgs
      <3>2. Sp(v) = n + m
        BY <1>2, <1>3, ReadyArgs
      <3>3. QED
        BY <1>2, <1>3, <3>1, <3>2 DEF Ready
    <2>2. Arg(v, 2, 1)[1] = BLOCK /\ body[1] = BLOCK
      BY <1>3, <1>6, <2>1, TwoTags
    <2>3. p \in DOMAIN heap.blocks /\ p \in 0 .. WordMod - 1
      BY <1>3, <2>1, <2>2, Tags DEF Good
    <2>4. BlockAt(p) = heap.blocks[p] /\ 2 * Len(BlockAt(p)) \in 0 .. WordMod - 1
      <3>1. BlockAt(p) = heap.blocks[p] /\ Len(BlockAt(p)) \in Nat
        BY <1>1, <2>3, BlockShape
      <3>2. 2 * Len(heap.blocks[p]) < WordMod
        BY <1>1, <2>3 DEF GoodHeap, GoodBlock
      <3>3. QED
        BY <3>1, <3>2, Tags
    <2>5. PICK x, y : x = <<INT, 2 * Len(BlockAt(p))>> /\ y = <<BLOCK, p>>
      OBVIOUS
    <2>6. Good(heap, x) /\ Good(heap, y) /\ x[2] = 2 * Len(heap.blocks[p]) /\ y[1] = BLOCK /\ y[2] = p
      BY <2>3, <2>4, <2>5, PlainGood
    <2>7. /\ desc \in Seq(Cells) /\ DOMAIN desc = 1 .. 3 /\ Len(desc) = 3
          /\ desc[1] = x /\ desc[2] = y /\ desc[3] = body
      <3>1. desc = <<x, y, body>>
        BY <1>4, <2>5
      <3>2. x \in Cells /\ y \in Cells /\ body \in Cells
        BY <2>1, <2>6 DEF Good
      <3>3. QED
        BY <3>1, <3>2
    <2>8. /\ GoodHeap(h) /\ Grown(heap, h)
          /\ Len(h.blocks) \in DOMAIN h.blocks /\ Len(h.blocks) \in 0 .. WordMod - 1
          /\ h.blocks[Len(h.blocks)] = desc
      <3>1. \A j \in DOMAIN desc : Good(heap, desc[j])
        BY <2>1, <2>6, <2>7
      <3>2. QED
        BY <1>1, <1>6, <2>7, <3>1, BlockTaken
    <2>9. h.blocks[p] = heap.blocks[p]
      BY <2>3, <2>8 DEF Grown
    <2>10. Describes(h, Len(h.blocks))
      BY <2>2, <2>6, <2>7, <2>8, <2>9 DEF Describes
    <2>11. PICK val : val = <<FUNC, Len(h.blocks)>>
      OBVIOUS
    <2>12. Good(h, val)
      BY <2>8, <2>10, <2>11, PlainGood
    <2>13. Return(PopFrame(vm), m, val)
      BY <1>2, <1>3, <1>6, <2>11
    <2>14. QED
      BY <1>1, <1>2, <2>8, <2>12, <2>13, ReturnReady
  <1>7. ASSUME h = heap, NEW error, Fail(error) PROVE GoodHeap(h) /\ Whole(h, vm')
    BY <1>1, <1>7, FailWhole
  <1>8. GoodHeap(h) /\ Whole(h, vm')
    BY <1>5, <1>6, <1>7
  <1>9. QED
    BY <1>3, <1>8 DEF Kept

(* do *)
LEMMA DoKept ==
  ASSUME Fit, func_do, ~borrowed'
  PROVE  Kept
  <1>1. GoodHeap(heap) /\ Whole(heap, vm) /\ heap' = heap /\ Calls("do")
    BY DEF Fit, func_do
  <1>2. PICK b, i, s, o, e, n, m : Ready(b, i, s, o, e, n, m) /\ m = 1
    <2>1. PICK m : m = 1
      OBVIOUS
    <2>2. \E b, i, s, o, e, n : Ready(b, i, s, o, e, n, m)
      BY <1>1, <2>1, ArityOf, NativeReady
    <2>3. QED
      BY <2>1, <2>2
  <1>3. PICK v, a : v = PopFrame(vm) /\ a = Arg(v, 1, 1)[2]
    OBVIOUS
  <1>4. \/ \E error : Fail(error)
        \/ ArgError(v, <<BLOCK>>) = "none" /\ Jump([v EXCEPT !.stack = Below(v, 1)], a, "LEAVE_BLOCK")
    BY <1>3 DEF func_do
  <1>5. ASSUME ArgError(v, <<BLOCK>>) = "none", Jump([v EXCEPT !.stack = Below(v, 1)], a, "LEAVE_BLOCK")
        PROVE  Whole(heap, vm')
    <2>1. Good(heap, Arg(v, 1, 1)) /\ Sp(v) \in Nat
      <3>1. Sp(v) = n + m /\ \A j \in 1 .. m : Good(heap, Arg(v, m, j))
        BY <1>2, <1>3, ReadyArgs
      <3>2. QED
        BY <1>2, <3>1 DEF Ready
    <2>2. Arg(v, 1, 1)[1] = BLOCK
      BY <1>5, <2>1, OneTag
    <2>3. a \in DOMAIN heap.blocks
      BY <1>3, <2>1, <2>2 DEF Good
    <2>4. Jump([PopFrame(vm) EXCEPT !.stack = Below(PopFrame(vm), m)], a, "LEAVE_BLOCK")
      BY <1>2, <1>3, <1>5
    <2>5. QED
      BY <1>1, <1>2, <2>3, <2>4, JumpReady
  <1>6. QED
    BY <1>1, <1>4, <1>5, FailWhole DEF Kept

(* either *)
LEMMA EitherKept ==
  ASSUME Fit, either, ~borrowed'
  PROVE  Kept
  <1>1. GoodHeap(heap) /\ Whole(heap, vm) /\ heap' = heap /\ Calls("either")
    BY DEF Fit, either
  <1>2. PICK b, i, s, o, e, n, m : Ready(b, i, s, o, e, n, m) /\ m = 3
    <2>1. PICK m : m = 3
      OBVIOUS
    <2>2. \E b, i, s, o, e, n : Ready(b, i, s, o, e, n, m)
      BY <1>1, <2>1, ArityOf, NativeReady
    <2>3. QED
      BY <2>1, <2>2
  <1>3. PICK v : v = PopFrame(vm)
    OBVIOUS
  <1>4. \/ \E error : Fail(error)
        \/ /\ ArgError(v, <<BOOL, BLOCK, BLOCK>>) = "none"
           /\ \E branch \in 2 .. 3 :
                Jump([v EXCEPT !.stack = Below(v, 3)], Arg(v, 3, branch)[2], "LEAVE_BLOCK")
    BY <1>3 DEF either
  <1>5. ASSUME ArgError(v, <<BOOL, BLOCK, BLOCK>>) = "none", NEW branch \in 2 .. 3,
               Jump([v EXCEPT !.stack = Below(v, 3)], Arg(v, 3, branch)[2], "LEAVE_BLOCK")
        PROVE  Whole(heap, vm')
    <2>1. PICK val, a : val = Arg(v, m, branch) /\ a = val[2]
      OBVIOUS
    <2>2. Good(heap, val) /\ Sp(v) \in Nat
      <3>1. Sp(v) = n + m /\ \A j \in 1 .. m : Good(heap, Arg(v, m, j))
        BY <1>2, <1>3, ReadyArgs
      <3>2. QED
        BY <1>2, <2>1, <3>1 DEF Ready
    <2>3. val[1] = BLOCK
      <3>1. Arg(v, 3, 2)[1] = BLOCK /\ Arg(v, 3, 3)[1] = BLOCK
        <4>1. PICK tags : tags = <<BOOL, BLOCK, BLOCK>>
          OBVIOUS
        <4>2. ArgError(v, tags) = "none"
          BY <1>5, <4>1
        <4>3. QED
          BY <2>2, <4>1, <4>2, ThreeTags
      <3>2. branch = 2 \/ branch = 3
        OBVIOUS
      <3>3. QED
        BY <1>2, <2>1, <3>1, <3>2
    <2>4. a \in DOMAIN heap.blocks
      BY <2>1, <2>2, <2>3 DEF Good
    <2>5. Jump([PopFrame(vm) EXCEPT !.stack = Below(PopFrame(vm), m)], a, "LEAVE_BLOCK")
      BY <1>2, <1>3, <1>5, <2>1
    <2>6. QED
      BY <1>1, <1>2, <2>4, <2>5, JumpReady
  <1>6. QED
    BY <1>1, <1>4, <1>5, FailWhole DEF Kept

(* reduce *)
LEMMA ReduceKept ==
  ASSUME Fit, reduce, ~borrowed'
  PROVE  Kept
  <1>1. GoodHeap(heap) /\ Whole(heap, vm) /\ heap' = heap /\ Calls("reduce")
    BY DEF Fit, reduce
  <1>2. PICK b, i, s, o, e, n, m : Ready(b, i, s, o, e, n, m) /\ m = 1
    <2>1. PICK m : m = 1
      OBVIOUS
    <2>2. \E b, i, s, o, e, n : Ready(b, i, s, o, e, n, m)
      BY <1>1, <2>1, ArityOf, NativeReady
    <2>3. QED
      BY <2>1, <2>2
  <1>3. PICK v, val, a : v = PopFrame(vm) /\ val = Last(v.stack) /\ a = val[2]
    OBVIOUS
  <1>4. \/ \E error : Fail(error)
        \/ Continue(v)
        \/ val[1] = BLOCK /\ Jump([v EXCEPT !.stack = Below(v, 1)], a, "REDUCE")
    BY <1>3 DEF reduce
  <1>5. ASSUME val[1] = BLOCK, Jump([v EXCEPT !.stack = Below(v, 1)], a, "REDUCE")
        PROVE  Whole(heap, vm')
    <2>1. Good(heap, val)
      BY <1>2, <1>3, ReadyArgs
    <2>2. a \in DOMAIN heap.blocks
      BY <1>3, <1>5, <2>1 DEF Good
    <2>3. Jump([PopFrame(vm) EXCEPT !.stack = Below(PopFrame(vm), m)], a, "REDUCE")
      BY <1>2, <1>3, <1>5
    <2>4. QED
      BY <1>1, <1>2, <2>2, <2>3, JumpReady
  <1>6. ASSUME Continue(v) PROVE Whole(heap, vm')
    <2>1. Continue(Machine(b, i, s, o, e)) /\ Place(heap, b, i) /\ Sound(heap, s, o, e, n, 0)
      BY <1>2, <1>3, <1>6 DEF Ready
    <2>2. QED
      BY <2>1, ContinueWhole
  <1>7. QED
    BY <1>1, <1>4, <1>5, <1>6, FailWhole DEF Kept

-----------------------------------------------------------------------------
(* The natives that make a context. *)

(* alloc_context *)
LEMMA ContextTaken ==
  ASSUME GoodHeap(heap), NEW ctx, GoodContext(heap, ctx), ContextFits(ctx.cap),
         NEW h, h = WithContext(heap, ctx)
  PROVE  /\ GoodHeap(h) /\ Grown(heap, h)
         /\ Len(h.ctxs) \in DOMAIN h.ctxs /\ Len(h.ctxs) \in 0 .. WordMod - 1
         /\ Len(h.ctxs) = Len(heap.ctxs) + 1 /\ h.ctxs[Len(h.ctxs)] = ctx
  <1>1. PICK x, w, y : x = Append(heap.ctxs, ctx) /\ w = ContextWords(ctx.cap) /\ y = heap.used + w
    OBVIOUS
  <1>2. h = OtherContexts(heap, x, y)
    BY <1>1 DEF WithContext, OtherContexts
  <1>3. h = Mem(heap.blocks, x, y)
    BY <1>2, HeapMoves
  <1>4. h = Mem(heap.blocks, Append(heap.ctxs, ctx), heap.used + ContextWords(ctx.cap))
    BY <1>1, <1>3, Zenon
  <1>5. heap.used + ContextWords(ctx.cap) =< HeapCap
    BY DEF ContextFits, Fits
  <1>6. QED
    BY <1>4, <1>5, ContextAdded

(* A context without entries. *)
LEMMA EmptyGood ==
  ASSUME NEW h, NEW size \in Nat
  PROVE  /\ GoodContext(h, EmptyContext(size)) /\ EmptyContext(size).cap = size
         /\ ~EmptyContext(size).sealed /\ DOMAIN EmptyContext(size).entries = {}
         /\ EmptyContext(size) = [cap |-> size, sealed |-> FALSE, entries |-> EmptyContext(size).entries]
  <1>1. PICK ctx : ctx = EmptyContext(size)
    OBVIOUS
  <1>2. PICK m : m = << >>
    OBVIOUS
  <1>3. ctx = [cap |-> size, sealed |-> FALSE, entries |-> m]
    BY <1>1, <1>2 DEF EmptyContext
  <1>4. DOMAIN m = {} /\ m = [sym \in DOMAIN m |-> m[sym]]
    BY <1>2
  <1>5. ctx.cap = size /\ ctx.sealed = FALSE /\ ctx.entries = m
    BY <1>3
  <1>6. GoodContext(h, ctx)
    BY <1>3, <1>4, <1>5 DEF GoodContext
  <1>7. QED
    BY <1>1, <1>3, <1>4, <1>5, <1>6

(* context *)
LEMMA ContextKept ==
  ASSUME Fit, context, ~borrowed'
  PROVE  Kept
  <1>1. GoodHeap(heap) /\ Whole(heap, vm) /\ Calls("context")
    BY DEF Fit, context
  <1>2. PICK b, i, s, o, e, n, m : Ready(b, i, s, o, e, n, m) /\ m = 1
    <2>1. PICK m : m = 1
      OBVIOUS
    <2>2. \E b, i, s, o, e, n : Ready(b, i, s, o, e, n, m)
      BY <1>1, <2>1, ArityOf, NativeReady
    <2>3. QED
      BY <2>1, <2>2
  <1>3. PICK h, v, a, ctx, c, f : /\ h = heap' /\ v = PopFrame(vm) /\ a = Arg(v, 1, 1)[2]
                                  /\ ctx = EmptyContext(ContextSize) /\ c = Len(heap.ctxs) + 1
                                  /\ f = Frame("CONTEXT", 0, Sp(v) - 1, 1)
    OBVIOUS
  <1> DEFINE called == [v EXCEPT !.stack = Below(v, 1), !.env = Append(@, c), !.ops = Append(@, f)]
  <1>4. \/ h = heap /\ \E error : Fail(error)
        \/ /\ ArgError(v, <<BLOCK>>) = "none" /\ ContextFits(ContextSize)
           /\ h = WithContext(heap, ctx)
           /\ \/ \E error : Fail(error)
              \/ /\ Len(v.env) # EnvCap /\ Len(v.ops) # OpCap
                 /\ Jump(called, a, "LEAVE_BLOCK")
    BY <1>3 DEF context
  <1> HIDE DEF called
  <1>5. ASSUME h = heap, NEW error, Fail(error) PROVE GoodHeap(h) /\ Whole(h, vm')
    BY <1>1, <1>5, FailWhole
  <1>6. ASSUME ContextFits(ContextSize), h = WithContext(heap, ctx)
        PROVE  /\ GoodHeap(h) /\ Grown(heap, h) /\ c \in DOMAIN h.ctxs
    <2>1. GoodContext(heap, ctx) /\ ctx.cap = ContextSize
      BY <1>3, EmptyGood, CapsAssumption
    <2>2. QED
      BY <1>1, <1>3, <1>6, <2>1, ContextTaken
  <1>7. ASSUME ContextFits(ContextSize), h = WithContext(heap, ctx), NEW error, Fail(error)
        PROVE  GoodHeap(h) /\ Whole(h, vm')
    BY <1>1, <1>6, <1>7, FailGrown
  <1>8. ASSUME ContextFits(ContextSize), h = WithContext(heap, ctx),
               ArgError(v, <<BLOCK>>) = "none", Len(v.env) # EnvCap, Len(v.ops) # OpCap,
               Jump(called, a, "LEAVE_BLOCK")
        PROVE  GoodHeap(h) /\ Whole(h, vm')
    <2>1. GoodHeap(h) /\ Grown(heap, h) /\ c \in DOMAIN h.ctxs
      BY <1>6, <1>8
    <2>2. Good(heap, Arg(v, 1, 1)) /\ Sp(v) = n + 1 /\ n \in Nat
      <3>1. Sp(v) = n + m /\ \A j \in 1 .. m : Good(heap, Arg(v, m, j))
        BY <1>2, <1>3, ReadyArgs
      <3>2. QED
        BY <1>2, <3>1 DEF Ready
    <2>3. a \in DOMAIN h.blocks
      <3>1. Arg(v, 1, 1)[1] = BLOCK
        BY <1>8, <2>2, OneTag
      <3>2. a \in DOMAIN heap.blocks
        BY <1>3, <2>2, <3>1 DEF Good
      <3>3. QED
        BY <1>1, <2>1, <3>2, GoodStays, HeapShape
    <2>4. PICK t, e2, o2, k, k2 : /\ t = SubSeq(s, 1, n) /\ e2 = Append(e, c) /\ o2 = Append(o, f)
                                  /\ k = 0 /\ k2 = k + 1
      OBVIOUS
    <2>5. v = Machine(b, i, s, o, e) /\ Place(h, b, i) /\ Place(heap, b, i)
      BY <1>1, <1>2, <1>3, <2>1, WholeGrown DEF Ready
    <2>6. called = Machine(b, i, t, o2, e2)
      <3>1. Below(v, 1) = t /\ v.env = e /\ v.ops = o
        <4>1. Below(v, m) = t
          BY <1>2, <1>3, <2>4, ReadyArgs
        <4>2. QED
          BY <1>2, <2>5, <4>1, MachineParts
      <3>2. [Machine(b, i, s, o, e) EXCEPT !.stack = t] = Machine(b, i, t, o, e)
        BY MachineParts
      <3>3. [Machine(b, i, t, o, e) EXCEPT !.env = e2] = Machine(b, i, t, o, e2)
        BY MachineParts
      <3>4. [Machine(b, i, t, o, e2) EXCEPT !.ops = o2] = Machine(b, i, t, o2, e2)
        BY MachineParts
      <3>5. called = [v EXCEPT !.stack = t, !.env = e2, !.ops = o2]
        BY <2>4, <3>1 DEF called
      <3>6. QED
        BY <2>5, <3>2, <3>3, <3>4, <3>5, Zenon
    <2>7. Sound(heap, t, o, e, n, k) /\ Len(t) = n
      <3>1. PICK u : u = SubSeq(s, 1, n) /\ Sound(heap, u, o, e, n, 0) /\ Len(u) = n
        BY <1>2, ArgumentsGone
      <3>2. u = t
        BY <2>4, <3>1
      <3>3. QED
        BY <2>4, <3>1, <3>2
    <2>8. Sound(h, t, o, e, n, k)
      BY <1>1, <2>1, <2>7, SoundGrown
    <2>9. Len(e) < EnvCap /\ Len(o) < OpCap
      <3>1. Len(e) # EnvCap /\ Len(o) # OpCap
        BY <1>8, <2>5, MachineParts
      <3>2. Len(e) =< EnvCap /\ Len(o) =< OpCap /\ Len(e) \in Nat /\ Len(o) \in Nat
        BY <2>8, SoundShape DEF Sound, Held
      <3>3. QED
        BY <3>1, <3>2, CapsAssumption
    <2>10. Sound(h, t, o, e2, n, k2)
      BY <2>1, <2>4, <2>8, <2>9, SoundEntered
    <2>11. f.op = "CONTEXT" /\ f.bp = n /\ f.arity = 1 /\ k2 = Owns(f.op) /\ f.op \notin ReturnOps
      <3>1. f.op = "CONTEXT" /\ f.bp = Sp(v) - 1 /\ f.arity = 1
        BY <1>3 DEF Frame
      <3>2. k2 = 1 /\ Sp(v) - 1 = n
        BY <2>2, <2>4
      <3>3. Owns(f.op) = 1 /\ f.op \notin ReturnOps
        BY <3>1 DEF Owns, OwnerOps, ReturnOps
      <3>4. QED
        BY <3>1, <3>2, <3>3
    <2>12. FrameGood(h, f) /\ n =< Base(f) /\ f.bp =< Len(t)
      BY <2>2, <2>7, <2>11 DEF FrameGood, CallOps, Base
    <2>13. Sound(h, t, o2, e2, n, 0)
      <3>1. Sound(h, t, Append(o, f), e2, f.bp, 0)
        BY <2>9, <2>10, <2>11, <2>12, FrameWhole
      <3>2. QED
        BY <2>4, <2>11, <3>1
    <2>14. Owns("LEAVE_BLOCK") = 0 /\ "LEAVE_BLOCK" \in ReturnOps
      BY DEF Owns, OwnerOps, ReturnOps
    <2>15. PICK op : op = "LEAVE_BLOCK"
      OBVIOUS
    <2>16. Sound(h, t, o2, e2, n, Owns(op)) /\ op # "FOREACH" /\ op \in ReturnOps
      BY <2>13, <2>14, <2>15
    <2>17. Jump(Machine(b, i, t, o2, e2), a, op)
      BY <1>8, <2>6, <2>15
    <2>18. Whole(h, vm)
      BY <1>1, <2>1, WholeGrown
    <2>19. Whole(h, vm')
      BY <2>1, <2>3, <2>5, <2>16, <2>17, <2>18, JumpWhole
    <2>20. QED
      BY <2>1, <2>19
  <1>9. GoodHeap(h) /\ Whole(h, vm')
    BY <1>4, <1>5, <1>7, <1>8
  <1>10. QED
    BY <1>3, <1>9 DEF Kept

(* get_block::<2> at the start of a value. *)
LEMMA PairGood ==
  ASSUME GoodHeap(heap), NEW a \in DOMAIN heap.blocks, NEW offset \in Nat, offset % 2 = 0,
         offset + 2 =< 2 * Len(heap.blocks[a])
  PROVE  Good(heap, PairAt(a, offset))
  <1>1. PICK q : q = offset \div 2
    OBVIOUS
  <1>2. /\ q \in Nat /\ (offset + 1) \div 2 = q /\ offset % 2 = 0 /\ (offset + 1) % 2 = 1
        /\ offset = 2 * q
    BY <1>1
  <1>3. PICK block, x : block = heap.blocks[a] /\ x = block[q + 1]
    OBVIOUS
  <1>4. BlockAt(a) = block
    BY <1>3 DEF BlockAt
  <1>5. q + 1 \in DOMAIN block
    <2>1. Len(block) \in Nat /\ DOMAIN block = 1 .. Len(block)
      BY <1>3, HeapShape
    <2>2. 2 * q + 2 =< 2 * Len(block)
      BY <1>2, <1>3
    <2>3. q + 1 \in 1 .. Len(block)
      BY <1>2, <2>1, <2>2
    <2>4. QED
      BY <2>1, <2>3
  <1>6. Good(heap, x)
    BY <1>3, <1>5 DEF GoodHeap, GoodBlock
  <1>7. WordOf(a, offset) = x[1] /\ WordOf(a, offset + 1) = x[2]
    <2>1. PICK other : other = offset + 1
      OBVIOUS
    <2>2. (offset \div 2) + 1 = q + 1 /\ (offset % 2) + 1 = 1
      BY <1>1, <1>2
    <2>3. (other \div 2) + 1 = q + 1 /\ (other % 2) + 1 = 2
      BY <1>2, <2>1
    <2>4. WordOf(a, offset) = block[q + 1][1]
      BY <1>4, <2>2, Zenon DEF WordOf
    <2>5. WordOf(a, other) = block[q + 1][2]
      BY <1>4, <2>3, Zenon DEF WordOf
    <2>6. QED
      BY <1>3, <2>1, <2>4, <2>5
  <1>8. x = <<x[1], x[2]>>
    BY <1>6 DEF Good, Cells
  <1>9. PairAt(a, offset) = <<x[1], x[2]>>
    BY <1>7 DEF PairAt
  <1>10. QED
    BY <1>6, <1>8, <1>9

(* The context of a loop. *)
LEMMA LoopContext ==
  ASSUME GoodHeap(heap), NEW word \in 0 .. WordMod - 1, NEW val, Good(heap, val),
         NEW ctx, ctx = Seal(Put(EmptyContext(1), word, val))
  PROVE  /\ GoodContext(heap, ctx) /\ ctx.cap = 1 /\ ctx.sealed
         /\ DOMAIN ctx.entries = {word}
  <1>1. PICK x, k : x = EmptyContext(k) /\ k = 1
    OBVIOUS
  <1>2. GoodContext(heap, x) /\ x.cap = 1 /\ ~x.sealed /\ DOMAIN x.entries = {}
    BY <1>1, EmptyGood
  <1>3. PutResult(x, word) = "ok"
    <2>1. Cardinality(DOMAIN x.entries) = 0
      BY <1>2, FS_EmptySet
    <2>2. QED
      BY <1>2, <2>1 DEF PutResult, Bound
  <1>4. PICK y : y = Put(x, word, val)
    OBVIOUS
  <1>5. GoodContext(heap, y) /\ y.cap = 1 /\ DOMAIN y.entries = {word}
    BY <1>2, <1>3, <1>4, PutGood
  <1>6. ctx = [y EXCEPT !.sealed = TRUE]
    BY <1>1, <1>4 DEF Seal
  <1>7. PICK m : m = y.entries
    OBVIOUS
  <1>8. ctx = [cap |-> 1, sealed |-> TRUE, entries |-> m]
    <2>1. y = [cap |-> y.cap, sealed |-> y.sealed, entries |-> y.entries]
      BY <1>5 DEF GoodContext
    <2>2. QED
      BY <1>5, <1>6, <1>7, <2>1
  <1>9. ctx.cap = 1 /\ ctx.sealed = TRUE /\ ctx.entries = m
    BY <1>8
  <1>10. GoodContext(heap, ctx)
    <2>1. /\ m = [sym \in DOMAIN m |-> m[sym]] /\ DOMAIN m \subseteq 0 .. WordMod - 1
          /\ \A sym \in DOMAIN m : Good(heap, m[sym])
      BY <1>5, <1>7 DEF GoodContext
    <2>2. QED
      BY <1>8, <1>9, <2>1 DEF GoodContext
  <1>11. QED
    BY <1>5, <1>7, <1>9, <1>10

(* A loop begins above its three arguments. *)
LEMMA LoopStarts ==
  ASSUME NEW h, GoodHeap(h), Whole(h, vm), NEW b, NEW i, NEW s, NEW o, NEW e, NEW n,
         Place(h, b, i), Sound(h, s, o, e, n, 0), Len(s) = n + 3,
         Len(s) < StackCap, Len(e) < EnvCap,
         s[n + 1][1] = WORD, s[n + 2][1] = BLOCK, s[n + 3][1] = BLOCK,
         2 =< 2 * Len(h.blocks[s[n + 2][2]]),
         NEW c \in DOMAIN h.ctxs, h.ctxs[c].sealed, h.ctxs[c].cap # 0,
         DOMAIN h.ctxs[c].entries = {s[n + 1][2]},
         NEW a \in DOMAIN h.blocks,
         NEW e2, e2 = Append(e, c), NEW s2, s2 = Append(s, <<INT, 0>>),
         Jump(Machine(b, i, s2, o, e2), a, "FOREACH")
  PROVE  Whole(h, vm')
  <1>1. PICK k, k2, zero, op : /\ k = 0 /\ k2 = k + 1 /\ zero = <<INT, 0>> /\ op = "FOREACH"
    OBVIOUS
  <1>2. Sound(h, s, o, e2, n, k2) /\ e2[Len(e) + 1] = c
    BY <1>1, SoundEntered
  <1>3. Good(h, zero) /\ zero[1] = INT /\ zero[2] = 0
    <2>1. k \in 0 .. WordMod - 1 /\ zero = <<INT, k>>
      BY <1>1, Tags
    <2>2. Good(h, <<INT, k>>)
      BY <2>1, PlainGood
    <2>3. QED
      BY <1>1, <2>1, <2>2
  <1>4. Sound(h, s2, o, e2, n, k2)
    BY <1>1, <1>2, <1>3, SoundPushed
  <1>5. n \in Nat /\ IsSequence(s) /\ Owned(o) \in Nat /\ 2 + Owned(o) = Len(e) + 1
    <2>1. n \in Nat /\ IsSequence(s) /\ Owned(o) \in Nat /\ Len(e) = 1 + Owned(o) + k
      BY <1>1, SoundShape
    <2>2. QED
      BY <1>1, <2>1
  <1>6. /\ Len(s2) = n + 4 /\ s2[n + 4] = zero
        /\ s2[n + 1] = s[n + 1] /\ s2[n + 2] = s[n + 2] /\ s2[n + 3] = s[n + 3]
    <2>1. /\ Len(s2) = Len(s) + 1 /\ s2[Len(s) + 1] = zero
          /\ \A j \in 1 .. Len(s) : s2[j] = s[j]
      BY <1>1, <1>5, Stacked
    <2>2. n + 1 \in 1 .. Len(s) /\ n + 2 \in 1 .. Len(s) /\ n + 3 \in 1 .. Len(s) /\ Len(s) + 1 = n + 4
      <3>1. n \in Nat /\ Len(s) = n + 3
        BY <1>5
      <3>2. QED
        BY <3>1
    <2>3. QED
      BY <2>1, <2>2
  <1>7. LoopGood(h, s2, Len(s2), e2[2 + Owned(o)])
    <2>1. PICK p : p = n + 4
      OBVIOUS
    <2>2. p - 3 = n + 1 /\ p - 2 = n + 2 /\ p - 1 = n + 3
      BY <1>5, <2>1
    <2>3. PICK w, d, u : w = s[n + 1] /\ d = s[n + 2] /\ u = s[n + 3]
      OBVIOUS
    <2>4. s2[p] = zero /\ s2[p - 3] = w /\ s2[p - 2] = d /\ s2[p - 1] = u
      BY <1>6, <2>1, <2>2, <2>3
    <2>5. /\ w[1] = WORD /\ d[1] = BLOCK /\ u[1] = BLOCK /\ 2 =< 2 * Len(h.blocks[d[2]])
          /\ DOMAIN h.ctxs[c].entries = {w[2]}
      BY <2>3
    <2>6. zero[2] % 2 = 0 /\ zero[2] + 2 =< 2 * Len(h.blocks[d[2]])
      BY <1>3, <2>5
    <2>7. LoopGood(h, s2, p, c)
      BY <1>3, <2>4, <2>5, <2>6 DEF LoopGood
    <2>8. QED
      BY <1>2, <1>5, <1>6, <2>1, <2>7
  <1>8. op \in ReturnOps /\ Owns(op) = k2 /\ n =< Len(s2) - 4
    BY <1>1, <1>5, <1>6 DEF ReturnOps, Owns, OwnerOps
  <1>9. QED
    BY <1>1, <1>4, <1>7, <1>8, JumpWhole

(* foreach *)
LEMMA ForeachKept ==
  ASSUME Fit, foreach, ~borrowed'
  PROVE  Kept
  <1>1. GoodHeap(heap) /\ Whole(heap, vm) /\ Calls("foreach")
    BY DEF Fit, foreach
  <1>2. PICK b, i, s, o, e, n, m : Ready(b, i, s, o, e, n, m) /\ m = 3
    <2>1. PICK m : m = 3
      OBVIOUS
    <2>2. \E b, i, s, o, e, n : Ready(b, i, s, o, e, n, m)
      BY <1>1, <2>1, ArityOf, NativeReady
    <2>3. QED
      BY <2>1, <2>2
  <1>3. PICK h, v, word, data, body, zero, val, x, ctx, c :
          /\ h = heap' /\ v = PopFrame(vm)
          /\ word = Arg(v, 3, 1)[2] /\ data = Arg(v, 3, 2)[2] /\ body = Arg(v, 3, 3)[2]
          /\ zero = 0 /\ val = PairAt(data, zero)
          /\ ctx = Seal(Put(EmptyContext(1), word, val)) /\ x = WithContext(heap, ctx)
          /\ c = Len(x.ctxs)
    OBVIOUS
  <1> DEFINE called == [v EXCEPT !.env = Append(@, c), !.stack = WithOffset(@)]
  <1>4. \/ h = heap /\ \E error : Fail(error)
        \/ h = heap /\ Continue([v EXCEPT !.stack = Below(v, m)])
        \/ /\ ArgError(v, <<WORD, BLOCK, BLOCK>>) = "none" /\ HasPair(data, zero) /\ ContextFits(1)
           /\ h = x
           /\ \/ \E error : Fail(error)
              \/ /\ Len(v.env) # EnvCap /\ Sp(v) # StackCap
                 /\ Jump(called, body, "FOREACH")
    BY <1>2, <1>3 DEF foreach
  <1> HIDE DEF called
  <1>5. ASSUME h = heap, NEW error, Fail(error) PROVE GoodHeap(h) /\ Whole(h, vm')
    BY <1>1, <1>5, FailWhole
  <1>6. ASSUME h = heap, Continue([v EXCEPT !.stack = Below(v, m)])
        PROVE  GoodHeap(h) /\ Whole(h, vm')
    <2>1. /\ [v EXCEPT !.stack = Below(v, m)] = Machine(b, i, SubSeq(s, 1, n), o, e)
          /\ Sound(heap, SubSeq(s, 1, n), o, e, n, 0)
      <3>1. [v EXCEPT !.stack = Below(v, m)] = Machine(b, i, SubSeq(s, 1, n), o, e)
        BY <1>2, <1>3, ArgumentsTaken
      <3>2. PICK u : u = SubSeq(s, 1, n) /\ Sound(heap, u, o, e, n, 0)
        BY <1>2, ArgumentsGone
      <3>3. QED
        BY <3>1, <3>2
    <2>2. Place(heap, b, i) /\ Continue(Machine(b, i, SubSeq(s, 1, n), o, e))
      BY <1>2, <1>6, <2>1 DEF Ready
    <2>3. Whole(heap, vm')
      BY <2>1, <2>2, ContinueWhole
    <2>4. QED
      BY <1>1, <1>6, <2>3
  <1>7. /\ Len(s) = n + 3 /\ Sp(v) = n + 3 /\ n \in Nat
        /\ Arg(v, 3, 1) = s[n + 1] /\ Good(heap, s[n + 1])
        /\ Arg(v, 3, 2) = s[n + 2] /\ Good(heap, s[n + 2])
        /\ Arg(v, 3, 3) = s[n + 3] /\ Good(heap, s[n + 3])
    <2>1. Len(s) = n + m /\ n \in Nat
      BY <1>2 DEF Ready
    <2>2. Sp(v) = n + m /\ \A j \in 1 .. m : Arg(v, m, j) = s[n + j] /\ Good(heap, Arg(v, m, j))
      BY <1>2, <1>3, ReadyArgs
    <2>3. QED
      BY <1>2, <2>1, <2>2
  <1>8. ASSUME ArgError(v, <<WORD, BLOCK, BLOCK>>) = "none", HasPair(data, zero)
        PROVE  /\ s[n + 1][1] = WORD /\ s[n + 2][1] = BLOCK /\ s[n + 3][1] = BLOCK
               /\ word \in 0 .. WordMod - 1 /\ data \in DOMAIN heap.blocks /\ body \in DOMAIN heap.blocks
               /\ 2 =< 2 * Len(heap.blocks[data]) /\ Good(heap, val)
    <2>1. Arg(v, 3, 1)[1] = WORD /\ Arg(v, 3, 2)[1] = BLOCK /\ Arg(v, 3, 3)[1] = BLOCK
      <3>1. PICK tags, y1, y2, y3 : /\ tags = <<WORD, BLOCK, BLOCK>> /\ y1 = WORD /\ y2 = BLOCK /\ y3 = BLOCK
        OBVIOUS
      <3>2. ArgError(v, tags) = "none" /\ Sp(v) \in Nat
        BY <1>7, <1>8, <3>1
      <3>3. tags = <<y1, y2, y3>> => Arg(v, 3, 1)[1] = y1 /\ Arg(v, 3, 2)[1] = y2 /\ Arg(v, 3, 3)[1] = y3
        BY <3>2, ThreeTags
      <3>4. QED
        BY <3>1, <3>3
    <2>2. word \in 0 .. WordMod - 1
      BY <1>3, <1>7, Tags DEF Good
    <2>3. data \in DOMAIN heap.blocks /\ body \in DOMAIN heap.blocks
      BY <1>3, <1>7, <2>1 DEF Good
    <2>4. zero \in Nat /\ zero % 2 = 0 /\ zero + 2 =< 2 * Len(heap.blocks[data])
      BY <1>3, <1>8, <2>3 DEF HasPair, BlockAt
    <2>5. Good(heap, val)
      BY <1>1, <1>3, <2>3, <2>4, PairGood
    <2>6. QED
      BY <1>3, <1>7, <2>1, <2>2, <2>3, <2>4, <2>5
  <1>9. ASSUME ArgError(v, <<WORD, BLOCK, BLOCK>>) = "none", HasPair(data, zero), ContextFits(1), h = x
        PROVE  /\ GoodHeap(h) /\ Grown(heap, h) /\ c \in DOMAIN h.ctxs
               /\ h.ctxs[c].sealed /\ h.ctxs[c].cap # 0 /\ DOMAIN h.ctxs[c].entries = {word}
    <2>1. GoodContext(heap, ctx) /\ ctx.cap = 1 /\ ctx.sealed /\ DOMAIN ctx.entries = {word}
      BY <1>1, <1>3, <1>8, <1>9, LoopContext
    <2>2. ContextFits(ctx.cap)
      BY <1>9, <2>1
    <2>3. QED
      BY <1>1, <1>3, <1>9, <2>1, <2>2, ContextTaken
  <1>10. ASSUME ArgError(v, <<WORD, BLOCK, BLOCK>>) = "none", HasPair(data, zero), ContextFits(1), h = x,
                NEW error, Fail(error)
         PROVE  GoodHeap(h) /\ Whole(h, vm')
    BY <1>1, <1>9, <1>10, FailGrown
  <1>11. ASSUME ArgError(v, <<WORD, BLOCK, BLOCK>>) = "none", HasPair(data, zero), ContextFits(1), h = x,
                Len(v.env) # EnvCap, Sp(v) # StackCap, Jump(called, body, "FOREACH")
         PROVE  GoodHeap(h) /\ Whole(h, vm')
    <2>1. PICK s2, e2, k : s2 = Append(s, <<INT, 0>>) /\ e2 = Append(e, c) /\ k = 0
      OBVIOUS
    <2>2. v = Machine(b, i, s, o, e) /\ Place(heap, b, i) /\ Sound(heap, s, o, e, n, k)
      BY <1>2, <1>3, <2>1 DEF Ready
    <2>3. called = Machine(b, i, s2, o, e2)
      <3>1. v.env = e /\ v.stack = s
        BY <2>2, MachineParts
      <3>2. [Machine(b, i, s, o, e) EXCEPT !.env = e2] = Machine(b, i, s, o, e2)
        BY MachineParts
      <3>3. [Machine(b, i, s, o, e2) EXCEPT !.stack = s2] = Machine(b, i, s2, o, e2)
        BY MachineParts
      <3>4. called = [v EXCEPT !.env = e2, !.stack = s2]
        BY <2>1, <3>1 DEF called, WithOffset
      <3>5. QED
        BY <2>2, <3>2, <3>3, <3>4, Zenon
    <2>4. /\ GoodHeap(h) /\ Grown(heap, h) /\ c \in DOMAIN h.ctxs
          /\ h.ctxs[c].sealed /\ h.ctxs[c].cap # 0 /\ DOMAIN h.ctxs[c].entries = {word}
      BY <1>9, <1>11
    <2>5. Sound(h, s, o, e, n, k) /\ Place(h, b, i) /\ Whole(h, vm)
      BY <1>1, <2>2, <2>4, SoundGrown, WholeGrown
    <2>6. Len(e) < EnvCap /\ Len(s) < StackCap
      <3>1. Len(e) # EnvCap /\ Len(s) # StackCap
        BY <1>11, <2>2, MachineParts DEF Sp
      <3>2. Len(e) =< EnvCap /\ Len(s) =< StackCap /\ Len(e) \in Nat /\ Len(s) \in Nat
        BY <2>2, SoundShape DEF Sound, Held
      <3>3. QED
        BY <3>1, <3>2, CapsAssumption
    <2>7. /\ s[n + 1][1] = WORD /\ s[n + 2][1] = BLOCK /\ s[n + 3][1] = BLOCK
          /\ 2 =< 2 * Len(heap.blocks[data]) /\ data \in DOMAIN heap.blocks /\ body \in DOMAIN heap.blocks
      BY <1>8, <1>11
    <2>8. /\ s[n + 2][2] = data /\ s[n + 1][2] = word
          /\ h.blocks[data] = heap.blocks[data] /\ body \in DOMAIN h.blocks
      <3>1. h.blocks[data] = heap.blocks[data] /\ body \in DOMAIN h.blocks
        BY <1>1, <2>4, <2>7, GoodStays, HeapShape
      <3>2. QED
        BY <1>3, <1>7, <3>1
    <2>9. Jump(Machine(b, i, s2, o, e2), body, "FOREACH")
      BY <1>11, <2>3
    <2>10. Sound(h, s, o, e, n, 0) /\ 2 =< 2 * Len(h.blocks[s[n + 2][2]])
      BY <2>1, <2>5, <2>7, <2>8
    <2>11. Whole(h, vm')
      BY <1>7, <2>1, <2>4, <2>5, <2>6, <2>7, <2>8, <2>9, <2>10, LoopStarts
    <2>12. QED
      BY <2>4, <2>11
  <1>12. GoodHeap(h) /\ Whole(h, vm')
    BY <1>4, <1>5, <1>6, <1>10, <1>11
  <1>13. QED
    BY <1>3, <1>12 DEF Kept

-----------------------------------------------------------------------------
(* The calls that are no natives. *)

(* Addresses are words. *)
LEMMA Addresses ==
  ASSUME NEW h, GoodHeap(h)
  PROVE  /\ \A a \in DOMAIN h.blocks : a \in 0 .. WordMod - 1
         /\ \A c \in DOMAIN h.ctxs : c \in 0 .. WordMod - 1
  <1>1. /\ h.used \in 0 .. HeapCap /\ HeapCap \in Nat /\ WordMod \in Nat
        /\ Len(h.blocks) + HeapCap - h.used < WordMod /\ Len(h.ctxs) + HeapCap - h.used < WordMod
    BY HeapAssumption, WordModAssumption DEF GoodHeap
  <1>2. Len(h.blocks) \in Nat /\ Len(h.ctxs) \in Nat
    BY HeapShape
  <1>3. Len(h.blocks) < WordMod /\ Len(h.ctxs) < WordMod
    BY <1>1, <1>2
  <1>4. DOMAIN h.blocks = 1 .. Len(h.blocks) /\ DOMAIN h.ctxs = 1 .. Len(h.ctxs)
    BY HeapShape
  <1>5. QED
    BY <1>1, <1>2, <1>3, <1>4

(* Such a call has its arguments. *)
LEMMA CallReady ==
  ASSUME Whole(heap, vm), NEW op \in CallOps, Run(op), ~borrowed'
  PROVE  \E b, i, s, o, e, f : /\ Popped(b, i, s, o, e, f) /\ f.op = op /\ Base(f) = f.bp
                               /\ f.bp \in Nat /\ Len(s) = f.bp + f.arity
  <1>1. vm.ops # << >> /\ Top.op = op /\ Pending
    BY DEF Run
  <1>2. PICK b, i, s, o, e, f : Popped(b, i, s, o, e, f)
    BY <1>1, PopWhole
  <1>3. f.op = op /\ Len(s) = f.bp + f.arity
    BY <1>1, <1>2 DEF Popped
  <1>4. f.bp \in Nat
    BY <1>2 DEF Popped, FrameGood
  <1>5. op # "FOREACH"
    BY DEF CallOps
  <1>6. Base(f) = f.bp
    BY <1>3, <1>5 DEF Base
  <1>7. QED
    BY <1>2, <1>3, <1>4, <1>6

(* CONTEXT *)
LEMMA EndContextKept ==
  ASSUME Fit, EndContext, ~borrowed'
  PROVE  Kept
  <1>1. GoodHeap(heap) /\ Whole(heap, vm) /\ Run("CONTEXT") /\ heap' = heap
    BY DEF Fit, EndContext
  <1>2. PICK b, i, s, o, e, f, n : /\ Popped(b, i, s, o, e, f) /\ f.op = "CONTEXT" /\ Base(f) = f.bp
                                   /\ f.bp \in Nat /\ Len(s) = f.bp + f.arity /\ n = f.bp
    <2>1. PICK op : op = "CONTEXT"
      OBVIOUS
    <2>2. op \in CallOps /\ Run(op)
      BY <1>1, <2>1 DEF CallOps
    <2>3. \E b, i, s, o, e, f : /\ Popped(b, i, s, o, e, f) /\ f.op = op /\ Base(f) = f.bp
                                /\ f.bp \in Nat /\ Len(s) = f.bp + f.arity
      BY <1>1, <2>2, CallReady
    <2>4. QED
      BY <2>1, <2>3
  <1>3. PICK k, k0, q, c, val, v : /\ k = 1 /\ k0 = k - 1 /\ q = Front(e) /\ c = Last(e)
                                   /\ val = <<CONTEXT, c>> /\ v = PopFrame(vm)
    OBVIOUS
  <1>4. /\ v = Machine(b, i, s, o, e) /\ Place(heap, b, i) /\ Sound(heap, s, o, e, n, k)
        /\ Len(s) = n + 1
    <2>1. Owns(f.op) = k /\ f.arity = 1
      BY <1>2, <1>3 DEF Owns, OwnerOps, Popped, FrameGood
    <2>2. QED
      BY <1>2, <1>3, <2>1 DEF Popped
  <1>5. e # << >> /\ c \in DOMAIN heap.ctxs /\ Sound(heap, s, o, q, n, k0)
    BY <1>3, <1>4, SoundLeft
  <1>6. Good(heap, val)
    BY <1>1, <1>3, <1>5, Addresses, PlainGood
  <1>7. \/ \E error : Fail(error)
        \/ Return([v EXCEPT !.env = q], 1, val)
    <2>1. v.env = e
      BY <1>4, MachineParts
    <2>2. QED
      BY <1>3, <2>1 DEF EndContext
  <1>8. ASSUME Return([v EXCEPT !.env = q], 1, val)
        PROVE  Whole(heap, vm')
    <2>1. [v EXCEPT !.env = q] = Machine(b, i, s, o, q)
      BY <1>4, MachineParts
    <2>2. PICK m : m = 1
      OBVIOUS
    <2>3. Return(Machine(b, i, s, o, q), m, val) /\ m \in 0 .. Len(s) - n
      BY <1>2, <1>4, <1>8, <2>1, <2>2
    <2>4. Sound(heap, s, o, q, n, 0)
      BY <1>3, <1>5
    <2>5. QED
      BY <1>1, <1>4, <1>6, <2>3, <2>4, ReturnWhole
  <1>9. QED
    BY <1>1, <1>7, <1>8, FailWhole DEF Kept

(* SET_WORD *)
LEMMA SetWordKept ==
  ASSUME Fit, SetWord, ~borrowed'
  PROVE  Kept
  <1>1. GoodHeap(heap) /\ Whole(heap, vm) /\ Run("SET_WORD")
    BY DEF Fit, SetWord
  <1>2. PICK b, i, s, o, e, f, n : /\ Popped(b, i, s, o, e, f) /\ f.op = "SET_WORD" /\ Base(f) = f.bp
                                   /\ f.bp \in Nat /\ Len(s) = f.bp + f.arity /\ n = f.bp
    <2>1. PICK op : op = "SET_WORD"
      OBVIOUS
    <2>2. op \in CallOps /\ Run(op)
      BY <1>1, <2>1 DEF CallOps
    <2>3. \E b, i, s, o, e, f : /\ Popped(b, i, s, o, e, f) /\ f.op = op /\ Base(f) = f.bp
                                /\ f.bp \in Nat /\ Len(s) = f.bp + f.arity
      BY <1>1, <2>2, CallReady
    <2>4. QED
      BY <2>1, <2>3
  <1>3. PICK k, h, v, sym, takers, c, val :
          /\ k = 0 /\ h = heap' /\ v = PopFrame(vm) /\ sym = Top.word
          /\ takers = {j \in DOMAIN e : PutResult(heap.ctxs[e[j]], sym) # "WordNotFound"}
          /\ c = e[Max(takers)] /\ val = Last(s)
    OBVIOUS
  <1>4. /\ v = Machine(b, i, s, o, e) /\ Place(heap, b, i) /\ Sound(heap, s, o, e, n, k)
        /\ Len(s) = n + 1 /\ sym \in 0 .. WordMod - 1
    <2>1. Owns(f.op) = k /\ f.arity = 1
      BY <1>2, <1>3 DEF Owns, OwnerOps, Popped, FrameGood
    <2>2. f.word \in 0 .. WordMod - 1
      BY <1>2 DEF Popped, FrameGood
    <2>3. QED
      BY <1>2, <1>3, <2>1, <2>2 DEF Popped
  <1>5. \/ h = heap /\ \E error : Fail(error)
        \/ /\ takers # {} /\ PutResult(heap.ctxs[c], sym) = "ok"
           /\ h = [heap EXCEPT !.ctxs[c] = Put(@, sym, val)]
           /\ Continue(v)
    <2>1. v.env = e /\ v.stack = s
      BY <1>4, MachineParts
    <2>2. QED
      BY <1>3, <2>1 DEF SetWord
  <1>6. ASSUME takers # {}, PutResult(heap.ctxs[c], sym) = "ok",
               h = [heap EXCEPT !.ctxs[c] = Put(@, sym, val)], Continue(v)
        PROVE  GoodHeap(h) /\ Whole(h, vm')
    <2>1. IsSequence(e) /\ Len(e) \in Nat /\ DOMAIN e = 1 .. Len(e) /\ Len(s) \in Nat
      BY <1>4, SoundShape, Indexed
    <2>2. Max(takers) \in 1 .. Len(e)
      <3>1. takers \in SUBSET (1 .. Len(e))
        BY <1>3, <2>1
      <3>2. Max(takers) \in takers
        BY <1>6, <2>1, <3>1, MaxMember
      <3>3. QED
        BY <3>1, <3>2
    <2>3. c \in DOMAIN heap.ctxs
      BY <1>3, <1>4, <2>2 DEF Sound, Held
    <2>4. Good(heap, val)
      <3>1. val = s[Len(s)] /\ Len(s) \in 1 .. Len(s)
        BY <1>2, <1>3, <1>4, <2>1 DEF Last
      <3>2. QED
        BY <1>4, <3>1 DEF Sound, Held
    <2>5. GoodHeap(h) /\ Grown(heap, h)
      BY <1>1, <1>4, <1>6, <2>3, <2>4, ContextChanged
    <2>6. Sound(h, s, o, e, n, 0) /\ Place(h, b, i)
      <3>1. Sound(h, s, o, e, n, k) /\ Place(h, b, i)
        BY <1>1, <1>4, <2>5, SoundGrown, WholeGrown
      <3>2. QED
        BY <1>3, <3>1
    <2>7. Continue(Machine(b, i, s, o, e))
      BY <1>4, <1>6
    <2>8. QED
      BY <2>5, <2>6, <2>7, ContinueWhole
  <1>7. GoodHeap(h) /\ Whole(h, vm')
    BY <1>1, <1>5, <1>6, FailWhole
  <1>8. QED
    BY <1>3, <1>7 DEF Kept

(* What a function's parameters are bound to. *)
LEMMA ArgumentsGood ==
  ASSUME NEW params, IsSequence(params), \A j \in 1 .. Len(params) : Good(heap, params[j]),
         NEW v, \A j \in 1 .. Len(params) : Good(heap, Arg(v, Len(params), j)),
         NEW args, args = Arguments(v, params)
  PROVE  /\ args = [sym \in DOMAIN args |-> args[sym]]
         /\ DOMAIN args \subseteq 0 .. WordMod - 1
         /\ \A sym \in DOMAIN args : Good(heap, args[sym])
  <1> DEFINE At(sym) == {j \in 1 .. Len(params) : params[j][2] = sym}
             Names   == {params[j][2] : j \in 1 .. Len(params)}
  <1>1. Len(params) \in Nat /\ DOMAIN params = 1 .. Len(params)
    BY Indexed
  <1>2. args = [sym \in Names |-> Arg(v, Len(params), Min(At(sym)))]
    BY <1>1 DEF Arguments
  <1>3. Names \subseteq 0 .. WordMod - 1
    <2>1. ASSUME NEW j \in 1 .. Len(params) PROVE params[j][2] \in 0 .. WordMod - 1
      BY <2>1, Tags DEF Good
    <2>2. QED
      BY <2>1
  <1>4. ASSUME NEW sym \in Names PROVE Good(heap, Arg(v, Len(params), Min(At(sym))))
    <2>1. At(sym) \in SUBSET Nat /\ At(sym) \subseteq 1 .. Len(params)
      BY <1>1
    <2>2. At(sym) # {}
      BY <1>4
    <2> HIDE DEF At
    <2>3. Min(At(sym)) \in At(sym)
      BY <2>1, <2>2, MinMember
    <2>4. Min(At(sym)) \in 1 .. Len(params)
      BY <2>1, <2>3
    <2>5. QED
      BY <2>4
  <1> HIDE DEF At, Names
  <1>5. DOMAIN args = Names /\ \A sym \in Names : args[sym] = Arg(v, Len(params), Min(At(sym)))
    BY <1>2
  <1>6. args = [sym \in DOMAIN args |-> args[sym]]
    BY <1>2, <1>5
  <1>7. QED
    BY <1>3, <1>4, <1>5, <1>6

(* A call of a function whose arguments are on the stack. *)
LEMMA CallFunctionKept ==
  ASSUME Fit, NEW b, NEW i, NEW s, NEW o, NEW e, NEW n, NEW m,
         Place(heap, b, i), Sound(heap, s, o, e, n, 0),
         NEW desc, Describes(heap, desc), m = Len(heap.blocks[heap.blocks[desc][2][2]]),
         Len(s) = n + m, CallFunction(Machine(b, i, s, o, e), desc)
  PROVE  Kept
  <1>1. GoodHeap(heap) /\ Whole(heap, vm)
    BY DEF Fit
  <1>2. PICK v, h, params, body, size, ctx, c, k :
          /\ v = Machine(b, i, s, o, e) /\ h = heap'
          /\ params = BlockAt(BlockAt(desc)[2][2]) /\ body = BlockAt(desc)[3][2]
          /\ size = 2 * Len(params)
          /\ ctx = [EmptyContext(size) EXCEPT !.entries = Arguments(v, params)]
          /\ c = Len(WithContext(heap, ctx).ctxs) /\ k = 0
    OBVIOUS
  <1>3. /\ desc \in DOMAIN heap.blocks /\ Len(heap.blocks[desc]) = 3
        /\ heap.blocks[desc][2][2] \in DOMAIN heap.blocks
        /\ heap.blocks[desc][3][2] \in DOMAIN heap.blocks
    BY <1>1, FunctionParts
  <1>4. BlockAt(desc) = heap.blocks[desc] /\ params = heap.blocks[heap.blocks[desc][2][2]]
    BY <1>1, <1>2, <1>3, BlockShape
  <1>5. /\ Len(params) = m /\ m \in Nat /\ IsSequence(params) /\ body \in DOMAIN heap.blocks
        /\ \A j \in 1 .. m : Good(heap, params[j])
    <2>1. Len(params) = m /\ m \in Nat /\ IsSequence(params) /\ DOMAIN params = 1 .. m
      BY <1>1, <1>3, <1>4, HeapShape
    <2>2. \A j \in 1 .. m : Good(heap, params[j])
      BY <1>1, <1>3, <1>4, <2>1 DEF GoodHeap, GoodBlock
    <2>3. body \in DOMAIN heap.blocks
      BY <1>2, <1>3, <1>4
    <2>4. QED
      BY <2>1, <2>2, <2>3
  <1>6. /\ n \in Nat /\ Len(s) \in Nat /\ n \in 0 .. Len(s) /\ IsSequence(s)
        /\ v.stack = s /\ v.env = e /\ Sp(v) = n + m
    <2>1. n \in Nat /\ Len(s) \in Nat /\ n =< Len(s) /\ IsSequence(s)
      <3>1. Sound(heap, s, o, e, n, k)
        BY <1>2
      <3>2. QED
        BY <3>1, SoundShape
    <2>2. v.stack = s /\ v.env = e
      BY <1>2, MachineParts
    <2>3. QED
      BY <2>1, <2>2 DEF Sp
  <1>7. \A j \in 1 .. m : Good(heap, Arg(v, m, j))
    <2>1. ASSUME NEW j \in 1 .. m PROVE Good(heap, Arg(v, m, j))
      <3>1. n + m - m + j = n + j /\ n + j \in 1 .. Len(s)
        BY <1>5, <1>6
      <3>2. Arg(v, m, j) = s[n + j]
        BY <1>6, <3>1 DEF Arg
      <3>3. QED
        BY <3>1, <3>2 DEF Sound, Held
    <2>2. QED
      BY <2>1
  <1>8. GoodContext(heap, ctx) /\ ctx.cap = size /\ size \in Nat
    <2>1. size \in Nat
      <3>1. size = 2 * m /\ m \in Nat
        BY <1>2, <1>5
      <3>2. QED
        BY SMTT(30), <3>1
    <2>2. PICK x, args : x = EmptyContext(size) /\ args = Arguments(v, params)
      OBVIOUS
    <2>3. /\ args = [sym \in DOMAIN args |-> args[sym]] /\ DOMAIN args \subseteq 0 .. WordMod - 1
          /\ \A sym \in DOMAIN args : Good(heap, args[sym])
      BY <1>5, <1>7, <2>2, ArgumentsGood
    <2>4. ctx = [cap |-> size, sealed |-> FALSE, entries |-> args]
      <3>1. x = [cap |-> size, sealed |-> FALSE, entries |-> << >>]
        BY <2>2 DEF EmptyContext
      <3>2. ctx = [x EXCEPT !.entries = args]
        BY <1>2, <2>2
      <3>3. QED
        BY <3>1, <3>2
    <2>5. ctx.cap = size /\ ctx.entries = args /\ ctx.sealed = FALSE
      BY <2>4
    <2>6. GoodContext(heap, ctx)
      BY <2>1, <2>3, <2>4, <2>5 DEF GoodContext
    <2>7. QED
      BY <2>1, <2>5, <2>6
  <1> DEFINE called == [v EXCEPT !.stack = Below(v, m), !.env = Append(@, c)]
  <1>9. \/ h = heap /\ \E error : Fail(error)
        \/ ContextFits(size) /\ h = WithContext(heap, EmptyContext(size)) /\ \E error : Fail(error)
        \/ /\ ContextFits(size) /\ h = WithContext(heap, ctx)
           /\ \/ \E error : Fail(error)
              \/ Len(v.env) # EnvCap /\ Jump(called, body, "LEAVE_FUNC")
    BY <1>2, <1>5 DEF CallFunction
  <1> HIDE DEF called
  <1>10. ASSUME h = heap, NEW error, Fail(error) PROVE GoodHeap(h) /\ Whole(h, vm')
    BY <1>1, <1>10, FailWhole
  <1>11. ASSUME ContextFits(size), h = WithContext(heap, EmptyContext(size)), NEW error, Fail(error)
         PROVE  GoodHeap(h) /\ Whole(h, vm')
    <2>1. PICK x : x = EmptyContext(size)
      OBVIOUS
    <2>2. GoodContext(heap, x) /\ x.cap = size
      BY <1>8, <2>1, EmptyGood
    <2>3. GoodHeap(h) /\ Grown(heap, h)
      BY <1>1, <1>11, <2>1, <2>2, ContextTaken
    <2>4. QED
      BY <1>1, <1>11, <2>3, FailGrown
  <1>12. ASSUME ContextFits(size), h = WithContext(heap, ctx)
         PROVE  GoodHeap(h) /\ Grown(heap, h) /\ c \in DOMAIN h.ctxs
    BY <1>1, <1>2, <1>8, <1>12, ContextTaken
  <1>13. ASSUME ContextFits(size), h = WithContext(heap, ctx), NEW error, Fail(error)
         PROVE  GoodHeap(h) /\ Whole(h, vm')
    BY <1>1, <1>12, <1>13, FailGrown
  <1>14. ASSUME ContextFits(size), h = WithContext(heap, ctx),
                Len(v.env) # EnvCap, Jump(called, body, "LEAVE_FUNC")
         PROVE  GoodHeap(h) /\ Whole(h, vm')
    <2>1. GoodHeap(h) /\ Grown(heap, h) /\ c \in DOMAIN h.ctxs
      BY <1>12, <1>14
    <2>2. PICK t, e2, k2, op : /\ t = SubSeq(s, 1, n) /\ e2 = Append(e, c) /\ k2 = k + 1
                               /\ op = "LEAVE_FUNC"
      OBVIOUS
    <2>3. called = Machine(b, i, t, o, e2)
      <3>1. Below(v, m) = t
        <4>1. n + m - m = n
          BY <1>5, <1>6
        <4>2. QED
          BY <1>6, <2>2, <4>1 DEF Below
      <3>2. [Machine(b, i, s, o, e) EXCEPT !.stack = t] = Machine(b, i, t, o, e)
        BY MachineParts
      <3>3. [Machine(b, i, t, o, e) EXCEPT !.env = e2] = Machine(b, i, t, o, e2)
        BY MachineParts
      <3>4. called = [v EXCEPT !.stack = t, !.env = e2]
        BY <1>6, <2>2, <3>1 DEF called
      <3>5. QED
        BY <1>2, <3>2, <3>3, <3>4, Zenon
    <2>4. Sound(heap, t, o, e, n, k)
      <3>1. Sound(heap, s, o, e, n, k) /\ n \in n .. Len(s)
        BY <1>2, <1>6
      <3>2. QED
        BY <2>2, <3>1, SoundTruncated
    <2>5. Sound(h, t, o, e, n, k)
      BY <1>1, <2>1, <2>4, SoundGrown
    <2>6. Len(e) < EnvCap
      <3>1. Len(e) =< EnvCap /\ Len(e) \in Nat
        BY <2>5, SoundShape DEF Sound, Held
      <3>2. QED
        BY <1>6, <1>14, <3>1, CapsAssumption
    <2>7. Sound(h, t, o, e2, n, k2)
      BY <2>1, <2>2, <2>5, <2>6, SoundEntered
    <2>8. op \in ReturnOps /\ Owns(op) = k2 /\ op # "FOREACH"
      BY <1>2, <2>2 DEF ReturnOps, Owns, OwnerOps
    <2>9. Place(h, b, i) /\ Whole(h, vm) /\ body \in DOMAIN h.blocks
      BY <1>1, <1>5, <2>1, WholeGrown, GoodStays, HeapShape
    <2>10. Jump(Machine(b, i, t, o, e2), body, op)
      BY <1>14, <2>2, <2>3
    <2>11. Whole(h, vm')
      BY <2>1, <2>7, <2>8, <2>9, <2>10, JumpWhole
    <2>12. QED
      BY <2>1, <2>11
  <1>15. GoodHeap(h) /\ Whole(h, vm')
    BY <1>9, <1>10, <1>11, <1>13, <1>14
  <1>16. QED
    BY <1>2, <1>15 DEF Kept

(* CALL_FUNC *)
LEMMA CallFuncKept ==
  ASSUME Fit, CallFunc, ~borrowed'
  PROVE  Kept
  <1>1. GoodHeap(heap) /\ Whole(heap, vm) /\ Run("CALL_FUNC") /\ CallFunction(PopFrame(vm), Top.word)
    BY DEF Fit, CallFunc
  <1>2. PICK b, i, s, o, e, f, n : /\ Popped(b, i, s, o, e, f) /\ f.op = "CALL_FUNC" /\ Base(f) = f.bp
                                   /\ f.bp \in Nat /\ Len(s) = f.bp + f.arity /\ n = f.bp
    <2>1. PICK op : op = "CALL_FUNC"
      OBVIOUS
    <2>2. op \in CallOps /\ Run(op)
      BY <1>1, <2>1 DEF CallOps
    <2>3. \E b, i, s, o, e, f : /\ Popped(b, i, s, o, e, f) /\ f.op = op /\ Base(f) = f.bp
                                /\ f.bp \in Nat /\ Len(s) = f.bp + f.arity
      BY <1>1, <2>2, CallReady
    <2>4. QED
      BY <2>1, <2>3
  <1>3. PICK desc, m : desc = f.word /\ m = f.arity
    OBVIOUS
  <1>4. Describes(heap, desc) /\ m = Len(heap.blocks[heap.blocks[desc][2][2]])
    BY <1>2, <1>3 DEF Popped, FrameGood
  <1>5. Owns(f.op) = 0
    BY <1>2 DEF Owns, OwnerOps
  <1>6. /\ Place(heap, b, i) /\ Sound(heap, s, o, e, n, 0)
        /\ CallFunction(Machine(b, i, s, o, e), desc)
    BY <1>1, <1>2, <1>3, <1>5 DEF Popped
  <1>7. QED
    BY <1>2, <1>3, <1>4, <1>6, CallFunctionKept

-----------------------------------------------------------------------------
(* Fetch. *)

(* The value at a place that is not the end. *)
LEMMA PlaceAhead ==
  ASSUME GoodHeap(heap), NEW b, NEW i, Place(heap, b, i), HasPair(b, 2 * i)
  PROVE  Place(heap, b, i + 1) /\ Good(heap, PairAt(b, 2 * i))
  <1>1. PICK offset : offset = 2 * i
    OBVIOUS
  <1>2. /\ b \in DOMAIN heap.blocks /\ Len(heap.blocks[b]) \in Nat /\ i \in 0 .. Len(heap.blocks[b])
        /\ BlockAt(b) = heap.blocks[b]
    BY HeapShape, BlockShape DEF Place
  <1>3. offset + 2 =< 2 * Len(heap.blocks[b])
    BY <1>1, <1>2 DEF HasPair
  <1>4. offset \in Nat /\ offset % 2 = 0
    BY <1>1, <1>2
  <1>5. i + 1 \in 0 .. Len(heap.blocks[b])
    BY <1>1, <1>2, <1>3
  <1>6. Good(heap, PairAt(b, offset))
    BY <1>2, <1>3, <1>4, PairGood
  <1>7. QED
    BY <1>1, <1>2, <1>5, <1>6 DEF Place

(* A native function waits for its arguments. *)
LEMMA FetchNativeWhole ==
  ASSUME Fit, NEW b, NEW i, NEW s, NEW o, NEW e, Place(heap, b, i),
         Sound(heap, s, o, e, Len(s), 0), NEW native \in DOMAIN Arity,
         FetchNative(Machine(b, i, s, o, e), native)
  PROVE  Whole(heap, vm')
  <1>1. GoodHeap(heap) /\ Whole(heap, vm)
    BY DEF Fit
  <1>2. PICK v, k, n, op : /\ v = Machine(b, i, s, o, e) /\ k = 0 /\ n = Len(s)
                           /\ op = "CALL_NATIVE"
    OBVIOUS
  <1>3. /\ v.block = b /\ v.ip = i /\ v.ops = o /\ v.stack = s /\ Sp(v) = n /\ n \in Nat
        /\ Sound(heap, s, o, e, n, k) /\ Len(o) \in Nat /\ Len(o) =< OpCap
    <2>1. v.block = b /\ v.ip = i /\ v.ops = o /\ v.stack = s
      BY <1>2, MachineParts
    <2>2. Sound(heap, s, o, e, n, k)
      BY <1>2
    <2>3. n \in Nat /\ Len(o) \in Nat
      BY <2>2, SoundShape
    <2>4. Len(o) =< OpCap
      BY <2>2 DEF Sound, Held
    <2>5. QED
      BY <1>2, <2>1, <2>2, <2>3, <2>4 DEF Sp
  <1>4. ASSUME NEW arity, arity = Arity[native]
        PROVE  FrameGood(heap, Frame(op, native, n, arity))
    <2>1. PICK f : f = Frame(op, native, n, arity)
      OBVIOUS
    <2>2. f.op = op /\ f.word = native /\ f.bp = n /\ f.arity = arity
      BY <2>1 DEF Frame
    <2>3. FrameGood(heap, f)
      BY <1>2, <1>3, <1>4, <2>2 DEF FrameGood, CallOps, ReturnOps
    <2>4. QED
      BY <2>1, <2>3
  <1>5. PICK f, p, j, val : /\ f = Frame(op, native, n, 3) /\ p = Append(o, f) /\ j = i + 1
                            /\ val = PairAt(b, 2 * i)
    OBVIOUS
  <1>6. \/ \E error : Fail(error)
        \/ /\ native = Native.foreach /\ Len(o) # OpCap /\ HasPair(b, 2 * i)
           /\ PushValue([v EXCEPT !.ops = p, !.ip = j], val)
        \/ PushOp(v, op, native, Arity[native])
    <2>1. \/ \E error : Fail(error)
          \/ /\ native = Native.foreach /\ Len(v.ops) # OpCap /\ HasPair(v.block, 2 * v.ip)
             /\ PushValue([v EXCEPT !.ops = Append(v.ops, Frame("CALL_NATIVE", native, Sp(v), 3)),
                                    !.ip = v.ip + 1], PairAt(v.block, 2 * v.ip))
          \/ PushOp(v, "CALL_NATIVE", native, Arity[native])
      BY <1>2 DEF FetchNative
    <2>2. QED
      BY <1>2, <1>3, <1>5, <2>1, Zenon
  <1>7. ASSUME native = Native.foreach, Len(o) # OpCap, HasPair(b, 2 * i),
               PushValue([v EXCEPT !.ops = p, !.ip = j], val)
        PROVE  Whole(heap, vm')
    <2>1. Place(heap, b, j) /\ Good(heap, val)
      BY <1>1, <1>5, <1>7, PlaceAhead
    <2>2. [v EXCEPT !.ops = p, !.ip = j] = Machine(b, j, s, p, e)
      <3>1. [Machine(b, i, s, o, e) EXCEPT !.ops = p] = Machine(b, i, s, p, e)
        BY MachineParts
      <3>2. [Machine(b, i, s, p, e) EXCEPT !.ip = j] = Machine(b, j, s, p, e)
        BY MachineParts
      <3>3. [v EXCEPT !.ops = p, !.ip = j] = [[v EXCEPT !.ops = p] EXCEPT !.ip = j]
        OBVIOUS
      <3>4. QED
        BY <1>2, <3>1, <3>2, <3>3, Zenon
    <2>3. Arity[native] = 3
      BY <1>7, ArityOf
    <2>4. FrameGood(heap, f)
      BY <1>4, <1>5, <2>3
    <2>5. f.op = op /\ f.bp = n
      BY <1>5 DEF Frame
    <2>6. /\ k = Owns(f.op) /\ n =< Base(f) /\ f.bp =< Len(s) /\ Len(o) < OpCap
          /\ f.op # "FOREACH"
      <3>1. Len(o) < OpCap
        BY <1>3, <1>7, CapsAssumption
      <3>2. QED
        BY <1>2, <1>3, <2>5, <3>1 DEF Owns, OwnerOps, Base
    <2>7. Sound(heap, s, p, e, n, 0)
      <3>1. Sound(heap, s, Append(o, f), e, f.bp, 0)
        BY <1>3, <2>4, <2>6, FrameWhole
      <3>2. QED
        BY <1>5, <2>5, <3>1
    <2>8. PushValue(Machine(b, j, s, p, e), val)
      BY <1>7, <2>2
    <2>9. QED
      BY <1>1, <2>1, <2>7, <2>8, PushValueWhole
  <1>8. ASSUME PushOp(v, op, native, Arity[native])
        PROVE  Whole(heap, vm')
    <2>1. PICK arity : arity = Arity[native]
      OBVIOUS
    <2>2. FrameGood(heap, Frame(op, native, Len(s), arity))
      BY <1>2, <1>4, <2>1
    <2>3. op \notin OwnerOps
      BY <1>2 DEF OwnerOps
    <2>4. PushOp(Machine(b, i, s, o, e), op, native, arity)
      BY <1>2, <1>8, <2>1
    <2>5. QED
      BY <1>1, <2>2, <2>3, <2>4, PushOpWhole
  <1>9. QED
    BY <1>1, <1>6, <1>7, <1>8, FailWhole

(* So does a function, unless it has no parameters. *)
LEMMA FetchFuncKept ==
  ASSUME Fit, NEW b, NEW i, NEW s, NEW o, NEW e, Place(heap, b, i),
         Sound(heap, s, o, e, Len(s), 0), NEW desc, Describes(heap, desc),
         FetchFunc(Machine(b, i, s, o, e), desc)
  PROVE  Kept
  <1>1. GoodHeap(heap) /\ Whole(heap, vm)
    BY DEF Fit
  <1>2. PICK v, k, n, m, op : /\ v = Machine(b, i, s, o, e) /\ k = 0 /\ n = Len(s) /\ op = "CALL_FUNC"
                              /\ m = Len(heap.blocks[heap.blocks[desc][2][2]])
    OBVIOUS
  <1>3. /\ desc \in DOMAIN heap.blocks /\ BlockAt(desc) = heap.blocks[desc]
        /\ m \in Nat /\ BlockAt(desc)[1][2] = 2 * m
    <2>1. desc \in DOMAIN heap.blocks /\ heap.blocks[desc][2][2] \in DOMAIN heap.blocks
      BY <1>1, FunctionParts
    <2>2. m \in Nat /\ BlockAt(desc) = heap.blocks[desc]
      BY <1>1, <1>2, <2>1, HeapShape, BlockShape
    <2>3. heap.blocks[desc][1][2] = 2 * m
      BY <1>2 DEF Describes
    <2>4. QED
      BY <2>1, <2>2, <2>3
  <1>4. n \in Nat /\ Sound(heap, s, o, e, n, k)
    <2>1. Sound(heap, s, o, e, n, k)
      BY <1>2
    <2>2. QED
      BY <2>1, SoundShape
  <1>5. \/ heap' = heap /\ \E error : Fail(error)
        \/ m = 0 /\ CallFunction(v, desc)
        \/ heap' = heap /\ PushOp(v, op, desc, m)
    <2>1. (2 * m) \div 2 = m /\ (2 * m = 0 => m = 0)
      BY <1>3
    <2>2. \/ heap' = heap /\ \E error : Fail(error)
          \/ BlockAt(desc)[1][2] = 0 /\ CallFunction(v, desc)
          \/ heap' = heap /\ PushOp(v, "CALL_FUNC", desc, BlockAt(desc)[1][2] \div 2)
      BY <1>2 DEF FetchFunc
    <2>3. QED
      BY <1>2, <1>3, <2>1, <2>2
  <1>6. ASSUME heap' = heap, NEW error, Fail(error) PROVE Kept
    BY <1>1, <1>6, FailWhole DEF Kept
  <1>7. ASSUME m = 0, CallFunction(v, desc) PROVE Kept
    <2>1. Len(s) = n + m /\ Sound(heap, s, o, e, n, 0)
      BY <1>2, <1>4, <1>7
    <2>2. CallFunction(Machine(b, i, s, o, e), desc)
      BY <1>2, <1>7
    <2>3. QED
      BY <1>2, <2>1, <2>2, CallFunctionKept
  <1>8. ASSUME heap' = heap, PushOp(v, op, desc, m) PROVE Kept
    <2>1. PICK f : f = Frame(op, desc, n, m)
      OBVIOUS
    <2>2. f.op = op /\ f.word = desc /\ f.bp = n /\ f.arity = m
      BY <2>1 DEF Frame
    <2>3. FrameGood(heap, f)
      BY <1>2, <1>4, <2>2 DEF FrameGood, CallOps, ReturnOps
    <2>4. FrameGood(heap, Frame(op, desc, Len(s), m)) /\ op \notin OwnerOps
      BY <1>2, <2>1, <2>3 DEF OwnerOps
    <2>5. PushOp(Machine(b, i, s, o, e), op, desc, m)
      BY <1>2, <1>8
    <2>6. Whole(heap, vm')
      BY <1>1, <2>4, <2>5, PushOpWhole
    <2>7. QED
      BY <1>1, <1>8, <2>6 DEF Kept
  <1>9. QED
    BY <1>5, <1>6, <1>7, <1>8

(* Fetch: the value that is read. *)
LEMMA ReadGood ==
  ASSUME Fit, ~AtEnd
  PROVE  \E b, i, j, s, o, e, r :
           /\ vm = Machine(b, i, s, o, e) /\ [vm EXCEPT !.ip = @ + 1] = Machine(b, j, s, o, e)
           /\ Place(heap, b, j) /\ Sound(heap, s, o, e, Len(s), 0)
           /\ r = resolve(vm.env, PairAt(vm.block, 2 * vm.ip)) /\ r \in Answers
  <1>1. GoodHeap(heap) /\ Whole(heap, vm)
    BY DEF Fit
  <1>2. PICK b, i, s, o, e : /\ vm = Machine(b, i, s, o, e) /\ Place(heap, b, i)
                             /\ Sound(heap, s, o, e, Len(s), 0)
    BY <1>1 DEF Whole
  <1>3. PICK j, val, r : /\ j = i + 1 /\ val = PairAt(vm.block, 2 * vm.ip)
                         /\ r = resolve(vm.env, val)
    OBVIOUS
  <1>4. vm.block = b /\ vm.ip = i /\ vm.env = e
    BY <1>2, MachineParts
  <1>5. [vm EXCEPT !.ip = @ + 1] = Machine(b, j, s, o, e)
    <2>1. [vm EXCEPT !.ip = @ + 1] = [vm EXCEPT !.ip = j]
      BY <1>3, <1>4
    <2>2. [Machine(b, i, s, o, e) EXCEPT !.ip = j] = Machine(b, j, s, o, e)
      BY MachineParts
    <2>3. QED
      BY <1>2, <2>1, <2>2
  <1>6. Place(heap, b, j) /\ Good(heap, val)
    <2>1. HasPair(b, 2 * i)
      BY <1>4 DEF AtEnd
    <2>2. QED
      BY <1>1, <1>2, <1>3, <1>4, <2>1, PlaceAhead
  <1>7. GoodEnv(e)
    <2>1. IsSequence(e) /\ \A c \in 1 .. Len(e) : e[c] \in DOMAIN heap.ctxs
      BY <1>2 DEF Sound, Held
    <2>2. DOMAIN e = 1 .. Len(e)
      BY <2>1, Indexed
    <2>3. QED
      BY <2>1, <2>2 DEF GoodEnv
  <1>8. r \in Answers
    <2>1. Cardinality(BoundSymbols) \in Nat
      BY <1>1, FewSymbols
    <2>2. resolve(e, val) \in Answers
      BY <1>1, <1>6, <1>7, <2>1, ResolveGood
    <2>3. QED
      BY <1>3, <1>4, <2>2
  <1>9. QED
    BY <1>2, <1>3, <1>5, <1>6, <1>8

(* Fetch *)
LEMMA FetchKept ==
  ASSUME Fit, Fetch
  PROVE  Kept
  <1>1. GoodHeap(heap) /\ Whole(heap, vm) /\ ~AtEnd
    BY DEF Fit, Fetch
  <1>2. PICK b, j, s, o, e, r : /\ [vm EXCEPT !.ip = @ + 1] = Machine(b, j, s, o, e)
                                /\ Place(heap, b, j) /\ Sound(heap, s, o, e, Len(s), 0)
                                /\ r = resolve(vm.env, PairAt(vm.block, 2 * vm.ip)) /\ r \in Answers
    BY <1>1, ReadGood
  <1>3. PICK v, tag, data : v = Machine(b, j, s, o, e) /\ tag = r.val[1] /\ data = r.val[2]
    OBVIOUS
  <1>4. \/ heap' = heap /\ \E error : Fail(error)
        \/ r.error = "none" /\ tag = NATIVE_FN /\ FetchNative(v, data) /\ heap' = heap
        \/ r.error = "none" /\ tag = FUNC /\ FetchFunc(v, data)
        \/ r.error = "none" /\ PushOp(v, "SET_WORD", data, 1) /\ heap' = heap
        \/ r.error = "none" /\ PushValue(v, r.val) /\ heap' = heap
    <2>1. LET r0 == resolve(vm.env, PairAt(vm.block, 2 * vm.ip))
              v0 == [vm EXCEPT !.ip = @ + 1]
              tag0 == r0.val[1]
              data0 == r0.val[2]
          IN  CASE r0.error # "none" -> Fail(r0.error) /\ UNCHANGED heap
                [] r0.error = "none" /\ tag0 = NATIVE_FN -> FetchNative(v0, data0) /\ UNCHANGED heap
                [] r0.error = "none" /\ tag0 = FUNC -> FetchFunc(v0, data0)
                [] r0.error = "none" /\ tag0 = SET_WORD ->
                     PushOp(v0, "SET_WORD", data0, 1) /\ UNCHANGED heap
                [] OTHER -> PushValue(v0, r0.val) /\ UNCHANGED heap
      BY DEF Fetch
    <2>2. \/ r.error # "none" /\ Fail(r.error) /\ heap' = heap
          \/ r.error = "none" /\ tag = NATIVE_FN /\ FetchNative(v, data) /\ heap' = heap
          \/ r.error = "none" /\ tag = FUNC /\ FetchFunc(v, data)
          \/ r.error = "none" /\ PushOp(v, "SET_WORD", data, 1) /\ heap' = heap
          \/ r.error = "none" /\ PushValue(v, r.val) /\ heap' = heap
      BY <1>2, <1>3, <2>1
    <2>3. QED
      BY <2>2
  <1>5. r.error = "none" => /\ Good(heap, r.val) /\ data \in 0 .. WordMod - 1
                            /\ (tag = NATIVE_FN => data \in DOMAIN Arity)
                            /\ (tag = FUNC => Describes(heap, data))
    BY <1>2, <1>3, Tags DEF Answers, AnswersIn, GoodCells, Good
  <1>6. ASSUME heap' = heap, NEW error, Fail(error) PROVE Kept
    BY <1>1, <1>6, FailWhole DEF Kept
  <1>7. ASSUME heap' = heap, data \in DOMAIN Arity, FetchNative(v, data) PROVE Kept
    <2>1. FetchNative(Machine(b, j, s, o, e), data)
      BY <1>3, <1>7
    <2>2. Whole(heap, vm')
      BY <1>2, <1>7, <2>1, FetchNativeWhole
    <2>3. QED
      BY <1>1, <1>7, <2>2 DEF Kept
  <1>8. ASSUME Describes(heap, data), FetchFunc(v, data) PROVE Kept
    <2>1. FetchFunc(Machine(b, j, s, o, e), data)
      BY <1>3, <1>8
    <2>2. QED
      BY <1>2, <1>8, <2>1, FetchFuncKept
  <1>9. ASSUME heap' = heap, data \in 0 .. WordMod - 1, PushOp(v, "SET_WORD", data, 1) PROVE Kept
    <2>1. PICK op, n, one, f : op = "SET_WORD" /\ n = Len(s) /\ one = 1 /\ f = Frame(op, data, n, one)
      OBVIOUS
    <2>2. f.op = op /\ f.word = data /\ f.bp = n /\ f.arity = one
      BY <2>1 DEF Frame
    <2>3. n \in Nat
      <3>1. PICK k : k = 0 /\ Sound(heap, s, o, e, n, k)
        BY <1>2, <2>1
      <3>2. QED
        BY <3>1, SoundShape
    <2>4. FrameGood(heap, f)
      BY <1>9, <2>1, <2>2, <2>3 DEF FrameGood, CallOps, ReturnOps
    <2>5. FrameGood(heap, Frame(op, data, Len(s), one)) /\ op \notin OwnerOps
      BY <2>1, <2>4 DEF OwnerOps
    <2>6. PushOp(Machine(b, j, s, o, e), op, data, one)
      BY <1>3, <1>9, <2>1
    <2>7. Whole(heap, vm')
      BY <1>1, <1>2, <2>5, <2>6, PushOpWhole
    <2>8. QED
      BY <1>1, <1>9, <2>7 DEF Kept
  <1>10. ASSUME heap' = heap, Good(heap, r.val), PushValue(v, r.val) PROVE Kept
    <2>1. PICK val, n : val = r.val /\ n = Len(s)
      OBVIOUS
    <2>2. Sound(heap, s, o, e, n, 0) /\ Good(heap, val) /\ PushValue(Machine(b, j, s, o, e), val)
      BY <1>2, <1>3, <1>10, <2>1
    <2>3. Whole(heap, vm')
      BY <1>1, <1>2, <2>2, PushValueWhole
    <2>4. QED
      BY <1>1, <1>10, <2>3 DEF Kept
  <1>11. QED
    BY <1>4, <1>5, <1>6, <1>7, <1>8, <1>9, <1>10

-----------------------------------------------------------------------------
(* The end of a block. *)

(* Where a frame returns to. *)
LEMMA ResumeGood ==
  ASSUME NEW h, NEW f, FrameGood(h, f), f.op \in ReturnOps,
         NEW b, NEW i, NEW s, NEW o, NEW e
  PROVE  \E b2, i2 : Resume(Machine(b, i, s, o, e), f) = Machine(b2, i2, s, o, e) /\ Place(h, b2, i2)
  <1>1. PICK v, b2, i2 : /\ v = Machine(b, i, s, o, e) /\ b2 = f.word /\ i2 = f.arity - LeaveMarker
    OBVIOUS
  <1>2. Place(h, b2, i2)
    BY <1>1 DEF FrameGood, Place
  <1>3. Resume(v, f) = Machine(b2, i2, s, o, e)
    <2>1. [Machine(b, i, s, o, e) EXCEPT !.block = b2] = Machine(b2, i, s, o, e)
      BY MachineParts
    <2>2. [Machine(b2, i, s, o, e) EXCEPT !.ip = i2] = Machine(b2, i2, s, o, e)
      BY MachineParts
    <2>3. Resume(v, f) = [[v EXCEPT !.block = b2] EXCEPT !.ip = i2]
      BY <1>1 DEF Resume
    <2>4. QED
      BY <1>1, <2>1, <2>2, <2>3, Zenon
  <1>4. QED
    BY <1>1, <1>2, <1>3

(* leave *)
LEMMA LeaveWhole ==
  ASSUME Fit, NEW f, FrameGood(heap, f), f.op \in ReturnOps,
         NEW b, NEW i, NEW s, NEW o, NEW e, NEW n, n = f.bp, Sound(heap, s, o, e, n, 0),
         Leave(Machine(b, i, s, o, e), f)
  PROVE  Whole(heap, vm')
  <1>1. GoodHeap(heap) /\ Whole(heap, vm)
    BY DEF Fit
  <1>2. PICK b2, i2 : Resume(Machine(b, i, s, o, e), f) = Machine(b2, i2, s, o, e) /\ Place(heap, b2, i2)
    BY ResumeGood
  <1>3. PICK v, m, none, k : /\ v = Machine(b, i, s, o, e) /\ m = Len(s) - n /\ none = <<NONE, 0>> /\ k = 0
    OBVIOUS
  <1>4. n \in Nat /\ Len(s) \in Nat /\ n =< Len(s) /\ IsSequence(s) /\ v.stack = s
    <2>1. Sound(heap, s, o, e, n, k)
      BY <1>3
    <2>2. n \in Nat /\ Len(s) \in Nat /\ n =< Len(s) /\ IsSequence(s)
      BY <2>1, SoundShape
    <2>3. QED
      BY <1>3, <2>2, MachineParts
  <1>5. \/ \E error : Fail(error)
        \/ m = 0 /\ Return(Machine(b2, i2, s, o, e), m, none)
        \/ m # 0 /\ Return(Machine(b2, i2, s, o, e), m, Last(s))
    BY <1>2, <1>3, <1>4 DEF Leave, Sp
  <1>6. m \in 0 .. Len(s) - n
    BY <1>3, <1>4
  <1>7. Good(heap, none)
    <2>1. k \in 0 .. WordMod - 1 /\ none = <<NONE, k>>
      BY <1>3, Tags
    <2>2. QED
      BY <2>1, PlainGood
  <1>8. m # 0 => Good(heap, Last(s))
    <2>1. m # 0 => Len(s) \in 1 .. Len(s) /\ Last(s) = s[Len(s)]
      BY <1>3, <1>4 DEF Last
    <2>2. QED
      BY <2>1 DEF Sound, Held
  <1>9. ASSUME NEW val, Good(heap, val), Return(Machine(b2, i2, s, o, e), m, val)
        PROVE  Whole(heap, vm')
    BY <1>1, <1>2, <1>6, <1>9, ReturnWhole
  <1>10. QED
    BY <1>1, <1>5, <1>7, <1>8, <1>9, FailWhole

(* The frame of the block that ends. *)
LEMMA EndReady ==
  ASSUME Fit, NEW op, EndOf(op)
  PROVE  \E b, i, s, o, e, f : Popped(b, i, s, o, e, f) /\ f.op = op
  <1>1. vm.ops # << >> /\ Top.op = op /\ Whole(heap, vm)
    BY DEF EndOf, Fit
  <1>2. PICK b, i, s, o, e, f : Popped(b, i, s, o, e, f)
    BY <1>1, PopWhole
  <1>3. QED
    BY <1>1, <1>2 DEF Popped

(* LEAVE_BLOCK *)
LEMMA LeaveBlockKept ==
  ASSUME Fit, LeaveBlock
  PROVE  Kept
  <1>1. PICK op : op = "LEAVE_BLOCK"
    OBVIOUS
  <1>2. EndOf(op) /\ Leave(PopFrame(vm), Top) /\ heap' = heap
    BY <1>1 DEF LeaveBlock
  <1>3. PICK b, i, s, o, e, f : Popped(b, i, s, o, e, f) /\ f.op = op
    BY <1>2, EndReady
  <1>4. PICK n : n = f.bp
    OBVIOUS
  <1>5. Owns(f.op) = 0 /\ Base(f) = n /\ f.op \in ReturnOps
    BY <1>1, <1>3, <1>4 DEF Owns, OwnerOps, Base, ReturnOps
  <1>6. Sound(heap, s, o, e, n, 0) /\ FrameGood(heap, f) /\ Leave(Machine(b, i, s, o, e), f)
    BY <1>2, <1>3, <1>5 DEF Popped
  <1>7. Whole(heap, vm')
    BY <1>4, <1>5, <1>6, LeaveWhole
  <1>8. QED
    BY <1>2, <1>7 DEF Fit, Kept

(* LEAVE_FUNC *)
LEMMA LeaveFuncKept ==
  ASSUME Fit, LeaveFunc
  PROVE  Kept
  <1>1. PICK op, k, k0 : op = "LEAVE_FUNC" /\ k = 1 /\ k0 = k - 1
    OBVIOUS
  <1>2. EndOf(op) /\ heap' = heap
    BY <1>1 DEF LeaveFunc
  <1>3. PICK b, i, s, o, e, f : Popped(b, i, s, o, e, f) /\ f.op = op
    BY <1>2, EndReady
  <1>4. PICK n, q, v : n = f.bp /\ q = Front(e) /\ v = PopFrame(vm)
    OBVIOUS
  <1>5. Owns(f.op) = k /\ Base(f) = n /\ f.op \in ReturnOps
    BY <1>1, <1>3, <1>4 DEF Owns, OwnerOps, Base, ReturnOps
  <1>6. Sound(heap, s, o, e, n, k) /\ FrameGood(heap, f) /\ v = Machine(b, i, s, o, e) /\ Top = f
    BY <1>3, <1>4, <1>5 DEF Popped
  <1>7. Sound(heap, s, o, q, n, 0)
    <2>1. Sound(heap, s, o, q, n, k0)
      BY <1>1, <1>4, <1>6, SoundLeft
    <2>2. QED
      BY <1>1, <2>1
  <1>8. \/ \E error : Fail(error)
        \/ Leave([v EXCEPT !.env = q], f)
    <2>1. v.env = e
      BY <1>6, MachineParts
    <2>2. QED
      BY <1>4, <1>6, <2>1 DEF LeaveFunc
  <1>9. ASSUME Leave([v EXCEPT !.env = q], f)
        PROVE  Whole(heap, vm')
    <2>1. [v EXCEPT !.env = q] = Machine(b, i, s, o, q)
      BY <1>6, MachineParts
    <2>2. Leave(Machine(b, i, s, o, q), f)
      BY <1>9, <2>1
    <2>3. QED
      BY <1>4, <1>5, <1>6, <1>7, <2>2, LeaveWhole
  <1>10. QED
    BY <1>2, <1>8, <1>9, FailWhole DEF Fit, Kept

(* The values above the n-th. *)
LEMMA SuffixGood ==
  ASSUME NEW s, NEW o, NEW e, NEW n, NEW k, Sound(heap, s, o, e, n, k),
         NEW t, t = SubSeq(s, n + 1, Len(s))
  PROVE  t \in Seq(Cells) /\ Len(t) = Len(s) - n /\ \A j \in DOMAIN t : Good(heap, t[j])
  <1>1. n \in Nat /\ Len(s) \in Nat /\ n =< Len(s) /\ n + 1 \in Int /\ Len(s) \in Int
    <2>1. n \in Nat /\ Len(s) \in Nat /\ n =< Len(s)
      BY SoundShape
    <2>2. QED
      BY <2>1
  <1>2. \A j \in n + 1 .. Len(s) : Good(heap, s[j]) /\ s[j] \in Cells
    <2>1. \A j \in 1 .. Len(s) : Good(heap, s[j])
      BY DEF Sound, Held
    <2>2. \A j \in n + 1 .. Len(s) : j \in 1 .. Len(s)
      BY <1>1
    <2>3. QED
      BY <2>1, <2>2 DEF Good
  <1>3. PICK a, z : a = n + 1 /\ z = Len(s)
    OBVIOUS
  <1>4. /\ SubSeq(s, a, z) \in Seq(Cells)
        /\ Len(SubSeq(s, a, z)) = IF a =< z THEN z - a + 1 ELSE 0
        /\ \A j \in 1 .. z - a + 1 : SubSeq(s, a, z)[j] = s[a + j - 1]
    BY <1>1, <1>2, <1>3, SubSeqProperties
  <1>5. z - a + 1 = Len(s) - n /\ (~(a =< z) => Len(s) - n = 0)
    BY <1>1, <1>3
  <1>6. t \in Seq(Cells) /\ Len(t) = Len(s) - n
    BY <1>3, <1>4, <1>5
  <1>7. DOMAIN t = 1 .. Len(s) - n
    BY <1>6, Indexed DEF IsSequence
  <1>8. ASSUME NEW j \in 1 .. Len(s) - n PROVE Good(heap, t[j])
    <2>1. a + j - 1 \in n + 1 .. Len(s)
      BY <1>1, <1>3
    <2>2. t[j] = s[a + j - 1]
      BY <1>3, <1>4, <1>5
    <2>3. QED
      BY <1>2, <2>1, <2>2
  <1>9. QED
    BY <1>6, <1>7, <1>8

(* REDUCE *)
LEMMA LeaveReduceKept ==
  ASSUME Fit, LeaveReduce
  PROVE  Kept
  <1>1. PICK op, k : op = "REDUCE" /\ k = 0
    OBVIOUS
  <1>2. EndOf(op) /\ GoodHeap(heap) /\ Whole(heap, vm)
    BY <1>1 DEF LeaveReduce, Fit
  <1>3. PICK b, i, s, o, e, f : Popped(b, i, s, o, e, f) /\ f.op = op
    BY <1>2, EndReady
  <1>4. PICK n, v, h, values, val : /\ n = f.bp /\ v = PopFrame(vm) /\ h = heap'
                                    /\ values = SubSeq(s, n + 1, Len(s))
                                    /\ val = <<BLOCK, Len(h.blocks)>>
    OBVIOUS
  <1>5. Owns(f.op) = k /\ Base(f) = n /\ f.op \in ReturnOps
    BY <1>1, <1>3, <1>4 DEF Owns, OwnerOps, Base, ReturnOps
  <1>6. /\ Sound(heap, s, o, e, n, k) /\ FrameGood(heap, f) /\ v = Machine(b, i, s, o, e)
        /\ Top = f /\ v.stack = s /\ Sp(v) = Len(s)
    BY <1>3, <1>4, <1>5, MachineParts DEF Popped, Sp
  <1>7. PICK b2, i2 : Resume(v, f) = Machine(b2, i2, s, o, e) /\ Place(heap, b2, i2)
    BY <1>5, <1>6, ResumeGood
  <1>8. \/ h = heap /\ \E error : Fail(error)
        \/ /\ BlockFits(values) /\ h = WithBlock(heap, values)
           /\ Return(Machine(b2, i2, s, o, e), Len(values), val)
    BY <1>4, <1>6, <1>7 DEF LeaveReduce
  <1>9. ASSUME BlockFits(values), h = WithBlock(heap, values),
               Return(Machine(b2, i2, s, o, e), Len(values), val)
        PROVE  GoodHeap(h) /\ Whole(h, vm')
    <2>1. values \in Seq(Cells) /\ Len(values) = Len(s) - n /\ \A j \in DOMAIN values : Good(heap, values[j])
      BY <1>4, <1>6, SuffixGood
    <2>2. /\ GoodHeap(h) /\ Grown(heap, h)
          /\ Len(h.blocks) \in DOMAIN h.blocks /\ Len(h.blocks) \in 0 .. WordMod - 1
      BY <1>2, <1>9, <2>1, BlockTaken
    <2>3. Good(h, val)
      BY <1>4, <2>2, PlainGood
    <2>4. Sound(h, s, o, e, n, 0) /\ Place(h, b2, i2) /\ Whole(h, vm)
      <3>1. Sound(h, s, o, e, n, k) /\ Place(h, b2, i2) /\ Whole(h, vm)
        BY <1>2, <1>6, <1>7, <2>2, SoundGrown, WholeGrown
      <3>2. QED
        BY <1>1, <3>1
    <2>5. PICK m : m = Len(values)
      OBVIOUS
    <2>6. m \in 0 .. Len(s) - n
      <3>1. Len(s) \in Nat /\ n \in Nat /\ n =< Len(s)
        BY <1>6, SoundShape
      <3>2. QED
        BY <2>1, <2>5, <3>1
    <2>7. Return(Machine(b2, i2, s, o, e), m, val)
      BY <1>9, <2>5
    <2>8. Whole(h, vm')
      BY <2>3, <2>4, <2>6, <2>7, ReturnWhole
    <2>9. QED
      BY <2>2, <2>8
  <1>10. GoodHeap(h) /\ Whole(h, vm')
    BY <1>2, <1>8, <1>9, FailWhole
  <1>11. QED
    BY <1>4, <1>10 DEF Kept

(* The body of a loop runs again, with another offset. *)
LEMMA LoopAgain ==
  ASSUME NEW h, NEW s, NEW o, NEW e, NEW n, NEW k, k = 1, Sound(h, s, o, e, n, k),
         NEW p, p = n + 4, p =< Len(s),
         NEW f, FrameGood(h, f), f.op = "FOREACH", f.bp = p, Len(o) < OpCap,
         LoopGood(h, s, p, e[2 + Owned(o)]),
         NEW index \in 0 .. WordMod - 1, index % 2 = 0, index + 2 =< 2 * Len(h.blocks[s[p - 2][2]]),
         NEW t, t = SubSeq(s, 1, p - 1), NEW t2, t2 = Append(t, <<INT, index>>)
  PROVE  Sound(h, t2, Append(o, f), e, p, 0)
  <1>1. PICK val, c, q : val = <<INT, index>> /\ c = e[2 + Owned(o)] /\ q = p - 1
    OBVIOUS
  <1>2. n \in Nat /\ Len(s) \in Nat /\ IsSequence(s) /\ q \in n .. Len(s) /\ q \in 0 .. Len(s) /\ q = n + 3
    <2>1. n \in Nat /\ Len(s) \in Nat /\ IsSequence(s)
      BY SoundShape
    <2>2. QED
      BY <1>1, <2>1
  <1>3. Sound(h, t, o, e, n, k)
    <2>1. t = SubSeq(s, 1, q)
      BY <1>1
    <2>2. QED
      BY <1>2, <2>1, SoundTruncated
  <1>4. IsSequence(t) /\ Len(t) = q /\ \A j \in 1 .. q : t[j] = s[j]
    <2>1. t = SubSeq(s, 1, q)
      BY <1>1
    <2>2. QED
      BY <1>2, <2>1, Truncated
  <1>5. Len(t) < StackCap
    <2>1. Len(s) =< StackCap
      BY DEF Sound, Held
    <2>2. QED
      BY <1>1, <1>2, <1>4, <2>1, CapsAssumption
  <1>6. Good(h, val) /\ val[1] = INT /\ val[2] = index
    BY <1>1, PlainGood, Tags
  <1>7. Sound(h, t2, o, e, n, k)
    BY <1>1, <1>3, <1>5, <1>6, SoundPushed
  <1>8. Len(t2) = p /\ t2[p] = val /\ t2[p - 3] = s[p - 3] /\ t2[p - 2] = s[p - 2] /\ t2[p - 1] = s[p - 1]
    <2>1. Len(t2) = q + 1 /\ t2[q + 1] = val /\ \A j \in 1 .. q : t2[j] = t[j]
      BY <1>1, <1>4, Stacked
    <2>2. q + 1 = p /\ p - 3 \in 1 .. q /\ p - 2 \in 1 .. q /\ p - 1 \in 1 .. q
      BY <1>1, <1>2
    <2>3. QED
      BY <1>4, <2>1, <2>2
  <1>9. LoopGood(h, t2, p, c)
    <2>1. PICK w, d, u : w = s[p - 3] /\ d = s[p - 2] /\ u = s[p - 1]
      OBVIOUS
    <2>2. t2[p] = val /\ t2[p - 3] = w /\ t2[p - 2] = d /\ t2[p - 1] = u
      BY <1>8, <2>1
    <2>3. /\ w[1] = WORD /\ d[1] = BLOCK /\ u[1] = BLOCK
          /\ h.ctxs[c].sealed /\ h.ctxs[c].cap # 0 /\ DOMAIN h.ctxs[c].entries = {w[2]}
      BY <1>1, <2>1 DEF LoopGood
    <2>4. val[2] % 2 = 0 /\ val[2] + 2 =< 2 * Len(h.blocks[d[2]])
      BY <1>6, <2>1
    <2>5. QED
      BY <1>6, <2>2, <2>3, <2>4 DEF LoopGood
  <1>10. k = Owns(f.op) /\ n =< Base(f) /\ f.bp =< Len(t2)
    BY <1>2, <1>8 DEF Owns, OwnerOps, Base
  <1>11. f.op = "FOREACH" => LoopGood(h, t2, f.bp, e[2 + Owned(o)])
    BY <1>1, <1>9
  <1>12. Sound(h, t2, Append(o, f), e, f.bp, 0)
    BY <1>7, <1>10, <1>11, FrameWhole
  <1>13. QED
    BY <1>12

(* The end of a loop. *)
LEMMA LoopOver ==
  ASSUME NEW s, NEW o, NEW e, NEW n, NEW k, k = 1, Sound(heap, s, o, e, n, k),
         NEW t, t = SubSeq(s, 1, n)
  PROVE  Sound(heap, t, o, Front(e), n, 0)
  <1>1. PICK k0, q : k0 = k - 1 /\ q = Front(e)
    OBVIOUS
  <1>2. n \in n .. Len(s)
    <2>1. n \in Nat /\ Len(s) \in Nat /\ n =< Len(s)
      BY SoundShape
    <2>2. QED
      BY <2>1
  <1>3. Sound(heap, t, o, e, n, k)
    BY <1>2, SoundTruncated
  <1>4. k >= 1 /\ IsSequence(e)
    BY <1>3, SoundShape
  <1>5. Sound(heap, t, o, Front(e), n, k - 1)
    BY <1>3, <1>4, SoundLeft
  <1>6. k - 1 = k0 /\ k0 = 0
    BY <1>1
  <1>7. QED
    BY <1>1, <1>5, <1>6

(* The frame on top leaves room for another. *)
LEMMA RoomForFrame ==
  ASSUME Fit, vm.ops # << >>, NEW b, NEW i, NEW s, NEW o, NEW e,
         PopFrame(vm) = Machine(b, i, s, o, e)
  PROVE  Len(o) < OpCap
  <1>1. PICK b1, i1, s1, p, e1 : vm = Machine(b1, i1, s1, p, e1) /\ Sound(heap, s1, p, e1, Len(s1), 0)
    BY DEF Fit, Whole
  <1>2. vm.ops = p /\ p # << >>
    BY <1>1, MachineParts
  <1>3. IsSequence(p) /\ Len(p) =< OpCap
    BY <1>1 DEF Sound, Held
  <1>4. Len(p) \in Nat /\ Len(Front(p)) = Len(p) - 1
    BY <1>2, <1>3, Stacked
  <1>5. o = Front(p)
    <2>1. PICK x : x = Front(p)
      OBVIOUS
    <2>2. PopFrame(vm) = [vm EXCEPT !.ops = x]
      BY <1>2, <2>1 DEF PopFrame
    <2>3. [Machine(b1, i1, s1, p, e1) EXCEPT !.ops = x] = Machine(b1, i1, s1, x, e1)
      BY MachineParts
    <2>4. Machine(b, i, s, o, e) = Machine(b1, i1, s1, x, e1)
      BY <1>1, <2>2, <2>3
    <2>5. o = x
      BY <2>4, MachineParts
    <2>6. QED
      BY <2>1, <2>5
  <1>6. QED
    BY <1>3, <1>4, <1>5, CapsAssumption

(* The offset of the next value. *)
LEMMA NextOffsetWord ==
  ASSUME NEW offset \in Nat, offset + 2 < WordMod
  PROVE  NextOffset(offset) = {offset + 2}
  BY DEF NextOffset, Sums

(* FOREACH *)
LEMMA LeaveForeachKept ==
  ASSUME Fit, LeaveForeach
  PROVE  Kept
  <1>1. PICK op, k : op = "FOREACH" /\ k = 1
    OBVIOUS
  <1>2. EndOf(op) /\ GoodHeap(heap) /\ Whole(heap, vm) /\ vm.ops # << >>
    BY <1>1 DEF LeaveForeach, EndOf, Fit
  <1>3. PICK b, i, s, o, e, f : Popped(b, i, s, o, e, f) /\ f.op = op
    BY <1>2, EndReady
  <1>4. PICK p, n, t, v, c, h, w, d, u, offset, index :
          /\ p = f.bp /\ n = p - 4 /\ t = SubSeq(s, 1, p - 1)
          /\ v = [PopFrame(vm) EXCEPT !.stack = t]
          /\ c = e[2 + Owned(o)] /\ h = heap'
          /\ w = s[p - 3] /\ d = s[p - 2] /\ u = s[p - 1]
          /\ offset = s[p][2] /\ index = offset + 2
    OBVIOUS
  <1>5. /\ Sound(heap, s, o, e, n, k) /\ FrameGood(heap, f) /\ LoopGood(heap, s, p, c)
        /\ p =< Len(s) /\ Top = f /\ vm.stack = s /\ PopFrame(vm) = Machine(b, i, s, o, e)
    <2>1. Owns(f.op) = k /\ Base(f) = n
      BY <1>1, <1>3, <1>4 DEF Owns, OwnerOps, Base
    <2>2. QED
      BY <1>1, <1>3, <1>4, <2>1 DEF Popped
  <1>6. n \in Nat /\ Len(s) \in Nat /\ p \in Nat /\ p = n + 4 /\ IsSequence(s) /\ IsSequence(e) /\ k >= 1
    <2>1. n \in Nat /\ Len(s) \in Nat /\ IsSequence(s) /\ IsSequence(e)
      BY <1>5, SoundShape
    <2>2. p \in Nat
      BY <1>4, <1>5 DEF FrameGood
    <2>3. QED
      BY <1>1, <1>4, <2>1, <2>2
  <1>7. v = Machine(b, i, t, o, e) /\ v.stack = t /\ v.env = e /\ v.ops = o
    <2>1. PICK m : m = PopFrame(vm)
      OBVIOUS
    <2>2. v = [m EXCEPT !.stack = t] /\ m = Machine(b, i, s, o, e)
      BY <1>4, <1>5, <2>1
    <2>3. [Machine(b, i, s, o, e) EXCEPT !.stack = t] = Machine(b, i, t, o, e)
      BY MachineParts
    <2>4. v = Machine(b, i, t, o, e)
      BY <2>2, <2>3
    <2>5. QED
      BY <2>4, MachineParts
  <1>8. Len(t) = n + 3 /\ Arg(v, 3, 1) = w /\ Arg(v, 3, 2) = d /\ Arg(v, 3, 3) = u
    <2>1. PICK q : q = p - 1
      OBVIOUS
    <2>2. q \in 0 .. Len(s) /\ q = n + 3 /\ t = SubSeq(s, 1, q)
      <3>1. p \in Nat /\ p = n + 4 /\ n \in Nat /\ Len(s) \in Nat /\ p =< Len(s)
        BY <1>5, <1>6
      <3>2. q \in 0 .. Len(s) /\ q = n + 3
        BY <2>1, <3>1
      <3>3. t = SubSeq(s, 1, q)
        BY <1>4, <2>1
      <3>4. QED
        BY <3>2, <3>3
    <2>3. Len(t) = q /\ \A j \in 1 .. q : t[j] = s[j]
      BY <1>6, <2>2, Truncated
    <2>4. /\ q - 3 + 1 = p - 3 /\ q - 3 + 2 = p - 2 /\ q - 3 + 3 = p - 1
          /\ p - 3 \in 1 .. q /\ p - 2 \in 1 .. q /\ p - 1 \in 1 .. q
      BY <1>6, <2>1
    <2>5. Sp(v) = q
      BY <1>7, <2>3 DEF Sp
    <2>6. QED
      BY <1>4, <1>7, <2>2, <2>3, <2>4, <2>5 DEF Arg
  <1>9. Last(v.env) = c
    <2>1. Owned(o) \in Nat /\ Len(e) = 1 + Owned(o) + k
      BY <1>5, SoundShape
    <2>2. Len(e) = 2 + Owned(o)
      BY <1>1, <2>1
    <2>3. QED
      BY <1>4, <1>7, <2>2 DEF Last
  <1>10. /\ w[2] \in 0 .. WordMod - 1 /\ d[2] \in DOMAIN heap.blocks /\ u[2] \in DOMAIN heap.blocks
         /\ c \in DOMAIN heap.ctxs
         /\ offset \in Nat /\ offset % 2 = 0 /\ offset + 2 < WordMod /\ index # -1
    <2>1. /\ p - 3 \in 1 .. Len(s) /\ p - 2 \in 1 .. Len(s) /\ p - 1 \in 1 .. Len(s) /\ p \in 1 .. Len(s)
      BY <1>5, <1>6
    <2>2. Good(heap, w) /\ Good(heap, d) /\ Good(heap, u) /\ Good(heap, s[p])
      BY <1>4, <1>5, <2>1 DEF Sound, Held
    <2>3. d[1] = BLOCK /\ u[1] = BLOCK /\ offset % 2 = 0 /\ offset + 2 =< 2 * Len(heap.blocks[d[2]])
      BY <1>4, <1>5 DEF LoopGood
    <2>4. w[2] \in 0 .. WordMod - 1 /\ offset \in 0 .. WordMod - 1 /\ WordMod \in Nat
      BY <1>4, <2>2, Tags DEF Good
    <2>5. d[2] \in DOMAIN heap.blocks /\ u[2] \in DOMAIN heap.blocks
      BY <2>2, <2>3 DEF Good
    <2>6. 2 * Len(heap.blocks[d[2]]) < WordMod /\ Len(heap.blocks[d[2]]) \in Nat
      BY <1>2, <2>5, HeapShape DEF GoodHeap, GoodBlock
    <2>7. offset \in Nat /\ offset + 2 < WordMod /\ index # -1
      <3>1. PICK len : len = Len(heap.blocks[d[2]])
        OBVIOUS
      <3>2. len \in Nat /\ 2 * len < WordMod /\ offset + 2 =< 2 * len
        BY <2>3, <2>6, <3>1
      <3>3. offset \in Nat /\ index = offset + 2
        BY <1>4, <2>4
      <3>4. QED
        BY <2>4, <3>2, <3>3
    <2>8. c \in DOMAIN heap.ctxs
      BY <1>5, <1>6, <1>7, <1>9, SoundLeft
    <2>9. QED
      BY <2>3, <2>4, <2>5, <2>7, <2>8
  <1>11. NextOffset(offset) = {index}
    BY <1>4, <1>10, NextOffsetWord
  <1>12. PICK g, val, t2, word, data, body, pair :
           /\ g = Frame("FOREACH", f.word, f.bp, f.arity)
           /\ val = <<INT, index>> /\ t2 = Append(t, val)
           /\ word = w[2] /\ data = d[2] /\ body = u[2] /\ pair = PairAt(data, index)
    OBVIOUS
  <1>13. \/ h = heap /\ \E error : Fail(error)
         \/ h = heap /\ Continue(Resume([v EXCEPT !.stack = Below(v, 3), !.env = Front(@)], f))
         \/ /\ HasPair(data, index) /\ PutResult(heap.ctxs[c], word) = "ok"
            /\ h = [heap EXCEPT !.ctxs[c] = Put(@, word, pair)]
            /\ Continue([v EXCEPT !.stack = t2, !.ops = Append(@, g), !.block = body, !.ip = 0])
    <2>1. /\ t = SubSeq(vm.stack, 1, Top.bp - 1) /\ v = [PopFrame(vm) EXCEPT !.stack = t] /\ f = Top
          /\ word = Arg(v, 3, 1)[2] /\ data = Arg(v, 3, 2)[2] /\ body = Arg(v, 3, 3)[2]
          /\ c = Last(v.env) /\ offset = vm.stack[Top.bp][2]
      BY <1>4, <1>5, <1>8, <1>9, <1>12
    <2>2. \/ heap' = heap /\ \E error : Fail(error)
          \/ heap' = heap /\ Continue(Resume([v EXCEPT !.stack = Below(v, 3), !.env = Front(@)], f))
          \/ \E x \in NextOffset(offset) :
               /\ x # -1 /\ HasPair(data, x) /\ PutResult(heap.ctxs[c], word) = "ok"
               /\ heap' = [heap EXCEPT !.ctxs[c] = Put(@, word, PairAt(data, x))]
               /\ Continue([v EXCEPT !.stack = Append(t, <<INT, x>>),
                                     !.ops = Append(@, Frame("FOREACH", f.word, f.bp, f.arity)),
                                     !.block = body, !.ip = 0])
      BY <2>1 DEF LeaveForeach
    <2>3. QED
      BY <1>4, <1>11, <1>12, <2>2
  <1>14. ASSUME Continue(Resume([v EXCEPT !.stack = Below(v, 3), !.env = Front(@)], f))
         PROVE  Whole(heap, vm')
    <2>1. PICK r, q : r = SubSeq(s, 1, n) /\ q = Front(e)
      OBVIOUS
    <2>2. PICK y : y = Below(v, 3)
      OBVIOUS
    <2>3. y = r
      <3>1. y = SubSeq(t, 1, n)
        <4>1. Sp(v) = n + 3
          BY <1>7, <1>8 DEF Sp
        <4>2. Sp(v) - 3 = n
          BY <1>6, <4>1
        <4>3. y = SubSeq(v.stack, 1, Sp(v) - 3)
          BY <2>2 DEF Below
        <4>4. QED
          BY <1>7, <4>2, <4>3
      <3>2. /\ IsSequence(r) /\ Len(r) = n /\ \A j \in 1 .. n : r[j] = s[j]
        <4>1. n \in 0 .. Len(s)
          BY <1>5, <1>6
        <4>2. QED
          BY <1>6, <2>1, <4>1, Truncated
      <3>3. /\ IsSequence(y) /\ Len(y) = n /\ \A j \in 1 .. n : y[j] = s[j]
        <4>1. PICK z : z = p - 1
          OBVIOUS
        <4>2. z \in 0 .. Len(s) /\ z = n + 3 /\ t = SubSeq(s, 1, z) /\ n \in 0 .. z
          <5>1. p \in Nat /\ p = n + 4 /\ n \in Nat /\ Len(s) \in Nat /\ p =< Len(s)
            BY <1>5, <1>6
          <5>2. z \in 0 .. Len(s) /\ z = n + 3 /\ n \in 0 .. z
            BY <4>1, <5>1
          <5>3. t = SubSeq(s, 1, z)
            BY <1>4, <4>1
          <5>4. QED
            BY <5>2, <5>3
        <4>3. IsSequence(t) /\ Len(t) = z /\ \A j \in 1 .. z : t[j] = s[j]
          BY <1>6, <4>2, Truncated
        <4>4. IsSequence(y) /\ Len(y) = n /\ \A j \in 1 .. n : y[j] = t[j]
          BY <3>1, <4>2, <4>3, Truncated
        <4>5. \A j \in 1 .. n : j \in 1 .. z
          BY <1>6, <4>2
        <4>6. QED
          BY <4>3, <4>4, <4>5
      <3>4. DOMAIN y = 1 .. n /\ DOMAIN r = 1 .. n
        BY <3>2, <3>3, Indexed
      <3>5. y \in [1 .. n -> Range(y)] /\ r \in [1 .. n -> Range(r)]
        BY <3>2, <3>3, <3>4, OwnRange, LenProperties
      <3>6. QED
        BY <3>2, <3>3, <3>5
    <2>4. Sound(heap, r, o, q, n, 0)
      BY <1>1, <1>5, <2>1, LoopOver
    <2>5. [v EXCEPT !.stack = Below(v, 3), !.env = Front(@)] = Machine(b, i, r, o, q)
      <3>1. [Machine(b, i, t, o, e) EXCEPT !.stack = r] = Machine(b, i, r, o, e)
        BY MachineParts
      <3>2. [Machine(b, i, r, o, e) EXCEPT !.env = q] = Machine(b, i, r, o, q)
        BY MachineParts
      <3>3. [v EXCEPT !.stack = Below(v, 3), !.env = Front(@)] = [v EXCEPT !.stack = r, !.env = q]
        BY <1>7, <2>1, <2>2, <2>3
      <3>4. QED
        BY <1>7, <3>1, <3>2, <3>3, Zenon
    <2>6. f.op \in ReturnOps
      BY <1>1, <1>3 DEF ReturnOps
    <2>7. PICK b2, i2 : Resume(Machine(b, i, r, o, q), f) = Machine(b2, i2, r, o, q) /\ Place(heap, b2, i2)
      BY <1>5, <2>6, ResumeGood
    <2>8. Continue(Machine(b2, i2, r, o, q))
      BY <1>14, <2>5, <2>7
    <2>9. QED
      BY <2>4, <2>7, <2>8, ContinueWhole
  <1>15. ASSUME HasPair(data, index), PutResult(heap.ctxs[c], word) = "ok",
                h = [heap EXCEPT !.ctxs[c] = Put(@, word, pair)],
                Continue([v EXCEPT !.stack = t2, !.ops = Append(@, g), !.block = body, !.ip = 0])
         PROVE  GoodHeap(h) /\ Whole(h, vm')
    <2>1. /\ index + 2 =< 2 * Len(heap.blocks[data]) /\ index \in Nat /\ index % 2 = 0
          /\ index \in 0 .. WordMod - 1
      <3>1. index + 2 =< 2 * Len(heap.blocks[data])
        BY <1>10, <1>12, <1>15 DEF HasPair, BlockAt
      <3>2. index \in Nat /\ index % 2 = 0 /\ index < WordMod
        BY <1>4, <1>10
      <3>3. QED
        BY <3>1, <3>2, Tags
    <2>2. Good(heap, pair)
      BY <1>2, <1>10, <1>12, <2>1, PairGood
    <2>3. GoodHeap(h) /\ Grown(heap, h)
      BY <1>2, <1>10, <1>12, <1>15, <2>2, ContextChanged
    <2>4. Sound(h, s, o, e, n, k)
      BY <1>2, <1>5, <2>3, SoundGrown
    <2>5. /\ \A a \in DOMAIN heap.blocks : a \in DOMAIN h.blocks /\ h.blocks[a] = heap.blocks[a]
      BY <1>2, <2>3, GoodStays, HeapShape
    <2>6. g.op = "FOREACH" /\ g.word = f.word /\ g.bp = p /\ g.arity = f.arity
      BY <1>4, <1>12 DEF Frame
    <2>7. FrameGood(h, g)
      <3>1. f.word \in DOMAIN heap.blocks /\ f.arity - LeaveMarker \in 0 .. Len(heap.blocks[f.word])
        BY <1>1, <1>3, <1>5 DEF FrameGood, ReturnOps
      <3>2. f.word \in DOMAIN h.blocks /\ h.blocks[f.word] = heap.blocks[f.word]
        BY <2>5, <3>1
      <3>3. g.word \in DOMAIN h.blocks /\ g.arity - LeaveMarker \in 0 .. Len(h.blocks[g.word])
        BY <2>6, <3>1, <3>2
      <3>4. g.bp \in Nat /\ g.bp >= 4
        BY <1>6, <2>6
      <3>5. QED
        BY <2>6, <3>3, <3>4 DEF FrameGood, ReturnOps, CallOps
    <2>8. LoopGood(h, s, p, c)
      <3>1. h.blocks[d[2]] = heap.blocks[d[2]]
        BY <1>10, <2>5
      <3>2. /\ h.ctxs[c].sealed = heap.ctxs[c].sealed /\ h.ctxs[c].cap = heap.ctxs[c].cap
            /\ heap.ctxs[c].sealed => DOMAIN h.ctxs[c].entries = DOMAIN heap.ctxs[c].entries
        BY <1>10, <2>3 DEF Grown
      <3>3. QED
        BY <1>4, <1>5, <3>1, <3>2 DEF LoopGood
    <2>9. Len(o) < OpCap
      BY <1>2, <1>5, RoomForFrame
    <2>10. index + 2 =< 2 * Len(h.blocks[s[p - 2][2]])
      BY <1>4, <1>10, <1>12, <2>1, <2>5
    <2>11. Sound(h, t2, Append(o, g), e, p, 0)
      <3>1. LoopGood(h, s, p, e[2 + Owned(o)])
        BY <1>4, <2>8
      <3>2. t2 = Append(t, <<INT, index>>)
        BY <1>12
      <3>3. QED
        BY <1>1, <1>4, <1>5, <1>6, <2>1, <2>4, <2>6, <2>7, <2>9, <2>10, <3>1, <3>2, LoopAgain
    <2>12. PICK o2, j : o2 = Append(o, g) /\ j = 0
      OBVIOUS
    <2>13. [v EXCEPT !.stack = t2, !.ops = Append(@, g), !.block = body, !.ip = 0]
             = Machine(body, j, t2, o2, e)
      <3>1. [Machine(b, i, t, o, e) EXCEPT !.stack = t2] = Machine(b, i, t2, o, e)
        BY MachineParts
      <3>2. [Machine(b, i, t2, o, e) EXCEPT !.ops = o2] = Machine(b, i, t2, o2, e)
        BY MachineParts
      <3>3. [Machine(b, i, t2, o2, e) EXCEPT !.block = body] = Machine(body, i, t2, o2, e)
        BY MachineParts
      <3>4. [Machine(body, i, t2, o2, e) EXCEPT !.ip = j] = Machine(body, j, t2, o2, e)
        BY MachineParts
      <3>5. [v EXCEPT !.stack = t2, !.ops = Append(@, g), !.block = body, !.ip = 0]
              = [v EXCEPT !.stack = t2, !.ops = o2, !.block = body, !.ip = j]
        BY <1>7, <2>12
      <3>6. PICK y : y = [v EXCEPT !.stack = t2, !.ops = o2]
        OBVIOUS
      <3>7. y = Machine(b, i, t2, o2, e)
        BY <1>7, <3>1, <3>2, <3>6, Zenon
      <3>8. [y EXCEPT !.block = body, !.ip = j] = Machine(body, j, t2, o2, e)
        BY <3>3, <3>4, <3>7, Zenon
      <3>9. [v EXCEPT !.stack = t2, !.ops = o2, !.block = body, !.ip = j]
              = [[v EXCEPT !.stack = t2, !.ops = o2] EXCEPT !.block = body, !.ip = j]
        OBVIOUS
      <3>10. QED
        BY <3>5, <3>6, <3>8, <3>9, Zenon
    <2>14. Place(h, body, j)
      <3>1. body \in DOMAIN h.blocks /\ Len(h.blocks[body]) \in Nat
        BY <1>10, <1>12, <2>3, <2>5, HeapShape
      <3>2. QED
        BY <2>12, <3>1 DEF Place
    <2>15. Sound(h, t2, o2, e, p, 0) /\ Continue(Machine(body, j, t2, o2, e))
      BY <1>15, <2>11, <2>12, <2>13
    <2>16. Whole(h, vm')
      BY <2>14, <2>15, ContinueWhole
    <2>17. QED
      BY <2>3, <2>16
  <1>16. GoodHeap(h) /\ Whole(h, vm')
    BY <1>2, <1>13, <1>14, <1>15, FailWhole
  <1>17. QED
    BY <1>4, <1>16 DEF Kept

-----------------------------------------------------------------------------
(* Every turn. *)

(* What has not run short of arguments did not before. *)
LEMMA OwnArguments ==
  ASSUME [Next]_vars, ~borrowed'
  PROVE  ~borrowed
  <1>1. ASSUME NEW op, Run(op) PROVE ~borrowed
    BY <1>1 DEF Run
  <1>2. CASE UNCHANGED vars
    BY <1>2 DEF vars
  <1>3. CASE Fetch
    BY <1>3 DEF Fetch
  <1>4. CASE SetWord \/ CallFunc \/ EndContext
    BY <1>1, <1>4 DEF SetWord, CallFunc, EndContext
  <1>5. CASE CallNative
    <2>1. \E name : Calls(name)
      BY <1>5 DEF CallNative, add, lt, func_do, context, func, either, print, is_block, reduce, foreach, form
    <2>2. QED
      BY <1>1, <2>1 DEF Calls
  <1>6. CASE EndBlock
    <2>1. (\E op : EndOf(op)) \/ Finish
      BY <1>6 DEF EndBlock, LeaveBlock, LeaveFunc, LeaveReduce, LeaveForeach
    <2>2. QED
      BY <2>1 DEF EndOf, Finish
  <1>7. QED
    BY <1>2, <1>3, <1>4, <1>5, <1>6 DEF Next

(* Finish *)
LEMMA StoppedKept ==
  ASSUME Fit, Finish \/ UNCHANGED vars
  PROVE  Kept
  <1>1. heap' = heap /\ vm' = vm
    BY DEF Finish, vars
  <1>2. QED
    BY <1>1 DEF Fit, Kept

(* A step that borrows no value from a frame below keeps the machine fit.  *)
LEMMA NextKept ==
  ASSUME Fit, [Next]_vars, ~borrowed'
  PROVE  Kept
  <1>1. CASE Fetch
    BY <1>1, FetchKept
  <1>2. CASE SetWord
    BY <1>2, SetWordKept
  <1>3. CASE CallFunc
    BY <1>3, CallFuncKept
  <1>4. CASE EndContext
    BY <1>4, EndContextKept
  <1>5. CASE CallNative
    <2>1. CASE add \/ lt \/ is_block \/ print \/ form
      BY <2>1, AddKept, LtKept, IsBlockKept, PrintKept, FormKept
    <2>2. CASE func_do \/ either \/ reduce
      BY <2>2, DoKept, EitherKept, ReduceKept
    <2>3. CASE context \/ func \/ foreach
      BY <2>3, ContextKept, FuncKept, ForeachKept
    <2>4. QED
      BY <1>5, <2>1, <2>2, <2>3 DEF CallNative
  <1>6. CASE EndBlock
    BY <1>6, LeaveBlockKept, LeaveFuncKept, LeaveReduceKept, LeaveForeachKept, StoppedKept DEF EndBlock
  <1>7. CASE UNCHANGED vars
    BY <1>7, StoppedKept
  <1>8. QED
    BY <1>1, <1>2, <1>3, <1>4, <1>5, <1>6, <1>7 DEF Next

(* A program that was loaded. *)
LEMMA InitFit ==
  ASSUME Init
  PROVE  Fit
  <1>1. PICK p \in Programs : vm = NewExec(p.main) /\ heap = Loaded(p)
    BY DEF Init, Loaded
  <1>2. GoodHeap(heap) /\ p.main \in DOMAIN p.blocks
    BY <1>1, ProgramsAssumption
  <1>3. heap.blocks = p.blocks /\ heap.ctxs = <<p.system>>
    BY <1>1 DEF Loaded
  <1>4. PICK b, i, s, o, e, k : /\ b = p.main /\ i = 0 /\ s = << >> /\ o = << >> /\ e = <<1>> /\ k = 0
    OBVIOUS
  <1>5. vm = Machine(b, i, s, o, e)
    BY <1>1, <1>4 DEF NewExec, Machine
  <1>6. Place(heap, b, i)
    <2>1. b \in DOMAIN heap.blocks /\ Len(heap.blocks[b]) \in Nat
      BY <1>2, <1>3, <1>4, HeapShape
    <2>2. QED
      BY <1>4, <2>1 DEF Place
  <1>7. /\ IsSequence(s) /\ IsSequence(o) /\ IsSequence(e)
        /\ Len(s) = 0 /\ Len(o) = 0 /\ Len(e) = 1 /\ e[1] = 1
    <2>1. << >> \in Seq({1}) /\ <<1>> \in Seq({1}) /\ Len(<<1>>) = 1 /\ Len(<< >>) = 0 /\ <<1>>[1] = 1
      OBVIOUS
    <2>2. QED
      BY <1>4, <2>1 DEF IsSequence
  <1>8. Owned(o) = 0
    <2>1. DOMAIN o = {}
      BY <1>4
    <2>2. {j \in DOMAIN o : o[j].op \in OwnerOps} = {}
      BY <2>1
    <2>3. QED
      BY <2>2, FS_EmptySet DEF Owned
  <1>9. Held(heap, s, o, e)
    <2>1. 0 =< StackCap /\ 0 =< OpCap /\ 1 =< EnvCap
      BY CapsAssumption
    <2>2. 1 \in DOMAIN heap.ctxs
      BY <1>3
    <2>3. \A j \in 1 .. 1 : j = 1
      OBVIOUS
    <2>4. QED
      BY <1>7, <2>1, <2>2, <2>3 DEF Held
  <1>10. Nested(heap, o, Len(s)) /\ Looping(heap, s, o, e)
    BY <1>7 DEF Nested, Looping
  <1>11. Sound(heap, s, o, e, Len(s), 0)
    BY <1>7, <1>8, <1>9, <1>10 DEF Sound
  <1>12. QED
    BY <1>2, <1>5, <1>6, <1>11 DEF Fit, Whole

(* As long as no operation takes values that are not its own, the heap and *)
(* the stacks are sound. *)
SoundUnlessBorrowed == borrowed \in BOOLEAN /\ (~borrowed => Fit)

(* The inductive invariant: as long as no call has borrowed a value from a *)
(* frame below its own, the memory is good and the stacks are sound.       *)
THEOREM SoundAlways == Spec => []SoundUnlessBorrowed
  <1>1. Init => SoundUnlessBorrowed
    BY InitFit DEF Init, SoundUnlessBorrowed
  <1>2. SoundUnlessBorrowed /\ [Next]_vars => SoundUnlessBorrowed'
    <2> SUFFICES ASSUME SoundUnlessBorrowed, [Next]_vars PROVE SoundUnlessBorrowed'
      OBVIOUS
    <2>1. ~borrowed' => Kept
      <3> SUFFICES ASSUME ~borrowed' PROVE Kept
        OBVIOUS
      <3>1. ~borrowed
        BY OwnArguments
      <3>2. QED
        BY <3>1, NextKept DEF SoundUnlessBorrowed
    <2>2. borrowed' \in BOOLEAN
      <3>1. ASSUME NEW op, Run(op) PROVE borrowed' \in BOOLEAN
        BY <3>1 DEF Run
      <3>2. CASE UNCHANGED vars
        BY <3>2 DEF vars, SoundUnlessBorrowed
      <3>3. CASE Fetch
        BY <3>3 DEF Fetch, SoundUnlessBorrowed
      <3>4. CASE SetWord \/ CallFunc \/ EndContext
        BY <3>1, <3>4 DEF SetWord, CallFunc, EndContext
      <3>5. CASE CallNative
        <4>1. \E name : Calls(name)
          BY <3>5 DEF CallNative, add, lt, func_do, context, func, either, print, is_block, reduce,
             foreach, form
        <4>2. QED
          BY <3>1, <4>1 DEF Calls
      <3>6. CASE EndBlock
        <4>1. (\E op : EndOf(op)) \/ Finish
          BY <3>6 DEF EndBlock, LeaveBlock, LeaveFunc, LeaveReduce, LeaveForeach
        <4>2. QED
          BY <4>1 DEF EndOf, Finish, SoundUnlessBorrowed
      <3>7. QED
        BY <3>2, <3>3, <3>4, <3>5, <3>6 DEF Next
    <2>3. QED
      BY <2>1, <2>2 DEF Kept, Fit, SoundUnlessBorrowed
  <1>3. QED
    BY <1>1, <1>2, PTL DEF Spec

(* Frames lie one above the other, whatever the program: no operation that *)
(* gets its arguments takes a caller's values. *)
THEOREM FramesLieInOrder == Spec => []StackDiscipline
  <1>1. SoundUnlessBorrowed => StackDiscipline
    <2> SUFFICES ASSUME Fit PROVE \A i \in DOMAIN vm.ops :
                    vm.ops[i].bp =< IF i = Len(vm.ops) THEN Sp(vm) ELSE vm.ops[i + 1].bp
      BY DEF SoundUnlessBorrowed, StackDiscipline
    <2>1. PICK b, i, s, o, e, n, k : /\ vm = Machine(b, i, s, o, e) /\ n = Len(s) /\ k = 0
                                     /\ Sound(heap, s, o, e, n, k)
      BY DEF Fit, Whole
    <2>2. vm.ops = o /\ vm.stack = s
      BY <2>1, MachineParts
    <2>3. /\ Len(o) \in Nat /\ DOMAIN o = 1 .. Len(o)
          /\ \A j \in 1 .. Len(o) : /\ FrameGood(heap, o[j]) /\ o[j].bp \in Nat /\ o[j].bp =< n
                                   /\ (o[j].op = "FOREACH" => o[j].bp >= 4)
      BY <2>1, SoundShape, Indexed
    <2>4. \A j, l \in 1 .. Len(o) : j < l => o[j].bp =< Base(o[l])
      BY <2>1 DEF Sound, Nested
    <2>5. \A l \in 1 .. Len(o) : Base(o[l]) \in Int /\ Base(o[l]) =< o[l].bp
      BY <2>3 DEF Base
    <2>6. ASSUME NEW j \in 1 .. Len(o), j # Len(o) PROVE o[j].bp =< o[j + 1].bp
      <3>1. j + 1 \in 1 .. Len(o) /\ j < j + 1
        <4>1. Len(o) \in Nat
          BY <2>3
        <4>2. QED
          BY <2>6, <4>1
      <3>2. PICK l : l = j + 1
        OBVIOUS
      <3>3. o[j].bp =< Base(o[l]) /\ Base(o[l]) =< o[l].bp /\ o[l].bp \in Nat
        BY <2>3, <2>4, <2>5, <3>1, <3>2
      <3>4. o[j].bp \in Nat /\ Base(o[l]) \in Int
        BY <2>3, <2>5, <3>1, <3>2
      <3>5. QED
        BY <3>2, <3>3, <3>4
    <2>7. QED
      BY <2>1, <2>2, <2>3, <2>6 DEF Sp
  <1>2. QED
    BY <1>1, SoundAlways, PTL

(* A loop finds its arguments, its offset and its context as it left them, *)
(* whatever its body does. *)
THEOREM LoopsStayIntact == Spec => []LoopIntact
  <1>1. SoundUnlessBorrowed => LoopIntact
    <2> SUFFICES ASSUME Fit, NEW i \in DOMAIN vm.ops, vm.ops[i].op = "FOREACH"
                 PROVE  LET at(k) == vm.stack[vm.ops[i].bp - 4 + k]
                            ctx == heap.ctxs[vm.env[1 + Cardinality({j \in Owners : j =< i})]]
                        IN  /\ <<at(1)[1], at(2)[1], at(3)[1], at(4)[1]>> = <<WORD, BLOCK, BLOCK, INT>>
                            /\ at(4)[2] % 2 = 0
                            /\ HasPair(at(2)[2], at(4)[2])
                            /\ ctx.sealed /\ DOMAIN ctx.entries = {at(1)[2]}
      BY DEF SoundUnlessBorrowed, LoopIntact
    <2>1. PICK b, j, s, o, e, n, k : /\ vm = Machine(b, j, s, o, e) /\ n = Len(s) /\ k = 0
                                     /\ Sound(heap, s, o, e, n, k)
      BY DEF Fit, Whole
    <2>2. vm.ops = o /\ vm.stack = s /\ vm.env = e
      BY <2>1, MachineParts
    <2>3. Len(o) \in Nat /\ DOMAIN o = 1 .. Len(o) /\ IsSequence(o) /\ n \in Nat
      BY <2>1, SoundShape, Indexed
    <2>4. PICK p, c : p = o[i].bp /\ c = e[1 + Rank(o, i)]
      OBVIOUS
    <2>5. p \in Nat /\ p >= 4 /\ p =< n /\ LoopGood(heap, s, p, c)
      <3>1. i \in 1 .. Len(o) /\ o[i].op = "FOREACH"
        BY <2>2, <2>3
      <3>2. FrameGood(heap, o[i]) /\ o[i].bp =< n
        BY <2>1, <3>1, SoundShape
      <3>3. p \in Nat /\ p >= 4
        BY <2>4, <3>1, <3>2 DEF FrameGood
      <3>4. LoopGood(heap, s, p, c)
        BY <2>1, <2>4, <3>1 DEF Sound, Looping
      <3>5. QED
        BY <2>4, <3>2, <3>3, <3>4
    <2>6. vm.env[1 + Cardinality({l \in Owners : l =< i})] = c
      <3>1. i \in 1 .. Len(o) /\ Len(o) \in Nat
        BY <2>2, <2>3
      <3>2. {l \in Owners : l =< i} = {l \in 1 .. i : o[l].op \in OwnerOps}
        <4>1. Owners = {l \in 1 .. Len(o) : o[l].op \in OwnerOps}
          BY <2>2, <2>3 DEF Owners
        <4>2. \A l : l \in 1 .. Len(o) /\ l =< i <=> l \in 1 .. i
          BY <3>1
        <4>3. QED
          BY <4>1, <4>2
      <3>3. QED
        BY <2>2, <2>4, <3>2 DEF Rank
    <2>7. PICK w, d, u, x : w = s[p - 3] /\ d = s[p - 2] /\ u = s[p - 1] /\ x = s[p]
      OBVIOUS
    <2>8. /\ vm.stack[vm.ops[i].bp - 4 + 1] = w /\ vm.stack[vm.ops[i].bp - 4 + 2] = d
          /\ vm.stack[vm.ops[i].bp - 4 + 3] = u /\ vm.stack[vm.ops[i].bp - 4 + 4] = x
      <3>1. p - 4 + 1 = p - 3 /\ p - 4 + 2 = p - 2 /\ p - 4 + 3 = p - 1 /\ p - 4 + 4 = p
        BY <2>5
      <3>2. QED
        BY <2>2, <2>4, <2>7, <3>1
    <2>9. /\ w[1] = WORD /\ d[1] = BLOCK /\ u[1] = BLOCK /\ x[1] = INT
          /\ x[2] % 2 = 0 /\ x[2] + 2 =< 2 * Len(heap.blocks[d[2]])
          /\ heap.ctxs[c].sealed /\ DOMAIN heap.ctxs[c].entries = {w[2]}
      BY <2>5, <2>7 DEF LoopGood
    <2>10. HasPair(d[2], x[2])
      <3>1. p - 2 \in 1 .. Len(s)
        BY <2>1, <2>5
      <3>2. Good(heap, d)
        BY <2>1, <2>7, <3>1 DEF Sound, Held
      <3>3. d[2] \in DOMAIN heap.blocks
        BY <2>9, <3>2 DEF Good
      <3>4. QED
        BY <2>9, <3>3 DEF HasPair, BlockAt
    <2>11. QED
      BY <2>6, <2>8, <2>9, <2>10
  <1>2. QED
    BY <1>1, SoundAlways, PTL

-----------------------------------------------------------------------------
(* Nothing an operation needs is missing. *)

Impossible == {"InternalError", "FunctionNotFound", "StackUnderflow"}
Answered == status' \notin Impossible

(* The ways a turn ends. *)
LEMMA Outcomes ==
  ASSUME Running
  PROVE  /\ \A error : error \notin Impossible /\ Fail(error) => Answered
         /\ status' = status => Answered
  BY DEF Running, Fail, Answered, Impossible

(* A turn that goes on, pushes a value or a frame, or jumps. *)
LEMMA OutcomesOf ==
  ASSUME Running, NEW v
  PROVE  /\ Continue(v) => Answered
         /\ \A n, val : Return(v, n, val) => Answered
         /\ \A val : PushValue(v, val) => Answered
         /\ \A op, word, arity : PushOp(v, op, word, arity) => Answered
         /\ \A b, op : Jump(v, b, op) => Answered
  <1>1. "OutOfMemory" \notin Impossible
    BY DEF Impossible
  <1>2. status' = status \/ Fail("OutOfMemory") => Answered
    BY <1>1, Outcomes
  <1>3. Continue(v) => status' = status
    BY DEF Continue
  <1>4. ASSUME NEW n, NEW val, Return(v, n, val) PROVE Answered
    BY <1>2, <1>4 DEF Return, Continue
  <1>5. ASSUME NEW op, NEW word, NEW arity, PushOp(v, op, word, arity) PROVE Answered
    BY <1>2, <1>5 DEF PushOp, Continue
  <1>6. ASSUME NEW b, NEW op, Jump(v, b, op) PROVE Answered
    BY <1>2, <1>6 DEF Jump, Continue
  <1>7. QED
    BY <1>2, <1>3, <1>4, <1>5, <1>6 DEF PushValue

(* A native has its arguments. *)
LEMMA NativeArguments ==
  ASSUME Fit, NEW name, NEW m \in Nat, Arity[Native[name]] = m, Calls(name), ~borrowed'
  PROVE  /\ Running /\ Sp(PopFrame(vm)) \in Nat /\ Sp(PopFrame(vm)) >= m
         /\ m # 0 => PopFrame(vm).stack # << >>
         /\ \A tags : Len(tags) = m => ArgError(PopFrame(vm), tags) \in {"none", "BadArguments"}
  <1>1. Whole(heap, vm) /\ Running
    BY DEF Fit, Calls, Run
  <1>2. PICK b, i, s, o, e, n : Ready(b, i, s, o, e, n, m)
    BY <1>1, NativeReady
  <1>3. Sp(PopFrame(vm)) = n + m /\ PopFrame(vm).stack = s /\ (m # 0 => s # << >>)
    BY <1>2, ReadyArgs
  <1>4. n \in Nat
    BY <1>2 DEF Ready
  <1>5. Sp(PopFrame(vm)) \in Nat /\ Sp(PopFrame(vm)) >= m
    BY <1>3, <1>4
  <1>6. ASSUME NEW tags, Len(tags) = m
        PROVE  ArgError(PopFrame(vm), tags) \in {"none", "BadArguments"}
    <2>1. ~(Sp(PopFrame(vm)) < Len(tags))
      BY <1>5, <1>6
    <2>2. QED
      BY <2>1 DEF ArgError
  <1>7. QED
    BY <1>1, <1>3, <1>5, <1>6

(* The natives that take blocks or numbers. *)
LEMMA TaggedAnswered ==
  ASSUME Fit, add \/ lt \/ func_do \/ context \/ func \/ either \/ foreach, ~borrowed'
  PROVE  Answered
  <1>1. /\ "BadArguments" \notin Impossible /\ "panic" \notin Impossible
        /\ "OutOfMemory" \notin Impossible
    BY DEF Impossible
  <1>2. ASSUME NEW name, NEW m \in Nat, Arity[Native[name]] = m, Calls(name),
               NEW tags, Len(tags) = m,
               ArgError(PopFrame(vm), tags) # "none", Fail(ArgError(PopFrame(vm), tags))
        PROVE  Answered
    <2>1. ArgError(PopFrame(vm), tags) = "BadArguments" /\ Running
      BY <1>2, NativeArguments
    <2>2. QED
      BY <1>1, <1>2, <2>1, Outcomes
  <1>3. Running
    BY DEF add, lt, func_do, context, func, either, foreach, Calls, Run
  <1>4. Fail("panic") \/ Fail("OutOfMemory") => Answered
    BY <1>1, <1>3, Outcomes
  <1>5. CASE add
    <2>1. Calls("add") /\ Arity[Native["add"]] = 2
      BY <1>5, ArityOf DEF add
    <2>2. PICK v, tags : v = PopFrame(vm) /\ tags = <<INT, INT>>
      OBVIOUS
    <2>3. \/ ArgError(v, tags) # "none" /\ Fail(ArgError(v, tags))
          \/ Fail("panic")
          \/ \E n, val : Return(v, n, val)
      BY <1>5, <2>2 DEF add
    <2>4. Len(tags) = 2
      BY <2>2
    <2>5. QED
      BY <1>2, <1>3, <1>4, <2>1, <2>2, <2>3, <2>4, OutcomesOf
  <1>6. CASE lt
    <2>1. Calls("lt") /\ Arity[Native["lt"]] = 2
      BY <1>6, ArityOf DEF lt
    <2>2. PICK v, tags : v = PopFrame(vm) /\ tags = <<INT, INT>>
      OBVIOUS
    <2>3. \/ ArgError(v, tags) # "none" /\ Fail(ArgError(v, tags))
          \/ \E n, val : Return(v, n, val)
      BY <1>6, <2>2 DEF lt
    <2>4. Len(tags) = 2
      BY <2>2
    <2>5. QED
      BY <1>2, <1>3, <2>1, <2>2, <2>3, <2>4, OutcomesOf
  <1>7. CASE func_do
    <2>1. Calls("do") /\ Arity[Native["do"]] = 1
      BY <1>7, ArityOf DEF func_do
    <2>2. PICK tags : tags = <<BLOCK>>
      OBVIOUS
    <2>3. \/ ArgError(PopFrame(vm), tags) # "none" /\ Fail(ArgError(PopFrame(vm), tags))
          \/ \E v, b, op : Jump(v, b, op)
      BY <1>7, <2>2 DEF func_do
    <2>4. Len(tags) = 1
      BY <2>2
    <2>5. QED
      BY <1>2, <1>3, <2>1, <2>3, <2>4, OutcomesOf
  <1>8. CASE context
    <2>1. Calls("context") /\ Arity[Native["context"]] = 1
      BY <1>8, ArityOf DEF context
    <2>2. PICK tags : tags = <<BLOCK>>
      OBVIOUS
    <2>3. \/ ArgError(PopFrame(vm), tags) # "none" /\ Fail(ArgError(PopFrame(vm), tags))
          \/ Fail("OutOfMemory")
          \/ \E v, b, op : Jump(v, b, op)
      BY <1>8, <2>2 DEF context
    <2>4. Len(tags) = 1
      BY <2>2
    <2>5. QED
      BY <1>2, <1>3, <1>4, <2>1, <2>3, <2>4, OutcomesOf
  <1>9. CASE func
    <2>1. Calls("func") /\ Arity[Native["func"]] = 2
      BY <1>9, ArityOf DEF func
    <2>2. PICK tags : tags = <<BLOCK, BLOCK>>
      OBVIOUS
    <2>3. \/ ArgError(PopFrame(vm), tags) # "none" /\ Fail(ArgError(PopFrame(vm), tags))
          \/ Fail("OutOfMemory")
          \/ \E v, n, val : Return(v, n, val)
      BY <1>9, <2>2 DEF func
    <2>4. Len(tags) = 2
      BY <2>2
    <2>5. QED
      BY <1>2, <1>3, <1>4, <2>1, <2>3, <2>4, OutcomesOf
  <1>10. CASE either
    <2>1. Calls("either") /\ Arity[Native["either"]] = 3
      BY <1>10, ArityOf DEF either
    <2>2. PICK tags : tags = <<BOOL, BLOCK, BLOCK>>
      OBVIOUS
    <2>3. \/ ArgError(PopFrame(vm), tags) # "none" /\ Fail(ArgError(PopFrame(vm), tags))
          \/ \E v, b, op : Jump(v, b, op)
      BY <1>10, <2>2 DEF either
    <2>4. Len(tags) = 3
      BY <2>2
    <2>5. QED
      BY <1>2, <1>3, <2>1, <2>3, <2>4, OutcomesOf
  <1>11. CASE foreach
    <2>1. Calls("foreach") /\ Arity[Native["foreach"]] = 3
      BY <1>11, ArityOf DEF foreach
    <2>2. PICK tags : tags = <<WORD, BLOCK, BLOCK>>
      OBVIOUS
    <2>3. \/ ArgError(PopFrame(vm), tags) # "none" /\ Fail(ArgError(PopFrame(vm), tags))
          \/ Fail("OutOfMemory")
          \/ \E v : Continue(v)
          \/ \E v, b, op : Jump(v, b, op)
      BY <1>11, <2>2 DEF foreach
    <2>4. Len(tags) = 3
      BY <2>2
    <2>5. QED
      BY <1>2, <1>3, <1>4, <2>1, <2>3, <2>4, OutcomesOf
  <1>12. QED
    BY <1>5, <1>6, <1>7, <1>8, <1>9, <1>10, <1>11


(* The system context never leaves env. *)
LEMMA EnvHeld ==
  ASSUME NEW b, NEW i, NEW s, NEW o, NEW e, NEW f, Popped(b, i, s, o, e, f)
  PROVE  e # << >>
  <1>1. PICK n, k : n = Base(f) /\ k = Owns(f.op) /\ Sound(heap, s, o, e, n, k)
    BY DEF Popped
  <1>2. Len(e) = 1 + Owned(o) + k /\ Owned(o) \in Nat /\ k \in Nat
    BY <1>1, SoundShape
  <1>3. Len(e) # 0
    BY <1>2
  <1>4. QED
    BY <1>3

(* The natives that take any value. *)
LEMMA AnyAnswered ==
  ASSUME Fit, reduce \/ print \/ is_block \/ form, ~borrowed'
  PROVE  Answered
  <1>1. PICK name : /\ name \in {"reduce", "print", "is_block", "form"} /\ Calls(name)
    BY DEF reduce, print, is_block, form
  <1>2. Running /\ PopFrame(vm).stack # << >>
    <2>1. Arity[Native[name]] = 1
      BY <1>1, ArityOf
    <2>2. QED
      BY <1>1, <2>1, NativeArguments
  <1>3. \/ \E error : error \in {"UnknownTag", "OutOfMemory"} /\ Fail(error)
        \/ \E v : Continue(v)
        \/ \E v, n, val : Return(v, n, val)
        \/ \E v, b, op : Jump(v, b, op)
    <2>1. CASE reduce
      BY <1>2, <2>1 DEF reduce
    <2>2. CASE print
      BY <1>2, <2>2 DEF print
    <2>3. CASE is_block
      BY <1>2, <2>3 DEF is_block
    <2>4. CASE form
      BY <1>2, <2>4 DEF form
    <2>5. QED
      BY <2>1, <2>2, <2>3, <2>4
  <1>4. \A error \in {"UnknownTag", "OutOfMemory"} : error \notin Impossible
    BY DEF Impossible
  <1>5. QED
    BY <1>2, <1>3, <1>4, Outcomes, OutcomesOf

(* A call that runs has the arguments its function asks for, be it from a  *)
(* frame or, without parameters, at once. *)
LEMMA CallFunctionAnswered ==
  ASSUME Fit, Running, NEW v, NEW desc, Describes(heap, desc),
         NEW m, m = Len(heap.blocks[heap.blocks[desc][2][2]]),
         Sp(v) \in Nat, Sp(v) >= m, CallFunction(v, desc)
  PROVE  Answered
  <1>1. GoodHeap(heap)
    BY DEF Fit
  <1>2. PICK params, body, size, wrong, short :
          /\ params = BlockAt(BlockAt(desc)[2][2]) /\ body = BlockAt(desc)[3][2]
          /\ size = 2 * Len(params)
          /\ wrong = {j \in 1 .. Len(params) : params[j][1] # WORD}
          /\ short = 1 .. Len(params) - Sp(v)
    OBVIOUS
  <1>3. Len(params) = m /\ m \in Nat
    <2>1. desc \in DOMAIN heap.blocks /\ heap.blocks[desc][2][2] \in DOMAIN heap.blocks
      BY <1>1, FunctionParts
    <2>2. BlockAt(desc) = heap.blocks[desc]
      BY <1>1, <2>1, BlockShape
    <2>3. params = heap.blocks[heap.blocks[desc][2][2]] /\ Len(params) \in Nat
      BY <1>1, <1>2, <2>1, <2>2, BlockShape
    <2>4. QED
      BY <2>3
  <1>4. short = {}
    <2>1. short = 1 .. m - Sp(v)
      BY <1>2, <1>3
    <2>2. PICK n : n = Sp(v)
      OBVIOUS
    <2>3. 1 .. m - n = {}
      BY <1>3, <2>2
    <2>4. QED
      BY <2>1, <2>2, <2>3
  <1>5. wrong # {} => Max(wrong) \in wrong
    <2>1. wrong \in SUBSET (1 .. m)
      BY <1>2, <1>3
    <2>2. QED
      BY <1>3, <2>1, MaxMember
  <1>6. wrong \union short = wrong
    BY <1>4
  <1>7. \/ Fail("OutOfBounds") \/ Fail("OutOfMemory")
        \/ wrong # {} /\ Fail(IF Max(wrong) \in wrong THEN "BadArguments" ELSE "StackUnderflow")
        \/ \E w, b, op : Jump(w, b, op)
    BY <1>2, <1>6 DEF CallFunction
  <1>8. \/ \E error : error \in {"OutOfBounds", "OutOfMemory", "BadArguments"} /\ Fail(error)
        \/ \E w, b, op : Jump(w, b, op)
    BY <1>5, <1>7
  <1>9. \A error \in {"OutOfBounds", "OutOfMemory", "BadArguments"} : error \notin Impossible
    BY DEF Impossible
  <1>10. QED
    BY <1>8, <1>9, Outcomes, OutcomesOf

(* CALL_FUNC *)
LEMMA CallFuncAnswered ==
  ASSUME Fit, CallFunc, ~borrowed'
  PROVE  Answered
  <1>1. PICK op : op = "CALL_FUNC"
    OBVIOUS
  <1>2. op \in CallOps /\ Run(op) /\ Running /\ Whole(heap, vm)
    BY <1>1 DEF CallOps, CallFunc, Run, Fit
  <1>3. PICK b, i, s, o, e, f : /\ Popped(b, i, s, o, e, f) /\ f.op = op /\ Base(f) = f.bp
                                /\ f.bp \in Nat /\ Len(s) = f.bp + f.arity
    BY <1>2, CallReady
  <1>4. PICK v, desc, m : v = PopFrame(vm) /\ desc = f.word /\ m = f.arity
    OBVIOUS
  <1>5. Describes(heap, desc) /\ m = Len(heap.blocks[heap.blocks[desc][2][2]])
    BY <1>1, <1>3, <1>4 DEF Popped, FrameGood
  <1>6. m \in Nat
    <2>1. GoodHeap(heap) /\ heap.blocks[desc][2][2] \in DOMAIN heap.blocks
      BY <1>5, FunctionParts DEF Fit
    <2>2. QED
      BY <1>5, <2>1, HeapShape
  <1>7. Sp(v) = f.bp + m
    BY <1>3, <1>4, MachineParts DEF Popped, Sp
  <1>8. Sp(v) \in Nat /\ Sp(v) >= m
    BY <1>3, <1>6, <1>7
  <1>9. CallFunction(v, desc)
    BY <1>3, <1>4 DEF CallFunc, Popped
  <1>10. QED
    BY <1>2, <1>5, <1>8, <1>9, CallFunctionAnswered

(* SET_WORD and CONTEXT have the value of what stands behind them. *)
LEMMA ValueAnswered ==
  ASSUME Fit, SetWord \/ EndContext, ~borrowed'
  PROVE  Answered
  <1>1. PICK op : op \in {"SET_WORD", "CONTEXT"} /\ Run(op)
    BY DEF SetWord, EndContext
  <1>2. op \in CallOps /\ Run(op) /\ Running /\ Whole(heap, vm)
    BY <1>1 DEF CallOps, Run, Fit
  <1>3. PICK b, i, s, o, e, f : /\ Popped(b, i, s, o, e, f) /\ f.op = op /\ Base(f) = f.bp
                                /\ f.bp \in Nat /\ Len(s) = f.bp + f.arity
    BY <1>2, CallReady
  <1>4. PICK v : v = PopFrame(vm)
    OBVIOUS
  <1>5. v.stack = s /\ v.env = e
    BY <1>3, <1>4, MachineParts DEF Popped
  <1>6. s # << >>
    <2>1. Len(s) = f.bp + 1
      BY <1>1, <1>3 DEF Popped, FrameGood
    <2>2. Len(s) # 0
      BY <1>3, <2>1
    <2>3. QED
      BY <2>2
  <1>7. e # << >>
    BY <1>3, EnvHeld
  <1>8. \A ctx, sym : PutResult(ctx, sym) \notin Impossible
    BY DEF PutResult, Impossible
  <1>9. "WordNotFound" \notin Impossible
    BY DEF Impossible
  <1>10. CASE SetWord
    <2>1. \/ Fail("WordNotFound")
          \/ \E ctx, sym : Fail(PutResult(ctx, sym))
          \/ \E w : Continue(w)
      BY <1>4, <1>5, <1>6, <1>10 DEF SetWord
    <2>2. QED
      BY <1>2, <1>8, <1>9, <2>1, Outcomes, OutcomesOf
  <1>11. CASE EndContext
    <2>1. \E w, n, val : Return(w, n, val)
      BY <1>4, <1>5, <1>6, <1>7, <1>11 DEF EndContext
    <2>2. QED
      BY <1>2, <2>1, OutcomesOf
  <1>12. QED
    BY <1>10, <1>11

(* The end of a block finds its frame, its context and its base. *)
LEMMA EndAnswered ==
  ASSUME Fit, LeaveBlock \/ LeaveFunc \/ LeaveReduce
  PROVE  Answered
  <1>1. PICK op : op \in {"LEAVE_BLOCK", "LEAVE_FUNC", "REDUCE"} /\ EndOf(op)
    BY DEF LeaveBlock, LeaveFunc, LeaveReduce
  <1>2. Running
    BY <1>1 DEF EndOf
  <1>3. PICK b, i, s, o, e, f : Popped(b, i, s, o, e, f) /\ f.op = op
    BY <1>1, EndReady
  <1>4. PICK v : v = PopFrame(vm)
    OBVIOUS
  <1>5. v.stack = s /\ v.env = e /\ Top = f
    BY <1>3, <1>4, MachineParts DEF Popped
  <1>6. e # << >>
    BY <1>3, EnvHeld
  <1>7. Len(s) \in Nat /\ f.bp \in Nat /\ f.bp =< Len(s)
    BY <1>3, SoundShape DEF Popped, FrameGood
  <1>8. ASSUME NEW w, w.stack = s, Leave(w, f) PROVE Answered
    <2>1. ~(Sp(w) - f.bp < 0)
      BY <1>7, <1>8 DEF Sp
    <2>2. \E x, n, val : Return(x, n, val)
      BY <1>8, <2>1 DEF Leave
    <2>3. QED
      BY <1>2, <2>2, OutcomesOf
  <1>9. CASE LeaveBlock
    BY <1>4, <1>5, <1>8, <1>9 DEF LeaveBlock
  <1>10. CASE LeaveFunc
    <2>1. PICK w : w = [v EXCEPT !.env = Front(@)]
      OBVIOUS
    <2>2. Leave(w, f)
      <3>1. v.env # << >> => Leave([v EXCEPT !.env = Front(@)], Top)
        BY <1>4, <1>10 DEF LeaveFunc
      <3>2. QED
        BY <1>5, <1>6, <2>1, <3>1
    <2>3. w.stack = s
      <3>1. v = Machine(b, i, s, o, e)
        BY <1>3, <1>4 DEF Popped
      <3>2. QED
        BY <2>1, <3>1 DEF Machine
    <2>4. QED
      BY <1>8, <2>2, <2>3
  <1>11. CASE LeaveReduce
    <2>1. ~(Sp(v) < f.bp)
      BY <1>5, <1>7 DEF Sp
    <2>2. Fail("OutOfMemory") \/ \E w, n, val : Return(w, n, val)
      BY <1>4, <1>5, <1>11, <2>1 DEF LeaveReduce
    <2>3. "OutOfMemory" \notin Impossible
      BY DEF Impossible
    <2>4. QED
      BY <1>2, <2>2, <2>3, Outcomes, OutcomesOf
  <1>12. QED
    BY <1>9, <1>10, <1>11

(* FOREACH *)
LEMMA LoopAnswered ==
  ASSUME Fit, LeaveForeach
  PROVE  Answered
  <1>1. PICK op : op = "FOREACH" /\ EndOf(op)
    BY DEF LeaveForeach
  <1>2. Running
    BY <1>1 DEF EndOf
  <1>3. PICK b, i, s, o, e, f : Popped(b, i, s, o, e, f) /\ f.op = op
    BY <1>1, EndReady
  <1>4. PICK v : v = [PopFrame(vm) EXCEPT !.stack = SubSeq(vm.stack, 1, Top.bp - 1)]
    OBVIOUS
  <1>5. v.env = e /\ Top = f /\ vm.stack = s
    <2>1. PopFrame(vm) = Machine(b, i, s, o, e) /\ Top = f /\ vm.stack = s
      BY <1>3 DEF Popped
    <2>2. QED
      BY <1>4, <2>1 DEF Machine
  <1>6. e # << >>
    BY <1>3, EnvHeld
  <1>7. ~(Sp(vm) < Top.bp) /\ ~(Top.bp < 4)
    <2>1. Len(s) \in Nat /\ f.bp \in Nat /\ f.bp =< Len(s) /\ f.bp >= 4
      BY <1>1, <1>3, SoundShape DEF Popped, FrameGood
    <2>2. QED
      BY <1>5, <2>1 DEF Sp
  <1>8. \/ Fail("panic")
        \/ \E ctx, sym : Fail(PutResult(ctx, sym))
        \/ \E w : Continue(w)
    BY <1>4, <1>5, <1>6, <1>7 DEF LeaveForeach
  <1>9. /\ \A ctx, sym : PutResult(ctx, sym) \notin Impossible
        /\ "panic" \notin Impossible
    BY DEF PutResult, Impossible
  <1>10. QED
    BY <1>2, <1>8, <1>9, Outcomes, OutcomesOf

(* What is fetched is known. *)
LEMMA FetchAnswered ==
  ASSUME Fit, Fetch
  PROVE  Answered
  <1>1. GoodHeap(heap) /\ Whole(heap, vm) /\ ~AtEnd /\ Running
    BY DEF Fit, Fetch
  <1>2. PICK b, j, s, o, e, r : /\ [vm EXCEPT !.ip = @ + 1] = Machine(b, j, s, o, e)
                                /\ Place(heap, b, j) /\ Sound(heap, s, o, e, Len(s), 0)
                                /\ r = resolve(vm.env, PairAt(vm.block, 2 * vm.ip)) /\ r \in Answers
    BY <1>1, ReadGood
  <1>3. PICK v, tag, data : v = Machine(b, j, s, o, e) /\ tag = r.val[1] /\ data = r.val[2]
    OBVIOUS
  <1>4. \/ r.error # "none" /\ Fail(r.error)
        \/ r.error = "none" /\ tag = NATIVE_FN /\ FetchNative(v, data)
        \/ r.error = "none" /\ tag = FUNC /\ FetchFunc(v, data)
        \/ \E w, word, arity, name : PushOp(w, name, word, arity)
        \/ \E w, val : PushValue(w, val)
    <2>1. LET r0 == resolve(vm.env, PairAt(vm.block, 2 * vm.ip))
              v0 == [vm EXCEPT !.ip = @ + 1]
              tag0 == r0.val[1]
              data0 == r0.val[2]
          IN  CASE r0.error # "none" -> Fail(r0.error) /\ UNCHANGED heap
                [] r0.error = "none" /\ tag0 = NATIVE_FN -> FetchNative(v0, data0) /\ UNCHANGED heap
                [] r0.error = "none" /\ tag0 = FUNC -> FetchFunc(v0, data0)
                [] r0.error = "none" /\ tag0 = SET_WORD ->
                     PushOp(v0, "SET_WORD", data0, 1) /\ UNCHANGED heap
                [] OTHER -> PushValue(v0, r0.val) /\ UNCHANGED heap
      BY DEF Fetch
    <2>2. \/ r.error # "none" /\ Fail(r.error)
          \/ r.error = "none" /\ tag = NATIVE_FN /\ FetchNative(v, data)
          \/ r.error = "none" /\ tag = FUNC /\ FetchFunc(v, data)
          \/ PushOp(v, "SET_WORD", data, 1)
          \/ PushValue(v, r.val)
      BY <1>2, <1>3, <2>1
    <2>3. QED
      BY <2>2
  <1>5. r.error \in Errors /\ Errors \cap Impossible = {}
    BY <1>2 DEF Answers, AnswersIn, Errors, Impossible
  <1>6. r.error = "none" => /\ (tag = NATIVE_FN => data \in DOMAIN Arity)
                            /\ (tag = FUNC => Describes(heap, data))
    BY <1>2, <1>3 DEF Answers, AnswersIn, GoodCells, Good
  <1>7. /\ "OutOfMemory" \notin Impossible /\ "OutOfBounds" \notin Impossible
    BY DEF Impossible
  <1>8. ASSUME data \in DOMAIN Arity, FetchNative(v, data) PROVE Answered
    <2>1. \/ Fail("OutOfMemory") \/ Fail("OutOfBounds")
          \/ \E w, val : PushValue(w, val)
          \/ \E w, name, word, arity : PushOp(w, name, word, arity)
      BY <1>8 DEF FetchNative
    <2>2. QED
      BY <1>1, <1>7, <2>1, Outcomes, OutcomesOf
  <1>9. ASSUME Describes(heap, data), FetchFunc(v, data) PROVE Answered
    <2>1. \/ Fail("OutOfBounds")
          \/ BlockAt(data)[1][2] = 0 /\ CallFunction(v, data)
          \/ \E w, name, word, arity : PushOp(w, name, word, arity)
      BY <1>9 DEF FetchFunc
    <2>2. ASSUME BlockAt(data)[1][2] = 0, CallFunction(v, data) PROVE Answered
      <3>1. PICK m : m = Len(heap.blocks[heap.blocks[data][2][2]])
        OBVIOUS
      <3>2. m \in Nat /\ BlockAt(data) = heap.blocks[data]
        <4>1. data \in DOMAIN heap.blocks /\ heap.blocks[data][2][2] \in DOMAIN heap.blocks
          BY <1>1, <1>9, FunctionParts
        <4>2. QED
          BY <1>1, <3>1, <4>1, HeapShape, BlockShape
      <3>3. m = 0
        <4>1. heap.blocks[data][1][2] = 2 * m
          BY <1>9, <3>1 DEF Describes
        <4>2. QED
          BY <2>2, <3>2, <4>1
      <3>4. Sp(v) \in Nat
        <4>1. v.stack = s
          BY <1>3, MachineParts
        <4>2. Len(s) \in Nat
          BY <1>2, SoundShape
        <4>3. QED
          BY <4>1, <4>2 DEF Sp
      <3>5. Sp(v) >= m
        BY <3>3, <3>4
      <3>6. QED
        BY <1>1, <1>9, <2>2, <3>1, <3>4, <3>5, CallFunctionAnswered
    <2>3. QED
      BY <1>1, <1>7, <2>1, <2>2, Outcomes, OutcomesOf
  <1>10. QED
    BY <1>1, <1>4, <1>5, <1>6, <1>8, <1>9, Outcomes, OutcomesOf

(* A turn of the loop. *)
LEMMA NextAnswered ==
  ASSUME Fit, [Next]_vars, ~borrowed', status \notin Impossible
  PROVE  Answered
  <1>1. CASE CallNative
    BY <1>1, TaggedAnswered, AnyAnswered DEF CallNative
  <1>2. CASE EndBlock
    <2>1. CASE Finish
      BY <2>1 DEF Finish, Answered, Impossible
    <2>2. CASE ~Finish
      BY <1>2, <2>2, EndAnswered, LoopAnswered DEF EndBlock
    <2>3. QED
      BY <2>1, <2>2
  <1>3. CASE UNCHANGED vars
    BY <1>3 DEF vars, Answered
  <1>4. QED
    BY <1>1, <1>2, <1>3, FetchAnswered, CallFuncAnswered, ValueAnswered DEF Next

(* Operations that get their arguments never find a stack, a frame or a    *)
(* function missing, for every program, package, heap and limit: the       *)
(* errors the code returns for that are for machines that borrowed. *)
THEOREM NothingIsMissing == Spec => []NothingMissing
  <1>1. Init => NothingMissing
    BY DEF Init, NothingMissing
  <1>2. SoundUnlessBorrowed /\ NothingMissing /\ [Next]_vars => NothingMissing'
    <2> SUFFICES ASSUME SoundUnlessBorrowed, NothingMissing, [Next]_vars, ~borrowed'
                 PROVE  status' \notin Impossible
      BY DEF NothingMissing, Impossible
    <2>1. ~borrowed
      BY OwnArguments
    <2>2. Fit /\ status \notin Impossible
      BY <2>1 DEF SoundUnlessBorrowed, NothingMissing, Impossible
    <2>3. QED
      BY <2>2, NextAnswered DEF Answered
  <1>3. QED
    BY <1>1, <1>2, SoundAlways, PTL DEF Spec

-----------------------------------------------------------------------------
(* Values that can be read. *)

AllKnown(s) == \A j \in DOMAIN s : Known(s[j])

(* The system context is the first on env only. *)
OwnScopes(e) == \A j \in DOMAIN e : e[j] = 1 => j = 1

(* An Exec whose values can be read. *)
Legible(v) ==
  \E b, i, s, o, e : /\ v = Machine(b, i, s, o, e)
                     /\ IsSequence(s) /\ AllKnown(s)
                     /\ IsSequence(e) /\ OwnScopes(e)

Reads     == KnownHeap(heap) /\ Legible(vm) /\ status # "UnknownTag"
ReadsNext == KnownHeap(heap') /\ Legible(vm') /\ status' # "UnknownTag"

(* The values an Exec has. *)
LEMMA LegibleParts ==
  ASSUME NEW v, Legible(v)
  PROVE  /\ IsSequence(v.stack) /\ AllKnown(v.stack)
         /\ IsSequence(v.env) /\ OwnScopes(v.env)
         /\ Sp(v) \in Nat /\ DOMAIN v.stack = 1 .. Sp(v) /\ (v.stack # << >> => Sp(v) >= 1)
         /\ v.stack # << >> => Known(Last(v.stack))
  <1>1. PICK b, i, s, o, e : /\ v = Machine(b, i, s, o, e)
                             /\ IsSequence(s) /\ AllKnown(s)
                             /\ IsSequence(e) /\ OwnScopes(e)
    BY DEF Legible
  <1>2. v.stack = s /\ v.env = e
    BY <1>1, MachineParts
  <1>3. Len(s) \in Nat /\ DOMAIN s = 1 .. Len(s) /\ (s # << >> => Len(s) >= 1)
    <2>1. Len(s) \in Nat /\ DOMAIN s = 1 .. Len(s)
      BY <1>1, Indexed
    <2>2. PICK S : s \in Seq(S)
      BY <1>1 DEF IsSequence
    <2>3. s # << >> => Len(s) # 0
      BY <2>2, EmptySeq
    <2>4. QED
      BY <2>1, <2>3
  <1>4. s # << >> => Known(Last(s))
    BY <1>1, <1>3 DEF AllKnown, Last
  <1>5. QED
    BY <1>1, <1>2, <1>3, <1>4 DEF Sp

(* An Exec with other frames, at another place or with other values.       *)
LEMMA LegibleMoves ==
  ASSUME NEW v, Legible(v)
  PROVE  /\ \A x : Legible([v EXCEPT !.block = x])
         /\ \A x : Legible([v EXCEPT !.ip = x])
         /\ \A x : Legible([v EXCEPT !.ops = x])
         /\ \A x : IsSequence(x) /\ AllKnown(x) => Legible([v EXCEPT !.stack = x])
         /\ \A x : IsSequence(x) /\ OwnScopes(x) => Legible([v EXCEPT !.env = x])
  <1>1. PICK b, i, s, o, e : /\ v = Machine(b, i, s, o, e)
                             /\ IsSequence(s) /\ AllKnown(s)
                             /\ IsSequence(e) /\ OwnScopes(e)
    BY DEF Legible
  <1>2. \A x : /\ [v EXCEPT !.block = x] = Machine(x, i, s, o, e)
               /\ [v EXCEPT !.ip = x] = Machine(b, x, s, o, e)
               /\ [v EXCEPT !.ops = x] = Machine(b, i, s, x, e)
               /\ [v EXCEPT !.stack = x] = Machine(b, i, x, o, e)
               /\ [v EXCEPT !.env = x] = Machine(b, i, s, o, x)
    BY <1>1, MachineParts
  <1>3. /\ \A x : Legible(Machine(x, i, s, o, e))
        /\ \A x : Legible(Machine(b, x, s, o, e))
        /\ \A x : Legible(Machine(b, i, s, x, e))
        /\ \A x : IsSequence(x) /\ AllKnown(x) => Legible(Machine(b, i, x, o, e))
        /\ \A x : IsSequence(x) /\ OwnScopes(x) => Legible(Machine(b, i, s, o, x))
    BY <1>1 DEF Legible
  <1>4. ASSUME NEW x PROVE Legible([v EXCEPT !.block = x])
    <2>1. [v EXCEPT !.block = x] = Machine(x, i, s, o, e)
      BY <1>2
    <2>2. Legible(Machine(x, i, s, o, e))
      BY <1>3
    <2>3. QED
      BY <2>1, <2>2, Zenon
  <1>5. ASSUME NEW x PROVE Legible([v EXCEPT !.ip = x])
    <2>1. [v EXCEPT !.ip = x] = Machine(b, x, s, o, e)
      BY <1>2
    <2>2. Legible(Machine(b, x, s, o, e))
      BY <1>3
    <2>3. QED
      BY <2>1, <2>2, Zenon
  <1>6. ASSUME NEW x PROVE Legible([v EXCEPT !.ops = x])
    <2>1. [v EXCEPT !.ops = x] = Machine(b, i, s, x, e)
      BY <1>2
    <2>2. Legible(Machine(b, i, s, x, e))
      BY <1>3
    <2>3. QED
      BY <2>1, <2>2, Zenon
  <1>7. ASSUME NEW x, IsSequence(x), AllKnown(x) PROVE Legible([v EXCEPT !.stack = x])
    <2>1. [v EXCEPT !.stack = x] = Machine(b, i, x, o, e)
      BY <1>2
    <2>2. Legible(Machine(b, i, x, o, e))
      BY <1>3, <1>7
    <2>3. QED
      BY <2>1, <2>2, Zenon
  <1>8. ASSUME NEW x, IsSequence(x), OwnScopes(x) PROVE Legible([v EXCEPT !.env = x])
    <2>1. [v EXCEPT !.env = x] = Machine(b, i, s, o, x)
      BY <1>2
    <2>2. Legible(Machine(b, i, s, o, x))
      BY <1>3, <1>8
    <2>3. QED
      BY <2>1, <2>2, Zenon
  <1>9. QED
    BY <1>4, <1>5, <1>6, <1>7, <1>8

(* Values that are pushed, taken and read. *)
LEMMA KnownValues ==
  ASSUME NEW s, IsSequence(s), AllKnown(s)
  PROVE  /\ \A val : Known(val) => IsSequence(Append(s, val)) /\ AllKnown(Append(s, val))
         /\ \A m \in 0 .. Len(s) : IsSequence(SubSeq(s, 1, m)) /\ AllKnown(SubSeq(s, 1, m))
  <1>1. Len(s) \in Nat /\ DOMAIN s = 1 .. Len(s)
    BY Indexed
  <1>2. ASSUME NEW val, Known(val) PROVE IsSequence(Append(s, val)) /\ AllKnown(Append(s, val))
    <2>1. /\ IsSequence(Append(s, val)) /\ Len(Append(s, val)) = Len(s) + 1
          /\ \A j \in 1 .. Len(s) : Append(s, val)[j] = s[j]
          /\ Append(s, val)[Len(s) + 1] = val
      BY Stacked
    <2>2. DOMAIN Append(s, val) = 1 .. Len(s) + 1
      BY <2>1, Indexed
    <2>3. \A j \in 1 .. Len(s) + 1 : j \in 1 .. Len(s) \/ j = Len(s) + 1
      BY <1>1
    <2>4. QED
      BY <1>1, <1>2, <2>1, <2>2, <2>3 DEF AllKnown
  <1>3. ASSUME NEW m \in 0 .. Len(s)
        PROVE  IsSequence(SubSeq(s, 1, m)) /\ AllKnown(SubSeq(s, 1, m))
    <2>1. /\ IsSequence(SubSeq(s, 1, m)) /\ Len(SubSeq(s, 1, m)) = m
          /\ \A j \in 1 .. m : SubSeq(s, 1, m)[j] = s[j]
      BY Truncated
    <2>2. DOMAIN SubSeq(s, 1, m) = 1 .. m /\ \A j \in 1 .. m : j \in 1 .. Len(s)
      BY <1>1, <2>1, Indexed
    <2>3. QED
      BY <1>1, <2>1, <2>2 DEF AllKnown
  <1>4. QED
    BY <1>2, <1>3

(* An Exec without the values on top. *)
LEMMA LegibleBelow ==
  ASSUME NEW v, Legible(v), NEW n \in 0 .. Sp(v)
  PROVE  /\ IsSequence(Below(v, n)) /\ AllKnown(Below(v, n))
         /\ Legible([v EXCEPT !.stack = Below(v, n)])
         /\ \A j \in 1 .. n : Known(Arg(v, n, j))
  <1>1. /\ IsSequence(v.stack) /\ AllKnown(v.stack) /\ Sp(v) \in Nat /\ DOMAIN v.stack = 1 .. Sp(v)
        /\ Sp(v) = Len(v.stack)
    BY LegibleParts DEF Sp
  <1>2. PICK m : m = Sp(v) - n
    OBVIOUS
  <1>3. m \in 0 .. Len(v.stack)
    BY <1>1, <1>2
  <1>4. IsSequence(Below(v, n)) /\ AllKnown(Below(v, n))
    BY <1>1, <1>2, <1>3, KnownValues DEF Below
  <1>5. \A j \in 1 .. n : Sp(v) - n + j \in 1 .. Sp(v)
    BY <1>1
  <1>6. QED
    BY <1>1, <1>4, <1>5, LegibleMoves DEF Arg, AllKnown

(* The ways a turn ends. *)
LEMMA TurnReads ==
  ASSUME Running, Legible(vm), KnownHeap(heap')
  PROVE  /\ \A error : error # "UnknownTag" /\ Fail(error) => ReadsNext
         /\ \A v : Legible(v) /\ Continue(v) => ReadsNext
  <1>1. status # "UnknownTag"
    BY DEF Running
  <1>2. QED
    BY <1>1 DEF Fail, Continue, ReadsNext

(* A value that can be read is pushed in place of others. *)
LEMMA ReturnReads ==
  ASSUME Running, Legible(vm), KnownHeap(heap'),
         NEW v, Legible(v), NEW n \in 0 .. Sp(v), NEW val, Known(val), Return(v, n, val)
  PROVE  ReadsNext
  <1>1. PICK s : s = Below(v, n)
    OBVIOUS
  <1>2. IsSequence(s) /\ AllKnown(s)
    BY <1>1, LegibleBelow
  <1>3. IsSequence(Append(s, val)) /\ AllKnown(Append(s, val))
    BY <1>2, KnownValues
  <1>4. Fail("OutOfMemory") \/ Continue([v EXCEPT !.stack = Append(s, val)])
    BY <1>1 DEF Return
  <1>5. QED
    BY <1>3, <1>4, LegibleMoves, TurnReads

(* A value or a frame is pushed. *)
LEMMA PushReads ==
  ASSUME Running, Legible(vm), KnownHeap(heap'), NEW v, Legible(v)
  PROVE  /\ \A val : Known(val) /\ PushValue(v, val) => ReadsNext
         /\ \A op, word, arity : PushOp(v, op, word, arity) => ReadsNext
         /\ \A b, op : Jump(v, b, op) => ReadsNext
  <1>1. 0 \in 0 .. Sp(v)
    BY LegibleParts
  <1>2. ASSUME NEW val, Known(val), PushValue(v, val) PROVE ReadsNext
    BY <1>1, <1>2, ReturnReads DEF PushValue
  <1>3. ASSUME NEW op, NEW word, NEW arity, PushOp(v, op, word, arity) PROVE ReadsNext
    <2>1. Fail("OutOfMemory") \/ \E x : Continue([v EXCEPT !.ops = x])
      BY <1>3 DEF PushOp
    <2>2. QED
      BY <2>1, LegibleMoves, TurnReads
  <1>4. ASSUME NEW b, NEW op, Jump(v, b, op) PROVE ReadsNext
    <2>1. PICK f : f = Frame(op, v.block, Sp(v), LeaveMarker + v.ip)
      OBVIOUS
    <2>2. PICK x, y : x = [v EXCEPT !.ops = Append(@, f)] /\ y = [x EXCEPT !.block = b]
      OBVIOUS
    <2>3. Fail("OutOfMemory") \/ Continue([v EXCEPT !.ops = Append(@, f), !.block = b, !.ip = 0])
      BY <1>4, <2>1 DEF Jump
    <2>4. Fail("OutOfMemory") \/ Continue([y EXCEPT !.ip = 0])
      BY <2>2, <2>3
    <2>5. Legible([y EXCEPT !.ip = 0])
      BY <2>2, LegibleMoves
    <2>6. QED
      BY <2>4, <2>5, TurnReads
  <1>5. QED
    BY <1>2, <1>3, <1>4

(* The arguments of a native, when it finds their tags. *)
LEMMA TaggedReads ==
  ASSUME NEW v, Legible(v), NEW tags, Len(tags) \in Nat, ArgError(v, tags) = "none"
  PROVE  Len(tags) \in 0 .. Sp(v)
  <1>1. Sp(v) \in Nat
    BY LegibleParts
  <1>2. ~(Sp(v) < Len(tags))
    BY DEF ArgError
  <1>3. QED
    BY <1>1, <1>2

(* It ends with the error of the tags, if there is one. *)
LEMMA ArgErrorReads ==
  ASSUME NEW v, NEW tags, Sp(v) \in Nat, Len(tags) \in Nat
  PROVE  ArgError(v, tags) # "UnknownTag"
  <1>1. Sp(v) < Len(tags) \/ Sp(v) >= Len(tags)
    OBVIOUS
  <1>2. QED
    BY <1>1 DEF ArgError

(* alloc_block, alloc_context and Context::put with values that can be read. *)
LEMMA BlockKnown ==
  ASSUME GoodHeap(heap), KnownHeap(heap), NEW block, IsSequence(block), AllKnown(block), NEW y,
         NEW h, h = OtherBlocks(heap, Append(heap.blocks, block), y)
  PROVE  KnownHeap(h)
  <1>1. IsSequence(heap.blocks) /\ Len(heap.blocks) \in Nat /\ DOMAIN heap.blocks = 1 .. Len(heap.blocks)
    BY HeapShape
  <1>2. PICK x : x = Append(heap.blocks, block)
    OBVIOUS
  <1>3. h = Mem(x, heap.ctxs, y)
    BY <1>2, HeapMoves
  <1>4. h.blocks = x /\ h.ctxs = heap.ctxs
    BY <1>3 DEF Mem
  <1>5. /\ IsSequence(x) /\ Len(x) = Len(heap.blocks) + 1
        /\ \A a \in 1 .. Len(heap.blocks) : x[a] = heap.blocks[a]
        /\ x[Len(heap.blocks) + 1] = block
    BY <1>1, <1>2, Stacked
  <1>6. DOMAIN x = 1 .. Len(heap.blocks) + 1
    BY <1>5, Indexed
  <1>7. \A a \in 1 .. Len(heap.blocks) + 1 : a \in 1 .. Len(heap.blocks) \/ a = Len(heap.blocks) + 1
    BY <1>1
  <1>8. \A a \in DOMAIN h.blocks : AllKnown(h.blocks[a])
    BY <1>1, <1>4, <1>5, <1>6, <1>7 DEF KnownHeap, AllKnown
  <1>9. QED
    BY <1>4, <1>8 DEF KnownHeap, AllKnown

(* A context more, with values that can be read. *)
LEMMA ContextKnown ==
  ASSUME GoodHeap(heap), KnownHeap(heap), NEW ctx,
         \A sym \in DOMAIN ctx.entries : Known(ctx.entries[sym]),
         NEW h, h = WithContext(heap, ctx)
  PROVE  KnownHeap(h) /\ Len(h.ctxs) # 1 /\ Len(heap.ctxs) + 1 # 1
  <1>1. IsSequence(heap.ctxs) /\ Len(heap.ctxs) \in Nat /\ DOMAIN heap.ctxs = 1 .. Len(heap.ctxs)
    BY HeapShape
  <1>2. PICK x, y : x = Append(heap.ctxs, ctx) /\ y = heap.used + ContextWords(ctx.cap)
    OBVIOUS
  <1>3. h = OtherContexts(heap, x, y)
    BY <1>2 DEF WithContext, OtherContexts
  <1>4. h.blocks = heap.blocks /\ h.ctxs = x
    <2>1. h = Mem(heap.blocks, x, y)
      BY <1>3, HeapMoves
    <2>2. QED
      BY <2>1 DEF Mem
  <1>5. /\ IsSequence(x) /\ Len(x) = Len(heap.ctxs) + 1
        /\ \A c \in 1 .. Len(heap.ctxs) : x[c] = heap.ctxs[c]
        /\ x[Len(heap.ctxs) + 1] = ctx
    BY <1>1, <1>2, Stacked
  <1>6. DOMAIN x = 1 .. Len(heap.ctxs) + 1
    BY <1>5, Indexed
  <1>7. \A c \in 1 .. Len(heap.ctxs) + 1 : c \in 1 .. Len(heap.ctxs) \/ c = Len(heap.ctxs) + 1
    BY <1>1
  <1>8. Len(heap.ctxs) # 0
    <2>1. PICK S : heap.ctxs \in Seq(S)
      BY <1>1 DEF IsSequence
    <2>2. QED
      BY <2>1, EmptySeq DEF KnownHeap
  <1>9. ASSUME NEW c \in DOMAIN x, NEW sym \in DOMAIN x[c].entries
        PROVE  Bindable(c, x[c].entries[sym])
    <2>1. CASE c \in 1 .. Len(heap.ctxs)
      BY <1>1, <1>5, <1>9, <2>1 DEF KnownHeap
    <2>2. CASE c = Len(heap.ctxs) + 1
      BY <1>5, <1>9, <2>2 DEF Bindable
    <2>3. QED
      BY <1>6, <1>7, <1>9, <2>1, <2>2
  <1>10. x # << >>
    BY <1>1, <1>5
  <1>11. KnownHeap(h)
    BY <1>4, <1>9, <1>10 DEF KnownHeap
  <1>12. QED
    BY <1>1, <1>4, <1>5, <1>8, <1>11

(* A context has such a value for a symbol. *)
LEMMA EntryKnown ==
  ASSUME GoodHeap(heap), KnownHeap(heap), NEW c \in DOMAIN heap.ctxs, NEW sym, NEW val, Known(val),
         NEW h, h = [heap EXCEPT !.ctxs[c] = Put(@, sym, val)]
  PROVE  KnownHeap(h)
  <1>1. PICK ctx, ctx2, x : /\ ctx = heap.ctxs[c] /\ ctx2 = Put(ctx, sym, val)
                            /\ x = [heap.ctxs EXCEPT ![c] = ctx2]
    OBVIOUS
  <1>2. h = [heap EXCEPT !.ctxs = x]
    BY <1>1
  <1>3. PICK b, s, u : b = heap.blocks /\ s = heap.ctxs /\ u = heap.used
    OBVIOUS
  <1>4. heap = Mem(b, s, u)
    BY <1>3, HeapShape
  <1>5. h.blocks = heap.blocks /\ h.ctxs = x
    <2>1. [Mem(b, s, u) EXCEPT !.ctxs = x] = Mem(b, x, u)
      BY DEF Mem
    <2>2. h = Mem(b, x, u)
      BY <1>2, <1>4, <2>1, Zenon
    <2>3. QED
      BY <1>3, <2>2 DEF Mem
  <1>6. IsSequence(s) /\ DOMAIN s = 1 .. Len(s) /\ s = [j \in DOMAIN s |-> s[j]]
    <2>1. IsSequence(s) /\ DOMAIN s = 1 .. Len(s)
      BY <1>3, HeapShape
    <2>2. PICK S : s \in Seq(S)
      BY <2>1 DEF IsSequence
    <2>3. s \in [1 .. Len(s) -> S]
      BY <2>2, LenProperties
    <2>4. QED
      BY <2>1, <2>3
  <1>7. DOMAIN x = DOMAIN s /\ x[c] = ctx2 /\ \A j \in DOMAIN s : j # c => x[j] = s[j]
    BY <1>1, <1>3, <1>6
  <1>8. ASSUME NEW r \in DOMAIN ctx2.entries
        PROVE  \/ ctx2.entries[r] = val
               \/ r \in DOMAIN ctx.entries /\ ctx2.entries[r] = ctx.entries[r]
    <2>1. ctx = [cap |-> ctx.cap, sealed |-> ctx.sealed, entries |-> ctx.entries]
      BY <1>1 DEF GoodHeap, GoodContext
    <2>2. PICK m, k, f, m2 : /\ m = ctx.entries /\ k = ctx.cap /\ f = ctx.sealed
                             /\ m2 = WithEntry(m, sym, val)
      OBVIOUS
    <2>3. ctx2 = ctx \/ ctx2 = [ctx EXCEPT !.entries = m2]
      BY <1>1, <2>2 DEF Put
    <2>4. [[cap |-> k, sealed |-> f, entries |-> m] EXCEPT !.entries = m2]
            = [cap |-> k, sealed |-> f, entries |-> m2]
      OBVIOUS
    <2>5. ctx2 = ctx \/ ctx2 = [cap |-> k, sealed |-> f, entries |-> m2]
      BY <2>1, <2>2, <2>3, <2>4, Zenon
    <2>6. CASE ctx2 = ctx
      BY <1>8, <2>6
    <2>7. CASE ctx2 = [cap |-> k, sealed |-> f, entries |-> m2]
      <3>1. ctx2.entries = m2
        BY <2>7
      <3>2. r \in DOMAIN m \union {sym} /\ m2[r] = IF r = sym THEN val ELSE m[r]
        BY <1>8, <2>2, <3>1 DEF WithEntry
      <3>3. QED
        BY <2>2, <3>1, <3>2
    <2>8. QED
      BY <2>5, <2>6, <2>7
  <1>9. ASSUME NEW j \in DOMAIN x, NEW r \in DOMAIN x[j].entries
        PROVE  Bindable(j, x[j].entries[r])
    <2>1. CASE j = c
      BY <1>1, <1>3, <1>7, <1>8, <1>9, <2>1 DEF KnownHeap, Bindable
    <2>2. CASE j # c
      BY <1>3, <1>7, <1>9, <2>2 DEF KnownHeap
    <2>3. QED
      BY <2>1, <2>2
  <1>10. x # << >>
    <2>1. c \in DOMAIN x /\ c \notin DOMAIN << >>
      BY <1>3, <1>7
    <2>2. QED
      BY <2>1
  <1>11. QED
    BY <1>5, <1>9, <1>10 DEF KnownHeap

(* get_block::<2> reads a value at an even offset. *)
LEMMA PairIs ==
  ASSUME GoodHeap(heap), NEW a \in DOMAIN heap.blocks, NEW offset \in Nat, offset % 2 = 0,
         HasPair(a, offset)
  PROVE  \E j \in DOMAIN heap.blocks[a] : PairAt(a, offset) = heap.blocks[a][j]
  <1>1. PICK q : q = offset \div 2
    OBVIOUS
  <1>2. /\ q \in Nat /\ (offset + 1) \div 2 = q /\ offset % 2 = 0 /\ (offset + 1) % 2 = 1
        /\ offset = 2 * q
    BY <1>1
  <1>3. PICK block, x : block = heap.blocks[a] /\ x = block[q + 1]
    OBVIOUS
  <1>4. BlockAt(a) = block
    BY <1>3 DEF BlockAt
  <1>5. q + 1 \in DOMAIN block
    <2>1. Len(block) \in Nat /\ DOMAIN block = 1 .. Len(block)
      BY <1>3, HeapShape
    <2>2. 2 * q + 2 =< 2 * Len(block)
      BY <1>2, <1>4 DEF HasPair
    <2>3. q + 1 \in 1 .. Len(block)
      BY <1>2, <2>1, <2>2
    <2>4. QED
      BY <2>1, <2>3
  <1>6. Good(heap, x)
    BY <1>3, <1>5 DEF GoodHeap, GoodBlock
  <1>7. WordOf(a, offset) = x[1] /\ WordOf(a, offset + 1) = x[2]
    <2>1. PICK other : other = offset + 1
      OBVIOUS
    <2>2. (offset \div 2) + 1 = q + 1 /\ (offset % 2) + 1 = 1
      BY <1>1, <1>2
    <2>3. (other \div 2) + 1 = q + 1 /\ (other % 2) + 1 = 2
      BY <1>2, <2>1
    <2>4. WordOf(a, offset) = block[q + 1][1]
      BY <1>4, <2>2, Zenon DEF WordOf
    <2>5. WordOf(a, other) = block[q + 1][2]
      BY <1>4, <2>3, Zenon DEF WordOf
    <2>6. QED
      BY <1>3, <2>1, <2>4, <2>5
  <1>8. x = <<x[1], x[2]>>
    BY <1>6 DEF Good, Cells
  <1>9. PairAt(a, offset) = x
    BY <1>7, <1>8 DEF PairAt
  <1>10. QED
    BY <1>3, <1>5, <1>9

(* It can be read, then. *)
LEMMA PairKnown ==
  ASSUME GoodHeap(heap), KnownHeap(heap), NEW a,
         NEW offset \in Nat, offset % 2 = 0, HasPair(a, offset)
  PROVE  Good(heap, PairAt(a, offset)) /\ Known(PairAt(a, offset))
  <1>1. a \in DOMAIN heap.blocks
    <2> SUFFICES ASSUME a \notin DOMAIN heap.blocks PROVE FALSE
      OBVIOUS
    <2>1. Len(BlockAt(a)) = 0
      BY DEF BlockAt
    <2>2. QED
      BY <2>1 DEF HasPair
  <1>2. PICK j \in DOMAIN heap.blocks[a] : PairAt(a, offset) = heap.blocks[a][j]
    BY <1>1, PairIs
  <1>3. Good(heap, heap.blocks[a][j]) /\ Known(heap.blocks[a][j])
    BY <1>1 DEF GoodHeap, GoodBlock, KnownHeap, AllKnown
  <1>4. QED
    BY <1>2, <1>3

(* What resolve finds can be read, or is a native function. *)
Bindables == {val \in GoodCells : Known(val) \/ val[1] = NATIVE_FN}

(* It finds such a value for one that can be read. *)
LEMMA ResolveKnown ==
  ASSUME GoodHeap(heap), KnownHeap(heap), NEW env, GoodEnv(env), NEW val, Good(heap, val), Known(val)
  PROVE  resolve(env, val) \in AnswersIn(Bindables)
  <1> DEFINE G == Bindables
             D == DOMAIN heap.ctxs
  <1>1. G \in SUBSET Cells /\ val \in G /\ \A w \in G : w[1] = CONTEXT => w[2] \in D
    BY DEF Bindables, GoodCells, Good
  <1>2. \A c \in DOMAIN heap.ctxs : \A sym \in DOMAIN heap.ctxs[c].entries :
          heap.ctxs[c].entries[sym] \in G
    BY ZenonT(30) DEF GoodHeap, GoodContext, GoodCells, Good, KnownHeap, Bindable, Bindables
  <1> HIDE DEF G, D
  <1>3. ASSUME NEW e \in Seq(D), NEW sym PROVE find_word(e, sym) \in AnswersIn(G)
    <2>1. IsSequence(e)
      BY DEF IsSequence
    <2>2. QED
      BY <1>1, <1>2, <2>1, FindWithin
  <1>4. env \in Seq(D)
    <2>1. /\ env \in Seq(Range(env)) /\ Len(env) \in Nat /\ DOMAIN env = 1 .. Len(env)
      BY OwnRange, Indexed DEF GoodEnv
    <2>2. env \in [1 .. Len(env) -> Range(env)]
      BY <2>1, LenProperties
    <2>3. env \in [1 .. Len(env) -> D]
      BY <2>1, <2>2 DEF GoodEnv, D
    <2>4. QED
      BY <2>1, <2>3, SeqDef
  <1>5. Closed(G, D) /\ \A a : Len(BlockAt(a)) \in Nat
    BY <1>1, <1>3, BlockShape DEF Closed
  <1>6. resolve(env, val) \in AnswersIn(G)
    BY <1>1, <1>4, <1>5, FewSymbols, ResolveWithin
  <1>7. QED
    BY <1>6 DEF G

(* to_value reads a value that is known, to whatever depth. *)
LEMMA KnownReadable ==
  ASSUME GoodHeap(heap), KnownHeap(heap), NEW val, Good(heap, val), Known(val)
  PROVE  Readable(val)
  <1> DEFINE depth == Len(heap.blocks) + Len(heap.ctxs)
             Step(n, r) == [w \in Cells |->
                /\ w[1] \in KnownTags
                /\ n > 0 /\ w[1] \in {BLOCK, PATH} =>
                     \A i \in DOMAIN BlockAt(w[2]) : r[BlockAt(w[2])[i]]
                /\ n > 0 /\ w[1] = CONTEXT =>
                     \A s \in DOMAIN heap.ctxs[w[2]].entries : r[heap.ctxs[w[2]].entries[s]]]
             Body(g) == [n \in 0 .. depth |->
                [w \in Cells |->
                   /\ w[1] \in KnownTags
                   /\ n > 0 /\ w[1] \in {BLOCK, PATH} =>
                        \A i \in DOMAIN BlockAt(w[2]) : g[n - 1][BlockAt(w[2])[i]]
                   /\ n > 0 /\ w[1] = CONTEXT =>
                        \A s \in DOMAIN heap.ctxs[w[2]].entries : g[n - 1][heap.ctxs[w[2]].entries[s]]]]
             reads == CHOOSE g : g = Body(g)
             K == {w \in Cells : Good(heap, w) /\ Known(w)}
             T == {r \in [Cells -> BOOLEAN] : \A w \in K : r[w]}
  <1>1. Readable(val) = reads[depth][val]
    BY DEF Readable
  <1>2. depth \in Nat
    <2>1. PICK m, n : m = Len(heap.blocks) /\ n = Len(heap.ctxs)
      OBVIOUS
    <2>2. m \in Nat /\ n \in Nat /\ depth = m + n
      BY <2>1, HeapShape
    <2> HIDE DEF depth
    <2>3. QED
      BY <2>2
  <1>3. ASSUME NEW w \in K, w[1] \in {BLOCK, PATH}, NEW j \in DOMAIN BlockAt(w[2])
        PROVE  BlockAt(w[2])[j] \in K
    <2>1. CASE w[2] \in DOMAIN heap.blocks
      <3>1. BlockAt(w[2]) = heap.blocks[w[2]]
        BY <2>1 DEF BlockAt
      <3>2. Good(heap, heap.blocks[w[2]][j]) /\ Known(heap.blocks[w[2]][j])
        BY <1>3, <2>1, <3>1 DEF GoodHeap, GoodBlock, KnownHeap, AllKnown
      <3>3. QED
        BY <3>1, <3>2 DEF Good
    <2>2. CASE w[2] \notin DOMAIN heap.blocks
      <3>1. BlockAt(w[2]) = << >>
        BY <2>2 DEF BlockAt
      <3>2. QED
        BY <1>3, <3>1
    <2>3. QED
      BY <2>1, <2>2
  <1>4. ASSUME NEW w \in K, w[1] = CONTEXT, NEW sym \in DOMAIN heap.ctxs[w[2]].entries
        PROVE  heap.ctxs[w[2]].entries[sym] \in K
    <2>1. w[2] \in DOMAIN heap.ctxs /\ w[2] # 1
      BY <1>4 DEF Good, Known
    <2>2. Good(heap, heap.ctxs[w[2]].entries[sym]) /\ Bindable(w[2], heap.ctxs[w[2]].entries[sym])
      BY <1>4, <2>1 DEF GoodHeap, GoodContext, KnownHeap
    <2>3. QED
      BY <2>1, <2>2 DEF Good, Bindable
  <1>5. \A w \in K : w \in Cells /\ w[1] \in KnownTags
    BY DEF Known
  <1>6. val \in K
    BY DEF Good
  <1> HIDE DEF K
  <1>7. ASSUME NEW n \in 0 .. depth, NEW r, n = 0 \/ r \in T PROVE Step(n, r) \in T
    <2>1. Step(n, r) \in [Cells -> BOOLEAN]
      OBVIOUS
    <2>2. ASSUME NEW w \in K PROVE Step(n, r)[w]
      <3>1. n > 0 /\ w[1] \in {BLOCK, PATH} => \A i \in DOMAIN BlockAt(w[2]) : r[BlockAt(w[2])[i]]
        BY <1>3, <1>7
      <3>2. n > 0 /\ w[1] = CONTEXT =>
              \A s \in DOMAIN heap.ctxs[w[2]].entries : r[heap.ctxs[w[2]].entries[s]]
        BY <1>4, <1>7
      <3>3. QED
        BY <1>5, <3>1, <3>2
    <2> HIDE DEF Step
    <2>3. QED
      BY <2>1, <2>2
  <1>8. ASSUME NEW g
        PROVE  Body(g)[0] = Step(0, << >>) /\ \A n \in 1 .. depth : Body(g)[n] = Step(n, g[n - 1])
    <2>1. Body(g)[0] = Step(0, << >>)
      BY <1>2
    <2>2. ASSUME NEW n \in 1 .. depth PROVE Body(g)[n] = Step(n, g[n - 1])
      <3> HIDE DEF depth
      <3>1. n \in 0 .. depth
        BY <1>2
      <3>2. QED
        BY ONLY <3>1
    <2>3. QED
      BY <2>1, <2>2
  <1>9. \A g : Body(g) = [n \in 0 .. depth |-> Body(g)[n]]
    OBVIOUS
  <1> DEFINE base == Step(0, << >>)
  <1> HIDE DEF T, Step, depth
  <1>10. base \in T
    <2>1. 0 \in 0 .. depth
      BY <1>2
    <2>2. QED
      BY <1>7, <2>1
  <1> HIDE DEF base, T, Step, Body, depth
  <1>11. \E g : g = Body(g)
    <2> DEFINE F == [n \in 1 .. depth |-> [r \in T |-> Step(n, r)]]
    <2>1. F \in [1 .. depth -> [T -> T]]
      BY <1>2, <1>7
    <2>2. \A n \in 1 .. depth : \A r \in T : F[n][r] = Step(n, r)
      OBVIOUS
    <2> HIDE DEF F
    <2>3. \E g : Iterates(g, depth, T, base, F)
      BY <1>2, <1>10, <2>1, Iteration
    <2>4. PICK g \in [0 .. depth -> T] :
                 g[0] = base /\ \A n \in 1 .. depth : g[n] = F[n][g[n - 1]]
      BY <2>3 DEF Iterates
    <2>5. \A n \in 0 .. depth : g[n] = Body(g)[n]
      <3>1. \A n \in 1 .. depth : g[n - 1] \in T
        BY <1>2
      <3>2. \A n \in 1 .. depth : g[n] = Body(g)[n]
        BY <1>8, <2>2, <2>4, <3>1
      <3>3. \A n \in 0 .. depth : n = 0 \/ n \in 1 .. depth
        BY <1>2
      <3>4. g[0] = Body(g)[0]
        BY <1>8, <2>4 DEF base
      <3>5. QED
        BY <3>2, <3>3, <3>4
    <2>6. g = [n \in 0 .. depth |-> g[n]]
      OBVIOUS
    <2>7. g = Body(g)
      BY <1>9, <2>5, <2>6
    <2>8. QED
      BY <2>7
  <1>12. reads = Body(reads)
    BY <1>11
  <1> HIDE DEF reads
  <1>13. \A n \in 0 .. depth : reads[n] \in T
    <2>1. reads[0] \in T
      BY <1>8, <1>10, <1>12 DEF base
    <2>2. \A n \in 1 .. depth : reads[n - 1] \in T => reads[n] \in T
      <3>1. \A n \in 1 .. depth : n \in 0 .. depth
        BY <1>2
      <3>2. QED
        BY <1>7, <1>8, <1>12, <3>1
    <2>3. QED
      BY <1>2, <2>1, <2>2, Everywhere
  <1>14. reads[depth] \in T
    BY <1>2, <1>13
  <1>15. reads[depth][val]
    BY <1>6, <1>14 DEF T
  <1>16. QED
    BY <1>1, <1>15

-----------------------------------------------------------------------------
(* What one turn leaves can be read. *)

(* The values that operations make. *)
LEMMA MadeKnown ==
  ASSUME NEW x
  PROVE  /\ \A tag \in {NONE, INT, BLOCK, INLINE_STRING, FUNC, BOOL} : Known(<<tag, x>>)
         /\ Known(Bool(x))
         /\ x # 1 => Known(<<CONTEXT, x>>)
  <1>1. \A tag : <<tag, x>>[1] = tag /\ <<tag, x>>[2] = x
    OBVIOUS
  <1>2. /\ \A tag \in {NONE, INT, BLOCK, INLINE_STRING, FUNC, BOOL} : tag \in KnownTags /\ tag # CONTEXT
        /\ CONTEXT \in KnownTags
    BY DEF KnownTags, NONE, INT, BLOCK, INLINE_STRING, FUNC, BOOL, CONTEXT
  <1>3. Bool(x)[1] = BOOL
    BY DEF Bool
  <1>4. QED
    BY <1>1, <1>2, <1>3 DEF Known

(* The frame on top goes. *)
LEMMA PopReads ==
  ASSUME Fit, Reads
  PROVE  /\ Legible(vm) /\ Legible(PopFrame(vm)) /\ KnownHeap(heap) /\ GoodHeap(heap)
         /\ PopFrame(vm).stack = vm.stack /\ PopFrame(vm).env = vm.env
         /\ vm.stack # << >> => Good(heap, Last(vm.stack))
         /\ GoodEnv(vm.env)
  <1>1. PICK b, i, s, o, e, n, k : /\ vm = Machine(b, i, s, o, e) /\ n = Len(s) /\ k = 0
                                   /\ Sound(heap, s, o, e, n, k)
    BY DEF Fit, Whole
  <1>2. Legible(PopFrame(vm))
    BY LegibleMoves DEF PopFrame, Reads
  <1>3. PICK q : q = Front(vm.ops)
    OBVIOUS
  <1>4. PopFrame(vm) = Machine(b, i, s, q, e)
    BY <1>1, <1>3 DEF PopFrame, Machine
  <1>5. vm.stack = s /\ PopFrame(vm).stack = s /\ vm.env = e /\ PopFrame(vm).env = e
    BY <1>1, <1>4, MachineParts
  <1>6. s # << >> => Good(heap, Last(s))
    <2>1. IsSequence(s) /\ Len(s) \in Nat /\ \A j \in 1 .. Len(s) : Good(heap, s[j])
      BY <1>1, SoundShape DEF Sound, Held
    <2>2. s # << >> => Len(s) # 0
      BY <2>1, EmptySeq DEF IsSequence
    <2>3. QED
      BY <2>1, <2>2 DEF Last
  <1>7. GoodEnv(e)
    <2>1. IsSequence(e) /\ \A c \in 1 .. Len(e) : e[c] \in DOMAIN heap.ctxs
      BY <1>1 DEF Sound, Held
    <2>2. DOMAIN e = 1 .. Len(e)
      BY <2>1, Indexed
    <2>3. QED
      BY <2>1, <2>2 DEF GoodEnv
  <1>8. QED
    BY <1>2, <1>5, <1>6, <1>7 DEF Fit, Reads

(* The natives that leave the memory as it is. *)
LEMMA PlainNativesRead ==
  ASSUME Fit, Reads, add \/ lt \/ func_do \/ either \/ reduce \/ is_block \/ print
  PROVE  ReadsNext
  <1>1. heap' = heap /\ Running
    BY DEF add, lt, func_do, either, reduce, is_block, print, Calls, Run
  <1>2. PICK v : v = PopFrame(vm)
    OBVIOUS
  <1>3. /\ Legible(vm) /\ Legible(v) /\ KnownHeap(heap') /\ Sp(v) \in Nat
        /\ v.stack = vm.stack /\ (v.stack # << >> => 1 \in 0 .. Sp(v) /\ Known(Last(v.stack)))
    BY <1>1, <1>2, PopReads, LegibleParts
  <1>4. ASSUME NEW tags, Len(tags) \in Nat, Fail(ArgError(v, tags)) PROVE ReadsNext
    BY <1>1, <1>3, <1>4, ArgErrorReads, TurnReads
  <1>5. ASSUME NEW tags, Len(tags) \in Nat, ArgError(v, tags) = "none" PROVE Len(tags) \in 0 .. Sp(v)
    BY <1>3, <1>5, TaggedReads
  <1>6. ASSUME NEW n \in 0 .. Sp(v), NEW b, NEW op, Jump([v EXCEPT !.stack = Below(v, n)], b, op)
        PROVE  ReadsNext
    <2>1. PICK w : w = [v EXCEPT !.stack = Below(v, n)]
      OBVIOUS
    <2>2. Legible(w)
      <3>1. Legible([v EXCEPT !.stack = Below(v, n)])
        BY <1>3, LegibleBelow
      <3>2. QED
        BY <2>1, <3>1, Zenon
    <2>3. Jump(w, b, op)
      BY <1>6, <2>1, Zenon
    <2>4. QED
      BY <1>1, <1>3, <2>2, <2>3, PushReads
  <1>7. CASE add
    <2>1. PICK tags : tags = <<INT, INT>>
      OBVIOUS
    <2>2. \/ Fail(ArgError(v, tags))
          \/ ArgError(v, tags) = "none" /\ Fail("panic")
          \/ ArgError(v, tags) = "none" /\ \E sum : Return(v, 2, <<INT, sum>>)
      BY <1>2, <1>7, <2>1 DEF add
    <2>3. Len(tags) = 2 /\ Len(tags) \in Nat
      BY <2>1
    <2>4. ASSUME NEW sum, Return(v, 2, <<INT, sum>>), 2 \in 0 .. Sp(v) PROVE ReadsNext
      BY <1>1, <1>3, <2>4, MadeKnown, ReturnReads
    <2>5. QED
      BY <1>1, <1>3, <1>4, <1>5, <2>2, <2>3, <2>4, TurnReads
  <1>8. CASE lt
    <2>1. PICK tags : tags = <<INT, INT>>
      OBVIOUS
    <2>2. \/ Fail(ArgError(v, tags))
          \/ ArgError(v, tags) = "none" /\ \E x : Return(v, 2, Bool(x))
      BY <1>2, <1>8, <2>1 DEF lt
    <2>3. Len(tags) = 2 /\ Len(tags) \in Nat
      BY <2>1
    <2>4. ASSUME NEW x, Return(v, 2, Bool(x)), 2 \in 0 .. Sp(v) PROVE ReadsNext
      BY <1>1, <1>3, <2>4, MadeKnown, ReturnReads
    <2>5. QED
      BY <1>4, <1>5, <2>2, <2>3, <2>4
  <1>9. CASE func_do
    <2>1. PICK tags : tags = <<BLOCK>>
      OBVIOUS
    <2>2. \/ Fail(ArgError(v, tags))
          \/ ArgError(v, tags) = "none" /\ \E b, op : Jump([v EXCEPT !.stack = Below(v, 1)], b, op)
      BY <1>2, <1>9, <2>1 DEF func_do
    <2>3. Len(tags) = 1 /\ Len(tags) \in Nat
      BY <2>1
    <2>4. QED
      BY <1>4, <1>5, <1>6, <2>2, <2>3
  <1>10. CASE either
    <2>1. PICK tags : tags = <<BOOL, BLOCK, BLOCK>>
      OBVIOUS
    <2>2. \/ Fail(ArgError(v, tags))
          \/ ArgError(v, tags) = "none" /\ \E b, op : Jump([v EXCEPT !.stack = Below(v, 3)], b, op)
      BY <1>2, <1>10, <2>1 DEF either
    <2>3. Len(tags) = 3 /\ Len(tags) \in Nat
      BY <2>1
    <2>4. QED
      BY <1>4, <1>5, <1>6, <2>2, <2>3
  <1>11. CASE reduce
    <2>1. \/ Fail("StackUnderflow")
          \/ Continue(v)
          \/ v.stack # << >> /\ \E b, op : Jump([v EXCEPT !.stack = Below(v, 1)], b, op)
      BY <1>2, <1>11 DEF reduce
    <2>2. QED
      BY <1>1, <1>3, <1>6, <2>1, TurnReads
  <1>12. CASE is_block
    <2>1. \/ Fail("StackUnderflow")
          \/ v.stack # << >> /\ \E x : Return(v, 1, Bool(x))
      BY <1>2, <1>12 DEF is_block
    <2>2. ASSUME NEW x, v.stack # << >>, Return(v, 1, Bool(x)) PROVE ReadsNext
      BY <1>1, <1>3, <2>2, MadeKnown, ReturnReads
    <2>3. QED
      BY <1>1, <1>3, <2>1, <2>2, TurnReads
  <1>13. CASE print
    <2>1. v.stack # << >> => Readable(Last(v.stack))
      BY <1>2, <1>3, PopReads, KnownReadable
    <2>2. \/ Fail("StackUnderflow")
          \/ v.stack # << >> /\ Continue([v EXCEPT !.stack = Front(v.stack)])
      BY <1>2, <1>13, <2>1 DEF print
    <2>3. Front(v.stack) = Below(v, 1)
      BY DEF Front, Below, Sp
    <2>4. v.stack # << >> => Legible([v EXCEPT !.stack = Below(v, 1)])
      BY <1>3, LegibleBelow
    <2>5. ASSUME v.stack # << >>, Continue([v EXCEPT !.stack = Front(v.stack)]) PROVE ReadsNext
      <3>1. PICK w : w = [v EXCEPT !.stack = Front(v.stack)]
        OBVIOUS
      <3>2. Legible(w) /\ Continue(w)
        BY <2>3, <2>4, <2>5, <3>1, Zenon
      <3>3. QED
        BY <1>1, <1>3, <3>2, TurnReads
    <2>6. QED
      BY <1>1, <1>3, <2>2, <2>5, TurnReads
  <1>14. QED
    BY <1>7, <1>8, <1>9, <1>10, <1>11, <1>12, <1>13

(* Those that make a block. *)
LEMMA BlockNativesRead ==
  ASSUME Fit, Reads, func \/ form
  PROVE  ReadsNext
  <1>1. Running
    BY DEF func, form, Calls, Run
  <1>2. PICK v, h : v = PopFrame(vm) /\ h = heap'
    OBVIOUS
  <1>3. /\ Legible(vm) /\ Legible(v) /\ KnownHeap(heap) /\ GoodHeap(heap) /\ Sp(v) \in Nat
        /\ v.stack = vm.stack /\ (v.stack # << >> => 1 \in 0 .. Sp(v) /\ Known(Last(v.stack)))
    BY <1>2, PopReads, LegibleParts
  <1>4. CASE func
    <2>1. PICK tags, a, b, desc, y :
            /\ tags = <<BLOCK, BLOCK>> /\ a = Arg(v, 2, 1)[2] /\ b = Arg(v, 2, 2)
            /\ desc = <<<<INT, 2 * Len(BlockAt(a))>>, <<BLOCK, a>>, b>>
            /\ y = heap.used + BlockWords(desc)
      OBVIOUS
    <2>2. \/ h = heap /\ Fail(ArgError(v, tags))
          \/ h = heap /\ Fail("OutOfMemory")
          \/ /\ ArgError(v, tags) = "none"
             /\ h = WithBlock(heap, desc)
             /\ Return(v, 2, <<FUNC, Len(h.blocks)>>)
      BY <1>2, <1>4, <2>1 DEF func
    <2>3. Len(tags) = 2 /\ Len(tags) \in Nat
      BY <2>1
    <2>4. CASE h = heap /\ (Fail(ArgError(v, tags)) \/ Fail("OutOfMemory"))
      BY <1>1, <1>2, <1>3, <2>3, <2>4, ArgErrorReads, TurnReads
    <2>5. CASE /\ ArgError(v, tags) = "none"
               /\ h = WithBlock(heap, desc)
               /\ Return(v, 2, <<FUNC, Len(h.blocks)>>)
      <3>1. 2 \in 0 .. Sp(v)
        BY <1>3, <2>3, <2>5, TaggedReads
      <3>2. Known(b)
        <4>1. PICK n : n = 2
          OBVIOUS
        <4>2. n \in 1 .. n /\ n \in 0 .. Sp(v) /\ b = Arg(v, n, n)
          BY <2>1, <3>1, <4>1
        <4>3. QED
          BY <1>3, <4>2, LegibleBelow
      <3>3. IsSequence(desc) /\ AllKnown(desc)
        <4>1. PICK p, q : p = <<INT, 2 * Len(BlockAt(a))>> /\ q = <<BLOCK, a>>
          OBVIOUS
        <4>2. Known(p) /\ Known(q)
          BY <4>1, MadeKnown
        <4>3. desc = <<p, q, b>>
          BY <2>1, <4>1
        <4>4. desc \in Seq({p, q, b}) /\ \A j \in DOMAIN desc : desc[j] \in {p, q, b}
          BY <4>3
        <4>5. QED
          BY <3>2, <4>2, <4>4 DEF IsSequence, AllKnown
      <3>4. h = OtherBlocks(heap, Append(heap.blocks, desc), y)
        BY <2>1, <2>5 DEF WithBlock, OtherBlocks
      <3>5. KnownHeap(h)
        BY <1>3, <3>3, <3>4, BlockKnown
      <3>6. QED
        BY <1>1, <1>2, <1>3, <2>5, <3>1, <3>5, MadeKnown, ReturnReads
    <2>6. QED
      BY <2>2, <2>4, <2>5
  <1>5. CASE form
    <2>1. v.stack # << >> => Readable(Last(v.stack))
      BY <1>2, <1>3, PopReads, KnownReadable
    <2>2. \/ h = heap /\ (Fail("StackUnderflow") \/ Fail("OutOfMemory"))
          \/ /\ v.stack # << >>
             /\ \E y : /\ h = OtherBlocks(heap, Append(heap.blocks, << >>), y)
                       /\ Return(v, 1, <<INLINE_STRING, Len(h.blocks)>>)
      BY <1>2, <1>5, <2>1 DEF form, OtherBlocks
    <2>3. CASE h = heap /\ (Fail("StackUnderflow") \/ Fail("OutOfMemory"))
      BY <1>1, <1>2, <1>3, <2>3, TurnReads
    <2>4. ASSUME v.stack # << >>, NEW y, h = OtherBlocks(heap, Append(heap.blocks, << >>), y),
                 Return(v, 1, <<INLINE_STRING, Len(h.blocks)>>)
          PROVE  ReadsNext
      <3>1. PICK block : block = << >>
        OBVIOUS
      <3>2. IsSequence(block) /\ AllKnown(block)
        <4>1. block \in Seq({}) /\ DOMAIN block = {}
          BY <3>1
        <4>2. QED
          BY <4>1 DEF IsSequence, AllKnown
      <3>3. KnownHeap(h)
        BY <1>3, <2>4, <3>1, <3>2, BlockKnown
      <3>4. QED
        BY <1>1, <1>2, <1>3, <2>4, <3>3, MadeKnown, ReturnReads
    <2>5. QED
      BY <2>2, <2>3, <2>4
  <1>6. QED
    BY <1>4, <1>5

(* A context less. *)
LEMMA ScopeLeft ==
  ASSUME NEW v, Legible(v)
  PROVE  Legible([v EXCEPT !.env = Front(@)])
  <1>1. PICK e, x, n : e = v.env /\ x = Front(e) /\ n = Len(e) - 1
    OBVIOUS
  <1>2. IsSequence(e) /\ OwnScopes(e) /\ Len(e) \in Nat /\ DOMAIN e = 1 .. Len(e)
    BY <1>1, LegibleParts, Indexed
  <1>3. x = SubSeq(e, 1, n)
    BY <1>1 DEF Front
  <1>4. IsSequence(x) /\ \A j \in DOMAIN x : j \in DOMAIN e /\ x[j] = e[j]
    <2>1. CASE n \in 0 .. Len(e)
      <3>1. IsSequence(x) /\ Len(x) = n /\ \A j \in 1 .. n : x[j] = e[j]
        BY <1>2, <1>3, <2>1, Truncated
      <3>2. DOMAIN x = 1 .. n
        BY <3>1, Indexed
      <3>3. QED
        BY <1>1, <1>2, <3>1, <3>2
    <2>2. CASE n \notin 0 .. Len(e)
      <3>1. n = -1
        BY <1>1, <1>2, <2>2
      <3>2. x = << >>
        <4>1. 1 \in Int /\ n \in Int /\ n < 1
          BY <3>1
        <4>2. QED
          BY <1>3, <4>1, SubSeqEmpty
      <3>3. << >> \in Seq({}) /\ DOMAIN << >> = {}
        OBVIOUS
      <3>4. QED
        BY <3>2, <3>3 DEF IsSequence
    <2>3. QED
      BY <2>1, <2>2
  <1>5. OwnScopes(x)
    BY <1>2, <1>4 DEF OwnScopes
  <1>6. Legible([v EXCEPT !.env = x])
    BY <1>4, <1>5, LegibleMoves
  <1>7. QED
    BY <1>1, <1>6

(* Other values, other contexts and other frames at once. *)
LEMMA LegibleNext ==
  ASSUME NEW v, Legible(v), NEW x, IsSequence(x), AllKnown(x), NEW y, IsSequence(y), OwnScopes(y), NEW z
  PROVE  /\ Legible([v EXCEPT !.stack = x, !.env = y])
         /\ Legible([v EXCEPT !.env = y, !.stack = x])
         /\ Legible([v EXCEPT !.stack = x, !.env = y, !.ops = z])
  <1>1. PICK b, i, s, o, e : v = Machine(b, i, s, o, e)
    BY DEF Legible
  <1>2. Legible(Machine(b, i, x, o, y)) /\ Legible(Machine(b, i, x, z, y))
    BY DEF Legible
  <1>3. /\ [Machine(b, i, s, o, e) EXCEPT !.stack = x, !.env = y] = Machine(b, i, x, o, y)
        /\ [Machine(b, i, s, o, e) EXCEPT !.env = y, !.stack = x] = Machine(b, i, x, o, y)
    <2>1. /\ [Machine(b, i, s, o, e) EXCEPT !.stack = x] = Machine(b, i, x, o, e)
          /\ [Machine(b, i, s, o, e) EXCEPT !.env = y] = Machine(b, i, s, o, y)
          /\ [Machine(b, i, x, o, e) EXCEPT !.env = y] = Machine(b, i, x, o, y)
          /\ [Machine(b, i, s, o, y) EXCEPT !.stack = x] = Machine(b, i, x, o, y)
      BY MachineParts
    <2>2. QED
      BY <2>1, Zenon
  <1>4. [Machine(b, i, s, o, e) EXCEPT !.stack = x, !.env = y, !.ops = z] = Machine(b, i, x, z, y)
    <2>1. [Machine(b, i, x, o, y) EXCEPT !.ops = z] = Machine(b, i, x, z, y)
      BY MachineParts
    <2>2. [Machine(b, i, s, o, e) EXCEPT !.stack = x, !.env = y, !.ops = z]
            = [[Machine(b, i, s, o, e) EXCEPT !.stack = x, !.env = y] EXCEPT !.ops = z]
      OBVIOUS
    <2>3. QED
      BY <1>3, <2>1, <2>2, Zenon
  <1>5. QED
    BY <1>1, <1>2, <1>3, <1>4, Zenon

(* A context more. *)
LEMMA ScopesEntered ==
  ASSUME NEW e, IsSequence(e), OwnScopes(e), NEW c, c # 1
  PROVE  IsSequence(Append(e, c)) /\ OwnScopes(Append(e, c))
  <1>1. PICK x : x = Append(e, c)
    OBVIOUS
  <1>2. Len(e) \in Nat /\ DOMAIN e = 1 .. Len(e)
    BY Indexed
  <1>3. /\ IsSequence(x) /\ Len(x) = Len(e) + 1 /\ x[Len(e) + 1] = c
        /\ \A j \in 1 .. Len(e) : x[j] = e[j]
    BY <1>1, Stacked
  <1>4. DOMAIN x = 1 .. Len(e) + 1
    BY <1>3, Indexed
  <1>5. \A j \in 1 .. Len(e) + 1 : j \in 1 .. Len(e) \/ j = Len(e) + 1
    BY <1>2
  <1>6. OwnScopes(x)
    BY <1>2, <1>3, <1>4, <1>5 DEF OwnScopes
  <1>7. QED
    BY <1>1, <1>3, <1>6

(* context *)
LEMMA ContextReads ==
  ASSUME Fit, Reads, context
  PROVE  ReadsNext
  <1>1. Running
    BY DEF context, Calls, Run
  <1>2. PICK v, h, tags, ctx, c, f, x, y, z, a :
          /\ v = PopFrame(vm) /\ h = heap' /\ tags = <<BLOCK>>
          /\ ctx = EmptyContext(ContextSize) /\ c = Len(heap.ctxs) + 1
          /\ f = Frame("CONTEXT", 0, Sp(v) - 1, 1)
          /\ x = Below(v, 1) /\ y = Append(v.env, c) /\ z = Append(v.ops, f)
          /\ a = Arg(v, 1, 1)[2]
    OBVIOUS
  <1>3. Legible(vm) /\ Legible(v) /\ KnownHeap(heap) /\ GoodHeap(heap) /\ Sp(v) \in Nat
    BY <1>2, PopReads, LegibleParts
  <1>4. \/ h = heap /\ Fail(ArgError(v, tags))
        \/ h = heap /\ Fail("OutOfMemory")
        \/ /\ ArgError(v, tags) = "none" /\ h = WithContext(heap, ctx)
           /\ \/ Fail("OutOfMemory")
              \/ Jump([v EXCEPT !.stack = x, !.env = y, !.ops = z], a, "LEAVE_BLOCK")
    BY <1>2 DEF context
  <1>5. Len(tags) = 1 /\ Len(tags) \in Nat
    BY <1>2
  <1>6. CASE h = heap /\ (Fail(ArgError(v, tags)) \/ Fail("OutOfMemory"))
    BY <1>1, <1>2, <1>3, <1>5, <1>6, ArgErrorReads, TurnReads
  <1>7. h = WithContext(heap, ctx) => KnownHeap(h) /\ c # 1
    <2>1. DOMAIN ctx.entries = {}
      BY <1>2, EmptyGood, CapsAssumption
    <2>2. QED
      BY <1>2, <1>3, <2>1, ContextKnown
  <1>8. ASSUME h = WithContext(heap, ctx), Fail("OutOfMemory") PROVE ReadsNext
    BY <1>1, <1>2, <1>3, <1>7, <1>8, TurnReads
  <1>9. ASSUME ArgError(v, tags) = "none", h = WithContext(heap, ctx),
               Jump([v EXCEPT !.stack = x, !.env = y, !.ops = z], a, "LEAVE_BLOCK")
        PROVE  ReadsNext
    <2>1. PICK w : w = [v EXCEPT !.stack = x, !.env = y, !.ops = z]
      OBVIOUS
    <2>2. 1 \in 0 .. Sp(v)
      BY <1>3, <1>5, <1>9, TaggedReads
    <2>3. IsSequence(x) /\ AllKnown(x)
      BY <1>2, <1>3, <2>2, LegibleBelow
    <2>4. IsSequence(y) /\ OwnScopes(y)
      BY <1>2, <1>3, <1>7, <1>9, LegibleParts, ScopesEntered
    <2>5. Legible([v EXCEPT !.stack = x, !.env = y, !.ops = z])
      BY <1>3, <2>3, <2>4, LegibleNext
    <2>6. Legible(w) /\ Jump(w, a, "LEAVE_BLOCK")
      BY <1>9, <2>1, <2>5, Zenon
    <2>7. QED
      BY <1>1, <1>2, <1>3, <1>7, <1>9, <2>6, PushReads
  <1>10. QED
    BY <1>4, <1>6, <1>8, <1>9

(* The context of a loop has the value of its word. *)
LEMMA LoopKnown ==
  ASSUME NEW sym, NEW val, Known(val), NEW ctx, ctx = Seal(Put(EmptyContext(1), sym, val))
  PROVE  \A r \in DOMAIN ctx.entries : Known(ctx.entries[r])
  <1>1. PICK none, m : none = << >> /\ m = WithEntry(none, sym, val)
    OBVIOUS
  <1>2. PICK x : x = [cap |-> 1, sealed |-> FALSE, entries |-> none]
    OBVIOUS
  <1>3. EmptyContext(1) = x
    BY <1>1, <1>2 DEF EmptyContext
  <1>4. PICK k, f, g : k = 1 /\ f = FALSE /\ g = TRUE
    OBVIOUS
  <1>5. \/ ctx = [cap |-> k, sealed |-> g, entries |-> none]
        \/ ctx = [cap |-> k, sealed |-> g, entries |-> m]
    <2>1. x.entries = none /\ x = [cap |-> k, sealed |-> f, entries |-> none]
      BY <1>2, <1>4
    <2>2. PICK w : w = Put(x, sym, val)
      OBVIOUS
    <2>3. w = x \/ w = [x EXCEPT !.entries = m]
      BY <1>1, <2>1, <2>2 DEF Put
    <2>4. [[cap |-> k, sealed |-> f, entries |-> none] EXCEPT !.entries = m]
            = [cap |-> k, sealed |-> f, entries |-> m]
      OBVIOUS
    <2>5. \/ w = [cap |-> k, sealed |-> f, entries |-> none]
          \/ w = [cap |-> k, sealed |-> f, entries |-> m]
      BY <2>1, <2>3, <2>4, Zenon
    <2>6. /\ [[cap |-> k, sealed |-> f, entries |-> none] EXCEPT !.sealed = g]
               = [cap |-> k, sealed |-> g, entries |-> none]
          /\ [[cap |-> k, sealed |-> f, entries |-> m] EXCEPT !.sealed = g]
               = [cap |-> k, sealed |-> g, entries |-> m]
      OBVIOUS
    <2>7. ctx = [w EXCEPT !.sealed = g]
      BY <1>3, <1>4, <2>2 DEF Seal
    <2>8. QED
      BY <2>5, <2>6, <2>7, Zenon
  <1>6. ctx.entries = none \/ ctx.entries = m
    BY <1>5
  <1>7. DOMAIN none = {}
    BY <1>1
  <1>8. \A r \in DOMAIN m : m[r] = val
    BY <1>1, <1>7 DEF WithEntry
  <1>9. QED
    BY <1>6, <1>7, <1>8

(* foreach *)
LEMMA ForeachReads ==
  ASSUME Fit, Reads, foreach
  PROVE  ReadsNext
  <1>1. Running
    BY DEF foreach, Calls, Run
  <1>2. PICK v, h, tags, zero, word, data, body, ctx :
          /\ v = PopFrame(vm) /\ h = heap' /\ tags = <<WORD, BLOCK, BLOCK>> /\ zero = 0
          /\ word = Arg(v, 3, 1)[2] /\ data = Arg(v, 3, 2)[2] /\ body = Arg(v, 3, 3)[2]
          /\ ctx = Seal(Put(EmptyContext(1), word, PairAt(data, 0)))
    OBVIOUS
  <1>3. PICK c, y, x : /\ c = Len(WithContext(heap, ctx).ctxs) /\ y = Append(v.env, c)
                       /\ x = Append(v.stack, <<INT, 0>>)
    OBVIOUS
  <1>4. Legible(vm) /\ Legible(v) /\ KnownHeap(heap) /\ GoodHeap(heap) /\ Sp(v) \in Nat
    BY <1>2, PopReads, LegibleParts
  <1>5. \/ h = heap /\ Fail(ArgError(v, tags))
        \/ h = heap /\ Fail("OutOfMemory")
        \/ h = heap /\ ArgError(v, tags) = "none" /\ Continue([v EXCEPT !.stack = Below(v, 3)])
        \/ /\ HasPair(data, zero) /\ h = WithContext(heap, ctx)
           /\ \/ Fail("OutOfMemory")
              \/ Jump([v EXCEPT !.env = y, !.stack = x], body, "FOREACH")
    BY <1>2, <1>3 DEF foreach, WithOffset
  <1>6. Len(tags) = 3 /\ Len(tags) \in Nat
    BY <1>2
  <1>7. CASE h = heap /\ (Fail(ArgError(v, tags)) \/ Fail("OutOfMemory"))
    BY <1>1, <1>2, <1>4, <1>6, <1>7, ArgErrorReads, TurnReads
  <1>8. ASSUME h = heap, ArgError(v, tags) = "none", Continue([v EXCEPT !.stack = Below(v, 3)])
        PROVE  ReadsNext
    <2>1. PICK w : w = [v EXCEPT !.stack = Below(v, 3)]
      OBVIOUS
    <2>2. 3 \in 0 .. Sp(v)
      BY <1>4, <1>6, <1>8, TaggedReads
    <2>3. Legible([v EXCEPT !.stack = Below(v, 3)])
      BY <1>4, <2>2, LegibleBelow
    <2>4. Legible(w) /\ Continue(w)
      BY <1>8, <2>1, <2>3, Zenon
    <2>5. QED
      BY <1>1, <1>2, <1>4, <1>8, <2>4, TurnReads
  <1>9. HasPair(data, zero) /\ h = WithContext(heap, ctx) => KnownHeap(h) /\ c # 1
    <2> SUFFICES ASSUME HasPair(data, zero), h = WithContext(heap, ctx) PROVE KnownHeap(h) /\ c # 1
      OBVIOUS
    <2>1. zero \in Nat /\ zero % 2 = 0
      BY <1>2
    <2>2. Known(PairAt(data, zero))
      BY <1>4, <2>1, PairKnown
    <2>3. \A r \in DOMAIN ctx.entries : Known(ctx.entries[r])
      BY <1>2, <2>2, LoopKnown
    <2>4. QED
      BY <1>3, <1>4, <2>3, ContextKnown
  <1>10. ASSUME HasPair(data, zero), h = WithContext(heap, ctx), Fail("OutOfMemory") PROVE ReadsNext
    BY <1>1, <1>2, <1>4, <1>9, <1>10, TurnReads
  <1>11. ASSUME HasPair(data, zero), h = WithContext(heap, ctx),
                Jump([v EXCEPT !.env = y, !.stack = x], body, "FOREACH")
         PROVE  ReadsNext
    <2>1. PICK w : w = [v EXCEPT !.env = y, !.stack = x]
      OBVIOUS
    <2>2. IsSequence(x) /\ AllKnown(x)
      BY <1>3, <1>4, LegibleParts, MadeKnown, KnownValues
    <2>3. IsSequence(y) /\ OwnScopes(y)
      BY <1>3, <1>4, <1>9, <1>11, LegibleParts, ScopesEntered
    <2>4. Legible([v EXCEPT !.env = y, !.stack = x])
      BY <1>4, <2>2, <2>3, LegibleNext
    <2>5. Legible(w) /\ Jump(w, body, "FOREACH")
      BY <1>11, <2>1, <2>4, Zenon
    <2>6. QED
      BY <1>1, <1>2, <1>4, <1>9, <1>11, <2>5, PushReads
  <1>12. QED
    BY <1>5, <1>7, <1>8, <1>10, <1>11

(* SET_WORD *)
LEMMA SetWordReads ==
  ASSUME Fit, Reads, SetWord
  PROVE  ReadsNext
  <1>1. Running
    BY DEF SetWord, Run
  <1>2. PICK v, h, sym, s, e, takers, c, val, answer :
          /\ h = heap' /\ v = PopFrame(vm) /\ sym = Top.word /\ s = v.stack /\ e = v.env
          /\ takers = {j \in DOMAIN e : PutResult(heap.ctxs[e[j]], sym) # "WordNotFound"}
          /\ c = e[Max(takers)] /\ val = Last(s) /\ answer = PutResult(heap.ctxs[c], sym)
    OBVIOUS
  <1>3. /\ Legible(vm) /\ Legible(v) /\ KnownHeap(heap) /\ GoodHeap(heap)
        /\ (s # << >> => Known(val))
    BY <1>2, PopReads, LegibleParts
  <1>4. \/ h = heap /\ (Fail("StackUnderflow") \/ Fail("WordNotFound") \/ Fail(answer))
        \/ /\ s # << >> /\ takers # {}
           /\ h = [heap EXCEPT !.ctxs[c] = Put(@, sym, val)]
           /\ Continue(v)
    BY <1>2 DEF SetWord
  <1>5. CASE h = heap /\ (Fail("StackUnderflow") \/ Fail("WordNotFound") \/ Fail(answer))
    <2>1. answer # "UnknownTag"
      BY <1>2 DEF PutResult
    <2>2. QED
      BY <1>1, <1>2, <1>3, <1>5, <2>1, TurnReads
  <1>6. ASSUME s # << >>, takers # {}, h = [heap EXCEPT !.ctxs[c] = Put(@, sym, val)], Continue(v)
        PROVE  ReadsNext
    <2>1. IsSequence(e) /\ Len(e) \in Nat /\ DOMAIN e = 1 .. Len(e)
      BY <1>2, <1>3, LegibleParts, Indexed
    <2>2. Max(takers) \in DOMAIN e
      <3>1. takers \in SUBSET (1 .. Len(e))
        BY <1>2, <2>1
      <3>2. Max(takers) \in takers
        BY <1>6, <2>1, <3>1, MaxMember
      <3>3. QED
        BY <1>2, <3>2
    <2>3. c \in DOMAIN heap.ctxs
      BY <1>2, <2>2, PopReads DEF GoodEnv
    <2>4. KnownHeap(h)
      BY <1>3, <1>6, <2>3, EntryKnown
    <2>5. QED
      BY <1>1, <1>2, <1>3, <1>6, <2>4, TurnReads
  <1>7. QED
    BY <1>4, <1>5, <1>6

(* A call: its context has the arguments. *)
LEMMA CallFunctionReads ==
  ASSUME Fit, Reads, Running, NEW v, Legible(v), NEW desc, Describes(heap, desc),
         NEW m, m = Len(heap.blocks[heap.blocks[desc][2][2]]),
         Sp(v) >= m, CallFunction(v, desc)
  PROVE  ReadsNext
  <1>1. Legible(vm) /\ KnownHeap(heap) /\ GoodHeap(heap) /\ Sp(v) \in Nat
    BY PopReads, LegibleParts
  <1>2. PICK h, params, body, size, args, ctx, c, x, y :
          /\ h = heap' /\ params = BlockAt(BlockAt(desc)[2][2]) /\ body = BlockAt(desc)[3][2]
          /\ size = 2 * Len(params) /\ args = Arguments(v, params)
          /\ ctx = [EmptyContext(size) EXCEPT !.entries = args]
          /\ c = Len(WithContext(heap, ctx).ctxs)
          /\ x = Below(v, m) /\ y = Append(v.env, c)
    OBVIOUS
  <1>3. Len(params) = m /\ m \in Nat /\ IsSequence(params) /\ DOMAIN params = 1 .. m
    <2>1. desc \in DOMAIN heap.blocks /\ heap.blocks[desc][2][2] \in DOMAIN heap.blocks
      BY <1>1, FunctionParts
    <2>2. BlockAt(desc) = heap.blocks[desc]
      BY <1>1, <2>1, BlockShape
    <2>3. params = heap.blocks[heap.blocks[desc][2][2]]
      BY <1>1, <1>2, <2>1, <2>2, BlockShape
    <2>4. QED
      BY <1>1, <2>1, <2>3, HeapShape
  <1>4. m \in 0 .. Sp(v)
    BY <1>1, <1>3
  <1>5. \/ h = heap /\ (Fail("OutOfBounds") \/ Fail("OutOfMemory"))
        \/ h = WithContext(heap, EmptyContext(size)) /\ (Fail("BadArguments") \/ Fail("StackUnderflow"))
        \/ /\ h = WithContext(heap, ctx)
           /\ Fail("OutOfMemory") \/ Jump([v EXCEPT !.stack = x, !.env = y], body, "LEAVE_FUNC")
    BY <1>2, <1>3 DEF CallFunction
  <1>6. \A sym \in DOMAIN args : Known(args[sym])
    <2> DEFINE At(sym) == {j \in 1 .. m : params[j][2] = sym}
               Names   == {params[j][2] : j \in 1 .. m}
    <2>1. args = [sym \in Names |-> Arg(v, m, Min(At(sym)))]
      BY <1>2, <1>3 DEF Arguments
    <2>2. ASSUME NEW sym \in Names PROVE Known(Arg(v, m, Min(At(sym))))
      <3>1. At(sym) \in SUBSET Nat /\ At(sym) \subseteq 1 .. m /\ At(sym) # {}
        <4>1. PICK j \in 1 .. m : params[j][2] = sym
          OBVIOUS
        <4>2. j \in At(sym) /\ At(sym) \subseteq 1 .. m
          BY <4>1
        <4> HIDE DEF At
        <4>3. QED
          BY <1>3, <4>2
      <3> HIDE DEF At
      <3>2. Min(At(sym)) \in At(sym)
        BY <3>1, MinMember
      <3>3. Min(At(sym)) \in 1 .. m
        BY <3>1, <3>2
      <3>4. QED
        BY <1>4, <3>3, LegibleBelow
    <2> HIDE DEF At, Names
    <2>3. DOMAIN args = Names /\ \A sym \in Names : args[sym] = Arg(v, m, Min(At(sym)))
      BY <2>1
    <2>4. QED
      BY <2>2, <2>3
  <1>7. ctx.entries = args
    <2>1. PICK none : none = EmptyContext(size)
      OBVIOUS
    <2>2. none = [cap |-> size, sealed |-> FALSE, entries |-> << >>]
      BY <2>1 DEF EmptyContext
    <2>3. ctx = [none EXCEPT !.entries = args]
      BY <1>2, <2>1
    <2>4. ctx = [cap |-> size, sealed |-> FALSE, entries |-> args]
      BY <2>2, <2>3
    <2>5. QED
      BY <2>4
  <1>8. h = WithContext(heap, ctx) => KnownHeap(h) /\ c # 1
    BY <1>1, <1>2, <1>6, <1>7, ContextKnown
  <1>9. h = WithContext(heap, EmptyContext(size)) => KnownHeap(h)
    <2>1. PICK none : none = EmptyContext(size)
      OBVIOUS
    <2>2. none.entries = << >>
      BY <2>1 DEF EmptyContext
    <2>3. \A sym \in DOMAIN none.entries : Known(none.entries[sym])
      BY <2>2
    <2>4. QED
      BY <1>1, <2>1, <2>3, ContextKnown
  <1>10. ASSUME h = WithContext(heap, ctx), Jump([v EXCEPT !.stack = x, !.env = y], body, "LEAVE_FUNC")
         PROVE  ReadsNext
    <2>1. PICK w : w = [v EXCEPT !.stack = x, !.env = y]
      OBVIOUS
    <2>2. IsSequence(x) /\ AllKnown(x)
      BY <1>2, <1>4, LegibleBelow
    <2>3. IsSequence(y) /\ OwnScopes(y)
      BY <1>2, <1>8, <1>10, LegibleParts, ScopesEntered
    <2>4. Legible([v EXCEPT !.stack = x, !.env = y])
      BY <2>2, <2>3, LegibleNext
    <2>5. Legible(w) /\ Jump(w, body, "LEAVE_FUNC")
      BY <1>10, <2>1, <2>4, Zenon
    <2>6. QED
      BY <1>1, <1>2, <1>8, <1>10, <2>5, PushReads
  <1>11. QED
    BY <1>1, <1>2, <1>5, <1>8, <1>9, <1>10, TurnReads

(* CALL_FUNC *)
LEMMA CallFuncReads ==
  ASSUME Fit, Reads, CallFunc, ~borrowed'
  PROVE  ReadsNext
  <1>1. PICK op : op = "CALL_FUNC"
    OBVIOUS
  <1>2. op \in CallOps /\ Run(op) /\ Running /\ Whole(heap, vm)
    BY <1>1 DEF CallOps, CallFunc, Run, Fit
  <1>3. PICK b, i, s, o, e, f : /\ Popped(b, i, s, o, e, f) /\ f.op = op /\ Base(f) = f.bp
                                /\ f.bp \in Nat /\ Len(s) = f.bp + f.arity
    BY <1>2, CallReady
  <1>4. PICK v, desc, m : v = PopFrame(vm) /\ desc = f.word /\ m = f.arity
    OBVIOUS
  <1>5. Describes(heap, desc) /\ m = Len(heap.blocks[heap.blocks[desc][2][2]])
    BY <1>1, <1>3, <1>4 DEF Popped, FrameGood
  <1>6. m \in Nat
    <2>1. GoodHeap(heap) /\ heap.blocks[desc][2][2] \in DOMAIN heap.blocks
      BY <1>5, FunctionParts DEF Fit
    <2>2. QED
      BY <1>5, <2>1, HeapShape
  <1>7. Sp(v) = f.bp + m
    BY <1>3, <1>4, MachineParts DEF Popped, Sp
  <1>8. Sp(v) >= m
    BY <1>3, <1>6, <1>7
  <1>9. CallFunction(v, desc) /\ Legible(v)
    BY <1>3, <1>4, PopReads DEF CallFunc, Popped
  <1>10. QED
    BY <1>2, <1>5, <1>8, <1>9, CallFunctionReads

(* CONTEXT: the context it was filling is not the system context. *)
LEMMA EndContextReads ==
  ASSUME Fit, Reads, EndContext
  PROVE  ReadsNext
  <1>1. heap' = heap /\ Running /\ vm.ops # << >> /\ Top.op = "CONTEXT" /\ Whole(heap, vm)
    BY DEF EndContext, Run, Fit
  <1>2. PICK b, i, s, o, e, f : Popped(b, i, s, o, e, f)
    BY <1>1, PopWhole
  <1>3. PICK v, c, q, k, n, val : /\ v = PopFrame(vm) /\ c = Last(e) /\ q = Front(e) /\ k = Owns(f.op)
                                  /\ n = Base(f) /\ val = <<CONTEXT, c>>
    OBVIOUS
  <1>4. v = Machine(b, i, s, o, e) /\ v.stack = s /\ v.env = e /\ f.op = "CONTEXT"
    BY <1>1, <1>2, <1>3, MachineParts DEF Popped
  <1>5. Legible(vm) /\ Legible(v) /\ KnownHeap(heap)
    BY <1>3, PopReads
  <1>6. Known(val)
    <2>1. Sound(heap, s, o, e, n, k) /\ k = 1
      BY <1>2, <1>3, <1>4 DEF Popped, Owns, OwnerOps
    <2>2. Len(e) = 1 + Owned(o) + k /\ Owned(o) \in Nat
      BY <2>1, SoundShape
    <2>3. Len(e) \in 1 .. Len(e) /\ Len(e) # 1
      BY <2>1, <2>2
    <2>4. DOMAIN e = 1 .. Len(e) /\ OwnScopes(e)
      BY <1>4, <1>5, LegibleParts, Indexed
    <2>5. c # 1
      BY <1>3, <2>3, <2>4 DEF OwnScopes, Last
    <2>6. QED
      BY <1>3, <2>5, MadeKnown
  <1>7. \/ Fail("StackUnderflow")
        \/ s # << >> /\ Return([v EXCEPT !.env = q], 1, val)
    BY <1>3, <1>4 DEF EndContext
  <1>8. ASSUME s # << >>, Return([v EXCEPT !.env = q], 1, val) PROVE ReadsNext
    <2>1. PICK w, one : w = Machine(b, i, s, o, q) /\ one = 1
      OBVIOUS
    <2>2. [v EXCEPT !.env = q] = w
      BY <1>4, <2>1, MachineParts
    <2>3. Legible(w)
      <3>1. Legible([v EXCEPT !.env = Front(@)])
        BY <1>5, ScopeLeft
      <3>2. QED
        BY <1>3, <1>4, <2>2, <3>1
    <2>4. one \in 0 .. Sp(w)
      <3>1. w.stack = s
        BY <2>1, MachineParts
      <3>2. QED
        BY <1>8, <2>1, <2>3, <3>1, LegibleParts
    <2>5. Return(w, one, val)
      BY <1>8, <2>1, <2>2
    <2>6. QED
      BY <1>1, <1>5, <1>6, <2>3, <2>4, <2>5, ReturnReads
  <1>9. QED
    BY <1>1, <1>5, <1>7, <1>8, TurnReads

(* A native function that is fetched, with the literal that `foreach` takes. *)
LEMMA FetchNativeReads ==
  ASSUME Fit, Reads, Running, heap' = heap, NEW v, Legible(v), v.ip \in Nat,
         NEW native, FetchNative(v, native)
  PROVE  ReadsNext
  <1>1. Legible(vm) /\ KnownHeap(heap) /\ GoodHeap(heap)
    BY PopReads
  <1>2. PICK a, offset, val, p, j :
          /\ a = v.block /\ offset = 2 * v.ip /\ val = PairAt(a, offset)
          /\ p = Append(v.ops, Frame("CALL_NATIVE", native, Sp(v), 3)) /\ j = v.ip + 1
    OBVIOUS
  <1>3. \/ Fail("FunctionNotFound") \/ Fail("OutOfMemory") \/ Fail("OutOfBounds")
        \/ HasPair(a, offset) /\ PushValue([v EXCEPT !.ops = p, !.ip = j], val)
        \/ \E arity : PushOp(v, "CALL_NATIVE", native, arity)
    BY <1>2 DEF FetchNative
  <1>4. ASSUME HasPair(a, offset), PushValue([v EXCEPT !.ops = p, !.ip = j], val) PROVE ReadsNext
    <2>1. offset \in Nat /\ offset % 2 = 0
      BY <1>2
    <2>2. Known(val)
      BY <1>1, <1>2, <1>4, <2>1, PairKnown
    <2>3. PICK x, w : x = [v EXCEPT !.ops = p] /\ w = [x EXCEPT !.ip = j]
      OBVIOUS
    <2>4. Legible(x)
      <3>1. Legible([v EXCEPT !.ops = p])
        BY LegibleMoves
      <3>2. QED
        BY <2>3, <3>1, Zenon
    <2>5. Legible(w)
      <3>1. Legible([x EXCEPT !.ip = j])
        BY <2>4, LegibleMoves
      <3>2. QED
        BY <2>3, <3>1, Zenon
    <2>6. PushValue(w, val)
      BY <1>4, <2>3, Zenon
    <2>7. QED
      BY <1>1, <2>2, <2>5, <2>6, PushReads
  <1>5. QED
    BY <1>1, <1>3, <1>4, TurnReads, PushReads

(* Fetch *)
LEMMA FetchReads ==
  ASSUME Fit, Reads, Fetch
  PROVE  ReadsNext
  <1>1. ~AtEnd /\ Running /\ Legible(vm) /\ KnownHeap(heap) /\ GoodHeap(heap) /\ GoodEnv(vm.env)
    BY PopReads DEF Fetch
  <1>2. PICK b, j, s, o, e, v : /\ v = [vm EXCEPT !.ip = @ + 1] /\ v = Machine(b, j, s, o, e)
                                /\ Place(heap, b, j)
    BY <1>1, ReadGood
  <1>3. PICK val, offset, r, tag, data :
          /\ offset = 2 * vm.ip /\ val = PairAt(vm.block, offset)
          /\ r = resolve(vm.env, val) /\ tag = r.val[1] /\ data = r.val[2]
    OBVIOUS
  <1>4. vm.ip \in Nat /\ v.ip \in Nat
    <2>1. PICK b0, i0, s0, o0, e0 : vm = Machine(b0, i0, s0, o0, e0) /\ Place(heap, b0, i0)
      BY DEF Fit, Whole
    <2>2. vm.ip = i0 /\ i0 \in Nat
      BY <1>1, <2>1, MachineParts, HeapShape DEF Place
    <2>3. v.ip = j /\ j \in Nat
      <3>1. v.ip = j
        <4>1. PICK w : w = v
          OBVIOUS
        <4>2. w = Machine(b, j, s, o, e)
          BY <1>2, <4>1
        <4>3. w.ip = j
          BY <4>2, MachineParts
        <4>4. QED
          BY <4>1, <4>3
      <3>2. j \in Nat
        BY <1>1, <1>2, HeapShape DEF Place
      <3>3. QED
        BY <3>1, <3>2
    <2>4. QED
      BY <2>2, <2>3
  <1>5. Legible(v)
    <2>1. PICK x : x = vm.ip + 1
      OBVIOUS
    <2>2. Legible([vm EXCEPT !.ip = x])
      BY <1>1, LegibleMoves
    <2>3. QED
      BY <1>2, <2>1, <2>2
  <1>6. r \in AnswersIn(Bindables)
    <2>1. offset \in Nat /\ offset % 2 = 0 /\ HasPair(vm.block, offset)
      BY <1>1, <1>3, <1>4 DEF AtEnd
    <2>2. Good(heap, val) /\ Known(val)
      BY <1>1, <1>3, <2>1, PairKnown
    <2>3. QED
      BY <1>1, <1>3, <2>2, ResolveKnown
  <1>7. \/ r.error # "none" /\ Fail(r.error) /\ heap' = heap
        \/ r.error = "none" /\ FetchNative(v, data) /\ heap' = heap
        \/ r.error = "none" /\ tag = FUNC /\ FetchFunc(v, data)
        \/ PushOp(v, "SET_WORD", data, 1) /\ heap' = heap
        \/ r.error = "none" /\ tag # NATIVE_FN /\ PushValue(v, r.val) /\ heap' = heap
    <2>1. LET r0 == resolve(vm.env, PairAt(vm.block, 2 * vm.ip))
              v0 == [vm EXCEPT !.ip = @ + 1]
              tag0 == r0.val[1]
              data0 == r0.val[2]
          IN  CASE r0.error # "none" -> Fail(r0.error) /\ UNCHANGED heap
                [] r0.error = "none" /\ tag0 = NATIVE_FN -> FetchNative(v0, data0) /\ UNCHANGED heap
                [] r0.error = "none" /\ tag0 = FUNC -> FetchFunc(v0, data0)
                [] r0.error = "none" /\ tag0 = SET_WORD ->
                     PushOp(v0, "SET_WORD", data0, 1) /\ UNCHANGED heap
                [] OTHER -> PushValue(v0, r0.val) /\ UNCHANGED heap
      BY DEF Fetch
    <2>2. CASE r.error # "none" \/ tag \in {NATIVE_FN, FUNC, SET_WORD}
      BY <1>2, <1>3, <2>1, <2>2
    <2>3. CASE r.error = "none" /\ tag \notin {NATIVE_FN, FUNC, SET_WORD}
      BY <1>2, <1>3, <2>1, <2>3
    <2>4. QED
      BY <2>2, <2>3
  <1>8. r.error # "UnknownTag"
    BY <1>6 DEF AnswersIn, Errors
  <1>9. r.error = "none" => /\ (tag # NATIVE_FN => Known(r.val))
                            /\ (tag = FUNC => Describes(heap, data))
    BY <1>3, <1>6 DEF AnswersIn, Bindables, GoodCells, Good
  <1>10. ASSUME Describes(heap, data), FetchFunc(v, data) PROVE ReadsNext
    <2>1. \/ Fail("OutOfBounds") /\ heap' = heap
          \/ BlockAt(data)[1][2] = 0 /\ CallFunction(v, data)
          \/ \E arity : PushOp(v, "CALL_FUNC", data, arity) /\ heap' = heap
      BY <1>10 DEF FetchFunc
    <2>2. ASSUME BlockAt(data)[1][2] = 0, CallFunction(v, data) PROVE ReadsNext
      <3>1. PICK m : m = Len(heap.blocks[heap.blocks[data][2][2]])
        OBVIOUS
      <3>2. m \in Nat /\ BlockAt(data) = heap.blocks[data]
        <4>1. data \in DOMAIN heap.blocks /\ heap.blocks[data][2][2] \in DOMAIN heap.blocks
          BY <1>1, <1>10, FunctionParts
        <4>2. QED
          BY <1>1, <3>1, <4>1, HeapShape, BlockShape
      <3>3. m = 0
        <4>1. heap.blocks[data][1][2] = 2 * m
          BY <1>10, <3>1 DEF Describes
        <4>2. QED
          BY <2>2, <3>2, <4>1
      <3>4. Sp(v) >= m
        BY <1>5, <3>3, LegibleParts
      <3>5. QED
        BY <1>1, <1>5, <1>10, <2>2, <3>1, <3>4, CallFunctionReads
    <2>3. QED
      BY <1>1, <1>5, <2>1, <2>2, TurnReads, PushReads
  <1>11. ASSUME FetchNative(v, data), heap' = heap PROVE ReadsNext
    BY <1>1, <1>4, <1>5, <1>11, FetchNativeReads
  <1>12. QED
    BY <1>1, <1>5, <1>7, <1>8, <1>9, <1>10, <1>11, TurnReads, PushReads

-----------------------------------------------------------------------------
(* The end of a block leaves values that can be read. *)

(* The Exec goes on where a frame returns to, with the same values. *)
LEMMA ResumeReads ==
  ASSUME NEW v, Legible(v), NEW f
  PROVE  Legible(Resume(v, f)) /\ Resume(v, f).stack = v.stack
  <1>1. PICK b, i, s, o, e : v = Machine(b, i, s, o, e)
    BY DEF Legible
  <1>2. PICK b2, i2, w : b2 = f.word /\ i2 = f.arity - LeaveMarker /\ w = [v EXCEPT !.block = b2]
    OBVIOUS
  <1>3. Resume(v, f) = [w EXCEPT !.ip = i2]
    <2>1. Resume(v, f) = [[v EXCEPT !.block = b2] EXCEPT !.ip = i2]
      BY <1>2 DEF Resume
    <2>2. QED
      BY <1>2, <2>1, Zenon
  <1>4. w = Machine(b2, i, s, o, e) /\ [w EXCEPT !.ip = i2] = Machine(b2, i2, s, o, e)
    <2>1. w = Machine(b2, i, s, o, e)
      BY <1>1, <1>2, MachineParts
    <2>2. [Machine(b2, i, s, o, e) EXCEPT !.ip = i2] = Machine(b2, i2, s, o, e)
      BY MachineParts
    <2>3. QED
      BY <2>1, <2>2, Zenon
  <1>5. Legible(w)
    <2>1. Legible([v EXCEPT !.block = b2])
      BY LegibleMoves
    <2>2. QED
      BY <1>2, <2>1, Zenon
  <1>6. Legible([w EXCEPT !.ip = i2])
    BY <1>5, LegibleMoves
  <1>7. Resume(v, f) = Machine(b2, i2, s, o, e)
    BY <1>3, <1>4
  <1>8. Resume(v, f).stack = s /\ v.stack = s
    BY <1>1, <1>7, MachineParts
  <1>9. Legible(Resume(v, f))
    BY <1>3, <1>6, Zenon
  <1>10. QED
    BY <1>8, <1>9

(* leave *)
LEMMA LeaveReads ==
  ASSUME Running, Legible(vm), KnownHeap(heap'),
         NEW v, Legible(v), NEW f, f.bp \in Nat, Leave(v, f)
  PROVE  ReadsNext
  <1>1. PICK n, w, none, zero : /\ n = Sp(v) - f.bp /\ w = Resume(v, f) /\ none = <<NONE, 0>>
                                /\ zero = 0
    OBVIOUS
  <1>2. Legible(w) /\ Sp(w) = Sp(v) /\ Sp(v) \in Nat
    BY <1>1, LegibleParts, ResumeReads DEF Sp
  <1>3. \/ Fail("StackUnderflow")
        \/ Return(w, zero, none)
        \/ n > 0 /\ Return(w, n, Last(v.stack))
    <2>1. n < 0 \/ n = 0 \/ n > 0
      BY <1>1, <1>2
    <2>2. QED
      BY <1>1, <2>1 DEF Leave
  <1>4. ASSUME Return(w, zero, none) PROVE ReadsNext
    <2>1. Known(none) /\ zero \in 0 .. Sp(w)
      <3>1. Known(none)
        BY <1>1, MadeKnown
      <3>2. zero \in 0 .. Sp(w)
        BY <1>1, <1>2
      <3>3. QED
        BY <3>1, <3>2
    <2>2. QED
      BY <1>2, <1>4, <2>1, ReturnReads
  <1>5. ASSUME n > 0, Return(w, n, Last(v.stack)) PROVE ReadsNext
    <2>1. n \in 0 .. Sp(w) /\ Sp(v) # 0
      BY <1>1, <1>2, <1>5
    <2>2. v.stack # << >>
      BY <2>1 DEF Sp
    <2>3. Known(Last(v.stack))
      BY <2>2, LegibleParts
    <2>4. QED
      BY <1>2, <1>5, <2>1, <2>3, ReturnReads
  <1>6. QED
    BY <1>3, <1>4, <1>5, TurnReads

(* LEAVE_BLOCK and LEAVE_FUNC *)
LEMMA BlockEndReads ==
  ASSUME Fit, Reads, LeaveBlock \/ LeaveFunc
  PROVE  ReadsNext
  <1>1. PICK op : EndOf(op) /\ heap' = heap
    BY DEF LeaveBlock, LeaveFunc
  <1>2. PICK b, i, s, o, e, f : Popped(b, i, s, o, e, f)
    BY <1>1, EndReady
  <1>3. Running /\ Top = f /\ f.bp \in Nat
    BY <1>1, <1>2 DEF EndOf, Popped, FrameGood
  <1>4. PICK v : v = PopFrame(vm)
    OBVIOUS
  <1>5. Legible(vm) /\ Legible(v) /\ KnownHeap(heap')
    BY <1>1, <1>4, PopReads
  <1>6. CASE LeaveBlock
    BY <1>3, <1>4, <1>5, <1>6, LeaveReads DEF LeaveBlock
  <1>7. CASE LeaveFunc
    <2>1. PICK w : w = [v EXCEPT !.env = Front(@)]
      OBVIOUS
    <2>2. Legible(w)
      <3>1. Legible([v EXCEPT !.env = Front(@)])
        BY <1>5, ScopeLeft
      <3>2. QED
        BY <2>1, <3>1, Zenon
    <2>3. Fail("StackUnderflow") \/ Leave(w, f)
      BY <1>3, <1>4, <1>7, <2>1 DEF LeaveFunc
    <2>4. QED
      BY <1>3, <1>5, <2>2, <2>3, LeaveReads, TurnReads
  <1>8. QED
    BY <1>6, <1>7

(* The values above the n-th. *)
LEMMA KnownSuffix ==
  ASSUME NEW s, IsSequence(s), AllKnown(s), NEW n \in 0 .. Len(s),
         NEW t, t = SubSeq(s, n + 1, Len(s))
  PROVE  IsSequence(t) /\ AllKnown(t) /\ Len(t) = Len(s) - n
  <1>1. PICK S, a, z : s \in Seq(S) /\ a = n + 1 /\ z = Len(s)
    BY DEF IsSequence
  <1>2. Len(s) \in Nat /\ DOMAIN s = 1 .. Len(s) /\ a \in Int /\ z \in Int
    BY <1>1, Indexed
  <1>3. \A j \in a .. z : s[j] \in S
    <2>1. \A j \in a .. z : j \in 1 .. Len(s)
      BY <1>1, <1>2
    <2>2. \A j \in 1 .. Len(s) : s[j] \in S
      BY <1>1, ElementOfSeq
    <2>3. QED
      BY <2>1, <2>2
  <1>4. /\ SubSeq(s, a, z) \in Seq(S)
        /\ Len(SubSeq(s, a, z)) = IF a =< z THEN z - a + 1 ELSE 0
        /\ \A j \in 1 .. z - a + 1 : SubSeq(s, a, z)[j] = s[a + j - 1]
    BY <1>2, <1>3, SubSeqProperties
  <1>5. z - a + 1 = Len(s) - n /\ (~(a =< z) => Len(s) - n = 0)
    BY <1>1, <1>2
  <1>6. t \in Seq(S) /\ Len(t) = Len(s) - n
    BY <1>1, <1>4, <1>5
  <1>7. IsSequence(t) /\ DOMAIN t = 1 .. Len(s) - n
    BY <1>6, Indexed DEF IsSequence
  <1>8. ASSUME NEW j \in 1 .. Len(s) - n PROVE Known(t[j])
    <2>1. a + j - 1 \in 1 .. Len(s)
      BY <1>1, <1>2
    <2>2. t[j] = s[a + j - 1]
      BY <1>1, <1>4, <1>5
    <2>3. QED
      BY <1>2, <2>1, <2>2 DEF AllKnown
  <1>9. QED
    BY <1>6, <1>7, <1>8 DEF AllKnown

(* REDUCE *)
LEMMA LeaveReduceReads ==
  ASSUME Fit, Reads, LeaveReduce
  PROVE  ReadsNext
  <1>1. PICK op : EndOf(op) /\ op = "REDUCE"
    BY DEF LeaveReduce
  <1>2. PICK b, i, s, o, e, f : Popped(b, i, s, o, e, f)
    BY <1>1, EndReady
  <1>3. PICK n, v, w, h, values, y, val, m :
          /\ n = f.bp /\ v = PopFrame(vm) /\ w = Resume(v, f) /\ h = heap'
          /\ values = SubSeq(s, n + 1, Len(s)) /\ y = heap.used + BlockWords(values)
          /\ val = <<BLOCK, Len(h.blocks)>> /\ m = Len(values)
    OBVIOUS
  <1>4. Running /\ Top = f /\ v.stack = s /\ vm.stack = s /\ n \in Nat /\ n =< Len(s)
    BY <1>1, <1>2, <1>3, MachineParts DEF EndOf, Popped, FrameGood
  <1>5. Legible(vm) /\ Legible(v) /\ KnownHeap(heap) /\ GoodHeap(heap) /\ Len(s) \in Nat
        /\ IsSequence(s) /\ AllKnown(s) /\ Legible(w) /\ Sp(w) = Len(s)
    BY <1>3, <1>4, PopReads, LegibleParts, ResumeReads DEF Sp
  <1>6. IsSequence(values) /\ AllKnown(values) /\ m = Len(s) - n
    <2>1. n \in 0 .. Len(s)
      BY <1>4, <1>5
    <2>2. QED
      BY <1>3, <1>5, <2>1, KnownSuffix
  <1>7. \/ h = heap /\ (Fail("InternalError") \/ Fail("OutOfMemory"))
        \/ h = WithBlock(heap, values) /\ Return(w, m, val)
    BY <1>3, <1>4 DEF LeaveReduce, Sp
  <1>8. ASSUME h = WithBlock(heap, values), Return(w, m, val) PROVE ReadsNext
    <2>1. h = OtherBlocks(heap, Append(heap.blocks, values), y)
      BY <1>3, <1>8 DEF WithBlock, OtherBlocks
    <2>2. KnownHeap(h)
      BY <1>5, <1>6, <2>1, BlockKnown
    <2>3. m \in 0 .. Sp(w)
      BY <1>4, <1>5, <1>6
    <2>4. Known(val)
      BY <1>3, MadeKnown
    <2>5. QED
      BY <1>3, <1>4, <1>5, <1>8, <2>2, <2>3, <2>4, ReturnReads
  <1>9. QED
    BY <1>3, <1>4, <1>5, <1>7, <1>8, TurnReads

(* The offset of the next value is even, as that of the last one. *)
LEMMA EvenOffset ==
  ASSUME NEW offset \in Nat, offset % 2 = 0, NEW j \in NextOffset(offset), j # -1,
         offset + 2 < WordMod
  PROVE  j \in Nat /\ j % 2 = 0
  <1>1. j = offset + 2
    BY NextOffsetWord
  <1>2. QED
    BY <1>1

(* FOREACH: the next value of the data is bound, or the loop is left. *)
LEMMA LeaveForeachReads ==
  ASSUME Fit, Reads, LeaveForeach
  PROVE  ReadsNext
  <1>1. PICK op : op = "FOREACH" /\ EndOf(op)
    BY DEF LeaveForeach
  <1>2. PICK b, i, s, o, e, f : Popped(b, i, s, o, e, f) /\ f.op = op
    BY <1>1, EndReady
  <1>3. PICK p, n, k, m, t, v, c, h, val, offset, index :
          /\ p = f.bp /\ n = Base(f) /\ k = Owns(f.op) /\ m = p - 1 /\ t = SubSeq(s, 1, m)
          /\ v = [PopFrame(vm) EXCEPT !.stack = t]
          /\ c = Last(e) /\ h = heap' /\ val = s[p] /\ offset = val[2] /\ index = offset + 2
    OBVIOUS
  <1>4. /\ Running /\ Top = f /\ vm.stack = s /\ PopFrame(vm) = Machine(b, i, s, o, e)
        /\ Sound(heap, s, o, e, n, k) /\ FrameGood(heap, f) /\ f.op = "FOREACH" /\ p =< Len(s)
        /\ LoopGood(heap, s, p, e[2 + Owned(o)]) /\ vm.env = e
    BY <1>1, <1>2, <1>3 DEF EndOf, Popped
  <1>5. /\ Legible(vm) /\ KnownHeap(heap) /\ GoodHeap(heap) /\ GoodEnv(e)
        /\ Legible(PopFrame(vm)) /\ IsSequence(s) /\ AllKnown(s) /\ Len(s) \in Nat
        /\ IsSequence(e) /\ OwnScopes(e)
    BY <1>4, PopReads, LegibleParts DEF Sp
  <1>6. p \in Nat /\ p >= 4 /\ m \in 0 .. Len(s) /\ m \in Nat /\ m >= 3
    <2>1. p \in Nat /\ p >= 4
      BY <1>3, <1>4 DEF FrameGood
    <2>2. QED
      BY <1>3, <1>4, <1>5, <2>1
  <1>7. IsSequence(t) /\ AllKnown(t) /\ Len(t) = m
    BY <1>3, <1>5, <1>6, KnownValues, Truncated
  <1>8. v = Machine(b, i, t, o, e) /\ v.stack = t /\ v.env = e /\ v.ops = o
    <2>1. [Machine(b, i, s, o, e) EXCEPT !.stack = t] = Machine(b, i, t, o, e)
      BY MachineParts
    <2>2. v = Machine(b, i, t, o, e)
      BY <1>3, <1>4, <2>1
    <2>3. QED
      BY <2>2, MachineParts
  <1>9. Legible(v)
    <2>1. Legible([PopFrame(vm) EXCEPT !.stack = t])
      BY <1>5, <1>7, LegibleMoves
    <2>2. QED
      BY <1>3, <2>1, Zenon
  <1>10. c \in DOMAIN heap.ctxs
    <2>1. Len(e) = 1 + Owned(o) + k /\ Owned(o) \in Nat /\ k \in Nat
      BY <1>4, SoundShape
    <2>2. Len(e) \in 1 .. Len(e) /\ DOMAIN e = 1 .. Len(e)
      BY <1>5, <2>1, Indexed
    <2>3. QED
      BY <1>3, <1>5, <2>2 DEF GoodEnv, Last
  <1>11. offset \in Nat /\ offset % 2 = 0 /\ offset + 2 < WordMod
    <2>1. Good(heap, val)
      BY SMTT(30), <1>3, <1>4, <1>6 DEF Sound, Held
    <2>2. offset \in 0 .. WordMod - 1
      BY <1>3, <2>1, Tags DEF Good
    <2>3. PICK d : d = s[p - 2]
      OBVIOUS
    <2>4. d[1] = BLOCK /\ offset % 2 = 0 /\ offset + 2 =< 2 * Len(heap.blocks[d[2]])
      BY <1>3, <1>4, <2>3 DEF LoopGood
    <2>5. Good(heap, d)
      <3>1. p - 2 \in 1 .. Len(s)
        BY <1>4, <1>5, <1>6
      <3>2. QED
        BY <1>4, <2>3, <3>1 DEF Sound, Held
    <2>6. d[2] \in DOMAIN heap.blocks
      BY <2>4, <2>5 DEF Good
    <2>7. PICK len : len = Len(heap.blocks[d[2]])
      OBVIOUS
    <2>8. 2 * len < WordMod /\ len \in Nat
      BY <1>5, <2>6, <2>7, HeapShape DEF GoodHeap, GoodBlock
    <2>9. WordMod \in Nat
      BY WordModAssumption
    <2>10. QED
      BY <2>2, <2>4, <2>7, <2>8, <2>9
  <1>12. PICK g, word, data, body, x, y, z :
           /\ g = Frame("FOREACH", f.word, f.bp, f.arity)
           /\ word = Arg(v, 3, 1)[2] /\ data = Arg(v, 3, 2)[2] /\ body = Arg(v, 3, 3)[2]
           /\ x = Below(v, 3) /\ y = Front(e) /\ z = Append(o, g)
    OBVIOUS
  <1>13. \/ h = heap /\ (Fail("InternalError") \/ Fail("StackUnderflow") \/ Fail("panic"))
         \/ h = heap /\ Fail(PutResult(heap.ctxs[c], word))
         \/ h = heap /\ Continue(Resume([v EXCEPT !.stack = x, !.env = y], f))
         \/ \E j \in NextOffset(offset) :
              /\ j # -1 /\ HasPair(data, j)
              /\ h = [heap EXCEPT !.ctxs[c] = Put(@, word, PairAt(data, j))]
              /\ Continue([v EXCEPT !.stack = Append(t, <<INT, j>>), !.ops = z,
                                    !.block = body, !.ip = 0])
    <2>1. /\ t = SubSeq(vm.stack, 1, Top.bp - 1) /\ v = [PopFrame(vm) EXCEPT !.stack = t] /\ f = Top
          /\ c = Last(v.env) /\ offset = vm.stack[Top.bp][2] /\ y = Front(v.env) /\ z = Append(v.ops, g)
      BY <1>3, <1>4, <1>8, <1>12
    <2>2. QED
      BY <1>3, <1>12, <2>1 DEF LeaveForeach
  <1>14. ASSUME h = heap, Continue(Resume([v EXCEPT !.stack = x, !.env = y], f)) PROVE ReadsNext
    <2>1. PICK w : w = [v EXCEPT !.stack = x, !.env = y]
      OBVIOUS
    <2>2. 3 \in 0 .. Sp(v)
      BY <1>6, <1>7, <1>8 DEF Sp
    <2>3. IsSequence(x) /\ AllKnown(x)
      BY <1>9, <1>12, <2>2, LegibleBelow
    <2>4. IsSequence(y) /\ OwnScopes(y)
      <3>1. Legible([v EXCEPT !.env = Front(@)])
        BY <1>9, ScopeLeft
      <3>2. [v EXCEPT !.env = Front(@)] = [v EXCEPT !.env = y]
        BY <1>8, <1>12
      <3>3. [Machine(b, i, t, o, e) EXCEPT !.env = y] = Machine(b, i, t, o, y)
        BY MachineParts
      <3>4. Legible(Machine(b, i, t, o, y))
        BY <1>8, <3>1, <3>2, <3>3, Zenon
      <3>5. QED
        BY <3>4, LegibleParts, MachineParts
    <2>5. Legible([v EXCEPT !.stack = x, !.env = y])
      BY <1>9, <2>3, <2>4, LegibleNext
    <2>6. Legible(w) /\ Continue(Resume(w, f))
      BY <1>14, <2>1, <2>5, Zenon
    <2>7. QED
      BY <1>3, <1>4, <1>5, <1>14, <2>6, ResumeReads, TurnReads
  <1>15. ASSUME NEW j \in NextOffset(offset), j # -1, HasPair(data, j),
                h = [heap EXCEPT !.ctxs[c] = Put(@, word, PairAt(data, j))],
                Continue([v EXCEPT !.stack = Append(t, <<INT, j>>), !.ops = z, !.block = body, !.ip = 0])
         PROVE  ReadsNext
    <2>1. j \in Nat /\ j % 2 = 0
      BY <1>11, <1>15, EvenOffset
    <2>2. PICK pair, q, t2 : pair = PairAt(data, j) /\ q = <<INT, j>> /\ t2 = Append(t, q)
      OBVIOUS
    <2>3. Known(pair) /\ Known(q)
      BY <1>5, <1>15, <2>1, <2>2, PairKnown, MadeKnown
    <2>4. KnownHeap(h)
      BY <1>5, <1>10, <1>15, <2>2, <2>3, EntryKnown
    <2>5. IsSequence(t2) /\ AllKnown(t2)
      BY <1>7, <2>2, <2>3, KnownValues
    <2>6. PICK w1, w2, w3, w4 : /\ w1 = [v EXCEPT !.stack = t2] /\ w2 = [w1 EXCEPT !.ops = z]
                                /\ w3 = [w2 EXCEPT !.block = body] /\ w4 = [w3 EXCEPT !.ip = 0]
      OBVIOUS
    <2>7. Legible(w1)
      <3>1. Legible([v EXCEPT !.stack = t2])
        BY <1>9, <2>5, LegibleMoves
      <3>2. QED
        BY <2>6, <3>1, Zenon
    <2>8. Legible(w2)
      <3>1. Legible([w1 EXCEPT !.ops = z])
        BY <2>7, LegibleMoves
      <3>2. QED
        BY <2>6, <3>1, Zenon
    <2>9. Legible(w3)
      <3>1. Legible([w2 EXCEPT !.block = body])
        BY <2>8, LegibleMoves
      <3>2. QED
        BY <2>6, <3>1, Zenon
    <2>10. Legible(w4)
      <3>1. Legible([w3 EXCEPT !.ip = 0])
        BY <2>9, LegibleMoves
      <3>2. QED
        BY <2>6, <3>1, Zenon
    <2>11. Continue(w4)
      <3>1. [v EXCEPT !.stack = t2, !.ops = z, !.block = body, !.ip = 0] = w4
        <4>1. [v EXCEPT !.stack = t2, !.ops = z, !.block = body, !.ip = 0]
                = [[[[v EXCEPT !.stack = t2] EXCEPT !.ops = z] EXCEPT !.block = body] EXCEPT !.ip = 0]
          OBVIOUS
        <4>2. QED
          BY <2>6, <4>1, Zenon
      <3>2. QED
        BY <1>15, <2>2, <3>1
    <2>12. QED
      BY <1>3, <1>4, <1>5, <2>4, <2>10, <2>11, TurnReads
  <1>16. PutResult(heap.ctxs[c], word) # "UnknownTag"
    BY DEF PutResult
  <1>17. QED
    BY <1>3, <1>4, <1>5, <1>13, <1>14, <1>15, <1>16, TurnReads

-----------------------------------------------------------------------------
(* Every turn. *)

(* The value a program ends with. *)
LEMMA FinishReads ==
  ASSUME Fit, Reads, Finish \/ UNCHANGED vars
  PROVE  ReadsNext
  <1>1. heap' = heap /\ vm' = vm
    BY DEF Finish, vars
  <1>2. CASE Finish
    <2>1. Known(Result)
      BY LegibleParts, MadeKnown DEF Result, Reads
    <2>2. QED
      BY <1>1, <1>2, <2>1 DEF Finish, Known, Reads, ReadsNext
  <1>3. CASE UNCHANGED vars
    BY <1>1, <1>3 DEF vars, Reads, ReadsNext
  <1>4. QED
    BY <1>2, <1>3

(* A turn of the loop. *)
LEMMA NextReads ==
  ASSUME Fit, Reads, [Next]_vars, ~borrowed'
  PROVE  ReadsNext
  <1>1. CASE CallNative
    BY <1>1, PlainNativesRead, BlockNativesRead, ContextReads, ForeachReads DEF CallNative
  <1>2. CASE EndBlock
    BY <1>2, FinishReads, BlockEndReads, LeaveReduceReads, LeaveForeachReads DEF EndBlock
  <1>3. CASE UNCHANGED vars
    BY <1>3, FinishReads
  <1>4. QED
    BY <1>1, <1>2, <1>3, FetchReads, SetWordReads, CallFuncReads, EndContextReads DEF Next

(* A program without get-words, loaded. *)
LEMMA InitReads ==
  ASSUME NoGetWords, Init
  PROVE  Reads
  <1>1. PICK p \in Programs : vm = NewExec(p.main) /\ heap = Loaded(p) /\ status = "running"
    BY DEF Init, Loaded
  <1>2. KnownHeap(heap)
    BY <1>1 DEF NoGetWords
  <1>3. PICK b, i, s, o, e : b = p.main /\ i = 0 /\ s = << >> /\ o = << >> /\ e = <<1>>
    OBVIOUS
  <1>4. vm = Machine(b, i, s, o, e)
    BY <1>1, <1>3 DEF NewExec, Machine
  <1>5. IsSequence(s) /\ AllKnown(s) /\ IsSequence(e) /\ OwnScopes(e)
    <2>1. << >> \in Seq({1}) /\ <<1>> \in Seq({1}) /\ DOMAIN << >> = {} /\ DOMAIN <<1>> = {1}
      OBVIOUS
    <2>2. QED
      BY <1>3, <2>1 DEF IsSequence, AllKnown, OwnScopes
  <1>6. Legible(vm)
    BY <1>4, <1>5 DEF Legible
  <1>7. QED
    BY <1>1, <1>2, <1>6 DEF Reads

(* What a program without get-words can be: as long as no call borrows,    *)
(* all that it can reach can be read. *)
ReadsUnlessBorrowed == ~borrowed => Reads

(* Programs without get-words never end in an error that means the machine *)
(* lost its own frames, or made a value it cannot read: whatever program,  *)
(* package, heap and limits, as long as no call borrows.                   *)
THEOREM EveryValueCanBeRead ==
  ASSUME NoGetWords
  PROVE  Spec => []NoInternalError
  <1>1. Init => ReadsUnlessBorrowed
    BY InitReads DEF ReadsUnlessBorrowed
  <1>2. SoundUnlessBorrowed /\ ReadsUnlessBorrowed /\ [Next]_vars => ReadsUnlessBorrowed'
    <2> SUFFICES ASSUME SoundUnlessBorrowed, ReadsUnlessBorrowed, [Next]_vars, ~borrowed'
                 PROVE  ReadsNext
      BY DEF ReadsUnlessBorrowed, Reads, ReadsNext, Legible
    <2>1. ~borrowed
      BY OwnArguments
    <2>2. Fit /\ Reads
      BY <2>1 DEF SoundUnlessBorrowed, ReadsUnlessBorrowed
    <2>3. QED
      BY <2>2, NextReads
  <1>3. NothingMissing /\ ReadsUnlessBorrowed => NoInternalError
    BY DEF NoInternalError, ReadsUnlessBorrowed, Reads
  <1>4. QED
    BY <1>1, <1>2, <1>3, SoundAlways, NothingIsMissing, PTL DEF Spec

==============================================================================
