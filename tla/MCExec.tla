------------------------------- MODULE MCExec -------------------------------
(* Programs of one or two of the phrases below, run after a command that   *)
(* bound b to a block of one or two phrases of another set.  The block can *)
(* use b itself, so that programs recurse.  The first set is of phrases    *)
(* that often run short of arguments, recurse without end or meet limits,  *)
(* the second of such as mostly come to a result.  All are also compared   *)
(* with their meaning (ExecMeaning): the loop over three stacks must reach *)
(* the result, the error and the memory that it defines.                   *)
EXTENDS ExecMeaning

(* The symbols of the natives come first, as core_package registers them. *)
W(name) == <<WORD, Native[name] + 1>>
x == <<WORD, 12>>
f == <<WORD, 13>>
y == <<WORD, 14>>
b == <<WORD, 15>>
Set(w) == <<SET_WORD, w[2]>>
Num(n) == <<INT, n>>

Data   == <<BLOCK, 3>>
Params == <<BLOCK, 4>>
Empty  == <<BLOCK, 5>>
Path   == <<PATH, 6>>
Loop   == <<PATH, 7>>
Small  == <<BLOCK, 8>>
Again  == <<BLOCK, 9>>

Library == <<
  <<Num(20), x, Num(20)>>, <<x>>, << >>, <<f, x>>, <<f, f>>,
  <<Num(20), Set(y), x>>, <<W("do"), b>> >>

LooseOpeners == {
  <<Num(20)>>, <<W("add"), Num(500)>>, <<Set(x)>>, <<Set(f), W("context"), b>>,
  <<W("foreach"), x, Data, b>>, <<Set(f), W("func"), Params, b, f>> }

LooseMain == LooseOpeners \union {
  <<x>>, <<Path>>, <<Loop>>, <<W("do"), b>>, <<W("reduce"), b>>,
  <<Set(f), W("func"), Empty, b, f>>,
  <<W("either"), W("lt"), Num(20), Num(30), b, Empty>> }

LooseBody == {
  <<Num(400)>>, <<x>>, <<Set(x)>>, <<Set(y), Num(400)>>, <<f>>,
  <<W("add"), Num(1)>>, <<W("do"), b>>, <<W("is_block")>>,
  <<W("print")>>, <<W("print"), x>>, <<W("form")>>, <<W("foreach")>> }

Chains(first, next) == next \union {p \o q : p \in first, q \in next}

(* Functions of one parameter that are called with expressions, loops that *)
(* assign to their own word and to others, contexts, paths into them,      *)
(* recursion with an end.                                                  *)
MeaningfulMain == {
  <<W("add"), Num(20), Set(x), Num(30)>>,
  <<Set(f), W("func"), Params, b, f, W("add"), Num(20), f, Num(30)>>,
  <<Set(f), W("context"), b, Path>>,
  <<Set(x), W("reduce"), b>>,
  <<W("foreach"), x, Data, b>>,
  <<W("foreach"), y, Data, b, y>>,
  <<Set(x), Num(20), W("do"), b>>,
  <<Set(f), W("func"), Small, b, f, Num(20)>> }

MeaningfulBody == {
  <<x>>, <<Set(x), Num(30)>>, <<Set(y), W("add"), Num(20), x>>,
  <<W("either"), W("lt"), x, Num(25), Small, Again>>,
  <<W("reduce"), Params>>, <<W("do"), x>>, <<W("foreach"), y, Data, Small>>,
  <<W("foreach"), y, Empty, Small>>,
  <<W("print"), x>>, <<W("form"), W("is_block"), x>>, <<W("context"), Small>> }

System == [cap |-> 14, sealed |-> FALSE,
           entries |-> [w \in 1 .. 11 |-> <<NATIVE_FN, w - 1>>] @@ 15 :> <<BLOCK, 2>>]

(* The main block and the block of b. *)
Pairs(mains, bodies) == mains \X Chains(bodies, bodies)

MCPrograms ==
  {[blocks |-> pair \o Library, main |-> 1, system |-> System] :
     pair \in UNION {Pairs(Chains(LooseOpeners, LooseMain), LooseBody),
                     Pairs(Chains(MeaningfulMain, MeaningfulMain), MeaningfulBody)}}

MCFormSizes == {2}

NoPackages == << >>

(* None of these programs has a get-word. *)
ASSUME ReadablePrograms == NoGetWords

-----------------------------------------------------------------------------
(* What the program means, from the blocks it consists of and the system   *)
(* context it starts from.                                                 *)
SourceBlocks == 2 + Len(Library)
Reference == MeaningOf(SubSeq(heap.blocks, 1, SourceBlocks), <<System>>, 1)

(* A build with overflow checks panics where the meaning is the wrapped    *)
(* sum; one without is compared.                                           *)
Overflowed ==
  /\ status = "panic" /\ Pending
  /\ Top.op = "CALL_NATIVE" /\ Top.word = Native["add"]
  /\ -1 \in SignedSums(Arg(vm, 2, 1)[2], Arg(vm, 2, 2)[2])

Ended == ~Running /\ status # "OutOfMemory" /\ ~Overflowed

(* The machine computes what the program means: the same result and the    *)
(* same blocks and contexts, or the same error after the same effects.     *)
(* Saving and restoring block, ip, frames and contexts around every call,  *)
(* loop and nested block is right exactly if this holds.                   *)
AgreesWithReference == Ended /\ ~borrowed => Agrees(Reference)

(* A call runs short of arguments exactly when the program's text does: no *)
(* call is handed values that a caller still needs for any other reason.   *)
BorrowsOnlyWhenShort ==
  Ended => (borrowed <=> Reference.error = "short")
=============================================================================
