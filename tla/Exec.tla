-------------------------------- MODULE Exec --------------------------------
(***************************************************************************)
(* The virtual machine of rebel/src/core.rs and the native functions of    *)
(* rebel/src/boot.rs.  A program is a block of values; evaluation is a     *)
(* loop over three stacks: values, pending operations (frames) and         *)
(* contexts.  One action is one turn of that loop: a pending operation     *)
(* that has its arguments runs, else the next value of the block is        *)
(* fetched, else the block is left.                                        *)
(*                                                                         *)
(* Values and memory are those of module Memory.  Stack lengths, ip        *)
(* and arities count values (two words in the code); only the offset       *)
(* foreach keeps counts words, because a program can make it odd.  An      *)
(* address that names no block or context reads as out of bounds.          *)
(***************************************************************************)
EXTENDS Integers, SequencesExt, Memory

CONSTANTS
  Programs,    \* what a run may start from: [blocks, main, system] records
  StackCap,    \* values the stack holds (511: [Word; 1024] less the length)
  OpCap,       \* frames op_stack holds (255)
  EnvCap,      \* contexts env holds (511)
  ContextSize, \* entries of a context made by `context` (64)
  FormSizes,   \* words the text made by `form` may take
  PackageArity,\* arities of the functions that packages add, by index
  LeaveMarker, \* 0x10000
  WordMod      \* 2^32

ASSUME CapsAssumption ==
  /\ StackCap \in Nat /\ OpCap \in Nat /\ EnvCap \in Nat \ {0}
  /\ ContextSize \in Nat /\ FormSizes \subseteq Nat
ASSUME MarkerAssumption == LeaveMarker \in Nat /\ LeaveMarker > 2 * StackCap
ASSUME WordModAssumption ==
  WordMod \in Nat /\ WordMod > LeaveMarker /\ WordMod > HeapCap /\ WordMod > PATH

VARIABLES
  vm,          \* the Exec: block, ip, stack, ops, env
  heap,        \* the Module's memory: blocks, contexts, words in use
  status,      \* "running", "done", or the error eval returned
  borrowed     \* history: has an operation run short of its own arguments?

vars == <<vm, heap, status, borrowed>>

-----------------------------------------------------------------------------
(* Values.                                                                 *)

(* A value is two words, <<tag, data>>. *)
Cells == [1 .. 2 -> 0 .. WordMod - 1]

(* data as i32 *)
Signed(w) == IF 2 * w >= WordMod THEN w - WordMod ELSE w
Wrap(i) == i % WordMod

(* The natives core_package registers, in order: index, name, arity. *)
Native == [add |-> 0, lt |-> 1, do |-> 2, context |-> 3, func |-> 4, either |-> 5,
           print |-> 6, is_block |-> 7, reduce |-> 8, foreach |-> 9, form |-> 10]
Natives == {Native[name] : name \in DOMAIN Native}
NativeArity(f) ==
  CASE f \in {Native.add, Native.lt, Native.func} -> 2
    [] f \in {Native.either, Native.foreach} -> 3   \* foreach's first one is literal
    [] OTHER -> 1
Arity == [f \in Natives \union DOMAIN PackageArity |->
            IF f \in Natives THEN NativeArity(f) ELSE PackageArity[f]]

-----------------------------------------------------------------------------
(* A memory h a program can be in.                                         *)

(* A function is a block: the words its arguments take, its parameters,    *)
(* its body.                                                               *)
Describes(h, desc) ==
  /\ desc \in DOMAIN h.blocks
  /\ Len(h.blocks[desc]) = 3
  /\ h.blocks[desc][2][1] = BLOCK /\ h.blocks[desc][3][1] = BLOCK
  /\ h.blocks[desc][1][2] = 2 * Len(h.blocks[h.blocks[desc][2][2]])

(* A value that leads to what its tag says. *)
Good(h, val) ==
  /\ val \in Cells
  /\ val[1] = BLOCK => val[2] \in DOMAIN h.blocks
  /\ val[1] = CONTEXT => val[2] \in DOMAIN h.ctxs
  /\ val[1] = NATIVE_FN => val[2] \in DOMAIN Arity
  /\ val[1] = FUNC => Describes(h, val[2])

GoodBlock(h, block) ==
  /\ 2 * Len(block) < WordMod
  /\ \A i \in DOMAIN block : Good(h, block[i])

GoodContext(h, ctx) ==
  /\ ctx = [cap |-> ctx.cap, sealed |-> ctx.sealed, entries |-> ctx.entries]
  /\ ctx.cap \in Nat
  /\ ctx.entries = [sym \in DOMAIN ctx.entries |-> ctx.entries[sym]]
  /\ DOMAIN ctx.entries \subseteq 0 .. WordMod - 1
  /\ \A sym \in DOMAIN ctx.entries : Good(h, ctx.entries[sym])

(* Addresses are words, also those of all that the heap has room for. *)
GoodHeap(h) ==
  /\ h = [blocks |-> h.blocks, ctxs |-> h.ctxs, used |-> h.used]
  /\ h.used \in 0 .. HeapCap
  /\ Len(h.blocks) + HeapCap - h.used < WordMod /\ Len(h.ctxs) + HeapCap - h.used < WordMod
  /\ h.blocks \in Seq(Seq(Cells)) /\ h.ctxs \in Seq(Range(h.ctxs))
  /\ \A a \in DOMAIN h.blocks : GoodBlock(h, h.blocks[a])
  /\ \A c \in DOMAIN h.ctxs : GoodContext(h, h.ctxs[c])

(* What Module::init and a parsed program leave in the heap.               *)
Loaded(p) == [blocks |-> p.blocks, ctxs |-> <<p.system>>, used |-> 0]

(* A program is what the parser puts into the heap, and the system context *)
(* what add_native_fn and earlier commands do: each value leads to what    *)
(* its tag says, and offsets fit into a word.                              *)
ASSUME ProgramsAssumption ==
  \A p \in Programs : GoodHeap(Loaded(p)) /\ p.main \in DOMAIN p.blocks

-----------------------------------------------------------------------------
(* Memory.                                                                 *)

BlockAt(a) == IF a \in DOMAIN heap.blocks THEN heap.blocks[a] ELSE << >>

(* get_block::<2>(block, offset): two words, from any word on. *)
HasPair(a, offset) == offset + 2 =< 2 * Len(BlockAt(a))
WordOf(a, offset) == BlockAt(a)[(offset \div 2) + 1][(offset % 2) + 1]
PairAt(a, offset) == <<WordOf(a, offset), WordOf(a, offset + 1)>>

BlockFits(vals) == Fits(heap, BlockWords(vals))
ContextFits(size) == Fits(heap, ContextWords(size))

-----------------------------------------------------------------------------
(* The three stacks.                                                       *)

(* A frame [op, word, bp, arity]; a frame that returns to a block keeps    *)
(* the block in word and LeaveMarker + ip in arity.                        *)
Frame(op, word, bp, arity) == [op |-> op, word |-> word, bp |-> bp, arity |-> arity]

ReturnOps == {"LEAVE_BLOCK", "LEAVE_FUNC", "REDUCE", "FOREACH"}
CallOps   == {"SET_WORD", "CALL_NATIVE", "CALL_FUNC", "CONTEXT"}

Sp(v) == Len(v.stack)
Arg(v, n, i) == v.stack[Sp(v) - n + i]          \* i-th of the top n values
Below(v, n) == SubSeq(v.stack, 1, Sp(v) - n)
PopFrame(v) == [v EXCEPT !.ops = Front(@)]

NewExec(main) ==
  [block |-> main, ip |-> 0, stack |-> << >>, ops |-> << >>, env |-> <<1>>]

-----------------------------------------------------------------------------
(* How a turn ends.  An error ends eval: the Exec is dropped, the heap     *)
(* stays as it is at that point.                                           *)

Fail(error) ==
  /\ status' = error
  /\ UNCHANGED vm

Continue(v) ==
  /\ vm' = v
  /\ UNCHANGED status

(* Mutant: the bound of the stack off by one. *)
Return_OneTooMany(v, n, val) ==
  IF Sp(v) - n =< StackCap
  THEN Continue([v EXCEPT !.stack = Append(Below(v, n), val)])
  ELSE Fail("OutOfMemory")

(* Pop n values, push one. *)
Return(v, n, val) ==
  IF Sp(v) - n < StackCap
  THEN Continue([v EXCEPT !.stack = Append(Below(v, n), val)])
  ELSE Fail("OutOfMemory")

PushValue(v, val) == Return(v, 0, val)

PushOp(v, op, word, arity) ==
  IF Len(v.ops) < OpCap
  THEN Continue([v EXCEPT !.ops = Append(@, Frame(op, word, Sp(v), arity))])
  ELSE Fail("OutOfMemory")

(* jmp_op: remember where we are, continue at the start of block b. *)
Jump(v, b, op) ==
  IF Len(v.ops) < OpCap
  THEN Continue([v EXCEPT !.ops = Append(@, Frame(op, v.block, Sp(v), LeaveMarker + v.ip)),
                          !.block = b, !.ip = 0])
  ELSE Fail("OutOfMemory")

(* Go on after the call that frame f remembers. *)
Resume(v, f) == [v EXCEPT !.block = f.word, !.ip = f.arity - LeaveMarker]

-----------------------------------------------------------------------------
(* resolve: what a word or a path stands for.                              *)

Found(val)      == [error |-> "none", val |-> val]
NotFound(error) == [error |-> error, val |-> <<NONE, 0>>]

(* find_word: the topmost context that binds the symbol, or is none. *)
find_word(env, sym) ==
  LET stops == {i \in DOMAIN env : env[i] \in DOMAIN heap.ctxs => Bound(heap.ctxs[env[i]], sym)}
      c == env[Max(stops)]
  IN  CASE stops = {} -> NotFound("WordNotFound")
        [] stops # {} /\ c \notin DOMAIN heap.ctxs -> NotFound("OutOfBounds")
        [] OTHER -> Found(heap.ctxs[c].entries[sym])

(* A word bound to a word stands for what that one stands for.  After more *)
(* turns than there are bound symbols the chain is a cycle, and the        *)
(* recursion of the code never ends.                                       *)
BoundSymbols == UNION {DOMAIN c.entries : c \in Range(heap.ctxs)}

Chase(env) ==
  LET turns == Cardinality(BoundSymbols) + 1
      chase[n \in 0 .. turns] ==
        [w \in Cells |->
           LET hit == find_word(env, w[2])
           IN  IF w[1] # WORD THEN Found(w)
               ELSE IF n = 0 THEN NotFound("diverged")
               ELSE IF hit.error # "none" THEN hit
               ELSE chase[n - 1][hit.val]]
  IN  chase[turns]

(* A path enters the contexts its words stand for, one on top of the       *)
(* other, and ends at the first word that stands for anything else; the    *)
(* contexts entered are left again.  Other segments are unimplemented!().  *)
Enter(w, segment) ==
  LET hit == find_word(w.env, segment[2])
      error == CASE segment[1] # WORD -> "panic"
                 [] segment[1] = WORD /\ hit.error # "none" -> hit.error
                 [] OTHER -> IF hit.val[1] # CONTEXT THEN "none"
                             ELSE IF Len(w.env) < EnvCap THEN "walking"
                             ELSE "OutOfMemory"
  IN  IF w.error # "walking" THEN w
      ELSE [error |-> error, val |-> hit.val,
            env |-> IF error = "walking" THEN Append(w.env, hit.val[2]) ELSE w.env]

Walk(env, path) ==
  LET walk[n \in 0 .. Len(path)] ==
        IF n = 0 THEN [error |-> "walking", val |-> <<NONE, 0>>, env |-> env]
        ELSE Enter(walk[n - 1], path[n])
  IN  walk[Len(path)]

Walked(env, path) ==
  LET end == Walk(env, BlockAt(path))
  IN  IF end.error = "walking" THEN NotFound("UnexpectedEndOfBlock")
      ELSE [error |-> end.error, val |-> end.val]

resolve(env, val) ==
  LET c == Chase(env)[val]
  IN  IF c.error = "none" /\ c.val[1] = PATH THEN Walked(env, c.val[2]) ELSE c

-----------------------------------------------------------------------------
(* The main loop.                                                          *)

Running == status = "running"
AtEnd   == ~HasPair(vm.block, 2 * vm.ip)
Top     == Last(vm.ops)

(* The frame on top has got its arguments.  A return frame never has: no   *)
(* stack reaches LeaveMarker.                                              *)
Pending == vm.ops # << >> /\ Sp(vm) = Top.bp + Top.arity

Init ==
  \E p \in Programs :
    /\ vm = NewExec(p.main)
    /\ heap = Loaded(p)
    /\ status = "running"
    /\ borrowed = FALSE

(* The call on top of op_stack runs: as soon as it has its arguments, or   *)
(* with what there is when the block ends.                                 *)
Run(op) ==
  /\ Running
  /\ vm.ops # << >>
  /\ Top.op = op
  /\ Pending \/ AtEnd
  /\ borrowed' = (borrowed \/ ~Pending)

(* CALL_FUNC: arguments are bound from the last to the first, so of two    *)
(* parameters with one name the first one wins.  The new context stays     *)
(* allocated when binding fails; nothing refers to it then.                *)
Arguments(v, params) ==
  [sym \in {params[i][2] : i \in DOMAIN params} |->
     Arg(v, Len(params), Min({i \in DOMAIN params : params[i][2] = sym}))]

CallFunction(v, desc) ==
  LET params == BlockAt(BlockAt(desc)[2][2])
      body   == BlockAt(desc)[3][2]
      n      == Len(params)
      size   == 2 * n
      wrong  == {i \in 1 .. n : params[i][1] # WORD}
      short  == 1 .. n - Sp(v)
  IN  IF Len(BlockAt(desc)) < 3
      THEN Fail("OutOfBounds") /\ UNCHANGED heap
      ELSE IF ~ContextFits(size)
      THEN Fail("OutOfMemory") /\ UNCHANGED heap
      ELSE IF wrong \union short # {}
      THEN /\ Fail(IF Max(wrong \union short) \in wrong THEN "BadArguments" ELSE "StackUnderflow")
           /\ heap' = WithContext(heap, EmptyContext(size))
      ELSE /\ heap' = WithContext(heap, [EmptyContext(size) EXCEPT !.entries = Arguments(v, params)])
           /\ IF Len(v.env) = EnvCap
              THEN Fail("OutOfMemory")
              ELSE Jump([v EXCEPT !.stack = Below(v, n),
                                  !.env = Append(@, Len(heap'.ctxs))], body, "LEAVE_FUNC")

CallFunc ==
  /\ Run("CALL_FUNC")
  /\ CallFunction(PopFrame(vm), Top.word)

(* Mutant: env is searched from the bottom. *)
SetWord_Outermost ==
  /\ Run("SET_WORD")
  /\ LET v == PopFrame(vm)
         Answer(i) == PutResult(heap.ctxs[v.env[i]], Top.word)
         takers == {i \in DOMAIN v.env : Answer(i) # "WordNotFound"}
     IN  CASE v.stack = << >> -> Fail("StackUnderflow") /\ UNCHANGED heap
           [] v.stack # << >> /\ takers = {} -> Fail("WordNotFound") /\ UNCHANGED heap
           [] OTHER ->
                IF Answer(Min(takers)) = "ok"
                THEN /\ heap' = [heap EXCEPT !.ctxs[v.env[Min(takers)]] =
                                               Put(@, Top.word, Last(v.stack))]
                     /\ Continue(v)
                ELSE Fail(Answer(Min(takers))) /\ UNCHANGED heap

(* SET_WORD: the topmost context that takes the word; only a sealed one    *)
(* passes it on.  The value stays on the stack.                            *)
SetWord ==
  /\ Run("SET_WORD")
  /\ LET v == PopFrame(vm)
         Answer(i) == PutResult(heap.ctxs[v.env[i]], Top.word)
         takers == {i \in DOMAIN v.env : Answer(i) # "WordNotFound"}
     IN  CASE v.stack = << >> -> Fail("StackUnderflow") /\ UNCHANGED heap
           [] v.stack # << >> /\ takers = {} -> Fail("WordNotFound") /\ UNCHANGED heap
           [] OTHER ->
                IF Answer(Max(takers)) = "ok"
                THEN /\ heap' = [heap EXCEPT !.ctxs[v.env[Max(takers)]] =
                                               Put(@, Top.word, Last(v.stack))]
                     /\ Continue(v)
                ELSE Fail(Answer(Max(takers))) /\ UNCHANGED heap

(* CONTEXT: the block of `context` is left; its value makes room for the   *)
(* context it filled.                                                      *)
EndContext ==
  /\ Run("CONTEXT")
  /\ UNCHANGED heap
  /\ LET v == PopFrame(vm)
     IN  IF v.stack = << >> \/ v.env = << >> THEN Fail("StackUnderflow")
         ELSE Return([v EXCEPT !.env = Front(@)], 1, <<CONTEXT, Last(v.env)>>)

(* The next value of the block is read and resolved: a function waits for  *)
(* its arguments on op_stack, a set-word for its value, anything else is   *)
(* pushed.  The first argument of `foreach` is taken as it stands.         *)
FetchNative(v, func) ==
  CASE func \notin DOMAIN Arity -> Fail("FunctionNotFound")
    [] func = Native.foreach ->
         IF Len(v.ops) = OpCap THEN Fail("OutOfMemory")
         ELSE IF ~HasPair(v.block, 2 * v.ip) THEN Fail("OutOfBounds")
         ELSE PushValue([v EXCEPT !.ops = Append(@, Frame("CALL_NATIVE", func, Sp(v), 3)),
                                  !.ip = @ + 1],
                        PairAt(v.block, 2 * v.ip))
    [] OTHER -> PushOp(v, "CALL_NATIVE", func, Arity[func])

FetchFunc(v, desc) ==
  CASE BlockAt(desc) = << >> -> Fail("OutOfBounds") /\ UNCHANGED heap
    [] BlockAt(desc) # << >> /\ BlockAt(desc)[1][2] = 0 -> CallFunction(v, desc)
    [] OTHER -> PushOp(v, "CALL_FUNC", desc, BlockAt(desc)[1][2] \div 2) /\ UNCHANGED heap

(* A function of no arguments is not kept waiting: it runs in the turn     *)
(* that reads it.  Only packages have such functions, so whoever adds one  *)
(* has an action for that turn. *)
CallsAtOnce(func) ==
  /\ func \in DOMAIN Arity
  /\ Arity[func] = 0
  /\ Running
  /\ ~Pending
  /\ ~AtEnd
  /\ LET r == resolve(vm.env, PairAt(vm.block, 2 * vm.ip))
     IN  r.error = "none" /\ r.val = <<NATIVE_FN, func>>

Fetch ==
  /\ Running
  /\ ~Pending
  /\ ~AtEnd
  /\ \A func \in DOMAIN Arity : ~CallsAtOnce(func)
  /\ UNCHANGED borrowed
  /\ LET r    == resolve(vm.env, PairAt(vm.block, 2 * vm.ip))
         v    == [vm EXCEPT !.ip = @ + 1]
         tag  == r.val[1]
         data == r.val[2]
     IN  CASE r.error # "none" -> Fail(r.error) /\ UNCHANGED heap
           [] r.error = "none" /\ tag = NATIVE_FN -> FetchNative(v, data) /\ UNCHANGED heap
           [] r.error = "none" /\ tag = FUNC -> FetchFunc(v, data)
           [] r.error = "none" /\ tag = SET_WORD ->
                PushOp(v, "SET_WORD", data, 1) /\ UNCHANGED heap
           [] OTHER -> PushValue(v, r.val) /\ UNCHANGED heap

-----------------------------------------------------------------------------
(* The end of a block.                                                     *)

(* No frame left: eval returns the value on top, or NONE.  The model keeps *)
(* the stack to read that value off it.                                    *)
Result == IF vm.stack = << >> THEN <<NONE, 0>> ELSE Last(vm.stack)

Finish ==
  /\ Running
  /\ AtEnd
  /\ vm.ops = << >>
  /\ status' = IF Result[1] \in KnownTags THEN "done" ELSE "UnknownTag"
  /\ UNCHANGED <<vm, heap, borrowed>>

EndOf(op) ==
  /\ Running
  /\ AtEnd
  /\ vm.ops # << >>
  /\ Top.op = op
  /\ UNCHANGED borrowed

(* Mutant: a block without a value leaves none. *)
Leave_NoNone(v, f) ==
  LET n == Sp(v) - f.bp
  IN  CASE n < 0  -> Fail("StackUnderflow")
        [] n = 0  -> Continue(Resume(v, f))
        [] OTHER  -> Return(Resume(v, f), n, Last(v.stack))

(* leave: whatever the block pushed becomes one value. *)
Leave(v, f) ==
  LET n == Sp(v) - f.bp
  IN  CASE n < 0  -> Fail("StackUnderflow")
        [] n = 0  -> Return(Resume(v, f), 0, <<NONE, 0>>)
        [] OTHER  -> Return(Resume(v, f), n, Last(v.stack))

LeaveBlock ==
  /\ EndOf("LEAVE_BLOCK")
  /\ Leave(PopFrame(vm), Top)
  /\ UNCHANGED heap

(* Mutant: a call's context stays on env. *)
LeaveFunc_KeepsContext ==
  /\ EndOf("LEAVE_FUNC")
  /\ UNCHANGED heap
  /\ LET v == PopFrame(vm)
     IN  IF v.env = << >> THEN Fail("StackUnderflow")
         ELSE Leave(v, Top)

LeaveFunc ==
  /\ EndOf("LEAVE_FUNC")
  /\ UNCHANGED heap
  /\ LET v == PopFrame(vm)
     IN  IF v.env = << >> THEN Fail("StackUnderflow")
         ELSE Leave([v EXCEPT !.env = Front(@)], Top)

(* reduce: everything the block pushed becomes a block. *)
LeaveReduce ==
  /\ EndOf("REDUCE")
  /\ LET v      == PopFrame(vm)
         values == SubSeq(v.stack, Top.bp + 1, Sp(v))
     IN  IF Sp(v) < Top.bp THEN Fail("InternalError") /\ UNCHANGED heap
         ELSE IF ~BlockFits(values) THEN Fail("OutOfMemory") /\ UNCHANGED heap
         ELSE /\ heap' = WithBlock(heap, values)
              /\ Return(Resume(v, Top), Len(values), <<BLOCK, Len(heap'.blocks)>>)

(* u32 addition: a build with overflow checks panics, another one wraps. *)
Sums(a, b) == IF a + b < WordMod THEN {a + b} ELSE {-1, Wrap(a + b)}

(* Mutant: the offset advances by a word, not by a value. *)
NextOffset_OneWord(i) == Sums(i, 1)

(* Mutant: the offset does not advance. *)
NextOffset_Same(i) == {i}

NextOffset(i) == Sums(i, 2)

(* foreach: the value of the body is dropped, and under it the offset.     *)
(* While the data goes on, its next value is put in the loop's context and *)
(* the body runs again; then the arguments and the context go, and no      *)
(* value is left in their place.                                           *)
LeaveForeach ==
  /\ EndOf("FOREACH")
  /\ LET args == SubSeq(vm.stack, 1, Top.bp - 1)
         v    == [PopFrame(vm) EXCEPT !.stack = args]
         word == Arg(v, 3, 1)[2]
         data == Arg(v, 3, 2)[2]
         body == Arg(v, 3, 3)[2]
         Again(index) ==
           LET answer == PutResult(heap.ctxs[Last(v.env)], word)
           IN  IF answer = "ok"
               THEN /\ heap' = [heap EXCEPT !.ctxs[Last(v.env)] =
                                              Put(@, word, PairAt(data, index))]
                    /\ Continue([v EXCEPT
                         !.stack = Append(args, <<INT, index>>),
                         !.ops   = Append(@, Frame("FOREACH", Top.word, Top.bp, Top.arity)),
                         !.block = body, !.ip = 0])
               ELSE Fail(answer) /\ UNCHANGED heap
         Over == /\ Continue(Resume([v EXCEPT !.stack = Below(v, 3), !.env = Front(@)], Top))
                 /\ UNCHANGED heap
     IN  IF Sp(vm) < Top.bp THEN Fail("InternalError") /\ UNCHANGED heap
         ELSE IF Top.bp < 4 \/ v.env = << >> THEN Fail("StackUnderflow") /\ UNCHANGED heap
         ELSE \E index \in NextOffset(vm.stack[Top.bp][2]) :
                IF index = -1 THEN Fail("panic") /\ UNCHANGED heap
                ELSE IF HasPair(data, index) THEN Again(index) ELSE Over

-----------------------------------------------------------------------------
(* The native functions.  Each pops its arguments at once and matches      *)
(* their tags.                                                             *)

Calls(name) == Run("CALL_NATIVE") /\ Top.word = Native[name]

ArgError(v, tags) ==
  CASE Sp(v) < Len(tags) -> "StackUnderflow"
    [] Sp(v) >= Len(tags) /\ (\E i \in DOMAIN tags : Arg(v, Len(tags), i)[1] # tags[i]) ->
         "BadArguments"
    [] OTHER -> "none"

(* i32 addition, with the two kinds of build. *)
SignedSums(a, b) ==
  LET sum == Signed(a) + Signed(b)
  IN  IF Signed(Wrap(sum)) = sum THEN {Wrap(sum)} ELSE {-1, Wrap(sum)}

add ==
  /\ Calls("add")
  /\ UNCHANGED heap
  /\ LET v == PopFrame(vm)
         error == ArgError(v, <<INT, INT>>)
     IN  IF error # "none" THEN Fail(error)
         ELSE \E sum \in SignedSums(Arg(v, 2, 1)[2], Arg(v, 2, 2)[2]) :
                IF sum = -1 THEN Fail("panic") ELSE Return(v, 2, <<INT, sum>>)

lt ==
  /\ Calls("lt")
  /\ UNCHANGED heap
  /\ LET v == PopFrame(vm)
         error == ArgError(v, <<INT, INT>>)
     IN  IF error # "none" THEN Fail(error)
         ELSE Return(v, 2, Bool(Signed(Arg(v, 2, 1)[2]) < Signed(Arg(v, 2, 2)[2])))

func_do ==
  /\ Calls("do")
  /\ UNCHANGED heap
  /\ LET v == PopFrame(vm)
         error == ArgError(v, <<BLOCK>>)
     IN  IF error # "none" THEN Fail(error)
         ELSE Jump([v EXCEPT !.stack = Below(v, 1)], Arg(v, 1, 1)[2], "LEAVE_BLOCK")

(* A new context goes on env while the block fills it; the frame under the *)
(* block's own turns the block's value into the context (EndContext).      *)
context ==
  /\ Calls("context")
  /\ LET v == PopFrame(vm)
         error == ArgError(v, <<BLOCK>>)
         called == [v EXCEPT !.stack = Below(v, 1),
                             !.env = Append(@, Len(heap.ctxs) + 1),
                             !.ops = Append(@, Frame("CONTEXT", 0, Sp(v) - 1, 1))]
     IN  IF error # "none" THEN Fail(error) /\ UNCHANGED heap
         ELSE IF ~ContextFits(ContextSize) THEN Fail("OutOfMemory") /\ UNCHANGED heap
         ELSE /\ heap' = WithContext(heap, EmptyContext(ContextSize))
              /\ IF Len(v.env) = EnvCap \/ Len(v.ops) = OpCap
                 THEN Fail("OutOfMemory")
                 ELSE Jump(called, Arg(v, 1, 1)[2], "LEAVE_BLOCK")

(* Anything but a block is its own value. *)
reduce ==
  /\ Calls("reduce")
  /\ UNCHANGED heap
  /\ LET v == PopFrame(vm)
     IN  IF v.stack = << >> THEN Fail("StackUnderflow")
         ELSE IF Last(v.stack)[1] # BLOCK THEN Continue(v)
         ELSE Jump([v EXCEPT !.stack = Below(v, 1)], Last(v.stack)[2], "REDUCE")

(* Mutant: a loop starts without its offset. *)
WithOffset_None(stack) == stack

WithOffset(stack) == Append(stack, <<INT, 0>>)

(* The loop keeps its arguments and the offset of the current value on the *)
(* stack, and its word in a sealed context of its own.  No data, no value. *)
foreach ==
  /\ Calls("foreach")
  /\ LET v     == PopFrame(vm)
         error == ArgError(v, <<WORD, BLOCK, BLOCK>>)
         word  == Arg(v, 3, 1)[2]
         data  == Arg(v, 3, 2)[2]
         body  == Arg(v, 3, 3)[2]
     IN  IF error # "none" THEN Fail(error) /\ UNCHANGED heap
         ELSE IF ~HasPair(data, 0)
              THEN Continue([v EXCEPT !.stack = Below(v, 3)]) /\ UNCHANGED heap
         ELSE IF ~ContextFits(1) THEN Fail("OutOfMemory") /\ UNCHANGED heap
         ELSE /\ heap' = WithContext(heap, Seal(Put(EmptyContext(1), word, PairAt(data, 0))))
              /\ IF Len(v.env) = EnvCap \/ Sp(v) = StackCap
                 THEN Fail("OutOfMemory")
                 ELSE Jump([v EXCEPT !.env = Append(@, Len(heap'.ctxs)),
                                     !.stack = WithOffset(@)], body, "FOREACH")

(* A function is a block of its own: the words its arguments take, its     *)
(* parameters, its body.                                                   *)
func ==
  /\ Calls("func")
  /\ LET v      == PopFrame(vm)
         error  == ArgError(v, <<BLOCK, BLOCK>>)
         params == Arg(v, 2, 1)[2]
         desc   == <<<<INT, 2 * Len(BlockAt(params))>>, <<BLOCK, params>>, Arg(v, 2, 2)>>
     IN  IF error # "none" THEN Fail(error) /\ UNCHANGED heap
         ELSE IF ~BlockFits(desc) THEN Fail("OutOfMemory") /\ UNCHANGED heap
         ELSE /\ heap' = WithBlock(heap, desc)
              /\ Return(v, 2, <<FUNC, Len(heap'.blocks)>>)

either ==
  /\ Calls("either")
  /\ UNCHANGED heap
  /\ LET v == PopFrame(vm)
         error == ArgError(v, <<BOOL, BLOCK, BLOCK>>)
         branch == IF Arg(v, 3, 1)[2] # 0 THEN 2 ELSE 3
     IN  IF error # "none" THEN Fail(error)
         ELSE Jump([v EXCEPT !.stack = Below(v, 3)], Arg(v, 3, branch)[2], "LEAVE_BLOCK")

is_block ==
  /\ Calls("is_block")
  /\ UNCHANGED heap
  /\ LET v == PopFrame(vm)
     IN  IF v.stack = << >> THEN Fail("StackUnderflow")
         ELSE Return(v, 1, Bool(Last(v.stack)[1] = BLOCK))

(* to_value reads a value with all it contains: an unknown tag anywhere is *)
(* an error.  (Depth: values nest no deeper than there are blocks and      *)
(* contexts to nest in.)                                                   *)
Readable(val) ==
  LET depth == Len(heap.blocks) + Len(heap.ctxs)
      reads[n \in 0 .. depth] ==
        [w \in Cells |->
           /\ w[1] \in KnownTags
           /\ n > 0 /\ w[1] \in {BLOCK, PATH} =>
                \A i \in DOMAIN BlockAt(w[2]) : reads[n - 1][BlockAt(w[2])[i]]
           /\ n > 0 /\ w[1] = CONTEXT =>
                \A s \in DOMAIN heap.ctxs[w[2]].entries : reads[n - 1][heap.ctxs[w[2]].entries[s]]]
  IN  reads[depth][val]

(* Mutant: the value is popped again after it was shown. *)
print_PopsTwice ==
  /\ Calls("print")
  /\ UNCHANGED heap
  /\ LET v == PopFrame(vm)
     IN  CASE v.stack = << >> -> Fail("StackUnderflow")
           [] v.stack # << >> /\ ~Readable(Last(v.stack)) -> Fail("UnknownTag")
           [] OTHER -> Continue([v EXCEPT !.stack = SubSeq(@, 1, Len(@) - 2)])

(* print leaves nothing on the stack; form leaves a string. *)
print ==
  /\ Calls("print")
  /\ UNCHANGED heap
  /\ LET v == PopFrame(vm)
     IN  CASE v.stack = << >> -> Fail("StackUnderflow")
           [] v.stack # << >> /\ ~Readable(Last(v.stack)) -> Fail("UnknownTag")
           [] OTHER -> Continue([v EXCEPT !.stack = Front(@)])

(* The text itself is not modelled: a block without values stands for it.  *)
form ==
  /\ Calls("form")
  /\ LET v == PopFrame(vm)
     IN  IF v.stack = << >> THEN Fail("StackUnderflow") /\ UNCHANGED heap
         ELSE IF ~Readable(Last(v.stack)) THEN Fail("UnknownTag") /\ UNCHANGED heap
         ELSE \E size \in FormSizes :
                IF heap.used + size + 1 > HeapCap THEN Fail("OutOfMemory") /\ UNCHANGED heap
                ELSE /\ heap' = [heap EXCEPT !.blocks = Append(@, << >>), !.used = @ + size + 1]
                     /\ Return(v, 1, <<INLINE_STRING, Len(heap'.blocks)>>)

-----------------------------------------------------------------------------
CallNative ==
  \/ add \/ lt \/ func_do \/ context \/ func \/ either
  \/ print \/ is_block \/ reduce \/ foreach \/ form

EndBlock == Finish \/ LeaveBlock \/ LeaveFunc \/ LeaveReduce \/ LeaveForeach

Next == Fetch \/ SetWord \/ CallFunc \/ EndContext \/ CallNative \/ EndBlock

Spec == Init /\ [][Next]_vars

(* eval has returned. *)
Returned == ~Running /\ UNCHANGED vars

(* eval is a loop of one thread: it takes the next turn unless it returns. *)
(* That it always has one is the deadlock check's to show.  With that this *)
(* is weak fairness of Next, whose ENABLED takes TLC long.                 *)
FairSpec ==
  /\ Init /\ [][Next \/ Returned]_vars
  /\ []<>(~Running) \/ []<><<Next>>_vars
-----------------------------------------------------------------------------

(* Stack cells are words, the stacks and the heap keep within their        *)
(* limits, ip stays in its block, env and op_stack hold what they should.  *)
TypeOK ==
  /\ vm.block \in Nat /\ vm.ip \in 0 .. Len(BlockAt(vm.block))
  /\ \A i \in DOMAIN vm.stack : vm.stack[i] \in Cells
  /\ Len(vm.stack) =< StackCap /\ Len(vm.ops) =< OpCap /\ Len(vm.env) =< EnvCap
  /\ \A i \in DOMAIN vm.ops : vm.ops[i].op \in ReturnOps \union CallOps
  /\ \A i \in DOMAIN vm.env : vm.env[i] \in DOMAIN heap.ctxs
  /\ heap.used =< HeapCap
  /\ borrowed \in BOOLEAN

(* Every context on env but the first belongs to one frame, in order: a    *)
(* call's, a loop's, or that of a context being filled.  A missed or       *)
(* doubled pop would resolve words in the wrong scope from then on.        *)
OwnerOps == {"LEAVE_FUNC", "FOREACH", "CONTEXT"}
Owners == {i \in DOMAIN vm.ops : vm.ops[i].op \in OwnerOps}
EnvMatchesFrames == Running => Len(vm.env) = 1 + Cardinality(Owners)

(* The base of a frame is never above that of a later one, nor above the   *)
(* stack: no operation that gets its arguments takes a caller's values.    *)
StackDiscipline ==
  Running /\ ~borrowed =>
    \A i \in DOMAIN vm.ops :
      vm.ops[i].bp =< IF i = Len(vm.ops) THEN Sp(vm) ELSE vm.ops[i + 1].bp

(* While a loop runs, its arguments lie under its frame, the offset is     *)
(* that of one of its data's values, and its own context is sealed around  *)
(* its word alone.                                                         *)
LoopIntact ==
  Running /\ ~borrowed =>
    \A i \in DOMAIN vm.ops : vm.ops[i].op = "FOREACH" =>
      LET at(k) == vm.stack[vm.ops[i].bp - 4 + k]
          ctx == heap.ctxs[vm.env[1 + Cardinality({j \in Owners : j =< i})]]
      IN  /\ <<at(1)[1], at(2)[1], at(3)[1], at(4)[1]>> = <<WORD, BLOCK, BLOCK, INT>>
          /\ at(4)[2] % 2 = 0
          /\ HasPair(at(2)[2], at(4)[2])
          /\ ctx.sealed /\ DOMAIN ctx.entries = {at(1)[2]}

(* The errors that would mean the machine lost its own frames never come   *)
(* out of operations that got their arguments.                             *)
NothingMissing == ~borrowed => status \notin {"InternalError", "FunctionNotFound", "StackUnderflow"}

(* A value to_value reads with all it contains: not the system context,    *)
(* which holds the native functions.  They may be bound there only.        *)
Known(val) == val[1] \in KnownTags /\ ~(val[1] = CONTEXT /\ val[2] = 1)
Bindable(c, val) == Known(val) \/ (c = 1 /\ val[1] = NATIVE_FN)

KnownHeap(h) ==
  /\ h.ctxs # << >>
  /\ \A a \in DOMAIN h.blocks : \A j \in DOMAIN h.blocks[a] : Known(h.blocks[a][j])
  /\ \A c \in DOMAIN h.ctxs : \A sym \in DOMAIN h.ctxs[c].entries :
       Bindable(c, h.ctxs[c].entries[sym])

(* What the parser makes of a text without get-words.                      *)
NoGetWords == \A p \in Programs : KnownHeap(Loaded(p))

(* Nor does a value it cannot read, in programs without get-words.         *)
NoInternalError == NothingMissing /\ (~borrowed => status # "UnknownTag")

(* Every program comes to its end, however it recurses or loops: deep      *)
(* recursion by the limit on frames, loops by the end of their data.  Two  *)
(* things are outside: a word bound to itself, on which resolve recurses   *)
(* for ever (status "diverged"), and calls short of arguments, which may   *)
(* overwrite the offset of a loop.                                         *)
Terminates == <>(~Running \/ borrowed)
=============================================================================
