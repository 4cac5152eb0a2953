----------------------------- MODULE ExecMeaning -----------------------------
(***************************************************************************)
(* What a program of the virtual machine means, defined by recursion on    *)
(* its structure: no value stack, no frames, no ip to save and restore.    *)
(* The definitions follow the same sources as module Exec, of which this   *)
(* is the abstract counterpart: Exec's loop over three stacks must reach   *)
(* the same result, the same error and the same memory.                    *)
(*                                                                         *)
(* The limits of the stacks and of the heap are not part of the meaning,   *)
(* and neither is what happens when a block ends before a call has its     *)
(* arguments ("short").  RECURSIVE operators are for TLC alone.            *)
(***************************************************************************)
EXTENDS Exec

(* The memory a program works on. *)
Store(blocks, ctxs) == [blocks |-> blocks, ctxs |-> ctxs]

(* What an evaluation yields: an error or "none", the values it leaves,    *)
(* the memory, the position after what it read.                            *)
Yields(error, values, store, next) ==
  [error |-> error, values |-> values, store |-> store, next |-> next]

Value(val, store, next) == Yields("none", <<val>>, store, next)
Nothing(store, next)    == Yields("none", << >>, store, next)
Wrong(error, store)     == Yields(error, << >>, store, 0)

NewBlock(store, vals) == [store EXCEPT !.blocks = Append(@, vals)]
NewContext(store, c)  == [store EXCEPT !.ctxs = Append(@, c)]

(* One value for a block: its last, or NONE. *)
OneValue(r) ==
  IF r.error # "none" THEN r
  ELSE [r EXCEPT !.values = <<IF @ = << >> THEN <<NONE, 0>> ELSE Last(@)>>]

(* The innermost scope that binds the symbol; scopes are listed outermost  *)
(* first.                                                                  *)
RECURSIVE Scope(_, _, _)
Scope(store, env, sym) ==
  CASE env = << >> -> 0
    [] env # << >> /\ Bound(store.ctxs[Last(env)], sym) -> Last(env)
    [] OTHER -> Scope(store, Front(env), sym)

RECURSIVE Meaning(_, _, _, _)
RECURSIVE PathMeaning(_, _, _)

Meaning(store, env, val, turns) ==
  LET c == Scope(store, env, val[2])
  IN  CASE val[1] = PATH -> PathMeaning(store, env, BlockAt(val[2]))
        [] val[1] = WORD /\ turns = 0 -> NotFound("diverged")
        [] val[1] = WORD /\ turns > 0 ->
             IF c = 0 THEN NotFound("WordNotFound")
             ELSE Meaning(store, env, store.ctxs[c].entries[val[2]], turns - 1)
        [] OTHER -> Found(val)

PathMeaning(store, env, path) ==
  LET c   == Scope(store, env, Head(path)[2])
      hit == store.ctxs[c].entries[Head(path)[2]]
  IN  CASE path = << >> -> NotFound("UnexpectedEndOfBlock")
        [] path # << >> /\ Head(path)[1] # WORD -> NotFound("panic")
        [] OTHER ->
             IF c = 0 THEN NotFound("WordNotFound")
             ELSE IF hit[1] = CONTEXT
             THEN PathMeaning(store, Append(env, hit[2]), Tail(path))
             ELSE Found(hit)

(* Assignment: the innermost scope takes the word, unless it is sealed and *)
(* does not have it yet.                                                   *)
RECURSIVE Assign(_, _, _, _, _)
Assign(store, env, sym, val, next) ==
  IF env = << >> THEN Wrong("WordNotFound", store)
  ELSE LET c == Last(env)
           answer == PutResult(store.ctxs[c], sym)
       IN  CASE answer = "ok" ->
                  Value(val, [store EXCEPT !.ctxs[c] = Put(@, sym, val)], next)
             [] answer = "WordNotFound" -> Assign(store, Front(env), sym, val, next)
             [] OTHER -> Wrong(answer, store)

(* RunBlock evaluates a block from its i-th value on to all the values it  *)
(* leaves, Expr the expression at its i-th value, and Gather as many       *)
(* expressions from there on as leave n values.  depth bounds the nesting  *)
(* of blocks.                                                              *)
RECURSIVE RunBlock(_, _, _, _, _, _)
RECURSIVE Expr(_, _, _, _, _)
RECURSIVE Gather(_, _, _, _, _, _, _)
RECURSIVE Loops(_, _, _, _, _)

Whole(store, env, b, depth) == RunBlock(store, env, b, 1, << >>, depth - 1)

RunOn(r, env, b, values, depth) ==
  IF r.error # "none" THEN r
  ELSE RunBlock(r.store, env, b, r.next, values \o r.values, depth)

RunBlock(store, env, b, i, values, depth) ==
  CASE depth = 0 -> Wrong("deep", store)
    [] depth # 0 /\ i > Len(store.blocks[b]) -> Yields("none", values, store, i)
    [] OTHER -> RunOn(Expr(store, env, b, i, depth), env, b, values, depth)

GatherOn(r, env, b, n, values, depth) ==
  IF r.error # "none" THEN r
  ELSE Gather(r.store, env, b, r.next, n, values \o r.values, depth)

Gather(store, env, b, i, n, values, depth) ==
  CASE Len(values) = n -> Yields("none", values, store, i)
    [] Len(values) # n /\ i > Len(store.blocks[b]) -> Wrong("short", store)
    [] OTHER -> GatherOn(Expr(store, env, b, i, depth), env, b, n, values, depth)

(* What is called, and the number of arguments it takes.                   *)
Calling(val)  == val[1] \in {SET_WORD, NATIVE_FN, FUNC}
Is(val, name) == val = <<NATIVE_FN, Native[name]>>
Parameters(store, desc) == store.blocks[store.blocks[desc][2][2]]
Takes(val, store) ==
  CASE val[1] = SET_WORD  -> 1
    [] val[1] = NATIVE_FN -> Arity[val[2]]
    [] val[1] = FUNC      -> Len(Parameters(store, val[2]))

(* The turns of a loop from the one on in which the i-th value of its data *)
(* is bound to its word, the first of the loop's arguments a.              *)
LoopOn(r, env, a, i, depth) ==
  CASE r.error # "none" -> r
    [] r.error = "none" /\ i = Len(r.store.blocks[a[2][2]]) -> Nothing(r.store, 0)
    [] OTHER -> Loops([r.store EXCEPT !.ctxs[Last(env)] =
                                        Put(@, a[1][2], r.store.blocks[a[2][2]][i + 1])],
                      env, a, i + 1, depth)

Loops(store, env, a, i, depth) ==
  LoopOn(Whole(store, env, a[3][2], depth), env, a, i, depth)

(* The value a call makes of what its block yields.                        *)
Becomes(r, val) == IF r.error # "none" THEN r ELSE Value(val, r.store, 0)
Reduced(r) ==
  IF r.error # "none" THEN r
  ELSE Value(<<BLOCK, Len(r.store.blocks) + 1>>, NewBlock(r.store, r.values), 0)

(* A function binds its parameters in a context of its own; of two with    *)
(* one name the first one counts.                                          *)
CallContext(params, a) ==
  [cap |-> 2 * Len(params), sealed |-> FALSE,
   entries |-> [s \in {params[k][2] : k \in DOMAIN params} |->
                  a[Min({k \in DOMAIN params : params[k][2] = s})]]]

FunctionCall(store, env, desc, params, a, depth) ==
  IF \E k \in DOMAIN params : params[k][1] # WORD
  THEN Wrong("BadArguments", NewContext(store, EmptyContext(2 * Len(params))))
  ELSE OneValue(Whole(NewContext(store, CallContext(params, a)),
                      Append(env, Len(store.ctxs) + 1), store.blocks[desc][3][2], depth))

LoopContext(word, val) == [cap |-> 1, sealed |-> TRUE, entries |-> [s \in {word} |-> val]]

Signature(val) ==
  CASE Is(val, "add") \/ Is(val, "lt") -> <<INT, INT>>
    [] Is(val, "do") \/ Is(val, "context") -> <<BLOCK>>
    [] Is(val, "either")  -> <<BOOL, BLOCK, BLOCK>>
    [] Is(val, "func")    -> <<BLOCK, BLOCK>>
    [] Is(val, "foreach") -> <<WORD, BLOCK, BLOCK>>
    [] OTHER -> << >>

(* The call of val with the arguments a. *)
Apply(store, env, val, a, depth) ==
  LET v(k)   == a[k][2]
      opened == Len(store.ctxs) + 1
      made   == Len(store.blocks) + 1
      tags   == Signature(val)
  IN  CASE \E k \in DOMAIN tags : a[k][1] # tags[k] -> Wrong("BadArguments", store)
        [] val[1] = SET_WORD -> Assign(store, env, val[2], a[1], 0)
        [] val[1] = FUNC ->
             FunctionCall(store, env, val[2], Parameters(store, val[2]), a, depth)
        [] Is(val, "add") -> Value(<<INT, Wrap(v(1) + v(2))>>, store, 0)
        [] Is(val, "lt")  -> Value(Bool(Signed(v(1)) < Signed(v(2))), store, 0)
        [] Is(val, "do")  -> OneValue(Whole(store, env, v(1), depth))
        [] Is(val, "either") ->
             OneValue(Whole(store, env, IF v(1) # 0 THEN v(2) ELSE v(3), depth))
        [] Is(val, "context") ->
             Becomes(Whole(NewContext(store, EmptyContext(ContextSize)),
                           Append(env, opened), v(1), depth),
                     <<CONTEXT, opened>>)
        [] Is(val, "reduce") ->
             IF a[1][1] # BLOCK THEN Value(a[1], store, 0)
             ELSE Reduced(Whole(store, env, v(1), depth))
        [] Is(val, "func") ->
             Value(<<FUNC, made>>,
                   NewBlock(store, <<<<INT, 2 * Len(store.blocks[v(1)])>>, a[1], a[2]>>), 0)
        [] Is(val, "is_block") -> Value(Bool(a[1][1] = BLOCK), store, 0)
        [] Is(val, "print") -> Nothing(store, 0)
        [] Is(val, "form")  -> Value(<<INLINE_STRING, made>>, NewBlock(store, << >>), 0)
        [] Is(val, "foreach") ->
             IF store.blocks[v(2)] = << >> THEN Nothing(store, 0)
             ELSE Loops(NewContext(store, LoopContext(v(1), store.blocks[v(2)][1])),
                        Append(env, opened), a, 1, depth)

ApplyTo(args, env, val, depth) ==
  IF args.error # "none" THEN args
  ELSE [Apply(args.store, env, val, args.values, depth) EXCEPT !.next = args.next]

(* The first argument of `foreach` is taken as it stands.                  *)
ExprOf(m, store, env, b, i, depth) ==
  LET literal == IF Is(m.val, "foreach") /\ i < Len(store.blocks[b])
                 THEN <<store.blocks[b][i + 1]>> ELSE << >>
  IN  CASE m.error # "none" -> Wrong(m.error, store)
        [] m.error = "none" /\ ~Calling(m.val) -> Value(m.val, store, i + 1)
        [] m.error = "none" /\ Is(m.val, "foreach") /\ literal = << >> ->
             Wrong("OutOfBounds", store)
        [] OTHER -> ApplyTo(Gather(store, env, b, i + 1 + Len(literal),
                                   Takes(m.val, store), literal, depth),
                            env, m.val, depth)

Expr(store, env, b, i, depth) ==
  ExprOf(Meaning(store, env, store.blocks[b][i], 20), store, env, b, i, depth)

-----------------------------------------------------------------------------
(* What a block leaves when it is evaluated in the system context.  A      *)
(* program nests no deeper than there are frames, or the machine fails.    *)
MeaningOf(blocks, ctxs, main) ==
  OneValue(Whole(Store(blocks, ctxs), <<1>>, main, OpCap + 2))

Agrees(r) ==
  /\ r.error = IF status = "done" THEN "none" ELSE status
  /\ status = "done" => <<Result>> = r.values
  /\ <<heap.blocks, heap.ctxs>> = <<r.store.blocks, r.store.ctxs>>
=============================================================================
