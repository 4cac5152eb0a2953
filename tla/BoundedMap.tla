----------------------------- MODULE BoundedMap -----------------------------
(***************************************************************************)
(* The abstract specification of one context: the state machine over       *)
(* ContextOps that a caller of Context::{put, get, seal, iter} relies on.  *)
(***************************************************************************)
EXTENDS ContextOps

CONSTANTS
  Symbol,   \* symbol ids
  Value,    \* the values stored
  Sizes     \* the sizes contexts are allocated with

VARIABLES
  ctx,      \* the context
  reply     \* the answer to the last call

vars == <<ctx, reply>>

Answer(call, kind, content) == [call |-> call, kind |-> kind, content |-> content]

Init ==
  /\ \E size \in Sizes : ctx = EmptyContext(size)
  /\ reply = Answer(<<"none">>, "none", {})

PutEntry(s, v) ==
  /\ ctx' = Put(ctx, s, v)
  /\ reply' = Answer(<<"put", s>>, PutResult(ctx, s), {})

(* A lookup answers with the value put last under that symbol. *)
Lookup(s) ==
  /\ reply' = IF Bound(ctx, s) THEN Answer(<<"get", s>>, "value", {ctx.entries[s]})
                               ELSE Answer(<<"get", s>>, "WordNotFound", {})
  /\ UNCHANGED ctx

SealContext ==
  /\ ctx' = Seal(ctx)
  /\ reply' = Answer(<<"seal">>, "ok", {})

(* Iteration yields every entry. *)
Iterate ==
  /\ reply' = Answer(<<"iterate">>, "entries", {<<s, ctx.entries[s]>> : s \in DOMAIN ctx.entries})
  /\ UNCHANGED ctx

Next ==
  \/ \E s \in Symbol, v \in Value : PutEntry(s, v)
  \/ \E s \in Symbol : Lookup(s)
  \/ SealContext
  \/ Iterate

Spec == Init /\ [][Next]_vars
=============================================================================
