----------------------------- MODULE ContextOps -----------------------------
(***************************************************************************)
(* A context of the virtual machine, as the code that uses it sees it: a   *)
(* bounded map from symbol ids to values that can be sealed against new    *)
(* keys.  Module ContextTable shows that the hash table of                 *)
(* rebel/src/mem.rs is such a map; module Exec builds on the operators     *)
(* here.                                                                   *)
(***************************************************************************)
EXTENDS Naturals, FiniteSets

(* Heap::alloc_context(size) *)
EmptyContext(size) == [cap |-> size, sealed |-> FALSE, entries |-> << >>]

Bound(ctx, sym) == sym \in DOMAIN ctx.entries

(* What Context::put answers; "ok" is the only answer with an effect. *)
PutResult(ctx, sym) ==
  CASE ctx.cap = 0                                -> "SymbolTableFull"
    [] ctx.cap # 0 /\ Bound(ctx, sym)             -> "ok"
    [] ctx.cap # 0 /\ ~Bound(ctx, sym) /\ ctx.sealed -> "WordNotFound"
    [] OTHER -> IF Cardinality(DOMAIN ctx.entries) < ctx.cap
                THEN "ok" ELSE "ContextFull"

WithEntry(entries, sym, val) ==
  [s \in DOMAIN entries \union {sym} |-> IF s = sym THEN val ELSE entries[s]]

Put(ctx, sym, val) ==
  IF PutResult(ctx, sym) = "ok"
  THEN [ctx EXCEPT !.entries = WithEntry(@, sym, val)]
  ELSE ctx

Seal(ctx) == [ctx EXCEPT !.sealed = TRUE]
=============================================================================
