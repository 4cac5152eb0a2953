----------------------------- MODULE Interning -----------------------------
(***************************************************************************)
(* What a symbol table promises its callers, with no hash table in sight:  *)
(* every distinct symbol gets a dense 1-based id the first time it is      *)
(* interned, keeps that id for ever, and can be read back by it.  The      *)
(* table refuses new symbols, and only new symbols, once it holds          *)
(* Capacity of them.  Module SymbolTable (rebel/src/mem.rs) implements it. *)
(***************************************************************************)
EXTENDS Naturals, Sequences

CONSTANTS
  Symbol,    \* the symbols a caller may intern
  Capacity,  \* how many of them the table can hold
  Ids        \* the ids a caller may ask for

VARIABLES
  names,     \* the interned symbols, in the order of their ids
  reply      \* the answer to the last call

vars == <<names, reply>>

Reply(kind, sym, id) == [kind |-> kind, sym |-> sym, id |-> id]

Init ==
  /\ names = << >>
  /\ reply = Reply("none", "none", 0)

(* The symbol is known: answer with the id it has. *)
Known(s) ==
  \E i \in DOMAIN names :
    /\ names[i] = s
    /\ reply' = Reply("interned", s, i)
    /\ UNCHANGED names

(* The symbol is new and there is room: it gets the next id. *)
Fresh(s) ==
  /\ \A i \in DOMAIN names : names[i] # s
  /\ Len(names) < Capacity
  /\ names' = Append(names, s)
  /\ reply' = Reply("interned", s, Len(names) + 1)

(* The symbol is new and there is no room. *)
Refused(s) ==
  /\ \A i \in DOMAIN names : names[i] # s
  /\ Len(names) >= Capacity
  /\ reply' = Reply("SymbolTableFull", s, 0)
  /\ UNCHANGED names

(* Reading a symbol back by its id. *)
ReadBack(id) ==
  /\ reply' = IF id \in DOMAIN names
              THEN Reply("symbol", names[id], id)
              ELSE Reply("BadSymbol", "none", id)
  /\ UNCHANGED names

Next ==
  \/ \E s \in Symbol : Known(s) \/ Fresh(s) \/ Refused(s)
  \/ \E id \in Ids : ReadBack(id)

Spec == Init /\ [][Next]_vars
=============================================================================
