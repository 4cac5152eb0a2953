--------------------------- MODULE MCContextTable ---------------------------
(* Contexts of size 0 (a function without parameters), 1 (foreach) and 3,  *)
(* and four symbols: two collide, and one of them wraps around.            *)
EXTENDS ContextTable, TLC

CONSTANTS v1, v2

MCSymbol == 1 .. 4
MCHash == 1 :> 2 @@ 2 :> 5 @@ 3 :> 3 @@ 4 :> 7
MCValue == {v1, v2}
MCSizes == {0, 1, 3}
MCSealBit == 64
=============================================================================
