--------------------------- MODULE MCSymbolTable ---------------------------
(* A table of four slots for five symbols: two symbols hash to the last    *)
(* slot, so that probing wraps around, and a third cluster collides with   *)
(* the wrapped one.  The fifth symbol meets a full table.                  *)
EXTENDS SymbolTable, TLC

CONSTANTS a, b, c, d, e

MCSymbol == {a, b, c, d, e}
MCHash == a :> 3 @@ b :> 7 @@ c :> 4 @@ d :> 5 @@ e :> 2
MCDataLen == 9 * 4 + 5
MCIds == 0 .. 6
=============================================================================
