---------------------------- MODULE MCWordMemory ----------------------------
(* A heap with room for two objects beside those of the Module, or for     *)
(* three empty ones; a string that fills one word and part of another; two *)
(* symbols for contexts of one entry and of none. *)
EXTENDS WordMemory

MCBlocks  == {<< >>}
MCStrings == {<<1, 0, 2, 0, 3>>}
MCHash    == <<5, 7>>
MCPairs   == {<<6, 9>>}
MCPushes  == {<<1, 9>>}
=============================================================================
