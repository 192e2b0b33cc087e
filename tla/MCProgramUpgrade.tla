-------------------------- MODULE MCProgramUpgrade --------------------------
(* A deployment with room for twice its image, an upgrade that fills the   *)
(* room but is signed by another authority, and one that is too long.      *)
EXTENDS ProgramUpgrade

MCChunks == [c \in Calls |-> CASE c = "long" -> 3 [] c = "takeover" -> 2 [] OTHER -> 1]
MCKey == [c \in Calls |-> IF c = "takeover" THEN "other" ELSE "payer"]
=============================================================================
