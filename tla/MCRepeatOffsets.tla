-------------------------- MODULE MCRepeatOffsets --------------------------
(***************************************************************************)
(* Model-checking instance: offsets that hit every entry of the initial    *)
(* history and their predecessors, and one that never does.                *)
(***************************************************************************)
EXTENDS RepeatOffsets

MCDictHistories == {[i \in 0..2 |-> IF i = 1 THEN 1 ELSE 3]}
=============================================================================
