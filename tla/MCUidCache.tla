---------------------------- MODULE MCUidCache ----------------------------
(***************************************************************************)
(* Model-checking instances of UidCache: tasks and message ids are          *)
(* interchangeable model values.                                            *)
(***************************************************************************)
EXTENDS UidCache, TLC

Symmetry == Permutations(Tasks) \cup Permutations(Ids)

=============================================================================
