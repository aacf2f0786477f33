---------------------------- MODULE MCStoreFile ----------------------------
(***************************************************************************)
(* StoreFile with three processes and three files, which differ in nothing *)
(* but their names.                                                        *)
(***************************************************************************)
EXTENDS StoreFile, TLC

Symmetry == Permutations(Procs) \cup Permutations(Files)
=============================================================================
