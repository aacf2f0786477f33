---------------------------- MODULE MCTokenStore ----------------------------
(***************************************************************************)
(* TokenStore on a small instance.  Clients occur only as values, so       *)
(* permuting them is sound; codes and pairs are picked with CHOOSE.        *)
(***************************************************************************)
EXTENDS TokenStore, TLC

Symmetry == Permutations(Clients)
=============================================================================
