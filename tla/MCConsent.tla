----------------------------- MODULE MCConsent -----------------------------
(***************************************************************************)
(* Consent on a small instance: more clients than may register.  Every     *)
(* set of names is used as values only.                                    *)
(***************************************************************************)
EXTENDS Consent, TLC

Symmetry == Permutations(Clients) \cup Permutations(Pages) \cup Permutations(Posts)
=============================================================================
