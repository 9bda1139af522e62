----------------------------- MODULE MCCatalogue -----------------------------
(***************************************************************************)
(* Small instances of Catalogue.                                           *)
(***************************************************************************)
EXTENDS Catalogue, TLC

RequestSymmetry == Permutations(Requests)

===============================================================================
