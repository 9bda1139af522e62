---------------------------- MODULE MCAuthSession ----------------------------
(***************************************************************************)
(* Small instances of AuthSession.                                         *)
(***************************************************************************)
EXTENDS AuthSession, TLC

RequestSymmetry == Permutations(Requests)

===============================================================================
