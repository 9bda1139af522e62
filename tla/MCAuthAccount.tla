---------------------------- MODULE MCAuthAccount ----------------------------
(***************************************************************************)
(* Small instances of AuthAccount.                                         *)
(***************************************************************************)
EXTENDS AuthAccount

===============================================================================
