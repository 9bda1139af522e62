------------------------------ MODULE MCGateway ------------------------------
(* The instance of Gateway that TLC checks: one request, which may be any. *)
EXTENDS Gateway

=============================================================================
