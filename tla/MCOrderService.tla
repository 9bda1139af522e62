---------------------------- MODULE MCOrderService ----------------------------
(***************************************************************************)
(* Small instances of OrderService.                                        *)
(***************************************************************************)
EXTENDS OrderService

CONSTANTS p1

Line(p, q) == [productId |-> p, quantity |-> q]

OneLineCart == { << Line(p1, 1) >> }

===============================================================================
