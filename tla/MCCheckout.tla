------------------------------ MODULE MCCheckout ------------------------------
(***************************************************************************)
(* Small instances of Checkout.                                            *)
(***************************************************************************)
EXTENDS Checkout

CONSTANTS p1, p2

Line(p, q) == [productId |-> p, quantity |-> q]

OneLineCart == { << Line(p1, 1) >> }

\* Two lines of two products, and one product on two lines.
PricingCarts == { << Line(p1, 1), Line(p2, 2) >>, << Line(p1, 1), Line(p1, 2) >> }

===============================================================================
