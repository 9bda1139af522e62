--------------------------- MODULE MCPaymentService ---------------------------
(***************************************************************************)
(* Small instances of PaymentService: one message that may come twice, two *)
(* references, and for each a webhook of Paystack and one that is not.     *)
(***************************************************************************)
EXTENDS PaymentService

===============================================================================
