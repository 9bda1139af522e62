----------------------------- MODULE OrderStatus -----------------------------
(***************************************************************************)
(* The order status machine of apps/order-service/src/state.machine.ts:    *)
(* the statuses an order row may hold and the table every status change    *)
(* is looked up in.                                                        *)
(***************************************************************************)

OrderStatuses ==
    { "PENDING", "AWAITING_PAYMENT", "PAYMENT_CONFIRMED",
      "PROCESSING_SHIPMENT", "SHIPPED", "DELIVERED", "CANCELLED" }

\* Mutation: a PENDING order may be confirmed directly.
ValidTransitionsConfirmPending ==
    [ PENDING             |-> { "AWAITING_PAYMENT", "CANCELLED", "PAYMENT_CONFIRMED" },
      AWAITING_PAYMENT    |-> { "PAYMENT_CONFIRMED", "CANCELLED" },
      PAYMENT_CONFIRMED   |-> { "PROCESSING_SHIPMENT" },
      PROCESSING_SHIPMENT |-> { "SHIPPED" },
      SHIPPED             |-> { "DELIVERED" },
      DELIVERED           |-> {},
      CANCELLED           |-> {} ]

\* VALID_TRANSITIONS: the statuses each status may change to.
ValidTransitions ==
    [ PENDING             |-> { "AWAITING_PAYMENT", "CANCELLED" },
      AWAITING_PAYMENT    |-> { "PAYMENT_CONFIRMED", "CANCELLED" },
      PAYMENT_CONFIRMED   |-> { "PROCESSING_SHIPMENT" },
      PROCESSING_SHIPMENT |-> { "SHIPPED" },
      SHIPPED             |-> { "DELIVERED" },
      DELIVERED           |-> {},
      CANCELLED           |-> {} ]

\* transitionOrderStatus returns `next` exactly when this holds, and throws
\* a BadRequestException otherwise.
CanTransition(current, next) == next \in ValidTransitions[current]

==============================================================================
