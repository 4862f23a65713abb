---------------------------- MODULE OrderStatus ----------------------------
(***************************************************************************)
(* The statuses of an order and the transitions OrderStatusVO allows.      *)
(***************************************************************************)
PaymentPhase == {"PENDING_PAYMENT", "PAYMENT_FAILED"}
Statuses == PaymentPhase \cup
  {"PENDING_CONFIRMATION", "CONFIRMED", "PROCESSING", "SHIPPED", "DELIVERED",
   "CANCELLED", "REFUNDED"}

Transitions ==
  [PENDING_PAYMENT      |-> {"CONFIRMED", "PAYMENT_FAILED", "CANCELLED"},
   PAYMENT_FAILED       |-> {"PENDING_PAYMENT", "CANCELLED"},
   PENDING_CONFIRMATION |-> {"CONFIRMED", "CANCELLED"},
   CONFIRMED            |-> {"PROCESSING", "CANCELLED"},
   PROCESSING           |-> {"SHIPPED", "CANCELLED"},
   SHIPPED              |-> {"DELIVERED", "CANCELLED"},
   DELIVERED            |-> {"REFUNDED"},
   CANCELLED            |-> {},
   REFUNDED             |-> {}]

Cancellable == {"PENDING_PAYMENT", "PENDING_CONFIRMATION", "PAYMENT_FAILED",
                "CONFIRMED", "PROCESSING", "SHIPPED"}
=============================================================================
