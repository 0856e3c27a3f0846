--------------------------- MODULE MCOrderActions ----------------------------
(* Small instances of OrderActions. *)
EXTENDS OrderActions

(* Orders of two users that have the same number. *)
TwoOrders == { << 0, 1 >>, << 1, 1 >> }

OneOfWebSocket == [ ws \in BOOLEAN |-> IF ws THEN 1 ELSE 0 ]

=============================================================================
