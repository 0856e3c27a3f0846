---------------------------- MODULE MCOrderPrices ----------------------------
(* Small instances of OrderPrices. *)
EXTENDS OrderPrices

(* Every sz_decimals of a perp on the first dex, some on two others. *)
ThreeUniverses ==
  [ d \in { "", "xyz", "abc", "other" } |->
      CASE d = ""    -> << 0, 1, 2, 3, 4, 5 >>
        [] d = "xyz" -> << 5, 0 >>
        [] OTHER     -> << 2 >> ]

(* Around the changes of the number of figures, of the tick, and of 100k.  *)
Mantissas ==
  { 1, 5, 15, 12345, 99995, 99999, 100000, 100001, 100010, 123445, 123449,
    123450, 123451, 999994, 999995, 999999, 1000001, 1234549, 9999949 }

Order(price, quantity) == [ price |-> price, quantity |-> quantity ]

(* Any price with one quantity, and any quantity with one price. *)
ManyOrders ==
  { Order(Decimal(m, e), Decimal(7, 0)) : m \in Mantissas, e \in -9..1 } \cup
  { Order(Decimal(5, 0), Decimal(m, e)) : m \in { 1, 12, 123456 }, e \in -9..0 }

=============================================================================
