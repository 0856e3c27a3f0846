----------------------------- MODULE MCMarketFeed ----------------------------
(* Small instances of MarketFeed. *)
EXTENDS MarketFeed

(* Each coin has a stream of its own; their messages interleave freely. *)
TwoStreams == [ c \in { "a", "b" } |-> IF c = "a" THEN 1 ELSE 2 ]

=============================================================================
