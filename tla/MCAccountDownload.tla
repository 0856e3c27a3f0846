------------------------- MODULE MCAccountDownload --------------------------
(* Small instances of AccountDownload. *)
EXTENDS AccountDownload, TLC

CONSTANTS o1, o2

OneOrder  == {o1}
TwoOrders == {o1, o2}

(* The dex of an order is at the first place of shared_.dex or at the      *)
(* second.                                                                 *)
OnePlace  == (o1 :> {1})
TwoPlaces == (o1 :> {1}) @@ (o2 :> {2})

=============================================================================
