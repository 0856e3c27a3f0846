-------------------------- MODULE MCReferenceData ----------------------------
(* Small instances of ReferenceData. *)
EXTENDS ReferenceData

CONSTANTS s1, s2, s3

(* The exchange has three dex; the second one is not selected. *)
ThreeDexs == << "", "other", "xyz" >>

TwoSelected == { "", "xyz" }

(* s1 and s2 on the first dex, s3 on the one that is selected by name. *)
Listing == [ s \in Symbols |-> IF s = s3 THEN "xyz" ELSE "" ]

=============================================================================
