---------------------------- MODULE OrderPrices ------------------------------
(***************************************************************************)
(* From reference data to the numbers of an order.  Rest numbers the       *)
(* symbols of every dex and publishes the steps of price and quantity;     *)
(* Encoder::create_order names the symbol by its number and rounds, and    *)
(* has nothing but the number to tell perps from spot.                     *)
(*                                                                         *)
(* An order is LIMIT; the price of a MARKET order is not a number.         *)
(***************************************************************************)
EXTENDS Conversions, Sequences, SequencesExt

CONSTANTS
  Universe,     \* [names of dex -> Seq of sz_decimals], the answers to meta
  Selected,     \* the names not discarded: empty, or in settings.dex
  Orders        \* what clients ask for: prices with quantities

(* A dex has fewer symbols than there are numbers for it; the first one,   *)
(* whose name is empty, is always selected.                                *)
Dexs == DOMAIN Universe

OFFSET_DEX == 110000
FIRST_SPOT == 10000

ASSUME UniverseAssumption ==
  /\ "" \in Dexs /\ "" \in Selected
  /\ \A d \in Dexs : /\ Universe[d] \in Seq(0..5)
                     /\ Len(Universe[d]) < OFFSET_DEX
  /\ Len(Universe[""]) < FIRST_SPOT

ASSUME OrdersAssumption ==
  \A order \in Orders : order.price \in Numbers /\ order.quantity \in Numbers

VARIABLES
  listing,      \* the exchange's answer to perpDexs: names, in order
  dex,          \* shared_.dex, as a set
  ref_data,     \* what has been published: [symbols -> reference data]
  fatal,        \* log::fatal("Unexpected") has ended the program
  message       \* an order that was sent, with what it was made from

vars == << listing, dex, ref_data, fatal, message >>

-----------------------------------------------------------------------------
(* Rest                                                                    *)

(* MUTANT of AssetIdOffset: one number for every dex but the first. *)
AssetIdOffsetFlag(k) == IF k = 1 THEN 0 ELSE OFFSET_DEX

(* i * OFFSET_DEX *)
AssetIdOffset(k) == (k - 1) * OFFSET_DEX

(* MUTANT of Changed: the dex of an earlier download are not looked at. *)
ChangedNever(item) == FALSE

(* item_2.asset_id_offset != asset_id_offset *)
Changed(item) ==
  \E d \in dex : d.name = item.name /\ d.asset_id_offset # item.asset_id_offset

(* The answer to perpDexs, at the first or at a later download. *)
GetPerpDexsAck ==
  LET items == { [ name |-> listing[k], asset_id_offset |-> AssetIdOffset(k) ] :
                   k \in DOMAIN listing }
  IN  \/ /\ \E item \in items : Changed(item)
         /\ fatal' = TRUE
         /\ UNCHANGED << listing, dex, ref_data, message >>
      \/ /\ \A item \in items : ~Changed(item)
         /\ dex' = dex \cup { item \in items : item.name \in Selected }
         /\ UNCHANGED << listing, ref_data, fatal, message >>

(* The answer to meta: reference data for every symbol of the universe.    *)
(* The published steps are a function of sz_decimals.                      *)
GetMetaAck(d) ==
  /\ ref_data' = [ s \in DOMAIN ref_data \cup
                         { << d.name, i >> : i \in DOMAIN Universe[d.name] } |->
       IF s[1] = d.name
       THEN [ external_security_id |-> d.asset_id_offset + s[2] - 1,
              sz_decimals          |-> Universe[d.name][s[2]] ]
       ELSE ref_data[s] ]
  /\ UNCHANGED << listing, dex, fatal, message >>

-----------------------------------------------------------------------------
(* Encoder                                                                 *)

IsSpot(data) == data.external_security_id >= FIRST_SPOT

CreateOrder(s, order) ==
  LET data == ref_data[s]
  IN  /\ \E p \in RoundPrice(order.price, data.sz_decimals, IsSpot(data)),
            q \in RoundSize(order.quantity, data.sz_decimals) :
           message' = { [ symbol |-> s, order |-> order,
                          a |-> data.external_security_id,
                          p |-> FloatToWire(p), s |-> FloatToWire(q) ] }
      /\ UNCHANGED << listing, dex, ref_data, fatal >>

-----------------------------------------------------------------------------
(* The exchange (external) lists another dex; one that is listed stays.    *)
ExchangeLists(name) ==
  /\ name \notin ToSet(listing)
  /\ \E k \in 2..(Len(listing) + 1) : listing' = InsertAt(listing, k, name)
  /\ UNCHANGED << dex, ref_data, fatal, message >>

Init ==
  /\ listing = << "" >> /\ dex = {} /\ ref_data = [ s \in {} |-> 0 ]
  /\ fatal = FALSE /\ message = {}

(* BOUND: the run ends with the first order. *)
Running == ~fatal /\ message = {}

Next ==
  \/ \E name \in Dexs : Running /\ ExchangeLists(name)
  \/ Running /\ GetPerpDexsAck
  \/ \E d \in dex : Running /\ GetMetaAck(d)
  \/ \E s \in DOMAIN ref_data, order \in Orders : Running /\ CreateOrder(s, order)

Spec == Init /\ [][Next]_vars

-----------------------------------------------------------------------------
(* Properties                                                              *)

(* No two symbols are ordered by the same number, however the list of dex  *)
(* grows between downloads.                                                *)
AssetIdsUnique ==
  \A s, t \in DOMAIN ref_data :
    ref_data[s].external_security_id = ref_data[t].external_security_id => s = t

(* A symbol keeps its number for the life of the process: an order that is *)
(* cancelled after a later download is named as it was when created.       *)
AssetIdsStable ==
  [][ \A s \in DOMAIN ref_data :
        ref_data'[s].external_security_id = ref_data[s].external_security_id ]_vars

SzDecimals(o) == Universe[o.symbol[1]][o.symbol[2]]

(* "Prices can have up to 5 significant figures, but no more than          *)
(* MAX_DECIMALS - szDecimals decimal places", MAX_DECIMALS is 6 for perps. *)
FewFigures(x)     == LargeInteger(x) \/ Multiple(x, Magnitude(x) - 4)
FewDecimals(o)    == Multiple(o.p, SzDecimals(o) - 6)

(* Any price is rounded to one the exchange allows for the symbol: for the *)
(* first dex both rules hold, although one rounding may undo the other;    *)
(* for the others the number of figures is what can be relied on.          *)
PricesAllowed ==
  \A o \in message : FewFigures(o.p) /\ (o.a < FIRST_SPOT => FewDecimals(o))

(* The second rule, for all perps: the code has nothing but perps.         *)
DecimalsAllowed == \A o \in message : FewDecimals(o)

(* Two roundings in a row do not move a price by a whole step of the       *)
(* coarser of the two grids.                                               *)
PricesNearRequested ==
  \A o \in message :
    LET k    == Max({ Magnitude(o.order.price) - 4, SzDecimals(o) - 6, o.order.price.e })
        unit == Ten[k - o.order.price.e]
        sent == IF o.p.m = 0 THEN 0 ELSE o.p.m * Ten[o.p.e - o.order.price.e]
    IN  o.p # Thrown /\ -unit < sent - o.order.price.m /\ sent - o.order.price.m < unit

(* Who keeps to the steps that are published with the symbol gets what was *)
(* asked for: two tables and two roundings agree, for perps of every dex.  *)
PublishedStepsKept ==
  \A o \in message :
    /\ Multiple(o.order.price, TickAt(o.order.price, SzDecimals(o))) => o.p = Reduced(o.order.price)
    /\ Multiple(o.order.quantity, -SzDecimals(o)) => o.s = Reduced(o.order.quantity)

(* Nothing that was rounded makes floatToWire throw.                       *)
NothingThrown == \A o \in message : o.p # Thrown /\ o.s # Thrown

=============================================================================
