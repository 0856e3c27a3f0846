----------------------------- MODULE Controller ------------------------------
(***************************************************************************)
(* gateway::Controller, as far as symbols are concerned: they come from    *)
(* the reference data and from the subscriptions of clients; streams are   *)
(* created on demand.  An account is configured.                           *)
(***************************************************************************)
EXTENDS MarketData

(* MUTANT of Unseen: a symbol already seen is passed on again. *)
UnseenIgnored(syms) == syms

(* all_symbols.emplace(item).second: only include new *)
Unseen(syms) == syms \ all_symbols

(* ensure_symbol_slices: create streams while there are too few. *)
EnsureSymbolSlices(size) ==
  [ i \in 1..(IF Len(market_data) < size THEN size ELSE Len(market_data)) |->
      IF i <= Len(market_data) THEN market_data[i] ELSE NewStream ]

(* operator()(Trace<SymbolsUpdate>) *)
SymbolsUpdate(new) ==
  /\ symbols' = symbols \o new
  /\ market_data' = [ i \in DOMAIN EnsureSymbolSlices(SliceCount(symbols \o new)) |->
       Subscribed(EnsureSymbolSlices(SliceCount(symbols \o new))[i], i,
                  symbols \o new, Len(symbols)) ]
  /\ order_streams' = TRUE

(* The symbols syms are seen; those that are new make an update, in the    *)
(* order the caller lists them.                                            *)
SymbolsSeen(syms) ==
  /\ all_symbols' = all_symbols \cup syms
  /\ \E new \in SetToSeqs(Unseen(syms)) : SymbolsUpdate(new)

(* operator()(Event<Subscribe>): a client subscribes to symbols. *)
ControllerSubscribe(syms) ==
  /\ SymbolsSeen(syms)
  /\ UNCHANGED << restVars, dex, listed, promised, drops >>

=============================================================================
