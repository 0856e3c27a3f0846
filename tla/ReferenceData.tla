--------------------------- MODULE ReferenceData -----------------------------
(***************************************************************************)
(* Reference data and subscriptions: Rest, Controller and the MarketData   *)
(* streams, composed with the exchange, which lists new symbols, and with  *)
(* clients, which subscribe whenever they like.                            *)
(***************************************************************************)
EXTENDS Rest

(* The exchange (external) lists a symbol. *)
ExchangeLists(s) ==
  /\ s \notin listed
  /\ listed' = listed \cup {s}
  /\ UNCHANGED << restVars, sharedVars, ctrlVars, promised, drops >>

Init ==
  /\ connected = FALSE /\ connection_status = "DISCONNECTED"
  /\ state = "UNDEFINED" /\ retrying = FALSE /\ requests = {}
  /\ dex = << >> /\ all_symbols = {} /\ symbols = << >>
  /\ market_data = << >> /\ order_streams = FALSE
  /\ listed \in SUBSET Symbols
  /\ \E s \in listed : DexOf[s] = PerpDexs[1]
  /\ promised = {}
  /\ drops = 0

Next ==
  \/ RestNext
  \/ \E syms \in SUBSET Symbols \ {{}} : ControllerSubscribe(syms)
  \/ \E i \in Streams : MarketDataReady(i) \/ MarketDataDisconnected(i)
  \/ \E s \in Symbols : ExchangeLists(s)

Spec == Init /\ [][Next]_vars

(* From some time on the requests that are not lost, and that matter, do   *)
(* not fail: the exchange is not unwell for ever.                          *)
ErrorsEnd ==
  <>[][ \A r \in requests : RestError(r) => r.lost \/ Skip(r) ]_vars

(* Connections come back, retries happen, requests are answered or fail.   *)
Fairness ==
  /\ WF_vars(RestConnected)
  /\ WF_vars(RestRetries)
  /\ WF_vars(\E r \in requests : (r.lost /\ RestError(r)) \/ RestAck(r))
  /\ \A i \in 1..Cardinality(Symbols) : WF_vars(i \in Streams /\ MarketDataReady(i))
  /\ ErrorsEnd

LiveSpec == Spec /\ Fairness

-----------------------------------------------------------------------------
(* Properties                                                              *)

Requests == [ state : DownloadStates, index : Nat \ {0}, lost : BOOLEAN ]

(* Types.  Every META request is about a dex of the list, as the           *)
(* assertions of get_meta and of the handler of its answer demand.         *)
TypeOK ==
  /\ connected \in BOOLEAN /\ retrying \in BOOLEAN /\ order_streams \in BOOLEAN
  /\ connection_status \in { "DISCONNECTED", "DOWNLOADING", "READY" }
  /\ state \in DownloadStates \cup { "UNDEFINED", "DONE" }
  /\ requests \subseteq Requests
  /\ \A r \in requests : r.state = "META" => r.index <= Len(dex)
  /\ dex \in Seq(STRING)
  /\ all_symbols \subseteq Symbols
  /\ symbols \in Seq(Symbols)
  /\ market_data \in Seq([ ready : BOOLEAN, sent : Seq(Symbols) ])
  /\ listed \subseteq Symbols /\ promised \subseteq Symbols
  /\ drops \in 0..MaxDrops

(* Whatever the order in which symbols arrive, from the reference data or  *)
(* from clients, and streams come and go: what a stream has subscribed on  *)
(* its present connection is its slice, each symbol once.                  *)
SubscribedExactlyOnce ==
  \A i \in Streams :
    market_data[i].sent = IF market_data[i].ready THEN GetSlice(symbols, i, 0)
                                                  ELSE << >>

(* The symbol in place k of the slice of stream i is s. *)
Holds(i, k, s) ==
  k <= Len(GetSlice(symbols, i, 0)) /\ GetSlice(symbols, i, 0)[k] = s

(* Every symbol that has been seen is in one place of the slice of one     *)
(* stream, and that stream exists.                                         *)
EverySymbolHasOneStream ==
  /\ ToSet(symbols) = all_symbols
  /\ \A s \in all_symbols :
       \E p \in Streams \X (1..MaxSubs) :
         \A q \in Streams \X (1..MaxSubs) : Holds(q[1], q[2], s) <=> q = p

(* When reference data is announced READY, every symbol of a selected dex  *)
(* that was listed when the download began is known, although requests     *)
(* fail, are repeated, or continue on another connection.                  *)
ReadyMeansComplete == connection_status = "READY" => promised \subseteq all_symbols

(* OrderEntry asks for dex number 0 as soon as DropCopy has begun its      *)
(* download, and asserts that there is one.                                *)
OrderStreamsHaveDex == order_streams => Len(dex) > 0

(* A download of reference data that has begun reaches READY.              *)
ReferenceDataCompletes == Downloading ~> (connection_status = "READY")

(* A symbol that has been seen gets subscribed.                            *)
SeenSymbolsSubscribed ==
  \A s \in Symbols :
    (s \in all_symbols) ~> (\E i \in Streams : s \in ToSet(market_data[i].sent))

=============================================================================
