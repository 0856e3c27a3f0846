----------------------------- MODULE MarketData ------------------------------
(***************************************************************************)
(* gateway::MarketData: a public web socket and the slice of symbols it is *)
(* responsible for.  A symbol is subscribed on four channels at once; the  *)
(* messages sent are kept as the sequence of the symbols they name.        *)
(***************************************************************************)
EXTENDS ReferenceVars

Streams == DOMAIN market_data

NewStream == [ ready |-> FALSE, sent |-> << >> ]

(* MUTANT of Subscribed: a stream that is not ready subscribes, too. *)
SubscribedNotReady(stream, i, syms, from) ==
  [ stream EXCEPT !.sent = @ \o GetSlice(syms, i, from) ]

(* MarketData::subscribe(start_from), called by the Controller *)
Subscribed(stream, i, syms, from) ==
  IF stream.ready
  THEN [ ready |-> TRUE, sent |-> stream.sent \o GetSlice(syms, i, from) ]
  ELSE stream

(* MUTANT of Ready: subscribing is left to the Controller. *)
ReadySilent(stream, i) == [ ready |-> TRUE, sent |-> stream.sent ]

(* web::socket::Ready: everything in the slice is subscribed. *)
Ready(stream, i) ==
  [ ready |-> TRUE, sent |-> stream.sent \o GetSlice(symbols, i, 0) ]

MarketDataReady(i) ==
  /\ ~market_data[i].ready
  /\ market_data' = [ market_data EXCEPT ![i] = Ready(@, i) ]
  /\ UNCHANGED << restVars, sharedVars, order_streams, listed, promised, drops >>

(* web::socket::Disconnected: the exchange forgets the subscriptions. *)
MarketDataDisconnected(i) ==
  /\ market_data[i].ready
  /\ drops < MaxDrops
  /\ drops' = drops + 1
  /\ market_data' = [ market_data EXCEPT ![i] = NewStream ]
  /\ UNCHANGED << restVars, sharedVars, order_streams, listed, promised >>

=============================================================================
