---------------------------- MODULE LimitRequest ----------------------------
(***************************************************************************)
(* The mailbox through which one stream of the gateway asks another one    *)
(* for a REST download: core::limit::Request (a library class the          *)
(* repository only uses) and the struct gateway::Request that groups five  *)
(* of them.                                                                *)
(*                                                                         *)
(* The requester calls request() and polls has_response(); the server      *)
(* calls check_pending(), which hands the request to a callback once       *)
(* nothing else is on the wire, and commit() when the answer has been      *)
(* processed.  Neither call carries an identity: has_response() can only   *)
(* mean something to the requester if request() forgets the previous       *)
(* answer and if a commit() that belongs to an earlier hand-out does not   *)
(* answer a request that still waits.                                      *)
(***************************************************************************)

(* One kind per member of struct Request. *)
Kinds ==
  { "spot_clearing_house_state", "clearing_house_state",
    "open_orders", "stale_orders", "trades" }

Mailbox == [ pending : BOOLEAN, inflight : BOOLEAN, responded : BOOLEAN ]

NewMailbox == [ pending |-> FALSE, inflight |-> FALSE, responded |-> FALSE ]

(* core::limit::Request::request *)
Requested(m) ==
  [ pending |-> TRUE, inflight |-> m.inflight, responded |-> FALSE ]

(* core::limit::Request::check_pending, when it calls the callback *)
HandedOut(m) ==
  [ pending |-> FALSE, inflight |-> TRUE, responded |-> m.responded ]

(* core::limit::Request::commit *)
Committed(m) ==
  [ pending |-> m.pending, inflight |-> FALSE, responded |-> ~m.pending ]

HasResponse(m) == m.responded

(* Request::ready(): no kind is on the wire. *)
RequestReady(req) == \A k \in Kinds : ~req[k].inflight

=============================================================================
