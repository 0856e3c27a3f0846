-------------------------------- MODULE Rest ---------------------------------
(***************************************************************************)
(* gateway::Rest: the download of the reference data.  It asks for the     *)
(* spot symbols, for the names of the dex, and then for the symbols of one *)
(* dex after the other.  A download that is interrupted continues with the *)
(* state it was in; one that was DONE starts again on the next connection. *)
(*                                                                         *)
(* core::Download2 is external: begin enters the first state, check the    *)
(* next one, bump the present one again, retry makes the request due       *)
(* again, and skip refuses answers to requests of another state.           *)
(***************************************************************************)
EXTENDS Controller

DownloadStates == { "SPOT_META", "PERP_DEXS", "META" }

Downloading == state \in DownloadStates

(* A request: the state it was made in and, for META, the number of the    *)
(* dex counted from 1.  lost: its connection is gone, it can only fail.    *)
Request(s, k) == [ state |-> s, index |-> k, lost |-> FALSE ]

Wanted(syms) == { s \in syms : DexOf[s] \in Selected /\ s \notin Discarded }

(* Rest::download(s): publish the status, send the request. *)
Enter(s, others) ==
  /\ state' = s
  /\ connection_status' = IF s = "DONE" THEN "READY" ELSE "DOWNLOADING"
  /\ requests' = IF s = "DONE" THEN others ELSE others \cup { Request(s, 1) }
  /\ retrying' = FALSE

-----------------------------------------------------------------------------
(* web::rest::Connected: bump or begin *)
RestConnected ==
  /\ ~connected
  /\ connected' = TRUE
  /\ Enter(IF Downloading THEN state ELSE "SPOT_META", requests)
  /\ promised' = IF Downloading THEN promised ELSE Wanted(listed)
  /\ UNCHANGED << sharedVars, ctrlVars, listed, drops >>

(* web::rest::Disconnected: only a download that is not under way is reset *)
RestDisconnected ==
  /\ connected
  /\ drops < MaxDrops
  /\ drops' = drops + 1
  /\ connected' = FALSE
  /\ connection_status' = "DISCONNECTED"
  /\ state' = IF Downloading THEN state ELSE "UNDEFINED"
  /\ requests' = { [ r EXCEPT !.lost = TRUE ] : r \in requests }
  /\ UNCHANGED << retrying, sharedVars, ctrlVars, listed, promised >>

(* core::Download2 (external): the request is sent again after retry. *)
RestRetries ==
  /\ connected /\ Downloading /\ retrying
  /\ Enter(state, requests)
  /\ UNCHANGED << connected, sharedVars, ctrlVars, listed, promised, drops >>

(* MUTANT of Retry: the error is only logged. *)
RetryNever(r) == retrying

(* handle_error: download_.retry(STATE) *)
Retry(r) == retrying \/ r.state = state

(* The answer is an error, for instance 429, or the request timed out. *)
RestError(r) ==
  /\ r \in requests
  /\ requests' = requests \ {r}
  /\ retrying' = Retry(r)
  /\ UNCHANGED << connected, connection_status, state, sharedVars, ctrlVars,
                  listed, promised, drops >>

(* download_.skip(sequence, STATE) *)
Skip(r) == r.state # state

Answered(r) == r \in requests /\ ~r.lost

(* Download state has already been processed *)
RestSkipped(r) ==
  /\ Answered(r) /\ Skip(r)
  /\ requests' = requests \ {r}
  /\ UNCHANGED << connected, connection_status, state, retrying, sharedVars,
                  ctrlVars, listed, promised, drops >>

(* The spot symbols are not used. *)
GetSpotMetaAck(r) ==
  /\ Answered(r) /\ ~Skip(r) /\ r.state = "SPOT_META"
  /\ Enter("PERP_DEXS", requests \ {r})
  /\ UNCHANGED << connected, sharedVars, ctrlVars, listed, promised, drops >>

(* Every dex that is selected is added, also when the list has it already: *)
(* continue leaves the inner loop only.                                    *)
GetPerpDexsAck(r) ==
  /\ Answered(r) /\ ~Skip(r) /\ r.state = "PERP_DEXS"
  /\ dex' = dex \o SelectedDexs
  /\ Enter("META", requests \ {r})
  /\ UNCHANGED << connected, all_symbols, symbols, ctrlVars, listed, promised,
                  drops >>

(* MUTANTS of LastDex: next_index > size, and the last dex left out. *)
LastDexPast(k)  == k > Len(dex)
LastDexEarly(k) == k >= Len(dex) - 1

(* next_index >= std::size(shared_.dex) *)
LastDex(k) == k >= Len(dex)

(* The symbols of one dex; the next dex is asked for, or it was the last.  *)
GetMetaAck(r) ==
  /\ Answered(r) /\ ~Skip(r) /\ r.state = "META"
  /\ SymbolsSeen({ s \in listed : DexOf[s] = dex[r.index] /\ s \notin Discarded })
  /\ \/ /\ LastDex(r.index)
        /\ Enter("DONE", requests \ {r})
     \/ /\ ~LastDex(r.index)
        /\ requests' = (requests \ {r}) \cup { Request("META", r.index + 1) }
        /\ UNCHANGED << connection_status, state, retrying >>
  /\ UNCHANGED << connected, dex, listed, promised, drops >>

RestAck(r) == RestSkipped(r) \/ GetSpotMetaAck(r) \/ GetPerpDexsAck(r) \/ GetMetaAck(r)

RestNext ==
  \/ RestConnected
  \/ RestDisconnected
  \/ RestRetries
  \/ \E r \in requests : RestError(r) \/ RestAck(r)

=============================================================================
