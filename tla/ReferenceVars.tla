---------------------------- MODULE ReferenceVars ----------------------------
(***************************************************************************)
(* The state shared by the streams that find out which symbols exist and   *)
(* subscribe to them: Rest, Controller, the MarketData streams, the lists  *)
(* of struct Shared, and the exchange (external).                          *)
(***************************************************************************)
EXTENDS Naturals, FiniteSets, Sequences, SequencesExt

CONSTANTS
  Symbols,      \* the symbols that are or may become listed
  PerpDexs,     \* the exchange's answer to perpDexs: names, in order
  Selected,     \* the names not discarded: empty, or in settings.dex
  DexOf,        \* [Symbols -> names], the dex that lists a symbol
  Discarded,    \* dispatcher.discard_symbol
  MaxSubs,      \* settings.ws.max_subscriptions_per_stream
  MaxDrops      \* BOUND: lost connections, all streams together

ASSUME SymbolsAssumption == IsFiniteSet(Symbols) /\ Discarded \subseteq Symbols
ASSUME DexsAssumption    == /\ PerpDexs \in Seq(STRING)
                            /\ DexOf \in [ Symbols -> STRING ]
ASSUME MaxSubsAssumption == MaxSubs \in Nat \ {0}
ASSUME MaxDropsAssumption == MaxDrops \in Nat

(* The names of the answer to perpDexs that are not discarded. *)
SelectedDexs == SelectSeq(PerpDexs, LAMBDA name : name \in Selected)

(* They are names, there is one, and no symbol of a selected dex is listed *)
(* on a dex the exchange does not name.                                    *)
ASSUME SelectedAssumption ==
  /\ SelectedDexs \in Seq(STRING)
  /\ SelectedDexs # << >>
  /\ \A s \in Symbols : DexOf[s] \in Selected =>
       \E k \in 1..Len(SelectedDexs) : SelectedDexs[k] = DexOf[s]

VARIABLES
  \* Rest
  connected,       \* its REST connection is up
  connection_status,
  state,           \* download_.state()
  retrying,        \* download_.retry: the request is due again
  requests,        \* requests that have not been answered
  \* struct Shared
  dex,             \* names, in the order they were added
  all_symbols,     \* set of the symbols seen
  symbols,         \* core::Symbols: the symbols in order of arrival
  \* Controller
  market_data,     \* its MarketData streams, each with what it has sent
  order_streams,   \* OrderEntry, DropCopy and WebSocket exist
  \* exchange
  listed,          \* the symbols of meta
  promised,        \* HISTORY: wanted symbols listed when the download began
  drops            \* BOUND: lost connections so far

restVars   == << connected, connection_status, state, retrying, requests >>
sharedVars == << dex, all_symbols, symbols >>
ctrlVars   == << market_data, order_streams >>
vars       == << restVars, sharedVars, ctrlVars, listed, promised, drops >>

-----------------------------------------------------------------------------
(* core::Symbols (external): the symbols are cut into slices of MaxSubs in *)
(* the order of their arrival, one slice for each MarketData stream.       *)

SliceCount(syms) == (Len(syms) + MaxSubs - 1) \div MaxSubs

(* get_slice(index, start_from): the part of the slice of stream i that    *)
(* lies behind the first from symbols.                                     *)
GetSlice(syms, i, from) ==
  LET before == (i - 1) * MaxSubs
      last   == IF i * MaxSubs < Len(syms) THEN i * MaxSubs ELSE Len(syms)
  IN  SubSeq(syms, (IF from > before THEN from ELSE before) + 1, last)

=============================================================================
