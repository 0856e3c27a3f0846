------------------------ MODULE ReferenceData_proofs ------------------------
(***************************************************************************)
(* Proofs about ReferenceData, for every set of symbols, every list of     *)
(* dex, every size of a slice and any number of lost connections.          *)
(***************************************************************************)
EXTENDS ReferenceData, SequenceTheorems, FiniteSetTheorems, TLAPS

-----------------------------------------------------------------------------
(* Sequences and slices                                                    *)

LEMMA FunctionIsSeq ==
  ASSUME NEW n \in Nat, NEW S, NEW f \in [ 1..n -> S ]
  PROVE  f \in Seq(S) /\ Len(f) = n
BY SeqDef

(* The products in GetSlice are numbers. *)
LEMMA SliceBounds ==
  ASSUME NEW i \in Nat \ {0}
  PROVE  /\ (i - 1) * MaxSubs \in Nat /\ i * MaxSubs \in Nat
         /\ (i - 1) * MaxSubs <= i * MaxSubs
<1>1. \A a, b \in Nat : a * b \in Nat
  OBVIOUS
<1>2. i * MaxSubs = (i - 1) * MaxSubs + MaxSubs
  BY MaxSubsAssumption
<1>3. i - 1 \in Nat
  OBVIOUS
<1>4. (i - 1) * MaxSubs \in Nat /\ i * MaxSubs \in Nat
  BY <1>1, <1>3, MaxSubsAssumption
<1> QED
  BY <1>2, <1>4, MaxSubsAssumption

LEMMA SliceType ==
  ASSUME NEW S, NEW syms \in Seq(S), NEW i \in Nat \ {0}, NEW from \in Nat
  PROVE  GetSlice(syms, i, from) \in Seq(S)
<1> DEFINE m == (IF from > (i - 1) * MaxSubs THEN from ELSE (i - 1) * MaxSubs) + 1
           n == IF i * MaxSubs < Len(syms) THEN i * MaxSubs ELSE Len(syms)
<1>1. m \in Int /\ n \in Int /\ m >= 1 /\ n <= Len(syms)
  BY SliceBounds, LenProperties
<1>2. \A j \in m..n : j \in 1..Len(syms)
  BY <1>1, LenProperties
<1>3. \A j \in m..n : syms[j] \in S
  <2> HIDE DEF m, n
  <2> QED
    BY <1>2, ElementOfSeq
<1>4. SubSeq(syms, m, n) \in Seq(S)
  <2> HIDE DEF m, n
  <2> QED
    BY <1>1, <1>3, SubSeqProperties
<1> QED
  BY <1>4 DEF GetSlice

(* What a ready stream lacks of its slice after an update is exactly what  *)
(* the slice holds from the first new symbol on.                           *)
LEMMA SliceExtends ==
  ASSUME NEW S, NEW syms \in Seq(S), NEW new \in Seq(S), NEW i \in Nat \ {0}
  PROVE  GetSlice(syms, i, 0) \o GetSlice(syms \o new, i, Len(syms))
           = GetSlice(syms \o new, i, 0)
<1> DEFINE b == (i - 1) * MaxSubs
           e == i * MaxSubs
           n == Len(syms)
           full == syms \o new
           last == IF e < Len(full) THEN e ELSE Len(full)
<1>1. b \in Nat /\ e \in Nat /\ b <= e /\ n \in Nat
  BY SliceBounds, LenProperties
<1>2. full \in Seq(S) /\ Len(full) \in Nat /\ n <= Len(full)
  BY ConcatProperties, LenProperties
<1>3. /\ GetSlice(syms, i, 0) = SubSeq(syms, b + 1, IF e < n THEN e ELSE n)
      /\ GetSlice(full, i, 0) = SubSeq(full, b + 1, last)
      /\ GetSlice(full, i, n) = SubSeq(full, (IF n > b THEN n ELSE b) + 1, last)
  <2>1. ~(0 > b)
    BY <1>1
  <2> QED
    BY <2>1 DEF GetSlice
<1>4. last \in Nat /\ last <= Len(full) /\ last <= e /\ (e >= n => last >= n)
  BY <1>1, <1>2
<1> HIDE DEF b, e, n, full, last
<1>5. SubSeq(full, b + 1, last) \in Seq(S)
  <2>1. \A j \in (b + 1)..last : full[j] \in S
    BY <1>1, <1>2, <1>4, ElementOfSeq
  <2> QED
    BY <1>1, <1>4, <2>1, SubSeqProperties
<1>6. CASE n <= b
  <2>1. SubSeq(syms, b + 1, IF e < n THEN e ELSE n) = << >>
    BY <1>1, <1>6, SubSeqEmpty
  <2>2. (IF n > b THEN n ELSE b) = b
    BY <1>1, <1>6
  <2>3. << >> \o SubSeq(full, b + 1, last) = SubSeq(full, b + 1, last)
    BY <1>5, ConcatEmptySeq
  <2> QED
    BY <1>3, <2>1, <2>2, <2>3 DEF full, n
<1>7. CASE n > b /\ e <= n
  <2>1. SubSeq(full, n + 1, last) = << >>
    BY <1>1, <1>4, <1>7, SubSeqEmpty
  <2>2. last = e
    BY <1>1, <1>2, <1>7 DEF last
  <2>3. SubSeq(syms, b + 1, IF e < n THEN e ELSE n) = SubSeq(full, b + 1, last)
    <3>1. (IF e < n THEN e ELSE n) = e
      BY <1>1, <1>7
    <3>2. CASE b = e
      <4>1. SubSeq(syms, b + 1, e) = << >>
        BY <1>1, <3>2, SubSeqEmpty
      <4>2. SubSeq(full, b + 1, e) = << >>
        BY <1>1, <3>2, SubSeqEmpty
      <4> QED
        BY <4>1, <4>2, <3>1, <2>2
    <3>3. CASE b < e
      <4>1. b + 1 \in 1..Len(syms) /\ e \in 1..Len(syms)
        BY <1>1, <1>7, <3>3 DEF n
      <4> DEFINE m == b + 1
      <4>2. m \in 1..Len(syms)
        BY <4>1
      <4> HIDE DEF m
      <4>3. SubSeq(full, m, e) = SubSeq(syms, m, e)
        BY ONLY <4>1, <4>2, SubSeqOfConcat1, syms \in Seq(S), new \in Seq(S)
           DEF full
      <4> QED
        BY <3>1, <2>2, <4>3 DEF m
    <3>4. b = e \/ b < e
      BY <1>1
    <3> QED
      BY <3>2, <3>3, <3>4
  <2> QED
    BY <1>1, <1>3, <1>5, <1>7, <2>1, <2>3, ConcatEmptySeq DEF full, n
<1>8. CASE n > b /\ n < e
  <2>1. SubSeq(syms, b + 1, n) = SubSeq(full, b + 1, n)
    <3>1. b + 1 \in 1..Len(syms) /\ n \in 1..Len(syms)
      BY <1>1, <1>8 DEF n
    <3> DEFINE m == b + 1
    <3>2. m \in 1..Len(syms)
      BY <3>1
    <3> HIDE DEF m
    <3> QED
      <4>1. SubSeq(syms, m, n) = SubSeq(full, m, n)
        BY ONLY <1>1, <1>2, <3>1, <3>2, SubSeqOfConcat1, syms \in Seq(S), new \in Seq(S)
           DEF full
      <4> QED
        BY <4>1 DEF m
  <2>2. SubSeq(full, b + 1, n) \o SubSeq(full, n + 1, last) = SubSeq(full, b + 1, last)
    <3>1. /\ b + 1 \in 1..(Len(full) + 1)
          /\ n \in ((b + 1) - 1)..Len(full)
          /\ last \in n..Len(full)
      BY <1>1, <1>2, <1>4, <1>8
    <3> QED
      BY <1>2, <3>1, ConcatAdjacentSubSeq
  <2>3. (IF e < n THEN e ELSE n) = n
    BY <1>1, <1>8
  <2>4. (IF n > b THEN n ELSE b) = n
    BY <1>8
  <2> QED
    BY <1>3, <2>1, <2>2, <2>3, <2>4 DEF full, n
<1> QED
  BY <1>1, <1>6, <1>7, <1>8

-----------------------------------------------------------------------------
(* Streams                                                                 *)

StreamStates == [ ready : BOOLEAN, sent : Seq(Symbols) ]

(* What SubscribedExactlyOnce says of stream i. *)
HasItsSlice(stream, syms, i) ==
  stream.sent = IF stream.ready THEN GetSlice(syms, i, 0) ELSE << >>

LEMMA SliceCountType ==
  ASSUME NEW S, NEW syms \in Seq(S)
  PROVE  SliceCount(syms) \in Nat
<1>1. Len(syms) + MaxSubs - 1 \in Nat
  BY LenProperties, MaxSubsAssumption
<1>2. \A a \in Nat, b \in Nat \ {0} : a \div b \in Nat
  OBVIOUS
<1> QED
  BY <1>1, <1>2, MaxSubsAssumption DEF SliceCount

(* The new symbols of an update, in any order, are symbols. *)
LEMMA OrderingsAreSymbols ==
  ASSUME NEW syms \in SUBSET Symbols, NEW new \in SetToSeqs(Unseen(syms))
  PROVE  new \in Seq(Symbols)
<1>1. IsFiniteSet(Unseen(syms))
  BY SymbolsAssumption, FS_Subset DEF Unseen
<1>2. Cardinality(Unseen(syms)) \in Nat
  BY <1>1, FS_CardinalityType
<1>3. new \in [ 1..Cardinality(Unseen(syms)) -> Unseen(syms) ]
  BY DEF SetToSeqs
<1>4. new \in Seq(Unseen(syms))
  BY <1>2, <1>3, FunctionIsSeq
<1> QED
  BY <1>4, SeqMonotonic DEF Unseen

(* An update keeps the types, and every stream with its slice. *)
LEMMA UpdateKeepsSlices ==
  ASSUME NEW new \in Seq(Symbols), SymbolsUpdate(new),
         symbols \in Seq(Symbols), market_data \in Seq(StreamStates),
         SubscribedExactlyOnce
  PROVE  /\ symbols' \in Seq(Symbols)
         /\ market_data' \in Seq(StreamStates)
         /\ order_streams' = TRUE
         /\ SubscribedExactlyOnce'
<1> DEFINE full == symbols \o new
           size == SliceCount(full)
           len  == Len(market_data)
           last == IF len < size THEN size ELSE len
           streams == EnsureSymbolSlices(size)
<1>1. full \in Seq(Symbols) /\ symbols' = full
  BY ConcatProperties DEF SymbolsUpdate
<1>2. size \in Nat /\ len \in Nat
  BY <1>1, SliceCountType, LenProperties
<1>3. DOMAIN market_data = 1..len /\ \A i \in 1..len : market_data[i] \in StreamStates
  BY LenProperties, ElementOfSeq
<1>4. NewStream \in StreamStates
  BY EmptySeq DEF NewStream, StreamStates
<1>5. /\ last \in Nat
      /\ DOMAIN streams = 1..last
      /\ \A i \in 1..last : streams[i] = IF i <= len THEN market_data[i] ELSE NewStream
  BY <1>2 DEF EnsureSymbolSlices
<1>6. market_data' = [ i \in 1..last |-> Subscribed(streams[i], i, full, Len(symbols)) ]
  BY <1>5 DEF SymbolsUpdate
<1> HIDE DEF full, size, len, last, streams
<1>7. ASSUME NEW i \in 1..last
      PROVE  streams[i] \in StreamStates /\ HasItsSlice(streams[i], symbols, i)
  <2>1. i \in Nat /\ i >= 1
    BY <1>5
  <2>2. CASE i <= len
    <3>1. i \in 1..len
      BY <1>2, <2>1, <2>2
    <3>2. HasItsSlice(market_data[i], symbols, i)
      BY <1>3, <3>1 DEF SubscribedExactlyOnce, HasItsSlice, Streams
    <3> QED
      BY <1>3, <1>5, <2>2, <3>1, <3>2
  <2>3. CASE ~(i <= len)
    <3>1. streams[i] = NewStream
      BY <1>5, <2>3
    <3>2. NewStream.ready = FALSE /\ NewStream.sent = << >>
      BY DEF NewStream
    <3> QED
      BY <1>4, <3>1, <3>2 DEF HasItsSlice
  <2> QED
    BY <2>2, <2>3
<1>8. ASSUME NEW i \in 1..last
      PROVE  /\ Subscribed(streams[i], i, full, Len(symbols)) \in StreamStates
             /\ HasItsSlice(Subscribed(streams[i], i, full, Len(symbols)), full, i)
  <2>1. i \in Nat \ {0} /\ Len(symbols) \in Nat
    BY <1>5, LenProperties
  <2>2. CASE streams[i].ready
    <3>1. streams[i].sent = GetSlice(symbols, i, 0)
      BY <1>7, <2>2 DEF HasItsSlice
    <3>2. streams[i].sent \o GetSlice(full, i, Len(symbols)) = GetSlice(full, i, 0)
      BY <2>1, <3>1, SliceExtends DEF full
    <3>3. GetSlice(full, i, 0) \in Seq(Symbols)
      BY <1>1, <2>1, SliceType
    <3>4. Subscribed(streams[i], i, full, Len(symbols))
            = [ ready |-> TRUE, sent |-> GetSlice(full, i, 0) ]
      BY <2>2, <3>2 DEF Subscribed
    <3> QED
      BY <3>3, <3>4 DEF StreamStates, HasItsSlice
  <2>3. CASE ~streams[i].ready
    BY <1>7, <2>3 DEF Subscribed, HasItsSlice
  <2> QED
    BY <2>2, <2>3
<1>9. market_data' \in [ 1..last -> StreamStates ]
  BY <1>6, <1>8
<1>10. SubscribedExactlyOnce'
  BY <1>1, <1>6, <1>8 DEF SubscribedExactlyOnce, HasItsSlice, Streams
<1>11. market_data' \in Seq(StreamStates)
  BY <1>5, <1>9, FunctionIsSeq
<1> QED
  BY <1>1, <1>10, <1>11 DEF SymbolsUpdate

(* The same of the symbols a handler has seen. *)
LEMMA SeenKeepsSlices ==
  ASSUME NEW syms \in SUBSET Symbols, SymbolsSeen(syms),
         symbols \in Seq(Symbols), all_symbols \subseteq Symbols,
         market_data \in Seq(StreamStates), SubscribedExactlyOnce
  PROVE  /\ all_symbols' = all_symbols \cup syms
         /\ symbols' \in Seq(Symbols)
         /\ market_data' \in Seq(StreamStates)
         /\ order_streams' = TRUE
         /\ SubscribedExactlyOnce'
<1>1. PICK new \in SetToSeqs(Unseen(syms)) : SymbolsUpdate(new)
  BY DEF SymbolsSeen
<1>2. new \in Seq(Symbols)
  BY <1>1, OrderingsAreSymbols
<1> QED
  BY <1>1, <1>2, UpdateKeepsSlices DEF SymbolsSeen

-----------------------------------------------------------------------------
(* Types, and every stream with its slice                                  *)

(* The selected names are in the list as soon as it is used.               *)
DexsKnown ==
  state \in { "META", "DONE" } =>
    \A k \in 1..Len(SelectedDexs) :
      \E j \in 1..Len(dex) : dex[j] = SelectedDexs[k]

StaticInv == TypeOK /\ SubscribedExactlyOnce /\ DexsKnown

(* There is a selected name. *)
LEMMA SomeDexSelected == Len(SelectedDexs) \in Nat /\ Len(SelectedDexs) >= 1
BY SelectedAssumption, EmptySeq, LenProperties

(* A list that is used is not empty. *)
LEMMA DexListed ==
  ASSUME dex \in Seq(STRING), DexsKnown, state \in { "META", "DONE" }
  PROVE  Len(dex) \in Nat /\ Len(dex) >= 1
<1>1. 1 \in 1..Len(SelectedDexs) /\ Len(dex) \in Nat
  BY SomeDexSelected, LenProperties
<1>2. PICK j \in 1..Len(dex) : dex[j] = SelectedDexs[1]
  BY <1>1 DEF DexsKnown
<1> QED
  BY <1>1, <1>2

(* The list of dex grows: it is not empty, and has all selected names.     *)
LEMMA DexListGrows ==
  ASSUME dex \in Seq(STRING)
  PROVE  /\ dex \o SelectedDexs \in Seq(STRING)
         /\ Len(dex \o SelectedDexs) >= Len(dex)
         /\ Len(dex \o SelectedDexs) >= 1
         /\ \A k \in 1..Len(SelectedDexs) :
              \E j \in 1..Len(dex \o SelectedDexs) :
                (dex \o SelectedDexs)[j] = SelectedDexs[k]
<1>1. /\ dex \o SelectedDexs \in Seq(STRING)
      /\ Len(dex \o SelectedDexs) = Len(dex) + Len(SelectedDexs)
      /\ \A j \in 1..(Len(dex) + Len(SelectedDexs)) :
           (dex \o SelectedDexs)[j] = IF j <= Len(dex) THEN dex[j]
                                      ELSE SelectedDexs[j - Len(dex)]
  BY SelectedAssumption, ConcatProperties
<1>2. Len(dex) \in Nat /\ Len(SelectedDexs) \in Nat /\ Len(SelectedDexs) >= 1
  BY SomeDexSelected, LenProperties
<1>3. ASSUME NEW k \in 1..Len(SelectedDexs)
      PROVE  \E j \in 1..Len(dex \o SelectedDexs) :
               (dex \o SelectedDexs)[j] = SelectedDexs[k]
  <2> DEFINE j == Len(dex) + k
  <2>1. j \in 1..(Len(dex) + Len(SelectedDexs)) /\ ~(j <= Len(dex)) /\ j - Len(dex) = k
    BY <1>2
  <2>2. (dex \o SelectedDexs)[j] = SelectedDexs[k]
    <3> HIDE DEF j
    <3> QED
      BY <1>1, <2>1
  <2> QED
    BY <1>1, <2>1, <2>2
<1> QED
  BY <1>1, <1>2, <1>3

(* The types of what Rest keeps. *)
RestTypes ==
  /\ connected \in BOOLEAN /\ retrying \in BOOLEAN
  /\ connection_status \in { "DISCONNECTED", "DOWNLOADING", "READY" }
  /\ state \in DownloadStates \cup { "UNDEFINED", "DONE" }
  /\ requests \subseteq Requests
  /\ \A r \in requests : r.state = "META" => r.index <= Len(dex)
  /\ dex \in Seq(STRING)

(* The types of what the Controller and the exchange keep. *)
OtherTypes ==
  /\ order_streams \in BOOLEAN
  /\ all_symbols \subseteq Symbols
  /\ symbols \in Seq(Symbols)
  /\ market_data \in Seq(StreamStates)
  /\ listed \subseteq Symbols /\ promised \subseteq Symbols
  /\ drops \in 0..MaxDrops

LEMMA TypeParts == TypeOK <=> RestTypes /\ OtherTypes
BY DEF TypeOK, RestTypes, OtherTypes, StreamStates

LEMMA StaticInit == Init => StaticInv
<1> SUFFICES ASSUME Init PROVE StaticInv
  OBVIOUS
<1>1. RestTypes
  BY EmptySeq DEF Init, RestTypes
<1>2. OtherTypes
  <2>1. symbols \in Seq(Symbols) /\ market_data \in Seq(StreamStates)
    BY EmptySeq DEF Init
  <2>2. drops \in 0..MaxDrops
    BY MaxDropsAssumption DEF Init
  <2>3. listed \subseteq Symbols
    BY DEF Init
  <2> QED
    BY <2>1, <2>2, <2>3 DEF Init, OtherTypes
<1>3. DexsKnown
  BY DEF Init, DexsKnown
<1>4. SubscribedExactlyOnce
  BY EmptySeq DEF Init, SubscribedExactlyOnce, Streams
<1> QED
  BY <1>1, <1>2, <1>3, <1>4, TypeParts DEF StaticInv

(* Entering a state keeps the types, if META has a dex to ask for.         *)
LEMMA EnterTypes ==
  ASSUME NEW s \in DownloadStates \cup { "DONE" }, NEW others, Enter(s, others),
         others \subseteq Requests,
         dex' \in Seq(STRING),
         \A r \in others : r.state = "META" => r.index <= Len(dex'),
         s = "META" => Len(dex') >= 1,
         connected' \in BOOLEAN
  PROVE  RestTypes'
<1>1. /\ retrying' \in BOOLEAN
      /\ connection_status' \in { "DISCONNECTED", "DOWNLOADING", "READY" }
      /\ state' \in DownloadStates \cup { "UNDEFINED", "DONE" }
  BY DEF Enter
<1>2. CASE s = "DONE"
  BY <1>1, <1>2 DEF Enter, RestTypes
<1>3. CASE s # "DONE"
  <2>1. requests' = others \cup { Request(s, 1) }
    BY <1>3 DEF Enter
  <2>2. /\ Request(s, 1) \in Requests
        /\ Request(s, 1).state = s /\ Request(s, 1).index = 1
    BY <1>3 DEF Request, Requests
  <2> QED
    BY <1>1, <2>1, <2>2 DEF RestTypes
<1> QED
  BY <1>2, <1>3

(* The steps of Rest that keep the streams and what they know.             *)
LEMMA KeepsOthers ==
  ASSUME OtherTypes, SubscribedExactlyOnce,
         UNCHANGED << all_symbols, symbols, ctrlVars, listed >>,
         promised' \subseteq Symbols, drops' \in 0..MaxDrops
  PROVE  OtherTypes' /\ SubscribedExactlyOnce'
<1>1. OtherTypes'
  BY DEF OtherTypes, ctrlVars
<1>2. market_data' = market_data /\ symbols' = symbols
  BY DEF ctrlVars
<1> QED
  BY <1>1, <1>2 DEF SubscribedExactlyOnce, Streams

(* Dexs that are known stay known, unless the state becomes META or DONE.  *)
LEMMA DexsStay ==
  ASSUME DexsKnown, dex' = dex,
         state' \in { "META", "DONE" } => state \in { "META", "DONE" }
  PROVE  DexsKnown'
BY DEF DexsKnown

(* The bound on lost connections. *)
LEMMA DropsBound ==
  ASSUME drops \in 0..MaxDrops, drops < MaxDrops
  PROVE  drops + 1 \in 0..MaxDrops
BY MaxDropsAssumption

LEMMA StaticNext == StaticInv /\ [Next]_vars => StaticInv'
<1> SUFFICES ASSUME StaticInv, [Next]_vars PROVE StaticInv'
  OBVIOUS
<1> USE DEF StaticInv
<1>0. RestTypes /\ OtherTypes /\ SubscribedExactlyOnce /\ DexsKnown
  BY TypeParts
<1>a. (RestTypes' /\ OtherTypes') => TypeOK'
  BY TypeParts, PTL
<1>b. drops \in 0..MaxDrops /\ promised \subseteq Symbols
  BY <1>0 DEF OtherTypes
<1>1. CASE RestConnected
  <2> DEFINE s == IF Downloading THEN state ELSE "SPOT_META"
  <2>1. /\ Enter(s, requests) /\ connected' = TRUE
        /\ UNCHANGED << dex, all_symbols, symbols, ctrlVars, listed, drops >>
        /\ promised' = IF Downloading THEN promised ELSE Wanted(listed)
    BY <1>1 DEF RestConnected, sharedVars
  <2>2. s \in DownloadStates /\ (s = "META" => state = "META")
    BY DEF Downloading, DownloadStates
  <2>3. s = "META" => Len(dex') >= 1
    BY <1>0, <2>1, <2>2, DexListed DEF RestTypes
  <2>4. promised' \subseteq Symbols
    BY <1>0, <2>1 DEF OtherTypes, Wanted
  <2>5. state' = s
    BY <2>1 DEF Enter
  <2> HIDE DEF s
  <2>6. RestTypes'
    BY <1>0, <2>1, <2>2, <2>3, EnterTypes DEF RestTypes
  <2>7. OtherTypes' /\ SubscribedExactlyOnce'
    BY <1>0, <1>b, <2>1, <2>4, KeepsOthers
  <2>8. DexsKnown'
    BY <1>0, <2>1, <2>2, <2>5, DexsStay DEF DownloadStates
  <2> QED
    BY <1>a, <2>6, <2>7, <2>8
<1>2. CASE RestDisconnected
  <2>1. /\ connected' = FALSE /\ connection_status' = "DISCONNECTED"
        /\ state' = IF Downloading THEN state ELSE "UNDEFINED"
        /\ requests' = { [ r EXCEPT !.lost = TRUE ] : r \in requests }
        /\ drops < MaxDrops /\ drops' = drops + 1
        /\ UNCHANGED << retrying, dex, all_symbols, symbols, ctrlVars, listed, promised >>
    BY <1>2 DEF RestDisconnected, sharedVars
  <2>2. RestTypes'
    <3>1. \A r \in Requests : /\ [ r EXCEPT !.lost = TRUE ] \in Requests
                             /\ [ r EXCEPT !.lost = TRUE ].state = r.state
                             /\ [ r EXCEPT !.lost = TRUE ].index = r.index
      BY DEF Requests
    <3>2. /\ requests' \subseteq Requests
          /\ \A r \in requests' : r.state = "META" => r.index <= Len(dex)
      <4> SUFFICES ASSUME NEW q \in requests'
                   PROVE  q \in Requests /\ (q.state = "META" => q.index <= Len(dex))
        OBVIOUS
      <4>1. PICK r \in requests : q = [ r EXCEPT !.lost = TRUE ]
        BY <2>1
      <4>2. r \in Requests /\ (r.state = "META" => r.index <= Len(dex))
        BY <1>0 DEF RestTypes
      <4> QED
        BY <3>1, <4>1, <4>2
    <3> QED
      BY <1>0, <2>1, <3>2 DEF RestTypes
  <2>3. OtherTypes' /\ SubscribedExactlyOnce'
    BY <1>0, <1>b, <2>1, KeepsOthers, DropsBound
  <2>4. DexsKnown'
    BY <1>0, <2>1, DexsStay
  <2> QED
    BY <1>a, <2>2, <2>3, <2>4
<1>3. CASE RestRetries
  <2>1. /\ Enter(state, requests) /\ state \in DownloadStates
        /\ UNCHANGED << connected, dex, all_symbols, symbols, ctrlVars, listed,
                       promised, drops >>
    BY <1>3 DEF RestRetries, sharedVars, Downloading
  <2>2. state = "META" => Len(dex') >= 1
    BY <1>0, <2>1, DexListed DEF RestTypes
  <2>3. RestTypes'
    BY <1>0, <2>1, <2>2, EnterTypes DEF RestTypes
  <2>4. OtherTypes' /\ SubscribedExactlyOnce'
    BY <1>0, <1>b, <2>1, KeepsOthers
  <2>5. DexsKnown'
    BY <1>0, <2>1, DexsStay DEF Enter
  <2> QED
    BY <1>a, <2>3, <2>4, <2>5
<1>4. ASSUME NEW r \in requests, RestError(r) \/ RestSkipped(r)
      PROVE  StaticInv'
  <2>1. /\ requests' = requests \ {r} /\ retrying' \in BOOLEAN
        /\ UNCHANGED << connected, connection_status, state, dex, all_symbols,
                       symbols, ctrlVars, listed, promised, drops >>
    BY <1>0, <1>4 DEF RestError, RestSkipped, Retry, RestTypes, sharedVars
  <2>2. RestTypes'
    BY <1>0, <2>1 DEF RestTypes
  <2>3. OtherTypes' /\ SubscribedExactlyOnce'
    BY <1>0, <1>b, <2>1, KeepsOthers
  <2>4. DexsKnown'
    BY <1>0, <2>1, DexsStay
  <2> QED
    BY <1>a, <2>2, <2>3, <2>4
<1>5. ASSUME NEW r \in requests, GetSpotMetaAck(r)
      PROVE  StaticInv'
  <2>1. /\ Enter("PERP_DEXS", requests \ {r}) /\ state' = "PERP_DEXS"
        /\ UNCHANGED << connected, dex, all_symbols, symbols, ctrlVars, listed,
                       promised, drops >>
    BY <1>5 DEF GetSpotMetaAck, sharedVars, Enter
  <2>2. RestTypes'
    BY <1>0, <2>1, EnterTypes DEF RestTypes, DownloadStates
  <2>3. OtherTypes' /\ SubscribedExactlyOnce'
    BY <1>0, <1>b, <2>1, KeepsOthers
  <2>4. DexsKnown'
    BY <2>1 DEF DexsKnown
  <2> QED
    BY <1>a, <2>2, <2>3, <2>4
<1>6. ASSUME NEW r \in requests, GetPerpDexsAck(r)
      PROVE  StaticInv'
  <2>1. /\ Enter("META", requests \ {r}) /\ dex' = dex \o SelectedDexs
        /\ UNCHANGED << connected, all_symbols, symbols, ctrlVars, listed,
                       promised, drops >>
    BY <1>6 DEF GetPerpDexsAck
  <2>2. /\ dex' \in Seq(STRING) /\ Len(dex') >= Len(dex) /\ Len(dex') >= 1
        /\ \A k \in 1..Len(SelectedDexs) :
             \E j \in 1..Len(dex') : dex'[j] = SelectedDexs[k]
    BY <1>0, <2>1, DexListGrows DEF RestTypes
  <2>3. \A q \in requests \ {r} : q.state = "META" => q.index <= Len(dex')
    <3>1. Len(dex) \in Nat /\ Len(dex') \in Nat
      BY <1>0, <2>2, LenProperties DEF RestTypes
    <3>2. \A q \in requests : q.index \in Nat
      BY <1>0 DEF RestTypes, Requests
    <3> QED
      BY <1>0, <2>2, <3>1, <3>2 DEF RestTypes
  <2>4. RestTypes'
    BY <1>0, <2>1, <2>2, <2>3, EnterTypes DEF RestTypes, DownloadStates
  <2>5. OtherTypes' /\ SubscribedExactlyOnce'
    BY <1>0, <1>b, <2>1, KeepsOthers
  <2>6. DexsKnown'
    BY <2>2 DEF DexsKnown
  <2> QED
    BY <1>a, <2>4, <2>5, <2>6
<1>7. ASSUME NEW r \in requests, GetMetaAck(r)
      PROVE  StaticInv'
  <2> DEFINE seen == { s \in listed : DexOf[s] = dex[r.index] /\ s \notin Discarded }
  <2>1. /\ SymbolsSeen(seen) /\ r.state = "META" /\ state = "META"
        /\ UNCHANGED << connected, dex, listed, promised, drops >>
    BY <1>7 DEF GetMetaAck, Skip
  <2>2. seen \in SUBSET Symbols
    BY <1>0 DEF OtherTypes
  <2> HIDE DEF seen
  <2>3. OtherTypes' /\ SubscribedExactlyOnce'
    <3>1. /\ all_symbols' = all_symbols \cup seen
          /\ symbols' \in Seq(Symbols) /\ market_data' \in Seq(StreamStates)
          /\ order_streams' = TRUE /\ SubscribedExactlyOnce'
      BY <1>0, <2>1, <2>2, SeenKeepsSlices DEF OtherTypes
    <3> QED
      BY <1>0, <2>1, <2>2, <3>1 DEF OtherTypes
  <2>4. CASE Enter("DONE", requests \ {r})
    <3>1. RestTypes'
      BY <1>0, <2>1, <2>4, EnterTypes DEF RestTypes
    <3>2. DexsKnown'
      BY <1>0, <2>1, DexsStay
    <3> QED
      BY <1>a, <2>3, <3>1, <3>2
  <2>5. CASE /\ ~LastDex(r.index)
             /\ requests' = (requests \ {r}) \cup { Request("META", r.index + 1) }
             /\ UNCHANGED << connection_status, state, retrying >>
    <3>1. r.index \in Nat \ {0} /\ Len(dex) \in Nat
      BY <1>0, LenProperties DEF RestTypes, Requests
    <3>2. r.index + 1 <= Len(dex) /\ r.index + 1 \in Nat \ {0}
      BY <2>5, <3>1 DEF LastDex
    <3>3. Request("META", r.index + 1) \in Requests
          /\ Request("META", r.index + 1).index = r.index + 1
      BY <3>2 DEF Request, Requests, DownloadStates
    <3>4. RestTypes'
      BY <1>0, <2>1, <2>5, <3>2, <3>3 DEF RestTypes
    <3>5. DexsKnown'
      BY <1>0, <2>1, <2>5, DexsStay
    <3> QED
      BY <1>a, <2>3, <3>4, <3>5
  <2> QED
    BY <1>7, <2>4, <2>5 DEF GetMetaAck
<1>8. ASSUME NEW syms \in SUBSET Symbols, ControllerSubscribe(syms)
      PROVE  StaticInv'
  <2>1. /\ SymbolsSeen(syms)
        /\ UNCHANGED << connected, connection_status, state, retrying, requests,
                       dex, listed, promised, drops >>
    BY <1>8 DEF ControllerSubscribe, restVars
  <2>2. /\ all_symbols' = all_symbols \cup syms
        /\ symbols' \in Seq(Symbols) /\ market_data' \in Seq(StreamStates)
        /\ order_streams' = TRUE /\ SubscribedExactlyOnce'
    BY <1>0, <2>1, SeenKeepsSlices DEF OtherTypes
  <2>3. RestTypes' /\ OtherTypes'
    BY <1>0, <2>1, <2>2 DEF RestTypes, OtherTypes
  <2>4. DexsKnown'
    BY <1>0, <2>1, DexsStay
  <2> QED
    BY <1>a, <2>2, <2>3, <2>4
<1>9. ASSUME NEW i \in Streams, MarketDataReady(i) \/ MarketDataDisconnected(i)
      PROVE  StaticInv'
  <2>0. /\ market_data \in Seq(StreamStates) /\ symbols \in Seq(Symbols)
        /\ i \in DOMAIN market_data /\ i \in Nat \ {0}
        /\ market_data[i] \in StreamStates
    BY <1>0, <1>9, LenProperties, ElementOfSeq DEF OtherTypes, Streams
  <2>1. UNCHANGED << connected, connection_status, state, retrying, requests, dex,
                     all_symbols, symbols, order_streams, listed, promised >>
    BY <1>9 DEF MarketDataReady, MarketDataDisconnected, restVars, sharedVars
  <2>2. drops' \in 0..MaxDrops
    BY <1>9, <1>b, DropsBound DEF MarketDataReady, MarketDataDisconnected
  <2>3. ASSUME NEW stream \in StreamStates, HasItsSlice(stream, symbols, i),
               market_data' = [ market_data EXCEPT ![i] = stream ]
        PROVE  market_data' \in Seq(StreamStates) /\ SubscribedExactlyOnce'
    <3>1. market_data' \in Seq(StreamStates)
      BY <2>0, <2>3, ExceptSeq
    <3>2. SubscribedExactlyOnce'
      BY <1>0, <2>0, <2>1, <2>3 DEF SubscribedExactlyOnce, Streams, HasItsSlice
    <3> QED
      BY <3>1, <3>2
  <2>4. CASE MarketDataReady(i)
    <3>1. market_data[i].sent = << >>
      BY <1>0, <2>0, <2>4 DEF MarketDataReady, SubscribedExactlyOnce, Streams
    <3>2. GetSlice(symbols, i, 0) \in Seq(Symbols)
      BY <2>0, SliceType
    <3>3. Ready(market_data[i], i) = [ ready |-> TRUE, sent |-> GetSlice(symbols, i, 0) ]
      BY <3>1, <3>2, ConcatEmptySeq DEF Ready
    <3>4. Ready(market_data[i], i) \in StreamStates
          /\ HasItsSlice(Ready(market_data[i], i), symbols, i)
      BY <3>2, <3>3 DEF StreamStates, HasItsSlice
    <3>5. market_data' = [ market_data EXCEPT ![i] = Ready(market_data[i], i) ]
      BY <2>4 DEF MarketDataReady
    <3>6. market_data' \in Seq(StreamStates) /\ SubscribedExactlyOnce'
      BY <2>3, <3>4, <3>5
    <3>7. RestTypes' /\ OtherTypes' /\ DexsKnown'
      BY <1>0, <2>1, <2>2, <3>6, DexsStay DEF RestTypes, OtherTypes
    <3> QED
      BY <1>a, <3>6, <3>7
  <2>5. CASE MarketDataDisconnected(i)
    <3>1. NewStream \in StreamStates /\ HasItsSlice(NewStream, symbols, i)
      BY EmptySeq DEF NewStream, StreamStates, HasItsSlice
    <3>2. market_data' = [ market_data EXCEPT ![i] = NewStream ]
      BY <2>5 DEF MarketDataDisconnected
    <3>3. market_data' \in Seq(StreamStates) /\ SubscribedExactlyOnce'
      BY <2>3, <3>1, <3>2
    <3>4. RestTypes' /\ OtherTypes' /\ DexsKnown'
      BY <1>0, <2>1, <2>2, <3>3, DexsStay DEF RestTypes, OtherTypes
    <3> QED
      BY <1>a, <3>3, <3>4
  <2> QED
    BY <1>9, <2>4, <2>5
<1>10. ASSUME NEW s \in Symbols, ExchangeLists(s)
       PROVE  StaticInv'
  <2>1. /\ listed' = listed \cup {s}
        /\ UNCHANGED << connected, connection_status, state, retrying, requests, dex,
                       all_symbols, symbols, market_data, order_streams, promised,
                       drops >>
    BY <1>10 DEF ExchangeLists, restVars, sharedVars, ctrlVars
  <2>2. RestTypes' /\ OtherTypes' /\ DexsKnown'
    BY <1>0, <2>1, DexsStay DEF RestTypes, OtherTypes
  <2>3. SubscribedExactlyOnce'
    BY <1>0, <2>1 DEF SubscribedExactlyOnce, Streams
  <2> QED
    BY <1>a, <2>2, <2>3
<1>11. CASE UNCHANGED vars
  <2>1. UNCHANGED << connected, connection_status, state, retrying, requests, dex,
                     all_symbols, symbols, market_data, order_streams, listed,
                     promised, drops >>
    BY <1>11 DEF vars, restVars, sharedVars, ctrlVars
  <2>2. RestTypes' /\ OtherTypes' /\ DexsKnown'
    BY <1>0, <2>1, DexsStay DEF RestTypes, OtherTypes
  <2>3. SubscribedExactlyOnce'
    BY <1>0, <2>1 DEF SubscribedExactlyOnce, Streams
  <2> QED
    BY <1>a, <2>2, <2>3
<1>12. CASE RestNext
  BY <1>1, <1>2, <1>3, <1>4, <1>5, <1>6, <1>7, <1>12 DEF RestNext, RestAck
<1> QED
  BY <1>8, <1>9, <1>10, <1>11, <1>12 DEF Next

(* The types of the lists of symbols, streams, dex and requests; in        *)
(* particular no request is about a dex that the list does not have.       *)
THEOREM TypeCorrect == Spec => []TypeOK
<1>1. StaticInv => TypeOK
  BY DEF StaticInv
<1> QED
  BY StaticInit, StaticNext, <1>1, PTL DEF Spec

(* On its present connection a stream has subscribed the symbols of its    *)
(* slice, each once, whatever the order in which streams become ready,     *)
(* connections are lost and symbols arrive (MarketData::subscribe).        *)
THEOREM SubscribedAlwaysOnce == Spec => []SubscribedExactlyOnce
<1>1. StaticInv => SubscribedExactlyOnce
  BY DEF StaticInv
<1> QED
  BY StaticInit, StaticNext, <1>1, PTL DEF Spec

-----------------------------------------------------------------------------
(* READY means complete                                                    *)

(* A request for the symbols of a dex that can still be answered. *)
Open(r) == ~r.lost /\ r.state = "META"

(* Without a connection nothing can be answered, and no download is DONE.  *)
LostWhenDown ==
  ~connected => /\ connection_status = "DISCONNECTED" /\ state # "DONE"
                /\ \A r \in requests : r.lost

MetaInTime == \A r \in requests : Open(r) => state \in { "META", "DONE" }

(* The request for one dex is made when the symbols of all before it are   *)
(* known.  This is what a request that is repeated from the first dex, or  *)
(* answered while another one is under way, must not break.                *)
ChainCovers ==
  state = "META" =>
    \A r \in requests : Open(r) =>
      \A s \in promised : \A j \in 1..(r.index - 1) :
        DexOf[s] = dex[j] => s \in all_symbols

PromisedListed == promised \subseteq Wanted(listed)
DoneComplete == state = "DONE" => promised \subseteq all_symbols
ReadyDone == connection_status = "READY" => state = "DONE"

CompleteInv ==
  LostWhenDown /\ MetaInTime /\ ChainCovers /\ PromisedListed /\ DoneComplete /\ ReadyDone

LEMMA CompleteInit == Init => CompleteInv
BY DEF Init, CompleteInv, LostWhenDown, MetaInTime, ChainCovers, PromisedListed,
       DoneComplete, ReadyDone

(* A step that changes nothing of the download, except that it may add     *)
(* symbols and take requests away, keeps the invariant.                    *)
LEMMA CompleteStays ==
  ASSUME CompleteInv,
         UNCHANGED << connected, connection_status, state, dex, promised >>,
         requests' \subseteq requests,
         all_symbols \subseteq all_symbols',
         listed \subseteq listed'
  PROVE  CompleteInv'
<1>1. LostWhenDown' /\ MetaInTime'
  BY DEF CompleteInv, LostWhenDown, MetaInTime, Open
<1>2. ChainCovers'
  BY DEF CompleteInv, ChainCovers, Open
<1>3. PromisedListed' /\ DoneComplete' /\ ReadyDone'
  BY DEF CompleteInv, PromisedListed, DoneComplete, ReadyDone, Wanted
<1> QED
  BY <1>1, <1>2, <1>3 DEF CompleteInv

(* Entering the first state, the next one, or the present one again: the   *)
(* request that is added asks for the first dex, which nothing precedes.   *)
LEMMA CompleteEnters ==
  ASSUME NEW s \in DownloadStates, NEW others, Enter(s, others),
         others \subseteq requests,
         connected' = TRUE,
         PromisedListed',
         \A r \in others : Open(r) => s = "META" /\ ChainCovers /\ state = "META"
                                     /\ dex' = dex,
         all_symbols' = all_symbols,
         (\E r \in others : Open(r)) => promised' = promised
  PROVE  CompleteInv'
<1>1. /\ state' = s /\ s # "DONE" /\ connection_status' = "DOWNLOADING"
      /\ requests' = others \cup { Request(s, 1) }
  BY DEF Enter, DownloadStates
<1>2. LostWhenDown' /\ DoneComplete' /\ ReadyDone'
  BY <1>1 DEF LostWhenDown, DoneComplete, ReadyDone
<1>3. Request(s, 1).state = s /\ Request(s, 1).index = 1
  BY DEF Request
<1>4. MetaInTime'
  BY <1>1, <1>3 DEF MetaInTime, Open
<1>5. ChainCovers'
  <2> SUFFICES ASSUME NEW r \in requests', Open(r), NEW t \in promised',
                      NEW j \in 1..(r.index - 1), DexOf[t] = dex'[j]
               PROVE  t \in all_symbols
    BY DEF ChainCovers, Open
  <2>1. r # Request(s, 1)
    BY <1>3
  <2>2. r \in others
    BY <1>1, <2>1
  <2> QED
    BY <2>2 DEF ChainCovers
<1> QED
  BY <1>2, <1>4, <1>5 DEF CompleteInv

(* The answer for the last dex: everything promised is on some dex of the  *)
(* list, which the answer or one before it has covered.                    *)
LEMMA LastAnswerCompletes ==
  ASSUME StaticInv, CompleteInv, state = "META",
         NEW r \in requests, Open(r), LastDex(r.index),
         all_symbols' = all_symbols \cup
           { s \in listed : DexOf[s] = dex[r.index] /\ s \notin Discarded }
  PROVE  promised \subseteq all_symbols'
<1> SUFFICES ASSUME NEW s \in promised PROVE s \in all_symbols'
  OBVIOUS
<1>1. s \in Symbols /\ s \in listed /\ DexOf[s] \in Selected /\ s \notin Discarded
  BY DEF StaticInv, TypeOK, CompleteInv, PromisedListed, Wanted
<1>2. PICK k \in 1..Len(SelectedDexs) : SelectedDexs[k] = DexOf[s]
  BY <1>1, SelectedAssumption
<1>3. PICK j \in 1..Len(dex) : dex[j] = DexOf[s]
  BY <1>2 DEF StaticInv, DexsKnown
<1>4. r.index \in Nat \ {0} /\ Len(dex) \in Nat
  BY LenProperties DEF StaticInv, TypeOK, Requests
<1>5. r.index <= Len(dex) /\ r.index >= Len(dex)
  BY DEF StaticInv, TypeOK, Open, LastDex
<1>6. CASE j = r.index
  BY <1>1, <1>3, <1>6
<1>7. CASE j # r.index
  <2>1. j \in 1..(r.index - 1)
    BY <1>4, <1>5, <1>7
  <2> QED
    BY <1>3, <2>1 DEF CompleteInv, ChainCovers
<1> QED
  BY <1>6, <1>7

LEMMA CompleteNext == StaticInv /\ CompleteInv /\ [Next]_vars => CompleteInv'
<1> SUFFICES ASSUME StaticInv, CompleteInv, [Next]_vars PROVE CompleteInv'
  OBVIOUS
<1>0. /\ requests \subseteq Requests
      /\ state \in DownloadStates \cup { "UNDEFINED", "DONE" }
      /\ promised \subseteq Symbols /\ all_symbols \subseteq Symbols
      /\ connected \in BOOLEAN
  BY DEF StaticInv, TypeOK
<1>1. CASE RestConnected
  <2> DEFINE s == IF Downloading THEN state ELSE "SPOT_META"
  <2>1. /\ ~connected /\ connected' = TRUE /\ Enter(s, requests)
        /\ promised' = IF Downloading THEN promised ELSE Wanted(listed)
        /\ all_symbols' = all_symbols /\ listed' = listed
    BY <1>1 DEF RestConnected, sharedVars
  <2>2. s \in DownloadStates
    BY DEF Downloading, DownloadStates
  <2>3. \A r \in requests : ~Open(r)
    BY <2>1 DEF CompleteInv, LostWhenDown, Open
  <2>4. PromisedListed'
    BY <2>1 DEF CompleteInv, PromisedListed, Wanted
  <2> HIDE DEF s
  <2> QED
    BY <2>1, <2>2, <2>3, <2>4, CompleteEnters
<1>2. CASE RestDisconnected
  <2>1. /\ connected' = FALSE /\ connection_status' = "DISCONNECTED"
        /\ state' = IF Downloading THEN state ELSE "UNDEFINED"
        /\ requests' = { [ r EXCEPT !.lost = TRUE ] : r \in requests }
        /\ all_symbols' = all_symbols /\ listed' = listed /\ promised' = promised
    BY <1>2 DEF RestDisconnected, sharedVars
  <2>2. \A r \in requests' : r.lost = TRUE
    BY <1>0, <2>1 DEF Requests
  <2>3. state' # "DONE"
    BY <2>1 DEF Downloading, DownloadStates
  <2>4. LostWhenDown' /\ DoneComplete' /\ ReadyDone'
    BY <2>1, <2>2, <2>3 DEF LostWhenDown, DoneComplete, ReadyDone
  <2>5. MetaInTime' /\ ChainCovers'
    BY <2>2 DEF MetaInTime, ChainCovers, Open
  <2>6. PromisedListed'
    BY <2>1 DEF CompleteInv, PromisedListed, Wanted
  <2> QED
    BY <2>4, <2>5, <2>6 DEF CompleteInv
<1>3. CASE RestRetries
  <2>1. /\ Enter(state, requests) /\ state \in DownloadStates
        /\ connected' = TRUE /\ PromisedListed' /\ promised' = promised
        /\ dex' = dex /\ all_symbols' = all_symbols
    BY <1>3 DEF RestRetries, sharedVars, Downloading, CompleteInv, PromisedListed, Wanted
  <2>2. \A r \in requests : Open(r) => state = "META"
    BY <2>1 DEF CompleteInv, MetaInTime, DownloadStates
  <2>3. ChainCovers
    BY DEF CompleteInv
  <2> QED
    BY <2>1, <2>2, <2>3, CompleteEnters
<1>4. ASSUME NEW r \in requests, RestError(r) \/ RestSkipped(r)
      PROVE  CompleteInv'
  BY <1>4, CompleteStays DEF RestError, RestSkipped, sharedVars
<1>5. ASSUME NEW r \in requests, GetSpotMetaAck(r) \/ GetPerpDexsAck(r)
      PROVE  CompleteInv'
  <2> DEFINE s == IF GetSpotMetaAck(r) THEN "PERP_DEXS" ELSE "META"
  <2>1. /\ Enter(s, requests \ {r}) /\ ~r.lost
        /\ state \notin { "META", "DONE" }
        /\ UNCHANGED << connected, all_symbols, listed, promised >>
    BY <1>5 DEF GetSpotMetaAck, GetPerpDexsAck, sharedVars, Answered, Skip
  <2>2. s \in DownloadStates
    BY DEF DownloadStates
  <2>3. \A q \in requests : ~Open(q)
    BY <2>1 DEF CompleteInv, MetaInTime
  <2>4. connected' = TRUE
    BY <1>0, <2>1 DEF CompleteInv, LostWhenDown
  <2>5. PromisedListed'
    BY <2>1 DEF CompleteInv, PromisedListed, Wanted
  <2> HIDE DEF s
  <2> QED
    BY <2>1, <2>2, <2>3, <2>4, <2>5, CompleteEnters
<1>6. ASSUME NEW r \in requests, GetMetaAck(r)
      PROVE  CompleteInv'
  <2> DEFINE seen == { s \in listed : DexOf[s] = dex[r.index] /\ s \notin Discarded }
  <2>1. /\ Open(r) /\ state = "META" /\ all_symbols' = all_symbols \cup seen
        /\ UNCHANGED << connected, dex, listed, promised >>
    BY <1>6 DEF GetMetaAck, Skip, Answered, Open, SymbolsSeen
  <2>2. connected
    BY <2>1 DEF CompleteInv, LostWhenDown, Open
  <2>3. PromisedListed'
    BY <2>1 DEF CompleteInv, PromisedListed, Wanted
  <2>4. CASE LastDex(r.index) /\ Enter("DONE", requests \ {r})
    <3>1. state' = "DONE" /\ connection_status' = "READY"
      BY <2>4 DEF Enter
    <3>2. promised \subseteq all_symbols'
      BY <2>1, <2>4, LastAnswerCompletes
    <3>3. DoneComplete' /\ ReadyDone' /\ LostWhenDown' /\ MetaInTime' /\ ChainCovers'
      BY <2>1, <2>2, <3>1, <3>2
         DEF DoneComplete, ReadyDone, LostWhenDown, MetaInTime, ChainCovers
    <3> QED
      BY <2>3, <3>3 DEF CompleteInv
  <2>5. CASE /\ ~LastDex(r.index)
             /\ requests' = (requests \ {r}) \cup { Request("META", r.index + 1) }
             /\ UNCHANGED << connection_status, state, retrying >>
    <3>1. state' = "META" /\ connection_status' = connection_status
      BY <2>1, <2>5
    <3>2. MetaInTime' /\ DoneComplete' /\ LostWhenDown'
      BY <2>1, <2>2, <3>1 DEF MetaInTime, DoneComplete, LostWhenDown
    <3>3. ReadyDone'
      BY <2>1, <2>5 DEF ReadyDone, CompleteInv
    <3>4. ChainCovers'
      <4> SUFFICES ASSUME NEW q \in requests', Open(q), NEW s \in promised,
                          NEW j \in 1..(q.index - 1), DexOf[s] = dex[j]
                   PROVE  s \in all_symbols'
        BY <2>1 DEF ChainCovers, Open
      <4>1. CASE q \in requests
        BY <2>1, <4>1 DEF CompleteInv, ChainCovers
      <4>2. CASE q = Request("META", r.index + 1)
        <5>1. r.index \in Nat \ {0} /\ q.index = r.index + 1
          BY <1>0, <4>2 DEF Requests, Request
        <5>2. CASE j = r.index
          <6>1. s \in listed /\ s \notin Discarded
            BY DEF CompleteInv, PromisedListed, Wanted
          <6> QED
            BY <2>1, <5>2, <6>1
        <5>3. CASE j # r.index
          <6>1. j \in 1..(r.index - 1)
            BY <5>1, <5>3
          <6> QED
            BY <2>1, <6>1 DEF CompleteInv, ChainCovers
        <5> QED
          BY <5>2, <5>3
      <4> QED
        BY <2>5, <4>1, <4>2
    <3> QED
      BY <2>3, <3>2, <3>3, <3>4 DEF CompleteInv
  <2> QED
    BY <1>6, <2>4, <2>5 DEF GetMetaAck
<1>7. ASSUME NEW syms \in SUBSET Symbols, ControllerSubscribe(syms)
      PROVE  CompleteInv'
  <2>1. /\ all_symbols' = all_symbols \cup syms
        /\ UNCHANGED << connected, connection_status, state, requests, dex, listed,
                       promised >>
    BY <1>7 DEF ControllerSubscribe, SymbolsSeen, restVars
  <2> QED
    BY <2>1, CompleteStays
<1>8. ASSUME NEW i \in Streams, MarketDataReady(i) \/ MarketDataDisconnected(i)
      PROVE  CompleteInv'
  BY <1>8, CompleteStays
     DEF MarketDataReady, MarketDataDisconnected, restVars, sharedVars
<1>9. ASSUME NEW s \in Symbols, ExchangeLists(s)
      PROVE  CompleteInv'
  BY <1>9, CompleteStays DEF ExchangeLists, restVars, sharedVars
<1>10. CASE UNCHANGED vars
  BY <1>10, CompleteStays DEF vars, restVars, sharedVars
<1>11. CASE RestNext
  BY <1>1, <1>2, <1>3, <1>4, <1>5, <1>6, <1>11 DEF RestNext, RestAck
<1> QED
  BY <1>7, <1>8, <1>9, <1>10, <1>11 DEF Next

(* When Rest publishes READY every symbol that was listed on a selected    *)
(* dex when the download began is known, although requests fail, are       *)
(* repeated from the first dex, or go on over another connection.          *)
THEOREM ReadyAlwaysComplete == Spec => []ReadyMeansComplete
<1>1. CompleteInv => ReadyMeansComplete
  BY DEF CompleteInv, DoneComplete, ReadyDone, ReadyMeansComplete
<1> QED
  BY StaticInit, StaticNext, CompleteInit, CompleteNext, <1>1, PTL DEF Spec

-----------------------------------------------------------------------------
(* Each symbol has one stream                                              *)

(* A symbol that has been seen has one place, and there are streams for    *)
(* all places.                                                             *)
OnePlace ==
  /\ \A j, k \in 1..Len(symbols) : symbols[j] = symbols[k] => j = k
  /\ \A s : s \in all_symbols <=> \E k \in 1..Len(symbols) : symbols[k] = s
  /\ Len(symbols) <= Len(market_data) * MaxSubs

(* Enough slices of size m for n symbols. *)
LEMMA Ceiling ==
  ASSUME NEW n \in Nat, NEW m \in Nat \ {0}
  PROVE  n <= ((n + m - 1) \div m) * m
OBVIOUS

(* The place of a symbol is one stream and one place in its slice. *)
LEMMA Places ==
  ASSUME NEW m \in Nat \ {0}, NEW a \in Nat, NEW k \in 1..m, NEW n \in Nat
  PROVE  /\ a * m + k = n => a = (n - 1) \div m /\ k = ((n - 1) % m) + 1
         /\ n # 0 => ((n - 1) \div m) * m + (((n - 1) % m) + 1) = n
OBVIOUS

(* The new symbols of an update, in whatever order: each once.             *)
LEMMA OrderingsAreLists ==
  ASSUME NEW syms \in SUBSET Symbols, NEW new \in SetToSeqs(Unseen(syms))
  PROVE  /\ new \in Seq(Symbols)
         /\ \A j, k \in 1..Len(new) : new[j] = new[k] => j = k
         /\ \A s : s \in Unseen(syms) <=> \E k \in 1..Len(new) : new[k] = s
<1> DEFINE U == Unseen(syms)
           n == Cardinality(U)
<1>1. IsFiniteSet(U)
  BY SymbolsAssumption, FS_Subset DEF Unseen
<1>2. n \in Nat /\ Cardinality(1..n) = n
  BY <1>1, FS_CardinalityType, FS_Interval
<1>3. new \in [ 1..n -> U ] /\ \A i, j \in 1..n : i # j => new[i] # new[j]
  BY DEF SetToSeqs
<1>4. Len(new) = n
  BY <1>2, <1>3, FunctionIsSeq
<1>5. new \in Injection(1..n, U)
  BY <1>3 DEF Injection, IsInjective
<1> HIDE DEF U
<1>6. new \in Surjection(1..n, U)
  BY <1>1, <1>2, <1>5, FS_Injection
<1>7. \A s \in U : \E k \in 1..n : new[k] = s
  BY <1>6 DEF Surjection
<1> HIDE DEF n
<1> QED
  BY <1>3, <1>4, <1>7, OrderingsAreSymbols DEF U

LEMMA OnePlaceInit == Init => OnePlace
<1> SUFFICES ASSUME Init PROVE OnePlace
  OBVIOUS
<1>1. symbols = << >> /\ all_symbols = {} /\ market_data = << >>
  BY DEF Init
<1>2. Len(symbols) = 0 /\ Len(market_data) * MaxSubs = 0
  BY <1>1, MaxSubsAssumption
<1> QED
  BY <1>1, <1>2 DEF OnePlace

(* Symbols are seen: the new ones get the next places, and streams.        *)
LEMMA SeenOnePlace ==
  ASSUME TypeOK, OnePlace, NEW syms \in SUBSET Symbols, SymbolsSeen(syms)
  PROVE  OnePlace'
<1>1. PICK new \in SetToSeqs(Unseen(syms)) : SymbolsUpdate(new)
  BY DEF SymbolsSeen
<1>2. /\ new \in Seq(Symbols)
      /\ \A j, k \in 1..Len(new) : new[j] = new[k] => j = k
      /\ \A s : s \in syms \ all_symbols <=> \E k \in 1..Len(new) : new[k] = s
  BY <1>1, OrderingsAreLists DEF Unseen
<1> DEFINE full == symbols \o new
           size == SliceCount(full)
           n    == Len(symbols)
<1>3. /\ full \in Seq(Symbols) /\ n \in Nat /\ Len(new) \in Nat
      /\ Len(full) = n + Len(new)
      /\ \A k \in 1..(n + Len(new)) :
           full[k] = IF k <= n THEN symbols[k] ELSE new[k - n]
  BY <1>2, ConcatProperties, LenProperties DEF TypeOK
<1>4. symbols' = full /\ all_symbols' = all_symbols \cup syms
  BY <1>1 DEF SymbolsUpdate, SymbolsSeen
<1>5. Len(market_data') >= size /\ Len(market_data') \in Nat /\ size \in Nat
  <2> DEFINE len == Len(market_data)
             last == IF len < size THEN size ELSE len
             streams == EnsureSymbolSlices(size)
  <2>1. size \in Nat /\ len \in Nat
    BY <1>3, SliceCountType, LenProperties DEF TypeOK
  <2>2. last \in Nat /\ last >= size /\ DOMAIN streams = 1..last
    BY <2>1 DEF EnsureSymbolSlices
  <2>3. market_data' = [ i \in 1..last |-> Subscribed(streams[i], i, full, Len(symbols)) ]
    BY <1>1, <2>2 DEF SymbolsUpdate
  <2> HIDE DEF len, size, last, streams, full
  <2>4. \E T : market_data' \in [ 1..last -> T ]
    <3> WITNESS { Subscribed(streams[i], i, full, Len(symbols)) : i \in 1..last }
    <3> QED
      BY <2>3
  <2>5. Len(market_data') = last
    BY <2>2, <2>4, FunctionIsSeq
  <2> QED
    BY <2>1, <2>2, <2>5
<1>6. Len(full) <= Len(market_data') * MaxSubs
  <2>1. Len(full) <= size * MaxSubs
    BY <1>3, Ceiling, MaxSubsAssumption, LenProperties DEF SliceCount
  <2> HIDE DEF size, full
  <2>2. ASSUME NEW a \in Nat, NEW b \in Nat, a >= b PROVE b * MaxSubs <= a * MaxSubs
    <3>1. a * MaxSubs = b * MaxSubs + (a - b) * MaxSubs /\ (a - b) * MaxSubs >= 0
      BY <2>2, MaxSubsAssumption
    <3>2. b * MaxSubs \in Int /\ a * MaxSubs \in Int /\ (a - b) * MaxSubs \in Int
      BY MaxSubsAssumption
    <3> QED
      BY <3>1, <3>2
  <2>3. /\ Len(full) \in Int /\ size * MaxSubs \in Int
        /\ Len(market_data') * MaxSubs \in Int
    BY <1>3, <1>5, MaxSubsAssumption
  <2> QED
    BY <1>5, <2>1, <2>2, <2>3
<1> HIDE DEF full, n
<1>7. \A k \in 1..Len(full) :
        \/ k \in 1..n /\ full[k] = symbols[k] /\ full[k] \in all_symbols
        \/ k - n \in 1..Len(new) /\ full[k] = new[k - n] /\ full[k] \in syms \ all_symbols
  BY <1>2, <1>3 DEF OnePlace, n
<1>8. ASSUME NEW j \in 1..Len(full), NEW k \in 1..Len(full), full[j] = full[k]
      PROVE  j = k
  <2>1. CASE full[j] \in all_symbols
    <3>1. j \in 1..n /\ k \in 1..n /\ symbols[j] = symbols[k]
      BY <1>7, <1>8, <2>1
    <3> QED
      BY <3>1 DEF OnePlace, n
  <2>2. CASE full[j] \notin all_symbols
    <3>1. /\ j - n \in 1..Len(new) /\ k - n \in 1..Len(new)
          /\ new[j - n] = new[k - n]
      BY <1>7, <1>8, <2>2
    <3>2. j - n = k - n
      BY <1>2, <3>1
    <3> QED
      BY <1>3, <3>2
  <2> QED
    BY <2>1, <2>2
<1>9. ASSUME NEW s \in all_symbols \cup syms PROVE \E k \in 1..Len(full) : full[k] = s
  <2>1. CASE s \in all_symbols
    <3>1. PICK k \in 1..n : symbols[k] = s
      BY <2>1 DEF OnePlace, n
    <3> QED
      BY <1>3, <3>1
  <2>2. CASE s \in syms \ all_symbols
    <3>1. PICK k \in 1..Len(new) : new[k] = s
      BY <1>2, <2>2
    <3>2. n + k \in 1..Len(full) /\ ~(n + k <= n) /\ (n + k) - n = k
      BY <1>3, <3>1
    <3>3. full[n + k] = s
      BY <1>3, <3>1, <3>2
    <3> QED
      BY <3>2, <3>3
  <2> QED
    BY <2>1, <2>2
<1> QED
  BY <1>4, <1>6, <1>7, <1>8, <1>9 DEF OnePlace

LEMMA OnePlaceNext == StaticInv /\ OnePlace /\ [Next]_vars => OnePlace'
<1> SUFFICES ASSUME StaticInv, OnePlace, [Next]_vars PROVE OnePlace'
  OBVIOUS
<1>0. TypeOK
  BY DEF StaticInv
<1>1. ASSUME NEW syms \in SUBSET Symbols, SymbolsSeen(syms) PROVE OnePlace'
  BY <1>0, <1>1, SeenOnePlace
<1>2. CASE UNCHANGED << symbols, all_symbols, market_data >>
  BY <1>2 DEF OnePlace
<1>3. ASSUME NEW r \in requests, GetMetaAck(r) PROVE OnePlace'
  <2>1. { s \in listed : DexOf[s] = dex[r.index] /\ s \notin Discarded } \in SUBSET Symbols
    BY <1>0 DEF TypeOK
  <2> QED
    BY <1>1, <1>3, <2>1 DEF GetMetaAck
<1>4. CASE RestNext
  BY <1>2, <1>3, <1>4 DEF RestNext, RestConnected, RestDisconnected, RestRetries,
     RestError, RestAck, RestSkipped, GetSpotMetaAck, GetPerpDexsAck, sharedVars, ctrlVars
<1>5. ASSUME NEW syms \in SUBSET Symbols, ControllerSubscribe(syms) PROVE OnePlace'
  BY <1>1, <1>5 DEF ControllerSubscribe
<1>6. ASSUME NEW i \in Streams, MarketDataReady(i) \/ MarketDataDisconnected(i)
      PROVE  OnePlace'
  <2>1. /\ UNCHANGED << symbols, all_symbols >>
        /\ \E x : market_data' = [ market_data EXCEPT ![i] = x ]
    BY <1>6 DEF MarketDataReady, MarketDataDisconnected, sharedVars
  <2>2. Len(market_data') = Len(market_data)
    BY <1>0, <2>1, LenProperties DEF TypeOK
  <2> QED
    BY <2>1, <2>2 DEF OnePlace
<1>7. ASSUME NEW s \in Symbols, ExchangeLists(s) PROVE OnePlace'
  BY <1>2, <1>7 DEF ExchangeLists, sharedVars, ctrlVars
<1>8. CASE UNCHANGED vars
  BY <1>2, <1>8 DEF vars, sharedVars, ctrlVars
<1> QED
  BY <1>4, <1>5, <1>6, <1>7, <1>8 DEF Next

(* What a stream holds in place k of its slice. *)
LEMMA HoldsPlace ==
  ASSUME symbols \in Seq(Symbols), NEW i \in Nat \ {0}, NEW k \in 1..MaxSubs, NEW s
  PROVE  Holds(i, k, s) <=>
           /\ (i - 1) * MaxSubs + k \in 1..Len(symbols)
           /\ symbols[(i - 1) * MaxSubs + k] = s
<1> DEFINE b == (i - 1) * MaxSubs
           e == i * MaxSubs
           n == Len(symbols)
           last == IF e < n THEN e ELSE n
           slice == SubSeq(symbols, b + 1, last)
<1>1. b \in Nat /\ e \in Nat /\ e = b + MaxSubs /\ n \in Nat /\ MaxSubs \in Nat
  BY SliceBounds, LenProperties, MaxSubsAssumption
<1>2. GetSlice(symbols, i, 0) = slice
  <2>1. ~(0 > b)
    BY <1>1
  <2> QED
    BY <2>1 DEF GetSlice
<1>3. /\ Len(slice) = IF b + 1 <= last THEN last - (b + 1) + 1 ELSE 0
      /\ \A j \in 1..(last - (b + 1) + 1) : slice[j] = symbols[(b + 1) + j - 1]
  <2>1. last \in Int /\ b + 1 \in Int
    BY <1>1
  <2>2. \A j \in (b + 1)..last : symbols[j] \in Symbols
    <3>1. \A j \in (b + 1)..last : j \in 1..n
      BY <1>1
    <3> QED
      BY <3>1, ElementOfSeq
  <2> HIDE DEF b, last
  <2> QED
    BY <2>1, <2>2, SubSeqProperties
<1> HIDE DEF slice
<1>4. Holds(i, k, s) <=> k <= Len(slice) /\ slice[k] = s
  BY <1>2 DEF Holds
<1> HIDE DEF b, e, n
<1>5. k <= Len(slice) <=> b + k \in 1..n
  BY <1>1, <1>3
<1>6. k <= Len(slice) => slice[k] = symbols[b + k]
  <2> SUFFICES ASSUME k <= Len(slice) PROVE slice[k] = symbols[b + k]
    OBVIOUS
  <2>1. k \in 1..(last - (b + 1) + 1) /\ (b + 1) + k - 1 = b + k
    BY <1>1, <1>3
  <2> QED
    BY <1>3, <2>1
<1> QED
  BY <1>4, <1>5, <1>6 DEF b, n

(* One place in the list is one stream and one place of its slice.         *)
LEMMA OnePlaceOneStream ==
  ASSUME TypeOK, OnePlace
  PROVE  EverySymbolHasOneStream
<1>1. symbols \in Seq(Symbols) /\ Len(symbols) \in Nat /\ DOMAIN symbols = 1..Len(symbols)
  BY LenProperties DEF TypeOK
<1>2. Len(market_data) \in Nat /\ Streams = 1..Len(market_data)
  BY LenProperties DEF TypeOK, Streams
<1>3. ToSet(symbols) = all_symbols
  BY <1>1 DEF ToSet, OnePlace
<1>4. ASSUME NEW s \in all_symbols
      PROVE  \E p \in Streams \X (1..MaxSubs) :
               \A q \in Streams \X (1..MaxSubs) : Holds(q[1], q[2], s) <=> q = p
  <2>1. PICK n \in 1..Len(symbols) : symbols[n] = s
    BY DEF OnePlace
  <2> DEFINE a == (n - 1) \div MaxSubs
             c == ((n - 1) % MaxSubs) + 1
             p == << a + 1, c >>
  <2>2. n \in Nat /\ n # 0 /\ n <= Len(market_data) * MaxSubs /\ MaxSubs \in Nat \ {0}
    BY <1>1, <1>2, MaxSubsAssumption DEF OnePlace
  <2>3. a \in Nat /\ c \in 1..MaxSubs
    BY <2>2
  <2>4. a * MaxSubs + c = n
    BY <2>2, <2>3, Places
  <2> HIDE DEF a, c
  <2>5. a + 1 \in Streams
    <3>1. a * MaxSubs < Len(market_data) * MaxSubs
      <4>1. a * MaxSubs \in Nat /\ Len(market_data) * MaxSubs \in Nat
        BY <1>2, <2>2, <2>3
      <4> QED
        BY <2>2, <2>3, <2>4, <4>1
    <3>2. ASSUME NEW x \in Nat, NEW y \in Nat, x >= y PROVE x * MaxSubs >= y * MaxSubs
      <4>1. x * MaxSubs = y * MaxSubs + (x - y) * MaxSubs /\ (x - y) * MaxSubs >= 0
        BY <2>2, <3>2
      <4>2. x * MaxSubs \in Int /\ y * MaxSubs \in Int /\ (x - y) * MaxSubs \in Int
        BY <2>2
      <4> QED
        BY <4>1, <4>2
    <3>3. a < Len(market_data)
      <4>1. a * MaxSubs \in Int /\ Len(market_data) * MaxSubs \in Int
        BY <1>2, <2>2, <2>3
      <4> QED
        BY <1>2, <2>3, <3>1, <3>2, <4>1
    <3> QED
      BY <1>2, <2>3, <3>3
  <2>6. ASSUME NEW q \in Streams \X (1..MaxSubs) PROVE Holds(q[1], q[2], s) <=> q = p
    <3>1. /\ q[1] \in Nat \ {0} /\ q[1] - 1 \in Nat /\ q[2] \in 1..MaxSubs
          /\ q = << q[1], q[2] >>
      BY <1>2
    <3>2. Holds(q[1], q[2], s) <=>
            /\ (q[1] - 1) * MaxSubs + q[2] \in 1..Len(symbols)
            /\ symbols[(q[1] - 1) * MaxSubs + q[2]] = s
      BY <1>1, <3>1, HoldsPlace
    <3>3. Holds(q[1], q[2], s) <=> (q[1] - 1) * MaxSubs + q[2] = n
      BY <2>1, <3>2 DEF OnePlace
    <3>4. (q[1] - 1) * MaxSubs + q[2] = n <=> q[1] - 1 = a /\ q[2] = c
      <4>1. (q[1] - 1) * MaxSubs + q[2] = n => q[1] - 1 = a /\ q[2] = c
        <5> DEFINE x == q[1] - 1
                   y == q[2]
        <5>1. x \in Nat /\ y \in 1..MaxSubs
          BY <3>1
        <5> HIDE DEF x, y
        <5>2. x * MaxSubs + y = n => x = a /\ y = c
          <6> DEFINE m == MaxSubs
          <6>1. m \in Nat \ {0} /\ n \in Nat
            BY <2>2
          <6>2. y \in 1..m
            BY <5>1
          <6> HIDE DEF m
          <6>3. x * m + y = n => x = (n - 1) \div m /\ y = ((n - 1) % m) + 1
            BY ONLY <5>1, <6>1, <6>2
          <6> QED
            BY ONLY <6>3 DEF a, c, m
        <5> QED
          BY <5>2 DEF x, y
      <4> QED
        BY <2>4, <4>1
    <3>5. q = p <=> q[1] - 1 = a /\ q[2] = c
      BY <2>3, <3>1
    <3> QED
      BY <3>3, <3>4, <3>5
  <2>7. p \in Streams \X (1..MaxSubs)
    BY <2>3, <2>5
  <2> HIDE DEF p
  <2> QED
    BY <2>6, <2>7
<1> QED
  BY <1>3, <1>4 DEF EverySymbolHasOneStream

(* Each symbol that has been seen, in reference data or by a client, is in *)
(* one place of the slice of one stream that exists, whatever the order    *)
(* and the number of updates (core::Symbols, Controller).                  *)
THEOREM EverySymbolAlwaysHasOneStream == Spec => []EverySymbolHasOneStream
<1>1. StaticInv /\ OnePlace => EverySymbolHasOneStream
  BY OnePlaceOneStream DEF StaticInv
<1> QED
  BY StaticInit, StaticNext, OnePlaceInit, OnePlaceNext, <1>1, PTL DEF Spec

=============================================================================
