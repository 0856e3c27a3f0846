-------------------------- MODULE MarketFeed_proofs --------------------------
(***************************************************************************)
(* Proofs about MarketFeed, for every set of coins, streams and prices, as *)
(* many messages on their way as there may be, and messages with any       *)
(* number of trades.                                                       *)
(***************************************************************************)
EXTENDS MarketFeed, FiniteSetTheorems, Induction

-----------------------------------------------------------------------------
(* Messages of a sequence that are about a coin                            *)

Channels == { "l2Book", "bbo" }

News(ch, c, book) == IF ch = "l2Book" THEN BookNews(c, book) ELSE TopNews(c, book)

WireMessages == { News(ch, c, book) : ch \in Channels, c \in Coins, book \in Books }

About(w, ch, c) == { k \in DOMAIN w : w[k].channel = ch /\ w[k].coin = c }

Latest(w, ch, c, k) == k \in About(w, ch, c) /\ \A j \in About(w, ch, c) : j <= k

LEMMA NewsFields ==
  ASSUME NEW ch \in Channels, NEW c, NEW book
  PROVE  /\ News(ch, c, book).channel = ch
         /\ News(ch, c, book).coin = c
         /\ News("l2Book", c, book).levels = << book.bids, book.asks >>
         /\ News("bbo", c, book).bbo = Sides(book)
BY DEF News, BookNews, TopNews, Channels

LEMMA JoinedElement ==
  ASSUME NEW w \in Seq(WireMessages), NEW u \in Seq(WireMessages), NEW k \in DOMAIN (w \o u)
  PROVE  \/ k \in DOMAIN w /\ (w \o u)[k] = w[k]
         \/ k - Len(w) \in DOMAIN u /\ (w \o u)[k] = u[k - Len(w)]
<1>1. /\ Len(w) \in Nat /\ Len(u) \in Nat /\ k \in 1..(Len(w) + Len(u))
      /\ DOMAIN w = 1..Len(w) /\ DOMAIN u = 1..Len(u)
      /\ \A j \in 1..Len(w) : (w \o u)[j] = w[j]
      /\ \A j \in 1..Len(u) : (w \o u)[Len(w) + j] = u[j]
  OBVIOUS
<1>2. CASE k <= Len(w)
  BY <1>1, <1>2
<1>3. CASE ~(k <= Len(w))
  <2>1. k - Len(w) \in 1..Len(u) /\ Len(w) + (k - Len(w)) = k
    BY <1>1, <1>3
  <2> QED
    BY <2>1, <1>1
<1> QED
  BY <1>2, <1>3

(* What a wire says of a coin. *)
AllAre(u, ch, c, m)   == \A k \in About(u, ch, c) : u[k] = m
LatestIs(w, ch, c, m) == \A k : Latest(w, ch, c, k) => w[k] = m

(* What is added at the end is the latest, if it is about the coin. *)
LEMMA JoinedLatest ==
  ASSUME NEW w \in Seq(WireMessages), NEW u \in Seq(WireMessages), NEW ch, NEW c,
         NEW m, About(u, ch, c) # {}, AllAre(u, ch, c, m)
  PROVE  About(w \o u, ch, c) # {} /\ LatestIs(w \o u, ch, c, m)
<1> DEFINE wu == w \o u
<1>1. /\ Len(w) \in Nat /\ Len(u) \in Nat
      /\ DOMAIN wu = 1..(Len(w) + Len(u)) /\ DOMAIN u = 1..Len(u)
      /\ \A k \in 1..Len(u) : wu[Len(w) + k] = u[k]
  OBVIOUS
<1> HIDE DEF wu
<1>2. \A k \in 1..Len(u) : k \in About(u, ch, c) <=> Len(w) + k \in About(wu, ch, c)
  BY <1>1 DEF About
<1>3. About(wu, ch, c) \subseteq 1..(Len(w) + Len(u)) /\ About(u, ch, c) \subseteq 1..Len(u)
  BY <1>1 DEF About
<1>4. PICK i \in About(u, ch, c) : TRUE
  OBVIOUS
<1>5. Len(w) + i \in About(wu, ch, c) /\ i \in 1..Len(u)
  BY <1>2, <1>3, <1>4
<1>6. ASSUME NEW k, Latest(wu, ch, c, k) PROVE wu[k] = m
  <2>1. k \in 1..(Len(w) + Len(u)) /\ Len(w) + i <= k /\ k \in About(wu, ch, c)
    BY <1>5, <1>6, <1>3 DEF Latest
  <2>2. k - Len(w) \in 1..Len(u) /\ Len(w) + (k - Len(w)) = k
    BY <2>1, <1>5, <1>1
  <2>3. k - Len(w) \in About(u, ch, c) /\ wu[k] = u[k - Len(w)]
    BY <2>1, <2>2, <1>1, <1>2
  <2> QED
    BY <2>3 DEF AllAre
<1> QED
  BY <1>5, <1>6 DEF wu, LatestIs

(* If nothing that is added is about the coin, the latest stays.           *)
LEMMA JoinedOthers ==
  ASSUME NEW w \in Seq(WireMessages), NEW u \in Seq(WireMessages), NEW ch, NEW c,
         About(u, ch, c) = {}
  PROVE  /\ \A k : Latest(w \o u, ch, c, k) => Latest(w, ch, c, k) /\ (w \o u)[k] = w[k]
         /\ About(w \o u, ch, c) = {} => About(w, ch, c) = {}
<1> DEFINE wu == w \o u
<1>1. /\ Len(w) \in Nat /\ Len(u) \in Nat
      /\ DOMAIN wu = 1..(Len(w) + Len(u)) /\ DOMAIN w = 1..Len(w) /\ DOMAIN u = 1..Len(u)
      /\ \A k \in 1..Len(w) : wu[k] = w[k]
      /\ \A k \in 1..Len(u) : wu[Len(w) + k] = u[k]
  OBVIOUS
<1> HIDE DEF wu
<1>2. \A k \in 1..Len(w) : k \in About(w, ch, c) <=> k \in About(wu, ch, c)
  BY <1>1 DEF About
<1>3. \A k \in 1..Len(u) : k \in About(u, ch, c) <=> Len(w) + k \in About(wu, ch, c)
  BY <1>1 DEF About
<1>4. /\ About(wu, ch, c) \subseteq 1..(Len(w) + Len(u)) /\ About(w, ch, c) \subseteq 1..Len(w)
  BY <1>1 DEF About
<1>5. ASSUME NEW k \in About(wu, ch, c) PROVE k \in 1..Len(w)
  <2>1. k \in 1..(Len(w) + Len(u))
    BY <1>4
  <2>2. CASE ~(k <= Len(w))
    <3>1. k - Len(w) \in 1..Len(u) /\ Len(w) + (k - Len(w)) = k
      BY <2>1, <2>2, <1>1
    <3> QED
      BY <3>1, <1>3
  <2> QED
    BY <2>1, <2>2, <1>1
<1>6. About(wu, ch, c) = About(w, ch, c)
  BY <1>5, <1>2, <1>4
<1> QED
  BY <1>6, <1>1, <1>4 DEF Latest, wu

(* The message that is handled is the first.                               *)
LEMMA TailLatest ==
  ASSUME NEW w \in Seq(WireMessages), w # << >>, NEW ch, NEW c
  PROVE  /\ \A k : Latest(Tail(w), ch, c, k) => Latest(w, ch, c, k + 1) /\ Tail(w)[k] = w[k + 1]
         /\ About(Tail(w), ch, c) = {} => About(w, ch, c) \subseteq {1}
<1> DEFINE t == Tail(w)
<1>1. /\ t \in Seq(WireMessages) /\ Len(t) = Len(w) - 1 /\ Len(w) \in Nat \ {0}
      /\ DOMAIN t = 1..(Len(w) - 1) /\ DOMAIN w = 1..Len(w)
      /\ \A k \in 1..(Len(w) - 1) : t[k] = w[k + 1]
  OBVIOUS
<1> HIDE DEF t
<1>2. \A k \in 1..(Len(w) - 1) : k \in About(t, ch, c) <=> k + 1 \in About(w, ch, c)
  BY <1>1 DEF About
<1>3. About(t, ch, c) \subseteq 1..(Len(w) - 1) /\ About(w, ch, c) \subseteq 1..Len(w)
  BY <1>1 DEF About
<1>4. \A j \in About(w, ch, c) : j # 1 => j - 1 \in About(t, ch, c)
  <2> TAKE j \in About(w, ch, c)
  <2> HAVE j # 1
  <2>1. j - 1 \in 1..(Len(w) - 1) /\ (j - 1) + 1 = j
    BY <1>1, <1>3
  <2> QED
    BY <2>1, <1>2
<1>5. ASSUME NEW k, Latest(t, ch, c, k)
      PROVE  Latest(w, ch, c, k + 1) /\ t[k] = w[k + 1]
  <2>1. k \in 1..(Len(w) - 1) /\ k + 1 \in About(w, ch, c) /\ t[k] = w[k + 1]
    BY <1>5, <1>1, <1>2, <1>3 DEF Latest
  <2>2. ASSUME NEW j \in About(w, ch, c) PROVE j <= k + 1
    <3>1. CASE j = 1
      BY <3>1, <2>1
    <3>2. CASE j # 1
      <4>1. j - 1 <= k /\ j \in 1..Len(w)
        BY <3>2, <1>3, <1>4, <1>5 DEF Latest
      <4> QED
        BY <4>1, <2>1, <1>1
    <3> QED
      BY <3>1, <3>2
  <2> QED
    BY <2>1, <2>2 DEF Latest
<1> QED
  BY <1>4, <1>5 DEF t

-----------------------------------------------------------------------------
(* Subscriptions                                                           *)

(* The coins are subscribed in some order. *)
LEMMA CoinsInOrder ==
  ASSUME NEW coins \in SUBSET Coins
  PROVE  /\ SetToSeq(coins) \in [ 1..Cardinality(coins) -> coins ]
         /\ Cardinality(coins) \in Nat
         /\ \A c \in coins : \E k \in 1..Cardinality(coins) : SetToSeq(coins)[k] = c
<1> DEFINE n == Cardinality(coins)
<1>1. IsFiniteSet(coins)
  BY FeedAssumption, FS_Subset
<1>2. n \in Nat /\ ExistsBijection(1..n, coins)
  BY <1>1, FS_CardinalityType
<1>3. PICK g \in Bijection(1..n, coins) : TRUE
  BY <1>2 DEF ExistsBijection
<1>4. g \in [ 1..n -> coins ] /\ IsInjective(g)
  BY <1>3 DEF Bijection, Injection
<1>5. SetToSeq(coins) \in [ 1..n -> coins ] /\ IsInjective(SetToSeq(coins))
  BY <1>4 DEF SetToSeq
<1>6. SetToSeq(coins) \in Injection(1..n, coins)
  BY <1>5 DEF Injection
<1>7. IsFiniteSet(1..n) /\ Cardinality(1..n) = n
  BY <1>2, FS_Interval
<1>8. SetToSeq(coins) \in Surjection(1..n, coins)
  BY <1>1, <1>6, <1>7, FS_Injection
<1> QED
  BY <1>2, <1>5, <1>8 DEF Surjection

(* The answers to subscriptions have the present books of their coins.     *)
LEMMA SubscribedNews ==
  ASSUME NEW coins \in SUBSET Coins, market \in [ Coins -> Books ]
  PROVE  LET u == Subscribed(coins) IN
         /\ u \in Seq(WireMessages)
         /\ \A k \in DOMAIN u : u[k].coin \in coins
         /\ \A ch \in Channels, c \in coins :
              /\ About(u, ch, c) # {}
              /\ \A k \in About(u, ch, c) : u[k] = News(ch, c, market[c])
<1> DEFINE cs == SetToSeq(coins)
           n  == Cardinality(coins)
           tops_ == [ k \in 1..n |-> TopNews(cs[k], market[cs[k]]) ]
           books_ == [ k \in 1..n |-> BookNews(cs[k], market[cs[k]]) ]
           u == tops_ \o books_
<1>1. /\ cs \in [ 1..n -> coins ] /\ n \in Nat
      /\ \A c \in coins : \E k \in 1..n : cs[k] = c
  BY CoinsInOrder
<1> HIDE DEF cs, n
<1>2. cs \in Seq(coins) /\ Len(cs) = n
  BY <1>1
<1>3. \A k \in 1..n : /\ cs[k] \in coins /\ cs[k] \in Coins /\ market[cs[k]] \in Books
                      /\ tops_[k] = News("bbo", cs[k], market[cs[k]])
                      /\ books_[k] = News("l2Book", cs[k], market[cs[k]])
  BY <1>1 DEF News
<1>4. \A k \in 1..n : tops_[k] \in WireMessages /\ books_[k] \in WireMessages
  BY <1>3 DEF WireMessages, Channels
<1>5. DOMAIN tops_ = 1..n /\ DOMAIN books_ = 1..n
  OBVIOUS
<1>6. tops_ \in [ 1..n -> WireMessages ] /\ books_ \in [ 1..n -> WireMessages ]
  BY <1>4
<1>7. tops_ \in Seq(WireMessages) /\ Len(tops_) = n
      /\ books_ \in Seq(WireMessages) /\ Len(books_) = n
  BY <1>1, <1>5, <1>6
<1>8. Subscribed(coins) = u
  BY <1>2 DEF Subscribed, cs
<1> HIDE DEF tops_, books_
<1>9. /\ u \in Seq(WireMessages) /\ DOMAIN u = 1..(n + n)
      /\ \A k \in 1..n : u[k] = tops_[k] /\ u[n + k] = books_[k]
  <2>1. /\ u \in Seq(WireMessages) /\ DOMAIN u = 1..(Len(tops_) + Len(books_))
        /\ \A k \in 1..Len(tops_) : u[k] = tops_[k]
        /\ \A k \in 1..Len(books_) : u[Len(tops_) + k] = books_[k]
    <3>1. tops_ \in Seq(WireMessages) /\ books_ \in Seq(WireMessages)
      BY <1>7
    <3> QED
      BY ONLY <3>1
  <2> QED
    BY <2>1, <1>1, <1>7
<1> HIDE DEF u
<1>10. ASSUME NEW k \in DOMAIN u
       PROVE  \E i \in 1..n : \/ k = i /\ u[k] = News("bbo", cs[i], market[cs[i]])
                              \/ k = n + i /\ u[k] = News("l2Book", cs[i], market[cs[i]])
  <2>1. CASE k <= n
    <3>1. k \in 1..n
      BY <1>1, <1>9, <2>1
    <3> QED
      BY <3>1, <1>3, <1>9
  <2>2. CASE ~(k <= n)
    <3>1. k - n \in 1..n /\ n + (k - n) = k
      BY <1>1, <1>9, <2>2
    <3>2. u[k] = books_[k - n]
      BY <3>1, <1>9
    <3> QED
      BY <3>1, <3>2, <1>3
  <2> QED
    BY <2>1, <2>2
<1>11. ASSUME NEW k \in DOMAIN u PROVE u[k].coin \in coins
  BY <1>10, <1>3, NewsFields DEF Channels
<1>12. ASSUME NEW ch \in Channels, NEW c \in coins
       PROVE  /\ About(u, ch, c) # {}
              /\ \A k \in About(u, ch, c) : u[k] = News(ch, c, market[c])
  <2>1. PICK i \in 1..n : cs[i] = c
    BY <1>1
  <2>2. /\ i \in DOMAIN u /\ u[i] = News("bbo", c, market[c])
        /\ n + i \in DOMAIN u /\ u[n + i] = News("l2Book", c, market[c])
    BY <2>1, <1>1, <1>3, <1>9
  <2>3. i \in About(u, "bbo", c) /\ n + i \in About(u, "l2Book", c)
    BY <2>2, NewsFields DEF About, Channels
  <2>4. ASSUME NEW k \in About(u, ch, c) PROVE u[k] = News(ch, c, market[c])
    <3>1. k \in DOMAIN u /\ u[k].channel = ch /\ u[k].coin = c
      BY DEF About
    <3>2. PICK j \in 1..n : \/ u[k] = News("bbo", cs[j], market[cs[j]])
                            \/ u[k] = News("l2Book", cs[j], market[cs[j]])
      BY <3>1, <1>10
    <3>3. \A d \in Channels : u[k] = News(d, cs[j], market[cs[j]]) => cs[j] = c /\ d = ch
      BY <3>1, NewsFields
    <3> QED
      BY <3>2, <3>3 DEF Channels
  <2> QED
    BY <2>3, <2>4 DEF Channels
<1> QED
  BY <1>8, <1>9, <1>11, <1>12

-----------------------------------------------------------------------------
(* The invariant: the latest message about a coin has its present book,    *)
(* and when there is none clients have been told.                          *)

Tops == { None } \cup { TopOfBook(Sides(book)) : book \in Books }

FeedTypes ==
  /\ symbols \subseteq Coins /\ ready \subseteq Streams
  /\ wire \in [ Streams -> Seq(WireMessages) ]
  /\ market \in [ Coins -> Books ]
  /\ books \in [ Coins -> Books ] /\ tops \in [ Coins -> Tops ]

(* A stream has messages about its own coins only. *)
OwnCoins ==
  \A s \in Streams : \A k \in DOMAIN wire[s] : StreamOf[wire[s][k].coin] = s

Listening(c) == c \in symbols /\ StreamOf[c] \in ready

Told(ch, c) ==
  IF ch = "l2Book"
  THEN market[c] \in { books[c], Empty }
  ELSE Len(Sides(market[c])) = 2 => tops[c] = TopOfBook(Sides(market[c]))

CurrentCoin(c) ==
  \A ch \in Channels :
    /\ \A k : Latest(wire[StreamOf[c]], ch, c, k) =>
                wire[StreamOf[c]][k] = News(ch, c, market[c])
    /\ About(wire[StreamOf[c]], ch, c) = {} => Told(ch, c)

WireIsCurrent == \A c \in Coins : Listening(c) => CurrentCoin(c)

FeedInv == FeedTypes /\ OwnCoins /\ WireIsCurrent

LEMMA StreamOfCoin ==
  ASSUME NEW c \in Coins
  PROVE  StreamOf[c] \in Streams
BY FeedAssumption DEF Streams, Range

LEMMA OfWire ==
  ASSUME NEW m \in WireMessages
  PROVE  /\ m.channel \in Channels /\ m.coin \in Coins
         /\ \E book \in Books : m = News(m.channel, m.coin, book)
<1>1. PICK ch \in Channels, c \in Coins, book \in Books : m = News(ch, c, book)
  BY DEF WireMessages
<1>2. m.channel = ch /\ m.coin = c
  BY <1>1, NewsFields
<1> QED
  BY <1>1, <1>2

LEMMA NewsOfWire ==
  ASSUME NEW ch \in Channels, NEW c \in Coins, NEW book \in Books
  PROVE  News(ch, c, book) \in WireMessages
BY DEF WireMessages

(* What is joined to a wire that is current, with the present books of     *)
(* some coins of the stream, leaves it current: of those coins because of  *)
(* the new messages, of the others because of the old ones.                *)
LEMMA JoinKeepsLatest ==
  ASSUME NEW w \in Seq(WireMessages), NEW u \in Seq(WireMessages),
         NEW c, NEW ch, NEW m,
         AllAre(u, ch, c, m), About(u, ch, c) = {} => LatestIs(w, ch, c, m)
  PROVE  /\ LatestIs(w \o u, ch, c, m)
         /\ About(w \o u, ch, c) = {} => About(u, ch, c) = {} /\ About(w, ch, c) = {}
<1>1. CASE About(u, ch, c) # {}
  BY <1>1, JoinedLatest
<1>2. CASE About(u, ch, c) = {}
  <2>1. /\ \A k : Latest(w \o u, ch, c, k) => Latest(w, ch, c, k) /\ (w \o u)[k] = w[k]
        /\ About(w \o u, ch, c) = {} => About(w, ch, c) = {}
    BY <1>2, JoinedOthers
  <2>2. \A k : Latest(w, ch, c, k) => w[k] = m
    BY <1>2 DEF LatestIs
  <2>3. ASSUME NEW k, Latest(w \o u, ch, c, k) PROVE (w \o u)[k] = m
    <3>1. Latest(w, ch, c, k) /\ (w \o u)[k] = w[k]
      BY <2>1, <2>3
    <3> QED
      BY <2>2, <3>1
  <2> QED
    BY <1>2, <2>1, <2>3 DEF LatestIs
<1> QED
  BY <1>1, <1>2

LEMMA JoinKeepsCoin ==
  ASSUME FeedInv, NEW c \in Coins, NEW u \in Seq(WireMessages),
         wire'[StreamOf[c]] = wire[StreamOf[c]] \o u,
         books' = books, tops' = tops,
         \A ch \in Channels : \A k \in About(u, ch, c) : u[k] = News(ch, c, market'[c]),
         \/ Listening(c) /\ market'[c] = market[c]
         \/ \A ch \in Channels : About(u, ch, c) # {}
  PROVE  CurrentCoin(c)'
<1> DEFINE w == wire[StreamOf[c]]
<1>1. w \in Seq(WireMessages)
  BY StreamOfCoin DEF FeedInv, FeedTypes
<1>2. ASSUME NEW ch \in Channels
      PROVE  /\ \A k : Latest(w \o u, ch, c, k) => (w \o u)[k] = News(ch, c, market'[c])
             /\ About(w \o u, ch, c) = {} => Told(ch, c)'
  <2>1. About(u, ch, c) = {} =>
          /\ market'[c] = market[c]
          /\ \A k : Latest(w, ch, c, k) => w[k] = News(ch, c, market'[c])
          /\ About(w, ch, c) = {} => Told(ch, c)
    BY DEF FeedInv, WireIsCurrent, CurrentCoin
  <2>2. \A k \in About(u, ch, c) : u[k] = News(ch, c, market'[c])
    OBVIOUS
  <2> DEFINE m == News(ch, c, market'[c])
  <2>3. /\ LatestIs(w \o u, ch, c, m)
        /\ About(w \o u, ch, c) = {} => About(u, ch, c) = {} /\ About(w, ch, c) = {}
    <3>1. AllAre(u, ch, c, m)
      BY <2>2 DEF AllAre
    <3>2. About(u, ch, c) = {} => LatestIs(w, ch, c, m)
      BY <2>1 DEF LatestIs
    <3> HIDE DEF w, m
    <3> QED
      BY ONLY u \in Seq(WireMessages), <1>1, <3>1, <3>2, JoinKeepsLatest
  <2> HIDE DEF w
  <2>4. ASSUME About(w \o u, ch, c) = {} PROVE Told(ch, c)'
    <3>1. Told(ch, c) /\ market'[c] = market[c] /\ books' = books /\ tops' = tops
      BY <2>1, <2>3, <2>4
    <3> QED
      BY ONLY <3>1 DEF Told
  <2>5. \A k : Latest(w \o u, ch, c, k) => (w \o u)[k] = News(ch, c, market'[c])
    BY ONLY <2>3 DEF LatestIs
  <2> QED
    BY <2>4, <2>5
<1>3. wire'[StreamOf[c]] = w \o u
  OBVIOUS
<1> DEFINE v == wire'[StreamOf[c]]
<1>4. ASSUME NEW ch \in Channels
      PROVE  /\ \A k : Latest(v, ch, c, k) => v[k] = News(ch, c, market'[c])
             /\ About(v, ch, c) = {} => Told(ch, c)'
  <2> HIDE DEF w, v
  <2> QED
    BY ONLY ch \in Channels, <1>2, <1>3 DEF v
<1> QED
  BY ONLY <1>4 DEF CurrentCoin

LEMMA InitFeed == Init => FeedInv
<1> SUFFICES ASSUME Init PROVE FeedInv
  OBVIOUS
<1>1. Empty \in Books
  BY DEF Empty, Books
<1>2. << >> \in Seq(WireMessages)
  OBVIOUS
<1>3. FeedTypes
  BY <1>1, <1>2 DEF Init, FeedTypes, Tops
<1>4. OwnCoins
  BY DEF Init, OwnCoins
<1>5. \A c \in Coins : ~Listening(c)
  BY DEF Init, Listening
<1> QED
  BY <1>3, <1>4, <1>5 DEF FeedInv, WireIsCurrent

-----------------------------------------------------------------------------
(* The actions                                                             *)

LEMMA MarketChangesFeed ==
  ASSUME FeedInv, NEW c \in Coins, NEW book \in Books, MarketChanges(c, book)
  PROVE  FeedInv'
<1> DEFINE s == StreamOf[c]
           u == << BookNews(c, book), TopNews(c, book) >>
<1>1. /\ market' = [ market EXCEPT ![c] = book ]
      /\ UNCHANGED << symbols, ready, books, tops >>
      /\ s \in ready /\ c \in symbols => wire' = [ wire EXCEPT ![s] = @ \o u ]
      /\ ~(s \in ready /\ c \in symbols) => wire' = wire
  BY DEF MarketChanges, outVars
<1>2. s \in Streams
  BY StreamOfCoin
<1>3. /\ BookNews(c, book) = News("l2Book", c, book)
      /\ TopNews(c, book) = News("bbo", c, book)
  BY DEF News
<1>4. /\ BookNews(c, book) \in WireMessages /\ TopNews(c, book) \in WireMessages
  BY <1>3, NewsOfWire DEF Channels
<1>5. /\ u \in Seq(WireMessages) /\ DOMAIN u = 1..2
      /\ u[1] = News("l2Book", c, book) /\ u[2] = News("bbo", c, book)
  BY <1>3, <1>4
<1> HIDE DEF u, s
<1>6. \A k \in DOMAIN u : u[k].coin = c
  BY <1>5, NewsFields DEF Channels
<1>7. /\ 1 \in About(u, "l2Book", c) /\ 2 \in About(u, "bbo", c)
      /\ \A ch \in Channels : \A k \in About(u, ch, c) : u[k] = News(ch, c, book)
  BY <1>5, NewsFields DEF About, Channels
<1>8. \A ch \in Channels, d \in Coins : d # c => About(u, ch, d) = {}
  BY <1>6 DEF About
<1>9. FeedTypes'
  <2>1. wire[s] \o u \in Seq(WireMessages)
    BY <1>2, <1>5 DEF FeedInv, FeedTypes
  <2>2. wire' \in [ Streams -> Seq(WireMessages) ]
    BY <2>1, <1>1, <1>2 DEF FeedInv, FeedTypes
  <2> QED
    BY <2>2, <1>1 DEF FeedInv, FeedTypes
<1>10. OwnCoins'
  <2> SUFFICES ASSUME NEW t \in Streams, NEW k \in DOMAIN wire'[t]
               PROVE  StreamOf[wire'[t][k].coin] = t
    BY DEF OwnCoins
  <2>1. CASE wire'[t] = wire[t]
    BY <2>1 DEF FeedInv, OwnCoins
  <2>2. CASE wire'[t] # wire[t]
    <3>1. t = s /\ wire'[t] = wire[s] \o u /\ wire[s] \in Seq(WireMessages)
      BY <2>2, <1>1, <1>2 DEF FeedInv, FeedTypes
    <3>2. \/ k \in DOMAIN wire[s] /\ wire'[t][k] = wire[s][k]
          \/ k - Len(wire[s]) \in DOMAIN u /\ wire'[t][k] = u[k - Len(wire[s])]
      BY <3>1, <1>5, JoinedElement
    <3> QED
      BY <3>1, <3>2, <1>2, <1>6 DEF FeedInv, OwnCoins, s
  <2> QED
    BY <2>1, <2>2
<1>11. ASSUME NEW d \in Coins, Listening(d)' PROVE CurrentCoin(d)'
  <2>1. Listening(d)
    BY <1>1, <1>11 DEF Listening
  <2>2. CASE wire'[StreamOf[d]] = wire[StreamOf[d]] /\ d # c
    <3>1. market'[d] = market[d] /\ CurrentCoin(d)
      BY <1>1, <2>1, <2>2 DEF FeedInv, WireIsCurrent, FeedTypes
    <3> QED
      BY <1>1, <2>2, <3>1 DEF CurrentCoin, Told
  <2>3. CASE wire'[StreamOf[d]] # wire[StreamOf[d]] \/ d = c
    <3>1. StreamOf[d] = s /\ wire'[s] = wire[s] \o u
      <4>1. StreamOf[d] \in Streams
        BY StreamOfCoin
      <4> QED
        BY <4>1, <2>1, <2>3, <1>1, <1>2 DEF FeedInv, FeedTypes, Listening, s
    <3>2. market'[c] = book /\ (d # c => market'[d] = market[d])
      BY <1>1 DEF FeedInv, FeedTypes
    <3>3. \A ch \in Channels : \A k \in About(u, ch, d) : u[k] = News(ch, d, market'[d])
      BY <3>2, <1>7, <1>8
    <3>4. \/ Listening(d) /\ market'[d] = market[d]
          \/ \A ch \in Channels : About(u, ch, d) # {}
      BY <2>1, <3>2, <1>7 DEF Channels
    <3> QED
      BY <3>1, <3>3, <3>4, <1>1, <1>5, JoinKeepsCoin
  <2> QED
    BY <2>2, <2>3
<1> QED
  BY <1>9, <1>10, <1>11 DEF FeedInv, WireIsCurrent

(* Nothing that a coin's messages depend on has changed. *)
LEMMA CoinStays ==
  ASSUME FeedInv, NEW c \in Coins, Listening(c),
         wire'[StreamOf[c]] = wire[StreamOf[c]], market' = market,
         books'[c] = books[c], tops'[c] = tops[c]
  PROVE  CurrentCoin(c)'
BY DEF FeedInv, WireIsCurrent, CurrentCoin, Told

LEMMA ReadyFeed ==
  ASSUME FeedInv, NEW s \in Streams, Ready(s)
  PROVE  FeedInv'
<1> DEFINE coins == { c \in symbols : StreamOf[c] = s }
           u == Subscribed(coins)
<1>1. /\ s \notin ready /\ ready' = ready \cup {s}
      /\ wire' = [ wire EXCEPT ![s] = u ]
      /\ UNCHANGED << symbols, market, books, tops >>
  BY DEF Ready, outVars
<1>2. coins \in SUBSET Coins /\ market \in [ Coins -> Books ]
  BY DEF FeedInv, FeedTypes
<1> HIDE DEF coins
<1>3. /\ u \in Seq(WireMessages)
      /\ \A k \in DOMAIN u : u[k].coin \in coins
      /\ \A ch \in Channels, c \in coins :
           /\ About(u, ch, c) # {}
           /\ \A k \in About(u, ch, c) : u[k] = News(ch, c, market[c])
  BY <1>2, SubscribedNews
<1> HIDE DEF u
<1>4. FeedTypes'
  <2>1. wire' \in [ Streams -> Seq(WireMessages) ]
    BY <1>1, <1>3 DEF FeedInv, FeedTypes
  <2> QED
    BY <2>1, <1>1 DEF FeedInv, FeedTypes
<1>5. wire'[s] = u /\ \A t \in Streams : t # s => wire'[t] = wire[t]
  BY <1>1 DEF FeedInv, FeedTypes
<1>6. OwnCoins'
  BY <1>3, <1>5 DEF FeedInv, OwnCoins, coins
<1>7. ASSUME NEW c \in Coins, Listening(c)' PROVE CurrentCoin(c)'
  <2>1. CASE StreamOf[c] = s
    <3>1. c \in coins
      BY <1>1, <1>7, <2>1 DEF coins, Listening
    <3>2. ASSUME NEW ch \in Channels
          PROVE  /\ About(u, ch, c) # {}
                 /\ \A k \in About(u, ch, c) : u[k] = News(ch, c, market'[c])
      BY <3>1, <1>1, <1>3
    <3> QED
      BY <3>2, <2>1, <1>5 DEF CurrentCoin, Latest
  <2>2. CASE StreamOf[c] # s
    <3>1. Listening(c) /\ wire'[StreamOf[c]] = wire[StreamOf[c]]
      BY <1>1, <1>5, <1>7, <2>2, StreamOfCoin DEF Listening
    <3> QED
      BY <3>1, <1>1, CoinStays
  <2> QED
    BY <2>1, <2>2
<1> QED
  BY <1>4, <1>6, <1>7 DEF FeedInv, WireIsCurrent

LEMMA DisconnectedFeed ==
  ASSUME FeedInv, NEW s \in Streams, Disconnected(s)
  PROVE  FeedInv'
<1>1. /\ ready' = ready \ {s} /\ wire' = [ wire EXCEPT ![s] = << >> ]
      /\ UNCHANGED << symbols, market, books, tops >>
  BY DEF Disconnected, outVars
<1>2. << >> \in Seq(WireMessages)
  OBVIOUS
<1>3. FeedTypes'
  <2>1. wire' \in [ Streams -> Seq(WireMessages) ]
    BY <1>1, <1>2 DEF FeedInv, FeedTypes
  <2> QED
    BY <2>1, <1>1 DEF FeedInv, FeedTypes
<1>4. wire'[s] = << >> /\ \A t \in Streams : t # s => wire'[t] = wire[t]
  BY <1>1 DEF FeedInv, FeedTypes
<1>5. OwnCoins'
  BY <1>4 DEF FeedInv, OwnCoins
<1>6. ASSUME NEW c \in Coins, Listening(c)' PROVE CurrentCoin(c)'
  <2>1. Listening(c) /\ StreamOf[c] # s
    BY <1>1, <1>6 DEF Listening
  <2>2. wire'[StreamOf[c]] = wire[StreamOf[c]]
    BY <2>1, <1>4, StreamOfCoin
  <2> QED
    BY <2>1, <2>2, <1>1, CoinStays
<1> QED
  BY <1>3, <1>5, <1>6 DEF FeedInv, WireIsCurrent

LEMMA SubscribeFeed ==
  ASSUME FeedInv, NEW c \in Coins, Subscribe(c)
  PROVE  FeedInv'
<1> DEFINE s == StreamOf[c]
           u == Subscribed({c})
<1>1. /\ symbols' = symbols \cup {c} /\ c \notin symbols
      /\ s \in ready => wire' = [ wire EXCEPT ![s] = @ \o u ]
      /\ s \notin ready => wire' = wire
      /\ UNCHANGED << ready, market, books, tops >>
  BY DEF Subscribe, outVars
<1>2. s \in Streams
  BY StreamOfCoin
<1>3. /\ u \in Seq(WireMessages)
      /\ \A k \in DOMAIN u : u[k].coin = c
      /\ \A ch \in Channels :
           /\ About(u, ch, c) # {}
           /\ \A k \in About(u, ch, c) : u[k] = News(ch, c, market[c])
  <2>1. {c} \in SUBSET Coins /\ market \in [ Coins -> Books ]
    BY DEF FeedInv, FeedTypes
  <2> QED
    BY <2>1, SubscribedNews
<1> HIDE DEF u, s
<1>4. FeedTypes'
  <2>1. wire[s] \o u \in Seq(WireMessages)
    BY <1>2, <1>3 DEF FeedInv, FeedTypes
  <2>2. wire' \in [ Streams -> Seq(WireMessages) ]
    BY <2>1, <1>1, <1>2 DEF FeedInv, FeedTypes
  <2> QED
    BY <2>2, <1>1 DEF FeedInv, FeedTypes
<1>5. OwnCoins'
  <2> SUFFICES ASSUME NEW t \in Streams, NEW k \in DOMAIN wire'[t]
               PROVE  StreamOf[wire'[t][k].coin] = t
    BY DEF OwnCoins
  <2>1. CASE wire'[t] = wire[t]
    BY <2>1 DEF FeedInv, OwnCoins
  <2>2. CASE wire'[t] # wire[t]
    <3>1. t = s /\ wire'[t] = wire[s] \o u /\ wire[s] \in Seq(WireMessages)
      BY <2>2, <1>1, <1>2 DEF FeedInv, FeedTypes
    <3>2. \/ k \in DOMAIN wire[s] /\ wire'[t][k] = wire[s][k]
          \/ k - Len(wire[s]) \in DOMAIN u /\ wire'[t][k] = u[k - Len(wire[s])]
      BY <3>1, <1>3, JoinedElement
    <3>3. CASE k \in DOMAIN wire[s] /\ wire'[t][k] = wire[s][k]
      BY <3>1, <3>3, <1>2 DEF FeedInv, OwnCoins
    <3>4. CASE k - Len(wire[s]) \in DOMAIN u /\ wire'[t][k] = u[k - Len(wire[s])]
      BY <3>1, <3>4, <1>3 DEF s
    <3> QED
      BY <3>2, <3>3, <3>4
  <2> QED
    BY <2>1, <2>2
<1>6. ASSUME NEW d \in Coins, Listening(d)' PROVE CurrentCoin(d)'
  <2>1. StreamOf[d] \in Streams
    BY StreamOfCoin
  <2>2. CASE wire'[StreamOf[d]] = wire[StreamOf[d]] /\ d # c
    <3>1. Listening(d)
      BY <1>1, <1>6, <2>2 DEF Listening
    <3> QED
      BY <3>1, <2>2, <1>1, CoinStays
  <2>3. CASE wire'[StreamOf[d]] # wire[StreamOf[d]] \/ d = c
    <3>1. StreamOf[d] = s /\ wire'[s] = wire[s] \o u
      BY <2>1, <2>3, <1>1, <1>2, <1>6 DEF FeedInv, FeedTypes, Listening, s
    <3>2. \A ch \in Channels : \A k \in About(u, ch, d) : u[k] = News(ch, d, market'[d])
      BY <1>1, <1>3 DEF About
    <3>3. \/ Listening(d) /\ market'[d] = market[d]
          \/ \A ch \in Channels : About(u, ch, d) # {}
      BY <1>1, <1>3, <1>6 DEF Listening
    <3> QED
      BY <3>1, <3>2, <3>3, <1>1, <1>3, JoinKeepsCoin
  <2> QED
    BY <2>2, <2>3
<1> QED
  BY <1>4, <1>5, <1>6 DEF FeedInv, WireIsCurrent

(* A stream handles its first message: a coin stays current if what the    *)
(* message says is told when it is the latest, and what has been told      *)
(* stays when the message is about something else.                         *)
LEMMA HandledCoin ==
  ASSUME FeedInv, NEW s \in Streams, wire[s] # << >>,
         wire' = [ wire EXCEPT ![s] = Tail(@) ], market' = market,
         NEW c \in Coins, Listening(c),
         \A ch \in Channels :
           StreamOf[c] = s /\ wire[s][1] = News(ch, c, market[c]) => Told(ch, c)',
         \A ch \in Channels :
           Told(ch, c) /\ ~(wire[s][1].coin = c /\ wire[s][1].channel = ch) => Told(ch, c)'
  PROVE  CurrentCoin(c)'
<1> DEFINE w == wire[StreamOf[c]]
<1>1. StreamOf[c] \in Streams /\ w \in Seq(WireMessages) /\ CurrentCoin(c)
  BY StreamOfCoin DEF FeedInv, FeedTypes, WireIsCurrent
<1>2. CASE StreamOf[c] # s
  <2>1. wire'[StreamOf[c]] = w
    BY <1>1, <1>2
  <2>2. \A k \in DOMAIN wire[s] : wire[s][k].coin # c
    BY <1>2 DEF FeedInv, OwnCoins
  <2>3. 1 \in DOMAIN wire[s]
    BY DEF FeedInv, FeedTypes
  <2>4. \A ch \in Channels : Told(ch, c) => Told(ch, c)'
    BY <2>2, <2>3
  <2> QED
    BY <1>1, <2>1, <2>4 DEF CurrentCoin
<1>3. CASE StreamOf[c] = s
  <2>1. w # << >> /\ wire'[StreamOf[c]] = Tail(w) /\ w = wire[s]
    BY <1>1, <1>3 DEF FeedInv, FeedTypes
  <2>2. ASSUME NEW ch \in Channels
        PROVE  /\ \A k : Latest(Tail(w), ch, c, k) => Tail(w)[k] = News(ch, c, market'[c])
               /\ About(Tail(w), ch, c) = {} => Told(ch, c)'
    <3> HIDE DEF w
    <3>1. /\ \A k : Latest(Tail(w), ch, c, k) =>
                      Latest(w, ch, c, k + 1) /\ Tail(w)[k] = w[k + 1]
          /\ About(Tail(w), ch, c) = {} => About(w, ch, c) \subseteq {1}
      <4>1. w \in Seq(WireMessages) /\ w # << >>
        BY <1>1, <2>1
      <4> QED
        BY ONLY <4>1, TailLatest
    <3>2. /\ \A k : Latest(w, ch, c, k) => w[k] = News(ch, c, market[c])
          /\ About(w, ch, c) = {} => Told(ch, c)
      BY <1>1 DEF CurrentCoin, w
    <3>3. ASSUME About(Tail(w), ch, c) = {} PROVE Told(ch, c)'
      <4>1. CASE 1 \in About(w, ch, c)
        <5>1. Latest(w, ch, c, 1)
          BY <3>1, <3>3, <4>1 DEF Latest
        <5> QED
          BY <5>1, <3>2, <2>1, <1>3
      <4>2. CASE 1 \notin About(w, ch, c)
        <5>1. About(w, ch, c) = {}
          BY <3>1, <3>3, <4>2
        <5>2. 1 \in DOMAIN w
          BY <1>1, <2>1
        <5>3. ~(w[1].coin = c /\ w[1].channel = ch)
          BY <4>2, <5>2 DEF About
        <5> QED
          BY <5>1, <5>3, <3>2, <2>1
      <4> QED
        BY <4>1, <4>2
    <3> QED
      BY <3>1, <3>2, <3>3
  <2> QED
    BY <2>1, <2>2 DEF CurrentCoin, Told
<1> QED
  BY <1>2, <1>3

(* A stream's messages stay its own, and well formed. *)
LEMMA HandledTypes ==
  ASSUME FeedInv, NEW s \in Streams, wire[s] # << >>,
         wire' = [ wire EXCEPT ![s] = Tail(@) ]
  PROVE  /\ wire' \in [ Streams -> Seq(WireMessages) ]
         /\ OwnCoins'
         /\ wire[s][1] \in WireMessages
<1>1. wire[s] \in Seq(WireMessages)
  BY DEF FeedInv, FeedTypes
<1>2. /\ Tail(wire[s]) \in Seq(WireMessages) /\ wire[s][1] \in WireMessages
      /\ DOMAIN Tail(wire[s]) = 1..(Len(wire[s]) - 1) /\ DOMAIN wire[s] = 1..Len(wire[s])
      /\ Len(wire[s]) \in Nat
      /\ \A k \in 1..(Len(wire[s]) - 1) : Tail(wire[s])[k] = wire[s][k + 1]
  BY <1>1
<1>3. wire' \in [ Streams -> Seq(WireMessages) ]
  BY <1>2 DEF FeedInv, FeedTypes
<1>4. wire'[s] = Tail(wire[s]) /\ \A t \in Streams : t # s => wire'[t] = wire[t]
  BY DEF FeedInv, FeedTypes
<1>5. ASSUME NEW t \in Streams, NEW k \in DOMAIN wire'[t]
      PROVE  StreamOf[wire'[t][k].coin] = t
  <2>1. CASE t = s
    <3>1. wire'[t] = Tail(wire[s])
      BY <2>1, <1>4
    <3>2. k \in 1..(Len(wire[s]) - 1)
      BY <3>1, <1>2
    <3>3. k + 1 \in DOMAIN wire[s] /\ Tail(wire[s])[k] = wire[s][k + 1]
      BY <3>2, <1>2
    <3>4. StreamOf[wire[s][k + 1].coin] = s
      BY <3>3 DEF FeedInv, OwnCoins
    <3> QED
      BY <2>1, <3>1, <3>3, <3>4
  <2>2. CASE t # s
    BY <2>2, <1>4 DEF FeedInv, OwnCoins
  <2> QED
    BY <2>1, <2>2
<1> QED
  BY <1>2, <1>3, <1>5 DEF OwnCoins

LEMMA L2BookFeed ==
  ASSUME FeedInv, NEW s \in Streams, L2Book(s)
  PROVE  FeedInv'
<1> DEFINE m == wire[s][1]
<1>1. /\ wire[s] # << >> /\ m.channel = "l2Book"
      /\ wire' = [ wire EXCEPT ![s] = Tail(@) ]
      /\ UNCHANGED << symbols, ready, market, tops >>
      /\ bids' = m.levels[1] /\ asks' = m.levels[2]
      /\ Published(bids', asks') =>
           books' = [ books EXCEPT ![m.coin] = [ bids |-> bids', asks |-> asks' ] ]
      /\ ~Published(bids', asks') => books' = books
  BY DEF L2Book, Message, Received, Filled
<1>2. /\ wire' \in [ Streams -> Seq(WireMessages) ] /\ OwnCoins' /\ m \in WireMessages
  BY <1>1, HandledTypes
<1> HIDE DEF m
<1>3. PICK book \in Books : m = News("l2Book", m.coin, book)
  BY <1>1, <1>2, OfWire
<1>4. /\ m.coin \in Coins /\ bids' = book.bids /\ asks' = book.asks
      /\ [ bids |-> bids', asks |-> asks' ] = book
  <2>1. m.levels = << book.bids, book.asks >>
    BY <1>3, NewsFields DEF Channels
  <2>2. m.coin \in Coins
    BY <1>2, OfWire
  <2>3. book = [ bids |-> book.bids, asks |-> book.asks ]
    BY DEF Books
  <2> QED
    BY <1>1, <2>1, <2>2, <2>3
<1>5. books' \in [ Coins -> Books ]
  BY <1>1, <1>4 DEF FeedInv, FeedTypes
<1>6. FeedTypes'
  BY <1>1, <1>2, <1>5 DEF FeedInv, FeedTypes
<1>7. ASSUME NEW c \in Coins, Listening(c)' PROVE CurrentCoin(c)'
  <2>1. Listening(c)
    BY <1>1, <1>7 DEF Listening
  <2>2. ASSUME NEW ch \in Channels, m = News(ch, c, market[c])
        PROVE  Told(ch, c)'
    <3>1. m.coin = c /\ ch = "l2Book" /\ m.levels = << market[c].bids, market[c].asks >>
      BY <2>2, <1>1, NewsFields
    <3>2. market[c] \in Books
      BY DEF FeedInv, FeedTypes
    <3>3. bids' = market[c].bids /\ asks' = market[c].asks
      BY <1>1, <3>1
    <3>4. book = market[c]
      BY <3>2, <3>3, <1>4 DEF Books
    <3>5. CASE Published(bids', asks')
      <4>1. books'[c] = market'[c]
        BY <3>5, <3>1, <3>4, <1>1, <1>4 DEF FeedInv, FeedTypes
      <4> QED
        BY <4>1, <3>1 DEF Told
    <3>6. CASE ~Published(bids', asks')
      <4>1. market'[c] = Empty
        BY <3>6, <3>4, <1>1, <1>4 DEF Published, Empty
      <4> QED
        BY <4>1, <3>1 DEF Told
    <3> QED
      BY <3>5, <3>6
  <2>3. ASSUME NEW ch \in Channels, Told(ch, c), ~(m.coin = c /\ m.channel = ch)
        PROVE  Told(ch, c)'
    <3>1. CASE ch = "l2Book"
      <4>1. books'[c] = books[c]
        BY <3>1, <2>3, <1>1, <1>4 DEF FeedInv, FeedTypes
      <4> QED
        BY <4>1, <3>1, <2>3, <1>1 DEF Told
    <3>2. CASE ch # "l2Book"
      BY <3>2, <2>3, <1>1 DEF Told
    <3> QED
      BY <3>1, <3>2
  <2> QED
    BY <2>1, <2>2, <2>3, <1>1, HandledCoin DEF m
<1> QED
  BY <1>2, <1>6, <1>7 DEF FeedInv, WireIsCurrent

LEMMA BBOFeed ==
  ASSUME FeedInv, NEW s \in Streams, BBO(s)
  PROVE  FeedInv'
<1> DEFINE m == wire[s][1]
<1>1. /\ wire[s] # << >> /\ m.channel = "bbo"
      /\ wire' = [ wire EXCEPT ![s] = Tail(@) ]
      /\ UNCHANGED << symbols, ready, market, books >>
      /\ Len(m.bbo) = 2 => tops' = [ tops EXCEPT ![m.coin] = TopOfBook(m.bbo) ]
      /\ Len(m.bbo) # 2 => tops' = tops
  BY DEF BBO, Message, Received
<1>2. /\ wire' \in [ Streams -> Seq(WireMessages) ] /\ OwnCoins' /\ m \in WireMessages
  BY <1>1, HandledTypes
<1> HIDE DEF m
<1>3. PICK book \in Books : m = News("bbo", m.coin, book)
  BY <1>1, <1>2, OfWire
<1>4. m.coin \in Coins /\ m.bbo = Sides(book)
  BY <1>2, <1>3, OfWire, NewsFields DEF Channels
<1>5. tops' \in [ Coins -> Tops ]
  <2>1. TopOfBook(m.bbo) \in Tops
    BY <1>4 DEF Tops
  <2> QED
    BY <2>1, <1>1, <1>4 DEF FeedInv, FeedTypes
<1>6. FeedTypes'
  BY <1>1, <1>2, <1>5 DEF FeedInv, FeedTypes
<1>7. ASSUME NEW c \in Coins, Listening(c)' PROVE CurrentCoin(c)'
  <2>1. Listening(c)
    BY <1>1, <1>7 DEF Listening
  <2>2. ASSUME NEW ch \in Channels, m = News(ch, c, market[c])
        PROVE  Told(ch, c)'
    <3>1. m.coin = c /\ ch = "bbo" /\ m.bbo = Sides(market[c])
      BY <2>2, <1>1, NewsFields
    <3>2. Len(Sides(market'[c])) = 2 => tops'[c] = TopOfBook(Sides(market'[c]))
      BY <3>1, <1>1, <1>4 DEF FeedInv, FeedTypes
    <3> QED
      BY <3>1, <3>2 DEF Told
  <2>3. ASSUME NEW ch \in Channels, Told(ch, c), ~(m.coin = c /\ m.channel = ch)
        PROVE  Told(ch, c)'
    <3>1. CASE ch = "bbo"
      <4>1. tops'[c] = tops[c]
        BY <3>1, <2>3, <1>1, <1>4 DEF FeedInv, FeedTypes
      <4> QED
        BY <4>1, <3>1, <2>3, <1>1 DEF Told
    <3>2. CASE ch # "bbo"
      BY <3>2, <2>3, <1>1 DEF Told, Channels
    <3> QED
      BY <3>1, <3>2
  <2> QED
    BY <2>1, <2>2, <2>3, <1>1, HandledCoin DEF m
<1> QED
  BY <1>2, <1>6, <1>7 DEF FeedInv, WireIsCurrent

(* Trades use neither the connections nor the books. *)
LEMMA OthersFeed ==
  ASSUME FeedInv, UNCHANGED << symbols, ready, wire, market, books, tops >>
  PROVE  FeedInv'
<1>1. FeedTypes' /\ OwnCoins'
  BY DEF FeedInv, FeedTypes, OwnCoins
<1>2. ASSUME NEW c \in Coins, Listening(c)' PROVE CurrentCoin(c)'
  <2>1. Listening(c)
    BY <1>2 DEF Listening
  <2> QED
    BY <2>1, CoinStays
<1> QED
  BY <1>1, <1>2 DEF FeedInv, WireIsCurrent

LEMMA NextFeed ==
  ASSUME FeedInv, [Next]_vars
  PROVE  FeedInv'
<1>1. CASE TradesNext
  BY <1>1, OthersFeed DEF TradesNext, outVars
<1>2. ASSUME NEW c \in Coins, NEW book \in Books, MarketChanges(c, book)
      PROVE  FeedInv'
  BY <1>2, MarketChangesFeed
<1>3. ASSUME NEW c \in Coins, Subscribe(c) PROVE FeedInv'
  BY <1>3, SubscribeFeed
<1>4. ASSUME NEW s \in Streams, Ready(s) \/ Disconnected(s) \/ L2Book(s) \/ BBO(s)
      PROVE  FeedInv'
  BY <1>4, ReadyFeed, DisconnectedFeed, L2BookFeed, BBOFeed
<1>5. CASE UNCHANGED vars
  BY <1>5, OthersFeed DEF vars, outVars
<1> QED
  BY <1>1, <1>2, <1>3, <1>4, <1>5 DEF Next

LEMMA FeedInvariant == Spec => []FeedInv
<1>1. Init => FeedInv
  BY InitFeed
<1>2. FeedInv /\ [Next]_vars => FeedInv'
  BY NextFeed
<1> QED
  BY <1>1, <1>2, PTL DEF Spec

(* What FeedInv says of a coin that nothing on its way is about. *)
LEMMA QuietTold ==
  ASSUME FeedInv, NEW c \in Coins, Quiet(c), NEW ch \in Channels
  PROVE  Told(ch, c)
<1>1. Listening(c) /\ About(wire[StreamOf[c]], ch, c) = {}
  BY DEF Quiet, Listening, About
<1> QED
  BY <1>1 DEF FeedInv, WireIsCurrent, CurrentCoin

(* When no message about a coin is on its way, the book that clients have  *)
(* is the exchange's, however many streams share the buffers, and however  *)
(* often connections were lost and coins subscribed (MarketData's          *)
(* operator()(L2Book), Ready, Disconnected, subscribe).                    *)
THEOREM QuietBookAlwaysCurrent == Spec => []QuietBookIsCurrent
<1>1. FeedInv => QuietBookIsCurrent
  <2> SUFFICES ASSUME FeedInv, NEW c \in Coins, Quiet(c)
               PROVE  market[c] \in { books[c], Empty }
    BY DEF QuietBookIsCurrent
  <2> QED
    BY QuietTold DEF Told, Channels
<1> QED
  BY <1>1, FeedInvariant, PTL

(* A book with two sides has its best prices, as a top of the book has.    *)
LEMMA TwoSides ==
  ASSUME NEW book \in Books, book.bids # {}, book.asks # {}
  PROVE  /\ Len(Sides(book)) = 2
         /\ TopOfBook(Sides(book)) = [ bid |-> Max(book.bids), ask |-> Min(book.asks) ]
<1>1. Sides(book) = << Max(book.bids) >> \o << Min(book.asks) >>
  BY DEF Sides, Best
<1> DEFINE b == Max(book.bids)
           a == Min(book.asks)
<1> HIDE DEF b, a
<1>2. LET u == << b >> \o << a >> IN Len(u) = 2 /\ u[1] = b /\ u[2] = a
  <2>1. << b >> \in Seq({b, a}) /\ << a >> \in Seq({b, a})
    OBVIOUS
  <2>2. Len(<< b >>) = 1 /\ Len(<< a >>) = 1 /\ << b >>[1] = b /\ << a >>[1] = a
    OBVIOUS
  <2> QED
    BY <2>1, <2>2
<1>3. Sides(book) = << b >> \o << a >>
  BY <1>1 DEF b, a
<1>4. Len(Sides(book)) = 2 /\ TopOfBook(Sides(book)) = [ bid |-> b, ask |-> a ]
  BY <1>2, <1>3 DEF TopOfBook
<1> QED
  BY <1>4 DEF b, a

(* Then the top of the book is the exchange's as well, as long as both of  *)
(* its sides have a price (MarketData's operator()(BBO)).                  *)
THEOREM QuietTopAlwaysCurrent == Spec => []QuietTopIsCurrent
<1>1. FeedInv => QuietTopIsCurrent
  <2> SUFFICES ASSUME FeedInv, NEW c \in Coins, Quiet(c),
                      market[c].bids # {}, market[c].asks # {}
               PROVE  tops[c] = [ bid |-> Max(market[c].bids), ask |-> Min(market[c].asks) ]
    BY DEF QuietTopIsCurrent
  <2>1. market[c] \in Books
    BY DEF FeedInv, FeedTypes
  <2>2. /\ Len(Sides(market[c])) = 2
        /\ TopOfBook(Sides(market[c])) =
             [ bid |-> Max(market[c].bids), ask |-> Min(market[c].asks) ]
    BY <2>1, TwoSides
  <2>3. Told("bbo", c)
    BY QuietTold DEF Channels
  <2> QED
    BY <2>2, <2>3 DEF Told
<1> QED
  BY <1>1, FeedInvariant, PTL

-----------------------------------------------------------------------------
(* Trades: each summary has the trades of the message from the first to    *)
(* some trade, its end; and the ends increase.                             *)

TradeItems == [ coin : Coins, time : Times, tid : Nat ]

SummaryRecords == [ coin : Coins \cup {""}, time : Nat, trades : Seq(TradeItems) ]

LoopStates == [ coin : Coins \cup {""}, time : Nat, trades : Seq(TradeItems),
                published : Seq(SummaryRecords) ]

End(summary) == Len(summary.trades)

Starts(some, items) == \A i \in 1..Len(some) : some[i] = items[i]

Beginnings(items, pub, n) ==
  /\ \A p \in 1..Len(pub) : End(pub[p]) \in 1..n /\ Starts(pub[p].trades, items)
  /\ \A p, q \in 1..Len(pub) : p < q => End(pub[p]) < End(pub[q])

(* The j-th trade is in no summary yet. *)
Beyond(pub, j) == \A p \in 1..Len(pub) : End(pub[p]) < j

SameHeading(a, b) == a.coin = b.coin /\ a.time = b.time

(* The first summary that has the j-th trade has its coin and its time. *)
Headed(items, pub, j) ==
  \E p \in 1..Len(pub) :
    /\ j <= End(pub[p]) /\ SameHeading(pub[p], items[j])
    /\ \A q \in 1..Len(pub) : q < p => End(pub[q]) < j

(* After k rounds of the loop. *)
LoopInv(items, loop, k) ==
  /\ Len(loop.trades) = k /\ Starts(loop.trades, items)
  /\ Beginnings(items, loop.published, k - 1)
  /\ \A j \in 1..k : \/ Headed(items, loop.published, j)
                     \/ Beyond(loop.published, j) /\ SameHeading(loop, items[j])

LEMMA ItemType ==
  ASSUME NEW loop \in LoopStates, NEW item \in TradeItems
  PROVE  Item(loop, item) \in LoopStates
<1>1. item.coin \in Coins \cup {""} /\ item.time \in Nat
  BY TimesAssumption DEF TradeItems
<1>2. Append(loop.trades, item) \in Seq(TradeItems)
  <2>1. loop.trades \in Seq(TradeItems)
    BY DEF LoopStates
  <2> QED
    BY <2>1
<1>3. Dispatch(loop) \in Seq(SummaryRecords)
  <2>1. [ coin |-> loop.coin, time |-> loop.time, trades |-> loop.trades ] \in SummaryRecords
    BY DEF LoopStates, SummaryRecords
  <2>2. loop.published \in Seq(SummaryRecords)
    BY DEF LoopStates
  <2> QED
    BY <2>1, <2>2 DEF Dispatch
<1>4. loop.published \in Seq(SummaryRecords)
  BY DEF LoopStates
<1> QED
  BY <1>1, <1>2, <1>3, <1>4 DEF Item, LoopStates

(* The recursion of Loop has a solution. *)
LEMMA LoopValues ==
  ASSUME NEW items \in Seq(TradeItems), NEW buffer
  PROVE  LET loop == Loop(items, buffer) IN
         /\ loop \in [ 0..Len(items) -> LoopStates ]
         /\ loop[0] = Begin(buffer)
         /\ \A k \in 1..Len(items) : loop[k] = Item(loop[k - 1], items[k])
<1> DEFINE n == Len(items)
           step == [ k \in 1..n |-> [ l \in LoopStates |-> Item(l, items[k]) ] ]
           Solves(f) == f = [ k \in 0..n |-> IF k = 0 THEN Begin(buffer)
                                             ELSE Item(f[k - 1], items[k]) ]
<1>1. n \in Nat /\ \A k \in 1..n : items[k] \in TradeItems
  OBVIOUS
<1>2. Begin(buffer) \in LoopStates
  BY DEF Begin, Cleared, LoopStates
<1>3. step \in Steps(n, LoopStates)
  BY <1>1, ItemType DEF Steps, Step
<1> HIDE DEF step, n
<1>4. PICK f \in [ 0..n -> LoopStates ] :
        f[0] = Begin(buffer) /\ \A k \in 1..n : f[k] = step[k][f[k - 1]]
  <2> DEFINE b == Begin(buffer)
  <2> HIDE DEF b
  <2>1. b \in LoopStates
    BY <1>2 DEF b
  <2>2. n \in Nat
    BY <1>1
  <2>3. \E f \in [ 0..n -> LoopStates ] : Follows(f, n, b, step)
    BY ONLY <1>3, <2>1, <2>2, Recursion
  <2> QED
    BY <2>3 DEF b, Follows
<1>5. ASSUME NEW k \in 1..n PROVE step[k][f[k - 1]] = Item(f[k - 1], items[k])
  <2>1. k \in 1..n /\ k - 1 \in 0..n
    BY <1>1
  <2>2. f[k - 1] \in LoopStates
    BY <2>1
  <2> QED
    BY <2>1, <2>2 DEF step
<1>6. Solves(f)
  <2>1. \A k \in 0..n : f[k] = IF k = 0 THEN Begin(buffer) ELSE Item(f[k - 1], items[k])
    BY <1>1, <1>4, <1>5
  <2> QED
    BY <2>1
<1>7. Loop(items, buffer) = CHOOSE g : Solves(g)
  BY DEF Loop, n
<1> DEFINE loop == Loop(items, buffer)
<1>8. loop = [ k \in 0..n |-> IF k = 0 THEN Begin(buffer) ELSE Item(loop[k - 1], items[k]) ]
  BY <1>6, <1>7
<1> HIDE DEF loop, Solves
<1>9. DOMAIN loop = 0..n /\ loop[0] = Begin(buffer)
  BY <1>1, <1>8
<1>10. ASSUME NEW k \in 1..n PROVE loop[k] = Item(loop[k - 1], items[k])
  BY <1>1, <1>8
<1> DEFINE typed == { k \in 0..n : loop[k] \in LoopStates }
<1>11. 0 \in typed
  BY <1>1, <1>2, <1>9
<1>12. ASSUME NEW k \in 0..(n - 1), k \in typed PROVE k + 1 \in typed
  <2>1. k + 1 \in 1..n /\ (k + 1) - 1 = k /\ loop[k] \in LoopStates
    BY <1>1, <1>12
  <2>2. loop[k + 1] = Item(loop[k], items[k + 1])
    BY <2>1, <1>10
  <2>3. items[k + 1] \in TradeItems
    BY <2>1, <1>1
  <2>4. loop[k + 1] \in LoopStates
    BY <2>1, <2>2, <2>3, ItemType
  <2> QED
    BY <2>1, <2>4
<1>13. 0..n \subseteq typed
  <2> HIDE DEF typed
  <2> QED
    BY <1>1, <1>11, <1>12, BoundedInduction
<1>14. loop \in [ 0..n -> LoopStates ]
  BY <1>8, <1>13
<1> QED
  BY <1>9, <1>10, <1>14 DEF loop, n

(* What a dispatch publishes has all the trades of the rounds so far.      *)
LEMMA DispatchHeads ==
  ASSUME NEW items \in Seq(TradeItems), NEW k \in 0..Len(items),
         NEW loop \in LoopStates, LoopInv(items, loop, k)
  PROVE  /\ Dispatch(loop) \in Seq(SummaryRecords)
         /\ Beginnings(items, Dispatch(loop), k)
         /\ \A j \in 1..k : Headed(items, Dispatch(loop), j)
<1> DEFINE old == loop.published
           new == [ coin |-> loop.coin, time |-> loop.time, trades |-> loop.trades ]
<1>1. /\ loop.trades \in Seq(TradeItems) /\ old \in Seq(SummaryRecords)
      /\ new \in SummaryRecords /\ Len(items) \in Nat
      /\ Len(loop.trades) = k /\ Starts(loop.trades, items)
      /\ Beginnings(items, old, k - 1)
  <2>1. /\ loop.coin \in Coins \cup {""} /\ loop.time \in Nat
        /\ loop.trades \in Seq(TradeItems) /\ old \in Seq(SummaryRecords)
    BY DEF LoopStates
  <2>2. new \in SummaryRecords
    BY <2>1 DEF SummaryRecords
  <2>3. /\ Len(loop.trades) = k /\ Starts(loop.trades, items)
        /\ Beginnings(items, old, k - 1)
    BY DEF LoopInv
  <2>4. Len(items) \in Nat
    OBVIOUS
  <2> QED
    BY <2>1, <2>2, <2>3, <2>4
<1>2. CASE k = 0
  <2>1. loop.trades = << >>
    BY <1>1, <1>2
  <2>2. Dispatch(loop) = old
    BY <2>1 DEF Dispatch
  <2>3. Len(old) \in Nat /\ \A p \in 1..Len(old) : FALSE
    <3>1. \A p \in 1..Len(old) : End(old[p]) \in 1..(k - 1)
      BY <1>1 DEF Beginnings
    <3> QED
      BY <3>1, <1>1, <1>2
  <2> QED
    BY <1>1, <1>2, <2>2, <2>3 DEF Beginnings
<1>3. CASE k # 0
  <2> DEFINE pub == Append(old, new)
             m == Len(old)
  <2>1. loop.trades # << >> /\ Dispatch(loop) = pub
    BY <1>1, <1>3 DEF Dispatch
  <2>2. /\ End(new) = k /\ new.coin = loop.coin /\ new.time = loop.time
        /\ Starts(new.trades, items)
    BY <1>1 DEF End
  <2> HIDE DEF new, old
  <2>3. /\ m \in Nat /\ pub \in Seq(SummaryRecords) /\ Len(pub) = m + 1
        /\ \A p \in 1..m : pub[p] = old[p]
        /\ pub[m + 1] = new
    BY <1>1
  <2> HIDE DEF pub, m
  <2>4. /\ \A p \in 1..m : End(pub[p]) \in 1..(k - 1) /\ Starts(pub[p].trades, items)
        /\ \A p, q \in 1..m : p < q => End(pub[p]) < End(pub[q])
    BY <1>1, <2>3 DEF Beginnings, m
  <2>5. Beginnings(items, pub, k)
    <3>1. ASSUME NEW p \in 1..Len(pub)
          PROVE  End(pub[p]) \in 1..k /\ Starts(pub[p].trades, items)
      <4>1. CASE p \in 1..m
        BY <4>1, <2>4
      <4>2. CASE p = m + 1
        BY <4>2, <1>3, <2>2, <2>3
      <4> QED
        BY <4>1, <4>2, <2>3
    <3>2. ASSUME NEW p \in 1..Len(pub), NEW q \in 1..Len(pub), p < q
          PROVE  End(pub[p]) < End(pub[q])
      <4>1. p \in 1..m /\ (q \in 1..m \/ q = m + 1)
        BY <3>2, <2>3
      <4>2. CASE q \in 1..m
        BY <3>2, <4>1, <4>2, <2>4
      <4>3. CASE q = m + 1
        <5>1. End(pub[q]) = k /\ End(pub[p]) \in 1..(k - 1)
          BY <4>1, <4>3, <2>2, <2>3, <2>4
        <5> QED
          BY <5>1
      <4> QED
        BY <4>1, <4>2, <4>3
    <3> QED
      BY <3>1, <3>2 DEF Beginnings
  <2>6. ASSUME NEW j \in 1..k PROVE Headed(items, pub, j)
    <3>1. CASE Headed(items, old, j)
      <4>1. PICK p \in 1..m : /\ j <= End(old[p]) /\ SameHeading(old[p], items[j])
                              /\ \A q \in 1..m : q < p => End(old[q]) < j
        BY <3>1 DEF Headed, m
      <4>2. /\ p \in 1..Len(pub) /\ pub[p] = old[p]
            /\ \A q \in 1..Len(pub) : q < p => q \in 1..m /\ pub[q] = old[q]
        BY <2>3
      <4> QED
        BY <4>1, <4>2 DEF Headed
    <3>2. CASE Beyond(old, j) /\ SameHeading(loop, items[j])
      <4>1. /\ m + 1 \in 1..Len(pub) /\ j <= End(pub[m + 1])
            /\ SameHeading(pub[m + 1], items[j])
        BY <3>2, <2>2, <2>3 DEF SameHeading
      <4>2. ASSUME NEW q \in 1..Len(pub), q < m + 1 PROVE End(pub[q]) < j
        <5>1. q \in 1..m
          BY <4>2, <2>3
        <5> QED
          BY <5>1, <3>2, <2>3 DEF Beyond, m
      <4> QED
        BY <4>1, <4>2 DEF Headed
    <3> QED
      BY <3>1, <3>2 DEF LoopInv, old
  <2> QED
    BY <2>1, <2>3, <2>5, <2>6
<1> QED
  BY <1>2, <1>3

(* One round of the loop. *)
LEMMA ItemHeads ==
  ASSUME NEW items \in Seq(TradeItems), NEW k \in 0..(Len(items) - 1),
         NEW loop \in LoopStates, LoopInv(items, loop, k)
  PROVE  LoopInv(items, Item(loop, items[k + 1]), k + 1)
<1> DEFINE item == items[k + 1]
           next == Item(loop, item)
           pub  == IF SameGroup(item, loop) THEN loop.published ELSE Dispatch(loop)
<1>1. /\ Len(items) \in Nat /\ k + 1 \in 1..Len(items) /\ item \in TradeItems
      /\ k \in 0..Len(items)
  OBVIOUS
<1>2. /\ next.coin = item.coin /\ next.time = item.time
      /\ next.trades = Append(loop.trades, item) /\ next.published = pub
  BY DEF Item
<1> HIDE DEF item, next
<1>3. /\ Len(next.trades) = k + 1 /\ Starts(next.trades, items)
  <2>1. loop.trades \in Seq(TradeItems) /\ Len(loop.trades) = k /\ Starts(loop.trades, items)
    BY DEF LoopStates, LoopInv
  <2>2. /\ Len(next.trades) = k + 1 /\ next.trades[k + 1] = item
        /\ \A i \in 1..k : next.trades[i] = loop.trades[i]
    BY <1>1, <1>2, <2>1
  <2> QED
    BY <1>1, <2>1, <2>2 DEF Starts, item
<1>4. Beginnings(items, pub, k)
      /\ \A j \in 1..k : Headed(items, pub, j) \/ (Beyond(pub, j) /\ SameHeading(next, items[j]))
  <2>1. CASE SameGroup(item, loop)
    <3>1. pub = loop.published /\ SameHeading(next, loop)
      BY <2>1, <1>2 DEF SameGroup, SameHeading
    <3>2. Beginnings(items, loop.published, k - 1)
      BY DEF LoopInv
    <3>3. Beginnings(items, loop.published, k)
      BY <3>2, <1>1 DEF Beginnings
    <3> QED
      BY <3>1, <3>3 DEF LoopInv, SameHeading
  <2>2. CASE ~SameGroup(item, loop)
    BY <2>2, <1>1, DispatchHeads
  <2> QED
    BY <2>1, <2>2
<1> HIDE DEF pub
<1>5. Beyond(pub, k + 1) /\ SameHeading(next, items[k + 1])
  <2>1. \A p \in 1..Len(pub) : End(pub[p]) < k + 1
    BY <1>1, <1>4 DEF Beginnings
  <2> QED
    BY <2>1, <1>2 DEF Beyond, SameHeading, item
<1>6. \A j \in 1..(k + 1) : Headed(items, pub, j) \/ (Beyond(pub, j) /\ SameHeading(next, items[j]))
  <2> TAKE j \in 1..(k + 1)
  <2>1. j \in 1..k \/ j = k + 1
    BY <1>1
  <2> QED
    BY <2>1, <1>4, <1>5
<1>7. (k + 1) - 1 = k
  BY <1>1
<1>8. LoopInv(items, next, k + 1)
  BY <1>2, <1>3, <1>4, <1>6, <1>7 DEF LoopInv
<1> QED
  BY <1>8 DEF next, item

(* The trades of a message are numbered in their order. *)
InOrder(items) == \A i, j \in 1..Len(items) : i < j => items[i].tid < items[j].tid

TradesInv ==
  /\ data \in Seq(TradeItems) /\ InOrder(data)
  /\ published \in Seq(SummaryRecords)
  /\ Beginnings(data, published, Len(data))
  /\ \A j \in 1..Len(data) : Headed(data, published, j)

LEMMA MessagesInOrder ==
  ASSUME NEW first \in Nat, NEW items \in Messages(first)
  PROVE  items \in Seq(TradeItems) /\ InOrder(items)
<1> DEFINE Heads == [ coin : Coins, time : Times ]
<1>1. PICK heads \in SeqOf(Heads, MaxTrades) : items = Numbered(heads, first)
  BY DEF Messages
<1>2. PICK n \in 0..MaxTrades : heads \in [ 1..n -> Heads ]
  BY DEF SeqOf
<1>3. n \in Nat /\ DOMAIN heads = 1..n
  BY <1>2, TimesAssumption
<1>4. \A k \in 1..n : items[k] \in TradeItems /\ items[k].tid = first + k
  <2> TAKE k \in 1..n
  <2>1. items[k] = [ coin |-> heads[k].coin, time |-> heads[k].time, tid |-> first + k ]
    BY <1>1, <1>3 DEF Numbered
  <2>2. heads[k].coin \in Coins /\ heads[k].time \in Times /\ first + k \in Nat
    BY <1>2, <1>3
  <2> QED
    BY <2>1, <2>2 DEF TradeItems
<1>5. DOMAIN items = 1..n
  BY <1>1, <1>3 DEF Numbered
<1>6. items \in Seq(TradeItems) /\ Len(items) = n
  <2>1. items = [ k \in 1..n |-> items[k] ]
    BY <1>1, <1>3, <1>5 DEF Numbered
  <2>2. items \in [ 1..n -> TradeItems ]
    BY <1>4, <2>1
  <2> QED
    BY <1>3, <2>2
<1>7. InOrder(items)
  BY <1>3, <1>4, <1>6 DEF InOrder
<1> QED
  BY <1>6, <1>7

(* A message handled: the loop invariant holds after every round.          *)
LEMMA TradesHeads ==
  ASSUME NEW items \in Seq(TradeItems), Trades(items)
  PROVE  /\ data' = items /\ published' \in Seq(SummaryRecords)
         /\ Beginnings(items, published', Len(items))
         /\ \A j \in 1..Len(items) : Headed(items, published', j)
<1> DEFINE loop == Loop(items, trades)
           n == Len(items)
           holds == { k \in 0..n : LoopInv(items, loop[k], k) }
<1>1. /\ loop \in [ 0..n -> LoopStates ] /\ loop[0] = Begin(trades)
      /\ \A k \in 1..n : loop[k] = Item(loop[k - 1], items[k])
  BY LoopValues
<1>2. published' = Dispatch(loop[n]) /\ data' = items
  BY DEF Trades
<1> HIDE DEF loop
<1>3. n \in Nat
  OBVIOUS
<1>4. 0 \in holds
  <2>1. loop[0].trades = << >> /\ loop[0].published = << >>
    <3>1. Begin(trades).trades = << >> /\ Begin(trades).published = << >>
      BY DEF Begin, Cleared
    <3> QED
      BY <1>1, <3>1
  <2>2. Len(<< >>) = 0
    OBVIOUS
  <2>3. LoopInv(items, loop[0], 0)
    BY <2>1, <2>2 DEF LoopInv, Starts, Beginnings
  <2> QED
    BY <1>3, <2>3
<1>5. ASSUME NEW k \in 0..(n - 1), k \in holds PROVE k + 1 \in holds
  <2>1. k + 1 \in 1..n /\ k + 1 \in 0..n /\ k \in 0..n /\ (k + 1) - 1 = k
    BY <1>3
  <2>2. loop[k + 1] = Item(loop[k], items[k + 1]) /\ loop[k] \in LoopStates
    BY <2>1, <1>1
  <2>3. LoopInv(items, loop[k], k)
    BY <1>5
  <2>4. LoopInv(items, loop[k + 1], k + 1)
    BY <2>2, <2>3, ItemHeads
  <2> QED
    BY <2>1, <2>4
<1>6. n \in holds
  <2>1. 0..n \subseteq holds
    <3> HIDE DEF holds, n
    <3> QED
      BY <1>3, <1>4, <1>5, BoundedInduction
  <2> QED
    BY <1>3, <2>1
<1>7. LoopInv(items, loop[n], n) /\ loop[n] \in LoopStates /\ n \in 0..Len(items)
  BY <1>1, <1>3, <1>6
<1> HIDE DEF n
<1>8. /\ Dispatch(loop[n]) \in Seq(SummaryRecords)
      /\ Beginnings(items, Dispatch(loop[n]), n)
      /\ \A j \in 1..n : Headed(items, Dispatch(loop[n]), j)
  BY <1>7, DispatchHeads
<1> QED
  BY <1>2, <1>8 DEF n

LEMMA TradesInvariant == Spec => []TradesInv
<1>1. ASSUME Init PROVE TradesInv
  <2>1. data = << >> /\ published = << >>
    BY <1>1 DEF Init
  <2>2. /\ << >> \in Seq(TradeItems) /\ << >> \in Seq(SummaryRecords)
        /\ Len(<< >>) = 0
    OBVIOUS
  <2> QED
    BY <2>1, <2>2 DEF TradesInv, InOrder, Beginnings
<1>2. ASSUME TradesInv, [Next]_vars PROVE TradesInv'
  <2>1. CASE UNCHANGED << data, published >>
    <3>1. data' = data /\ published' = published
      BY <2>1
    <3> QED
      BY <1>2, <3>1 DEF TradesInv, InOrder, Beginnings, Headed, Starts, End, SameHeading
  <2>2. CASE TradesNext
    <3>1. PICK first \in { 0, MaxTrades } : \E items \in Messages(first) : Trades(items)
      BY <2>2 DEF TradesNext
    <3>2. first \in Nat
      BY TimesAssumption
    <3> PICK items \in Messages(first) : Trades(items)
      BY <3>1
    <3>3. items \in Seq(TradeItems) /\ InOrder(items)
      BY <3>2, MessagesInOrder
    <3>4. /\ data' = items /\ published' \in Seq(SummaryRecords)
          /\ Beginnings(items, published', Len(items))
          /\ \A j \in 1..Len(items) : Headed(items, published', j)
      BY <3>3, TradesHeads
    <3> QED
      BY <3>3, <3>4 DEF TradesInv
  <2>3. CASE ~TradesNext
    <3>1. ASSUME UNCHANGED vars PROVE UNCHANGED tradeVars
      BY <3>1 DEF vars, tradeVars
    <3>2. ASSUME NEW c \in Coins, NEW book \in Books, MarketChanges(c, book)
          PROVE  UNCHANGED tradeVars
      BY <3>2 DEF MarketChanges
    <3>3. ASSUME NEW c \in Coins, Subscribe(c) PROVE UNCHANGED tradeVars
      BY <3>3 DEF Subscribe
    <3>4. ASSUME NEW s \in Streams, Ready(s) \/ Disconnected(s) \/ L2Book(s) \/ BBO(s)
          PROVE  UNCHANGED tradeVars
      BY <3>4 DEF Ready, Disconnected, L2Book, BBO, Received
    <3>5. UNCHANGED tradeVars
      BY <1>2, <2>3, <3>1, <3>2, <3>3, <3>4 DEF Next
    <3> QED
      BY <3>5, <2>1 DEF tradeVars
  <2> QED
    BY <2>2, <2>3
<1> QED
  BY <1>1, <1>2, PTL DEF Spec

(* The trades of a message differ by their numbers. *)
LEMMA SameTrade ==
  ASSUME NEW items \in Seq(TradeItems), InOrder(items),
         NEW i \in 1..Len(items), NEW j \in 1..Len(items), items[i] = items[j]
  PROVE  i = j
<1>1. items[i].tid \in Nat /\ items[j].tid \in Nat /\ Len(items) \in Nat
  <2>1. items[i] \in TradeItems /\ items[j] \in TradeItems /\ Len(items) \in Nat
    OBVIOUS
  <2> QED
    BY <2>1 DEF TradeItems
<1>2. ~(i < j) /\ ~(j < i)
  BY <1>1 DEF InOrder
<1> QED
  BY <1>1, <1>2

LEMMA SummaryTrades ==
  ASSUME TradesInv, NEW p \in 1..Len(published)
  PROVE  /\ published[p].trades \in Seq(TradeItems)
         /\ End(published[p]) \in 1..Len(data)
         /\ DOMAIN published[p].trades = 1..End(published[p])
         /\ \A i \in 1..End(published[p]) : published[p].trades[i] = data[i]
<1>1. published[p] \in SummaryRecords
  BY DEF TradesInv
<1>2. published[p].trades \in Seq(TradeItems)
  BY <1>1 DEF SummaryRecords
<1>3. DOMAIN published[p].trades = 1..Len(published[p].trades)
  BY <1>2
<1>4. End(published[p]) \in 1..Len(data) /\ Starts(published[p].trades, data)
  BY DEF TradesInv, Beginnings
<1> QED
  BY <1>2, <1>3, <1>4 DEF End, Starts

(* The summaries that have the j-th trade are those that do not end before *)
(* it.                                                                     *)
LEMMA SummariesOf ==
  ASSUME TradesInv, NEW j \in 1..Len(data)
  PROVE  Summaries(data[j]) = { p \in 1..Len(published) : j <= End(published[p]) }
<1>1. DOMAIN published = 1..Len(published) /\ Len(data) \in Nat
  BY DEF TradesInv
<1>2. ASSUME NEW p \in 1..Len(published)
      PROVE  data[j] \in ToSet(published[p].trades) <=> j <= End(published[p])
  <2>1. /\ End(published[p]) \in 1..Len(data)
        /\ DOMAIN published[p].trades = 1..End(published[p])
        /\ \A i \in 1..End(published[p]) : published[p].trades[i] = data[i]
    BY SummaryTrades
  <2>2. ASSUME data[j] \in ToSet(published[p].trades) PROVE j <= End(published[p])
    <3>1. PICK i \in 1..End(published[p]) : published[p].trades[i] = data[j]
      BY <2>1, <2>2 DEF ToSet
    <3>2. i \in 1..Len(data) /\ data[i] = data[j]
      BY <3>1, <2>1, <1>1
    <3>3. i = j
      BY <3>2, SameTrade DEF TradesInv
    <3> QED
      BY <3>3, <2>1
  <2>3. ASSUME j <= End(published[p]) PROVE data[j] \in ToSet(published[p].trades)
    <3>1. j \in 1..End(published[p])
      BY <2>1, <2>3, <1>1
    <3> QED
      BY <3>1, <2>1 DEF ToSet
  <2> QED
    BY <2>2, <2>3
<1> QED
  BY <1>1, <1>2 DEF Summaries

(* Every trade of a message is first published in a summary of its own     *)
(* coin and time, however the coins and times of a message alternate       *)
(* (MarketData's operator()(Trades)).                                      *)
THEOREM FirstAlwaysUnderOwnHeading == Spec => []FirstUnderOwnHeading
<1>1. TradesInv => FirstUnderOwnHeading
  <2> SUFFICES ASSUME TradesInv, NEW item \in ToSet(data)
               PROVE  \E p \in Summaries(item) :
                        /\ published[p].coin = item.coin /\ published[p].time = item.time
                        /\ \A l \in Summaries(item) : p <= l
    BY DEF FirstUnderOwnHeading
  <2>1. PICK j \in 1..Len(data) : item = data[j]
    <3>1. DOMAIN data = 1..Len(data)
      BY DEF TradesInv
    <3> QED
      BY <3>1 DEF ToSet
  <2>2. Summaries(item) = { p \in 1..Len(published) : j <= End(published[p]) }
    BY <2>1, SummariesOf
  <2>3. PICK p \in 1..Len(published) :
          /\ j <= End(published[p]) /\ SameHeading(published[p], data[j])
          /\ \A q \in 1..Len(published) : q < p => End(published[q]) < j
    BY DEF TradesInv, Headed
  <2>4. ASSUME NEW l \in Summaries(item) PROVE p <= l
    <3>1. l \in 1..Len(published) /\ j <= End(published[l])
      BY <2>2
    <3>2. End(published[l]) \in 1..Len(data) /\ Len(published) \in Nat /\ Len(data) \in Nat
      BY <3>1, SummaryTrades DEF TradesInv
    <3>3. ~(l < p)
      BY <3>1, <3>2, <2>3
    <3> QED
      BY <3>1, <3>2, <3>3
  <2> QED
    BY <2>1, <2>2, <2>3, <2>4 DEF SameHeading
<1> QED
  BY <1>1, TradesInvariant, PTL

(* What is published is of the message that is handled, nothing that an    *)
(* earlier message has left in the buffer, and in the order of the message.*)
THEOREM AlwaysOnlyThisMessage == Spec => []OnlyThisMessage
<1>1. TradesInv => OnlyThisMessage
  <2> SUFFICES ASSUME TradesInv, NEW p \in DOMAIN published
               PROVE  /\ ToSet(published[p].trades) \subseteq ToSet(data)
                      /\ \A i, j \in DOMAIN published[p].trades :
                           i < j => published[p].trades[i].tid < published[p].trades[j].tid
    BY DEF OnlyThisMessage
  <2>1. /\ p \in 1..Len(published)
        /\ DOMAIN data = 1..Len(data) /\ Len(data) \in Nat
    BY DEF TradesInv
  <2>2. /\ End(published[p]) \in 1..Len(data)
        /\ DOMAIN published[p].trades = 1..End(published[p])
        /\ \A i \in 1..End(published[p]) : published[p].trades[i] = data[i]
    BY <2>1, SummaryTrades
  <2>3. \A i \in 1..End(published[p]) : i \in 1..Len(data)
    BY <2>1, <2>2
  <2>4. ToSet(published[p].trades) \subseteq ToSet(data)
    BY <2>1, <2>2, <2>3 DEF ToSet
  <2>5. \A i, j \in DOMAIN published[p].trades :
          i < j => published[p].trades[i].tid < published[p].trades[j].tid
    BY <2>2, <2>3 DEF TradesInv, InOrder
  <2> QED
    BY <2>4, <2>5
<1> QED
  BY <1>1, TradesInvariant, PTL

=============================================================================
