--------------------------- MODULE HotPathProofs ---------------------------
(***************************************************************************)
(* Theorems about the hot path: how the messages of the exchange carry an  *)
(* offer into the quotes of both runtimes, and when the two decide the     *)
(* same.                                                                   *)
(***************************************************************************)
EXTENDS HotPath, FiniteSetTheorems, TLAPS

-----------------------------------------------------------------------------
(***************************************************************************)
(* Signals: distance, probability and edge                                 *)
(***************************************************************************)

\* The larger of two integers
LEMMA LargerOfTwo ==
    ASSUME NEW a \in Int, NEW b \in Int
    PROVE  Max({a, b}) = IF a >= b THEN a ELSE b
<1> DEFINE m == IF a >= b THEN a ELSE b
<1>1. m \in {a, b} /\ \A x \in {a, b} : m >= x
  OBVIOUS
<1>2. \A x \in {a, b} : (\A y \in {a, b} : x >= y) => x = m
  OBVIOUS
<1> HIDE DEF m
<1>3. (CHOOSE x \in {a, b} : \A y \in {a, b} : x >= y) = m
  BY <1>1, <1>2
<1> QED
  BY <1>3 DEF Max, m

\* The smaller of two integers
LEMMA SmallerOfTwo ==
    ASSUME NEW a \in Int, NEW b \in Int
    PROVE  Min({a, b}) \in {a, b} /\ Min({a, b}) =< a /\ Min({a, b}) =< b
<1>1. \E x \in {a, b} : \A y \in {a, b} : x =< y
  <2>1. a =< b \/ b =< a
    OBVIOUS
  <2> QED
    BY <2>1
<1> QED
  BY <1>1 DEF Min

LEMMA DistanceIs ==
    ASSUME NEW w, NEW t, w.price \in Nat, t.price \in Nat
    PROVE  Distance(w, t) \in Nat
<1>1. t.price - w.price \in Int /\ w.price - t.price \in Int
  OBVIOUS
<1>2. Distance(w, t) = IF t.price - w.price >= w.price - t.price
                       THEN t.price - w.price ELSE w.price - t.price
  BY <1>1, LargerOfTwo DEF Distance
<1> QED
  BY <1>2

LEMMA ElementIs == ASSUME NEW S, NEW s \in Seq(S), NEW i \in 1..Len(s) PROVE s[i] \in S
  OBVIOUS

\* An excess beyond the table has the probability at its end.
LEMMA ProbabilityIs ==
    ASSUME NEW distance \in Nat
    PROVE  EstimateProbability(distance) \in Int
<1> DEFINE excess == distance - MinDistance
           least == Min({excess, Len(Probability)})
<1>1. /\ excess \in Int /\ Probability \in Seq(0..100)
      /\ Len(Probability) \in Nat /\ Len(Probability) # 0
  BY SignalsAssumption
<1>2. EstimateProbability(distance) = IF excess =< 0 THEN 50 ELSE Probability[least]
  BY DEF EstimateProbability
<1> HIDE DEF excess
<1>3. least \in {excess, Len(Probability)} /\ least =< excess /\ least =< Len(Probability)
  <2>1. Len(Probability) \in Int
    BY <1>1
  <2> QED
    BY <1>1, <2>1, SmallerOfTwo, Zenon
<1> HIDE DEF least
<1>4. ~(excess =< 0) => least \in 1..Len(Probability)
  BY <1>1, <1>3
<1>5. ~(excess =< 0) => Probability[least] \in Int
  <2>1. \A i \in 1..Len(Probability) : Probability[i] \in 0..100
    BY <1>1, ElementIs, Zenon
  <2> QED
    BY <1>4, <2>1
<1> QED
  BY <1>2, <1>5

\* Where Python accepts, the Rust tests pass; where they pass and Python does not accept,
\* the tick is stale or late.
LEMMA DecisionsDiffer ==
    ASSUME NEW w, w.price \in Nat, w.open \in BOOLEAN, NEW t, t.price \in Nat,
           NEW ask \in Ask \cup {0, NoAsk}, NEW time \in Nat
    PROVE  Accepts(w, t, ask, time)
               <=> AcceptsRust(w, t, ask, time) /\ ~Stale(t, time) /\ ~Lagging(t)
<1>1. /\ Distance(w, t) \in Nat /\ EstimateProbability(Distance(w, t)) \in Int
      /\ MinEntryPrice \in Nat /\ MaxEntryPrice \in Nat /\ MinEdge \in Nat /\ MinDistance \in Nat
      /\ NoAsk \notin Nat /\ Ask \subseteq Nat /\ w.price # NoPrice
  BY DistanceIs, ProbabilityIs, SignalsAssumption
<1>2. CASE ask = NoAsk
  BY <1>2 DEF Accepts, Reason, AcceptsRust, Worth
<1>3. CASE ask # NoAsk
  <2>1. ask \in Nat /\ Edge(w, t, ask) \in Int
    BY <1>1, <1>3 DEF Edge
  <2>2. Worth(w, t, ask) <=> ~(ask < MinEntryPrice \/ ask > MaxEntryPrice)
                             /\ ~(Distance(w, t) < MinDistance) /\ ~(Edge(w, t, ask) < MinEdge)
    BY <1>1, <1>3, <2>1 DEF Worth
  <2> QED
    BY <1>1, <1>3, <2>2, Zenon DEF Accepts, Reason, AcceptsRust
<1> QED
  BY <1>2, <1>3

-----------------------------------------------------------------------------
(***************************************************************************)
(* Messages and quotes                                                     *)
(***************************************************************************)

Offer == Ask \cup {NoAsk}

Books == {Book(token, ask) : token \in Token, ask \in Offer}
Changes == [type : {"price_change", "best_bid_ask"}, token : Token, ask : Quote]
Wires == Books \cup Changes

\* The least of the offers at or above an ask is the ask.
LEMMA BestOfBook ==
    ASSUME NEW token \in Token, NEW ask \in Offer
    PROVE  /\ Book(token, ask).type = "book" /\ Book(token, ask).token = token
           /\ BestAsk(Book(token, ask).asks) = ask
<1> DEFINE levels == {level \in Ask : level >= ask}
<1>1. Ask \subseteq Nat /\ NoAsk \notin Nat
  BY SignalsAssumption
<1>2. CASE ask = NoAsk
  BY <1>2 DEF Book, BestAsk
<1>3. CASE ask # NoAsk
  <2>1. ask \in levels /\ \A level \in levels : level \in Nat /\ ask =< level
    BY <1>1, <1>3 DEF Offer
  <2>2. Book(token, ask).asks = levels
    BY <1>3 DEF Book
  <2> HIDE DEF levels
  <2>3. \A x \in levels : (\A y \in levels : x =< y) => x = ask
    BY <2>1
  <2>4. (CHOOSE x \in levels : \A y \in levels : x =< y) = ask
    BY <2>1, <2>3
  <2> QED
    BY <2>1, <2>2, <2>4 DEF Book, BestAsk, Min
<1> QED
  BY <1>2, <1>3

\* A message that carries an ask for its token
Carries(message, ask) ==
    IF message.type = "book" THEN BestAsk(message.asks) = ask ELSE message.ask = ask

\* What the exchange sends of an offer carries it, if there is one.
LEMMA MessagesCarry ==
    ASSUME NEW token \in Token, NEW ask \in Offer, NEW message \in Messages(token, ask)
    PROVE  /\ message \in Wires /\ message.token = token
           /\ ask # NoAsk => Carries(message, ask)
<1>1. CASE message = Book(token, ask)
  BY <1>1, BestOfBook DEF Wires, Books, Carries
<1>2. CASE message \in [type : {"price_change", "best_bid_ask"}, token : {token},
                        ask : IF ask = NoAsk THEN {NoAsk, 0} ELSE {ask}]
  BY <1>2 DEF Wires, Changes, Carries, Offer, Quote
<1> QED
  BY <1>1, <1>2 DEF Messages

\* How a message takes the quotes q and r of the two runtimes to q1 and r1: those of its
\* token only, and to the ask it carries. Afterwards they differ only if they did, or by a
\* 0 in Rust.
Updates(q, r, message, q1, r1) ==
    /\ q1 \in [Token -> Quote] /\ r1 \in [Token -> Quote]
    /\ message.token \in Token
    /\ \A token \in Token \ {message.token} : q1[token] = q[token] /\ r1[token] = r[token]
    /\ \A ask \in Ask : Carries(message, ask) =>
           q1[message.token] = ask /\ r1[message.token] = ask
    /\ q1[message.token] # r1[message.token]
         => \/ r1[message.token] = 0
            \/ /\ q[message.token] # r[message.token]
               /\ r1[message.token] = r[message.token]

\* The two runtimes update their quotes so.
LEMMA MessageUpdates ==
    ASSUME NEW q \in [Token -> Quote], NEW r \in [Token -> Quote], NEW message \in Wires
    PROVE  Updates(q, r, message, UpdateFromMessage(q, message), UpdateFromMessageRust(r, message))
<1>1. Ask \subseteq Nat \ {0} /\ NoAsk \notin Nat
  BY SignalsAssumption
<1>2. CASE message \in Books
  <2>1. PICK token \in Token, ask \in Offer : message = Book(token, ask)
    BY <1>2 DEF Books
  <2>2. message.type = "book" /\ message.token = token /\ BestAsk(message.asks) = ask
    BY <2>1, BestOfBook
  <2>3. ask \in Quote
    BY DEF Offer, Quote
  <2>4. /\ UpdateFromMessage(q, message) = [q EXCEPT ![token] = ask]
        /\ UpdateFromMessageRust(r, message) = [r EXCEPT ![token] = ask]
    BY <2>2 DEF UpdateFromMessage, UpdateFromMessageRust
  <2> QED
    BY <2>2, <2>3, <2>4 DEF Carries, Updates
<1>3. CASE message \in Changes
  <2>1. /\ message.type \in {"price_change", "best_bid_ask"} /\ message.token \in Token
        /\ message.ask \in Quote
    BY <1>3 DEF Changes
  <2>2. CASE message.type = "price_change"
    <3>1. /\ UpdateFromMessage(q, message)
                 = [q EXCEPT ![message.token] = Changed(q[message.token], message.ask)]
          /\ UpdateFromMessageRust(r, message)
                 = [r EXCEPT ![message.token] = ChangedRust(r[message.token], message.ask)]
      BY <2>2 DEF UpdateFromMessage, UpdateFromMessageRust
    <3>2. Changed(q[message.token], message.ask) \in Quote
          /\ ChangedRust(r[message.token], message.ask) \in Quote
      BY <2>1 DEF Changed, ChangedRust
    <3>3. \A ask \in Ask : Carries(message, ask) =>
              /\ Changed(q[message.token], message.ask) = ask
              /\ ChangedRust(r[message.token], message.ask) = ask
      BY <1>1, <2>2 DEF Changed, ChangedRust, Carries
    <3>4. Changed(q[message.token], message.ask) # ChangedRust(r[message.token], message.ask)
            => \/ ChangedRust(r[message.token], message.ask) = 0
               \/ /\ q[message.token] # r[message.token]
                  /\ ChangedRust(r[message.token], message.ask) = r[message.token]
      BY DEF Changed, ChangedRust
    <3> QED
      BY <2>1, <3>1, <3>2, <3>3, <3>4 DEF Updates
  <2>3. CASE message.type = "best_bid_ask"
    <3>1. /\ UpdateFromMessage(q, message) = [q EXCEPT ![message.token] = message.ask]
          /\ UpdateFromMessageRust(r, message) = [r EXCEPT ![message.token] = message.ask]
      BY <2>3 DEF UpdateFromMessage, UpdateFromMessageRust
    <3> QED
      BY <2>1, <2>3, <3>1 DEF Carries, Updates
  <2> QED
    BY <2>1, <2>2, <2>3
<1> QED
  BY <1>2, <1>3 DEF Wires

-----------------------------------------------------------------------------
(***************************************************************************)
(* The wire                                                                *)
(***************************************************************************)

\* The last message of a token on the wire carries its offer; or there is none.
LastCarries(w, token, ask) ==
    \E i \in DOMAIN w : /\ w[i].token = token /\ Carries(w[i], ask)
                        /\ \A j \in DOMAIN w : j > i => w[j].token # token
NoneFor(w, token) == \A i \in DOMAIN w : w[i].token # token

\* A message is sent.
LEMMA SendOnWire ==
    ASSUME NEW w \in Seq(Wires), NEW message \in Wires
    PROVE  /\ Append(w, message) \in Seq(Wires) /\ Len(Append(w, message)) = Len(w) + 1
           /\ \A ask : Carries(message, ask)
                 => LastCarries(Append(w, message), message.token, ask)
           /\ \A token, ask : token # message.token =>
                 /\ LastCarries(w, token, ask) => LastCarries(Append(w, message), token, ask)
                 /\ NoneFor(w, token) => NoneFor(Append(w, message), token)
<1> DEFINE t == Append(w, message)
<1>1. /\ t \in Seq(Wires) /\ Len(w) \in Nat /\ Len(t) = Len(w) + 1
      /\ DOMAIN w = 1..Len(w) /\ DOMAIN t = 1..(Len(w) + 1)
      /\ \A i \in 1..Len(w) : t[i] = w[i]
      /\ t[Len(w) + 1] = message
  OBVIOUS
<1> HIDE DEF t
<1>2. \A i \in 1..(Len(w) + 1) : i \in 1..Len(w) \/ i = Len(w) + 1
  BY <1>1
<1>3. Len(w) + 1 \in 1..(Len(w) + 1) /\ \A i \in 1..(Len(w) + 1) : ~(i > Len(w) + 1)
  BY <1>1
<1>4. ASSUME NEW ask, Carries(message, ask) PROVE LastCarries(t, message.token, ask)
  BY <1>1, <1>3, <1>4, Zenon DEF LastCarries
<1>5. ASSUME NEW token, NEW ask, token # message.token, LastCarries(w, token, ask)
      PROVE  LastCarries(t, token, ask)
  <2>1. PICK i \in 1..Len(w) : /\ w[i].token = token /\ Carries(w[i], ask)
                               /\ \A j \in 1..Len(w) : j > i => w[j].token # token
    BY <1>1, <1>5 DEF LastCarries
  <2>2. i \in DOMAIN t /\ t[i] = w[i]
    BY <1>1
  <2>3. \A j \in DOMAIN t : j > i => t[j].token # token
    BY <1>1, <1>2, <1>5, <2>1
  <2> QED
    BY <2>1, <2>2, <2>3 DEF LastCarries
<1>6. ASSUME NEW token, token # message.token, NoneFor(w, token) PROVE NoneFor(t, token)
  BY <1>1, <1>2, <1>6 DEF NoneFor
<1> QED
  BY <1>1, <1>4, <1>5, <1>6 DEF t

\* A message is read.
LEMMA ReadFromWire ==
    ASSUME NEW w \in Seq(Wires), w # <<>>
    PROVE  /\ Head(w) \in Wires /\ Tail(w) \in Seq(Wires) /\ Len(Tail(w)) = Len(w) - 1
           /\ Len(w) \in Nat
           /\ \A token, ask : LastCarries(w, token, ask) =>
                 \/ LastCarries(Tail(w), token, ask)
                 \/ /\ Head(w).token = token /\ Carries(Head(w), ask)
                    /\ NoneFor(Tail(w), token)
           /\ \A token : NoneFor(w, token) =>
                 Head(w).token # token /\ NoneFor(Tail(w), token)
<1> DEFINE t == Tail(w)
<1>1. /\ Head(w) \in Wires /\ t \in Seq(Wires) /\ Len(t) = Len(w) - 1 /\ Len(w) \in Nat \ {0}
      /\ DOMAIN w = 1..Len(w) /\ DOMAIN t = 1..(Len(w) - 1)
      /\ Head(w) = w[1] /\ \A i \in 1..(Len(w) - 1) : t[i] = w[i + 1]
  OBVIOUS
<1> HIDE DEF t
<1>2. \A i \in 1..(Len(w) - 1) : i + 1 \in 1..Len(w) /\ i + 1 > 1
  BY <1>1
<1>3. ASSUME NEW token, NEW ask, LastCarries(w, token, ask)
      PROVE  \/ LastCarries(t, token, ask)
             \/ Head(w).token = token /\ Carries(Head(w), ask) /\ NoneFor(t, token)
  <2>1. PICK i \in 1..Len(w) : /\ w[i].token = token /\ Carries(w[i], ask)
                               /\ \A j \in 1..Len(w) : j > i => w[j].token # token
    BY <1>1, <1>3 DEF LastCarries
  <2>2. CASE i = 1
    <3>1. NoneFor(t, token)
      BY <1>1, <1>2, <2>1, <2>2 DEF NoneFor
    <3> QED
      BY <1>1, <2>1, <2>2, <3>1
  <2>3. CASE i # 1
    <3> DEFINE k == i - 1
    <3>1. k \in 1..(Len(w) - 1) /\ i = k + 1
      BY <1>1, <2>3
    <3> HIDE DEF k
    <3>2. t[k] = w[i]
      BY <1>1, <3>1
    <3>3. \A j \in 1..(Len(w) - 1) : j > k => j + 1 > i
      BY <3>1
    <3>4. \A j \in 1..(Len(w) - 1) : j > k => t[j].token # token
      BY <1>1, <1>2, <2>1, <3>3
    <3> QED
      BY <1>1, <2>1, <3>1, <3>2, <3>4 DEF LastCarries
  <2> QED
    BY <2>2, <2>3
<1>4. ASSUME NEW token, NoneFor(w, token) PROVE Head(w).token # token /\ NoneFor(t, token)
  <2>1. 1 \in 1..Len(w)
    BY <1>1
  <2> QED
    BY <1>1, <1>2, <1>4, <2>1 DEF NoneFor
<1> QED
  BY <1>1, <1>3, <1>4 DEF t

\* The answer to a subscription is one book of each token.
LEMMA BooksOnWire ==
    ASSUME NEW up \in Offer, NEW down \in Offer
    PROVE  LET w == <<Book("Up", up), Book("Down", down)>>
           IN  /\ w \in Seq(Wires) /\ Len(w) = 2
               /\ LastCarries(w, "Up", up) /\ LastCarries(w, "Down", down)
<1> DEFINE a == Book("Up", up)
           b == Book("Down", down)
           w == <<a, b>>
<1>1. /\ a \in Wires /\ a.token = "Up" /\ Carries(a, up)
      /\ b \in Wires /\ b.token = "Down" /\ Carries(b, down)
  BY BestOfBook DEF Wires, Books, Token, Carries
<1> HIDE DEF a, b
<1>2. w \in Seq(Wires) /\ Len(w) = 2 /\ DOMAIN w = 1..2 /\ w[1] = a /\ w[2] = b
  BY <1>1
<1> HIDE DEF w
<1>3. 1 \in 1..2 /\ 2 \in 1..2 /\ \A j \in 1..2 : (j > 1 => j = 2) /\ ~(j > 2)
  OBVIOUS
<1>4. LastCarries(w, "Up", up) /\ LastCarries(w, "Down", down)
  BY <1>1, <1>2, <1>3 DEF LastCarries
<1> QED
  BY <1>2, <1>4 DEF w, a, b

-----------------------------------------------------------------------------
(***************************************************************************)
(* The invariant                                                           *)
(***************************************************************************)

\* What joins the exchange's offers to the quotes: on a connection that is up, the last
\* message on the wire about a token carries its offer, or, when there is none left, both
\* runtimes quote it.
OffersArrive ==
    live => \A token \in Token : offer[token] # NoAsk =>
                \/ LastCarries(wire, token, offer[token])
                \/ /\ NoneFor(wire, token)
                   /\ quotes[token] = offer[token] /\ quotesRust[token] = offer[token]

\* Type correctness of the market's side and of the signal's, with what is on the wire and
\* that a tick was received before now.
MarketType ==
    /\ offer \in [Token -> Offer] /\ live \in BOOLEAN
    /\ wire \in Seq(Wires) /\ Len(wire) =< MaxWire + 2 /\ (~live => wire = <<>>)
    /\ quotes \in [Token -> Quote] /\ quotesRust \in [Token -> Quote]

SignalType ==
    /\ now \in 0..MaxNow /\ open \in BOOLEAN
    /\ tick \in Tick \cup {NoTick}
    /\ pass \in [now : 0..now, open : BOOLEAN] \cup {Idle}
    /\ accepted \in 0..now \cup {NoSignal}
    /\ tick # NoTick => tick.received =< now

MarketInv == MarketType /\ OffersArrive /\ SameQuotes

HotPathIInv == MarketInv /\ SignalType

\* The two tokens of a window
LEMMA TwoTokens == IsFiniteSet(Token) /\ Cardinality(Token) = 2
<1>1. IsFiniteSet({"Up"}) /\ Cardinality({"Up"}) = 1
  BY FS_Singleton
<1>2. IsFiniteSet({"Up"} \cup {"Down"}) /\ Cardinality({"Up"} \cup {"Down"}) = 2
  BY <1>1, FS_AddElement
<1>3. Token = {"Up"} \cup {"Down"}
  BY DEF Token
<1> QED
  BY <1>2, <1>3

LEMMA HotPathStarts == Init => HotPathIInv
<1> SUFFICES ASSUME Init PROVE HotPathIInv
  OBVIOUS
<1>1. MaxWire \in Nat /\ MaxNow \in Nat
  BY HotPathAssumption
<1>2. MarketType
  <2>1. wire \in Seq(Wires) /\ Len(wire) = 0 /\ (~live => wire = <<>>)
    BY DEF Init
  <2>2. quotes \in [Token -> Quote] /\ quotesRust \in [Token -> Quote]
    BY DEF Init, Quote
  <2>3. offer \in [Token -> Offer] /\ live \in BOOLEAN
    BY DEF Init, Offer
  <2> QED
    BY <1>1, <2>1, <2>2, <2>3 DEF MarketType
<1>3. OffersArrive /\ SameQuotes
  BY DEF Init, OffersArrive, SameQuotes
<1>4. SignalType
  BY <1>1 DEF Init, SignalType
<1> QED
  BY <1>2, <1>3, <1>4 DEF HotPathIInv, MarketInv

\* A new best ask is sent, or changes while nobody listens.
LEMMA OfferKeeps ==
    ASSUME MarketInv, NEW token \in Token, NEW ask \in Offer, OfferChanges(token, ask)
    PROVE  MarketInv'
<1>1. MarketType /\ OffersArrive /\ SameQuotes
  BY DEF MarketInv
<1>2. /\ offer' = [offer EXCEPT ![token] = ask] /\ Len(wire) < MaxWire
      /\ UNCHANGED <<live, quotes, quotesRust>>
      /\ MaxWire \in Nat
  BY HotPathAssumption DEF OfferChanges
<1>3. offer' \in [Token -> Offer] /\ offer'[token] = ask
      /\ \A other \in Token \ {token} : offer'[other] = offer[other]
  BY <1>1, <1>2 DEF MarketType
<1>4. SameQuotes'
  BY <1>1, <1>2 DEF SameQuotes
<1>5. CASE ~live
  <2>1. wire' = wire
    BY <1>5 DEF OfferChanges
  <2> QED
    BY <1>1, <1>2, <1>3, <1>4, <1>5, <2>1 DEF MarketInv, MarketType, OffersArrive
<1>6. CASE live
  <2>1. PICK message \in Messages(token, ask) : wire' = Append(wire, message)
    BY <1>6 DEF OfferChanges
  <2>2. message \in Wires /\ message.token = token /\ (ask # NoAsk => Carries(message, ask))
    BY <2>1, MessagesCarry
  <2>3. wire \in Seq(Wires) /\ Len(wire) \in Nat
    BY <1>1 DEF MarketType
  <2>4. /\ wire' \in Seq(Wires) /\ Len(wire') = Len(wire) + 1
        /\ Carries(message, ask) => LastCarries(wire', token, ask)
        /\ \A other, price : other # token =>
              /\ LastCarries(wire, other, price) => LastCarries(wire', other, price)
              /\ NoneFor(wire, other) => NoneFor(wire', other)
    BY <2>1, <2>2, <2>3, SendOnWire
  <2>5. MarketType'
    BY <1>1, <1>2, <1>3, <1>6, <2>3, <2>4 DEF MarketType
  <2>6. OffersArrive'
    <3> SUFFICES ASSUME NEW other \in Token, offer'[other] # NoAsk
                 PROVE  \/ LastCarries(wire', other, offer'[other])
                        \/ /\ NoneFor(wire', other)
                           /\ quotes'[other] = offer'[other] /\ quotesRust'[other] = offer'[other]
      BY Zenon DEF OffersArrive
    <3>1. CASE other = token
      BY <1>3, <2>2, <2>4, <3>1
    <3>2. CASE other # token
      <4>1. offer'[other] = offer[other]
        BY <1>3, <3>2
      <4>2. \/ LastCarries(wire, other, offer[other])
            \/ /\ NoneFor(wire, other)
               /\ quotes[other] = offer[other] /\ quotesRust[other] = offer[other]
        BY <1>1, <1>6, <4>1 DEF OffersArrive
      <4> QED
        BY <1>2, <2>4, <3>2, <4>1, <4>2
    <3> QED
      BY <3>1, <3>2
  <2> QED
    BY <1>4, <2>5, <2>6 DEF MarketInv
<1> QED
  BY <1>5, <1>6

\* A connection starts with the books, and quotes of the one before are overwritten.
LEMMA ConnectKeeps == MarketInv /\ Connect => MarketInv'
<1> SUFFICES ASSUME MarketInv, Connect PROVE MarketInv'
  OBVIOUS
<1>1. MarketType /\ OffersArrive /\ SameQuotes
  BY DEF MarketInv
<1>2. /\ live' = TRUE /\ wire' = <<Book("Up", offer["Up"]), Book("Down", offer["Down"])>>
      /\ UNCHANGED <<offer, quotes, quotesRust>>
  BY DEF Connect
<1>3. offer["Up"] \in Offer /\ offer["Down"] \in Offer
  BY <1>1 DEF MarketType, Token
<1>4. /\ wire' \in Seq(Wires) /\ Len(wire') = 2
      /\ LastCarries(wire', "Up", offer["Up"]) /\ LastCarries(wire', "Down", offer["Down"])
  BY <1>2, <1>3, BooksOnWire
<1>5. MarketType'
  BY <1>1, <1>2, <1>4, HotPathAssumption DEF MarketType
<1>6. OffersArrive'
  <2>1. \A token \in Token : LastCarries(wire', token, offer[token])
    BY <1>4 DEF Token
  <2> QED
    BY <1>2, <2>1 DEF OffersArrive
<1>7. SameQuotes'
  BY <1>1, <1>2 DEF SameQuotes
<1> QED
  BY <1>5, <1>6, <1>7 DEF MarketInv

\* A message is read into both quotes.
LEMMA MessageKeeps == MarketInv /\ OnMarketMessage => MarketInv'
<1> SUFFICES ASSUME MarketInv, OnMarketMessage PROVE MarketInv'
  OBVIOUS
<1> DEFINE message == Head(wire)
<1>1. MarketType /\ OffersArrive /\ SameQuotes
  BY DEF MarketInv
<1>2. /\ wire # <<>> /\ wire' = Tail(wire)
      /\ quotes' = UpdateFromMessage(quotes, message)
      /\ quotesRust' = UpdateFromMessageRust(quotesRust, message)
      /\ UNCHANGED <<offer, live>>
  BY DEF OnMarketMessage
<1>3. wire \in Seq(Wires) /\ quotes \in [Token -> Quote] /\ quotesRust \in [Token -> Quote]
      /\ offer \in [Token -> Offer]
  BY <1>1 DEF MarketType
<1>4. /\ message \in Wires /\ wire' \in Seq(Wires) /\ Len(wire') = Len(wire) - 1
      /\ Len(wire) \in Nat
      /\ \A token, ask : LastCarries(wire, token, ask) =>
            \/ LastCarries(wire', token, ask)
            \/ message.token = token /\ Carries(message, ask) /\ NoneFor(wire', token)
      /\ \A token : NoneFor(wire, token) =>
            message.token # token /\ NoneFor(wire', token)
  BY <1>2, <1>3, ReadFromWire
<1> HIDE DEF message
<1>5. Updates(quotes, quotesRust, message, quotes', quotesRust')
  <2>1. Updates(quotes, quotesRust, message, UpdateFromMessage(quotes, message),
                UpdateFromMessageRust(quotesRust, message))
    BY <1>3, <1>4, MessageUpdates
  <2> QED
    BY <1>2, <2>1
<1>6. MarketType'
  BY <1>1, <1>2, <1>4, <1>5, HotPathAssumption DEF MarketType, Updates
<1>7. SameQuotes'
  BY <1>1, <1>5 DEF SameQuotes, Updates
<1>8. OffersArrive'
  <2> SUFFICES ASSUME live, NEW token \in Token, offer[token] # NoAsk
               PROVE  \/ LastCarries(wire', token, offer[token])
                      \/ /\ NoneFor(wire', token)
                         /\ quotes'[token] = offer[token] /\ quotesRust'[token] = offer[token]
    BY <1>2, Zenon DEF OffersArrive
  <2>1. offer[token] \in Ask
    BY <1>3 DEF Offer
  <2>2. CASE LastCarries(wire, token, offer[token])
    BY <1>4, <1>5, <2>1, <2>2 DEF Updates
  <2>3. CASE /\ NoneFor(wire, token)
             /\ quotes[token] = offer[token] /\ quotesRust[token] = offer[token]
    BY <1>4, <1>5, <2>3 DEF Updates
  <2> QED
    BY <1>1, <2>2, <2>3 DEF OffersArrive
<1> QED
  BY <1>6, <1>7, <1>8 DEF MarketInv

\* A lost connection takes what is on the wire with it.
LEMMA DisconnectKeepsInv == MarketInv /\ Disconnect => MarketInv'
<1> SUFFICES ASSUME MarketInv, Disconnect PROVE MarketInv'
  OBVIOUS
<1>1. live' = FALSE /\ wire' = <<>> /\ UNCHANGED <<offer, quotes, quotesRust>>
  BY DEF Disconnect
<1>2. wire' \in Seq(Wires) /\ Len(wire') = 0 /\ MaxWire \in Nat
  BY <1>1, HotPathAssumption
<1>3. MarketType'
  <2>1. (~live => wire = <<>>)'
    BY <1>1
  <2>2. UNCHANGED <<offer, quotes, quotesRust>> /\ live' \in BOOLEAN
    BY <1>1
  <2> QED
    BY <1>2, <2>1, <2>2 DEF MarketInv, MarketType
<1> QED
  BY <1>1, <1>3 DEF MarketInv, OffersArrive, SameQuotes

\* The clock, the oracle, the polls and the passes
LEMMA SignalKeeps ==
    ASSUME SignalType,
           \/ \E price \in TickPrice, lag \in Lag : OnTick(price, lag)
           \/ OnMarket \/ ClockTicks \/ PassBegins \/ Judge
    PROVE  SignalType' /\ UNCHANGED market
<1>1. /\ MaxNow \in Nat /\ TickPrice \subseteq Nat /\ Lag \subseteq Nat
      /\ now \in Nat /\ now =< MaxNow
  BY HotPathAssumption DEF SignalType
<1>2. ASSUME NEW price \in TickPrice, NEW lag \in Lag, OnTick(price, lag)
      PROVE  SignalType' /\ UNCHANGED market
  <2>1. tick' = [price |-> price, feed |-> now - lag, received |-> now]
        /\ UNCHANGED <<now, open, market, pass, accepted>>
    BY <1>2 DEF OnTick
  <2>2. tick' \in Tick /\ tick'.received = now
    BY <1>1, <2>1 DEF Tick
  <2> QED
    BY <1>1, <2>1, <2>2 DEF SignalType
<1>3. CASE OnMarket
  BY <1>3 DEF OnMarket, SignalType
<1>4. CASE ClockTicks
  <2>1. now' = now + 1 /\ now < MaxNow /\ UNCHANGED <<open, tick, market, pass, accepted>>
    BY <1>4 DEF ClockTicks
  <2>2. 0..now \subseteq 0..now' /\ now' \in 0..MaxNow
    BY <1>1, <2>1
  <2>3. pass \in [now : 0..now', open : BOOLEAN] \cup {Idle}
    BY <2>2 DEF SignalType
  <2>4. tick # NoTick => tick.received =< now'
    <3>1. tick # NoTick => tick.received \in 0..MaxNow
      BY DEF SignalType, Tick
    <3> QED
      BY <1>1, <2>1, <3>1 DEF SignalType
  <2> QED
    BY <2>1, <2>2, <2>3, <2>4 DEF SignalType
<1>5. CASE PassBegins
  BY <1>1, <1>5 DEF PassBegins, SignalType
<1>6. CASE Judge
  <2>1. /\ pass' = Idle /\ UNCHANGED <<now, open, tick, market>>
        /\ accepted' = NoSignal \/ (tick # NoTick /\ accepted' = now - tick.received)
    BY <1>6 DEF Judge
  <2>2. tick # NoTick => tick.received \in Nat /\ tick.received =< now
    BY DEF SignalType, Tick
  <2>3. accepted' \in 0..now \cup {NoSignal}
    BY <1>1, <2>1, <2>2
  <2> QED
    BY <2>1, <2>3 DEF SignalType
<1> QED
  BY <1>2, <1>3, <1>4, <1>5, <1>6

LEMMA HotPathStep == HotPathIInv /\ [Next]_vars => HotPathIInv'
<1> SUFFICES ASSUME HotPathIInv, [Next]_vars PROVE HotPathIInv'
  OBVIOUS
<1>1. MarketInv /\ SignalType
  BY DEF HotPathIInv
<1>2. ASSUME UNCHANGED market PROVE MarketInv'
  BY <1>1, <1>2 DEF market, MarketInv, MarketType, OffersArrive, SameQuotes
<1>3. ASSUME UNCHANGED <<now, open, tick, pass, accepted>> PROVE SignalType'
  BY <1>1, <1>3 DEF SignalType
<1>4. ASSUME NEW token \in Token, NEW ask \in Ask \cup {NoAsk}, OfferChanges(token, ask)
      PROVE  MarketInv' /\ SignalType'
  BY <1>1, <1>3, <1>4, OfferKeeps DEF OfferChanges, Offer
<1>5. CASE Connect \/ Disconnect \/ OnMarketMessage
  BY <1>1, <1>3, <1>5, ConnectKeeps, DisconnectKeepsInv, MessageKeeps
     DEF Connect, Disconnect, OnMarketMessage, HotPathIInv
<1>6. CASE \/ \E price \in TickPrice, lag \in Lag : OnTick(price, lag)
           \/ OnMarket \/ ClockTicks \/ PassBegins \/ Judge
  BY <1>1, <1>2, <1>6, SignalKeeps DEF HotPathIInv
<1>7. CASE UNCHANGED vars
  BY <1>2, <1>3, <1>7 DEF vars, HotPathIInv
<1> QED
  BY <1>4, <1>5, <1>6, <1>7 DEF Next, HotPathIInv

LEMMA HotPathInvariant == Spec => []HotPathIInv
<1> QED
  BY HotPathStarts, HotPathStep, PTL DEF Spec

-----------------------------------------------------------------------------
(***************************************************************************)
(* The theorems                                                            *)
(***************************************************************************)

\* Type correctness.
THEOREM HotPathTypeCorrect == Spec => []TypeOK
<1>1. HotPathIInv => TypeOK
  BY TwoTokens DEF HotPathIInv, MarketInv, MarketType, SignalType, TypeOK, Offer
<1> QED
  BY <1>1, HotPathInvariant, PTL

\* Once the stream has read what was sent, both runtimes quote every offer as it is.
THEOREM QuotesCatchUp == Spec => []QuotesCaughtUp
<1>1. HotPathIInv => QuotesCaughtUp
  <2> SUFFICES ASSUME HotPathIInv, live, wire = <<>>, NEW token \in Token,
                      offer[token] # NoAsk
               PROVE  quotes[token] = offer[token] /\ quotesRust[token] = offer[token]
    BY Zenon DEF QuotesCaughtUp
  <2>1. DOMAIN wire = {}
    OBVIOUS
  <2>2. ~LastCarries(wire, token, offer[token])
    BY <2>1 DEF LastCarries
  <2> QED
    BY <2>2 DEF HotPathIInv, MarketInv, OffersArrive
<1> QED
  BY <1>1, HotPathInvariant, PTL

\* The quotes of the two runtimes differ only while Rust takes a 0 for a price.
THEOREM QuotesAgree == Spec => []SameQuotes
<1>1. HotPathIInv => SameQuotes
  BY DEF HotPathIInv, MarketInv
<1> QED
  BY <1>1, HotPathInvariant, PTL

\* The decisions differ as SameDecisions says, as long as the price band leaves out 0.
\* (With min_entry_price 0 the Rust runtime would accept an ask of 0 where Python has an
\* older quote or none; only preflight.py:141 asks for more.)
THEOREM DecisionsAgree ==
    ASSUME MinEntryPrice > 0
    PROVE  Spec => []SameDecisions
<1>1. HotPathIInv => SameDecisions
  <2> SUFFICES ASSUME HotPathIInv, tick # NoTick
               PROVE  LET window == Window(open)
                          token == Outcome(window, tick)
                          python == Accepts(window, tick, quotes[token], now)
                          rust == AcceptsRust(window, tick, quotesRust[token], now)
                      IN  /\ python /\ ~rust => quotesRust[token] = 0
                          /\ rust /\ ~python => Stale(tick, now) \/ Lagging(tick)
    BY Zenon DEF SameDecisions
  <2> DEFINE window == Window(open)
             token == Outcome(window, tick)
  <2>1. /\ tick.price \in Nat /\ token \in Token /\ now \in Nat /\ open \in BOOLEAN
        /\ window.price \in Nat /\ window.open \in BOOLEAN
        /\ quotes[token] \in Ask \cup {0, NoAsk} /\ quotesRust[token] \in Ask \cup {0, NoAsk}
    <3>1. tick.price \in Nat
      BY HotPathAssumption DEF HotPathIInv, SignalType, Tick
    <3>2. token \in Token
      BY DEF Outcome, Token
    <3>3. now \in Nat /\ open \in BOOLEAN /\ window.price \in Nat /\ window.open \in BOOLEAN
      BY HotPathAssumption DEF HotPathIInv, SignalType, Window
    <3> HIDE DEF token, window
    <3>4. quotes[token] \in Quote /\ quotesRust[token] \in Quote
      BY <3>2 DEF HotPathIInv, MarketInv, MarketType
    <3> QED
      BY <3>1, <3>2, <3>3, <3>4 DEF Quote
  <2>2. quotes[token] # quotesRust[token] => quotesRust[token] = 0
    BY <2>1 DEF HotPathIInv, MarketInv, SameQuotes
  <2> HIDE DEF token, window
  <2>3. Accepts(window, tick, quotes[token], now)
            <=> AcceptsRust(window, tick, quotes[token], now) /\ ~Stale(tick, now) /\ ~Lagging(tick)
    BY <2>1, DecisionsDiffer
  <2>4. ~AcceptsRust(window, tick, 0, now)
    BY SignalsAssumption DEF AcceptsRust, Worth
  <2>5. \/ quotes[token] = quotesRust[token]
        \/ quotesRust[token] = 0 /\ ~AcceptsRust(window, tick, quotesRust[token], now)
    BY <2>2, <2>4
  <2>6. /\ Accepts(window, tick, quotes[token], now) /\ ~AcceptsRust(window, tick, quotesRust[token], now)
             => quotesRust[token] = 0
        /\ AcceptsRust(window, tick, quotesRust[token], now) /\ ~Accepts(window, tick, quotes[token], now)
             => Stale(tick, now) \/ Lagging(tick)
    BY <2>3, <2>5, Zenon
  <2> QED
    BY <2>6 DEF token, window
<1> QED
  BY <1>1, HotPathInvariant, PTL
=============================================================================
