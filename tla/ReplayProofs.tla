----------------------------- MODULE ReplayProofs -----------------------------
(***************************************************************************)
(* Theorems about the replay of telemetry, for all prices, tokens, sizes   *)
(* and clocks and for any number of missed events and restarts.            *)
(***************************************************************************)
EXTENDS Replay, TLAPS

Replays == [market : Market \cup {Unknown}, tick : Tick \cup {NoTick}, quotes : Quotes,
            positions : SUBSET Position, mismatched : BOOLEAN, misjudged : BOOLEAN]
Inputs == {"market", "tick"} \cup Token
Telemetry == [replay : Replays, missed : SUBSET Inputs, misses : 0..MaxMissed]
Passes == [now : 0..MaxNow, window : Market \cup {Listed}, order : Order \cup {NoSignal}]

-----------------------------------------------------------------------------
(***************************************************************************)
(* Signals                                                                 *)
(***************************************************************************)

\* The smaller and the larger of two integers
LEMMA OfTwo ==
    ASSUME NEW a \in Int, NEW b \in Int
    PROVE  /\ Max({a, b}) \in {a, b}
           /\ Min({a, b}) \in {a, b} /\ Min({a, b}) =< a /\ Min({a, b}) =< b
<1>1. \E x \in {a, b} : \A y \in {a, b} : x >= y
  <2>1. a >= b \/ b >= a
    OBVIOUS
  <2> QED
    BY <2>1
<1>2. \E x \in {a, b} : \A y \in {a, b} : x =< y
  <2>1. a =< b \/ b =< a
    OBVIOUS
  <2> QED
    BY <2>1
<1>3. Min({a, b}) \in {a, b} /\ \A y \in {a, b} : Min({a, b}) =< y
  BY <1>2 DEF Min
<1> QED
  BY <1>1, <1>3 DEF Max

LEMMA ElementIs == ASSUME NEW S, NEW s \in Seq(S), NEW i \in 1..Len(s) PROVE s[i] \in S
  OBVIOUS

LEMMA ProbabilityIsInt ==
    ASSUME NEW distance \in Int
    PROVE  EstimateProbability(distance) \in Int
<1> DEFINE excess == distance - MinDistance
           least == Min({excess, Len(Probability)})
<1>1. /\ excess \in Int /\ Probability \in Seq(0..100)
      /\ Len(Probability) \in Nat /\ Len(Probability) # 0
  BY SignalsAssumption
<1>2. EstimateProbability(distance) = IF excess =< 0 THEN 50 ELSE Probability[least]
  BY DEF EstimateProbability
<1> HIDE DEF excess
<1>3. least \in {excess, Len(Probability)} /\ least =< excess /\ least =< Len(Probability)
  <2>1. Len(Probability) \in Int
    BY <1>1
  <2> QED
    BY <1>1, <2>1, OfTwo, Zenon
<1> HIDE DEF least
<1>4. ~(excess =< 0) => least \in 1..Len(Probability)
  BY <1>1, <1>3
<1>5. ~(excess =< 0) => Probability[least] \in Int
  <2>1. \A i \in 1..Len(Probability) : Probability[i] \in 0..100
    BY <1>1, ElementIs, Zenon
  <2> QED
    BY <1>4, <2>1
<1> QED
  BY <1>2, <1>5

LEMMA EdgeIsInt ==
    ASSUME NEW window \in Market, window.price # NoPrice, NEW t \in Tick, NEW ask \in Ask
    PROVE  Edge(window, t, ask) \in Int
<1>1. window.price \in Int /\ t.price \in Int /\ ask \in Int
  <2>1. window.price \in TickPrice /\ t.price \in TickPrice
    BY DEF Tick, Market
  <2>2. TickPrice \subseteq Int /\ Ask \subseteq Int
    BY ReplayAssumption, SignalsAssumption
  <2> QED
    BY <2>1, <2>2
<1>2. Distance(window, t) \in Int
  <2>1. t.price - window.price \in Int /\ window.price - t.price \in Int
    BY <1>1
  <2>2. Distance(window, t) \in {t.price - window.price, window.price - t.price}
    BY <2>1, OfTwo, Zenon DEF Distance
  <2> QED
    BY <2>1, <2>2
<1> QED
  BY <1>1, <1>2, ProbabilityIsInt DEF Edge

\* A signal that is accepted has its price.
LEMMA AcceptedHasPrice ==
    ASSUME NEW window \in Market, NEW t \in Tick, NEW token \in Token,
           NEW ask \in Ask \cup {NoAsk}, NEW time,
           Evaluate(window, t, token, ask, time).reason = "accepted"
    PROVE  Evaluate(window, t, token, ask, time) \in Order
<1>1. /\ Evaluate(window, t, token, ask, time)
           = [reason |-> "accepted", token |-> token, ask |-> ask, edge |-> Edge(window, t, ask)]
      /\ Reason(window, t, ask, time) = "accepted"
  BY DEF Evaluate, NoSignal
<1>2. ask # NoAsk /\ window.price # NoPrice
  BY <1>1 DEF Reason
<1> QED
  BY <1>1, <1>2, EdgeIsInt DEF Order

\* The signals of two times differ only by their reason.
LEMMA SameReason ==
    ASSUME NEW window, NEW t, NEW token, NEW ask, NEW time, NEW other,
           Evaluate(window, t, token, ask, time) # NoSignal,
           Reason(window, t, ask, other) = Evaluate(window, t, token, ask, time).reason
    PROVE  Evaluate(window, t, token, ask, other) = Evaluate(window, t, token, ask, time)
<1>1. Reason(window, t, ask, time) # "none" /\ token = Outcome(window, t)
  BY DEF Evaluate
<1>2. Evaluate(window, t, token, ask, time).reason = Reason(window, t, ask, time)
  BY <1>1 DEF Evaluate
<1> QED
  BY <1>1, <1>2 DEF Evaluate

-----------------------------------------------------------------------------
(***************************************************************************)
(* What an event does to the replay, taken or dropped                      *)
(***************************************************************************)

SameMarket(f, g) ==
    g.replay.market = f.replay.market /\ ("market" \in g.missed <=> "market" \in f.missed)
SameTick(f, g) ==
    g.replay.tick = f.replay.tick /\ ("tick" \in g.missed <=> "tick" \in f.missed)
SameQuotes(f, g) ==
    /\ g.replay.quotes = f.replay.quotes
    /\ \A token \in Token : token \in g.missed <=> token \in f.missed
SamePositions(f, g) ==
    g.replay.positions = f.replay.positions /\ g.replay.misjudged = f.replay.misjudged
SameVerdict(f, g) == g.replay.mismatched = f.replay.mismatched

\* An event that is taken is replayed, and one that is dropped leaves the replay alone.
LEMMA TakenOrDropped ==
    ASSUME NEW f \in Telemetry, NEW event, NEW g \in Recorded(f, event),
           Replayed(f.replay, event) \in Replays, About(event) \subseteq Inputs
    PROVE  /\ g \in Telemetry
           /\ \/ g.replay = Replayed(f.replay, event) /\ g.missed = f.missed \ Refreshed(event)
              \/ g.replay = f.replay /\ g.missed = f.missed \cup About(event)
<1>1. CASE g = Taken(f, event)
  BY <1>1 DEF Taken, Telemetry
<1>2. CASE g = Dropped(f, event) /\ f.misses < MaxMissed
  <2>1. f.misses + 1 \in 0..MaxMissed
    BY <1>2, ReplayAssumption DEF Telemetry
  <2> QED
    BY <1>2, <2>1 DEF Dropped, Telemetry
<1> QED
  BY <1>1, <1>2 DEF Recorded

\* An event about none of the inputs has them neither missed nor refreshed.
LEMMA NoInput ==
    ASSUME NEW f \in Telemetry, NEW event, NEW g \in Recorded(f, event),
           Replayed(f.replay, event) \in Replays, About(event) = {}, Refreshed(event) = {}
    PROVE  /\ g \in Telemetry
           /\ g.replay = Replayed(f.replay, event) \/ g.replay = f.replay
           /\ g.missed = f.missed
<1>1. About(event) \subseteq Inputs
  OBVIOUS
<1>2. f.missed \ Refreshed(event) = f.missed /\ f.missed \cup About(event) = f.missed
  OBVIOUS
<1>3. /\ g \in Telemetry
      /\ \/ g.replay = Replayed(f.replay, event) /\ g.missed = f.missed \ Refreshed(event)
         \/ g.replay = f.replay /\ g.missed = f.missed \cup About(event)
  BY <1>1, TakenOrDropped, ZenonT(60)
<1> QED
  BY <1>2, <1>3

LEMMA TokenIs == "market" \notin Token /\ "tick" \notin Token /\ Quoted \subseteq Token
  BY ReplayAssumption DEF Token

LEMMA ReadWindow ==
    ASSUME NEW f \in Telemetry, NEW new \in Market,
           NEW g \in Recorded(f, [type |-> "market_window", market |-> new])
    PROVE  /\ g \in Telemetry
           /\ "market" \notin g.missed => g.replay.market = new
           /\ SameTick(f, g) /\ SameQuotes(f, g) /\ SamePositions(f, g) /\ SameVerdict(f, g)
<1> DEFINE event == [type |-> "market_window", market |-> new]
<1>1. Replayed(f.replay, event) = [f.replay EXCEPT !.market = new]
  BY DEF Replayed
<1>2. About(event) = {"market"} /\ Refreshed(event) = {"market"}
  BY DEF About, Refreshed
<1>3. f.replay \in Replays
  BY DEF Telemetry
<1>4. [f.replay EXCEPT !.market = new] \in Replays
  BY <1>3 DEF Replays
<1> HIDE DEF event
<1>5. g \in Recorded(f, event)
  BY DEF event
<1>6. /\ g \in Telemetry
      /\ \/ g.replay = [f.replay EXCEPT !.market = new] /\ g.missed = f.missed \ {"market"}
         \/ g.replay = f.replay /\ g.missed = f.missed \cup {"market"}
  BY <1>1, <1>2, <1>4, <1>5, TakenOrDropped DEF Inputs
<1> QED
  BY <1>3, <1>6, TokenIs
  DEF SameTick, SameQuotes, SamePositions, SameVerdict, Replays

\* A tick, and the arming that may come with it
LEMMA ReadTick ==
    ASSUME NEW f \in Telemetry, NEW new \in Tick,
           NEW g \in Recorded(f, [type |-> "chainlink_tick", tick |-> new])
    PROVE  /\ g \in Telemetry
           /\ "tick" \notin g.missed => g.replay.tick = new
           /\ SameMarket(f, g) /\ SameQuotes(f, g) /\ SamePositions(f, g) /\ SameVerdict(f, g)
<1> DEFINE event == [type |-> "chainlink_tick", tick |-> new]
<1>1. Replayed(f.replay, event) = [f.replay EXCEPT !.tick = new]
  BY DEF Replayed
<1>2. About(event) = {"tick"} /\ Refreshed(event) = {"tick"}
  BY DEF About, Refreshed
<1>3. f.replay \in Replays
  BY DEF Telemetry
<1>4. [f.replay EXCEPT !.tick = new] \in Replays
  BY <1>3 DEF Replays
<1> HIDE DEF event
<1>5. g \in Recorded(f, event)
  BY DEF event
<1>6. /\ g \in Telemetry
      /\ \/ g.replay = [f.replay EXCEPT !.tick = new] /\ g.missed = f.missed \ {"tick"}
         \/ g.replay = f.replay /\ g.missed = f.missed \cup {"tick"}
  BY <1>1, <1>2, <1>4, <1>5, TakenOrDropped DEF Inputs
<1> QED
  BY <1>3, <1>6, TokenIs
  DEF SameMarket, SameQuotes, SamePositions, SameVerdict, Replays

\* The event gives a price to the window the replay has, and tells nothing else of it.
LEMMA ReadOpening ==
    ASSUME NEW f \in Telemetry, NEW price \in TickPrice,
           NEW g \in Recorded(f, [type |-> "price_to_beat", price |-> price])
    PROVE  /\ g \in Telemetry
           /\ "market" \notin g.missed =>
                  "market" \notin f.missed /\ g.replay.market = Opened(f.replay.market, price)
           /\ SameTick(f, g) /\ SameQuotes(f, g) /\ SamePositions(f, g) /\ SameVerdict(f, g)
<1> DEFINE event == [type |-> "price_to_beat", price |-> price]
<1>1. Replayed(f.replay, event) = [f.replay EXCEPT !.market = Opened(f.replay.market, price)]
  BY DEF Replayed
<1>2. About(event) = {"market"} /\ Refreshed(event) = {}
  BY DEF About, Refreshed
<1>3. f.replay \in Replays
  BY DEF Telemetry
<1>4. Opened(f.replay.market, price) \in Market \cup {Unknown}
  BY <1>3 DEF Opened, Market, Replays
<1>5. [f.replay EXCEPT !.market = Opened(f.replay.market, price)] \in Replays
  BY <1>3, <1>4 DEF Replays
<1> HIDE DEF event
<1>6. g \in Recorded(f, event)
  BY DEF event
<1>7. /\ g \in Telemetry
      /\ \/ /\ g.replay = [f.replay EXCEPT !.market = Opened(f.replay.market, price)]
            /\ g.missed = f.missed
         \/ g.replay = f.replay /\ g.missed = f.missed \cup {"market"}
  <2>1. Replayed(f.replay, event) \in Replays /\ About(event) \subseteq Inputs
    BY <1>1, <1>2, <1>5 DEF Inputs
  <2>2. f.missed \ Refreshed(event) = f.missed
    BY <1>2
  <2>3. /\ g \in Telemetry
        /\ \/ g.replay = Replayed(f.replay, event) /\ g.missed = f.missed \ Refreshed(event)
           \/ g.replay = f.replay /\ g.missed = f.missed \cup About(event)
    BY <1>6, <2>1, TakenOrDropped
  <2> QED
    BY <1>1, <1>2, <2>2, <2>3
<1> QED
  BY <1>3, <1>7, TokenIs
  DEF SameTick, SameQuotes, SamePositions, SameVerdict, Replays

\* A quote of one token
With(quoted, token, ask) ==
    [t \in {token} \cup DOMAIN quoted |-> IF t = token THEN ask ELSE quoted[t]]

LEMMA WithIs ==
    ASSUME NEW quoted \in Quotes, NEW token \in Quoted, NEW ask \in Ask \cup {NoAsk}
    PROVE  With(quoted, token, ask) \in Quotes
<1>1. PICK some \in SUBSET Quoted : quoted \in [some -> Ask \cup {NoAsk}]
  BY DEF Quotes
<1>2. With(quoted, token, ask) \in [{token} \cup some -> Ask \cup {NoAsk}]
  BY <1>1 DEF With
<1> QED
  BY <1>2 DEF Quotes

LEMMA ReadQuote ==
    ASSUME NEW f \in Telemetry, NEW token \in Quoted, NEW ask \in Ask \cup {NoAsk},
           NEW g \in Recorded(f, [type |-> "clob_quote_update", token |-> token, ask |-> ask])
    PROVE  /\ g \in Telemetry
           /\ token \notin g.missed => g.replay.quotes = With(f.replay.quotes, token, ask)
           /\ \A t \in Token : t # token /\ t \notin g.missed =>
                  /\ t \notin f.missed
                  /\ t \in DOMAIN f.replay.quotes =>
                        /\ t \in DOMAIN g.replay.quotes
                        /\ g.replay.quotes[t] = f.replay.quotes[t]
           /\ SameMarket(f, g) /\ SameTick(f, g) /\ SamePositions(f, g) /\ SameVerdict(f, g)
<1> DEFINE event == [type |-> "clob_quote_update", token |-> token, ask |-> ask]
           quoted == With(f.replay.quotes, token, ask)
<1>1. Replayed(f.replay, event) = [f.replay EXCEPT !.quotes = quoted]
  BY DEF Replayed, With
<1>2. About(event) = {token} /\ Refreshed(event) = {token}
  BY DEF About, Refreshed
<1>3. f.replay \in Replays /\ quoted \in Quotes
  BY WithIs DEF Telemetry, Replays
<1>4. \A t \in DOMAIN f.replay.quotes : t \in DOMAIN quoted /\ (t # token => quoted[t] = f.replay.quotes[t])
  BY DEF With
<1> HIDE DEF quoted
<1>5. [f.replay EXCEPT !.quotes = quoted] \in Replays
  BY <1>3 DEF Replays
<1> HIDE DEF event
<1>6. g \in Recorded(f, event)
  BY DEF event
<1>7. /\ g \in Telemetry
      /\ \/ g.replay = [f.replay EXCEPT !.quotes = quoted] /\ g.missed = f.missed \ {token}
         \/ g.replay = f.replay /\ g.missed = f.missed \cup {token}
  BY <1>1, <1>2, <1>5, <1>6, TakenOrDropped, TokenIs DEF Inputs
<1> QED
  BY <1>3, <1>4, <1>7, TokenIs
  DEF SameMarket, SameTick, SamePositions, SameVerdict, Replays, quoted

\* A signal is compared and changes nothing else.
LEMMA ReadSignal ==
    ASSUME NEW f \in Telemetry, NEW signal, NEW ts,
           NEW g \in Recorded(f, [type |-> "signal", signal |-> signal, ts |-> ts])
    PROVE  /\ g \in Telemetry
           /\ g.replay.mismatched /\ ~f.replay.mismatched =>
                  Mismatches(f.replay, [type |-> "signal", signal |-> signal, ts |-> ts])
           /\ SameMarket(f, g) /\ SameTick(f, g) /\ SameQuotes(f, g) /\ SamePositions(f, g)
<1> DEFINE event == [type |-> "signal", signal |-> signal, ts |-> ts]
           found == f.replay.mismatched \/ Mismatches(f.replay, event)
<1>1. Replayed(f.replay, event) = [f.replay EXCEPT !.mismatched = found]
  BY DEF Replayed
<1>2. About(event) = {} /\ Refreshed(event) = {}
  BY DEF About, Refreshed
<1>3. f.replay \in Replays
  BY DEF Telemetry
<1>4. found \in BOOLEAN
  BY DEF Mismatches
<1>5. found /\ ~f.replay.mismatched => Mismatches(f.replay, event)
  OBVIOUS
<1> HIDE DEF event, found
<1>6. [f.replay EXCEPT !.mismatched = found] \in Replays
  BY <1>3, <1>4 DEF Replays
<1>7. g \in Recorded(f, event)
  BY DEF event
<1>8. /\ g \in Telemetry
      /\ g.replay = [f.replay EXCEPT !.mismatched = found] \/ g.replay = f.replay
      /\ g.missed = f.missed
  BY <1>1, <1>2, <1>6, <1>7, NoInput
<1>9. /\ g.replay.market = f.replay.market /\ g.replay.tick = f.replay.tick
      /\ g.replay.quotes = f.replay.quotes /\ g.replay.positions = f.replay.positions
      /\ g.replay.misjudged = f.replay.misjudged
      /\ g.replay.mismatched = found \/ g.replay.mismatched = f.replay.mismatched
  BY <1>3, <1>8 DEF Replays
<1>10. g.replay.mismatched /\ ~f.replay.mismatched => Mismatches(f.replay, event)
  BY <1>5, <1>9
<1> QED
  BY <1>8, <1>9, <1>10 DEF SameMarket, SameTick, SameQuotes, SamePositions, event

\* A position that is opened is the only new one, if the replay takes it at all.
LEMMA ReadOpen ==
    ASSUME NEW f \in Telemetry, NEW opened \in Position,
           NEW g \in Recorded(f, [type |-> "position_open", position |-> opened])
    PROVE  /\ g \in Telemetry
           /\ g.replay.positions \subseteq f.replay.positions \cup {opened}
           /\ g.replay.misjudged = f.replay.misjudged
           /\ SameMarket(f, g) /\ SameTick(f, g) /\ SameQuotes(f, g) /\ SameVerdict(f, g)
<1> DEFINE event == [type |-> "position_open", position |-> opened]
           more == f.replay.positions \cup {opened}
<1>1. \/ Replayed(f.replay, event) = f.replay
      \/ Replayed(f.replay, event) = [f.replay EXCEPT !.positions = more]
  BY DEF Replayed
<1>2. About(event) = {} /\ Refreshed(event) = {}
  BY DEF About, Refreshed
<1>3. f.replay \in Replays
  BY DEF Telemetry
<1>4. more \in SUBSET Position /\ f.replay.positions \subseteq more
  BY <1>3 DEF Replays
<1> HIDE DEF event, more
<1>5. [f.replay EXCEPT !.positions = more] \in Replays
  BY <1>3, <1>4 DEF Replays
<1>6. g \in Recorded(f, event)
  BY DEF event
<1>7. /\ g \in Telemetry
      /\ g.replay = [f.replay EXCEPT !.positions = more] \/ g.replay = f.replay
      /\ g.missed = f.missed
  BY <1>1, <1>2, <1>3, <1>5, <1>6, NoInput
<1>8. /\ g.replay.market = f.replay.market /\ g.replay.tick = f.replay.tick
      /\ g.replay.quotes = f.replay.quotes /\ g.replay.mismatched = f.replay.mismatched
      /\ g.replay.misjudged = f.replay.misjudged
      /\ g.replay.positions \subseteq more
  BY <1>3, <1>4, <1>7 DEF Replays
<1> QED
  BY <1>7, <1>8 DEF SameMarket, SameTick, SameQuotes, SameVerdict, more

\* A settlement takes positions away, and is misjudged only by a position with its id.
LEMMA ReadClose ==
    ASSUME NEW f \in Telemetry, NEW id, NEW winning, NEW pnl,
           NEW g \in Recorded(f, [type |-> "position_close", id |-> id, winning |-> winning,
                                  pnl |-> pnl]),
           \A p \in f.replay.positions : p.id = id => SettlementPnl(p, winning) = pnl
    PROVE  /\ g \in Telemetry
           /\ g.replay.positions \subseteq f.replay.positions
           /\ g.replay.misjudged = f.replay.misjudged
           /\ SameMarket(f, g) /\ SameTick(f, g) /\ SameQuotes(f, g) /\ SameVerdict(f, g)
<1> DEFINE event == [type |-> "position_close", id |-> id, winning |-> winning, pnl |-> pnl]
           rest == {p \in f.replay.positions : p.id # id}
<1>1. ~Misjudged(f.replay, event)
  BY DEF Misjudged
<1>2. f.replay \in Replays
  BY DEF Telemetry
<1>3. f.replay.misjudged \in BOOLEAN
  BY <1>2 DEF Replays
<1>4. Replayed(f.replay, event) = [f.replay EXCEPT !.positions = rest]
  <2>1. Replayed(f.replay, event)
          = [f.replay EXCEPT !.positions = rest,
                             !.misjudged = f.replay.misjudged \/ Misjudged(f.replay, event)]
    BY DEF Replayed
  <2>2. (f.replay.misjudged \/ Misjudged(f.replay, event)) = f.replay.misjudged
    BY <1>1, <1>3
  <2> HIDE DEF rest, event
  <2> QED
    BY <1>2, <2>1, <2>2 DEF Replays
<1>5. About(event) = {} /\ Refreshed(event) = {}
  BY DEF About, Refreshed
<1>6. rest \in SUBSET Position /\ rest \subseteq f.replay.positions
  BY <1>2 DEF Replays
<1> HIDE DEF event, rest
<1>7. [f.replay EXCEPT !.positions = rest] \in Replays
  BY <1>2, <1>6 DEF Replays
<1>8. g \in Recorded(f, event)
  BY DEF event
<1>9. /\ g \in Telemetry
      /\ g.replay = [f.replay EXCEPT !.positions = rest] \/ g.replay = f.replay
      /\ g.missed = f.missed
  BY <1>4, <1>5, <1>7, <1>8, NoInput
<1>10. /\ g.replay.market = f.replay.market /\ g.replay.tick = f.replay.tick
       /\ g.replay.quotes = f.replay.quotes /\ g.replay.mismatched = f.replay.mismatched
       /\ g.replay.misjudged = f.replay.misjudged
       /\ g.replay.positions \subseteq f.replay.positions
  BY <1>2, <1>6, <1>9 DEF Replays
<1> QED
  BY <1>9, <1>10 DEF SameMarket, SameTick, SameQuotes, SameVerdict

-----------------------------------------------------------------------------
(***************************************************************************)
(* The invariant                                                           *)
(***************************************************************************)

\* What the bot knows and the telemetry does not miss is what the replay knows. (A restart
\* makes the bot forget: the replay then knows more, and knows it right as soon as the
\* bot learns it again.)
Told ==
    /\ market # Unknown /\ "market" \notin file.missed => file.replay.market = market
    /\ tick # NoTick /\ "tick" \notin file.missed => file.replay.tick = tick
    /\ \A token \in DOMAIN quotes : token \notin file.missed =>
          /\ token \in DOMAIN file.replay.quotes
          /\ file.replay.quotes[token] = quotes[token]

\* Positions are numbered, so that one the replay finds by its id is the one that has it
\* in the trades table, of which the bot's is one. (The position that a restart brings
\* back is therefore the one whose close the replay may have read.)
SamePosition ==
    /\ position # NoPosition => position \in rows \cup unsure
    /\ \A p \in file.replay.positions \cup rows \cup unsure :
          /\ p.id =< trades
          /\ \A q \in rows \cup unsure : p.id = q.id => p = q

ReplayInv ==
    /\ Told /\ SamePosition
    /\ pass # Idle => market # Unknown
    /\ ~file.replay.misjudged

ReplayIInv == TypeOK /\ ReplayInv

\* The types of the variables by the names used here
LEMMA TypeIs ==
    TypeOK <=>
        /\ now \in 0..MaxNow
        /\ market \in Market \cup {Unknown} /\ tick \in Tick \cup {NoTick} /\ quotes \in Quotes
        /\ position \in Position \cup {NoPosition} /\ trades \in 0..MaxTrades
        /\ rows \subseteq Position /\ unsure \subseteq Position
        /\ pass \in Passes \cup {Idle} /\ file \in Telemetry
  BY DEF TypeOK, Passes, Telemetry, Replays, Inputs

LEMMA QuotesAre ==
    ASSUME NEW quoted \in Quotes
    PROVE  /\ DOMAIN quoted \subseteq Quoted
           /\ \A token \in DOMAIN quoted : quoted[token] \in Ask \cup {NoAsk}
  BY DEF Quotes

\* No quote yet
LEMMA NoQuotes == <<>> \in Quotes /\ DOMAIN <<>> = {}
<1>1. DOMAIN <<>> = {}
  OBVIOUS
<1>2. <<>> \in [{} -> Ask \cup {NoAsk}]
  BY <1>1
<1> QED
  BY <1>1, <1>2 DEF Quotes

LEMMA ReplayStarts == Init => ReplayIInv
<1> SUFFICES ASSUME Init PROVE ReplayIInv
  OBVIOUS
<1>1. <<>> \in Quotes /\ DOMAIN quotes = {}
  BY NoQuotes DEF Init
<1>2. 0 \in 0..MaxNow /\ 0 \in 0..MaxTrades /\ 0 \in 0..MaxMissed
  BY ReplayAssumption
<1>3. file.replay \in Replays /\ file.replay.positions = {} /\ ~file.replay.misjudged
  BY <1>1 DEF Init, Replays
<1>4. file \in Telemetry
  BY <1>2, <1>3 DEF Init, Telemetry
<1>5. TypeOK
  BY <1>1, <1>2, <1>4, TypeIs DEF Init
<1> QED
  BY <1>1, <1>3, <1>5 DEF Init, ReplayIInv, ReplayInv, Told, SamePosition

\* A step of the bot that leaves positions alone
LEMMA PositionStays ==
    ASSUME SamePosition, UNCHANGED <<position, trades, rows, unsure>>,
           file'.replay.positions = file.replay.positions
    PROVE  SamePosition'
  BY DEF SamePosition

LEMMA TickSteps ==
    ASSUME ReplayIInv, NEW price \in TickPrice, NEW lag \in Lag, OnTick(price, lag)
    PROVE  ReplayIInv' /\ SameVerdict(file, file')
<1> DEFINE new == [price |-> price, feed |-> now - lag, received |-> now]
           news == [type |-> "chainlink_tick", tick |-> new]
<1>1. /\ now \in 0..MaxNow /\ market \in Market \cup {Unknown} /\ quotes \in Quotes
      /\ position \in Position \cup {NoPosition} /\ trades \in 0..MaxTrades
      /\ rows \subseteq Position /\ unsure \subseteq Position
      /\ pass \in Passes \cup {Idle} /\ file \in Telemetry
  BY TypeIs DEF ReplayIInv
<1>2. new \in Tick
  BY <1>1, ReplayAssumption DEF Tick
<1>3. /\ tick' = new
      /\ UNCHANGED <<now, quotes, position, trades, rows, unsure, pass>>
      /\ \/ Record(news) /\ market' = market
         \/ /\ market # Unknown
            /\ market' = [market EXCEPT !.price = price]
            /\ \E first \in Recorded(file, news) :
                  file' \in Recorded(first, [type |-> "price_to_beat", price |-> price])
  BY DEF OnTick, book
<1> HIDE DEF new
<1>4. CASE Record(news) /\ market' = market
  <2>1. /\ file' \in Telemetry
        /\ "tick" \notin file'.missed => file'.replay.tick = new
        /\ SameMarket(file, file') /\ SameQuotes(file, file')
        /\ SamePositions(file, file') /\ SameVerdict(file, file')
    BY <1>1, <1>2, <1>4, ReadTick DEF Record
  <2>2. TypeOK'
    BY <1>1, <1>2, <1>3, <1>4, <2>1 DEF TypeOK, Passes, Telemetry, Replays, Inputs
  <2>3. Told'
    BY <1>1, <1>3, <1>4, <2>1, QuotesAre, TokenIs
    DEF ReplayIInv, ReplayInv, Told, SameMarket, SameQuotes
  <2>4. SamePosition' /\ ~file'.replay.misjudged
    BY <1>3, <2>1, PositionStays DEF SamePositions, ReplayIInv, ReplayInv
  <2> QED
    BY <1>3, <1>4, <2>1, <2>2, <2>3, <2>4 DEF ReplayIInv, ReplayInv
<1>5. CASE /\ market # Unknown
           /\ market' = [market EXCEPT !.price = price]
           /\ \E first \in Recorded(file, news) :
                 file' \in Recorded(first, [type |-> "price_to_beat", price |-> price])
  <2>1. PICK first \in Recorded(file, news) :
            file' \in Recorded(first, [type |-> "price_to_beat", price |-> price])
    BY <1>5
  <2>2. /\ first \in Telemetry
        /\ "tick" \notin first.missed => first.replay.tick = new
        /\ SameMarket(file, first) /\ SameQuotes(file, first)
        /\ SamePositions(file, first) /\ SameVerdict(file, first)
    BY <1>1, <1>2, ReadTick
  <2>3. /\ file' \in Telemetry
        /\ "market" \notin file'.missed =>
               "market" \notin first.missed /\ file'.replay.market = Opened(first.replay.market, price)
        /\ SameTick(first, file') /\ SameQuotes(first, file')
        /\ SamePositions(first, file') /\ SameVerdict(first, file')
    BY <2>1, <2>2, ReadOpening
  <2>4. market' \in Market /\ market' = Opened(market, price)
    BY <1>1, <1>5 DEF Market, Opened
  <2>5. TypeOK'
    BY <1>1, <1>2, <1>3, <2>3, <2>4 DEF TypeOK, Passes, Telemetry, Replays, Inputs
  <2>6. /\ "market" \notin file'.missed => file'.replay.market = market'
        /\ "tick" \notin file'.missed => file'.replay.tick = tick'
    BY <1>3, <1>5, <2>2, <2>3, <2>4 DEF ReplayIInv, ReplayInv, Told, SameMarket, SameTick
  <2>7. Told'
    BY <1>1, <1>3, <2>2, <2>3, <2>6, QuotesAre, TokenIs
    DEF ReplayIInv, ReplayInv, Told, SameQuotes
  <2>8. SamePosition' /\ ~file'.replay.misjudged /\ SameVerdict(file, file')
    BY <1>3, <2>2, <2>3, PositionStays DEF SamePositions, SameVerdict, ReplayIInv, ReplayInv
  <2>9. market' # Unknown
    BY <2>4, ReplayAssumption
  <2> QED
    BY <2>5, <2>7, <2>8, <2>9 DEF ReplayIInv, ReplayInv
<1> QED
  BY <1>3, <1>4, <1>5

LEMMA MessageSteps ==
    ASSUME ReplayIInv, NEW token \in Quoted, NEW ask \in Ask \cup {NoAsk}, OnMessage(token, ask)
    PROVE  ReplayIInv' /\ SameVerdict(file, file')
<1>1. /\ now \in 0..MaxNow /\ market \in Market \cup {Unknown} /\ quotes \in Quotes
      /\ file \in Telemetry
  BY TypeIs DEF ReplayIInv
<1>2. /\ quotes' = With(quotes, token, ask)
      /\ UNCHANGED <<now, market, tick, position, trades, rows, unsure, pass>>
      /\ file' \in Recorded(file, [type |-> "clob_quote_update", token |-> token, ask |-> ask])
  BY DEF OnMessage, With, Record, book
<1>3. /\ file' \in Telemetry
      /\ token \notin file'.missed => file'.replay.quotes = With(file.replay.quotes, token, ask)
      /\ \A t \in Token : t # token /\ t \notin file'.missed =>
             /\ t \notin file.missed
             /\ t \in DOMAIN file.replay.quotes =>
                   /\ t \in DOMAIN file'.replay.quotes
                   /\ file'.replay.quotes[t] = file.replay.quotes[t]
      /\ SameMarket(file, file') /\ SameTick(file, file')
      /\ SamePositions(file, file') /\ SameVerdict(file, file')
  BY <1>1, <1>2, ReadQuote
<1>4. quotes' \in Quotes
  BY <1>1, <1>2, WithIs
<1>5. TypeOK'
  BY <1>2, <1>3, <1>4 DEF ReplayIInv, TypeOK, Telemetry, Replays, Inputs
<1>6. \A t \in DOMAIN quotes' : t \notin file'.missed =>
          t \in DOMAIN file'.replay.quotes /\ file'.replay.quotes[t] = quotes'[t]
  <2> SUFFICES ASSUME NEW t \in DOMAIN quotes', t \notin file'.missed
               PROVE  t \in DOMAIN file'.replay.quotes /\ file'.replay.quotes[t] = quotes'[t]
    OBVIOUS
  <2>1. CASE t = token
    BY <1>2, <1>3, <2>1 DEF With
  <2>2. CASE t # token
    <3>1. t \in DOMAIN quotes /\ quotes'[t] = quotes[t]
      BY <1>2, <2>2 DEF With
    <3>2. t \in Token
      BY <1>1, <3>1, QuotesAre, TokenIs
    <3>3. t \notin file.missed
      BY <1>3, <2>2, <3>2
    <3>4. t \in DOMAIN file.replay.quotes /\ file.replay.quotes[t] = quotes[t]
      BY <3>1, <3>3 DEF ReplayIInv, ReplayInv, Told
    <3> QED
      BY <1>3, <2>2, <3>1, <3>2, <3>4
  <2> QED
    BY <2>1, <2>2
<1>7. Told'
  BY <1>2, <1>3, <1>6 DEF ReplayIInv, ReplayInv, Told, SameMarket, SameTick
<1>8. SamePosition' /\ ~file'.replay.misjudged
  BY <1>2, <1>3, PositionStays DEF SamePositions, ReplayIInv, ReplayInv
<1> QED
  BY <1>2, <1>3, <1>5, <1>7, <1>8 DEF ReplayIInv, ReplayInv

LEMMA PollSteps ==
    ASSUME ReplayIInv, NEW new \in Market, OnPoll(new)
    PROVE  ReplayIInv' /\ SameVerdict(file, file')
<1>1. market \in Market \cup {Unknown} /\ quotes \in Quotes /\ pass \in Passes \cup {Idle}
      /\ file \in Telemetry
  BY TypeIs DEF ReplayIInv
<1>2. /\ market' = new
      /\ UNCHANGED <<now, tick, quotes, position, trades, rows, unsure>>
      /\ file' \in Recorded(file, [type |-> "market_window", market |-> new])
      /\ pass' = IF pass # Idle /\ pass.window = Listed
                 THEN [pass EXCEPT !.window = market] ELSE pass
  BY DEF OnPoll, Record, book
<1>3. /\ file' \in Telemetry
      /\ "market" \notin file'.missed => file'.replay.market = new
      /\ SameTick(file, file') /\ SameQuotes(file, file')
      /\ SamePositions(file, file') /\ SameVerdict(file, file')
  BY <1>1, <1>2, ReadWindow
<1>4. pass' \in Passes \cup {Idle}
  <2>1. CASE pass # Idle
    <3>1. market \in Market /\ pass \in Passes
      BY <1>1, <2>1 DEF ReplayIInv, ReplayInv
    <3> QED
      BY <1>2, <3>1 DEF Passes
  <2> QED
    BY <1>2, <2>1
<1>5. TypeOK'
  BY <1>2, <1>3, <1>4 DEF ReplayIInv, TypeOK, Passes, Telemetry, Replays, Inputs
<1>6. Told'
  BY <1>1, <1>2, <1>3, QuotesAre, TokenIs
  DEF ReplayIInv, ReplayInv, Told, SameTick, SameQuotes
<1>7. SamePosition' /\ ~file'.replay.misjudged
  BY <1>2, <1>3, PositionStays DEF SamePositions, ReplayIInv, ReplayInv
<1>8. market' # Unknown
  BY <1>2, ReplayAssumption
<1> QED
  BY <1>3, <1>5, <1>6, <1>7, <1>8 DEF ReplayIInv, ReplayInv

\* What SignalsMatch says of a step
SignalStep ==
    file'.replay.mismatched /\ ~file.replay.mismatched =>
        \/ file.missed \cap {"market", "tick", Outcome(Judged, tick)} # {}
        \/ pass.window # Listed
        \/ Reason(market, tick, quotes[Outcome(market, tick)], now) # Signal.reason

LEMMA JudgeSteps ==
    ASSUME ReplayIInv, Judge
    PROVE  ReplayIInv' /\ SignalStep
<1> DEFINE token == Outcome(Judged, tick)
           event == [type |-> "signal", signal |-> Signal, ts |-> now]
<1>1. /\ now \in 0..MaxNow /\ market \in Market \cup {Unknown} /\ quotes \in Quotes
      /\ tick \in Tick /\ pass \in Passes /\ file \in Telemetry
  BY TypeIs DEF ReplayIInv, Judge
<1>2. /\ token \in DOMAIN quotes /\ token \in Token /\ quotes[token] \in Ask \cup {NoAsk}
      /\ market # Unknown /\ Judged \in Market /\ Judged.price # NoPrice
      /\ Signal = Evaluate(Judged, tick, token, quotes[token], pass.now)
  <2>1. market # Unknown /\ Judged \in Market /\ Judged.price # NoPrice
    BY <1>1 DEF Judge, Judged, Passes, ReplayIInv, ReplayInv
  <2> QED
    BY <1>1, <2>1, QuotesAre, TokenIs DEF Judge, Signal
<1>3. /\ Signal # NoSignal
      /\ UNCHANGED <<now, market, tick, quotes, position, trades, rows, unsure>>
      /\ file' \in Recorded(file, event) \/ file' = file
      /\ pass' = IF Signal.reason = "accepted" THEN [pass EXCEPT !.order = Signal] ELSE Idle
  BY DEF Judge, Ordered, bot, book, Record
<1>4. /\ file' \in Telemetry
      /\ file'.replay.mismatched /\ ~file.replay.mismatched => Mismatches(file.replay, event)
      /\ SameMarket(file, file') /\ SameTick(file, file') /\ SameQuotes(file, file')
      /\ SamePositions(file, file')
  <2>1. CASE file' = file
    BY <1>1, <2>1 DEF SameMarket, SameTick, SameQuotes, SamePositions
  <2>2. CASE file' \in Recorded(file, event)
    BY <1>1, <2>2, ReadSignal
  <2> QED
    BY <1>3, <2>1, <2>2
<1>5. pass' \in Passes \cup {Idle}
  <2>1. CASE Signal.reason = "accepted"
    <3>1. Signal \in Order
      BY <1>1, <1>2, <2>1, AcceptedHasPrice
    <3> QED
      BY <1>1, <1>3, <2>1, <3>1 DEF Passes
  <2> QED
    BY <1>3, <2>1
<1>6. TypeOK'
  BY <1>3, <1>4, <1>5 DEF ReplayIInv, TypeOK, Passes, Telemetry, Replays, Inputs
<1>7. Told'
  BY <1>1, <1>3, <1>4, QuotesAre, TokenIs
  DEF ReplayIInv, ReplayInv, Told, SameMarket, SameTick, SameQuotes
<1>8. SamePosition' /\ ~file'.replay.misjudged
  BY <1>3, <1>4, PositionStays DEF SamePositions, ReplayIInv, ReplayInv
<1>9. SignalStep
  <2> SUFFICES ASSUME Mismatches(file.replay, event),
                      file.missed \cap {"market", "tick", token} = {}, pass.window = Listed,
                      Reason(market, tick, quotes[token], now) = Signal.reason
               PROVE  FALSE
    BY <1>4 DEF SignalStep, Judged
  <2>1. Signal = Evaluate(market, tick, token, quotes[token], pass.now)
    BY <1>2 DEF Judged
  <2>2. Evaluate(market, tick, token, quotes[token], now) = Signal
    BY <1>3, <2>1, SameReason
  <2>3. Signal.token = token
    BY <1>3, <2>1 DEF Evaluate
  <2>4. /\ file.replay.market = market /\ file.replay.tick = tick
        /\ file.replay.quotes[token] = quotes[token]
    BY <1>2 DEF Judge, ReplayIInv, ReplayInv, Told
  <2> QED
    BY <2>2, <2>3, <2>4 DEF Mismatches
<1> QED
  BY <1>2, <1>3, <1>6, <1>7, <1>8, <1>9 DEF ReplayIInv, ReplayInv

LEMMA FillSteps ==
    ASSUME ReplayIInv, NEW shares \in Shares, Fill(shares)
    PROVE  ReplayIInv' /\ SameVerdict(file, file')
<1> DEFINE opened == [id |-> trades + 1, outcome |-> pass.order.token, shares |-> shares,
                      cost |-> pass.order.ask * shares]
<1>1. /\ now \in 0..MaxNow /\ market \in Market \cup {Unknown} /\ quotes \in Quotes
      /\ position \in Position \cup {NoPosition} /\ trades \in 0..MaxTrades
      /\ pass \in Passes /\ file \in Telemetry
  BY TypeIs DEF ReplayIInv, Fill
<1>2. /\ trades < MaxTrades /\ trades' = trades + 1 /\ position' = opened /\ pass' = Idle
      /\ unsure' = unsure \cup {opened}
      /\ UNCHANGED <<now, market, tick, quotes, rows>>
      /\ file' \in Recorded(file, [type |-> "position_open", position |-> opened])
  BY DEF Fill, Record
<1>3. pass.order \in Order
  BY <1>1 DEF Fill, Passes
<1>4. trades + 1 \in 1..MaxTrades
  BY <1>1, <1>2, ReplayAssumption
<1>5. opened \in Position
  <2>1. pass.order.ask \in Nat /\ shares \in Nat /\ pass.order.token \in Token
    BY <1>3, ReplayAssumption, SignalsAssumption DEF Order
  <2>2. pass.order.ask * shares \in Nat
    BY <2>1
  <2> QED
    BY <1>4, <2>1, <2>2 DEF Position
<1>6. opened.id = trades + 1
  OBVIOUS
<1> HIDE DEF opened
<1>7. /\ file' \in Telemetry
      /\ file'.replay.positions \subseteq file.replay.positions \cup {opened}
      /\ file'.replay.misjudged = file.replay.misjudged
      /\ SameMarket(file, file') /\ SameTick(file, file') /\ SameQuotes(file, file')
      /\ SameVerdict(file, file')
  BY <1>1, <1>2, <1>5, ReadOpen
<1>8. TypeOK'
  <2>1. trades' \in 0..MaxTrades
    BY <1>2, <1>4
  <2> QED
    BY <1>2, <1>5, <1>7, <2>1 DEF ReplayIInv, TypeOK, Passes, Telemetry, Replays, Inputs
<1>9. Told'
  BY <1>1, <1>2, <1>7, QuotesAre, TokenIs
  DEF ReplayIInv, ReplayInv, Told, SameMarket, SameTick, SameQuotes
<1>10. SamePosition'
  <2> DEFINE old == file.replay.positions \cup rows \cup unsure
  <2>1. /\ rows \subseteq Position /\ unsure \subseteq Position
        /\ file.replay.positions \subseteq Position
    BY TypeIs DEF ReplayIInv, Telemetry, Replays
  <2>2. \A p \in old : /\ p.id \in Nat /\ p.id =< trades
                       /\ \A q \in rows \cup unsure : p.id = q.id => p = q
    BY <2>1 DEF ReplayIInv, ReplayInv, SamePosition, Position
  <2>3. /\ file'.replay.positions \cup rows' \cup unsure' \subseteq old \cup {opened}
        /\ rows' \cup unsure' = (rows \cup unsure) \cup {opened}
        /\ rows \cup unsure \subseteq old
    BY <1>2, <1>7
  <2>4. trades \in Nat
    BY <1>1
  <2> HIDE DEF old
  <2>5. \A p \in old \cup {opened} :
            /\ p.id =< trades + 1
            /\ \A q \in (rows \cup unsure) \cup {opened} : p.id = q.id => p = q
    BY <1>6, <2>2, <2>3, <2>4
  <2> QED
    BY <1>2, <2>3, <2>5 DEF SamePosition
<1> QED
  BY <1>2, <1>7, <1>8, <1>9, <1>10 DEF ReplayIInv, ReplayInv

LEMMA SettleSteps ==
    ASSUME ReplayIInv, NEW winning \in Token, Settle(winning)
    PROVE  ReplayIInv' /\ SameVerdict(file, file')
<1>1. /\ now \in 0..MaxNow /\ market \in Market \cup {Unknown} /\ quotes \in Quotes
      /\ file \in Telemetry
  BY TypeIs DEF ReplayIInv
<1>2. /\ position # NoPosition /\ position' = NoPosition
      /\ rows' = rows \ {position} /\ unsure' = unsure \cup {position}
      /\ UNCHANGED <<now, market, tick, quotes, trades, pass>>
      /\ file' \in Recorded(file, [type |-> "position_close", id |-> position.id,
                                   winning |-> winning, pnl |-> SettlementPnl(position, winning)])
  BY DEF Settle, Record
<1>3. \A p \in file.replay.positions :
          p.id = position.id => SettlementPnl(p, winning) = SettlementPnl(position, winning)
  BY <1>2 DEF ReplayIInv, ReplayInv, SamePosition
<1>4. /\ file' \in Telemetry
      /\ file'.replay.positions \subseteq file.replay.positions
      /\ file'.replay.misjudged = file.replay.misjudged
      /\ SameMarket(file, file') /\ SameTick(file, file') /\ SameQuotes(file, file')
      /\ SameVerdict(file, file')
  BY <1>1, <1>2, <1>3, ReadClose
<1>5. TypeOK'
  BY <1>2, <1>4 DEF ReplayIInv, TypeOK, Passes, Telemetry, Replays, Inputs
<1>6. Told'
  BY <1>1, <1>2, <1>4, QuotesAre, TokenIs
  DEF ReplayIInv, ReplayInv, Told, SameMarket, SameTick, SameQuotes
<1>7. SamePosition'
  <2>1. rows' \cup unsure' = rows \cup unsure
    BY <1>2 DEF ReplayIInv, ReplayInv, SamePosition
  <2>2. file'.replay.positions \cup rows' \cup unsure'
            \subseteq file.replay.positions \cup rows \cup unsure
    BY <1>4, <2>1
  <2> QED
    BY <1>2, <2>1, <2>2 DEF ReplayIInv, ReplayInv, SamePosition
<1> QED
  BY <1>2, <1>4, <1>5, <1>6, <1>7 DEF ReplayIInv, ReplayInv

\* The steps that record nothing
LEMMA OtherSteps ==
    ASSUME ReplayIInv, PassBegins \/ PassEnds \/ ClockTicks \/ Restart \/ UNCHANGED vars
    PROVE  ReplayIInv' /\ file' = file
<1> USE DEF ReplayIInv, ReplayInv, Told, SamePosition
<1>1. CASE PassBegins
  <2>1. pass' \in Passes
    BY <1>1 DEF PassBegins, Passes, TypeOK
  <2>2. TypeOK'
    BY <1>1, <2>1 DEF PassBegins, bot, book, TypeOK, Passes
  <2> QED
    BY <1>1, <2>2 DEF PassBegins, bot, book
<1>2. CASE PassEnds
  BY <1>2 DEF PassEnds, bot, book, TypeOK
<1>3. CASE ClockTicks
  <2>1. now' \in 0..MaxNow
    BY <1>3, ReplayAssumption DEF ClockTicks, TypeOK
  <2> QED
    BY <1>3, <2>1 DEF ClockTicks, bot, book, TypeOK
<1>4. CASE Restart
  <2>1. /\ rows' \subseteq rows \cup unsure /\ unsure' = {}
        /\ position' = NoPosition \/ position' \in rows'
        /\ UNCHANGED <<trades, file>>
    BY <1>4 DEF Restart
  <2>2. TypeOK'
    BY <1>4, <2>1, NoQuotes DEF Restart, TypeOK
  <2>3. SamePosition'
    BY <2>1
  <2> QED
    BY <1>4, <2>1, <2>2, <2>3, NoQuotes DEF Restart
<1>5. CASE UNCHANGED vars
  BY <1>5 DEF vars, bot, book, TypeOK
<1> QED
  BY <1>1, <1>2, <1>3, <1>4, <1>5

LEMMA ReplaySteps ==
    ASSUME ReplayIInv, [Next]_vars
    PROVE  ReplayIInv' /\ SignalStep
<1>1. ASSUME SameVerdict(file, file') PROVE SignalStep
  BY <1>1 DEF SameVerdict, SignalStep
<1>2. CASE \E price \in TickPrice, lag \in Lag : OnTick(price, lag)
  BY <1>1, <1>2, TickSteps
<1>3. CASE \E token \in Quoted, ask \in Ask \cup {NoAsk} : OnMessage(token, ask)
  BY <1>1, <1>3, MessageSteps
<1>4. CASE \E new \in Market : OnPoll(new)
  BY <1>1, <1>4, PollSteps
<1>5. CASE Judge
  BY <1>5, JudgeSteps
<1>6. CASE \E shares \in Shares : Fill(shares)
  BY <1>1, <1>6, FillSteps
<1>7. CASE \E winning \in Token : Settle(winning)
  BY <1>1, <1>7, SettleSteps
<1>8. CASE PassBegins \/ PassEnds \/ ClockTicks \/ Restart \/ UNCHANGED vars
  BY <1>1, <1>8, OtherSteps DEF SameVerdict
<1> QED
  BY <1>2, <1>3, <1>4, <1>5, <1>6, <1>7, <1>8 DEF Next

LEMMA ReplayInvariant == Spec => []ReplayIInv
  BY ReplayStarts, ReplaySteps, PTL DEF Spec

-----------------------------------------------------------------------------
\* The replay's state keeps the types of the bot's, whatever it reads, and a pass orders
\* accepted signals only.
THEOREM ReplayTypeCorrect == Spec => []TypeOK
<1>1. ReplayIInv => TypeOK
  BY DEF ReplayIInv
<1> QED
  BY <1>1, ReplayInvariant, PTL

\* A replayed settlement gives the recorded result, whatever the telemetry misses,
\* whichever process opened the position, and if a restart brings it back to be settled
\* again because its close was lost.
THEOREM SettlementsReplay == Spec => []SettlementsMatch
<1>1. ReplayIInv => SettlementsMatch
  BY DEF ReplayIInv, ReplayInv, SettlementsMatch
<1> QED
  BY <1>1, ReplayInvariant, PTL

\* docs/CLIENT_HANDOFF.md:24: a replayed signal matches the recorded one but for the three
\* reasons that SignalsMatch names.
THEOREM SignalsReplay == Spec => SignalsMatch
<1>1. ReplayIInv /\ [Next]_vars => [SignalStep]_vars
  BY ReplaySteps
<1>2. Spec => [][SignalStep]_vars
  BY <1>1, ReplayInvariant, PTL DEF Spec
<1> QED
  BY <1>2, PTL DEF SignalsMatch, SignalStep
=============================================================================
