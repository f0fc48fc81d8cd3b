------------------------------- MODULE Replay -------------------------------
(***************************************************************************)
(* The telemetry of one window and its replay: bot.py records what it sees *)
(* and decides, scripts/replay_telemetry.py rebuilds the bot's state from  *)
(* the file and takes every recorded signal and settlement again.          *)
(*                                                                         *)
(* The replay reads events one by one and keeps nothing else of the file,  *)
(* so its state is that after the events recorded so far. An event that    *)
(* finds the recorder's queue full, or is still in memory when the process *)
(* is killed, is missed by it.                                             *)
(***************************************************************************)
EXTENDS Signals

CONSTANTS
    TickPrice, Lag,     \* what the oracle may report, and how late
    Quoted,             \* the tokens the market stream brings quotes of
    Shares,             \* the shares of an order
    NoTick, Unknown, Idle, NoPosition,
    Listed,             \* a pass judges the very window that is in markets
    MaxNow, MaxTrades, MaxMissed    \* bounds of the model

\* The price to beat comes from a tick, or from Gamma, which may say another later.
Market == [open : BOOLEAN, price : TickPrice \cup {NoPrice}]

ASSUME ReplayAssumption ==
    /\ TickPrice \subseteq Nat /\ Lag \subseteq Nat
    /\ Quoted \subseteq Token /\ Shares \subseteq Nat
    /\ Unknown \notin Market
    /\ MaxNow \in Nat /\ MaxTrades \in Nat /\ MaxMissed \in Nat

VARIABLES
    now,        \* the wall clock
    market,     \* the window in Bot.markets
    tick,       \* latest_ticks[asset]
    quotes,     \* orderbook.quotes, best asks by token
    position,   \* Bot.positions[market.key]
    trades,     \* positions opened so far
    rows,       \* the positions of the window with an open row in the trades table
    unsure,     \* those with a write that is queued, done, or lost with the process
    pass,       \* the signal pass: its now_ms, its window, the token it orders
    file        \* the telemetry: the state of replay_telemetry.py that has read it, the
                \* inputs whose newest event is missing, and how many are (both history)

book == <<position, trades, rows, unsure>>
bot == <<market, tick, quotes, book>>
vars == <<now, bot, pass, file>>

NoSignal == [reason |-> "none"]

\* evaluate for the quote of a token
Evaluate(window, priceTick, token, ask, t) ==
    LET reason == Reason(window, priceTick, ask, t)
    IN  IF reason = "none" \/ token # Outcome(window, priceTick) THEN NoSignal
        ELSE [reason |-> reason, token |-> token, ask |-> ask,
              edge |-> IF reason \in {"edge below threshold", "accepted"}
                       THEN Edge(window, priceTick, ask) ELSE -1]

\* position_settlement_pnl
SettlementPnl(trade, winning) ==
    (IF trade.outcome = winning THEN 100 * trade.shares ELSE 0) - trade.cost

-----------------------------------------------------------------------------
(***************************************************************************)
(* replay_telemetry.py                                                     *)
(***************************************************************************)

\* A signal is unverifiable while the window, a tick or the quote is unknown.
Mismatches(state, event) ==
    /\ state.market # Unknown /\ state.tick # NoTick
    /\ event.signal.token \in DOMAIN state.quotes
    /\ Evaluate(state.market, state.tick, event.signal.token,
                state.quotes[event.signal.token], event.ts) # event.signal

\* bug: a position is found by its window
MisjudgedByWindow(state, event) ==
    \E p \in state.positions : SettlementPnl(p, event.winning) # event.pnl

\* A settlement of a position whose opening is unknown is passed over.
Misjudged(state, event) ==
    \E p \in state.positions :
        p.id = event.id /\ SettlementPnl(p, event.winning) # event.pnl

\* bug: the opening price is not replayed
OpeningUnknown(found, price) == found

\* _apply_price_to_beat
Opened(found, price) == IF found = Unknown THEN found ELSE [found EXCEPT !.price = price]

\* One turn of replay()
Replayed(state, event) ==
    CASE event.type = "market_window" -> [state EXCEPT !.market = event.market]
      [] event.type = "price_to_beat" -> [state EXCEPT !.market = Opened(@, event.price)]
      [] event.type = "chainlink_tick" -> [state EXCEPT !.tick = event.tick]
      [] event.type = "clob_quote_update" ->
            [state EXCEPT !.quotes = [t \in {event.token} \cup DOMAIN @ |->
                                         IF t = event.token THEN event.ask ELSE @[t]]]
      [] event.type = "signal" ->
            [state EXCEPT !.mismatched = @ \/ Mismatches(state, event)]
      [] event.type = "position_open" ->
            IF state.market = Unknown \/ state.market.price = NoPrice THEN state
            ELSE [state EXCEPT !.positions = @ \cup {event.position}]
      [] event.type = "position_close" ->
            [state EXCEPT
                !.positions = {p \in @ : p.id # event.id},
                !.misjudged = @ \/ Misjudged(state, event)]

\* The input an event is the newest word on, if any
About(event) ==
    CASE event.type \in {"market_window", "price_to_beat"} -> {"market"}
      [] event.type = "chainlink_tick" -> {"tick"}
      [] event.type = "clob_quote_update" -> {event.token}
      [] OTHER -> {}

\* A price_to_beat event is no word on the rest of the window.
Refreshed(event) == IF event.type = "price_to_beat" THEN {} ELSE About(event)

\* recorder.record(event) takes the event or drops it.
Taken(telemetry, event) ==
    [telemetry EXCEPT !.replay = Replayed(@, event), !.missed = @ \ Refreshed(event)]

Dropped(telemetry, event) ==
    [telemetry EXCEPT !.missed = @ \cup About(event), !.misses = @ + 1]

Recorded(telemetry, event) ==
    {Taken(telemetry, event)}
        \cup (IF telemetry.misses < MaxMissed THEN {Dropped(telemetry, event)} ELSE {})

Record(event) == file' \in Recorded(file, event)

-----------------------------------------------------------------------------
(***************************************************************************)
(* bot.py                                                                  *)
(***************************************************************************)

Init ==
    /\ now = 0
    /\ market = Unknown /\ tick = NoTick /\ quotes = <<>>
    /\ position = NoPosition /\ trades = 0 /\ rows = {} /\ unsure = {}
    /\ pass = Idle
    /\ file = [replay |-> [market |-> Unknown, tick |-> NoTick, quotes |-> <<>>,
                           positions |-> {}, mismatched |-> FALSE, misjudged |-> FALSE],
               missed |-> {}, misses |-> 0]

\* A tick within the grace of the window's start gives it its price to beat.
OnTick(price, lag) ==
    LET new == [price |-> price, feed |-> now - lag, received |-> now]
        news == [type |-> "chainlink_tick", tick |-> new]
    IN  /\ tick' = new
        /\ \/ Record(news) /\ market' = market
           \/ /\ market # Unknown /\ market.price = NoPrice
              /\ market' = [market EXCEPT !.price = price]
              /\ \E first \in Recorded(file, news) :
                    file' \in Recorded(first, [type |-> "price_to_beat", price |-> price])
        /\ UNCHANGED <<now, quotes, book, pass>>

\* on_market_message. The event is of the quote, whatever message brought it.
OnMessage(token, ask) ==
    /\ quotes' = [t \in {token} \cup DOMAIN quotes |-> IF t = token THEN ask ELSE quotes[t]]
    /\ Record([type |-> "clob_quote_update", token |-> token, ask |-> ask])
    /\ UNCHANGED <<now, market, tick, book, pass>>

\* market_poll_loop puts a new window in the place of the old one: with Gamma's price,
\* or with the old one's, or with that of a tick. A pass that has listed the old one
\* keeps it.
OnPoll(new) ==
    /\ market # Unknown /\ market.price # NoPrice => new.price # NoPrice
    /\ market' = new
    /\ Record([type |-> "market_window", market |-> new])
    /\ pass' = IF pass # Idle /\ pass.window = Listed
               THEN [pass EXCEPT !.window = market] ELSE pass
    /\ UNCHANGED <<now, tick, quotes, book>>

\* _evaluate_once, up to its loop
PassBegins ==
    /\ pass = Idle /\ market # Unknown
    /\ pass' = [now |-> now, window |-> Listed, order |-> NoSignal]
    /\ UNCHANGED <<now, bot, file>>

Judged == IF pass.window = Listed THEN market ELSE pass.window

\* There is none without a price to beat, and else it is of the token of the winner so far.
Signal ==
    IF Judged.price = NoPrice THEN NoSignal
    ELSE Evaluate(Judged, tick, Outcome(Judged, tick), quotes[Outcome(Judged, tick)], pass.now)

\* bug: a signal that was rejected is ordered
OrderedAnyway(signal) == TRUE

\* signal.accepted
Ordered(signal) == signal.reason = "accepted"

\* The pass comes to the window. A signal like one of the last two seconds is not
\* recorded; the event is stamped with the time of its recording.
Judge ==
    /\ pass # Idle /\ pass.order = NoSignal
    /\ position = NoPosition /\ tick # NoTick
    /\ Judged.price # NoPrice /\ Outcome(Judged, tick) \in DOMAIN quotes
    /\ Signal # NoSignal
    /\ \/ Record([type |-> "signal", signal |-> Signal, ts |-> now])
       \/ UNCHANGED file
    /\ pass' = IF Ordered(Signal) THEN [pass EXCEPT !.order = Signal] ELSE Idle
    /\ UNCHANGED <<now, bot>>

\* The executor has filled the order, at once or after an await, and the row of the
\* position is queued.
Fill(shares) ==
    /\ pass # Idle /\ pass.order # NoSignal /\ trades < MaxTrades
    /\ trades' = trades + 1
    /\ position' = [id |-> trades', outcome |-> pass.order.token, shares |-> shares,
                    cost |-> pass.order.ask * shares]
    /\ unsure' = unsure \cup {position'}
    /\ Record([type |-> "position_open", position |-> position'])
    /\ pass' = Idle
    /\ UNCHANGED <<now, market, tick, quotes, rows>>

\* No signal, no order, or no fill
PassEnds ==
    /\ pass # Idle
    /\ pass' = Idle
    /\ UNCHANGED <<now, bot, file>>

\* The close of the row is queued.
Settle(winning) ==
    /\ position # NoPosition /\ now >= EndTs
    /\ Record([type |-> "position_close", id |-> position.id, winning |-> winning,
               pnl |-> SettlementPnl(position, winning)])
    /\ position' = NoPosition
    /\ rows' = rows \ {position} /\ unsure' = unsure \cup {position}
    /\ UNCHANGED <<now, market, tick, quotes, trades, pass>>

ClockTicks ==
    /\ now < MaxNow
    /\ now' = now + 1
    /\ UNCHANGED <<bot, pass, file>>

\* A new process appends to the file of the old one. It loads the open rows, the last
\* opened in the place of those before it: a position whose row was not yet written is
\* gone, and one that is settled is back if its close was not.
Restart ==
    /\ \E open \in SUBSET unsure : rows' = rows \cup open
    /\ unsure' = {}
    /\ \/ rows' = {} /\ position' = NoPosition
       \/ position' \in rows' /\ \A p \in rows' : p.id =< position'.id
    /\ market' = Unknown /\ tick' = NoTick /\ quotes' = <<>>
    /\ pass' = Idle
    /\ UNCHANGED <<now, trades, file>>

Next ==
    \/ \E price \in TickPrice, lag \in Lag : OnTick(price, lag)
    \/ \E token \in Quoted, ask \in Ask \cup {NoAsk} : OnMessage(token, ask)
    \/ \E new \in Market : OnPoll(new)
    \/ PassBegins \/ Judge \/ PassEnds
    \/ \E shares \in Shares : Fill(shares)
    \/ \E winning \in Token : Settle(winning)
    \/ ClockTicks \/ Restart

Spec == Init /\ [][Next]_vars

-----------------------------------------------------------------------------
Tick == [price : TickPrice, feed : Int, received : 0..MaxNow]
Quotes == UNION {[some -> Ask \cup {NoAsk}] : some \in SUBSET Quoted}
Position == [id : 1..MaxTrades, outcome : Token, shares : Shares, cost : Nat]
Order == [reason : {"accepted"}, token : Token, ask : Ask, edge : Int]

\* Type correctness: what the replay rebuilds has the type of what the bot has, a pass
\* orders accepted signals only, and at a price.
TypeOK ==
    /\ now \in 0..MaxNow
    /\ market \in Market \cup {Unknown}
    /\ tick \in Tick \cup {NoTick}
    /\ quotes \in Quotes
    /\ position \in Position \cup {NoPosition}
    /\ trades \in 0..MaxTrades
    /\ rows \subseteq Position /\ unsure \subseteq Position
    /\ pass \in [now : 0..MaxNow, window : Market \cup {Listed},
                 order : Order \cup {NoSignal}] \cup {Idle}
    /\ file \in [replay : [market : Market \cup {Unknown}, tick : Tick \cup {NoTick},
                           quotes : Quotes, positions : SUBSET Position,
                           mismatched : BOOLEAN, misjudged : BOOLEAN],
                 missed : SUBSET ({"market", "tick"} \cup Token),
                 misses : 0..MaxMissed]

\* docs/CLIENT_HANDOFF.md:24 wants a replay with zero mismatches. A recorded signal
\* is matched unless the replay has missed the newest event on the window, the tick
\* or the quote, the poll replaced the window during the pass, or the clock moved
\* during the pass past a time the decision turns on. A miss does no harm once the
\* next event of its input is there, and neither does a restart.
SignalsMatch ==
    [][file'.replay.mismatched /\ ~file.replay.mismatched =>
          \/ file.missed \cap {"market", "tick", Outcome(Judged, tick)} # {}
          \/ pass.window # Listed
          \/ Reason(market, tick, quotes[Outcome(market, tick)], now) # Signal.reason]_vars

\* Whatever events are missed, whichever process opened a position, and if it is settled
\* once more by a process that found its row open, a replayed settlement gives the
\* recorded result.
SettlementsMatch == ~file.replay.misjudged
=============================================================================
