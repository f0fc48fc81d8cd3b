------------------------------- MODULE Signals -------------------------------
(***************************************************************************)
(* The pure parts of the hot path, in Python (orderbook.py, signal.py) and *)
(* in Rust (orderbook.rs, signal.rs): how a message changes the best ask   *)
(* of a token, and when a signal is accepted.                              *)
(*                                                                         *)
(* The bot only buys, so a quote is its best ask. The bids are treated the *)
(* same way and nothing reads them. Asks and probabilities are in cents,   *)
(* oracle prices in basis points of some price, so that the distance of    *)
(* two is their difference.                                                *)
(***************************************************************************)
EXTENDS Integers, Sequences, FiniteSetsExt

CONSTANTS
    Ask,            \* the prices at which a token may be offered
    NoAsk,          \* best_ask is None, or there is no quote
    NoPrice,        \* price_to_beat is None
    StartTs, EndTs,
    MinElapsed,     \* min_elapsed_seconds
    ExpiryCutoff,   \* max_seconds_to_expiry
    MaxTickAge,     \* max_tick_age_ms
    MaxFeedLag,     \* max_tick_feed_lag_ms
    MinDistance,    \* min_signal_distance_bps
    Probability,    \* 0.5 + span * (1.0 - math.exp(-excess / scale)), up to its cap, for
                    \* an excess of 1, 2, ... basis points; it stays at the last
    MinEdge,        \* min_probability_edge
    MinEntryPrice, MaxEntryPrice

ASSUME SignalsAssumption ==
    /\ Ask \subseteq Nat \ {0} /\ IsFiniteSet(Ask) /\ NoAsk \notin Nat
    /\ NoPrice \notin Nat
    /\ {StartTs, EndTs, MinElapsed, ExpiryCutoff, MaxTickAge, MaxFeedLag,
        MinDistance, MinEdge, MinEntryPrice, MaxEntryPrice} \subseteq Nat
    /\ Probability \in Seq(0..100) /\ Probability # <<>>

Token == {"Up", "Down"}     \* one window's tokens, named by their outcome

-----------------------------------------------------------------------------
(***************************************************************************)
(* Messages                                                                *)
(***************************************************************************)

\* bug: the worst ask is taken
WorstAsk(levels) == IF levels = {} THEN NoAsk ELSE Max(levels)

\* _best_ask, best_level
BestAsk(levels) == IF levels = {} THEN NoAsk ELSE Min(levels)

\* _update_price_change: an ask of 0 is no more of a price than a missing one.
Changed(prior, ask) == IF ask \in {NoAsk, 0} THEN prior ELSE ask

\* bug: a missing ask clears the quote
ChangedClears(prior, ask) == ask

\* update_price_change of Rust: as_f64 of "0" is a price.
ChangedRust(prior, ask) == IF ask = NoAsk THEN prior ELSE ask

\* update_from_message
UpdateFromMessage(quotes, message) ==
    [quotes EXCEPT ![message.token] =
        CASE message.type = "book" -> BestAsk(message.asks)
          [] message.type = "price_change" -> Changed(@, message.ask)
          [] message.type = "best_bid_ask" -> message.ask]

UpdateFromMessageRust(quotes, message) ==
    [quotes EXCEPT ![message.token] =
        CASE message.type = "book" -> BestAsk(message.asks)
          [] message.type = "price_change" -> ChangedRust(@, message.ask)
          [] message.type = "best_bid_ask" -> message.ask]

-----------------------------------------------------------------------------
(***************************************************************************)
(* Signals                                                                 *)
(***************************************************************************)

\* A window is a record of open, whether it is active, not closed and accepting orders,
\* and price, its price to beat.

\* The winner so far, and how far the oracle is on its side of the price to beat
Outcome(window, tick) == IF tick.price >= window.price THEN "Up" ELSE "Down"
Distance(window, tick) == Max({tick.price - window.price, window.price - tick.price})

\* estimate_probability: a half up to the least distance of a signal
EstimateProbability(distance) ==
    LET excess == distance - MinDistance
    IN  IF excess =< 0 THEN 50 ELSE Probability[Min({excess, Len(Probability)})]

InTime(t) == StartTs + MinElapsed =< t /\ t =< EndTs - ExpiryCutoff

Stale(tick, t) == t - tick.received > MaxTickAge
Lagging(tick) == tick.received - tick.feed > MaxFeedLag

Edge(window, tick, ask) == EstimateProbability(Distance(window, tick)) - ask

\* evaluate of signal.rs: its tests of price band, distance and edge
Worth(window, tick, ask) ==
    /\ ask # NoAsk /\ ask >= MinEntryPrice /\ ask =< MaxEntryPrice
    /\ Distance(window, tick) >= MinDistance
    /\ Edge(window, tick, ask) >= MinEdge

\* The reason of the signal evaluate returns, "none" when it returns None: of
\* several the first.
Reason(window, tick, ask, t) ==
    IF window.price = NoPrice \/ ~window.open \/ ~InTime(t) \/ ask = NoAsk THEN "none"
    ELSE IF Stale(tick, t) THEN "oracle tick stale"
    ELSE IF Lagging(tick) THEN "oracle feed lag above limit"
    ELSE IF Distance(window, tick) < MinDistance THEN "distance below threshold"
    ELSE IF ask < MinEntryPrice \/ ask > MaxEntryPrice THEN "quote outside price band"
    ELSE IF Edge(window, tick, ask) < MinEdge THEN "edge below threshold"
    ELSE "accepted"

Accepts(window, tick, ask, t) == Reason(window, tick, ask, t) = "accepted"

\* bug: a window that takes no orders is not left out
AcceptsClosed(window, tick, ask, t) == InTime(t) /\ Worth(window, tick, ask)

\* evaluate of signal.rs
AcceptsRust(window, tick, ask, t) == window.open /\ InTime(t) /\ Worth(window, tick, ask)
=============================================================================
