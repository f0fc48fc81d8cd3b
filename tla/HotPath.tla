------------------------------- MODULE HotPath -------------------------------
(***************************************************************************)
(* One window on the hot path: the exchange's offers come over the market  *)
(* stream into the quotes, ticks come from the oracle, and a signal pass   *)
(* judges them. The Rust runtime's quotes are kept beside the Python ones, *)
(* both fed with the same messages.                                        *)
(*                                                                         *)
(* A pass of _evaluate_once reads the clock and lists the windows once and *)
(* judges this one when the orders and notifications of those before it    *)
(* are done.                                                               *)
(* signal_loop of main.rs judges a snapshot at once.                       *)
(***************************************************************************)
EXTENDS Signals

CONSTANTS
    PriceToBeat,        \* of the window
    TickPrice, Lag,     \* what the oracle may report, and how late
    NoTick,
    Idle,               \* no pass is under way
    NoSignal,
    MaxNow, MaxWire     \* bounds of the model

ASSUME HotPathAssumption ==
    /\ PriceToBeat \in Nat /\ TickPrice \subseteq Nat /\ Lag \subseteq Nat
    /\ MaxNow \in Nat /\ MaxWire \in Nat

VARIABLES
    now,        \* the wall clock
    open,       \* whether the window is active, not closed and accepting orders
    tick,       \* latest_ticks[asset]
    offer,      \* the best ask at the exchange
    live,       \* whether the market stream is connected and subscribed
    wire,       \* messages the exchange has sent and the stream has not read
    quotes,     \* orderbook.quotes
    quotesRust, \* the quotes of orderbook.rs
    pass,       \* the signal pass: its now_ms and the window in its list
    accepted    \* the age of the tick when the last pass accepted a signal (history)

market == <<offer, live, wire, quotes, quotesRust>>
vars == <<now, open, tick, market, pass, accepted>>

Window(isOpen) == [open |-> isOpen, price |-> PriceToBeat]
Tick == [price : TickPrice, feed : Int, received : 0..MaxNow]
Quote == Ask \cup {0, NoAsk}

TypeOK ==
    /\ now \in 0..MaxNow /\ open \in BOOLEAN
    /\ tick \in Tick \cup {NoTick}
    /\ offer \in [Token -> Ask \cup {NoAsk}] /\ live \in BOOLEAN
    /\ Len(wire) =< MaxWire + Cardinality(Token) /\ (~live => wire = <<>>)
    /\ quotes \in [Token -> Quote] /\ quotesRust \in [Token -> Quote]
    /\ pass \in [now : 0..now, open : BOOLEAN] \cup {Idle}
    /\ accepted \in 0..now \cup {NoSignal}

Init ==
    /\ now = 0 /\ open = TRUE /\ tick = NoTick
    /\ offer \in [Token -> Ask \cup {NoAsk}] /\ live = FALSE /\ wire = <<>>
    /\ quotes = [token \in Token |-> NoAsk] /\ quotesRust = quotes
    /\ pass = Idle /\ accepted = NoSignal

Book(token, ask) ==
    [type |-> "book", token |-> token,
     asks |-> IF ask = NoAsk THEN {} ELSE {level \in Ask : level >= ask}]

\* What the exchange may send of a new best ask. An empty side comes as a missing
\* price or as 0.
Messages(token, ask) ==
    {Book(token, ask)} \cup
        [type : {"price_change", "best_bid_ask"}, token : {token},
         ask : IF ask = NoAsk THEN {NoAsk, 0} ELSE {ask}]

OfferChanges(token, ask) ==
    /\ ask # offer[token] /\ Len(wire) < MaxWire
    /\ offer' = [offer EXCEPT ![token] = ask]
    /\ IF live THEN \E message \in Messages(token, ask) : wire' = Append(wire, message)
               ELSE wire' = wire
    /\ UNCHANGED <<now, open, tick, live, quotes, quotesRust, pass, accepted>>

\* A subscription is answered with the books. The quotes of the connection before
\* are kept.
Connect ==
    /\ ~live
    /\ live' = TRUE
    /\ wire' = <<Book("Up", offer["Up"]), Book("Down", offer["Down"])>>
    /\ UNCHANGED <<now, open, tick, offer, quotes, quotesRust, pass, accepted>>

\* bug: what the old connection had sent is still read
DisconnectKeeps ==
    /\ live
    /\ live' = FALSE
    /\ UNCHANGED <<now, open, tick, offer, wire, quotes, quotesRust, pass, accepted>>

Disconnect ==
    /\ live
    /\ live' = FALSE /\ wire' = <<>>
    /\ UNCHANGED <<now, open, tick, offer, quotes, quotesRust, pass, accepted>>

OnMarketMessage ==
    /\ wire # <<>>
    /\ quotes' = UpdateFromMessage(quotes, Head(wire))
    /\ quotesRust' = UpdateFromMessageRust(quotesRust, Head(wire))
    /\ wire' = Tail(wire)
    /\ UNCHANGED <<now, open, tick, offer, live, pass, accepted>>

OnTick(price, lag) ==
    /\ tick' = [price |-> price, feed |-> now - lag, received |-> now]
    /\ UNCHANGED <<now, open, market, pass, accepted>>

\* market_poll_loop replaces the window by what Gamma says of it. A pass goes on
\* with the one it has listed.
OnMarket ==
    /\ open' = ~open
    /\ UNCHANGED <<now, tick, market, pass, accepted>>

ClockTicks ==
    /\ now < MaxNow
    /\ now' = now + 1
    /\ UNCHANGED <<open, tick, market, pass, accepted>>

\* now_ms = int(time.time() * 1000), list(self.markets.values())
PassBegins ==
    /\ pass = Idle
    /\ pass' = [now |-> now, open |-> open]
    /\ accepted' = NoSignal
    /\ UNCHANGED <<now, open, tick, market>>

\* The pass comes to the window.
Judge ==
    /\ pass # Idle
    /\ pass' = Idle
    /\ LET window == Window(pass.open)
       IN  accepted' = IF /\ tick # NoTick
                          /\ Accepts(window, tick, quotes[Outcome(window, tick)], pass.now)
                       THEN now - tick.received ELSE NoSignal
    /\ UNCHANGED <<now, open, tick, market>>

Next ==
    \/ \E token \in Token, ask \in Ask \cup {NoAsk} : OfferChanges(token, ask)
    \/ Connect \/ Disconnect \/ OnMarketMessage
    \/ \E price \in TickPrice, lag \in Lag : OnTick(price, lag)
    \/ OnMarket \/ ClockTicks
    \/ PassBegins \/ Judge

Spec == Init /\ [][Next]_vars

-----------------------------------------------------------------------------
\* Whatever kinds of messages brought it, and whatever was lost with earlier
\* connections: once the stream has read what was sent, both runtimes quote every
\* offer as it is. (The quote of a token no longer offered may be an old one.)
QuotesCaughtUp ==
    (live /\ wire = <<>>) =>
        \A token \in Token :
            offer[token] # NoAsk => /\ quotes[token] = offer[token]
                                    /\ quotesRust[token] = offer[token]

\* The quotes of the two runtimes differ only while Rust takes a 0 for a price.
SameQuotes ==
    \A token \in Token : quotes[token] # quotesRust[token] => quotesRust[token] = 0

\* docs/RUST_HOT_PATH_PLAN.md:27 wants the same signal decisions. Python accepts
\* nothing that Rust does not, but for an old quote where Rust has a 0; Rust accepts
\* what Python does not only on a tick that is stale or late.
SameDecisions ==
    tick # NoTick =>
        LET window == Window(open)
            token == Outcome(window, tick)
            python == Accepts(window, tick, quotes[token], now)
            rust == AcceptsRust(window, tick, quotesRust[token], now)
        IN  /\ python /\ ~rust => quotesRust[token] = 0
            /\ rust /\ ~python => Stale(tick, now) \/ Lagging(tick)

\* README.md:98: "Risk controls include ... stale tick age": when a signal is accepted
\* its tick is at most max_tick_age_ms old.
AcceptedOnFreshTick ==
    accepted # NoSignal => accepted =< MaxTickAge
=============================================================================
