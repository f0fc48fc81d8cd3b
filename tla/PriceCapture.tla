---------------------------- MODULE PriceCapture ----------------------------
(***************************************************************************)
(* on_tick and market_poll_loop of bot.py over one asset: ticks arm known  *)
(* windows, polls discover windows and arm them from the ring. A poll's    *)
(* windows come from a clock read before it awaits Gamma, and ticks arrive *)
(* while it waits.                                                         *)
(***************************************************************************)
EXTENDS Prices

CONSTANT MaxNow     \* bound of the model, in feed timestamps

ASSUME PriceCaptureAssumption == MaxNow \in Nat

VARIABLES
    now,        \* the wall clock, in feed timestamps
    ordered,    \* whether the feed delivers ticks in the order of their timestamps
    recent,     \* recent_ticks[asset]
    latest,     \* latest_ticks[asset]
    price,      \* price_to_beat of the windows in markets
    asked       \* the windows a poll waits for, {} between polls

vars == <<now, ordered, recent, latest, price, asked>>

TypeOK ==
    /\ now \in 0..MaxNow
    /\ ordered \in BOOLEAN
    /\ recent \in Seq(0..MaxNow) /\ Len(recent) =< RingMax
    /\ latest \in 0..MaxNow \cup {NoTick}
    /\ price \in [Window -> Price \cup {Unknown, Unarmed}]
    /\ asked \subseteq Window

Forgotten == [w \in Window |-> Unknown]

Init ==
    /\ now = 0
    /\ ordered \in BOOLEAN
    /\ recent = <<>>
    /\ latest = NoTick
    /\ price = Forgotten
    /\ asked = {}

\* The ticks the feed may deliver: a stream of new ones or, after reconnections,
\* snapshots of older ones too.
Delivered == {t \in 0..now : ordered => latest = NoTick \/ t > latest}

OnTick(t) ==
    /\ latest' = t
    /\ recent' = Kept(Append(recent, t))
    /\ price' = ArmedBy(price, t)
    /\ UNCHANGED <<now, ordered, asked>>

\* market_poll_loop asks Gamma for the windows around now_ts...
Poll ==
    /\ asked = {}
    /\ asked' = Candidates(now \div Milli)
    /\ UNCHANGED <<now, ordered, recent, latest, price>>

\* Gamma gives a window its priceToBeat only once the window has begun.
Begun == {w \in Window : w * Milli =< now}

\* ... and merges those that exist and answered, some with a priceToBeat; when the
\* call raises none is.
Discovered(found, priced) ==
    /\ asked # {}
    /\ price' = Merged(price, recent, found, priced)
    /\ asked' = {}
    /\ UNCHANGED <<now, ordered, recent, latest>>

Pass ==
    /\ now < MaxNow
    /\ now' = now + 1
    /\ UNCHANGED <<ordered, recent, latest, price, asked>>

\* Neither ticks nor opening prices are loaded from the database.
Restart ==
    /\ recent' = <<>>
    /\ latest' = NoTick
    /\ price' = Forgotten
    /\ asked' = {}
    /\ UNCHANGED <<now, ordered>>

Next ==
    \/ \E t \in Delivered : OnTick(t)
    \/ Poll
    \/ \E found \in SUBSET asked : \E priced \in SUBSET (found \cap Begun) :
           Discovered(found, priced)
    \/ Pass
    \/ Restart

Spec == Init /\ [][Next]_vars

-----------------------------------------------------------------------------
\* Every poll replaces the window's object, and yet within a run an opening price,
\* once known, is neither lost nor changed, except that Gamma's replaces a tick's.
PriceNeverLost ==
    [][\A w \in Window :
           (Armed(price, w) /\ price' # Forgotten)
             => price'[w] \in {price[w], Official}]_vars

\* A window and its opening tick meet whichever comes first: no known window waits
\* for a price while the ring holds a tick of its opening.
OpeningNotMissed ==
    \A w \in Window :
        price[w] = Unarmed => \A t \in Range(recent) : ~InGrace(w, t)

\* With ticks in order the price is the same whether the window was known before
\* the tick or after: the first tick of the opening of those in the ring.
OpeningIsEarliest ==
    ordered =>
        \A w \in Window : price[w] \in Nat =>
            /\ InGrace(w, price[w])
            /\ \A t \in Range(recent) : InGrace(w, t) => price[w] =< t

\* How long a settlement waits does not change what it settles by: with ticks in
\* order the tick is the same from the first one after the end on, until the ring
\* drops it, and then a later one and never none.
SettlementTickStays ==
    [][\A w \in Window :
           LET before == SettlementTick(recent, latest, w)
               after == SettlementTick(recent', latest', w)
           IN  (ordered /\ before # NoTick /\ latest' # NoTick)
                 => /\ after # NoTick /\ after >= before
                    /\ before \in Range(recent') => after = before]_vars
=============================================================================
