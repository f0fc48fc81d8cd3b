------------------------------- MODULE Prices -------------------------------
(***************************************************************************)
(* How Chainlink ticks become the opening price of a market window, in     *)
(* bot.py and in the Rust state.rs: the ring of recent ticks, arming on a  *)
(* tick, backfilling from the ring, merging a discovered window with the   *)
(* one already known, and the tick a window is settled by.                 *)
(*                                                                         *)
(* The oracle reports one price per feed timestamp, so a tick and its      *)
(* price are named by the timestamp. One asset: the others share nothing.  *)
(***************************************************************************)
EXTENDS Integers, FiniteSetsExt, SequencesExt

CONSTANTS
    Window,         \* the windows, each named by its start_ts in seconds
    WindowLen,      \* end_ts - start_ts, in seconds
    Grace,          \* opening_capture_grace_seconds
    Milli,          \* feed timestamps to the second
    RingMax,        \* ticks kept for an asset
    RingCut,        \* ticks bot.py deletes when there are more
    Lookback, Lookahead,    \* windows asked for before and after the current one
    Unknown,        \* a window not in the markets dict
    Unarmed,        \* a window whose price_to_beat is None
    Official,       \* a price_to_beat given by Gamma
    NoTick

ASSUME PricesAssumption ==
    /\ Window \subseteq Nat /\ IsFiniteSet(Window)
    /\ WindowLen \in Nat \ {0} /\ Grace \in Nat /\ Milli \in Nat \ {0}
    /\ RingMax \in Nat \ {0} /\ RingCut \in 1..RingMax
    /\ Lookback \in Nat /\ Lookahead \in Nat
    /\ {Unknown, Unarmed, Official, NoTick} \cap Int = {}
    /\ Cardinality({Unknown, Unarmed, Official}) = 3

Price == Nat \cup {Official}
Armed(price, w) == price[w] \in Price
Known(price, w) == price[w] # Unknown

\* start_ms <= feed_ts_ms <= end_ms
InGrace(w, t) == w * Milli =< t /\ t =< (w + Grace) * Milli

\* state.rs compares whole seconds: feed_ts_ms / 1000
InGraceSeconds(w, t) == w =< t \div Milli /\ t \div Milli =< w + Grace

\* bug: the ring is trimmed one tick late
KeptOneMore(ticks) ==
    IF Len(ticks) > RingMax + 1 THEN SubSeq(ticks, RingCut + 1, Len(ticks)) ELSE ticks

\* del ticks[:1000] when there are more than 2000
Kept(ticks) ==
    IF Len(ticks) > RingMax THEN SubSeq(ticks, RingCut + 1, Len(ticks)) ELSE ticks

\* pop_front while there are more than 2000
KeptRust(ticks) ==
    SubSeq(ticks, IF Len(ticks) > RingMax THEN Len(ticks) - RingMax + 1 ELSE 1, Len(ticks))

\* bug: a later tick of the grace replaces the price
ArmedAgain(price, t) ==
    [w \in Window |->
        IF price[w] \in Nat \cup {Unarmed} /\ InGrace(w, t) THEN t ELSE price[w]]

\* on_tick: the windows without a price that the tick opens take its price
ArmedBy(price, t) ==
    [w \in Window |-> IF price[w] = Unarmed /\ InGrace(w, t) THEN t ELSE price[w]]

\* bug: the last second of the grace opens nothing
ArmedBeforeGrace(price, t) ==
    [w \in Window |->
        IF price[w] = Unarmed /\ w =< t \div Milli /\ t \div Milli < w + Grace THEN t ELSE price[w]]

\* apply_tick
ArmedByRust(price, t) ==
    [w \in Window |-> IF price[w] = Unarmed /\ InGraceSeconds(w, t) THEN t ELSE price[w]]

\* bug: the backfill takes the last tick of the grace
BackfilledLast(ticks, w) ==
    LET candidates == {t \in Range(ticks) : InGrace(w, t)}
    IN  IF candidates = {} THEN Unarmed ELSE Max(candidates)

\* _try_backfill_price_to_beat
Backfilled(ticks, w) ==
    LET candidates == {t \in Range(ticks) : InGrace(w, t)}
    IN  IF candidates = {} THEN Unarmed ELSE Min(candidates)

\* bug: a window found again waits for its next tick, without a look at the ring
MergedUnfilled(price, ticks, found, priced) ==
    [w \in Window |->
        IF w \in priced THEN Official
        ELSE IF w \in found /\ ~Armed(price, w) THEN Unarmed
        ELSE price[w]]

\* A discovered window replaces the known one: Gamma's price if it came with one,
\* else the price known before, else one from the ring.
Merged(price, ticks, found, priced) ==
    [w \in Window |->
        IF w \in priced THEN Official
        ELSE IF w \in found /\ ~Armed(price, w) THEN Backfilled(ticks, w)
        ELSE price[w]]

\* candidate_window_starts
Candidates(now) ==
    LET base == now - (now % WindowLen)
    IN  {w \in Window :
            \E i \in -Lookback..Lookahead : w = base + i * WindowLen}

\* bug: a window is settled by the newest tick
SettledByLatest(ticks, latest, w) ==
    IF latest # NoTick /\ latest >= (w + WindowLen) * Milli THEN latest ELSE NoTick

\* _settlement_tick_for
SettlementTick(ticks, latest, w) ==
    LET end == (w + WindowLen) * Milli
        candidates == {t \in Range(ticks) : t >= end}
    IN  IF candidates # {} THEN Min(candidates)
        ELSE IF latest # NoTick /\ latest >= end THEN latest
        ELSE NoTick
=============================================================================
