----------------------------- MODULE PriceParity -----------------------------
(***************************************************************************)
(* PriceCapture with the Rust runtime beside the Python one, both fed with *)
(* the same ticks and the same answers of Gamma at the same moments: where *)
(* they take the same opening prices, and so may see the same signals.     *)
(***************************************************************************)
EXTENDS PriceCapture

VARIABLES
    recentRust,     \* recent_ticks of state.rs
    priceRust       \* price_to_beat of its markets

rust == <<recentRust, priceRust>>

ParityInit == Init /\ recentRust = <<>> /\ priceRust = Forgotten

\* A tick opens windows by the second it falls in.
ApplyTick(t) ==
    /\ recentRust' = KeptRust(Append(recentRust, t))
    /\ priceRust' = ArmedByRust(priceRust, t)

\* upsert_market of each discovered window
UpsertMarkets(found, priced) ==
    /\ priceRust' = Merged(priceRust, recentRust, found, priced)
    /\ UNCHANGED recentRust

\* One lookup that fails fails the whole poll, and only its own window in Python.
DiscoveryFails == UNCHANGED rust

RestartRust == recentRust' = <<>> /\ priceRust' = Forgotten

ParityNext ==
    \/ \E t \in Delivered : OnTick(t) /\ ApplyTick(t)
    \/ \E found \in SUBSET asked : \E priced \in SUBSET (found \cap Begun) :
           Discovered(found, priced) /\ (UpsertMarkets(found, priced) \/ DiscoveryFails)
    \/ (Poll \/ Pass) /\ UNCHANGED rust
    \/ Restart /\ RestartRust

ParitySpec == ParityInit /\ [][ParityNext]_<<vars, rust>>

-----------------------------------------------------------------------------
\* docs/RUST_HOT_PATH_PLAN.md:27 wants the same signal decisions: with ticks in order
\* and before a ring overflows, a window that both know and Gamma has not priced has
\* the same opening price in both, though Rust misses whole polls. The exception is
\* a window that Rust arms by a tick in the second after the grace.
SamePrices ==
    (ordered /\ Len(recentRust) < RingMax) =>
        \A w \in Window :
            (Known(price, w) /\ Known(priceRust, w) /\ Official \notin {price[w], priceRust[w]})
                => \/ price[w] = priceRust[w]
                   \/ /\ price[w] = Unarmed
                      /\ priceRust[w] \div Milli = w + Grace /\ ~InGrace(w, priceRust[w])
=============================================================================
