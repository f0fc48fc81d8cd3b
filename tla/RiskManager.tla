----------------------------- MODULE RiskManager -----------------------------
(***************************************************************************)
(* RiskManager (risk.py), in whole dollars.  What a Kelly stake comes to   *)
(* before the caps is data of the signal; every cap and every reason to    *)
(* refuse is kept.                                                         *)
(***************************************************************************)
EXTENDS Dollars

CONSTANTS
    MaxDailyDrawdown,   \* |max_daily_drawdown_usd|
    MaxOpenExposure,    \* max_open_exposure_usd
    MaxPosition,        \* min(max_position_usd, bankroll_usd * max_position_fraction)
    MaxTradesPerHour,   \* max_trades_per_hour, 0 for no limit
    MinOrder,           \* min_order_usd
    MinShares           \* market.min_order_size

ASSUME RiskAssumption ==
    /\ MaxDailyDrawdown \in Nat
    /\ MaxOpenExposure \in Nat
    /\ MaxPosition \in Nat
    /\ MaxTradesPerHour \in Nat
    /\ MinOrder \in Nat \ {0}
    /\ MinShares \in Nat

\* drawdown_blocked
DrawdownBlocked(pnl) == pnl =< -MaxDailyDrawdown

\* bug: the limit is off by one
HourOverFull(trades) == MaxTradesPerHour > 0 /\ trades > MaxTradesPerHour

\* trades_opened_last_hour >= max_trades_per_hour
HourFull(trades) == MaxTradesPerHour > 0 /\ trades >= MaxTradesPerHour

\* bug: max_position_usd forgotten
SizedCostUncapped(kelly, exposure, pnl) ==
    Smaller(kelly, Smaller(MaxOpenExposure - Larger(0, exposure), MaxDailyDrawdown + pnl))

\* bug: the open exposure is not taken off
SizedCostAlone(kelly, exposure, pnl) ==
    Smaller(Smaller(kelly, MaxPosition), Smaller(MaxOpenExposure, MaxDailyDrawdown + pnl))

\* cost after every cap of size_for_signal
SizedCost(kelly, exposure, pnl) ==
    Smaller(Smaller(kelly, MaxPosition),
            Smaller(MaxOpenExposure - Larger(0, exposure), MaxDailyDrawdown + pnl))

\* size_for_signal accepts, with the shares that the cost buys at a price below a dollar
SizeAccepted(cost, shares, exposure, trades, pnl) ==
    /\ ~DrawdownBlocked(pnl)
    /\ ~HourFull(trades)
    /\ MaxOpenExposure - Larger(0, exposure) > 0
    /\ shares > cost
    /\ cost >= MinOrder
    /\ shares >= MinShares
=============================================================================
