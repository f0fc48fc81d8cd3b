------------------------------ MODULE Execution ------------------------------
(***************************************************************************)
(* The arithmetic of a live order (execution.py): the limit price it is    *)
(* posted at, what counts as a fill in the exchange's answer, and the cost *)
(* at which bot.py books it.                                               *)
(*                                                                         *)
(* Prices and tick sizes are in thousandths of a dollar, amounts in the    *)
(* unit in which shares times price comes out whole.                       *)
(***************************************************************************)
EXTENDS Integers

MaxLimit == 990

\* The least multiple of the tick size that is not below the price
CeilToTick(price, tick) == tick * ((price + tick - 1) \div tick)

\* _round_buy_limit
RoundBuyLimit(price, tick) ==
    IF CeilToTick(price, tick) > MaxLimit THEN MaxLimit ELSE CeilToTick(price, tick)

\* What post_order may return: a refusal, a status ("" when there is none), and the
\* shares under the four names that are looked up, "" when missing or no number.
Amount == Nat \cup {""}
Answer == [refused : BOOLEAN, status : {"", "matched", "live", "delayed", "unmatched"},
           amounts : [1..4 -> Amount]]

\* _is_immediate_fill
ImmediateFill(answer) == ~answer.refused /\ answer.status = "matched"

\* The amounts that are numbers and positive
Positive(amounts) == {i \in 1..4 : amounts[i] \in Nat \ {0}}

\* _extract_filled_shares: the first of them, or the shares ordered
FilledShares(answer, ordered) ==
    LET found == Positive(answer.amounts)
    IN  IF found = {} THEN ordered
        ELSE answer.amounts[CHOOSE i \in found : \A j \in found : i =< j]

\* cost_usd = result.fill_price * result.shares
BookedCost(answer, price, tick, ordered) ==
    RoundBuyLimit(price, tick) * FilledShares(answer, ordered)
=============================================================================
