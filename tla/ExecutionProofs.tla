--------------------------- MODULE ExecutionProofs ---------------------------
(***************************************************************************)
(* What a live fill is booked at, for every price, tick size and answer.   *)
(***************************************************************************)
EXTENDS Execution, TLAPS

\* Rounding up to a tick adds less than a tick.
LEMMA CeilBounds ==
    ASSUME NEW price \in Nat, NEW tick \in Nat \ {0}
    PROVE  /\ CeilToTick(price, tick) \in Nat
           /\ price =< CeilToTick(price, tick)
           /\ CeilToTick(price, tick) < price + tick
<1> DEFINE n == price + tick - 1
           q == n \div tick
<1>1. n \in Nat
  OBVIOUS
<1>2. q \in Nat /\ n = tick * q + (n % tick) /\ n % tick \in 0..(tick - 1)
  BY <1>1
<1>3. tick * q \in Nat
  BY <1>2
<1>4. tick * q =< n /\ n < tick * q + tick
  <2> DEFINE m == tick * q
             r == n % tick
  <2>1. m \in Nat /\ r \in 0..(tick - 1) /\ n = m + r
    BY <1>2, <1>3
  <2> HIDE DEF m, r, q, n
  <2> QED
    BY <2>1 DEF m
<1>5. CeilToTick(price, tick) = tick * q
  BY DEF CeilToTick
<1> HIDE DEF q
<1> QED
  BY <1>3, <1>4, <1>5

\* The limit of _round_buy_limit is never below an ask that may be bought at, and less
\* than a tick above it.
LEMMA LimitBounds ==
    ASSUME NEW price \in 1..MaxLimit, NEW tick \in Nat \ {0}
    PROVE  RoundBuyLimit(price, tick) \in price..(price + tick - 1)
<1>1. /\ CeilToTick(price, tick) \in Nat
      /\ price =< CeilToTick(price, tick)
      /\ CeilToTick(price, tick) < price + tick
  BY CeilBounds DEF MaxLimit
<1> QED
  BY <1>1 DEF RoundBuyLimit, MaxLimit

\* The shares of a fill are the first positive amount of the answer: never none.
LEMMA FilledSharesType ==
    ASSUME NEW answer \in Answer, NEW ordered \in Nat \ {0}
    PROVE  FilledShares(answer, ordered) \in Nat \ {0}
<1> DEFINE found == Positive(answer.amounts)
           first == CHOOSE i \in found : \A j \in found : i =< j
<1>1. CASE found = {}
  BY <1>1 DEF FilledShares
<1>2. CASE found # {}
  <2>1. found \subseteq 1..4
    BY DEF Positive
  <2> HIDE DEF found
  <2>2. \E i \in found : \A j \in found : i =< j
    <3>1. CASE 1 \in found
      BY <2>1, <3>1
    <3>2. CASE 1 \notin found /\ 2 \in found
      BY <2>1, <3>2
    <3>3. CASE 1 \notin found /\ 2 \notin found /\ 3 \in found
      BY <2>1, <3>3
    <3>4. CASE 1 \notin found /\ 2 \notin found /\ 3 \notin found
      <4>1. \A i \in found : i = 4
        BY <2>1, <3>4
      <4> QED
        BY <1>2, <4>1
    <3> QED
      BY <3>1, <3>2, <3>3, <3>4
  <2>3. first \in found
    BY <2>2
  <2> USE DEF found
  <2>4. answer.amounts[first] \in Nat \ {0}
    BY <2>3 DEF Positive
  <2> QED
    BY <1>2, <2>4 DEF FilledShares
<1> QED
  BY <1>1, <1>2

\* The product of the two bounds of the limit with any positive number of shares.
LEMMA LimitTimes ==
    ASSUME NEW limit \in Nat, NEW price \in Nat, NEW tick \in Nat,
           price =< limit, limit < price + tick, NEW n \in Nat \ {0}
    PROVE  price * n =< limit * n /\ limit * n < (price + tick) * n
<1> DEFINE over == limit - price
           under == price + tick - (limit + 1)
<1>1. over \in Nat /\ limit = price + over
  OBVIOUS
<1>2. under \in Nat /\ limit + 1 + under = price + tick
  OBVIOUS
<1> HIDE DEF over, under
<1>3. limit * n = price * n + over * n /\ over * n \in Nat /\ price * n \in Nat
  BY <1>1
<1>4. (price + tick) * n = limit * n + n + under * n /\ under * n \in Nat /\ limit * n \in Nat
  BY <1>2
<1> QED
  BY <1>3, <1>4

\* A matched order that spends its amount, price * ordered, within the limit is booked as
\* LiveMatched of Bot has it, whatever shares the answer reports or if it reports none:
\* at its amount or above, at a price which is not below the ask, less than a tick above
\* it and below a dollar.
THEOREM BookedAtLimit ==
    ASSUME NEW price \in 1..MaxLimit, NEW tick \in Nat \ {0}, NEW ordered \in Nat \ {0},
           NEW answer \in Answer,
           \/ Positive(answer.amounts) = {}
           \/ price * ordered =< RoundBuyLimit(price, tick) * FilledShares(answer, ordered)
    PROVE  LET amount == price * ordered
               shares == FilledShares(answer, ordered)
               booked == BookedCost(answer, price, tick, ordered)
           IN  /\ amount =< booked
               /\ shares * amount =< booked * ordered
               /\ booked * ordered < shares * (amount + tick * ordered)
               /\ booked < 1000 * shares
<1> DEFINE limit == RoundBuyLimit(price, tick)
           shares == FilledShares(answer, ordered)
           booked == BookedCost(answer, price, tick, ordered)
           n == shares * ordered
<1>1. limit \in Nat /\ price \in Nat /\ price =< limit /\ limit < price + tick
  <2>1. limit \in price..(price + tick - 1)
    BY LimitBounds
  <2> HIDE DEF limit
  <2> QED
    BY <2>1 DEF MaxLimit
<1>2. limit =< 990
  <2>1. price \in Nat
    BY DEF MaxLimit
  <2>2. CeilToTick(price, tick) \in Nat
    BY <2>1, CeilBounds
  <2> QED
    BY <2>2 DEF RoundBuyLimit, MaxLimit
<1>3. shares \in Nat \ {0}
  BY FilledSharesType
<1>4. booked = limit * shares
  BY DEF BookedCost
<1>5. price * ordered =< booked
  <2>1. CASE Positive(answer.amounts) = {}
    <3>1. shares = ordered
      BY <2>1 DEF FilledShares
    <3> HIDE DEF limit, shares, booked
    <3>2. price * ordered =< limit * ordered
      BY <1>1, LimitTimes
    <3> QED
      BY <1>4, <3>1, <3>2
  <2> QED
    BY <1>4, <2>1
<1> HIDE DEF limit, shares, booked
<1>6. n \in Nat \ {0}
  BY <1>3
<1>7. /\ shares * (price * ordered) = price * n
      /\ booked * ordered = limit * n
      /\ shares * (price * ordered + tick * ordered) = (price + tick) * n
  BY <1>1, <1>3, <1>4
<1>8. price * n =< limit * n /\ limit * n < (price + tick) * n
  <2> HIDE DEF n
  <2> QED
    BY <1>1, <1>6, LimitTimes
<1>9. booked < 1000 * shares
  <2>1. limit * shares < (0 + 1000) * shares
    BY <1>1, <1>2, <1>3, LimitTimes
  <2> QED
    BY <1>4, <2>1
<1> QED
  BY <1>5, <1>7, <1>8, <1>9 DEF shares, booked

\* A fill at an average price within the limit, however much better than the ask, is
\* booked at no less than what was paid: the exposure limit is one on money spent.
THEOREM BookedCoversPaid ==
    ASSUME NEW price \in 1..MaxLimit, NEW tick \in Nat \ {0}, NEW ordered \in Nat \ {0},
           NEW answer \in Answer, NEW average \in Nat,
           average =< RoundBuyLimit(price, tick)
    PROVE  average * FilledShares(answer, ordered)
             =< BookedCost(answer, price, tick, ordered)
<1> DEFINE limit == RoundBuyLimit(price, tick)
           shares == FilledShares(answer, ordered)
<1>1. limit \in Nat /\ shares \in Nat /\ average =< limit
  <2>1. limit \in price..(price + tick - 1)
    BY LimitBounds
  <2>2. limit \in Nat
    <3> HIDE DEF limit
    <3> QED
      BY <2>1
  <2>3. shares \in Nat
    BY FilledSharesType
  <2> QED
    BY <2>2, <2>3
<1>2. BookedCost(answer, price, tick, ordered) = limit * shares
  BY DEF BookedCost
<1> HIDE DEF limit, shares
<1>3. average * shares =< limit * shares
  BY <1>1
<1> QED
  BY <1>2, <1>3 DEF shares
=============================================================================
