-------------------------------- MODULE MCBot --------------------------------
(***************************************************************************)
(* Bot for TLC: the symmetry of its assets, what the counted sums and the  *)
(* stated table come to on small sets, and three sentences of the repo-    *)
(* sitory that the code does not keep.                                     *)
(***************************************************************************)
EXTENDS Bot, SequencesExt

\* The assets are interchangeable.
Symmetry == Permutations(Asset)

\* The counted sum of Dollars is the sum.
ASSUME TotalIsSum == \A f \in [1..3 -> 0..3] : Total(f) = FoldFunction(+, 0, f)

\* CeilToTick of Execution is the least multiple of the tick size at or above the price.
Exec == INSTANCE Execution
ASSUME CeilIsLeast ==
    \A price \in 0..30, tick \in 1..10 :
        Exec!CeilToTick(price, tick) = Min({m \in price..price + tick : m % tick = 0})

\* RowsAfter is the table that running the writes one by one makes.
ASSUME RowsAfterIsReplay ==
    LET trades == [id : 1..2, key : {1}, paid : {1}, cost : {1}, shares : {2}, opened : {0}]
        rows == {OpenRow(t) : t \in trades} \cup {ClosedRow(OpenRow(t), t.id, 1, 1) : t \in trades}
        writes == [op : {"open"}, trade : trades] \cup [op : {"close"}, id : 1..2, at : 2..3, pnl : {1}]
    IN  \A some \in SUBSET rows, q \in BoundedSeq(writes, 3) :
            RowsAfter(some, q, Len(q)) = FoldLeft(Apply, some, q)

\* bot.py:470 says "risk day rolled; reloaded realized pnl": the result held in
\* memory is that of the closes of the day.
ResultIsReloaded ==
    lost = 0 => realized = RealizedPnlSince(Replay, day * DayLen)

\* README.md: "Risk controls include ... max open exposure": what the exchange has
\* filled in windows that are still running.
StakeAtExchange ==
    Total([f \in {g \in fills : now < EndOf(g.key)} |-> f.paid])

ExchangeExposureCap == StakeAtExchange =< MaxOpenExposure
=============================================================================
