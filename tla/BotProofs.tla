------------------------------ MODULE BotProofs ------------------------------
(***************************************************************************)
(* Theorems about Bot, for every set of assets and windows, every limit    *)
(* and every size of the bounds.                                           *)
(***************************************************************************)
EXTENDS Bot, FiniteSetTheorems, FunctionTheorems, TLAPS

Book == [Key -> Trade \cup {NoTrade}]
Write == OpenWrite \cup CloseWrite

-----------------------------------------------------------------------------
(***************************************************************************)
(* What the counted sum of Dollars is worth: a natural number, zero for a  *)
(* function that is zero, and changed by as much as one summand changes    *)
(***************************************************************************)

\* The dollars of one summand are as many as it says.
LEMMA DollarsOfOne ==
    ASSUME NEW S, NEW f \in [S -> Nat], NEW k \in S
    PROVE  /\ IsFiniteSet(DollarsOf(f, k))
           /\ Cardinality(DollarsOf(f, k)) = f[k]
<1>1. f[k] \in Nat
  OBVIOUS
<1>2. IsFiniteSet(1..f[k]) /\ Cardinality(1..f[k]) = f[k]
  <2>1. IsFiniteSet(1..f[k]) /\ Cardinality(1..f[k]) = IF 1 > f[k] THEN 0 ELSE f[k] - 1 + 1
    BY <1>1, FS_Interval
  <2> QED
    BY <1>1, <2>1
<1>3. IsFiniteSet({k}) /\ Cardinality({k}) = 1
  BY FS_Singleton
<1>4. IsFiniteSet({k} \X (1..f[k])) /\ Cardinality({k} \X (1..f[k])) = 1 * f[k]
  BY <1>2, <1>3, FS_Product
<1> QED
  BY <1>1, <1>4 DEF DollarsOf

\* The dollars of finitely many summands are finitely many.
LEMMA DollarsFinite ==
    ASSUME NEW S, IsFiniteSet(S), NEW f \in [S -> Nat], NEW R \in SUBSET S
    PROVE  IsFiniteSet(UNION {DollarsOf(f, x) : x \in R})
<1> DEFINE Family == {DollarsOf(f, x) : x \in R}
           each == [x \in R |-> DollarsOf(f, x)]
<1>1. IsFiniteSet(R)
  BY FS_Subset
<1>2. each \in Surjection(R, Family)
  BY DEF Surjection
<1>3. IsFiniteSet(Family)
  BY <1>1, <1>2, FS_Surjection
<1>4. \A D \in Family : IsFiniteSet(D)
  BY DollarsOfOne
<1> QED
  BY <1>3, <1>4, FS_UNION

\* A sum of naturals is a natural.
LEMMA TotalIsNat ==
    ASSUME NEW S, IsFiniteSet(S), NEW f \in [S -> Nat]
    PROVE  Total(f) \in Nat
<1>1. DOMAIN f = S
  OBVIOUS
<1>2. IsFiniteSet(UNION {DollarsOf(f, x) : x \in S})
  BY DollarsFinite
<1> QED
  BY <1>1, <1>2, FS_CardinalityType DEF Total

\* A sum of zeros is zero.
LEMMA TotalOfZeros ==
    ASSUME NEW S, NEW f \in [S -> Nat], \A x \in S : f[x] = 0
    PROVE  Total(f) = 0
<1>1. DOMAIN f = S
  OBVIOUS
<1>2. \A x \in S : DollarsOf(f, x) = {}
  <2> TAKE x \in S
  <2>1. 1..f[x] = {}
    OBVIOUS
  <2> QED
    BY <2>1 DEF DollarsOf
<1>3. UNION {DollarsOf(f, x) : x \in DOMAIN f} = {}
  BY <1>1, <1>2
<1> QED
  BY <1>3, FS_EmptySet DEF Total

\* The sum is one summand and the dollars of the others.
LEMMA TotalSplit ==
    ASSUME NEW S, IsFiniteSet(S), NEW f \in [S -> Nat], NEW k \in S
    PROVE  /\ Cardinality(UNION {DollarsOf(f, x) : x \in S \ {k}}) \in Nat
           /\ Total(f) = Cardinality(UNION {DollarsOf(f, x) : x \in S \ {k}}) + f[k]
<1> DEFINE Rest == UNION {DollarsOf(f, x) : x \in S \ {k}}
           One == DollarsOf(f, k)
<1>1. IsFiniteSet(Rest) /\ Cardinality(Rest) \in Nat
  BY DollarsFinite, FS_CardinalityType
<1>2. IsFiniteSet(One) /\ Cardinality(One) = f[k]
  BY DollarsOfOne
<1>3. Rest \cap One = {}
  BY DEF DollarsOf
<1>4. UNION {DollarsOf(f, x) : x \in DOMAIN f} = Rest \cup One
  <2>1. DOMAIN f = (S \ {k}) \cup {k}
    OBVIOUS
  <2> QED
    BY <2>1
<1>5. Cardinality(Rest \cup One) = Cardinality(Rest) + Cardinality(One) - Cardinality(Rest \cap One)
  BY <1>1, <1>2, FS_Union
<1>6. Cardinality(Rest \cap One) = 0
  BY <1>3, FS_EmptySet
<1>7. f[k] \in Nat
  OBVIOUS
<1>8. Total(f) = Cardinality(Rest \cup One)
  BY <1>4 DEF Total
<1> QED
  BY <1>1, <1>2, <1>5, <1>6, <1>7, <1>8

\* A change of one summand changes the sum by as much.
LEMMA TotalChange ==
    ASSUME NEW S, IsFiniteSet(S), NEW f \in [S -> Nat], NEW g \in [S -> Nat],
           NEW k \in S, \A x \in S \ {k} : g[x] = f[x]
    PROVE  Total(g) = Total(f) - f[k] + g[k]
<1>1. \A x \in S \ {k} : DollarsOf(g, x) = DollarsOf(f, x)
  BY DEF DollarsOf
<1>2. UNION {DollarsOf(g, x) : x \in S \ {k}} = UNION {DollarsOf(f, x) : x \in S \ {k}}
  BY <1>1
<1> DEFINE rest == Cardinality(UNION {DollarsOf(f, x) : x \in S \ {k}})
<1>3. rest \in Nat /\ Total(f) = rest + f[k]
  BY TotalSplit
<1>4. Total(g) = rest + g[k]
  BY TotalSplit, <1>2
<1>5. f[k] \in Nat /\ g[k] \in Nat
  OBVIOUS
<1> HIDE DEF rest
<1> QED
  BY <1>3, <1>4, <1>5

-----------------------------------------------------------------------------
(***************************************************************************)
(* Sums of stakes                                                          *)
(***************************************************************************)

\* There are finitely many windows.
LEMMA KeyFinite == IsFiniteSet(Key)
  BY BotAssumption, FS_Product DEF Key

\* A stake is a natural number.
LEMMA StakeType == ASSUME NEW book \in Book PROVE Stake(book) \in [Key -> Nat]
  BY RiskAssumption, BotAssumption DEF Book, Stake, Trade

\* The stakes of a book add up to a natural number.
LEMMA StakesNat == ASSUME NEW book \in Book PROVE Total(Stake(book)) \in Nat
  BY KeyFinite, StakeType, TotalIsNat

\* What was paid is a natural number, in all no more than the stakes.
LEMMA PaidNat ==
    ASSUME NEW book \in Book
    PROVE  /\ Paid(book) \in [Key -> Nat] /\ Total(Paid(book)) \in Nat
           /\ Total(Paid(book)) =< Total(Stake(book))
<1>1. \A k \in Key : Paid(book)[k] \in Nat /\ Stake(book)[k] \in Nat
                       /\ Paid(book)[k] =< Stake(book)[k]
  BY RiskAssumption DEF Book, Paid, Stake, Trade
<1>2. Paid(book) \in [Key -> Nat] /\ Stake(book) \in [Key -> Nat]
  BY <1>1 DEF Paid, Stake
<1> DEFINE P == Paid(book)
           S == Stake(book)
<1>3. Total(P) \in Nat
  BY <1>2, KeyFinite, TotalIsNat
<1>4. \A k \in Key : DollarsOf(P, k) \subseteq DollarsOf(S, k)
  <2> HIDE DEF P, S
  <2> SUFFICES ASSUME NEW k \in Key PROVE DollarsOf(P, k) \subseteq DollarsOf(S, k)
    OBVIOUS
  <2>1. P[k] \in Nat /\ S[k] \in Nat /\ P[k] =< S[k]
    BY <1>1 DEF P, S
  <2>2. 1..P[k] \subseteq 1..S[k]
    BY <2>1
  <2> QED
    BY <2>2 DEF DollarsOf
<1>5. UNION {DollarsOf(P, x) : x \in Key} \subseteq UNION {DollarsOf(S, x) : x \in Key}
  BY <1>4
<1>6. IsFiniteSet(UNION {DollarsOf(S, x) : x \in Key})
  BY <1>2, KeyFinite, DollarsFinite
<1>7. DOMAIN P = Key /\ DOMAIN S = Key
  BY DEF Paid, Stake
<1>8. Total(P) =< Total(S)
  <2> HIDE DEF P, S
  <2> QED
    BY <1>5, <1>6, <1>7, FS_Subset DEF Total
<1> QED
  BY <1>2, <1>3, <1>8

\* Opening a position adds what was paid for it.
LEMMA PaidOpen ==
    ASSUME NEW book \in Book, NEW k \in Key, book[k] = NoTrade, NEW t \in Trade
    PROVE  Total(Paid([book EXCEPT ![k] = t])) = Total(Paid(book)) + t.paid
<1> DEFINE after == [book EXCEPT ![k] = t]
<1>1. after \in Book
  BY DEF Book
<1>2. Paid(book) \in [Key -> Nat] /\ Paid(after) \in [Key -> Nat]
  BY <1>1, PaidNat
<1>3. \A x \in Key \ {k} : Paid(after)[x] = Paid(book)[x]
  BY DEF Paid, Book
<1>4. Paid(book)[k] = 0 /\ Paid(after)[k] = t.paid
  BY NoTradeAssumption DEF Paid, Book
<1>5. Total(Paid(after)) = Total(Paid(book)) - Paid(book)[k] + Paid(after)[k]
  BY <1>2, <1>3, KeyFinite, TotalChange, ZenonT(60)
<1>6. Total(Paid(book)) \in Nat
  BY PaidNat
<1> QED
  BY <1>4, <1>5, <1>6

\* Closing a position takes away what was paid for it.
LEMMA PaidClose ==
    ASSUME NEW book \in Book, NEW k \in Key
    PROVE  Total(Paid([book EXCEPT ![k] = NoTrade])) =< Total(Paid(book))
<1> DEFINE after == [book EXCEPT ![k] = NoTrade]
<1>1. after \in Book
  BY DEF Book
<1>2. Paid(book) \in [Key -> Nat] /\ Paid(after) \in [Key -> Nat]
  BY <1>1, PaidNat
<1>3. \A x \in Key \ {k} : Paid(after)[x] = Paid(book)[x]
  BY DEF Paid, Book
<1>4. Paid(book)[k] \in Nat /\ Paid(after)[k] = 0
  BY <1>2 DEF Paid, Book
<1>5. Total(Paid(after)) = Total(Paid(book)) - Paid(book)[k] + Paid(after)[k]
  BY <1>2, <1>3, KeyFinite, TotalChange, ZenonT(60)
<1>6. Total(Paid(book)) \in Nat
  BY PaidNat
<1> QED
  BY <1>4, <1>5, <1>6

\* A book that is empty has no stakes.
LEMMA StakesOfEmpty == Empty \in Book /\ Total(Stake(Empty)) = 0
<1>1. Empty \in Book
  BY DEF Empty, Book
<1>2. \A k \in Key : Stake(Empty)[k] = 0
  BY DEF Stake, Empty
<1> QED
  BY <1>1, <1>2, StakeType, TotalOfZeros

\* Opening a position adds its cost.
LEMMA StakesOpen ==
    ASSUME NEW book \in Book, NEW k \in Key, book[k] = NoTrade, NEW t \in Trade
    PROVE  /\ [book EXCEPT ![k] = t] \in Book
           /\ Total(Stake([book EXCEPT ![k] = t])) = Total(Stake(book)) + t.cost
<1> DEFINE after == [book EXCEPT ![k] = t]
<1>1. after \in Book
  BY DEF Book
<1>2. Stake(book) \in [Key -> Nat] /\ Stake(after) \in [Key -> Nat]
  BY <1>1, StakeType
<1>3. \A x \in Key \ {k} : Stake(after)[x] = Stake(book)[x]
  BY DEF Stake, Book
<1>4. Stake(book)[k] = 0 /\ Stake(after)[k] = t.cost
  BY NoTradeAssumption DEF Stake, Book
<1>5. Total(Stake(after)) = Total(Stake(book)) - Stake(book)[k] + Stake(after)[k]
  BY <1>2, <1>3, KeyFinite, TotalChange, ZenonT(60)
<1>6. Total(Stake(book)) \in Nat
  BY StakesNat
<1> QED
  BY <1>1, <1>4, <1>5, <1>6

\* Closing a position takes its cost away.
LEMMA StakesClose ==
    ASSUME NEW book \in Book, NEW k \in Key, book[k] # NoTrade
    PROVE  /\ [book EXCEPT ![k] = NoTrade] \in Book
           /\ Total(Stake([book EXCEPT ![k] = NoTrade])) = Total(Stake(book)) - book[k].cost
<1> DEFINE after == [book EXCEPT ![k] = NoTrade]
<1>1. after \in Book
  BY DEF Book
<1>2. Stake(book) \in [Key -> Nat] /\ Stake(after) \in [Key -> Nat]
  BY <1>1, StakeType
<1>3. \A x \in Key \ {k} : Stake(after)[x] = Stake(book)[x]
  BY DEF Stake, Book
<1>4. Stake(book)[k] = book[k].cost /\ Stake(after)[k] = 0
  BY DEF Stake, Book
<1>5. Total(Stake(after)) = Total(Stake(book)) - Stake(book)[k] + Stake(after)[k]
  BY <1>2, <1>3, KeyFinite, TotalChange, ZenonT(60)
<1>6. Total(Stake(book)) \in Nat /\ book[k].cost \in Nat
  BY StakesNat, <1>2, <1>4
<1> QED
  BY <1>1, <1>4, <1>5, <1>6

-----------------------------------------------------------------------------
(***************************************************************************)
(* The trades table                                                        *)
(***************************************************************************)

\* The result of a day is a number.
LEMMA RealizedInt ==
    ASSUME NEW rows \in SUBSET Row, IsFiniteSet(rows), NEW from
    PROVE  RealizedPnlSince(rows, from) \in Int
<1> DEFINE closed == {row \in rows : row.status = "closed" /\ row.at >= from}
           won == [row \in closed |-> Larger(row.pnl, 0)]
           paid == [row \in closed |-> Larger(-row.pnl, 0)]
<1>1. IsFiniteSet(closed)
  BY FS_Subset
<1>2. \A row \in closed : row.pnl \in Int
  BY DEF Row
<1>3. won \in [closed -> Nat] /\ paid \in [closed -> Nat]
  BY <1>2 DEF Larger
<1>4. Total(won) \in Nat /\ Total(paid) \in Nat
  BY <1>1, <1>3, TotalIsNat
<1> QED
  BY <1>4 DEF RealizedPnlSince

\* A queued write leaves a finite table of rows.
LEMMA ApplyType ==
    ASSUME NEW rows \in SUBSET Row, IsFiniteSet(rows), NEW write \in Write
    PROVE  Apply(rows, write) \in SUBSET Row /\ IsFiniteSet(Apply(rows, write))
<1>1. CASE write \in OpenWrite
  <2>1. write.op = "open" /\ write.trade \in Trade
    BY <1>1 DEF OpenWrite
  <2>2. OpenRow(write.trade) \in Row
    BY <2>1 DEF OpenRow, Row
  <2>3. IsFiniteSet(rows \cup {OpenRow(write.trade)})
    BY FS_AddElement
  <2> QED
    BY <2>1, <2>2, <2>3 DEF Apply
<1>2. CASE write \in CloseWrite
  <2> DEFINE close == [row \in rows |-> ClosedRow(row, write.id, write.at, write.pnl)]
             image == {ClosedRow(row, write.id, write.at, write.pnl) : row \in rows}
  <2>1. write.op = "close" /\ write.at \in Nat /\ write.pnl \in Int
    BY <1>2 DEF CloseWrite
  <2>2. \A row \in rows : ClosedRow(row, write.id, write.at, write.pnl) \in Row
    BY <2>1 DEF ClosedRow, Row
  <2>3. close \in Surjection(rows, image)
    BY DEF Surjection
  <2>4. IsFiniteSet(image)
    BY <2>3, FS_Surjection
  <2> QED
    BY <2>1, <2>2, <2>4 DEF Apply
<1> QED
  BY <1>1, <1>2 DEF Write

-----------------------------------------------------------------------------
(***************************************************************************)
(* Type correctness                                                        *)
(***************************************************************************)

\* What the awaits leave behind: an order or a position is in flight exactly while
\* its loop waits for it, and the writer's thread has a write to run.
Coherent ==
    /\ writer = "writing" => queue # <<>>
    /\ sig.pc = "submit" <=> sig.order # NoTrade
    /\ stl.pc = "fetch" => stl.at \in Key /\ stl.todo[stl.at] # NoTrade

USE DEF Write

\* A write put on the queue, or refused, leaves a queue of writes.
LEMMA SubmitType ==
    ASSUME queue \in Seq(Write), lost \in Nat, NEW write \in Write, Submit(write)
    PROVE  /\ queue' \in Seq(Write) /\ lost' \in Nat
           /\ queue # <<>> => queue' # <<>>
<1>1. CASE queue' = Append(queue, write) /\ lost' = lost
  <2> DEFINE W == Write
  <2> HIDE DEF W
  <2>1. queue \in Seq(W) /\ write \in W
    BY DEF W
  <2>2. Append(queue, write) \in Seq(W) /\ Append(queue, write) # <<>>
    BY <2>1
  <2> QED
    BY <1>1, <2>2 DEF W
<1>2. CASE lost' = lost + 1 /\ queue' = queue
  BY <1>2
<1> QED
  BY <1>1, <1>2 DEF Submit

\* The orders that the risk manager lets through are trades within the caps.
LEMMA OrdersType ==
    ASSUME TypeOK, NEW k \in Key, NEW order \in Orders(k)
    PROVE  /\ order \in Trade /\ order.key = k
           /\ positions[k] = NoTrade
           /\ Exposure + order.cost =< MaxOpenExposure
           /\ ~DrawdownBlocked(realized)
<1>1. positions[k] = NoTrade /\ order \in SizedOrders(k)
  BY DEF Orders
<1>2. PICK kelly \in KellyCosts, odds \in Odds :
        /\ order = [id |-> Cardinality(fills) + 1, key |-> k, opened |-> sig.now,
                    paid |-> SizedCost(kelly, Exposure, realized),
                    cost |-> SizedCost(kelly, Exposure, realized),
                    shares |-> odds * SizedCost(kelly, Exposure, realized)]
        /\ SizeAccepted(order.cost, order.shares, Exposure,
                        TradesOpenedSince(db, sig.now - HourLen), realized)
  BY <1>1 DEF SizedOrders
<1> DEFINE cost == SizedCost(kelly, Exposure, realized)
<1>3. Exposure \in Nat
  BY StakesNat DEF TypeOK, Book, Exposure
<1>4. kelly \in Nat /\ odds \in Nat /\ realized \in Int /\ sig.now \in Nat
  BY BotAssumption DEF TypeOK
<1>5. /\ cost \in Int /\ cost =< MaxPosition
      /\ cost =< MaxOpenExposure - Exposure
  BY <1>3, <1>4, RiskAssumption DEF SizedCost, Smaller, Larger
<1>6. cost >= MinOrder /\ ~DrawdownBlocked(realized)
  BY <1>2 DEF SizeAccepted
<1>7. cost \in 0..MaxPosition /\ cost \in Nat
  BY <1>5, <1>6, RiskAssumption
<1>8. Cardinality(fills) \in Nat
  BY FS_CardinalityType DEF TypeOK
<1>9. odds * cost \in Nat
  BY <1>4, <1>7
<1>10. order = [id |-> Cardinality(fills) + 1, key |-> k, opened |-> sig.now,
                paid |-> cost, cost |-> cost, shares |-> odds * cost]
  BY <1>2
<1>11. order \in Trade
  <2> HIDE DEF cost
  <2> QED
    BY <1>4, <1>7, <1>8, <1>9, <1>10 DEF Trade
<1>12. Exposure + cost =< MaxOpenExposure
  <2> HIDE DEF cost
  <2> QED
    BY <1>3, <1>5, RiskAssumption
<1> QED
  BY <1>1, <1>5, <1>6, <1>10, <1>11, <1>12

\* The risk day's reload leaves numbers.
LEMMA RefreshType ==
    ASSUME TypeOK, RefreshRiskDay
    PROVE  day' \in Nat /\ realized' \in Int /\ base' \in Int /\ excess' \in Nat
<1>1. day' \in Nat
  BY BotAssumption, SMTT(30) DEF TypeOK, RefreshRiskDay, RiskDay
<1>2. RealizedPnlSince(db, day' * DayLen) \in Int
  BY RealizedInt DEF TypeOK
<1>3. Exposure \in Nat
  BY StakesNat DEF TypeOK, Book, Exposure
<1>4. Pending \in Int
  BY BotAssumption DEF TypeOK, Pending, Trade
<1>5. realized' \in Int
  BY <1>2 DEF TypeOK, RefreshRiskDay
<1> QED
  BY <1>1, <1>3, <1>4, <1>5 DEF TypeOK, RefreshRiskDay

\* What opening a position does to the typed state.
LEMMA OpenType ==
    ASSUME TypeOK, Coherent, NEW k \in Key, NEW trade \in Trade, OpenPosition(k, trade)
    PROVE  /\ positions' \in [Key -> Trade \cup {NoTrade}]
           /\ queue' \in Seq(Write) /\ lost' \in Nat
           /\ fills' \subseteq Trade /\ IsFiniteSet(fills')
           /\ sig' \in [pc : {"scan", "notify"}, todo : SUBSET Key, now : Nat,
                        order : {NoTrade}]
           /\ queue # <<>> => queue' # <<>>
<1>1. [op |-> "open", trade |-> trade] \in Write
  BY DEF OpenWrite
<1>2. /\ queue' \in Seq(Write) /\ lost' \in Nat
      /\ queue # <<>> => queue' # <<>>
  BY <1>1, SubmitType DEF OpenPosition, TypeOK
<1>3. IsFiniteSet(fills')
  BY FS_AddElement DEF TypeOK, OpenPosition
<1> QED
  BY <1>2, <1>3 DEF TypeOK, OpenPosition

\* What settling a position does to the typed state.
LEMMA SettleType ==
    ASSUME TypeOK, Coherent, NEW k \in Key, stl.todo[k] # NoTrade, NEW won \in BOOLEAN,
           Settle(k, won)
    PROVE  /\ positions' \in [Key -> Trade \cup {NoTrade}]
           /\ realized' \in Int
           /\ queue' \in Seq(Write) /\ lost' \in Nat
           /\ stl' \in [pc : {"scan", "notify"}, todo : [Key -> Trade \cup {NoTrade}],
                        now : Nat, at : {NoTrade}]
           /\ queue # <<>> => queue' # <<>>
<1> DEFINE position == stl.todo[k]
           pnl == SettlementPnl(position, won)
           write == [op |-> "close", id |-> position.id, at |-> now, pnl |-> pnl]
<1>1. position \in Trade
  BY DEF TypeOK
<1>2. pnl \in Int
  BY <1>1, RiskAssumption, BotAssumption DEF Trade, SettlementPnl
<1>3. write \in Write
  BY <1>1, <1>2 DEF CloseWrite, Trade, TypeOK
<1>4. Submit(write)
  BY DEF Settle
<1>5. /\ queue' \in Seq(Write) /\ lost' \in Nat
      /\ queue # <<>> => queue' # <<>>
  BY <1>3, <1>4, SubmitType DEF TypeOK
<1>6. realized' = realized + pnl
  BY DEF Settle
<1>7. realized' \in Int
  <2> HIDE DEF pnl
  <2> QED
    BY <1>2, <1>6 DEF TypeOK
<1> QED
  BY <1>5, <1>7 DEF TypeOK, Settle

\* A trade booked at another cost and other shares is a trade.
LEMMA BookedTrade ==
    ASSUME NEW order, order \in Trade, NEW cost, cost \in Nat, NEW shares, shares \in Nat,
           order.paid =< cost,
           NEW fill, fill = [order EXCEPT !.cost = cost, !.shares = shares]
    PROVE  /\ fill \in Trade
           /\ fill.key = order.key /\ fill.id = order.id /\ fill.opened = order.opened
           /\ fill.paid = order.paid /\ fill.cost = cost
  BY DEF Trade

\* The fill of an order in flight is a trade of its window and its number, booked at
\* what was paid for the order or above.
LEMMA FillOfOrder ==
    ASSUME TypeOK, Coherent, LiveMatched
    PROVE  \E fill \in Trade, over \in Nat :
              /\ fill.key = sig.order.key /\ fill.id = sig.order.id
              /\ fill.opened = sig.order.opened
              /\ fill.paid = sig.order.paid /\ fill.cost = sig.order.cost + over
              /\ OpenPosition(sig.order.key, fill) /\ excess' = excess + over
<1>1. sig.order \in Trade /\ sig.order.cost \in Nat
  BY DEF LiveMatched, Coherent, TypeOK, Trade
<1>2. PICK over \in Overrun :
        /\ \E shares \in ReportedShares(sig.order, sig.order.cost + over) :
              OpenPosition(sig.order.key,
                           [sig.order EXCEPT !.cost = @ + over, !.shares = shares])
        /\ excess' = excess + over
  BY DEF LiveMatched
<1>3. PICK shares \in ReportedShares(sig.order, sig.order.cost + over) :
        OpenPosition(sig.order.key, [sig.order EXCEPT !.cost = @ + over, !.shares = shares])
  BY <1>2
<1>4. over \in Nat /\ shares \in Nat
  BY <1>1, BotAssumption DEF ReportedShares
<1> DEFINE fill == [sig.order EXCEPT !.cost = @ + over, !.shares = shares]
<1>5. /\ fill \in Trade
      /\ fill.key = sig.order.key /\ fill.id = sig.order.id
      /\ fill.opened = sig.order.opened
      /\ fill.paid = sig.order.paid /\ fill.cost = sig.order.cost + over
  <2>1. sig.order.cost + over \in Nat /\ sig.order.paid =< sig.order.cost + over
    BY <1>1, <1>4, RiskAssumption DEF Trade
  <2> QED
    <3> DEFINE cost == sig.order.cost + over
               order == sig.order
    <3>1. /\ fill = [order EXCEPT !.cost = cost, !.shares = shares]
          /\ order \in Trade /\ cost \in Nat /\ order.paid =< cost
      BY <1>1, <2>1
    <3> HIDE DEF fill, cost, order
    <3>2. fill \in Trade
      BY <1>4, <3>1, BookedTrade
    <3>3. /\ fill.key = order.key /\ fill.id = order.id /\ fill.opened = order.opened
          /\ fill.paid = order.paid /\ fill.cost = cost
      BY <3>1 DEF Trade
    <3> QED
      BY <3>2, <3>3 DEF cost, order
<1> HIDE DEF fill
<1>6. OpenPosition(sig.order.key, fill)
  BY <1>3 DEF fill
<1> QED
  BY <1>2, <1>4, <1>5, <1>6

\* Every action keeps the types and what the awaits leave behind.
LEMMA TypeStep == TypeOK /\ Coherent /\ [Next]_vars => TypeOK' /\ Coherent'
<1> SUFFICES ASSUME TypeOK, Coherent, [Next]_vars PROVE TypeOK' /\ Coherent'
  OBVIOUS
<1> USE DEF memory, disk, world, history
<1>1. CASE SignalPass
  <2>1. day' \in Nat /\ realized' \in Int /\ base' \in Int /\ excess' \in Nat
    BY <1>1, RefreshType DEF SignalPass
  <2> QED
    BY <1>1, <2>1 DEF SignalPass, TypeOK, Coherent
<1>2. CASE SignalPassEnds
  BY <1>2 DEF SignalPassEnds, NoSignalPass, TypeOK, Coherent
<1>3. CASE PaperOrder
  <2>1. PICK k \in Key, order \in Trade : OpenPosition(k, order)
    BY <1>3, OrdersType DEF PaperOrder, TypeOK
  <2> QED
    BY <1>3, <2>1, OpenType DEF PaperOrder, TypeOK, Coherent
<1>4. CASE LiveOrder
  <2>1. PICK k \in Key, order \in Trade :
          sig' = [sig EXCEPT !.pc = "submit", !.order = order, !.todo = sig.todo \ {k}]
    BY <1>4, OrdersType DEF LiveOrder, TypeOK
  <2> QED
    BY <1>4, <2>1, NoTradeAssumption DEF LiveOrder, TypeOK, Coherent
<1>5. CASE LiveMatched
  <2>1. sig.order \in Trade
    BY <1>5 DEF LiveMatched, Coherent, TypeOK
  <2>2. PICK fill \in Trade, over \in Nat :
          OpenPosition(sig.order.key, fill) /\ excess' = excess + over
    BY <1>5, FillOfOrder
  <2>3. sig.order.key \in Key /\ excess' \in Nat
    BY <2>1, <2>2 DEF Trade, TypeOK
  <2> QED
    BY <1>5, <2>2, <2>3, OpenType DEF LiveMatched, TypeOK, Coherent
<1>6. CASE LiveUnmatched
  <2>1. sig.order \in Trade
    BY <1>6 DEF LiveUnmatched, Coherent, TypeOK
  <2>2. IsFiniteSet(fills \cup {sig.order})
    BY FS_AddElement DEF TypeOK
  <2>3. fills' \subseteq Trade /\ IsFiniteSet(fills')
    BY <1>6, <2>1, <2>2 DEF LiveUnmatched, TypeOK
  <2> QED
    BY <1>6, <2>3 DEF LiveUnmatched, TypeOK, Coherent
<1>7. CASE LiveRaises
  <2>1. sig.order \in Trade
    BY <1>7 DEF LiveRaises, Coherent, TypeOK
  <2>2. IsFiniteSet(fills \cup {sig.order})
    BY FS_AddElement DEF TypeOK
  <2>3. fills' \subseteq Trade /\ IsFiniteSet(fills')
    BY <1>7, <2>1, <2>2 DEF LiveRaises, TypeOK
  <2> QED
    BY <1>7, <2>3 DEF LiveRaises, NoSignalPass, TypeOK, Coherent
<1>8. CASE SignalNotified
  BY <1>8 DEF SignalNotified, NoSignalPass, TypeOK, Coherent
<1>9. CASE SettlePass
  <2>1. day' \in Nat /\ realized' \in Int /\ base' \in Int /\ excess' \in Nat
    BY <1>9, RefreshType DEF SettlePass
  <2> QED
    BY <1>9, <2>1 DEF SettlePass, TypeOK, Coherent
<1>10. CASE SettlePassEnds
  BY <1>10 DEF SettlePassEnds, NoSettlePass, Empty, TypeOK, Coherent
<1>11. CASE SettlePaper
  <2>1. PICK k \in Key, won \in BOOLEAN : stl.todo[k] # NoTrade /\ Settle(k, won)
    BY <1>11 DEF SettlePaper, Due
  <2> QED
    BY <1>11, <2>1, SettleType DEF SettlePaper, TypeOK, Coherent
<1>12. CASE FetchResolution
  BY <1>12 DEF FetchResolution, Due, TypeOK, Coherent
<1>13. CASE SettleFetched
  <2>1. PICK won \in BOOLEAN : Settle(stl.at, won)
    BY <1>13 DEF SettleFetched
  <2>2. stl.at \in Key /\ stl.todo[stl.at] # NoTrade
    BY <1>13 DEF SettleFetched, Coherent
  <2> QED
    BY <1>13, <2>1, <2>2, SettleType DEF SettleFetched, TypeOK, Coherent
<1>14. CASE FetchRaises
  BY <1>14 DEF FetchRaises, NoSettlePass, Empty, TypeOK, Coherent
<1>15. CASE SettleNotified
  BY <1>15 DEF SettleNotified, NoSettlePass, Empty, TypeOK, Coherent
<1>16. CASE WriterTakes
  BY <1>16 DEF WriterTakes, TypeOK, Coherent
<1>17. CASE Written
  <2>1. queue # <<>> /\ queue \in Seq(Write)
    BY <1>17 DEF Written, TypeOK, Coherent
  <2>2. Head(queue) \in Write /\ Tail(queue) \in Seq(Write)
    <3> DEFINE W == Write
    <3>1. queue \in Seq(W)
      BY <2>1
    <3> HIDE DEF W
    <3>2. Head(queue) \in W /\ Tail(queue) \in Seq(W)
      BY <2>1, <3>1
    <3> QED
      BY <3>2 DEF W
  <2>3. db' \in SUBSET Row /\ IsFiniteSet(db')
    BY <1>17, <2>2, ApplyType DEF Written, TypeOK
  <2> QED
    BY <1>17, <2>2, <2>3 DEF Written, TypeOK, Coherent
<1>18. CASE WriteRaises
  <2>1. queue' \in Seq(Write) /\ lost' \in Nat
    <3> DEFINE W == Write
    <3>1. queue \in Seq(W)
      BY DEF TypeOK
    <3>2. writer = "writing" => queue # <<>>
      BY DEF Coherent
    <3> HIDE DEF W
    <3>3. writer = "writing" => Tail(queue) \in Seq(W)
      BY <3>1, <3>2
    <3>4. CASE UNCHANGED <<queue, lost>>
      BY <3>4 DEF TypeOK
    <3>5. CASE writer = "writing" /\ lost' = lost + 1 /\ queue' = Tail(queue)
      <4>1. queue' \in Seq(W)
        BY <3>3, <3>5
      <4> QED
        BY <3>5, <4>1 DEF TypeOK, W
    <3> QED
      BY <1>18, <3>4, <3>5 DEF WriteRaises
  <2> QED
    BY <1>18, <2>1 DEF WriteRaises, TypeOK, Coherent
<1>19. CASE Tick
  BY <1>19 DEF Tick, TypeOK, Coherent
<1>20. CASE Restart
  <2>1. positions' \in [Key -> Trade \cup {NoTrade}]
    BY <1>20 DEF Restart, Recovered, Loaded, OpenTrades, TypeOK, Row
  <2>2. day' \in Nat
    BY <1>20, BotAssumption DEF Restart, RiskDay, TypeOK
  <2>3. realized' \in Int
    BY <1>20, RealizedInt DEF Restart, TypeOK
  <2>4. Total(Stake(positions')) \in Nat
    BY <2>1, StakesNat DEF Book
  <2>5. base' \in Int
    BY <1>20, <2>3, <2>4 DEF Restart
  <2>6. fills' \subseteq Trade /\ IsFiniteSet(fills')
    BY <1>20, FS_AddElement DEF Restart, TypeOK
  <2> QED
    BY <1>20, <2>1, <2>2, <2>3, <2>5, <2>6
    DEF Restart, NoSignalPass, NoSettlePass, Empty, TypeOK, Coherent
<1>21. CASE UNCHANGED vars
  BY <1>21 DEF vars, TypeOK, Coherent
<1> QED
  BY <1>1, <1>2, <1>3, <1>4, <1>5, <1>6, <1>7, <1>8, <1>9, <1>10, <1>11, <1>12, <1>13,
     <1>14, <1>15, <1>16, <1>17, <1>18, <1>19, <1>20, <1>21
  DEF Next, SignalLoop, SettlementLoop, Writer

\* The first state is typed.
LEMMA TypeInit == Init => TypeOK /\ Coherent
<1> SUFFICES ASSUME Init PROVE TypeOK /\ Coherent
  OBVIOUS
<1>1. Empty \in [Key -> Trade \cup {NoTrade}]
  BY DEF Empty
<1> QED
  BY <1>1, FS_EmptySet DEF Init, NoSignalPass, NoSettlePass, TypeOK, Coherent

\* Every reachable state of the bot is typed: no pass, await, write or restart
\* leaves a position, an order, a write or a result that is not one.
THEOREM TypeCorrect == Spec => []TypeOK
<1>1. Spec => [](TypeOK /\ Coherent)
  BY TypeInit, TypeStep, PTL DEF Spec
<1> QED
  BY <1>1, PTL

-----------------------------------------------------------------------------
(***************************************************************************)
(* Exposure and loss                                                       *)
(***************************************************************************)

\* The order in flight was sized against an exposure that has only fallen since.
OrderFits == sig.order # NoTrade => Exposure + sig.order.cost =< MaxOpenExposure

\* The invariant: what the properties need to be kept by every step.
Safe == SnapshotCurrent /\ OrderReplacesNothing /\ OrderFits /\ LossBound

\* The amounts are numbers.
LEMMA Amounts ==
    ASSUME TypeOK
    PROVE  /\ Exposure \in Nat /\ Pending \in Int /\ Floor \in Int /\ realized \in Int
           /\ excess \in Nat /\ Outlay \in Nat /\ Outlay =< Exposure
<1>1. Exposure \in Nat
  BY StakesNat DEF TypeOK, Book, Exposure
<1>2. Pending \in Int
  BY BotAssumption DEF TypeOK, Pending, Trade
<1>3. Outlay \in Nat /\ Outlay =< Exposure
  BY PaidNat DEF TypeOK, Book, Exposure, Outlay
<1> QED
  BY <1>1, <1>2, <1>3 DEF TypeOK, Floor

\* Opening a position in a window that is not held raises the exposure by its cost,
\* and the outlay by what was paid.
LEMMA OpenEffect ==
    ASSUME TypeOK, NEW k \in Key, NEW trade \in Trade, positions[k] = NoTrade,
           OpenPosition(k, trade)
    PROVE  Exposure' = Exposure + trade.cost /\ Outlay' = Outlay + trade.paid
<1>1. positions \in Book /\ positions' = [positions EXCEPT ![k] = trade]
  BY DEF TypeOK, Book, OpenPosition
<1>2. Total(Stake(positions')) = Total(Stake(positions)) + trade.cost
  BY <1>1, StakesOpen
<1>3. Total(Paid(positions')) = Total(Paid(positions)) + trade.paid
  BY <1>1, PaidOpen
<1> QED
  BY <1>2, <1>3 DEF Exposure, Outlay

\* Settling a position lowers the exposure by its cost, and the result by no more
\* than that.
LEMMA SettleEffect ==
    ASSUME TypeOK, NEW k \in Key, NEW won \in BOOLEAN,
           stl.todo[k] # NoTrade, positions[k] = stl.todo[k], Settle(k, won)
    PROVE  /\ Exposure' =< Exposure /\ Outlay' =< Outlay
           /\ realized' - Exposure' >= realized - Exposure
<1> DEFINE cost == positions[k].cost
           gain == IF won THEN positions[k].shares ELSE 0
<1>1. positions \in Book /\ positions[k] # NoTrade
  BY DEF TypeOK, Book
<1>2. positions' = [positions EXCEPT ![k] = NoTrade]
  BY DEF Settle
<1>3. Exposure' = Exposure - cost
  BY <1>1, <1>2, StakesClose DEF Exposure
<1>4. cost \in Nat /\ gain \in Nat
  BY <1>1, RiskAssumption, BotAssumption DEF Book, Trade
<1>5. realized' = realized + (gain - cost)
  BY DEF Settle, SettlementPnl
<1>6. Exposure \in Nat /\ realized \in Int
  BY Amounts
<1>7. Outlay' =< Outlay
  BY <1>1, <1>2, PaidClose DEF Outlay
<1> HIDE DEF cost, gain
<1> QED
  BY <1>3, <1>4, <1>5, <1>6, <1>7

\* A reload of the risk day starts the day at what it finds; otherwise nothing moves.
LEMMA RefreshEffect ==
    ASSUME TypeOK, LossBound, RefreshRiskDay, UNCHANGED positions, sig'.order = sig.order
    PROVE  LossBound'
<1>1. Exposure' = Exposure /\ Pending' = Pending
  BY DEF Exposure, Pending
<1>2. CASE day' = day
  <2>1. realized' = realized /\ base' = base /\ excess' = excess
    BY <1>2 DEF RefreshRiskDay
  <2> QED
    BY <1>1, <2>1 DEF LossBound, Floor
<1>3. CASE day' # day
  <2>1. base' = realized' - Exposure - Pending /\ excess' = 0
    BY <1>3 DEF RefreshRiskDay
  <2>2. Floor' = base' /\ base' \in Int
    BY <1>1, <2>1, RefreshType, Amounts DEF Floor
  <2> QED
    BY <2>2, RiskAssumption, BotAssumption DEF LossBound, Smaller
<1> QED
  BY <1>2, <1>3

\* A step that touches neither money nor passes keeps the invariant.
LEMMA QuietStep ==
    ASSUME Safe, UNCHANGED <<positions, realized, history, sig, stl>>
    PROVE  Safe' /\ Outlay' = Outlay
  BY DEF Safe, SnapshotCurrent, OrderReplacesNothing, OrderFits, LossBound, Floor,
         Exposure, Outlay, Pending, history

\* Opening a position keeps the invariant if its cost was allowed for in the floor: as
\* that of the order in flight, but for what is booked above it, or by the drawdown limit.
LEMMA OpenSafe ==
    ASSUME TypeOK, Safe, NEW k \in Key, NEW trade \in Trade, positions[k] = NoTrade,
           NEW over \in Nat, excess' = excess + over,
           OpenPosition(k, trade), UNCHANGED <<realized, base, stl>>,
           \/ trade.cost =< Pending + over
           \/ realized - Exposure - trade.cost
                >= -(MaxDailyDrawdown + MaxOpenExposure)
    PROVE  Safe'
<1>1. Exposure' = Exposure + trade.cost
  BY OpenEffect
<1>2. sig'.order = NoTrade /\ Pending' = 0
  BY DEF OpenPosition, TypeOK, Pending
<1>3. Floor' = realized - Exposure - trade.cost + (excess + over)
  BY <1>1, <1>2, Amounts DEF Floor, Trade
<1>4. Floor = realized - Exposure - Pending + excess
  BY DEF Floor
<1>5. Floor' >= Smaller(base, -(MaxDailyDrawdown + MaxOpenExposure))
  <2>1. trade.cost \in Nat /\ base \in Int
    BY DEF Trade, TypeOK
  <2> QED
    BY <1>3, <1>4, <2>1, Amounts, RiskAssumption DEF Safe, LossBound, Smaller
<1>6. LossBound'
  BY <1>5 DEF LossBound
<1>7. SnapshotCurrent'
  BY DEF Safe, SnapshotCurrent, OpenPosition, TypeOK
<1> QED
  BY <1>2, <1>6, <1>7 DEF Safe, OrderReplacesNothing, OrderFits

\* Settling a position of the snapshot keeps the invariant.
LEMMA SettleSafe ==
    ASSUME TypeOK, Safe, NEW k \in Key, stl.todo[k] # NoTrade, NEW won \in BOOLEAN,
           Settle(k, won), UNCHANGED <<history, sig>>
    PROVE  Safe' /\ Outlay' =< Outlay
<1> USE DEF history
<1>1. positions[k] = stl.todo[k]
  BY DEF Safe, SnapshotCurrent
<1>2. /\ Exposure' =< Exposure /\ Outlay' =< Outlay
      /\ realized' - Exposure' >= realized - Exposure
  BY <1>1, SettleEffect
<1>3. Pending' = Pending
  BY DEF Pending
<1>4. positions' = [positions EXCEPT ![k] = NoTrade]
  BY DEF Settle
<1>5. Exposure' \in Nat
  BY <1>1, <1>4, StakesClose, StakesNat DEF TypeOK, Book, Exposure
<1>6. realized' \in Int
  <2>1. SettlementPnl(stl.todo[k], won) \in Int
    BY RiskAssumption, BotAssumption DEF TypeOK, Trade, SettlementPnl
  <2> QED
    BY <2>1 DEF Settle, TypeOK
<1>7. LossBound'
  <2>1. Floor' >= Floor
    BY <1>2, <1>3, <1>5, <1>6, Amounts DEF Floor
  <2>2. Floor' \in Int
    BY <1>3, <1>5, <1>6, Amounts DEF Floor
  <2>3. Smaller(base, -(MaxDailyDrawdown + MaxOpenExposure)) \in Int
    BY RiskAssumption, BotAssumption DEF Smaller, TypeOK
  <2> QED
    BY <2>1, <2>2, <2>3, Amounts DEF Safe, LossBound
<1>8. SnapshotCurrent'
  BY <1>4 DEF Safe, SnapshotCurrent, Settle, TypeOK
<1>9. OrderReplacesNothing'
  BY <1>4 DEF Safe, OrderReplacesNothing, TypeOK
<1>10. OrderFits'
  <2> SUFFICES ASSUME sig'.order # NoTrade
               PROVE  Exposure' + sig'.order.cost =< MaxOpenExposure
    BY DEF OrderFits
  <2>1. sig'.order = sig.order /\ sig.order \in Trade
    BY DEF TypeOK
  <2>2. sig.order.cost \in Nat
    BY <2>1, RiskAssumption, BotAssumption DEF Trade
  <2>3. Exposure + sig.order.cost =< MaxOpenExposure
    BY <2>1 DEF Safe, OrderFits
  <2>4. Exposure \in Nat
    BY Amounts
  <2> QED
    BY <1>2, <1>5, <2>1, <2>2, <2>3, <2>4, RiskAssumption
<1> QED
  BY <1>2, <1>7, <1>8, <1>9, <1>10 DEF Safe

\* What one step may do to the outlay
OutlayStep ==
    Outlay' > Outlay => Outlay' =< MaxOpenExposure \/ crashes' # crashes

\* Every action keeps the invariant, and none but a restart takes the outlay past the
\* limit of the exposure.
LEMMA SafeStep ==
    TypeOK /\ Coherent /\ Safe /\ TypeOK' /\ [Next]_vars => Safe' /\ OutlayStep
<1> SUFFICES ASSUME TypeOK, Coherent, Safe, TypeOK', [Next]_vars PROVE Safe' /\ OutlayStep
  OBVIOUS
<1> USE DEF memory, disk, world, history
<1>0. /\ Exposure \in Nat /\ Exposure' \in Nat
      /\ Outlay \in Nat /\ Outlay' \in Nat /\ Outlay =< Exposure
  BY StakesNat, PaidNat DEF TypeOK, Book, Exposure, Outlay
<1>a. ASSUME UNCHANGED <<positions, realized, history, sig, stl>> PROVE Safe' /\ OutlayStep
  BY <1>a, <1>0, QuietStep DEF OutlayStep
<1>b. ASSUME UNCHANGED positions PROVE OutlayStep
  <2>1. Outlay' = Outlay
    BY <1>b DEF Outlay
  <2> QED
    BY <1>0, <2>1 DEF OutlayStep
<1>c. ASSUME UNCHANGED <<positions, realized, history, stl>>, sig'.order = sig.order
      PROVE  Safe' /\ OutlayStep
  <2>1. Exposure' = Exposure /\ Pending' = Pending
    BY <1>c DEF Exposure, Pending
  <2> QED
    BY <1>b, <1>c, <2>1
    DEF Safe, SnapshotCurrent, OrderReplacesNothing, OrderFits, LossBound, Floor
<1>d. ASSUME UNCHANGED <<positions, realized, history, stl>>, sig'.order = NoTrade
      PROVE  Safe' /\ OutlayStep
  <2>1. Exposure' = Exposure /\ Pending' = 0
    BY <1>d DEF Exposure, Pending
  <2>2. Pending \in Nat
    <3>1. sig.order # NoTrade => sig.order.cost \in Nat
      <4>1. sig.order # NoTrade => sig.order \in Trade
        BY DEF TypeOK
      <4> QED
        BY <4>1, RiskAssumption, BotAssumption DEF Trade
    <3> QED
      BY <3>1, BotAssumption DEF Pending
  <2>3. Floor' >= Floor /\ Floor' \in Int
    BY <1>d, <2>1, <2>2, Amounts DEF Floor
  <2>4. Smaller(base, -(MaxDailyDrawdown + MaxOpenExposure)) \in Int
    BY RiskAssumption, BotAssumption DEF Smaller, TypeOK
  <2>5. LossBound'
    BY <1>d, <2>3, <2>4, Amounts DEF Safe, LossBound
  <2> QED
    BY <1>b, <1>d, <2>5 DEF Safe, SnapshotCurrent, OrderReplacesNothing, OrderFits
<1>e. ASSUME UNCHANGED <<positions, realized, history, sig>>,
             \A k \in Key : stl'.todo[k] # NoTrade => stl'.todo[k] = positions[k]
      PROVE  Safe' /\ OutlayStep
  <2>1. Exposure' = Exposure /\ Pending' = Pending
    BY <1>e DEF Exposure, Pending
  <2> QED
    BY <1>b, <1>e, <2>1
    DEF Safe, SnapshotCurrent, OrderReplacesNothing, OrderFits, LossBound, Floor
<1>f. ASSUME NEW k \in Key, NEW order \in Orders(k)
      PROVE  /\ order \in Trade /\ order.cost \in Nat /\ order.key = k
             /\ positions[k] = NoTrade
             /\ Exposure + order.cost =< MaxOpenExposure
             /\ realized - Exposure - order.cost
                  >= -(MaxDailyDrawdown + MaxOpenExposure)
  <2>1. /\ order \in Trade /\ order.key = k
        /\ positions[k] = NoTrade
        /\ Exposure + order.cost =< MaxOpenExposure
        /\ ~DrawdownBlocked(realized)
    BY OrdersType
  <2>2. order.cost \in Nat
    BY <2>1, RiskAssumption, BotAssumption DEF Trade
  <2>3. realized >= -MaxDailyDrawdown
    BY <2>1, Amounts, RiskAssumption DEF DrawdownBlocked
  <2> QED
    BY <2>1, <2>2, <2>3, <1>0, Amounts, RiskAssumption
<1>g. ASSUME NEW trade \in Trade, Exposure + trade.paid =< MaxOpenExposure,
             NEW k \in Key, positions[k] = NoTrade, OpenPosition(k, trade)
      PROVE  OutlayStep
  <2>1. Outlay' = Outlay + trade.paid /\ trade.paid \in Nat
    BY <1>g, OpenEffect, RiskAssumption DEF Trade
  <2> QED
    BY <1>0, <1>g, <2>1, RiskAssumption DEF OutlayStep
<1>1. CASE SignalPass
  <2>1. sig'.order = sig.order
    BY <1>1 DEF SignalPass, TypeOK
  <2>2. LossBound'
    BY <1>1, <2>1, RefreshEffect DEF SignalPass, Safe
  <2>3. Exposure' = Exposure
    BY <1>1 DEF SignalPass, Exposure
  <2> QED
    BY <1>1, <1>b, <2>1, <2>2, <2>3
    DEF SignalPass, Safe, SnapshotCurrent, OrderReplacesNothing, OrderFits
<1>2. CASE SignalPassEnds
  BY <1>2, <1>d DEF SignalPassEnds, NoSignalPass
<1>3. CASE PaperOrder
  <2>1. PICK k \in Key : \E order \in Orders(k) : OpenPosition(k, order)
    BY <1>3 DEF PaperOrder, TypeOK
  <2>2. PICK order \in Orders(k) : OpenPosition(k, order)
    BY <2>1
  <2>3. /\ order \in Trade /\ order.cost \in Nat
        /\ positions[k] = NoTrade
        /\ Exposure + order.cost =< MaxOpenExposure
        /\ realized - Exposure - order.cost >= -(MaxDailyDrawdown + MaxOpenExposure)
    BY <1>f
  <2>4. Exposure + order.paid =< MaxOpenExposure
    BY <2>3, <1>0, RiskAssumption DEF Trade
  <2>5. excess' = excess + 0
    BY <1>3, Amounts DEF PaperOrder
  <2>6. Safe'
    BY <1>3, <2>2, <2>3, <2>5, OpenSafe DEF PaperOrder
  <2> QED
    BY <2>2, <2>3, <2>4, <2>6, <1>g
<1>4. CASE LiveOrder
  <2>0. PICK k \in Key : \E order \in Orders(k) :
          sig' = [sig EXCEPT !.pc = "submit", !.order = order, !.todo = sig.todo \ {k}]
    BY <1>4 DEF LiveOrder, TypeOK
  <2>1. PICK order \in Orders(k) :
          sig' = [sig EXCEPT !.pc = "submit", !.order = order, !.todo = sig.todo \ {k}]
    BY <2>0
  <2>2. /\ order \in Trade /\ order.cost \in Nat /\ order.key = k
        /\ positions[k] = NoTrade
        /\ Exposure + order.cost =< MaxOpenExposure
        /\ realized - Exposure - order.cost >= -(MaxDailyDrawdown + MaxOpenExposure)
    BY <1>f
  <2>3. sig'.order = order /\ order # NoTrade
    BY <2>1, <2>2, NoTradeAssumption DEF TypeOK
  <2>4. UNCHANGED <<positions, realized, history, stl>> /\ Exposure' = Exposure
    BY <1>4 DEF LiveOrder, Exposure
  <2>5. Pending' = order.cost
    BY <2>3 DEF Pending
  <2>6. Floor' = realized - Exposure - order.cost + excess
    BY <2>4, <2>5 DEF Floor
  <2>7. Floor' >= -(MaxDailyDrawdown + MaxOpenExposure)
    BY <2>2, <2>6, <1>0, Amounts, RiskAssumption, BotAssumption
  <2>8. Floor' \in Int
    BY <2>2, <2>6, <1>0, Amounts, BotAssumption
  <2>9. LossBound'
    BY <2>4, <2>7, <2>8, RiskAssumption, BotAssumption DEF LossBound, Smaller, TypeOK
  <2>10. SnapshotCurrent' /\ OrderReplacesNothing' /\ OrderFits'
    BY <2>2, <2>3, <2>4 DEF Safe, SnapshotCurrent, OrderReplacesNothing, OrderFits
  <2> QED
    BY <1>b, <2>4, <2>9, <2>10 DEF Safe
<1>5. CASE LiveMatched
  <2>1. /\ sig.order \in Trade /\ sig.order # NoTrade /\ sig.order.cost \in Nat
        /\ sig.order.key \in Key
    BY <1>5 DEF LiveMatched, Coherent, TypeOK, Trade
  <2>2. PICK fill \in Trade, over \in Nat :
          /\ OpenPosition(sig.order.key, fill) /\ excess' = excess + over
          /\ fill.cost = sig.order.cost + over /\ fill.paid = sig.order.paid
    BY <1>5, FillOfOrder
  <2>3. positions[sig.order.key] = NoTrade
    BY <2>1 DEF Safe, OrderReplacesNothing
  <2>4. Exposure + sig.order.cost =< MaxOpenExposure
    BY <2>1 DEF Safe, OrderFits
  <2>5. fill.cost =< Pending + over
    BY <2>1, <2>2 DEF Pending
  <2>6. Exposure + fill.paid =< MaxOpenExposure
    BY <2>1, <2>2, <2>4, <1>0, RiskAssumption DEF Trade
  <2>7. UNCHANGED <<realized, base, stl>>
    BY <1>5 DEF LiveMatched
  <2>8. Safe'
    BY <2>1, <2>2, <2>3, <2>5, <2>7, OpenSafe
  <2> QED
    BY <2>1, <2>2, <2>3, <2>6, <2>8, <1>g
<1>6. CASE LiveUnmatched
  <2>1. sig'.order = NoTrade
    BY <1>6 DEF LiveUnmatched, TypeOK
  <2> QED
    BY <1>6, <1>d, <2>1 DEF LiveUnmatched
<1>7. CASE LiveRaises
  BY <1>7, <1>d DEF LiveRaises, NoSignalPass
<1>8. CASE SignalNotified
  <2>1. CASE sig' = [sig EXCEPT !.pc = "scan"]
    BY <1>8, <1>c, <2>1 DEF SignalNotified, TypeOK
  <2>2. CASE sig' = NoSignalPass
    BY <1>8, <1>d, <2>2 DEF SignalNotified, NoSignalPass
  <2> QED
    BY <1>8, <2>1, <2>2 DEF SignalNotified
<1>9. CASE SettlePass
  <2>1. LossBound'
    BY <1>9, RefreshEffect DEF SettlePass, Safe
  <2>2. stl'.todo = positions
    BY <1>9 DEF SettlePass, TypeOK
  <2>3. Exposure' = Exposure
    BY <1>9 DEF SettlePass, Exposure
  <2> QED
    BY <1>9, <1>b, <2>1, <2>2, <2>3
    DEF SettlePass, Safe, SnapshotCurrent, OrderReplacesNothing, OrderFits
<1>10. CASE SettlePassEnds
  BY <1>10, <1>e DEF SettlePassEnds, NoSettlePass, Empty
<1>11. CASE SettlePaper
  <2>1. PICK k \in Key, won \in BOOLEAN : stl.todo[k] # NoTrade /\ Settle(k, won)
    BY <1>11 DEF SettlePaper, Due
  <2>2. Safe' /\ Outlay' =< Outlay
    BY <1>11, <2>1, SettleSafe DEF SettlePaper
  <2> QED
    BY <1>0, <2>2 DEF OutlayStep
<1>12. CASE FetchResolution
  <2>1. stl'.todo = stl.todo
    BY <1>12 DEF FetchResolution, TypeOK
  <2> QED
    BY <1>12, <1>e, <2>1 DEF FetchResolution, Safe, SnapshotCurrent
<1>13. CASE SettleFetched
  <2>1. PICK won \in BOOLEAN : Settle(stl.at, won)
    BY <1>13 DEF SettleFetched
  <2>2. stl.at \in Key /\ stl.todo[stl.at] # NoTrade
    BY <1>13 DEF SettleFetched, Coherent
  <2>3. Safe' /\ Outlay' =< Outlay
    BY <1>13, <2>1, <2>2, SettleSafe DEF SettleFetched
  <2> QED
    BY <1>0, <2>3 DEF OutlayStep
<1>14. CASE FetchRaises
  BY <1>14, <1>e DEF FetchRaises, NoSettlePass, Empty
<1>15. CASE SettleNotified
  <2>1. CASE stl' = [stl EXCEPT !.pc = "scan"]
    <3>1. stl'.todo = stl.todo
      BY <2>1 DEF TypeOK
    <3> QED
      BY <1>15, <1>e, <3>1 DEF SettleNotified, Safe, SnapshotCurrent
  <2>2. CASE stl' = NoSettlePass
    BY <1>15, <1>e, <2>2 DEF SettleNotified, NoSettlePass, Empty
  <2> QED
    BY <1>15, <2>1, <2>2 DEF SettleNotified
<1>16. CASE WriterTakes
  BY <1>16, <1>a DEF WriterTakes
<1>17. CASE Written
  BY <1>17, <1>a DEF Written
<1>18. CASE WriteRaises
  BY <1>18, <1>a DEF WriteRaises
<1>19. CASE Tick
  BY <1>19, <1>a DEF Tick
<1>20. CASE Restart
  <2>1. sig'.order = NoTrade /\ stl'.todo = Empty
    BY <1>20 DEF Restart, NoSignalPass, NoSettlePass
  <2>2. Floor' = base'
    <3>1. Pending' = 0
      BY <2>1 DEF Pending
    <3>2. base' = realized' - Exposure'
      BY <1>20 DEF Restart, Exposure
    <3>3. excess' = 0
      BY <1>20 DEF Restart
    <3>4. realized' \in Int
      BY DEF TypeOK
    <3> QED
      BY <3>1, <3>2, <3>3, <3>4, <1>0 DEF Floor
  <2>3. LossBound'
    BY <2>2, RiskAssumption, BotAssumption DEF LossBound, Smaller, TypeOK
  <2>4. crashes' # crashes
    BY <1>20 DEF Restart, TypeOK
  <2> QED
    BY <2>1, <2>3, <2>4
    DEF Safe, SnapshotCurrent, OrderReplacesNothing, OrderFits, OutlayStep, Empty
<1>21. CASE UNCHANGED vars
  BY <1>21, <1>a DEF vars
<1> QED
  BY <1>1, <1>2, <1>3, <1>4, <1>5, <1>6, <1>7, <1>8, <1>9, <1>10, <1>11, <1>12, <1>13,
     <1>14, <1>15, <1>16, <1>17, <1>18, <1>19, <1>20, <1>21
  DEF Next, SignalLoop, SettlementLoop, Writer

\* The first state is safe.
LEMMA SafeInit == Init => Safe
<1> SUFFICES ASSUME Init PROVE Safe
  OBVIOUS
<1>1. Exposure = 0
  BY StakesOfEmpty DEF Init, Exposure
<1>2. sig.order = NoTrade /\ stl.todo = Empty
  BY DEF Init, NoSignalPass, NoSettlePass
<1>3. Floor = 0
  BY <1>1, <1>2 DEF Init, Floor, Pending
<1>4. LossBound
  BY <1>3, RiskAssumption, BotAssumption DEF Init, LossBound, Smaller
<1> QED
  BY <1>2, <1>4 DEF Safe, SnapshotCurrent, OrderReplacesNothing, OrderFits, Empty

\* The whole inductive invariant
LEMMA Invariant == Spec => [](TypeOK /\ Coherent /\ Safe)
<1>1. Init => TypeOK /\ Coherent /\ Safe
  BY TypeInit, SafeInit
<1>2. TypeOK /\ Coherent /\ Safe /\ [Next]_vars => (TypeOK /\ Coherent /\ Safe)'
  BY TypeStep, SafeStep
<1> QED
  BY <1>1, <1>2, PTL DEF Spec

\* bot.py: however settlements, fills, reloads of the day and kills interleave, the
\* day's result less all that is at stake stays above the drawdown and exposure
\* limits together, or above where the day began, but for what live fills were booked
\* at above their orders.
THEOREM LossBounded == Spec => []LossBound
<1>1. Safe => LossBound
  BY DEF Safe
<1> QED
  BY <1>1, Invariant, PTL

\* bot.py: the settlement pass only ever settles positions that are still held, each
\* as it was when the pass began.
THEOREM SnapshotStaysCurrent == Spec => []SnapshotCurrent
<1>1. Safe => SnapshotCurrent
  BY DEF Safe
<1> QED
  BY <1>1, Invariant, PTL

\* bot.py: the position stored after the await of executor.submit replaces none.
THEOREM NothingReplaced == Spec => []OrderReplacesNothing
<1>1. Safe => OrderReplacesNothing
  BY DEF Safe
<1> QED
  BY <1>1, Invariant, PTL

\* risk.py, bot.py: no order takes what was paid for the open positions past the limit of
\* the exposure, although it is sized before an await and a fill may be booked at more
\* than its amount.
THEOREM ExposureCapped == Spec => ExposureCap
<1>1. TypeOK /\ Coherent /\ Safe /\ [Next]_vars => [OutlayStep]_vars
  BY TypeStep, SafeStep
<1>2. [][OutlayStep]_vars <=> ExposureCap
  BY PTL DEF ExposureCap, OutlayStep
<1> QED
  BY <1>1, <1>2, Invariant, PTL DEF Spec

-----------------------------------------------------------------------------
(***************************************************************************)
(* Fills, positions and the trades of the log                              *)
(***************************************************************************)

\* The trades that a queue is going to insert, and the ids it is going to close
Opened(q) == {q[i].trade : i \in {j \in DOMAIN q : q[j].op = "open"}}
Closing(q) == {q[i].id : i \in {j \in DOMAIN q : q[j].op = "close"}}

\* The trades that are in the table or on their way to it
Known == {row.trade : row \in db} \cup Opened(queue)

\* The fills are numbered, the order in flight has the next number, and whatever memory,
\* the table or the queue has is a fill.
Numbered ==
    /\ \A f \in fills : f.id =< Cardinality(fills)
    /\ \A f, g \in fills : f.id = g.id => f = g
    /\ sig.order # NoTrade => sig.order.id = Cardinality(fills) + 1
    /\ \A k \in Key : positions[k] # NoTrade => positions[k] \in fills /\ positions[k].key = k
    /\ Known \subseteq fills

\* A write put at the end of the queue adds its trade or its id.
LEMMA QueueGrows ==
    ASSUME NEW q \in Seq(Write), NEW write \in Write
    PROVE  /\ Opened(Append(q, write))
                \subseteq Opened(q) \cup (IF write.op = "open" THEN {write.trade} ELSE {})
           /\ Closing(Append(q, write))
                \subseteq Closing(q) \cup (IF write.op = "close" THEN {write.id} ELSE {})
<1> DEFINE after == Append(q, write)
<1> HIDE DEF Write
<1>1. /\ DOMAIN after = DOMAIN q \cup {Len(q) + 1}
      /\ \A i \in DOMAIN q : after[i] = q[i]
      /\ after[Len(q) + 1] = write
  OBVIOUS
<1> HIDE DEF after
<1> QED
  BY <1>1, Zenon DEF Opened, Closing, after

\* Taking the first leaves only what was on the queue, and what is taken was.
LEMMA QueueShrinks ==
    ASSUME NEW q \in Seq(Write), q # <<>>
    PROVE  /\ Opened(Tail(q)) \subseteq Opened(q)
           /\ Closing(Tail(q)) \subseteq Closing(q)
           /\ Head(q) \in Write
           /\ Head(q).op = "open" => Head(q).trade \in Opened(q)
           /\ Head(q).op = "close" => Head(q).id \in Closing(q)
<1> DEFINE after == Tail(q)
<1> HIDE DEF Write
<1>1. /\ \A i \in DOMAIN after : i + 1 \in DOMAIN q /\ after[i] = q[i + 1]
      /\ 1 \in DOMAIN q /\ Head(q) = q[1] /\ Head(q) \in Write
  OBVIOUS
<1> HIDE DEF after
<1>2. Opened(after) \subseteq Opened(q)
  BY <1>1, ZenonT(60) DEF Opened
<1>3. Closing(after) \subseteq Closing(q)
  BY <1>1, ZenonT(60) DEF Closing
<1>4. Head(q).op = "open" => Head(q).trade \in Opened(q)
  BY <1>1, Zenon DEF Opened
<1>5. Head(q).op = "close" => Head(q).id \in Closing(q)
  BY <1>1, Zenon DEF Closing
<1> QED
  BY <1>1, <1>2, <1>3, <1>4, <1>5 DEF after

\* A write that is submitted, or refused, adds no more than itself.
LEMMA SubmitAdds ==
    ASSUME queue \in Seq(Write), NEW write \in Write, Submit(write)
    PROVE  /\ Opened(queue')
                \subseteq Opened(queue) \cup (IF write.op = "open" THEN {write.trade} ELSE {})
           /\ Closing(queue')
                \subseteq Closing(queue) \cup (IF write.op = "close" THEN {write.id} ELSE {})
<1>1. CASE queue' = Append(queue, write)
  BY <1>1, QueueGrows
<1>2. CASE queue' = queue
  BY <1>2
<1> QED
  BY <1>1, <1>2 DEF Submit

\* What is known is a set of trades, and what is being closed a set of numbers.
LEMMA KnownType ==
    ASSUME TypeOK
    PROVE  /\ Known \subseteq Trade /\ Closing(queue) \subseteq Nat
           /\ \A row \in db : row.trade \in Trade /\ row.trade \in Known
           /\ \A t \in Trade : t.key \in Key /\ t.id \in Nat
<1>1. \A i \in DOMAIN queue : queue[i] \in Write
  <2>1. queue \in Seq(Write)
    BY DEF TypeOK
  <2> HIDE DEF Write
  <2> QED
    BY <2>1
<1>2. \A write \in Write : /\ write.op = "open" => write.trade \in Trade
                           /\ write.op = "close" => write.id \in Nat
  BY DEF OpenWrite, CloseWrite
<1>3. Opened(queue) \subseteq Trade /\ Closing(queue) \subseteq Nat
  BY <1>1, <1>2 DEF Opened, Closing
<1>4. \A row \in db : row.trade \in Trade
  BY DEF TypeOK, Row
<1> QED
  BY <1>3, <1>4 DEF Known, Trade

\* A fill with the next number keeps the numbers apart.
LEMMA NextNumber ==
    ASSUME TypeOK, Numbered, NEW trade \in Trade, trade.id = Cardinality(fills) + 1,
           fills' \in {fills, fills \cup {trade}}
    PROVE  /\ fills \subseteq fills'
           /\ \A f \in fills' : f.id =< Cardinality(fills')
           /\ \A f, g \in fills' : f.id = g.id => f = g
<1>1. Cardinality(fills) \in Nat /\ \A f \in fills : f.id \in Nat
  BY FS_CardinalityType DEF TypeOK, Trade
<1>2. \A f \in fills : f.id # trade.id
  BY <1>1 DEF Numbered
<1>3. CASE fills' = fills
  BY <1>3 DEF Numbered
<1>4. CASE fills' = fills \cup {trade}
  <2>1. trade \notin fills
    BY <1>2
  <2>2. Cardinality(fills') = Cardinality(fills) + 1
    BY <1>4, <2>1, FS_AddElement DEF TypeOK
  <2>3. \A f \in fills' : f.id =< Cardinality(fills')
    BY <1>1, <1>4, <2>2 DEF Numbered
  <2>4. \A f, g \in fills' : f.id = g.id => f = g
    BY <1>2, <1>4 DEF Numbered
  <2> QED
    BY <1>4, <2>3, <2>4
<1> QED
  BY <1>3, <1>4

\* An order has the next number.
LEMMA OrderNumber ==
    ASSUME NEW k, NEW order \in Orders(k)
    PROVE  order.id = Cardinality(fills) + 1
  BY DEF Orders, SizedOrders

\* Filling an order keeps the numbers.
LEMMA OpenNumbered ==
    ASSUME TypeOK, Numbered, NEW k \in Key, NEW trade \in Trade, trade.key = k,
           trade.id = Cardinality(fills) + 1, OpenPosition(k, trade), db' = db
    PROVE  Numbered'
<1>1. /\ positions' = [positions EXCEPT ![k] = trade] /\ fills' = fills \cup {trade}
      /\ sig' = [sig EXCEPT !.pc = IF Telegram THEN "notify" ELSE "scan",
                            !.todo = sig.todo \ {k}, !.order = NoTrade]
      /\ Submit([op |-> "open", trade |-> trade])
  BY DEF OpenPosition
<1>2. /\ fills \subseteq fills' /\ trade \in fills'
      /\ \A f \in fills' : f.id =< Cardinality(fills')
      /\ \A f, g \in fills' : f.id = g.id => f = g
  BY <1>1, NextNumber
<1>3. sig'.order = NoTrade
  BY <1>1 DEF TypeOK
<1>4. Known' \subseteq Known \cup {trade}
  <2> DEFINE write == [op |-> "open", trade |-> trade]
  <2>1. write \in Write /\ write.op = "open" /\ write.trade = trade
    BY DEF OpenWrite
  <2> HIDE DEF write
  <2>2. Opened(queue') \subseteq Opened(queue) \cup {trade}
    BY <1>1, <2>1, SubmitAdds DEF TypeOK, write
  <2> QED
    BY <2>2 DEF Known
<1>5. positions'[k] = trade /\ \A x \in Key \ {k} : positions'[x] = positions[x]
  BY <1>1 DEF TypeOK
<1>6. \A x \in Key : positions'[x] # NoTrade => positions'[x] \in fills' /\ positions'[x].key = x
  BY <1>2, <1>5 DEF Numbered
<1>7. Known' \subseteq fills'
  BY <1>2, <1>4 DEF Numbered
<1> QED
  BY <1>2, <1>3, <1>6, <1>7 DEF Numbered

\* Settling a position too.
LEMMA SettleNumbered ==
    ASSUME TypeOK, Coherent, Numbered, NEW k \in Key, NEW won \in BOOLEAN,
           stl.todo[k] # NoTrade, Settle(k, won), sig' = sig, db' = db, fills' = fills
    PROVE  Numbered'
<1> DEFINE position == stl.todo[k]
           pnl == SettlementPnl(position, won)
           write == [op |-> "close", id |-> position.id, at |-> now, pnl |-> pnl]
<1>1. position \in Trade /\ position.id \in Nat /\ now \in Nat
  BY DEF TypeOK, Trade
<1>2. pnl \in Int
  BY <1>1, RiskAssumption, BotAssumption DEF Trade, SettlementPnl
<1>3. write \in Write /\ write.op # "open"
  <2> HIDE DEF pnl
  <2> QED
    BY <1>1, <1>2 DEF CloseWrite
<1>4. positions' = [positions EXCEPT ![k] = NoTrade] /\ Submit(write)
  BY DEF Settle
<1> HIDE DEF write
<1>5. Opened(queue') \subseteq Opened(queue)
  BY <1>3, <1>4, SubmitAdds DEF TypeOK
<1>6. Known' \subseteq Known
  BY <1>5 DEF Known
<1>7. \A x \in Key : positions'[x] # NoTrade => positions'[x] = positions[x]
  BY <1>4 DEF TypeOK
<1> QED
  BY <1>6, <1>7 DEF Numbered

\* Every step keeps the numbers.
LEMMA NumberedStep ==
    ASSUME TypeOK, Coherent, Numbered, [Next]_vars
    PROVE  Numbered'
<1> USE DEF memory, disk, world, history
<1>1. ASSUME positions' = positions, fills' = fills, Known' \subseteq Known,
             sig'.order \in {sig.order, NoTrade}
      PROVE  Numbered'
  BY <1>1 DEF Numbered
<1>2. ASSUME positions' = positions, fills' = fills, db' = db, queue' = queue,
             sig'.order \in {sig.order, NoTrade}
      PROVE  Numbered'
  BY <1>1, <1>2 DEF Known
<1>3. CASE SignalPass
  BY <1>2, <1>3 DEF SignalPass, TypeOK
<1>4. CASE SignalPassEnds
  BY <1>2, <1>4 DEF SignalPassEnds, NoSignalPass
<1>5. CASE PaperOrder
  <2>1. PICK k \in sig.todo : \E order \in Orders(k) : OpenPosition(k, order)
    BY <1>5 DEF PaperOrder
  <2>2. PICK order \in Orders(k) : OpenPosition(k, order)
    BY <2>1
  <2>3. k \in Key
    BY <2>1 DEF TypeOK
  <2>4. order \in Trade /\ order.key = k
    BY <2>3, OrdersType
  <2> QED
    BY <1>5, <2>2, <2>3, <2>4, OrderNumber, OpenNumbered DEF PaperOrder
<1>6. CASE LiveOrder
  <2>1. PICK k \in sig.todo : \E order \in Orders(k) :
          sig' = [sig EXCEPT !.pc = "submit", !.order = order, !.todo = sig.todo \ {k}]
    BY <1>6 DEF LiveOrder
  <2>2. PICK order \in Orders(k) :
          sig' = [sig EXCEPT !.pc = "submit", !.order = order, !.todo = sig.todo \ {k}]
    BY <2>1
  <2>3. sig'.order.id = Cardinality(fills) + 1
    BY <2>2, OrderNumber DEF TypeOK
  <2>4. positions' = positions /\ fills' = fills /\ Known' = Known
    BY <1>6 DEF LiveOrder, Known
  <2> QED
    BY <2>3, <2>4 DEF Numbered
<1>7. CASE LiveMatched
  <2>1. PICK trade \in Trade :
          /\ trade.key = sig.order.key /\ trade.id = sig.order.id
          /\ OpenPosition(sig.order.key, trade)
    BY <1>7, FillOfOrder
  <2>2. sig.order # NoTrade /\ sig.order.key \in Key
    BY <1>7 DEF LiveMatched, Coherent, TypeOK, Trade
  <2> QED
    BY <1>7, <2>1, <2>2, OpenNumbered DEF LiveMatched, Numbered
<1>8. CASE LiveUnmatched \/ LiveRaises
  <2>0. sig'.order = NoTrade
    <3>1. CASE LiveUnmatched
      BY <3>1 DEF LiveUnmatched, TypeOK
    <3>2. CASE LiveRaises
      BY <3>2 DEF LiveRaises, NoSignalPass
    <3> QED
      BY <1>8, <3>1, <3>2
  <2>1. /\ positions' = positions /\ Known' = Known
        /\ fills' \in {fills, fills \cup {sig.order}} /\ sig'.order = NoTrade
    BY <1>8, <2>0 DEF LiveUnmatched, LiveRaises, Known
  <2>2. sig.order \in Trade /\ sig.order.id = Cardinality(fills) + 1
    BY <1>8 DEF LiveUnmatched, LiveRaises, Coherent, TypeOK, Numbered
  <2>3. /\ fills \subseteq fills' /\ \A f \in fills' : f.id =< Cardinality(fills')
        /\ \A f, g \in fills' : f.id = g.id => f = g
    BY <2>1, <2>2, NextNumber
  <2> QED
    BY <2>1, <2>3 DEF Numbered
<1>9. CASE SignalNotified
  BY <1>2, <1>9 DEF SignalNotified, NoSignalPass, TypeOK
<1>10. CASE SettlePass
  BY <1>2, <1>10 DEF SettlePass
<1>11. CASE SettlePassEnds
  BY <1>2, <1>11 DEF SettlePassEnds
<1>12. CASE SettlePaper
  <2>1. PICK k \in Key, won \in BOOLEAN : Due(k) /\ Settle(k, won)
    BY <1>12 DEF SettlePaper
  <2> QED
    BY <1>12, <2>1, SettleNumbered DEF SettlePaper, Due
<1>13. CASE FetchResolution
  BY <1>2, <1>13 DEF FetchResolution
<1>14. CASE SettleFetched
  <2>1. PICK won \in BOOLEAN : Settle(stl.at, won)
    BY <1>14 DEF SettleFetched
  <2>2. stl.at \in Key /\ stl.todo[stl.at] # NoTrade
    BY <1>14 DEF SettleFetched, Coherent
  <2> QED
    BY <1>14, <2>1, <2>2, SettleNumbered DEF SettleFetched
<1>15. CASE FetchRaises
  BY <1>2, <1>15 DEF FetchRaises
<1>16. CASE SettleNotified
  BY <1>2, <1>16 DEF SettleNotified
<1>17. CASE WriterTakes
  BY <1>2, <1>17 DEF WriterTakes
<1>18. CASE Written
  <2> DEFINE write == Head(queue)
  <2>1. db' = Apply(db, write) /\ queue' = Tail(queue) /\ queue # <<>>
    BY <1>18 DEF Written, Coherent
  <2>2. /\ Opened(queue') \subseteq Opened(queue)
        /\ write.op = "open" => write.trade \in Opened(queue)
    BY <2>1, QueueShrinks DEF TypeOK
  <2> HIDE DEF write
  <2>3. \A row : OpenRow(row).trade = row
    BY DEF OpenRow
  <2>4. \A row : ClosedRow(row, write.id, write.at, write.pnl).trade = row.trade
    BY DEF ClosedRow
  <2>5. \A row \in db' : row.trade \in Known
    BY <2>1, <2>2, <2>3, <2>4 DEF Apply, Known
  <2>6. Known' \subseteq Known
    BY <2>2, <2>5 DEF Known
  <2> QED
    BY <1>1, <1>18, <2>6 DEF Written
<1>19. CASE WriteRaises
  <2>1. db' = db /\ (queue' = queue \/ (queue # <<>> /\ queue' = Tail(queue)))
    BY <1>19 DEF WriteRaises, Coherent
  <2>2. Opened(queue') \subseteq Opened(queue)
    BY <2>1, QueueShrinks DEF TypeOK
  <2>3. Known' \subseteq Known
    BY <2>1, <2>2 DEF Known
  <2> QED
    BY <1>1, <1>19, <2>3 DEF WriteRaises
<1>20. CASE Tick
  BY <1>2, <1>20 DEF Tick
<1>21. CASE Restart
  <2>1. /\ positions' \in Recovered(db) /\ db' = db /\ queue' = <<>> /\ sig' = NoSignalPass
        /\ fills' \in {fills} \cup (IF sig.order = NoTrade THEN {} ELSE {fills \cup {sig.order}})
    BY <1>21 DEF Restart
  <2>2. /\ fills \subseteq fills' /\ \A f \in fills' : f.id =< Cardinality(fills')
        /\ \A f, g \in fills' : f.id = g.id => f = g
    <3>1. CASE fills' = fills
      BY <3>1 DEF Numbered
    <3>2. CASE sig.order # NoTrade /\ fills' = fills \cup {sig.order}
      BY <3>2, NextNumber DEF TypeOK, Numbered
    <3> QED
      BY <2>1, <3>1, <3>2
  <2>3. Opened(queue') = {} /\ sig'.order = NoTrade
    BY <2>1 DEF Opened, NoSignalPass
  <2>4. Known' \subseteq Known
    BY <2>1, <2>3 DEF Known
  <2>5. OpenTrades(db) \subseteq Known
    BY DEF OpenTrades, Known
  <2>6. \A k \in Key : positions'[k] # NoTrade =>
            positions'[k] \in OpenTrades(db) /\ positions'[k].key = k
    BY <2>1 DEF Recovered, Loaded
  <2> QED
    BY <2>2, <2>3, <2>4, <2>5, <2>6 DEF Numbered
<1>22. CASE UNCHANGED vars
  BY <1>2, <1>22 DEF vars
<1> QED
  BY <1>3, <1>4, <1>5, <1>6, <1>7, <1>8, <1>9, <1>10, <1>11, <1>12, <1>13, <1>14, <1>15,
     <1>16, <1>17, <1>18, <1>19, <1>20, <1>21, <1>22
  DEF Next, SignalLoop, SettlementLoop, Writer

\* The first state has no fills.
LEMMA NumberedInit == Init => Numbered
<1> SUFFICES ASSUME Init PROVE Numbered
  OBVIOUS
<1>1. /\ queue = <<>> /\ db = {} /\ fills = {} /\ positions = Empty /\ sig = NoSignalPass
  BY DEF Init
<1>2. Known = {}
  BY <1>1 DEF Opened, Known
<1> QED
  BY <1>1, <1>2 DEF Numbered, Empty, NoSignalPass

\* The invariant that the numbers are part of.
LEMMA FillsNumbered == Spec => []Numbered
<1>1. TypeOK /\ Coherent /\ Numbered /\ [Next]_vars => Numbered'
  BY NumberedStep
<1> QED
  BY <1>1, NumberedInit, Invariant, PTL DEF Spec

-----------------------------------------------------------------------------
(***************************************************************************)
(* Memory and the table, once the queue is worked off                      *)
(***************************************************************************)

\* A set of numbers has a least one.
LEMMA HasLeast == ASSUME NEW S \in SUBSET Nat, S # {} PROVE \E x \in S : \A y \in S : x =< y
<1> DEFINE R == OpToRel(<, Nat)
<1>1. IsWellFoundedOn(R, Nat)
  BY NatLessThanWellFounded
<1>2. \A x, y \in Nat : <<x, y>> \in R <=> x < y
  BY DEF OpToRel
<1> HIDE DEF R
<1>3. PICK x \in S : \A y \in S : ~(<<y, x>> \in R)
  BY <1>1, WFMin
<1>4. \A y \in S : ~(y < x)
  BY <1>2, <1>3
<1> QED
  BY <1>4

\* Of the writes that close a trade one is the last.
LEMMA LastCloseIs ==
    ASSUME NEW q, NEW t, NEW i, NEW n, i \in Nat, n \in Nat
    PROVE  /\ \A j \in LastClose(q, t, i, n) : j \in i..n /\ Closes(q[j], t)
           /\ \A j, k \in LastClose(q, t, i, n) : j = k
           /\ LastClose(q, t, i, n) = {} => \A j \in i..n : ~Closes(q[j], t)
<1>1. \A j \in LastClose(q, t, i, n) :
          j \in i..n /\ Closes(q[j], t) /\ \A m \in j + 1..n : ~Closes(q[m], t)
  BY Zenon DEF LastClose
<1>2. ASSUME NEW j \in LastClose(q, t, i, n), NEW k \in LastClose(q, t, i, n) PROVE ~(j < k)
  <2>1. j \in i..n /\ k \in i..n /\ Closes(q[k], t) /\ \A m \in j + 1..n : ~Closes(q[m], t)
    BY <1>1, Zenon
  <2>2. k \notin j + 1..n
    BY <2>1, Zenon
  <2> QED
    BY <2>1, <2>2
<1>3. ASSUME NEW j \in LastClose(q, t, i, n), NEW k \in LastClose(q, t, i, n) PROVE j = k
  <2>1. j \in i..n /\ k \in i..n
    BY <1>1, Zenon
  <2>2. ~(j < k) /\ ~(k < j)
    BY <1>2, Zenon
  <2> QED
    BY <2>1, <2>2
<1>4. ASSUME NEW j \in i..n, Closes(q[j], t) PROVE LastClose(q, t, i, n) # {}
  <2> DEFINE behind == {m \in Nat : m =< n /\ n - m \in i..n /\ Closes(q[n - m], t)}
  <2>1. n - j \in Nat /\ n - (n - j) = j /\ n - j =< n
    BY <1>4
  <2>2. n - j \in behind
    BY <1>4, <2>1
  <2>3. PICK x \in behind : \A y \in behind : x =< y
    BY <2>2, HasLeast
  <2>4. n - x \in i..n /\ Closes(q[n - x], t)
    BY <2>3
  <2>5. ASSUME NEW m \in (n - x) + 1..n, Closes(q[m], t) PROVE FALSE
    <3>1. m \in i..n /\ n - m \in Nat /\ n - (n - m) = m /\ n - m < x /\ n - m =< n
      BY <2>4
    <3>2. n - m \in behind
      BY <2>5, <3>1
    <3>3. x =< n - m
      BY <2>3, <3>2, Zenon
    <3> QED
      BY <3>1, <3>3
  <2> QED
    BY <2>4, <2>5, Zenon DEF LastClose
<1> QED
  BY <1>1, <1>3, <1>4, Zenon

\* What a row becomes: it stays, or it is closed as its last close says; its trade is the same.
LEMMA RowAfterIs ==
    ASSUME NEW q, NEW row, NEW i, NEW n, i \in Nat, n \in Nat
    PROVE  /\ LastClose(q, row.trade, i, n) = {} => RowAfter(row, q, i, n) = row
           /\ \A j \in LastClose(q, row.trade, i, n) :
                 RowAfter(row, q, i, n) = ClosedRow(row, q[j].id, q[j].at, q[j].pnl)
           /\ RowAfter(row, q, i, n).trade = row.trade
<1> DEFINE last == LastClose(q, row.trade, i, n)
           chosen == CHOOSE j \in last : TRUE
<1>1. RowAfter(row, q, i, n) =
          IF last = {} THEN row ELSE ClosedRow(row, q[chosen].id, q[chosen].at, q[chosen].pnl)
  BY Zenon DEF RowAfter
<1>2. \A j \in last : j = chosen
  BY LastCloseIs
<1>3. \A id, at, pnl : ClosedRow(row, id, at, pnl).trade = row.trade
  BY DEF ClosedRow
<1> HIDE DEF last, chosen
<1>4. \A j \in last : RowAfter(row, q, i, n) = ClosedRow(row, q[j].id, q[j].at, q[j].pnl)
  BY <1>1, <1>2, Zenon
<1>5. last = {} => RowAfter(row, q, i, n) = row
  BY <1>1
<1>6. RowAfter(row, q, i, n).trade = row.trade
  BY <1>1, <1>3
<1> QED
  BY <1>4, <1>5, <1>6 DEF last

\* With no writes left a row stays, and the table is as it is.
LEMMA RowAfterNone ==
    ASSUME NEW q, NEW row, NEW n \in Nat PROVE RowAfter(row, q, n + 1, n) = row
<1>1. n + 1..n = {}
  OBVIOUS
<1>2. LastClose(q, row.trade, n + 1, n) = {} /\ n + 1 \in Nat
  BY <1>1 DEF LastClose
<1> QED
  BY <1>2, RowAfterIs

\* A row of the table after n writes was there before, or was inserted by one of them.
LEMMA RowsAfterIs ==
    ASSUME NEW rows, NEW q, NEW n \in Nat, NEW x
    PROVE  x \in RowsAfter(rows, q, n) <=>
              \/ \E row \in rows : x = RowAfter(row, q, 1, n)
              \/ \E i \in 1..n : /\ q[i].op = "open"
                                 /\ x = RowAfter(OpenRow(q[i].trade), q, i + 1, n)
  BY Zenon DEF RowsAfter

LEMMA RowsAfterNone == ASSUME NEW rows, NEW q PROVE RowsAfter(rows, q, 0) = rows
<1>1. 1..0 = {} /\ 0 + 1 = 1
  OBVIOUS
<1>2. \A row : RowAfter(row, q, 1, 0) = row
  BY <1>1, RowAfterNone
<1>3. ASSUME NEW x PROVE x \in RowsAfter(rows, q, 0) <=> x \in rows
  <2>1. x \in RowsAfter(rows, q, 0) <=>
              \/ \E row \in rows : x = RowAfter(row, q, 1, 0)
              \/ \E i \in 1..0 : /\ q[i].op = "open"
                                 /\ x = RowAfter(OpenRow(q[i].trade), q, i + 1, 0)
    BY RowsAfterIs
  <2> QED
    BY <1>1, <1>2, <2>1, Zenon
<1> QED
  BY <1>3, Zenon

\* Two queues that agree up to n make the same rows of the first n writes.
LEMMA RowsAfterSame ==
    ASSUME NEW rows, NEW q, NEW r, NEW n \in Nat, \A i \in 1..n : q[i] = r[i]
    PROVE  RowsAfter(rows, q, n) = RowsAfter(rows, r, n)
<1>1. ASSUME NEW i \in 1..n + 1, NEW t PROVE LastClose(q, t, i, n) = LastClose(r, t, i, n)
  <2>1. \A j \in i..n : j \in 1..n /\ \A m \in j + 1..n : m \in 1..n
    OBVIOUS
  <2> QED
    BY <2>1 DEF LastClose
<1>2. ASSUME NEW i \in 1..n + 1, NEW row PROVE RowAfter(row, q, i, n) = RowAfter(row, r, i, n)
  <2>1. LastClose(q, row.trade, i, n) = LastClose(r, row.trade, i, n) /\ i \in Nat
    BY <1>1
  <2>2. \A j \in LastClose(q, row.trade, i, n) : j \in 1..n
    BY <2>1, LastCloseIs
  <2>3. CASE LastClose(q, row.trade, i, n) = {}
    <3>1. RowAfter(row, q, i, n) = row
      BY <2>1, <2>3, RowAfterIs
    <3>2. LastClose(r, row.trade, i, n) = {} /\ i \in Nat
      BY <2>1, <2>3
    <3>3. RowAfter(row, r, i, n) = row
      BY <3>2, RowAfterIs
    <3> QED
      BY <3>1, <3>3
  <2>4. ASSUME NEW j \in LastClose(q, row.trade, i, n)
        PROVE  RowAfter(row, q, i, n) = RowAfter(row, r, i, n)
    <3>1. RowAfter(row, q, i, n) = ClosedRow(row, q[j].id, q[j].at, q[j].pnl)
      BY <2>1, RowAfterIs
    <3>2. RowAfter(row, r, i, n) = ClosedRow(row, r[j].id, r[j].at, r[j].pnl)
      BY <2>1, RowAfterIs
    <3> QED
      BY <2>2, <3>1, <3>2, Zenon
  <2> QED
    BY <2>3, <2>4
<1>3. ASSUME NEW x PROVE x \in RowsAfter(rows, q, n) <=> x \in RowsAfter(rows, r, n)
  <2>1. x \in RowsAfter(rows, q, n) <=>
              \/ \E row \in rows : x = RowAfter(row, q, 1, n)
              \/ \E i \in 1..n : /\ q[i].op = "open"
                                 /\ x = RowAfter(OpenRow(q[i].trade), q, i + 1, n)
    BY RowsAfterIs
  <2>2. x \in RowsAfter(rows, r, n) <=>
              \/ \E row \in rows : x = RowAfter(row, r, 1, n)
              \/ \E i \in 1..n : /\ r[i].op = "open"
                                 /\ x = RowAfter(OpenRow(r[i].trade), r, i + 1, n)
    BY RowsAfterIs
  <2>3. 1 \in 1..n + 1 /\ \A i \in 1..n : i + 1 \in 1..n + 1
    OBVIOUS
  <2> QED
    BY <1>2, <2>1, <2>2, <2>3, Zenon
<1> QED
  BY <1>3, Zenon

\* A write at the end of the queue changes nothing before it.
LEMMA RowsBeforeAppend ==
    ASSUME NEW rows, NEW q \in Seq(Write), NEW write \in Write, NEW n \in 0..Len(q)
    PROVE  RowsAfter(rows, Append(q, write), n) = RowsAfter(rows, q, n)
<1> HIDE DEF Write
<1>1. n \in Nat /\ \A i \in 1..n : Append(q, write)[i] = q[i]
  OBVIOUS
<1> QED
  BY <1>1, RowsAfterSame

\* It is run on the table that the queue before it makes.
LEMMA RowsAfterAppend ==
    ASSUME NEW rows, NEW q \in Seq(Write), NEW write \in Write
    PROVE  /\ Len(Append(q, write)) = Len(q) + 1
           /\ RowsAfter(rows, Append(q, write), Len(q) + 1) =
                 Apply(RowsAfter(rows, q, Len(q)), write)
<1> DEFINE after == Append(q, write)
           N == Len(q)
           closed(row) == ClosedRow(row, write.id, write.at, write.pnl)
<1>1. /\ write.op = "open" \/ write.op = "close"
      /\ \A t : Closes(write, t) <=> write.op # "open" /\ write.id = t.id
  BY DEF OpenWrite, CloseWrite, Closes
<1> HIDE DEF Write
<1>2. N \in Nat /\ Len(after) = N + 1 /\ after[N + 1] = write /\ \A i \in 1..N : after[i] = q[i]
  OBVIOUS
<1> HIDE DEF after, N
<1>3. /\ 1..N + 1 = 1..N \cup {N + 1}
      /\ \A i \in 1..N + 1 : i..N + 1 = (i..N) \cup {N + 1} /\ i..N \subseteq 1..N
      /\ \A j \in 1..N : j + 1..N + 1 = (j + 1..N) \cup {N + 1} /\ j + 1..N \subseteq 1..N
      /\ (N + 1) + 1..N + 1 = {} /\ N + 1 \notin 1..N
  BY <1>2
<1>4. ASSUME NEW i \in 1..N + 1, NEW t, Closes(write, t)
      PROVE  N + 1 \in LastClose(after, t, i, N + 1)
  BY <1>2, <1>3, <1>4 DEF LastClose
<1>5. ASSUME NEW i \in 1..N + 1, NEW t, ~Closes(write, t)
      PROVE  LastClose(after, t, i, N + 1) = LastClose(q, t, i, N)
  BY <1>2, <1>3, <1>5 DEF LastClose
<1>6. ASSUME NEW i \in 1..N + 1, NEW row
      PROVE  RowAfter(row, after, i, N + 1) = IF Closes(write, row.trade) THEN closed(row)
                                              ELSE RowAfter(row, q, i, N)
  <2>1. i \in Nat /\ N + 1 \in Nat
    BY <1>2
  <2>2. CASE Closes(write, row.trade)
    <3>1. N + 1 \in LastClose(after, row.trade, i, N + 1)
      BY <1>4, <2>2
    <3> QED
      BY <1>2, <2>1, <2>2, <3>1, RowAfterIs
  <2>3. CASE ~Closes(write, row.trade) /\ LastClose(q, row.trade, i, N) = {}
    BY <1>2, <1>5, <2>1, <2>3, RowAfterIs
  <2>4. CASE ~Closes(write, row.trade) /\ LastClose(q, row.trade, i, N) # {}
    <3>1. PICK j : j \in LastClose(q, row.trade, i, N)
      BY <2>4
    <3>2. j \in LastClose(after, row.trade, i, N + 1) /\ j \in 1..N
      BY <1>2, <1>3, <1>5, <2>1, <2>4, <3>1, LastCloseIs
    <3>3. RowAfter(row, q, i, N) = ClosedRow(row, q[j].id, q[j].at, q[j].pnl)
      BY <1>2, <2>1, <3>1, RowAfterIs
    <3>4. RowAfter(row, after, i, N + 1) = ClosedRow(row, after[j].id, after[j].at, after[j].pnl)
      BY <2>1, <3>2, RowAfterIs
    <3> QED
      BY <1>2, <2>4, <3>2, <3>3, <3>4
  <2> QED
    BY <2>2, <2>3, <2>4
<1>7. \A x : x \in RowsAfter(rows, after, N + 1) <=>
              \/ \E row \in rows : x = RowAfter(row, after, 1, N + 1)
              \/ \E i \in 1..N + 1 : /\ after[i].op = "open"
                                     /\ x = RowAfter(OpenRow(after[i].trade), after, i + 1, N + 1)
  BY <1>2, RowsAfterIs
<1>8. \A x : x \in RowsAfter(rows, q, N) <=>
              \/ \E row \in rows : x = RowAfter(row, q, 1, N)
              \/ \E i \in 1..N : /\ q[i].op = "open"
                                 /\ x = RowAfter(OpenRow(q[i].trade), q, i + 1, N)
  BY <1>2, RowsAfterIs
<1>9. 1 \in 1..N + 1 /\ \A i \in 1..N : i \in 1..N + 1 /\ i + 1 \in 1..N + 1
  BY <1>2
<1>10. CASE write.op = "open"
  <2>1. \A i \in 1..N + 1 : \A row : RowAfter(row, after, i, N + 1) = RowAfter(row, q, i, N)
    BY <1>1, <1>6, <1>10
  <2>2. RowAfter(OpenRow(write.trade), after, (N + 1) + 1, N + 1) = OpenRow(write.trade)
    BY <1>2, RowAfterNone
  <2>3. ASSUME NEW x
        PROVE  x \in RowsAfter(rows, after, N + 1)
                  <=> x \in RowsAfter(rows, q, N) \/ x = OpenRow(write.trade)
    <3>1. (\E row \in rows : x = RowAfter(row, after, 1, N + 1))
             <=> \E row \in rows : x = RowAfter(row, q, 1, N)
      BY <1>9, <2>1, Zenon
    <3>2. \A i \in 1..N : /\ after[i] = q[i]
                         /\ RowAfter(OpenRow(after[i].trade), after, i + 1, N + 1)
                              = RowAfter(OpenRow(q[i].trade), q, i + 1, N)
      BY <1>2, <1>9, <2>1, Zenon
    <3>3. (\E i \in 1..N + 1 : /\ after[i].op = "open"
                              /\ x = RowAfter(OpenRow(after[i].trade), after, i + 1, N + 1))
             <=> \/ \E i \in 1..N : /\ q[i].op = "open"
                                    /\ x = RowAfter(OpenRow(q[i].trade), q, i + 1, N)
                 \/ x = OpenRow(write.trade)
      BY <1>2, <1>3, <1>10, <2>2, <3>2
    <3> QED
      BY <1>7, <1>8, <3>1, <3>3, Zenon
  <2>4. Apply(RowsAfter(rows, q, N), write) = RowsAfter(rows, q, N) \cup {OpenRow(write.trade)}
    BY <1>10 DEF Apply
  <2> QED
    BY <1>2, <2>3, <2>4 DEF after, N
<1>11. CASE write.op # "open"
  <2>1. ASSUME NEW i \in 1..N + 1, NEW row
        PROVE  RowAfter(row, after, i, N + 1) = closed(RowAfter(row, q, i, N))
    <3>1. RowAfter(row, q, i, N).trade = row.trade
      BY <1>2, RowAfterIs
    <3> QED
      BY <1>1, <1>6, <1>11, <3>1 DEF ClosedRow
  <2>2. ASSUME NEW x
        PROVE  x \in RowsAfter(rows, after, N + 1)
                  <=> \E y \in RowsAfter(rows, q, N) : x = closed(y)
    <3>1. (\E row \in rows : x = RowAfter(row, after, 1, N + 1))
             <=> \E row \in rows : x = closed(RowAfter(row, q, 1, N))
      BY <1>9, <2>1, Zenon
    <3>2. \A i \in 1..N : /\ after[i] = q[i]
                         /\ RowAfter(OpenRow(after[i].trade), after, i + 1, N + 1)
                              = closed(RowAfter(OpenRow(q[i].trade), q, i + 1, N))
      BY <1>2, <1>9, <2>1, Zenon
    <3>3. (\E i \in 1..N + 1 : /\ after[i].op = "open"
                              /\ x = RowAfter(OpenRow(after[i].trade), after, i + 1, N + 1))
             <=> \E i \in 1..N : /\ q[i].op = "open"
                                /\ x = closed(RowAfter(OpenRow(q[i].trade), q, i + 1, N))
      BY <1>2, <1>3, <1>11, <3>2
    <3>4. (\E y \in RowsAfter(rows, q, N) : x = closed(y)) <=>
             \/ \E row \in rows : x = closed(RowAfter(row, q, 1, N))
             \/ \E i \in 1..N : /\ q[i].op = "open"
                                /\ x = closed(RowAfter(OpenRow(q[i].trade), q, i + 1, N))
      BY <1>8, Zenon
    <3> QED
      BY <1>7, <3>1, <3>3, <3>4, Zenon
  <2>3. Apply(RowsAfter(rows, q, N), write) = {closed(y) : y \in RowsAfter(rows, q, N)}
    BY <1>11 DEF Apply
  <2> QED
    BY <1>2, <2>2, <2>3 DEF after, N
<1> QED
  BY <1>10, <1>11

\* Running the first write does not change the table that it and the n that follow make.
LEMMA RowsAfterTaken ==
    ASSUME NEW rows, NEW q \in Seq(Write), q # <<>>, NEW n \in 0..(Len(q) - 1)
    PROVE  RowsAfter(Apply(rows, Head(q)), Tail(q), n) = RowsAfter(rows, q, n + 1)
<1> DEFINE rest == Tail(q)
           first == Head(q)
           closed(row) == ClosedRow(row, first.id, first.at, first.pnl)
<1>1. /\ first \in Write
      /\ n \in Nat /\ n + 1 =< Len(q) /\ first = q[1] /\ \A i \in 1..n : rest[i] = q[i + 1]
  <2> HIDE DEF Write
  <2> QED
    OBVIOUS
<1>2. /\ first.op = "open" \/ first.op = "close"
      /\ \A t : Closes(first, t) <=> first.op # "open" /\ first.id = t.id
  BY <1>1 DEF OpenWrite, CloseWrite, Closes
<1> HIDE DEF Write, rest, first
<1>3. ASSUME NEW i \in 1..n + 1, NEW t, NEW j \in LastClose(rest, t, i, n)
      PROVE  j + 1 \in LastClose(q, t, i + 1, n + 1) /\ j \in 1..n
  <2>1. j \in i..n /\ Closes(rest[j], t) /\ \A m \in j + 1..n : ~Closes(rest[m], t)
    BY <1>3 DEF LastClose
  <2>2. j \in 1..n /\ j + 1 \in i + 1..n + 1 /\ Closes(q[j + 1], t)
    BY <1>1, <2>1
  <2>3. ASSUME NEW m \in (j + 1) + 1..n + 1 PROVE ~Closes(q[m], t)
    <3>1. m - 1 \in j + 1..n /\ m - 1 \in 1..n /\ (m - 1) + 1 = m
      BY <1>1, <2>2
    <3> QED
      BY <1>1, <2>1, <3>1
  <2> QED
    BY <2>2, <2>3 DEF LastClose
<1>4. ASSUME NEW i \in 1..n + 1, NEW t, LastClose(rest, t, i, n) = {}
      PROVE  LastClose(q, t, i + 1, n + 1) = {}
  <2>1. \A j \in i..n : ~Closes(rest[j], t)
    <3>1. i \in Nat
      BY <1>1
    <3> QED
      BY <1>1, <1>4, <3>1, LastCloseIs
  <2>2. ASSUME NEW m \in i + 1..n + 1 PROVE ~Closes(q[m], t)
    <3>1. m - 1 \in i..n /\ m - 1 \in 1..n /\ (m - 1) + 1 = m
      BY <1>1
    <3> QED
      BY <1>1, <2>1, <3>1
  <2> QED
    BY <2>2 DEF LastClose
<1>5. ASSUME NEW i \in 1..n + 1, NEW row
      PROVE  RowAfter(row, rest, i, n) = RowAfter(row, q, i + 1, n + 1)
  <2>1. i \in Nat /\ i + 1 \in Nat /\ n + 1 \in Nat
    BY <1>1
  <2>2. CASE LastClose(rest, row.trade, i, n) = {}
    BY <1>1, <1>4, <2>1, <2>2, RowAfterIs
  <2>3. ASSUME NEW j \in LastClose(rest, row.trade, i, n)
        PROVE  RowAfter(row, rest, i, n) = RowAfter(row, q, i + 1, n + 1)
    <3>1. j + 1 \in LastClose(q, row.trade, i + 1, n + 1) /\ rest[j] = q[j + 1]
      BY <1>1, <1>3
    <3>2. RowAfter(row, rest, i, n) = ClosedRow(row, rest[j].id, rest[j].at, rest[j].pnl)
      BY <1>1, <2>1, RowAfterIs
    <3>3. RowAfter(row, q, i + 1, n + 1) = ClosedRow(row, q[j + 1].id, q[j + 1].at, q[j + 1].pnl)
      BY <2>1, <3>1, RowAfterIs
    <3> QED
      BY <3>1, <3>2, <3>3, Zenon
  <2> QED
    BY <2>2, <2>3
<1>6. ASSUME NEW row
      PROVE  RowAfter(row, q, 1, n + 1) =
                RowAfter(IF Closes(first, row.trade) THEN closed(row) ELSE row, q, 2, n + 1)
  <2> DEFINE start == IF Closes(first, row.trade) THEN closed(row) ELSE row
  <2>1. start.trade = row.trade
    BY DEF ClosedRow
  <2>2. n + 1 \in Nat /\ 1 \in Nat /\ 2 \in Nat /\ 1 + 1 = 2 /\ 1..n + 1 = {1} \cup 2..n + 1
    BY <1>1
  <2>3. ASSUME NEW j \in LastClose(q, row.trade, 2, n + 1)
        PROVE  RowAfter(row, q, 1, n + 1) = RowAfter(start, q, 2, n + 1)
    <3>1. j \in LastClose(q, row.trade, 1, n + 1)
      BY <2>2, <2>3 DEF LastClose
    <3>2. RowAfter(row, q, 1, n + 1) = ClosedRow(row, q[j].id, q[j].at, q[j].pnl)
      BY <2>2, <3>1, RowAfterIs
    <3>3. RowAfter(start, q, 2, n + 1) = ClosedRow(start, q[j].id, q[j].at, q[j].pnl)
      BY <2>1, <2>2, RowAfterIs
    <3>4. q[j].id = row.trade.id
      BY <2>2, LastCloseIs DEF Closes
    <3> QED
      BY <2>1, <3>2, <3>3, <3>4 DEF ClosedRow
  <2>4. CASE LastClose(q, row.trade, 2, n + 1) = {}
    <3>1. RowAfter(start, q, 2, n + 1) = start
      BY <2>1, <2>2, <2>4, RowAfterIs
    <3>2. \A j \in 2..n + 1 : ~Closes(q[j], row.trade)
      BY <2>2, <2>4, LastCloseIs
    <3>3. CASE Closes(first, row.trade)
      <4>1. 1 \in LastClose(q, row.trade, 1, n + 1)
        BY <1>1, <2>2, <3>2, <3>3 DEF LastClose
      <4>2. RowAfter(row, q, 1, n + 1) = closed(row)
        BY <1>1, <2>2, <4>1, RowAfterIs
      <4> QED
        BY <3>1, <3>3, <4>2
    <3>4. CASE ~Closes(first, row.trade)
      <4>1. LastClose(q, row.trade, 1, n + 1) = {}
        BY <1>1, <2>2, <3>2, <3>4 DEF LastClose
      <4> QED
        BY <2>2, <3>1, <3>4, <4>1, RowAfterIs
    <3> QED
      BY <3>3, <3>4
  <2> QED
    BY <2>3, <2>4
<1>7. \A x : x \in RowsAfter(Apply(rows, first), rest, n) <=>
              \/ \E row \in Apply(rows, first) : x = RowAfter(row, rest, 1, n)
              \/ \E i \in 1..n : /\ rest[i].op = "open"
                                 /\ x = RowAfter(OpenRow(rest[i].trade), rest, i + 1, n)
  BY Zenon DEF RowsAfter
<1>8. \A x : x \in RowsAfter(rows, q, n + 1) <=>
              \/ \E row \in rows : x = RowAfter(row, q, 1, n + 1)
              \/ \E i \in 1..n + 1 : /\ q[i].op = "open"
                                     /\ x = RowAfter(OpenRow(q[i].trade), q, i + 1, n + 1)
  BY Zenon DEF RowsAfter
<1>9. \A row : RowAfter(row, rest, 1, n) = RowAfter(row, q, 2, n + 1)
  <2>1. 1 \in 1..n + 1 /\ 1 + 1 = 2
    BY <1>1
  <2> QED
    BY <1>5, <2>1
<1>10. ASSUME NEW x
       PROVE  (\E i \in 1..n : /\ rest[i].op = "open"
                               /\ x = RowAfter(OpenRow(rest[i].trade), rest, i + 1, n))
                <=> \E i \in 2..n + 1 : /\ q[i].op = "open"
                                        /\ x = RowAfter(OpenRow(q[i].trade), q, i + 1, n + 1)
  <2>1. ASSUME NEW i \in 1..n
        PROVE  /\ i + 1 \in 2..n + 1 /\ rest[i] = q[i + 1]
               /\ \A row : RowAfter(row, rest, i + 1, n) = RowAfter(row, q, (i + 1) + 1, n + 1)
    <3>1. i + 1 \in 2..n + 1 /\ i + 1 \in 1..n + 1
      BY <1>1
    <3> QED
      BY <1>1, <1>5, <3>1
  <2>2. \A i \in 2..n + 1 : i - 1 \in 1..n /\ (i - 1) + 1 = i
    BY <1>1
  <2>3. ASSUME NEW i \in 2..n + 1, q[i].op = "open",
               x = RowAfter(OpenRow(q[i].trade), q, i + 1, n + 1)
        PROVE  \E k \in 1..n : /\ rest[k].op = "open"
                               /\ x = RowAfter(OpenRow(rest[k].trade), rest, k + 1, n)
    <3>1. i - 1 \in 1..n /\ (i - 1) + 1 = i
      BY <2>2
    <3>2. /\ rest[i - 1] = q[i]
          /\ \A row : RowAfter(row, rest, (i - 1) + 1, n) = RowAfter(row, q, i + 1, n + 1)
      BY <2>1, <3>1
    <3> QED
      BY <2>3, <3>1, <3>2, Zenon
  <2>4. ASSUME NEW i \in 1..n, rest[i].op = "open",
               x = RowAfter(OpenRow(rest[i].trade), rest, i + 1, n)
        PROVE  \E k \in 2..n + 1 : /\ q[k].op = "open"
                                   /\ x = RowAfter(OpenRow(q[k].trade), q, k + 1, n + 1)
    BY <2>1, <2>4, Zenon
  <2> QED
    BY <2>3, <2>4, Zenon
<1>11. 1..n + 1 = {1} \cup 2..n + 1 /\ 1 + 1 = 2
  BY <1>1
<1>12. CASE first.op = "open"
  <2>1. Apply(rows, first) = rows \cup {OpenRow(first.trade)}
    BY <1>12 DEF Apply
  <2>2. \A row : RowAfter(row, q, 1, n + 1) = RowAfter(row, q, 2, n + 1)
    BY <1>2, <1>6, <1>12
  <2>3. ASSUME NEW x
        PROVE  x \in RowsAfter(Apply(rows, first), rest, n) <=> x \in RowsAfter(rows, q, n + 1)
    <3>1. (\E row \in Apply(rows, first) : x = RowAfter(row, rest, 1, n)) <=>
             \/ \E row \in rows : x = RowAfter(row, q, 1, n + 1)
             \/ x = RowAfter(OpenRow(first.trade), q, 2, n + 1)
      BY <1>9, <2>1, <2>2, Zenon
    <3>2. (\E i \in 1..n + 1 : /\ q[i].op = "open"
                              /\ x = RowAfter(OpenRow(q[i].trade), q, i + 1, n + 1)) <=>
             \/ \E i \in 2..n + 1 : /\ q[i].op = "open"
                                    /\ x = RowAfter(OpenRow(q[i].trade), q, i + 1, n + 1)
             \/ x = RowAfter(OpenRow(first.trade), q, 2, n + 1)
      BY <1>1, <1>11, <1>12
    <3> QED
      BY <1>7, <1>8, <1>10, <3>1, <3>2, Zenon
  <2> QED
    BY <2>3, Zenon DEF rest, first
<1>13. CASE first.op # "open"
  <2>1. Apply(rows, first) = {closed(row) : row \in rows}
    BY <1>13 DEF Apply
  <2>2. \A row : RowAfter(row, q, 1, n + 1) = RowAfter(closed(row), q, 2, n + 1)
    <3>1. \A row : ~Closes(first, row.trade) => closed(row) = row
      BY <1>2, <1>13 DEF ClosedRow
    <3> QED
      BY <1>6, <3>1
  <2>3. ASSUME NEW x
        PROVE  x \in RowsAfter(Apply(rows, first), rest, n) <=> x \in RowsAfter(rows, q, n + 1)
    <3>1. (\E row \in Apply(rows, first) : x = RowAfter(row, rest, 1, n))
             <=> \E row \in rows : x = RowAfter(row, q, 1, n + 1)
      BY <1>9, <2>1, <2>2, Zenon
    <3>2. (\E i \in 1..n + 1 : /\ q[i].op = "open"
                              /\ x = RowAfter(OpenRow(q[i].trade), q, i + 1, n + 1)) <=>
             \/ \E i \in 2..n + 1 : /\ q[i].op = "open"
                                    /\ x = RowAfter(OpenRow(q[i].trade), q, i + 1, n + 1)
      BY <1>1, <1>11, <1>13
    <3> QED
      BY <1>7, <1>8, <1>10, <3>1, <3>2, Zenon
  <2> QED
    BY <2>3, Zenon DEF rest, first
<1> QED
  BY <1>12, <1>13

\* What is open in the table after one write
LEMMA OpenAfterWrite ==
    ASSUME NEW rows, NEW write \in Write, NEW t
    PROVE  t \in OpenTrades(Apply(rows, write)) <=>
              \/ t \in OpenTrades(rows) /\ ~Closes(write, t)
              \/ write.op = "open" /\ write.trade = t
<1>1. CASE write.op = "open"
  <2>1. /\ Apply(rows, write) = rows \cup {OpenRow(write.trade)} /\ ~Closes(write, t)
        /\ OpenRow(write.trade).status = "open" /\ OpenRow(write.trade).trade = write.trade
    BY <1>1 DEF Apply, OpenRow, Closes
  <2> QED
    BY <1>1, <2>1 DEF OpenTrades
<1>2. CASE write.op # "open"
  <2>1. /\ Apply(rows, write) = {ClosedRow(row, write.id, write.at, write.pnl) : row \in rows}
        /\ Closes(write, t) <=> write.id = t.id
    BY <1>2 DEF Apply, Closes, OpenWrite, CloseWrite
  <2>2. \A row : IF row.trade.id = write.id
                 THEN ClosedRow(row, write.id, write.at, write.pnl).status = "closed"
                 ELSE ClosedRow(row, write.id, write.at, write.pnl) = row
    BY DEF ClosedRow
  <2>3. \A row \in Apply(rows, write) :
            row.status = "open" => row \in rows /\ row.trade.id # write.id
    BY <2>1, <2>2
  <2>4. \A row \in rows : row.trade.id # write.id => row \in Apply(rows, write)
    BY <2>1, <2>2
  <2> QED
    BY <1>2, <2>1, <2>3, <2>4 DEF OpenTrades
<1> QED
  BY <1>1, <1>2

\* The trades that are open after n writes
OpenAfter(rows, q, n) == OpenTrades(RowsAfter(rows, q, n))

LEMMA OpenAfterNone ==
    ASSUME NEW rows, NEW q
    PROVE  OpenAfter(rows, q, 0) = OpenTrades(rows)
  BY RowsAfterNone DEF OpenAfter

LEMMA OpenBeforeAppend ==
    ASSUME NEW rows, NEW q \in Seq(Write), NEW write \in Write, NEW n \in 0..Len(q)
    PROVE  OpenAfter(rows, Append(q, write), n) = OpenAfter(rows, q, n)
  BY RowsBeforeAppend DEF OpenAfter

LEMMA OpenAfterAppend ==
    ASSUME NEW rows, NEW q \in Seq(Write), NEW write \in Write
    PROVE  /\ Len(Append(q, write)) = Len(q) + 1
           /\ \A t : t \in OpenAfter(rows, Append(q, write), Len(q) + 1) <=>
                     \/ t \in OpenAfter(rows, q, Len(q)) /\ ~Closes(write, t)
                     \/ write.op = "open" /\ write.trade = t
  BY RowsAfterAppend, OpenAfterWrite DEF OpenAfter

LEMMA OpenAfterTaken ==
    ASSUME NEW rows, NEW q \in Seq(Write), q # <<>>, NEW n \in 0..(Len(q) - 1)
    PROVE  OpenAfter(Apply(rows, Head(q)), Tail(q), n) = OpenAfter(rows, q, n + 1)
  BY RowsAfterTaken DEF OpenAfter

\* The positions that are held, and the invariant: as long as no write is lost, what is
\* open once the queue is worked off is what memory holds, and at no time before then are
\* two trades of one window open in the table.
HeldTrades == {positions[k] : k \in Held}

LogInv ==
    lost = 0 =>
        /\ \A n \in 0..Len(queue) : \A t, u \in OpenAfter(db, queue, n) : t.key = u.key => t = u
        /\ OpenAfter(db, queue, Len(queue)) = HeldTrades

\* A write that opens or closes a trade keeps the invariant when memory does the same.
LEMMA LogGrows ==
    ASSUME queue \in Seq(Write), LogInv, NEW write \in Write, Submit(write), db' = db,
           lost' = 0 => lost = 0,
           HeldTrades' = IF write.op = "open" THEN HeldTrades \cup {write.trade}
                         ELSE {t \in HeldTrades : t.id # write.id},
           \A t, u \in HeldTrades' : t.key = u.key => t = u
    PROVE  LogInv'
<1> SUFFICES ASSUME lost' = 0
             PROVE  /\ \A n \in 0..Len(queue') : \A t, u \in OpenAfter(db, queue', n) :
                                                    t.key = u.key => t = u
                    /\ OpenAfter(db, queue', Len(queue')) = HeldTrades'
  BY Zenon DEF LogInv
<1>1. CASE queue' = Append(queue, write)
  <2>1. /\ \A n \in 0..Len(queue) : \A t, u \in OpenAfter(db, queue, n) : t.key = u.key => t = u
        /\ OpenAfter(db, queue, Len(queue)) = HeldTrades
    BY DEF LogInv
  <2>2. \A n \in 0..Len(queue) : OpenAfter(db, queue', n) = OpenAfter(db, queue, n)
    BY <1>1, OpenBeforeAppend
  <2>3. Len(queue') = Len(queue) + 1
    BY <1>1, OpenAfterAppend
  <2>4. OpenAfter(db, queue', Len(queue) + 1) = HeldTrades'
    <3>1. \A t : t \in OpenAfter(db, Append(queue, write), Len(queue) + 1) <=>
                    \/ t \in OpenAfter(db, queue, Len(queue)) /\ ~Closes(write, t)
                    \/ write.op = "open" /\ write.trade = t
      BY OpenAfterAppend, ZenonT(60)
    <3>2. \A t : Closes(write, t) <=> write.op # "open" /\ write.id = t.id
      BY DEF Closes, OpenWrite, CloseWrite
    <3>3. \A t : t \in HeldTrades' <=> \/ t \in HeldTrades /\ ~Closes(write, t)
                                       \/ write.op = "open" /\ write.trade = t
      BY <3>2
    <3> QED
      BY <1>1, <2>1, <3>1, <3>3, Zenon
  <2>5. \A n \in 0..Len(queue') : n \in 0..Len(queue) \/ n = Len(queue) + 1
    <3>1. Len(queue) \in Nat
      <4> HIDE DEF Write
      <4> QED
        OBVIOUS
    <3> HIDE DEF HeldTrades, Write
    <3> QED
      BY <2>3, <3>1
  <2> QED
    BY <2>1, <2>2, <2>3, <2>4, <2>5, Zenon
<1>2. CASE lost' = lost + 1
  BY <1>2
<1> QED
  BY <1>1, <1>2 DEF Submit

\* A position that is opened is put on the log.
LEMMA LogOpens ==
    ASSUME TypeOK, Numbered, LogInv, NEW k \in Key, NEW trade \in Trade, trade.key = k,
           positions[k] = NoTrade, OpenPosition(k, trade), db' = db
    PROVE  LogInv'
<1> DEFINE write == [op |-> "open", trade |-> trade]
<1>1. positions' = [positions EXCEPT ![k] = trade] /\ Submit(write)
  BY DEF OpenPosition
<1>2. write \in Write /\ write.op = "open" /\ write.trade = trade
  BY DEF OpenWrite
<1> HIDE DEF write
<1>3. positions'[k] = trade /\ \A x \in Key \ {k} : positions'[x] = positions[x]
  BY <1>1 DEF TypeOK
<1>4. HeldTrades' = HeldTrades \cup {trade}
  BY <1>3, NoTradeAssumption DEF HeldTrades, Held
<1>5. \A t \in HeldTrades' : t.key \in Key /\ positions'[t.key] = t
  BY <1>3 DEF HeldTrades, Held, Numbered
<1>6. lost' = 0 => lost = 0
  BY <1>1 DEF Submit, TypeOK
<1> QED
  BY <1>1, <1>2, <1>4, <1>5, <1>6, LogGrows DEF TypeOK

\* So is one that is settled.
LEMMA LogCloses ==
    ASSUME TypeOK, Numbered, SnapshotCurrent, LogInv, NEW k \in Key, NEW won \in BOOLEAN,
           stl.todo[k] # NoTrade, Settle(k, won), db' = db
    PROVE  LogInv'
<1> DEFINE position == stl.todo[k]
           pnl == SettlementPnl(position, won)
           write == [op |-> "close", id |-> position.id, at |-> now, pnl |-> pnl]
<1>1. position \in Trade /\ position.id \in Nat /\ now \in Nat /\ positions[k] = position
  BY DEF TypeOK, Trade, SnapshotCurrent
<1>2. pnl \in Int
  BY <1>1, RiskAssumption, BotAssumption DEF Trade, SettlementPnl
<1>3. write \in Write /\ write.op # "open" /\ write.id = position.id
  <2> HIDE DEF pnl
  <2> QED
    BY <1>1, <1>2 DEF CloseWrite
<1>4. positions' = [positions EXCEPT ![k] = NoTrade] /\ Submit(write)
  BY DEF Settle
<1> HIDE DEF write, position
<1>5. positions'[k] = NoTrade /\ \A x \in Key \ {k} : positions'[x] = positions[x]
  BY <1>4 DEF TypeOK
<1>6. position \in fills /\ HeldTrades \subseteq fills
  BY <1>1, NoTradeAssumption DEF Numbered, HeldTrades, Held
<1>7. \A x \in Key \ {k} : positions[x] # NoTrade => positions[x].id # position.id
  BY <1>1, <1>6, NoTradeAssumption DEF Numbered
<1>8. HeldTrades' = {t \in HeldTrades : t.id # write.id}
  BY <1>1, <1>3, <1>5, <1>7 DEF HeldTrades, Held
<1>9. \A t, u \in HeldTrades' : t.key = u.key => t = u
  BY <1>5 DEF HeldTrades, Held, Numbered
<1>10. lost' = 0 => lost = 0
  BY <1>4 DEF Submit, TypeOK
<1> QED
  BY <1>3, <1>4, <1>8, <1>9, <1>10, LogGrows DEF TypeOK

\* A write that is committed was the next of the log.
LEMMA LogTaken ==
    ASSUME queue \in Seq(Write), queue # <<>>, LogInv,
           db' = Apply(db, Head(queue)), queue' = Tail(queue),
           positions' = positions, lost' = lost
    PROVE  LogInv'
<1>1. Len(queue) \in Nat /\ Len(queue') = Len(queue) - 1 /\ Len(queue) > 0
  <2> HIDE DEF Write
  <2> QED
    OBVIOUS
<1>2. \A n \in 0..Len(queue') : OpenAfter(db', queue', n) = OpenAfter(db, queue, n + 1)
  BY <1>1, OpenAfterTaken
<1>3. \A n \in 0..Len(queue') : n + 1 \in 0..Len(queue)
  BY <1>1
<1>4. Len(queue') + 1 = Len(queue) /\ Len(queue') \in 0..Len(queue')
  BY <1>1
<1>5. HeldTrades' = HeldTrades
  BY DEF HeldTrades, Held
<1> SUFFICES ASSUME lost' = 0
             PROVE  /\ \A n \in 0..Len(queue') : \A t, u \in OpenAfter(db', queue', n) :
                                                    t.key = u.key => t = u
                    /\ OpenAfter(db', queue', Len(queue')) = HeldTrades'
  BY Zenon DEF LogInv
<1>6. /\ \A n \in 0..Len(queue) : \A t, u \in OpenAfter(db, queue, n) : t.key = u.key => t = u
      /\ OpenAfter(db, queue, Len(queue)) = HeldTrades
  BY DEF LogInv
<1>7. ASSUME NEW n \in 0..Len(queue'), NEW t \in OpenAfter(db', queue', n),
             NEW u \in OpenAfter(db', queue', n), t.key = u.key
      PROVE  t = u
  <2>1. n + 1 \in 0..Len(queue) /\ OpenAfter(db', queue', n) = OpenAfter(db, queue, n + 1)
    BY <1>2, <1>3
  <2>2. t \in OpenAfter(db, queue, n + 1) /\ u \in OpenAfter(db, queue, n + 1)
    BY <2>1
  <2> QED
    BY <1>6, <1>7, <2>1, <2>2, Zenon
<1>8. OpenAfter(db', queue', Len(queue')) = OpenAfter(db, queue, Len(queue))
  BY <1>2, <1>4, Zenon
<1> QED
  BY <1>5, <1>6, <1>7, <1>8, Zenon

\* A restart holds what is open in the table, of which the writes that it lost would have
\* made what was held before.
LEMMA LogRestarts ==
    ASSUME TypeOK, LogInv, Restart
    PROVE  LogInv'
<1>1. positions' \in Recovered(db) /\ db' = db /\ queue' = <<>> /\ lost' = lost
  BY DEF Restart
<1> SUFFICES ASSUME lost = 0
             PROVE  /\ \A n \in 0..Len(queue') : \A t, u \in OpenAfter(db, queue', n) :
                                                    t.key = u.key => t = u
                    /\ OpenAfter(db, queue', Len(queue')) = HeldTrades'
  BY <1>1, ZenonT(60) DEF LogInv
<1>2. Len(queue') = 0 /\ 0..0 = {0} /\ OpenAfter(db, queue', 0) = OpenTrades(db)
  BY <1>1, OpenAfterNone
<1>3. 0 \in 0..Len(queue)
  <2>1. queue \in Seq(Write)
    BY DEF TypeOK
  <2> HIDE DEF Write
  <2> QED
    BY <2>1
<1>4. \A t, u \in OpenTrades(db) : t.key = u.key => t = u
  BY <1>3, OpenAfterNone, Zenon DEF LogInv
<1>5. OpenTrades(db) = HeldTrades'
  <2>1. OpenTrades(db) \subseteq Trade /\ \A t \in Trade : t.key \in Key
    BY DEF OpenTrades, TypeOK, Row, Trade
  <2>2. \A k \in Key : positions'[k] # NoTrade =>
            positions'[k] \in OpenTrades(db) /\ positions'[k].key = k
    BY <1>1 DEF Recovered, Loaded
  <2>3. \A k \in Key : positions'[k] = NoTrade => \A t \in OpenTrades(db) : t.key # k
    BY <1>1 DEF Recovered, Loaded
  <2>4. ASSUME NEW t \in OpenTrades(db)
        PROVE  t.key \in Key /\ positions'[t.key] # NoTrade /\ positions'[t.key] = t
    BY <1>4, <2>1, <2>2, <2>3
  <2> QED
    BY <2>2, <2>4 DEF HeldTrades, Held
<1> QED
  BY <1>2, <1>4, <1>5, Zenon

\* Every step keeps the invariant, in every mode of the bot.
LEMMA LogStep ==
    ASSUME TypeOK, Coherent, Safe, Numbered, LogInv, [Next]_vars
    PROVE  LogInv'
<1> USE DEF memory, disk, world, history
<1>1. ASSUME positions' = positions, db' = db, queue' = queue, lost' = lost
      PROVE  LogInv'
  <2>1. HeldTrades' = HeldTrades
    BY <1>1 DEF HeldTrades, Held
  <2> QED
    BY <1>1, <2>1, Zenon DEF LogInv
<1>2. CASE PaperOrder
  <2>1. PICK k \in sig.todo : \E order \in Orders(k) : OpenPosition(k, order)
    BY <1>2 DEF PaperOrder
  <2>2. PICK order \in Orders(k) : OpenPosition(k, order)
    BY <2>1
  <2>3. k \in Key
    BY <2>1 DEF TypeOK
  <2>4. order \in Trade /\ order.key = k /\ positions[k] = NoTrade
    BY <2>3, OrdersType
  <2> QED
    BY <1>2, <2>2, <2>3, <2>4, LogOpens DEF PaperOrder
<1>3. CASE LiveMatched
  <2>1. PICK trade \in Trade :
          /\ trade.key = sig.order.key /\ trade.id = sig.order.id
          /\ OpenPosition(sig.order.key, trade)
    BY <1>3, FillOfOrder
  <2>2. /\ sig.order # NoTrade /\ sig.order.key \in Key
        /\ positions[sig.order.key] = NoTrade
    BY <1>3 DEF LiveMatched, Coherent, TypeOK, Trade, Safe, OrderReplacesNothing
  <2> QED
    BY <1>3, <2>1, <2>2, LogOpens DEF LiveMatched
<1>4. CASE SettlePaper
  <2>1. PICK k \in Key, won \in BOOLEAN : Due(k) /\ Settle(k, won)
    BY <1>4 DEF SettlePaper
  <2> QED
    BY <1>4, <2>1, LogCloses DEF SettlePaper, Due, Safe
<1>5. CASE SettleFetched
  <2>1. PICK won \in BOOLEAN : Settle(stl.at, won)
    BY <1>5 DEF SettleFetched
  <2>2. stl.at \in Key /\ stl.todo[stl.at] # NoTrade
    BY <1>5 DEF SettleFetched, Coherent
  <2> QED
    BY <1>5, <2>1, <2>2, LogCloses DEF SettleFetched, Safe
<1>6. CASE Written
  BY <1>6, LogTaken DEF Written, Coherent, TypeOK
<1>7. CASE WriteRaises
  <2>1. CASE queue' = queue /\ lost' = lost
    BY <1>1, <1>7, <2>1 DEF WriteRaises
  <2>2. CASE lost' = lost + 1
    BY <2>2 DEF LogInv, TypeOK
  <2> QED
    BY <1>7, <2>1, <2>2 DEF WriteRaises
<1>8. CASE Restart
  BY <1>8, LogRestarts
<1>9. CASE \/ SignalPass \/ SignalPassEnds \/ LiveOrder \/ LiveUnmatched \/ LiveRaises
           \/ SignalNotified
  BY <1>1, <1>9 DEF SignalPass, SignalPassEnds, LiveOrder, LiveUnmatched, LiveRaises,
                    SignalNotified
<1>10. CASE \/ SettlePass \/ SettlePassEnds \/ FetchResolution \/ FetchRaises
            \/ SettleNotified
  BY <1>1, <1>10 DEF SettlePass, SettlePassEnds, FetchResolution, FetchRaises, SettleNotified
<1>11. CASE WriterTakes \/ Tick \/ UNCHANGED vars
  BY <1>1, <1>11 DEF WriterTakes, Tick, vars
<1> QED
  BY <1>2, <1>3, <1>4, <1>5, <1>6, <1>7, <1>8, <1>9, <1>10, <1>11
  DEF Next, SignalLoop, SettlementLoop, Writer

\* The first state.
LEMMA LogInit == Init => LogInv
<1> SUFFICES ASSUME Init PROVE LogInv
  OBVIOUS
<1>1. queue = <<>> /\ db = {} /\ positions = Empty
  BY DEF Init
<1>2. Len(queue) = 0 /\ 0..0 = {0} /\ OpenTrades(db) = {} /\ HeldTrades = {}
  BY <1>1 DEF OpenTrades, HeldTrades, Held, Empty
<1>3. OpenAfter(db, queue, 0) = {}
  BY <1>2, OpenAfterNone
<1> QED
  BY <1>2, <1>3 DEF LogInv

\* bot.py, storage.py: in paper and in live mode, whatever waits, raises or is killed, the
\* positions in memory are those that the table shows as open once the queue is worked
\* off, as long as no write was dropped or failed.
THEOREM MemoryIsLog == Spec => []BookIsLog
<1>1. TypeOK /\ Coherent /\ Safe /\ Numbered /\ LogInv /\ [Next]_vars => LogInv'
  BY LogStep
<1>2. Spec => []LogInv
  BY <1>1, LogInit, Invariant, FillsNumbered, PTL DEF Spec
<1>3. TypeOK /\ Numbered /\ LogInv => BookIsLog
  <2> SUFFICES ASSUME TypeOK, Numbered, LogInv, lost = 0
               PROVE  positions \in Loaded(HeldTrades)
    BY Zenon DEF BookIsLog, LogInv, OpenAfter, Replay, Recovered
  <2>1. positions \in [Key -> HeldTrades \cup {NoTrade}]
    <3>1. \A k \in Key : positions[k] \in HeldTrades \cup {NoTrade}
      BY DEF HeldTrades, Held
    <3> QED
      BY <3>1 DEF TypeOK
  <2>2. \A t \in HeldTrades : t.key \in Key /\ positions[t.key] = t /\ t # NoTrade /\ t.opened \in Nat
    BY DEF HeldTrades, Held, Numbered, TypeOK, Trade
  <2>3. \A k \in Key : IF positions[k] = NoTrade
                       THEN \A t \in HeldTrades : t.key # k
                       ELSE /\ positions[k].key = k
                            /\ \A t \in HeldTrades : t.key = k => t.opened =< positions[k].opened
    BY <2>2 DEF Numbered
  <2> QED
    BY <2>1, <2>3 DEF Loaded
<1> QED
  BY <1>2, <1>3, Invariant, FillsNumbered, PTL

-----------------------------------------------------------------------------
(***************************************************************************)
(* The result of the day and the table, once the queue is worked off       *)
(***************************************************************************)

\* A trade is in the table or inserted by one write of the queue, not both and not twice.
OnceInLog ==
    /\ \A row, other \in db : row.trade.id = other.trade.id => row = other
    /\ \A i \in 1..Len(queue) :
          queue[i].op = "open" => \A row \in db : row.trade.id # queue[i].trade.id
    /\ \A i, j \in 1..Len(queue) :
          (queue[i].op = "open" /\ queue[j].op = "open" /\ queue[i].trade.id = queue[j].trade.id)
              => i = j

\* The day has begun.
DayBegun == day * DayLen =< now

ResultInv == OnceInLog /\ DayBegun

\* The risk day of a time begins at it or before.
LEMMA DayBegins == ASSUME NEW t \in Nat PROVE RiskDay(t) * DayLen =< t
<1>1. \A n \in Nat, d \in Nat \ {0} : (n \div d) * d =< n
  OBVIOUS
<1> QED
  BY <1>1, BotAssumption DEF RiskDay

\* What a write of the queue inserts is on its way.
LEMMA OpenedIs ==
    ASSUME queue \in Seq(Write), NEW i \in 1..Len(queue), queue[i].op = "open"
    PROVE  queue[i].trade \in Known
<1>1. DOMAIN queue = 1..Len(queue)
  <2> HIDE DEF Write
  <2> QED
    OBVIOUS
<1> QED
  BY <1>1 DEF Known, Opened

\* A new trade at the end of the queue, or a close, is in the log once.
LEMMA OnceGrows ==
    ASSUME queue \in Seq(Write), OnceInLog, NEW write \in Write, Submit(write), db' = db,
           write.op = "open" => \A t \in Known : t.id # write.trade.id
    PROVE  OnceInLog'
<1>1. CASE queue' = Append(queue, write)
  <2>1. /\ Len(queue) \in Nat /\ Len(queue') = Len(queue) + 1
        /\ queue'[Len(queue) + 1] = write
        /\ \A i \in 1..Len(queue) : queue'[i] = queue[i]
    <3> HIDE DEF Write
    <3> QED
      BY <1>1
  <2> DEFINE N == Len(queue)
  <2>2. Len(queue') = N + 1 /\ 1..N + 1 = 1..N \cup {N + 1} /\ N + 1 \notin 1..N
    BY <2>1
  <2>3. \A i \in 1..N : queue[i].op = "open" => queue[i].trade \in Known
    BY OpenedIs
  <2>4. \A row \in db : row.trade \in Known
    BY DEF Known
  <2>5. \A row, other \in db' : row.trade.id = other.trade.id => row = other
    BY DEF OnceInLog
  <2> HIDE DEF N
  <2>6. \A i \in 1..N : queue'[i] = queue[i]
    BY <2>1 DEF N
  <2>7. queue'[N + 1] = write
    BY <2>1 DEF N
  <2>8. \A i \in 1..N + 1 :
            queue'[i].op = "open" => \A row \in db' : row.trade.id # queue'[i].trade.id
    BY <2>2, <2>4, <2>6, <2>7 DEF OnceInLog, N
  <2>9. \A i, j \in 1..N + 1 :
            (queue'[i].op = "open" /\ queue'[j].op = "open"
               /\ queue'[i].trade.id = queue'[j].trade.id) => i = j
    <3> SUFFICES ASSUME NEW i \in 1..N + 1, NEW j \in 1..N + 1,
                        queue'[i].op = "open", queue'[j].op = "open",
                        queue'[i].trade.id = queue'[j].trade.id
                 PROVE  i = j
      OBVIOUS
    <3>1. CASE i \in 1..N /\ j \in 1..N
      BY <2>6, <3>1 DEF OnceInLog, N
    <3>2. CASE i \in 1..N /\ j = N + 1
      BY <2>3, <2>6, <2>7, <3>2
    <3>3. CASE j \in 1..N /\ i = N + 1
      BY <2>3, <2>6, <2>7, <3>3
    <3>4. CASE i = N + 1 /\ j = N + 1
      BY <3>4
    <3> QED
      BY <2>2, <3>1, <3>2, <3>3, <3>4
  <2> QED
    BY <2>2, <2>5, <2>8, <2>9, Zenon DEF OnceInLog
<1>2. CASE queue' = queue
  BY <1>2 DEF OnceInLog
<1> QED
  BY <1>1, <1>2 DEF Submit

\* Every step keeps it: a fill has a number that no trade of the log has.
LEMMA ResultStepKeeps ==
    ASSUME TypeOK, Coherent, Safe, Numbered, ResultInv, [Next]_vars
    PROVE  ResultInv'
<1> USE DEF memory, disk, world, history
<1>1. ASSUME db' = db, queue' = queue PROVE OnceInLog'
  BY <1>1 DEF ResultInv, OnceInLog
<1>2. ASSUME day' = day, now' \in {now, now + 1} PROVE DayBegun'
  <2>1. day * DayLen \in Nat /\ now \in Nat
    BY BotAssumption DEF TypeOK
  <2> QED
    BY <1>2, <2>1 DEF ResultInv, DayBegun
<1>3. ASSUME RefreshRiskDay, now' = now PROVE DayBegun'
  BY <1>3, DayBegins DEF RefreshRiskDay, DayBegun, TypeOK
<1>4. ASSUME NEW trade \in Trade, trade.id = Cardinality(fills) + 1, db' = db,
             Submit([op |-> "open", trade |-> trade])
      PROVE  OnceInLog'
  <2> DEFINE write == [op |-> "open", trade |-> trade]
  <2>1. write \in Write /\ write.trade = trade
    BY DEF OpenWrite
  <2>2. \A t \in Known : t.id # trade.id
    <3>1. Cardinality(fills) \in Nat /\ \A f \in fills : f.id \in Nat
      BY FS_CardinalityType DEF TypeOK, Trade
    <3> QED
      BY <1>4, <3>1 DEF Numbered
  <2> HIDE DEF write
  <2>3. Submit(write)
    BY <1>4 DEF write
  <2> QED
    BY <1>4, <2>1, <2>2, <2>3, OnceGrows DEF ResultInv, TypeOK
<1>5. ASSUME NEW k \in Key, NEW won \in BOOLEAN, stl.todo[k] # NoTrade, Settle(k, won), db' = db
      PROVE  OnceInLog'
  <2> DEFINE pnl == SettlementPnl(stl.todo[k], won)
             write == [op |-> "close", id |-> stl.todo[k].id, at |-> now, pnl |-> pnl]
  <2>1. stl.todo[k] \in Trade /\ stl.todo[k].id \in Nat /\ now \in Nat
    BY <1>5 DEF TypeOK, Trade
  <2>2. pnl \in Int
    BY <2>1, RiskAssumption, BotAssumption DEF Trade, SettlementPnl
  <2>3. write \in Write /\ write.op # "open"
    <3> HIDE DEF pnl
    <3> QED
      BY <2>1, <2>2 DEF CloseWrite
  <2>4. Submit(write)
    BY <1>5 DEF Settle
  <2> HIDE DEF write
  <2> QED
    BY <1>5, <2>3, <2>4, OnceGrows DEF ResultInv, TypeOK
<1>6. CASE SignalPass \/ SettlePass
  BY <1>1, <1>3, <1>6 DEF SignalPass, SettlePass, ResultInv
<1>7. CASE PaperOrder
  <2>1. PICK k \in sig.todo : \E order \in Orders(k) : OpenPosition(k, order)
    BY <1>7 DEF PaperOrder
  <2>2. PICK order \in Orders(k) : OpenPosition(k, order)
    BY <2>1
  <2>3. k \in Key
    BY <2>1 DEF TypeOK
  <2>4. order \in Trade /\ order.id = Cardinality(fills) + 1
    BY <2>3, OrdersType, OrderNumber
  <2>5. OnceInLog'
    BY <1>4, <1>7, <2>2, <2>4 DEF PaperOrder, OpenPosition
  <2> QED
    BY <1>2, <1>7, <2>5 DEF PaperOrder, ResultInv
<1>8. CASE LiveMatched
  <2>1. PICK trade \in Trade :
          /\ trade.key = sig.order.key /\ trade.id = sig.order.id
          /\ OpenPosition(sig.order.key, trade)
    BY <1>8, FillOfOrder
  <2>2. trade.id = Cardinality(fills) + 1
    BY <1>8, <2>1 DEF LiveMatched, Coherent, Numbered
  <2>3. OnceInLog'
    BY <1>4, <1>8, <2>1, <2>2 DEF LiveMatched, OpenPosition
  <2> QED
    BY <1>2, <1>8, <2>3 DEF LiveMatched, ResultInv
<1>9. CASE SettlePaper
  <2>1. PICK k \in Key, won \in BOOLEAN : Due(k) /\ Settle(k, won)
    BY <1>9 DEF SettlePaper
  <2> QED
    BY <1>2, <1>5, <1>9, <2>1 DEF SettlePaper, Due, ResultInv
<1>10. CASE SettleFetched
  <2>1. PICK won \in BOOLEAN : Settle(stl.at, won)
    BY <1>10 DEF SettleFetched
  <2>2. stl.at \in Key /\ stl.todo[stl.at] # NoTrade
    BY <1>10 DEF SettleFetched, Coherent
  <2> QED
    BY <1>2, <1>5, <1>10, <2>1, <2>2 DEF SettleFetched, ResultInv
<1>11. ASSUME queue # <<>>, queue' = Tail(queue), db' \in {db, Apply(db, Head(queue))}
       PROVE  OnceInLog'
  <2> DEFINE write == Head(queue)
             N == Len(queue)
  <2>0. queue \in Seq(Write)
    BY DEF TypeOK
  <2>1. /\ N \in Nat /\ N > 0 /\ Len(queue') = N - 1 /\ write = queue[1] /\ write \in Write
        /\ \A i \in 1..N - 1 : queue'[i] = queue[i + 1]
    <3> HIDE DEF Write
    <3> QED
      BY <1>11, <2>0
  <2> HIDE DEF write, N
  <2>2. /\ 1 \in 1..N /\ \A i \in 1..N - 1 : i + 1 \in 1..N /\ i + 1 # 1
        /\ \A i, j \in 1..N - 1 : i + 1 = j + 1 => i = j
    BY <2>1
  <2>3. /\ \A row, other \in db : row.trade.id = other.trade.id => row = other
        /\ \A i \in 1..N :
              queue[i].op = "open" => \A row \in db : row.trade.id # queue[i].trade.id
        /\ \A i, j \in 1..N :
              (queue[i].op = "open" /\ queue[j].op = "open"
                 /\ queue[i].trade.id = queue[j].trade.id) => i = j
    BY DEF ResultInv, OnceInLog, N
  <2>4. \A i, j \in 1..N - 1 :
            (queue'[i].op = "open" /\ queue'[j].op = "open"
               /\ queue'[i].trade.id = queue'[j].trade.id) => i = j
    BY <2>1, <2>2, <2>3, SMTT(30)
  <2>5. CASE db' = db
    <3>1. \A i \in 1..N - 1 :
              queue'[i].op = "open" => \A row \in db' : row.trade.id # queue'[i].trade.id
      BY <2>1, <2>2, <2>3, <2>5
    <3> QED
      BY <2>1, <2>3, <2>4, <2>5, <3>1 DEF OnceInLog
  <2>6. CASE db' = Apply(db, write) /\ write.op = "open"
    <3>1. db' = db \cup {OpenRow(write.trade)} /\ OpenRow(write.trade).trade = write.trade
      BY <2>6 DEF Apply, OpenRow
    <3>2. \A row, other \in db' : row.trade.id = other.trade.id => row = other
      BY <2>1, <2>2, <2>3, <2>6, <3>1
    <3>3. \A i \in 1..N - 1 :
              queue'[i].op = "open" => \A row \in db' : row.trade.id # queue'[i].trade.id
      BY <2>1, <2>2, <2>3, <2>6, <3>1
    <3> QED
      BY <2>1, <2>4, <3>2, <3>3 DEF OnceInLog
  <2>7. CASE db' = Apply(db, write) /\ write.op # "open"
    <3>1. db' = {ClosedRow(row, write.id, write.at, write.pnl) : row \in db}
      BY <2>7 DEF Apply
    <3>2. \A row : ClosedRow(row, write.id, write.at, write.pnl).trade = row.trade
      BY DEF ClosedRow
    <3>3. \A row, other \in db' : row.trade.id = other.trade.id => row = other
      BY <2>3, <3>1, <3>2
    <3>4. \A i \in 1..N - 1 :
              queue'[i].op = "open" => \A row \in db' : row.trade.id # queue'[i].trade.id
      BY <2>1, <2>2, <2>3, <3>1, <3>2
    <3> QED
      BY <2>1, <2>4, <3>3, <3>4 DEF OnceInLog
  <2> QED
    BY <1>11, <2>5, <2>6, <2>7 DEF write
<1>12. CASE Written
  <2>1. OnceInLog'
    BY <1>11, <1>12 DEF Written, Coherent
  <2> QED
    BY <1>2, <1>12, <2>1 DEF Written, ResultInv
<1>13. CASE WriteRaises
  <2>1. OnceInLog'
    BY <1>1, <1>11, <1>13 DEF WriteRaises, Coherent
  <2> QED
    BY <1>2, <1>13, <2>1 DEF WriteRaises, ResultInv
<1>14. CASE Restart
  <2>1. queue' = <<>> /\ db' = db /\ now' = now /\ day' = RiskDay(now)
    BY <1>14 DEF Restart
  <2>2. Len(queue') = 0 /\ 1..0 = {}
    BY <2>1
  <2>3. OnceInLog'
    BY <2>1, <2>2 DEF ResultInv, OnceInLog
  <2> QED
    BY <2>1, <2>3, DayBegins DEF ResultInv, DayBegun, TypeOK
<1>15. CASE \/ SignalPassEnds \/ LiveOrder \/ LiveUnmatched \/ LiveRaises \/ SignalNotified
  BY <1>1, <1>2, <1>15
  DEF SignalPassEnds, LiveOrder, LiveUnmatched, LiveRaises, SignalNotified, ResultInv
<1>16. CASE SettlePassEnds \/ FetchResolution \/ FetchRaises \/ SettleNotified
  BY <1>1, <1>2, <1>16 DEF SettlePassEnds, FetchResolution, FetchRaises, SettleNotified, ResultInv
<1>17. CASE WriterTakes \/ Tick \/ UNCHANGED vars
  BY <1>1, <1>2, <1>17 DEF WriterTakes, Tick, vars, ResultInv
<1> QED
  BY <1>6, <1>7, <1>8, <1>9, <1>10, <1>12, <1>13, <1>14, <1>15, <1>16, <1>17
  DEF Next, SignalLoop, SettlementLoop, Writer

\* Of a row of the table after the queue there is one, and its trade was known.
LEMMA ReplayRows ==
    ASSUME TypeOK, Numbered, OnceInLog
    PROVE  /\ Replay \subseteq Row /\ IsFiniteSet(Replay)
           /\ \A x, y \in Replay : x.trade.id = y.trade.id => x = y
<1> DEFINE N == Len(queue)
<1>1. queue \in Seq(Write)
  BY DEF TypeOK
<1>2. N \in Nat /\ 1 \in Nat /\ \A i \in 1..N : i + 1 \in Nat /\ queue[i] \in Write
  <2> HIDE DEF Write
  <2> QED
    BY <1>1
<1>3. \A x : x \in Replay <=>
              \/ \E row \in db : x = RowAfter(row, queue, 1, N)
              \/ \E i \in 1..N : /\ queue[i].op = "open"
                                 /\ x = RowAfter(OpenRow(queue[i].trade), queue, i + 1, N)
  BY <1>2, RowsAfterIs DEF Replay
<1>4. \A t : OpenRow(t).trade = t
  BY DEF OpenRow
<1> HIDE DEF N
<1>5. ASSUME NEW row, NEW i \in Nat PROVE RowAfter(row, queue, i, N).trade = row.trade
  BY <1>2, RowAfterIs
<1>6. ASSUME NEW row \in Row, NEW i \in Nat, i # 0 PROVE RowAfter(row, queue, i, N) \in Row
  <2>1. CASE LastClose(queue, row.trade, i, N) = {}
    BY <1>2, <2>1, RowAfterIs
  <2>2. ASSUME NEW j \in LastClose(queue, row.trade, i, N)
        PROVE  RowAfter(row, queue, i, N) \in Row
    <3>1. j \in i..N /\ Closes(queue[j], row.trade)
      BY <1>2, LastCloseIs
    <3>2. j \in 1..N
      BY <1>2, <1>6, <3>1
    <3>3. queue[j] \in CloseWrite
      BY <1>2, <3>1, <3>2 DEF Closes, OpenWrite
    <3>4. RowAfter(row, queue, i, N) = ClosedRow(row, queue[j].id, queue[j].at, queue[j].pnl)
      BY <1>2, RowAfterIs
    <3> QED
      BY <3>3, <3>4 DEF ClosedRow, CloseWrite, Row
  <2> QED
    BY <2>1, <2>2
<1>7. Replay \subseteq Row
  <2>1. \A row \in db : RowAfter(row, queue, 1, N) \in Row
    BY <1>6 DEF TypeOK
  <2>2. ASSUME NEW i \in 1..N, queue[i].op = "open"
        PROVE  RowAfter(OpenRow(queue[i].trade), queue, i + 1, N) \in Row
    <3>1. queue[i].trade \in Trade
      BY <1>2, <2>2 DEF OpenWrite, CloseWrite
    <3>2. OpenRow(queue[i].trade) \in Row
      BY <3>1 DEF OpenRow, Row
    <3>3. i + 1 \in Nat /\ i + 1 # 0
      BY <1>2
    <3> QED
      BY <1>6, <3>2, <3>3
  <2> QED
    BY <1>3, <2>1, <2>2, Zenon
<1>8. \A x \in Replay : x.trade \in Known
  <2>1. \A row \in db : RowAfter(row, queue, 1, N).trade \in Known
    BY <1>2, <1>5 DEF Known
  <2>2. \A i \in 1..N : queue[i].op = "open"
                          => RowAfter(OpenRow(queue[i].trade), queue, i + 1, N).trade \in Known
    BY <1>1, <1>2, <1>4, <1>5, OpenedIs DEF N
  <2> QED
    BY <1>3, <2>1, <2>2, Zenon
<1>9. ASSUME NEW x \in Replay, NEW y \in Replay, x.trade.id = y.trade.id PROVE x = y
  <2>1. \A row, other \in db : row.trade.id = other.trade.id => row = other
    BY DEF OnceInLog
  <2>2. \A i \in 1..N : queue[i].op = "open" => \A row \in db : row.trade.id # queue[i].trade.id
    BY DEF OnceInLog, N
  <2>3. \A i, j \in 1..N :
            (queue[i].op = "open" /\ queue[j].op = "open" /\ queue[i].trade.id = queue[j].trade.id)
                => i = j
    BY DEF OnceInLog, N
  <2>4. \/ \E row \in db : x = RowAfter(row, queue, 1, N) /\ x.trade = row.trade
        \/ \E i \in 1..N : /\ queue[i].op = "open" /\ x.trade = queue[i].trade
                           /\ x = RowAfter(OpenRow(queue[i].trade), queue, i + 1, N)
    BY <1>2, <1>3, <1>4, <1>5
  <2>5. \/ \E row \in db : y = RowAfter(row, queue, 1, N) /\ y.trade = row.trade
        \/ \E i \in 1..N : /\ queue[i].op = "open" /\ y.trade = queue[i].trade
                           /\ y = RowAfter(OpenRow(queue[i].trade), queue, i + 1, N)
    BY <1>2, <1>3, <1>4, <1>5
  <2> QED
    BY <1>9, <2>1, <2>2, <2>3, <2>4, <2>5
<1>10. IsFiniteSet(Replay)
  <2> DEFINE tradeOf == [x \in Replay |-> x.trade]
  <2>1. tradeOf \in Injection(Replay, fills)
    BY <1>8, <1>9 DEF Injection, IsInjective, Numbered
  <2> QED
    BY <2>1, FS_Injection DEF TypeOK
<1> QED
  BY <1>7, <1>9, <1>10

\* A sum with one more summand
LEMMA TotalWith ==
    ASSUME NEW S, IsFiniteSet(S), NEW k, k \notin S,
           NEW f \in [S -> Nat], NEW g \in [S \cup {k} -> Nat], \A x \in S : g[x] = f[x]
    PROVE  Total(g) = Total(f) + g[k] /\ Total(f) \in Nat
<1>1. IsFiniteSet(S \cup {k}) /\ (S \cup {k}) \ {k} = S /\ k \in S \cup {k}
  BY FS_AddElement
<1>2. Total(g) = Cardinality(UNION {DollarsOf(g, x) : x \in (S \cup {k}) \ {k}}) + g[k]
  BY <1>1, TotalSplit
<1>3. \A x \in S : DollarsOf(g, x) = DollarsOf(f, x)
  BY DEF DollarsOf
<1>4. {DollarsOf(g, x) : x \in S} = {DollarsOf(f, x) : x \in S}
  BY <1>3
<1>5. Total(f) = Cardinality(UNION {DollarsOf(f, x) : x \in S}) /\ Total(f) \in Nat
  BY TotalIsNat DEF Total
<1> QED
  BY <1>1, <1>2, <1>4, <1>5

\* What closing an open row of a table, the only one of its trade, adds to the result
LEMMA CloseCounts ==
    ASSUME NEW rows \in SUBSET Row, IsFiniteSet(rows), NEW from \in Int,
           NEW open \in rows, open.status = "open",
           \A x \in rows : x.trade.id = open.trade.id => x = open,
           NEW write \in CloseWrite, write.id = open.trade.id, write.at >= from
    PROVE  RealizedPnlSince(Apply(rows, write), from) = RealizedPnlSince(rows, from) + write.pnl
<1> DEFINE closed == {row \in rows : row.status = "closed" /\ row.at >= from}
           row1 == ClosedRow(open, write.id, write.at, write.pnl)
           after == {row \in Apply(rows, write) : row.status = "closed" /\ row.at >= from}
<1>1. /\ row1.trade = open.trade /\ row1.status = "closed" /\ row1.at = write.at
      /\ row1.pnl = write.pnl /\ write.pnl \in Int /\ write.op # "open"
  BY DEF ClosedRow, CloseWrite
<1>2. Apply(rows, write) = {ClosedRow(row, write.id, write.at, write.pnl) : row \in rows}
  BY <1>1 DEF Apply
<1>3. \A row \in rows : row # open => ClosedRow(row, write.id, write.at, write.pnl) = row
  BY DEF ClosedRow
<1> HIDE DEF row1
<1>4. \A x : x \in Apply(rows, write) <=> (x \in rows /\ x # open) \/ x = row1
  BY <1>2, <1>3 DEF row1
<1>5. row1 \notin closed
  BY <1>1
<1>6. after = closed \cup {row1}
  BY <1>1, <1>4, <1>5
<1>7. IsFiniteSet(closed)
  BY FS_Subset
<1>8. \A row \in closed \cup {row1} : row.pnl \in Int
  BY <1>1 DEF Row
<1> HIDE DEF closed, after
<1> DEFINE won1 == [row \in closed |-> Larger(row.pnl, 0)]
           won2 == [row \in closed \cup {row1} |-> Larger(row.pnl, 0)]
           paid1 == [row \in closed |-> Larger(-row.pnl, 0)]
           paid2 == [row \in closed \cup {row1} |-> Larger(-row.pnl, 0)]
<1>9. /\ won1 \in [closed -> Nat] /\ won2 \in [closed \cup {row1} -> Nat]
      /\ paid1 \in [closed -> Nat] /\ paid2 \in [closed \cup {row1} -> Nat]
  BY <1>8 DEF Larger
<1>10. /\ \A x \in closed : won2[x] = won1[x]
       /\ \A x \in closed : paid2[x] = paid1[x]
       /\ won2[row1] = Larger(write.pnl, 0)
       /\ paid2[row1] = Larger(-write.pnl, 0)
  BY <1>1
<1>11. /\ RealizedPnlSince(rows, from) = Total(won1) - Total(paid1)
       /\ RealizedPnlSince(Apply(rows, write), from) = Total(won2) - Total(paid2)
  BY <1>6 DEF RealizedPnlSince, closed, after
<1> HIDE DEF won1, won2, paid1, paid2
<1>12. Total(won2) = Total(won1) + Larger(write.pnl, 0) /\ Total(won1) \in Nat
  <2>1. Total(won2) = Total(won1) + won2[row1] /\ Total(won1) \in Nat
    BY <1>5, <1>7, <1>9, <1>10, TotalWith, SMTT(30)
  <2> QED
    BY <2>1, <1>10
<1>13. Total(paid2) = Total(paid1) + Larger(-write.pnl, 0) /\ Total(paid1) \in Nat
  <2>1. Total(paid2) = Total(paid1) + paid2[row1] /\ Total(paid1) \in Nat
    BY <1>5, <1>7, <1>9, <1>10, TotalWith, SMTT(30)
  <2> QED
    BY <2>1, <1>10
<1> QED
  BY <1>1, <1>11, <1>12, <1>13 DEF Larger

\* What ResultMovesWithLog says of a step
ResultMoves ==
    (lost' = 0 /\ day' = day /\ crashes' = crashes)
      => realized' - RealizedPnlSince(Replay, day * DayLen)'
           = realized - RealizedPnlSince(Replay, day * DayLen)

\* A position that is opened adds an open row, which is no result.
LEMMA OpenMoves ==
    ASSUME TypeOK, NEW trade \in Trade, Submit([op |-> "open", trade |-> trade]),
           db' = db, day' = day, realized' = realized
    PROVE  ResultMoves
<1> DEFINE write == [op |-> "open", trade |-> trade]
<1>1. write \in Write /\ write.op = "open" /\ write.trade = trade
  BY DEF OpenWrite
<1> HIDE DEF write
<1> SUFFICES ASSUME lost' = 0
             PROVE  RealizedPnlSince(Replay', day * DayLen) = RealizedPnlSince(Replay, day * DayLen)
  BY DEF ResultMoves
<1>2. queue' = Append(queue, write) /\ queue \in Seq(Write)
  BY DEF Submit, TypeOK, write
<1>3. Replay' = Apply(Replay, write)
  <2>1. Len(queue') = Len(queue) + 1
    BY <1>1, <1>2, RowsAfterAppend
  <2>2. RowsAfter(db, Append(queue, write), Len(queue) + 1) = Apply(RowsAfter(db, queue, Len(queue)), write)
    BY <1>1, <1>2, RowsAfterAppend
  <2> QED
    BY <1>2, <2>1, <2>2, Zenon DEF Replay
<1>4. Replay' = Replay \cup {OpenRow(trade)} /\ OpenRow(trade).status = "open"
  BY <1>1, <1>3 DEF Apply, OpenRow
<1>5. {row \in Replay' : row.status = "closed" /\ row.at >= day * DayLen}
        = {row \in Replay : row.status = "closed" /\ row.at >= day * DayLen}
  BY <1>4
<1> QED
  BY <1>5 DEF RealizedPnlSince

\* One that is settled closes its row, at a time of this day.
LEMMA SettleMoves ==
    ASSUME TypeOK, Numbered, SnapshotCurrent, LogInv, ResultInv,
           NEW k \in Key, NEW won \in BOOLEAN,
           stl.todo[k] # NoTrade, Settle(k, won), db' = db, day' = day
    PROVE  ResultMoves
<1> DEFINE position == stl.todo[k]
           pnl == SettlementPnl(position, won)
           write == [op |-> "close", id |-> position.id, at |-> now, pnl |-> pnl]
<1>1. position \in Trade /\ position.id \in Nat /\ now \in Nat /\ positions[k] = position
  BY DEF TypeOK, Trade, SnapshotCurrent
<1>2. pnl \in Int
  BY <1>1, RiskAssumption, BotAssumption DEF Trade, SettlementPnl
<1>3. /\ write \in CloseWrite /\ write \in Write
      /\ write.id = position.id /\ write.at = now /\ write.pnl = pnl
  <2> HIDE DEF pnl
  <2> QED
    BY <1>1, <1>2 DEF CloseWrite
<1>4. realized' = realized + pnl /\ Submit(write)
  BY DEF Settle
<1> HIDE DEF write, pnl, position
<1> SUFFICES ASSUME lost' = 0
             PROVE  RealizedPnlSince(Replay', day * DayLen)
                      = RealizedPnlSince(Replay, day * DayLen) + pnl
  <2>1. realized \in Int /\ day * DayLen \in Int
    BY BotAssumption DEF TypeOK
  <2>2. RealizedPnlSince(Replay, day * DayLen) \in Int
    BY <2>1, ReplayRows, RealizedInt DEF ResultInv
  <2> QED
    BY <1>2, <1>4, <2>1, <2>2 DEF ResultMoves
<1>5. lost = 0 /\ queue' = Append(queue, write) /\ queue \in Seq(Write)
  BY <1>4 DEF Submit, TypeOK
<1>6. Replay' = Apply(Replay, write)
  <2>1. Len(queue') = Len(queue) + 1
    BY <1>3, <1>5, RowsAfterAppend
  <2>2. RowsAfter(db, Append(queue, write), Len(queue) + 1) = Apply(RowsAfter(db, queue, Len(queue)), write)
    BY <1>3, <1>5, RowsAfterAppend
  <2> QED
    BY <1>5, <2>1, <2>2, Zenon DEF Replay
<1>7. position \in OpenTrades(Replay)
  <2>1. position \in HeldTrades
    BY <1>1, NoTradeAssumption DEF HeldTrades, Held
  <2> QED
    BY <1>5, <2>1 DEF LogInv, OpenAfter, Replay
<1>8. PICK open \in Replay : open.status = "open" /\ open.trade = position
  BY <1>7 DEF OpenTrades
<1>9. Replay \subseteq Row /\ IsFiniteSet(Replay) /\ \A x \in Replay : x.trade.id = open.trade.id => x = open
  BY ReplayRows DEF ResultInv
<1>10. day * DayLen \in Int /\ write.at >= day * DayLen
  BY <1>1, <1>3, BotAssumption DEF ResultInv, DayBegun, TypeOK
<1> QED
  BY <1>3, <1>6, <1>8, <1>9, <1>10, CloseCounts

\* Every step moves the result with the log.
LEMMA ResultMovesStep ==
    ASSUME TypeOK, Coherent, Safe, Numbered, LogInv, ResultInv, [Next]_vars
    PROVE  ResultMoves
<1> USE DEF memory, disk, world, history
<1>1. ASSUME realized' = realized, Replay' = Replay PROVE ResultMoves
  BY <1>1 DEF ResultMoves
<1>2. ASSUME realized' = realized, db' = db, queue' = queue PROVE ResultMoves
  BY <1>1, <1>2 DEF Replay
<1>3. CASE SignalPass \/ SettlePass
  <2>1. db' = db /\ queue' = queue /\ (day' = day => realized' = realized)
    BY <1>3 DEF SignalPass, SettlePass, RefreshRiskDay
  <2> QED
    BY <1>2, <2>1 DEF ResultMoves
<1>4. CASE PaperOrder
  <2>1. PICK k \in sig.todo : \E order \in Orders(k) : OpenPosition(k, order)
    BY <1>4 DEF PaperOrder
  <2>2. PICK order \in Orders(k) : OpenPosition(k, order)
    BY <2>1
  <2>3. k \in Key
    BY <2>1 DEF TypeOK
  <2>4. order \in Trade
    BY <2>3, OrdersType
  <2> QED
    BY <1>4, <2>2, <2>4, OpenMoves DEF PaperOrder, OpenPosition
<1>5. CASE LiveMatched
  <2>1. PICK trade \in Trade : OpenPosition(sig.order.key, trade)
    BY <1>5, FillOfOrder
  <2> QED
    BY <1>5, <2>1, OpenMoves DEF LiveMatched, OpenPosition
<1>6. CASE SettlePaper
  <2>1. PICK k \in Key, won \in BOOLEAN : Due(k) /\ Settle(k, won)
    BY <1>6 DEF SettlePaper
  <2> QED
    BY <1>6, <2>1, SettleMoves DEF SettlePaper, Due, Safe
<1>7. CASE SettleFetched
  <2>1. PICK won \in BOOLEAN : Settle(stl.at, won)
    BY <1>7 DEF SettleFetched
  <2>2. stl.at \in Key /\ stl.todo[stl.at] # NoTrade
    BY <1>7 DEF SettleFetched, Coherent
  <2> QED
    BY <1>7, <2>1, <2>2, SettleMoves DEF SettleFetched, Safe
<1>8. CASE Written
  <2>1. queue # <<>> /\ queue' = Tail(queue) /\ db' = Apply(db, Head(queue)) /\ realized' = realized
    BY <1>8 DEF Written, Coherent
  <2>2. queue \in Seq(Write)
    BY DEF TypeOK
  <2>3. Len(queue') = Len(queue) - 1 /\ Len(queue') \in 0..(Len(queue) - 1) /\ Len(queue') + 1 = Len(queue)
    <3> HIDE DEF Write
    <3> QED
      BY <2>1, <2>2
  <2>4. RowsAfter(Apply(db, Head(queue)), Tail(queue), Len(queue')) = RowsAfter(db, queue, Len(queue') + 1)
    BY <2>1, <2>2, <2>3, RowsAfterTaken
  <2>5. Replay' = Replay
    BY <2>1, <2>3, <2>4, Zenon DEF Replay
  <2> QED
    BY <1>1, <2>1, <2>5
<1>9. CASE WriteRaises
  <2>1. CASE queue' = queue
    BY <1>2, <1>9, <2>1 DEF WriteRaises
  <2>2. CASE lost' = lost + 1
    BY <2>2 DEF ResultMoves, TypeOK
  <2> QED
    BY <1>9, <2>1, <2>2 DEF WriteRaises
<1>10. CASE Restart
  BY <1>10 DEF Restart, ResultMoves, TypeOK
<1>11. CASE \/ SignalPassEnds \/ LiveOrder \/ LiveUnmatched \/ LiveRaises \/ SignalNotified
  BY <1>2, <1>11 DEF SignalPassEnds, LiveOrder, LiveUnmatched, LiveRaises, SignalNotified
<1>12. CASE SettlePassEnds \/ FetchResolution \/ FetchRaises \/ SettleNotified
  BY <1>2, <1>12 DEF SettlePassEnds, FetchResolution, FetchRaises, SettleNotified
<1>13. CASE WriterTakes \/ Tick \/ UNCHANGED vars
  BY <1>2, <1>13 DEF WriterTakes, Tick, vars
<1> QED
  BY <1>3, <1>4, <1>5, <1>6, <1>7, <1>8, <1>9, <1>10, <1>11, <1>12, <1>13
  DEF Next, SignalLoop, SettlementLoop, Writer

\* bot.py, risk.py, storage.py: the result that the daily loss limit is judged by is counted up
\* in memory, beside the table. Between two loads of the day it changes by exactly what
\* the table will show, whatever waits, raises or is written late.
THEOREM ResultIsLogged == Spec => ResultMovesWithLog
<1>1. TypeOK /\ Coherent /\ Safe /\ Numbered /\ LogInv /\ [Next]_vars => LogInv'
  BY LogStep
<1>2. TypeOK /\ Coherent /\ Safe /\ Numbered /\ ResultInv /\ [Next]_vars => ResultInv'
  BY ResultStepKeeps
<1>3. TypeOK /\ Coherent /\ Safe /\ Numbered /\ LogInv /\ ResultInv /\ [Next]_vars => [ResultMoves]_vars
  BY ResultMovesStep
<1>4. Init => ResultInv
  <2> SUFFICES ASSUME Init PROVE ResultInv
    OBVIOUS
  <2>1. db = {} /\ queue = <<>> /\ day = 0 /\ now = 0
    BY DEF Init
  <2>2. Len(queue) = 0 /\ 1..0 = {}
    BY <2>1
  <2> QED
    BY <2>1, <2>2, BotAssumption DEF ResultInv, OnceInLog, DayBegun
<1>5. [][ResultMoves]_vars <=> ResultMovesWithLog
  BY PTL DEF ResultMovesWithLog, ResultMoves
<1> QED
  BY <1>1, <1>2, <1>3, <1>4, <1>5, LogInit, Invariant, FillsNumbered, PTL DEF Spec

-----------------------------------------------------------------------------
(***************************************************************************)
(* One trade per window, in a bot that fills on paper and notifies nobody: *)
(* neither loop awaits anything within a pass                              *)
(***************************************************************************)

\* The time a signal would be judged by, and whether a position of the window could
\* have been settled by then
Clock == IF sig.pc = "scan" THEN sig.now ELSE now
Over(k) == SettlementDue(k, Clock)

\* A pass begins and ends between two steps of the other loop, and not in the future.
Passes ==
    /\ sig.pc \in {"sleep", "scan"} /\ sig.order = NoTrade
    /\ stl.pc \in {"sleep", "scan"}
    /\ sig.pc = "scan" => stl.pc = "sleep"
    /\ sig.now =< now /\ stl.now =< now

\* A trade is closed, in the table or on the queue, only when its window is over.
ClosedWhenOver ==
    /\ \A row \in db : row = OpenRow(row.trade) \/ (row.status = "closed" /\ Over(row.trade.key))
    /\ \A id \in Closing(queue) : \E f \in fills : f.id = id /\ Over(f.key)

\* A window that the table or the queue knows a trade of is held by it until it is over, so
\* that they know no two trades of one window, across any number of restarts.
KnownHeld ==
    /\ \A t \in Known : positions[t.key] = t \/ Over(t.key)
    /\ \A t, u \in Known : t.key = u.key => t = u

\* The same of the fills, as long as no restart has forgotten one.
FillsHeld ==
    crashes = 0 =>
        /\ \A f \in fills : positions[f.key] = f \/ Over(f.key)
        /\ \A f, g \in fills : f.key = g.key => f = g

WindowInv == Passes /\ ClosedWhenOver /\ KnownHeld /\ FillsHeld

\* The clock of the passes is a number that does not run backwards.
LEMMA OverStays ==
    ASSUME TypeOK, Clock \in Nat, Clock' \in Nat, Clock =< Clock', NEW k \in Key
    PROVE  Over(k) => Over(k)'
<1>1. k[2] \in Nat
  BY BotAssumption DEF Key
<1>2. EndOf(k) + SettlementGrace \in Nat
  BY <1>1, BotAssumption DEF EndOf
<1> QED
  BY <1>2 DEF Over, SettlementDue

\* A step that fills nothing, closes nothing and puts nothing on the queue keeps the
\* invariant: the clock moves on, writes reach the table or are lost.
LEMMA QuietKeeps ==
    ASSUME TypeOK, TypeOK', WindowInv, Passes',
           Clock \in Nat, Clock' \in Nat, Clock =< Clock',
           positions' = positions, fills' = fills, crashes' = crashes,
           Known' \subseteq Known, Closing(queue)' \subseteq Closing(queue),
           \A row \in db' : \/ row = OpenRow(row.trade)
                            \/ row.status = "closed" /\ Over(row.trade.key)
    PROVE  WindowInv'
<1>1. \A k \in Key : Over(k) => Over(k)'
  BY OverStays
<1>2. /\ Known \subseteq Trade /\ \A row \in db' : row.trade \in Trade
      /\ \A t \in Trade : t.key \in Key
  BY KnownType DEF TypeOK, Row
<1>3. fills \subseteq Trade
  BY DEF TypeOK
<1>4. ClosedWhenOver'
  <2>1. \A row \in db' : \/ row = OpenRow(row.trade)
                         \/ row.status = "closed" /\ Over(row.trade.key)'
    BY <1>1, <1>2
  <2>2. \A id \in Closing(queue)' : \E f \in fills' : f.id = id /\ Over(f.key)'
    BY <1>1, <1>2, <1>3 DEF WindowInv, ClosedWhenOver
  <2> QED
    BY <2>1, <2>2 DEF ClosedWhenOver
<1>5. KnownHeld'
  BY <1>1, <1>2 DEF WindowInv, KnownHeld
<1>6. FillsHeld'
  BY <1>1, <1>2, <1>3 DEF WindowInv, FillsHeld
<1> QED
  BY <1>4, <1>5, <1>6 DEF WindowInv

\* The clock of the passes is the wall clock, or behind it.
LEMMA ClockType == ASSUME TypeOK, Passes PROVE Clock \in Nat /\ Clock =< now
  BY DEF TypeOK, Passes, Clock

\* What a pass orders is a new trade of a window that is free and, at the time of the
\* pass, not over.
LEMMA OrderIsNew ==
    ASSUME ExpiryCutoff + SettlementGrace > 0, TypeOK, Numbered, WindowInv, sig.pc = "scan",
           NEW k \in Key, NEW order \in Orders(k)
    PROVE  /\ order \in Trade /\ order.key = k /\ positions[k] = NoTrade /\ ~Over(k)
           /\ \A t \in Known : t.key # k
           /\ order.id = Cardinality(fills) + 1 /\ Cardinality(fills) \in Nat
           /\ order \notin fills /\ \A f \in fills : f.id # order.id
<1>1. order \in Trade /\ order.key = k /\ positions[k] = NoTrade
  BY OrdersType
<1>2. order.id = Cardinality(fills) + 1 /\ EntryOpen(k, sig.now)
  BY DEF Orders, SizedOrders
<1>3. k[2] \in Nat /\ sig.now \in Nat
  BY BotAssumption DEF Key, TypeOK
<1>4. ~Over(k)
  BY <1>2, <1>3, BotAssumption DEF EntryOpen, Over, Clock, SettlementDue, EndOf
<1>5. \A t \in Known : t.key # k
  <2>1. \A t \in Known : t \in Trade
    BY KnownType
  <2> QED
    BY <1>1, <1>4, <2>1, NoTradeAssumption DEF WindowInv, KnownHeld
<1>6. Cardinality(fills) \in Nat /\ \A f \in fills : f.id \in Nat
  BY FS_CardinalityType DEF TypeOK, Trade
<1>7. \A f \in fills : f.id # order.id
  BY <1>2, <1>6 DEF WindowInv, Numbered
<1> QED
  BY <1>1, <1>2, <1>4, <1>5, <1>6, <1>7

\* A window is held from its fill on.
LEMMA PaperOrderKeeps ==
    ASSUME ~Live, ~Telegram, ExpiryCutoff + SettlementGrace > 0,
           TypeOK, TypeOK', Numbered, WindowInv, PaperOrder
    PROVE  WindowInv'
<1>1. PICK k \in sig.todo : \E order \in Orders(k) : OpenPosition(k, order)
  BY DEF PaperOrder
<1>2. PICK order \in Orders(k) : OpenPosition(k, order)
  BY <1>1
<1>3. sig.pc = "scan" /\ k \in Key
  BY <1>1 DEF PaperOrder, TypeOK
<1>4. /\ order \in Trade /\ order.key = k /\ positions[k] = NoTrade /\ ~Over(k)
      /\ \A t \in Known : t.key # k
      /\ order.id = Cardinality(fills) + 1 /\ Cardinality(fills) \in Nat
      /\ order \notin fills /\ \A f \in fills : f.id # order.id
  BY <1>3, OrderIsNew
<1>5. /\ positions' = [positions EXCEPT ![k] = order] /\ fills' = fills \cup {order}
      /\ sig' = [sig EXCEPT !.pc = "scan", !.todo = sig.todo \ {k}, !.order = NoTrade]
      /\ db' = db /\ now' = now /\ stl' = stl /\ crashes' = crashes
      /\ Submit([op |-> "open", trade |-> order])
  BY <1>2 DEF PaperOrder, OpenPosition
<1>6. sig'.pc = "scan" /\ sig'.now = sig.now /\ sig'.order = NoTrade
  BY <1>5 DEF TypeOK
<1>7. \A x : Over(x)' <=> Over(x)
  BY <1>3, <1>6 DEF Over, Clock, SettlementDue, EndOf
<1>8. Passes'
  BY <1>3, <1>5, <1>6 DEF WindowInv, Passes
<1>9. Known' \subseteq Known \cup {order} /\ Closing(queue)' \subseteq Closing(queue)
  <2> DEFINE write == [op |-> "open", trade |-> order]
  <2>1. write \in Write /\ write.op = "open" /\ write.op # "close" /\ write.trade = order
    BY <1>4 DEF OpenWrite
  <2> HIDE DEF write
  <2>2. /\ Opened(queue') \subseteq Opened(queue) \cup {order}
        /\ Closing(queue') \subseteq Closing(queue)
    BY <1>5, <2>1, SubmitAdds DEF TypeOK, write
  <2> QED
    BY <1>5, <2>2 DEF Known
<1>10. positions'[k] = order /\ \A x \in Key \ {k} : positions'[x] = positions[x]
  BY <1>3, <1>5 DEF TypeOK
<1>11. /\ Known \subseteq Trade /\ fills \subseteq Trade
       /\ \A t \in Trade : t.key \in Key /\ t.id \in Nat
  BY KnownType DEF TypeOK
<1>12. ClosedWhenOver'
  BY <1>5, <1>7, <1>9 DEF WindowInv, ClosedWhenOver
<1>13. KnownHeld'
  <2>1. \A t \in Known' : positions'[t.key] = t \/ Over(t.key)'
    BY <1>4, <1>7, <1>9, <1>10, <1>11 DEF WindowInv, KnownHeld
  <2>2. \A t, u \in Known' : t.key = u.key => t = u
    BY <1>4, <1>9 DEF WindowInv, KnownHeld
  <2> QED
    BY <2>1, <2>2 DEF KnownHeld
<1>14. FillsHeld'
  <2> SUFFICES ASSUME crashes = 0 PROVE FillsHeld'
    BY <1>5 DEF FillsHeld
  <2>1. \A f \in fills : f.key # k
    BY <1>4, NoTradeAssumption, <1>11 DEF WindowInv, FillsHeld
  <2>2. \A f \in fills' : positions'[f.key] = f \/ Over(f.key)'
    BY <1>4, <1>5, <1>7, <1>10, <1>11, <2>1 DEF WindowInv, FillsHeld
  <2>3. \A f, g \in fills' : f.key = g.key => f = g
    BY <1>4, <1>5, <2>1 DEF WindowInv, FillsHeld
  <2> QED
    BY <2>2, <2>3 DEF FillsHeld
<1> QED
  BY <1>8, <1>12, <1>13, <1>14 DEF WindowInv

\* What is settled is over.
LEMMA SettlePaperKeeps ==
    ASSUME ~Live, ~Telegram, TypeOK, TypeOK', SnapshotCurrent, Numbered, WindowInv, SettlePaper
    PROVE  WindowInv'
<1>1. PICK k \in Key, won \in BOOLEAN : Due(k) /\ Settle(k, won)
  BY DEF SettlePaper
<1> DEFINE position == stl.todo[k]
           write == [op |-> "close", id |-> position.id, at |-> now,
                     pnl |-> SettlementPnl(position, won)]
<1>2. /\ position # NoTrade /\ position \in Trade /\ positions[k] = position
      /\ position \in fills /\ position.key = k
  BY <1>1 DEF Due, SnapshotCurrent, WindowInv, Numbered, TypeOK
<1>3. /\ positions' = [positions EXCEPT ![k] = NoTrade]
      /\ stl' = [stl EXCEPT !.pc = "scan", !.todo = [stl.todo EXCEPT ![k] = NoTrade],
                            !.at = NoTrade]
      /\ sig' = sig /\ db' = db /\ now' = now /\ fills' = fills /\ crashes' = crashes
      /\ Submit(write)
  BY <1>1 DEF SettlePaper, Settle, world
<1>4. sig.pc = "sleep" /\ stl.pc = "scan" /\ stl'.pc = "scan" /\ stl'.now = stl.now
  BY <1>3 DEF SettlePaper, WindowInv, Passes, TypeOK
<1>5. \A x : Over(x)' <=> Over(x)
  BY <1>3 DEF Over, Clock, SettlementDue, EndOf
<1>6. Over(k)
  <2>1. k[2] \in Nat /\ stl.now \in Nat /\ now \in Nat /\ stl.now =< now
    BY BotAssumption DEF Key, TypeOK, WindowInv, Passes
  <2>2. stl.now >= EndOf(k) + SettlementGrace
    BY <1>1 DEF Due, SettlementDue
  <2> QED
    BY <1>4, <2>1, <2>2, BotAssumption DEF Over, Clock, SettlementDue, EndOf
<1>7. Passes'
  BY <1>3, <1>4 DEF WindowInv, Passes
<1>8. Known' \subseteq Known /\ Closing(queue)' \subseteq Closing(queue) \cup {position.id}
  <2>1. SettlementPnl(position, won) \in Int
    BY <1>2, RiskAssumption, BotAssumption DEF Trade, SettlementPnl
  <2>2. write \in Write /\ write.op = "close" /\ write.op # "open" /\ write.id = position.id
    BY <1>2, <2>1 DEF CloseWrite, Trade, TypeOK
  <2> HIDE DEF write
  <2>3. /\ Opened(queue') \subseteq Opened(queue)
        /\ Closing(queue') \subseteq Closing(queue) \cup {position.id}
    BY <1>3, <2>2, SubmitAdds DEF TypeOK
  <2> QED
    BY <1>3, <2>3 DEF Known
<1>9. positions'[k] = NoTrade /\ \A x \in Key \ {k} : positions'[x] = positions[x]
  BY <1>3 DEF TypeOK
<1>10. /\ Known \subseteq Trade /\ fills \subseteq Trade
       /\ \A t \in Trade : t.key \in Key
  BY KnownType DEF TypeOK
<1> HIDE DEF position, write
<1>11. ClosedWhenOver'
  <2>1. \A row \in db' : row = OpenRow(row.trade) \/ (row.status = "closed" /\ Over(row.trade.key)')
    BY <1>3, <1>5 DEF WindowInv, ClosedWhenOver
  <2>2. \A id \in Closing(queue)' : \E f \in fills' : f.id = id /\ Over(f.key)'
    BY <1>2, <1>3, <1>5, <1>6, <1>8 DEF WindowInv, ClosedWhenOver
  <2> QED
    BY <2>1, <2>2 DEF ClosedWhenOver
<1>12. KnownHeld'
  <2>1. \A t \in Known' : positions'[t.key] = t \/ Over(t.key)'
    BY <1>5, <1>6, <1>8, <1>9, <1>10 DEF WindowInv, KnownHeld
  <2> QED
    BY <1>8, <2>1 DEF WindowInv, KnownHeld
<1>13. FillsHeld'
  BY <1>3, <1>5, <1>6, <1>9, <1>10 DEF WindowInv, FillsHeld
<1> QED
  BY <1>7, <1>11, <1>12, <1>13 DEF WindowInv

\* A write that is committed was on the queue: what it inserts was known, and what it
\* closes was over.
LEMMA WrittenKeeps ==
    ASSUME TypeOK, TypeOK', Coherent, Numbered, WindowInv, Written
    PROVE  WindowInv'
<1> DEFINE write == Head(queue)
<1>1. /\ db' = Apply(db, write) /\ queue' = Tail(queue) /\ queue # <<>>
      /\ positions' = positions /\ fills' = fills /\ crashes' = crashes
      /\ sig' = sig /\ stl' = stl /\ now' = now
  BY DEF Written, Coherent, memory, world
<1>2. /\ Opened(queue') \subseteq Opened(queue) /\ Closing(queue') \subseteq Closing(queue)
      /\ write \in Write
      /\ write.op = "open" => write.trade \in Opened(queue)
      /\ write.op = "close" => write.id \in Closing(queue)
  BY <1>1, QueueShrinks DEF TypeOK
<1> HIDE DEF write
<1>3. Passes' /\ Clock' = Clock
  BY <1>1 DEF WindowInv, Passes, Clock
<1>4. Clock \in Nat
  BY ClockType DEF WindowInv
<1>5. /\ Known \subseteq Trade /\ fills \subseteq Trade
      /\ \A row \in db : row.trade \in Trade /\ row.trade \in Known
  BY KnownType DEF TypeOK
<1>6. CASE write.op = "open"
  <2>1. db' = db \cup {OpenRow(write.trade)}
    BY <1>1, <1>6 DEF Apply
  <2>2. OpenRow(write.trade) = OpenRow(OpenRow(write.trade).trade)
        /\ OpenRow(write.trade).trade = write.trade
    BY DEF OpenRow
  <2>3. Known' \subseteq Known
    BY <1>2, <1>6, <2>1, <2>2 DEF Known
  <2>4. \A row \in db' : \/ row = OpenRow(row.trade)
                         \/ row.status = "closed" /\ Over(row.trade.key)
    BY <2>1, <2>2 DEF WindowInv, ClosedWhenOver
  <2> QED
    BY <1>1, <1>2, <1>3, <1>4, <2>3, <2>4, QuietKeeps
<1>7. CASE write.op # "open"
  <2>1. db' = {ClosedRow(row, write.id, write.at, write.pnl) : row \in db}
    BY <1>1, <1>7 DEF Apply
  <2>2. write.op = "close"
    BY <1>2, <1>7 DEF OpenWrite, CloseWrite
  <2>3. \A row \in db : ClosedRow(row, write.id, write.at, write.pnl).trade = row.trade
    BY DEF ClosedRow
  <2>4. Known' \subseteq Known
    BY <1>2, <2>1, <2>3 DEF Known
  <2>5. PICK f \in fills : f.id = write.id /\ Over(f.key)
    BY <1>2, <2>2 DEF WindowInv, ClosedWhenOver
  <2>6. ASSUME NEW row \in db, row.trade.id = write.id
        PROVE  /\ ClosedRow(row, write.id, write.at, write.pnl).status = "closed"
               /\ Over(row.trade.key)
    <3>1. row.trade = f
      BY <1>5, <2>5, <2>6 DEF WindowInv, Numbered
    <3> QED
      BY <2>5, <2>6, <3>1 DEF ClosedRow
  <2>7. \A row \in db : row.trade.id # write.id
                            => ClosedRow(row, write.id, write.at, write.pnl) = row
    BY DEF ClosedRow
  <2>8. \A row \in db' : \/ row = OpenRow(row.trade)
                         \/ row.status = "closed" /\ Over(row.trade.key)
    BY <2>1, <2>3, <2>6, <2>7 DEF WindowInv, ClosedWhenOver
  <2> QED
    BY <1>1, <1>2, <1>3, <1>4, <2>4, <2>8, QuietKeeps
<1> QED
  BY <1>6, <1>7

\* A restart holds again every window whose trade the table shows as open.
LEMMA RestartKeeps ==
    ASSUME TypeOK, TypeOK', Numbered, WindowInv, Restart
    PROVE  WindowInv'
<1>1. /\ positions' \in Recovered(db) /\ db' = db /\ queue' = <<>> /\ fills' = fills
      /\ sig' = NoSignalPass /\ stl' = NoSettlePass /\ now' = now /\ crashes' = crashes + 1
  BY DEF Restart, WindowInv, Passes
<1>2. Passes'
  BY <1>1 DEF Passes, NoSignalPass, NoSettlePass, TypeOK
<1>3. Clock \in Nat /\ Clock' \in Nat /\ Clock =< Clock'
  BY <1>1, ClockType DEF WindowInv, Clock, NoSignalPass, TypeOK
<1>4. \A k \in Key : Over(k) => Over(k)'
  BY <1>3, OverStays
<1>5. Opened(queue') = {} /\ Closing(queue') = {}
  BY <1>1 DEF Opened, Closing
<1>6. Known' = {row.trade : row \in db} /\ Known' \subseteq Known
  BY <1>1, <1>5 DEF Known
<1>7. /\ Known \subseteq Trade /\ \A row \in db : row.trade \in Trade
      /\ \A t \in Trade : t.key \in Key
  BY KnownType
<1>8. OpenTrades(db) \subseteq Known'
  BY <1>6 DEF OpenTrades
<1>9. \A k \in Key : positions'[k] # NoTrade =>
          positions'[k] \in OpenTrades(db) /\ positions'[k].key = k
  BY <1>1 DEF Recovered, Loaded
<1>10. \A k \in Key : positions'[k] = NoTrade => \A t \in OpenTrades(db) : t.key # k
  BY <1>1 DEF Recovered, Loaded
<1>11. ClosedWhenOver'
  BY <1>1, <1>4, <1>5, <1>7 DEF WindowInv, ClosedWhenOver
<1>12. KnownHeld'
  <2>1. ASSUME NEW row \in db PROVE positions'[row.trade.key] = row.trade \/ Over(row.trade.key)'
    <3>1. CASE row.status = "closed" /\ Over(row.trade.key)
      BY <1>4, <1>7, <3>1
    <3>2. CASE row = OpenRow(row.trade)
      <4>1. row.trade \in OpenTrades(db) /\ row.trade.key \in Key
        BY <1>7, <3>2 DEF OpenTrades, OpenRow
      <4>2. /\ positions'[row.trade.key] \in OpenTrades(db)
            /\ positions'[row.trade.key].key = row.trade.key
        BY <1>9, <1>10, <4>1
      <4> QED
        BY <1>6, <1>8, <4>1, <4>2 DEF WindowInv, KnownHeld
    <3> QED
      BY <3>1, <3>2 DEF WindowInv, ClosedWhenOver
  <2>2. \A t \in Known' : positions'[t.key] = t \/ Over(t.key)'
    BY <1>6, <2>1
  <2>3. \A t, u \in Known' : t.key = u.key => t = u
    BY <1>6 DEF WindowInv, KnownHeld
  <2> QED
    BY <2>2, <2>3 DEF KnownHeld
<1>13. FillsHeld'
  BY <1>1, SMTT(30) DEF FillsHeld, TypeOK
<1> QED
  BY <1>2, <1>11, <1>12, <1>13 DEF WindowInv

\* Every step of such a bot keeps the invariant.
LEMMA WindowStep ==
    ASSUME ~Live, ~Telegram, ExpiryCutoff + SettlementGrace > 0,
           TypeOK, Coherent, Safe, Numbered, WindowInv, [Next]_vars
    PROVE  WindowInv'
<1>1. TypeOK' /\ Coherent'
  BY TypeStep
<1>2. /\ sig.pc \in {"sleep", "scan"} /\ stl.pc \in {"sleep", "scan"}
      /\ sig.pc = "scan" => stl.pc = "sleep"
      /\ sig.now =< now /\ stl.now =< now /\ sig.order = NoTrade
      /\ now \in Nat /\ sig.now \in Nat /\ stl.now \in Nat
  BY DEF TypeOK, WindowInv, Passes
<1> DEFINE Still == /\ positions' = positions /\ fills' = fills /\ crashes' = crashes
                    /\ db' = db
<1>3. ASSUME Still, Passes', Clock =< Clock', Clock' \in Nat,
             Opened(queue') \subseteq Opened(queue), Closing(queue') \subseteq Closing(queue)
      PROVE  WindowInv'
  <2>1. Known' \subseteq Known
    BY <1>3 DEF Known
  <2>2. Clock \in Nat
    BY ClockType DEF WindowInv
  <2>3. \A row \in db' : \/ row = OpenRow(row.trade)
                         \/ row.status = "closed" /\ Over(row.trade.key)
    BY <1>3 DEF WindowInv, ClosedWhenOver
  <2> QED
    BY <1>1, <1>3, <2>1, <2>2, <2>3, QuietKeeps
<1> USE DEF memory, disk, world, history
<1>4. CASE SignalPass
  <2>1. /\ Still /\ queue' = queue /\ now' = now /\ stl' = stl
        /\ sig'.pc = "scan" /\ sig'.now = now /\ sig'.order = NoTrade /\ stl.pc = "sleep"
    BY <1>2, <1>4 DEF SignalPass, LoopFree, TypeOK
  <2>2. Passes' /\ Clock =< Clock' /\ Clock' \in Nat
    BY <1>2, <2>1 DEF Passes, Clock
  <2> QED
    BY <1>3, <2>1, <2>2
<1>5. CASE SignalPassEnds
  <2>1. /\ Still /\ queue' = queue /\ now' = now /\ stl' = stl /\ sig' = NoSignalPass
    BY <1>5 DEF SignalPassEnds
  <2>2. Passes' /\ Clock =< Clock' /\ Clock' \in Nat
    BY <1>2, <2>1 DEF Passes, Clock, NoSignalPass
  <2> QED
    BY <1>3, <2>1, <2>2
<1>6. CASE SettlePass
  <2>1. /\ Still /\ queue' = queue /\ now' = now /\ sig' = sig
        /\ stl'.pc = "scan" /\ stl'.now = now /\ sig.pc = "sleep"
    BY <1>2, <1>6 DEF SettlePass, LoopFree, TypeOK
  <2>2. Passes' /\ Clock =< Clock' /\ Clock' \in Nat
    BY <1>2, <2>1 DEF Passes, Clock
  <2> QED
    BY <1>3, <2>1, <2>2
<1>7. CASE SettlePassEnds
  <2>1. Still /\ queue' = queue /\ now' = now /\ sig' = sig /\ stl' = NoSettlePass
    BY <1>7 DEF SettlePassEnds
  <2>2. Passes' /\ Clock =< Clock' /\ Clock' \in Nat
    BY <1>2, <2>1 DEF Passes, Clock, NoSettlePass
  <2> QED
    BY <1>3, <2>1, <2>2
<1>8. CASE WriterTakes
  <2>1. Still /\ queue' = queue /\ now' = now /\ sig' = sig /\ stl' = stl
    BY <1>8 DEF WriterTakes
  <2>2. Passes' /\ Clock =< Clock' /\ Clock' \in Nat
    BY <1>2, <2>1 DEF Passes, Clock
  <2> QED
    BY <1>3, <2>1, <2>2
<1>9. CASE WriteRaises
  <2>1. /\ Still /\ now' = now /\ sig' = sig /\ stl' = stl
        /\ queue' = queue \/ (queue # <<>> /\ queue' = Tail(queue))
    BY <1>9 DEF WriteRaises, Coherent
  <2>2. Opened(queue') \subseteq Opened(queue) /\ Closing(queue') \subseteq Closing(queue)
    BY <2>1, QueueShrinks DEF TypeOK
  <2>3. Passes' /\ Clock =< Clock' /\ Clock' \in Nat
    BY <1>2, <2>1 DEF Passes, Clock
  <2> QED
    BY <1>3, <2>1, <2>2, <2>3
<1>10. CASE Tick
  <2>1. Still /\ queue' = queue /\ now' = now + 1 /\ sig' = sig /\ stl' = stl
    BY <1>10 DEF Tick
  <2>2. Passes' /\ Clock =< Clock' /\ Clock' \in Nat
    BY <1>2, <2>1 DEF Passes, Clock
  <2> QED
    BY <1>3, <2>1, <2>2
<1>11. CASE UNCHANGED vars
  <2>1. Still /\ queue' = queue /\ now' = now /\ sig' = sig /\ stl' = stl
    BY <1>11 DEF vars
  <2>2. Passes' /\ Clock =< Clock' /\ Clock' \in Nat
    BY <1>2, <2>1 DEF Passes, Clock
  <2> QED
    BY <1>3, <2>1, <2>2
<1>12. CASE PaperOrder
  BY <1>1, <1>12, PaperOrderKeeps
<1>13. CASE SettlePaper
  BY <1>1, <1>13, SettlePaperKeeps DEF Safe
<1>14. CASE Written
  BY <1>1, <1>14, WrittenKeeps
<1>15. CASE Restart
  BY <1>1, <1>15, RestartKeeps
<1>16. /\ ~LiveOrder /\ ~LiveMatched /\ ~LiveUnmatched /\ ~LiveRaises /\ ~SignalNotified
       /\ ~FetchResolution /\ ~SettleFetched /\ ~FetchRaises /\ ~SettleNotified
  BY <1>2 DEF LiveOrder, LiveMatched, LiveUnmatched, LiveRaises, SignalNotified,
              FetchResolution, SettleFetched, FetchRaises, SettleNotified
<1> QED
  BY <1>4, <1>5, <1>6, <1>7, <1>8, <1>9, <1>10, <1>11, <1>12, <1>13, <1>14, <1>15, <1>16
  DEF Next, SignalLoop, SettlementLoop, Writer

\* The first state.
LEMMA WindowInit == Init => WindowInv
<1> SUFFICES ASSUME Init PROVE WindowInv
  OBVIOUS
<1>1. queue = <<>> /\ db = {} /\ fills = {} /\ now = 0 /\ positions = Empty
      /\ sig = NoSignalPass /\ stl = NoSettlePass
  BY DEF Init
<1>2. Opened(queue) = {} /\ Closing(queue) = {} /\ Known = {}
  BY <1>1 DEF Opened, Closing, Known
<1>3. Passes
  BY <1>1 DEF Passes, NoSignalPass, NoSettlePass
<1> QED
  BY <1>1, <1>2, <1>3
  DEF WindowInv, ClosedWhenOver, KnownHeld, FillsHeld, Empty

\* docs/RUST_HOT_PATH_PLAN.md:64 wants that "no duplicate position can be opened for an
\* asset/window after restart": on paper and without notifications no window is traded
\* twice in a run, and the table has no two open rows of one after any number of kills and lost
\* writes. A pass that waits, for a notification or for an order, can outlive a
\* position and trade its window again; with a cutoff and a grace of 0 both loops could
\* take a window for theirs at the same moment.
THEOREM TradedOnce ==
    ASSUME ~Live, ~Telegram, ExpiryCutoff + SettlementGrace > 0
    PROVE  Spec => []OneTradePerWindow
<1>1. TypeOK /\ Coherent /\ Safe /\ Numbered /\ WindowInv /\ [Next]_vars => WindowInv'
  BY WindowStep
<1>2. Spec => []WindowInv
  BY <1>1, WindowInit, Invariant, FillsNumbered, PTL DEF Spec
<1>3. WindowInv => OneTradePerWindow
  <2> SUFFICES ASSUME WindowInv PROVE OneTradePerWindow
    OBVIOUS
  <2>1. \A row \in db : row.trade \in Known
    BY DEF Known
  <2>2. \A row \in db : row.status = "open" => row = OpenRow(row.trade)
    BY DEF WindowInv, ClosedWhenOver
  <2>3. \A row, other \in db :
            (row.status = "open" /\ other.status = "open" /\ row.trade.key = other.trade.key)
                => row = other
    BY <2>1, <2>2 DEF WindowInv, KnownHeld
  <2> QED
    BY <2>3 DEF WindowInv, FillsHeld, OneTradePerWindow
<1> QED
  BY <1>2, <1>3, PTL

-----------------------------------------------------------------------------
(***************************************************************************)
(* Trades per hour, in a bot that fills on paper                           *)
(***************************************************************************)

\* On paper no order is ever in flight.
NoneInFlight == sig.order = NoTrade

\* Of the fills since some time, when all are in the table, there are no more than
\* trades_opened_since counts.
LEMMA RowsCountFills ==
    ASSUME IsFiniteSet(db), NEW from, \A f \in fills : f \in {row.trade : row \in db}
    PROVE  /\ IsFiniteSet({f \in fills : f.opened >= from})
           /\ Cardinality({f \in fills : f.opened >= from}) =< TradesOpenedSince(db, from)
           /\ TradesOpenedSince(db, from) \in Nat
<1> DEFINE Recent == {f \in fills : f.opened >= from}
           Rows == {row \in db : row.trade.opened >= from}
           rowOf == [f \in Recent |-> CHOOSE row \in Rows : row.trade = f]
<1>1. IsFiniteSet(Rows)
  BY FS_Subset
<1>2. \A f \in Recent : rowOf[f] \in Rows /\ rowOf[f].trade = f
  <2>1. ASSUME NEW f \in Recent PROVE \E row \in Rows : row.trade = f
    OBVIOUS
  <2> QED
    BY <2>1
<1>3. rowOf \in Injection(Recent, Rows)
  BY <1>2 DEF Injection, IsInjective
<1>4. IsFiniteSet(Recent) /\ Cardinality(Recent) =< Cardinality(Rows)
  BY <1>1, <1>3, FS_Injection
<1>5. Cardinality(Rows) \in Nat
  BY <1>1, FS_CardinalityType
<1> QED
  BY <1>4, <1>5 DEF TradesOpenedSince

\* An order of a pass is the first past its hour's earlier ones, of which there are fewer
\* than the limit.
LEMMA OrderWithinHour ==
    ASSUME TypeOK, \A f \in fills : f \in {row.trade : row \in db}, MaxTradesPerHour > 0,
           NEW k \in Key, NEW order \in Orders(k)
    PROVE  Cardinality({g \in fills \cup {order} : g.opened >= order.opened - HourLen})
               =< MaxTradesPerHour
<1> DEFINE from == sig.now - HourLen
           Recent == {g \in fills : g.opened >= from}
           After == {g \in fills \cup {order} : g.opened >= from}
<1>1. order.opened = sig.now /\ ~HourFull(TradesOpenedSince(db, from))
  BY DEF Orders, SizedOrders, SizeAccepted
<1>2. /\ IsFiniteSet(Recent) /\ Cardinality(Recent) =< TradesOpenedSince(db, from)
      /\ TradesOpenedSince(db, from) \in Nat
  BY RowsCountFills DEF TypeOK
<1>3. TradesOpenedSince(db, from) < MaxTradesPerHour /\ MaxTradesPerHour \in Nat
  BY <1>1, <1>2, RiskAssumption DEF HourFull
<1>4. After \subseteq Recent \cup {order}
  OBVIOUS
<1>5. /\ IsFiniteSet(Recent \cup {order}) /\ Cardinality(Recent) \in Nat
      /\ Cardinality(Recent \cup {order}) =< Cardinality(Recent) + 1
  <2> HIDE DEF Recent
  <2>1. Cardinality(Recent) \in Nat
    BY <1>2, FS_CardinalityType
  <2>2. /\ IsFiniteSet(Recent \cup {order})
        /\ Cardinality(Recent \cup {order}) =
              IF order \in Recent THEN Cardinality(Recent) ELSE Cardinality(Recent) + 1
    BY <1>2, FS_AddElement
  <2> QED
    BY <2>1, <2>2
<1>6. /\ IsFiniteSet(After) /\ Cardinality(After) =< Cardinality(Recent \cup {order})
      /\ Cardinality(After) \in Nat /\ Cardinality(Recent \cup {order}) \in Nat
  BY <1>4, <1>5, FS_Subset, FS_CardinalityType
<1>7. Cardinality(After) =< MaxTradesPerHour
  <2> HIDE DEF After, Recent, from
  <2> QED
    BY <1>2, <1>3, <1>5, <1>6
<1> QED
  BY <1>1, <1>7

\* What HourlyCapWhenWritten says of a step
HourlyStep ==
    (\A f \in fills : f \in {row.trade : row \in db})
      => \A f \in fills' \ fills :
           MaxTradesPerHour > 0
             => Cardinality({g \in fills' : g.opened >= f.opened - HourLen})
                  =< MaxTradesPerHour

\* On paper only a pass fills, and it fills what it has sized in the same step.
LEMMA HourlyStepHolds ==
    ASSUME ~Live, TypeOK, Coherent, NoneInFlight, [Next]_vars
    PROVE  NoneInFlight' /\ HourlyStep
<1>1. sig.pc # "submit"
  BY DEF Coherent, NoneInFlight
<1>2. ASSUME fills' = fills PROVE HourlyStep
  BY <1>2 DEF HourlyStep
<1>3. CASE SignalPass
  BY <1>2, <1>3 DEF SignalPass, NoneInFlight, TypeOK, world
<1>4. CASE SignalPassEnds
  BY <1>2, <1>4 DEF SignalPassEnds, NoneInFlight, NoSignalPass, world
<1>5. CASE PaperOrder
  <2>1. PICK k \in sig.todo : \E order \in Orders(k) : OpenPosition(k, order)
    BY <1>5 DEF PaperOrder
  <2>2. PICK order \in Orders(k) : OpenPosition(k, order)
    BY <2>1
  <2>3. k \in Key /\ fills' = fills \cup {order} /\ sig'.order = NoTrade
    BY <2>2 DEF OpenPosition, TypeOK
  <2>4. HourlyStep
    BY <2>3, OrderWithinHour DEF HourlyStep
  <2> QED
    BY <2>3, <2>4 DEF NoneInFlight
<1>6. CASE LiveOrder \/ LiveMatched \/ LiveUnmatched \/ LiveRaises
  BY <1>1, <1>6 DEF LiveOrder, LiveMatched, LiveUnmatched, LiveRaises
<1>7. CASE SignalNotified
  BY <1>2, <1>7 DEF SignalNotified, NoneInFlight, NoSignalPass, TypeOK, world
<1>8. CASE SettlementLoop
  BY <1>2, <1>8 DEF SettlementLoop, SettlePass, SettlePassEnds, SettlePaper, FetchResolution,
     SettleFetched, FetchRaises, SettleNotified, NoneInFlight, world
<1>9. CASE Writer \/ Tick
  BY <1>2, <1>9 DEF Writer, WriterTakes, Written, WriteRaises, Tick, NoneInFlight, memory, world
<1>10. CASE Restart
  BY <1>2, <1>10 DEF Restart, NoneInFlight, NoSignalPass
<1>11. CASE UNCHANGED vars
  BY <1>2, <1>11 DEF vars, memory, world, NoneInFlight
<1> QED
  BY <1>3, <1>4, <1>5, <1>6, <1>7, <1>8, <1>9, <1>10, <1>11 DEF Next, SignalLoop

\* risk.py, storage.py: max_trades_per_hour is judged by the table, which the writer fills
\* later. On paper it holds of every trade that is opened when the earlier ones are there;
\* a live order can be sized before, and be filled when they are.
THEOREM HourlyCapped ==
    ASSUME ~Live
    PROVE  Spec => HourlyCapWhenWritten
<1>1. TypeOK /\ Coherent /\ NoneInFlight /\ [Next]_vars => NoneInFlight' /\ [HourlyStep]_vars
  BY HourlyStepHolds
<1>2. Init => NoneInFlight
  BY DEF Init, NoneInFlight, NoSignalPass
<1>3. [][HourlyStep]_vars <=> HourlyCapWhenWritten
  BY PTL DEF HourlyCapWhenWritten, HourlyStep
<1> QED
  BY <1>1, <1>2, <1>3, Invariant, PTL DEF Spec
=============================================================================
