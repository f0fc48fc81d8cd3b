--------------------------------- MODULE Bot ---------------------------------
(***************************************************************************)
(* The trading core of bot.py: the signal loop, the settlement loop, the   *)
(* risk manager, the positions held in memory and the trades table that a  *)
(* background writer fills.                                                *)
(*                                                                         *)
(* The coroutines run on one event loop: between two awaits a coroutine is *)
(* alone.  A loop whose pc is "scan" is inside such a stretch and nothing  *)
(* else of the loop moves; "submit", "fetch" and "notify" are its awaits.  *)
(* The wall clock, the writer's thread, the exchange and a kill of the     *)
(* process are not bound by it.                                            *)
(***************************************************************************)
EXTENDS RiskManager, Sequences

CONSTANTS
    Asset,              \* the enabled assets
    Start,              \* the windows' start times
    NoTrade,            \* the absence of a position or an order
    WindowLen,          \* end_ts - start_ts
    MinElapsed,         \* min_elapsed_seconds
    ExpiryCutoff,       \* max_seconds_to_expiry
    SettlementGrace,    \* settlement_grace_seconds
    HourLen,            \* the hour of max_trades_per_hour
    DayLen,             \* the length of a risk day
    KellyCosts,         \* Kelly stakes a signal may ask for
    Odds,               \* shares per dollar, 1 / ask_price
    TicksPerDollar,     \* 1 / tick_size
    Live,               \* trading.mode = "live"
    Telegram,           \* whether telegram.send has anything to await
    Overrun,            \* how much more than its order a live fill may be booked at
    MaxTime, MaxTrades, MaxCrashes, MaxLost     \* bounds of the model

ASSUME BotAssumption ==
    /\ IsFiniteSet(Asset)
    /\ Start \subseteq Nat /\ IsFiniteSet(Start)
    /\ WindowLen \in Nat /\ MinElapsed \in Nat
    /\ ExpiryCutoff \in Nat /\ SettlementGrace \in Nat
    /\ HourLen \in Nat /\ DayLen \in Nat \ {0}
    /\ KellyCosts \subseteq Nat
    /\ Odds \subseteq Nat \ {0}
    /\ Live \in BOOLEAN /\ Telegram \in BOOLEAN
    /\ Overrun \subseteq Nat /\ TicksPerDollar \in Nat
    /\ MaxTime \in Nat /\ MaxTrades \in Nat /\ MaxCrashes \in Nat /\ MaxLost \in Nat

Key == Asset \X Start       \* the keys of Bot.markets and Bot.positions

EndOf(k) == k[2] + WindowLen

\* bug: max_seconds_to_expiry forgotten
EntryNeverCloses(k, t) == k[2] + MinElapsed =< t

\* The times evaluate() lets a signal through
EntryOpen(k, t) == k[2] + MinElapsed =< t /\ t =< EndOf(k) - ExpiryCutoff

\* The times _settle_once lets a position through
SettlementDue(k, t) == t >= EndOf(k) + SettlementGrace

\* A Position. cost is its cost_usd, what the bot books, and opened the now_ms of the
\* pass that opened it. paid is the amount of its order, what the exchange took (history).
Trade ==
    {t \in [id : Nat, key : Key, paid : 0..MaxPosition, cost : Nat, shares : Nat,
            opened : Nat] : t.paid =< t.cost}

ASSUME NoTradeAssumption == NoTrade \notin Trade /\ NoTrade \notin Key

INSTANCE Storage

VARIABLES
    now,        \* the wall clock
    positions,  \* Bot.positions
    realized,   \* risk.realized_pnl_today
    day,        \* _risk_day_start_ms, as a number of days
    db,         \* the trades table
    queue,      \* the writes of trades on the storage queue, the one in its thread first
    writer,     \* AsyncStorageWriter._run: idle | writing | dead
    sig,        \* the signal pass: pc, windows left, its now_ms, the order in flight
    stl,        \* the settlement pass: pc, positions left, its now_ms, the one in flight
    fills,      \* the fills of the exchange (paper: of PaperExecutor)
    lost,       \* writes of trades lost to a full queue or an error (history)
    crashes,    \* how often the process was killed (history)
    base,       \* Floor when the day was last loaded from the table (history)
    excess      \* by how much fills were booked above their orders since (history)

memory == <<positions, realized, day, sig, stl>>
disk == <<db, queue, writer, lost>>
world == <<fills, crashes>>
history == <<base, excess>>
vars == <<now, memory, disk, world, history>>

OpenWrite == [op : {"open"}, trade : Trade]
CloseWrite == [op : {"close"}, id : Nat, at : Nat, pnl : Int]

Row == [trade : Trade, status : {"open", "closed"}, at : Nat, pnl : Int]

TypeOK ==
    /\ now \in Nat
    /\ positions \in [Key -> Trade \cup {NoTrade}]
    /\ realized \in Int
    /\ day \in Nat
    /\ db \subseteq Row /\ IsFiniteSet(db)
    /\ queue \in Seq(OpenWrite \cup CloseWrite)
    /\ writer \in {"idle", "writing", "dead"}
    /\ sig \in [pc : {"sleep", "scan", "submit", "notify"}, todo : SUBSET Key,
                now : Nat, order : Trade \cup {NoTrade}]
    /\ stl \in [pc : {"sleep", "scan", "fetch", "notify"},
                todo : [Key -> Trade \cup {NoTrade}], now : Nat, at : Key \cup {NoTrade}]
    /\ fills \subseteq Trade /\ IsFiniteSet(fills)
    /\ lost \in Nat /\ crashes \in Nat
    /\ base \in Int /\ excess \in Nat

Empty == [k \in Key |-> NoTrade]

\* Between two passes the locals of a pass are gone.
NoSignalPass == [pc |-> "sleep", todo |-> {}, now |-> 0, order |-> NoTrade]
NoSettlePass == [pc |-> "sleep", todo |-> Empty, now |-> 0, at |-> NoTrade]

-----------------------------------------------------------------------------
(***************************************************************************)
(* What the bot reads                                                      *)
(***************************************************************************)

Held == {k \in Key : positions[k] # NoTrade}

Stake(book) == [k \in Key |-> IF book[k] = NoTrade THEN 0 ELSE book[k].cost]

\* sum(position.cost_usd for position in self.positions.values())
Exposure == Total(Stake(positions))

Paid(book) == [k \in Key |-> IF book[k] = NoTrade THEN 0 ELSE book[k].paid]

\* What the exchange took for the positions in memory
Outlay == Total(Paid(positions))

\* What the order in flight may take
Pending == IF sig.order = NoTrade THEN 0 ELSE sig.order.cost

\* What the day's result is if every open position and the order in flight lose, but
\* for what fills were booked at above their orders
Floor == realized - Exposure - Pending + excess

\* No coroutine is between two awaits
LoopFree == sig.pc # "scan" /\ stl.pc # "scan"

RiskDay(t) == t \div DayLen

\* bug: the last write submitted is the first taken
SubmitFirst(write) ==
    \/ queue' = <<write>> \o queue /\ lost' = lost
    \/ lost < MaxLost /\ lost' = lost + 1 /\ queue' = queue

\* AsyncStorageWriter.submit of the write of a trade. Ticks, markets, signals and
\* events share the queue, so it may be full whatever its trades.
Submit(write) ==
    \/ queue' = Append(queue, write) /\ lost' = lost
    \/ lost < MaxLost /\ lost' = lost + 1 /\ queue' = queue

\* _refresh_risk_day
RefreshRiskDay ==
    /\ day' = RiskDay(now)
    /\ realized' = IF day' = day THEN realized ELSE RealizedPnlSince(db, day' * DayLen)
    /\ base' = IF day' = day THEN base ELSE realized' - Exposure - Pending
    /\ excess' = IF day' = day THEN excess ELSE 0

-----------------------------------------------------------------------------
(***************************************************************************)
(* The signal loop                                                         *)
(***************************************************************************)

\* _evaluate_once up to its loop: now_ms and the list of windows are read once.
SignalPass ==
    /\ LoopFree /\ sig.pc = "sleep"
    /\ RefreshRiskDay
    /\ sig' = [sig EXCEPT !.pc = "scan", !.todo = Key, !.now = now]
    /\ UNCHANGED <<now, positions, stl, disk, world>>

\* The windows left give no order: no quote, no tick, no accepted signal, a
\* position held, or refused by the risk manager.
SignalPassEnds ==
    /\ sig.pc = "scan"
    /\ sig' = NoSignalPass
    /\ UNCHANGED <<now, positions, realized, day, stl, disk, world, history>>

\* What size_for_signal makes of an accepted signal of window k: the exposure is
\* that of memory, the trades of the last hour are those of the table.
SizedOrders(k) ==
    {order \in {[id |-> Cardinality(fills) + 1, key |-> k, opened |-> sig.now,
                 paid |-> SizedCost(kelly, Exposure, realized),
                 cost |-> SizedCost(kelly, Exposure, realized),
                 shares |-> odds * SizedCost(kelly, Exposure, realized)] :
                    kelly \in KellyCosts, odds \in Odds} :
        SizeAccepted(order.cost, order.shares, Exposure,
                     TradesOpenedSince(db, sig.now - HourLen), realized)}

\* bug: whether the window is held is not looked up
OrdersUnheld(k) == IF EntryOpen(k, sig.now) THEN SizedOrders(k) ELSE {}

\* A window of the pass gives an order. Its signal is judged at the time the pass
\* began; whether the position is held is looked up now.
Orders(k) ==
    IF positions[k] = NoTrade /\ EntryOpen(k, sig.now) THEN SizedOrders(k) ELSE {}

\* A matched order becomes a position: self.positions[market.key] = position and
\* submit(open_trade), then telegram.send.
OpenPosition(k, trade) ==
    /\ positions' = [positions EXCEPT ![k] = trade]
    /\ Submit([op |-> "open", trade |-> trade])
    /\ fills' = fills \cup {trade}
    /\ sig' = [sig EXCEPT !.pc = IF Telegram THEN "notify" ELSE "scan",
                          !.todo = sig.todo \ {k}, !.order = NoTrade]

\* PaperExecutor.submit fills at the ask without suspending.
PaperOrder ==
    /\ ~Live /\ sig.pc = "scan"
    /\ Cardinality(fills) < MaxTrades
    /\ \E k \in sig.todo : \E order \in Orders(k) : OpenPosition(k, order)
    /\ UNCHANGED <<now, realized, day, stl, db, writer, crashes, history>>

\* LiveExecutor.submit posts the order from a thread and awaits the answer.
LiveOrder ==
    /\ Live /\ sig.pc = "scan"
    /\ Cardinality(fills) < MaxTrades
    /\ \E k \in sig.todo : \E order \in Orders(k) :
           sig' = [sig EXCEPT !.pc = "submit", !.order = order, !.todo = sig.todo \ {k}]
    /\ UNCHANGED <<now, positions, realized, day, stl, disk, world, history>>

\* The shares a fill may report that is booked at this cost: cost over shares is the
\* limit, which is the ask rounded up to the tick, and less than a dollar.
ReportedShares(order, cost) ==
    {shares \in cost + 1 .. (cost * order.shares) \div order.cost :
        cost * order.shares * TicksPerDollar < shares * (order.cost * TicksPerDollar + order.shares)}

\* The answer says "matched": the amount of the order is spent, and cost_usd is the
\* limit times the shares the answer reports. A fill below the limit brings more shares
\* and so is booked above its order, by the more the better its price was.
LiveMatched ==
    /\ LoopFree /\ sig.pc = "submit"
    /\ \E over \in Overrun :
           /\ \E shares \in ReportedShares(sig.order, sig.order.cost + over) :
                  OpenPosition(sig.order.key,
                               [sig.order EXCEPT !.cost = @ + over, !.shares = shares])
           /\ excess' = excess + over
    /\ UNCHANGED <<now, realized, day, stl, db, writer, crashes, base>>

\* Any other answer is no fill, that of an order which is delayed and fills later too.
LiveUnmatched ==
    /\ LoopFree /\ sig.pc = "submit"
    /\ fills' \in {fills, fills \cup {sig.order}}
    /\ sig' = [sig EXCEPT !.pc = "scan", !.order = NoTrade]
    /\ UNCHANGED <<now, positions, realized, day, stl, disk, crashes, history>>

\* The request raises, the order posted and filled or not: signal_loop logs and
\* the pass is over.
LiveRaises ==
    /\ LoopFree /\ sig.pc = "submit"
    /\ fills' \in {fills, fills \cup {sig.order}}
    /\ sig' = NoSignalPass
    /\ UNCHANGED <<now, positions, realized, day, stl, disk, crashes, history>>

\* telegram.send returns, or raises and ends the pass.
SignalNotified ==
    /\ LoopFree /\ sig.pc = "notify"
    /\ \/ sig' = [sig EXCEPT !.pc = "scan"]
       \/ sig' = NoSignalPass
    /\ UNCHANGED <<now, positions, realized, day, stl, disk, world, history>>

-----------------------------------------------------------------------------
(***************************************************************************)
(* The settlement loop                                                     *)
(***************************************************************************)

\* _settle_once up to its loop: list(self.positions.items())
SettlePass ==
    /\ LoopFree /\ stl.pc = "sleep"
    /\ RefreshRiskDay
    /\ stl' = [stl EXCEPT !.pc = "scan", !.todo = positions, !.now = now]
    /\ UNCHANGED <<now, positions, sig, disk, world>>

\* The positions left are not due or have no tick to settle them by.
SettlePassEnds ==
    /\ stl.pc = "scan"
    /\ stl' = NoSettlePass
    /\ UNCHANGED <<now, positions, realized, day, sig, disk, world, history>>

Due(k) == stl.todo[k] # NoTrade /\ SettlementDue(k, stl.now)

\* bug: a loser's stake is charged twice
ChargedTwice(position, won) == (IF won THEN position.shares ELSE -position.cost) - position.cost

\* position_settlement_pnl
SettlementPnl(position, won) == (IF won THEN position.shares ELSE 0) - position.cost

\* The end of the loop's body: submit(close_trade), apply_realized_pnl, del
\* self.positions[key], telegram.send. The position is the one of the snapshot.
Settle(k, won) ==
    LET position == stl.todo[k]
        pnl == SettlementPnl(position, won)
    IN  /\ Submit([op |-> "close", id |-> position.id, at |-> now, pnl |-> pnl])
        /\ realized' = realized + pnl
        /\ positions' = [positions EXCEPT ![k] = NoTrade]
        /\ stl' = [stl EXCEPT !.pc = IF Telegram THEN "notify" ELSE "scan",
                              !.todo = [stl.todo EXCEPT ![k] = NoTrade], !.at = NoTrade]

\* A paper position is settled by the local tick, with no await.
SettlePaper ==
    /\ ~Live /\ stl.pc = "scan"
    /\ \E k \in Key, won \in BOOLEAN : Due(k) /\ Settle(k, won)
    /\ UNCHANGED <<now, day, sig, db, writer, world, history>>

\* A live position is first looked up: await gamma.fetch_event_by_slug
FetchResolution ==
    /\ Live /\ stl.pc = "scan"
    /\ \E k \in Key : Due(k) /\ stl' = [stl EXCEPT !.pc = "fetch", !.at = k]
    /\ UNCHANGED <<now, positions, realized, day, sig, disk, world, history>>

SettleFetched ==
    /\ LoopFree /\ stl.pc = "fetch"
    /\ \E won \in BOOLEAN : Settle(stl.at, won)
    /\ UNCHANGED <<now, day, sig, db, writer, world, history>>

\* The lookup raises: settlement_loop logs and the pass is over.
FetchRaises ==
    /\ LoopFree /\ stl.pc = "fetch"
    /\ stl' = NoSettlePass
    /\ UNCHANGED <<now, positions, realized, day, sig, disk, world, history>>

SettleNotified ==
    /\ LoopFree /\ stl.pc = "notify"
    /\ \/ stl' = [stl EXCEPT !.pc = "scan"]
       \/ stl' = NoSettlePass
    /\ UNCHANGED <<now, positions, realized, day, sig, disk, world, history>>

-----------------------------------------------------------------------------
(***************************************************************************)
(* The writer, the clock and the process                                   *)
(***************************************************************************)

\* _run takes the head of the queue when the event loop gets to it...
WriterTakes ==
    /\ LoopFree /\ writer = "idle" /\ queue # <<>>
    /\ writer' = "writing"
    /\ UNCHANGED <<now, memory, db, queue, lost, world, history>>

\* ... and its thread commits the write whatever the loop does.
Written ==
    /\ writer = "writing"
    /\ db' = Apply(db, Head(queue))
    /\ queue' = Tail(queue)
    /\ writer' = "idle"
    /\ UNCHANGED <<now, memory, lost, world, history>>

\* A write that raises, this one or one of a tick or an event before it, ends the
\* writer's task.
WriteRaises ==
    /\ MaxLost > 0
    /\ \/ writer = "idle" /\ UNCHANGED <<queue, lost>>
       \/ writer = "writing" /\ lost < MaxLost /\ lost' = lost + 1 /\ queue' = Tail(queue)
    /\ writer' = "dead"
    /\ UNCHANGED <<now, memory, db, world, history>>

Tick ==
    /\ now < MaxTime
    /\ now' = now + 1
    /\ UNCHANGED <<memory, disk, world, history>>

\* The process is killed and started again: what was not in the table is gone, an
\* order in flight may have been filled.
Restart ==
    /\ crashes < MaxCrashes
    /\ crashes' = crashes + 1
    /\ fills' \in {fills} \cup (IF sig.order = NoTrade THEN {} ELSE {fills \cup {sig.order}})
    /\ queue' = <<>>
    /\ writer' = "idle"
    /\ positions' \in Recovered(db)
    /\ day' = RiskDay(now)
    /\ realized' = RealizedPnlSince(db, day' * DayLen)
    /\ base' = realized' - Total(Stake(positions'))
    /\ excess' = 0
    /\ sig' = NoSignalPass
    /\ stl' = NoSettlePass
    /\ UNCHANGED <<now, db, lost>>

-----------------------------------------------------------------------------
\* A first start, on an empty database
Init ==
    /\ now = 0
    /\ positions = Empty
    /\ realized = 0
    /\ day = 0
    /\ db = {}
    /\ queue = <<>>
    /\ writer = "idle"
    /\ sig = NoSignalPass
    /\ stl = NoSettlePass
    /\ fills = {}
    /\ lost = 0
    /\ crashes = 0
    /\ base = 0
    /\ excess = 0

SignalLoop ==
    \/ SignalPass \/ SignalPassEnds \/ PaperOrder \/ LiveOrder
    \/ LiveMatched \/ LiveUnmatched \/ LiveRaises \/ SignalNotified

SettlementLoop ==
    \/ SettlePass \/ SettlePassEnds \/ SettlePaper \/ FetchResolution
    \/ SettleFetched \/ FetchRaises \/ SettleNotified

Writer == WriterTakes \/ Written \/ WriteRaises

Next == SignalLoop \/ SettlementLoop \/ Writer \/ Tick \/ Restart

Spec == Init /\ [][Next]_vars

-----------------------------------------------------------------------------
(***************************************************************************)
(* Properties                                                              *)
(***************************************************************************)

\* No order takes what the exchange was paid for the positions in memory past
\* max_open_exposure_usd, although it is sized before an await and settlements, fills
\* and reloads come between. Only a restart can bring back more: closes that were not
\* written.
ExposureCap ==
    [][Outlay' > Outlay => Outlay' =< MaxOpenExposure \/ crashes' # crashes]_vars

\* The day's result can fall below the drawdown limit, but never by more than the
\* open exposure: from the moment the day is loaded, the result less everything
\* at stake stays above -(drawdown + exposure) or where the day began, by no more than
\* what live fills were booked at above their orders.
LossBound ==
    Floor >= Smaller(base, -(MaxDailyDrawdown + MaxOpenExposure))

\* The settlement loop works on a list it made before its awaits, and yet deletes
\* only the position it has settled.
SnapshotCurrent ==
    \A k \in Key : stl.todo[k] # NoTrade => positions[k] = stl.todo[k]

\* While an order is in flight nothing else opens its window: the position that is
\* stored after the await replaces none.
OrderReplacesNothing ==
    sig.order # NoTrade => positions[sig.order.key] = NoTrade

\* Within one run, a window is traded at most once, though its position is
\* forgotten when it is settled; and whatever is killed or lost, the table never has two
\* open rows of a window, of which a restart would forget one.
OneTradePerWindow ==
    /\ crashes = 0 => \A f, g \in fills : f.key = g.key => f = g
    /\ \A row, other \in db :
           (row.status = "open" /\ other.status = "open" /\ row.trade.key = other.trade.key)
               => row = other

Closes(write, trade) == write.op = "close" /\ write.id = trade.id

\* The last of the writes from the i-th to the n-th that closes a trade, if one does
LastClose(writes, trade, i, n) ==
    {j \in i..n : /\ Closes(writes[j], trade)
                  /\ \A m \in j + 1..n : ~Closes(writes[m], trade)}

\* What these writes make of a row
RowAfter(row, writes, i, n) ==
    LET last == LastClose(writes, row.trade, i, n)
        write == writes[CHOOSE j \in last : TRUE]
    IN  IF last = {} THEN row ELSE ClosedRow(row, write.id, write.at, write.pnl)

\* The table when the first n writes are in it: the rows that were there, and those that
\* are inserted, each as the writes behind it leave it
RowsAfter(rows, writes, n) ==
    {RowAfter(row, writes, 1, n) : row \in rows}
      \cup {RowAfter(OpenRow(writes[i].trade), writes, i + 1, n) :
               i \in {j \in 1..n : writes[j].op = "open"}}

Replay == RowsAfter(db, queue, Len(queue))

\* The positions in memory are those a restart would load once the writer has
\* caught up: no write is missing from the queue, doubled or out of order.
BookIsLog == lost = 0 => positions \in Recovered(Replay)

\* Between two loads of the day the risk manager's result moves with the log: a
\* close that is counted is written, at a time of this day, with the same result.
ResultMovesWithLog ==
    [][(lost' = 0 /\ day' = day /\ crashes' = crashes)
         => realized' - RealizedPnlSince(Replay, day * DayLen)'
              = realized - RealizedPnlSince(Replay, day * DayLen)]_vars

\* max_trades_per_hour holds for an order that is sized when every earlier fill is
\* in the table.
HourlyCapWhenWritten ==
    [][(\A f \in fills : f \in {row.trade : row \in db})
         => \A f \in fills' \ fills :
              MaxTradesPerHour > 0
                => Cardinality({g \in fills' : g.opened >= f.opened - HourLen})
                     =< MaxTradesPerHour]_vars

\* README.md: "Risk controls include max daily drawdown, ... max trades per hour".
HourlyCap ==
    MaxTradesPerHour > 0
      => \A f \in fills : Cardinality({g \in fills : /\ g.opened >= f.opened - HourLen
                                                    /\ g.opened =< f.opened})
                            =< MaxTradesPerHour
=============================================================================
