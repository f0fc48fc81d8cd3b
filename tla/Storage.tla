------------------------------- MODULE Storage -------------------------------
(***************************************************************************)
(* The trades table of storage.py: the statements the bot runs on it, as   *)
(* functions of the set of rows.  A row is a trade with what close_trade   *)
(* fills in.                                                               *)
(***************************************************************************)
EXTENDS Dollars, Sequences

CONSTANTS
    Trade,      \* what open_trade inserts: [id, key, paid, cost, shares, opened]
    Key,        \* "asset:start_ts"
    NoTrade     \* the absence of a position

\* INSERT INTO trades ... status 'open'
OpenRow(trade) == [trade |-> trade, status |-> "open", at |-> 0, pnl |-> 0]

\* bug: the update leaves realized_pnl out
ClosedRowNoPnl(row, id, at, pnl) ==
    IF row.trade.id = id
    THEN [trade |-> row.trade, status |-> "closed", at |-> at, pnl |-> row.pnl]
    ELSE row

\* UPDATE trades SET status = 'closed', ... WHERE trade_id = id: no row, no effect
ClosedRow(row, id, at, pnl) ==
    IF row.trade.id = id
    THEN [trade |-> row.trade, status |-> "closed", at |-> at, pnl |-> pnl]
    ELSE row

\* What running one queued write does to the table
Apply(rows, write) ==
    IF write.op = "open"
    THEN rows \cup {OpenRow(write.trade)}
    ELSE {ClosedRow(row, write.id, write.at, write.pnl) : row \in rows}

OpenTrades(rows) == {row.trade : row \in {r \in rows : r.status = "open"}}

\* load_open_positions, put in a dict by key: ORDER BY opened_at_ms, a later row
\* replaces an earlier one of the same key. (A row whose window is unknown is skipped:
\* open_trade writes start_ts and end_ts of every row, so that only a row older than
\* these columns can lack them, and the table starts empty.)
Loaded(trades) ==
    {book \in [Key -> trades \cup {NoTrade}] :
        \A k \in Key :
            IF book[k] = NoTrade
            THEN \A t \in trades : t.key # k
            ELSE /\ book[k].key = k
                 /\ \A t \in trades : t.key = k => t.opened =< book[k].opened}

Recovered(rows) == Loaded(OpenTrades(rows))

\* realized_pnl_since: what was won less what was lost
RealizedPnlSince(rows, from) ==
    LET closed == {row \in rows : row.status = "closed" /\ row.at >= from}
    IN  Total([row \in closed |-> Larger(row.pnl, 0)])
          - Total([row \in closed |-> Larger(-row.pnl, 0)])

\* trades_opened_since
TradesOpenedSince(rows, from) == Cardinality({row \in rows : row.trade.opened >= from})
=============================================================================
