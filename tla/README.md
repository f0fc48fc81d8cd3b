# Polymarket oracle bot: specification, model checking and proofs

TLA+ modules for the bot of `src/poly_oracle_bot` (Python, the runtime that
trades) and for the parts of `crates/oracle-bot-rs` (Rust, a paper skeleton)
that do the same work differently. Each module is written from the source; the
`map` of `PROJECT.json` says which lines every definition stands for.

## 1. The system

One asyncio process. Six coroutines share the memory of one `Bot` object, two
background tasks drain two bounded queues into SQLite and a JSONL file.

| part | state | operations | talks to |
|---|---|---|---|
| signal loop (`bot.py` 201-332) | the pass: its list of windows, its `now_ms` | look at every window, size, submit, open a position | risk manager, executor, writer, Telegram |
| settlement loop (334-395) | the pass: a copy of the positions, its `now_ts` | settle each expired position | Gamma, risk manager, writer, Telegram |
| positions, risk day (43-46, 460-474) | `positions`, `realized_pnl_today`, `_risk_day_start_ms` | open, close, reload at midnight and at start | trades table |
| risk manager (`risk.py`) | `realized_pnl_today` | size or refuse | - |
| trades table (`storage.py`) | rows of trades | insert, close, sums and counts | read by the loops at once, written by the queue |
| storage writer (`storage_writer.py`) | bounded queue, one task | submit or drop, write, stop | SQLite in a thread |
| recorder (`recorder.py`) | bounded queue, batch | record or drop, flush, stop | file in a thread |
| price capture (`bot.py` 83-125, 151-199, 397-416) | `recent_ticks`, `latest_ticks`, `markets` | on a tick: arm windows; on a poll: merge and backfill | RTDS feed, Gamma |
| market stream (`feeds.py` 97-143) | `_asset_ids`, `_updates`, a connection's `subscribed` | connect, subscribe, reconnect | exchange |
| order book (`orderbook.py`) | a quote per token | merge a message of the stream | market stream, signal loop |
| signal engine (`signal.py`) | - | judge a tick and a quote at a time | signal loop |
| executor (`execution.py`) | client | paper fill, or post and await | exchange |
| start and shutdown (51-81, `__main__.py`) | the tasks, whether the database is open | start both queues, notify, gather, stop both queues, close | all of the above |
| settlement outcome (`settlement.py`) | - | which side won, by Gamma or by the tick; the result | Gamma, settlement loop |
| replay (`scripts/replay_telemetry.py`) | windows, ticks, quotes, positions rebuilt from the file | take every recorded signal and settlement again | the recorder's file |
| Rust state, stream, order book and signals (`state.rs`, `clob_ws.rs`, `orderbook.rs`, `signal.rs`) | the same, with a watch channel | the same | Gamma, exchange |

What is hard here, and what no test of `tests/test_core.py` reaches:

- **Reads that lag.** The loops decide by the table and write through a queue.
  Whatever is queued is invisible to the next decision (hourly limit, reload of
  the day's result).
- **Awaits in the middle of a pass.** Both loops work through lists made before
  their awaits. Between two awaits of one loop the other may run to its end.
- **Crashes.** A kill loses the queue. Positions are rebuilt from the table,
  orders in flight are not.
- **Failures of one step.** An order request that raises after the exchange
  filled it, a notification that raises after the position is stored, a write
  that raises and takes the writer's task with it.
- **Order of arrival.** A window and its opening tick come from two sources,
  either first; ticks of a snapshot come late; a poll replaces the object that
  a tick has just armed.
- **Reconnections.** The exchange forgets the subscriptions, the queue of
  updates does not.
- **Shutdown.** Two queues are emptied and the database is closed one after the other,
  each step only if the one before it neither raised nor was interrupted.
- **Telemetry.** The recorder may drop any event, and a kill loses those in
  memory; a replay judges by what it has and at the times it was recorded at.

## 2. Modules

| module | models | state and actions |
|---|---|---|
| `WriteLog` | what a background queue promises | accepted, stored, dropped; Accept, Drop, Store |
| `StorageWriter` | `AsyncStorageWriter` with its caller | queue, join counter, task, table; one action per await of `_run` and `stop` |
| `Recorder` | `JsonlRecorder` | queue, batch, task, file; enabled or not, batch full, timer, sentinel, raising append |
| `Lifecycle` | `Bot.run` over both queues: extends `StorageWriter`, instantiates `Recorder` | how far `run` is, whether the database is open; start, which a recorder that cannot make its directory breaks off, first notification, end of the gather, the three steps of the finally, an interrupt |
| `Settlement` | the settlement loop and `gamma_winning_outcome` | positions in the order of the dict, the pass, local and official outcomes, closes; lookups that answer, find nothing or raise |
| `Replay` | the bot's telemetry of one window and `replay_telemetry.py` | the bot's inputs and position; which of its rows the trades table holds, and which writes a kill may lose; of the file the replay's state and the events it has missed |
| `Execution` | the arithmetic of a live order | pure operators: the rounded limit, the fill, the booked cost |
| `Dollars` | sums of stakes | a sum as the size of a set: no recursion, so it can be proved about |
| `RiskManager` | `risk.py` | the caps and refusals as operators |
| `Storage` | the trades table | statements as functions of the set of rows |
| `Bot` | the trading core | both loops, positions, day, table, queue, exchange fills, clock, kill |
| `MCBot` | `Bot` for TLC | symmetry, the counted and the stated operators against folds, the sentences of the repository that the code does not keep |
| `Prices` | ring, arming, backfill, merge, settlement tick | pure operators, Python's and Rust's side by side |
| `PriceCapture` | `on_tick` and `market_poll_loop` | ring, latest tick, prices, a poll under way, whether the feed is in order |
| `PriceParity` | `PriceCapture` with the Rust runtime beside it, on the same ticks and the same polls | also Rust's ring and prices |
| `MarketStream` | `PolymarketMarketStream` | wanted, queue of updates, connection |
| `ClobStream` | `run_clob_market_ws` | the same over a watch channel |
| `StreamParity` | both streams on the same polls | the variables of both |
| `Signals` | `orderbook.py`, `signal.py` and their Rust twins | pure operators: what a message makes of a quote, when a signal is accepted, and the reason it gives |
| `HotPath` | one window from the exchange's offers to an accepted signal | offers, connection, messages under way, quotes of both runtimes, tick, pass |
| `MCHotPath`, `MCReplay` | `HotPath` and `Replay` for TLC | the probabilities of the model's distances |
| `BotProofs`, `ExecutionProofs`, `LifecycleProofs`, `SettlementProofs`, `StreamProofs`, `PriceProofs`, `HotPathProofs`, `ReplayProofs` | the theorems | section 6 |

How the code's steps become actions:

- Between two awaits a coroutine is alone (`LoopFree` in `Bot`): the code
  between them is one action, and an action of another coroutine is enabled
  only when no loop is in the middle of such a stretch. A pass of `_evaluate_once`
  is `SignalPass` (day refreshed, clock read, list made), then one action per
  window that gives an order, then `SignalPassEnds`. In paper mode an order is
  one action, in live mode `LiveOrder` and one of `LiveMatched`,
  `LiveUnmatched`, `LiveRaises` with anything between. A notification is an
  await (`notify`) when Telegram is configured; when it is not, `send` returns
  without one.
- `Written` is not bound by the loop: the write commits in a thread, at any
  moment. So is `Tick`, the wall clock.
- `Submit` may lose a write whenever `lost < MaxLost`: ticks, markets, signals
  and events share the queue, which may be full whatever its trades.
- `Restart` is a kill and a start in one step; `Recovered` chooses among rows
  with the same `opened_at_ms` as SQLite may.
- In `Bot` whether there is a signal, which side wins and what Gamma answers are
  choices; `HotPath`, `Settlement` and `Prices` have what they depend on. In `Prices` a price is named by the feed
  timestamp of its tick; `HotPath` has one price to beat, and that Gamma may replace it is in `PriceCapture` and `Replay`.
- A matched live order spends its amount (`paid`), but is booked at its limit times the
  shares the answer reports (`cost`), and these are two numbers of a `Trade`: a fill at a better price brings more shares
  for the same dollars. `LiveMatched` books it above the order by any member of `Overrun`, with any number of shares that
  makes the price booked a share the ask rounded up to a tick and less than a dollar. `excess` adds up, as a history
  variable, what was booked above the orders since the day was loaded.
- The estimated probability is a table (`Probability`): no property depends on its shape, and the theorems hold for every one.
- `Storage` has no rows whose window is missing: `open_trade` writes both of its times, and only a table older than those
  columns has such rows (`load_open_positions` would infer the times from the slug, or skip the row).
- Operators whose comment begins with `bug:` are not part of the model: each is
  a plausible mistake in the definition after it, and shows that a property
  notices it. `PROJECT.json` pairs them under `mutants`.

## 3. Runs

Passing:

| run | question | size |
|---|---|---|
| `MCLifecycle` | Is what either queue takes stored once and in order, is the database closed over nothing unwritten, and does the shutdown end, whatever raises and whenever it is interrupted, with a recorder that is disabled or cannot start? | 4 writes of which 2 may raise, 4 events, queues of 2, batches of 2 |
| `MCBotPaper` | Do memory, queue and table agree, do the limits hold, is a window traded once and never open twice in the table, with a kill, a lost write and a dead writer? | 2 assets, 2 windows each, 3 fills, 3 ticks of the clock, 2 days |
| `MCBotLive` | Do the limits hold with orders, lookups and notifications in flight in both loops, and with fills booked above their orders? | 2 assets, 2 windows each, 2 fills, each booked at its order or 2 above, 3 ticks of the clock |
| `MCPrices` | Do the opening and the settlement tick depend on who comes first, or on the runtime? Ticks in order and, in other behaviours, in any order. | 2 windows, 7 timestamps, ring of 3 that drops 2 |
| `MCHotPath` | Are the quotes those of the exchange once all is read, through reconnections, and do both runtimes decide alike? | 2 tokens, 2 prices, 3 messages under way, 3 oracle prices, 3 ticks of the clock |
| `MCStreams` | Is every wanted token asked for by both runtimes, through reconnections? | 2 tokens, 2 updates waiting |
| `MCSettlement` | Is every position that can be settled settled in the end, once, and by Gamma's outcome when it has one, while lookups and notifications break passes off? | 3 positions, 2 of them live, 1 whose lookup never works |
| `MCReplay` | Does a replay decide as the bot did, with an event missed, kills, replaced windows and prices to beat, and a clock that moves? Does a replayed settlement give the recorded result, also when a kill lost the close and the position is settled again? | 2 oracle prices, 1 ask, 2 fills, 1 missed event, 2 ticks of the clock |

Violated, each by what the code does, against a sentence of the repository:

| run | property | what happens |
|---|---|---|
| `MCBotHourlyCap` | `HourlyCap` | two orders of one pass, the first still on the queue when the second counts the table |
| `MCBotDayReload` | `ResultIsReloaded` | midnight passes, a position is closed, the other loop reloads the day before the close is written |
| `MCBotLiveExposure` | `ExchangeExposureCap` | an order is answered as delayed and fills later, so nothing is kept of it; the next order of the same pass is sized as if nothing were at stake, and both are over the limit. An order request that raises after the exchange took the order leaves the same gap |
| `MCHotPathStale` | `AcceptedOnFreshTick` | a pass waits for a notification, then judges the age of a tick by the time the pass began |

Some properties are the strongest that hold where the sentence one would like
to state does not, and their exceptions are worth a reader's attention:

- `HourlyCapWhenWritten`: the hourly limit holds whenever the earlier fills are
  in the table. It is checked and proved on paper; a live order is sized before
  its answer comes, so it may be filled when the table has more than it was sized by.
- `OneTradePerWindow`: `docs/RUST_HOT_PATH_PLAN.md:64` wants that "no duplicate
  position can be opened for an asset/window after restart". It holds for a bot that
  fills on paper and notifies nobody. A pass that waits, for an order or for
  Telegram, goes on with the time it began at: the settlement loop may meanwhile
  close a position of a window that is over, and the pass then takes the window
  for one that is running and free, and trades it again. With a cutoff and a grace of 0
  the same could happen without a wait; the defaults are 8 and 2, and nothing
  enforces them.
- `LossBound`: `risk.py` 48 caps each order by what is left of the daily loss
  budget and does not take open positions off it, so several positions may lose
  more than `max_daily_drawdown_usd` together, by at most the open exposure. Live, the result counts a
  loss at what was booked, so it may fall lower still, by what fills were booked at above their orders (`excess`).
- `ExposureCap` is about what the exchange was paid for the positions in memory. What the bot booked for them is never
  less (`BookedAtLimit`), so an order that fits the booked exposure fits what was paid. It does not see what memory does not hold: a
  delayed order that fills later (`MCBotLiveExposure`), or closes that a kill lost, which a restart brings back as positions.
- `CaughtUp`: `feeds.py` 119 reads the wanted tokens again after the await of the
  first message, so those that came in between are taken for subscribed and not
  asked for until the next connection. `clob_ws.rs` keeps the set it sent, and
  `RustAllSubscribed` holds with no exception.
- `SamePrices`: `state.rs` 53 cuts the timestamp of a tick to seconds, so a tick up to
  a second after the opening grace arms a window in Rust and not in Python
  (`bot.py` 105 and `state.rs` 93 compare milliseconds). Gamma's `priceToBeat` is
  excepted too: a poll that fails in Rust alone misses it.
- `PriceNeverLost`: Gamma's `priceToBeat` replaces a captured price (`bot.py` 164). A position
  that is held keeps the price it was opened on.
- `QuotesCaughtUp`: every offer is quoted as it is once the stream is read, but a
  token no longer offered may keep its old ask (`orderbook.py` 94).
- `SameDecisions`, `SameQuotes`: `signal.rs` has no gate on the age and the lag of a
  tick, and `orderbook.rs` takes an ask of 0 for a price where Python does not.
- `RunEnds`: the shutdown hangs when a write has raised and others wait behind it
  (`stop` joins a queue nobody takes from) or when an append has raised and the
  recorder's queue is full.
- `TakenIsStored`: writes that were taken are lost when `run` ends without closing
  the database: after a `recorder.stop()` that raises, an interrupt during
  the finally, or a first notification that raises, which stands before the `try`.
- `EverySettled`: a lookup that never works keeps every position behind it in the
  dict from being settled (`bot.py` 340 ends the pass, and the next starts again
  at the front).
- `OfficialWhenResolved` speaks of a market that is resolved when it is asked for. If it is
  not, the outcome of the local tick is booked and the position forgotten.
  README.md:95-96 calls that "provisional tracking", and nothing revises it.
- `SignalsMatch`: `docs/CLIENT_HANDOFF.md:24` wants zero mismatches and
  `docs/RUST_HOT_PATH_PLAN.md:38` a replay that "reproduces live paper signals
  exactly". Even of complete telemetry it does not: the recorded signal has no
  `created_at_ms`, so it is judged at the time it was recorded instead of the
  time its pass began, and by the newest window instead of the one the pass had
  listed. `SettlementsMatch` has no exception: a settlement is checked against
  the opening recorded under its own id or not at all. After a kill that lost the close of a
  settled position, the position is loaded from its open row and settled a second time, under the same id; the
  replay has closed it by then and passes the second settlement over, unless it missed the first.

## 4. Bounds

`MaxTime`, `MaxTrades`, `MaxCrashes`, `MaxLost`, `MaxNow`, `MaxWire`, `MaxUpdates`, `MaxMissed` bound
the models and nothing in the code. Three clock ticks with a window of two and
a day of three reach: entry, expiry, settlement, entry in a second window after
the first is settled (so that a win or a loss changes the next size), midnight
with a position open, a pass that outlives a window. Two assets are two positions in one pass and in
one settlement pass; a third would repeat the second. The dollar amounts make
every cap bind somewhere: a Kelly stake of 4 is above the position limit of 3,
the second stake of 3 is cut by the exposure limit of 5 to 2, and the loss
budget of 3 is used up by one loss. Odds are the shares a dollar buys. A ring of
3 that drops 2 stands for 2000 and 1000; a grace of 1 s of 2 with two timestamps
to the second gives ticks at the start, inside, at the end and just after the
grace of both windows, and the first window is settled while the second opens.
In `MCSettlement` three positions put one before and one
behind the lookup that never works, in every order; the paper one is
settled without a lookup. In `MCReplay` one missed event is enough for any one
input to be old; a second would make two old. Gamma may give the window either price, at any poll. Two
fills are needed so that an id is not a window; with an entry open at 1 and 2 and a tick stale after no time, a pass
that waits sees its tick grow stale, and the window is traded, settled and traded again. `SamePrices` speaks of rings that have dropped nothing: the two runtimes trim
differently, which on the real sizes matters only after some twenty minutes of
ticks. In `HotPath` the oracle prices give distances below, on and above the
threshold on both sides, a feed lag of 2 is over its limit of 1, and an age of 2
over its limit of 1; the probabilities are the values of `estimate_probability` at these distances, in cents, for
a cap of 0.90 and a scale of 2. An `Overrun` of 2 on orders of 2 or 3 dollars, at
a price of 0.50 and a tick of 0.10, is a fill at 0.25 to 0.33. The queue lengths of 2 are full at times. `CHECK_DEADLOCK
FALSE` stands only in `MCLifecycle`, where the end of `run` is the end; everywhere else
TLC looks for deadlocks too.

## 5. Fairness

- `Lifecycle`: weak fairness of `Bot.run`, of the writer's task and of the
  recorder's. asyncio runs every ready task, timers fire, a request ends by its
  timeout, a thread returns or raises. No fairness for submitting, for a task that
  raises or for an interrupt, so nothing is shown to end because the bot ends.
- `MarketStream`, `ClobStream`, `StreamParity`: weak fairness of connecting, of
  a send's end and of taking updates, for each runtime on its own; a connection may
  be lost forever again, and the liveness properties allow for it.
- `Settlement`: weak fairness of the loop, and strong fairness of the answer to a
  lookup: one that is repeated for ever (every `settlement_poll_interval_seconds`)
  works at some time, unless its position is in `Broken`, which stands for one
  that does not. Nothing says that Gamma ever resolves a market, that a tick
  comes or that notifications work.
- `Bot`, `PriceCapture`, `PriceParity`, `HotPath` and `Replay` state safety only, with no fairness.

## 6. Proofs

The theorems hold for all values of the constants that satisfy the named
assumptions of the modules (`RiskAssumption`, `BotAssumption`, `WriterAssumption`
and so on): sizes are natural numbers, sets of assets, windows and tokens are finite,
queues and rings have room for one. The few that need more say so, and the
table repeats it. Every safety property that a passing run checks is proved; the
end of this section lists what is not.

| module | theorems | carried by | needs |
|---|---|---|---|
| `BotProofs` | `TypeCorrect`, `LossBounded`, `SnapshotStaysCurrent`, `NothingReplaced`, `ExposureCapped` | `TypeOK`, `Coherent`, `Safe` | - |
| | `MemoryIsLog` (`BookIsLog`) | the above, `Numbered`, `LogInv` | - |
| | `ResultIsLogged` (`ResultMovesWithLog`) | the above, `ResultInv` | - |
| | `TradedOnce` (`OneTradePerWindow`) | the first row's, `Numbered`, `WindowInv` | paper, no Telegram, cutoff + grace > 0 |
| | `HourlyCapped` (`HourlyCapWhenWritten`) | `TypeOK`, `Coherent`, `NoneInFlight` | paper |
| `LifecycleProofs` | `WriterKeepsAll`, `WriterStoppedIsStored`, `WriterIsWriteLog` | `WriterInv` | - |
| | `RecorderStoppedIsFlushed`, `RecorderIsWriteLog` | `RecorderInv` | - |
| | `LifecycleKeepsAll`, `ClosedOverComplete`, `LifecycleIsWriteLogs`, `LifecycleTypeCorrect` | the theorems above, `LifeInv` | - |
| `SettlementProofs` | `SettlementTypeCorrect`, `SettledOnce`, `OfficialOutcomeWins`, `CloseIsFinal` | `PassInv` | - |
| `StreamProofs` | `StreamCatchesUp`, `PythonCatchesUp`, `RustCatchesUp`, `StreamsTypeCorrect` | `StreamInv`, `RustInv` | - |
| `PriceProofs` | `PriceTypeCorrect`, `OpeningIsTaken`, `EarliestIsTaken`, `PriceIsKept`, `SettlesByTheSameTick` | `CaptureIInv` | - |
| | `PricesAgree` | `CaptureIInv`, `RustInv`, `RingsMeet` | - |
| `HotPathProofs` | `HotPathTypeCorrect`, `QuotesCatchUp`, `QuotesAgree` | `HotPathIInv`, with `OffersArrive` | - |
| | `DecisionsAgree` (`SameDecisions`) | `HotPathIInv` | `MinEntryPrice > 0` |
| `ReplayProofs` | `ReplayTypeCorrect`, `SettlementsReplay` (`SettlementsMatch`), `SignalsReplay` (`SignalsMatch`) | `ReplayInv` | - |
| `ExecutionProofs` | `BookedAtLimit`, `BookedCoversPaid` | - | - |

**Trading core.** None of the safety properties is inductive alone.

- `Coherent`: a position or an order stands under its own key. `Safe`:
  `SnapshotCurrent`, `OrderReplacesNothing`, `LossBound` and `OrderFits` (while an
  order is in flight the exposure with it still fits its limit). `OrderFits`
  carries the sizing across the await: opens happen only through the order itself,
  and settlements only lower the exposure. `SnapshotCurrent` is what makes a
  settlement take off the same stake that it charges. `LossBound` then rests on
  one sum (`Floor`): an order moves its stake from the budget to what is pending, a fill moves it to the
  exposure, with what is booked above it entered in `excess` too, and closing moves it to the result. The sums are cardinalities (`Dollars`), so
  they need no recursion: the sum over a book in which one entry changes
  is the sum without it plus the new one.
- `Numbered`: fills have distinct ids, and whatever memory, the table or the queue
  knows is a fill.
- `LogInv` is about the future of the table. `RowsAfter(rows, q, n)`
  states, without recursion, what the first n writes of a queue make of the rows: every
  row, and every row that one of the writes inserts, with the last close behind it that has its
  id. Two laws carry the proof: a write put at the end of the queue is
  applied after the others, and taking the first write off the queue into the
  table changes nothing of what comes out. The last close exists because a set of
  natural numbers has a least element (`WellFoundedInduction`). `LogInv`
  says that what is open after all the writes is what memory holds, and that
  after no prefix of them two trades of one window are open. The second half is what a restart
  needs, which keeps a prefix. `RowsAfterIsReplay` has TLC compare `RowsAfter` with running
  the writes one by one.
- `ResultInv`: a trade is in the table or inserted by one write of the queue, once
  in all, so a close changes one row, and the day has begun, so that a close that is
  submitted now counts for the day. A close then adds the same to the result in memory
  and to the sum over the table after the queue.
- `WindowInv`: a window the table or the queue knows a trade of is held by that trade until
  its window is over, by the clock of the pass under way, and a trade is closed
  only after that. It needs that neither loop waits within a pass (`Passes`),
  and that a window is not due for settlement while it may still be entered.
- `HourlyCapped` counts: the fills of the hour inject into the rows that `SizeAllowed` counts.

**Queues and shutdown.** `WriterInv` says where the items of the queue are, the
join counter and the thread included: `join` returns only when the queue is empty and
nothing is in the thread, so that the sentinel is alone on it, and the task
returns only after taking it. `RecorderInv` needs a witness, the events left on the queue: what was
accepted is the file, then the batch, then what is left. Both refine `WriteLog`,
and every step of `Lifecycle` is a step or a stutter of each of the two
(the lemma `LifecycleOfComponents`), through which their theorems carry over to the shutdown.

**Settlement.** `PassInv`: what a pass has left is open and not closed, in an order
without repetition; what was closed was due and had its tick. With the tokens of a market
listed in either order, the outcome Gamma names is the one booked
(`OfficialOutcomeWins`), and a close is never revised (`CloseIsFinal`).

**Streams.** `StreamInv` connects four sets across the three stages of a connection: the last
update in the queue is what is wanted, the first message has every wanted token
that is not late, what is taken for subscribed was asked for or is late. For Rust
the watch channel makes it two lines shorter and the exception disappears.

**Prices.** `CaptureIInv`: a window whose opening tick is in the ring has its price, and
while ticks come in order the price is the first of its opening's. The ring
matters when it overflows: the ticks it drops came before all those it keeps.
`RingsMeet` says that the two runtimes' rings are the same until then. What is proved of the capture
alone carries over, since every step of the composition is one of it or leaves it unchanged.

**Hot path.** `OffersArrive` is what reading the stream in order amounts to: the last
message on the wire about a token carries its offer, or both runtimes quote it.
`DecisionsAgree` assumes `MinEntryPrice > 0`: with 0 the Rust runtime would accept an ask of
0 where Python has none or an older one. `config.py` does not ask for it,
only `preflight.py` 141 does.

**Replay.** `Told`: of each input, the window, the tick and every token's quote, what the
bot knows is what the replay knows unless the newest event on it is missing. A
restart makes the bot forget, never the replay, and the bot learns again by an event.
`SamePosition`: positions are numbered across processes, so the one the replay finds by
the id of a settlement is the one that is settled. Each kind of event has a lemma for what it changes
when it is taken and when it is dropped. A signal that is judged again with the same
window, tick and quote then differs only by its reason, which is what
`SignalsMatch` excepts.

**Execution.** `BookedAtLimit` is the premise of `LiveMatched`: a matched answer that brings
at least the shares the amount buys at the limit, or does not say how many, is booked at no less than the order, and at a price a
share from the ask to less than a tick above it and below a dollar. How much more than the order is bounded by nothing but the fill's
price, so `Overrun` is any set of numbers. A fill within the limit is booked at no less than was paid
(`BookedCoversPaid`): the exposure and a loss are overstated, never understated. Overstated
they are without bound: two orders that fit the exposure limit by what was paid may pass it by what was booked.

Only model-checked:

- every liveness property (`RunEnds`, `TakenIsStored`, `RecordedIsFlushed`, `EverySettled`,
  `EveryTokenSubscribed`, `RustEveryTokenSubscribed`): the prover has no
  fairness and no ENABLED;
- that the counted and the stated operators (`Total`, `CeilToTick`, `RowsAfter`) are what a
  recursion would compute: induction over data is out of the prover's reach, and
  `MCBot` has TLC compare them on small inputs.

## 7. Not modelled, and why

- Parsing and formatting: Gamma events into windows, order payloads, JSON, the
  wording of reasons and notifications. Sizes and bids of a quote are read by nobody.
- `config.py`, `dashboard.py`, `models.py` and the Rust `config.rs`, `model.rs`: read
  once, or written only.
- `preflight.py`: a list of independent probes that is run instead of the bot; each
  one answers and nothing later reads the answer. (Reading it for this decision
  turned up that `_telegram_check` uses `os` without importing it, so that
  preflight ends with a NameError when Telegram is enabled; and that a dry run that
  times out leaves its thread, which `asyncio.run` then waits for.)
- `analyze_telemetry.py`, `generate_paper_report.py`, `bench_hot_path.py`: counts and
  averages of recorded data, timings.
- `ChainlinkRTDSFeed` and `chainlink.rs`: a connection loop whose only state is its
  backoff. What it may deliver (late ticks, the older ticks of a snapshot) is the
  input of `PriceCapture` and `HotPath`.
- The SQLite tables other than `trades`: written only.
- Order signing and the client libraries.
- Two bots on one database: nothing in the code provides for it, and nothing forbids it.

## 8. Plan

Done: the trading core, both queues against their abstract specification and
under `Bot.run`, prices, streams, the hot path, settlement, execution and
replay; of each, every safety property is checked and proved. Left, in this order:

1. `HotPath` with more than one window, so that the wait of a pass is the order of
   another one.
2. `Replay` with a second window: `market_window` events of one poll may be missed
   one by one.
3. Proofs about the pieces that make the liveness properties hold: that no step but
   those of the loop disables a settlement, and that the steps of the shutdown
   after each other only count down.
