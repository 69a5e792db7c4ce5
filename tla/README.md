# SmartTrading: TLA+ models, model checking and proofs

The repository is a Python trading platform: exchange connectivity, market data, an execution
engine and a sandbox for Pine-like scripts, simulated order matching and order management,
services around them, and a large amount of charting, rendering and numerical analysis. Most of
its packages do not call each other; they are components that an application wires together. What
can go wrong in them is therefore mostly *inside* one component: between two awaits, between a
callback and the code around it, between a call and its lost answer, at a boundary, or in a long
sequence of legal calls.

Contents: 1 inventory · 2 how code becomes modules · 3 the modules · 4 the runs · 5 fairness ·
6 what is proved · 7 disagreements between code and documentation · 8 what is not modelled ·
9 plan.

Paths below are relative to `src/src/` unless they start with `src/`.

## 1. Inventory

### Components with a model

| Component | State | Operations | With whom it interacts | What makes it correct |
|---|---|---|---|---|
| Matching engine, `execution/matching_engine.py` | per symbol: bids and asks, sorted; ids seen; arrival counter | `submit_order` | its caller, who keeps the order objects | quantity conserved, price-time priority, book in order, no order lost |
| Bracket (OCO) manager, `execution/oco_manager.py` | brackets; order id → bracket id | `register_bracket`, `handle_execution_report`, `cancel_bracket` | an order gateway (may raise or refuse), reports of the exchange (late, repeated, reordered) | no leg left in the market, none cancelled twice, index right |
| Trailing stops, `trading/trailing_stop_processor.py` | orders by id, a callback | `register_order`, `cancel_order`, `process_tick` | the callback, which may register, cancel, tick again or raise | a stop never loosens, triggers once, at the first price that breaches it |
| Simulated execution, `execution/simulated_pipeline.py`, `inventory_tracker.py` | pending orders with watermarks; lots | submit, cancel, `process_tick`; `add_lot`, `execute_exit` | – | an order fills at the first price it is due at; first in, first out |
| Paper trading and risk, `paper/`, `risk/` | cash, positions; margin accounts | `execute_trade`, `update_price`; `process_account` | a feed of marks | money is neither made nor lost; liquidation ends the shortfall, no more |
| Auto-save engine, `services/autosave_engine.py` | one asyncio lock per chart | `process_delta` | an asynchronous chart storage, other sessions | no lost update, optimistic versions, every call ends |
| Script execution, `engine/pipeline.py`, `engine/scope.py` | current bar, its closed flag; three values per variable | `process_tick` (and what it calls), `declare`, `set` | the script, which may raise anywhere | standard / var / varip semantics, rollback |
| Script sandbox, `services/pine_worker_sandbox.py` | worker processes, pipes, limits; parser; interpreter state | `execute`, tokenizer, parser, evaluator, `ta` library | a forked process that hangs, dies or sends too much | answers are true, nothing is left behind, scripts mean what they say, limits hold |
| Pine Script front end, `pine_lexer/`, `parser/`, `type_engine/` | cursor, symbol table | `tokenize`, `generate`, `infer` | – | no character, token or type mismatch is lost |
| FIX gateway, `gateway/fix/fix_gateway.py` | sessions by id and by sender | `process_inbound` | counterparties; callers that hold session objects | the dicts agree with each other and with the objects |
| WebSocket client, `network/websocket_client.py` | state, retry count, connection | `connect`, `reconnect`, `disconnect` | connection factory, event loop, its own overlapping calls | no leak, no use after close, backoff, every call ends |
| Exchange adapter, `adapters/ccxt_adapter.py` | two clients and two flags | `authorize`, `disconnect` | exchange clients with asynchronous probes and closes | installed clients are open, the others closed |
| Blue-green manager, `gitops/blue_green_service.py` | none: everything is in the cluster | `deploy`, `abort` | GitOps client, live traffic, other managers, crashes | what serves is healthy, lock freed, no request dropped |
| Bar construction, `market_data/bar_constructor.py` | bar in progress, window end, last time | `process_trade` | a feed | every trade in exactly one bar, its own |
| Bar correction, `market_data/bar_corrector.py` | watermark, bars, time of the latest tick | `set_watermark`, `add_bar`, `process_tick` | late ticks in any order | each late tick counted once, close follows the newest |
| Ring buffer, `buffers/ring_buffer.py` | array, start, size | `append`, `clear`, six ways to read | – | all reads agree and show the newest elements |
| Paginator, `data/paginator.py` | cursor, batch | iteration | an archive that grows meanwhile | nothing twice, nothing missed, it ends |
| Time-series store, `client/storage/timeseries_store.py` | keyed records, latest time | `write_batch`, `query`, `prune`, `clear` | a fetcher | within its limits, evicts the oldest first |
| Level-2 order book, `orderbook/` | a red-black tree of price levels | `update_bid`, `update_ask`, `clear`, reads of both sides | a feed | the tree's invariants; what is read is what was quoted |
| Spatial index, `interaction/spatial_index.py` | an R-tree with parents and a map from item to leaf | insert, remove, clear, hit test, query | – | a search finds what a look at every item finds |
| Chart transforms, `renderers/transforms.py` | the last brick, the Kagi line under way | one price or bar | – | bricks are a chain, Kagi lines a path, Heikin-Ashi bars enclose theirs |
| Market-data wire formats, `market_data/deserializers/binary.py` | none | serialize, deserialize, two formats | frames that are cut, padded or damaged | what comes back is what was sent, or is refused |
| Structures in prices, `indicators/`, `analysis/` | blocks, zones, swings, trend | one bar, trade or swing | – | the past is not rewritten, up and down are mirror images, zones and areas are exact |
| Indicators, `ta/`, `indicators/`, `signals/confirmation.py`, `analysis/fibonacci.py` | – | averages, oscillators, filters, levels | – | ranges, mirror images, agreement of the two libraries |
| Webhook dispatcher, `webhooks/dispatcher.py`, `dlq.py` | the delivery's counter and status; the queue | `dispatch`, `pop`, `clear` | an endpoint whose answer may be lost; callers that overlap | bounded tries, dead-lettered exactly once |
| Chart synchronizer, `charting/sync_manager.py` | groups of registrations with flags | register, unregister, flags, three broadcasts | callbacks that call back and raise | every peer called once, the source never |
| Rule worker, `workers/rule_evaluation_worker.py` | running and subscribed flags | `run`, `stop`, `handle_message` | Redis Pub/Sub, which may raise anywhere; a second thread | at most once, in order, stop ends the loop |
| Two-tier cache, `cache/multi_tier.py` | two tiers with times to live | `get`, `set`, `delete` | overlapping callers | what was last set or nothing |
| Render loop and double buffer, `rendering/` | running flag, frame counter; two buffers and their roles | `run`, `stop`, `tick`, `swap` | a callback that draws, raises, stops, steps | what is shown is one whole frame |
| Event simulation, `simulation/engine.py` | heap of events, handlers | `load_event`, `register_tick_handler`, `run` | handlers that load, raise, run the engine again | order of time, sequence number and loading |

The behaviours that make them hard are listed under `hazards` in PROJECT.json, each at its line
and with the properties aimed at it: interleaving at awaits and between threads (auto-save,
WebSocket, adapter, cache, script worker), re-entrant callbacks (synchronizer, trailing stops,
render loop, simulation), partial failure (matching, OCO, blue-green, pipeline, adapter), crashes
(blue-green, script worker), unreliable delivery (OCO, webhooks, rule worker, wire formats),
retries (WebSocket, webhooks), stale state (FIX, bar correction, R-tree, order blocks), capacity
limits (ring buffer, store, script output) and boundaries (windows, bricks, numbers in texts).

### Components without a model

Section 8 lists them and says why.

## 2. How code becomes modules

* **One module per component.** A variable stands for a field (its comment names it), an action
  for a handler, or for the part of it between two points where another actor can run: an
  `await`, a callback, a client call that may raise or crash, the test of a loop. What runs
  without such a point is one step.
* **Pure code is an operator of its input.** A parser, an evaluator, a transform or an analysis
  has no steps of its own: its input grows by one symbol, price or byte per step, so that TLC
  tries every short input, and the invariant compares the operator with an independent statement
  of what it should do.
* **History variables** are marked `(history)`; the code has no such field. They serve the
  properties and the bounds; no decision of the code depends on them. (In the rule worker,
  `published` also says what kind of message a number stands for.)
* **Externals** (exchange, storage, Redis, cluster, endpoint, archive, operating system) are
  modelled by how the code uses them, as weakly as that allows: they may raise, answer late, take
  effect and then raise, deliver twice or out of order.
* **Data** is reduced to what the properties distinguish: a chart's content is the sequence of
  deltas merged into it, prices and times are small integers, session objects, appended elements
  and messages are numbers. Where the code divides, `Fractions` keeps exact quotients; rounding
  is not modelled. A call that raises before it assigns anything is no step.
* **MC modules group components that share no state.** The frozen variable `part` says which
  component a behaviour explores, so that state spaces add up instead of multiplying. A grouped
  property is the component's own, named again in the MC module. Interchangeable values are
  either a symmetry set or "taken in turn" by a CONSTRAINT, which keeps one representative of
  each orbit: an unused id is never skipped.

## 3. The modules

### Execution and risk (composed in MCExecution)

**MatchingEngine.** `submit_order` is split at the test of its `while`: `Submit` (checks,
registration, arrival number), one `Match` per iteration, then `Rest` (append and sort, done as
an insertion behind all that precede it) or `Finish`. `Raise` is the exit by the `ValueError`
of `Trade` when the best opposite order has no price: `taker` is dropped, earlier fills stay.
No other call can run while `taker` is set. A price of None is 0, the value both the sort key
and `match_price` give it.

**OCOManager.** `_brackets` and `_order_to_bracket` are `bracket` and `owner`. A report is one
action: the early return for a closed bracket, closing *before* the gateway is called, and the
call, which may raise or answer False (nobody reads the answer). `CancelBracket` asks for the
take-profit and then the stop; the second is never asked for when the first raises, but it is when
the first is only refused. Around it: orders that fill, expire or are cancelled,
and reports delivered in any order and any number of times. PARTIALLY_FILLED and REJECTED get the
same treatment from the manager as EXPIRED (none) and are not enumerated.

**TrailingStops.** A tick walks over a snapshot of the orders (`frames` is the stack of unfinished
ticks); an order that triggers calls the callback in the middle of the walk, and the callback may
do anything the API offers or raise. The history `log` of the prices an order was evaluated at is
what the property recomputes the stop from.

**SimulatedExecution.** The pipeline and the inventory tracker: the four order types with their conditions, offered a
tick one after the other (they do not influence each other, so it is one step); lots that leave
first in, first out, with the split of a lot.

**PaperAccounts.** Portfolio tracker and liquidation engine: positions at their average entry price under trades that open,
increase, reduce, close and reverse; accounts liquidated position by position until the shortfall
is covered. The events of a liquidation are executed at the mark price, which the code leaves to
its caller. Both use **Fractions**, exact fractions in lowest terms.

### Connectivity (composed in MCConnectivity)

**FIXEngineGateway.** One action per exit of `process_inbound`: a frame the parser refuses (the
sender is guessed from the raw bytes), a wrong target, a missing sender, a first message that is
no Logon, a Logon, a message of a live session. A session object is the number of its creation,
so that objects which callers still hold can be compared with what the dicts hold.

**WebSocketClient.** A task is one call; `closing`, `attempting`, `clearing` and `sleeping` are
its awaits. Nothing in the code serialises calls, so tasks overlap freely; `overlapped` records
that they did, and the properties that need a careful user say so. In particular no leak and the
schedule of delays are claimed of calls that do not overlap; two retry loops at once are explored,
but only for what holds of them (an open connection is the installed one, every call ends).

**CCXTAdapter.** `authorize` makes a pair of clients, probes, then installs it; a refusal runs
`_cleanup`, which drops the installed pair and closes its own. Closing REST and WebSocket are two
steps. A close that raises does not stop the other one and its client is dropped: it counts as a
close. Two kinds of exits close nothing: `FailsToMake`, an exception before the `try` of
`authorize` (the second constructor, `set_sandbox_mode`), and `Cancelled`, a cancellation at an
await, which `except Exception` does not catch. `abandoned` names the pairs they leave behind.

### Services (composed in MCServices)

**BlueGreen.** Every call to the GitOps client is a step, each may raise (`Raise`, with the
handler the code sends it to) and the process may die before it (`Crash`). Each may also raise
*after* it took effect: the actions for the calls say where that leads. `lock_deployment` is called
before the `try`, so that one which takes effect and raises leaves the lock held with no crash; an
`unlock_deployment` that raises does the same. `stuck` records that, and `AbortUnlocks` says that
the next abort frees the lock. The cluster has two colors, traffic, health and a lock without an
owner, as the client's interface has.

**WebhookDispatcher.** `Dispatch` counts the attempt before the request leaves; `Succeed` and
`Fail` are the answers. A failure may hide that the endpoint accepted the delivery. Several
callers may dispatch one delivery at once.

**SyncManager.** A broadcast runs over a snapshot of the group, calling peers one at a time;
while a callback runs it may do anything the API offers, so broadcasts form a stack.

**RuleEvaluationWorker.** `run` as a program counter, with every point where Redis may raise;
`stop` and `Publish` at any moment.

**MultiTierCache.** Each access to a tier is a step; callers overlap between them. Entries of both
tiers expire, but those a `get` filled in without a time to live stay. On a key where calls have
overlapped the first tier may keep a stale entry: `raced` excludes those keys. The second tier,
Redis, may raise, with or without effect (`SecondRaises`); a `set` or `delete` that raises has
changed the first tier all the same. `since` is what a later `get` may then find: what the last
write that returned left, and what those after it that raised would have.

**RenderLoop.** A frame is drawn pixel by pixel on the buffer that was the back one when its
callback was called; the callback may raise, stop the loop or step a frame itself, in which case
the inner frame swaps the buffer under the outer one (`nested` excludes it).

**SimulationEngine.** Events are triples of time, sequence number and loading order; the heap is a
set from which the least is taken. A dispatch is a frame of a stack, since a handler may run the
engine again; `_insertion_counter` and the handlers registered meanwhile are as in the code.

### What must eventually happen (composed in MCProgress)

**ChartRegister / AutoSaveEngine.** The register is what the docstring of `process_delta`
promises, one step per delta. The engine has the steps between awaits: `Call`, `Lock`, `Got`
(answer of `get_chart`, comparison of versions), `Save`, `Fail`. `Save` takes effect and then
either answers or raises; `Fail` is a storage error or a cancellation at any await. The mapping
is `version` and `applied` read off the store.

**ScriptWorker.** `execute` step by step: verification, pipe, fork, closing the child's end, the
join with its time limit, terminate, kill, reading the pipe, the `finally` clause; and the worker,
which ends, blocks on a full pipe, or dies at any moment, also between its message and its exit. One
that dies right after the header of its message leaves an end of file (`EOFError`), which `execute`
answers for; one that dies inside header or body leaves another `OSError`, which `execute` does not
catch and raises as it is.
A worker forked while another call's
child end is open inherits that end (`holders`): this is why a read may have to wait for a
stranger. A result larger than the pipe ends in a time-out, because the parent joins before it reads.

### Scripts, books and formats (composed in MCAlgorithms)

Recursive algorithms over structured data.

**ScriptParser.** The tokenizer with comments, numbers, strings and their escapes, over texts; the
recursive-descent parser over tokens, each rule an operator that takes the tokens left and answers a
tree and the tokens after it, with the depth limit. A token has a type and a value, and as in the
code the rules ask for the value (`Spells`), `match` for either: a string that spells an operator is
one, and a keyword is a name where only a name can stand. `ParsesAsWritten` says so: what is
accepted reads as a script without strings, with names in the places of some strings and operators
or keywords in the places of the others.

**ScriptEvaluator.** The interpreter: statements, expressions over numbers, truth values,
undefined and series, name lookup, conditionals over series bar by bar, loops, exceptions and the
time check. Programs grow in postfix order, one symbol per step. An evaluation is an operator from
interpreter state to interpreter state.

**ScriptRuntime.** The limits of a script at work, whatever its statements: output counted while
plots replace each other, the bar of nested conditionals, and the time looked at every
`Period`-th check.

**ScriptSeries.** The sandbox's series arithmetic and `ta` functions with missing values, and the
indicators outside of it (`ta/`, `indicators/`) in exact fractions.

**PineFrontEnd.** The lexer with line and column, the generator of abstract trees from concrete
ones, and the inference of types with the first mismatch reported.

**RedBlackTree.** Insertion and deletion with rotations and fix-ups; a node is named by the price
it holds, and mirrored arms are one definition with a direction.

**BinaryProtocol.** The encoders write actual bytes: header, tags, varints, vtables. A payload is
then cut, padded or one byte of it replaced, and read by the reader of either format. Integers
have 16 bits instead of 64, a double is eight bytes of which the first is its value.

### Market data, charts and script variables (composed in MCMarketData)

**TradeBars, BarCorrection, RingBuffer, Paginator, TimeSeriesStore.** Sequential components; the
difficulty is in boundaries and orders of calls. Each property compares the state with an
independent definition computed from the history: the aggregate of the trades of a window, the
fold of the late ticks, the suffix of the log, the set of records in range.

**SpatialIndex.** The R-tree as a record of numbered nodes, with quadratic splits, bounding boxes
kept on the way to the root, pruning and collapsing. What the code does in a loop from a leaf to the
root is a fold over that path, a descent is a recursive function of the node.

**ChartTransforms.** The renderers go once over their input; the model feeds it one by one.

**PriceStructures.** Order blocks with their mitigation, fair value gaps, sweeps, wick reversals,
zones, volume profile, pitchfork, market structure, divergences. Analyses of a whole series are
operators of the series so far; engines keep their state.

**PineVariables / ExecutionPipeline.** The abstract module says what a script may rely on: kept
values, a view, and what a finished or failed tick leaves. The detailed one has the scope's three
values per variable (`value`, `bar_start_value`, `committed_value`), the pipeline's bar index and
closed flag, and the snapshot. `Begin` includes the commit and the reopening on a bar transition;
`Finish` and `Fail` are the two ends. Values are immutable here, so a deep copy is the value.

## 4. The runs

| Run | Instance | Distinct states | What it shows |
|---|---|---|---|
| `execution` | 2 brackets over 3 reusable orders, gateway may raise or refuse; 3 orders, prices 0–2, quantities 1–3, stamps 1–2; 2 trailing stops of 4 kinds, 3 ticks, 2 nested; 2 simulated orders of 8 kinds, 4 ticks; 5 lots; 3 trades in 2 assets; 54 margin accounts | 512 000 | Legs, index and cancellations of brackets; conservation, priority and order of the book, and the one way an order is lost; stops and fills where the prices put them; accounts that add up |
| `connectivity` | 2 senders × 2 begin strings, 3 sessions; 3 WebSocket calls, 2 connections, 2 retries; 5 adapter calls | 346 000 | Registries agree, senders do not disturb each other, connections do not leak, backoff follows its schedule |
| `services` | 3 rollouts or aborts in sequence, 2 health checks, 1 request per color; 2 deliveries, 2 callers, limits 0–2, 3 posts; 3 charts, 2 nested broadcasts; 3 messages, 2 runs of the worker; 2 cache clients, 5 calls; 4 frames in 2 runs; 3 events, 2 handlers | 1 267 000 | Rollouts are safe, dead-lettering exactly once, every peer once, at most once and in order, the cache serves what was last stored, frames are whole, events in order |
| `progress` | auto-save with 3 tasks, 2 charts, versions 1–2; 2 script runs; small instances of brackets, WebSocket client and rule worker; no symmetry | 84 000 | Safety of the auto-save engine and its refinement of ChartRegister, true answers of the script worker, and the liveness properties |
| `algorithms` | texts of 6 characters over 6 alphabets; scripts of 5 tokens over 7 and, after `if (a)` and `for (`, of up to 4 and 7 more over 2; 11 alphabets for the front end; 4 pairs of values and gaps; programs of up to 7 symbols over 5 alphabets; 2 plots over 2 bars; 6 price levels; messages with every cut and 5 wrong values of every byte | 722 000 | What is written is what is read and run; series agree with their windows; limits hold; the tree is balanced and complete; wire formats |
| `marketdata` | one variable of each modifier, values 0–2, 2 bars; 4 trades; 2 late ticks per bar; 9 appends at capacities 1–4; archives of 3 times × 2; store of 2 records; 4 items at node capacities 2 and 3; 5 prices or bars; short series for the structures | 560 000 | Rollback and the refinement of PineVariables; bars, corrections, buffer, pages and store against their reference definitions; the index is complete; transforms, structures |
| `socket_quit`, `adapter_close`, `deploy_race`, `late_close` | as their passing sibling; `deploy_race` lets two managers run at once | – | Counterexamples, section 7 |

### The properties, by the grouped name a run checks

* `execution`: `NoOrphanLeg`, `AtMostOneCancel` (brackets); `BookIsSound` is types, `Conservation`
  and `BookInOrder`; `PriorityHolds` is `PriceTimePriority` and `LostOnlyAtUnpriced`; `StopsHold`
  is the stop recomputed from the prices seen, and that a tick which returns has reached every
  order; `FillsAreDue`; `AccountsAddUp` is `FirstInFirstOut`, `PositionsAddUp` and
  `LiquidationRestores`.
* `connectivity`: `RegistriesAgree`, `SenderIsolation`; `SocketsAreSound` is `HoldsWhatIsOpen` and
  `BackoffSchedule`; `ClientsAreSound` is `InstalledIsOpen` and `NoClientLeak`.
* `services`: `RolloutsAreSafe` is `ServingIsHealthy`, `LockReleased`, `AbortUnlocks`,
  `NoRequestDropped` and `SuccessIsServing`; `DeadLetterOnce`, `EveryPeerOnce`, `AtMostOnce`, `ServesLastStored`,
  `EventsInOrder`; `FramesAreWhole` is `ShownIsWhole` and `FramesAdvance`.
* `progress`: `AcknowledgedIsKept`, `ImplementsRegister`; `RunsAreClean` is `NothingLeft` and
  `AnswersAreTrue`; `CallsEnd` is the end of every call of auto-save engine, WebSocket client and
  script worker; `OneCancelsTheOther`, `WorkerStops`.
* `algorithms`: `ScriptsReadAsWritten` is `LexesAsWritten`, `TreesAsWritten` and `TypesAgree` of
  the front end, `TokensAsWritten` and `ParsesAsWritten` of the sandbox; `SeriesAgree`;
  `ScriptsRunAsWritten` is `TimeOnlyStops`, `LongFormsAgree` and `BarByBar` of the evaluator,
  `OutputAddsUp` and `LimitsHold` of the runtime; `TreeHolds` is `Balanced` and `BookIsQuoted`;
  `MessagesSurvive`.
* `marketdata`: `RollbackIsSafe`, `ImplementsPineVariables`; `BarsAreAggregates`,
  `CorrectionsAddUp`, `ReadsAgree`; `StoreIsNewest` is `WithinLimits` and `EvictsOldest`;
  `PagesComplete` includes that every fetch is for older records; `IndexIsComplete` is
  `SearchFindsAll` and `IndexHolds`; `TransformsHold` is `RenkoIsChain`, `KagiIsPath` and
  `HeikinAshiEncloses`; `StructuresHold`.

### Why the bounds are enough

* *execution.* Two brackets over three orders is the least at which an order moves from a closed
  bracket to another while reports about it are still on their way. Three orders are the least at
  which a taker meets two makers, or a partly filled taker becomes a maker; quantities 1–3 give
  exact, partial and multiple fills; price 0 is the market order. Two stops and nesting 2 let a
  callback change an order the outer tick has yet to reach; stop prices 4, 6, 10 with deltas of 2
  and of a half ratchet, open a gate and breach. Levels and prices 1–4 put a price on either side
  of, and at, every level. Three lots of up to three units split at every place. Three trades
  open, turn and close a position. Two positions are the least at which a liquidation stops between.
* *connectivity.* Two begin strings of one sender are what makes the two dicts differ; a third
  session lets a sender log on again after a rejection. Three calls let two retry loops and a
  disconnect overlap; with `BaseDelay` 2 and `MaxDelay` 3 the cap bites at the second delay. Five
  adapter calls cover authorize, authorize again, disconnect, and the overlap of any of them.
* *services.* Three rollouts: one that fails or crashes, an abort that cleans up, and a rollout on
  what they left; of two health checks one may fail and be retried; one request per color holds
  up draining. Limits 0, 1, 2 are the boundary values of the retry test. Depth 2 lets a callback
  broadcast while the outer broadcast still has peers to call. Two cache clients with five calls
  set, overwrite, delete and read between the steps of each other. Two pixels are enough for a
  frame to be half drawn. Three events have equal times, equal sequence numbers, or neither.
* *progress.* Two tasks race on one chart while the third is on the other or follows them;
  versions 1–2 give success, conflict and a second accepted save. Two script runs are the least
  at which a worker inherits the other's pipe. Two published messages are the least at which a rule
  worker that was stopped may find a queue that is not silent yet more than once.
* *algorithms.* Alphabets bring together the constructs that compete for the same character or token
  (the point, the exponent and the name after a number; a slash, a comment and its end; a condition,
  a colon and an assignment); six characters hold an escape with its braces or a comment in a
  string, five tokens two operators of different levels, and after a given beginning a whole `for`
  loop or an `if` with its `else`. Among the strings are `-`, `(`, `;`, `{`, `else` and `IDENT`, which
  the parser takes for the tokens they spell, and one that spells nothing. Averages over windows of up to three and
  four values start, slide, and lose a missing value again. Six levels reach all fix-up cases of
  insertion and deletion. One wrong byte may hit a length, an offset, a tag or the text.
* *marketdata.* Values beyond the initial ones let two sets of a variable differ; two bars in any
  order, including a bar that comes back. Variables do not interact, so one of each modifier
  stands for all. Trade times 0, 1, 2, 5 with interval 2 have the edge of a window and a skipped
  window. Bars at 0 and 1 with frame 2 overlap, so that both lookups of the corrector matter.
  Nine appends wrap a buffer of four twice. Ranges of the paginator include an empty and a
  partial one; page sizes 1–3 split equal times across pages. Four items in nodes
  of two make trees of three levels, which split, prune and collapse. Candle prices jump several
  bricks and over two swings.

`CHECK_DEADLOCK FALSE` everywhere: calls, tasks, appends and messages are bounded, so every
behaviour ends when they are used up, and each component may really stop.

Each property of a passing run has at least one mutant in PROJECT.json: a plausible bug in the
mapped code (a dropped lock, the wrong leg, a forgotten dict, an off-by-one at the boundary), kept
beside the definition it replaces under a name with the prefix `Mut`, with which TLC finds the
property violated. A grouped property has mutants in several of its modules.

## 5. Fairness

* `AutoSaveEngine`: weak fairness of the answers of the storage and strong fairness of `Lock`.
  A ready task is run by the event loop; the storage answers or raises; `asyncio.Lock` wakes its
  waiters in order, so a waiting task that finds the lock free again and again gets it.
* `WebSocketClient`: weak fairness of each task's next step. The factory answers or raises and
  `asyncio.sleep` ends. No fairness is assumed of new calls.
* `OCOManager`: weak fairness of the delivery of each report and of carrying out each request.
  Nothing is assumed of the market; `OneCancelsTheOther` is checked where the gateway does not
  raise and orders are not reused, since the code has no retry and does not hear of a fill that
  was reported before the bracket existed.
* `RuleEvaluationWorker`: weak fairness of `RunStep`: `get_message` is called with a timeout and
  the thread is scheduled. No fairness is assumed of `stop` or of Redis raising. Only finitely many
  messages are published (`MaxPublish`): the loop is left when `stop` has been called and the message
  in hand, if any, is dealt with, whatever is still queued.
* `ScriptWorker`: weak fairness of the calling thread's next step once a call has begun: threads
  are scheduled and the join ends by its time limit. Nothing is assumed of a worker, which may
  hang for ever.
* The safety runs assume none.

## 6. What is proved

For all values of the constants (any sets of charts, tasks, brackets, orders, senders, prices,
keys, handlers; any limits, delays and bounds on the length of a behaviour), under the named
assumptions below. Each theorem that states a property of a run states it of that run's
specification, parts and frozen `part` included.

| Module | What it is about | Theorems |
|---|---|---|
| `ExecutionProofs` | matching engine, after the facts about least numbers, initial segments and finite sums that it rests on; brackets, simulated orders, trailing stops | `BookIsAlwaysSound`, `PriorityAlwaysHolds`, `LegsAreOwned`, `NoLegIsOrphaned`, `CancelledAtMostOnce`, `FillsAreAlwaysDue`, `StopsAlwaysHold` |
| `ConnectivityProofs` | FIX gateway, exchange adapter, WebSocket client | `RegistriesAlwaysAgree`, `SendersAreIsolated`, `ClientsAreAlwaysSound`, `SocketsAreAlwaysSound` |
| `ProgressProofs` | auto-save engine, script workers | `TypeCorrect`, `NoStaleWrite`, `NoLostUpdate`, `NoTraceOfRefused`, `RefinesRegister`, `RunsAreAlwaysClean` |
| `ServicesProofs` | rollouts, cache, webhooks, rule worker, synchronizer, event simulation, render loop | `RolloutsAreAlwaysSafe`, `AlwaysServesLastStored`, `AlwaysDeadLetteredOnce`, `AlwaysAtMostOnce`, `EveryPeerAlwaysOnce`, `EventsAlwaysInOrder`, `FramesAreAlwaysWhole` |
| `ChartProofs` | chart transforms, after the facts about least numbers and extremes of finite sets that `MarketDataProofs` rests on too | `TransformsAlwaysHold` |
| `MarketDataProofs` (extends it) | script execution engine, ring buffer, client store, bars and their correction, paginator | `TypeCorrect`, `RollbackSafe`, `RefinesPine`, `ReadsAlwaysAgree`, `StoreIsAlwaysNewest`, `BarsAlwaysAggregate`, `CorrectionsAlwaysAddUp`, `PagesAlwaysComplete` |

### Assumptions

They are ASSUMEs of the component's module or of the MC module that instantiates it, so TLC
evaluates them on the runs' values. Beyond "prices, times and bounds are numbers" they say:

* a null value (`None`, `Null`, `Nobody`, `NoOrder`, `NoField`, `NoChart`) is none of the values it
  stands beside: Python's `None` is not an object of a dict;
* quantities, versions, revisions and the number of health checks are positive, the delays of the
  client are ordered (`ClientAssumption`), as the constructors demand;
* an order given to the simulated pipeline is fresh and has the fields of its type, a trailing
  delta is positive (`Order.__post_init__`); a trailing stop is fresh, its delta positive and a
  percentage at most 100 (`TrailingStopOrder.__post_init__`). Without the last a candidate could
  move against the price, and the stop that tightens last would not be the tightest;
* a buffer has at least one pixel (`FrameBuffer.__init__`) and a behaviour may begin a frame;
* brick size, reversal percentage and prices are positive (`RenkoRenderer.__init__`,
  `KagiRenderer.__init__` and `render`); the open and the close of a bar lie between its low and its
  high, as in every bar that is aggregated from trades (`HeikinAshiRenderer.render` itself checks
  only that the low is not above the high);
* there are finitely many managers and calls of `execute` (their processes are counted);
* `RolloutsAreAlwaysSafe` has the hypothesis `MaxRunning = 1`, one rollout at a time, as in the
  run: `deploy_race` shows that the promise does not survive two.

### The inductive invariants

*Matching* (`BookInvariant`). Conservation is not inductive without the books: each side holds
accepted orders of that side with quantity left, once, sorted, the taker not among them, and the
two sides do not cross *even during a call*, since what is submitted is not yet on the book. A
trade uses up one of its two orders (`TradesExhaust`), so that the same pair never trades the
same quantity twice and the set of trades grows with every fill; the sum over the trades of an
order then grows by exactly the quantity filled. `Loop` says what the test of the loop knows. That
the price is not crossed after `Rest` follows from the loop having ended. For priority,
`TradeIsFirst` shows that a trade is with the head of a sorted side; for lost remainders,
`RestAdds` and `LostByRaise` show that only `Raise` drops a taker. The sort after an append is an
insertion behind all that precede the newcomer (`Insertion`, `PlaceOfOrder`).

*Simulated orders* (`SimulationInvariant`). Per order, with the prices it saw: it was due at none
of them, or it filled at the last one and was due at none before; the watermark of a pending
trailing stop is the best of those prices. `DueStays` lets a longer history be cut.

*Trailing stops* (`StopsInvariant`). Per order, `Follows`: while open, its best price is the best
of those seen since its gate opened, its stop the tightest of the stops they allow, none of them
breached the stop of its time; afterwards it keeps what it was. Evaluating one price preserves it
(`EvaluatedIs`), and since it speaks of one order at a time, whatever a callback does to other
orders in the middle of a tick, or to this one, is harmless. Each unfinished tick has reached the
orders of its snapshot that it has no more to do (`TickHolds`); stops only tighten
(`RatchetTightens`), so a nested tick does not undo it.

*Brackets* (`IInv`). `NoOrphanLeg` needs, in the case of a report, that the reported leg has really
ended (`ReportedHaveEnded`) and that the order leads to a bracket of which it is a leg
(`OwnersHaveLegs`); that reused orders do not lead astray is `ActiveLegsOwned` with
`LegsHaveOwners`. Both ways to close a bracket go through one lemma, `ClosingKeeps`.

*FIX.* `RegistriesAgree` is inductive as it stands. The step that needs thought is the Logon:
`NoStaleEntry` shows that where a sender has no live session neither dict has an entry that the
new session would overwrite. `SenderIsolation` follows from the same lemma about a step.

*Exchange adapter* (`AdapterInvariant`). Who holds a pair: the task that made it, the adapter, or
the task that closes it (`PairsInHand`). Only calls that do not overlap leave no pair without a
holder (`EveryPairIsHeld`), but those of calls that closed nothing, which `abandoned` names.

*WebSocket client* (`SocketInvariant`). A connection is in the client's hand or in that of one task
that closes it. Where calls do not overlap, nothing open is out of hand, and the counter equals
the number of delays slept, by where the call is (`CounterCounts`); from that the schedule.

*Auto-save* (`IInv`). `ReadIsCurrent` is not inductive alone: that the chart is still what was read
needs that nobody else saved, which needs the lock. `Locking` says that a task in `getting` or
`saving` holds its chart's lock. `VersionCounts` ties a chart's version to the number of deltas in
it; with it, the delta saved against version *v* is the *v*-th, which is what
`AcknowledgedIsKept` needs. In the refinement `Save` is `Accept` because the version read is the
version expected and still stored; every other step leaves the store alone.

*Script workers* (`RunsInvariant`). What the pipe and the exit code tell of a worker
(`WorkerTells`), and what a call knows of its worker by where it is (`CallKnows`); the counter of
active workers is the number of busy calls.

*Rollouts* (`RolloutInvariant`). For each place a manager may be at, what it knows of the cluster
(`Knows`), and what the cluster is left in when it fails or crashes there. With one manager at work a
lock that is held is that manager's or stuck. `AbortUnlocks` is a statement about single steps
(`AbortsUnlock`): of those that end an abort only an unlock that raises leaves the lock.

*Cache* (`CacheInvariant`). On a key no calls have met on, a call is alone; both tiers hold something
of `since` or nothing, the first from the moment a write begins, since it is then added to `since`,
and a write that returns has left both with nothing else.

*Webhooks* (`WebhookInvariant`). Attempts, queue entries and status of a delivery determine each
other, and none is under way once the status is terminal.

*Rule worker* (`RuleInvariant`). What is done with came before what is in hand, which came before
what Pub/Sub holds.

*Synchronizer* (`SyncInvariant`). Each broadcast on the stack has the peers it called behind it and
those to call ahead, none in both, and everyone it owes a call is in one of them.

*Events* (`EventInvariant`). While nothing disturbs the run, at most one dispatch is under way; the
handlers that got its event agree with the others on what came before.

*Frames* (`FrameInvariant`). While no callback has stepped frames itself, at most one is under way;
it is drawn on the buffer that is not shown and has every pixel before its own (`Behind`), and no
pixel is of a frame later than the last begun. Hence a swap shows one whole frame and none older.

*Pipeline* (`Inv`). Between ticks the scope is `Settled`, and during a tick the saved state is
settled and the bar's start holds the kept values. This (`RollbackIsSafe`) with the types is
inductive and is exactly what makes each step of `process_tick` a step of PineVariables. The two
theorems are about the pipeline's own `Spec`; `PartsRunPipeline` shows that the run's specification
implies it.

*Ring buffer* (`RingInvariant`). The cells from `start` on, modulo the capacity, hold the last `size`
elements of the log. All cells of a full buffer are different (`Cells`), so that an append loses
the oldest only. Each of the reads is then computed from it.

*Client store* (`StoreInvariant`). The records are within window and capacity and `latest` is the time of
the newest. What `prune` keeps is closed under newer (`KeptIs`): of two records in the window the
newer one has fewer before it, so that a dropped one is no newer than a kept one.

*Bars* (`TradingInvariant`). `Covers` is the property itself with what it needs to be inductive: the bar in
progress ends where the last trade's window does, which with times in order puts a trade either
into that window or into a later one. The aggregate of a window after one more trade is the old
one updated, or unchanged when the trade belongs elsewhere (`AggregateStep`).

*Corrections* (`CorrectionInvariant`). The latest tick time of a bar is that of the newest tick it ever
saw, its corrected form follows one tick at a time (`CorrectedStep`), and the list of keys has
each registered bar exactly once.

*Paginator* (`PagesInvariant`). The cursor parts what the consumer got from what is `Missing`: while a
batch is given out, what is missing is in it or older than all of it. The batch ends at a record
alone at its time, or the one left out is `Shared`. The order of an answer (`NewestFirstIs`) needs
that ranks by the number of newer records are a bijection onto 0 .. n − 1.

*Chart transforms* (`ChartInvariant`). Renko bricks are one chain (`Chained`) with room for no other at
the last price (`Reached`); what is laid at once continues the chain in either direction (`LaidIs`,
`BricksGrow`). In Kagi, `UnderWay` says what the property leaves out: the last swing of each kind is
the end of one of the last two finished lines, so that comparing with it is comparing with the line
before the last; the line under way joins the finished ones as it is (`LinesHold`). A Heikin-Ashi bar
is enclosed by how its bounds are chosen, and opens inside the body before it because half way
between two fractions lies between them (`HalfIs`). Fractions are in lowest terms; that a `Ratio`
stands for its number (`RatioIs`) rests on the greatest common divisor: `Gcd` names a function that
satisfies its recursion, which `GreatestCommon` shows to exist, and it divides both of its arguments
by the least second argument for which it would not (`GcdDivides`).

Sums (the volumes) are the library's fold over a sequence. `Total` names the function the fold
chooses; that it exists, and that two of them agree, is shown by the least index at which they
would not (`SumExists`, `SumsAgree`).

### What stays with TLC

* Liveness (`OneCancelsTheOther`, `WorkerStops`, `CallsEnd`): reasoning about ENABLED is out of the
  prover's reach.
* Everything in `MCAlgorithms`: `RedBlackTree`, `BinaryProtocol`, `ScriptParser`, `ScriptEvaluator`
  and `PineFrontEnd` declare RECURSIVE operators, with which the prover does not work, and a
  theorem about a run's property has to extend the module that groups them. What those operators
  compute for every input would besides need induction over the structure of data.
* `IndexIsComplete` and `StructuresHold`: recursion over a tree whose shape changes, and analyses of
  whole series; the induction over data again.
* `AccountsAddUp`: flattened lots, average prices in lowest terms and sums of fractions.

Induction over the natural numbers appears in the proofs as the least counterexample (`Least`,
from the library's well-foundedness of `<`), which needs no operator as a parameter.

## 7. Disagreements between code and documentation

Each is a run that TLC ends with a counterexample; PROJECT.json quotes the text.

* `socket_quit` – a retry loop awaiting when `disconnect()` is called goes on and connects: the
  test says that no reconnection attempts occur after it.
* `adapter_close` – a second `authorize`, accepted or refused, forgets the pair installed before;
  `disconnect` then does not "close and clean up active REST and WebSocket sessions".
* `deploy_race` – `_acquire_lock` looks and then locks, in two client calls; two managers that
  both look first both deploy, where the test expects a conflict.
* `late_close` – the first late tick of a registered bar always overwrites its close, even if it
  is older than the tick the bar closed on, because `add_bar` does not record when it closed.

Further behaviours the models make explicit, which no text contradicts; the properties exclude
them by name or state them as they are:

* An order that meets a resting market order is lost half-way (`LostOnlyAtUnpriced` shows it is
  the only way). A bracket registered around an order whose fill was already reported never closes.
* A `scale_down` that takes effect and then raises makes the rollback route traffic to a color that
  is gone (`ServingIsHealthy` excludes it by `late`).
* A `lock_deployment` that takes effect and raises leaves the deployment locked until an abort.
* An `authorize` that raises before its `try`, or is cancelled while it probes, leaves its clients
  open, and a cancelled `disconnect` those it has not closed yet.
* A `set` or `delete` of the cache whose second tier raises leaves the old entry there; when the new
  one has left the first tier, a `get` fills the old one in again, without a time to live.
* A script worker killed in the middle of its message makes `execute` raise a bare `OSError`.
* A `stop` before the rule worker's thread enters `run` is lost.
* A `get` of the cache that overlaps a `set` or `delete` may leave a stale entry without a time to
  live in the first tier. A callback that steps a frame of the render loop swaps the buffer its
  own frame is drawn on.
* The Protobuf reader returns a negative `timestamp_ns` as 2^64 more.
* In the sandbox's language: a string that spells an operator, a bracket or a keyword is taken for
  it, so that `plot(close, "-")` is a syntax error, while `a + let` and `a.if` are names; `.5` is two tokens; `%` evaluates to undefined; `&&` and `||`
  evaluate both operands; a series, and NaN, is always true; two missing values are equal as
  elements of series, not as numbers; `x++` ignores an input of that name; an assignment to a
  built-in name such as `close` is never read back.
* In the front end: a carriage return after a backslash in a string does not count as an end of
  line; the order of two truth values is reported as "expected BOOLEAN, got BOOLEAN".

## 8. What is not modelled, and why

Components without a model:

* *Analytics, chart geometry and drawing, Monte Carlo paths, vector math*: formulas over arrays of
  floating-point numbers, where nothing interleaves and rounding is the difficulty; TLA+ has no
  floating point. Indicators whose formula is rational are in `ScriptSeries` and `PriceStructures`.
* *Editor and language server, notifications, storage schema, deployment files, gateway
  configuration, alert interceptor*: text from text or from configuration; examples fit better.
* *Rendering outputs, layouts, themes, UI*: output formats, settings and records.
* *Licensing, broker interface, network policy, time zones, subscription multiplexer, monitoring*:
  a match over sets, an interface, or one dictionary changed by one call at a time.
* *Social feed, script repository, secret rotation*: records in dictionaries, each call a single
  lookup and write; candidates for a later module (section 9).
* *Application shell and scripts*: package markers and callers of external tools.

Left out of modelled components:

* deep copies of mutable script values and `security()` alignment (pipeline); the byte-level
  framing of FIX messages; cancellation of a WebSocket task; listeners of the bar corrector; tags
  of the time-series store; slices of the ring buffer; wall clocks and logging everywhere;
* cost models of the simulated execution; bar events and Monte Carlo of the simulation; pacing of
  the render loop, and a loop without a callback; validation of cache keys and times to live; the
  texts BUY and SELL in the sixth field of a binary trade;
* in the sandbox: strings, arrays and their properties in the evaluator, also `new`, the missing parts
  of a `for`, the lookup of library names and the refusal of names that begin with an underscore (of
  names only the forbidden set is modelled); the limits on the length of a text and
  the number of its tokens, one of three quotation marks, and the signs, blanks and underscores
  Python accepts in hexadecimal numbers;
* in the analyses: rejected inputs, data frames, rounding, square roots, the session filter of the
  volume profile; in the front end the compiler of detection rules, a stub of an evaluator and the
  emitter of outputs.

PROJECT.json lists every component with its files and status.

## 9. Plan

1. *Proofs*: `AccountsAddUp` by its parts, first in first out, then positions.
2. *Composition*: trailing stops feeding the simulated pipeline, and paper trades feeding the
   margin account, once the code wires them together; today it does not.
3. *Further components*: social feed (comment trees under ids that are used again), secret
   rotation (versions and their status), the rest of the sandbox's values (strings, arrays).
