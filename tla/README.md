# till_infinity in TLA+

till_infinity is an algorithmic trading node: statistical models read the market, decision rules propose
trades, *desks* (Nautilus strategies) turn a proposal into orders, an adapter places the orders with a
MetaTrader 5 terminal through an HTTP/WebSocket bridge, and two sinks write down and announce what
happened. It is built on nautilus_trader, whose engine (order state machine, message bus, cache, clock,
executor) is outside this repository and is modelled only as the code here uses it.

The specifications model what can go wrong *between* the pieces: commands in flight while the venue moves,
replies that are lost, orders that fill after they were withdrawn, a writer thread and a loop that share a
flag. Every definition follows the source (`PROJECT.json`, `map`, gives the file and the lines).

## 1. The system

### Parts, state and operations

| Part (`till_infinity/...`) | State it keeps | Operations | Model |
|---|---|---|---|
| `adapters/mt5/execution.py` | none of its own beside the engine's orders; the deals already reported; the trading flag | submit an order or a bracket, verify and repair its protection, modify, cancel one or all, sweep an orphaned position, reports for reconciliation, account refresh | `MT5Execution` (orders) |
| `adapters/mt5/bridge.py`, `proxy.py`, `terminal.py` | an HTTP session; the stream's bounded queue; the terminal's lock | one call per operation, each of which may be refused, time out, or be served with its reply lost | the `Take...`, `List...` and fault actions of `MT5Execution`; the stream and the reads in `MT5Data` |
| `adapters/mt5/data.py`, `clocks.py` | the watermark of each symbol, the last bar of each series, the stream's sequence number | publish a tick, catch up after a gap, poll bars, tell a forming bar from a closed one | `MT5Data` |
| `strategies/desk.py`, `entries.py`, `exits.py`, `leaves.py` | the waits of a resting entry, the intent accepted last, the exit book (`Held`: intent, stop, closing, scaled) | take or refuse a proposal, place, withdraw, attach a stop, bank a part, move the stop, close | `Desk` |
| `strategies/basket.py`, `risk/guard.py` | the peak of the book; opening equity, results of the day and a halt that nothing feeds | look at the book on a timer; ask every desk to close on a stop, a give-back or a take | `Basket`, over `Desk` |
| `strategies/manage.py` | none | break even and trail as a function of the position; the slice to bank | `Manage` |
| `risk/sizing.py`, `scaling.py`, `strategies/sizes.py` | none | a volume from the risk, the reductions and the broker's grid | `Sizing` |
| `journal/` | the buffer, the batch with the executor, the store | take an entry, flush, write, degrade and resume, stop, save, reset, dispose | `Journal`, promise in `Record` |
| `notifications/` | what was accepted and when, the hour's alerts, the count of failures | filter, deliver, degrade and resume, save and load the window | `Notifier` |
| `node/ladder.py`, `pipeline.py`, `promotion.py`, the handler in `live.py` | a rung, a share of the account and a sample for each candidate, in memory and on disk | walk the candidates, promote and retire, apply a decision to the engine, save; deliver and put back from another process | `Ladder` |
| `adapters/news/` | the events table; what was published; the clock of the slow sources | collect from each calendar, write, sweep and publish, serve the history | `News` |
| the rest of `node/` (live, lifecycle, status) | the node's configuration | assemble and run a node, show its state | not modelled |
| `strategies/` decision rules and configuration | settings, features | propose | an input (`Signals`) |
| `statespace/`, `indicators/`, `domain/` | filters, folds of prices | estimate | an input |
| `node/` backtests and statistics, `research/` | recorded data | measure | not modelled: offline, sequential, numerical |

### How they interact

- **Bus.** `utils/topics.py` publishes synchronously: a handler runs inside the publisher's call. One
  proposal therefore reaches every desk of its instrument before anything any of them sends can come back.
- **Cache.** Desks share the engine's cache. It shows a position only when its `PositionOpened` has been
  handled, so a test of the cache says nothing about orders in flight.
- **Commands.** A desk's order goes to the execution client, which runs each command as an asyncio task. A
  task is atomic between two awaits and every await is a call to the terminal.
- **Events.** The client answers with order events; the engine's state machine drops an event that a closed
  order cannot take.
- **Threads.** The terminal is reached from worker threads; the journal and the notifier hand their blocking
  work to the executor, one call at a time.
- **Files.** The ladder's file is written by the node and by the discovery and put-back commands of other
  processes, each of which reads it, amends what it read and writes it back, or edited by a person; what a load cannot rebuild
  it leaves out. The news store is written by the
  collector and read by its sweep and by history requests. Neither is locked.

### What is hard

MT5 has no separate stop and target orders: a bracket is one ticket, and its legs are two fields of the
position that ticket opens. A modify of one leg must therefore send the other back, read a moment earlier.
Replies can be lost after the write was done, listings can lag, an order can fill while it is being
cancelled, and a cancel that met a fill must not hide the position. Above that, the desks decide on a cache
that is behind the venue, remember what they sent and not what the venue answered, and drop waits whose
orders may still fill. `PROJECT.json` lists each hazard at its line with the properties that watch it.

## 2. The modules

| Module | Models | With |
|---|---|---|
| `MT5Execution` | the order side of the MT5 venue | `MCExecution` (TLC), `MT5ExecutionProofs` (TLAPS) |
| `MT5Data` | the read side: a poller of quotes or bars over the bridge's calls and its stream | `MCData`, `MT5DataProofs` |
| `Desk` | the desks of one instrument: gate, entries, exits, and a close of the book at any moment | `DeskProofs` |
| `Basket` | the exit of the whole book and its guard, over the desks; refines `Desk` | `MCBasket`, proofs in `DeskProofs` |
| `Sizing`, `Manage` | the arithmetic of a volume and of a managed exit | the assumptions of `MCBasket`, `MoneyProofs` |
| `Record` | what the journal promises (abstract) | |
| `Journal` | the journal actor and its store, shown to implement `Record` | `MCJournal`, `JournalProofs` |
| `Notifier` | the filter of alerts, the sends, degrade and resume | `MCNotifier`, `NotifierProofs` |
| `Ladder` | the promotion loop, its file and the engine it steers | `MCLadder`, `LadderProofs` |
| `News` | the collector of calendars, its store and what it publishes | `MCNews`, `NewsProofs` |

**MT5Execution.** `venue` is the terminal's book (a row per bracket), `status`, `shown`, `fills` and `owed` what the
engine has been told, `task` the commands in flight. A call is two steps: the terminal serves it (`TakeOrder`,
`TakeModify`, `TakeMove`, `TakeCancel` or a `List...` action) and keeps the answer in the task, and the handler
resumes with that answer. Between the two the broker and every other task may move. Each handler is cut at its awaits
only, so that `_modify_order`, say, is `ModifyOrder`, `Located...`, `ModifySent` and `Verified...`. `Faults` chooses
what may go wrong: a write dropped or refused, a reply lost, empty or unreadable, a listing that lags, a deal without
a price or a ticket. A stop or target that the engine holds submitted, with no venue id yet, can be commanded too: the
handler refuses it before any call (`CommandUnplaced`, `RefuseUnplaced`). The instrument that `_modify_order` and
`_cancel_order` await cannot be missing for an order this process has placed, for placing it loaded it; orders of an
earlier process are left out with the restart. Two simplifications are worth naming: `_cancel_all_orders` reads one
listing for all rows and the model cancels one bracket at a time, each with a listing of its own; and partial fills do
not exist (the code asks for whole fills).

**MT5Data.** The pollers share only the clock and the bridge, so one of them is modelled, of any kind: `poll`,
`ticks`, `push` with or without sequence numbers, `bars`. `history` is what the terminal has recorded; `phase` is
where the task stands. A call is asked (`Ask`, or `Handle` for a gap of the stream), served at the terminal (`Serve`)
and received (`Answered`); ticks come and time passes in between, and any call may fail. The loop over the rows of a
reply has no await, so it is taken a row at a step (`TickRow`, `BarRow`) with nothing else moving, always the row with
the least time: that is the sort. The stream's frames are positions in `history`, and so is `seq`; the bridge may send
a frame, lose it or repeat it, and the bounded queue drops its oldest. A tick is its time and its (bid, ask) pair; a
bar is its opening and the ticks it was made of, which is what tells a forming bar from a whole one. Three variables
are for the properties only: `since`, where the subscription began, `covered`, the ticks up to the end of the last
catch-up's range, and `unseen`, the later ones that came before the first frame. Left out: frames of other symbols,
counters and the watchdog, history requests, the measured offset of the clocks, which is reported and never applied.

**Desk.** A handler (a proposal, a quote, an event) is one action, including everything it calls: a quote is the
judgement of the wait *and* the plan of the exit book. `entry`, `stop`, `closes` and `banks` are orders in flight or
working; `position` is what the cache shows; `held`, `waiting` and `intended` are what the desk remembers. A proposal
that is taken may still send nothing, where no price or size can be made of it (`GiveUp`); it is the intent accepted
last all the same. All intents are on one side and sizes are left out: a position is known by the signal whose order
opened it. Prices and clocks are choices (a wait may be dropped on any quote; a position may go stale or out of time
at any moment; any better stop may be due). Left out: the arrival entry, orphaned positions after a restart, partial
fills, the target leg of a bracket, and a market entry that could not bracket.

**Basket.** `Look` is one look at the book: any part of it is priced, what that part is worth is a choice, the guard
remembers the best it was shown (`peak`) and gives a verdict, and every desk takes the close before the next is
asked, for the request goes over the bus. `Desk` allows the book to be closed at any moment (`BasketCloses`);
`RefinesDesk` says that is all a look ever does. `peak` is never started again: nothing in the node calls
`Guard.roll`, nor `allows`, `record`, `state` or `restore`, which are left out for that reason.

**Sizing and Manage** have no state. Volumes are whole steps of the broker, money whole units, a fraction so many
parts of `One`; a rounding is a rounding of the code, but for the distance of the trail, which is in points and so
rounded down to one. That distance is a part of the price it is measured at (`Behind`: `price_distance` at the best),
made anew on every quote; the part itself (`width`) is the room asked for times the volatility the intent came with,
and stays. `MCBasket` compares them, on small numbers and before the run starts, with references of their own:
`LotsIsTheLargest` (a size is the largest volume on the grid inside the budget), `StopsOnlyTighten`, `Halves`, and
`CrowdingForgetsTheSide`, which is an observation.

**Journal.** The loop's handlers and the executor's write are the two threads. The lock makes the open and the append
of a write one step (`WorkerWrites`); what a worker does after it lets the lock go (`WorkerReturns`: clearing the
failure count and the flag) is another, and a direct flush of the loop may come between. Ids are content ids: two
messages may have one id, and the store ignores the second. The id covers neither tags nor parent (`models.py:49-56`),
so two entries of one id may differ in their tags, and each message says whether it was `Tagged`. An outcome asks for
its decision's tags in its batch, where the last entry of an id speaks for it (`TaggedHere`), then in the store; the
read of the store may fail for any outcome, which is then written without (`missed`). In a backtest there is no
executor and the write is inline: that is the same behaviour with nothing between. `attached` says whether the journal
is subscribed and has its timer: `on_stop` takes both away and `OnResume` does not bring them back.

**Notifier.** An alert is filtered on the bus (`OnAlert`, after the count of failures has been looked at) and sent on
the executor (`Deliver`, which keeps that count). Every time is an age, up to the longer window. `log` is for the
properties: what was accepted and when, whether this process did it, whether a save has seen it. A channel takes
an alert or not; an alert of `Broken` cannot be built or sent, whatever the channels do, and counts as a failure (the
`except` of `_deliver`). That a send is retried inside one call is left out, as are the tally and the wording.

**Ladder.** A pass is `Walk` (the node counts the positions its candidates closed), `Judge(c)` for each, and `Save`,
which publishes what was promoted and writes the file, or fails to write it. A step may raise and `_walk` catches it:
before anything of the candidate is changed (`Raised`: a gate whose numbers cannot be computed, a bar that cannot be
read from the environment) or with the rung and the share set and the sample not begun (`Halved`: the number of live
episodes cannot be read). Either ends the pass: those not yet judged are not, and nothing is published or written,
while what was promoted stays so in memory. The node may be killed between any two actions, and the memory and the
engine go with it. `edit` is another process between its read and its write of the file, and `Damaged` a file that was
cut or edited: a load drops the candidates and the gates that will not rebuild (`Rebuilt`) and is empty where the file
cannot be read (`Loads`). `Row` has what a decision reads: rung, share, the verdict of the gate, the sample and how
long it must be. A verdict is `failing`, `passed` (on `MinEpisodes`), `long` (on `LiveEpisodes` too) or `broken`.
`Trades` says which instrument a strategy trades, for a cap is an instrument's. `base`, `whole` and `total` are for
the property that full capital is earned. One gate stands for the list, for discovery writes one; that a candidate
goes stale is a choice of any pass. A file edited by hand to other rungs or larger shares is left out: nothing checks
it.

**News.** A pass is `Begin`, `Polled(s)` or `PollFails(s)` for each calendar that is due, `Written(s)` for each batch,
and `Sweep`; providers move entries and put out figures, time passes, and the client is disconnected or the process
ended anywhere between (`Cut`: a write that is with its thread is done or is not). A sweep notes each stage as
published and then hands it over; where that raises the stage stays noted, and the rest of the rows wait for the next
sweep (`SweepBreaks`). An entry is its release time and whether its figure is out; an entry whose id is derived from
its time (ForexFactory) becomes another one when it is moved. Entries below the floor, headlines and macro rows, which
nothing publishes, are left out, though a failed write of them ends a pass (`PassFails`). Left out too are a row that
`_stages` itself raises on, at which every sweep would stop, and a figure that is not a number, which the store keeps
as none (`_number`) and nothing tells.

## 3. What TLC checks

| Run | Asks | Bounds |
|---|---|---|
| `ExecSequential` | is a leg the engine holds what the position carries; is a cancelled leg gone; is a stop ever stripped; is every command answered; does a bracket stay SUBMITTED | a market bracket, one command at a time, two prices, every fault but a listing that lags or lies |
| `ExecConcurrent` | is a fill counted once and real, a cancel real, an owed command worked on, a leg ever reported live on a naked position | one bracket, market or limit, two commands, two prices, every fault |
| `DeskBasket` | is one close in flight at most; is what is due closed; is a fill managed with its own intent while it is waited for; is the exit of the book a step of the desks | a resting and a bracketing desk, two signals, two stops, a book worth -1, 0 or 1, every refusal |
| `JournalKept` | does the journal keep `Record`'s promise, find outcomes by tag where the tags could be read, never stick, recover | five messages (a tagged decision, the same again without tags, its outcome, a note, one unreadable), a buffer of three, degraded after two, any read of tags failing |
| `NotifierKept` | is a finding accepted once in its window; does the hour's ceiling hold; does the state follow whether anybody is reached | five alerts of three findings, one of them never built, a cooldown of one tick in an hour of two, a cap of two, a memory of two, a queue of two, one restart |
| `LadderClimbs` | does the ceiling hold; is a cap in force one the ladder gave; is full capital earned; does what is ready climb | two candidates of which the node runs one, a ceiling that holds one of them at full, gates that pass or raise, samples of one before capital and two after, two closed positions, two edits of the file or the environment, a first file that is empty or holds a revived candidate |
| `NewsKept` | is an entry told once and first; does a release come early; is every figure told | an entry of each of two calendars, release times 1 and 3 of a clock of 3, a fetch every other pass, a sweep that may break anywhere, one restart |
| `DataFeeds` | is every quote and bar handed over once and in order; is a tick passed over; does a pulling source deliver every tick | every kind of poller, three ticks of two prices over four milliseconds that cross a second, a queue of two |

Two commands are enough for the concurrency of the execution client because a handler only ever meets what one other
has written between its own awaits; one bracket because tasks of different brackets touch different rows. Two prices
tell "moved" from "not moved". The liveness of a command is asked with one in flight: a handler waits for its own
calls only. `ExecConcurrent` keeps its size with `Scenario`: one bracket is placed; the market half leaves out the
answers refused and placed, and a stop the repair confirmed and did not set; the limit half leaves out a deal without
a price or a row, which a resting limit has not. Those are asked of a single command.

In `DeskBasket`, `Scenario` is two desks with one signal each, or one desk with two while the book has never gained:
two signals are the fewest for which the intent of a fill can be somebody else's, two desks for a book. The window of
`NotifierKept` holds fewer findings than there are, so that one is pushed out. In `LadderClimbs` the small share is
half the ceiling and the full one all of it, so that every promotion may be refused; one candidate is another node's,
whose trades this node never sees. The revived candidate keeps the longer sample of its last rung (`LiveEpisodes`
above `MinEpisodes`). No gate says `passed`: it would hold that candidate at the longer sample, and `ReadyClimbs`
speaks only of a sample that is complete. `LadderForgets` has one candidate, for a restart needs no more. In
`NewsKept` a release can leave the sweep's window untold, be moved out of the calendar's and be early; the rows of two
entries never meet, but their batches do. Three ticks are the fewest for a gap inside a stream (one handled, one lost,
one that shows the jump), and two prices for a millisecond with two quotes; a second of two milliseconds puts the
boundary of the catch-up's range among them. A buffer of three holds a decision, the same again and the outcome, in
either order, or sheds.

The runs that expect a violation record where the code does not do what it says:

| Run | What the counterexample shows |
|---|---|
| `ExecLostUpdate` | two commands on one position: the side a modify leaves out is sent back as it was read before the await, and undoes a move or a clear that landed in between. The same read, when it was a zero, takes the stop off. |
| `DeskWrongIntent` | an order whose wait was dropped, because it fills before its cancel arrives or was never cancelled, is managed with the intent accepted last |
| `DataSnapshot` | a bar read while it forms and received after its window has closed is handed over as a closed bar, and the whole one is then refused as already published |
| `LadderForgets` | a retired strategy runs again after a restart: the stop is the engine's, the ladder is the file's, and a new node starts every strategy it has |

### What else the models show

Steps that no run is devoted to and that a reader of the code should know.

*Orders.* A leg of a limit bracket cancelled while the entry rests is announced gone, and the fill opens a
position that carries it (`ClearSent`; `CanceledLegIsGone` is checked for market brackets). Moving the target of a
limit bracket that still rests moves the entry, for both are one ticket (`ModifySent`). A wait dropped while its
order is submitted and not yet accepted is not cancelled, because only an open order is (`Withdraw`): it works at
the venue with nothing to withdraw it.

*Data.* `NothingPassedOver` allows one gap: a tick later than the range of the catch-up and before the first frame of
the stream. The range ends a second after it is asked for, so the gap may begin before the reply if that is slow. The
sequence number was just forgotten, so the first frame shows no jump and takes the watermark past the tick (`data.py`,
`_stream_quotes`), though `config.py:114` calls the gap "a latency rather than a hole". The run has a terminal whose
clock is UTC (`Offset` 0), and the theorem one whose clock is not ahead, but for a millisecond. With the broker's
clock ahead, as `clocks.py` says it usually is, the catch-up's range begins at a watermark in the broker's time and
ends a second after now in UTC, so it is empty: nothing in the code corrects the range, and a gap is then not refilled
at all.

*The book.* The guard's opening equity stays zero and its peak is never rolled, though its comment says "today"
(`guard.py:236`). A book with nothing priced is judged at zero, which a give-back after a gain takes for a reason to
close.

*Money.* `crowding` takes the new trade for a buy (`CrowdingForgetsTheSide`), though the docs say that a hedge is not
penalised; it is off by default. The floor of `combined` means that a drawdown reduction never comes to nothing.
`round_volume` clamps to the largest volume after rounding, so a largest one off the grid is sent off the grid.
`exits.py` hands `manage.partial` the best price for the current one, so a part is banked on the high-water mark. A
cushion larger than the gain puts the break-even stop beyond the market, which is why `StopBehindBest` assumes it is
not; a break-even level of exactly zero would count as no stop.

*Ladder.* Caps, stops and halts are not applied again at a restart. Another process that read before the node saved
writes the old decision back, and the node's next save overwrites what that process delivered. With the allocations in
force a full share is larger than the ceiling and never given. `put_back` of a candidate that is not retired still
zeroes its sample; of one that is, the longer sample of its last rung stays (`decide_after`), so it may be held where
`live_episodes` was raised above what its gate was measured on. A pass that raises after a promotion leaves it
promoted and unpublished: the strategy trades without the cap of its share until it is promoted again. One broken gate
stops every candidate after it, pass after pass; discovery does not write one, for `deliver` raises first, so it takes
a file edited by hand. A number of live episodes that cannot be read leaves a half promotion: the rung and the share
of small capital, with the sample of the rung before, which then counts towards full capital (`whole`). Of two
strategies on one instrument the last cap published stays, though the comment says the tighter one should (`live.py`,
at `set_max_notional_per_order`); `CapWasGranted` asks no more than that it was given to one of them.

*Alerts.* A failed send has spent the cooldown and the hourly budget. An escalation to critical of the same finding is
suppressed by the cooldown. An alert that cannot be built (an `at` that is no number) counts as undelivered with every
channel up, and one such after each that is delivered keeps the notifier degraded: `ComesBack` is about the runs in
which they come to an end. The node does not ask the kernel to save state, so in production a restart remembers no
window.

*Journal.* A decision's tags reach the outcomes that name it (`OutcomeFound`), with two exceptions: a read of the
store that fails is swallowed and leaves the outcome untagged, and a decision published again without its tags hides
them from an outcome in the same batch, unless the first is on disk already: `_inherit` takes the last entry of an id
and the store keeps the first. An outcome of an untagged outcome that took its tags in the same batch stays untagged:
the parent is looked up as it arrived. A journal stopped and resumed says it is running and has neither subscription
nor timer.

*News.* The history is read from rows that are rewritten in place, so its announcement carries the forecast as last
revised, and a release that came late is replayed at its scheduled time: a backtest does not see quite "what a trader
saw" (`adapters/news/data.py:24`). The table has no `announced` column, so an announcement is always a week before its
release, and a history that ends before a release leaves its announcement out. A restart publishes again whatever the
sweep's two weeks hold. A stage that was noted, and whose handing over raised, is not tried again
by that process. An entry moved after its announcement is not announced again, and one with a derived id leaves
its old row behind, which is still announced. A store that does not open stops the collecting until the next
connection.

### Fairness

`MT5Execution!LiveSpec`: weak fairness of each task (`Serve` or `Resume`). The bridge's client has a timeout on
every call, so a call returns or raises, and asyncio resumes what is ready. Nothing is assumed of the
broker, nor that a call succeeds.

`Basket!BasketLive`: quotes keep coming, and the venue answers a closing order (fills or refuses it). Not that it
fills, nor that any other order is answered, nor that the book is ever looked at. A close that was refused is excused
from `DueIsClosed` and `AskedIsClosed`, and that is a statement about the code: the latch stays set and nothing
sends another close.

`MT5Data!LiveSpec`: the task runs, and a call that is made again and again is served and answered (strong
fairness: the loop makes it for ever, and a bridge that never answers again delivers nothing). Nothing is
assumed of the stream, nor that time passes.

`Journal!LiveSpec`: the clock fires the flush timer while the actor runs, and the executor runs what it was
handed and returns. Not that a write succeeds.

`Notifier!LiveSpec`: the executor sends what it was handed, time passes, and an alarm somebody should hear is raised
again and again (strong fairness): the count of failures is looked at only when an alert comes. `ComesBack` and
`SaysSo` assume that the channels stay up, or stay down, from some time on, and `ComesBack` that no alert which cannot be
built is waiting then.

`Ladder!LiveSpec`: a pass that has begun goes on unless the node is killed (weak), and a node that is started again
and again gets to a pass (strong): its timer fires as long as it runs. Not that a pass judges everybody: `ReadyClimbs` excuses a
gate that raises and an environment that cannot be read, which keep every candidate judged after them waiting.

`News!LiveSpec`: a pass goes on, the store can be written and read again and again, and one calendar answers again and
again (strong fairness). Nothing is assumed of the other calendar, nor that time passes, nor that the client stays connected:
`TellsFigures` speaks of the runs in which it does.

## 4. What is proved

For every value of the constants, under the constants' assumptions (disjoint kinds of brackets or desks,
prices that are positive integers, the first level among them, lengths and bounds that are positive).

**MT5ExecutionProofs.** `TypeCorrect`, then `Inductive`: the invariant `IInv` says that each task is at a stage
of its own handler awaiting the call that stage makes (`OnCourse`), that what it remembers of the book is
still evidence (`Evidence`: a deal it saw is a deal, an order it saw withdrawn has not traded), that a bracket
is placed by one task (`PlacedOnce`), and that an owed command has its task (`OwedWillBeAnswered`). The safety
properties alone are not inductive: that an `OrderFilled` is real depends on what a task read several awaits
ago. From it: `FillsAreReal`, `CancelsAreReal`, `NothingForgotten`.

`CountedOnce`: the fills sent for an order carry one trade id, with any number of commands in flight. A fill is found
by four paths, three of which know the deal; the fourth has only the ticket, because the reply had no price and the
history no row. The invariant added to `IInv` (`FInv`) is that an order about to be reported under its ticket is
alone: no withdrawal can take it up, since the engine has it neither accepted nor filled before that report, and none
was in flight when it was sent.

`NeverNaked`: no leg is reported live on a position that does not carry it, with any number of commands in flight and
any reply lost, under `Honest`: a terminal that opens positions without the levels it was sent confirms no repair it
has not made, and reports no market order placed. Both are needed: the handler believes a confirmed repair when it
cannot see the position afterwards, and does not look at the position of an order that was placed. The invariant added
(`NInv`) says that what a submit has read of its bracket agrees with the book until the verdict (`TaskVerdicts`), and
that nobody else touches the levels of a bracket without a verdict (`Untouched`): a modify or a cancel needs a leg the
engine holds live.

`StopsAreKept`, under `OneAtATime`: only a cancel of the stop takes a live stop off. What the completed side is sent
with is what the position has (`StopsRead`). It is false with two commands, which is `ExecLostUpdate`.
`LiveLegsAreHeld` and `CanceledLegsAreGone` are the setting of `ExecSequential` for any brackets, prices and other
faults, which the hypothesis `Sequential` names: one command at a time, market entries, no listing that lags, no
confirmation that lies, no order called placed. Dropping any of these makes one of the two false, and TLC finds how: a
modify sent from a lagging listing, a repair that was not made, a limit whose leg was cancelled while the entry
rested. The invariant (`LInv`) says that a leg is on the position as announced, or is in doubt by the command in
flight on it, and that the rows this command has read are what the position has.

**DeskProofs.** `TypeCorrect`; `Inductive` (`Opened`: an open position was opened by an order that has filled;
`Latched`: a close in flight is alone, and its position is latched or gone), whence `ClosedOnce`: at most one
close of a position is in flight. The argument is that a latch is let go only with its position, and that
the position cannot come back because its order has already filled. `OwnIntent` is the action property: a fill
that opens a position takes its own order's intent while the desk waits for it.

`Refinement`, of `Basket`: for any limits and any worth of the book, every look is a `BasketCloses` of the desks or
a stutter. With it what is proved of the desks holds under the exit of the book (`ClosedOnceByTheBook`).

**JournalProofs.** `Inductive`, whence `TypeCorrect`, `TagsFollow` (an outcome written with its decision or after it
carries the decision's tags, unless the read of them failed or a message without tags has the decision's id) and
`PromiseIsKept`: `Journal` implements `Record`, for any messages, ids, buffer and number of failures. The invariant
says that a message that has arrived is in one place only, the buffer or one batch (`InOnePlace`), so that handing
over and writing back neither lose nor double one, and that no id is in the record twice. What a write leaves in the
store is a function of the batch defined row after row; its facts are shown of the least row at which they could fail
(`Least`, `Induction`).

**NotifierProofs.** `FindingIsNotRepeated`: a finding is accepted again inside its window only if its memory was
pushed out by newer ones, or a restart lost it; `CeilingIsKept`: one process accepts no more than its cap within any
hour, beside what is critical. The invariant ties the filter's memory to the log of what was accepted: the memory has
each finding's last age (`Recalls`), the hour's list ends with the ages of all that was accepted in the hour
(`Counts`), and both lists are in the order of age, so that dropping from the head drops the oldest.

**MoneyProofs.** Theorems about the operators of `Sizing` and `Manage`, for all integers: `BudgetKept` and
`RefusedForCause` (a trade stopped at its stop loses no more than its budget, and is refused only if the smallest lot
does not fit), `SmallerFractionSmallerTrade`, `ReducedUnderBudget`; `BreakEvenLocks`, `StopBehindBest`,
`LaterIsNoWorse` (a quote skipped while a modify is in flight loses nothing: what a later and better best proposes is
as good or better, though its trail has another distance, for that grows by less than the price where the trail is no
wider than the price itself), `BothHalvesTrade`.

**LadderProofs.** `TypeCorrect`, `CeilingHolds`, `CapsGranted`, `OwnTrades`, with passes that raise anywhere, saves
that fail and loads that drop what they cannot rebuild. The invariant joins what a pass may find (`Phases`), the
shares of every copy of the ladder (`Shares`: memory, file, and the copy another process is amending; the ceiling of
one is the ceiling of all because every copy was once the memory, or less of it), and the samples (`Counts`: what the
cache has counted since the node started, against the positions a strategy ever closed). `CapsGranted`: a cap in force
is a share the ladder gave to a strategy on that instrument and has not lowered since, unless it stopped that
strategy.

**MT5DataProofs.** `TypeCorrect`, with the bound of the stream's queue; `Inductive` (`UpToMark`: no quote handed over is
later than the watermark, and the pairs handed over at the watermark's own time are all remembered; `Marked`: a
source of quotes that has begun has a watermark; `OnlyStreams`; `UpToLastBar`), whence `OnceAndInOrder`: each quote
and bar once and in the order of its time. It holds for any `Offset`, so whatever the broker's clock.
`NothingIsPassedOver`: every tick up to what the poller has reached is handed over, in the reply in hand, or in `unseen`
(`Complete`), whatever frames are lost, repeated or dropped and whatever calls fail. A frame either follows the one
before or shows a jump, and the range then asked for reaches back to the watermark. That range is empty where the
broker's clock is well ahead of UTC, so the theorem assumes `NotAhead`: it is ahead by a millisecond at most, or no
source is a numbered stream. With two milliseconds and four ticks TLC finds one that is passed over.

**NewsProofs.** `TypeCorrect`, `OnceEach`, `NoLookahead`. The invariant follows a row with a figure from the provider
through the batch and the store: the figure is out, the time is its last, and no batch on its way takes a
figure back (`RowsSound`). What a process remembers as published is what it was told (`Remembered`), and a release
cannot be fresh before its announcement because its moment is `Lead` later.

## 5. What is only model-checked, and what is not modelled

Every invariant and every action property of the passing runs is a theorem. Five hold under hypotheses about the
environment or the number of commands, named above, each because the property is false without it; the runs of these
properties have the same setting, and the one of `NoNakedClaim` gets it from `Scenario`.

Liveness is checked and not proved, for the prover has no rule for fairness and `ENABLED`: `EveryCommandAnswered` and
`NoLimbo` of the execution client, `AskedIsClosed` and `DueIsClosed` of the desks, `Delivered` of the data client,
`NothingSticks` and `Recovers` of the journal, `ComesBack` and `SaysSo` of the notifier, `ReadyClimbs` of the ladder,
`TellsFigures` of the news. The four disagreements of section 3 are counterexamples, which only TLC gives.

Not modelled, with the reason, is in `PROJECT.json` under `components`. In short:

- The reports the execution client makes for reconciliation, its account refresh and the trading flag; the arrival entry
  and the positions found after a restart, which depend on those reports.
- Numerical code (state-space models, indicators, the single reductions of `scaling.py`, plans, statistics): functions of real
  numbers, whose state is a filter's matrix and which have no protocol to explore.
- Decision rules are inputs. Configuration, status pages and reports act on nothing.
- Backtests and `research/` are offline, sequential and numerical; `research/retire` holds services taken out of the running system.

## 6. What is left

1. Reconciliation reports and the trading flag of the execution client, and with them orphans and the arrival entry.
2. A composition of `Desk` over an order interface that `MT5Execution` implements, with the proof that it does.
3. Proofs under weaker hypotheses: the legs of limit brackets that have filled, and a listing that lags behind a fill
   and not behind a modify.
