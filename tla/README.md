# Kalshi weather bot: TLA+ specification

This directory specifies the parts of the bot in `src/src/kalshi_weather` and
`src/scripts` whose correctness depends on order, time, failures and stale
state. The modules are checked with TLC on small instances, and what matters
most is proved with TLAPS for every instance. `PROJECT.json` maps each
definition to the lines it models and lists the runs, the mutants that show
that each property can fail, the hazards and the theorems.

Paths below are relative to `src/src/kalshi_weather` unless they begin with
`scripts/`.

## 1. The system

A scheduler (launchd or a systemd timer) runs `scripts/run_weather_cycle.sh` at
:00 and :30, a backup job at :15 and :45. The wrapper takes a lock directory,
checks a cooldown, runs one *decision cycle* (`tools/run_city_cycle.py`) and a
survey, and writes a heartbeat. `scripts/watchdog.sh` looks at the heartbeat and
the log at :08 and :38. A third timer starts `scripts/run_settlements_morning.sh`
at 12:30 UTC, which fetches the day's reports and runs a cycle and a survey of its
own, without the lock and with `LIVE_ORDERS_ENABLED=0`. A cycle fetches forecasts and order books, decides on
every open market of every city, keeps a *shadow book* (paper positions) in
SQLite, and mirrors each shadow fill with a real order of one contract. The
rows of `live_orders` are the only memory of what was traded: every gate of the
next order is a query of that table. Settlement tools later close the shadow
positions, and governance tools move cities between qualification states. No timer
starts these: `tools/refresh_empirical_blockers.py` runs one after the other when
someone calls it.

| Component | State it keeps | Operations | Depends on | What makes it correct |
|---|---|---|---|---|
| Live order ledger (`engines/live_execution.py`) | `live_orders`, append-only | append a row; re-entry check, daily spend, newest entry, already closed | SQLite, UTC clock | limits per market and day, daily cap, one close per position |
| Decision cycle (`tools/run_city_cycle.py`, `engines/shadow.py`) | `shadow_positions`, `shadow_fills`; kill switch and open positions as read at the start | evaluate, exit, shadow entry, live order, rollback | ledger, exchange, kill switch, decision engine | what is bought is managed; city cap; the switch stops orders |
| Wrapper and watchdog (`scripts/`) | lock directory, log, heartbeat, down flag | lock, clobber, cooldown, run, report, kill | schedulers, clock | one cycle at a time, no starvation, no false alarm |
| Decision engine (`engines/decision.py`, `risk.py`, `ev.py`, `microstructure.py`, `regime.py`, `portfolio/correlation.py`) | none | candidates, vetoes, decision tree per market | books, forecast, positions, switch | no entry where a blocker holds, a taker is worth its price |
| Recommendations and selection (`analytics/recommendation_log.py`, `volume_selection.py`, `tools/survey_opportunities.py`) | `market_recommendations` | log, mark, resolve; select under the day's cap | decisions, paper book, settlements | a mark is true, rows of a market agree, what is selected passes the desk's gates |
| Shadow reconciliation (`engines/shadow_reconcile.py`) | fills, positions | settle fills, then the position | validation rows | each fill counted once, every settled market closed |
| Settlement and revisions (`settlement/`) | archived reports, validation rows | resolve, validate, compare with the proxy | weather service, Kalshi | a mismatch is reported only for a real correction |
| Qualification (`governance/qualification.py`, `analytics/live_gating.py`, `analytics/qualification.py`) | state per city | recommend, apply; live gates | all of the store | no promotion past a mismatch, no demotion for ever |
| Kill switch (`governance/kill_switch.py`, state store) | `kill_switches` | raise, read | SQLite | it stops buying |
| Order book stream (`market/ws.py`, `tools/run_live_readonly_stream.py`) | ladders and number per market | snapshot, delta, gap | websocket | no decision on a book with a gap |
| Manual plan and thin adapter (`tools/prepare_live_plan.py`, `live/adapter.py`, `clients/http.py`) | `live_orders`-like rows of plans | pick, gate, submit, retry, save | decisions, exchange | the newest decision of its market, one order per plan, true row |
| Sports closer (`analytics/sports_closer.py`) | its own log | scan and buy | exchange | its own caps |

Behaviours that are hard to test here:

- *Crash and lost response.* An order, its row, the shadow fill and the shadow
  position are four separate writes to two systems; a cycle may die, or a save
  fail, or a response be lost between any two.
- *Stale reads.* The cycle decides on positions and a kill switch read up to
  fifteen minutes earlier.
- *Midnight.* Limits are per UTC day, cities live in local time, and the day is
  read anew by every query and every row.
- *Long sequences.* Buy, close, re-enter, close: what a row means depends on
  the rows around it and on the exchange's order status in its name.
- *Tools side by side.* The morning cycle and a primary start in the same minute and
  share one shadow book, where a check and its save are two transactions. The refresh
  tool deletes and rewrites rows and judges a
  city on them while half-hourly cycles append to the same store; the manual tool
  and the stream read decisions that others are writing.
- *Copies of one rule.* The entry gates are written in the fill layer, the log, the
  cycle's reasons and the survey, the qualification thresholds twice. Comments keep them
  equal, where they are.
- *A connection that loses messages*, numbered per subscription, shared by markets.
- *Schedulers.* A lock with a TTL that any contender may clobber, a cooldown
  that must turn one scheduler away and never the other, a watchdog that infers
  from ages whether anything runs.

## 2. Modules

| Module | Models |
|---|---|
| `LiveOrders` | the table as a sequence of rows, and each query as an operator |
| `TradingCycle` | the cycle processes, shadow book, exchange account, clock and operator; EXTENDS `LiveOrders` |
| `Sums` | amounts added up row by row, or over a set; used wherever the code totals |
| `Sums_proofs` | what such a total is, bounds it and leaves it as it is, by induction |
| `TradingCycle_proofs` | what appending a row does to each query, and the theorems about the cycle |
| `MCTradingCycle` | constants of the instances of `TradingCycle` |
| `CycleLock`, `MCCycleLock` | wrapper, schedulers and watchdog; its instances |
| `CycleLock_proofs` | theorems about every timetable that meets four named conditions |
| `ClimateReports` | reports of a date, their status, the resolution at the deadline, the validation of a market, the proxy |
| `SettledOnce` | the abstract account: what reconciliation promises |
| `ShadowBook` | paper fills and positions, validation rows, and the tools that write them; EXTENDS `ClimateReports` |
| `SettlementDay`, `MCSettlementDay` | one date of a city: weather service, exchange, `ShadowBook`; implements `SettledOnce` |
| `SettlementDay_proofs` | the books balance, and the refinement step by step |
| `Qualification` | the ladder of states and the live gates as operators on one body of evidence |
| `Scorecard` | how that evidence is computed from the store's rows; EXTENDS `Qualification` |
| `Governance`, `MCGovernance` | cycles and runs of the refresh tool on one store; EXTENDS `Scorecard` |
| `OrderBook` | ladders, implied offers, the cost of a quantity |
| `OrderBook_proofs` | what a ladder's operators return and bound, and that no way of taking a quantity is cheaper |
| `BookStream` | the stream with its numbers, losses and repetitions; EXTENDS `OrderBook` |
| `ManualPlan` | the manual order from the pick to the row; EXTENDS `OrderBook` |
| `LiveDesk`, `MCLiveDesk` | stream, cycles and manual order together |
| `Microstructure` | what one contract meets in a book's history; EXTENDS `OrderBook` |
| `RegionPriors` | the correlation of two cities by their regions |
| `EdgeEstimate` | regime, portfolio, haircuts, EV and vetoes; EXTENDS `Microstructure` |
| `Decision` | candidates, the decision tree, concentration, confidence; EXTENDS `EdgeEstimate` |
| `FillLayer` | the four readings of a decision: paper fill, log, reason, survey; EXTENDS `Decision` |
| `SelectionDay`, `MCSelectionDay` | cycle, survey, reports and settlement around them; EXTENDS `FillLayer` |
| `Governance_proofs` | theorems about the rule sets, the scorecard and the refresh tool |
| `LiveDesk_proofs` | theorems about the stream, the manual order and the two together |
| `SelectionDay_proofs` | theorems about one decision, its four readings and the day |

### LiveOrders and TradingCycle

`live_orders` is a sequence in `created_at` order. A row keeps its UTC day,
clock value, status, side, price, the model probability recorded with it
(`p_model` of an entry, `exit_metadata.p_model_at_close` of a close) and the
`is_reentry` tag. Statuses keep the exchange's answer in their name, as in the
code: `PLACED_CANCELED` is an immediate-or-cancel order that bought nothing and
is `PLACED_` for every query. `filled` is what really happened; no query reads
it.

`Cycles` is a set of processes, each with the modes it may run in (`Modes`): the
wrapper's cycles take turns by the lock and are one process, the morning cycle is
another that never trades. A cycle is a record with a program counter. It is cut where the code makes a
SQLite transaction or a network call; in between, time may pass, the operator
may set the kill switch, another cycle may act, and the process may die.

| Action | Code |
|---|---|
| `StartCycle` | `main`: kill switch and baseline positions read once |
| `SkipMarket` | HOLD, WATCH, HALT, or a gate on data the model leaves out |
| `EvaluateExit`, `SubmitClose`, `RecordClose`, `DropShadow` | `_maybe_close_if_underwater`, `maybe_close_position` |
| `EvaluateEntry`, `SavePosition` | `apply_shadow_decision`: the fill, then the position |
| `GatesPass`, `GatesBlock`, `GatesAbandoned` | gates 1 to 5 of `maybe_place_live_order` |
| `SubmitOrder`, `RecordOrder` | order and row; a failed order goes on to the rollback |
| `RollbackFill`, `RollbackPosition` | the rollback in the market loop, two transactions |
| `Crash`, `EndCycle`, `Tick`, `SetKillSwitch` | death at any step, end, clock, operator |

Abstractions: prices are cents and probabilities percent from small sets; the
gates of the shadow layer that read no shared state (spread, EV, tradability,
disagreement, simulated fill) and the whole estimate are the free choice between
an entry and `SkipMarket`; the five live gates are read in one step (they are
queries milliseconds apart); settlement does not remove positions, since the
reconciler is a separate tool. Faults are in the model: any save may fail, any
response may be lost after the order executed, and `FaultyReads` names the
queries that may raise, each with what its handler makes of it.

### CycleLock

Time is in minutes, with the values of the scripts (TTL 16, cooldown 12,
watchdog at minute 8, stuck after 5, in progress for 17, budget 15). Ages are
kept up to the largest value a test distinguishes, so the state space is finite
without bounding time. Each command on the lock directory is a step. One slot of
thirty minutes repeats for ever; `FireAt` gives each scheduler its minutes.
Commands other than the cycle and the survey take no minute: a process that
stops for minutes between `stat` and `rm` is outside the model.
The morning script touches none of this state; its cycle is in `TradingCycle`.
The schedulers are launchd and systemd jobs, which end a job's children with it;
a cycle started from a terminal would survive its wrapper. Left out:
`FORCE_RUN`, rotation of the log at 50 MB (it forgets the last end marker and so
the cooldown), the report files, and systemd's `TimeoutStartSec` (launchd has
none).

### ClimateReports, ShadowBook and SettlementDay

A report is its issue time, its version and the day's maximum: text and parsing
are abstracted. Reports are published by the weather service and archived in any
order, on either side of the deadline; `resolve` looks only at what is archived.
The validation of a market compares the exchange's result with the resolved
report and, days later, with the proxy from station summaries. `ShadowBook` has a
step per save: a validation row, a settled fill, a closed position. The corpus tool
deletes a city's rows and saves them one by one, in a run that someone starts; the
reconciler asks for *the*
position of the city, which is the first open one by key. `KillTool` ends a tool
between any two saves. `SettledOnce` is the account without tools: a position is
opened, dropped, and settled at most once with fills of its market; `SettlesOnce`
says that `SettlementDay` implements it, with the fills, positions and results as
they are in the store.

### Qualification, Scorecard and Governance

`Qualification` has the two rule ladders with the code's order of early returns and
the live gates of both profiles, as operators on an evidence record. `Scorecard`
computes that record from rows; it keeps the code's treatment of a measured zero as
missing. `Governance` interleaves them: a cycle reads the city's state and later
saves a decision, its fill and its position; a run of the refresh tool validates,
reconciles and judges, reading the decisions in a step before the rest; a tool may be killed
in the corpus step. Sixty decisions of one kind are one batch, since the thresholds
are tens of rows.

### OrderBook, BookStream, ManualPlan and LiveDesk

A ladder maps each price to its size. The exchange numbers messages per
subscription; `Lose` and `Repeat` act on the channel; the client drops a market's
book at a gap and waits. `ManualPlan` picks a saved decision, evaluates gates and
age, submits, may lose an answer, waits and tries again with the same client order
id, and saves a row. The exchange carries out one order per client order id: this
is the exchange's documented behaviour and an assumption here. An attempt reaches
the exchange within its timeout. What the gates of the live report say is a Boolean
chosen freely (`Governance` has them in full).

### Microstructure to SelectionDay

`Decide(q, open, signals, m)` is `run_market_decision_cycle` for one market: from a
quote (the saved books, trades, the forecast's probability and spread, the sky, the
city's stage, lag and the switch) to the explanation that is saved. EVs are kept in
10^-8 dollars and probabilities in whole percents, so sums and products are
exact; shares of more than two comparisons are cut to a percent. Forecast, nowcast
and path results are fields of the quote. `SelectionDay` cuts the cycle at each
transaction: decision, log, fill, position, live order, the two rollbacks, the mark.
Each save may raise and the cycle may end anywhere. Which orders a gate blocks is
open there (`TradingCycle` has it). A market of tomorrow is decided as if nothing
were open (`Seen`), which only the fill layer's own city gate makes good. There is one
cycle and one fetch at a time: two cycles on one book are `TradingCycle`'s, and a fetch,
which asks for UTC yesterday when the city may still be in it, looks for a stored high,
asks the weather service and saves, with nothing else that writes highs.

## 3. Runs

| Run | Instance | Shows |
|---|---|---|
| `trading_cycle` | 1 market, 1 cycle process, 6 clock units, 3 orders, 2 signals, live and dry run | `TypeOK`, `EntriesPerDay`, `DailySpendWithinCap`, `ReentryFollowsClose`, `BoughtIsTracked`, `ClosedOnce`, `KillSwitchStopsBuying` |
| `overlap` | 3 markets of one city and day, a wrapper cycle in dry run and the morning cycle, city cap 1 | `CityExposureBounded` with two cycles at once |
| `scheduled` | primary at 0, backup at 15, one kill at any step | `TypeOK`, `RunnerHoldsLock`, `PrimaryNeverStarved`, `NoFalseAlarm`, `CyclesKeepStarting` |
| `kickstart` | primary, and starts at any minute but 13, 14, 16 and 17 | `AtMostOneCycle` while the watchdog may kill and unlock |
| `settlement` | 2 markets of one date, 2 reports, 1 kill | `TypeOK`, `MismatchMeansCorrection`, `BooksBalance`, the refinement `SettlesOnce`, and `FirstPositionSettles` |
| `governance` | 2 batches of decisions of 3 kinds, 4 results of a position, 2 groups of markets, 3 forecasts, 1 change, 1 kill | `TypeOK`, `MismatchBlocks`, `GatesAgree`, `BetterNeverDemotes`, `NeverDemotedForEv`, and `Requalifies` |
| `live_desk` | 2 markets on 2 subscriptions, 2 changes, 1 fault, 2 decisions, 1 plan of 2 attempts | `TypeOK`, `BookIsTrue`, `GapMeansLoss`, `CheapestFill`, `NewestDecisionDecides`, `OrderFresh`, `RowTellsTruth`, `PriceWasOffered` |
| `selection` | four worlds, see below | `TypeOK`, `TakersPay`, `OneSetOfGates`, `SelectionSound`, `OutcomesAgree`, `MarksTellTruth` |
| `one_contract` | 1 market, live | *violated*: a filled order whose response was lost is bought again |
| `sells_owned` | 1 market, live | *violated*: a canceled buy is sold later |
| `two_schedulers` | two schedulers in the same minute, one kill | *violated*: both clobber a stale lock and both run |
| `hung_cycle` | a cycle may hang | *violated*: the watchdog never kills it |

Bounds. Three orders are an entry, its close and a re-entry, which is the
longest sequence the re-entry budget of one tells apart from a longer one; a
fourth would be refused by the budget. Six clock units with a day of three and
a cooldown of one cross one midnight of UTC and, one unit later, the city's: gate and
row, close and re-entry fall on one day or on two, and a market is both scouted and
traded. Of the two signals one re-enters within the boost and one does not, and the cap
has no room for the dearer one twice, so boost and cap both decide. In `overlap` three
markets are the fewest that exceed what two cycles may save under a cap of one; nothing
is closed there, and of the midnights only the city's passes, after which its markets are
evaluated with what is open.
Its markets are symmetric. `MaxOrders` and `MaxTime` only bound the
instance and no theorem depends on them. `CHECK_DEADLOCK FALSE` is set for
`TradingCycle` because the clock stops at `MaxTime`; `CycleLock` is checked for
deadlock. In `CycleLock` one kill is enough to leave a lock behind; a cycle takes
4 to 15 minutes and the survey up to 2 (the script says 5 to 12 for both). In
`kickstart` a cycle may also end after 1 minute, and the starts by hand come at any
minute of the slot, the watchdog's and the primary's own included, but four. A start at
16 or 17 finds the primary's lock as old as the TTL (16) while its survey may still run
(until 17), and after a start at 13 or 14 the primary finds that one's
(`MeetsOldLock`). With one of the four `AtMostOneCycle` does not hold: section 5.

In `settlement`, two reports are the first that can contradict each other, one kill
leaves each tool's work half done at each place, and two fills of one market with
a second market in the city are what the reconciler can confuse. The two thresholds
lie between the two maxima and below both, so a correction changes one result and
not the other. The proxy is one record that agreed with the reports on enough dates.

`governance` starts with both groups of markets matched (`AllMatched`); one change
then brings a mismatch, or another forecast. Two batches of sixty decisions reach
every count threshold of the ladder. A position makes 300, -200, 5 or -5 cents, so two
may make exactly nothing, which the code reads as not measured. The three kinds of decision are good on every
figure, late by more than either lag limit, and poor; the three forecasts are
sound, weak and too young.

`live_desk` has five units of time, enough for a decision to age, two attempts with
their timeouts and the wait between them. The instance explores one order of steps
that commute: the stream lives for twenty seconds, less than one unit of time, and
the manual tool reads nothing that the stream alone writes, so `StreamFirst` lets
the stream's steps come before the clock's and the plan's. The constraint limits
this run only; no theorem uses it. The subscription ids are symmetric: nothing
depends on which of them a market has, only on whether two markets share one.

`selection` starts in one of four worlds. `desk`: two cities, two quotes (a bet, and one
for review on "no"), two evaluations over two days, for the
transactions, marks and resolutions. `engine`: one evaluation of each of several
hundred quotes (books, probabilities, spreads, skies and the exceptions: switch,
lag, stages, last minutes, histories), for the decision. `held`: the same quotes but
those of the middle spread, while the market is held. `full`: two markets of the city's
day held and a third listed, with a quote the gates refuse besides, over three days,
for the city cap and the selection. The markets pay above, from, and up to their
thresholds (`>`, `>=`, `<=`). One evaluation is enough where the property
is of one decision. `Fetch` takes the days of the world's markets (`Concerned`). A cycle
that lives for minutes does not overlap the settlement
of its market, hours after its day (`Settle` while the cycle is idle).

Fairness, `FairSpec` of `CycleLock`: a step a process can take is taken
(`WF` of `Step` and of the watchdog's steps), time passes and a scheduler whose
minute comes again and again fires (`SF` of `Tick` and `Fire`, because a process
that acts within a minute disables both for a moment). `Die` has no fairness.
In `SettlementDay` and `Governance` the fairness is that time passes and that a run of
the refresh tool, once started, goes on from save to save and from tool to tool unless it
is killed: `WF` of `Tick`, `Write` and `Reconcile`, and `WF` of `RunGoesOn`. Nothing in
the code starts a run, so its first step (`Corpus`, `ClearRows`) has no fairness; that
someone keeps starting it is a hypothesis of the property. `FirstPositionSettles` says
"if `KeepsRefreshing`", which is a corpus step again and again and the reports archived
that were published; `Requalifies` says "if `ClearRows` is taken again and again, and
from some moment on the record is clean". Kills are bounded and have no fairness; cycles
and changes have none.
`TradingCycle`, `LiveDesk` and `SelectionDay` have no liveness property: nothing in
them must happen, a cycle may skip every market and a stream may end.

## 4. Proofs

49 theorems, for every value of the constants, in eight modules: all safety properties
of the passing runs, and facts about the operators they rest on. A theorem
about a specification has an inductive strengthening of its property, one lemma per
action (or per group of actions that leave the same state alone), and a temporal step.

`Sums_proofs` has what the others need about sums over finite sets and folds.
The induction is on cardinality: a least counterexample by `WFMin` on the natural numbers
(`SetInduction`, `SubsetInduction`), stated of a set of sets and not of an operator, which
is the form this prover can use. From it: a sum is bounded by its parts, splits,
compares, and the square of a sum is at least the sum of squares. `TotalAppend` and
`TotalUpdate` in the modules that use it say what one new row does to a total.

**`TradingCycle_proofs`**, ledger and cycle:

- `TypeCorrect`; the type of `cyc[c].ticker` outside the market loop is part of the
  invariant, since orders index by it.
- `KillSwitchHolds`: for any number of overlapping cycles. While no cycle is at `submit`,
  only `GatesPass` leads there, which reads the switch, and only `SubmitOrder` adds
  to `net`. It asks that the query of the switch does not raise.
- `EntriesPerDayHold`, `DailySpendHolds`: not inductive, since a row is written after
  the check and perhaps on a later day. `EntryInv` and `SpendInv` add that an order past its
  gates still has room *on today's date*, which `Tick` keeps because a new day has no
  rows (`RowsInPast`). The second asks that the spend query does not raise.
- `ClosedOnceHolds` (`CloseInv`): an order on its way to a close row finds no close
  row of its market yet, if the close query does not raise.
- `BoughtStaysTracked` (`TrackInv`): a position is rolled back only on the path of an
  order that was not placed; the invariant follows each order from its save to its row.
- `CityExposureHolds` (`ExposureInv`): for any number of overlapping cycles. What is open in
  a city and day and the cycles between their count and their save (`Counted`) together
  stay within the cap and one for each cycle beyond the first: who counts below the cap
  is the only one, or is followed by fewer saves than there are other cycles.
- `ReentryFollowsHolds` (`ReentryInv`): the close a re-entry was granted on is in the
  ledger and stays the last of its market until the re-entry's row, and rows are in the order
  of time (`RowsInOrder`).

`EntriesPerDayHold`, `DailySpendHolds`, `ClosedOnceHolds`, `BoughtStaysTracked` and
`ReentryFollowsHolds` are about one process that trades and any number that do not
(`OneTrader`; `BystandersOnlyWatch` says that those neither order nor write rows). The
lock is for the former, and the next module says when it holds; the morning cycle is of
the latter, since its script sets `LIVE_ORDERS_ENABLED=0`.

**`CycleLock_proofs`**, wrapper, lock and watchdog. `IInv` ties every invocation's place in
the script to the lock directory: who is past the lock owns it (`RunnerHoldsLock`), a cycle
that runs beats and has not run longer than its slot (`RunnerBeats`, `RunsSince`), a
lock old enough to be stale is nobody's (`StaleIsNobodys`), and the kill of an old
process meets the holder (`KillsTheHolder`).

- `RunnerKeepsLock`, `NeverTwoCycles`: if cycles end within a slot (`Bounded`) and the
  minutes at which they fire lie apart (`Apart`).
- `PrimariesFire`: if also no scheduler fires within the cooldown (`Spaced`).
- `AlarmsAreTrue`: if also the cycle that runs at a watchdog's minute began in its
  slot (`Watched`).

The four conditions are about the timetable of the wrapper, and `InstalledTimetable` in
`MCCycleLock`, which TLC evaluates, says that the installed one meets them. The morning
script does not invoke the wrapper, so nothing here keeps its cycle and a primary's apart.
A second scheduler on the same minute does not meet the conditions, nor does a start by
hand: runs `two_schedulers` and `kickstart` show what happens then, `hung_cycle` what
happens without `Bounded`.

**`SettlementDay_proofs`**, settlement and its abstract account:

- `MismatchIsCorrection`: a final report once archived stays archived, so a mismatch
  that was judged keeps its two reports.
- `BooksAlwaysBalance`: `ToolInv` follows the tool through the fills of a market. The
  partial total it carries is the sum over the fills settled so far (`AddedUp`), a position
  that is being settled is open (`Settling`), and a kill between two saves leaves
  exactly a position settled in two goes.
- `ImplementsSettledOnce`: under the mapping of section 2, initial states map to initial
  states, each save to the account's step, and all else to a stutter.

**`Governance_proofs`**:

- `MismatchNotPromoted`, `GatesNeverContradict` are about the rule
  sets, for every body of evidence of the right types (`Consistent`: what is counted
  was validated).
- `MismatchBlocksAlways`: `IInv` ties the running tool to the rows: unless the corpus
  step was cut, the rows are the verdicts as it read them, so each mismatch is counted.
- `TypeCorrect`, `GatesAlwaysAgree`: `GInv` says that the bags of
  decisions and trades are well typed; then each figure of the scorecard lies in its
  range (`EvidenceHolds`) and the theorems on rule sets apply.
- `BetterIsNeverWorse`: one settled result is raised and every figure computed again from the
  raised list (`EvidenceOn`). Profit, wins, drawdown and with them the EV score are no
  worse (`EvidenceRises`), and the ladders only ask for more of each (`BetterNotDemoted`). A
  total of exactly zero is excepted: the code reads it as missing.
- `EvNeverDemotes`: the paper EV of a trade is above a floor, so is the mean, and the
  confidence margin cannot take the lower bound below the demotion limit (`FloorLifts`).
  The branch of the ladder that demotes for EV never decides.

**`OrderBook_proofs`, `LiveDesk_proofs`**:

- `BooksAreTrue`, `DeskBooksAreTrue`: for any faults at any place of the channel. `IInv`
  adds that every message is the exchange's: a snapshot is the book of its number, a delta
  leads from the book before to the book of its number.
- `GapsAreLosses`, from `LineInv`: as long as nothing was lost or repeated, the messages of
  a market that has its subscription to itself are in the channel in the order of their
  numbers, each followed by the next, after the number of the book that is held.
- `FillsAreCheapest`, from `WalkIsCheapest`: below every price the walk up a ladder has
  taken as much as any other way of taking the quantity, so what another way buys
  later it pays more for (`EarlierIsCheaper`, by `PriceInduction`).
- `NewestIsChosen`: the store is in the order of time (`TimeOrdered`), so the last minutes
  of a city that hold a decision hold all later ones of its market.
- `RowsTellTruth`, `OrdersAreFresh` (`DInv`): an order under way has the id of the plan and
  is due no later than its attempt allows, ids are not used again, and an answer that
  arrived found the order there. They rest on two assumptions of the model: one order
  per client order id, and attempts within their timeout.
- `PricesWereOffered` (`PInv`): a decision is priced on a book that was the exchange's,
  and one contract costs the best implied ask of that book (`OneContract`), whatever the
  depth below.
- `TypeCorrect`.

**`SelectionDay_proofs`**:

- `UnvetoedTakerPays`, `MakerNeedsTaker`, `NoMakerOnly`, `GatesAreOne` are about one
  decision. Haircuts only take away (`HaircutsTake`, three products bounded one after
  the other), and a maker inherits the vetoes of its side's taker. `GatesAreOne` is an
  equivalence: the first five gates pass what the log calls a BET or REVIEW and nothing
  else, and the survey accepts what they pass with confidence and nothing else.
- `SelectionInvariant`: `SInv`, behind `MarksAreTrue`. With one cycle a market has
  one open position at most, the cycle knows whether the position of this
  evaluation is there (`CycleKnows`), and a row marked as blocked has none
  (`BlockedHasNone`), since an evaluation's number is not used again.
- `DayInvariant`: `SInv /\ TInv`, behind `TypeCorrect`, `TakersArePaid`, `GatesAreOneSet`
  and `OutcomesAlwaysAgree`. `TInv` keeps the decision at hand as what the fill layer
  returned on the book and forecast at hand, and each resolved row as the one its
  day's stored high decides (`RowIs`): a high that is saved is never fetched again.
- `SelectionIsSound`, from `GreedyIsSound`: the selection's recursion is followed one
  candidate at a time (`OfferOK`). Markets of equal EV may be ranked in any order
  (`Rankings`), since the code's sort leaves them as the query gave them. That the newest
  decisions are priced from 0 to 100 cents is part of `LatestOK`. Of the fill layer's gates it
  is about the first five; the sixth, the city's cap, the survey does not count.

The assumptions on constants are named `...Assumption` in the module that declares them;
TLC evaluates them in every run.

Model-checked only:

- the four runs that expect a violation, and
- `CyclesKeepStarting`, `FirstPositionSettles`, `Requalifies`: liveness under fairness, out
  of this prover's reach.

## 5. What the runs found

- *Second contract* (`one_contract`). `create_order` raises after the exchange
  executed the order; the row is `ERROR`, which the duplicate gate leaves out,
  and the shadow rows are rolled back. The next cycle buys again. The header of
  `live_execution.py` promises one contract per market per day.
- *Sale of nothing* (`sells_owned`). A canceled order counts as held, stays in
  the shadow book, and an EXIT sells it.
- *Lock race* (`two_schedulers`). Between `stat` and `rm -rf` the directory may
  have become someone else's.
- *No kill of a hung cycle* (`hung_cycle`). The killing branch of the watchdog
  requires that a cycle ended within the slot or shortly before it; a hung
  cycle prevents just that.

Disagreements between code and documents that no run of their own reports. Those of the
first group are behaviours the models have, named where a passing property stops short
of the document:

- *Second sale.* A sell order whose answer is lost leaves `CLOSE_ERROR`, which the check for
  an earlier close does not count (`tools/run_city_cycle.py:116-120`), and the next EXIT sells
  again what is sold, though the docstring calls the step idempotent (line 77). `ClosedOnce`
  is of answered closes; `SellsOnlyWhatItOwns` fails on this order of events as well.
- *City cap and second bet.* Gate 6 counts and looks in one transaction and the position is
  saved in another (`engines/shadow.py:141-146`, 195), with a save that replaces. When the
  morning cycle overlaps a primary, both may count below the cap and both save, or both find
  the same market free and the second position replaces the first, although "re-betting the
  SAME market is still prevented" (line 138). `CityExposureBounded` has the one market more.
- *Cycles side by side.* "The lock file already prevents two cycles from overlapping"
  (`scripts/watchdog.sh:98-99`): `scripts/run_settlements_morning.sh:35` never looks at it. And
  among the wrapper's own, a start by hand at minute 14 whose survey ends at 31 loses its lock
  to the primary, whose own lock its exit then removes, so that the next start runs a second
  cycle (`SafeStarts` with 14 added).
- *Kill of a healthy cycle.* Stuck is a heartbeat older than 300 seconds
  (`scripts/watchdog.sh:141`) where a cycle has 900: one that was started by hand at minute 2 or
  18 after a cycle that ended lately is killed at the watchdog's minute. Five seconds later the
  watchdog removes the lock directory, by then perhaps that of a job started at minute 8 or 38
  (`kickstart` has both; `RunnerHoldsLock` does not hold there).
- *Review.* "Bot does NOT auto-fill. Surfaced in report for human review."
  (`analytics/recommendation_log.py:68-69`): the log calls a decision REVIEW when model and market
  disagree by more than 0.30, the fill layer's limit is 0.99 (`engines/shadow.py:57`), so it is
  filled. `OneSetOfGates` has it: the gates pass what is a BET *or* REVIEW.
- *Full city.* The survey's report says that the bot will fill its selection
  (`tools/survey_opportunities.py:419-420`). The selection does not count the open markets of a
  city, and a market of tomorrow is decided as if nothing were open, so in world `full` it
  selects one that gate 6 refuses. `SelectionSound` is of the first five gates.
- *Pilot.* SHADOW_QUALIFIED to LIVE_PILOT "must also satisfy all Section 21 live gates"
  (`docs/kalshi_weather_architecture_spec.md:1462`); the ladder asks for none of them
  (`governance/qualification.py:298-309`).

The others are of single definitions:

- A measured zero counts as missing ("x or default", `analytics/qualification.py:187,205`): a
  total of exactly nothing takes the predicted EV for its score, and a cent of profit can cost
  LIVE_PILOT; a slippage of nothing counts as five cents. `BetterNeverDemotes` excepts the first.
- `MAKER_ONLY` is documented as "maker candidate positive ... but taker candidate not
  positive" (`docs/kalshi_weather_architecture_spec.md:1245`). The maker's reasons start
  from the taker's vetoes (`engines/decision.py:618`), so the branch at lines 768-774 is
  never taken (`NoMakerOnly`), and neither is the WATCH of lines 760-762.
- The regime multiplier of correlations never applies: the map of regimes holds the
  current city only (`engines/decision.py:156-188`), so every pair has an unknown side.
- The reason that a cycle notes for a decision that was not filled uses 8 degrees and 30
  points (`tools/run_city_cycle.py:735-755`) where the fill layer, "MUST match"
  (`engines/shadow.py:25`), uses 10 and 99. A noted reason may not be the cause.
- A recommendation for a market without a `-T` threshold is never resolved.
- Reports are not fetched again once a day has a high (`tools/fetch_settlements.py`): a
  correction never reaches the log. `OutcomesAgree` holds because of it.
- A book without offers prices a contract at a dollar, and a raised switch overrules every
  other branch: in both cases a held position is decided EXIT.
- A paper position whose save raised leaves its fill while its row is marked as blocked.
- The demotion for a negative paper EV cannot happen (`NeverDemotedForEv`).
- After a gap the stream waits for a snapshot it never asks for
  (`market/ws.py:84`); its specification asks for an immediate resubscription.
- The manual tool does not read the kill switch (`tools/prepare_live_plan.py:295`).

Others, seen while modelling and listed under `hazards`: handlers that read a
failed query as "no kill switch" and "nothing spent"; any close row of any day
makes a market unclosable after a re-entry; the lock of a primary that died at
its slot is 15 minutes old when the backup comes, one less than the TTL, so
the backup does not take over; the down flag is not cleared while cycles run
longer than eight minutes.

## 6. Plan

Next, in this order:

1. An abstract account of one market and day (untouched, held, closed, re-entered) that
   `TradingCycle` implements as long as the exchange's answers arrive, with the step part
   as a theorem from `TrackInv` and `CloseInv`.
2. `SelectionDay` composed with `TradingCycle`, so that what blocks an order is no longer open.

## 7. Not modelled

- *Forecast, nowcast, path, climatology*: numeric estimates over decimals and weather
  data. They keep no state; their results are inputs of `Decide`, over sets that hold
  both sides of each limit.
- *Calibration and provider statistics*: the reports are inputs of `Scorecard`.
- *Ingestion, domain models, reference data, parsers*: normalisation of text and JSON into
  data classes, and static tables.
- *Sports closer*: a second tool that shares only the client with the weather path. Its
  scan keeps no state that a later step depends on beyond its own log.
- *Replay, audit, dashboard, reports, host set-up*: they read, print, or are run by hand.
- *State store*: each operation is the atomic step a SQLite transaction makes it; the
  migrations and columns that decide nothing are left out.
- *Of modelled components*: `FORCE_RUN` and log rotation of the wrapper; request signing and
  the public endpoints of the clients; text patterns of the settlement parsers;
  `analytics/daily_selection.py`, a ranking for the report.
