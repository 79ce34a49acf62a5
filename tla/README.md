# TradeSync in TLA+

TLA+ models of the parts of TradeSync whose correctness rests on the order in which things happen: the path from a
scored symbol to a paper opportunity and from there to an order, the paper risk engine and its kill switch, the
paper account, the rulebook the scorer uses, the mobile notification outbox, the Rust alert router, the agents'
kill switch and the isolated signer. TLC checks each model on small instances, and TLAPS proves every safety
property and every refinement the runs check for every value of the constants. Every definition is translated from
the source; `PROJECT.json` gives the lines each one stands for.

- [The system](#the-system) is the inventory: components, their state, how they interact, what is hard.
- [Modules](#modules) says how each module's state and actions correspond to the code.
- [Runs](#runs), [Fairness](#fairness), [Proofs](#proofs) say what is established and under which assumptions.
- [Disagreements](#disagreements-between-code-and-text) lists where a comment or a document and the code differ.
- [Not modelled](#not-modelled) and [Plan](#plan) say what is left out and what comes next.

## The system

TradeSync is a set of services around PostgreSQL and Redis. `ingest-gateway`, `market-data`, `core-scorer` and
`fusion-engine` turn market data into scored opportunities. `state-api` serves the cockpit and holds nearly all
decisions: paper positions, risk controls, the paper account, the active rulebook, notifications, and the agents'
switch. `alert-router-rs` takes alerts from a Redis stream and fans them out. `exec-hl-svc` and `signer-svc` are
the (disabled by default) path to a real order. The libraries `tradesync_core` and `tradesync-contracts-rs` hold
the pure rules both sides use.

| Component | State | Operations | What is hard |
| --- | --- | --- | --- |
| Paper risk engine (`state-api/app/managed_paper.py`, `paper_*.py`, `tradesync_core/managed_paper.py`, `paper_kill.py`) | `managed_paper_positions`, `managed_paper_control`, `paper_kill_switch` and its events, `paper_reconciliation_runs` | open an entry, observe, close by hand, engage and resume the kill switch, pause and unpause, monitor tick, reconciliation run | rows and books are read outside transactions and used in them; two background loops and the routes write the same position; one advisory lock (230914) orders entries against controls |
| Paper account (`paper_account_store.py`, `paper_funding_store.py`, `paper_account_ledger.py`, `paper_funding.py`) | `paper_account`, `paper_account_ledger`, `managed_paper_funding` | settle hourly funding, book a close, correct it when funding comes late, record the peak, compare | booking may fail under a savepoint while its close commits; rates are fetched before the transaction that uses them; a peak is computed from two reads |
| Scorer and fusion engine (`core-scorer/app/regime_cycle.py`, `paper_producer.py`, `fusion-engine/app/*.py`) | `signals`, the stream `x:signals.funding` and its group, `opportunities` | judge a symbol, publish a signal, read a batch, recover, insert, acknowledge | at-least-once delivery, a batch abandoned half-way, recovery only at start, a duplicate check that races the stream |
| Execution path (`execute_routes.py`, `preview_routes.py`, `opportunity_lifecycle.py`, `exec-hl-svc`) | `opportunities.status`, `decisions`, `exec_orders`; idempotency keys, failure count and circuit flag in Redis | preview, execute, expire, place an order, open the circuit | no locks; get-then-set of an idempotency key; a call outlives the caller that gave up; errors cached for a day |
| Learning and the active rulebook (`rulebook_activation.py`, `learning_*.py`) | `learning_proposals`, `regime_weight_activations` | propose, adopt, reject, revert | READ COMMITTED transactions whose checks another commit overtakes; row locks and a unique index |
| Agent harness kill switch (`harness_control_*.py`, `hermes_harness_control.py`) | the control row and its audit; the host's state file | request a stop or a start, claim, run, report | lost replies, a state file that cannot be saved or is lost, a second host, results out of order |
| Mobile notifications (`state-api/app/mobile_*.py`) | `mobile_alert_outbox`, `mobile_alert_devices`, push subscriptions, tap tokens | produce, sweep, claim, attempt over two transports, record, confirm, acknowledge, tap | leases that lapse mid-attempt, a crash between call and outcome, an acceptance that cannot be written, bursts, ten-second ticks serving one row |
| Alert router (`alert-router-rs`, `tradesync-contracts-rs`) | streams `alerts:ingress`, `alerts:routed`, `alerts:dead-letter`; `data_event_registry`, `alert_events_v1` | POST an alert, consume a batch, record and fan out, announce, dead-letter, acknowledge | at-least-once delivery, the same event by two ways, a commit whose answer is lost, a connection that is opened once |
| Isolated signer (`signer-svc`, `tradesync_core/durable_journal.py`, `signer_boundary.py`) | the journal file, the set of spent approvals | start, sign | crashes and power cuts between write, sync, directory sync and signature |
| Exits, limits, economics, depth (`tradesync_core/paper_exits.py`, `paper_limits.py`, ...) | none: pure functions | which rule fires, how much a book fills | boundary comparisons |
| Hermes jobs (`hermes_jobs.py`) | none of its own | ask the Hermes API | model calls |
| Theses, editions, canvas | documents | assemble, insert | no state two steps share |
| Ingest, market data, backtest, discord, tools, cockpit | streams, caches | I/O and numerics | outside TLC's reach or without authoritative state |

How they meet. The state API's loops (observer, risk monitor, reconciliation, mobile worker, learning job, expiry
job) and its HTTP routes share one PostgreSQL and nothing else, so every interaction is a committed row or a lock.
An opportunity is `SignalFusion`'s last step and `ExecutionPath`'s and `PaperRisk`'s first. `PaperRisk` keeps of
the account only whether a close is booked, and `PaperAccount` models the booking; what the two say of a position is
one abstract specification, `PositionBook`, and both are shown to implement it. The alert router writes
`mobile_alert_outbox` rows that the mobile worker then serves; `MobileDelivery` has that write as an action
(`Route`), and `AlertRouter` models where it comes from. The risk engine's events reach the phone through the
mobile worker's producer (`Produce`). The signer trusts only its journal.

What makes each part correct, and what the properties below are aimed at:

- entries respect the cap, the pause, the kill switch and reconciliation *as committed*, not as read earlier;
- a kill closes what is open, is audited once under the right authority, and never loses a rule that fired first;
- a clean reconciliation stands for a ledger that has every close it saw, and an unbooked close stops entries;
- a position is charged exactly the funding of the hours it held, however late and in however many parts;
- a published signal becomes one opportunity, and a side has one live opportunity except by a race;
- a decision makes one order unless calls overlap, and the stored record invents none;
- the rulebooks made active form one chain, each adopted over the one it was compared with;
- a command to the agents' host runs once, and the sentence the operator reads is true of it;
- a notification is attempted as often as counted, ends, is acknowledged once, and its budget holds in a burst;
- an alert is acknowledged on the stream only when durable, announced once, and its outbox row agrees with it;
- an approval is signed against once, whatever crashes, unless a power cut loses a file that was synced.

## Modules

| Module | What it is | Proofs |
| --- | --- | --- |
| `PaperRisk` | the paper risk engine; `MCPaperRisk` its instances | `PaperRiskProofs` |
| `PaperAccount` | funding, booking, the peak and reconciliation; `MCPaperAccount` its instance | `PaperAccountProofs` |
| `PositionBook` | abstract: how a position opens, closes, waits for funding and is booked; `PaperRisk` and `PaperAccount` are shown to implement it | |
| `SignalFusion` | scorer, stream and fusion worker | `SignalFusionProofs` |
| `ExecutionPath` | preview, execute, expiry and the venue service; `MCExecutionPath` adds the symmetry | `OrderProofs` |
| `RulebookActivation` | proposals and activations | `RulebookProofs` |
| `HarnessControl` | the agents' kill switch, server and hosts | `HarnessControlProofs` |
| `MobileDelivery` | the notification outbox and its worker | `MobileDeliveryProofs` |
| `AlertRouter` | the Rust alert router; `MCAlertRouter` its instance | `AlertRouterProofs` |
| `SigningOnce` | abstract: what the signer promises of an approval | |
| `SignerJournal` | the journal and the signer, shown to implement `SigningOnce` | `OrderProofs` |

A transaction that takes its locks at the start is one action; whatever the code reads before it, awaits, or does
after it is an action of its own, and a transaction whose statements can see another one's commit in between is
cut at those statements. Variables called history record what happened and no action reads them.

### PaperRisk

A transaction is one step, except the entry transaction, which holds the entry lock from `EntryLock` through
`EntryAdmit` to `EntryCommit` or `EntryRefuse`; every other transaction that takes lock 230914 (`Engage`, `Resume`, the pauses, a
mismatch's `ReconRecord`) is enabled only while no entry holds it. What the code does outside a transaction is a
step of its own: `ObserverRead` and `KillRead` read a row and fetch a book, `MonitorRead` reads the standing kill,
`KillList` lists positions, `ReconSnapshot` takes the repeatable-read snapshot whose verdict `ReconRecord` stores
later. `Observe` and `KillWrite` are the transactions that lock the row again, advance it and store it, the ledger
booking, the funding verdict and the audit row included (`Store`, `RecordClose`).

`pos` is `position_state` reduced to status, units held, the exit owed and the exit recorded. `Advance`,
`FillExit`, `Fired` and `Labelled` are `tradesync_core.managed_paper` and `paper_kill` without prices: which natural
rule a quote fires and how many units a book fills are chosen freely. A book's time is its rank among books later
than `evaluated_through`; 0 is a duplicate or out-of-order book, which `advance` refuses. `breach` stands for the
daily-loss and drawdown limits. `fired` and `vouched` are history.

### PaperAccount

Time is the hour. `Observe` and `Kill` are the reads before the fetch (which hours have no row), `Fetch` is the
rates and the book, `StoreOpen` and `StoreClosed` are the transaction of one position: the observation, the funding
rows that are stored and read back, the closed event, and the booking under its savepoint. Positions are numbered in
the order of their creation, because a pass visits the `PassLimit` (20) oldest that are due and leaves the rest:
`older` counts the ones before these that a pass would visit first, which come and go as they like (`Others`), and
`Crowded` says that a position is left. `Booked` is
`book_position`: the account made if there is none, the realised entry once, and an adjustment for what the ledger
has not charged yet. A fault lets a fetch, a settlement or a booking fail on its own; `Abandon` loses the whole
transaction. The monitor is two actions, `LockAccount` and `RecordPeak`, because it locks the account's row first
and reads the positions after. `Disagrees` is what reconciliation compares. A mark stands for the price, the fees
and the slippage; part fills are `PaperRisk`'s. Money is integers, and what a ledger or a position adds up to is a
sum over a set of entries or hours (`SumFunctionOnSet` of the community modules), so `PositionsAssumption` says
that positions are finitely many.

### PositionBook

`PaperRisk` knows of a close only whether it is booked and whether its funding is complete, both chosen freely;
`PaperAccount` knows the ledger and the hours, but neither part fills nor how a kill competes with entries. What they
share is `PositionBook`: a position enters once and closes once; it is booked when it closes, or when funding that
was missing is settled, or never; nothing booked or settled is taken back. The engine's `booked` and `awaiting`
are its variables of those names; the account maps them to the positions with a realised entry and the closed
positions with an hour not yet settled. So what the engine assumes of bookings is what the account does. A consequence is
`LeftUnbooked`: a booking that failed when all funding was in is not retried by anything
(`paper_account_store.book_position_safely` leaves it to reconciliation to report).

### SignalFusion

Time is the scoring cycle. `Admit` stores a verdict past its threshold, or past the deadband on a side that is held
(`Held`); `Check` asks for a live opportunity, `Publish` appends to the stream. The worker starts by claiming what
was idle long enough (`Scan`), then reads batches (`Poll`); `Insert` is the insert with its conflict clause and
`Ack` the XACK. `BatchFails` is any exception, which abandons the rest of the batch, and the two crashes restart a
service. The group's position and pending list are Redis's and external. `signals` holds admitted verdicts only,
since nothing here reads the others.

### ExecutionPath

Preview is a check, an insert and an update without a transaction; execute looks for a stored order (`Execute`), reads
the decision (`ReadDecision`), and after another query judges it and calls the venue service (`Check`), a call
of at most five seconds; an insert follows, and an update if an order was placed. The call is a process of its own (`call`)
that goes on when its caller gave up or died: it reads its key, reads the circuit, does the preflight and the dry
run's order, counts the outcome, perhaps sets the flag, and stores the answer under its key. `CallFails` ends it
anywhere. `overlaps`, `errors` and `torn` are history that the bounds are stated in.

### RulebookActivation

A rulebook is named by the proposal that carries it, and 0 is the file. The learning job reads the active rulebook
(`BeginPass`), and much later stores a proposal built on it (`StoreProposal`), superseding the open one. An
adoption locks its proposal, checks its parent (`CheckParent`), selects the open activation (`Aim`), gets that
row's lock or finds it closed (`Close`), and inserts its own if the unique index lets it (`CommitAdopt`); a revert
begins at `Aim`. Each is a statement with its own snapshot, as READ COMMITTED has it. `Rollback` is a lost
connection or a stop at any point. `log` is history: the committed changes in order.

### HarnessControl

Commands are numbered by request. The server's routes are one action each, with the verdicts of
`harness_control_rules`. A host makes passes: `Interrupt` settles what it had begun before it stopped, `Deliver`
reports results, `Fetch` asks for the command, `Claim` asks for leave, `Begin` writes it to the state file, `Run`
runs it, `Observe` records what the unit became. Every request's answer may be lost after the server acted, every
save may fail with the memory changed, and a host may stop anywhere, its file with it. The gateway's unit is
external and may be in any state. Task Scheduler restarts one host; another may be run by hand.

### MobileDelivery

One worker loop wakes every `Period`: `Produce` queues what is new or records it as dropped, `Claim` sweeps (both
statements) and claims the oldest row, `Check` asks the phone again, `Issue` chooses the transport and replaces the
tap token, `SendNtfy` or `SendWebPush` calls the provider, `StoreResults` marks browsers that are gone, `Record`
writes the outcome by id. A statement after the call may fail, and the worker then records a failure for the row's id
whatever its status: `StoreResultsLost` is one that fails before an outcome was written, and `AcceptanceLost` an
acceptance that was committed and whose reply was lost, so that the worker will make a failure of an accepted
row, confirmed by then perhaps (`Reviving`). `Crash` is a stop or an error anywhere.
Everything the operator and the phone can do interleaves: `SendTest`, `Confirm`, `Acknowledge`, `Tap`,
preferences, disabling, subscribing; and the alert router's rows arrive (`Route`). A row holds what is left of
its deadlines rather than the deadlines, so time needs no global clock; `Pass` is one unit. `phone`, `calls` and
`taps` are history. Tokens are named by the attempt that issued them.

### AlertRouter

The consumer task and each HTTP request run `accept_event`: `Judge` is `validate` and `route_decision`, which read
the clock before the database's lock is waited for; `Duplicate`, `Record` and `StoreFails` are the outcomes of the
transaction; `Publish` is the XADD whose failure is only reported. The consumer adds `Read` (XREADGROUP with `>`, whose reply may be
lost after Redis delivered the entries), `Take`, `Refuse` (the dead letter) and `Ack`, whose failure abandons the
rest of the batch. `LoseConnection` and `Restart` are the process's failures. Redis and PostgreSQL are external and
modelled by what the code relies on: the group's position, the pending-entries list, unique keys, all-or-nothing
transactions. An event's class (`Classes`) is `plain`, `restricted`, `refused` (by the contract or not JSON), `overfull`
(too many references or attributes, which the contract looks at after the expiry: such an event is recorded as
expired once it is late), or `unstorable`: the contract passes it and the table never takes it. The table limits the
length of `event_id`, `project`, `source`, `category` and `dedupe_key` and wants an expiry after the creation,
the contract neither. An event_id stands for one payload, sent any number of times.

### SignerJournal and SigningOnce

`append` is four steps, `Open` (with the cut of a torn tail), `Write`, `Sync` and `Link` (the directory), each of
which can fail, the file having been created perhaps (`Made`); `Sign` follows. `cache` is the file as the operating system shows it and `disk` what was synced.
`Restart` keeps `cache`, with a line torn if the process stopped while writing; `PowerCut` keeps what was synced
and any part of the rest, and with `Loses` may lose a file whose directory entry was not synced. The new process loads the journal as
the module's start-up does and distrusts a malformed line before the tail. `/sign` handles a request without
giving up the event loop, so requests do not interleave. `SigningOnce` says only that an approval is burned for
good before it is signed against, and signed against once; the mapping takes as burned the approvals on whole,
synced lines of a file that no power cut can lose.


## Runs

`CHECK_DEADLOCK FALSE` is said only where the system really may stop: `AlertRouter` when its consumer waits for
entries nobody sends, `SignerJournal` when every approval is spent, and the four modules whose clock, commands,
calls or proposals are numbered and used up (`PaperAccount`, `SignalFusion`, `ExecutionPath`,
`RulebookActivation`) or whose last command is settled (`HarnessControl`). `PaperRisk` and `MobileDelivery` have
loops that always go on, so there TLC checks for deadlock too.

| Run | Checks | Shows |
| --- | --- | --- |
| `risk_kill` | `KillAuditedOnce`, `NaturalRuleKept`, `KillExitFrozen` | one position of two units (so exits fill in parts), two kills, the monitor, the observer and the close route: the exit keeps the rule that fired first and the kill that owed it, and is audited once |
| `risk_entry` | `PortfolioCap`, `EntrySeesControls` | two opportunities race for a cap of one, with kill, pauses, breaches and runs passing through the lock |
| `risk_live` | `CleanRunVouches`, `KillDrains`, `UnbookedStopsEntries` | failing bookings, late funding, stale snapshots and a restart: a clean run never stands for a missing booking it could see, an unbooked close stops entries, and under fairness a kill drains its position |
| `account_book` | `ChargedExactly`, `CleanMeansTrue`, `LeftOutWasLost`, `PeakWasReached`, `KeepsBook`, `LateFundingSettles` | hours published before, between and after observation and close, with up to two fetches, settlements, bookings or transactions failing: what was charged is what was settled, a clean comparison means the cash is right, a peak was a worth the account had, the account implements `PositionBook`, and late funding arrives unless older positions keep filling the pass |
| `fusion_stream` | `UnstoredStaysPending`, `DoublesRaced`, `HeldSideWasEarned`, `PublishedIsStored` | three cycles of one symbol on two sides, through the stream and the worker, with one failure or crash anywhere |
| `exec_orders` | `SecondOrderOverlaps`, `RecordIsVenues`, `FailuresBounded` | two handlers on two opportunities while calls time out, fail, stop or outlive their callers: when a second order can be made, what the stored record stands for, how often a failing venue is asked |
| `rulebook_learning` | `ChangesChain`, `AdoptedOverParent`, `RevertUndoesAdoption`, `RequestsEnd` | two operator requests adopt, reject and revert while the learning job proposes: one chain of changes, adoption and revert mean what they say unless a revert raced them, and nobody waits for ever |
| `harness_switch` | `RunsOnce`, `AgreedStop`, `LastCommandSettles` | two hosts poll for stops and starts through a lost reply, a failed save, a restart or a lost state file |
| `mobile_outbox` | `CallsCounted`, `DeadLetterEarned`, `BudgetHeld`, `RevivedOnlyByLostReply` | two rows through lapsed leases, a crash or a lost reply, retries, a burst over the budget and a changed preference: attempts and budget hold, and only an acceptance whose reply is lost brings a finished row back |
| `mobile_live` | `TapsSingleUse`, `EveryRowSettles` | one row, two browsers and ntfy, every tap the phone can make: a notification is acknowledged by one tap, and the row settles although the worker crashes or loses a reply and the phone is disabled, quiet or opted out |
| `router_ingest` | `AckedIsDurable`, `RoutedAtMostOnce`, `FanoutMatches`, `StrandedOnlyByFailure` | two events of one dedupe key, a restricted one, an overfull one and one that only the table refuses, by stream and HTTP, with one failure anywhere |
| `signer_crash` | `StaysReadable`, `SignsOnce` | three crashes or power cuts and two failures, from the journal's first append or later, no synced file being lost: the journal never distrusts itself, and the signer implements `SigningOnce` |

The modules' type invariants, a few of their safety properties (`KilledMeansPaused`, `AttemptOwnsRow`, `FirstAckKept`,
`SignedOnce`, `OnePerSignal`, `NeverRevived`, `StatusForward`, `DecidedOnce`, `CurrentResultShown`) and
`PaperRisk!KeepsBook` are proved for every instance and so not checked again by a run. `PaperAccount!TypeOK` says
also that no hour is settled that its position was not observed to hold.

Why the bounds are enough.

- *Paper risk.* The hazards need at most two opportunities (the cap and the symbol rule relate pairs), two workers
  on a position with books of two different ages, two kills (one to freeze, one to try to rename) and one restart;
  each dimension is open in the run whose property depends on it and closed in the others.
- *Paper account.* One position, since positions meet only in sums and in the limit of a pass, and a limit of one, which
  `older` reaches or not at any moment; two hours of opposite sign, so one can be settled
  before the close and one after, or both after; two faults (a booking that fails, and what should make up for it). One
  mark, since what a position is marked at decides nothing; its worth falls and rises by what it pays and is paid.
  `Capital` is more than a position can lose.
- *Fusion.* Two sides of one symbol (symbols meet only in batches), three signals in four cycles with a hold and a
  term of two, so that each can lapse and be renewed; entries that become idle after one cycle; one fault.
- *Execution.* A threshold of one, two handlers, three calls and two orders: a second order needs two calls, an
  error past the threshold a third. Handlers and opportunities are interchangeable (`Symmetry`; the run has no
  liveness property).
- *Rulebooks.* Four proposals and four changes: an adoption, its revert and one of each to race them.
- *Harness.* Two commands (one to overtake the other), two hosts, one fault; a state file that keeps one record.
- *Mobile.* The hazards are about one row, except the queue and the budget, for which two suffice; a crash, a
  changed preference and a lapsed lease are each needed once before a property would fail.
- *Router.* One failure, two entries (a duplicate, or two of a key) and one competing request. No event of the run is of
  class `refused`: an overfull one is treated alike until it is late.
- *Signer.* Two power cuts or crashes to lose a record, three to do so after a torn line.

No passing run has a state constraint; counters are bounded in the guards by the constants above. The proofs hold
for every value of these constants.

## Fairness

- `PaperRisk!Fairness`: the background loops run for ever and catch what fails (`paper_risk_monitor.loop`,
  `paper_reconciliation_runner.loop`), hence weak fairness of the monitor's and reconciliation's steps. Strong
  fairness is assumed of the outside: again and again a book newer than the last evaluated arrives
  (`FreshRead`) with some depth (`SomeFill`) that the observer does not overtake, a run can read the database
  (`ReadableRun`), and lock 230914 is granted to a waiter (`ReconRecord`), PostgreSQL queueing waiters. Nothing is
  assumed of entries, of the operator, of the observer, whose limit of 20 positions is thereby covered, or of routes.
- `PaperAccount!FairSpec`: the observer's loop never stops (`managed_paper.py`, `loop`), so a pass starts, visits
  the oldest positions that are due, up to its limit, and ends (weak fairness of `StartPass`, `Observe`, `Fetch`,
  `Outdated`). To a position that stays crowded out `LateFundingSettles` promises nothing (`[]~Crowded(p)`). The
  transactions that wait for the account's row get it (strong fairness of `StoreClosed` and the observer's
  `StoreOpen`), and the monitor ends what it began. Neither time nor publication is assumed to go on.
- `SignalFusion!FairSpec`: the worker's loop goes on and its container restarts (`restart: unless-stopped`). Nothing
  is assumed of the scorer or the clock.
- `RulebookActivation!FairSpec`: PostgreSQL executes the statements of a request and grants a lock to its waiters in
  order (strong fairness of each request's `Step`). Nothing is assumed of the operator or the learning job.
- `HarnessControl!FairSpec`: Task Scheduler starts its host again within five minutes and the host makes its passes;
  nobody keeps another host going. Faults are bounded, so that a lost reply is not lost for ever.
- `MobileDelivery!FairSpec`: the worker's loop catches what an attempt raises, sleeps and ticks again, every
  provider call has a timeout, and time passes. The operator, the phone and the router owe nothing.

## Proofs

TLAPS proves the following for every value of the constants that satisfies the modules' named assumptions, with no
bound on positions, workers, rows, handlers, hosts, requests, crashes or failures.

| Theorem | Statement |
| --- | --- |
| `PaperRiskProofs!TypeCorrect` | `Spec => []TypeOK` |
| `PaperRiskProofs!CapHolds` | `Spec => []PortfolioCap` |
| `PaperRiskProofs!KilledIsPaused` | `Spec => []KilledMeansPaused` |
| `PaperRiskProofs!EntriesSeeControls` | `Spec => EntrySeesControls` |
| `PaperRiskProofs!KillClosesAuditedOnce` | `Spec => []KillAuditedOnce` |
| `PaperRiskProofs!NaturalRulesKept` | `Spec => []NaturalRuleKept` |
| `PaperRiskProofs!KillExitsFrozen` | `Spec => KillExitFrozen` |
| `PaperRiskProofs!CleanRunsVouch` | `Spec => []CleanRunVouches` |
| `PaperRiskProofs!EngineKeepsBook` | `Spec => KeepsBook` |
| `PaperAccountProofs!TypeCorrect` | `Spec => []TypeOK` |
| `PaperAccountProofs!ChargesExactly` | `Spec => []ChargedExactly` |
| `PaperAccountProofs!LeavesOutLost` | `Spec => []LeftOutWasLost` |
| `PaperAccountProofs!CleanIsTrue` | `Spec => []CleanMeansTrue` |
| `PaperAccountProofs!PeaksAreReached` | `Spec => PeakWasReached` |
| `PaperAccountProofs!AccountKeepsBook` | `Spec => KeepsBook` |
| `PaperAccountProofs!UnbookedStays` | `Spec => []Promised!BookedIsClosed /\ Promised!LeftUnbooked` |
| `SignalFusionProofs!FusionTyped` | `Spec => []TypeOK` |
| `SignalFusionProofs!NothingDeliveredIsLost` | `Spec => []UnstoredStaysPending` |
| `SignalFusionProofs!OneOpportunityPerSignal` | `Spec => []OnePerSignal` |
| `SignalFusionProofs!OpportunitiesKeepTheirTerm` | `Spec => NeverRevived` |
| `SignalFusionProofs!DoubledSidesRaced` | `Spec => []DoublesRaced` |
| `SignalFusionProofs!HeldSidesWereEarned` | `Spec => []HeldSideWasEarned` |
| `OrderProofs!PathTyped` | `Spec => []TypeOK` |
| `OrderProofs!SecondOrdersOverlapped` | `Spec => []SecondOrderOverlaps` |
| `OrderProofs!RecordIsTheVenues` | `Spec => []RecordIsVenues` |
| `OrderProofs!FailuresStayBounded` | `Spec => []FailuresBounded` |
| `OrderProofs!StatusOnlyForward` | `Spec => StatusForward` |
| `RulebookProofs!RulebooksTyped` | `Spec => []TypeOK` |
| `RulebookProofs!ChangesFormAChain` | `Spec => []ChangesChain` |
| `RulebookProofs!AdoptionsOverParent` | `Spec => []AdoptedOverParent` |
| `RulebookProofs!RevertsUndoAdoptions` | `Spec => []RevertUndoesAdoption` |
| `RulebookProofs!ProposalsDecidedOnce` | `Spec => DecidedOnce` |
| `HarnessControlProofs!ControlTyped` | `Spec => []TypeOK` |
| `HarnessControlProofs!CommandsRunOnce` | `Spec => []RunsOnce` |
| `HarnessControlProofs!CurrentResultStays` | `Spec => []CurrentResultShown` |
| `HarnessControlProofs!AgreedStopsHappened` | `Spec => []AgreedStop` |
| `MobileDeliveryProofs!OutboxTyped` | `Spec => []TypeOK` |
| `MobileDeliveryProofs!AttemptsOwnTheirRow` | `Spec => []AttemptOwnsRow` |
| `MobileDeliveryProofs!CallsAreCounted` | `Spec => []CallsCounted` |
| `MobileDeliveryProofs!DeadLettersEarned` | `Spec => []DeadLetterEarned` |
| `MobileDeliveryProofs!TapsUsedOnce` | `Spec => []TapsSingleUse` |
| `MobileDeliveryProofs!BudgetNeverPassed` | `Spec => []BudgetHeld` |
| `MobileDeliveryProofs!RevivedOnlyByLostReplies` | `Spec => RevivedOnlyByLostReply` |
| `MobileDeliveryProofs!FirstAcknowledgementKept` | `Spec => FirstAckKept` |
| `AlertRouterProofs!TypeCorrect` | `Spec => []TypeOK` |
| `AlertRouterProofs!AcknowledgedIsDurable` | `Spec => []AckedIsDurable` |
| `AlertRouterProofs!AnnouncedOnce` | `Spec => []RoutedAtMostOnce` |
| `AlertRouterProofs!OutboxMatchesEvents` | `Spec => []FanoutMatches` |
| `AlertRouterProofs!StrandedOnlyWhenFailed` | `Spec => []StrandedOnlyByFailure` |
| `OrderProofs!SignerTyped` | `SignerSpec => []SignerTypeOK` |
| `OrderProofs!JournalTrusted` | `SignerSpec => []StaysReadable` |
| `OrderProofs!NoReplay` | `SignerSpec => []SignedOnce`, assuming `~Loses` |
| `OrderProofs!ImplementsSigningOnce` | `SignerSpec => SignsOnce`, assuming `~Loses` |

The arguments:

- **Entries.** The cap is not inductive: an entry that was admitted must find the count it was admitted on. `EntryInv` adds
  `AdmittedHolds`, which says that while an admitted entry holds the lock everything it was admitted on is still
  true; it is preserved because only holders of the lock raise a control, and because nothing but an entry opens
  a position. The cap then follows from cardinalities of finite sets.
- **Exits.** `ExitInv` relates, position by position, the exit owed or recorded, the first natural rule that fired, the
  audit rows, and the authority a killing worker carries. A step touches at most one position, and either an
  observer or a killer does, so one lemma about `FillExit` and `Labelled` serves every action.
- **Clean runs.** A run's verdict is stored later than the snapshot it is about. `CleanInv` adds that a snapshot found clean and
  not stored yet saw only closes that are booked; bookings are never taken back, so they still are when the verdict
  is stored.
- **Account.** Money is a sum over a set that grows, shrinks and changes one element at a time, so the module first proves what
  such sums obey: the recursion has a solution, and two solutions agree. Both are shown for the smallest set that
  would fail, since well-foundedness of `<` is at hand where induction over an operator is not. `AppendedSums` then says what one
  entry adds, and `RealisedBook` and `AdjustedBook` what booking does: afterwards the position has one realised entry,
  its close's, and is charged what it settled; nothing else changes. `Inv` says of each position that its entry, if it has one, is
  its close's (`Kept`), that it was charged its funding unless it is behind, and what it left out; of the account
  that its cash is the capital and what the ledger's entries make (`CashIsTrue`); of the monitor that the cash it
  read is the account's while it holds the row (`MonitorIsTrue`), because a booking needs that row. When
  comparison finds nothing, each position made what its close and its adjustments imply, and the sum is the worth.
- **Position book.** Each step of either model touches at most one position. For the account, `Moves` names the four things
  it can do; the step that settles funding after a close is `Settle` because it stores an hour that had no row, and
  `UsesItsRows` says that such an hour was not in use, so the position was waiting.
- **Fusion.** `PendingInv` adds that an entry about to be acknowledged is stored. `DoublesInv` adds that a published signal
  was checked: whatever its check saw of its side has expired by now, and the clock does not go back, so a second
  live opportunity can only be one the check could not see. `HeldSideWasEarned` is itself inductive: an admission past the
  deadband follows one of the same side within the hold, whose own chain it prolongs.
- **Execution.** `OrdersInv` counts, decision by decision, the orders kept and the calls that may still keep one (those past
  their look at the key, or before it while there is no key); both together are at most one more than the calls that
  began during another. `FailuresInv` counts errors against the calls about to open the circuit while it is closed,
  and against the calls that found it closed while it is open. `RecordInv` follows an answer from the call that made it
  to the row: whatever says placed carries an order the venue kept.
- **Rulebooks.** `Typed` includes the locks: a request about to write holds the row it closes, no other does, at most one row
  is open, and an adoption holds its proposal, the only open one. Hence only a revert can change what is active under
  an adoption, which is what `AdoptInv` says of one that was not raced. `ChainInv` links the log to the open row, and `WasInv`
  says that every rulebook named anywhere was adopted before, which is why a revert finds the adoption it undoes.
- **Harness.** `ClaimsOK` says that the server granted the claim of a command that a host holds or has run, that one host holds
  it, and that a holder that has not run it finds no run of it. `RecordsOK` and `ResultOK` say that a result `applied`, in
  memory, on disk or at the server, is of a command whose state a host saw.
- **Mobile.** `RowInv` bounds, row by row, the calls by the attempts counted, the tokens shown by those attempts, and the taps
  taken by the tokens shown that the row no longer stores. `AttemptInv` says that the attempt in hand is the last one
  counted and not yet sent, so sending cannot pass the count, and that its row is claimed, or was accepted by this very
  attempt whose failure is still to be recorded (`AttemptOwnsRow`): hence a finished row meets no other writer than
  that one. The retry ladder is a recursive function (`Doubling`), and
  that it has values, natural ones, is shown for the least number that would fail.
- **Router.** `TakenInv` strengthens the types by where the consumer's entry is: delivered, no longer in the batch, and that of
  its event. `AckEarned` says that before an acknowledgement the event is recorded or the entry dead-lettered; records and
  dead letters are never taken back, and an entry leaves the pending list only by `Ack`. `OneAnnouncer` says that
  a worker about to announce is alone with its event and the event was never announced, since it comes there only
  by recording it, and what is announced is recorded. `FanInv` adds that a
  worker about to store an alert as queued does not hold a restricted event, which it decided before the transaction, nor
  an overfull one, which the contract passes only when it is late and so never to be queued.
  `StrandedInv` adds which events each stage of the consumer can hold (`Placed`: one the table refuses is never recorded,
  so never about to be acknowledged) and that, while nothing has failed, the connection is up and the entry in the
  consumer's hands is pending (`Held`); every step that leaves an entry behind counts a failure.
- **Signer.** `Sound` keeps both copies of the journal readable and the synced whole lines at the front of the file;
  `OnceInv` adds that whatever was signed is burned in memory and on whole, synced lines, and that nothing about to
  be signed was signed before. No step takes back a burned approval (`DiskGrows`), which is also the step
  simulation of the refinement. The hypothesis `~Loses`, that a power cut does not lose a synced file
  with its directory entry, is necessary (see disagreement 5 below).

What stays with TLC is all liveness (`KillDrains`, `UnbookedStopsEntries`, `LateFundingSettles`, `PublishedIsStored`,
`RequestsEnd`, `LastCommandSettles`, `EveryRowSettles`), which rests on fairness and `ENABLED` and is beyond TLAPS's
backends here. Every other property of a run is a theorem.

## Disagreements between code and text

Met while translating. The properties above say what the code does; these are the sentences it does not live up to.

1. The risk monitor reads the standing kill before it lists and prices positions (`paper_risk_monitor.py:30`), so a
   position opened after a resume can be closed under the kill that was cleared.
2. The retry ladder fits the expiry for one row (`mobile_delivery.py:9`) but not for a burst: a tick serves one row
   every ten seconds (`mobile_alerts.py:226`), so with fourteen failing rows some expire with attempts left.
3. `docs/README.md:28` credits the alert router with Redis consumer recovery, but its consumer reads only new entries
   (`alert-router-rs/src/lib.rs:269`), and after a restart under a new name (`main.rs:97`), so an entry left pending
   stays so. `StrandedOnlyByFailure` says how one gets there.
4. The contract and the table disagree. The contract lets through an expired event whose expiry is not after its creation
   (`lib.rs:211`) and looks only for emptiness of `event_id`, `project`, `source`, `category` and `dedupe_key`
   (`tradesync-contracts-rs/src/lib.rs:89-101`); the table refuses the former (migration 039 line 90) and limits the
   length of the latter (lines 8 and 66-76). Such an event is neither recorded nor dead-lettered nor
   acknowledged, although nothing failed: the class `unstorable`, event `o` of `router_ingest`.
5. The signer's journal syncs the directory only in the append that created the file (`durable_journal.py:74`); if that one
   stops in between, no later append does it, and a power cut may lose signed records. `Loses` in `SignerJournal`.
6. Closed positions "keep settling for a day after exit" (`docs/changes/2026-09-15_managed-paper-positions.md:62`), but
   a close that stores its funding rows and cannot read them back records none of them in the position, and no later pass
   does, since the rows are there. `lost` in `PaperAccount`.
7. "On restart, consumer groups reclaim pending messages" (`DATA_AND_KNOWLEDGE_PLANE.md:53`): the fusion worker reclaims
   only at start, and only what was idle for a minute (`redis_client.py:89`), so a quick restart leaves entries
   pending. `cut` in `SignalFusion`.
8. "A proposal built on a rulebook that is no longer active is refused" (`rulebook_activation.py:9-10`): not when a revert
   commits between the comparison and the close (`rulebook_activation.py:113`). `raced` in `RulebookActivation`.
9. "A failure waits" before the next attempt, and a row is given up on because "the provider refused in a way that will not
   change [...] or the attempt limit ran out" (`mobile_delivery.py:7,13-15`). An acceptance that commits and whose reply is lost
   raises into the branch that records a failure (`mobile_dispatch.py:52-58`) by id alone (`mobile_delivery.py:126`), so a
   row that was accepted, and confirmed or acknowledged since perhaps, is sent again or dead-lettered.
   `AcceptanceLost` in `MobileDelivery`.
10. "The observer advances open positions on fresh books every 15 seconds" (`managed_paper.py:5-6`), and closed ones settle "for a
    day after exit" (line 220): the pass takes the 20 oldest due positions (line 223), so with more of them the newer
    ones wait, perhaps past their day. `Crowded` in `PaperAccount`.

## Not modelled

- *Paper risk and account*: prices, quantities beyond units, the arithmetic of limits and exits, fees and slippage inside
  a mark; in `PaperAccount` the part fills that `PaperRisk` has, and in `PaperRisk` the ledger that `PaperAccount` has, so that
  there a mismatch is a close that is not booked: reconciliation's other comparisons (events, balances, peaks, adjustments)
  are not in it.
  Exits, limits and depth are pure functions, best checked over bounded inputs (see the plan).
- *Scorer and fusion*: the scores; the legacy event path and the migration of its group; the rows of refused verdicts;
  retention and outcome jobs.
- *Execution*: the risk rules other than the ones that end a preview, the live order (disabled), the fills.
- *Rulebooks*: the contents of a rulebook and the checks of its evidence, so also the fallback to the file when the stored
  active rulebook turns out invalid (`rulebook_activation.py:65-68`); the status in `regime_rulebooks`; the learning job's
  own statistics. A rulebook is named by its proposal.
- *Harness*: waiting limits of a command, the token, redaction of the host's output; a server that forgot a command
  (`hermes_harness_control.py:136`: a database restored from before the request), whose result then stays with the host.
- *Mobile*: enrolment and more than one phone, message texts; re-subscription of a browser during an attempt
  (`mobile_web_push_sender.py:153`), which marks it gone: `subs` is only what the attempt finds.
- *Router and signer*: HTTP validation, tokens, rate limits; a `MAXLEN` trim of the streams; the signature itself; storage that
  reorders writes within a file or drops data after a failed `fsync`.
- *Hermes jobs*: calls to a language model's API without state of their own.
- *Theses, editions, canvas and evidence*: documents assembled from snapshots and inserted; no two steps share state.
- *Ingest, market data, backtests, discord reader, tools*: numerics and I/O without authoritative state.
- *Cockpit*: presentation.

## Plan

1. `PaperExits`: exit rules, limits and depth fills as operators over bounded prices, checked against a reference
   definition; the monotonicity lemmas proved.
2. The opportunity's life across `SignalFusion`, `ExecutionPath` and `PaperRisk` in one composed module, for the expiry job
   against a preview and an entry at once.
