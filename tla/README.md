# TLA+ verification of TSX Core

TSX Core receives messages of Telegram channels, forwards or parses them into
trading signals, publishes the signals to Telegram and to exchange accounts, and
keeps every step in one SQLite database so that it survives a crash. The
difficult part is the same everywhere: an effect outside the process (a Telegram
message, an exchange order, a file, an archive) and its record in the database
cannot be one atomic step, and yet nothing may be sent twice, lost, or taken for
harmless when it is not. These modules model that control flow, TLC checks it on
small instances, and TLAPS proves the central guarantees for every instance.

Source paths below are relative to the backend directory `src/` unless they start
with `exchange_executor/`, `frontend/`, `services/` or `docs/`.

## 1. The system and its parts

| Part | Source | Modelled in |
|---|---|---|
| Ingress: inbox, albums, routing, deduplication | `incoming_work_repository.ts`, `forwarder.ts` | `Ingress` |
| Signal parser and AI budget | `signal_*.ts`, `ai_usage_reservations.ts`, `db.ts` | `SignalParser` |
| Durable outbox | `db.ts`, `forwarder.ts` | `Outbox`; its promise in `Delivery` |
| Scheduler and queue | `outbox_scheduler.ts`, `queue.ts` | `OutboxScheduler` |
| Delivery confirmations | `delivery_tracker.ts` | `DeliveryTracker` |
| Entry dispatch and account fallback | `trading_engine.ts`, `trading_recovery.ts`, `workflow_repository.ts`, ... | `EntryDispatch` |
| Order evidence | `trading_state_transitions.ts`, `trading_order_repository.ts` | `StateTransitions`, `OrderEvidence` |
| Protection of a position | `trading_engine.ts`, `trading_protection*.ts`, `trading_emergency.ts`, `trading_take_profit.ts` | `Protection` |
| Order planning | `trading_risk.ts`, `trading_leverage_tiers.ts` | `TradingPlan` |
| Adaptive and daily risk | `trading_channel_risk.ts`, `trading_risk_admission.ts` | `AdaptiveRisk`, `DailyRisk` |
| Money ledger | `trading_money_ledger.ts` | `MoneyLedger` |
| Event stream, fill history | `exchange_executor/stream_hub.py`, `hyperliquid_retention.py`, `history_pagination.py`, `trading_runtime.ts` | `ExchangeStream`, `History` |
| Proof behind a release | `trading_safety_proof.ts` | `SafetyProof` |
| Simulated venue | `paper_exchange.ts` | `PaperExchange` |
| Runtime switches, accounts, catalogue | `trading_repository.ts`, `trading_web_control.ts` | `RuntimeControl`, `Accounts`, `Catalogue` |
| Workflows | `workflow_repository.ts`, `ui_workflow_drafts.ts`, `frontend/src` (editor) | `WorkflowGraph`, `WorkflowRevisions`, `LegacyRoutes` |
| Process lifecycle | `process_lock.ts`, `crash_guard.ts`, `startup_authority.ts` | `Lifecycle` |
| Database upgrades, retention, maintenance | `db.ts`, `migration_recovery.ts`, `retention.ts`, `mcp_maintenance.ts` | `SchemaMigration`, `Retention`, `Maintenance` |
| Backup, restore, settings, secrets | `backup*.ts`, `runtime_settings.ts`, `secret_store.ts` | `Backup`, `Restore`, `Settings` |
| Audit trail and archive | `audit_trail.ts`, `services/b2-audit-receiver` | `AuditTrail` |
| Dashboard, operator jobs | `web_server.ts`, `dashboard_auth.ts`, `setup_bundle.ts`, `ui_operation_store.ts`, `ui_restart_coordinator.ts` | `Dashboard`, `OperatorJobs` |
| Agents (MCP) | `mcp_repository.ts`, `mcp_control_bridge.ts`, `mcp_server.ts` | `McpWork`, `McpSessions` |

`PROJECT.json` lists every part with its status, the lines each definition
stands for (section 9 has further ones), and the hazards at the lines where they
bite.

How the parts interact: a Telegram update is accepted by the ingress in one
transaction; the pump of the scheduler classifies accepted rows into outbox
rows and hands outbox rows to the queue; an execution claims a row, parses or
sends it, and closes it; a parsed signal creates trade intents in the same
transaction that saves it; the trading runtime takes intents up, plans them,
admits them against the risk limits and dispatches them; the venue's answers
come back through stream, reconciliation and history, and become order evidence,
protection and money. Operators and agents interfere at every point. Around
this, the process owns its database through a lock, upgrades, prunes, backs up
and restores it, and records every administrative change.

What makes it hard: crashes between any two commits; a queue timeout that frees
the caller but not the execution; two overlapping routing starts; listings used
after an await; late, repeated and reordered venue answers; requests accepted
after the client gave up; kill switches set between admission and send; two
administrators and an agent at once; renames and secret files of which only some
were written.

## 2. Modelling decisions

* **Atomic steps.** `SerializedDatabaseAccess` (`db.ts` 333-355) runs database
  calls one after the other, so one call, or one transaction, is one step.
  Everything between two awaits is one step because JavaScript is single
  threaded. A read and a write in two calls are two steps.
* **Crash.** Process memory is reset, rows and files stay. They are recovered by
  the operations the code runs at its next start.
* **Providers.** Telegram and the venues are external: they may answer, refuse,
  answer late or never. A venue tells the truth about its past or present.
* **Data.** A message's content, an eligible plan and a risk verdict are
  constants or free choices; no text is built. Money and quantities are integers
  of the smallest unit, rounded as the code rounds.
* **Ghosts.** `exposure`, `sends`, `sent` (of `Ingress`), `drained`, `pruned`, `history`, `best`,
  `sawTerminal`, `stopped`, `overlapped`, `abandoned`, `excused`, `acked` and the
  like record what happened outside the process or earlier. No guard of a
  modelled operation reads them; a venue's answers are chosen from `history`.
* **Bounds.** `Max...` constants cap what the environment or an operator may do
  (crashes, upsets, retries, changes); ordinary steps of the system are not
  bounded.

## 3. Modules

**Outbox.** `status` is `pending_tasks.status`; each `e \in Execs` is an
execution of `executeScheduledOutboxTask` with program counter `pc[e]`,
`aborted[e]` (its signal) and `settled[e]` (its caller was answered by the
timeout). Each `s \in Starts` is one call of `startForwardingNonInteractive`; two
may overlap because `controlHandler` tests `isRunning` before awaits. `exposure`
counts messages that reached the target, `retries` the retries of an unknown
outcome an operator ordered. `DbMayFail` lets the closing write itself fail.

**Delivery.** The promise as an operator sees it: a task is shown as unsent, in
doubt or closed; doubt becomes another attempt only by an authorisation, closed
stays closed, and a task shown as unsent has delivered no more than was
authorised. `Outbox` implements it with `shown` read off the row's status,
`delivered <- exposure` and `granted <- retries`: claims, failures, recoveries,
timeouts and crashes are stutters.

**OutboxScheduler.** The window `scheduledTaskIds`, the pump loop with its
request flag and its batch listed before an await, and the queue with capacity,
concurrency, timeout, pause, clear, resume and resizing.

**Ingress.** Rows have the deterministic identities of the code
(`Single`, `Child`, `Output`, `Album`). `pinned` is the workflow revision stored at
acceptance. `pump`, `listed` and `wake` are the classification loop and its single
timer. The outbox appears through what `Delivery` promises: one execution per
claimed row, which completes, fails or is requeued by a crash.

**EntryDispatch.** Rows by candidate `<<run, rank>>`: intent, order, position,
journaled operation, journaled cancel, drain request. The worker (`wpc`, `wc`) is
`executePendingIntent` from preparation to settlement; each account has a mutex
with the pass that holds it (`stage`, `caller`, `target`). `held` and `paused` are
the in-memory entry fences, `runtime` and `kill` the persisted ones; `last[r]` is
the last rank run `r` was created with. Abstractions: one symbol, rank k trades
on account k, an entry is one unit (partial fills, and fills that surface after
a cancellation, are in `OrderEvidence` and `Protection`), the protective stop
travels with its entry, and `emergencyExit` is one step (its drain, observation
and reduction are steps of `Protection`). A cancel the journal does not allow to
be repeated (`cancelRefused`) marks the order unknown and blocks the account.

**StateTransitions, OrderEvidence.** The merge of order evidence as operators,
and a machine that feeds it with every true answer, now or late (`history`), mixed
with the marks the engine sets itself (submitting, cancel pending, unknown). `sent`
is what the journal can tell: as long as it is false the plan may be taken up again
(`recoverUndispatchedPlan`) or cancelled without asking the venue
(`abandonUndispatchedPlan`).

**Protection.** One position with its entry, stops and targets: row
and venue of each order, a request or cancel on the wire, the reconciliation pass
(`pc`, `snap`, `job`), the price recorded after a stop was answered, target
budgets, the persisted emergency, and the division of what is left over the targets, with its rounding.

**TradingPlan.** `createTradingPlan` as a function of strategy, signal, market
and account snapshot: reference and worst price, quantity, notional, margin,
leverage tiers, targets and stops.

**AdaptiveRisk, DailyRisk.** The weekly evaluation of a channel or a workflow
path by concurrent resolvers, an operator's policy read in one call and saved in
another, and the daily loss budget from proof to send.

**MoneyLedger, PaperExchange.** Idempotent recording of fills, fees and funding
with later contradictions; the simulated venue that fills orders at prices.

**ExchangeStream, History, SafetyProof.** The executor's ring buffer and cursor
and the engine's reconciliation; page-by-page acquisition of fills with the
provider's own retention; the verdict that lets an operator release a hold.

**RuntimeControl, Accounts, Catalogue.** The runtime row with its
read-modify-write and the requests of web, agents and engine; credentials from
candidate to promotion, and the creation of an account, which owns it only once
it is verified; contracts, strategies and routes edited by two clients.

**SignalParser.** Reservations of the daily AI budget around model calls, and
the acceptance of an answer by grounding it in the text and by the contract.

**WorkflowGraph, WorkflowRevisions, LegacyRoutes.** The editor's graph and what
the compiler makes of it; drafts, activation and undo in two tabs; the takeover
of older routes at start.

**Lifecycle, SchemaMigration, Retention, Maintenance.** Two instances around one
lock file with gates, holds and the crash counter (a process may also die between
the counter and the block file); migrations with their safety copy; retention
batches over intents with their execution events, runs and signals; the
maintenance marker, its participants and their handles.

**Backup, Restore, Settings.** The barrier, generations and replication of a
backup; the renames of a restore; the journalled update of secret files.

**AuditTrail, Dashboard, OperatorJobs, McpWork, McpSessions, DeliveryTracker.**
The hash chain and its archive; requests to the dashboard between authorisation
and audit record, with a setup bundle's configuration file and database as two
writes; jobs that survive a restart; agents' proposals from approval to
completion; their sessions and notifications; waiting for Telegram's outcome.

The modules of a layer do not share variables: what one takes from another is an
assumption that the other's module checks (the outbox's promise in `Ingress`, the
merge of evidence in `Protection`, the hold in `EntryDispatch`). `MCOutbox`,
`MCEntry`, `MCExchange`, `MCTrading`, `MCPlatform` and `MCServices` therefore
explore them one at a time: the variable `part` names the component of a
behaviour and never changes, and the variables of the others are unused.

## 4. Runs

Distinct states are for the recorded configurations.

| Run | States | Properties and what they show |
|---|---|---|
| `outbox` | 707,817 | `NoUnauthorisedResend`, `UnsentRowsHideNoDelivery`, `OnlyOperatorResolvesUnknown`, `ImplementsDelivery`: a message goes out at most once plus once per granted retry. `NoDoubleExecution`, `WindowIsExact`, `WorkConserving`, `ConcurrencyRespected`: the scheduler neither duplicates nor leaks nor strands a task. |
| `entry` | 517,737 | `AtMostOneAccount`, `NoDoubleSend`, `OneOwnerPerSymbol`: a trade reaches one account, once. `RowsTellTheVenue`, `DrainedIsDrained`, `SettledStaysSettled`: unsent, closed, drained and settled are true at the venue and stay true. |
| `ingress` | 494,790 | `RoutedExactlyAsPinned`, `WaitingPartsAreHeld`, `NothingIsDoneTwice`, `AcceptedIsDecided` |
| `exchange` | 1,056,861 | `EvidenceIsHonest`, `SettledOrdersStay` (order), `PositionsStayProtected` (protection), `PlansStayWithinLimits` (plan, targets), `RiskStaysBounded` (adaptive, budget), `MoneyAddsUp` (paper, accounting), `NothingIsMissed` (stream, history, release) |
| `trading` | 822,216 | `SignalsAreMeant` (parser), `CatalogueHolds`, `AuthorityHolds` (runtime, accounts), `WorkflowsAreAsActivated` (graph, revisions, legacy) |
| `platform` | 1,054,005 | `ProcessHoldsAuthority`, `UpgradesAreSafe`, `AuditIsAChain`, `RecoveryIsWhole` (backup, restore, settings), `PruningIsSafe`, `ChangesAreAccountable`, `AgentsActAsAllowed` |
| `services` | 192,831 | `MaintenanceIsExclusive`, `CommandsAreAccountable`, `ConfirmationsAreTrue`; `WorkIsNeverStranded` under fairness |
| `legacy_duplicates`, `fallback_reasons`, `kill_switch`, `retention_backlog`, `retention_events` | | **violations**, see section 7 |

A property named after a layer is the conjunction of what its components
promise, each guarded by `part`; a violation names the part in its state. The
components' own properties stand at the end of their modules.

Every property has a mutant in `PROJECT.json`: a variant of one operation with a
plausible bug (a dropped guard, a missing reset, a swapped order) under which TLC
reports the property violated in the same configuration.

Why the bounds suffice.

* *outbox*: rows meet only in the slots, so one row shows the safety of the
  delivery; two slots let a timed-out execution overlap its successor, and two is
  the number of starts that can overlap. Two rows compete for one waiting place
  and two executions in the scheduler. Deadlock is checked here. The theorems of
  section 6 remove the bounds for the rows.
* *entry*: two signals contend for one account; one signal with two ranks makes
  one fallback step; one candidate meets two upsets (crash, outage, expiry,
  operator command). Outside the recorded run the properties also held with two
  signals and one upset (425,580 states), with two accounts and two upsets
  (3,498,191) and with one candidate and four upsets (559,707).
* *ingress*: three messages are a late album part beside a single message; batches
  of one make the pump go round.
* *exchange*: an order of quantity 3 has two different partial fills; a position
  of 2 with two targets and two stops can be partly closed while its stop is
  replaced; two trades share a loss budget; three prices order the fills, and a
  largest fill of one unit leaves orders partly filled; history pages hold fewer fills
  than one instant has.
* *trading*: two jobs at a daily limit of two requests; nine edges allow a
  fallback chain of three accounts beside a second channel; two tabs, two clients,
  two keys of one account and one of a stranger.
* *platform*: two instances and two deaths with a crash limit of two; retention
  batches of two over two signals and their intents; two backup writers and
  versions; agents meet at most two events (mode changes, failures, deaths).
* *services*: one row, one slot and one start, because rows wait for nothing but
  slots and starts; two rows compete for one execution in the scheduler.

Deadlock checking is off where the system comes to rest once all work is done.
Symmetry is used for slots, starts, executions and runs; never with liveness.

## 5. Fairness

* *Outbox rows*: weak fairness of the steps of an execution and of a started
  routing call (every await has a timer or a provider that answers), strong
  fairness of starting, because boot and operators start routing again whenever
  possible. A lost closing write waits for the next start, so `DbMayFail` is FALSE.
* *Scheduler*: weak fairness of the pump, timers, callbacks and executions: the
  event loop runs what is due. `ListMayFail` is FALSE: a failed listing has no timer
  of its own and waits for the next trigger.
* *Maintenance, jobs, sessions, delivery*: the owner's steps and its deadline, the
  supervisor that starts the process again, the periodic synchronisation and the
  notification pump, and timers. No fairness of operators, agents or other
  processes.
* *Ingress*: weak fairness of the pump and of time (an album's `ready_at` passes).
  Executions get none; the outbox modules cover them.
* `WorkIsNeverStranded` speaks of behaviours in which stops and crashes cease
  (`Calm`); without that premise a row may be interrupted for ever.

## 6. Proofs

TLAPS checks these theorems for every value of the constants. "Run" names the run
that checks the same statement on its small instance; the invariants themselves
were checked with TLC on the same instances before they were proved.

| Module | Theorem | States | Run |
|---|---|---|---|
| `Outbox` | `OutboxInvariant` | `Spec => []IInv`, the inductive invariant | |
| | `OutboxTypeCorrect` | type correctness | |
| | `NoResend` | `NoUnauthorisedResend` | outbox |
| | `UnsentIsUnsent` | `UnsentRowsHideNoDelivery` | outbox |
| | `UnknownWaitsForOperator` | `OnlyOperatorResolvesUnknown` | outbox |
| | `OutboxImplementsDelivery` | the refinement `ImplementsDelivery` | outbox |
| `EntryProofs` | `EntryAgreement` | `Spec => [](Types /\ IInv)` | |
| | `RunReachesOneAccount` | `AtMostOneAccount` | entry |
| | `EntrySentOnce` | `NoDoubleSend` | entry |
| | `RowsAreTrue` | `RowsTellTheVenue` | entry |
| | `SymbolHasOneOwner` | `OneOwnerPerSymbol` | entry |
| | `DrainIsReal` | `DrainedIsDrained` | entry |
| | `SettledIsForGood` | `SettledStaysSettled` | entry |
| `IngressProofs` | `IngressAgreement` | `Spec => []IngressInv` | |
| | `MessagesAreRoutedOnce` | `RoutedExactlyAsPinned` | ingress |
| | `WaitingPartsWait` | `WaitingPartsAreHeld` | ingress |
| | `NoSecondPublication` | `NothingIsDoneTwice` | ingress |
| `OrderEvidence` | `OrderRowIsHonest`, `NoAnswerIsRefused` | `NoOverclaim`, `OrderIndependent`, `HonestAnswersMerge` | exchange |
| | `SettledRowsStay` | `SettledOrdersStay` | exchange |
| `Maintenance` | `MaintenanceAgreement` | `Spec => []MaintenanceInv` | |
| | `NoReplacementUnderAnOpenHandle`, `AcceptedWorkKeepsItsHandle` | `ReplacedOnlyWhenClosed`, `WorkKeepsItsHandle` | services |
| `Lifecycle` | `LifecycleAgreement` | `[]LifecycleInv` | |
| | `OneProcessAtATime`, `EntriesOnlyWithAuthority`, `AuthorityIsServed`, `CrashLoopIsStopped` | `OneProcessOwns`, `EntriesNeedAuthority`, `AuthorityMeansServing`, `CrashLoopsStop` | platform |

The run column of the last modules names the run whose layer property (section
4) contains the statement. Every proof of an inductive invariant has one step per
action of `Next`, most of them lemmas of their own, and frame lemmas for the
conjuncts an action leaves alone.

**Outbox** (any tasks, executions, starts and retry bound, with or without failing
writes). `NoUnauthorisedResend` is not inductive: a claimed row and a live
execution each stand for a delivery still to come. `WithinBudget` adds one if the
row can be claimed again and one if a live execution may still invoke the
provider. It needs `OneUnsettled` (at most one execution of a row is not settled),
which rests on `SlotsConsistent`, and `ClaimedBeforeSending`. The refinement has one
lemma per kind of step (row, execution, host): a delivery of an overtaken execution
must find a row that is not shown as unsent, or a retry that accounts for it, which
is `WithinBudget` again; every other step keeps what is shown or is an attempt, a
closure or an authorisation. `OnlyOperatorResolvesUnknown` follows from the guards.

**Entry dispatch** (any runs, `LastRank \in Nat`, any policy within the fallback
reasons, any bound on upsets). None of the six properties is inductive, because
what makes an entry safe to send was established several commits earlier. `IInv`
therefore says between any two commits what each record proves: `RowsAgree` (a
journal entry before dispatch means nothing was sent, a final row is the venue's
status, a closed position has nothing live), `RunsAgree` (ranks before the current
one settled unsent, those behind it do not exist, nothing sent while probing),
`MutexAgrees` (who holds an account's mutex, and that it cancels an existing
order) and `WorkerAgrees` (the worker's candidate is unsent up to the hand-off, its
run is selected before it leaves, and once admitted no other active position is on
its account). `AtMostOneAccount` follows from `RunsAgree`: only the current rank of
a run that no longer probes can have been sent. `OneOwnerPerSymbol` and
`DrainedIsDrained` are conjuncts of the invariant; the first is kept by
the admission check under the account mutex, the second by the drain's requirement
that every order and journal entry be terminal.

**Ingress** (any messages, albums, plans, revisions, contents and upsets).
`MessageAgrees` ties the decision about a message to the rows that exist or were
pruned, `AlbumAgrees` ties an album to the parts that waited in it, `TaskAgrees`
says how far an execution is and that a row sent and not pruned is completed. The
routing property is an equality of sets of rows; it follows by cases on the
identity of a row.

**Order evidence** (any ordered quantity). A row is compared with the ghosts
`best` and `sawTerminal`, which record what was delivered; merging commutes
enough that the order of delivery does not matter. An order the venue has was sent,
so a plan abandoned because its journal proves it unsent is no claim about it.

**Maintenance** (the main process and the MCP process, any handles, leases and deaths). The argument of
`createLease`: a process registers its handle, then looks at the marker again, and
only then opens the file; the owner publishes the marker, then lists. `LeaseAgrees`
is that race: from the first listing on every process that `Holds` the file, or
has passed its last look, is a target, and none is left when the phase is
`replace`. `ProcessAgrees` ties program counter, handle and record together.

**Lifecycle** (assuming a positive crash limit and that `Nobody` is no process).
`Agrees` relates what one process remembers: a gate passed means the service it
stands for was started, a maintenance holds the authority, a shutdown blocks
it. `LockAgrees` gives the lock to the one process alive. `CrashAgrees` relates the
ghost `streak` of deaths to the counter the next start will read: one death may be
uncounted, and none once a process is past the crash gate.

The proofs of `Outbox`, `OrderEvidence`, `Maintenance` and `Lifecycle` stand at the end
of their modules, behind the operations and the properties. Those of `EntryDispatch`
are in `EntrySteps` (facts, frames and the steps before an entry leaves) and
`EntryProofs`; those of `Ingress` begin at its end (accepting, classifying, albums)
and continue in `IngressProofs`. `tlapm` needs 10 to 15 minutes for each of the two
entry modules and a few for the others.

Named assumptions: `EntryAssumption`, `IngressAssumption` and those of `Outbox` and
`OrderEvidence` are evaluated by TLC in the runs; `Lifecycle` states its two as
hypotheses of the theorems.

Only model-checked:

* *Liveness* (`AcceptedIsDecided`, `WorkIsNeverStranded`) and everything that needs
  ENABLED: out of the provers' reach.
* *The scheduler* (`NoDoubleExecution`, `WindowIsExact`, `WorkConserving`,
  `ConcurrencyRespected`): `scheduleBatch` and `resume` fold over sequences of any
  length, and what a fold returns needs induction over data.
* *Sums, divisions and pages* (`PlansStayWithinLimits`, `RiskStaysBounded`,
  `MoneyAddsUp`, `NothingIsMissed`, the audit chain, retention batches, workflow
  graphs): folds, recursion or rounding, for the same reason.
* *Position protection* and the remaining components of `trading`, `platform` and
  `services`: their layer properties are conjunctions over several modules, and
  their invariants are checked by TLC only.

## 7. Findings

* **Kill switch written away** (`kill_switch`). `updateTradingRuntimeState`
  (`trading_repository.ts` 959) reads the runtime row and writes all columns back in
  a second call. A pause in the dashboard that reads before an agent's emergency
  flatten and writes after it restores `kill = false`, although
  `docs/TRADING_GUIDE.md` 215 says the lock stays. `StopsPrevail`, part of
  `AuthorityHolds`, shows that this is the only kind of overlap that loses a stop.
* **Retention backlog reported as healthy** (`retention_backlog`). Candidates that
  must wait for a sibling of their run are selected again in every batch
  (`db.ts` 3410); when they fill it, younger rows that could go are never reached,
  and the job reports success although the repository's `README.md` 186 promises
  that a backlog that cannot be worked off fails readiness.
* **Retention refused by execution events** (`retention_events`). The forwarder
  records an event for every intent it creates (`forwarder.ts` 825-837), and the
  event's foreign key restricts the deletion of the intent (`db.ts` 1127). Retention
  neither excludes such intents nor deletes their events (`db.ts` 3361-3405,
  3454-3462), so the batch that reaches the first of them fails and is rolled back,
  and so does every later one, at startup as well. `tests/test_retention.js` 294
  expects terminal rows to be pruned; its intents have no events. `PruningIsSafe`
  (with `OnlyEventsRefuse`) shows that nothing else refuses a batch.
* **Fallback reasons** (`fallback_reasons`). `docs/TRADING_GUIDE.md` 164-170 says that
  the next account is tried only after `SYMBOL_UNAVAILABLE` and never because of a
  position limit. The code follows the edge's policy, which may also contain
  `MAX_CONCURRENT_POSITIONS` and `SYMBOL_ALREADY_OWNED` (`trading_types.ts` 371,
  `workflow_repository.ts` 2407). `AtMostOneAccount` holds all the same.
* **Permanent duplicate block** (`legacy_duplicates`). The parameter catalogue
  promises that a cooldown of 0 blocks identical signals permanently. In the path
  without a workflow the check and the save are two calls of concurrent
  executions (`forwarder.ts` 810 and 820), so two equal messages can both pass. In a
  workflow both are in one transaction and `NothingIsDoneTwice` holds.

Met while modelling, without a run of their own:

* Two enabled older routes with the same behaviour make their takeover at start
  fail as a whole (`workflow_repository.ts` 959-968, 1742), which is logged only;
  `docs/TRADING_GUIDE.md` 304 says enabled routes are taken over. `MigrationIsWhole`
  holds: none is taken over in part.
* A setup bundle writes the configuration before the database commits. When the
  commit fails and writing the old configuration back fails too, or the process
  dies in between, the two are of different bundles (`web_server.ts` 1326-1346);
  `ChangesAreAccountable` excepts these two cases by name (`excuse`) and shows that
  there is no other.
* A gap in the event stream goes unnoticed in two cases, which `GapsAreNoticed`
  excepts by name (`excused`): the executor restarted before the engine's cursor
  left 0, or the answer that reported the gap was lost and the retry finds the
  cursor already moved (`stream_hub.py` 202, `ccxt_exchange.ts` 135). A forced
  reconciliation that fails clears the account's dirty mark all the same. The
  periodic reconciliation covers both.
* A later `set` overwrites the journal of a failed secret update
  (`secret_store.ts` 360): the older update is then not completed at start, which
  `UpdatesAreWhole` excepts by name (`abandoned`).
* The workflow editor connects nodes without an edge kind, clears its unsaved
  mark on the first of two answers, and a draft deleted and created again starts
  at version 1, so a stale tab may match it. The confirmation phrase of an
  activation is not bound to the preview it was shown with.
* A market order planned without leverage tiers may exceed the strategy's
  notional by its slippage allowance.
* A channel-risk policy that is deleted and created again starts at version 1; a
  resolver may write back a tier over an operator's block of the same moment
  (`trading_channel_risk.ts` 512-520).
* Observation and balance of a risk admission are read at different moments
  (`prep.agree` in `DailyRisk` names the case in which they describe one moment).
* The simulated venue keeps the margin of an order it refuses to fill, and its
  balance may be set below an open position's margin.

## 8. Not modelled

Assumptions on what lies outside: the archive bucket honours the condition of an
upload (`IfNoneMatch`), which the receiver's comment asks a live test to establish
(`b2-store.mjs` 182-183); a venue does not reuse client order ids. Submitting an
immutable secret again with its very value writes the same bytes and is no step of
`Settings`, whose writes are told apart by their number.

Message filters and value formats, account logs and money reports, the vendor
adapters of the executor, command-line wrappers, configuration files, read models
of the user interface, the Telegram viewer, telemetry: pure conversions or
displays whose verdict the models take as data. Text, XML, HTTP, authentication
headers, encryption and file formats are left out everywhere. `PROJECT.json` gives
the reason for each part and, for parts modelled in part, what is missing.

## 9. Further correspondences

The map of `PROJECT.json` is a selection: it holds the definitions that between
them account for nearly all of the modelled lines.  The definitions below model
code too (operations among them); their lines mostly overlap those of definitions
in the map.  Backend paths are relative to `src/`.

**Outbox.** `db.ts`: `requeueFailed` 3916-3929, `pruneOperationalData` 3511-3582, `claimOutboxTask`
3778-3795; `forwarder.ts`: `finishLocally` 879-934; external: `Crash`, `DamagePayload`.

**OutboxScheduler.** `queue.ts`: `nextTimes` 70-77; `db.ts`: `Oldest` 3889-3913.

**StateTransitions.** `trading_state_transitions.ts`: `SettledIntent` 4-13, `INTENT_TRANSITIONS`
4-13, `canTransitionIntent` 15-18, `ORDER_STATUSES` 20-23, `TerminalOrder` 45-65,
`rejectedWithExecution` 41-43, `selectedFilledQuantity` 85-87, `reportedQuantity` 93-104,
`incomingAverageWins` 89-91, `mergeable` 93-121, `mergeOrderEvidence` 107-121.

**OrderEvidence.** `trading_engine.ts`: `markOrderSubmitting` 637-644, `cancelTrackedOrder` 674-697,
`submitTrackedOrderFailed` 646-672, `cancelEntryRowFailed` 1112-1130; `trading_recovery.ts`:
`runJournaledExchangeWrite` 165-209, `abandonUndispatchedPlan` 383-402; external: `answers`,
`venueMove`, `venueAccepts`, `venueExecutes`, `venueCancels`.

**EntryDispatch.** `trading_mutation_coordinator.ts`: `Free` 60-84; `trading_types.ts`:
`FallbackReasons` 371-375; `trading_recovery.ts`: `unresolvedOperations` 224-229,
`abandonUndispatchedPlan` 371-400, `recordUnsent` 212-222, `replyAcknowledged` 190-210,
`replyUnclear` 146-150; external: `venueStatus`, `venueAccepts`, `venueRejects`, `venueFills`,
`venueCancels`, `venueExits`, `Crash`; `trading_order_repository.ts`: `persisted` 56-107;
`trading_engine.ts`: `workerFails` 1279-1313, `beforeDispatch` 637-644, `sendProtectedEntry`
2537-2590, `abandonUnsent` 2590-2624, `handleIntentFailure` 1475-1513, `reconcileAccount` 1657-1692,
`drainAbandon` 1048-1066, `ingestedOrder` 2078-2109, `ingestOwnedState` 2033-2076, `closable`
2161-2203, `reconciled` 1661-1692, `candidateReconciled` 1256-1277, `exitsReconciled` 1457-1473,
`expiryProved` 1026-1046, `cancelExpiredEntries` 1068-1089; `db.ts`: `refuseDispatch` 3114-3123;
`trading_runtime.ts`: `disableEntries` 100-104, `enableEntries` 82-116; `trading_web_control.ts`:
`requestReconciliation` 915-924, `releaseAccountKillSwitch` 743-788.

**Ingress.** `incoming_work_repository.ts`: `Single` 206-209, `Child` 164-169, `Output` 256-262,
`Album` 140-142, `MessageOf` 233-242, `activateWorkflow` 98-106, `listPending` 212-216,
`routeLegacyAlbum` 186-192, `routeSingle` 206-209, `albumReady` 147-155; `db.ts`: `Enqueued`
3750-3776, `Scope` 3593-3610, `Live` 3540-3551, `prunableSignals` 3540-3558, `pruneOperationalData`
3511-3582, `Crash` 3842-3860; `forwarder.ts`: `announceAgain` 1193-1211, `finishWorkflowSignal`
926-934, `checkLegacySignal` 797-818, `execute` 254-273, `retryPersistedTask` 413-418.

**Accounts.** `trading_repository.ts`: `Sets` 775-778, `insertsAccount` 720-750;
`trading_web_control.ts`: `SetsBound` 651-668, `verifyAccount` 638-642, `Identified` 648-657,
`verified` 643-678, `enables` 687-694, `replaceAccountCredentials` 557-562, `rotationDisables`
563-581, `verifiesCandidate` 610-618, `releaseAccountKillSwitch` 743-751, `releases` 753-788;
`trading_credentials.ts`: `removesFile` 272-277; external: `exchangeActs`.

**SafetyProof.** `trading_safety_proof.ts`: `Purposes` 9-9, `terminal` 57-58, `acquisitionComplete`
60-90, `remoteUnderstood` 160-170, `localOrdersResolved` 172-182, `commitmentsSettled` 99-109,
`positionProved` 111-125, `historicalTradesFlat` 139-152, `purposeMet` 184-204,
`evaluateTradingSafety` 207-216; `trading_safety_repository.ts`: `Init` 45-54, `remoteConfirms`
34-43, `nothingOrphaned` 161-162; `trading_protection.ts`: `requiredStopQuantity` 54-60.

**AdaptiveRisk.** `trading_channel_risk.ts`: `Source` 370-374, `shouldBlockWeakChannel` 433-442,
`BlockOf` 463-471, `Invalidated` 597-600, `Granted` 573-577, `Denied` 565-572, `Answer` 565-578,
`rereadPolicy` 580-588; `trading_channel_risk_math.ts`: `Performance` 20-29.

**AuditTrail.** `audit_trail.ts`: `Last` 179-188, `appendFails` 241-251, `deliverRemote` 263-277,
`replayRemote` 218-227, `replayOne` 218-227, `Readable` 119-148, `dies` 241-252, `resetLocal`
200-207, `NoStep` 150-162, `Torn` 100-118, `Next` 190-227;
`services/b2-audit-receiver/b2-store.mjs`: `Archived` 111-111, `Put` 173-215.

**Backup.** `backup_generation.ts`: `acquireBarrier` 133-153, `release` 143-152,
`assertSourceCoherence` 253-258, `offlineRecovery` 132-142, `writeFile` 365-369,
`assertOnlyAuthorizedFileChanged` 260-267; `backup.ts`: `verifyManifestFile` 381-411,
`verifyBackupConfig` 413-435, `backupDatabase` 503-519, `Newest` 594-610, `Failed` 1069-1081,
`hasFreshOffsiteProof` 151-156, `hasFreshDriveMirrorProof` 158-162, `getStatus` 971-989, `IdleRun`
926-941.

**Restore.** `backup.ts`: `PreserveOrder` 809-818, `Order` 820-833, `RemoveOrder` 859-864,
`ReturnOrder` 866-878, `startInstall` 913-914, `Rollback` 859-864, `Stuck` 917-920,
`restorePreservedFiles` 866-878, `leaseEnds` 664-666, `Next` 895-921.

**Catalogue.** `trading_repository.ts`: `NextVersion` 279-283, `Adds` 245-257,
`assertSignalSchemaNotActivelyRouted` 1384-1396, `deleteTradingSignalSchema` 578-587, `EditStrategy`
628-633, `blockReason` 999-1013.

**DailyRisk.** `trading_risk_repository.ts`: `NoObservation` 12-19, `ExistingValue` 100-102;
`trading_risk_admission.ts`: `NoPrep` 14-19, `dayEnds` 40-43; `trading_risk_sources.ts`:
`Obligations` 40-50, `Unresolved` 52-60; `trading_engine.ts`: `reconcileAccount` 1710-1726,
`commitDispatch` 1307-1322; `trading_risk_reservations.ts`: `Aged` 112-117;
`trading_entry_commitment.ts`: `cancelDrained` 31-43; `trading_recovery.ts`: `journalDispatch`
178-182; `trading_mutation_coordinator.ts`: `epochAdvances` 24-34; external: `entryFills`,
`stopFills`, `priceMoves`.

**Dashboard.** `web_server.ts`: `postSecretsHandler` 717-754, `deleteBackupDriveAccessTokenHandler`
756-783, `controlHandler` 1046-1079, `postConfigHandler` 1117-1143, `previewSetupBundleHandler`
1191-1242, `applySetupBundleHandler` 1301-1350, `postRuntimeSettingsHandler` 1530-1549,
`clearDatabaseHandler` 1696-1728, `tradingMutation` 1817-1829, `updateWorkflowResourceHandler`
2120-2131, `publishWorkflowResourceHandler` 2133-2150, `deleteWorkflowResourceHandler` 2152-2188,
`updateTelegramViewerTokenHandler` 2602-2611, `deleteTelegramViewerTokenHandler` 2613-2621,
`rotateTelegramViewerServiceTokenHandler` 2623-2631, `requireConfirmation` 941-945,
`requireCurrentVerifiedBackup` 1352-1358, `Confirmed` 941-945, `Idle` 242-251, `Answering` 294-299,
`Answered` 278-284, `Todo` 3113-3139, `Doing` 3113-3139, `IsLast` 3113-3139, `Proceed` 3113-3139,
`Release` 3113-3139, `Same` 3113-3139, `changeElsewhere` 2554-2562, `runBackupNow` 1437-1440,
`previewCapacity` 1191-1242, `assertPreviewCurrent` 1301-1350, `leaves` 508-565, `Torn` 1296-1299,
`NoImport` 1288-1294, `HandlerStep` 2662-2802, `Next` 3280-3312, `Slot` 3314-3342;
`dashboard_auth.ts`: `presentsStaleSession` 117-126.

**DeliveryTracker.** external: `telegramAccepts`, `telegramSettles`; `delivery_tracker.ts`: `Told`
112-119.

**ExchangeStream.** `exchange_executor/stream_hub.py`: `NewStream` 53-77, `NoStream` 231-235,
`recoverable` 132-134, `watchFails` 109-139, `graceElapses` 150-158, `restartExecutor` 220-228,
`rotateCredentials` 241-246, `Gap` 201-202, `Page` 203-203, `Batch` 199-218, `ensure_started`
79-107, `Health` 141-162, `hubPoll` 237-250; `trading_runtime.ts`: `pollExchangeStreams` 198-224,
`reconcileAccounts` 176-196, `reconciled` 149-174.

**History.** `exchange_executor/hyperliquid_retention.py`: `NoProbe` 41-55, `Step` 137-138,
`Discard` 141-142, `begin_retention` 103-107, `witness_step` 154-161, `horizon_step` 164-168,
`scan_step` 196-211, `verify_step` 171-177, `Everything` 145-151, `retention_step` 180-193;
`exchange_executor/history_pagination.py`: `NoAcquisition` 261-270, `Window` 93-95, `end_window`
98-106, `Covered` 202-211, `continuation` 246-257, `hyperliquid_page` 227-243, `kraken_page`
348-358, `Page` 341-347, `readPage` 273-287, `budgetEnds` 295-318, `acquisitionLost` 321-338;
external: `Retained`, `Between`, `Newest`, `Pages`, `trade`, `tick`;
`exchange_executor/history_coverage.py`: `cover_window` 23-33, `covered_window` 36-38,
`retention_covers` 41-44, `ClaimsComplete` 47-61; `trading_engine.ts`: `persistRemoteExecutions`
2078-2103.

**Lifecycle.** `startup_authority.ts`: `STARTUP_GATES` 4-9, `Down` 22-27, `canMutate` 78-80,
`completeGate` 36-44; `process_lock.ts`: `Alive` 107-150; `forwarder.ts`:
`startForwardingNonInteractive` 1386-1429, `writeRoutingActiveMarker` 1292-1302,
`cleanupFailedRoutingStart` 1359-1384, `removeOwnedRoutingMarker` 1304-1311, `stopForwarding`
1213-1246, `closeDatabaseAfterDrain` 1512-1521; `ui_restart_coordinator.ts`: `Running` 16-43.

**Maintenance.** `mcp_maintenance.ts`: `NoLease` 29-36, `processDefinitelyEnded` 46-48,
`listParticipants` 56-94, `checkTargets` 56-94, `releaseMaintenance` 56-94; `db.ts`: `Init` 337-340,
`registerDatabaseMaintenanceParticipant` 262-293, `openHandle` 2999-3002, `publishDatabase`
3003-3025, `closeStarted` 3050-3067, `closeSucceeded` 3050-3067, `retryAcknowledgement` 2985-2992,
`startWork` 362-376, `finishWork` 333-355, `Unclosed` 231-247, `Request` 184-192; `forwarder.ts`:
`GiveUp` 1925-1946; `mcp_server.ts`: `die` 945-958.

**McpWork.** `mcp_control_bridge.ts`: `proposalPermission` 38-45, `audits` 264-273,
`executeAuthorized` 274-276; `mcp_repository.ts`: `agentHasPermission` 701-703, `requiresApproval`
1319-1319, `Ends` 957-966.

**McpSessions.** `mcp_server.ts`: `synchronizeRuntimeMode` 939-943, `isRateLimited` 194-202,
`sendLoggingMessage` 886-893; `mcp_repository.ts`: `Connectable` 719-721, `DisconnectAll` 382-391,
`setMcpRuntimeMode` 366-424, `updateMcpAgent` 567-588, `disconnectMcpAgentSessions` 610-616.

**MoneyLedger.** `db.ts`: `LedgerInit` 2260-2276, `acknowledgeOrder` 2293-2298;
`trading_fill_accounting.ts`: `Settlement` 149-152, `IsEntry` 159-159, `Before` 67-72, `fillMarket`
99-103, `SameMarket` 141-146, `postFee` 108-116, `FeeRefused` 112-116, `PostPrice` 148-165;
`trading_money_ledger.ts`: `recordConflict` 96-100, `nativeValuation` 122-128, `Refuses` 154-158,
`ReportingValue` 103-104, `sumMoneyEventValues` 256-261, `IntentEvents` 247-254;
`trading_ownership.ts`: `proveOwnedQuantity` 33-58.

**OperatorJobs.** `ui_operation_store.ts`: `Up` 24-30, `Init` 31-34, `Exists` 95-95, `terminal`
20-20, `Active` 124-124, `PersistFails` 75-91, `Oldest` 125-129, `acceptExisting` 113-122,
`observeInterruptedRecord` 56-63, `Requester` 113-121; `ui_restart_coordinator.ts`: `requestRestart`
59-68, `exits` 17-43, `crashes` 17-43, `Next` 74-76.

**PaperExchange.** `paper_exchange.ts`: `Class` 270-276, `Throw` 128-130,
`cancelOrphanedReduceOrders` 173-179, `closable` 186-190, `statusAfter` 246-249, `fillPrice`
234-236, `settlementOrder` 270-276, `alreadyPlaced` 406-411, `submitOrder` 400-437.

**Protection.** `trading_risk.ts`: `allocatable` 290-304, `allocateTargetQuantities` 290-304;
`trading_take_profit.ts`: `proportional` 123-139, `allocateRoundingRemainder` 109-120, `resizable`
123-139, `remainingTargets` 123-139, `resizeTargetTotals` 123-139, `TargetFilled` 212-220,
`AllocationDue` 201-210, `LiveTargets` 83-89, `Covered` 83-89; `trading_decimal.ts`: `quantizeDown`
108-112, `least` 98-106; external: `VenueFill`, `VenueAccepts`, `VenueRefuses`, `VenueCancels`,
`RequestLost`; `trading_order_repository.ts`: `Merged` 74-107, `Slot` 109-114, `LastGeneration`
123-164, `Generation` 123-164, `Created` 123-164; `trading_cancel_recovery.ts`: `Resolved` 55-90,
`cancelRetryAllowed` 92-119; `trading_engine.ts`: `EndPass` 1694-1708, `reconcileAccountOwned`
1661-1692, `drainRequestedEntriesOwned` 1011-1024, `applyRemoteState` 1984-2015,
`markOrderSubmitting` 637-644, `submitOrder` 646-672, `Unanswered` 646-672, `reductionAnswered`
1635-1655, `cancelMarked` 674-697, `completedTargets` 720-732, `ExactStops` 2370-2466, `StaleStops`
2494-2530, `operatorEmergency` 1132-1164, `staleTargets` 1542-1585, `OpenSiblings` 2205-2224;
`trading_entry_commitment.ts`: `EntryOpen` 17-28, `requestEntryDrain` 31-43; `trading_recovery.ts`:
`prepareTradingOperation` 81-126, `Answered` 165-210, `submitTrackedOrderFailed` 212-222,
`cancelAnswered` 165-210, `cancelFailed` 212-222; `trading_exit_cancel.ts`: `pendingCancel` 9-16,
`cancelSent` 75-108.

**Retention.** `db.ts`: `prunableSignal` 3540-3558.

**RuntimeControl.** `trading_repository.ts`: `Init` 951-957, `Changes` 959-963, `Merged` 964-967;
`trading_runtime.ts`: `disableEntries` 101-105, `enableEntries` 82-99; `trading_engine.ts`:
`assertClockSafeForEntry` 975-984; `trading_web_control.ts`: `rotationStops` 572-579, `owned`
839-894, `reconciled` 848-877, `arrives` 819-830; `trading_mutation_coordinator.ts`:
`assertAuthority` 43-60; `trading_runtime_release.ts`: `refused` 22-32, `prepared` 33-78, `overview`
107-114, `beginRelease` 80-97, `commitRelease` 91-106.

**SchemaMigration.** `db.ts`: `retirable_trading_accounts` 1949-1958,
`equity_observation_currency_and_source` 2794-2803, `migrations` 646-650, `LATEST_SCHEMA_VERSION`
2806-2806, `Rebuilds` 1420-1463, `Migrated` 2857-2871, `Init` 2827-2833, `initializeDatabase`
2985-3008, `commitMigration` 2889-2909, `rollbackMigration` 2889-2909; external: `Refuses`, `ends`.

**Settings.** `secret_store.ts`: `Idle` 229-237, `remove` 297-303; `forwarder.ts`: `clearNext`
1803-1820; `web_server.ts`: `assertRuntimeIntegrationSecrets` 1516-1528.

**SignalParser.** `signal_schema.ts`: `range` 235-241, `Beyond` 224-233, `assertStopGeometry`
268-276, `executableDefinition` 855-864, `validateLegacyParserSchema` 866-874, `groundingFields`
787-808; `signal_parser.ts`: `hasAnotherAttempt` 507-515, `requestFails` 488-498; `db.ts`: `Settled`
3258-3282.

**TradingPlan.** `trading_decimal.ts`: `multiplyDecimal` 70-77, `divideDecimal` 79-87,
`midpointDecimal` 93-96, `quantizeDown` 108-112, `least` 98-106, `Least` 98-106; `trading_risk.ts`:
`quantizeDecimalUp` 139-142, `isMarket` 89-89, `entryPrice` 131-137, `quantizedStopPrice` 163-168,
`riskDistance` 182-189, `targetQuantities` 290-304, `breakEvenStopPrice` 348-356;
`trading_engine.ts`: `prepare` 1210-1236, `revalidate` 1217-1243.

**WorkflowGraph.** `workflow_repository.ts`: `REQUIRED_EXECUTION_KINDS` 60-62,
`edgeAppliesToChannel` 1007-1009, `Targets` 1260-1262, `OutputTargets` 1247-1250, `Last` 1155-1158,
`pathIdentity` 895-897, `pathDefinition` 899-908, `accountChanges` 1113-1135;
`frontend/src/app/workflow/workflow-fallback-policy.ts`: `LEGACY_POLICY` 9-11, `RECOMMENDED_POLICY`
13-15; `frontend/src/app/workflow/workflow-graph.ts`: `reached` 206-224.

**WorkflowRevisions.** `workflow_repository.ts`: `Published` 942-951, `pushWorkflowHistoryEntry`
214-219; `trading_web_control.ts`: `agentActivates` 971-978; `ui_workflow_drafts.ts`:
`activateUiWorkflowDraft` 110-118, `ServerState` 10-15;
`frontend/src/features/workflows/workflow-library.tsx`: `restoreRevision` 318-324;
`frontend/src/app/workflow/workflow-builder.tsx`: `Taking` 1571-1574, `compare` 1362-1366, `adopt`
1384-1384, `rebase` 1385-1385.

**LegacyRoutes.** `workflow_repository.ts`: `selectLegacySchema` 1627-1632, `Reusable` 1578-1587,
`BehaviourPlacedOnce` 959-969; `forwarder.ts`: `activateMigration` 1612-1621.
