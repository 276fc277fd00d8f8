# TLA+ models of the Hyperliquid trading agent

This directory holds TLA+ specifications of the concurrent and persistent parts of
`hyperliquid_trading_agent`, the TLC configurations that check them, and TLAPS proofs about
them. `APP` below is `src/hyperliquid_trading_agent/app`.

The program is one Python code base that runs as several processes, one per *service role*
(api, agent, trader, newswire, world_model, discord_publisher, discord_bot, scheduler,
liquidations), around one PostgreSQL database. Inside a process, asyncio tasks share memory and
interleave at every `await`; between processes, everything goes through rows of the database,
read and written by short sessions at READ COMMITTED that mostly do not lock. That is where this
code is hard to test, and it is what the models are about.

## 1. Inventory

### Parts with state of their own and concurrency

| Part | Source | State | Operations | Talks to | What must hold |
|---|---|---|---|---|---|
| worker command queue | `APP/db/repository.py` 486-750, `APP/workers/base.py`, `APP/runtime_commands.py` | table `worker_commands` | enqueue, cancel, retry (API); claim, complete, fail (workers) | API routes, Discord, every worker role | one row per idempotency key; no command run by two workers at once; nothing lost when a worker dies; a closed command stays closed |
| paper portfolio | `APP/autonomy/portfolio.py`, `APP/autonomy/service.py`, `APP/db/repository.py` 7445-7610 | orders, fills, positions, cash: in memory and in `paper_*` tables | draft, confirm (fill, flip), cancel, close, mark to market, hydrate | command loop and autonomy loop of the trader | no order filled twice, cash equals what was booked, memory and tables agree, one side open per symbol |
| service roles and leases | `APP/workers/base.py`, `APP/infra/leader_lock.py`, `APP/db/repository.py` 205-380 | `service_heartbeats`, an advisory lock | start, heartbeat, stop, fail, prune | all workers | one current instance per role, stale ones superseded |
| news pump and bus | `APP/workers/stored_newswire_story_pump.py`, `APP/newswire/bus.py` | consumer offsets, in-process subscribers | list after offset, publish, advance | newswire worker -> consumers | no stored story skipped, offsets only advance |
| Discord news outbox | `APP/newswire/consumers/discord_news.py`, `APP/db/repository.py` 4688-5024 | publish ledger, deliveries with leases | schedule, claim due, send, posted, failed | pump, Discord | each story revision posted, not posted twice |
| operational notifications | `APP/workers/operational_notification_pump.py`, `APP/db/repository.py` 5103-5258 | notification outbox with leases | enqueue (dedupe), claim, sent, failed, dead letter | workers, Discord | nothing lost before the dead letter, at most one sender per lease |
| position tracking | `APP/tracking/service.py`, `APP/tracking/levels.py`, `APP/db/repository.py` 4164-4375 | trackers, levels, alert state | arm, pause, resume, stop, price, expire | websocket worker, alerts | one alert per crossing, none for stopped trackers |
| websocket worker | `APP/hyperliquid/ws_worker.py` | wanted and sent subscriptions, callbacks | subscribe, unsubscribe, reconnect, dispatch | autonomy, tracking | a wanted feed is subscribed in the end |
| engine validation monitor | `APP/engine/monitor.py`, `APP/db/repository.py` | incidents in memory and in a table | open, escalate, keep, resolve; run once by command | notifications | one episode is told once, and none is lost |
| engine operator proposals | `APP/db/repository.py` 5313-5468, `APP/engine/operator_proposals.py` | proposal status | upsert, acknowledge, reject, expire | engine loop, trader commands, API | a decision stays; a proposal is announced once |
| prediction-market paper book | `APP/prediction_markets/paper.py` | accounts, drafts, positions | draft, confirm, cancel, close, settle | trader commands | stake taken and paid out once |
| newswire ingestion | `APP/newswire/service.py`, `stories.py`, `adapters/` | stories, revisions, dedupe | ingest, cluster, classify, emit | pump | a revision per real change |
| world model | `APP/world_model/v2_service.py`, `v2_reducer.py`, `streams.py` | beliefs, evidence, cache | observe, reduce, persist, hydrate | news, trader | the same evidence counted once |
| liquidations | `APP/liquidations/` | dedupe window, aggregates, replay position | ingest, dedupe, reconcile, signal | exchanges | an event counted once |
| HIP-4 paper shadow | `APP/hip4/paper.py`, `scanner.py` | inventory, reserved cash | execute candidate, settle | registry, scanner | no negative inventory |
| engine | `APP/engine/` | event ledger, features, candidates, promotion state | run once, evaluate, promote, throttle | trader loop | promotion only along the ladder |
| governance | `APP/governance/` | review packets, shadow runs | propose, review, export | operators | nothing applied without review |
| orchestration | `APP/orchestration/` | supervisor runs, gate snapshots | milestone, snapshot | scheduler | one immutable record per milestone |

### Parts without interesting state

`APP/agent` (prompting and model calls), `APP/charting`, `APP/news` (fetching), `APP/markets` and
`APP/tradfi` (adapters of market data and the equity simulator), `APP/paper` (schemas and Discord
parsing), `APP/main.py` and `APP/discord_bot.py` (routing of requests to the parts above),
`APP/dashboard.py`, `APP/metrics.py`, `APP/logging.py`, `APP/config.py`, `APP/security.py`,
`APP/vault.py`, `APP/vault_admin.py`, migrations, scripts, tests and docs.

### What is hard

* **Read, decide, write.** Nearly every repository method loads a row, decides on what it loaded
  and commits an `await` later. Two sessions interleave between the two.
* **Partial writes.** SQLAlchemy's unit of work writes only the columns whose value differs from
  what the session loaded. A stale session that "changes nothing" does not overwrite; one that
  does change something overwrites whatever is there.
* **Leases.** Claims of commands, deliveries and notifications time out by the clock while their
  holder may still be at work.
* **Memory beside tables.** Services keep a copy of their tables in memory, change it before the
  `await` of the write, and reload it only when the process starts.
* **Restarts** between any two commits of one operation.
* **Idempotency keys** that live for ever, and retries that derive new ones.

## 2. Modules

| Module | Models |
|---|---|
| `WorkerCommands` | the command queue, its API requests and the command loops |
| `CommandQueue` | what the queue promises: the abstract specification `WorkerCommands` implements |
| `WorkerCommandsProofs` | theorems about `WorkerCommands` and their proofs |
| `MCWorkerCommands` | symmetry sets for TLC |
| `PaperPortfolio` | the paper portfolio in memory and in the database, with the two tasks of the trader |
| `PaperPortfolioProofs` | theorems about `PaperPortfolio` and their proofs |
| `MCPaperPortfolio` | symmetry sets for TLC |
| `StoryFeed` | the story pipeline of the newswire process, the tables it appends to, and the pump of one durable consumer |
| `StoryFeedProofs` | theorems about `StoryFeed` and their proofs |
| `MCStoryFeed` | symmetry sets for TLC |
| `NewsOutbox` | the consumer that turns story revisions into Discord messages, over its table of deliveries |
| `NewsOutboxProofs` | theorems about `NewsOutbox` and their proofs |
| `MCNewsOutbox` | the assignments of revisions to stories, and symmetry sets |
| `PredictionBook`, `MCPredictionBook` | the paper book of prediction markets, over its tables alone |
| `PredictionBookProofs` | theorems about `PredictionBook` and their proofs |
| `PositionTracking`, `MCPositionTracking` | one tracked position: its rows, its copy in memory, and the four activities that share them |
| `PositionTrackingProofs` | theorems about `PositionTracking` and their proofs |
| `NotificationOutbox` | the operational notifications and the pump that delivers them |
| `IncidentMonitor` | the engine's watchdog and its incident, which tells the outbox |
| `OperatorProposals` | proposals of the engine, their announcement through the outbox, expiry and decisions |
| `OperatorAlerts`, `MCOperatorAlerts` | the composition of the three |
| `OperatorAlertsProofs` | theorems about the composition and their proofs |
| `WsSubscriptions`, `MCWsSubscriptions` | the subscriptions of the lazy websocket |
| `WsSubscriptionsProofs` | theorems about `WsSubscriptions` and their proofs |

Every module has the same layout: constants with their assumptions and named bounds, the types,
the variables, one action per database call or uninterrupted piece of a handler, `Next`, `Spec`,
fairness apart from it, and then the properties. Here and there a definition that no
specification uses stands beside another one (`InsertUnchecked` beside `Insert`): it is the same
piece of code with a plausible mistake, named as a mutant in `PROJECT.json` and used to see that
the properties notice it.

The atomicity is the same everywhere. Between two `await`s a task runs alone, so a piece of code
without one is a single action. A session that reads a row, decides and commits is two actions,
`...Read` and `...Write`, since the row is not locked; it is one action only where the statement
locks (`FOR UPDATE SKIP LOCKED`) or is a single `UPDATE`. A commit writes a column only if the
session changed it.

### Worker commands

`rows` is the table `worker_commands`, `worker` and `request` are the positions of the command loops
and of the API requests, `effects` records which attempt of which command took effect.

| Code | Actions |
|---|---|
| `enqueue_worker_command` | `Submit`, `Lookup` (the SELECT by key), `Insert` (with the unique index) |
| `cancel_worker_command` | `CancelRead`, `CancelWrite` |
| `retry_worker_command` | `RetryRead`, `RetryLookup`, `Insert` |
| `claim_next_worker_command` | `Claim`, over `Claimable` |
| `BaseWorker.command_loop` | `HandlerReturns`, `HandlerRaises`, `CompleteRaises` |
| `complete_worker_command`, `fail_worker_command` | `FinishRead`, `FinishWrite` |
| a process that dies; `claimed_at_ms` growing old | `Crash`; `Abandoned` (nobody holds the claim) and `Overrun` (its holder is still at work) |

Two workers of one role are real: the advisory lock of `APP/infra/leader_lock.py` is taken once, at
the start, goes away with its database session, and does not exist outside PostgreSQL.

`CommandQueue` is the abstract specification: commands are waiting, active or closed, a start is
counted, an effect belongs to one start of a command that was active, and nothing starts once
closed. The refinement mapping forgets requests, workers, keys and the difference between the
closed states.

### Paper portfolio

`memOrder` and `memPosition` are the dictionaries of the service, `dbOrder`, `dbFill`, `dbPosition`
and `dbCash` the tables, `task` the positions of the command loop and of the autonomy loop, which
share one service object.

| Code | Actions |
|---|---|
| `initialize`, `_hydrate_persisted_state` | `Initialize`, `Create`, `ListOrders`, `TakeOrders`, `ListPositions`, `TakePositions` |
| `create_draft`, `cancel_draft` | `Draft`, `CancelDraft`, `SaveOrder` |
| `confirm_draft` | `Confirm` (with a rejection, or the close of an opposing position), `Resize`, then `SaveOrder` and the actions of the fill and of the position |
| `close_position`, `close_paper_position` | `Close`, `CloseRead`, `CloseWrite`, `AfterClose` |
| `mark_to_market`, `upsert_paper_position` | `Mark`, `UpsertRead`, `UpsertWrite` |
| `record_paper_fill` | `FillRead`, `FillWrite` |
| a call that raises; a restart | `Fails`; `Crash` |

Cash is not a number but the bag of what was booked into it: the fee of a trade and its profit.
That tells a lost booking and a double one apart for any prices. What was left out: amounts,
sizing and risk caps (a confirmation or its second sizing may be rejected at any time), the equity
snapshots, and the cash copied in memory, which no decision reads. One symbol is enough, since
positions of different symbols share nothing but the cash. A fill and the position it opens
are one trade number. `create_paper_order` is one step because one task alone calls it; its two
gets when closing are one, `CloseRead`.

### Story feed

`story` is what the clusterer holds (a revision number per story), `unassessed` those of its
revisions whose item failed before it was assessed, `storyRow` and `stored` are the
tables `newswire_stories` and `newswire_story_revisions`, `ingest` and `lock` the ingest workers and
`_story_pipeline_lock`, `offset` the consumer's row of `consumer_offsets`, `pump` its position and
batch.

| Code | Actions |
|---|---|
| `NewswireService._ingest` and `NewswireStoryClusterer.upsert` | `Upsert`; `ItemFails` for an item that raises; `UpsertDuplicate` for a repetition of one that failed before its assessment |
| `_persist_story`, `_persist_story_revision` | `PersistStory`, `PersistRevision` |
| `reclassify_stories` | `ReclassifyRead` (before the lock), `Reclassify` (under it) |
| `_hydrate_stories` after a restart | `Restart` |
| `StoredNewswireStoryPump.run_once` | `Poll`, `List`, `HandOver`, `CallbackRaises`, `Advance`, `AdvanceRaises` |
| `_maybe_bootstrap_from_latest` | `Poll`, `Adopt` |
| `run_forever`, a restart of the consumer | `PumpDies`; `RestartConsumer` |

`Isolated` says whether the pump's callback is `InProcessNewswireBus.publish`, which swallows what
subscribers raise (Discord, engine), or the consumer itself (world model). `Bootstrap` is the start
from the latest row (engine, and world model in its second version). `Invalid` are stories whose rows do not validate.

Abstractions: an item that repeats an assessed story is a stutter; update types are created, updated,
retracted and, for the repetition of a failed item, duplicate; revision ids are hashes, so rows of one timestamp are ordered in some fixed
way; a restart of the newswire process includes its hydration, and takes longer than the
timestamps had run ahead of the clock; the part of `reclassify_stories` under the lock is one step,
because everything else that reads its data needs the lock; the bus for WebSocket clients and the
tables of raw events and decisions are left out. There is one newswire process, which its leader
lock is there for, and one pump per consumer.

### News outbox

Story revisions are numbered in the order of the feed, `StoryOf` says whose they are, `Removed`
which are retractions and `Dull` which the policy does not publish. `delivery` holds the rows of
`newswire_deliveries`, `posts` counts the messages on Discord, `old` the leases that have grown old.

| Code | Actions |
|---|---|
| `DiscordNewsPublisher._on_event` | `Consider`, `Ask` (`was_newswire_story_delivered`) |
| `schedule_newswire_delivery` | `GetRow`, `CommitRow`, `ScheduleFails` |
| the pump's offset | `Advance`, `AdvanceRaises` |
| `claim_due_newswire_deliveries` | `Claim`, over `Stale` and `Due` |
| `_dispatch_due_deliveries`, `_send_payload` | `SendAccepted`, `SendRefused`, `AnswerLost` |
| `mark_newswire_deliveries_posted`, `..._failed` | `MarkPosted`, `MarkFailed`, `DispatchRaises` |
| `start` after the process ended; leases growing old | `Restart`; `Abandoned` and `Overrun` |

Which rows are due is left open (any subset may be claimed): schedule, backoff, limit and the
order of modes are not modelled. A payload that does not validate and the publish ledger with its
buffer, used only without an outbox, are left out. What counts as startup backlog grows over
restarts.

### Prediction book

`draft`, `position`, `settled` are the rows, `cash` the account and `ledger` what the fills add up to;
`loop` is the command loop, `view` the portfolio requests of the API process.

| Code | Actions |
|---|---|
| `draft_bet`, `cancel_draft` | `DraftBet`, `CancelDraft` |
| `confirm_draft` | `ConfirmDraft`, then its four commits `TakeStake`, `OpenPosition`, `FillOpening`, `MarkConfirmed` |
| `close_position`, `settle_market`, `sweep_unsettled` | `ClosePosition`; `Settle`, `RecordSettlement`, `ListPositions`; both end in `Pay`, `UpdatePosition`, `FillEnd` of `_settle_position` |
| `portfolio`, `_marked_position` | `ListView`, and `MarkPosition` for each position listed |
| a restart or an exception | `Interrupt` |

Every bet has a stake of one and pays nothing or two; quotes, the catalogue and expiry of a draft
are nondeterministic. The history variables `staked`, `paid`, `opened`, `ended` and `reopened` count
what happened to each draft and position. A command that is cut short is claimed and run again by
the command queue, which the model leaves to the next `ConfirmDraft` or `Settle`.

### Position tracking

`row` is the tracker with its levels in the database, `memory` its entry of `_trackers`, `proc` the
price callback, `reload` the reload loop and the reload behind a thread command, `armer` `auto_arm`.

| Code | Actions |
|---|---|
| `auto_arm` | `ArmCreate`, `ArmPut` |
| `_process_tracker_price` | `PriceArrives`, `PriceWrite`, `Alert`, `Disarm`, `Rearm`, `PutBack`, `Complete` |
| `reload_active_trackers` | `ReloadRead`, `ReloadLevels` or `Expire`, `Swap` |
| `_set_thread_status`, `_set_thread_ttl` | `ThreadCommand`, `ThreadSet`, then the reload of the thread |
| the trader worker's commands | `WorkerCommand` |
| a restart; a write or an alert that is lost | `Crash`; the alternatives with `Lost` |

One tracker is enough because no two share anything; levels are crossed downwards, which the code
mirrors for the other side. A plan is armed at any price of `ArmPrices`, below some of its levels
perhaps, or at none (`NoPrice`); `quote` is the price until the copy is in memory. Where levels lie
is left to `PriceOf`. How levels are derived from a plan, the wording of alerts and the limit
of active trackers are left out. Prices, commands and faults share one budget (`MaxEvents`).

### Notifications, watchdog and proposals

`NotificationOutbox` holds `row`, `attempts`, `lapsed` leases and the `posts` on Discord; `Enqueue`
deduplicates by key, `Claim` takes due rows and expired leases, `Delivered`, `Refused`, `AnswerLost`
are the send, `MarkSent`, `MarkFailed` (with the dead letter) the marks, and `PumpDies` is the mark
that raises inside the handler of the exception, which ends the task. `IncidentMonitor` has
the check whether incidents are loaded, their listing and their installation as three steps
(`EnsureLoaded`, `List`, `Install`) of each caller: the watchdog's run, twice, and the operator's command
`engine_validation_monitor_run_once`, which detects on the same service in another task. After them
come `DetectionEnds` or a decision (`Alert`, `NoAlert`), `Persist` and `Send`. `OperatorProposals` has
the pass over the candidate book (`ProcessBook`, `SkipExisting`, `Propose`, `Announce`), `Expire` with
its three callers, and a decision as `Get` and `Commit`. `Persist`, `Propose` and `Commit` may commit
and raise all the same. `OperatorAlerts` composes them: what
`Send` and `Announce` enqueue is a row of the outbox, the trader and the publisher restart on their
own, and `Settings` says which of monitor, command, proposals and publisher there are.

What the detectors compute, the pending samples that `_duration_alert` counts before it alerts, the
daily digest and how eligibility is computed are left out. There is
one pump, since the publisher holds the lock of its role.

### Websocket subscriptions

`registered` and `leaked` are the entries of `_callbacks`, `ws`, `sent` and `loop` the fields and the
task of the worker, `served` what the exchange sends, `cut` the sends whose socket closed.

| Code | Actions |
|---|---|
| `subscribe`, `_send_subscribe` | `Subscribe`, `SubscribeFrame`, `SubscribeReturns` |
| `unsubscribe`, `_send_unsubscribe` | `Unsubscribe`, `UnsubscribeFrame`, `UnsubscribeReturns` (with the close), `UnsubscribeRaises` |
| `start`, `_wait_for_desired_subscriptions` | `Wanted`, `ConnectFails`, `LoopResumes`, `LoopEnds` |
| `_run_once` | `Connect`, `LoopFrame`, `LoopSent`, `LoopSendRaises`, `LoopLeaves`, `LoopLost` |
| `stop`; the network | `Stop`; `ConnectionLost` |

A section under `_lock` never awaits inside, so it is part of one action and the lock is never
waited for. A send puts its frame on the socket and may then wait for the transport, which is why it
is two actions; on a closed socket it raises. The dispatch of messages to callbacks changes only the
cache of prices and is left out, as are pings.

## 3. What the runs check

The run in *italics* shows a disagreement between the code and one of its tests; see section 6.

| Run | Instance | Shows |
|---|---|---|
| `commands_safety` | 2 workers, 2 requests, 2 commands, 1 crash | `TypeOK`, `ExclusiveExecution`, `OneRowPerKey`, `CompletedMeansDone`, `NeverReopened` |
| `commands_liveness` | 2 workers, 2 requests, 1 command, 1 crash, 1 overrun | `EveryCommandSettles`, and `ImplementsQueue` with a handler that outlives its claim |
| *`commands_cancelling_forever`* | 1 worker, 1 request, 1 command | `CancellationSettles` is violated |
| `paper` | 3 orders (2 long), 3 trades, 1 failure; the command loop alone from the start with 2 restarts, or both tasks on a hydrated portfolio | `TypeOK`, `OneTaskInStep`, `NothingTwice` |
| `feed_liveness` | 2 ingest workers, 2 stories, 2 revisions each, 2 restarts | `RevisionsSurvive`, `StoriesInOrder`, `EveryRevisionHanded` |
| `feed_failures` | the world model's consumer; one story invalid; a reclassification, a forgotten story, a restart, a failed call and a repetition of a failed item | `TypeOK`, `NoneSkipped`, `NumbersGoOn` |
| `outbox_two_publishers` | 2 publishers, 2 revisions of one story, 1 restart, 1 overrun, 1 failure | `TypeOK`, `RepeatsAreFaults`, `ScheduledBeforePassed`, `OneSender` |
| `outbox_liveness` | 1 publisher, a story and its retraction, 1 restart, 1 failure | `PostedStaysPosted`, `EveryDeliverySettles` |
| `prediction` | 2 drafts on 2 markets, 1 command cut short, 2 portfolio requests | `TypeOK`, `PaidPerOpening`, `OnePositionPerDraft`, `MoneyRecorded` |
| `tracking` | 2 levels (one ends the tracker, one may be armed again), armed above both or beyond; 3 prices, commands or faults | `TypeOK`, `RepeatsAccounted`, `NoCrossingSwallowed`, `TerminalEnds`, `QuietInTheEnd` |
| `alerts` | the watchdog with 2 episodes and 2 severities, with a publisher or with the operator's command, or the proposals with one candidate and a publisher; 2 attempts, 1 restart, 2 failures | `TypeOK`, `RepeatsAreFaults`, `ToldOrFault`, `OneEpisodeAtATime`, `DecisionsFinal`, `EveryNotificationSettles` |
| `sockets` | 3 services, 2 of them on one feed; 5 calls, 2 lost or refused connections | `TypeOK`, `ServedAsWanted`, `SocketFollowsWishes` |

Deadlock is not checked: a queue with nothing to do, and a run at its bounds, stops.

### Bounds

Every bound is a constant `Max...` that guards the action it counts.

* *Commands.* Two rows are what a retry or two requests with one key need; two workers are what an
  overlap needs. No property speaks of three rows: rows meet only through their keys. The liveness
  run has one row, because a row waits for others only as long as there are older ones, and there
  are finitely many.
* *Paper.* Three orders are two on one side and one on the other, what a flip that leaves
  something behind needs; two restarts let the second one come after work on hydrated state.
* *Feed.* Two stories and two ingest workers give every order of timestamps and commits; two
  revisions per story give an order within a story; batch 2 gives a batch that is interrupted.
  `MaxTime` lets timestamps run ahead of the clock and the clock overtake them.
* *Prediction.* Two drafts give a sweep that is cut short between two positions; two requests give one
  that writes back what another one reopened; `MaxPositions` lets a repeated confirmation open its
  second position.
* *Tracking.* Three events are a price, a command and a fault in any order, with any number of
  reloads between their steps; the third makes a stale copy matter, which takes a write, a reload
  that read before it and a price after it. A plan is armed above both levels or at the lower bound of
  prices, at or beyond both; one without a price compares in the same way, and the proof covers it.
* *Alerts.* Two attempts are the first and the dead letter; two episodes and two severities give an
  escalation and a second incident; two failures let both listings of one run fail, so that it decides
  without any. The watchdog and the proposals share nothing but the outbox, and so `Settings` has one of
  them at a time; the command stands beside the watchdog without a publisher, since neither reads what
  the publisher marks. The restart is of either process.
* *Sockets.* Two services on one feed are what both races need; three calls cross each other, and the
  other two bring the socket back to rest; the second lost connection comes while the loop is
  subscribing again.
* *Outbox.* Two publishers and one lease that runs out give a row that both hold; two revisions of
  one story give the retraction that asks for the first.

Symmetry is used for workers, requests, ingest workers, publishers and orders of one side, in runs
without liveness only.

## 4. Fairness

* `WorkerCommands!FairSpec`: the command loops poll for ever and handlers end, requests under way
  are answered, and an abandoned claim grows old. Crashes and new requests are never forced.
* `StoryFeed!FairSpec`: weak fairness of the pump's steps, which an asyncio task that polls has while
  the database answers. Nothing forces an item to arrive.
* `NewsOutbox!FairSpec`: weak fairness of the pump and of the loop, abandoned leases grow old, a due
  row is claimed in the end (rows are taken in the order of their schedule with a limit of at least
  ten, and rows that fail back off), and a message offered to Discord again and again is accepted
  (`mark_newswire_deliveries_failed` retries without a limit).
* `PositionTracking!FairSpec`: weak fairness of the price callback's steps, of each reload's, of the
  command in the thread and of `auto_arm`: all are tasks of one event loop that is running. Prices and
  commands are never forced.
* `OperatorAlerts!FairSpec`: weak fairness of the pump's steps and of leases that run out, where there
  is a publisher. Nothing
  forces a run of the watchdog or of the engine. A pump whose task ended is not revived; the property
  says so.
* `WsSubscriptions!FairSpec`: weak fairness of the connection loop and of each call of subscribe and
  unsubscribe that has begun. The exchange refuses or drops finitely many connections (`MaxDrops`).
* `PaperPortfolio` and `PredictionBook` have no liveness property: their operations are requests that
  end or fail.

## 5. What is proved

Every invariant and every action property that a run checks, and the refinement, is also a theorem,
for every value of the constants that satisfies the assumptions of its module (the bounds are
naturals, and what is named below). TLC checked each inductive invariant on the instance of a run
before it was proved.

| Module | Theorem | Property |
|---|---|---|
| `WorkerCommandsProofs` | `TypeCorrect` | `TypeOK` |
| | `Exclusion` | `ExclusiveExecution` |
| | `KeysAreUnique` | `OneRowPerKey` |
| | `CompletionIsHonest` | `CompletedMeansDone` |
| | `ClosedForGood` | `NeverReopened` |
| | `Refinement` | `ImplementsQueue` |
| `PaperPortfolioProofs` | `TypeCorrect` | `TypeOK` |
| | `NothingHappensTwice` | `NothingTwice` |
| | `OneTaskKeepsStep` | `OneTaskInStep` |
| `StoryFeedProofs` | `TypeCorrect` | `TypeOK` |
| | `CursorPassesNothing` | `NoneSkipped`, for a consumer that is not `Isolated`; it excepts repetitions of failed items |
| | `NumbersNeverGoBack` | `NumbersGoOn` |
| | `OrderKept` | `StoriesInOrder` |
| | `RestartLosesOne` | `RevisionsSurvive` |
| `NewsOutboxProofs` | `TypeCorrect` | `TypeOK` |
| | `NoSharedRow` | `OneSender` |
| | `PostedRowsStay` | `PostedStaysPosted` |
| | `NoneUnscheduled` | `ScheduledBeforePassed` |
| | `RepeatsArePaid` | `RepeatsAreFaults` |
| `PredictionBookProofs` | `TypeCorrect` | `TypeOK` |
| | `PayoutsAccounted` | `PaidPerOpening` |
| | `OpeningsAccounted` | `OnePositionPerDraft` |
| | `MoneyIsRecorded` | `MoneyRecorded` |
| `PositionTrackingProofs` | `TypeCorrect` | `TypeOK` |
| | `AlertsArePaid` | `RepeatsAccounted` |
| | `CrossingsAlerted` | `NoCrossingSwallowed` |
| | `HitsEndTrackers` | `TerminalEnds` |
| `OperatorAlertsProofs` | `TypeCorrect` | `TypeOK` |
| | `RepeatsAccounted` | `RepeatsAreFaults` |
| | `ToldOrAccounted` | `ToldOrFault` |
| | `OneEpisode` | `OneEpisodeAtATime` |
| | `DecisionsStay` | `DecisionsFinal` |
| `WsSubscriptionsProofs` | `TypeCorrect` | `TypeOK` |
| | `WishesServed` | `ServedAsWanted` |

None of the properties is inductive alone. Each proof has one lemma per action or group of actions,
with a step per conjunct that the action can disturb, and frame lemmas for conjuncts whose variables
it leaves alone.

**Worker commands** (`NoKeyAssumption`: `NoKey` is no key). `IInv` joins the four invariants with
`RequestInv` (rows from `nextId` on are absent, an absent row is empty, and an insertion under way
names a row of its own: otherwise an `Insert` might hit a row in use, or two might meet), `ClaimInv`
(a worker at work names an attempt that its row has counted, no two share one, and its effect is
recorded exactly when its handler is done: this is why `completed`, written without a look at the
row, is backed by an effect) and `LeaseInv` (without overruns a claim that somebody holds is not
stale). `ClosedForGood` and `Refinement` use `IInv` in the state before the step.

**Paper portfolio** (`OrdersAssumption`: long orders are orders, `NoOrder` is none). `BooksInv`
joins the types with

* `StartInv`: with both tasks, nobody starts until the first restart; alone, memory is empty until
  it has been filled from the tables, and no command runs before that or before it was given up;
* `UsedInv`: a trade that memory, a table or a task knows of has its order, so that a new one is
  new;
* `OrderInv`: an order that is filled in the table is never new in memory, and the one that is being
  filled has no fill yet. This gives one fill per order, over restarts, too;
* `BookInv`: a task carries the cash it loaded until it writes it, and both that and the table's
  hold no booking twice; a profit that was paid, in the table or in a task's hands, is of a trade
  that is neither open in memory nor being closed, and one task at most closes a position. Thus a
  write of old cash loses bookings but never doubles one;
* `LedgerInv`: alone, a command's copy of cash and row is what the tables have, and the tables add
  up at each commit;
* `AgreeInv`: alone and while nothing failed, memory and tables differ only in the order and the
  position that the command is at work on.

**Story feed** (`StoriesAssumption`, `LockAssumption`, `SettingsAssumption`: stories are positive
numbers, nobody is not an ingest worker). `LockInv` says that only the lock's holder has an item in
hand; `TimeInv` that the next timestamp is later than all, that timestamps are unique, and that the
one in hand, if it is no repetition, is later than all that are stored; `PumpInv` that a batch is
the head of what is pending, rows stored since it was listed included, late repetitions apart.
`HandledInv` (nothing handled is later than something pending) gives `StoriesInOrder` with
`NumberInv`. `CursorPassesNothing` is about a callback that reports its failures, since a bus that
hides them moves the offset over what its subscribers did not take: hence its hypothesis.
`NumberInv` orders the numbers in memory, in the rows and in the feed as long as `Untroubled` holds,
that is, no call failed and no story was forgotten or put back (until then the properties about
numbers hold); `Excused` counts what was emitted and is neither stored nor in flight.

**News outbox** (`FeedAssumption`: every revision has a story, retractions and dull revisions are
revisions). `LeaseInv`: the row that a loop has sent is one of its rows, and while leases hold each
of its rows is `sending`, or `skipped` by a pump that read it before it was leased; neither is due,
and none is old, so that no other loop can claim it. `DullInv`: before the first restart all pumps
decide alike on the revision of a living story, and one that they skip is never pending, leased or
posted; thus neither a pump, which writes `skipped` over what it read as `pending`, nor a mark,
which looks at nothing, reaches a posted row. `PassInv` counts the revisions without a row that the
offset has passed or will pass when a pump advances; the slower of two pumps may put it back and the
other ahead again, and the count does not change. `PostInv` is a balance for each revision: messages
sent, publishers that may still send one, and the row's offer to the next, are together one and the
faults at most.

**Prediction book** (`DraftsAssumption`, `CashAssumption`). `LoopInv` and `RowInv` say what the
command loop points at and that rows that are not there are in no list. Three balances follow.
`PayInv`: what was and may still be paid for the positions beyond one each, and beyond what
portfolio requests reopened, is covered by commands cut short. `OneInv`: so are the positions of
each draft beyond its first and the drafts that have a position and are not confirmed. `FollowInv`:
so are the movements of cash without a fill, apart from the one at work; `CashInv` says that until a
command was cut short cash and fills differ by what the one at work has moved. Sums over drafts and
positions are cardinalities of sets of units (`Sum`), which finite-set theorems can count.

**Position tracking** (`LevelsAssumption`: a level that ends the tracker is not armed again; nothing
is assumed of where levels lie). `CreditInv` is a balance for each level: its alerts, and the one it
may still raise as things are, are one plus its armings, stale copies and faults at most.
`AgreeInv`: as long as no stale copy was installed and nothing failed, copy and row agree between
two prices, a tracker that has seen one is on the near side of its armed terminal levels, and during
a price the row is on its way to what will be put back (`PlanInv`) and what the price is to alert
(`owed`) is among the hits that the callback has yet to alert. `EndInv`: a live tracker has its
terminal levels armed, unless the callback is about to complete it.

**Notifications, watchdog and proposals** (`OutboxAssumption`, `MonitorAssumption`,
`KeysAssumption`, `SettingsAssumption`, `ProposalsAssumption`: at least one attempt and one sample
to recover, and incidents and proposals have keys of their own). Each component has lemmas of its
own about a step that leaves the other two alone. `OutboxInv`: a batch's rows stay leased, and
messages beyond a row's first are paid by faults (`Credit` is the first one). `Lost` are the keys
decided on that neither are in the outbox nor on their way; failed calls and restarts cover them.
`EpisodeInv` says that what memory, the row, a write under way and a listing not yet installed know,
each on its own, keeps a run from starting an episode before a resolution, up to failures and
overwriting loads; `LateInv` that a start of the trader has one such load at most, the second of two
callers. `DecisionsFinal` follows from `CommandProper`: nothing
decides a proposal between a command's look and its commit.

**Websocket** (`ClientsAssumption`: every client has a feed). While the socket is open, `ServedInv`:
what is wanted is served or will be by the loop or the client that wants it, what is served is
wanted or will be unsubscribed, and what was sent is served or was just unsubscribed; `WishInv` says
that nobody wants what is being unsubscribed unless the two raced.

Model-checked only, because fairness and ENABLED are beyond the prover: the liveness properties
`EveryCommandSettles`, `EveryRevisionHanded`, `EveryDeliverySettles`, `QuietInTheEnd`,
`EveryNotificationSettles` and `SocketFollowsWishes`.

## 6. Disagreements found

`commands_cancelling_forever` has a counterexample in which a cancellation that read `claimed`
overwrites `completed` with `cancelling`; the command is then in a state that is neither claimed nor
retried, where a test expects it to end. The quotation is in `PROJECT.json`.

Other behaviour of the models that differs from what a document or comment says. The properties are
stated so that they except it, and dropping the exception gives TLC's counterexample:

* *Paper.* `mark_to_market` may close a position whose row is not inserted yet: the close is lost
  in the table although no call failed (`MemoryPersisted` for both tasks).
* *Feed.* `reclassify_stories` may put back a story that it read before it had the lock, and so
  undo a revision made in between (`Untroubled` in `NumbersGoOn` and `StoriesInOrder`).
* *Feed.* An item that fails before its assessment leaves its revision in the clusterer; a later
  repetition of it is not dropped (`APP/newswire/service.py:234`) and stores that revision with its old
  timestamp (`stories.py:119`), behind the cursors of consumers that went on, which never see it (the
  last exception of `NoneSkipped`).
* *Outbox.* A batch slower than its lease is sent by two publishers, although the claim is there
  "so overlapping publishers cannot double-send them" (`APP/db/repository.py:4955`).
* *Outbox.* With two publishers a retraction that one has posted may be overwritten as skipped by the
  other, which asked earlier (`PostedStaysPosted` for retractions).
* *Tracking.* A reload that read a level before it was disarmed arms it again in memory, and it alerts
  twice; `docs/plans/2026-06-14T21-55-14Z-live-position-tracking-websocket-level-alerts.md:19` promises
  one alert (`RepeatsAccounted` counts such copies in `stale`).
* *Watchdog.* Of the watchdog and the command that both found nothing loaded, the slower one puts the
  rows it listed over an incident that the other opened meanwhile (`APP/engine/monitor.py:438`); the
  next run opens it anew and tells it again (`overwrites` in `OneEpisodeAtATime`).
* *Websocket.* A subscription made while another service is still unsubscribing the same feed is
  not served until the next connection (`raced` in `ServedAsWanted`).

The models contain more behaviours that a reader of the code may not expect, and the properties
are stated with them in mind: a cancellation that read `pending` marks a claimed command cancelled;
a second retry of one command, and any request whose key was used before, is answered with the
existing row, closed or not; a flip with two open positions closes one of them; the bus hides
failures from its pump, which moves on (`Isolated`); a consumer that starts from the latest row
counts as history what arrives between a first poll of an empty table and the next; a forgotten
story that returns rewrites its revision 1; one failing read ends a pump for the life of its process
(`PumpDies`); a restart between a message and its mark repeats the message;
a plan armed at or beyond its stop alerts it on the first price, whereas a level that does not end the
tracker stays silent until it is crossed.

A prediction bet may be paid twice when a portfolio request writes a stale row over a closed one, and
a confirmation cut short takes a second stake; an incident that was persisted and not yet told is
never told, nor is a proposal whose commit took effect in a call that raised; a failed send leaves a websocket entry nobody can remove, which keeps its feed wanted,
and may leave a dead socket current and reported as connected.

Where a property fails under a fault that the code accepts, it is stated so that it says what
remains: `ExclusiveExecution` and `OneSender` as long as no holder outlives its lease,
`RevisionsSurvive`, `NumbersGoOn` and `StoriesInOrder` while `Untroubled` holds, and `RevisionsSurvive`,
`ScheduledBeforePassed`, `ToldOrFault`, `PaidPerOpening` and `RepeatsAccounted` up to
the number of faults, `PostedStaysPosted` until a restart, `OneTaskInStep` for the command loop alone.
With both tasks a booking may be lost (two sessions load and write the cash) and after a restart a
position may be closed again; `NothingTwice` says what remains.

## 7. Not modelled

* The parts without interesting state of section 1: input, output, routing and configuration.
* The numeric ones: world model, liquidations, engine scoring, HIP-4. They compute with
  floating-point numbers and sliding time windows; a model would have to replace the computation,
  which is all there is to get wrong, by a choice. How they consume the news feed is in `StoryFeed`,
  how they subscribe feeds in `WsSubscriptions`.
* Governance and orchestration write a record once and never change it.
* Service roles and leases: a heartbeat is read by reports and never by another process, and the
  leader lock is one call of PostgreSQL that a process makes when it starts. The models say where they
  rely on it (one newswire process, one notification pump) and where they do not (several workers
  of one role, several publishers).
* Of modelled parts: prices, sizing and risk checks of the paper portfolio, adapters and
  classification of the newswire, the publish ledger of Discord news without an outbox, detectors,
  pending samples and digests of the monitor, derivation of levels from a plan, dispatch of websocket messages.

## 8. Plan

Models, most important first:

1. `NewsDelivery`: `StoryFeed` and `NewsOutbox` composed over the feed's table and the publisher's
   offset; an abstract outbox (a revision is due, settled, and on Discord at least once) that
   `NewsOutbox` and `NotificationOutbox` implement.
2. `ServiceLease`: heartbeats and the advisory lock; at most one current instance per role, and what
   is left of it when the session that held the lock is lost.
3. `PositionTracking` over `WsSubscriptions`: the tracker's subscription follows its trackers.

Proofs: every invariant, action property and refinement that a run checks is proved. What is left
goes with the models above: that `NewsOutbox` and `NotificationOutbox` implement the abstract outbox,
with the balances of messages of section 5 as its step simulation, and that the composition keeps a
stored revision from being passed by both offsets.
