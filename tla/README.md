# A TLA+ model of chain-pulse

chain-pulse watches a Subspace node.  The *alerter* posts stalls, reorgs, slow
slots and notable events to Slack; the *indexer* writes cross-domain transfers
(XDM) and staking data to PostgreSQL.  Both stand on one task, the block
tracker of `shared/src/subspace.rs`.  This directory models the parts of the
program whose correctness depends on the order in which things happen, checks
them with TLC on small instances and proves the central results with TLAPS.

## The system

| Part | State it keeps | Operations | Talks to |
|---|---|---|---|
| Block tracker, `shared/src/subspace.rs` `listen_for_all_blocks` | current best block, header cache by hash and by height, subscription | subscribe, load the cache, receive a block, ask whether it is canonical, compute the tree route (fetching missing headers), broadcast `BlocksExt`, prune, reconnect | node RPC; broadcast channel of 100 messages |
| Block processor, `indexer/src/processor.rs` `run_processor` (one for XDM per chain, one for staking) | checkpoint in `indexer.metadata` | receive a message, read the checkpoint, compute the batch, process blocks in parallel, save the checkpoint | the channel; node RPC by block number; database |
| Staking processor, `indexer/src/staking.rs` | operators, nominators, deposits, withdrawals, share prices | one script of SQL statements per block | database |
| XDM processor, `indexer/src/xdm.rs` | one row per transfer | upsert on initiation, execution, acknowledgement | database, shared by two chains |
| Stall and reorg monitor, `alerter/src/stall_and_reorg.rs` | last best block, accumulated time without a block | time out, receive a message | the channel; Slack queue |
| Slot monitor, `alerter/src/slots.rs` | window of 600 slots, last instant, accumulated timeout | receive a slot, time out | proof-of-time gossip; Slack queue |
| Event watcher, `alerter/src/events.rs` | the message in hand | read a block's events and balances, send its alerts | the channel; node RPC; Slack queue |
| Slack alerter, `alerter/src/slack.rs` | an unbounded queue, the alert being posted | open the session, take an alert, post it | every monitor; Slack |
| REST API, `indexer/src/api.rs` | none | one query per endpoint; lists by pages | database; clients |
| P2P network, uptime push | two peer sets, none | forward slots, push | the outside |
| Supervision, both `main.rs` | the set of tasks | the first task that ends ends the process; the container restarts it | everything |

What is hard here, and a test hardly reaches:

* The tracker asks the node three questions about each block, and the node goes
  on importing and reorganising between them.
* A reconnection keeps the header cache, loads it again and silently moves the
  current best block; a restart loses everything but the database.
* The channel drops its oldest message when a reader is slow: the indexer goes
  on, the alerter ends.
* The processor learns *that* blocks were enacted from a message and reads
  *which* by number later, up to a thousand at a time, in any order.
* Checkpoints are saved in the middle of a batch, and a crash may come at any
  statement.
* An alert passes two channels and an HTTP request in a process that any of its
  tasks may end; nothing of it is kept.
* A client of the REST API reads a list in several requests, and the processors
  write in between, not in the order of the blocks.

`PROJECT.json` lists these hazards at their lines, with the properties that
would catch each of them going wrong.

## The modules

**BlockTree** holds the tree of blocks as a constant (`Parent`, `Number`) and
what `sp_blockchain::tree_route` answers about it: `Enacted`, `Retracted`,
`Meeting`, `RouteHeaders`, and `AtHeight` for the node's
`chain_get_block_hash`.  `Chain[b]`, the branch ending in `b`, is the least
set that contains `b` and is closed under `Parent`.  It could be written by
recursion; written this way every fact about it follows by choosing a closed
set, which needs no induction.

**ChainFeed** is the abstract specification of the tracker: whether it listens,
its tip and the last message.  While it listens the tip moves by `Publish` only,
with a message that leads from the old tip to the new one (`Leads`): undoing the
retracted blocks and adding the others turns the old branch into the new one
(`Replays`), and the common block is where the two meet (`Meets`).  What a
message must do is stated there; which blocks the code puts in it, from the tree
route, is `BlocksExt` of BlockTree.  Without a message the tip moves in
`Connect`, which ends a first or a repeated load of the cache, and in `Forget`,
the start of a process, and at neither moment does the tracker listen;
`Disconnect` keeps the tip.

**BlockTracker** is the tracker beside the node.  Each variable names the
Rust variable it stands for.  Each await is a step of its own:

| Action | Code |
|---|---|
| `Subscribe`, `Reinitiate` | the loop of `listen_for_all_blocks` and its `continue` arms |
| `ReceiveFirst`, `CheckFirst`, `LoadHeight`, `FinishLoad` | `load_header_metadata_cache`; the buffered requests are answered in any order, each from the chain that is canonical at that moment |
| `Receive`, `Check` | the head of `listen_for_blocks` and `is_canonical_block` |
| `FetchHeader` | one round of `recursive_tree_route`, for the header the walk misses first |
| `SkipBlock`, `Broadcast` | the rest of `listen_for_blocks`, with the pruning |
| `RpcFails`, `SubscribeFails`, `Restart` | a failed await; `subscribe_all().await?`, which ends the process; the container's restart |

The node is external: `NodeImport` commits a block as best or as a fork,
`NodeNotify` announces it afterwards, `OpenStream` connects a new subscription
to the notifications a moment after it was given the best block.  Fork choice
is left open, so the model covers every rule.  A block imported while the
subscription is opened may never be announced.  Two history variables are not
in the code: `view`, what a reader of every message holds, and `resynced`.

**Processor** is `run_processor`, with the tracker reduced to its tip and the
messages BlockTracker sends (`BlocksExt`): `TrackerCheck`
and `TrackerPublish` are the two moments (canonical check, broadcast) between
which the node may move on, `TrackerReload` is a reconnection.  `RecvLagged`,
`RecvMessage` (which computes the batch), `FetchBlock`, `StoreBlock`,
`YieldBlock` and `FinishBatch` are the loop; the fetches and stores of up to
`Parallel` heights interleave.  `Crash` and `Restart` leave the database alone.
`indexed` abstracts the tables to the block processed last at each height.
The history variables `missed` and `raced` record which blocks the processor
cannot have known about and which heights it read from a branch the tracker
had not reported.

**StallMonitor** is `watch_chain_stall_and_reorg` at its end of the channel.
`Tick` lets time pass, `Send` is a broadcast of the tracker, `Recv`,
`RecvLagged` and `Timeout` are the three outcomes of
`time::timeout(.., stream.recv())`; a ready task may be polled late, and
`Timeout` is enabled only while there is nothing to receive, as Tokio's timeout
polls the receiver first.  `Exit` and `Restart` are the supervision of `main`.
A message is the number of blocks it retracts; `quiet` and `silence` are
history, the true lengths the reported durations are compared with.

**StakingStore** is `index_staking_for_block` as the list of statements it
issues (`Script`), and the functions of `storage.rs` as operators on the tables
under their own names.  `StartBlock`, `Statement` and `ReadStorage` interleave
the scripts of up to `Parallel` blocks; `StartBatch`, `YieldBlock`,
`FinishBatch` and `Crash` are the processor's loop and its checkpoints.
`upsert_nominator` is two statements, as in the code, and the second one two
steps: under READ COMMITTED the sub-select of the count sees the tables as they
were when its statement began (`SelectCount`, `counted`), and the number is
written when the operator's row is free, with other blocks' statements in
between.  A crash ends a statement that has not written yet.  The chain's own state,
which `read_storage` sees, is derived from the events (`OperatorAt`,
`NominatorAt`): what became of an operator or a nominator is said by the last
event about it.  That state is external.  A status may also change without an
event the code looks for (`SilentKinds`: `pending_slash`, `invalid_bundle`); a
price is read for the current operators that have one when an epoch ends (`ops`
of the event).  `ForEvent` is what one event makes the
code do, and the script takes the kinds of events in the order of the code's
loops (`Order`).  A batch may start below the checkpoint
(`MaxRewinds`): that is a message of several blocks, or a checkpoint that could
not be read and was taken for 0.  The history variables `torn`, `owed` and
`degraded` record which rewrites were cut short and whether a read failed,
`overtaken` the operators whose nominators changed between the snapshot of a
count and its write.

**XdmStore** is `index_events_for_block` of the processors of two chains in one
process.  The three `store_*` operators are the column lists of the three
upserts, `Key` the primary key each of them computes from its own side of the
transfer, `StoreEvent` one statement.  `Crash` ends all chains' processors.
The events of a domain come from segments of its storage
(`events_from_segments`): a segment keeps what the last block that reached it
wrote, so the code may read more than the block's own events and has to cut
them off.

**XdmApi** adds the endpoints for transfers and health.  A query is an operator
that gives *every* answer the database may return, since `ORDER BY` a time
orders no two rows of one time.  `HealthRead` is one of the side-by-side
queries of a health request, which may see the chains at different moments;
`HealthFails` is a processor without a checkpoint yet, which fails the request.

**StakingApi** adds the staking endpoints, each one a query of StakingStore's
tables under its own name (`get_deposits`, `operator_share_prices`, ...), and a
client that reads a list to its end: deposits and withdrawals by `limit` and
`offset`, share prices by `since` from the oldest or by `until` from the newest.
`Index` is any step of the processor.  `start` and `disturbed` are history, the
rows there were when the client began and whether one was deleted since.

**EventWatcher** is what `watch_events` makes of a block: `AlertsOf` is the
list of alerts in the order they are sent, built from
`filter_known_account_transfers`, `check_low_balances` and `as_events`.  The
configuration's lists become maps in which the last entry of an address wins,
and thresholds are scaled by the token's decimals, as in the code.

**AlertPipeline** composes the tracker's feed, EventWatcher and the Slack alerter:

| Action | Code |
|---|---|
| `Load`, `PublishBlocks` | the tracker, reduced to its tip, and the broadcast channel |
| `Recv`, `ReadBlock`, `SendAlert`, `RecvLagged` | the loop of `watch_events`; `ReadBlock` chooses the balances that cannot be read |
| `OtherAlert` | a send of the stall, reorg or slot monitor on the same channel |
| `AuthTest`, `Take`, `Post`, `PostFails` | `SlackAlerter::run`; a failed post may have reached Slack |
| `Exit`, `Restart` | `join_next` in `main` and the container's restart |

`EnactedInOrder` are the enacted blocks of a route from the lowest on, as
`tree_route` lists them.  The history variables `dropped`, `unread` and
`skipped` hold what the code gives up: alerts whose post failed or that went with the process, blocks it had not
read, and balance checks it passed over.

**SlotMonitor** is `monitor_slots`, one action per arm: `RecvLagged`,
`RecvFirst`, `RecvOther`, `RecvNext`, `Timeout`.  `Gossip` delivers any slot at
any time, since peers repeat, reorder and lose them.  `ForcePush` is the
library's `BoundedVec::force_push`, which truncates a full vector by its *last*
element: from the 600th slot on the vector keeps the first 599 and the newest.
`early` is history, the timeouts before the first slot, which that slot leaves
in `timeout_fired`.

**SeqOps** has `Among`, the elements of a sequence that are in a set, which is
`Iterator::filter`, and `Flat`, the sequences of a sequence one after the other,
which is `Iterator::flatten`.  They are recursive functions and not `SelectSeq`
and `FlattenSeq`, which the prover cannot unfold; Lemmas says what they return
for every sequence.

The `MC` modules give the constants values: trees of five or six blocks with two
branches that meet at genesis, for StakingStore two chains of three blocks in
which operators and nominators come, change and leave, for XdmStore a
consensus chain and a domain with transfers both ways, one of which fails, and
for AlertPipeline a fork in whose blocks a watched account falls below its
threshold, holds exactly its threshold, and is removed.

## What the runs check

| Run | Checks | Bounds |
|---|---|---|
| `tracker` | `TypeOK`, `Converged`, `FeedExact`, `NoBareRetraction`, `FeedImplemented`, `Settles` | 5 blocks, depth 1, one failure |
| `tracker_gap` | violation of `FeedExactAcrossReconnects` | one failure |
| `processor` | `TypeOK`, `CheckpointComplete`, `StaleOnlyIfMissed`, `KeepsUp` | 5 blocks, checkpoint every 2, 2 in parallel, channel of 1, one failure |
| `processor_reorg` | violation of `ReorgOverwrites` | 3 blocks |
| `stall` | `TypeOK`, `DeepReorgsReported`, `NotOverstated`, `RecoveryOfStall`, `StallNoticed` | thresholds 2, channel of 2, 3 messages per process, silences of 4 ticks, one exit |
| `staking` | `TypeOK`, `NominatorsExact`, `LedgerExact`, `CountsExact`, `OperatorsExact` | 3 blocks, 2 in parallel, 2 failures, one rewind |
| `staking_status` | violation of `NewestStatusWins` | 3 blocks, 2 in parallel, no failure |
| `paging` | `ToldIsFound`, `CountsAgree`, `NoneMissed`, `PricesComplete` | 3 blocks, 2 in parallel, pages of one row, one rewind, no failure |
| `xdm` | `TypeOK`, `CheckpointCovers`, `NothingInvented`, `HealthCovers`, `RecentAreNewest`, `NothingUnsaid` | 3 and 2 blocks, 2 in parallel, segments of 2 events, 2 recent transfers, one crash, one rewind |
| `alerts` | `TypeOK`, `ToldOnce`, `ToldTrue`, `ToldInOrder`, `EverythingTold` | 4 blocks, channel of 1, 2 messages, one alert of another monitor, one failed post or read, one exit besides those of lag |
| `slots` | `TypeOK`, `TimeCountedOnce`, `StallSinceLastSlot`, `RecoveryIsSlow`, `NextSlotTaken` | timeout and per-slot threshold 2, vector and channel of 2, 5 ticks, 3 slots in 4 deliveries, one exit |
| `slots_lost` | violation of `SlotsMonitored` | the same, no exit |

Two branches of two blocks are enough for a reorg of depth one and two, for a
fork block that becomes canonical later and for two reorgs in a row; a cache
depth of one makes pruning and refetching happen within them.  A channel of one
message makes lag happen with two messages, and a checkpoint every second block
falls in the middle of a batch.  One failure is enough because every failure
leads to the same few states (no subscription, or no process); `MaxFailures` is
a parameter and the proofs hold for all of them.

A silence of twice the stall threshold makes a second timeout add to the first;
three messages overrun a channel of two; a reorg of depth 2 is exactly at the
threshold.  A per-slot threshold as long as the timeout makes one timeout a
recovery without a slow slot and two of them one with it.  In the staking chains
every kind of event occurs, one account nominates three times in a block, with
two different fees and with none, a registration has a fee of its own, and a
status changes without an event as an epoch ends.
Two failures allow a crash of the batch that repeats what a crash cut short.

A page of one row makes a list of two take three requests, between which any
number of statements fall; a `limit` of -1 and one of 9 are clamped to it.
Segments of two events make one domain block fill two of them and the next one
exactly one, so that its reader meets the leftovers.  Two messages through a
channel of one make the watcher lag; the reorg is a message whose block is at a
height told before.

The four violations are disagreements between the code and what its comments,
tests or README say; `PROJECT.json` quotes them under "findings".

* `tracker_gap`: blocks imported while the tracker reconnects are in no message.
* `processor_reorg`: a reorg that replaces the last processed block by one
  sibling is skipped, its height being processed already.
* `staking_status`: operator statuses have no height guard like the nominators'
  one, so of two blocks processed in parallel the older may have the last word.
* `slots_lost`: after a lost slot no later one follows the last accepted one, and
  the monitor is silent until it is restarted.

Seven more things differ from what the repository says, or from what its reader
would expect, and have no run of their own:

* Pruning (`remove_header_until`) stops at the first height without headers, so
  a header below such a gap stays, after a late fork block or after a
  reconnection over more than `CACHE_HEADER_DEPTH` blocks.  It costs memory; the
  routes stay exact (`FeedExact`).
* A chain that is stalled when the alerter starts raises no alert, and its end
  is reported as a recovery: `StallNoticed` and `RecoveryOfStall` are therefore
  stated from the first block on.
* `alerter/src/main.rs` says an account's balance is "checked after every
  withdrawal"; an account the withdrawal removed is only logged.  `ToldOnce`
  speaks of accounts that exist.
* The README of the repository says forks that "exceed" the depth threshold, and
  "retracted blocks exceeding" it, are alerted (lines 27 and 60).  The code
  compares with `>=` (`stall_and_reorg.rs:95`), which also fits the option's
  "Reorg depth to trigger alert" (line 125).  `DeepReorgsReported` is stated for
  what the code does: a reorg of exactly the threshold is reported.
* Migration 0005 calls `nominator_count` a "materialized nominator count".  It
  can be wrong and stay so: of two counts under way at once the one with the
  older snapshot may be written last (`storage.rs:564`).  The next count of that
  operator that runs alone puts it right.
* `pending_slash` and `invalid_bundle` are statuses `OperatorStatusCompact`
  knows, but the code looks for no event of them: the operator's row shows the
  old status until an epoch of its domain ends, and for good if the operator is
  no longer among the current ones or has no price.
* The time from the start of the slot monitor to its first slot is pushed to the
  window as a slot time (`slots.rs:70`), so that averages contain an interval that
  no slot took.  `TimeCountedOnce` counts from the start and allows it.

Some properties name exceptions; each stands for something the code does:

* `StaleOnlyIfMissed`: the index is stale only at heights of blocks no message
  told the processor of (`missed`: lag, reconnection, the skipped reorg above,
  an interrupted batch) and at heights it read while the node was on a branch
  the tracker never reported (`raced`): blocks are read by number and not by the
  hash the message carries.
* `LedgerExact`, `NominatorsExact`, `CountsExact` exempt `torn` blocks: a block
  below the checkpoint is processed again and the process ends between the
  deletion and the insertion of its rows.  The next batch starts above it, and
  its deposits are gone.
* `CountsExact` and `CountsAgree` also exempt operators that are `overtaken`: the
  number of an older snapshot may be in the row.  The exception ends with the
  first count that begins while no other one of that operator is under way.
* `LedgerExact` asks for the fee in front of a nomination where the fees of that
  nominator in the block pair up (`FeesPaired`): each stands right before one of
  its nominations, and no nomination without a fee comes before one with a fee.
  The code takes the first fee left, whatever came before it; where they do not
  pair up the property asks for the row, and for the fee this rule gives.
* `OperatorsExact` asks for a status that comes without an event only where an
  epoch with the operator ends in the same block (`Announced`).  It
  exempts an interrupted rewind (`owed`), which leaves old
  operator statuses behind, operators whose status is written by two blocks
  at once, which is `staking_status`, and operators whose status changes twice in
  one block against the order of the code's loops, which take up the events kind
  by kind: reactivated and then deactivated ends as registered.
* `StallSinceLastSlot` and `RecoveryIsSlow` exempt `early` timeouts: they are
  added to the first stall alert, or the second slot reports them as a recovery.
  `RecoveryIsSlow` asks for a slow-slot alert with a recovery whose duration
  exceeds `--per-slot-threshold`.  With the default of 1.2s, or any value below
  the timeout of 30s, these are all recoveries; the command line accepts more
  (`cli.rs:62`), and then the recovery of a short stall comes without one.
* `ToldOnce` accounts for what is `dropped` and `skipped` and speaks of no block
  that is `unread`: nothing an exit or a failed post loses is told later.
* `NoneMissed` exempts rows that share their block with another of the same list
  (the order of equal times is open, so two pages may both show one and neither
  the other) and a list of which rows were deleted meanwhile, by a block that is
  processed again.
* `PricesComplete` and `ToldIsFound` speak of blocks up to the one the health
  endpoint told; above it prices may appear below the time a client has reached.

**Fairness.**  `Settles` assumes weak fairness of the tracker's task and of
the node completing what it has begun (announcing an imported block, opening a
stream); `KeepsUp` of the processor's task alone; `StallNoticed` of the
clock and of the monitor's task; `NextSlotTaken` of the monitor's task;
`EverythingTold` of the watcher's and the Slack alerter's.  Tokio polls a ready
task, and a request of the reconnecting client, or to Slack, is answered or
fails.  The restart of the alerter needs no fairness: an exit leaves nothing on
the way.  Nothing is assumed about the node importing another block, and failures are bounded, so
the properties speak of what happens once the node is quiet.  For the same
reason deadlock is not checked: a node that imports no more blocks leaves
every task waiting, which is no error.

## What is proved

All theorems hold for every block tree, cache depth, parallelism, checkpoint
interval, channel capacity, window, configuration, list of events and number of
failures that satisfy the named assumptions.  `TreeAssumption`,
`TrackerAssumption`, `ProcessorAssumption`, `StallAssumption`, `SlotAssumption`,
`WatcherAssumption`, `PipelineAssumption`, `XdmAssumption`, `ApiAssumption`,
`StakingAssumption` and `StakingApiAssumption` say that the parent of a block is
one lower, the "none" values are no blocks, lists have the type the code
decodes, and the numbers are natural.  `MessageAssumption` of
XdmStore is what the messages between the chains guarantee and the indexer
relies on: a transfer is initiated, executed and acknowledged at most once, with
one amount, and is acknowledged as failed only if it was not executed.

`ChainAssumption` of StakingStore is the same for the Domains pallet.  An
operator is registered before anything else becomes of it, a share price
included: the code updates the row and inserts none.  At the end of a block with
a `NominatorUnlocked` that nominator is out: "the nominator is unconditionally
removed" (`staking.rs`, above the loop), and the code writes `withdrawn`
without looking.  An epoch of a domain ends in one block: it is the key of the
prices.  Nothing is assumed about storage fees.  The runs `staking` and `paging`
evaluate the assumption on their chains.

| Module | Theorems |
|---|---|
| `BlockTrackerProofs` | `TypeCorrect`, `TrackerConverges`, `NeverBareRetraction`, `FeedIsExact`, `TrackerImplementsFeed` |
| `ProcessorProofs` | `TypeCorrect`, `CheckpointIsComplete`, `StalenessIsAccountedFor` |
| `StallMonitorProofs` | `TypeCorrect`, `NeverOverstated`, `RecoveryFollowsStall`, `ReorgsReportedOnce` |
| `SlotMonitorProofs` | `TypeCorrect`, `NoTimeCountedTwice`, `StallNotOverstated`, `RecoveryNamesSlowSlot` |
| `XdmProofs` | `TypeCorrect`, `CheckpointIsCovered`, `NothingIsInvented`, `NothingIsUnsaid`, `HealthIsCovered`, `RecentIsNewest` |
| `AlertPipelineProofs` | `TypeCorrect`, `AlertsInOrder`, `AlertsTrue`, `AlertsOnce` |
| `StakingProofs` | `StakingTypes`, `NominatorsExactAlways`, `OperatorsExactAlways`, `CountsExactAlways`, `LedgerExactAlways`, `ToldIsFoundAlways`, `CountsAgreeAlways`, `NoneMissedAlways`, `PricesCompleteAlways` |

**Lemmas** holds what the proofs of several modules need.  Trees: a branch
contains its last block's ancestors only, is closed under parent and transitive,
no block is on a branch below itself, any two blocks of a branch are one above
the other, and a branch has one block at a height.  Sequences: what `Among` and
`Flat` return for a sequence, for one with an element appended, for a tail and
for a concatenation, and how often an element is found.  The library's induction
theorems take an operator, which the prover cannot instantiate; `NatClosed`
states induction for a *set* of naturals (it follows from the least element of
its complement), and each lemma chooses the set of lengths it holds for.

**BlockTrackerProofs**.  `Converged` is not inductive: why should the last
canonical block received be the best one?  The strengthening `IInv` adds that
every imported block's parent is imported (`Grounded`), that a best block which
was sent is the current best one, is in hand, or is still queued (`Announced`),
and that neither the current best block nor the one in hand is a descendant of
the node's best block (`NotAbove`).  The check cannot fail on the best block,
and a check that succeeds on another block puts that one below the best block,
which is then still to come.  `NoBareRetraction` rests on a second invariant: no
block in the queue is an ancestor of one before it, of the block in hand or of
the current best block (`InOrder`).  For `TrackerImplementsFeed` every step is a
step of the feed or a stutter, and `RouteLeads` shows that the route from one
block to another leads there: two blocks where the branches meet are one
(`MeetingOnce`), and the parent of a block of the route is on the route or is
that one (`ParentMeets`).

**ProcessorProofs**.  For `CheckpointIsComplete` the invariant says that a batch
starts no higher than one above the checkpoint, that the heights before `next`
are written, and that `indexed` never loses a height.  `StaleOnlyIfMissed`
speaks of an idle processor, which says nothing about how it got there; `AInv`
says of every state that each block of the reported branch, up to the height the
processor will have reached, is indexed, excused, read and still to be written,
or still to be read (`Accounted`), and that what is written next replaces only
excused blocks (`FetchedSound`).

**StallMonitorProofs**.  The invariant `IInv` counts: what the timeouts have
accumulated and the time since the loop began to wait are together no more than
the silence, which is `quiet` while the queue is empty and the `silence` of its
first message otherwise; and a timeout that fired with a block known is the last
alert.  `RInv` adds that the queue holds the messages sent last, so that the
alerts are the reorgs of at least the threshold among the others.

**SlotMonitorProofs**.  The same counting for `timeout_fired` (`Counted`), with
the arrivals in the order of the channel (`Arrivals`); the slot times in the
vector add up to no more than the time from the start to the last arrival
(`Summed`), of which `ForcePush` only drops parts.  No relation between the
thresholds and the timeout is assumed.

**XdmProofs**.  Three things make `CheckpointCovers` true and are in the
invariant: each event of a block in flight is stored or among those still to do
(`InHand`), the heights below `next` are stored (`CoveredBelow`), and a row says
what events of its transfer said (`RowsTold`), from which it follows, with
`MessageAssumption`, that the statement of one chain writes nothing over a
column another one has filled.  That reading the segments and cutting them off gives
exactly the block's own events is a lemma, for every segment size.  For the
endpoint an answer that was given is compared with checkpoints that only grow.

**AlertPipelineProofs**.  `IInv` is made of three arguments.  The blocks:
everything published is awaited, lost unread or read, one of the three
(`FeedOK`), in the order of the messages and of the heights.  The order: Slack,
the alert in hand, the channel and the outbox are each in order and one after
the other (`InOrderInv`), and all of them come before the blocks still to be
read (`AheadInv`), which is why new alerts keep the order.  The count: an alert
of a block that was not read yet is nowhere (`TrueInv`), reading it puts it on
the way exactly once (`OutTellsEvent`, `OutTellsLow`: the eleven pieces of
`AlertsOf` have no alert in common and leave none out), and every later step
moves it or drops it.  `ToldOnce` itself completes the invariant.

**StakingProofs**.  Between two states nothing is known but what is left of the
scripts, so each invariant says of a block in flight: the row is right, or a
statement that makes it right is still to come and none after it spoils it.  A
read counts as the statements it would add.

* `TypeInv` also holds the shape of a script: the whole, the whole without its
  first delete, or a list in which every row that bears on a count is followed
  by that count; and that a count with its snapshot is the next statement of its
  block, of an operator that has a row (`CountedInv`).
* `FoundInv`: a statement of a processed block has left a row with its key, and
  rows stay, which is why what the health endpoint told remains true
  (`HealthInv`) when the checkpoint is set back.
* `NomInv`: the last write of a block to a nominator is the chain's status
  (`Ends`), or has been done and the row is of this height or a higher one;
  `RowsInv` says that a row's height is that of a block with an event about it.
  Together with the height guard this gives the status after the *last* block.
* `OpInv` has no guard to rest on.  It follows the last block whose result is in
  (`Frontier`): the row has the status after that block, or a block that writes
  it is still ahead.  It needs that no two such blocks are in flight (`Apart`)
  and that the last of a block's status events is also the last in the code's
  order (`InTurn`); both are in `OperatorsExact`, and `staking_status` shows why.
* `FreshInv`: a number counted and not yet written is the number of active
  nominators, unless the operator is `overtaken`.
* `CountInv`: of an operator that is not overtaken the count is right, or some
  block that counts for it is under way, was cut short or is still to come
  (`Dirty`).  `RawInv` is the same without failures, for `CountsAgree`.
* `LedgerInv`: the rows a block has, followed by those its remaining statements
  add (`Credits`, `Debits`), are the ones it should have (`Balanced`), whether
  reads fail or not (`Even`).  That counting gives each nomination the fee in
  front of it where the fees pair up is a lemma; elsewhere the fee is the one
  the code's rule gives.
* `PageInv`: in a list by descending height a row alone at its height has as
  many rows before it as there are rows above it.  That number only grows, so
  the offset does not pass a row that was not given.
* `DueInv`: the client has each price it may count on below, or above, the
  height it has reached.  The next page begins beyond the last height of the one
  before, so the theorem has the hypothesis `EpochsApart`: a block ends at most
  one epoch of the operator's domain.

These theorems also hold with crashes and failed reads, which the run `paging`
leaves out.

Left to TLC are the liveness properties (`Settles`, `KeepsUp`, `StallNoticed`,
`NextSlotTaken`, `EverythingTold`), which the prover cannot express.  Every other
property of the passing runs is a theorem.

## What is not modelled

* The wording of alerts and responses, the scale of amounts, command lines,
  logging and the Slack secret's file.
* The P2P network: libp2p wiring, whose two peer sets are only logged; the slots
  it forwards are `Gossip` of SlotMonitor.
* The uptime push, a timer and a request without state.
* SCALE decoding of single values, and migrations, which run before any task.
* Share prices read by a client that ignores the health endpoint.

## What could come next

StakingStore and XdmStore on a reorganising chain: the height guard of the
nominators refuses the rewrite after a reorg to a lower height, and the rows of
retracted transfers stay.
