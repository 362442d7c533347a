# rtpigate: a verification project

rtpigate is a receive-only APRS igate: it subscribes to a multicast stream of
decoded APRS frames, keeps statistics about what it hears, forwards what may be
forwarded to an APRS-IS server, beacons its own position and serves a dashboard.
This directory holds TLA+ models of the program (`src/src/*.rs`), the TLC
configurations that check them, and TLAPS proofs about all of its components.

## 1. Inventory

| Part | Code | State it keeps | Operations | Interacts with |
|---|---|---|---|---|
| `rtp_listener` | `stream.rs` | interval and lifetime counters, station and frequency tables with dirty sets, satellite log, slicer counters and waterfall, published series | frame received, 15 s tick, final flush, restore | broadcasts packets and telemetry; shares the satellite log; writes the store |
| `aprsis_task`, gating | `aprs_is.rs`, `igate.rs` | duplicate cache, interval and lifetime counters, session | receive, filter, write, 15 s tick, final flush, restore | receives from the data channel; TCP to the server; store |
| `aprsis_task`, beacons | `aprs_is.rs`, `igate.rs` | `last_beacon_pos`, `sequence`, two intervals | fixed tick (beacon + telemetry report), movement tick | reads the shared GPS fix; TCP; store |
| `gpsd_task` | `gpsd.rs`, `config.rs` | accumulated fix | TPV and SKY reports | writes the shared fix, broadcasts telemetry |
| `sse_task`, `HistoryStore` | `sse.rs`, `history.rs` | 24 h of 15 s buckets | merge a snapshot, prune, mirror, skip lagged | receives from the data channel; store |
| data channel | `main.rs`, `config.rs` | bounded ring (tokio `broadcast`) | send, recv, Lagged | all tasks |
| `main` | `main.rs` | task set, cancellation token, `PublicConfig` | spawn, signals, SIGHUP, join, seed, backstop | all tasks |
| watched stations | `main.rs` | list of tabs under a lock | POST, DELETE, load | store |
| store | `store.rs` | tables of a native_db file | one transaction per call | all writers |
| configuration, start, login | `config.rs`, `main.rs`, `aprs_is.rs`, `deploy/rtpigate.service` | the file, the `Config` of the run, the `PublicConfig` that is shown, the login exchange | read, validate, spawn, bind, SIGHUP, restart by the service manager, log in | decides which tasks run and whether they may write |
| encodings | `igate.rs`, `store.rs` | none; the server that decodes telemetry keeps the equations it was last sent | `APRSQuadratic`, `Telemetry::to_aprs`, `positpacket`, a packet's row (`PacketRec`) | read by APRS-IS servers, by the store's readers |
| HTTP reads, SSE fan-out, frontend | `main.rs`, `sse.rs`, `frontend/` | none that the above depends on | | |

What is hard about it: five tasks run concurrently and meet in a lossy channel, in
locks and in the store; each network task is in a reconnection loop and takes no ticks
outside its session, where `tokio::time::interval` then fires the missed ticks in a
burst; writes await for up to a timeout between reading a clock and using it; every
piece of statistics exists twice, in memory and on disk, and a crash may fall between
any two of the transactions that keep them equal; wall clock and monotonic clock are
both used. `PROJECT.json` lists the hazards line by line.

What makes the parts correct:

- gating: every packet heard is accounted for, nothing stale or duplicated is written, what the channel dropped is counted, counters survive;
- reconnection and shutdown: the backoff follows the failures, tasks recover, shutdown
  completes, a task is never lost silently;
- history: dropped snapshots heal, nothing is charted twice or lost, disk equals memory;
- listener: rows, log and lifetime hits on disk are those in memory;
- beacons: fresh positions, spacing in distance and time, unique report numbers;
- tabs: the table is the list;
- start: a run is able to do what its configuration asks for, it writes only under a
  verified login, and a repaired configuration is picked up without help;
- encodings: what is decoded at the other end is what was encoded, to the precision of
  the format.

## 2. Modules

| Module | Models | State and actions |
|---|---|---|
| `Igate` | `droppacket`, the CR/LF check of the written line | operators on a packet's attributes |
| `Broadcast` | tokio's broadcast channel as one receiver sees it (external) | `Send`, `Ready`/`Taken`, `Lagging`/`Relag` on a record of queued items and missed count |
| `AprsIsGate` | the gating half of `aprsis_task` (EXTENDS both) | `conn` is the place in the task; `Recv*` are the outcomes of one `recv()`, `WriteOk`/`WriteFails` the end of an awaited write, `TelemetryTick`, `Stop`, `Crash`, `Restart` |
| `Lifecycle` | `main`'s select loop and the outer loop of each network task | `at[t]` is the stage of task t; `Attempt`, `StageOk`, `StageFails`, `Wake`, `SessionFails`, `Ends`; `Signal`, `TaskGone`, `JoinAll`, `JoinPanics` (tokio's `join_all` panics at the first task that did and aborts the others) |
| `StatHistory` | the two publishers, `sse_task`, `HistoryStore`, seeding and backstop | `Tick`, `MergeSnapshot`, `persist_history`, `SkipLagged`, `Stop`, `Crash`, `Restart` |
| `Listener` | `rtp_listener`'s bookkeeping and its mirror in the store | `HearFrame`, `SkipFrame`, `Tick`, `Stop`, `Crash`, `Restart` |
| `Beacon` | both beacon timers, the shared fix, the report number and the counter it reports | `Tpv`, `Sky`; `HearPacket`; `FloorBeacon`/`FloorNoBeacon`, `MoveBeacon`/`MoveNoBeacon`, `BeaconSent`; `NumberSent` (the `T#` line) and `ReportSent` (the other lines) |
| `Watched` | the `/api/watched` handlers | the step under the lock (`PostAdds`, `Delete`) and the step in the store (`PersistAdd`, `PersistRemove`) are separate |
| `Startup` | the file, `validate`, `main` up to its loop, SIGHUP, the login exchange, the service manager | `Boot`/`BootFails`, `Bind`/`BindFails`, `Reload`, `HangupTooEarly`, `Terminate`, `TaskLost`; `AprsisStarts`/`AprsisQuits`, `Connect`, `SendLogin`, `LoginAccepted`/`LoginRefused`, `LinkDrops`, `GatePacket`, `SendBeacon`; `EditFile`, `HostChanges`, `StartService`, `OtherTaskEnds` |
| `Conversions` | the encodings, and the decoder of telemetry a server keeps (external) | pure operators; one action per input that is encoded |
| `Checkpoint` | what a persisted counter promises: it counts, is saved, and falls back to what was saved at a crash, never further | `Work`, `Save`, `Stop`, `Crash`, `Restart`; implemented by `AprsIsGate` and `Listener` |
| `MCAprsIsGate`, `MCListener`, `MCBeacon`, `MCStartup`, `MCConversions` | the constants of the instances TLC checks | |
| `AprsIsGateProofs`, `LifecycleProofs`, `StatHistoryProofs`, `ListenerProofs`, `BeaconProofs`, `WatchedProofs`, `StartupProofs` | theorems about the module of that name; `BeaconProofs` also those about `Conversions`, of which the beacons and reports are made | |
| `OrderLemmas` | a finite set whose elements have distinct keys has exactly one enumeration by key | lemmas for the tables that are loaded in the order of their keys |

Conventions. One action is what the code does between two awaits at which something of
interest can intervene: an awaited network write is split in two, a store call is one
transaction that succeeds or, where a constant allows it, fails and is logged. Comments
name what is external (the network, clocks, panics, the operator). Variables marked
"history" record what a property refers to and influence no guard except through a
bound. An operator `M_x` before `x` is a plausible bug in `x`; nothing uses it in the
specification, and replacing `x` by it must make TLC report the property named in
`PROJECT.json`.

Data that is abstracted: a packet is the attributes the filter tells apart and the
`source:info` key; a frame is the keys of its rows, its stamp, ladder length and mask;
the four series of a publisher are one; a position is an integer on a line (in `Beacon`,
where of `positpacket` only acceptance is kept; its digits are in `Conversions`); a
configuration is, field by field, the classes of values that the code treats differently.
The list of tabs without a station (`Vec::retain`) is the elements at the places that are
kept, in the order of those places (`Watched!Retained`), and a table that is loaded in the
order of its keys (tabs, satellite log) is the one sequence of its rows in that order.
In `Conversions` a number is exact: floating point values are integers scaled to the last
digit that is kept.

Refinement. `AprsIsGate` and `Listener` each contain an INSTANCE of `Checkpoint` WITH
their counters in memory, the counters on disk, and whether the process is up; the
property `ImplementsCheckpoint` is that instance's specification.

## 3. Runs

| Run | Properties | What it shows |
|---|---|---|
| `gate_rules` | `TypeOK`, `DropsAddUp`, `EveryPacketAccounted` | every rule, gating on and off, failing loads and saves, crashes: the ledger always balances |
| `gate_dedup` | `NoDuplicateGated`, `DuplicateWasGated` | steady wall clock, slow writes, purges: the cache is exact in both directions |
| `gate_store` | `OnlyFreshGated`, `ChannelConserves`, `PublishedAddsUp`, `CrashLosesOneInterval`, `ImplementsCheckpoint` | a full channel, outages, clock steps and restarts with a working store |
| `life` | `TypeOK`, `BackoffFollowsFailures`, `ShutdownCompletes`, `NoSilentTaskLoss`, `TasksRecover` | networks, panics and signals in any order |
| `hist_mirror` | `TypeOK`, `DiskMirrorsMemory`, `EveryCountCharted` | dropped snapshots, expiry, restarts, store calls that fail: where no call failed disk equals memory, and the chart is what was published, dropped snapshots included, unless as many in a row are dropped as a series has points |
| `list_state` | `TypeOK`, `RowsMirrored`, `CrashLosesOneTick`, `StopLosesNothing`, `SatLogMirrored`, `ImplementsCheckpoint`, `HitsSurvive` | late frames, evictions, three kinds of slicer geometry, restarts, a store call that fails, in a tick or in the final flush; `StopLosesNothing` is an action property, because only the step tells the stop's own failures from those of an earlier tick |
| `beacon_moves` | `TypeOK`, `FreshBeacons`, `MovedSinceLast`, `NumbersNeverReused`, `EveryPacketReported` | a moving station in a steady session, crashes, a failing store |
| `watch` | `TypeOK`, `TableMatchesList`, `RestartRestoresTabs` | two browsers, restarts between any two steps |
| `startup` | `TypeOK`, `WritesVerified`, `RunsAsConfigured`, `RepairedServes` | any sequence of edits, reloads, stops, failures and logins; a start that fails is repeated until it succeeds, so that only a signal or a lost task (`quit`) leaves the service down |
| `conversions` | `ReportDecodes`, `PositionDecodes`, `RowKeepsPacket` | the encodings at their boundaries: the last value of each power, degrees and minutes next to a carry, every optional field absent and present, rows of this build and of others, which it does not read; reports whose `EQNS` line is lost |
| `hist_outage` | `EveryCountCharted`, violated | the same question with outages (section 6) |
| `beacon_burst` | `MoveSpaced`, violated | a moving station with outages and slow writes (section 6) |

Bounds. Times are scaled so that every comparison in the code can come out both ways:
a TTL of 2 with behaviours of 4 seconds lets an entry expire, be renewed and be purged
too late (`gate_dedup`); a maximum age of 0 with a write of one second and behaviours of 3
lets a packet grow too old in the channel, not only during its write (`gate_store`); a channel of one slot lags on the second item, one of two also reorders
nothing and keeps one; a `Period` of 2 has a second on and one off the bucket boundary,
and a retention of one period makes buckets expire while a series still holds them; the
backoff reaches its cap on the third failure; a waterfall of one row overflows on the
second tick; rows are evicted after 1 and 2 seconds so that a frame 2 seconds late is
evicted in the interval it is heard in; two slicer banks and two runs give a bank that
is unknown, the same, and another one; a cap of two tabs with three stations is reached
and refused. Two or three starts of the process suffice for what restarts can do, since
nothing but the tables survives one. `hist_mirror` leaves outages out: with them `EveryCountCharted` is what `hist_outage`
refutes. In this instance a series reaches back beyond the retention, in the code (100 points, 24
hours) it does not: what `EveryCountCharted` says of a bucket that has left the series is
shown by its theorem only. At most one store call of the listener fails (`MaxFaults`), which is enough to
have any one of the calls of a flush fail between others that succeed. `beacon_moves`
hears one packet (`MaxHeard`): that packet may fall before, between and after the lines
of a report and the two runs; with two packets the instance has 11 million states and the
same result. `startup` needs no bound on steps: its state is finite. Its files are a
complete station, a mobile one, a read-only one, one without a link, what one edit of a
field makes of them, and a file that cannot be read.
`life` leaves `gpsd_task` out: it differs from the APRS-IS task in that a failed WATCH
goes round at once, without a sleep.

Deadlock is checked in `startup`, where there is always something to do. In the other
runs it is not: every behaviour ends where its bounds do, and `life` where the process
has exited.

Fairness is used in `Lifecycle` and `Startup`. Weak fairness of a task's steps rests on
the timeouts around connect, login and write, on the timer for sleeps, and on the system
resolver's own limit; weak fairness of `Ends` and of `TaskGone` (`TaskLost`) on `select!`,
which polls its branches in random order, so that a cancelled token or a finished task is
not ignored for ever; that of `JoinAll` and `JoinPanics` on `join_all`, which waits for
nothing but the tasks. In `Startup`, fairness of `Boot` is the service manager's
`Restart=on-failure` (its `RestartSec=10` stays below systemd's limit on starts), and that of `Bind \/ BindFails` that nothing between spawning the
tasks and entering the loop waits for anything outside. Nothing is assumed of the network: `TasksRecover` speaks only of
networks that stay good from some point on.

## 4. Proofs

Each theorem holds for every value of the constants that its module's named ASSUME
allows: any sets of packets, frames, stations, clients or configuration files, any
capacity, time limit and bound. TLC evaluates these assumptions in the runs. Where a
theorem assumes more, its statement says so and the table below lists it. `Lifecycle`'s
`BackoffAssumption` contains, beside a condition on the bound `MaxFails`, the law of the
powers of 2 that the provers do not know.

The general argument is the same everywhere: a type invariant that is stronger than the
module's `TypeOK` where the proofs need the shape of every value (`TypeInv`), a second
invariant for the property, one step per action, and lemmas for what the operators of the
model do.

| Theorem | Property | Assumes | Invariant and why it is needed |
|---|---|---|---|
| `AprsIsGateProofs!TypeCorrect` | `TypeOK` | | inductive; the delicate parts are that the receiver stays a sequence of items under `Send` and `Taken`, and that a write in progress has a packet |
| `DropLedgerBalances`, `NoPacketUnaccounted` | `DropsAddUp`, `EveryPacketAccounted` | | `Ledger` adds `WriteShape`: a line is in flight only while the task writes, or died while it did |
| `SuppressionWorks` | `NoDuplicateGated` | `Skews \subseteq {0}` | `DedupInv` adds that every line sent within the TTL is in the cache, not earlier than it was sent (what the purge must not break), that the line being written is no duplicate (what the time between check and insert must not break), and that nothing is from the future |
| `NothingSwallowed` | `DuplicateWasGated` | `Skews \subseteq {0}` | `DedupInv` and `CacheWasSent`: an entry of the cache stands for a line that was sent |
| `ChartsMatchTotals` | `PublishedAddsUp` | | inductive with the types; `CounterStep` sorts every action into those that count, publish, start, or leave the counters alone |
| `CrashLosesInterval` | `CrashLosesOneInterval` | `~SaveFails`, `~LoadFails` | by `CounterStep`; with failures memory is ahead by more |
| `GateImplementsCheckpoint` | `ImplementsCheckpoint` | | every kind of step of `CounterStep` is a step of `Checkpoint` or a stutter |
| `ChannelLosesNoneSilently` | `ChannelConserves` | | inductive with the types; lemmas on what `Send` and `Taken` do to the length of the queue and to the missed count |
| `NothingStaleGated` | `OnlyFreshGated` | | `FreshInv` adds that a write in progress began in time and has not exceeded its timeout |
| `LifecycleProofs!LifecycleTypes` | `TypeOK` | | inductive |
| `BackoffDoublesOnce` | `BackoffFollowsFailures` | | the property speaks of sleeps; `BackoffInv` adds that a task that is awake has the backoff of the next failure (`AwakeBackoff`) and that a sleep follows a failure |
| `StatHistoryProofs!HistoryTypes` | `TypeOK` | | `TypeInv` |
| `TableMirrorsHistory` | `DiskMirrorsMemory` | | `MirrorInv` says what holds between the merge and the transactions: they write what is in memory, and all other rows agree already (`RowPending`) |
| `CountsCharted` | `EveryCountCharted` | `~Outages` | `ChartInv`: ticks on time are a period apart, so that each has a bucket of its own (`OnTime`, `PublishedByTick`); a series, and every snapshot of it in the channel, is the last so many ticks of its side (`SeriesWindow`, `QueueWindows`); as long as no gap exceeded a series, the buckets of all ticks up to the last merged one hold what was published (`Charts`) |
| `ListenerProofs!ListenerTypes` | `TypeOK` | | `TypeInv` |
| `TablesMirrored`, `CrashBounded`, `StopComplete` | `RowsMirrored`, `CrashLosesOneTick`, `StopLosesNothing` | | the first two are proved together as `MirrorInv`: each needs the other at a flush; `StopComplete` follows from it and from what the stop's flush writes (`StopWrites`) |
| `ListenerImplementsCheckpoint` | `ImplementsCheckpoint` | finite `Keys` | `FaultType`: the failed calls are counted, and a store allowed none fails in none |
| `LifetimeHitsSurvive` | `HitsSurvive` | | `HitsInv`: memory is ahead of the saved hits, or has not yet seen a ladder and keeps what was restored |
| `SatLogAgrees` | `SatLogMirrored` | `SameDelay`: packets of satellites arrive in the order of their stamps | `SatInv`: the log is ordered, so that pruning from the front removes all that is too old; the table is loaded in the same order (`OrderLemmas`) |
| `BeaconProofs!BeaconTypes` | `TypeOK` | | `TypeInv` |
| `ReportNumbersUnique` | `NumbersNeverReused` | | `NumberInv`: the row holds the next number while the store works, and every number sent is below it |
| `NoStaleBeacon` | `FreshBeacons` | | `FreshInv`: the accumulated fix is that of the last report, and the location being written was fresh when the write began |
| `MovesAreMoves` | `MovedSinceLast` | `Acceptable`: `positpacket` accepts what gpsd reports | `MoveInv`: `last_beacon_pos` is the position of the last beacon. Without the assumption it is not: a rejected position is remembered too (section 6) |
| `PacketsReportedOnce` | `EveryPacketReported` | | `PacketInv`: while a report is being written, its `T#` line has counted everything heard in this run that no completed report has (`Reporting`), so that completing it may set the counter to zero; lines of earlier runs are told apart by their run |
| `ValuesDecode`, `PositionsDecode`, `RowsKeepPackets` | `ReportDecodes`, `PositionDecodes`, `RowKeepsPacket` | | `JobInv`: the byte and the equations a receiver holds are those of the value it is told (`ReportInv`), a text is that of its angle (`PositInv`), and a row of the current version is `from_packet` of its packet (`RowInv`) |
| `WatchedProofs!WatchedTypes` | `TypeOK` | | `TypeInv`: rows have distinct times, in the past |
| `TableAgreesWithList` | `TableMatchesList` | `~StoreFails` | `MatchInv`: until two requests about one station overlap, list and table differ only in the stations being worked on |
| `TabsRestored` | `RestartRestoresTabs` | `~StoreFails` | `OrderInv`: as long as requests do not overlap, the list is the order of the rows that will be there when the request is done; the order a table is loaded in is unique (`OrderLemmas`) |
| `StartupProofs!StartupTypes`, `OnlyVerifiedWrites`, `AcceptedConfigSuffices` | `TypeOK`, `WritesVerified`, `RunsAsConfigured` | | `StartupInv`: the configuration of a run was accepted by `main` when it started and never changes; what a session sent, was answered and wrote belongs to the state its link is in |

The extra assumptions are those under which the run of the same property is made
(`gate_dedup`: a steady clock; `hist_mirror`: no outages, with which `hist_outage`
refutes the property; `gate_store`, `watch`: a store that works; `list_state`: one
kind of satellite frame; `beacon_moves`: acceptable reports), and each excludes a
behaviour that section 6 lists or the property itself is silent about.

Only model-checked, with the reason:

- all liveness (`ShutdownCompletes`, `NoSilentTaskLoss`, `TasksRecover`, `RepairedServes`):
  fairness and ENABLED are out of the prover's reach;
- the two runs that expect a violation.

## 5. Not modelled

- Packet text: `for_rxigate` and the payload parsing of `map_frame` (which attributes a
  frame has is an input), the symbol, overlay and fixed texts of beacons and reports,
  values below zero in `APRSQuadratic` (its callers pass counts and tenths that are
  never negative).
- TOML parsing: a file reads or does not.
- The `From` conversions between the four versions of the packet record
  (`store.rs:351-549`): no stored row reaches them.
- The hash of the passcode: a configured passcode is the callsign's or is not. The
  queries of `store.rs` for the dashboard; a store that cannot
  be opened ends the process before anything starts (`Startup!BootFails`).
- The SSE fan-out and the read-only HTTP handlers, which copy shared values; the
  frontend; deployment.
- Poisoned locks (a panic while a lock is held): the process ends after a panic anyway.
- Width of counters: `u32` and `u64` counters do not reach their limits within any bound;
  a slicer mask of more than 16 slicers (`stream.rs:725`), where the shift overflows.

## 6. Disagreements between the code and its documents

Two are runs of their own, because the models show how several steps lead to them.

- `hist_outage`: `history.rs:70` says that merging the whole series "self-heals any tick
  we missed". After an outage the missed ticks fire in a burst; several points fall in
  one bucket and the last one, zero, replaces the counts (`history.rs:83`).
- `beacon_burst`: `aprs_is.rs:253` says that "a fast mover can never beacon faster than
  `min_beacon_secs`". Missed movement ticks fire in a burst after a slow write or an
  outage (`aprs_is.rs:801`).

Others were met while modelling. Those with a name are stated in their module, after the
properties, and fail when added to a configuration.

| Said | Done | Definition |
|---|---|---|
| `config.rs:119`: the lag counter counts packets | `aprs_is.rs:678` adds every dropped item, telemetry too | `AprsIsGate!LagCountsPackets` |
| README 484: duplicates of a packet "igated within the last 30 seconds" | the cached time is read before the write (`aprs_is.rs:608`), so it ages by the write's duration | `AprsIsGate!NoDuplicateOnWire` |
| the same | the cache uses the wall clock: set back, it suppresses longer | `AprsIsGate!DuplicateWasGated` with clock steps |
| ARCHITECTURE 79: backoff grows across login failures | it is reset when the TCP connection stands, before the login (`aprs_is.rs:400`) | |
| ARCHITECTURE 59: backoff on a receive error | `stream.rs:830` subscribes again at once | |
| README 392: the dashboard shows the active configuration, live on SIGHUP | only `PublicConfig` is replaced (`main.rs:453`) | `Startup!ShownIsActive` |
| `sse.rs:131`: the next tick retries | pruned keys are reported once; a failed delete is not repeated | `StatHistory!NextTickRetries` |
| `store.rs:5`: a restart resumes with the statistics intact | the first tick after a restart overwrites the bucket of the same 15 seconds with zero | `StatHistory!SavedCountsStay` |
| `stream.rs:569`: the next tick retries | the dirty sets are drained before the upserts succeed | `Listener!NextTickRetries` |
| `stream.rs:840`: the final flush is there "so a graceful stop loses nothing" | it tries what is marked since the last tick; a row that tick could not write is lost, though the store works again | `Listener!StopWritesAll` |
| `store.rs:205`, `234`, `267`: rows of an earlier build are migrated | `MODELS` (`store.rs:552`) registers version 4 only, `Store::open` (`store.rs:819`) migrates nothing, and the conversions between versions have no call site that a stored row reaches. That native_db keeps each version in a table of its own is known of the library, not seen in this repository | `Conversions!UpgradeKeepsHistory` |
| `config.rs:129`: a waterfall row has `slicer_count` entries | a tick before the ladder is known adds an empty row (`stream.rs:481`) | `Listener!RowsFitBank` |
| `store.rs:194`: every heard packet is stored | two packets of one millisecond share a key and the second wins (`store.rs:1079`) | |
| `main.rs:220`: the satellite log is seeded, then pruned | it is not pruned before the first tick | `Listener!SeededLogPruned` |
| `aprs_is.rs:231`: the position last actually beaconed | a position that `positpacket` rejects is remembered too (`aprs_is.rs:47`) | `Beacon!LastIsBeaconed` |
| `main.rs:566`: the watched set is capped and persisted | the table is changed outside the lock; overlapping requests can leave it too long or a tab out of it | `Watched!ListCapped` |
| README 199-208: an invalid passcode for igating or beaconing is a validation error | `validate` does not look at it: a reload accepts the file (`main.rs:453`), the next start refuses it | `Startup!AcceptedStarts` |
| `config.rs:476`: "An empty list means the config is valid"; `aprs_is.rs:254`: "Harmless when source != Gpsd" | a threshold of zero, or a `min_beacon_secs` of zero without GPSD, is valid and makes `tokio::time::interval` panic in `aprsis_task` | `Startup!ValidRuns` |
| `validate` asks for an altitude, of any value | `positpacket` refuses one that is zero or less, so that a station at or below sea level is valid and never beacons | `Startup!BeaconsPosition` |
| `deploy/rtpigate.service`: `Restart=on-failure` | a run that loses a task shuts down with status 0 and is not started again | `Startup!LostTaskRestarted` |
| README 511: changes to group, host and port require a restart, other changes do not | no task reads the new configuration, whichever field was changed | `Startup!ShownIsActive` |
| README 128: SIGHUP reloads | before `main` has installed its handler it ends the process, and counts as a clean exit | `Startup!HangupTooEarly` |
| `positpacket` writes minutes | rounding to two digits can give `60.00` | `Conversions!MinutesBelowSixty` |
| `igate.rs:446`: pad "if we have less than 5" | it pads up to four values; the callers pass five | `Conversions!PaddedToFive` |
| a report is decoded with its equations | `T#` is written before the `EQNS` line, so that a server decodes it with those of the report before | `Conversions!DecodedOnArrival` |

## 7. Plan

Done: `Igate`, `Broadcast`, `AprsIsGate`, `Lifecycle`, `StatHistory`, `Listener`,
`Beacon`, `Watched`, `Startup`, `Conversions`, each checked, and each invariant and
action property of the passing runs proved; `Checkpoint` and its refinement by
`AprsIsGate` and `Listener`, checked and proved.

Left: a composition of listener, channel, gate and history, in which one packet is
counted on both sides of the chart.
