----------------------------- MODULE StatHistory -----------------------------
(***************************************************************************)
(* The 24 hour history of the activity chart: two tasks publish their      *)
(* interval counters on independent ticks, sse_task merges what it         *)
(* receives into time buckets and mirrors them to the store, main seeds    *)
(* the buckets at startup and writes them once more on shutdown.           *)
(*                                                                         *)
(* Each side publishes four series; they are pushed, sent, merged and      *)
(* reset together, so one value per point stands for them.                 *)
(***************************************************************************)
EXTENDS Integers, Broadcast, FiniteSetsExt

CONSTANTS
    Period,      \* the telemetry interval and BUCKET_SECS
    Retention,   \* RETENTION_SECS
    MaxPoints,   \* the points a DataSeries keeps
    Outages,     \* may time pass while a task is away from its inner loop?
    StoreFails,  \* may a transaction of the store fail?
    MaxTime,     \* bound: seconds a behaviour lasts
    MaxCount,    \* bound: events of each side
    MaxNoise,    \* bound: other items on the channel
    MaxRuns      \* bound: starts of the process

ASSUME StatHistoryAssumption ==
    /\ Period \in Nat \ {0}
    /\ Retention \in Nat
    /\ MaxPoints \in Nat \ {0}
    /\ Outages \in BOOLEAN /\ StoreFails \in BOOLEAN
    /\ MaxTime \in Nat /\ MaxCount \in Nat /\ MaxNoise \in Nat /\ MaxRuns \in Nat

VARIABLES
    proc,      \* the process is "up" or "down"
    now,       \* seconds; the wall clock and Instant advance together here
    online,    \* is the side's task in the select! of its inner loop?
    due,       \* the deadline of the side's interval
    count,     \* the side's interval counter
    series,    \* the side's DataSeries: [ts, value] points, oldest first
    rx,        \* sse_task's receiver of the data channel
    hist,      \* HistoryStore.buckets
    pending,   \* what sse_task has merged and not yet mirrored
    disk,      \* the HistoryBucketRec table
    events, noise, runs,  \* history: what the bounds cap
    stale,     \* history: the keys whose last transaction failed
    published, \* history: per side, the sums published in this run, by bucket
    ticks,     \* history: per side, the snapshots published in this run
    merged,    \* history: per side, the number of the last snapshot merged
    gapped     \* history: per side, were as many in a row dropped as a series holds?

vars == <<proc, now, online, due, count, series, rx, hist, pending, disk, events,
          noise, runs, stale, published, ticks, merged, gapped>>

producers == <<online, due, count, series>>
log == <<events, noise, runs, stale, published, ticks, merged, gapped>>

\* PacketTelemetry from rtp_listener, AprsisTelemetry from aprsis_task.
Sides == {"packet", "aprsis"}

Snapshot(p, s, n) == [kind |-> "tlm", side |-> p, series |-> s, nr |-> n]
Noise == [kind |-> "other"]
Nothing == [kind |-> "none"]

NoBuckets == [k \in {} |-> 0]
NoSums == [p \in Sides |-> NoBuckets]
ZeroBucket == [p \in Sides |-> 0]

BucketKey(t) == t - (t % Period)

\* The tasks start outside their inner loops; an interval is due at once.
Init ==
    /\ proc = "up"
    /\ now = 0
    /\ online = [p \in Sides |-> FALSE]
    /\ due = [p \in Sides |-> 0]
    /\ count = [p \in Sides |-> 0]
    /\ series = [p \in Sides |-> <<>>]
    /\ rx = Subscribed
    /\ hist = NoBuckets
    /\ pending = Nothing
    /\ disk = NoBuckets
    /\ events = [p \in Sides |-> 0]
    /\ noise = 0
    /\ runs = 1
    /\ stale = {}
    /\ published = NoSums
    /\ ticks = [p \in Sides |-> 0]
    /\ merged = [p \in Sides |-> 0]
    /\ gapped = [p \in Sides |-> FALSE]

-----------------------------------------------------------------------------
(* The two tasks that publish.                                             *)

\* A task that polls its select! takes a due tick before the next second.  Without
\* outages every task always does.
SecondPasses ==
    /\ now < MaxTime
    /\ proc = "up" => \A p \in Sides : IF online[p] THEN due[p] > now ELSE Outages
    /\ now' = now + 1
    /\ UNCHANGED <<proc, producers, rx, hist, pending, disk, log>>

\* The task reaches its inner loop: subscribed, or connected and logged in.
ComesOnline(p) ==
    /\ proc = "up"
    /\ ~online[p]
    /\ online' = [online EXCEPT ![p] = TRUE]
    /\ UNCHANGED <<proc, now, due, count, series, rx, hist, pending, disk, log>>

\* It leaves the inner loop, or awaits a write inside it: no ticks meanwhile.
GoesOffline(p) ==
    /\ proc = "up"
    /\ online[p]
    /\ online' = [online EXCEPT ![p] = FALSE]
    /\ UNCHANGED <<proc, now, due, count, series, rx, hist, pending, disk, log>>

\* Something is counted: a packet heard, gated or dropped, or a reconnect, which
\* aprsis_task counts on its way to the inner loop.
Count(p) ==
    /\ proc = "up"
    /\ online[p] \/ p = "aprsis"
    /\ events[p] < MaxCount
    /\ events' = [events EXCEPT ![p] = @ + 1]
    /\ count' = [count EXCEPT ![p] = @ + 1]
    /\ UNCHANGED <<proc, now, online, due, series, rx, hist, pending, disk, noise,
                   runs, stale, published, ticks, merged, gapped>>

\* A mutant: off by one.
M_Trimmed(s) == IF Len(s) > MaxPoints + 1 THEN Tail(s) ELSE s

\* At most one point is dropped per tick.
Trimmed(s) == IF Len(s) > MaxPoints THEN Tail(s) ELSE s

\* The history of a count of n published at time t: added to its bucket.
Summed(m, t, n) ==
    [k \in DOMAIN m \cup {BucketKey(t)} |->
        (IF k \in DOMAIN m THEN m[k] ELSE 0) + (IF k = BucketKey(t) THEN n ELSE 0)]

\* The tick publishes the whole series and starts the next interval.  The interval
\* has tokio's default behaviour: missed ticks fire in a burst.
Tick(p) ==
    /\ proc = "up"
    /\ online[p]
    /\ due[p] <= now
    /\ due' = [due EXCEPT ![p] = @ + Period]
    /\ series' = [series EXCEPT
                    ![p] = Trimmed(Append(@, [ts |-> now, value |-> count[p]]))]
    /\ rx' = Send(rx, Snapshot(p, series'[p], ticks[p] + 1))
    /\ count' = [count EXCEPT ![p] = 0]
    /\ published' = [published EXCEPT ![p] = Summed(@, now, count[p])]
    /\ ticks' = [ticks EXCEPT ![p] = @ + 1]
    /\ UNCHANGED <<proc, now, online, hist, pending, disk, events, noise, runs,
                   stale, merged, gapped>>

\* A packet, or telemetry that the history does not use.
OtherItem ==
    /\ proc = "up"
    /\ noise < MaxNoise
    /\ noise' = noise + 1
    /\ rx' = Send(rx, Noise)
    /\ UNCHANGED <<proc, now, producers, hist, pending, disk, events, runs, stale,
                   published, ticks, merged, gapped>>

-----------------------------------------------------------------------------
(* HistoryStore.                                                           *)

KeysOf(s) == {BucketKey(s[i].ts) : i \in DOMAIN s}

\* The newest point of the bucket wins.
LastValue(s, k) == s[Max({i \in DOMAIN s : BucketKey(s[i].ts) = k})].value

\* A mutant: the bucket is built anew, without the other side's fields.
M_BucketAt(h, k) == ZeroBucket

\* entry(k).or_insert_with(...)
BucketAt(h, k) == IF k \in DOMAIN h THEN h[k] ELSE ZeroBucket

\* Every point of the series is written to its bucket, in order.
merge_series(h, p, s) ==
    [k \in DOMAIN h \cup KeysOf(s) |->
        IF k \in KeysOf(s)
        THEN [BucketAt(h, k) EXCEPT ![p] = LastValue(s, k)]
        ELSE h[k]]

Cutoff(t) == BucketKey(t) - Retention

\* The keys prune() removes at time t.
Expired(h, t) == {k \in DOMAIN h : k < Cutoff(t)}

Only(h, K) == [k \in DOMAIN h \cap K |-> h[k]]
Without(h, K) == [k \in DOMAIN h \ K |-> h[k]]

\* upsert_buckets: g's rows replace h's.
Upserted(h, g) == [k \in DOMAIN h \cup DOMAIN g |-> IF k \in DOMAIN g THEN g[k] ELSE h[k]]

-----------------------------------------------------------------------------
(* sse_task.                                                               *)

\* A transaction that fails leaves the table alone.
Outcomes == IF StoreFails THEN BOOLEAN ELSE {TRUE}

\* A snapshot arrives: merged and pruned under the write lock.
MergeSnapshot ==
    /\ proc = "up"
    /\ pending = Nothing
    /\ Ready(rx)
    /\ LET x == Head(rx.items)
           h == merge_series(hist, x.side, x.series)
           kept == Without(h, Expired(h, now))
       IN  /\ x.kind = "tlm"
           /\ hist' = kept
           /\ pending' = [kind |-> "mirror",
                          touched |-> Only(kept, KeysOf(x.series)),
                          pruned |-> Expired(h, now)]
           /\ merged' = [merged EXCEPT ![x.side] = x.nr]
           /\ gapped' = [gapped EXCEPT ![x.side] = @ \/ x.nr > merged[x.side] + MaxPoints]
    /\ rx' = Taken(rx)
    /\ UNCHANGED <<proc, now, producers, disk, events, noise, runs, stale,
                   published, ticks>>

\* A mutant: what was pruned from memory stays in the table.
M_persist_history ==
    /\ proc = "up"
    /\ pending # Nothing
    /\ pending' = Nothing
    /\ disk' = Upserted(disk, pending.touched)
    /\ UNCHANGED <<proc, now, producers, rx, hist, log>>

\* The history of a transaction on the rows K.
Attempted(m, K, ok) == IF ok THEN m \ K ELSE m \cup K

\* persist_history: two transactions, each of which may fail on its own.
persist_history ==
    /\ proc = "up"
    /\ pending # Nothing
    /\ pending' = Nothing
    /\ \E upsertOk, deleteOk \in Outcomes :
          LET d == IF upsertOk THEN Upserted(disk, pending.touched) ELSE disk
          IN  /\ disk' = IF deleteOk THEN Without(d, pending.pruned) ELSE d
              /\ stale' = Attempted(Attempted(stale, DOMAIN pending.touched, upsertOk),
                                    pending.pruned, deleteOk)
    /\ UNCHANGED <<proc, now, producers, rx, hist, events, noise, runs, published,
                   ticks, merged, gapped>>

\* Any other item is only forwarded to the browsers.
ForwardOther ==
    /\ proc = "up"
    /\ pending = Nothing
    /\ Ready(rx)
    /\ Head(rx.items).kind = "other"
    /\ rx' = Taken(rx)
    /\ UNCHANGED <<proc, now, producers, hist, pending, disk, log>>

\* RecvError::Lagged is logged.
SkipLagged ==
    /\ proc = "up"
    /\ pending = Nothing
    /\ Lagging(rx)
    /\ rx' = Relag(rx)
    /\ UNCHANGED <<proc, now, producers, hist, pending, disk, log>>

-----------------------------------------------------------------------------
(* main.                                                                   *)

\* What a process that is gone leaves: nothing in memory.
MemoryGone ==
    /\ online' = [p \in Sides |-> FALSE]
    /\ count' = [p \in Sides |-> 0]
    /\ series' = [p \in Sides |-> <<>>]
    /\ rx' = Subscribed
    /\ hist' = NoBuckets
    /\ pending' = Nothing
    /\ stale' = {}
    /\ published' = NoSums
    /\ ticks' = [p \in Sides |-> 0]
    /\ merged' = [p \in Sides |-> 0]
    /\ gapped' = [p \in Sides |-> FALSE]

\* The tasks have ended, main writes the whole snapshot and the process exits.
Stop ==
    /\ proc = "up"
    /\ pending = Nothing
    /\ proc' = "down"
    /\ \E ok \in Outcomes : disk' = IF ok THEN Upserted(disk, hist) ELSE disk
    /\ MemoryGone
    /\ UNCHANGED <<now, due, events, noise, runs>>

\* The process dies.
Crash ==
    /\ proc = "up"
    /\ proc' = "down"
    /\ MemoryGone
    /\ UNCHANGED <<now, due, disk, events, noise, runs>>

\* The next run seeds the history from the table and prunes both.
Restart ==
    /\ proc = "down"
    /\ runs < MaxRuns
    /\ runs' = runs + 1
    /\ proc' = "up"
    /\ due' = [p \in Sides |-> now]
    /\ \E loadOk, deleteOk \in Outcomes :
          LET restored == IF loadOk THEN disk ELSE NoBuckets
              old == Expired(restored, now)
          IN  /\ hist' = Without(restored, old)
              /\ disk' = IF deleteOk THEN Without(disk, old) ELSE disk
              /\ stale' = IF loadOk THEN Attempted({}, old, deleteOk) ELSE DOMAIN disk
    /\ UNCHANGED <<now, online, count, series, rx, pending, events, noise,
                   published, ticks, merged, gapped>>

Next ==
    \/ SecondPasses \/ OtherItem
    \/ \E p \in Sides : ComesOnline(p) \/ GoesOffline(p) \/ Count(p) \/ Tick(p)
    \/ MergeSnapshot \/ persist_history \/ ForwardOther \/ SkipLagged
    \/ Stop \/ Crash \/ Restart

Spec == Init /\ [][Next]_vars

-----------------------------------------------------------------------------
(* Properties.                                                             *)

Point == [ts : Nat, value : Nat]
IsBuckets(h) ==
    /\ \A k \in DOMAIN h : k \in Nat /\ k % Period = 0
    /\ \A k \in DOMAIN h : h[k] \in [Sides -> Nat]

\* The types of the variables; no series outgrows its limit and every bucket is on
\* a boundary.
TypeOK ==
    /\ proc \in {"up", "down"}
    /\ now \in Nat
    /\ online \in [Sides -> BOOLEAN]
    /\ due \in [Sides -> Nat]
    /\ count \in [Sides -> Nat]
    /\ \A p \in Sides : /\ Len(series[p]) <= MaxPoints
                        /\ \A i \in DOMAIN series[p] : series[p][i] \in Point
    /\ Len(rx.items) <= Cap
    /\ IsBuckets(hist) /\ IsBuckets(disk)
    /\ pending # Nothing => IsBuckets(pending.touched)

\* The last snapshot the side published has been merged.
CaughtUp(p) == merged[p] = ticks[p]

\* The row of key k, if there is one.
Row(h, k) == IF k \in DOMAIN h THEN {h[k]} ELSE {}

\* Whenever sse_task waits, table and memory have the same row, or none, for every
\* key but those whose last transaction failed: buckets that expire, that are
\* merged again or that are seeded are mirrored alike, a failed transaction spoils
\* no row but its own, and a later one that names the row repairs it.
DiskMirrorsMemory ==
    proc = "up" /\ pending = Nothing =>
        \A k \in (DOMAIN hist \cup DOMAIN disk) \ stale : Row(disk, k) = Row(hist, k)

\* While the tasks tick on time, no count is lost or charted twice, however often the
\* channel drops snapshots, as long as it does not drop as many in a row as a series
\* has points: once the side's latest snapshot is merged, each bucket that has not
\* expired holds what this run published into it.
EveryCountCharted ==
    \A p \in Sides : proc = "up" /\ CaughtUp(p) /\ ~gapped[p] =>
        \A k \in DOMAIN published[p] : k >= Cutoff(now) =>
            k \in DOMAIN hist /\ hist[k][p] = published[p][k]

-----------------------------------------------------------------------------
(* What the repository's documents say and the code does not keep; README  *)
(* tells how each one fails.                                               *)

\* The comment on persist_history: what could not be persisted is retried on the
\* next tick.  After a flush in which no transaction failed, table and memory agree.
NextTickRetries ==
    [][ /\ pending # Nothing
        /\ pending' = Nothing
        /\ proc' = "up"
        /\ \A k \in DOMAIN pending.touched : k \in DOMAIN disk' /\ disk'[k] = pending.touched[k]
        /\ DOMAIN disk' \cap pending.pruned = {}
        => DOMAIN disk' \subseteq DOMAIN hist' ]_vars

\* store.rs: a restart, planned or a crash, resumes with the statistics intact.  A
\* count that was saved stays charted until it expires.
SavedCountsStay ==
    [][ \A k \in DOMAIN disk \cap DOMAIN disk', p \in Sides :
            disk'[k][p] >= disk[k][p] ]_vars
=============================================================================
