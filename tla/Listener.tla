------------------------------- MODULE Listener -------------------------------
(***************************************************************************)
(* rtp_listener: what it keeps about the frames it hears and how it        *)
(* mirrors that to the store, across ticks, crashes and restarts.          *)
(*                                                                         *)
(* A frame is abstracted to what the bookkeeping tells apart.  The rows of *)
(* the station and frequency tables are reduced to a count and the time    *)
(* last heard; the other fields are overwritten from the packet.  The      *)
(* listener's reconnection loop is in Lifecycle, what becomes of the       *)
(* broadcast packets in AprsIsGate, the published series in StatHistory.   *)
(***************************************************************************)
EXTENDS Integers, Sequences, FiniteSets

CONSTANTS
    Frames,      \* the frames the producer may send (see Frame)
    Keys,        \* table |-> the keys its rows may have
    Keep,        \* table |-> the age at which a row is evicted
    SatKeep,     \* the age beyond which the satellite log drops a packet
    PacketKeep,  \* the [storage] packet_history window
    MaxRows,     \* the rows of the slicer waterfall
    MaxTime,     \* bound: how long a behaviour lasts
    MaxFrames,   \* bound: frames received
    MaxTicks,    \* bound: statistics ticks
    MaxRuns,     \* bound: starts of the process
    MaxFaults    \* bound: transactions of the store that fail

Tables == {"stations", "freqs"}

\* bank is the length of the slicer_gains the frame carries, 0 for none; mask the
\* slicers that decoded it; late how far its time stamp lies behind the clock;
\* meta is FALSE for a frame without ax25_meta.
Frame == [stations : Keys["stations"], freqs : Keys["freqs"], sat : BOOLEAN,
          late : Nat, bank : Nat, mask : SUBSET Nat, meta : BOOLEAN]

ASSUME ListenerAssumption ==
    /\ Frames \subseteq Frame
    /\ Keep["stations"] \in Nat /\ Keep["freqs"] \in Nat
    /\ SatKeep \in Nat /\ PacketKeep \in Nat /\ MaxRows \in Nat \ {0}
    /\ MaxTime \in Nat /\ MaxFrames \in Nat /\ MaxTicks \in Nat /\ MaxRuns \in Nat
    /\ MaxFaults \in Nat

VARIABLES
    proc,      \* "up", "ended" by a graceful stop, or "dead"
    now,       \* the clock
    life,      \* lifetime_total_packets
    count,     \* total_packets of the interval
    table,     \* station_map and freq_counts
    dirty,     \* dirty_stations and dirty_freqs
    satlog,    \* sat_packet_log: the time stamps, oldest first
    slicer,    \* slicer_count, lifetime_slicer_hits, slicer_interval, slicer_history
    restored,  \* restored_slicer
    disk,      \* the tables of the store
    failed,    \* history: the calls (see Calls) that failed when last made
    ticked,    \* history: has nothing happened since the last tick?
    tally      \* history: what the bounds cap

vars == <<proc, now, life, count, table, dirty, satlog, slicer, restored, disk,
          failed, ticked, tally>>

memory == <<life, count, table, dirty, satlog, slicer, restored>>

None == [kind |-> "none"]

NoRows == [k \in {} |-> 0]
NoTables == [t \in Tables |-> NoRows]
NoDirty == [t \in Tables |-> {}]

\* Vec of n zeros.
Zeros(n) == [i \in 1 .. n |-> 0]

FreshSlicer == [n |-> 0, hits |-> <<>>, interval |-> <<>>, rows |-> <<>>]

EmptyDisk == [life |-> 0, table |-> NoTables, slicer |-> None, sat |-> {},
              packets |-> NoRows]

Init ==
    /\ proc = "up"
    /\ now = 0
    /\ life = 0
    /\ count = 0
    /\ table = NoTables
    /\ dirty = NoDirty
    /\ satlog = <<>>
    /\ slicer = FreshSlicer
    /\ restored = None
    /\ disk = EmptyDisk
    /\ failed = {}
    /\ ticked = FALSE
    /\ tally = [frames |-> 0, ticks |-> 0, runs |-> 1, faults |-> 0]

TimePasses ==
    /\ now < MaxTime
    /\ now' = now + 1
    /\ ticked' = FALSE
    /\ UNCHANGED <<proc, memory, disk, failed, tally>>

-----------------------------------------------------------------------------
(* The store.  Every call is a transaction of its own.                     *)

\* A call on a whole table, and one on a row of it.
Whole(names) == names \X {"all"}
RowCalls == UNION {{t} \X Keys[t] : t \in Tables}

\* The calls: on the singletons and the logs, and on rows.
Calls == Whole({"life", "slicer", "sat", "packets"}) \cup RowCalls

Failed(name, bad) == <<name, "all">> \in bad

\* The calls of a flush: the singletons and the dirty and evicted rows.
Flushed(gone) ==
    Whole({"life"} \cup IF slicer.n > 0 THEN {"slicer"} ELSE {})
        \cup UNION {{t} \X (dirty[t] \cup gone[t]) : t \in Tables}

\* The sets of calls that may fail.
Failures(calls) ==
    {bad \in SUBSET calls : Cardinality(bad) + tally.faults <= MaxFaults}

\* The history of calls of which those in bad failed.
Record(t, calls, bad) ==
    /\ failed' = (failed \ calls) \cup bad
    /\ tally' = [t EXCEPT !.faults = @ + Cardinality(bad)]

Put(m, k, v) == [x \in DOMAIN m \cup {k} |-> IF x = k THEN v ELSE m[x]]
Without(m, K) == [x \in DOMAIN m \ K |-> m[x]]
Good(K, t, bad) == {k \in K : <<t, k>> \notin bad}

\* A mutant: the interval's counter is saved.
M_SavedLife(bad) == IF Failed("life", bad) THEN disk.life ELSE count

\* persist_packet_lifetime.
SavedLife(bad) == IF Failed("life", bad) THEN disk.life ELSE life

\* A mutant: not skipped.
M_SavedSlicer(bad) ==
    IF Failed("slicer", bad) THEN disk.slicer
    ELSE [kind |-> "saved", hits |-> slicer'.hits, rows |-> slicer'.rows]

\* save_slicer, which is skipped until the geometry is known.
SavedSlicer(bad) ==
    IF slicer'.n > 0 /\ ~Failed("slicer", bad)
    THEN [kind |-> "saved", hits |-> slicer'.hits, rows |-> slicer'.rows]
    ELSE disk.slicer

\* A mutant: evicted rows are not deleted.
M_FlushedRows(t, gone, bad) ==
    LET put == Good((dirty[t] \ gone) \cap DOMAIN table'[t], t, bad)
    IN  [k \in DOMAIN disk.table[t] \cup put |->
            IF k \in put THEN table'[t][k] ELSE disk.table[t][k]]

\* The rows of table t after the deletions of gone and the upserts of the dirty
\* keys, of which the calls in bad failed.
FlushedRows(t, gone, bad) ==
    LET del == Good(gone, t, bad)
        put == Good((dirty[t] \ gone) \cap DOMAIN table'[t], t, bad)
    IN  [k \in (DOMAIN disk.table[t] \ del) \cup put |->
            IF k \in put THEN table'[t][k] ELSE disk.table[t][k]]

-----------------------------------------------------------------------------
(* A frame arrives.                                                        *)

\* A mutant: what was restored is used whatever the size of the bank.
M_Adopted(n) ==
    IF restored # None
    THEN [hits |-> restored.hits, rows |-> restored.rows]
    ELSE [hits |-> Zeros(n), rows |-> slicer.rows]

\* The lifetime hits and the waterfall once the bank is known to have n slicers:
\* those of the last run if it had as many.
Adopted(n) ==
    IF restored # None /\ Len(restored.hits) = n
    THEN [hits |-> restored.hits, rows |-> restored.rows]
    ELSE [hits |-> Zeros(n), rows |-> slicer.rows]

\* The first frame that carries the gain ladder tells the size of the bank.
Learned(f) ==
    IF slicer.n = 0 /\ f.bank > 0
    THEN [n |-> f.bank, hits |-> Adopted(f.bank).hits,
          interval |-> Zeros(f.bank), rows |-> Adopted(f.bank).rows]
    ELSE slicer

Tallied(v, mask) == [i \in DOMAIN v |-> IF i \in mask THEN v[i] + 1 ELSE v[i]]

\* A frame without ax25_meta: only the geometry is taken from it.
SkipFrame(f) ==
    /\ proc = "up"
    /\ ~f.meta
    /\ tally.frames < MaxFrames
    /\ tally' = [tally EXCEPT !.frames = @ + 1]
    /\ slicer' = Learned(f)
    /\ restored' = IF slicer.n = 0 /\ f.bank > 0 THEN None ELSE restored
    /\ ticked' = FALSE
    /\ UNCHANGED <<proc, now, life, count, table, dirty, satlog, disk, failed>>

\* The row of key k after a packet stamped s.
Touched(m, k, s) == Put(m, k, [n |-> IF k \in DOMAIN m THEN m[k].n + 1 ELSE 1,
                               last |-> s])

\* A packet is heard: counted, its rows updated and marked dirty, and stored.
HearFrame(f) ==
    /\ proc = "up"
    /\ f.meta
    /\ f.late <= now
    /\ tally.frames < MaxFrames
    /\ LET s == now - f.late
           nr == tally.frames
           l == Learned(f)
       IN  /\ slicer' = [l EXCEPT !.hits = Tallied(@, f.mask),
                                  !.interval = Tallied(@, f.mask)]
           /\ table' = [t \in Tables |-> Touched(table[t], f[t], s)]
           /\ satlog' = IF f.sat THEN Append(satlog, s) ELSE satlog
           /\ \E bad \in Failures(Whole({"packets"} \cup IF f.sat THEN {"sat"} ELSE {})) :
                 /\ disk' = [disk EXCEPT
                       !.sat = IF f.sat /\ ~Failed("sat", bad) THEN @ \cup {s} ELSE @,
                       !.packets = IF Failed("packets", bad) THEN @ ELSE Put(@, s, nr)]
                 /\ Record([tally EXCEPT !.frames = @ + 1], {}, bad)
    /\ restored' = IF slicer.n = 0 /\ f.bank > 0 THEN None ELSE restored
    /\ dirty' = [t \in Tables |-> dirty[t] \cup {f[t]}]
    /\ life' = life + 1
    /\ count' = count + 1
    /\ ticked' = FALSE
    /\ UNCHANGED <<proc, now>>

-----------------------------------------------------------------------------
(* The statistics tick.                                                    *)

\* The rows retain() drops.
Evicted(t) == {k \in DOMAIN table[t] : now - table[t][k].last >= Keep[t]}

\* A mutant: one packet per tick.
M_SatPruned == IF satlog # <<>> /\ now - satlog[1] > SatKeep THEN 1 ELSE 0

\* The packets at the front of the satellite log that are too old: the log is in
\* order of arrival, and the first one young enough ends the pruning.
SatPruned ==
    CHOOSE n \in 0 .. Len(satlog) :
        /\ \A i \in 1 .. n : now - satlog[i] > SatKeep
        /\ n < Len(satlog) => now - satlog[n + 1] <= SatKeep

\* while slicer_history.len() > 10 { pop_front }
Waterfall(rows) ==
    IF Len(rows) > MaxRows THEN SubSeq(rows, Len(rows) - MaxRows + 1, Len(rows))
    ELSE rows

\* The tick publishes, evicts, resets the interval and flushes to the store.  The
\* dirty sets are drained whether or not the upserts succeed.
Tick ==
    /\ proc = "up"
    /\ tally.ticks < MaxTicks
    /\ slicer' = [slicer EXCEPT !.rows = Waterfall(Append(@, slicer.interval)),
                                !.interval = Zeros(slicer.n)]
    /\ table' = [t \in Tables |-> Without(table[t], Evicted(t))]
    /\ satlog' = SubSeq(satlog, SatPruned + 1, Len(satlog))
    /\ count' = 0
    /\ dirty' = NoDirty
    /\ LET gone  == [t \in Tables |-> Evicted(t)]
           calls == Flushed(gone)
       IN  \E bad \in Failures(calls \cup Whole({"sat", "packets"})) :
              /\ disk' = [life    |-> SavedLife(bad),
                          table   |-> [t \in Tables |-> FlushedRows(t, gone[t], bad)],
                          slicer  |-> SavedSlicer(bad),
                          sat     |-> IF Failed("sat", bad) THEN disk.sat
                                      ELSE disk.sat \ {satlog[i] : i \in 1 .. SatPruned},
                          packets |-> IF Failed("packets", bad) THEN disk.packets
                                      ELSE Without(disk.packets,
                                                   {s \in DOMAIN disk.packets :
                                                        s < now - PacketKeep})]
              /\ Record([tally EXCEPT !.ticks = @ + 1], calls, bad)
    /\ ticked' = TRUE
    /\ UNCHANGED <<proc, now, life, restored>>

-----------------------------------------------------------------------------
(* The end of a run, and the next one.                                     *)

\* A mutant: the final flush saves the counters and the slicers only.
M_Stop ==
    /\ proc = "up"
    /\ proc' = "ended"
    /\ slicer' = slicer
    /\ disk' = [disk EXCEPT !.life = SavedLife({}), !.slicer = SavedSlicer({})]
    /\ dirty' = NoDirty
    /\ ticked' = FALSE
    /\ UNCHANGED <<now, life, count, table, satlog, restored, failed, tally>>

\* Cancelled: the final flush.
Stop ==
    /\ proc = "up"
    /\ proc' = "ended"
    /\ UNCHANGED <<life, count, table, satlog, slicer, restored>>
    /\ LET calls == Flushed(NoDirty)
       IN  \E bad \in Failures(calls) :
              /\ disk' = [disk EXCEPT
                            !.life = SavedLife(bad),
                            !.table = [t \in Tables |-> FlushedRows(t, {}, bad)],
                            !.slicer = SavedSlicer(bad)]
              /\ Record(tally, calls, bad)
    /\ dirty' = NoDirty
    /\ ticked' = FALSE
    /\ UNCHANGED now

\* The process dies, and with it what was in memory.
Crash ==
    /\ proc = "up"
    /\ proc' = "dead"
    /\ life' = 0
    /\ table' = NoTables
    /\ dirty' = NoDirty
    /\ satlog' = <<>>
    /\ slicer' = FreshSlicer
    /\ restored' = None
    /\ count' = 0
    /\ ticked' = FALSE
    /\ UNCHANGED <<now, disk, failed, tally>>

\* The elements of a set of integers, in order.
Ascending(S) ==
    CHOOSE q \in [1 .. Cardinality(S) -> S] :
        \A i, j \in DOMAIN q : i < j => q[i] < q[j]

\* The next run loads each part of the state; a part that cannot be loaded starts
\* empty.  The slicers wait for the geometry.
Restart ==
    /\ proc # "up"
    /\ tally.runs < MaxRuns
    /\ proc' = "up"
    /\ \E bad \in Failures(Whole({"life", "slicer", "sat"} \cup Tables)) :
          /\ life' = IF Failed("life", bad) THEN 0 ELSE disk.life
          /\ table' = [t \in Tables |-> IF Failed(t, bad) THEN NoRows ELSE disk.table[t]]
          /\ restored' = IF Failed("slicer", bad) THEN None ELSE disk.slicer
          /\ satlog' = IF Failed("sat", bad) THEN <<>> ELSE Ascending(disk.sat)
          /\ tally' = [tally EXCEPT !.runs = @ + 1, !.faults = @ + Cardinality(bad)]
          /\ failed' = (bad \cap Calls)
                         \cup UNION {{t} \X Keys[t] : t \in {u \in Tables : Failed(u, bad)}}
    /\ count' = 0
    /\ dirty' = NoDirty
    /\ slicer' = FreshSlicer
    /\ ticked' = FALSE
    /\ UNCHANGED <<now, disk>>

Next ==
    \/ TimePasses \/ Tick \/ Stop \/ Crash \/ Restart
    \/ \E f \in Frames : HearFrame(f) \/ SkipFrame(f)

Spec == Init /\ [][Next]_vars

-----------------------------------------------------------------------------
(* Properties.                                                             *)

IsRows(m, K) == DOMAIN m \subseteq K /\ \A k \in DOMAIN m : m[k].n \in Nat \ {0}
IsCounts(v, n) == DOMAIN v = 1 .. n /\ \A i \in DOMAIN v : v[i] \in Nat

\* The types of the variables: the counters of the slicers have one entry per
\* slicer, and the waterfall does not outgrow its limit.
TypeOK ==
    /\ proc \in {"up", "ended", "dead"}
    /\ now \in Nat /\ life \in Nat /\ count \in Nat
    /\ \A t \in Tables : /\ IsRows(table[t], Keys[t])
                         /\ IsRows(disk.table[t], Keys[t])
                         /\ dirty[t] \subseteq DOMAIN table[t]
    /\ IsCounts(slicer.hits, slicer.n)
    /\ IsCounts(slicer.interval, slicer.n)
    /\ Len(slicer.rows) <= MaxRows
    /\ disk.life \in Nat
    /\ ticked \in BOOLEAN

Row(m, k) == IF k \in DOMAIN m THEN m[k] ELSE None

\* A row that no packet touched since the last tick is on disk exactly as in memory,
\* unless the row's own last transaction failed: neither an eviction nor a packet
\* heard just before one leaves a row behind that a restart would bring back, a
\* failed transaction spoils no other row, and the next one on the row repairs it.
RowsMirrored ==
    proc = "up" =>
        \A t \in Tables : \A k \in Keys[t] \ dirty[t] :
            <<t, k>> \notin failed => Row(table[t], k) = Row(disk.table[t], k)

\* A crash loses at most the current interval of whatever the last flush saved.
CrashLosesOneTick ==
    proc = "up" =>
        /\ ~Failed("life", failed) => life = disk.life + count
        /\ \A t \in Tables : \A k \in dirty[t] :
              <<t, k>> \notin failed =>
                 table[t][k].n - (IF k \in DOMAIN disk.table[t] THEN disk.table[t][k].n
                                  ELSE 0) \in 0 .. count

\* A graceful stop loses nothing but what its own flush could not write, and rows that
\* an earlier flush could not write and no packet has touched since: their marks are
\* gone, and the final flush does not try them again.
StopLosesNothing ==
    [][ proc = "up" /\ proc' = "ended" =>
          LET own     == failed' \cap Flushed(NoDirty)
              earlier == failed \ Flushed(NoDirty)
          IN  /\ ~Failed("life", own) => disk'.life = life
              /\ \A t \in Tables : \A k \in Keys[t] :
                    <<t, k>> \notin own \cup earlier =>
                       Row(disk'.table[t], k) = Row(table[t], k)
              /\ slicer.n > 0 /\ ~Failed("slicer", own) =>
                    disk'.slicer.kind = "saved" /\ disk'.slicer.hits = slicer.hits
      ]_vars

\* What the store promises of lifetime_total_packets, as an abstract machine.
CP == INSTANCE Checkpoint WITH
        Fields    <- {"packets"},
        SaveFails <- MaxFaults > 0,
        LoadFails <- MaxFaults > 0,
        mode      <- proc,
        value     <- [f \in {"packets"} |-> IF proc = "dead" THEN disk.life ELSE life],
        saved     <- [f \in {"packets"} |-> disk.life]

\* The listener implements that machine: a packet is counted once and for good, a
\* tick or a stop saves the counter, a crash falls back to the last save.
ImplementsCheckpoint == CP!Spec

\* The lifetime hits on disk survive every restart, also of a run that ends before
\* it knows the geometry; only a bank of another size resets them, or a run that
\* could not load them.
HitsSurvive ==
    [][ disk.slicer # None /\ ~Failed("slicer", failed) =>
          /\ disk'.slicer # None
          /\ IF Len(disk'.slicer.hits) = Len(disk.slicer.hits)
             THEN \A i \in DOMAIN disk.slicer.hits :
                    disk'.slicer.hits[i] >= disk.slicer.hits[i]
             ELSE slicer.n > 0 /\ Len(disk'.slicer.hits) = slicer.n ]_vars

\* With time stamps that are in order, the satellite log and its table hold the same
\* packets until a transaction on it fails, and a tick leaves none that is too old.
SatLogMirrored ==
    proc = "up" =>
        /\ ~Failed("sat", failed) => disk.sat = {satlog[i] : i \in DOMAIN satlog}
        /\ ticked => \A i \in DOMAIN satlog : now - satlog[i] <= SatKeep

-----------------------------------------------------------------------------
(* What the repository's documents say and the code does not keep; README  *)
(* tells how each one fails.                                               *)

\* The comment at stream.rs:569: what could not be persisted is retried on the next
\* tick.  A tick with no change of its own to persist leaves no row that differs.
NextTickRetries ==
    [][ /\ tally'.ticks # tally.ticks
        /\ \A t \in Tables : dirty[t] = {} /\ Evicted(t) = {}
        => \A t \in Tables : disk'.table[t] = table'[t] ]_vars

\* stream.rs:840: the final flush is there so that a graceful stop loses nothing.  It
\* loses the rows that a tick could not write, though the store works again.
StopWritesAll ==
    [][ proc = "up" /\ proc' = "ended" =>
          \A t \in Tables : \A k \in Keys[t] :
              <<t, k>> \notin failed' \cap Flushed(NoDirty) =>
                 Row(disk'.table[t], k) = Row(table[t], k) ]_vars

\* config.rs:129: a row of the waterfall has one count per slicer.
RowsFitBank == \A i \in DOMAIN slicer.rows : Len(slicer.rows[i]) = slicer.n

\* main.rs:220: the satellite log is seeded from the store, then pruned, so that
\* what expired while the process was down is dropped.
SeededLogPruned ==
    [][ proc # "up" /\ proc' = "up" =>
          \A i \in DOMAIN satlog' : now - satlog'[i] <= SatKeep ]_vars
=============================================================================
