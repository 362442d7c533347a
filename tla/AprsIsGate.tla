------------------------------ MODULE AprsIsGate ------------------------------
(***************************************************************************)
(* The gating half of aprsis_task: packets arrive over the broadcast       *)
(* channel, pass droppacket, the duplicate cache and the CR/LF check at    *)
(* the write boundary, and are written to the APRS-IS server.  Every       *)
(* outcome is counted twice: in lifetime counters that are persisted, and  *)
(* in interval counters that are published and reset on the telemetry tick.*)
(*                                                                         *)
(* The other half of the task (beacons, APRS telemetry) shares the socket; *)
(* its only effect here is that a failed write of its own ends the session *)
(* (SessionEnds).  Backoff and the order of the attempts are in Lifecycle: *)
(* here Dial, Connected, LoggedIn and DialFails.                           *)
(***************************************************************************)
EXTENDS Igate, Broadcast

CONSTANTS
    Packets,        \* the packets the receiver may hear
    TTL,            \* DEDUP_TTL_SECS
    WriteTimeout,   \* WRITE_TIMEOUT
    GatingModes,    \* the values of igating && rw the configurations give
    Skews,          \* the offsets clock steps may put between wall clock and Instant
    LoadFails,      \* may loading the counters at startup return an error?
    SaveFails,      \* may saving them return an error?
    MaxTime,        \* bound: seconds a behaviour lasts
    MaxSends,       \* bound: items put on the broadcast channel
    MaxRuns,        \* bound: starts of the process
    MaxSessions     \* bound: TCP connections opened

ASSUME GateAssumption ==
    /\ Packets \subseteq Packet
    /\ TTL \in Nat
    /\ WriteTimeout \in Nat
    /\ GatingModes \subseteq BOOLEAN
    /\ Skews \subseteq Int
    /\ LoadFails \in BOOLEAN
    /\ SaveFails \in BOOLEAN
    /\ MaxTime \in Nat /\ MaxSends \in Nat /\ MaxRuns \in Nat
    /\ MaxSessions \in Nat

VARIABLES
    conn,       \* where the task is (see Phases)
    cancelled,  \* the CancellationToken
    rx,         \* data_stream, the task's receiver of the broadcast channel
    writing,    \* the packet whose write_all is awaited, and when it was decided
    dedup,      \* dedup_cache
    life,       \* the lifetime_* counters and total_reconnects
    stats,      \* the interval counters
    first,      \* first_connect
    gating,     \* igating && rw, read from the configuration at startup
    disk,       \* the AprsisLifetime row of the store
    mono,       \* the monotonic clock (Instant), in seconds
    skew,       \* wall clock minus monotonic clock
    sent, base, published, tally  \* history, read by bounds and properties only

vars == <<conn, cancelled, rx, writing, dedup, life, stats, first, gating, disk,
          mono, skew, sent, base, published, tally>>

(***************************************************************************)
(* "down": at the top of the outer loop or in a backoff sleep; "dialing":  *)
(* past the cancellation check, resolving or connecting; "login": in       *)
(* login_to_aprsis; "up": in the inner loop's select!; "writing": awaiting *)
(* write_all of a packet; "ended": the task returned; "dead": the process  *)
(* is gone.                                                                *)
(***************************************************************************)
Phases == {"down", "dialing", "login", "up", "writing", "ended", "dead"}

Running == conn \notin {"ended", "dead"}

Wall == mono + skew      \* Local::now().timestamp()

PktItem(p) == [kind |-> "pkt", pkt |-> p, born |-> mono]
TlmItem    == [kind |-> "tlm"]
NoWrite    == [kind |-> "none"]

(***************************************************************************)
(* History.  Of the current run of the process: "sent" lists the lines     *)
(* handed to the server, "base" is what the lifetime counters started from *)
(* and "published" the sum of the interval counters published so far.  The *)
(* counts of "tally": "sends", "runs" and "sessions" of the behaviour,     *)
(* which the bounds cap; "offered" and "taken", the items sent to the task *)
(* and received by it in this run, and "lagPkts", the packets among those  *)
(* the channel dropped; "lost", the packets heard while gating was off or  *)
(* whose write failed since the lifetime counters were zero, and           *)
(* "lostDisk", its value when the counters were last saved.                *)
(***************************************************************************)
log == <<sent, base, published>>
clocks == <<mono, skew>>

StatFields == {"rf", "igated", "dropped", "reconnects"}
LifeFields == StatFields \cup {"lagged"} \cup DropReasons
TallyFields == {"sends", "runs", "sessions", "offered", "taken", "lagPkts",
                "lost", "lostDisk"}

\* Every counter at zero.
ZeroLife  == [f \in LifeFields |-> 0]
ZeroStats == [f \in StatFields |-> 0]

Init ==
    /\ conn = "down"
    /\ cancelled = FALSE
    /\ rx = Subscribed
    /\ writing = NoWrite
    /\ dedup = [k \in {} |-> 0]
    /\ life = ZeroLife
    /\ stats = ZeroStats
    /\ first = TRUE
    /\ gating \in GatingModes
    /\ disk = ZeroLife
    /\ mono = 0
    /\ skew = 0
    /\ sent = <<>>
    /\ base = ZeroLife
    /\ published = ZeroStats
    /\ tally = [f \in TallyFields |-> IF f = "runs" THEN 1 ELSE 0]

-----------------------------------------------------------------------------
(* The channel and the clocks: what the rest of the world does.            *)

\* The history of one more item sent: if the channel is full the oldest item is
\* dropped, and lagPkts counts the packets among those.
Offered(t) ==
    [t EXCEPT !["sends"] = @ + 1, !["offered"] = @ + 1,
              !["lagPkts"] =
                  IF Len(rx.items) >= Cap /\ Head(rx.items).kind = "pkt"
                  THEN @ + 1 ELSE @]

\* Another task sends an item on the channel.
Offer(item) ==
    /\ Running
    /\ tally["sends"] < MaxSends
    /\ rx' = Send(rx, item)
    /\ tally' = Offered(tally)
    /\ UNCHANGED <<conn, cancelled, writing, dedup, life, stats, first, disk,
                   gating, clocks, log>>

\* rtp_listener has decoded a packet and broadcasts it.
HearPacket(p) == Offer(PktItem(p))

\* A task broadcasts a telemetry item: rtp_listener's tick, or gpsd_task.
OtherTelemetry == Offer(TlmItem)

\* A second passes.  timeout(WRITE_TIMEOUT, ...) ends a write before time can
\* run past its deadline.
SecondPasses ==
    /\ mono < MaxTime
    /\ conn = "writing" => mono - writing.at < WriteTimeout
    /\ mono' = mono + 1
    /\ UNCHANGED <<conn, cancelled, rx, writing, dedup, life, stats, first,
                   disk, skew, gating, tally, log>>

\* The wall clock is stepped; Instant is not.
ClockStep ==
    /\ skew' \in Skews \ {skew}
    /\ UNCHANGED <<conn, cancelled, rx, writing, dedup, life, stats, first,
                   disk, gating, mono, tally, log>>

-----------------------------------------------------------------------------
(* Sessions with the server.                                               *)

\* The top of the outer loop: a fresh attempt, unless shutdown was requested.
Dial ==
    /\ conn = "down"
    /\ ~cancelled
    /\ tally["sessions"] < MaxSessions
    /\ conn' = "dialing"
    /\ UNCHANGED <<cancelled, rx, writing, dedup, life, stats, first, disk,
                   gating, clocks, tally, log>>

\* TCP connected: a reconnect is counted before the login is tried.
Connected ==
    /\ conn = "dialing"
    /\ conn' = "login"
    /\ first' = FALSE
    /\ IF first
       THEN UNCHANGED <<life, stats>>
       ELSE /\ life' = [life EXCEPT !["reconnects"] = @ + 1]
            /\ stats' = [stats EXCEPT !["reconnects"] = @ + 1]
    /\ tally' = [tally EXCEPT !["sessions"] = @ + 1]
    /\ UNCHANGED <<cancelled, rx, writing, dedup, disk, gating, clocks, log>>

LoggedIn ==
    /\ conn = "login"
    /\ conn' = "up"
    /\ UNCHANGED <<cancelled, rx, writing, dedup, life, stats, first, disk,
                   gating, clocks, tally, log>>

\* Resolving, connecting or logging in failed or timed out.
DialFails ==
    /\ conn \in {"dialing", "login"}
    /\ conn' = "down"
    /\ UNCHANGED <<cancelled, rx, writing, dedup, life, stats, first, disk,
                   gating, clocks, tally, log>>

\* The inner loop breaks: the server closed, the read failed, or a beacon or
\* telemetry write failed.  The receiver and the counters outlive the session.
SessionEnds ==
    /\ conn = "up"
    /\ conn' = "down"
    /\ UNCHANGED <<cancelled, rx, writing, dedup, life, stats, first, disk,
                   gating, clocks, tally, log>>

-----------------------------------------------------------------------------
(* recv() on the data channel, in the inner loop.                          *)

\* The packet at the head of the receiver, and its age by the monotonic clock.
HeadPkt == Head(rx.items).pkt
HeadAge == mono - Head(rx.items).born

\* recv() yields a packet: it leaves the receiver.
TakePacket ==
    /\ conn = "up"
    /\ Ready(rx)
    /\ Head(rx.items).kind = "pkt"
    /\ rx' = Taken(rx)
    /\ UNCHANGED <<cancelled, dedup, first, disk, gating, clocks, log>>

\* The same, when the task gates: what follows decides the packet's fate.
TakeForGating ==
    /\ TakePacket
    /\ gating
    /\ tally' = [tally EXCEPT !["taken"] = @ + 1]

\* The packet is counted as heard.
Heard(c) == [c EXCEPT !["rf"] = @ + 1]

\* The counters after a packet was heard and dropped for reason r.
HeardAndDropped(r) ==
    /\ life' = [life EXCEPT !["rf"] = @ + 1, !["dropped"] = @ + 1, ![r] = @ + 1]
    /\ stats' = [stats EXCEPT !["rf"] = @ + 1, !["dropped"] = @ + 1]

\* A mutant: only the purge on the telemetry tick ends an entry.
M_IsDuplicate(k) == k \in DOMAIN dedup

\* The key was gated less than TTL ago, by the wall clock.
IsDuplicate(k) == k \in DOMAIN dedup /\ Wall - dedup[k] < TTL

\* Igating is off, or the passcode does not allow writes: count and ignore.
RecvUngated ==
    /\ TakePacket
    /\ ~gating
    /\ life' = Heard(life)
    /\ stats' = Heard(stats)
    /\ tally' = [tally EXCEPT !["taken"] = @ + 1, !["lost"] = @ + 1]
    /\ UNCHANGED <<conn, writing>>

\* A mutant: the rule's own counter is forgotten when the packet is stale.
M_RecvDropped ==
    /\ TakeForGating
    /\ LET r == droppacket(HeadPkt, HeadAge)
       IN  /\ r # NoReason
           /\ life' = [life EXCEPT !["rf"] = @ + 1, !["dropped"] = @ + 1,
                                   ![r] = IF r = "stale" THEN @ ELSE @ + 1]
           /\ stats' = [stats EXCEPT !["rf"] = @ + 1, !["dropped"] = @ + 1]
    /\ UNCHANGED <<conn, writing>>

\* A rule of droppacket filters the packet.
RecvDropped ==
    /\ TakeForGating
    /\ LET r == droppacket(HeadPkt, HeadAge)
       IN  r # NoReason /\ HeardAndDropped(r)
    /\ UNCHANGED <<conn, writing>>

\* The same source and info was gated within the TTL.
RecvDuplicate ==
    /\ TakeForGating
    /\ droppacket(HeadPkt, HeadAge) = NoReason
    /\ IsDuplicate(HeadPkt.key)
    /\ HeardAndDropped("duplicate")
    /\ UNCHANGED <<conn, writing>>

\* A mutant: the refusal is not counted.
M_RecvRefused ==
    /\ TakeForGating
    /\ droppacket(HeadPkt, HeadAge) = NoReason
    /\ ~IsDuplicate(HeadPkt.key)
    /\ LineHasCrlf(HeadPkt)
    /\ life' = Heard(life)
    /\ stats' = Heard(stats)
    /\ UNCHANGED <<conn, writing>>

\* The check at the write boundary: the assembled line would hold a CR or LF.
RecvRefused ==
    /\ TakeForGating
    /\ droppacket(HeadPkt, HeadAge) = NoReason
    /\ ~IsDuplicate(HeadPkt.key)
    /\ LineHasCrlf(HeadPkt)
    /\ HeardAndDropped("malformed")
    /\ UNCHANGED <<conn, writing>>

\* The line is handed to write_all.  now_ts was read before the await and is
\* what WriteOk stores; nothing else of the task runs until the write is over.
RecvWrite ==
    /\ TakeForGating
    /\ droppacket(HeadPkt, HeadAge) = NoReason
    /\ ~IsDuplicate(HeadPkt.key)
    /\ ~LineHasCrlf(HeadPkt)
    /\ conn' = "writing"
    /\ writing' = [kind |-> "line", pkt |-> HeadPkt, age |-> HeadAge,
                   at |-> mono, now_ts |-> Wall]
    /\ life' = Heard(life)
    /\ stats' = Heard(stats)

\* HashMap::insert.
Insert(m, k, v) == [x \in DOMAIN m \cup {k} |-> IF x = k THEN v ELSE m[x]]

\* write_all completed in time.
WriteOk ==
    /\ conn = "writing"
    /\ conn' = "up"
    /\ writing' = NoWrite
    /\ dedup' = Insert(dedup, writing.pkt.key, writing.now_ts)
    /\ life' = [life EXCEPT !["igated"] = @ + 1]
    /\ stats' = [stats EXCEPT !["igated"] = @ + 1]
    /\ sent' = Append(sent, [pkt |-> writing.pkt, age |-> writing.age,
                             at |-> writing.at, done |-> mono])
    /\ UNCHANGED <<cancelled, rx, first, disk, gating, clocks, base, published,
                   tally>>

\* write_all failed or timed out: the session is over, the packet is counted
\* neither as gated nor as dropped, and is not remembered as a duplicate.
WriteFails ==
    /\ conn = "writing"
    /\ conn' = "down"
    /\ writing' = NoWrite
    /\ tally' = [tally EXCEPT !["lost"] = @ + 1]
    /\ UNCHANGED <<cancelled, rx, dedup, life, stats, first, disk, gating,
                   clocks, log>>

\* recv() yields a telemetry item: ignored.
RecvTelemetry ==
    /\ conn = "up"
    /\ Ready(rx)
    /\ Head(rx.items).kind = "tlm"
    /\ rx' = Taken(rx)
    /\ tally' = [tally EXCEPT !["taken"] = @ + 1]
    /\ UNCHANGED <<conn, cancelled, writing, dedup, life, stats, first, disk,
                   gating, clocks, log>>

\* A mutant: the lag is counted as one event.
M_RecvLagged ==
    /\ conn = "up"
    /\ Lagging(rx)
    /\ rx' = Relag(rx)
    /\ life' = [life EXCEPT !["lagged"] = @ + 1]
    /\ UNCHANGED <<conn, cancelled, writing, dedup, stats, first, disk, gating,
                   clocks, tally, log>>

\* recv() yields Lagged(n).
RecvLagged ==
    /\ conn = "up"
    /\ Lagging(rx)
    /\ rx' = Relag(rx)
    /\ life' = [life EXCEPT !["lagged"] = @ + rx.missed]
    /\ UNCHANGED <<conn, cancelled, writing, dedup, stats, first, disk, gating,
                   clocks, tally, log>>

-----------------------------------------------------------------------------
(* The telemetry tick, shutdown, crash and restart.                        *)

\* persist_aprsis_lifetime, with t the tally of the action it is part of: an
\* error is logged and otherwise ignored.
Persist(t) ==
    \/ /\ disk' = life
       /\ tally' = [t EXCEPT !["lostDisk"] = t["lost"]]
    \/ /\ SaveFails
       /\ UNCHANGED disk
       /\ tally' = t

\* A mutant of the purge: it keeps only the entries of this very second.
M_Purged == [k \in {x \in DOMAIN dedup : Wall - dedup[x] < 1} |-> dedup[k]]

\* dedup_cache.retain(|_, ts| now_ts - ts < DEDUP_TTL_SECS)
Purged == [k \in {x \in DOMAIN dedup : Wall - dedup[x] < TTL} |-> dedup[k]]

\* A mutant: packets_dropped is not reset.
M_ResetStats == [ZeroStats EXCEPT !["dropped"] = stats["dropped"]]

\* The reset of the interval counters.
ResetStats == ZeroStats

\* The telemetry tick fires only in the inner loop.  The task's own status
\* item goes through the channel the task itself receives from.
TelemetryTick ==
    /\ conn = "up"
    /\ tally["sends"] < MaxSends
    /\ dedup' = Purged
    /\ rx' = Send(rx, TlmItem)
    /\ stats' = ResetStats
    /\ published' = [f \in StatFields |-> published[f] + stats[f]]
    /\ Persist(Offered(tally))
    /\ UNCHANGED <<conn, cancelled, writing, life, first, gating, clocks, sent,
                   base>>

\* main cancels the token.
Cancel ==
    /\ Running
    /\ ~cancelled
    /\ cancelled' = TRUE
    /\ UNCHANGED <<conn, rx, writing, dedup, life, stats, first, disk, gating,
                   clocks, tally, log>>

\* The cancellation is seen in a backoff sleep, at the top of the outer loop,
\* during the login or in the inner loop; the final flush, then the task returns.
Stop ==
    /\ cancelled
    /\ conn \in {"down", "login", "up"}
    /\ conn' = "ended"
    /\ Persist(tally)
    /\ UNCHANGED <<cancelled, rx, writing, dedup, life, stats, first, gating,
                   clocks, log>>

\* The process dies wherever it is (external).
Crash ==
    /\ Running
    /\ conn' = "dead"
    /\ UNCHANGED <<cancelled, rx, writing, dedup, life, stats, first, disk,
                   gating, clocks, tally, log>>

\* Mutants: total_reconnects, or the per-reason counters, are not restored.
M_Loaded == [disk EXCEPT !["reconnects"] = 0]
M_LoadedStats == [f \in StatFields |-> disk[f]]

\* load_aprsis_lifetime.
Loaded == disk

\* A mutant: the counters start from zero, as before the store existed.
M_StartFrom(l, n) ==
    /\ life' = ZeroLife
    /\ base' = ZeroLife
    /\ tally' = [tally EXCEPT !["runs"] = @ + 1, !["offered"] = 0,
                              !["taken"] = 0, !["lagPkts"] = 0, !["lost"] = 0]

\* A run starts from the counters l, n packets among them unaccounted for.
StartFrom(l, n) ==
    /\ life' = l
    /\ base' = l
    /\ tally' = [tally EXCEPT !["runs"] = @ + 1, !["offered"] = 0,
                              !["taken"] = 0, !["lagPkts"] = 0, !["lost"] = n]

\* The process is started (again): the task's state before the outer loop.
Restart ==
    /\ conn \in {"ended", "dead"}
    /\ tally["runs"] < MaxRuns
    /\ conn' = "down"
    /\ cancelled' = FALSE
    /\ rx' = Subscribed
    /\ writing' = NoWrite
    /\ dedup' = [k \in {} |-> 0]
    /\ stats' = ZeroStats
    /\ first' = TRUE
    /\ gating' \in GatingModes
    /\ \/ StartFrom(Loaded, tally["lostDisk"])
       \/ LoadFails /\ StartFrom(ZeroLife, 0)    \* logged; every counter starts at 0
    /\ sent' = <<>>
    /\ published' = ZeroStats
    /\ UNCHANGED <<disk, clocks>>

World == \/ \E p \in Packets : HearPacket(p)
         \/ OtherTelemetry
         \/ SecondPasses
         \/ ClockStep
         \/ Cancel
         \/ Crash
         \/ Restart

Task == \/ Dial \/ Connected \/ LoggedIn \/ DialFails \/ SessionEnds
        \/ RecvUngated \/ RecvDropped \/ RecvDuplicate \/ RecvRefused
        \/ RecvWrite \/ WriteOk \/ WriteFails
        \/ RecvTelemetry \/ RecvLagged
        \/ TelemetryTick
        \/ Stop

Next == World \/ Task

Spec == Init /\ [][Next]_vars

-----------------------------------------------------------------------------
(* Properties.                                                             *)

LifeType  == [LifeFields -> Nat]
StatsType == [StatFields -> Nat]

ItemType == [kind : {"pkt"}, pkt : Packets, born : Nat] \cup [kind : {"tlm"}]

WriteType == [kind : {"line"}, pkt : Packets, age : Int, at : Nat, now_ts : Int]

SentType == [pkt : Packets, age : Int, at : Nat, done : Nat]

\* The types of the task's state.
TypeOK ==
    /\ conn \in Phases
    /\ cancelled \in BOOLEAN
    /\ rx \in [items : Seq(ItemType), missed : Nat]
    /\ writing \in WriteType \cup {NoWrite}
    /\ conn = "writing" => writing \in WriteType
    /\ DOMAIN dedup \subseteq Keys
    /\ \A k \in DOMAIN dedup : dedup[k] \in Int
    /\ life \in LifeType
    /\ stats \in StatsType
    /\ first \in BOOLEAN
    /\ gating \in BOOLEAN
    /\ disk \in LifeType
    /\ mono \in Nat
    /\ skew \in Int
    /\ sent \in Seq(SentType)
    /\ base \in LifeType
    /\ published \in StatsType
    /\ tally \in [TallyFields -> Nat]

\* The seven per-reason counters of c, added up.
SumDrops(c) == c["malformed"] + c["stale"] + c["rfonly"]
             + c["query"] + c["thirdparty"] + c["sat"]
             + c["duplicate"]

\* The per-reason drop counters add up to lifetime_packets_dropped (the comment
\* at aprs_is.rs:126), in memory and on disk, whatever crashes, failed saves and
\* failed loads did to them.
DropsAddUp == /\ life["dropped"] = SumDrops(life)
              /\ disk["dropped"] = SumDrops(disk)

InFlight == IF writing.kind = "line" THEN 1 ELSE 0

\* No packet vanishes from the ledger: each packet heard was gated, dropped,
\* lost to a failed write, not to be gated at all, or is being written; the saved
\* ledger balances too, across crashes, restarts and store failures.
EveryPacketAccounted ==
    /\ life["rf"] = life["igated"] + life["dropped"] + tally["lost"] + InFlight
    /\ disk["rf"] = disk["igated"] + disk["dropped"] + tally["lostDisk"]

\* With a steady wall clock, one run of the process never gates the same source
\* and info twice within the TTL, however purges, outages and slow writes fall.
NoDuplicateGated ==
    \A i, j \in DOMAIN sent :
       /\ i < j
       /\ sent[i].pkt.key = sent[j].pkt.key
       => sent[j].at - sent[i].at >= TTL

\* A packet dropped as a duplicate really was gated within the TTL: with a steady
\* wall clock the suppression never swallows a packet the server has not just
\* been given.
DuplicateWasGated ==
    [][ conn = "up" /\ life'["duplicate"] # life["duplicate"]
        => \E i \in DOMAIN sent :
              /\ sent[i].pkt.key = Head(rx.items).pkt.key
              /\ mono - sent[i].at < TTL ]_vars

\* No line reaches the server later than the age limit plus one write timeout
\* after its packet was heard, though packets queue up in the channel during an
\* outage; steps of the wall clock do not matter.
OnlyFreshGated ==
    \A i \in DOMAIN sent :
        sent[i].age + (sent[i].done - sent[i].at)
            <= MaxAge + WriteTimeout

\* Items on the channel are received, still queued, or counted as lagged (now or
\* at the next recv): none is lost silently.
ChannelConserves ==
    tally["offered"] = tally["taken"] + Len(rx.items) + rx.missed
                   + (life["lagged"] - base["lagged"])

\* The interval counters published on the ticks plus the current ones are what
\* the lifetime counters gained in this run: the charts and the totals agree.
PublishedAddsUp ==
    \A f \in StatFields :
        life[f] = base[f] + published[f] + stats[f]

\* When the store works, a crash loses exactly the current interval: what memory
\* has and disk has not is what the interval counters hold.
CrashLosesOneInterval ==
    conn # "ended" =>
        \A f \in StatFields :
            life[f] = disk[f] + stats[f]

\* What the store promises of the lifetime counters, as an abstract machine: a
\* process that died is left with what it had saved.
CP == INSTANCE Checkpoint WITH
        Fields <- LifeFields,
        mode   <- IF conn \in {"ended", "dead"} THEN conn ELSE "up",
        value  <- IF conn = "dead" THEN disk ELSE life,
        saved  <- disk

\* The task implements that machine: whatever the session does, the counters only
\* grow, a tick or a stop saves all of them or none, and a restart goes on from
\* the last save, with a store that fails and with one that does not.
ImplementsCheckpoint == CP!Spec

-----------------------------------------------------------------------------
(* What the repository's documents say and the code does not keep; README  *)
(* tells how each one fails.                                               *)

\* The comments at aprs_is.rs:136 and config.rs:119: the lag counter counts
\* packets dropped by the channel before gating.
LagCountsPackets == life["lagged"] - base["lagged"] <= tally["lagPkts"]

\* README rule 6, "duplicate of a packet igated within the last 30 seconds", with
\* the time a packet was igated the time its write completed.
NoDuplicateOnWire ==
    \A i, j \in DOMAIN sent :
       /\ i < j
       /\ sent[i].pkt.key = sent[j].pkt.key
       => sent[j].at - sent[i].done >= TTL
=============================================================================
