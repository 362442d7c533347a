-------------------------------- MODULE Beacon --------------------------------
(***************************************************************************)
(* Position beacons and APRS telemetry: gpsd_task keeps the shared fix, and*)
(* aprsis_task, on a fixed tick and on a movement tick, beacons it and     *)
(* sends numbered telemetry reports.                                       *)
(*                                                                         *)
(* Beaconing is on and the passcode valid: otherwise both ticks do nothing.*)
(* A position is an integer on a line; of positpacket only whether it      *)
(* accepts the location is modelled.  One of the five counters a report    *)
(* carries is modelled, the packets heard: the others count some of those  *)
(* and are cleared with it.                                                *)
(***************************************************************************)
EXTENDS Integers, Sequences, FiniteSets

CONSTANTS
    Source,       \* [location] source, "config" or "gpsd"
    Home,         \* the [location] section: [pos, alt]
    Reports,      \* the TPV reports gpsd may send: [pos, mode, alt]
    Threshold,    \* [aprsis] threshold
    MinBeacon,    \* [gpsd] min_beacon_secs
    MoveBy,       \* [gpsd] move_threshold_deg
    Freshness,    \* GPS_FRESHNESS
    WriteTimeout, \* WRITE_TIMEOUT
    Legacy,       \* the number in the legacy file, 0 if there is none
    StoreFails,   \* may a transaction of the store fail?
    Outages,      \* may the task be without a session while time passes?
    MaxTime,      \* bound: seconds a behaviour lasts
    MaxReports,   \* bound: TPV reports
    MaxHeard,     \* bound: packets heard
    MaxRuns       \* bound: starts of the process

\* An absent latitude and longitude.
NoPos == [kind |-> "none"]
At(x) == [kind |-> "at", x |-> x]

\* An altitude positpacket accepts, one it does not (zero or below), or none.
Alts == {"good", "bad", "none"}

IsPos(p) == p = NoPos \/ (p.kind = "at" /\ p.x \in Int)
IsLocation(l) == l.alt \in Alts /\ IsPos(l.pos)

ASSUME BeaconAssumption ==
    /\ Source \in {"config", "gpsd"}
    /\ IsLocation(Home)
    /\ \A r \in Reports : IsLocation(r) /\ r.mode \in 1 .. 3
    /\ Threshold \in Nat \ {0} /\ MinBeacon \in Nat \ {0}
    /\ MoveBy \in Nat /\ Freshness \in Nat /\ WriteTimeout \in Nat
    /\ Legacy \in Nat /\ Outages \in BOOLEAN /\ StoreFails \in BOOLEAN
    /\ MaxTime \in Nat /\ MaxReports \in Nat /\ MaxRuns \in Nat
    /\ MaxHeard \in Nat

VARIABLES
    phase,     \* where aprsis_task is (see Phases)
    now,       \* seconds
    since,     \* when the write in progress began, 0 if there is none
    loc,       \* the location being written
    last,      \* last_beacon_pos
    due,       \* the deadlines of time_interval and move_interval
    seq,       \* sequence
    rf,        \* rf_received
    diskSeq,   \* the TelemetrySeq row, NoRow if there is none
    gps,       \* gpsd_task's accumulated fields
    fix,       \* gps_state, NoFix before the first report
    beacons,   \* history: the position beacons sent in this run
    numbers,   \* history: the numbered lines sent, as [nr, run, rf, upto, done]
    heard,     \* history: the packets heard in this run
    tpvs,      \* history: the TPV reports received
    runs,      \* history: starts of the process
    broken     \* history: has a transaction of the store failed?

vars == <<phase, now, since, loc, last, due, seq, rf, diskSeq, gps, fix, beacons,
          numbers, heard, tpvs, runs, broken>>

ticks == <<since, loc, last, due>>
number == <<seq, diskSeq, broken>>
log == <<beacons, numbers, heard, tpvs, runs>>

\* "down": no session; "up": in the select! of the inner loop; "floor" and "move":
\* writing a position beacon for that tick; "report": writing the numbered line of
\* the telemetry report; "rest": writing its other four lines, to the save of the
\* next number; "stopped": the process is gone.
Phases == {"down", "up", "floor", "move", "report", "rest", "stopped"}

Writing == {"floor", "move", "report", "rest"}

NoRow == -1

Outcomes == IF StoreFails THEN BOOLEAN ELSE {TRUE}

\* save_telemetry_seq(n); a failure is logged.
Saved(n) ==
    \E ok \in Outcomes : /\ diskSeq' = IF ok THEN n ELSE diskSeq
                         /\ broken' = (broken \/ ~ok)

NoFix == [kind |-> "none"]
NoLoc == [pos |-> NoPos, alt |-> "none"]
NoGps == [pos |-> NoPos, mode |-> 1, alt |-> "none", at |-> 0]

Init ==
    /\ phase = "down"
    /\ now = 0
    /\ since = 0
    /\ loc = NoLoc
    /\ last = NoPos
    /\ due = [floor |-> 0, move |-> 0]
    /\ rf = 0
    /\ heard = 0
    /\ seq = Legacy         \* migrated, and saved, since the store has no row
    /\ broken \in {~ok : ok \in Outcomes}
    /\ diskSeq = IF broken THEN NoRow ELSE Legacy
    /\ gps = NoGps
    /\ fix = NoFix
    /\ beacons = <<>>
    /\ numbers = <<>>
    /\ tpvs = {}
    /\ runs = 1

-----------------------------------------------------------------------------
(* gpsd_task.                                                              *)

\* A mutant: the mode is numbered from one too many.
M_Shared(g) == [kind |-> "fix", pos |-> g.pos, mode |-> g.mode + 1, alt |-> g.alt,
                at |-> g.at]

\* The accumulated fields become the shared fix.
Shared(g) == [kind |-> "fix", pos |-> g.pos, mode |-> g.mode, alt |-> g.alt,
              at |-> g.at]

\* A TPV report replaces position, mode and altitude.
Tpv(r) ==
    /\ Source = "gpsd"
    /\ phase # "stopped"
    /\ Cardinality(tpvs) < MaxReports
    /\ tpvs' = tpvs \cup {<<r, now>>}
    /\ gps' = [pos |-> r.pos, mode |-> r.mode, alt |-> r.alt, at |-> now]
    /\ fix' = Shared(gps')
    /\ UNCHANGED <<phase, ticks, number, rf, now, beacons, numbers, heard, runs>>

\* A mutant: every report counts as news of the position.
M_Sky ==
    /\ Source = "gpsd"
    /\ phase # "stopped"
    /\ gps' = [gps EXCEPT !.at = now]
    /\ fix' = Shared(gps')
    /\ UNCHANGED <<phase, ticks, number, rf, now, log>>

\* A SKY report only brings satellite counts: the fix is shared again, as old as
\* its position is.
Sky ==
    /\ Source = "gpsd"
    /\ phase # "stopped"
    /\ gps' = gps
    /\ fix' = Shared(gps)
    /\ UNCHANGED <<phase, ticks, number, rf, now, log>>

-----------------------------------------------------------------------------
(* Time, and the session.                                                  *)

\* The writes the phase awaits one after the other, each with its own timeout.
Lines == IF phase = "rest" THEN 4 ELSE 1

\* A task in its select! takes a due tick before the next second, and a write ends
\* within its timeout.  Without outages there is always a session.
SecondPasses ==
    /\ now < MaxTime
    /\ CASE phase = "up"   -> /\ due.floor > now
                              /\ Source = "gpsd" => due.move > now
         [] phase \in Writing -> now - since < WriteTimeout * Lines
         [] phase = "down" -> Outages
         [] phase = "stopped" -> TRUE
    /\ now' = now + 1
    /\ UNCHANGED <<phase, ticks, number, rf, gps, fix, log>>

LoggedIn ==
    /\ phase = "down"
    /\ phase' = "up"
    /\ UNCHANGED <<now, ticks, number, rf, gps, fix, log>>

\* The session ends: closed by the server, or a write failed or timed out.  What
\* was being sent is neither remembered nor counted.
SessionEnds ==
    /\ phase \in Writing \cup {"up"}
    /\ phase' = "down"
    /\ since' = 0
    /\ loc' = NoLoc
    /\ UNCHANGED <<now, last, due, number, rf, gps, fix, log>>

\* recv() yields a packet; what becomes of it is in AprsIsGate.
HearPacket ==
    /\ phase = "up"
    /\ heard < MaxHeard
    /\ heard' = heard + 1
    /\ rf' = rf + 1
    /\ UNCHANGED <<phase, now, ticks, number, gps, fix, beacons, numbers, tpvs, runs>>

-----------------------------------------------------------------------------
(* The two ticks.                                                          *)

is_fresh(f) == /\ f # NoFix
               /\ now - f.at < Freshness
               /\ f.mode >= 2
               /\ f.pos # NoPos

HasLocation == Source = "config" \/ is_fresh(fix)

\* The position to beacon, if HasLocation: the configured one, or that of the fix
\* with the configured altitude as a fallback.
Location ==
    IF Source = "config" THEN Home
    ELSE [pos |-> fix.pos, alt |-> IF fix.alt = "none" THEN Home.alt ELSE fix.alt]

\* positpacket returns a packet: nothing is missing, zero or below sea level.
PositpacketAccepts(l) == l.alt = "good" /\ l.pos # NoPos /\ l.pos.x # 0

\* last_beacon_pos after a beacon of l.
Remembered(l) == IF l.pos # NoPos THEN l.pos ELSE last

\* The fixed tick with a location that positpacket accepts: the beacon is written.
FloorBeacon ==
    /\ phase = "up"
    /\ due.floor <= now
    /\ HasLocation
    /\ PositpacketAccepts(Location)
    /\ phase' = "floor"
    /\ since' = now
    /\ loc' = Location
    /\ due' = [due EXCEPT !.floor = @ + Threshold]
    /\ UNCHANGED <<now, last, number, rf, gps, fix, log>>

\* The fixed tick without one: the beacon is skipped, the report still sent.  A
\* location that positpacket rejects is remembered all the same.
FloorNoBeacon ==
    /\ phase = "up"
    /\ due.floor <= now
    /\ ~(HasLocation /\ PositpacketAccepts(Location))
    /\ phase' = "report"
    /\ since' = now
    /\ last' = IF HasLocation THEN Remembered(Location) ELSE last
    /\ due' = [due EXCEPT !.floor = @ + Threshold]
    /\ UNCHANGED <<now, loc, number, rf, gps, fix, log>>

Distance(p, q) == IF p.x > q.x THEN p.x - q.x ELSE q.x - p.x

\* A mutant: the distance is not looked at.
M_Moved(l) == l.pos # NoPos

\* Beyond the threshold from the last beacon, or no beacon yet.
Moved(l) == l.pos # NoPos /\ (last # NoPos => Distance(l.pos, last) > MoveBy)

\* The next deadline of move_interval: missed ticks fire in a burst.
NextMove == due.move + MinBeacon

\* The movement tick finds the station moved: a beacon is written.
MoveBeacon ==
    /\ phase = "up"
    /\ Source = "gpsd"
    /\ due.move <= now
    /\ HasLocation
    /\ Moved(Location)
    /\ PositpacketAccepts(Location)
    /\ phase' = "move"
    /\ since' = now
    /\ loc' = Location
    /\ due' = [due EXCEPT !.move = NextMove]
    /\ UNCHANGED <<now, last, number, rf, gps, fix, log>>

\* The movement tick does not beacon: no fresh fix, no movement, or a location that
\* positpacket rejects, which is remembered.
MoveNoBeacon ==
    /\ phase = "up"
    /\ Source = "gpsd"
    /\ due.move <= now
    /\ ~(HasLocation /\ Moved(Location) /\ PositpacketAccepts(Location))
    /\ last' = IF HasLocation /\ Moved(Location) THEN Remembered(Location) ELSE last
    /\ due' = [due EXCEPT !.move = NextMove]
    /\ UNCHANGED <<phase, now, since, loc, number, rf, gps, fix, log>>

\* The beacon is out.  The fixed tick goes on with the report.
BeaconSent ==
    /\ phase \in {"floor", "move"}
    /\ phase' = IF phase = "floor" THEN "report" ELSE "up"
    /\ since' = IF phase = "floor" THEN now ELSE 0
    /\ loc' = NoLoc
    /\ last' = Remembered(loc)
    /\ beacons' = Append(beacons, [why |-> phase, pos |-> loc.pos, at |-> since])
    /\ UNCHANGED <<now, due, number, rf, gps, fix, numbers, heard, tpvs, runs>>

\* A mutant: the counters are cleared when they have been put on the line.
M_NumberSent ==
    /\ phase = "report"
    /\ phase' = "rest"
    /\ since' = now
    /\ numbers' = Append(numbers, [nr |-> seq, run |-> runs, rf |-> rf,
                                   upto |-> heard, done |-> FALSE])
    /\ rf' = 0
    /\ UNCHANGED <<now, loc, last, due, number, gps, fix, beacons, heard, tpvs, runs>>

\* The first line of the report is out: the number and the values.
NumberSent ==
    /\ phase = "report"
    /\ phase' = "rest"
    /\ since' = now
    /\ numbers' = Append(numbers, [nr |-> seq, run |-> runs, rf |-> rf,
                                   upto |-> heard, done |-> FALSE])
    /\ UNCHANGED <<now, loc, last, due, number, rf, gps, fix, beacons, heard, tpvs,
                   runs>>

\* A mutant: the number is saved on shutdown only.
M_ReportSent ==
    /\ phase = "rest"
    /\ phase' = "up"
    /\ seq' = seq + 1
    /\ rf' = 0
    /\ numbers' = [numbers EXCEPT ![Len(numbers)].done = TRUE]
    /\ UNCHANGED <<now, ticks, diskSeq, broken, gps, fix, beacons, heard, tpvs, runs>>

\* All five lines are out: the next number, saved at once, and the next interval.
ReportSent ==
    /\ phase = "rest"
    /\ phase' = "up"
    /\ seq' = seq + 1
    /\ Saved(seq')
    /\ rf' = 0
    /\ numbers' = [numbers EXCEPT ![Len(numbers)].done = TRUE]
    /\ since' = 0
    /\ UNCHANGED <<now, loc, last, due, gps, fix, beacons, heard, tpvs, runs>>

-----------------------------------------------------------------------------
(* The end of a run, and the next one.                                     *)

\* What a process that is gone leaves: nothing in memory.
MemoryGone ==
    /\ phase' = "stopped"
    /\ since' = 0 /\ loc' = NoLoc
    /\ last' = NoPos
    /\ due' = [floor |-> 0, move |-> 0]
    /\ seq' = 0
    /\ rf' = 0
    /\ gps' = NoGps
    /\ fix' = NoFix
    /\ beacons' = <<>>
    /\ heard' = 0

\* Cancelled between two steps of the inner loop: the number is saved again.
Stop ==
    /\ phase \in {"down", "up"}
    /\ Saved(seq)
    /\ MemoryGone
    /\ UNCHANGED <<now, numbers, tpvs, runs>>

\* The process dies.
Crash ==
    /\ phase # "stopped"
    /\ MemoryGone
    /\ UNCHANGED <<now, diskSeq, broken, numbers, tpvs, runs>>

\* The number a run starts with: the row, or the legacy file's if there is none
\* (saved again), or 0 if the row cannot be loaded.
LoadedSeq ==
    \/ diskSeq # NoRow /\ seq' = diskSeq /\ UNCHANGED <<diskSeq, broken>>
    \/ diskSeq = NoRow /\ seq' = Legacy /\ Saved(Legacy)
    \/ StoreFails /\ seq' = 0 /\ diskSeq' = diskSeq /\ broken' = TRUE

\* A new run: nothing beaconed yet, no fix, both ticks due at once.
Restart ==
    /\ phase = "stopped"
    /\ runs < MaxRuns
    /\ runs' = runs + 1
    /\ phase' = "down"
    /\ due' = [floor |-> now, move |-> now]
    /\ LoadedSeq
    /\ gps' = [NoGps EXCEPT !.at = now]
    /\ UNCHANGED <<now, since, loc, last, rf, fix, beacons, numbers, heard, tpvs>>

Next ==
    \/ \E r \in Reports : Tpv(r)
    \/ Sky \/ SecondPasses \/ LoggedIn \/ SessionEnds \/ HearPacket
    \/ FloorBeacon \/ FloorNoBeacon \/ MoveBeacon \/ MoveNoBeacon
    \/ BeaconSent \/ NumberSent \/ ReportSent \/ Stop \/ Crash \/ Restart

Spec == Init /\ [][Next]_vars

-----------------------------------------------------------------------------
(* Properties.                                                             *)

\* The types of the variables.
TypeOK ==
    /\ phase \in Phases
    /\ now \in Nat /\ since \in 0 .. now
    /\ IsLocation(loc) /\ IsPos(last)
    /\ due.floor \in Nat /\ due.move \in Nat
    /\ rf \in Nat
    /\ seq \in Nat /\ diskSeq \in Nat \cup {NoRow}
    /\ IsLocation(gps) /\ gps.mode \in 1 .. 3 /\ gps.at \in 0 .. now
    /\ fix = NoFix \/ (IsLocation(fix) /\ fix.mode \in 1 .. 3 /\ fix.at \in 0 .. now)

\* A gpsd station never beacons where it was long ago: each beacon's position was
\* reported, with a fix, less than Freshness before its write began, and no report
\* in between superseded it; satellite reports without a position do not count.
FreshBeacons ==
    Source = "gpsd" =>
        \A i \in DOMAIN beacons :
            LET b == beacons[i]
            IN  \E t \in tpvs :
                   /\ t[1].pos = b.pos /\ t[1].mode >= 2
                   /\ t[2] <= b.at /\ b.at - t[2] < Freshness
                   /\ \A u \in tpvs : ~(t[2] < u[2] /\ u[2] < b.at)

\* With locations positpacket accepts, a movement beacon is farther than the
\* threshold from the beacon before it, whichever tick sent that one.
MovedSinceLast ==
    \A i, j \in DOMAIN beacons :
        j = i + 1 /\ beacons[j].why = "move"
        => Distance(beacons[i].pos, beacons[j].pos) > MoveBy

\* The comment at aprs_is.rs:252: a fast mover never beacons, on movement, faster
\* than every min_beacon_secs.
MoveSpaced ==
    \A i, j \in DOMAIN beacons :
        i < j /\ beacons[i].why = "move" /\ beacons[j].why = "move"
        => beacons[j].at - beacons[i].at >= MinBeacon

\* The numbers of the telemetry reports never go back, and a number is sent twice
\* only if the report that carried it was cut short: within a run whatever the store
\* does, and across crashes, stops and sessions that end inside a report as long as
\* no transaction of the store failed.
NumbersNeverReused ==
    \A i, j \in DOMAIN numbers :
        /\ i < j
        /\ broken => numbers[i].run = numbers[j].run
        => /\ numbers[i].nr <= numbers[j].nr
           /\ numbers[i].done => numbers[i].nr < numbers[j].nr

\* The reports of this run that were completed.
Completed == {i \in DOMAIN numbers : numbers[i].done /\ numbers[i].run = runs}

\* The packets that a line counts: the last l.rf of the l.upto heard when it was sent.
Carried(l) == l.upto - l.rf + 1 .. l.upto

\* No packet is missing from the telemetry and none is in it twice: each packet
\* heard in this run is in exactly one completed report or still to be reported,
\* though reports are cut short and sent again.
EveryPacketReported ==
    phase # "stopped" =>
        /\ \A i, j \in Completed : i # j => Carried(numbers[i]) \cap Carried(numbers[j]) = {}
        /\ UNION {Carried(numbers[i]) : i \in Completed} = 1 .. heard - rf

-----------------------------------------------------------------------------
(* What the repository's documents say and the code does not keep; README  *)
(* tells how each one fails.                                               *)

\* The comment at aprs_is.rs:231: last_beacon_pos is the position last actually
\* beaconed.
LastIsBeaconed ==
    phase = "up" /\ last # NoPos =>
        /\ beacons # <<>>
        /\ last = beacons[Len(beacons)].pos
=============================================================================
