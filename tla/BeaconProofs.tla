----------------------------- MODULE BeaconProofs -----------------------------
(***************************************************************************)
(* Proofs about Beacon: the freshness and the spacing of the beacons, the  *)
(* numbers of the telemetry reports and the packets they count; and about  *)
(* Conversions, which has the texts of both and the rows of the store.     *)
(***************************************************************************)
EXTENDS Beacon, Conversions, SequenceTheorems, TLAPS

\* The positions there are.
Places == {NoPos, Home.pos} \cup {r.pos : r \in Reports}

Line == [nr : Nat, run : Nat, rf : Nat, upto : Nat, done : BOOLEAN]
BeaconLine == [why : {"floor", "move"}, pos : Places \ {NoPos}, at : Nat]

ClockType ==
    /\ phase \in Phases
    /\ now \in Nat /\ since \in 0 .. now
    /\ due \in [floor : Nat, move : Nat]

\* A beacon is only written of a location that has a position.
PlaceType ==
    /\ loc.pos \in Places /\ loc.alt \in Alts
    /\ phase \in {"floor", "move"} => loc.pos # NoPos
    /\ last \in Places

FixType ==
    /\ gps \in [pos : Places, mode : 1 .. 3, alt : Alts, at : 0 .. now]
    /\ fix = NoFix \/ fix = Shared(gps)
    /\ phase = "stopped" => fix = NoFix

NumberType ==
    /\ seq \in Nat /\ rf \in Nat /\ heard \in Nat /\ runs \in Nat
    /\ diskSeq \in Nat \cup {NoRow}
    /\ numbers \in Seq(Line)
    /\ phase = "rest" => numbers # <<>>

\* The beacons were all begun before now.
LogType ==
    /\ beacons \in Seq(BeaconLine)
    /\ \A i \in DOMAIN beacons : beacons[i].at <= now
    /\ \A t \in tpvs : t[1] \in Reports /\ t[2] \in 0 .. now

TypeInv == ClockType /\ PlaceType /\ FixType /\ NumberType /\ LogType

-----------------------------------------------------------------------------
(* Facts about the operators.                                              *)

LEMMA PlacesType ==
    /\ \A p \in Places : IsPos(p)
    /\ Home.pos \in Places /\ NoPos \in Places /\ Home.alt \in Alts
    /\ \A r \in Reports : r.pos \in Places /\ r.mode \in 1 .. 3 /\ r.alt \in Alts
<1>1. \A r \in Reports : IsPos(r.pos) /\ r.alt \in Alts /\ r.mode \in 1 .. 3
  BY BeaconAssumption DEF IsLocation
<1>2. IsPos(Home.pos) /\ Home.alt \in Alts
  BY BeaconAssumption DEF IsLocation
<1>3. IsPos(NoPos)
  BY DEF IsPos
<1> QED BY <1>1, <1>2, <1>3 DEF Places

LEMMA LocationType ==
    ASSUME TypeInv, HasLocation
    PROVE  /\ Location.pos \in Places /\ Location.alt \in Alts
           /\ PositpacketAccepts(Location) => Location.pos # NoPos
           /\ Remembered(Location) \in Places
<1>1. Location.pos \in Places /\ Location.alt \in Alts
  <2>1. CASE Source = "config"
    BY <2>1, PlacesType DEF Location
  <2>2. CASE Source # "config"
    <3>1. fix.pos \in Places /\ fix.alt \in Alts
      BY <2>2 DEF HasLocation, is_fresh, TypeInv, FixType, Shared
    <3> QED BY <2>2, <3>1, PlacesType DEF Location
  <2> QED BY <2>1, <2>2
<1>2. Remembered(Location) \in Places
  BY <1>1 DEF Remembered, TypeInv, PlaceType
<1> QED BY <1>1, <1>2 DEF PositpacketAccepts

-----------------------------------------------------------------------------
(* Types.                                                                  *)

LEMMA InitType == Init => TypeInv
<1> SUFFICES ASSUME Init PROVE TypeInv
  OBVIOUS
<1>1. ClockType
  BY DEF Init, ClockType, Phases
<1>2. PlaceType
  BY PlacesType DEF Init, PlaceType, NoLoc, Alts
<1>3. FixType
  BY PlacesType DEF Init, FixType, NoGps, Alts
<1>4. NumberType
  <2>1. Legacy \in Nat
    BY BeaconAssumption
  <2>2. diskSeq \in Nat \cup {NoRow}
    BY <2>1 DEF Init
  <2> QED BY <2>1, <2>2 DEF Init, NumberType
<1>5. LogType
  BY DEF Init, LogType
<1> QED BY <1>1, <1>2, <1>3, <1>4, <1>5 DEF TypeInv

LEMMA NextClock == TypeInv /\ [Next]_vars => ClockType'
<1> SUFFICES ASSUME TypeInv, [Next]_vars PROVE ClockType'
  OBVIOUS
<1>0. /\ ClockType /\ Threshold \in Nat /\ MinBeacon \in Nat
  BY BeaconAssumption DEF TypeInv
<1> USE DEF ClockType
<1>1. ASSUME NEW r \in Reports, Tpv(r) PROVE ClockType'
  BY <1>0, <1>1 DEF Tpv, ticks
<1>2. CASE Sky
  BY <1>0, <1>2 DEF Sky, ticks
<1>3. CASE SecondPasses
  BY <1>0, <1>3 DEF SecondPasses, ticks
<1>4. CASE LoggedIn \/ HearPacket
  BY <1>0, <1>4 DEF LoggedIn, HearPacket, ticks, Phases
<1>5. CASE SessionEnds
  BY <1>0, <1>5 DEF SessionEnds, Phases
<1>6. CASE FloorBeacon
  <2>1. due' \in [floor : Nat, move : Nat]
    BY <1>0, <1>6 DEF FloorBeacon
  <2> QED BY <1>0, <1>6, <2>1 DEF FloorBeacon, Phases
<1>7. CASE FloorNoBeacon
  <2>1. due' \in [floor : Nat, move : Nat]
    BY <1>0, <1>7 DEF FloorNoBeacon
  <2> QED BY <1>0, <1>7, <2>1 DEF FloorNoBeacon, Phases
<1>8. CASE MoveBeacon
  <2>1. due' \in [floor : Nat, move : Nat]
    BY <1>0, <1>8 DEF MoveBeacon, NextMove
  <2> QED BY <1>0, <1>8, <2>1 DEF MoveBeacon, Phases
<1>9. CASE MoveNoBeacon
  <2>1. due' \in [floor : Nat, move : Nat]
    BY <1>0, <1>9 DEF MoveNoBeacon, NextMove
  <2> QED BY <1>0, <1>9, <2>1 DEF MoveNoBeacon
<1>10. CASE BeaconSent
  BY <1>0, <1>10 DEF BeaconSent, Phases
<1>11. CASE NumberSent
  BY <1>0, <1>11 DEF NumberSent, Phases
<1>12. CASE ReportSent
  BY <1>0, <1>12 DEF ReportSent, Phases
<1>13. CASE Stop \/ Crash
  BY <1>0, <1>13 DEF Stop, Crash, MemoryGone, Phases
<1>14. CASE Restart
  BY <1>0, <1>14 DEF Restart, Phases
<1>15. CASE UNCHANGED vars
  BY <1>0, <1>15 DEF vars
<1> QED BY <1>1, <1>2, <1>3, <1>4, <1>5, <1>6, <1>7, <1>8, <1>9, <1>10, <1>11, <1>12,
           <1>13, <1>14, <1>15 DEF Next

LEMMA NextPlace == TypeInv /\ [Next]_vars => PlaceType'
<1> SUFFICES ASSUME TypeInv, [Next]_vars PROVE PlaceType'
  OBVIOUS
<1>0. PlaceType
  BY DEF TypeInv
<1>1. ASSUME UNCHANGED <<loc, last>>, phase' = phase \/ phase' \notin {"floor", "move"}
      PROVE  PlaceType'
  BY <1>0, <1>1 DEF PlaceType
<1>2. ASSUME NEW r \in Reports, Tpv(r) PROVE PlaceType'
  BY <1>1, <1>2 DEF Tpv, ticks
<1>3. CASE Sky \/ SecondPasses \/ LoggedIn \/ HearPacket
  BY <1>1, <1>3 DEF Sky, SecondPasses, LoggedIn, HearPacket, ticks
<1>4. CASE SessionEnds
  BY <1>0, <1>4, PlacesType DEF SessionEnds, PlaceType, NoLoc, Alts
<1>5. CASE FloorBeacon \/ MoveBeacon
  BY <1>0, <1>5, LocationType DEF FloorBeacon, MoveBeacon, PlaceType
<1>6. CASE FloorNoBeacon
  BY <1>0, <1>6, LocationType DEF FloorNoBeacon, PlaceType
<1>7. CASE MoveNoBeacon
  BY <1>0, <1>7, LocationType DEF MoveNoBeacon, PlaceType
<1>8. CASE BeaconSent
  BY <1>0, <1>8, PlacesType DEF BeaconSent, PlaceType, Remembered, NoLoc, Alts
<1>9. CASE NumberSent \/ ReportSent
  BY <1>1, <1>9 DEF NumberSent, ReportSent
<1>10. CASE Stop \/ Crash
  BY <1>10, PlacesType DEF Stop, Crash, MemoryGone, PlaceType, NoLoc, Alts
<1>11. CASE Restart
  BY <1>1, <1>11 DEF Restart
<1>12. CASE UNCHANGED vars
  BY <1>1, <1>12 DEF vars
<1> QED BY <1>2, <1>3, <1>4, <1>5, <1>6, <1>7, <1>8, <1>9, <1>10, <1>11, <1>12 DEF Next

LEMMA NextFix == TypeInv /\ [Next]_vars => FixType'
<1> SUFFICES ASSUME TypeInv, [Next]_vars PROVE FixType'
  OBVIOUS
<1>0. FixType /\ now \in Nat
  BY DEF TypeInv, ClockType
<1>1. ASSUME UNCHANGED <<gps, fix>>, now' = now \/ now' = now + 1,
             phase' = phase \/ phase' # "stopped"
      PROVE  FixType'
  <2>1. 0 .. now \subseteq 0 .. now'
    BY <1>0, <1>1
  <2> QED BY <1>0, <1>1, <2>1 DEF FixType, Shared
<1>2. ASSUME NEW r \in Reports, Tpv(r) PROVE FixType'
  <2>1. now' = now /\ gps' = [pos |-> r.pos, mode |-> r.mode, alt |-> r.alt, at |-> now]
        /\ fix' = Shared(gps') /\ phase' # "stopped"
    BY <1>2 DEF Tpv
  <2> QED BY <1>0, <2>1, PlacesType DEF FixType, Shared
<1>3. CASE Sky
  BY <1>0, <1>3 DEF Sky, FixType
<1>4. CASE Stop \/ Crash
  BY <1>0, <1>4, PlacesType DEF Stop, Crash, MemoryGone, FixType, NoGps, Alts
<1>5. CASE Restart
  <2>1. fix' = fix /\ now' = now /\ gps' = [NoGps EXCEPT !.at = now] /\ phase = "stopped"
    BY <1>5 DEF Restart
  <2> QED BY <1>0, <2>1, PlacesType DEF FixType, NoGps, Alts
<1>6. CASE SecondPasses
  BY <1>1, <1>6 DEF SecondPasses
<1>7. CASE LoggedIn \/ SessionEnds \/ HearPacket \/ FloorBeacon \/ FloorNoBeacon
           \/ MoveBeacon \/ MoveNoBeacon
  BY <1>1, <1>7 DEF LoggedIn, SessionEnds, HearPacket, FloorBeacon, FloorNoBeacon,
     MoveBeacon, MoveNoBeacon
<1>8. CASE BeaconSent \/ NumberSent \/ ReportSent \/ UNCHANGED vars
  BY <1>1, <1>8 DEF BeaconSent, NumberSent, ReportSent, vars
<1> QED BY <1>2, <1>3, <1>4, <1>5, <1>6, <1>7, <1>8 DEF Next

\* The last line of a report that was sent is marked.
LEMMA LineDone ==
    ASSUME TypeInv, ReportSent
    PROVE  /\ Len(numbers) \in DOMAIN numbers /\ DOMAIN numbers = 1 .. Len(numbers)
           /\ numbers' \in Seq(Line) /\ DOMAIN numbers' = DOMAIN numbers
           /\ \A i \in DOMAIN numbers :
                 /\ numbers'[i].nr = numbers[i].nr
                 /\ numbers'[i].run = numbers[i].run
                 /\ numbers'[i].rf = numbers[i].rf
                 /\ numbers'[i].upto = numbers[i].upto
                 /\ i # Len(numbers) => numbers'[i] = numbers[i]
           /\ numbers'[Len(numbers)].done
<1> DEFINE n == Len(numbers)
<1>0. numbers \in Seq(Line) /\ n \in Nat /\ DOMAIN numbers = 1 .. n
  BY DEF TypeInv, NumberType
<1>1. numbers # <<>> /\ numbers' = [numbers EXCEPT ![n].done = TRUE]
  BY DEF ReportSent, TypeInv, NumberType
<1>2. n \in 1 .. n
  BY <1>0, <1>1
<1>3. /\ DOMAIN numbers' = DOMAIN numbers
      /\ numbers'[n] = [numbers[n] EXCEPT !.done = TRUE]
      /\ \A i \in DOMAIN numbers : i # n => numbers'[i] = numbers[i]
  BY <1>0, <1>1, <1>2
<1>4. numbers[n] \in Line
  BY <1>0, <1>2
<1>5. numbers'[n] \in Line /\ numbers'[n].nr = numbers[n].nr
      /\ numbers'[n].run = numbers[n].run /\ numbers'[n].rf = numbers[n].rf
      /\ numbers'[n].upto = numbers[n].upto /\ numbers'[n].done
  BY <1>3, <1>4 DEF Line
<1>6. numbers' \in Seq(Line)
  <2>1. numbers' = [numbers EXCEPT ![n] = numbers'[n]]
    BY <1>0, <1>1, <1>2
  <2> QED BY <1>0, <1>2, <1>5, <2>1
<1> QED BY <1>0, <1>2, <1>3, <1>5, <1>6

\* The line NumberSent appends.
LEMMA LineSent ==
    ASSUME TypeInv, NumberSent
    PROVE  /\ numbers' \in Seq(Line) /\ Len(numbers) \in Nat
           /\ DOMAIN numbers' = 1 .. Len(numbers) + 1
           /\ DOMAIN numbers = 1 .. Len(numbers)
           /\ \A i \in DOMAIN numbers : numbers'[i] = numbers[i]
           /\ numbers'[Len(numbers) + 1].nr = seq
           /\ numbers'[Len(numbers) + 1].run = runs
           /\ numbers'[Len(numbers) + 1].rf = rf
           /\ numbers'[Len(numbers) + 1].upto = heard
           /\ numbers'[Len(numbers) + 1].done = FALSE
<1> DEFINE l == [nr |-> seq, run |-> runs, rf |-> rf, upto |-> heard, done |-> FALSE]
<1>1. numbers' = Append(numbers, l)
  BY DEF NumberSent
<1>2. /\ l \in Line /\ l.nr = seq /\ l.run = runs /\ l.rf = rf /\ l.upto = heard
      /\ l.done = FALSE
  BY DEF Line, TypeInv, NumberType
<1>3. numbers \in Seq(Line)
  BY DEF TypeInv, NumberType
<1> HIDE DEF l
<1>4. numbers'[Len(numbers) + 1] = l
  BY <1>1, <1>3
<1> QED BY <1>1, <1>2, <1>3, <1>4

\* A save that does not fail leaves the number on disk.
LEMMA SaveOutcome ==
    ASSUME NEW n, Saved(n)
    PROVE  (broken => broken') /\ (~broken' => diskSeq' = n)
  BY Zenon DEF Saved

LEMMA NextNumber == TypeInv /\ [Next]_vars => NumberType'
<1> SUFFICES ASSUME TypeInv, [Next]_vars PROVE NumberType'
  OBVIOUS
<1>0. NumberType /\ Legacy \in Nat /\ 0 \in Nat
  BY BeaconAssumption DEF TypeInv
<1>1. ASSUME UNCHANGED <<seq, rf, heard, runs, diskSeq, numbers>>,
             phase' = phase \/ phase' # "rest"
      PROVE  NumberType'
  BY <1>0, <1>1 DEF NumberType
<1>2. ASSUME NEW r \in Reports, Tpv(r) PROVE NumberType'
  BY <1>1, <1>2 DEF Tpv, number
<1>3. CASE Sky \/ SecondPasses \/ LoggedIn \/ SessionEnds
  BY <1>1, <1>3 DEF Sky, SecondPasses, LoggedIn, SessionEnds, number, log
<1>4. CASE FloorBeacon \/ FloorNoBeacon \/ MoveBeacon \/ MoveNoBeacon
  BY <1>1, <1>4 DEF FloorBeacon, FloorNoBeacon, MoveBeacon, MoveNoBeacon, number, log
<1>5. CASE HearPacket
  BY <1>0, <1>5 DEF HearPacket, NumberType, number
<1>6. CASE BeaconSent
  BY <1>1, <1>6 DEF BeaconSent, number
<1>7. CASE NumberSent
  <2>1. numbers' \in Seq(Line) /\ numbers' # <<>>
    <3>1. /\ numbers' \in Seq(Line) /\ DOMAIN numbers' = 1 .. Len(numbers) + 1
          /\ Len(numbers) \in Nat
      BY <1>7, LineSent
    <3>2. 1 \in DOMAIN numbers'
      BY <3>1
    <3> QED BY <3>1, <3>2
  <2> QED BY <1>0, <1>7, <2>1 DEF NumberSent, NumberType, number
<1>8. CASE ReportSent
  <2>1. numbers' \in Seq(Line)
    BY <1>8, LineDone
  <2>2. phase' = "up" /\ seq' = seq + 1 /\ rf' = 0 /\ heard' = heard /\ runs' = runs
        /\ (diskSeq' = seq' \/ diskSeq' = diskSeq)
    BY <1>8 DEF ReportSent, Saved
  <2> QED BY <1>0, <2>1, <2>2 DEF NumberType
<1>9. CASE Stop \/ Crash
  <2>1. /\ phase' = "stopped" /\ seq' = 0 /\ rf' = 0 /\ heard' = 0
        /\ runs' = runs /\ numbers' = numbers
        /\ (diskSeq' = seq \/ diskSeq' = diskSeq)
    BY <1>9 DEF Stop, Crash, MemoryGone, Saved
  <2> QED BY <1>0, <2>1 DEF NumberType
<1>10. CASE Restart
  <2>1. /\ phase' = "down" /\ seq' \in {diskSeq, Legacy, 0} /\ seq' # NoRow
        /\ rf' = rf /\ heard' = heard /\ runs' = runs + 1 /\ numbers' = numbers
        /\ (diskSeq' = Legacy \/ diskSeq' = diskSeq)
    <3>1. Legacy # NoRow /\ 0 # NoRow
      BY <1>0 DEF NoRow
    <3> QED BY <1>10, <3>1 DEF Restart, LoadedSeq, Saved
  <2> QED BY <1>0, <2>1 DEF NumberType
<1>11. CASE UNCHANGED vars
  BY <1>1, <1>11 DEF vars
<1> QED BY <1>2, <1>3, <1>4, <1>5, <1>6, <1>7, <1>8, <1>9, <1>10, <1>11 DEF Next

\* The beacon BeaconSent appends.
LEMMA BeaconChange ==
    ASSUME TypeInv, BeaconSent
    PROVE  /\ beacons' \in Seq(BeaconLine)
           /\ DOMAIN beacons' = 1 .. Len(beacons) + 1 /\ DOMAIN beacons = 1 .. Len(beacons)
           /\ Len(beacons) \in Nat /\ Len(beacons') = Len(beacons) + 1
           /\ \A i \in DOMAIN beacons : beacons'[i] = beacons[i]
           /\ LET b == beacons'[Len(beacons) + 1]
              IN  b.why = phase /\ b.pos = loc.pos /\ b.at = since
<1> DEFINE b == [why |-> phase, pos |-> loc.pos, at |-> since]
<1>1. beacons' = Append(beacons, b) /\ beacons \in Seq(BeaconLine)
  BY DEF BeaconSent, TypeInv, LogType
<1>2. since \in Nat /\ phase \in {"floor", "move"} /\ loc.pos \in Places \ {NoPos}
  BY DEF BeaconSent, TypeInv, ClockType, PlaceType
<1>3. b \in BeaconLine /\ b.why = phase /\ b.pos = loc.pos /\ b.at = since
  BY <1>2 DEF BeaconLine
<1> HIDE DEF b
<1> QED BY <1>1, <1>3

LEMMA NextLog == TypeInv /\ [Next]_vars => LogType'
<1> SUFFICES ASSUME TypeInv, [Next]_vars PROVE LogType'
  OBVIOUS
<1>0. LogType /\ now \in Nat
  BY DEF TypeInv, ClockType
<1>1. \A i \in DOMAIN beacons : beacons[i].at \in Nat
  <2>1. \A i \in DOMAIN beacons : beacons[i] \in BeaconLine
    BY <1>0 DEF LogType
  <2> QED BY <2>1 DEF BeaconLine
<1>2. ASSUME UNCHANGED <<beacons, tpvs>>, now' = now PROVE LogType'
  BY <1>0, <1>2 DEF LogType
<1>3. ASSUME NEW r \in Reports, Tpv(r) PROVE LogType'
  <2>1. tpvs' = tpvs \cup {<<r, now>>} /\ now' = now /\ beacons' = beacons
    BY <1>3 DEF Tpv
  <2> QED BY <1>0, <2>1 DEF LogType
<1>4. CASE SecondPasses
  <2>1. now' = now + 1 /\ beacons' = beacons /\ tpvs' = tpvs
    BY <1>4 DEF SecondPasses, log
  <2>2. \A i \in DOMAIN beacons : beacons[i].at <= now'
    BY <1>0, <1>1, <2>1 DEF LogType
  <2>3. 0 .. now \subseteq 0 .. now'
    BY <1>0, <2>1
  <2> QED BY <1>0, <2>1, <2>2, <2>3 DEF LogType
<1>5. CASE BeaconSent
  <2>1. now' = now /\ tpvs' = tpvs /\ since <= now
    BY <1>0, <1>5 DEF BeaconSent, TypeInv, ClockType
  <2>2. \A i \in DOMAIN beacons' : i \in DOMAIN beacons \/ i = Len(beacons) + 1
    BY <1>5, BeaconChange
  <2>3. \A i \in DOMAIN beacons' : beacons'[i].at <= now
    BY <1>0, <1>5, <2>1, <2>2, BeaconChange DEF LogType
  <2>4. beacons' \in Seq(BeaconLine)
    BY <1>5, BeaconChange
  <2> QED BY <1>0, <2>1, <2>3, <2>4 DEF LogType
<1>6. CASE Stop \/ Crash
  <2>1. beacons' = <<>> /\ tpvs' = tpvs /\ now' = now
    BY <1>6 DEF Stop, Crash, MemoryGone
  <2>2. beacons' \in Seq(BeaconLine) /\ DOMAIN beacons' = {}
    BY <2>1
  <2> QED BY <1>0, <2>1, <2>2 DEF LogType
<1>7. CASE Sky \/ LoggedIn \/ SessionEnds \/ HearPacket \/ Restart
  BY <1>2, <1>7 DEF Sky, LoggedIn, SessionEnds, HearPacket, Restart, log
<1>8. CASE FloorBeacon \/ FloorNoBeacon \/ MoveBeacon \/ MoveNoBeacon
  BY <1>2, <1>8 DEF FloorBeacon, FloorNoBeacon, MoveBeacon, MoveNoBeacon, log
<1>9. CASE NumberSent \/ ReportSent \/ UNCHANGED vars
  BY <1>2, <1>9 DEF NumberSent, ReportSent, vars
<1> QED BY <1>3, <1>4, <1>5, <1>6, <1>7, <1>8, <1>9 DEF Next

LEMMA SpecType == Spec => []TypeInv
<1>1. TypeInv /\ [Next]_vars => TypeInv'
  BY NextClock, NextPlace, NextFix, NextNumber, NextLog DEF TypeInv
<1> QED BY <1>1, InitType, PTL DEF Spec

\* Whatever gpsd reports, the intervals and the time limits: every variable keeps its
\* type; the deadlines, the times of the fix and the numbers never go below zero.
THEOREM BeaconTypes == Spec => []TypeOK
<1>1. TypeInv => TypeOK
  <2> SUFFICES ASSUME TypeInv PROVE TypeOK
    OBVIOUS
  <2>1. IsLocation(loc) /\ IsPos(last) /\ IsLocation(gps)
    BY PlacesType DEF TypeInv, PlaceType, FixType, IsLocation
  <2>2. gps.mode \in 1 .. 3 /\ gps.at \in 0 .. now
    BY DEF TypeInv, FixType
  <2>3. fix = NoFix \/ (IsLocation(fix) /\ fix.mode \in 1 .. 3 /\ fix.at \in 0 .. now)
    BY <2>1, <2>2 DEF TypeInv, FixType, Shared, IsLocation
  <2>4. due.floor \in Nat /\ due.move \in Nat
    BY DEF TypeInv, ClockType
  <2> QED BY <2>1, <2>2, <2>3, <2>4 DEF TypeOK, TypeInv, ClockType, NumberType
<1> QED BY <1>1, SpecType, PTL

-----------------------------------------------------------------------------
(* The numbers of the reports.  What the next number has to exceed is what *)
(* was sent in this run and, if no transaction failed, in all the others:  *)
(* then the row on disk is the next number.                                *)

\* The lines the store vouches for.
Counted(i) == broken => numbers[i].run = runs

\* A line's number is at most n, and less if its report was completed.
Below(i, n) == numbers[i].nr <= n /\ (numbers[i].done => numbers[i].nr < n)

RowIsNext ==
    ~broken => /\ diskSeq # NoRow
               /\ phase # "stopped" => diskSeq = seq

LinesBelow ==
    /\ \A i \in DOMAIN numbers : numbers[i].run <= runs
    /\ phase # "stopped" => \A i \in DOMAIN numbers : Counted(i) => Below(i, seq)
    /\ ~broken => \A i \in DOMAIN numbers : Below(i, diskSeq)

NumberInv == RowIsNext /\ LinesBelow /\ NumbersNeverReused

LEMMA InitNumbers == Init => NumberInv
<1> SUFFICES ASSUME Init PROVE NumberInv
  OBVIOUS
<1>1. DOMAIN numbers = {} /\ Legacy # NoRow
  BY BeaconAssumption DEF Init, NoRow
<1>2. RowIsNext
  BY <1>1 DEF Init, RowIsNext
<1> QED BY <1>1, <1>2 DEF NumberInv, LinesBelow, NumbersNeverReused

\* The types of a line.
LEMMA LineType ==
    ASSUME TypeInv, NEW i \in DOMAIN numbers
    PROVE  numbers[i].nr \in Nat /\ numbers[i].run \in Nat /\ numbers[i].done \in BOOLEAN
<1>1. numbers[i] \in Line
  BY DEF TypeInv, NumberType
<1> QED BY <1>1 DEF Line

LEMMA NextNumbers == TypeInv /\ TypeInv' /\ NumberInv /\ [Next]_vars => NumberInv'
<1> SUFFICES ASSUME TypeInv, TypeInv', NumberInv, [Next]_vars PROVE NumberInv'
  OBVIOUS
<1>0. /\ seq \in Nat /\ runs \in Nat /\ diskSeq \in Nat \cup {NoRow}
      /\ RowIsNext /\ LinesBelow /\ NumbersNeverReused
  BY DEF TypeInv, NumberType, NumberInv
<1>1. ASSUME UNCHANGED <<seq, diskSeq, broken, numbers, runs>>,
             phase' = "stopped" <=> phase = "stopped"
      PROVE  NumberInv'
  BY <1>0, <1>1 DEF NumberInv, RowIsNext, LinesBelow, Counted, Below, NumbersNeverReused
<1>2. ASSUME NEW r \in Reports, Tpv(r) PROVE NumberInv'
  BY <1>1, <1>2 DEF Tpv, number
<1>3. CASE Sky \/ SecondPasses \/ LoggedIn \/ SessionEnds \/ HearPacket
  BY <1>1, <1>3 DEF Sky, SecondPasses, LoggedIn, SessionEnds, HearPacket, number, log,
     Writing
<1>4. CASE FloorBeacon \/ FloorNoBeacon \/ MoveBeacon \/ MoveNoBeacon
  BY <1>1, <1>4 DEF FloorBeacon, FloorNoBeacon, MoveBeacon, MoveNoBeacon, number, log
<1>5. CASE BeaconSent \/ UNCHANGED vars
  BY <1>1, <1>5 DEF BeaconSent, number, vars
<1>6. CASE NumberSent
  <2> DEFINE n == Len(numbers)
  <2>1. /\ UNCHANGED <<seq, diskSeq, broken, runs>> /\ phase = "report" /\ phase' = "rest"
    BY <1>6 DEF NumberSent, number
  <2>2. /\ n \in Nat /\ DOMAIN numbers' = 1 .. n + 1 /\ DOMAIN numbers = 1 .. n
        /\ \A i \in DOMAIN numbers : numbers'[i] = numbers[i]
        /\ numbers'[n + 1].nr = seq /\ numbers'[n + 1].run = runs
        /\ numbers'[n + 1].done = FALSE
    BY <1>6, LineSent
  <2> HIDE DEF n
  <2>3. \A i \in DOMAIN numbers' : i \in DOMAIN numbers \/ i = n + 1
    BY <2>2
  <2>4. RowIsNext'
    BY <1>0, <2>1 DEF RowIsNext
  <2>5. \A i \in DOMAIN numbers : Counted(i) => Below(i, seq)
    BY <1>0, <2>1 DEF LinesBelow
  <2>6. \A i \in DOMAIN numbers' : numbers'[i].run <= runs
    BY <1>0, <2>2, <2>3 DEF LinesBelow
  <2>7. \A i \in DOMAIN numbers' : Counted(i)' => Below(i, seq)'
    BY <1>0, <2>1, <2>2, <2>3, <2>5 DEF Counted, Below
  <2>8. ~broken => \A i \in DOMAIN numbers' : Below(i, diskSeq)'
    BY <1>0, <2>1, <2>7 DEF RowIsNext, Counted
  <2>9. NumbersNeverReused'
    <3> SUFFICES ASSUME NEW i \in DOMAIN numbers', NEW j \in DOMAIN numbers', i < j,
                        broken => numbers'[i].run = numbers'[j].run
                 PROVE  /\ numbers'[i].nr <= numbers'[j].nr
                        /\ numbers'[i].done => numbers'[i].nr < numbers'[j].nr
      BY <2>1 DEF NumbersNeverReused
    <3>1. i \in DOMAIN numbers
      BY <2>2
    <3>2. CASE j \in DOMAIN numbers
      BY <1>0, <2>2, <3>1, <3>2 DEF NumbersNeverReused
    <3>3. CASE j = n + 1
      <4>1. Counted(i)
        BY <2>2, <3>1, <3>3 DEF Counted
      <4> QED BY <2>2, <2>5, <3>1, <3>3, <4>1 DEF Below
    <3> QED BY <2>3, <3>2, <3>3
  <2> QED BY <2>1, <2>4, <2>6, <2>7, <2>8, <2>9 DEF NumberInv, LinesBelow
<1>7. CASE ReportSent
  <2>1. /\ phase = "rest" /\ phase' = "up" /\ seq' = seq + 1 /\ runs' = runs
        /\ (broken => broken')
        /\ (~broken' => diskSeq' = seq')
    BY <1>7, SaveOutcome DEF ReportSent
  <2>2. /\ DOMAIN numbers' = DOMAIN numbers /\ DOMAIN numbers = 1 .. Len(numbers)
        /\ \A i \in DOMAIN numbers :
              /\ numbers'[i].nr = numbers[i].nr /\ numbers'[i].run = numbers[i].run
              /\ i # Len(numbers) => numbers'[i] = numbers[i]
    BY <1>7, LineDone
  <2>3. RowIsNext'
    BY <1>0, <2>1 DEF RowIsNext, NoRow
  <2>4. \A i \in DOMAIN numbers : Counted(i) => numbers[i].nr <= seq
    BY <1>0, <2>1 DEF LinesBelow, Below
  <2>5. \A i \in DOMAIN numbers' : Counted(i)' => Counted(i)
    BY <2>1, <2>2 DEF Counted
  <2>6. ASSUME NEW i \in DOMAIN numbers', Counted(i)' PROVE Below(i, seq)'
    <3>1. numbers[i].nr \in Nat /\ numbers[i].nr <= seq /\ numbers'[i].nr = numbers[i].nr
      BY <2>2, <2>4, <2>5, <2>6, LineType
    <3>2. numbers'[i].nr <= seq' /\ numbers'[i].nr < seq'
      BY <1>0, <2>1, <3>1
    <3> QED BY <3>2 DEF Below
  <2>7. ~broken' => \A i \in DOMAIN numbers' : Below(i, diskSeq)'
    BY <2>1, <2>6 DEF Counted, Below
  <2>8. \A i \in DOMAIN numbers' : numbers'[i].run <= runs'
    BY <1>0, <2>1, <2>2 DEF LinesBelow
  <2>9. NumbersNeverReused'
    <3> SUFFICES ASSUME NEW i \in DOMAIN numbers', NEW j \in DOMAIN numbers', i < j,
                        broken' => numbers'[i].run = numbers'[j].run
                 PROVE  /\ numbers'[i].nr <= numbers'[j].nr
                        /\ numbers'[i].done => numbers'[i].nr < numbers'[j].nr
      BY DEF NumbersNeverReused
    <3>1. i # Len(numbers)
      BY <2>2
    <3> QED BY <1>0, <2>1, <2>2, <3>1 DEF NumbersNeverReused
  <2> QED BY <2>1, <2>3, <2>6, <2>7, <2>8, <2>9 DEF NumberInv, LinesBelow
<1>8. CASE Stop \/ Crash
  <2>1. /\ phase # "stopped" /\ phase' = "stopped" /\ UNCHANGED <<numbers, runs>>
        /\ (broken => broken')
        /\ (broken \/ broken' \/ diskSeq' = seq \/ diskSeq' = diskSeq)
    <3>1. CASE Stop
      BY <3>1, SaveOutcome DEF Stop, MemoryGone
    <3>2. CASE Crash
      BY <3>2, Zenon DEF Crash, MemoryGone
    <3> QED BY <1>8, <3>1, <3>2
  <2>2. ~broken' => diskSeq' = seq /\ seq # NoRow
    BY <1>0, <2>1 DEF RowIsNext
  <2>3. RowIsNext'
    BY <2>1, <2>2 DEF RowIsNext
  <2>4. ~broken' => \A i \in DOMAIN numbers : Below(i, seq)
    BY <1>0, <2>1 DEF LinesBelow, Counted
  <2>5. LinesBelow'
    BY <1>0, <2>1, <2>2, <2>4 DEF LinesBelow, Below
  <2>6. NumbersNeverReused'
    BY <1>0, <2>1 DEF NumbersNeverReused
  <2> QED BY <2>3, <2>5, <2>6 DEF NumberInv
<1>9. CASE Restart
  <2>1. /\ phase = "stopped" /\ phase' = "down" /\ numbers' = numbers /\ runs' = runs + 1
        /\ (broken => broken')
        /\ (~broken' /\ diskSeq # NoRow => diskSeq' = diskSeq /\ seq' = diskSeq)
    <3>1. CASE diskSeq # NoRow /\ seq' = diskSeq /\ UNCHANGED <<diskSeq, broken>>
      BY <1>9, <3>1, Zenon DEF Restart
    <3>2. CASE diskSeq = NoRow /\ seq' = Legacy /\ Saved(Legacy)
      BY <1>9, <3>2, SaveOutcome DEF Restart
    <3>3. CASE StoreFails /\ seq' = 0 /\ diskSeq' = diskSeq /\ broken' = TRUE
      BY <1>9, <3>3, Zenon DEF Restart
    <3> QED BY <1>9, <3>1, <3>2, <3>3 DEF Restart, LoadedSeq
  <2>2. RowIsNext'
    BY <1>0, <2>1 DEF RowIsNext
  <2>3. \A i \in DOMAIN numbers : numbers[i].run <= runs /\ numbers[i].run \in Nat
    BY <1>0, LineType DEF LinesBelow
  <2>4. \A i \in DOMAIN numbers : numbers[i].run <= runs' /\ numbers[i].run # runs'
    BY <1>0, <2>1, <2>3
  <2>5. ~broken' => /\ \A i \in DOMAIN numbers : Below(i, diskSeq)
                    /\ diskSeq' = diskSeq /\ seq' = diskSeq
    BY <1>0, <2>1 DEF LinesBelow, RowIsNext
  <2>6. LinesBelow'
    BY <2>1, <2>4, <2>5 DEF LinesBelow, Counted, Below
  <2>7. NumbersNeverReused'
    BY <1>0, <2>1 DEF NumbersNeverReused
  <2> QED BY <2>2, <2>6, <2>7 DEF NumberInv
<1> QED BY <1>2, <1>3, <1>4, <1>5, <1>6, <1>7, <1>8, <1>9 DEF Next

\* For every number of runs, crashes and sessions that end inside a report: the
\* numbers of the telemetry reports never go back, and a completed report's number
\* is never sent again, as long as the store works, and within a run even if not.
THEOREM ReportNumbersUnique == Spec => []NumbersNeverReused
<1>1. NumberInv => NumbersNeverReused
  BY DEF NumberInv
<1> QED BY <1>1, InitNumbers, NextNumbers, SpecType, PTL DEF Spec

-----------------------------------------------------------------------------
(* The packets.  A report that is cut short leaves the counter alone, and  *)
(* the next one counts its packets again; a completed one has counted all  *)
(* that were heard, since none is heard while its lines are written.       *)

\* What the report in progress has put on its first line.
Reporting ==
    phase = "rest" =>
        LET l == numbers[Len(numbers)]
        IN  l.rf = rf /\ l.upto = heard /\ l.run = runs /\ ~l.done

PacketInv ==
    /\ rf <= heard
    /\ phase = "stopped" => heard = 0
    /\ \A i \in DOMAIN numbers : numbers[i].run <= runs
    /\ Reporting
    /\ EveryPacketReported

LEMMA InitPackets == Init => PacketInv
<1> SUFFICES ASSUME Init PROVE PacketInv
  OBVIOUS
<1>1. numbers = <<>> /\ heard = 0 /\ rf = 0 /\ phase = "down"
  BY DEF Init
<1>2. Completed = {} /\ 1 .. heard - rf = {}
  BY <1>1 DEF Completed
<1>3. EveryPacketReported
  BY <1>2 DEF EveryPacketReported
<1> QED BY <1>1, <1>3 DEF PacketInv, Reporting

LEMMA NextPackets == TypeInv /\ PacketInv /\ [Next]_vars => PacketInv'
<1> SUFFICES ASSUME TypeInv, PacketInv, [Next]_vars PROVE PacketInv'
  OBVIOUS
<1>0. /\ rf \in Nat /\ heard \in Nat /\ runs \in Nat /\ numbers \in Seq(Line)
      /\ \A i \in DOMAIN numbers : numbers[i].run \in Nat
      /\ rf <= heard /\ Reporting /\ EveryPacketReported
      /\ \A i \in DOMAIN numbers : numbers[i].run <= runs
      /\ phase = "stopped" => heard = 0
  BY LineType DEF TypeInv, NumberType, PacketInv
<1>1. ASSUME UNCHANGED <<rf, heard, runs, numbers>>,
             phase' = phase \/ (phase' \notin {"rest", "stopped"} /\ phase # "stopped")
      PROVE  PacketInv'
  BY <1>0, <1>1 DEF PacketInv, Reporting, EveryPacketReported, Completed, Carried
<1>2. ASSUME NEW r \in Reports, Tpv(r) PROVE PacketInv'
  BY <1>1, <1>2 DEF Tpv
<1>3. CASE Sky \/ SecondPasses \/ LoggedIn \/ SessionEnds
  BY <1>1, <1>3 DEF Sky, SecondPasses, LoggedIn, SessionEnds, Writing, log
<1>4. CASE FloorBeacon \/ FloorNoBeacon \/ MoveBeacon \/ MoveNoBeacon
  BY <1>1, <1>4 DEF FloorBeacon, FloorNoBeacon, MoveBeacon, MoveNoBeacon, log
<1>5. CASE BeaconSent \/ UNCHANGED vars
  BY <1>1, <1>5 DEF BeaconSent, vars
<1>6. CASE HearPacket
  <2>1. /\ phase = "up" /\ phase' = "up" /\ UNCHANGED <<runs, numbers>>
        /\ heard' = heard + 1 /\ rf' = rf + 1
    BY <1>6 DEF HearPacket
  <2>2. rf' <= heard' /\ heard' - rf' = heard - rf
    BY <1>0, <2>1
  <2>3. EveryPacketReported'
    BY <1>0, <2>1, <2>2 DEF EveryPacketReported, Completed, Carried
  <2> QED BY <1>0, <2>1, <2>2, <2>3 DEF PacketInv, Reporting
<1>7. CASE NumberSent
  <2> DEFINE n == Len(numbers)
  <2>1. /\ n \in Nat /\ DOMAIN numbers' = 1 .. n + 1 /\ DOMAIN numbers = 1 .. n
        /\ numbers' \in Seq(Line)
        /\ \A i \in DOMAIN numbers : numbers'[i] = numbers[i]
        /\ numbers'[n + 1].run = runs /\ numbers'[n + 1].rf = rf
        /\ numbers'[n + 1].upto = heard /\ numbers'[n + 1].done = FALSE
    BY <1>7, LineSent
  <2>2. phase = "report" /\ phase' = "rest" /\ UNCHANGED <<rf, heard, runs>>
    BY <1>7 DEF NumberSent
  <2>3. Len(numbers') = n + 1
    BY <2>1
  <2> HIDE DEF n
  <2>4. Reporting'
    BY <2>1, <2>2, <2>3 DEF Reporting
  <2>5. \A i \in DOMAIN numbers' : i \in DOMAIN numbers \/ i = n + 1
    BY <2>1
  <2>6. \A i \in DOMAIN numbers' : numbers'[i].run <= runs'
    BY <1>0, <2>1, <2>2, <2>5
  <2>7. Completed' = Completed
    BY <2>1, <2>2, <2>5 DEF Completed
  <2>8. \A i \in Completed : numbers'[i] = numbers[i]
    BY <2>1 DEF Completed
  <2>9. EveryPacketReported'
    BY <1>0, <2>2, <2>7, <2>8 DEF EveryPacketReported, Carried
  <2> QED BY <1>0, <2>2, <2>4, <2>6, <2>9 DEF PacketInv
<1>8. CASE ReportSent
  <2> DEFINE n == Len(numbers)
  <2>1. /\ n \in DOMAIN numbers /\ DOMAIN numbers' = DOMAIN numbers
        /\ numbers'[n].done
        /\ \A i \in DOMAIN numbers : /\ numbers'[i].run = numbers[i].run
                                     /\ numbers'[i].rf = numbers[i].rf
                                     /\ numbers'[i].upto = numbers[i].upto
                                     /\ i # n => numbers'[i] = numbers[i]
    BY <1>8, LineDone
  <2>2. phase = "rest" /\ phase' = "up" /\ rf' = 0 /\ UNCHANGED <<heard, runs>>
    BY <1>8 DEF ReportSent
  <2>3. /\ numbers[n].rf = rf /\ numbers[n].upto = heard /\ numbers[n].run = runs
        /\ ~numbers[n].done
    BY <1>0, <2>2 DEF Reporting
  <2> HIDE DEF n
  <2>4. Completed' = Completed \cup {n} /\ n \notin Completed
    <3>1. ASSUME NEW i \in DOMAIN numbers, i # n
          PROVE  numbers'[i].done /\ numbers'[i].run = runs'
                    <=> numbers[i].done /\ numbers[i].run = runs
      BY <2>1, <2>2, <3>1
    <3> QED BY <2>1, <2>2, <2>3, <3>1 DEF Completed
  <2>5. \A i \in DOMAIN numbers : Carried(numbers'[i]) = Carried(numbers[i])
    BY <2>1 DEF Carried
  <2>6. Completed \subseteq DOMAIN numbers
    BY DEF Completed
  <2>7. Carried(numbers[n]) = heard - rf + 1 .. heard
    BY <2>3 DEF Carried
  <2>8. /\ \A i, j \in Completed : i # j => Carried(numbers[i]) \cap Carried(numbers[j]) = {}
        /\ UNION {Carried(numbers[i]) : i \in Completed} = 1 .. heard - rf
    BY <1>0, <2>2 DEF EveryPacketReported
  <2>9. /\ (1 .. heard - rf) \cup Carried(numbers[n]) = 1 .. heard - rf'
        /\ (1 .. heard - rf) \cap Carried(numbers[n]) = {}
    BY <1>0, <2>2, <2>7
  <2>10. ASSUME NEW i \in Completed PROVE Carried(numbers[i]) \cap Carried(numbers[n]) = {}
    BY <2>8, <2>9
  <2>11. ASSUME NEW i \in Completed', NEW j \in Completed', i # j
         PROVE  Carried(numbers'[i]) \cap Carried(numbers'[j]) = {}
    BY <2>1, <2>4, <2>5, <2>6, <2>8, <2>10, <2>11
  <2>12. UNION {Carried(numbers'[i]) : i \in Completed'} = 1 .. heard' - rf'
    <3>1. {Carried(numbers'[i]) : i \in Completed'}
             = {Carried(numbers[i]) : i \in Completed} \cup {Carried(numbers[n])}
      BY <2>1, <2>4, <2>5, <2>6
    <3> QED BY <2>2, <2>8, <2>9, <3>1
  <2>13. EveryPacketReported'
    BY <2>11, <2>12 DEF EveryPacketReported, Carried
  <2> QED BY <1>0, <2>1, <2>2, <2>13 DEF PacketInv, Reporting
<1>9. CASE Stop \/ Crash
  <2>1. /\ phase' = "stopped" /\ rf' = 0 /\ heard' = 0 /\ UNCHANGED <<runs, numbers>>
    BY <1>9 DEF Stop, Crash, MemoryGone
  <2> QED BY <1>0, <2>1 DEF PacketInv, Reporting, EveryPacketReported
<1>10. CASE Restart
  <2>1. /\ phase = "stopped" /\ phase' = "down" /\ runs' = runs + 1
        /\ UNCHANGED <<rf, heard, numbers>>
    BY <1>10 DEF Restart
  <2>2. /\ rf = 0 /\ heard = 0
        /\ \A i \in DOMAIN numbers : numbers[i].run <= runs' /\ numbers[i].run # runs'
    BY <1>0, <2>1
  <2>3. Completed' = {}
    BY <2>1, <2>2 DEF Completed
  <2>4. 1 .. heard' - rf' = {}
    BY <2>1, <2>2
  <2>5. EveryPacketReported'
    BY <2>3, <2>4 DEF EveryPacketReported
  <2> QED BY <2>1, <2>2, <2>5 DEF PacketInv, Reporting
<1> QED BY <1>2, <1>3, <1>4, <1>5, <1>6, <1>7, <1>8, <1>9, <1>10 DEF Next

\* For every number of packets, reports, crashes and sessions that end inside a
\* report: each packet heard in a run is counted by exactly one completed report of
\* that run, or by none yet and then it is still in the counter.
THEOREM PacketsReportedOnce == Spec => []EveryPacketReported
<1>1. PacketInv => EveryPacketReported
  BY DEF PacketInv
<1> QED BY <1>1, InitPackets, NextPackets, SpecType, PTL DEF Spec

-----------------------------------------------------------------------------
(* The freshness of the beacons.  A fix with a position is the last report *)
(* of gpsd, and as old as that; a write that began with it keeps the       *)
(* position while later reports arrive.                                    *)

\* p was reported, with a fix, less than Freshness before at, and not superseded.
FreshAt(p, at) ==
    \E t \in tpvs : /\ t[1].pos = p /\ t[1].mode >= 2
                    /\ t[2] <= at /\ at - t[2] < Freshness
                    /\ \A u \in tpvs : ~(t[2] < u[2] /\ u[2] < at)

GpsIsLastReport ==
    gps.mode >= 2 =>
        /\ \E t \in tpvs : t[1].pos = gps.pos /\ t[1].mode >= 2 /\ t[2] = gps.at
        /\ \A u \in tpvs : u[2] <= gps.at

WriteFresh == Source = "gpsd" /\ phase \in {"floor", "move"} => FreshAt(loc.pos, since)

FreshInv == GpsIsLastReport /\ WriteFresh /\ FreshBeacons

\* A fix that is used now was reported in time.
LEMMA FreshFix ==
    ASSUME TypeInv, FreshInv, Source = "gpsd", HasLocation
    PROVE  FreshAt(Location.pos, now)
<1>1. /\ fix = Shared(gps) /\ now - fix.at < Freshness /\ fix.mode >= 2
  BY DEF HasLocation, is_fresh, TypeInv, FixType
<1>2. fix.at = gps.at /\ fix.mode = gps.mode /\ fix.pos = gps.pos
  BY <1>1 DEF Shared
<1>3. Location.pos = gps.pos
  BY <1>2 DEF Location
<1>4. PICK t \in tpvs : t[1].pos = gps.pos /\ t[1].mode >= 2 /\ t[2] = gps.at
  BY <1>1, <1>2 DEF FreshInv, GpsIsLastReport
<1>5. \A u \in tpvs : u[2] <= gps.at /\ u[2] \in Nat
  BY <1>1, <1>2 DEF FreshInv, GpsIsLastReport, TypeInv, LogType
<1>6. gps.at \in Nat /\ gps.at <= now /\ now \in Nat
  BY DEF TypeInv, FixType, ClockType
<1>7. t[2] <= now /\ now - t[2] < Freshness /\ \A u \in tpvs : ~(t[2] < u[2] /\ u[2] < now)
  BY <1>1, <1>2, <1>4, <1>5, <1>6
<1> QED BY <1>3, <1>4, <1>7 DEF FreshAt

\* A report that arrives later does not supersede it.
LEMMA FreshStays ==
    ASSUME TypeInv, NEW p, NEW at \in Nat, at <= now, FreshAt(p, at),
           NEW r \in Reports, tpvs' = tpvs \cup {<<r, now>>}
    PROVE  FreshAt(p, at)'
<1>1. PICK t \in tpvs : /\ t[1].pos = p /\ t[1].mode >= 2
                        /\ t[2] <= at /\ at - t[2] < Freshness
                        /\ \A u \in tpvs : ~(t[2] < u[2] /\ u[2] < at)
  BY DEF FreshAt
<1>2. ~(now < at) /\ <<r, now>>[2] = now
  BY DEF TypeInv, ClockType
<1>3. \A u \in tpvs' : ~(t[2] < u[2] /\ u[2] < at)
  BY <1>1, <1>2
<1>4. t \in tpvs'
  OBVIOUS
<1> QED BY <1>1, <1>3, <1>4 DEF FreshAt

LEMMA FreshBeaconsAre ==
    FreshBeacons <=>
        (Source = "gpsd" => \A i \in DOMAIN beacons : FreshAt(beacons[i].pos, beacons[i].at))
  BY DEF FreshBeacons, FreshAt

LEMMA InitFresh == Init => FreshInv
  BY DEF Init, FreshInv, GpsIsLastReport, WriteFresh, FreshBeacons, NoGps

LEMMA NextFresh == TypeInv /\ FreshInv /\ [Next]_vars => FreshInv'
<1> SUFFICES ASSUME TypeInv, FreshInv, [Next]_vars PROVE FreshInv'
  OBVIOUS
<1>0. GpsIsLastReport /\ WriteFresh /\ FreshBeacons
  BY DEF FreshInv
<1>1. ASSUME UNCHANGED <<gps, tpvs, beacons>>,
             UNCHANGED <<phase, loc, since>> \/ phase' \notin {"floor", "move"}
      PROVE  FreshInv'
  BY <1>0, <1>1 DEF FreshInv, GpsIsLastReport, WriteFresh, FreshBeacons, FreshAt
<1>2. ASSUME NEW r \in Reports, Tpv(r) PROVE FreshInv'
  <2>1. /\ UNCHANGED <<phase, loc, since, beacons>>
        /\ tpvs' = tpvs \cup {<<r, now>>}
        /\ gps' = [pos |-> r.pos, mode |-> r.mode, alt |-> r.alt, at |-> now]
    BY <1>2 DEF Tpv, ticks
  <2>2. GpsIsLastReport'
    <3>1. /\ gps'.pos = r.pos /\ gps'.mode = r.mode /\ gps'.at = now
          /\ <<r, now>>[1] = r /\ <<r, now>>[2] = now /\ <<r, now>> \in tpvs'
      BY <2>1
    <3>2. \A u \in tpvs' : u[2] <= now
      BY <2>1 DEF TypeInv, ClockType, LogType
    <3> QED BY <3>1, <3>2 DEF GpsIsLastReport
  <2>3. WriteFresh'
    <3> SUFFICES ASSUME Source = "gpsd", phase \in {"floor", "move"}
                 PROVE  FreshAt(loc.pos, since)'
      BY <2>1 DEF WriteFresh
    <3>1. FreshAt(loc.pos, since) /\ since \in Nat /\ since <= now
      BY <1>0 DEF WriteFresh, TypeInv, ClockType
    <3> QED BY <2>1, <3>1, FreshStays DEF FreshAt
  <2>4. FreshBeacons'
    <3> SUFFICES ASSUME Source = "gpsd", NEW i \in DOMAIN beacons
                 PROVE  FreshAt(beacons[i].pos, beacons[i].at)'
      BY <2>1, FreshBeaconsAre DEF FreshBeacons, FreshAt
    <3>1. beacons[i] \in BeaconLine /\ beacons[i].at <= now
      BY DEF TypeInv, LogType
    <3>2. beacons[i].at \in Nat
      BY <3>1 DEF BeaconLine
    <3>3. FreshAt(beacons[i].pos, beacons[i].at)
      BY <1>0, FreshBeaconsAre
    <3> QED BY <2>1, <3>1, <3>2, <3>3, FreshStays DEF FreshAt
  <2> QED BY <2>2, <2>3, <2>4 DEF FreshInv
<1>3. CASE Sky
  BY <1>1, <1>3 DEF Sky, ticks, log
<1>4. CASE SecondPasses \/ LoggedIn \/ SessionEnds \/ HearPacket
  BY <1>1, <1>4 DEF SecondPasses, LoggedIn, SessionEnds, HearPacket, ticks, log
<1>5. CASE FloorBeacon \/ MoveBeacon
  <2>1. /\ UNCHANGED <<gps, tpvs, beacons>> /\ loc' = Location /\ since' = now
        /\ HasLocation
    BY <1>5 DEF FloorBeacon, MoveBeacon, log
  <2>2. Source = "gpsd" => FreshAt(loc'.pos, since')
    BY <2>1, FreshFix
  <2>3. WriteFresh'
    BY <2>1, <2>2 DEF WriteFresh, FreshAt
  <2> QED BY <1>0, <2>1, <2>3 DEF FreshInv, GpsIsLastReport, FreshBeacons
<1>6. CASE FloorNoBeacon \/ MoveNoBeacon
  BY <1>1, <1>6 DEF FloorNoBeacon, MoveNoBeacon, log
<1>7. CASE BeaconSent
  <2>1. UNCHANGED <<gps, tpvs>> /\ phase \in {"floor", "move"}
        /\ phase' \notin {"floor", "move"}
    BY <1>7 DEF BeaconSent
  <2>2. /\ \A i \in DOMAIN beacons' : i \in DOMAIN beacons \/ i = Len(beacons) + 1
        /\ \A i \in DOMAIN beacons : beacons'[i] = beacons[i]
        /\ beacons'[Len(beacons) + 1].pos = loc.pos
        /\ beacons'[Len(beacons) + 1].at = since
    BY <1>7, BeaconChange
  <2>3. Source = "gpsd" =>
           \A i \in DOMAIN beacons' : FreshAt(beacons'[i].pos, beacons'[i].at)
    BY <1>0, <2>1, <2>2, FreshBeaconsAre DEF WriteFresh
  <2>4. FreshBeacons'
    BY <2>1, <2>3 DEF FreshBeacons, FreshAt
  <2> QED BY <1>0, <2>1, <2>4 DEF FreshInv, GpsIsLastReport, WriteFresh
<1>8. CASE NumberSent \/ ReportSent \/ UNCHANGED vars
  BY <1>1, <1>8 DEF NumberSent, ReportSent, vars
<1>9. CASE Stop \/ Crash
  <2>1. phase' = "stopped" /\ beacons' = <<>> /\ gps' = NoGps
    BY <1>9 DEF Stop, Crash, MemoryGone
  <2>2. ~(gps'.mode >= 2)
    BY <2>1 DEF NoGps
  <2> QED BY <2>1, <2>2 DEF FreshInv, GpsIsLastReport, WriteFresh, FreshBeacons
<1>10. CASE Restart
  <2>1. phase' = "down" /\ UNCHANGED <<beacons, tpvs>> /\ gps' = [NoGps EXCEPT !.at = now]
    BY <1>10 DEF Restart
  <2>2. ~(gps'.mode >= 2)
    BY <2>1 DEF NoGps
  <2> QED BY <1>0, <2>1, <2>2 DEF FreshInv, GpsIsLastReport, WriteFresh, FreshBeacons
<1> QED BY <1>2, <1>3, <1>4, <1>5, <1>6, <1>7, <1>8, <1>9, <1>10 DEF Next

\* For every sequence of reports, outages, slow writes and restarts: a gpsd station
\* never beacons a position that was not reported in time, or that was superseded
\* before the write began.
THEOREM NoStaleBeacon == Spec => []FreshBeacons
<1>1. FreshInv => FreshBeacons
  BY DEF FreshInv
<1> QED BY <1>1, InitFresh, NextFresh, SpecType, PTL DEF Spec

-----------------------------------------------------------------------------
(* Movement.  What is remembered is what was last beaconed, unless         *)
(* positpacket rejected a location in between.                             *)

\* positpacket accepts every position gpsd may report.
Acceptable ==
    /\ Home.alt = "good"
    /\ \A r \in Reports : r.alt # "bad" /\ (r.pos # NoPos => r.pos.x # 0)

Fixes == gps.alt # "bad" /\ (gps.pos # NoPos => gps.pos.x # 0)

\* The beacon being written for the movement tick is far enough from the last one.
MoveFar ==
    phase = "move" =>
        Source = "gpsd" /\ (last # NoPos => Distance(loc.pos, last) > MoveBy)

LastBeaconed ==
    Source = "gpsd" /\ beacons # <<>> => last = beacons[Len(beacons)].pos

OnlyGpsMoves == \A i \in DOMAIN beacons : beacons[i].why = "move" => Source = "gpsd"

MoveInv == Fixes /\ MoveFar /\ LastBeaconed /\ OnlyGpsMoves /\ MovedSinceLast

LEMMA DistanceSymmetric ==
    ASSUME NEW p, NEW q, p.x \in Int, q.x \in Int
    PROVE  Distance(p, q) = Distance(q, p)
  BY DEF Distance

\* Then positpacket rejects no location that is fresh.
LEMMA NoneRejected ==
    ASSUME Acceptable, TypeInv, MoveInv, Source = "gpsd", HasLocation
    PROVE  PositpacketAccepts(Location)
<1>1. fix = Shared(gps) /\ fix.pos # NoPos
  BY DEF HasLocation, is_fresh, TypeInv, FixType
<1>2. fix.alt = gps.alt /\ fix.pos = gps.pos /\ gps.alt \in Alts
  BY <1>1 DEF Shared, TypeInv, FixType
<1>3. Location.pos = gps.pos /\ Location.alt = IF gps.alt = "none" THEN Home.alt ELSE gps.alt
  BY <1>2 DEF Location
<1> QED BY <1>1, <1>2, <1>3 DEF PositpacketAccepts, Acceptable, MoveInv, Fixes, Alts

LEMMA InitMove == Init => MoveInv
  BY DEF Init, MoveInv, Fixes, MoveFar, LastBeaconed, OnlyGpsMoves, MovedSinceLast, NoGps

LEMMA NextMoveInv == Acceptable /\ TypeInv /\ MoveInv /\ [Next]_vars => MoveInv'
<1> SUFFICES ASSUME Acceptable, TypeInv, MoveInv, [Next]_vars PROVE MoveInv'
  OBVIOUS
<1>0. Fixes /\ MoveFar /\ LastBeaconed /\ OnlyGpsMoves /\ MovedSinceLast
  BY DEF MoveInv
<1>1. ASSUME Fixes', UNCHANGED beacons, last' = last \/ Source # "gpsd",
             UNCHANGED <<phase, loc, last>> \/ phase' # "move"
      PROVE  MoveInv'
  BY <1>0, <1>1 DEF MoveInv, MoveFar, LastBeaconed, OnlyGpsMoves, MovedSinceLast
<1>2. gps' = gps => Fixes'
  BY <1>0 DEF Fixes
<1>3. ASSUME NEW r \in Reports, Tpv(r) PROVE MoveInv'
  <2>1. Fixes'
    BY <1>3 DEF Tpv, Fixes, Acceptable
  <2> QED BY <1>1, <1>3, <2>1 DEF Tpv, ticks
<1>4. CASE Sky \/ SecondPasses \/ LoggedIn \/ SessionEnds \/ HearPacket
  BY <1>1, <1>2, <1>4 DEF Sky, SecondPasses, LoggedIn, SessionEnds, HearPacket, ticks, log
<1>5. CASE FloorBeacon
  BY <1>1, <1>2, <1>5 DEF FloorBeacon, log
<1>6. CASE FloorNoBeacon
  <2>1. last' = last \/ Source # "gpsd"
    BY <1>6, NoneRejected DEF FloorNoBeacon
  <2> QED BY <1>1, <1>2, <1>6, <2>1 DEF FloorNoBeacon, log
<1>7. CASE MoveBeacon
  <2>1. /\ UNCHANGED <<gps, last, beacons>> /\ loc' = Location /\ Source = "gpsd"
        /\ Moved(Location)
    BY <1>7 DEF MoveBeacon, log
  <2>2. MoveFar'
    BY <2>1 DEF MoveFar, Moved, Distance
  <2> QED BY <1>0, <1>2, <2>1, <2>2 DEF MoveInv, LastBeaconed, OnlyGpsMoves, MovedSinceLast
<1>8. CASE MoveNoBeacon
  <2>1. last' = last
    BY <1>8, NoneRejected DEF MoveNoBeacon
  <2> QED BY <1>1, <1>2, <1>8, <2>1 DEF MoveNoBeacon, log
<1>9. CASE BeaconSent
  <2> DEFINE n == Len(beacons)
  <2>1. /\ n \in Nat /\ DOMAIN beacons' = 1 .. n + 1 /\ DOMAIN beacons = 1 .. n
        /\ Len(beacons') = n + 1 /\ \A i \in DOMAIN beacons : beacons'[i] = beacons[i]
        /\ beacons'[n + 1].why = phase /\ beacons'[n + 1].pos = loc.pos
    BY <1>9, BeaconChange
  <2>2. /\ gps' = gps /\ phase' # "move" /\ last' = loc.pos
        /\ loc.pos # NoPos /\ loc.pos \in Places
    BY <1>9 DEF BeaconSent, Remembered, TypeInv, PlaceType
  <2>3. beacons = <<>> \/ n \in DOMAIN beacons
    BY <2>1 DEF TypeInv, LogType
  <2> HIDE DEF n
  <2>4. \A i \in DOMAIN beacons' : i \in DOMAIN beacons \/ i = n + 1
    BY <2>1
  <2>5. LastBeaconed'
    BY <2>1, <2>2 DEF LastBeaconed
  <2>6. OnlyGpsMoves'
    BY <1>0, <2>1, <2>4 DEF OnlyGpsMoves, MoveFar
  <2>7. MovedSinceLast'
    <3> SUFFICES ASSUME NEW i \in DOMAIN beacons', NEW j \in DOMAIN beacons', j = i + 1,
                        beacons'[j].why = "move"
                 PROVE  Distance(beacons'[i].pos, beacons'[j].pos) > MoveBy
      BY DEF MovedSinceLast
    <3>1. i \in DOMAIN beacons
      BY <2>1
    <3>2. CASE j \in DOMAIN beacons
      BY <1>0, <2>1, <3>1, <3>2 DEF MovedSinceLast
    <3>3. CASE j = n + 1
      <4>1. i = n /\ phase = "move"
        BY <2>1, <3>1, <3>3
      <4>2. Source = "gpsd" /\ beacons # <<>>
        BY <1>0, <2>1, <3>1, <4>1 DEF MoveFar
      <4>3. last = beacons[n].pos
        BY <1>0, <4>2 DEF LastBeaconed, n
      <4>4. beacons[n] \in BeaconLine
        BY <3>1, <4>1 DEF TypeInv, LogType
      <4>5. last \in Places /\ last # NoPos
        BY <4>3, <4>4 DEF BeaconLine
      <4>6. last.x \in Int /\ loc.pos.x \in Int
        BY <2>2, <4>5, PlacesType DEF IsPos
      <4>7. Distance(loc.pos, last) > MoveBy
        BY <1>0, <4>1, <4>5 DEF MoveFar
      <4>8. Distance(last, loc.pos) > MoveBy
        BY <4>6, <4>7, DistanceSymmetric
      <4>9. beacons'[i].pos = last /\ beacons'[j].pos = loc.pos
        BY <2>1, <3>1, <3>3, <4>1, <4>3
      <4> QED BY <4>8, <4>9
    <3> QED BY <2>4, <3>2, <3>3
  <2> QED BY <1>2, <2>2, <2>5, <2>6, <2>7 DEF MoveInv, MoveFar
<1>10. CASE NumberSent \/ ReportSent \/ UNCHANGED vars
  BY <1>1, <1>2, <1>10 DEF NumberSent, ReportSent, vars
<1>11. CASE Stop \/ Crash
  <2>1. phase' = "stopped" /\ beacons' = <<>> /\ gps' = NoGps
    BY <1>11 DEF Stop, Crash, MemoryGone
  <2> QED BY <2>1 DEF MoveInv, Fixes, MoveFar, LastBeaconed, OnlyGpsMoves, MovedSinceLast,
             NoGps
<1>12. CASE Restart
  <2>1. phase' = "down" /\ gps' = [NoGps EXCEPT !.at = now] /\ UNCHANGED <<last, beacons>>
    BY <1>12 DEF Restart
  <2>2. Fixes'
    BY <2>1 DEF Fixes, NoGps
  <2> QED BY <1>1, <2>1, <2>2
<1> QED BY <1>3, <1>4, <1>5, <1>6, <1>7, <1>8, <1>9, <1>10, <1>11, <1>12 DEF Next

\* If positpacket accepts what gpsd reports, a movement beacon is always farther than
\* the threshold from the beacon before it, whichever of the two ticks sent that one
\* and however the writes and the outages fall.
THEOREM MovesAreMoves == ASSUME Acceptable PROVE Spec => []MovedSinceLast
<1>1. MoveInv => MovedSinceLast
  BY DEF MoveInv
<1>2. TypeInv /\ MoveInv /\ [Next]_vars => MoveInv'
  BY NextMoveInv
<1> QED BY <1>1, <1>2, InitMove, SpecType, PTL DEF Spec

-----------------------------------------------------------------------------
(* What the task sends is text: the conversions, for every value, angle    *)
(* and packet.                                                             *)

LEMMA Tenths ==
    ASSUME NEW f \in Nat
    PROVE  10 * ((f + 5) \div 10) - f \in -5 .. 5
<1> DEFINE m == (f + 5) \div 10
<1>1. m \in Nat /\ 10 * m <= f + 5 /\ f + 5 < 10 * m + 10
  BY SMT
<1> HIDE DEF m
<1>2. 10 * m - f \in -5 .. 5
  BY <1>1, SMT
<1> QED BY <1>2, Zenon DEF m

LEMMA Digits ==
    ASSUME NEW n \in Nat
    PROVE  (n \div 16384) * 128 * 128 + ((n % 16384) \div 128) * 128 + (n % 128) = n
  BY SMT

\* The byte and the coefficients of a value give it back.
LEMMA QuadraticDecodes ==
    ASSUME NEW v, v.whole \in Nat, v.frac \in Nat
    PROVE  LET e == APRSQuadratic(v)
               d == Decoded(e.x, e)
           IN  /\ e.x \in 0 .. 255 /\ d.whole = v.whole
               /\ 10 * d.micro - v.frac \in -5 .. 5
<1> DEFINE w == v.whole
           e == APRSQuadratic(v)
           d == Decoded(e.x, e)
<1>1. e.micro = (v.frac + 5) \div 10
  BY SMT DEF APRSQuadratic, Rounded
<1>2. d.micro = e.micro /\ d.whole = e.a * e.x * e.x + e.b * e.x + e.c
  BY DEF Decoded
<1>3. 10 * d.micro - v.frac \in -5 .. 5
  BY <1>1, <1>2, Tenths, SMT
<1>4. CASE w < 255 \/ (w = 255 /\ v.frac = 0)
  <2>1. e.a = 0 /\ e.b = 1 /\ e.c = 0 /\ e.x = w
    BY <1>4, SMT DEF APRSQuadratic
  <2>2. e.x \in 0 .. 255 /\ d.whole = w
    BY <1>2, <1>4, <2>1, SMT
  <2> QED BY <1>3, <2>2
<1>5. CASE ~(w < 255 \/ (w = 255 /\ v.frac = 0))
  <2>1. e.a = w \div 16384 /\ e.b = (w % 16384) \div 128 /\ e.c = w % 128 /\ e.x = 128
    BY <1>5, SMT DEF APRSQuadratic
  <2>2. d.whole = w
    BY <1>2, <2>1, Digits, SMT
  <2>3. e.x \in 0 .. 255
    BY <2>1, SMT
  <2> QED BY <1>3, <2>2, <2>3
<1> QED BY <1>4, <1>5

LEMMA MillionIs == Million = 1000000
  BY SMT DEF Million

LEMMA MillionNat == Million \in Nat
  BY MillionIs, SMT

\* A digit puts the angle less than its width too low.
LEMMA DigitDecodes ==
    ASSUME NEW r \in Nat, r < 1000000
    PROVE  /\ (r \div 100000) * 100000 \in Nat /\ (r \div 100000) * 100000 <= r
           /\ r <= (r \div 100000) * 100000 + 99999
           /\ (((r * 91) \div 1000000) * 1000000) \div 91 \in Nat
           /\ (((r * 91) \div 1000000) * 1000000) \div 91 <= r
           /\ r <= (((r * 91) \div 1000000) * 1000000) \div 91 + 10989
<1>1. PICK d \in Nat : d = r \div 100000
  BY SMT
<1>2. d * 100000 \in Nat /\ d * 100000 <= r /\ r <= d * 100000 + 99999
  BY <1>1, SMT
<1>3. PICK b \in Nat : b = (r * 91) \div 1000000
  BY SMT
<1>4. PICK e \in Nat : e = (b * 1000000) \div 91
  BY SMT
<1>5. 1000000 * b <= r * 91 /\ r * 91 < 1000000 * b + 1000000
  BY <1>3, SMT
<1>6. 91 * e <= b * 1000000 /\ b * 1000000 < 91 * e + 91
  BY <1>4, SMT
<1>7. 91 * e <= 91 * r /\ 91 * r <= 91 * e + 1000089
  BY <1>5, <1>6, SMT
<1>8. e <= r /\ r <= e + 10989
  BY <1>7, SMT
<1> QED BY <1>1, <1>2, <1>3, <1>4, <1>8, SMT

LEMMA BelowMillion ==
    ASSUME NEW x \in 0 .. Million - 1
    PROVE  x \in Nat /\ x < Million
  BY MillionNat, SMT

\* The text of a position, read back, is less than a digit away from it.
LEMMA PositDecodes ==
    ASSUME NEW p, p.hund \in Nat, p.rem \in Nat, p.rem < Million,
           NEW dao \in {"Off", "Human", "Base91"}
    PROVE  LET t == positpacket(p, dao)
           IN  /\ t.deg = p.deg
               /\ (p.hund - t.hund) * Million + p.rem - DigitAt(dao, t.digit)
                     \in -1 .. Step(dao) - 1
<1> DEFINE t == positpacket(p, dao)
           h == p.hund + (p.rem + 1) \div Million
           r == IF h > p.hund THEN 0 ELSE p.rem
           off == (p.hund - h) * Million + p.rem
<1>1. t.deg = p.deg /\ t.hund = h
  BY SMT DEF positpacket
<1>2. p.rem \in Nat /\ p.rem < 1000000
  BY MillionIs, SMT
<1>3. r \in Nat /\ r < 1000000 /\ (off = r \/ (off = -1 /\ r = 0))
  <2>1. CASE p.rem = 999999
    <3>1. h = p.hund + 1
      BY <2>1, MillionIs, SMT
    <3> QED BY <2>1, <3>1, MillionIs, SMT
  <2>2. CASE p.rem # 999999
    <3>1. h = p.hund
      BY <1>2, <2>2, MillionIs, SMT
    <3> QED BY <1>2, <3>1, MillionIs, SMT
  <2> QED BY <2>1, <2>2, SMT
<1>4. /\ dao = "Off" => t.digit = 0
      /\ dao = "Human" => t.digit = r \div 100000
      /\ dao = "Base91" => t.digit = (r * 91) \div Million
  BY SMT DEF positpacket, base91_dao_char
<1> HIDE DEF r, h, t
<1>5. /\ dao = "Off" => DigitAt(dao, t.digit) = 0
      /\ dao = "Human" => DigitAt(dao, t.digit) = t.digit * 100000
      /\ dao = "Base91" => DigitAt(dao, t.digit) = (t.digit * Million) \div 91
  BY SMT DEF DigitAt
<1>6. /\ dao = "Off" => Step(dao) = Million
      /\ dao = "Human" => Step(dao) = 100000
      /\ dao = "Base91" => Step(dao) = 10990
  BY SMT DEF Step
<1>7. PICK g, w : g = DigitAt(dao, t.digit) /\ w = Step(dao)
  BY Zenon
<1>8. g \in Nat /\ g <= r /\ w \in Int /\ r <= g + w - 1 /\ w >= 1
  <2>1. CASE dao = "Off"
    BY <1>3, <1>5, <1>6, <1>7, <2>1, MillionIs, SMT
  <2>2. CASE dao = "Human"
    BY <1>3, <1>4, <1>5, <1>6, <1>7, <2>2, DigitDecodes, SMT
  <2>3. CASE dao = "Base91"
    BY <1>3, <1>4, <1>5, <1>6, <1>7, <2>3, MillionIs, DigitDecodes, SMT
  <2> QED BY <2>1, <2>2, <2>3, Zenon
<1> HIDE DEF off
<1>9. PICK y \in Int : y = (p.hund - h) * Million
  <2>1. h \in Int
    BY <1>2, MillionIs, SMT DEF h
  <2> QED BY <2>1, MillionNat, SMT
<1>10. y + (p.rem - g) \in -1 .. w - 1
  <2>1. y + p.rem = r \/ (y + p.rem = -1 /\ r = 0)
    BY <1>3, <1>9, SMT DEF off
  <2> QED BY <1>2, <1>3, <1>8, <2>1, SMT
<1> QED BY <1>1, <1>7, <1>9, <1>10, Zenon DEF t

\* What is known of a report of which lines have been heard.
ReportInv ==
    job.kind = "report" =>
        /\ job = [kind |-> "report", line |-> job.line, value |-> job.value,
                  x |-> job.x, q |-> job.q, reports |-> job.reports]
        /\ job.line \in {"T#", "EQNS"} =>
              job.value \in Values /\ job.x = APRSQuadratic(job.value).x
        /\ job.line = "EQNS" => job.q = APRSQuadratic(job.value)

PositInv ==
    job.kind = "posit" =>
        /\ job = [kind |-> "posit", angle |-> job.angle, dao |-> job.dao, text |-> job.text]
        /\ job.angle \in Angles /\ job.dao \in {"Off", "Human", "Base91"}
        /\ job.text = None \/ job.text = positpacket(job.angle, job.dao)

RowInv ==
    job.kind = "row" =>
        /\ job = [kind |-> "row", packet |-> job.packet, version |-> job.version,
                  row |-> job.row]
        /\ job.packet \in Packets
        /\ job.version = Current => job.row = from_packet(job.packet)

JobInv == ReportInv /\ PositInv /\ RowInv

\* A row of the current version has every field.
LEMMA CurrentRow ==
    ASSUME NEW p
    PROVE  [f \in {"key_micros", "base"} \cup FieldsOf(Current) |-> from_packet(p)[f]]
              = from_packet(p)
<1>1. {"key_micros", "base"} \cup FieldsOf(Current)
         = {"key_micros", "base", "twist_cols", "motion", "snr_db"}
  BY DEF FieldsOf, Current
<1> QED BY <1>1 DEF from_packet

LEMMA StartJob == Start => JobInv
<1> SUFFICES ASSUME Start PROVE JobInv
  OBVIOUS
<1>0. None \notin {"T#", "EQNS"}
  BY ConversionsAssumption, Zenon
<1>1. CASE job = [kind |-> "report", line |-> None, value |-> None, x |-> 0,
                  q |-> None, reports |-> 0]
  BY <1>0, <1>1 DEF JobInv, ReportInv, PositInv, RowInv
<1>2. ASSUME NEW p \in Angles, NEW d \in {"Off", "Human", "Base91"},
             job = [kind |-> "posit", angle |-> p, dao |-> d, text |-> None]
      PROVE  JobInv
  BY <1>2 DEF JobInv, ReportInv, PositInv, RowInv
<1>3. ASSUME NEW p \in Packets,
             job = [kind |-> "row", packet |-> p, version |-> 0, row |-> None]
      PROVE  JobInv
  BY <1>3 DEF JobInv, ReportInv, PositInv, RowInv, Current
<1> QED BY <1>1, <1>2, <1>3 DEF Start

LEMMA NextJob == JobInv /\ [Convert]_job => JobInv'
<1> SUFFICES ASSUME JobInv, [Convert]_job PROVE JobInv'
  OBVIOUS
<1>1. CASE HearValue
  <2>1. PICK v \in Values :
           job' = [job EXCEPT !.line = "T#", !.value = v,
                              !.x = APRSQuadratic(v).x, !.reports = @ + 1]
    BY <1>1 DEF HearValue
  <2>2. PICK l, u, x, q, n :
           job = [kind |-> "report", line |-> l, value |-> u, x |-> x, q |-> q, reports |-> n]
    BY <1>1 DEF HearValue, JobInv, ReportInv
  <2>3. PICK y : y = APRSQuadratic(v).x
    OBVIOUS
  <2>4. job' = [kind |-> "report", line |-> "T#", value |-> v, x |-> y, q |-> q,
                reports |-> n + 1]
    BY <2>1, <2>2, <2>3
  <2> QED BY <2>3, <2>4 DEF JobInv, ReportInv, PositInv, RowInv
<1>2. CASE HearEquations
  <2>1. PICK u, x, q, n :
           job = [kind |-> "report", line |-> "T#", value |-> u, x |-> x, q |-> q,
                  reports |-> n]
    BY <1>2 DEF HearEquations, JobInv, ReportInv
  <2>2. u \in Values /\ x = APRSQuadratic(u).x
    BY <2>1 DEF JobInv, ReportInv
  <2>3. PICK e : e = APRSQuadratic(u)
    OBVIOUS
  <2>4. job' = [job EXCEPT !.line = "EQNS", !.q = e]
    BY <1>2, <2>1, <2>3 DEF HearEquations
  <2>5. job' = [kind |-> "report", line |-> "EQNS", value |-> u, x |-> x, q |-> e,
                reports |-> n]
    BY <2>1, <2>4
  <2> QED BY <2>2, <2>3, <2>5 DEF JobInv, ReportInv, PositInv, RowInv
<1>3. CASE MakePosit
  <2>1. PICK a, d, s : job = [kind |-> "posit", angle |-> a, dao |-> d, text |-> s]
    BY <1>3 DEF MakePosit, JobInv, PositInv
  <2>2. a \in Angles /\ d \in {"Off", "Human", "Base91"}
    BY <2>1 DEF JobInv, PositInv
  <2>3. PICK t : t = positpacket(a, d)
    OBVIOUS
  <2>4. job' = [job EXCEPT !.text = t]
    BY <1>3, <2>1, <2>3 DEF MakePosit
  <2>5. job' = [kind |-> "posit", angle |-> a, dao |-> d, text |-> t]
    BY <2>1, <2>4
  <2> QED BY <2>2, <2>3, <2>5 DEF JobInv, ReportInv, PositInv, RowInv
<1>4. CASE StoreRow
  <2>1. PICK p, u, s :
           job = [kind |-> "row", packet |-> p, version |-> u, row |-> s]
    BY <1>4 DEF StoreRow, JobInv, RowInv
  <2>2. p \in Packets
    BY <2>1 DEF JobInv, RowInv
  <2>3. PICK v \in 1 .. 4 :
           job' = [job EXCEPT !.version = v,
                              !.row = [f \in {"key_micros", "base"} \cup FieldsOf(v) |->
                                          from_packet(job.packet)[f]]]
    BY <1>4 DEF StoreRow
  <2>4. PICK r : r = [f \in {"key_micros", "base"} \cup FieldsOf(v) |-> from_packet(p)[f]]
    OBVIOUS
  <2>5. job' = [job EXCEPT !.version = v, !.row = r]
    BY <2>1, <2>3, <2>4
  <2>6. job' = [kind |-> "row", packet |-> p, version |-> v, row |-> r]
    BY <2>1, <2>5
  <2>7. v = Current => r = from_packet(p)
    BY <2>4, CurrentRow
  <2> QED BY <2>2, <2>6, <2>7 DEF JobInv, ReportInv, PositInv, RowInv
<1>5. CASE job' = job
  BY <1>5 DEF JobInv, ReportInv, PositInv, RowInv
<1> QED BY <1>1, <1>2, <1>3, <1>4, <1>5 DEF Convert

\* For every value reported, one after the other: a receiver that has heard the whole
\* report gets the number back to within half a millionth, and the byte is one.
THEOREM ValuesDecode == ConversionSpec => []ReportDecodes
<1>1. ASSUME JobInv PROVE ReportDecodes
  <2> SUFFICES ASSUME job.kind = "report", job.line = "EQNS"
               PROVE  LET d == Decoded(job.x, job.q)
                      IN  /\ job.x \in 0 .. 255 /\ d.whole = job.value.whole
                          /\ 10 * d.micro - job.value.frac \in -5 .. 5
    BY DEF ReportDecodes
  <2>1. /\ job.value \in Values /\ job.q = APRSQuadratic(job.value)
        /\ job.x = APRSQuadratic(job.value).x
    BY <1>1 DEF JobInv, ReportInv
  <2>2. job.value.whole \in Nat /\ job.value.frac \in Nat
    <3>1. 10 * Million - 1 \in Int
      BY MillionNat, SMT
    <3>2. job.value.whole \in Nat /\ job.value.frac \in 0 .. 10 * Million - 1
      BY <2>1, ConversionsAssumption, Zenon
    <3> QED BY <3>1, <3>2, SMT
  <2> QED BY <2>1, <2>2, QuadraticDecodes
<1> QED BY <1>1, StartJob, NextJob, PTL DEF ConversionSpec

\* For every angle and each precision of !DAO!: the position read out of a beacon is
\* less than one digit away from the true one.
THEOREM PositionsDecode == ConversionSpec => []PositionDecodes
<1>1. ASSUME JobInv PROVE PositionDecodes
  <2> SUFFICES ASSUME job.kind = "posit", job.text # None
               PROVE  /\ job.text.deg = job.angle.deg
                      /\ (job.angle.hund - job.text.hund) * Million
                         + job.angle.rem - DigitAt(job.dao, job.text.digit)
                            \in -1 .. Step(job.dao) - 1
    BY DEF PositionDecodes
  <2>1. /\ job.angle \in Angles /\ job.dao \in {"Off", "Human", "Base91"}
        /\ job.text = positpacket(job.angle, job.dao)
    BY <1>1 DEF JobInv, PositInv
  <2>2. job.angle.hund \in Nat /\ job.angle.rem \in 0 .. Million - 1
    BY <2>1, ConversionsAssumption, Zenon
  <2>3. job.angle.rem \in Nat /\ job.angle.rem < Million
    BY <2>2, BelowMillion
  <2> QED BY <2>1, <2>2, <2>3, PositDecodes
<1> QED BY <1>1, StartJob, NextJob, PTL DEF ConversionSpec

\* For every packet: what this build reads back from a row of its own is the packet in
\* every field, its stamp cut to the microsecond, and has the key of its row.
THEOREM RowsKeepPackets == ConversionSpec => []RowKeepsPacket
<1>1. ASSUME JobInv PROVE RowKeepsPacket
  <2> SUFFICES ASSUME job.kind = "row", NEW p \in Loaded
               PROVE  LET q == job.packet
                      IN  /\ p.base = q.base /\ p.twist = q.twist
                          /\ p.motion = q.motion /\ p.snr = q.snr
                          /\ q.stamp - p.stamp \in 0 .. 999
                          /\ \A s \in {p, q, SatRoundTrip(q)} :
                                to_micros(s.stamp) = job.row.key_micros
    BY DEF RowKeepsPacket
  <2>1. PICK q, r : q = job.packet /\ r = job.row
    OBVIOUS
  <2>2. p = into_packet(r) /\ r = from_packet(q) /\ q \in Packets
    BY <1>1, <2>1 DEF Loaded, JobInv, RowInv
  <2>3. q.stamp \in Nat /\ q.twist \in (Nat \ {0}) \cup {None}
    BY <2>2, ConversionsAssumption, Zenon
  <2>4. /\ r.key_micros = to_micros(q.stamp) /\ r.base = q.base
        /\ r.twist_cols = (IF q.twist = None THEN 0 ELSE q.twist)
        /\ r.motion = q.motion /\ r.snr_db = q.snr
    BY <2>2 DEF from_packet
  <2>5. /\ p.stamp = from_micros(r.key_micros) /\ p.base = r.base
        /\ p.twist = (IF r.twist_cols > 0 THEN r.twist_cols ELSE None)
        /\ p.motion = r.motion /\ p.snr = r.snr_db
    BY <2>2 DEF into_packet
  <2>6. p.twist = q.twist
    BY <2>3, <2>4, <2>5
  <2> DEFINE k == q.stamp \div 1000
  <2>7. k \in Nat /\ q.stamp - k * 1000 \in 0 .. 999
    <3>1. PICK n : n = q.stamp
      OBVIOUS
    <3>2. n \in Nat
      BY <2>3, <3>1
    <3>3. n \div 1000 \in Nat /\ n - (n \div 1000) * 1000 \in 0 .. 999
      BY <3>2, SMT
    <3> QED BY <3>1, <3>3
  <2>8. r.key_micros = k /\ p.stamp = k * 1000
    BY <2>4, <2>5 DEF to_micros, from_micros
  <2>9. SatRoundTrip(q).stamp = k * 1000
    BY DEF SatRoundTrip, to_micros, from_micros
  <2>10. (k * 1000) \div 1000 = k
    BY <2>7, SMT
  <2>11. \A s \in {p, q, SatRoundTrip(q)} : to_micros(s.stamp) = k
    BY <2>8, <2>9, <2>10 DEF to_micros
  <2> HIDE DEF k
  <2>12. q.stamp - p.stamp \in 0 .. 999
    BY <2>7, <2>8
  <2> QED BY <2>1, <2>4, <2>5, <2>6, <2>8, <2>11, <2>12
<1> QED BY <1>1, StartJob, NextJob, PTL DEF ConversionSpec
=============================================================================
