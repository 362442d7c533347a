--------------------------- MODULE AprsIsGateProofs ---------------------------
(***************************************************************************)
(* Proofs about AprsIsGate, for every set of packets, channel capacity,    *)
(* TTL, age limit and bound: first its types, the drop ledger and the      *)
(* duplicate suppression; then how its counters agree with each other,     *)
(* with the channel and with the store, that it implements Checkpoint, and *)
(* that what it gates is fresh.                                            *)
(***************************************************************************)
EXTENDS AprsIsGate, TLAPS

\* The counters the task has.
LEMMA Fields ==
    /\ "rf" \in StatFields /\ "rf" \in LifeFields
    /\ "igated" \in StatFields /\ "igated" \in LifeFields
    /\ "dropped" \in StatFields /\ "dropped" \in LifeFields
    /\ "reconnects" \in StatFields /\ "reconnects" \in LifeFields
    /\ "lagged" \in LifeFields
    /\ \A r \in DropReasons : r \in LifeFields
    /\ "sends" \in TallyFields /\ "runs" \in TallyFields
    /\ "sessions" \in TallyFields /\ "offered" \in TallyFields
    /\ "taken" \in TallyFields /\ "lagPkts" \in TallyFields
    /\ "lost" \in TallyFields /\ "lostDisk" \in TallyFields
BY DEF StatFields, LifeFields, TallyFields

\* droppacket attributes a drop to one of the reasons the task has a counter for.
LEMMA DroppacketReason ==
    ASSUME NEW p \in Packet, NEW age \in Int,
           droppacket(p, age) # NoReason
    PROVE  droppacket(p, age) \in DropReasons
BY DEF droppacket, NoReason, DropReasons, RuleReasons

\* A send keeps the receiver well typed.
LEMMA SendType ==
    ASSUME NEW S, NEW r \in [items : Seq(S), missed : Nat], NEW x \in S
    PROVE  Send(r, x) \in [items : Seq(S), missed : Nat]
<1>1. CASE Len(r.items) < Cap
  BY <1>1 DEF Send
<1>2. CASE ~(Len(r.items) < Cap)
  <2>1. r.items \in Seq(S) /\ r.items # <<>>
    BY <1>2, CapAssumption
  <2>2. Append(Tail(r.items), x) \in Seq(S)
    BY <2>1
  <2> QED BY <1>2, <2>2 DEF Send
<1> QED BY <1>1, <1>2

\* A ready receiver's head is one of its items, and taking it keeps the type.
LEMMA TakenType ==
    ASSUME NEW S, NEW r \in [items : Seq(S), missed : Nat], Ready(r)
    PROVE  /\ Head(r.items) \in S
           /\ Taken(r) \in [items : Seq(S), missed : Nat]
<1>1. r.items \in Seq(S) /\ r.items # <<>>
  BY DEF Ready
<1>2. Head(r.items) \in S /\ Tail(r.items) \in Seq(S)
  BY <1>1
<1> QED BY <1>2 DEF Taken

LEMMA ZeroTypes == ZeroLife \in LifeType /\ ZeroStats \in StatsType
BY DEF ZeroLife, ZeroStats, LifeType, StatsType

\* Items of the channel are well typed.
LEMMA ItemTypes ==
    ASSUME TypeOK
    PROVE  TlmItem \in ItemType /\ \A p \in Packets : PktItem(p) \in ItemType
BY DEF TypeOK, TlmItem, PktItem, ItemType

LEMMA OfferedType ==
    ASSUME TypeOK
    PROVE  Offered(tally) \in [TallyFields -> Nat]
<1>1. tally \in [TallyFields -> Nat]
  BY DEF TypeOK
<1> QED BY <1>1, Fields DEF Offered

\* What recv() yields when it yields a packet.
LEMMA TakeFacts ==
    ASSUME TypeOK, TakePacket
    PROVE  /\ HeadPkt \in Packets
           /\ HeadAge \in Int
           /\ rx' \in [items : Seq(ItemType), missed : Nat]
<1>1. Head(rx.items) \in ItemType /\ Head(rx.items).kind = "pkt"
  BY TakenType DEF TypeOK, TakePacket
<1>2. rx' \in [items : Seq(ItemType), missed : Nat]
  BY TakenType DEF TypeOK, TakePacket
<1> QED BY <1>1, <1>2 DEF TypeOK, ItemType, HeadPkt, HeadAge

\* The counters stay well typed when a packet is heard, or heard and dropped.
LEMMA CountTypes ==
    ASSUME life \in LifeType, stats \in StatsType
    PROVE  /\ Heard(life) \in LifeType /\ Heard(stats) \in StatsType
           /\ \A r \in DropReasons : HeardAndDropped(r)
                 => life' \in LifeType /\ stats' \in StatsType
<1>1. Heard(life) \in LifeType /\ Heard(stats) \in StatsType
  BY Fields DEF Heard, LifeType, StatsType
<1>2. ASSUME NEW r \in DropReasons, HeardAndDropped(r)
      PROVE  life' \in LifeType /\ stats' \in StatsType
  BY <1>2, Fields DEF HeardAndDropped, LifeType, StatsType
<1> QED BY <1>1, <1>2

LEMMA InitType == Init => TypeOK
<1> SUFFICES ASSUME Init PROVE TypeOK
  OBVIOUS
<1>1. tally \in [TallyFields -> Nat]
  BY DEF Init
<1>2. rx \in [items : Seq(ItemType), missed : Nat] /\ sent \in Seq(SentType)
  BY DEF Init, Subscribed
<1>3. DOMAIN dedup \subseteq Keys /\ \A k \in DOMAIN dedup : dedup[k] \in Int
  BY DEF Init
<1>4. conn \in Phases /\ conn # "writing" /\ mono \in Nat /\ skew \in Int
  BY DEF Init, Phases
<1>5. cancelled \in BOOLEAN /\ first \in BOOLEAN /\ gating \in BOOLEAN
  BY GateAssumption, Zenon DEF Init
<1>6. life \in LifeType /\ disk \in LifeType /\ base \in LifeType
      /\ stats \in StatsType /\ published \in StatsType
  BY ZeroTypes DEF Init
<1>7. writing \in WriteType \cup {NoWrite}
  BY DEF Init
<1> QED BY <1>1, <1>2, <1>3, <1>4, <1>5, <1>6, <1>7 DEF TypeOK

LEMMA NextType == TypeOK /\ [Next]_vars => TypeOK'
<1> SUFFICES ASSUME TypeOK, [Next]_vars PROVE TypeOK'
  OBVIOUS
<1> USE DEF clocks, log
<1>t. tally \in [TallyFields -> Nat] BY DEF TypeOK
<1>l. life \in LifeType /\ life \in [LifeFields -> Nat] BY DEF TypeOK, LifeType
<1>s. stats \in StatsType /\ stats \in [StatFields -> Nat] BY DEF TypeOK, StatsType
<1>d. disk \in LifeType BY DEF TypeOK
<1>p. published \in [StatFields -> Nat] BY DEF TypeOK, StatsType
<1>m. mono \in Nat /\ skew \in Int BY DEF TypeOK
<1>1. ASSUME NEW p \in Packets, HearPacket(p) PROVE TypeOK'
  BY <1>1, ItemTypes, OfferedType, SendType DEF HearPacket, Offer, TypeOK
<1>2. CASE OtherTelemetry
  BY <1>2, ItemTypes, OfferedType, SendType DEF OtherTelemetry, Offer, TypeOK
<1>3. CASE SecondPasses
  BY <1>3 DEF SecondPasses, TypeOK
<1>4. CASE ClockStep
  BY <1>4, GateAssumption DEF ClockStep, TypeOK
<1>5. CASE Cancel
  BY <1>5 DEF Cancel, TypeOK
<1>6. CASE Crash
  BY <1>6 DEF Crash, TypeOK, Phases
<1>7. CASE Restart
  <2>1. ASSUME NEW l \in LifeType, NEW n \in Nat, StartFrom(l, n)
        PROVE  life' \in LifeType /\ base' \in LifeType
               /\ tally' \in [TallyFields -> Nat]
    BY <2>1, <1>t, Fields DEF StartFrom
  <2>2. tally["lostDisk"] \in Nat
    BY <1>t, Fields
  <2>3. life' \in LifeType /\ base' \in LifeType /\ tally' \in [TallyFields -> Nat]
    BY <1>7, <1>d, <2>1, <2>2, ZeroTypes DEF Restart, Loaded
  <2>4. /\ rx' \in [items : Seq(ItemType), missed : Nat]
        /\ sent' \in Seq(SentType)
        /\ DOMAIN dedup' \subseteq Keys
        /\ \A k \in DOMAIN dedup' : dedup'[k] \in Int
    BY <1>7 DEF Restart, Subscribed
  <2> QED BY <1>7, <2>3, <2>4, ZeroTypes, GateAssumption
          DEF Restart, TypeOK, Phases
<1>8. CASE Dial
  BY <1>8 DEF Dial, TypeOK, Phases
<1>9. CASE Connected
  <2>1. life' \in LifeType /\ stats' \in StatsType
    BY <1>9, <1>l, <1>s, Fields DEF Connected, LifeType, StatsType
  <2>2. tally' \in [TallyFields -> Nat]
    BY <1>9, <1>t, Fields DEF Connected
  <2> QED BY <1>9, <2>1, <2>2 DEF Connected, TypeOK, Phases
<1>10. CASE LoggedIn
  BY <1>10 DEF LoggedIn, TypeOK, Phases
<1>11. CASE DialFails
  BY <1>11 DEF DialFails, TypeOK, Phases
<1>12. CASE SessionEnds
  BY <1>12 DEF SessionEnds, TypeOK, Phases
<1>13. CASE RecvUngated
  <2>1. life' \in LifeType /\ stats' \in StatsType
    BY <1>13, <1>l, <1>s, CountTypes DEF RecvUngated
  <2>2. tally' \in [TallyFields -> Nat]
    BY <1>13, <1>t, Fields DEF RecvUngated
  <2> QED BY <1>13, <2>1, <2>2, TakeFacts DEF RecvUngated, TakePacket, TypeOK
<1>14. ASSUME TakeForGating PROVE tally' \in [TallyFields -> Nat]
  BY <1>14, <1>t, Fields DEF TakeForGating
<1>15. CASE RecvDropped
  <2>1. droppacket(HeadPkt, HeadAge) \in DropReasons
    BY <1>15, TakeFacts, DroppacketReason, GateAssumption
       DEF RecvDropped, TakeForGating
  <2>2. life' \in LifeType /\ stats' \in StatsType
    BY <1>15, <1>l, <1>s, <2>1, CountTypes DEF RecvDropped
  <2> QED BY <1>14, <1>15, <2>2, TakeFacts
          DEF RecvDropped, TakeForGating, TakePacket, TypeOK
<1>16. CASE RecvDuplicate
  <2>1. life' \in LifeType /\ stats' \in StatsType
    BY <1>16, <1>l, <1>s, CountTypes DEF RecvDuplicate, DropReasons
  <2> QED BY <1>14, <1>16, <2>1, TakeFacts
          DEF RecvDuplicate, TakeForGating, TakePacket, TypeOK
<1>17. CASE RecvRefused
  <2>1. life' \in LifeType /\ stats' \in StatsType
    BY <1>17, <1>l, <1>s, CountTypes DEF RecvRefused, DropReasons, RuleReasons
  <2> QED BY <1>14, <1>17, <2>1, TakeFacts
          DEF RecvRefused, TakeForGating, TakePacket, TypeOK
<1>18. CASE RecvWrite
  <2>1. life' \in LifeType /\ stats' \in StatsType
    BY <1>18, <1>l, <1>s, CountTypes DEF RecvWrite
  <2>2. HeadPkt \in Packets /\ HeadAge \in Int
    BY <1>18, TakeFacts DEF RecvWrite, TakeForGating
  <2>3. writing' \in WriteType
    BY <1>18, <1>m, <2>2 DEF RecvWrite, WriteType, Wall
  <2> QED BY <1>14, <1>18, <2>1, <2>3, TakeFacts
          DEF RecvWrite, TakeForGating, TakePacket, TypeOK, Phases
<1>19. CASE WriteOk
  <2>1. life' \in LifeType /\ stats' \in StatsType
    BY <1>19, <1>l, <1>s, Fields DEF WriteOk, LifeType, StatsType
  <2>2. writing \in WriteType
    BY <1>19 DEF WriteOk, TypeOK
  <2>3. writing.pkt \in Packets /\ writing.pkt.key \in Keys /\ writing.now_ts \in Int
    BY <2>2, GateAssumption DEF WriteType, Packet
  <2>4. /\ DOMAIN dedup' \subseteq Keys
        /\ \A k \in DOMAIN dedup' : dedup'[k] \in Int
    BY <1>19, <2>3 DEF WriteOk, TypeOK, Insert
  <2>5. [pkt |-> writing.pkt, age |-> writing.age, at |-> writing.at,
         done |-> mono] \in SentType
    BY <2>2, <1>m DEF WriteType, SentType
  <2>6. sent' \in Seq(SentType)
    BY <1>19, <2>5 DEF WriteOk, TypeOK
  <2> QED BY <1>19, <2>1, <2>4, <2>6 DEF WriteOk, TypeOK, Phases
<1>20. CASE WriteFails
  <2>1. tally' \in [TallyFields -> Nat]
    BY <1>20, <1>t, Fields DEF WriteFails
  <2> QED BY <1>20, <2>1 DEF WriteFails, TypeOK, Phases
<1>21. CASE RecvTelemetry
  <2>1. tally' \in [TallyFields -> Nat]
    BY <1>21, <1>t, Fields DEF RecvTelemetry
  <2> QED BY <1>21, <2>1, TakenType DEF RecvTelemetry, TypeOK
<1>22. CASE RecvLagged
  <2>1. rx.missed \in Nat /\ rx' \in [items : Seq(ItemType), missed : Nat]
    BY <1>22 DEF RecvLagged, TypeOK, Relag
  <2>2. life' \in LifeType
    BY <1>22, <1>l, <2>1, Fields DEF RecvLagged, LifeType
  <2> QED BY <1>22, <2>1, <2>2 DEF RecvLagged, TypeOK
<1>23. CASE TelemetryTick
  <2>1. disk' \in LifeType /\ tally' \in [TallyFields -> Nat]
    BY <1>23, <1>l, <1>d, OfferedType, Fields DEF TelemetryTick, Persist
  <2>2. /\ DOMAIN dedup' \subseteq Keys
        /\ \A k \in DOMAIN dedup' : dedup'[k] \in Int
    BY <1>23 DEF TelemetryTick, Purged, TypeOK
  <2>3. stats' \in StatsType
    BY <1>23, ZeroTypes DEF TelemetryTick, ResetStats
  <2>4. published' \in StatsType
    BY <1>23, <1>p, <1>s DEF TelemetryTick, StatsType
  <2>5. rx' \in [items : Seq(ItemType), missed : Nat]
    BY <1>23, ItemTypes, SendType DEF TelemetryTick, TypeOK
  <2> QED BY <1>23, <2>1, <2>2, <2>3, <2>4, <2>5 DEF TelemetryTick, TypeOK
<1>24. CASE Stop
  <2>1. disk' \in LifeType /\ tally' \in [TallyFields -> Nat]
    BY <1>24, <1>l, <1>d, <1>t, Fields DEF Stop, Persist
  <2> QED BY <1>24, <2>1 DEF Stop, TypeOK, Phases
<1>25. CASE UNCHANGED vars
  BY <1>25 DEF vars, TypeOK
<1> QED
  BY <1>1, <1>2, <1>3, <1>4, <1>5, <1>6, <1>7, <1>8, <1>9, <1>10, <1>11, <1>12,
     <1>13, <1>15, <1>16, <1>17, <1>18, <1>19, <1>20, <1>21, <1>22, <1>23, <1>24,
     <1>25 DEF Next, World, Task

\* Every variable of the task keeps its type in every behaviour of the model.
THEOREM TypeCorrect == Spec => []TypeOK
<1>1. Init => TypeOK
  BY InitType
<1>2. TypeOK /\ [Next]_vars => TypeOK'
  BY NextType
<1> QED BY <1>1, <1>2, PTL DEF Spec

-----------------------------------------------------------------------------
(***************************************************************************)
(* The ledger.  EveryPacketAccounted is not inductive alone: a save or a   *)
(* drop must not happen while a packet is in flight, so WriteShape says    *)
(* when the task has one.                                                  *)
(***************************************************************************)
WriteShape == conn \notin {"writing", "dead"} => writing.kind # "line"

Ledger == TypeOK /\ DropsAddUp /\ EveryPacketAccounted /\ WriteShape

\* Counting a drop raises the total and the sum of the reasons alike.
LEMMA CountDrop ==
    ASSUME NEW c \in LifeType, NEW r \in DropReasons, NEW d,
           d = [c EXCEPT !["rf"] = @ + 1, !["dropped"] = @ + 1, ![r] = @ + 1]
    PROVE  /\ SumDrops(d) = SumDrops(c) + 1
           /\ d["dropped"] = c["dropped"] + 1
           /\ d["rf"] = c["rf"] + 1
           /\ d["igated"] = c["igated"]
<1> USE DEF LifeType, LifeFields, StatFields, DropReasons, RuleReasons, SumDrops
<1>1. CASE r = "malformed" BY <1>1
<1>2. CASE r = "stale" BY <1>2
<1>3. CASE r = "rfonly" BY <1>3
<1>4. CASE r = "query" BY <1>4
<1>5. CASE r = "thirdparty" BY <1>5
<1>6. CASE r = "sat" BY <1>6
<1>7. CASE r = "duplicate" BY <1>7
<1> QED BY <1>1, <1>2, <1>3, <1>4, <1>5, <1>6, <1>7

LEMMA InitLedger == Init => Ledger
<1> SUFFICES ASSUME Init PROVE Ledger
  OBVIOUS
<1>1. TypeOK
  BY InitType
<1>2. \A f \in LifeFields : life[f] = 0 /\ disk[f] = 0
  BY DEF Init, ZeroLife
<1>3. tally["lost"] = 0 /\ tally["lostDisk"] = 0
  BY Fields DEF Init
<1>4. DropsAddUp
  BY <1>2 DEF DropsAddUp, SumDrops, LifeFields, StatFields, DropReasons, RuleReasons
<1>5. writing.kind # "line"
  BY DEF Init, NoWrite
<1>6. EveryPacketAccounted
  BY <1>2, <1>3, <1>5, Fields DEF EveryPacketAccounted, InFlight
<1> QED BY <1>1, <1>4, <1>5, <1>6 DEF Ledger, WriteShape

\* A step that drops the packet it takes keeps the ledger.
LEMMA DropKeepsLedger ==
    ASSUME Ledger, TypeOK', TakeForGating, NEW r \in DropReasons,
           HeardAndDropped(r), UNCHANGED <<conn, writing>>
    PROVE  Ledger'
<1>1. /\ SumDrops(life') = SumDrops(life) + 1
      /\ life'["dropped"] = life["dropped"] + 1
      /\ life'["rf"] = life["rf"] + 1
      /\ life'["igated"] = life["igated"]
  BY CountDrop DEF Ledger, TypeOK, HeardAndDropped
<1>2. tally'["lost"] = tally["lost"] /\ tally'["lostDisk"] = tally["lostDisk"]
  BY Fields DEF TakeForGating, Ledger, TypeOK
<1>3. disk' = disk
  BY DEF TakeForGating, TakePacket
<1>4. life["rf"] \in Nat /\ life["igated"] \in Nat /\ life["dropped"] \in Nat
      /\ tally["lost"] \in Nat
  BY Fields DEF Ledger, TypeOK, LifeType
<1>5. DropsAddUp'
  BY <1>1, <1>3 DEF Ledger, DropsAddUp, SumDrops
<1>6. InFlight' = InFlight /\ InFlight \in Nat
  BY DEF InFlight
<1>7. EveryPacketAccounted'
  BY <1>1, <1>2, <1>3, <1>4, <1>6 DEF Ledger, EveryPacketAccounted
<1> QED BY <1>5, <1>7 DEF Ledger, WriteShape

\* A step that leaves the counters and the packet in flight alone.
LEMMA SameLedger ==
    ASSUME Ledger, TypeOK', UNCHANGED <<life, disk, writing>>,
           tally'["lost"] = tally["lost"], tally'["lostDisk"] = tally["lostDisk"],
           conn' \in {"writing", "dead"} \/ writing.kind # "line"
    PROVE  Ledger'
BY DEF Ledger, DropsAddUp, SumDrops, EveryPacketAccounted, InFlight, WriteShape

\* persist_aprsis_lifetime with no packet in flight: the ledger on disk is the one
\* in memory, or the one it was.
LEMMA PersistKeepsLedger ==
    ASSUME Ledger, TypeOK', NEW t \in [TallyFields -> Nat], Persist(t),
           t["lost"] = tally["lost"], t["lostDisk"] = tally["lostDisk"],
           UNCHANGED <<life, writing>>, writing.kind # "line"
    PROVE  Ledger'
<1>1. CASE disk' = life /\ tally' = [t EXCEPT !["lostDisk"] = t["lost"]]
  <2>1. tally'["lost"] = tally["lost"] /\ tally'["lostDisk"] = tally["lost"]
    BY <1>1, Fields
  <2>2. life["rf"] \in Nat /\ life["igated"] \in Nat /\ life["dropped"] \in Nat
        /\ tally["lost"] \in Nat
    BY Fields DEF Ledger, TypeOK, LifeType
  <2> QED BY <1>1, <2>1, <2>2
      DEF Ledger, DropsAddUp, SumDrops, EveryPacketAccounted, InFlight, WriteShape
<1>2. CASE disk' = disk /\ tally' = t
  BY <1>2 DEF Ledger, DropsAddUp, SumDrops, EveryPacketAccounted, InFlight, WriteShape
<1> QED BY <1>1, <1>2 DEF Persist

LEMMA NextLedger == Ledger /\ [Next]_vars => Ledger'
<1> SUFFICES ASSUME Ledger, [Next]_vars PROVE Ledger'
  OBVIOUS
<1> USE DEF clocks, log
<1>a. TypeOK /\ TypeOK'
  BY NextType DEF Ledger
<1>t. tally \in [TallyFields -> Nat]
  BY <1>a DEF TypeOK
<1>l. life \in LifeType /\ disk \in LifeType
  BY <1>a DEF TypeOK
<1>n. /\ life["rf"] \in Nat /\ life["igated"] \in Nat /\ life["dropped"] \in Nat
      /\ tally["lost"] \in Nat
  BY <1>l, <1>t, Fields DEF LifeType
<1>w. conn \notin {"writing", "dead"} => writing.kind # "line"
  BY DEF Ledger, WriteShape
<1>o. /\ Offered(tally)["lost"] = tally["lost"]
      /\ Offered(tally)["lostDisk"] = tally["lostDisk"]
  BY <1>t, Fields DEF Offered
<1>1. ASSUME NEW p \in Packets, HearPacket(p) PROVE Ledger'
  BY <1>1, <1>a, <1>w, <1>o, SameLedger DEF HearPacket, Offer
<1>2. CASE OtherTelemetry
  BY <1>2, <1>a, <1>w, <1>o, SameLedger DEF OtherTelemetry, Offer
<1>3. CASE SecondPasses
  BY <1>3, <1>a, <1>w, SameLedger DEF SecondPasses
<1>4. CASE ClockStep
  BY <1>4, <1>a, <1>w, SameLedger DEF ClockStep
<1>5. CASE Cancel
  BY <1>5, <1>a, <1>w, SameLedger DEF Cancel
<1>6. CASE Crash
  BY <1>6, <1>a, SameLedger DEF Crash
<1>7. CASE Restart
  <2>1. writing' = NoWrite /\ disk' = disk
    BY <1>7 DEF Restart
  <2>2. ASSUME NEW l, NEW n \in Nat, StartFrom(l, n),
               l["dropped"] = SumDrops(l), l["dropped"] \in Nat, l["igated"] \in Nat,
               l["rf"] = l["igated"] + l["dropped"] + n
        PROVE  Ledger'
    <3>1. tally'["lost"] = n /\ tally'["lostDisk"] = tally["lostDisk"] /\ life' = l
      BY <2>2, <1>t, Fields DEF StartFrom
    <3>2. InFlight' = 0
      BY <2>1 DEF InFlight, NoWrite
    <3>3. DropsAddUp'
      BY <2>1, <2>2, <3>1 DEF Ledger, DropsAddUp, SumDrops
    <3>4. EveryPacketAccounted'
      BY <2>1, <2>2, <3>1, <3>2 DEF Ledger, EveryPacketAccounted
    <3> QED BY <1>a, <2>1, <3>3, <3>4 DEF Ledger, WriteShape, NoWrite
  <2>3. CASE StartFrom(Loaded, tally["lostDisk"])
    <3>1. tally["lostDisk"] \in Nat /\ disk["dropped"] \in Nat /\ disk["igated"] \in Nat
      BY <1>t, <1>l, Fields DEF LifeType
    <3> QED BY <2>2, <2>3, <3>1
        DEF Loaded, Ledger, DropsAddUp, EveryPacketAccounted
  <2>4. CASE StartFrom(ZeroLife, 0)
    <3>1. \A f \in LifeFields : ZeroLife[f] = 0
      BY DEF ZeroLife
    <3>2. ZeroLife["dropped"] = SumDrops(ZeroLife)
      BY <3>1 DEF SumDrops, LifeFields, StatFields, DropReasons, RuleReasons
    <3> QED BY <2>2, <2>4, <3>1, <3>2, Fields
  <2> QED BY <1>7, <2>3, <2>4 DEF Restart
<1>8. CASE Dial
  BY <1>8, <1>a, <1>w, SameLedger DEF Dial
<1>9. CASE Connected
  <2>1. /\ SumDrops(life') = SumDrops(life)
        /\ life'["dropped"] = life["dropped"]
        /\ life'["rf"] = life["rf"]
        /\ life'["igated"] = life["igated"]
    BY <1>9, <1>l DEF Connected, LifeType, LifeFields, StatFields, DropReasons,
     RuleReasons, SumDrops
  <2>2. tally'["lost"] = tally["lost"] /\ tally'["lostDisk"] = tally["lostDisk"]
    BY <1>9, <1>t, Fields DEF Connected
  <2> QED BY <1>9, <1>a, <1>n, <1>w, <2>1, <2>2
      DEF Connected, Ledger, DropsAddUp, SumDrops, EveryPacketAccounted, InFlight,
          WriteShape
<1>10. CASE LoggedIn
  BY <1>10, <1>a, <1>w, SameLedger DEF LoggedIn
<1>11. CASE DialFails
  BY <1>11, <1>a, <1>w, SameLedger DEF DialFails
<1>12. CASE SessionEnds
  BY <1>12, <1>a, <1>w, SameLedger DEF SessionEnds
<1>13. ASSUME life' = Heard(life)
       PROVE  /\ SumDrops(life') = SumDrops(life)
              /\ life'["dropped"] = life["dropped"]
              /\ life'["rf"] = life["rf"] + 1
              /\ life'["igated"] = life["igated"]
  BY <1>13, <1>l DEF Heard, LifeType, LifeFields, StatFields, DropReasons,
     RuleReasons, SumDrops
<1>14. CASE RecvUngated
  <2>1. /\ tally'["lost"] = tally["lost"] + 1
        /\ tally'["lostDisk"] = tally["lostDisk"]
    BY <1>14, <1>t, Fields DEF RecvUngated
  <2>2. disk' = disk /\ writing' = writing /\ conn' = conn
    BY <1>14 DEF RecvUngated, TakePacket
  <2>3. DropsAddUp'
    BY <1>14, <1>13, <2>2 DEF RecvUngated, Ledger, DropsAddUp, SumDrops
  <2>4. InFlight' = InFlight /\ InFlight \in Nat
    BY <2>2 DEF InFlight
  <2>5. EveryPacketAccounted'
    BY <1>14, <1>13, <1>n, <2>1, <2>2, <2>4
       DEF RecvUngated, Ledger, EveryPacketAccounted
  <2> QED BY <1>a, <2>2, <2>3, <2>5 DEF Ledger, WriteShape
<1>15. CASE RecvDropped
  <2>1. TakePacket /\ HeadPkt \in Packet /\ HeadAge \in Int
    BY <1>15, <1>a, TakeFacts, GateAssumption DEF RecvDropped, TakeForGating
  <2>2. droppacket(HeadPkt, HeadAge) \in DropReasons
    BY <1>15, <2>1, DroppacketReason DEF RecvDropped
  <2> QED BY <1>15, <1>a, <2>2, DropKeepsLedger DEF RecvDropped
<1>16. CASE RecvDuplicate
  BY <1>16, <1>a, DropKeepsLedger DEF RecvDuplicate, DropReasons
<1>17. CASE RecvRefused
  BY <1>17, <1>a, DropKeepsLedger DEF RecvRefused, DropReasons, RuleReasons
<1>18. CASE RecvWrite
  <2>1. /\ tally'["lost"] = tally["lost"]
        /\ tally'["lostDisk"] = tally["lostDisk"]
    BY <1>18, <1>t, Fields DEF RecvWrite, TakeForGating
  <2>2. /\ disk' = disk /\ conn = "up" /\ conn' = "writing"
        /\ writing'.kind = "line" /\ life' = Heard(life)
    BY <1>18 DEF RecvWrite, TakeForGating, TakePacket
  <2>3. InFlight = 0 /\ InFlight' = 1
    BY <1>w, <2>2 DEF InFlight
  <2>4. DropsAddUp'
    BY <1>13, <2>2 DEF Ledger, DropsAddUp, SumDrops
  <2>5. EveryPacketAccounted'
    BY <1>13, <1>n, <2>1, <2>2, <2>3 DEF Ledger, EveryPacketAccounted
  <2> QED BY <1>a, <2>2, <2>4, <2>5 DEF Ledger, WriteShape
<1>19. ASSUME conn = "writing" PROVE writing.kind = "line"
  BY <1>19, <1>a DEF TypeOK, WriteType
<1>20. CASE WriteOk
  <2>1. /\ SumDrops(life') = SumDrops(life)
        /\ life'["dropped"] = life["dropped"]
        /\ life'["rf"] = life["rf"]
        /\ life'["igated"] = life["igated"] + 1
    BY <1>20, <1>l DEF WriteOk, LifeType, LifeFields, StatFields, DropReasons,
     RuleReasons, SumDrops
  <2>2. InFlight = 1 /\ InFlight' = 0 /\ writing'.kind # "line"
    BY <1>20, <1>19 DEF WriteOk, InFlight, NoWrite
  <2>3. disk' = disk /\ tally' = tally
    BY <1>20 DEF WriteOk
  <2>4. DropsAddUp'
    BY <2>1, <2>3 DEF Ledger, DropsAddUp, SumDrops
  <2>5. EveryPacketAccounted'
    BY <1>n, <2>1, <2>2, <2>3 DEF Ledger, EveryPacketAccounted
  <2> QED BY <1>a, <2>2, <2>4, <2>5 DEF Ledger, WriteShape
<1>21. CASE WriteFails
  <2>1. /\ tally'["lost"] = tally["lost"] + 1
        /\ tally'["lostDisk"] = tally["lostDisk"]
    BY <1>21, <1>t, Fields DEF WriteFails
  <2>2. InFlight = 1 /\ InFlight' = 0 /\ writing'.kind # "line"
    BY <1>21, <1>19 DEF WriteFails, InFlight, NoWrite
  <2>3. disk' = disk /\ life' = life
    BY <1>21 DEF WriteFails
  <2>4. DropsAddUp'
    BY <2>3 DEF Ledger, DropsAddUp, SumDrops
  <2>5. EveryPacketAccounted'
    BY <1>n, <2>1, <2>2, <2>3 DEF Ledger, EveryPacketAccounted
  <2> QED BY <1>a, <2>2, <2>4, <2>5 DEF Ledger, WriteShape
<1>22. CASE RecvTelemetry
  <2>1. tally'["lost"] = tally["lost"] /\ tally'["lostDisk"] = tally["lostDisk"]
    BY <1>22, <1>t, Fields DEF RecvTelemetry
  <2> QED BY <1>22, <1>a, <1>w, <2>1, SameLedger DEF RecvTelemetry
<1>23. CASE RecvLagged
  <2>1. rx.missed \in Nat
    BY <1>a DEF TypeOK
  <2>2. /\ SumDrops(life') = SumDrops(life)
        /\ life'["dropped"] = life["dropped"]
        /\ life'["rf"] = life["rf"]
        /\ life'["igated"] = life["igated"]
    BY <1>23, <1>l, <2>1 DEF RecvLagged, LifeType, LifeFields, StatFields, DropReasons,
     RuleReasons, SumDrops
  <2>3. UNCHANGED <<disk, tally, writing, conn>>
    BY <1>23 DEF RecvLagged
  <2> QED BY <1>a, <2>2, <2>3
      DEF Ledger, DropsAddUp, SumDrops, EveryPacketAccounted, InFlight, WriteShape
<1>24. CASE TelemetryTick
  <2>1. Offered(tally) \in [TallyFields -> Nat]
    BY <1>a, OfferedType
  <2> QED BY <1>24, <1>a, <1>w, <1>o, <2>1, PersistKeepsLedger DEF TelemetryTick
<1>25. CASE Stop
  BY <1>25, <1>a, <1>t, <1>w, PersistKeepsLedger DEF Stop
<1>26. CASE UNCHANGED vars
  BY <1>26, <1>a
     DEF vars, Ledger, DropsAddUp, SumDrops, EveryPacketAccounted, InFlight, WriteShape
<1> QED
  BY <1>1, <1>2, <1>3, <1>4, <1>5, <1>6, <1>7, <1>8, <1>9, <1>10, <1>11, <1>12,
     <1>14, <1>15, <1>16, <1>17, <1>18, <1>20, <1>21, <1>22, <1>23, <1>24, <1>25,
     <1>26 DEF Next, World, Task

\* In memory and on disk the per-reason drop counters of the APRS-IS task always
\* add up to its total of dropped packets.
THEOREM DropLedgerBalances == Spec => []DropsAddUp
<1>1. Ledger => DropsAddUp
  BY DEF Ledger
<1> QED BY <1>1, InitLedger, NextLedger, PTL DEF Spec

\* Every packet the task ever counted as heard was gated, dropped for a counted
\* reason, lost to a failed write or deliberately not gated.
THEOREM NoPacketUnaccounted == Spec => []EveryPacketAccounted
<1>1. Ledger => EveryPacketAccounted
  BY DEF Ledger
<1> QED BY <1>1, InitLedger, NextLedger, PTL DEF Spec

-----------------------------------------------------------------------------
(***************************************************************************)
(* Duplicate suppression, while the wall clock is not stepped.  The cache  *)
(* must remember every line sent within the TTL, at a time no earlier than *)
(* it was sent (Remembers), through purges and through writes that take    *)
(* time: the line being written is already known to be no duplicate of a   *)
(* line sent (WriteIsFresh).                                               *)
(***************************************************************************)
Steady == skew = 0

NotFromTheFuture ==
    /\ \A i \in DOMAIN sent : sent[i].at <= mono
    /\ conn = "writing" => writing.at <= mono

Remembers ==
    \A i \in DOMAIN sent :
        mono - sent[i].at < TTL => /\ sent[i].pkt.key \in DOMAIN dedup
                                   /\ dedup[sent[i].pkt.key] >= sent[i].at

WriteIsFresh ==
    conn = "writing" =>
        /\ writing.now_ts = writing.at
        /\ \A i \in DOMAIN sent : sent[i].pkt.key = writing.pkt.key
                                  => writing.at - sent[i].at >= TTL

DedupInv == TypeOK /\ Steady /\ NotFromTheFuture /\ Remembers /\ WriteIsFresh
            /\ NoDuplicateGated

LEMMA InitDedup == Init => DedupInv
<1> SUFFICES ASSUME Init PROVE DedupInv
  OBVIOUS
<1>1. TypeOK
  BY InitType
<1>2. DOMAIN sent = {} /\ conn # "writing" /\ skew = 0
  BY DEF Init
<1> QED BY <1>1, <1>2 DEF DedupInv, Steady, NotFromTheFuture, Remembers,
                          WriteIsFresh, NoDuplicateGated

\* A step that does not touch the cache, the list of lines sent or the clock.
LEMMA SameDedup ==
    ASSUME DedupInv, TypeOK', UNCHANGED <<sent, dedup, mono, skew>>,
           conn' # "writing" \/ UNCHANGED <<conn, writing>>
    PROVE  DedupInv'
BY DEF DedupInv, Steady, NotFromTheFuture, Remembers, WriteIsFresh, NoDuplicateGated

\* The times involved are integers.
LEMMA Times ==
    ASSUME TypeOK
    PROVE  /\ mono \in Nat
           /\ \A i \in DOMAIN sent : sent[i].at \in Nat
           /\ conn = "writing" => writing.at \in Nat
           /\ \A k \in DOMAIN dedup : dedup[k] \in Int
<1>1. \A i \in DOMAIN sent : sent[i] \in SentType
  BY DEF TypeOK
<1> QED BY <1>1 DEF TypeOK, SentType, WriteType

LEMMA NextDedup ==
    ASSUME Skews \subseteq {0}
    PROVE  DedupInv /\ [Next]_vars => DedupInv'
<1> SUFFICES ASSUME DedupInv, [Next]_vars PROVE DedupInv'
  OBVIOUS
<1> USE DEF clocks, log
<1>a. TypeOK /\ TypeOK'
  BY NextType DEF DedupInv
<1>t. TTL \in Nat
  BY GateAssumption
<1>1. ASSUME NEW p \in Packets, HearPacket(p) PROVE DedupInv'
  BY <1>1, <1>a, SameDedup DEF HearPacket, Offer
<1>2. CASE OtherTelemetry
  BY <1>2, <1>a, SameDedup DEF OtherTelemetry, Offer
<1>3. CASE SecondPasses
  <2>1. mono' = mono + 1 /\ UNCHANGED <<sent, dedup, skew, conn, writing>>
    BY <1>3 DEF SecondPasses
  <2>2. NotFromTheFuture' /\ Remembers'
    BY <1>a, <1>t, <2>1, Times DEF DedupInv, NotFromTheFuture, Remembers
  <2> QED BY <1>a, <2>1, <2>2 DEF DedupInv, Steady, WriteIsFresh, NoDuplicateGated
<1>4. CASE ClockStep
  BY <1>4 DEF ClockStep, DedupInv, Steady
<1>5. CASE Cancel
  BY <1>5, <1>a, SameDedup DEF Cancel
<1>6. CASE Crash
  BY <1>6, <1>a, SameDedup DEF Crash
<1>7. CASE Restart
  <2>1. DOMAIN sent' = {} /\ conn' = "down" /\ skew' = skew
    BY <1>7 DEF Restart
  <2> QED BY <1>a, <2>1 DEF DedupInv, Steady, NotFromTheFuture, Remembers,
                            WriteIsFresh, NoDuplicateGated
<1>8. CASE Dial
  BY <1>8, <1>a, SameDedup DEF Dial
<1>9. CASE Connected
  BY <1>9, <1>a, SameDedup DEF Connected
<1>10. CASE LoggedIn
  BY <1>10, <1>a, SameDedup DEF LoggedIn
<1>11. CASE DialFails
  BY <1>11, <1>a, SameDedup DEF DialFails
<1>12. CASE SessionEnds
  BY <1>12, <1>a, SameDedup DEF SessionEnds
<1>13. CASE RecvUngated
  BY <1>13, <1>a, SameDedup DEF RecvUngated, TakePacket
<1>14. CASE RecvDropped
  BY <1>14, <1>a, SameDedup DEF RecvDropped, TakeForGating, TakePacket
<1>15. CASE RecvDuplicate
  BY <1>15, <1>a, SameDedup DEF RecvDuplicate, TakeForGating, TakePacket
<1>16. CASE RecvRefused
  BY <1>16, <1>a, SameDedup DEF RecvRefused, TakeForGating, TakePacket
<1>17. CASE RecvWrite
  <2>1. /\ UNCHANGED <<sent, dedup, mono, skew>>
        /\ writing'.at = mono /\ writing'.now_ts = mono + skew
        /\ writing'.pkt = HeadPkt
        /\ ~IsDuplicate(HeadPkt.key)
    BY <1>17 DEF RecvWrite, TakeForGating, TakePacket, Wall
  <2>2. skew = 0
    BY DEF DedupInv, Steady
  <2>3. ASSUME NEW i \in DOMAIN sent, sent[i].pkt.key = HeadPkt.key
        PROVE  mono - sent[i].at >= TTL
    <3>1. SUFFICES ASSUME mono - sent[i].at < TTL PROVE FALSE
      BY <1>a, <1>t, Times
    <3>2. HeadPkt.key \in DOMAIN dedup /\ dedup[HeadPkt.key] >= sent[i].at
      BY <2>3, <3>1 DEF DedupInv, Remembers
    <3> QED BY <1>a, <1>t, <2>1, <2>2, <3>1, <3>2, Times DEF IsDuplicate, Wall
  <2>4. WriteIsFresh'
    BY <1>a, <2>1, <2>2, <2>3, Times DEF WriteIsFresh
  <2>5. NotFromTheFuture'
    BY <1>a, <2>1, Times DEF DedupInv, NotFromTheFuture
  <2> QED BY <1>a, <2>1, <2>4, <2>5 DEF DedupInv, Steady, Remembers, NoDuplicateGated
<1>18. CASE WriteOk
  <2> DEFINE n == Len(sent) + 1
             k == writing.pkt.key
  <2>1. /\ conn = "writing" /\ conn' = "up" /\ UNCHANGED <<mono, skew>>
        /\ dedup' = Insert(dedup, k, writing.now_ts)
    BY <1>18 DEF WriteOk
  <2>2. sent \in Seq(SentType)
    BY <1>a DEF TypeOK
  <2>3. /\ DOMAIN sent = 1 .. Len(sent) /\ Len(sent) \in Nat
        /\ DOMAIN sent' = 1 .. n
        /\ \A i \in DOMAIN sent : sent'[i] = sent[i]
        /\ sent'[n].pkt = writing.pkt /\ sent'[n].at = writing.at
    BY <1>18, <2>2 DEF WriteOk
  <2>4. \A i \in DOMAIN sent' : i \in DOMAIN sent \/ i = n
    BY <2>3
  <2>5. NotFromTheFuture'
    BY <2>1, <2>3, <2>4 DEF DedupInv, NotFromTheFuture
  <2>6. writing.now_ts = writing.at
        /\ \A i \in DOMAIN sent : sent[i].pkt.key = k => writing.at - sent[i].at >= TTL
    BY <2>1 DEF DedupInv, WriteIsFresh
  <2>7. /\ k \in DOMAIN dedup' /\ dedup'[k] = writing.at
        /\ \A x \in DOMAIN dedup : x # k => x \in DOMAIN dedup' /\ dedup'[x] = dedup[x]
    BY <2>1, <2>6 DEF Insert
  <2>8. Remembers'
    <3> SUFFICES ASSUME NEW i \in DOMAIN sent', mono - sent'[i].at < TTL
                 PROVE  /\ sent'[i].pkt.key \in DOMAIN dedup'
                        /\ dedup'[sent'[i].pkt.key] >= sent'[i].at
      BY <2>1 DEF Remembers
    <3>1. CASE i = n
      BY <1>a, <2>1, <2>3, <2>7, <3>1, Times
    <3>2. CASE i \in DOMAIN sent /\ sent[i].pkt.key = k
      BY <1>a, <1>t, <2>1, <2>3, <2>6, <2>7, <3>2, Times
    <3>3. CASE i \in DOMAIN sent /\ sent[i].pkt.key # k
      BY <1>a, <2>1, <2>3, <2>7, <3>3 DEF DedupInv, Remembers
    <3> QED BY <2>4, <3>1, <3>2, <3>3
  <2>9. NoDuplicateGated'
    <3> SUFFICES ASSUME NEW i \in DOMAIN sent', NEW j \in DOMAIN sent', i < j,
                        sent'[i].pkt.key = sent'[j].pkt.key
                 PROVE  sent'[j].at - sent'[i].at >= TTL
      BY DEF NoDuplicateGated
    <3>1. i \in DOMAIN sent
      BY <2>3
    <3>2. CASE j = n
      BY <2>3, <2>6, <3>1, <3>2
    <3>3. CASE j \in DOMAIN sent
      BY <2>3, <3>1, <3>3 DEF DedupInv, NoDuplicateGated
    <3> QED BY <2>4, <3>2, <3>3
  <2> QED BY <1>a, <2>1, <2>5, <2>8, <2>9 DEF DedupInv, Steady, WriteIsFresh
<1>19. CASE WriteFails
  BY <1>19, <1>a, SameDedup DEF WriteFails
<1>20. CASE RecvTelemetry
  BY <1>20, <1>a, SameDedup DEF RecvTelemetry
<1>21. CASE RecvLagged
  BY <1>21, <1>a, SameDedup DEF RecvLagged
<1>22. CASE TelemetryTick
  <2>1. UNCHANGED <<conn, sent, mono, skew, writing>> /\ conn = "up" /\ dedup' = Purged
    BY <1>22 DEF TelemetryTick
  <2>2. skew = 0
    BY DEF DedupInv, Steady
  <2>3. ASSUME NEW i \in DOMAIN sent, mono - sent[i].at < TTL
        PROVE  /\ sent[i].pkt.key \in DOMAIN Purged
               /\ Purged[sent[i].pkt.key] >= sent[i].at
    <3>1. sent[i].pkt.key \in DOMAIN dedup /\ dedup[sent[i].pkt.key] >= sent[i].at
      BY <2>3 DEF DedupInv, Remembers
    <3>2. Wall - dedup[sent[i].pkt.key] < TTL
      BY <1>a, <1>t, <2>2, <2>3, <3>1, Times DEF Wall
    <3> QED BY <3>1, <3>2 DEF Purged
  <2>4. Remembers'
    BY <2>1, <2>3 DEF Remembers
  <2> QED BY <1>a, <2>1, <2>4
      DEF DedupInv, Steady, NotFromTheFuture, WriteIsFresh, NoDuplicateGated
<1>23. CASE Stop
  BY <1>23, <1>a, SameDedup DEF Stop
<1>24. CASE UNCHANGED vars
  BY <1>24, <1>a, SameDedup DEF vars
<1> QED
  BY <1>1, <1>2, <1>3, <1>4, <1>5, <1>6, <1>7, <1>8, <1>9, <1>10, <1>11, <1>12,
     <1>13, <1>14, <1>15, <1>16, <1>17, <1>18, <1>19, <1>20, <1>21, <1>22, <1>23,
     <1>24 DEF Next, World, Task

\* While the wall clock is not stepped, one run of the process never gates the
\* same source and info twice within the TTL: the cache, its purge on the telemetry
\* tick and the timestamp taken before the write are together sufficient.
THEOREM SuppressionWorks ==
    ASSUME Skews \subseteq {0}
    PROVE  Spec => []NoDuplicateGated
<1>1. Init => DedupInv
  BY InitDedup
<1>2. DedupInv /\ [Next]_vars => DedupInv'
  BY NextDedup
<1>3. DedupInv => NoDuplicateGated
  BY DEF DedupInv
<1> QED BY <1>1, <1>2, <1>3, PTL DEF Spec

-----------------------------------------------------------------------------
(***************************************************************************)
(* What a step does to the counters, whichever action it is.               *)
(***************************************************************************)
counters == <<life, stats, disk, base, published>>

\* The step leaves the counters alone and neither ends nor starts a run.
NoCount ==
    /\ UNCHANGED counters
    /\ \/ Running /\ Running'
       \/ UNCHANGED conn

\* Something is counted: each lifetime counter grows by what its interval counter
\* grows by.
Counts ==
    /\ UNCHANGED <<disk, base, published>>
    /\ Running /\ Running'
    /\ \A f \in StatFields : life'[f] - life[f] = stats'[f] - stats[f]
    /\ \A f \in LifeFields : life'[f] >= life[f]

\* The outcome of a save.
SaveOutcome == disk' = life \/ (SaveFails /\ disk' = disk)

\* The telemetry tick.
Publishes ==
    /\ UNCHANGED <<life, base, conn>>
    /\ Running
    /\ stats' = ZeroStats
    /\ published' = [f \in StatFields |-> published[f] + stats[f]]
    /\ SaveOutcome

Flushes ==
    /\ UNCHANGED <<life, stats, base, published>>
    /\ Running /\ conn' = "ended"
    /\ SaveOutcome

Dies == UNCHANGED counters /\ Running /\ conn' = "dead"

Starts ==
    /\ ~Running /\ conn' = "down"
    /\ stats' = ZeroStats /\ published' = ZeroStats
    /\ base' = life' /\ disk' = disk
    /\ life' = disk \/ (LoadFails /\ life' = ZeroLife)

\* A packet that is heard, and dropped, counts on both sides.
LEMMA HeardCounts ==
    ASSUME TypeOK,
           \/ life' = Heard(life) /\ stats' = Heard(stats)
           \/ \E r \in DropReasons : HeardAndDropped(r)
    PROVE  /\ \A f \in StatFields : life'[f] - life[f] = stats'[f] - stats[f]
           /\ \A f \in LifeFields : life'[f] >= life[f]
<1>1. life \in [LifeFields -> Nat] /\ stats \in [StatFields -> Nat]
  BY DEF TypeOK, LifeType, StatsType
<1>2. CASE life' = Heard(life) /\ stats' = Heard(stats)
  BY <1>1, <1>2, Fields DEF Heard, LifeFields
<1>3. ASSUME NEW r \in DropReasons, HeardAndDropped(r)
      PROVE  /\ \A f \in StatFields : life'[f] - life[f] = stats'[f] - stats[f]
             /\ \A f \in LifeFields : life'[f] >= life[f]
  <2>1. r \notin StatFields
    BY DEF StatFields, DropReasons, RuleReasons
  <2> QED BY <1>1, <1>3, <2>1, Fields DEF HeardAndDropped, LifeFields
<1> QED BY <1>2, <1>3

\* Every step is one of these.
LEMMA CounterStep ==
    ASSUME TypeOK, [Next]_vars
    PROVE  NoCount \/ Counts \/ Publishes \/ Flushes \/ Dies \/ Starts
<1> USE DEF clocks, log, counters, Running
<1>l. life \in [LifeFields -> Nat] /\ stats \in [StatFields -> Nat]
  BY DEF TypeOK, LifeType, StatsType
<1>1. ASSUME NEW p \in Packets, HearPacket(p) PROVE NoCount
  BY <1>1 DEF HearPacket, Offer, NoCount
<1>2. CASE OtherTelemetry
  BY <1>2 DEF OtherTelemetry, Offer, NoCount
<1>3. CASE SecondPasses \/ ClockStep \/ Cancel
  BY <1>3 DEF SecondPasses, ClockStep, Cancel, NoCount
<1>4. CASE Crash
  BY <1>4 DEF Crash, Dies
<1>5. CASE Restart
  BY <1>5 DEF Restart, StartFrom, Loaded, Starts
<1>6. CASE Dial \/ LoggedIn \/ DialFails \/ SessionEnds \/ WriteFails \/ RecvTelemetry
  BY <1>6 DEF Dial, LoggedIn, DialFails, SessionEnds, WriteFails, RecvTelemetry, NoCount
<1>7. CASE Connected
  <2>1. CASE first
    BY <1>7, <2>1 DEF Connected, NoCount
  <2>2. CASE ~first
    BY <1>7, <2>2, <1>l, Fields DEF Connected, Counts, LifeFields
  <2> QED BY <2>1, <2>2
<1>8. CASE RecvUngated
  BY <1>8, HeardCounts DEF RecvUngated, TakePacket, Counts
<1>9. CASE RecvDropped
  <2>1. droppacket(HeadPkt, HeadAge) \in DropReasons
    BY <1>9, TakeFacts, DroppacketReason, GateAssumption
       DEF RecvDropped, TakeForGating
  <2> QED BY <1>9, <2>1, HeardCounts DEF RecvDropped, TakeForGating, TakePacket, Counts
<1>10. CASE RecvDuplicate
  BY <1>10, HeardCounts
     DEF RecvDuplicate, TakeForGating, TakePacket, Counts, DropReasons
<1>11. CASE RecvRefused
  BY <1>11, HeardCounts
     DEF RecvRefused, TakeForGating, TakePacket, Counts, DropReasons, RuleReasons
<1>12. CASE RecvWrite
  BY <1>12, HeardCounts DEF RecvWrite, TakeForGating, TakePacket, Counts
<1>13. CASE WriteOk
  BY <1>13, <1>l, Fields DEF WriteOk, Counts, LifeFields
<1>14. CASE RecvLagged
  <2>1. rx.missed \in Nat /\ "lagged" \notin StatFields
    BY DEF TypeOK, StatFields
  <2> QED BY <1>14, <1>l, <2>1, Fields DEF RecvLagged, Counts, LifeFields
<1>15. CASE TelemetryTick
  BY <1>15 DEF TelemetryTick, ResetStats, Persist, Publishes, SaveOutcome
<1>16. CASE Stop
  BY <1>16 DEF Stop, Persist, Flushes, SaveOutcome
<1>17. CASE UNCHANGED vars
  BY <1>17 DEF vars, NoCount
<1> QED
  BY <1>1, <1>2, <1>3, <1>4, <1>5, <1>6, <1>7, <1>8, <1>9, <1>10, <1>11, <1>12,
     <1>13, <1>14, <1>15, <1>16, <1>17 DEF Next, World, Task

\* The counters of every field are numbers, before and after a step.
LEMMA CounterTypes ==
    ASSUME TypeOK
    PROVE  /\ \A f \in LifeFields : life[f] \in Nat /\ disk[f] \in Nat /\ base[f] \in Nat
           /\ \A f \in StatFields : /\ f \in LifeFields
                                    /\ stats[f] \in Nat /\ published[f] \in Nat
                                    /\ ZeroStats[f] = 0
BY DEF TypeOK, LifeType, StatsType, LifeFields, ZeroStats

-----------------------------------------------------------------------------
(* The charts and the totals.                                              *)

\* What the telemetry ticks published, plus the interval under way, is always what
\* the lifetime counters gained in this run of the process.
THEOREM ChartsMatchTotals == Spec => []PublishedAddsUp
<1>1. Init => PublishedAddsUp
  BY CounterTypes, InitType DEF Init, PublishedAddsUp, ZeroLife, ZeroStats, LifeFields
<1>2. TypeOK /\ TypeOK' /\ PublishedAddsUp /\ [Next]_vars => PublishedAddsUp'
  <2> SUFFICES ASSUME TypeOK, TypeOK', PublishedAddsUp, [Next]_vars,
                      NEW f \in StatFields
               PROVE  life'[f] = base'[f] + published'[f] + stats'[f]
    BY DEF PublishedAddsUp
  <2>1. /\ life[f] = base[f] + published[f] + stats[f]
        /\ life[f] \in Nat /\ base[f] \in Nat /\ published[f] \in Nat /\ stats[f] \in Nat
        /\ ZeroStats[f] = 0
    BY CounterTypes DEF PublishedAddsUp
  <2>2. life'[f] \in Nat /\ stats'[f] \in Nat
    BY DEF TypeOK, LifeType, StatsType, LifeFields
  <2>3. CASE NoCount \/ Flushes \/ Dies
    BY <2>1, <2>3 DEF NoCount, Flushes, Dies, counters
  <2>4. CASE Counts
    BY <2>1, <2>2, <2>4 DEF Counts
  <2>5. CASE Publishes
    BY <2>1, <2>5 DEF Publishes
  <2>6. CASE Starts
    BY <2>1, <2>2, <2>6 DEF Starts
  <2> QED BY <2>3, <2>4, <2>5, <2>6, CounterStep
<1> QED BY <1>1, <1>2, TypeCorrect, PTL DEF Spec

\* If the store does not fail, a crash loses exactly the interval under way: of each
\* counter, memory is ahead of the store by the interval counter.
THEOREM CrashLosesInterval ==
    ASSUME ~SaveFails, ~LoadFails
    PROVE  Spec => []CrashLosesOneInterval
<1>1. Init => CrashLosesOneInterval
  BY CounterTypes, InitType
     DEF Init, CrashLosesOneInterval, ZeroLife, ZeroStats, LifeFields
<1>2. TypeOK /\ TypeOK' /\ CrashLosesOneInterval /\ [Next]_vars
      => CrashLosesOneInterval'
  <2> SUFFICES ASSUME TypeOK, TypeOK', CrashLosesOneInterval, [Next]_vars,
                      conn' # "ended", NEW f \in StatFields
               PROVE  life'[f] = disk'[f] + stats'[f]
    BY DEF CrashLosesOneInterval
  <2>1. /\ conn # "ended" => life[f] = disk[f] + stats[f]
        /\ life[f] \in Nat /\ disk[f] \in Nat /\ stats[f] \in Nat
        /\ ZeroStats[f] = 0
    BY CounterTypes DEF CrashLosesOneInterval
  <2>2. life'[f] \in Nat /\ stats'[f] \in Nat
    BY DEF TypeOK, LifeType, StatsType, LifeFields
  <2>3. CASE NoCount \/ Dies
    BY <2>1, <2>3 DEF NoCount, Dies, counters, Running
  <2>4. CASE Counts
    BY <2>1, <2>2, <2>4 DEF Counts, Running
  <2>5. CASE Publishes
    BY <2>1, <2>5 DEF Publishes, SaveOutcome
  <2>6. CASE Starts
    BY <2>1, <2>6 DEF Starts
  <2>7. CASE Flushes
    BY <2>7 DEF Flushes
  <2> QED BY <2>3, <2>4, <2>5, <2>6, <2>7, CounterStep
<1> QED BY <1>1, <1>2, TypeCorrect, PTL DEF Spec

-----------------------------------------------------------------------------
(***************************************************************************)
(* The abstract machine.  Every kind of step above is a step of Checkpoint *)
(* or changes nothing it has.                                              *)
(***************************************************************************)

\* With a store that may fail or not, the lifetime counters of the task behave as
\* Checkpoint says: they only grow, are saved as a whole, and a run goes on from
\* what was saved.
THEOREM GateImplementsCheckpoint == Spec => ImplementsCheckpoint
<1>1. Init => CP!Init
  BY DEF Init, CP!Init, CP!Zero, ZeroLife
<1>2. TypeOK /\ [Next]_vars => [CP!Next]_(CP!vars)
  <2> SUFFICES ASSUME TypeOK, [Next]_vars PROVE [CP!Next]_(CP!vars)
    OBVIOUS
  <2>1. CASE NoCount
    BY <2>1 DEF NoCount, counters, Running, CP!vars
  <2>2. CASE Counts
    BY <2>2 DEF Counts, Running, CP!Next, CP!Work, CP!AtLeast
  <2>3. CASE Publishes
    BY <2>3 DEF Publishes, SaveOutcome, Running, CP!Next, CP!Save, CP!vars
  <2>4. CASE Flushes
    BY <2>4 DEF Flushes, SaveOutcome, Running, CP!Next, CP!Stop
  <2>5. CASE Dies
    BY <2>5 DEF Dies, counters, Running, CP!Next, CP!Crash
  <2>6. CASE Starts
    BY <2>6 DEF Starts, Running, CP!Next, CP!Restart, CP!Zero, ZeroLife
  <2> QED BY <2>1, <2>2, <2>3, <2>4, <2>5, <2>6, CounterStep
<1> QED BY <1>1, <1>2, TypeCorrect, PTL DEF Spec, ImplementsCheckpoint, CP!Spec

-----------------------------------------------------------------------------
(* The channel.                                                            *)

\* The items a receiver has, or has missed.
Backlog(r) == Len(r.items) + r.missed

\* A send adds one item to the backlog, whether or not the channel is full; what
\* recv() returns leaves it.
LEMMA BacklogSteps ==
    ASSUME NEW S, NEW r \in [items : Seq(S), missed : Nat], NEW x \in S
    PROVE  /\ Backlog(r) \in Nat
           /\ Backlog(Send(r, x)) = Backlog(r) + 1
           /\ Ready(r) => Backlog(Taken(r)) = Backlog(r) - 1
           /\ Backlog(Relag(r)) = Backlog(r) - r.missed
<1>1. r.items \in Seq(S) /\ Len(r.items) \in Nat /\ r.missed \in Nat
  OBVIOUS
<1>2. ASSUME Len(r.items) < Cap
      PROVE  Backlog(Send(r, x)) = Backlog(r) + 1
  <2>1. /\ Send(r, x).items = Append(r.items, x)
        /\ Send(r, x).missed = r.missed
    BY <1>1, <1>2 DEF Send
  <2>2. Len(Append(r.items, x)) = Len(r.items) + 1
    BY <1>1
  <2>3. Len(Send(r, x).items) = Len(r.items) + 1
    BY <2>1, <2>2
  <2> QED BY <1>1, <2>1, <2>3 DEF Backlog
<1>3. ASSUME ~(Len(r.items) < Cap)
      PROVE  Backlog(Send(r, x)) = Backlog(r) + 1
  <2>1. r.items # <<>>
    BY <1>1, <1>3, CapAssumption
  <2>2. Tail(r.items) \in Seq(S) /\ Len(Tail(r.items)) = Len(r.items) - 1
    BY <1>1, <2>1
  <2>3. Len(Append(Tail(r.items), x)) = Len(r.items)
    BY <1>1, <2>2
  <2>4. /\ Send(r, x).items = Append(Tail(r.items), x)
        /\ Send(r, x).missed = r.missed + 1
    BY <1>1, <1>3 DEF Send
  <2>5. Len(Send(r, x).items) = Len(r.items)
    BY <2>3, <2>4
  <2>6. Len(Send(r, x).items) + Send(r, x).missed
          = Len(r.items) + (r.missed + 1)
    BY <2>4, <2>5, Zenon
  <2>7. Len(r.items) + (r.missed + 1) = (Len(r.items) + r.missed) + 1
    BY <1>1
  <2> QED BY <2>6, <2>7, Zenon DEF Backlog
<1>4. ASSUME Ready(r) PROVE Backlog(Taken(r)) = Backlog(r) - 1
  <2>1. r.items # <<>>
    BY <1>4 DEF Ready
  <2>2. Len(Tail(r.items)) = Len(r.items) - 1
    BY <1>1, <2>1
  <2>3. Taken(r).items = Tail(r.items) /\ Taken(r).missed = r.missed
    BY <1>1 DEF Taken
  <2>4. Len(Taken(r).items) = Len(r.items) - 1
    BY <2>2, <2>3
  <2>5. Len(Taken(r).items) + Taken(r).missed = (Len(r.items) - 1) + r.missed
    BY <2>3, <2>4, Zenon
  <2>6. (Len(r.items) - 1) + r.missed = (Len(r.items) + r.missed) - 1
    BY <1>1
  <2> QED BY <2>5, <2>6, Zenon DEF Backlog
<1>5. Backlog(Relag(r)) = Backlog(r) - r.missed
  BY <1>1 DEF Backlog, Relag
<1>6. Backlog(Send(r, x)) = Backlog(r) + 1
  BY <1>2, <1>3
<1> QED BY <1>1, <1>4, <1>5, <1>6 DEF Backlog

\* A step that leaves the receiver, the lag counter and the items offered and taken
\* alone.
LEMMA SameChannel ==
    ASSUME ChannelConserves, UNCHANGED <<rx, base>>,
           life'["lagged"] = life["lagged"],
           tally'["offered"] = tally["offered"], tally'["taken"] = tally["taken"]
    PROVE  ChannelConserves'
BY DEF ChannelConserves

\* A step that takes one item off the receiver.
LEMMA TakeConserves ==
    ASSUME TypeOK, ChannelConserves, Ready(rx), rx' = Taken(rx), base' = base,
           life'["lagged"] = life["lagged"],
           tally'["offered"] = tally["offered"],
           tally'["taken"] = tally["taken"] + 1
    PROVE  ChannelConserves'
<1>1. rx \in [items : Seq(ItemType), missed : Nat] /\ TlmItem \in ItemType
  BY ItemTypes DEF TypeOK
<1>2. Backlog(rx') = Backlog(rx) - 1 /\ Backlog(rx) \in Nat
  BY <1>1, BacklogSteps
<1>3. /\ tally["offered"] \in Nat /\ tally["taken"] \in Nat
      /\ life["lagged"] \in Nat /\ base["lagged"] \in Nat
  BY Fields DEF TypeOK, LifeType
<1>4. /\ Len(rx.items) \in Nat /\ rx.missed \in Nat
      /\ Len(rx'.items) \in Nat /\ rx'.missed \in Nat
  BY <1>1, TakenType
<1>5. Len(rx'.items) + rx'.missed = (Len(rx.items) + rx.missed) - 1
  BY <1>2, Zenon DEF Backlog
<1>6. tally["offered"] = (tally["taken"] + 1) + Len(rx'.items) + rx'.missed
                           + (life["lagged"] - base["lagged"])
  <2>1. tally["offered"] = tally["taken"] + Len(rx.items) + rx.missed
                             + (life["lagged"] - base["lagged"])
    BY DEF ChannelConserves
  <2> DEFINE n  == Len(rx.items)    m  == rx.missed
             n1 == Len(rx'.items)   m1 == rx'.missed
             l  == life["lagged"]   b  == base["lagged"]
             o  == tally["offered"] t  == tally["taken"]
  <2> HIDE DEF n, m, n1, m1, l, b, o, t
  <2>2. /\ n \in Nat /\ m \in Nat /\ n1 \in Nat /\ m1 \in Nat
        /\ l \in Nat /\ b \in Nat /\ o \in Nat /\ t \in Nat
    BY <1>3, <1>4 DEF n, m, n1, m1, l, b, o, t
  <2>3. n1 + m1 = (n + m) - 1 /\ o = t + n + m + (l - b)
    BY <1>5, <2>1, Zenon DEF n, m, n1, m1, l, b, o, t
  <2>4. o = (t + 1) + n1 + m1 + (l - b)
    BY <2>2, <2>3
  <2> QED BY <2>4, Zenon DEF n, m, n1, m1, l, b, o, t
<1> QED BY <1>6, Zenon DEF ChannelConserves

\* A step that puts one item on the channel.
LEMMA OfferConserves ==
    ASSUME TypeOK, ChannelConserves, NEW x \in ItemType, rx' = Send(rx, x),
           base' = base, life'["lagged"] = life["lagged"],
           tally'["offered"] = tally["offered"] + 1,
           tally'["taken"] = tally["taken"]
    PROVE  ChannelConserves'
<1>1. rx \in [items : Seq(ItemType), missed : Nat]
  BY DEF TypeOK
<1>2. Backlog(rx') = Backlog(rx) + 1 /\ Backlog(rx) \in Nat
  BY <1>1, BacklogSteps
<1>3. /\ tally["offered"] \in Nat /\ tally["taken"] \in Nat
      /\ life["lagged"] \in Nat /\ base["lagged"] \in Nat
  BY Fields DEF TypeOK, LifeType
<1>4. /\ Len(rx.items) \in Nat /\ rx.missed \in Nat
      /\ Len(rx'.items) \in Nat /\ rx'.missed \in Nat
  BY <1>1, SendType
<1>5. Len(rx'.items) + rx'.missed = Len(rx.items) + rx.missed + 1
  BY <1>2, Zenon DEF Backlog
<1>6. tally["offered"] + 1 = tally["taken"] + Len(rx'.items) + rx'.missed
                               + (life["lagged"] - base["lagged"])
  <2>1. tally["offered"] = tally["taken"] + Len(rx.items) + rx.missed
                             + (life["lagged"] - base["lagged"])
    BY DEF ChannelConserves
  <2> DEFINE n  == Len(rx.items)    m  == rx.missed
             n1 == Len(rx'.items)   m1 == rx'.missed
             l  == life["lagged"]   b  == base["lagged"]
             o  == tally["offered"] t  == tally["taken"]
  <2> HIDE DEF n, m, n1, m1, l, b, o, t
  <2>2. /\ n \in Nat /\ m \in Nat /\ n1 \in Nat /\ m1 \in Nat
        /\ l \in Nat /\ b \in Nat /\ o \in Nat /\ t \in Nat
    BY <1>3, <1>4 DEF n, m, n1, m1, l, b, o, t
  <2>3. n1 + m1 = (n + m) + 1 /\ o = t + n + m + (l - b)
    BY <1>5, <2>1, Zenon DEF n, m, n1, m1, l, b, o, t
  <2>4. o + 1 = t + n1 + m1 + (l - b)
    BY <2>2, <2>3
  <2> QED BY <2>4, Zenon DEF n, m, n1, m1, l, b, o, t
<1> QED BY <1>6, Zenon DEF ChannelConserves

LEMMA NextChannel == TypeOK /\ ChannelConserves /\ [Next]_vars => ChannelConserves'
<1> SUFFICES ASSUME TypeOK, ChannelConserves, [Next]_vars PROVE ChannelConserves'
  OBVIOUS
<1> USE DEF clocks, log
<1>t. tally \in [TallyFields -> Nat] /\ life \in [LifeFields -> Nat]
  BY DEF TypeOK, LifeType
<1>o. /\ Offered(tally)["offered"] = tally["offered"] + 1
      /\ Offered(tally)["taken"] = tally["taken"]
  BY <1>t, Fields DEF Offered
<1>i. TlmItem \in ItemType /\ \A p \in Packets : PktItem(p) \in ItemType
  BY ItemTypes
<1>f. "lagged" \notin StatFields /\ "lagged" \notin DropReasons
  BY DEF StatFields, DropReasons, RuleReasons
<1>h. ASSUME \/ life' = Heard(life)
             \/ \E r \in DropReasons : HeardAndDropped(r)
      PROVE  life'["lagged"] = life["lagged"]
  BY <1>h, <1>t, <1>f, Fields DEF Heard, HeardAndDropped
<1>g. ASSUME TakeForGating, life'["lagged"] = life["lagged"] PROVE ChannelConserves'
  <2>1. tally'["offered"] = tally["offered"] /\ tally'["taken"] = tally["taken"] + 1
    BY <1>g, <1>t, Fields DEF TakeForGating
  <2> QED BY <1>g, <2>1, TakeConserves DEF TakeForGating, TakePacket
<1>1. ASSUME NEW p \in Packets, HearPacket(p) PROVE ChannelConserves'
  BY <1>1, <1>i, <1>o, OfferConserves DEF HearPacket, Offer
<1>2. CASE OtherTelemetry
  BY <1>2, <1>i, <1>o, OfferConserves DEF OtherTelemetry, Offer
<1>3. CASE SecondPasses \/ ClockStep \/ Cancel \/ Crash
  BY <1>3, SameChannel DEF SecondPasses, ClockStep, Cancel, Crash
<1>4. CASE Restart
  <2>1. base' = life' /\ life'["lagged"] \in Nat /\ rx' = Subscribed
    BY <1>4, NextType, Fields DEF Restart, StartFrom, TypeOK, LifeType
  <2>2. tally'["offered"] = 0 /\ tally'["taken"] = 0
    BY <1>4, <1>t, Fields DEF Restart, StartFrom
  <2> QED BY <2>1, <2>2 DEF ChannelConserves, Subscribed
<1>5. CASE Dial \/ LoggedIn \/ DialFails \/ SessionEnds
  BY <1>5, SameChannel DEF Dial, LoggedIn, DialFails, SessionEnds
<1>6. CASE Connected
  <2>1. life'["lagged"] = life["lagged"]
    BY <1>6, <1>t, <1>f, Fields DEF Connected
  <2>2. tally'["offered"] = tally["offered"] /\ tally'["taken"] = tally["taken"]
    BY <1>6, <1>t, Fields DEF Connected
  <2> QED BY <1>6, <2>1, <2>2, SameChannel DEF Connected
<1>7. CASE RecvUngated
  <2>1. tally'["offered"] = tally["offered"] /\ tally'["taken"] = tally["taken"] + 1
    BY <1>7, <1>t, Fields DEF RecvUngated
  <2> QED BY <1>7, <1>h, <2>1, TakeConserves DEF RecvUngated, TakePacket
<1>8. CASE RecvDropped
  <2>1. droppacket(HeadPkt, HeadAge) \in DropReasons
    BY <1>8, TakeFacts, DroppacketReason, GateAssumption
       DEF RecvDropped, TakeForGating
  <2> QED BY <1>8, <1>g, <1>h, <2>1 DEF RecvDropped
<1>9. CASE RecvDuplicate
  BY <1>9, <1>g, <1>h DEF RecvDuplicate, DropReasons
<1>10. CASE RecvRefused
  BY <1>10, <1>g, <1>h DEF RecvRefused, DropReasons, RuleReasons
<1>11. CASE RecvWrite
  BY <1>11, <1>g, <1>h DEF RecvWrite
<1>12. CASE WriteOk
  <2>1. life'["lagged"] = life["lagged"]
    BY <1>12, <1>t, <1>f, Fields DEF WriteOk
  <2> QED BY <1>12, <2>1, SameChannel DEF WriteOk
<1>13. CASE WriteFails
  <2>1. tally'["offered"] = tally["offered"] /\ tally'["taken"] = tally["taken"]
    BY <1>13, <1>t, Fields DEF WriteFails
  <2> QED BY <1>13, <2>1, SameChannel DEF WriteFails
<1>14. CASE RecvTelemetry
  <2>1. tally'["offered"] = tally["offered"] /\ tally'["taken"] = tally["taken"] + 1
    BY <1>14, <1>t, Fields DEF RecvTelemetry
  <2> QED BY <1>14, <2>1, TakeConserves DEF RecvTelemetry
<1>15. CASE RecvLagged
  <2>1. rx.missed \in Nat /\ Len(rx.items) \in Nat
    BY DEF TypeOK
  <2>2. rx'.missed = 0 /\ rx'.items = rx.items
    BY <1>15 DEF RecvLagged, Relag, TypeOK
  <2>3. life'["lagged"] = life["lagged"] + rx.missed
    BY <1>15, <1>t, Fields DEF RecvLagged
  <2>4. /\ tally["offered"] \in Nat /\ tally["taken"] \in Nat
        /\ life["lagged"] \in Nat /\ base["lagged"] \in Nat
    BY <1>t, Fields DEF TypeOK, LifeType
  <2> QED BY <1>15, <2>1, <2>2, <2>3, <2>4 DEF RecvLagged, ChannelConserves
<1>16. CASE TelemetryTick
  <2>1. Offered(tally) \in [TallyFields -> Nat]
    BY OfferedType
  <2>2. tally'["offered"] = tally["offered"] + 1 /\ tally'["taken"] = tally["taken"]
    BY <1>16, <1>o, <2>1, Fields DEF TelemetryTick, Persist
  <2> QED BY <1>16, <1>i, <2>2, OfferConserves DEF TelemetryTick
<1>17. CASE Stop
  <2>1. tally'["offered"] = tally["offered"] /\ tally'["taken"] = tally["taken"]
    BY <1>17, <1>t, Fields DEF Stop, Persist
  <2> QED BY <1>17, <2>1, SameChannel DEF Stop
<1>18. CASE UNCHANGED vars
  BY <1>18, SameChannel DEF vars
<1> QED
  BY <1>1, <1>2, <1>3, <1>4, <1>5, <1>6, <1>7, <1>8, <1>9, <1>10, <1>11, <1>12,
     <1>13, <1>14, <1>15, <1>16, <1>17, <1>18 DEF Next, World, Task

\* However full the channel gets, an item sent to the task is received, queued, or
\* counted as lagged now or at the next recv(): the channel loses none silently.
THEOREM ChannelLosesNoneSilently == Spec => []ChannelConserves
<1>1. Init => ChannelConserves
  BY Fields DEF Init, Subscribed, ChannelConserves, ZeroLife
<1> QED BY <1>1, NextChannel, TypeCorrect, PTL DEF Spec

-----------------------------------------------------------------------------
(***************************************************************************)
(* The age of what is gated.  It is known when the line is handed to       *)
(* write_all; InTime says that the write itself is cut off in time.        *)
(***************************************************************************)
InTime ==
    conn = "writing" =>
        /\ writing.age <= MaxAge
        /\ mono - writing.at <= WriteTimeout

FreshInv == InTime /\ OnlyFreshGated

\* What droppacket lets through is not too old.
LEMMA PassedIsFresh ==
    ASSUME NEW p, NEW age \in Int, droppacket(p, age) = NoReason
    PROVE  age <= MaxAge
BY MaxAgeAssumption DEF droppacket, NoReason

LEMMA NextFresh == TypeOK /\ FreshInv /\ [Next]_vars => FreshInv'
<1> SUFFICES ASSUME TypeOK, FreshInv, [Next]_vars PROVE FreshInv'
  OBVIOUS
<1> USE DEF clocks, log
<1>m. mono \in Nat /\ MaxAge \in Nat /\ WriteTimeout \in Nat
  BY MaxAgeAssumption, GateAssumption DEF TypeOK
<1>s. ASSUME UNCHANGED <<sent, mono>>, conn' # "writing" \/ UNCHANGED <<conn, writing>>
      PROVE  FreshInv'
  BY <1>s DEF FreshInv, InTime, OnlyFreshGated
<1>1. ASSUME NEW p \in Packets, HearPacket(p) PROVE FreshInv'
  BY <1>1, <1>s DEF HearPacket, Offer
<1>2. CASE OtherTelemetry
  BY <1>2, <1>s DEF OtherTelemetry, Offer
<1>3. CASE SecondPasses
  <2>1. conn = "writing" => writing.at \in Nat
    BY Times
  <2> QED BY <1>3, <1>m, <2>1 DEF SecondPasses, FreshInv, InTime, OnlyFreshGated
<1>4. CASE ClockStep \/ Cancel \/ Crash
  BY <1>4, <1>s DEF ClockStep, Cancel, Crash
<1>5. CASE Restart
  <2>1. DOMAIN sent' = {} /\ conn' = "down"
    BY <1>5 DEF Restart
  <2> QED BY <2>1 DEF FreshInv, InTime, OnlyFreshGated
<1>6. CASE Dial \/ Connected \/ LoggedIn \/ DialFails \/ SessionEnds
  BY <1>6, <1>s DEF Dial, Connected, LoggedIn, DialFails, SessionEnds
<1>7. CASE RecvUngated
  BY <1>7, <1>s DEF RecvUngated, TakePacket
<1>8. CASE RecvDropped \/ RecvDuplicate \/ RecvRefused
  BY <1>8, <1>s DEF RecvDropped, RecvDuplicate, RecvRefused, TakeForGating, TakePacket
<1>9. CASE RecvWrite
  <2>1. HeadAge \in Int
    BY <1>9, TakeFacts DEF RecvWrite, TakeForGating
  <2>2. writing'.age = HeadAge /\ writing'.at = mono /\ HeadAge <= MaxAge
    BY <1>9, <2>1, PassedIsFresh DEF RecvWrite
  <2> QED BY <1>9, <1>m, <2>2
          DEF RecvWrite, TakeForGating, TakePacket, FreshInv, InTime, OnlyFreshGated
<1>10. CASE WriteOk
  <2>1. writing \in WriteType /\ sent \in Seq(SentType)
    BY <1>10 DEF WriteOk, TypeOK
  <2>2. /\ writing.age \in Int /\ writing.at \in Nat
        /\ writing.age <= MaxAge /\ mono - writing.at <= WriteTimeout
    BY <1>10, <2>1 DEF WriteOk, WriteType, FreshInv, InTime
  <2>3. ASSUME NEW i \in DOMAIN sent'
        PROVE  sent'[i].age + (sent'[i].done - sent'[i].at) <= MaxAge + WriteTimeout
    <3>1. CASE i \in DOMAIN sent
      <4>1. sent'[i] = sent[i]
        BY <1>10, <2>1, <3>1 DEF WriteOk
      <4> QED BY <3>1, <4>1 DEF FreshInv, OnlyFreshGated
    <3>2. CASE i = Len(sent) + 1
      <4>1. sent'[i] = [pkt |-> writing.pkt, age |-> writing.age, at |-> writing.at,
                        done |-> mono]
        BY <1>10, <2>1, <3>2 DEF WriteOk
      <4> QED BY <1>m, <2>2, <4>1
    <3> QED BY <1>10, <2>1, <3>1, <3>2 DEF WriteOk
  <2> QED BY <1>10, <2>3 DEF WriteOk, FreshInv, InTime, OnlyFreshGated
<1>11. CASE WriteFails \/ RecvTelemetry \/ RecvLagged
  BY <1>11, <1>s DEF WriteFails, RecvTelemetry, RecvLagged
<1>12. CASE TelemetryTick \/ Stop
  BY <1>12, <1>s DEF TelemetryTick, Stop
<1>13. CASE UNCHANGED vars
  BY <1>13, <1>s DEF vars
<1> QED
  BY <1>1, <1>2, <1>3, <1>4, <1>5, <1>6, <1>7, <1>8, <1>9, <1>10, <1>11, <1>12,
     <1>13 DEF Next, World, Task

\* Whatever the outages and the steps of the wall clock, a line is complete at the
\* server within the age limit and one write timeout of being heard.
THEOREM NothingStaleGated == Spec => []OnlyFreshGated
<1>1. Init => FreshInv
  BY DEF Init, FreshInv, InTime, OnlyFreshGated
<1>2. FreshInv => OnlyFreshGated
  BY DEF FreshInv
<1> QED BY <1>1, <1>2, NextFresh, TypeCorrect, PTL DEF Spec

-----------------------------------------------------------------------------
(***************************************************************************)
(* The other direction of duplicate suppression: what the cache holds was  *)
(* sent, at the time the cache says.                                       *)
(***************************************************************************)
CacheWasSent ==
    \A k \in DOMAIN dedup :
        \E i \in DOMAIN sent : sent[i].pkt.key = k /\ sent[i].at = dedup[k]

LEMMA NextCache ==
    ASSUME DedupInv, CacheWasSent, [Next]_vars
    PROVE  CacheWasSent'
<1> USE DEF clocks, log
<1>a. TypeOK
  BY DEF DedupInv
<1>s. ASSUME UNCHANGED <<sent, dedup>> PROVE CacheWasSent'
  BY <1>s DEF CacheWasSent
<1>1. ASSUME NEW p \in Packets, HearPacket(p) PROVE CacheWasSent'
  BY <1>1, <1>s DEF HearPacket, Offer
<1>2. CASE OtherTelemetry
  BY <1>2, <1>s DEF OtherTelemetry, Offer
<1>3. CASE SecondPasses \/ ClockStep \/ Cancel \/ Crash
  BY <1>3, <1>s DEF SecondPasses, ClockStep, Cancel, Crash
<1>4. CASE Restart
  BY <1>4 DEF Restart, CacheWasSent
<1>5. CASE Dial \/ Connected \/ LoggedIn \/ DialFails \/ SessionEnds
  BY <1>5, <1>s DEF Dial, Connected, LoggedIn, DialFails, SessionEnds
<1>6. CASE RecvUngated
  BY <1>6, <1>s DEF RecvUngated, TakePacket
<1>7. CASE RecvDropped \/ RecvDuplicate \/ RecvRefused \/ RecvWrite
  BY <1>7, <1>s
     DEF RecvDropped, RecvDuplicate, RecvRefused, RecvWrite, TakeForGating, TakePacket
<1>8. CASE WriteOk
  <2> DEFINE n == Len(sent) + 1
  <2>1. writing.now_ts = writing.at /\ sent \in Seq(SentType)
    BY <1>8, <1>a DEF WriteOk, DedupInv, WriteIsFresh, TypeOK
  <2>2. /\ n \in DOMAIN sent'
        /\ sent'[n].pkt.key = writing.pkt.key /\ sent'[n].at = writing.at
        /\ \A i \in DOMAIN sent : i \in DOMAIN sent' /\ sent'[i] = sent[i]
    BY <1>8, <2>1 DEF WriteOk
  <2>3. /\ DOMAIN dedup' = DOMAIN dedup \cup {writing.pkt.key}
        /\ dedup'[writing.pkt.key] = writing.at
        /\ \A k \in DOMAIN dedup : k # writing.pkt.key => dedup'[k] = dedup[k]
    BY <1>8, <2>1 DEF WriteOk, Insert
  <2>4. ASSUME NEW k \in DOMAIN dedup'
        PROVE  \E i \in DOMAIN sent' : sent'[i].pkt.key = k /\ sent'[i].at = dedup'[k]
    <3>1. CASE k = writing.pkt.key
      BY <2>2, <2>3, <3>1
    <3>2. CASE k # writing.pkt.key
      <4>1. k \in DOMAIN dedup /\ dedup'[k] = dedup[k]
        BY <2>3, <3>2
      <4> QED BY <2>2, <4>1 DEF CacheWasSent
    <3> QED BY <3>1, <3>2
  <2> QED BY <2>4 DEF CacheWasSent
<1>9. CASE WriteFails \/ RecvTelemetry \/ RecvLagged \/ Stop
  BY <1>9, <1>s DEF WriteFails, RecvTelemetry, RecvLagged, Stop
<1>10. CASE TelemetryTick
  BY <1>10 DEF TelemetryTick, Purged, CacheWasSent
<1>11. CASE UNCHANGED vars
  BY <1>11, <1>s DEF vars
<1> QED
  BY <1>1, <1>2, <1>3, <1>4, <1>5, <1>6, <1>7, <1>8, <1>9, <1>10, <1>11
     DEF Next, World, Task

\* Only a packet found in the cache raises the duplicate counter during a session.
LEMMA DuplicateStep ==
    ASSUME TypeOK, [Next]_vars, conn = "up", life'["duplicate"] # life["duplicate"]
    PROVE  RecvDuplicate
<1> USE DEF clocks, log
<1>t. life \in [LifeFields -> Nat] /\ "duplicate" \in LifeFields
  BY DEF TypeOK, LifeType, LifeFields, DropReasons
<1>f. "duplicate" \notin StatFields \cup RuleReasons \cup {"lagged"}
  BY DEF StatFields, RuleReasons
<1>1. life' # life
  OBVIOUS
<1>2. ASSUME NEW p \in Packets, HearPacket(p) PROVE FALSE
  BY <1>1, <1>2 DEF HearPacket, Offer
<1>3. ~OtherTelemetry
  BY <1>1 DEF OtherTelemetry, Offer
<1>4. ~(SecondPasses \/ ClockStep \/ Cancel \/ Crash \/ UNCHANGED vars)
  BY <1>1 DEF SecondPasses, ClockStep, Cancel, Crash, vars
<1>5. ~(Restart \/ Connected \/ WriteOk)
  BY DEF Restart, Connected, WriteOk
<1>6. ~(Dial \/ LoggedIn \/ DialFails \/ SessionEnds \/ WriteFails \/ RecvTelemetry)
  BY <1>1 DEF Dial, LoggedIn, DialFails, SessionEnds, WriteFails, RecvTelemetry
<1>7. ~(TelemetryTick \/ Stop)
  BY <1>1 DEF TelemetryTick, Stop
<1>8. ~(RecvUngated \/ RecvWrite)
  BY <1>t, <1>f, Fields DEF RecvUngated, RecvWrite, Heard
<1>9. ~RecvLagged
  BY <1>t, <1>f, Fields DEF RecvLagged
<1>10. ~RecvRefused
  BY <1>t, <1>f, Fields DEF RecvRefused, HeardAndDropped, RuleReasons
<1>11. ~RecvDropped
  <2> SUFFICES ASSUME RecvDropped PROVE FALSE
    OBVIOUS
  <2>1. droppacket(HeadPkt, HeadAge) \in RuleReasons
    BY DEF RecvDropped, droppacket, NoReason, RuleReasons
  <2> QED BY <1>t, <1>f, <2>1, Fields DEF RecvDropped, HeardAndDropped
<1> QED
  BY <1>2, <1>3, <1>4, <1>5, <1>6, <1>7, <1>8, <1>9, <1>10, <1>11
     DEF Next, World, Task

\* While the wall clock is not stepped, the suppression swallows no first copy: a
\* packet is dropped as a duplicate only if one of the same source and info was
\* gated in this run within the TTL.
THEOREM NothingSwallowed ==
    ASSUME Skews \subseteq {0}
    PROVE  Spec => DuplicateWasGated
<1>1. Init => DedupInv /\ CacheWasSent
  BY InitDedup DEF Init, CacheWasSent
<1>2. DedupInv /\ CacheWasSent /\ [Next]_vars => (DedupInv /\ CacheWasSent)'
  BY NextDedup, NextCache
<1>3. DedupInv /\ CacheWasSent /\ [Next]_vars
      => [ conn = "up" /\ life'["duplicate"] # life["duplicate"]
           => \E i \in DOMAIN sent :
                 /\ sent[i].pkt.key = Head(rx.items).pkt.key
                 /\ mono - sent[i].at < TTL ]_vars
  <2> SUFFICES ASSUME DedupInv, CacheWasSent, [Next]_vars, conn = "up",
                      life'["duplicate"] # life["duplicate"]
               PROVE  \E i \in DOMAIN sent :
                          /\ sent[i].pkt.key = Head(rx.items).pkt.key
                          /\ mono - sent[i].at < TTL
    OBVIOUS
  <2>1. IsDuplicate(HeadPkt.key)
    BY DuplicateStep DEF DedupInv, RecvDuplicate
  <2>2. skew = 0 /\ mono \in Nat
    BY DEF DedupInv, Steady, TypeOK
  <2>3. HeadPkt.key \in DOMAIN dedup /\ mono - dedup[HeadPkt.key] < TTL
    BY <2>1, <2>2 DEF IsDuplicate, Wall
  <2> QED BY <2>3 DEF CacheWasSent, HeadPkt
<1> QED BY <1>1, <1>2, <1>3, PTL DEF Spec, DuplicateWasGated
=============================================================================
