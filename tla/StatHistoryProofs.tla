--------------------------- MODULE StatHistoryProofs ---------------------------
(***************************************************************************)
(* Proofs about StatHistory: the types, with every bucket on a boundary    *)
(* and no series beyond its limit, that the table mirrors the buckets in   *)
(* memory, and that the chart holds what was published.                    *)
(***************************************************************************)
EXTENDS StatHistory, OrderLemmas, SequenceTheorems

-----------------------------------------------------------------------------
(* The mirror.  Between the merge and the transactions that follow it the  *)
(* table differs from memory in the rows those are about to write.         *)

\* The pending transactions write what is in memory, also to rows that differ since
\* an earlier transaction on them failed; the other rows agree already.
RowPending(k) ==
    /\ k \in DOMAIN pending.touched => Row(hist, k) = {pending.touched[k]}
    /\ k \in pending.pruned => Row(hist, k) = {}
    /\ k \notin DOMAIN pending.touched \cup pending.pruned \cup stale
          => Row(disk, k) = Row(hist, k)

MirrorInv ==
    /\ proc \in {"up", "down"}
    /\ proc = "down" => pending = Nothing
    /\ proc = "up" /\ pending = Nothing =>
          \A k : k \notin stale => Row(disk, k) = Row(hist, k)
    /\ proc = "up" /\ pending # Nothing =>
          /\ DOMAIN pending.touched \cap pending.pruned = {}
          /\ \A k : RowPending(k)

LEMMA InitMirror == Init => MirrorInv
  BY DEF Init, MirrorInv

\* A merge.
LEMMA MergeMirror ==
    ASSUME MirrorInv, MergeSnapshot
    PROVE  MirrorInv'
<1> DEFINE x == Head(rx.items)
           K == KeysOf(x.series)
           h == merge_series(hist, x.side, x.series)
           old == Expired(h, now)
           kept == Without(h, old)
<1>1. /\ proc = "up" /\ proc' = "up" /\ pending = Nothing /\ hist' = kept
      /\ pending' = [kind |-> "mirror", touched |-> Only(kept, K), pruned |-> old]
      /\ disk' = disk /\ stale' = stale
  BY DEF MergeSnapshot
<1>2. /\ DOMAIN h = DOMAIN hist \cup K
      /\ \A k \in DOMAIN hist : k \notin K => h[k] = hist[k]
  BY DEF merge_series
<1>3. old \subseteq DOMAIN h
  BY DEF Expired
<1>4. DOMAIN kept = DOMAIN h \ old /\ \A k \in DOMAIN kept : kept[k] = h[k]
  BY DEF Without
<1>5. /\ DOMAIN Only(kept, K) = DOMAIN kept \cap K
      /\ \A k \in DOMAIN kept \cap K : Only(kept, K)[k] = kept[k]
  BY DEF Only
<1> HIDE DEF K, h, old, kept
<1>6. pending'.touched = Only(kept, K) /\ pending'.pruned = old /\ pending' # Nothing
  BY <1>1 DEF Nothing
<1>7. DOMAIN pending'.touched \cap pending'.pruned = {}
  BY <1>4, <1>5, <1>6
<1>8. ASSUME NEW k PROVE RowPending(k)'
  <2>1. k \notin stale => Row(disk, k) = Row(hist, k)
    BY <1>1 DEF MirrorInv
  <2>2. k \in DOMAIN pending'.touched => Row(hist', k) = {pending'.touched[k]}
    BY <1>1, <1>5, <1>6 DEF Row
  <2>3. k \in pending'.pruned => Row(hist', k) = {}
    BY <1>1, <1>4, <1>6 DEF Row
  <2>4. ASSUME k \notin DOMAIN pending'.touched \cup pending'.pruned \cup stale'
        PROVE  Row(disk', k) = Row(hist', k)
    <3>1. k \notin K
      BY <1>2, <1>4, <1>5, <1>6, <2>4
    <3>2. k \in DOMAIN kept <=> k \in DOMAIN hist
      BY <1>2, <1>4, <1>6, <2>4, <3>1
    <3>3. k \in DOMAIN kept => kept[k] = hist[k]
      BY <1>2, <1>4, <3>1, <3>2
    <3> QED BY <1>1, <2>1, <2>4, <3>2, <3>3 DEF Row
  <2> QED BY <2>2, <2>3, <2>4 DEF RowPending
<1> QED BY <1>1, <1>6, <1>7, <1>8 DEF MirrorInv

\* The two transactions that follow.
LEMMA PersistMirror ==
    ASSUME MirrorInv, persist_history
    PROVE  MirrorInv'
<1> DEFINE T == DOMAIN pending.touched
           P == pending.pruned
<1>1. /\ proc = "up" /\ proc' = "up" /\ pending # Nothing /\ pending' = Nothing
      /\ hist' = hist
  BY DEF persist_history
<1>2. PICK upsertOk \in Outcomes, deleteOk \in Outcomes :
         /\ disk' = IF deleteOk
                    THEN Without(IF upsertOk THEN Upserted(disk, pending.touched) ELSE disk, P)
                    ELSE IF upsertOk THEN Upserted(disk, pending.touched) ELSE disk
         /\ stale' = Attempted(Attempted(stale, T, upsertOk), P, deleteOk)
  BY DEF persist_history
<1> DEFINE d == IF upsertOk THEN Upserted(disk, pending.touched) ELSE disk
<1>3. T \cap P = {} /\ \A k : RowPending(k)
  BY <1>1 DEF MirrorInv
<1>4. ASSUME NEW k, k \notin stale' PROVE Row(disk', k) = Row(hist', k)
  <2>1. Row(disk', k) = IF k \in P /\ deleteOk THEN {} ELSE Row(d, k)
    BY <1>2 DEF Row, Without
  <2>2. Row(d, k) = IF k \in T /\ upsertOk THEN {pending.touched[k]} ELSE Row(disk, k)
    BY DEF Row, Upserted
  <2>3. CASE k \in T
    <3>1. k \notin P /\ upsertOk
      BY <1>2, <1>3, <1>4, <2>3 DEF Attempted
    <3>2. Row(disk', k) = {pending.touched[k]}
      BY <2>1, <2>2, <2>3, <3>1
    <3> QED BY <1>1, <1>3, <2>3, <3>2 DEF RowPending
  <2>4. CASE k \in P
    <3>1. k \notin T /\ deleteOk
      BY <1>2, <1>3, <1>4, <2>4 DEF Attempted
    <3>2. Row(disk', k) = {}
      BY <2>1, <2>4, <3>1
    <3> QED BY <1>1, <1>3, <2>4, <3>2 DEF RowPending
  <2>5. CASE k \notin T \cup P
    <3>1. k \notin stale
      BY <1>2, <1>4, <2>5 DEF Attempted
    <3>2. Row(disk, k) = Row(hist, k)
      BY <1>3, <2>5, <3>1 DEF RowPending
    <3> QED BY <1>1, <2>1, <2>2, <2>5, <3>2
  <2> QED BY <2>3, <2>4, <2>5
<1> QED BY <1>1, <1>4 DEF MirrorInv

LEMMA NextMirror == MirrorInv /\ [Next]_vars => MirrorInv'
<1> SUFFICES ASSUME MirrorInv, [Next]_vars PROVE MirrorInv'
  OBVIOUS
<1>1. ASSUME UNCHANGED <<proc, hist, pending, disk, stale>> PROVE MirrorInv'
  BY <1>1 DEF MirrorInv, RowPending, Row
<1>2. CASE SecondPasses \/ OtherItem \/ ForwardOther \/ SkipLagged \/ UNCHANGED vars
  BY <1>1, <1>2 DEF SecondPasses, OtherItem, ForwardOther, SkipLagged, vars, log
<1>3. ASSUME NEW p \in Sides, ComesOnline(p) \/ GoesOffline(p) \/ Count(p) \/ Tick(p)
      PROVE  MirrorInv'
  BY <1>1, <1>3 DEF ComesOnline, GoesOffline, Count, Tick, log
<1>4. CASE MergeSnapshot
  BY <1>4, MergeMirror
<1>5. CASE persist_history
  BY <1>5, PersistMirror
<1>6. CASE Stop \/ Crash
  <2>1. proc' = "down" /\ pending' = Nothing
    BY <1>6 DEF Stop, Crash, MemoryGone
  <2> QED BY <2>1 DEF MirrorInv
<1>7. CASE Restart
  <2>1. proc' = "up" /\ pending' = Nothing
    BY <1>7 DEF Restart, MirrorInv
  <2>2. PICK loadOk \in Outcomes, deleteOk \in Outcomes :
           LET restored == IF loadOk THEN disk ELSE NoBuckets
               old == Expired(restored, now)
           IN  /\ hist' = Without(restored, old)
               /\ disk' = IF deleteOk THEN Without(disk, old) ELSE disk
               /\ stale' = IF loadOk THEN Attempted({}, old, deleteOk) ELSE DOMAIN disk
    BY <1>7 DEF Restart
  <2>3. ASSUME NEW k, k \notin stale' PROVE Row(disk', k) = Row(hist', k)
    <3>1. CASE loadOk
      <4> DEFINE old == Expired(disk, now)
      <4>1. /\ hist' = Without(disk, old)
            /\ disk' = IF deleteOk THEN Without(disk, old) ELSE disk
            /\ stale' = Attempted({}, old, deleteOk)
        BY <2>2, <3>1
      <4> HIDE DEF old
      <4>2. CASE deleteOk
        BY <4>1, <4>2
      <4>3. CASE ~deleteOk
        <5>1. k \notin old
          BY <2>3, <4>1, <4>3 DEF Attempted
        <5> QED BY <4>1, <4>3, <5>1 DEF Row, Without
      <4> QED BY <4>2, <4>3
    <3>2. CASE ~loadOk
      <4>1. k \notin DOMAIN disk
        BY <2>2, <2>3, <3>2
      <4>2. k \notin DOMAIN disk'
        BY <2>2, <4>1 DEF Without
      <4>3. k \notin DOMAIN hist'
        BY <2>2, <3>2 DEF Without, NoBuckets
      <4> QED BY <4>2, <4>3 DEF Row
    <3> QED BY <3>1, <3>2
  <2> QED BY <2>1, <2>3 DEF MirrorInv
<1> QED BY <1>2, <1>3, <1>4, <1>5, <1>6, <1>7 DEF Next

\* For every interval, retention and capacity, and whichever transactions fail:
\* whenever sse_task waits, each row of the table is the bucket in memory, or absent
\* as that is, unless the last transaction on that row failed.
THEOREM TableMirrorsHistory == Spec => []DiskMirrorsMemory
<1>1. MirrorInv => DiskMirrorsMemory
  BY DEF MirrorInv, DiskMirrorsMemory
<1> QED BY <1>1, InitMirror, NextMirror, PTL DEF Spec

-----------------------------------------------------------------------------
(* Types.                                                                  *)

Series == {s \in Seq(Point) : Len(s) <= MaxPoints}
Item == [kind : {"tlm"}, side : Sides, series : Series, nr : Nat] \cup {Noise}

\* Where a bucket may start.
Boundaries == {k \in Nat : k % Period = 0}
Buckets == UNION {[K -> [Sides -> Nat]] : K \in SUBSET Boundaries}

TaskType ==
    /\ proc \in {"up", "down"}
    /\ now \in Nat
    /\ online \in [Sides -> BOOLEAN]
    /\ due \in [Sides -> Nat]
    /\ count \in [Sides -> Nat]

SeriesType == series \in [Sides -> Series] /\ ticks \in [Sides -> Nat]

ChannelType == rx \in [items : Seq(Item), missed : Nat] /\ Len(rx.items) <= Cap

BucketType ==
    /\ hist \in Buckets /\ disk \in Buckets
    /\ pending # Nothing => pending.touched \in Buckets

TypeInv == TaskType /\ SeriesType /\ ChannelType /\ BucketType

LEMMA BucketsElements ==
    ASSUME NEW h
    PROVE  h \in Buckets <=> /\ h = [k \in DOMAIN h |-> h[k]]
                             /\ DOMAIN h \subseteq Boundaries
                             /\ \A k \in DOMAIN h : h[k] \in [Sides -> Nat]
<1>1. ASSUME h \in Buckets
      PROVE  /\ h = [k \in DOMAIN h |-> h[k]]
             /\ DOMAIN h \subseteq Boundaries
             /\ \A k \in DOMAIN h : h[k] \in [Sides -> Nat]
  <2>1. PICK K \in SUBSET Boundaries : h \in [K -> [Sides -> Nat]]
    BY <1>1 DEF Buckets
  <2> QED BY <2>1
<1>2. ASSUME h = [k \in DOMAIN h |-> h[k]], DOMAIN h \subseteq Boundaries,
             \A k \in DOMAIN h : h[k] \in [Sides -> Nat]
      PROVE  h \in Buckets
  <2>1. h \in [DOMAIN h -> [Sides -> Nat]]
    BY <1>2
  <2> QED BY <1>2, <2>1 DEF Buckets
<1> QED BY <1>1, <1>2

\* A bucket starts on a boundary.
LEMMA BucketKeyType ==
    ASSUME NEW t \in Nat
    PROVE  BucketKey(t) \in Boundaries
<1>1. Period \in Nat \ {0}
  BY StatHistoryAssumption
<1>2. t % Period \in 0 .. Period - 1 /\ t = Period * (t \div Period) + (t % Period)
  BY <1>1
<1>3. t \div Period \in Nat /\ t % Period <= t
  BY <1>1
<1> DEFINE q == t \div Period
<1>4. (Period * q) % Period = 0
  <2> HIDE DEF q
  <2> QED BY <1>1, <1>3 DEF q
<1>5. BucketKey(t) = t - (t % Period)
  BY DEF BucketKey
<1>6. BucketKey(t) = Period * q /\ BucketKey(t) \in Nat
  <2> DEFINE m == Period * q
             r == t % Period
  <2>1. m \in Nat
    BY <1>1, <1>3
  <2>2. r \in Nat /\ t = m + r /\ BucketKey(t) = t - r
    BY <1>1, <1>2, <1>5
  <2> HIDE DEF m, r
  <2>3. BucketKey(t) = m /\ BucketKey(t) \in Nat
    BY <2>1, <2>2
  <2> QED BY <2>3 DEF m
<1> QED BY <1>4, <1>6 DEF Boundaries

\* The newest point of a bucket.
LEMMA LastValueType ==
    ASSUME NEW s \in Series, NEW k \in KeysOf(s)
    PROVE  LastValue(s, k) \in Nat
<1> DEFINE I == {i \in DOMAIN s : BucketKey(s[i].ts) = k}
           n == Len(s)
           B == {n - i : i \in I}
<1>1. s \in Seq(Point) /\ n \in Nat /\ DOMAIN s = 1 .. n
  BY DEF Series
<1>2. I # {} /\ I \subseteq 1 .. n
  BY <1>1 DEF KeysOf
<1> HIDE DEF I, n
<1>3. B \in SUBSET Nat /\ B # {}
  BY <1>1, <1>2
<1>4. PICK b \in B : \A c \in B : b <= c
  BY <1>3, Least
<1>5. PICK i \in I : b = n - i
  OBVIOUS
<1>6. \A j \in I : i >= j
  <2> SUFFICES ASSUME NEW j \in I PROVE i >= j
    OBVIOUS
  <2>1. n - i <= n - j
    BY <1>4, <1>5
  <2>2. i \in Int /\ j \in Int
    BY <1>1, <1>2
  <2> QED BY <1>1, <2>1, <2>2
<1>7. Max(I) \in I
  BY <1>6 DEF Max
<1>8. Max(I) \in 1 .. n
  BY <1>2, <1>7
<1>9. s[Max(I)] \in Point
  BY <1>1, <1>8
<1>10. LastValue(s, k) = s[Max(I)].value
  BY DEF LastValue, I
<1> QED BY <1>9, <1>10 DEF Point

\* What the operations on buckets give.
LEMMA MergedBuckets ==
    ASSUME NEW h \in Buckets, NEW p \in Sides, NEW s \in Series
    PROVE  merge_series(h, p, s) \in Buckets
<1> DEFINE g == merge_series(h, p, s)
           K == KeysOf(s)
<1>1. /\ DOMAIN g = DOMAIN h \cup K
      /\ g = [k \in DOMAIN h \cup K |->
                 IF k \in K THEN [BucketAt(h, k) EXCEPT ![p] = LastValue(s, k)] ELSE h[k]]
  BY DEF merge_series
<1>2. DOMAIN h \subseteq Boundaries /\ \A k \in DOMAIN h : h[k] \in [Sides -> Nat]
  BY BucketsElements
<1>3. K \subseteq Boundaries
  <2> SUFFICES ASSUME NEW i \in DOMAIN s PROVE BucketKey(s[i].ts) \in Boundaries
    BY DEF KeysOf
  <2>1. s[i] \in Point
    BY DEF Series
  <2>2. s[i].ts \in Nat
    BY <2>1 DEF Point
  <2> QED BY <2>2, BucketKeyType
<1>4. ASSUME NEW k \in K PROVE [BucketAt(h, k) EXCEPT ![p] = LastValue(s, k)] \in [Sides -> Nat]
  <2>1. BucketAt(h, k) \in [Sides -> Nat]
    BY <1>2 DEF BucketAt, ZeroBucket
  <2> QED BY <2>1, LastValueType
<1> HIDE DEF g, K
<1>5. \A k \in DOMAIN g : g[k] \in [Sides -> Nat]
  BY <1>1, <1>2, <1>4
<1>6. g = [k \in DOMAIN g |-> g[k]] /\ DOMAIN g \subseteq Boundaries
  BY <1>1, <1>2, <1>3
<1>7. g \in Buckets
  BY <1>5, <1>6, BucketsElements
<1> QED BY <1>7 DEF g

LEMMA FewerBuckets ==
    ASSUME NEW h \in Buckets, NEW K
    PROVE  Without(h, K) \in Buckets /\ Only(h, K) \in Buckets
<1>1. DOMAIN h \subseteq Boundaries /\ \A k \in DOMAIN h : h[k] \in [Sides -> Nat]
  BY BucketsElements
<1>2. Without(h, K) \in Buckets
  BY <1>1, BucketsElements DEF Without
<1>3. Only(h, K) \in Buckets
  BY <1>1, BucketsElements DEF Only
<1> QED BY <1>2, <1>3

LEMMA UpsertedBuckets ==
    ASSUME NEW h \in Buckets, NEW g \in Buckets
    PROVE  Upserted(h, g) \in Buckets
<1>1. /\ DOMAIN h \subseteq Boundaries /\ \A k \in DOMAIN h : h[k] \in [Sides -> Nat]
      /\ DOMAIN g \subseteq Boundaries /\ \A k \in DOMAIN g : g[k] \in [Sides -> Nat]
  BY BucketsElements
<1> QED BY <1>1, BucketsElements DEF Upserted

LEMMA EmptyBuckets == NoBuckets \in Buckets
  BY BucketsElements DEF NoBuckets

\* A tick's series.
LEMMA TrimmedSeries ==
    ASSUME NEW s \in Series, NEW x \in Point
    PROVE  Trimmed(Append(s, x)) \in Series
<1>1. /\ Append(s, x) \in Seq(Point) /\ Len(Append(s, x)) = Len(s) + 1
      /\ Len(s) \in Nat /\ Len(s) <= MaxPoints
  BY DEF Series
<1>2. MaxPoints \in Nat
  BY StatHistoryAssumption
<1> DEFINE a == Append(s, x)
<1> HIDE DEF a
<1>3. a \in Seq(Point) /\ Len(a) = Len(s) + 1
  BY <1>1 DEF a
<1>4. CASE Len(a) > MaxPoints
  <2>1. a # <<>>
    BY <1>1, <1>3
  <2>2. Tail(a) \in Seq(Point) /\ Len(Tail(a)) = Len(a) - 1
    BY <1>3, <2>1
  <2>3. Len(Tail(a)) <= MaxPoints
    BY <1>1, <1>2, <1>3, <2>2
  <2>4. Trimmed(a) = Tail(a)
    BY <1>4 DEF Trimmed
  <2> QED BY <2>2, <2>3, <2>4 DEF Series, a
<1>5. CASE ~(Len(a) > MaxPoints)
  <2>1. Trimmed(a) = a /\ Len(a) <= MaxPoints
    BY <1>1, <1>2, <1>3, <1>5 DEF Trimmed
  <2> QED BY <1>3, <2>1 DEF Series, a
<1> QED BY <1>4, <1>5

\* The channel.
LEMMA SendChannel ==
    ASSUME ChannelType, NEW x \in Item, rx' = Send(rx, x)
    PROVE  ChannelType'
<1> DEFINE q == rx.items
<1>1. q \in Seq(Item) /\ rx.missed \in Nat /\ Len(q) <= Cap /\ Len(q) \in Nat
      /\ Cap \in Nat \ {0} /\ rx = [items |-> q, missed |-> rx.missed]
  BY CapAssumption DEF ChannelType
<1>2. CASE Len(q) < Cap
  <2>1. rx' = [items |-> Append(q, x), missed |-> rx.missed]
    BY <1>1, <1>2 DEF Send
  <2> HIDE DEF q
  <2>2. Append(q, x) \in Seq(Item) /\ Len(Append(q, x)) <= Cap
    BY <1>1, <1>2
  <2> QED BY <1>1, <2>1, <2>2 DEF ChannelType
<1>3. CASE ~(Len(q) < Cap)
  <2>1. rx' = [items |-> Append(Tail(q), x), missed |-> rx.missed + 1]
    BY <1>3 DEF Send
  <2> HIDE DEF q
  <2>2. q # <<>>
    BY <1>1, <1>3
  <2>3. Tail(q) \in Seq(Item) /\ Len(Tail(q)) = Len(q) - 1
    BY <1>1, <2>2
  <2>4. Append(Tail(q), x) \in Seq(Item) /\ Len(Append(Tail(q), x)) <= Cap
    BY <1>1, <2>3
  <2> QED BY <1>1, <2>1, <2>4 DEF ChannelType
<1> QED BY <1>2, <1>3

LEMMA TakeChannel ==
    ASSUME ChannelType, Ready(rx)
    PROVE  Head(rx.items) \in Item /\ (rx' = Taken(rx) => ChannelType')
<1> DEFINE q == rx.items
<1>1. q \in Seq(Item) /\ rx.missed \in Nat /\ Len(q) <= Cap /\ Len(q) \in Nat
      /\ Cap \in Nat /\ q # <<>> /\ rx = [items |-> q, missed |-> rx.missed]
  BY CapAssumption DEF ChannelType, Ready
<1>2. Taken(rx) = [items |-> Tail(q), missed |-> rx.missed]
  BY <1>1 DEF Taken
<1> HIDE DEF q
<1>3. Head(q) \in Item /\ Tail(q) \in Seq(Item) /\ Len(Tail(q)) <= Cap
  BY <1>1
<1>4. ASSUME rx' = Taken(rx) PROVE ChannelType'
  <2>1. rx' = [items |-> Tail(q), missed |-> rx.missed]
    BY <1>2, <1>4
  <2>2. rx'.items = Tail(q) /\ rx'.missed = rx.missed
    BY <2>1
  <2> QED BY <1>1, <1>3, <2>1, <2>2 DEF ChannelType
<1> QED BY <1>3, <1>4 DEF q

\* A snapshot that is received.
LEMMA SnapshotType ==
    ASSUME NEW x \in Item, x.kind = "tlm"
    PROVE  x.side \in Sides /\ x.series \in Series /\ x.nr \in Nat
  BY DEF Item, Noise

LEMMA InitType == Init => TypeInv
<1> SUFFICES ASSUME Init PROVE TypeInv
  OBVIOUS
<1>1. TaskType
  BY DEF Init, TaskType
<1>2. SeriesType
  <2>1. <<>> \in Series
    BY StatHistoryAssumption DEF Series
  <2> QED BY <2>1 DEF Init, SeriesType
<1>3. ChannelType
  BY CapAssumption DEF Init, ChannelType, Subscribed
<1>4. BucketType
  BY EmptyBuckets DEF Init, BucketType
<1> QED BY <1>1, <1>2, <1>3, <1>4 DEF TypeInv

\* The step leaves the buckets alone.
SameBuckets == UNCHANGED <<hist, disk, pending>>

LEMMA NextType == TypeInv /\ [Next]_vars => TypeInv'
<1> SUFFICES ASSUME TypeInv, [Next]_vars PROVE TypeInv'
  OBVIOUS
<1>0. TaskType /\ SeriesType /\ ChannelType /\ BucketType /\ Period \in Nat
  BY StatHistoryAssumption DEF TypeInv
<1>1. ASSUME SameBuckets PROVE BucketType'
  BY <1>0, <1>1 DEF SameBuckets, BucketType
<1>2. CASE SecondPasses
  <2>1. TaskType'
    BY <1>0, <1>2 DEF SecondPasses, TaskType, producers
  <2> QED BY <1>0, <1>1, <1>2, <2>1 DEF SecondPasses, TypeInv, SameBuckets, SeriesType,
             ChannelType, producers, log
<1>3. CASE OtherItem
  <2>1. ChannelType'
    BY <1>0, <1>3, SendChannel DEF OtherItem, Item
  <2> QED BY <1>0, <1>1, <1>3, <2>1 DEF OtherItem, TypeInv, SameBuckets, SeriesType,
             TaskType, producers
<1>4. ASSUME NEW p \in Sides, ComesOnline(p) \/ GoesOffline(p) PROVE TypeInv'
  <2>1. online' \in [Sides -> BOOLEAN]
    BY <1>0, <1>4 DEF ComesOnline, GoesOffline, TaskType
  <2>2. UNCHANGED <<proc, now, due, count, series, rx, hist, pending, disk, ticks>>
    BY <1>4 DEF ComesOnline, GoesOffline, log
  <2> QED BY <1>0, <1>1, <2>1, <2>2 DEF TypeInv, SameBuckets, SeriesType, TaskType,
             ChannelType
<1>5. ASSUME NEW p \in Sides, Count(p) PROVE TypeInv'
  <2>1. count' \in [Sides -> Nat]
    BY <1>0, <1>5 DEF Count, TaskType
  <2>2. UNCHANGED <<proc, now, online, due, series, rx, hist, pending, disk, ticks>>
    BY <1>5 DEF Count
  <2> QED BY <1>0, <1>1, <2>1, <2>2 DEF TypeInv, SameBuckets, SeriesType, TaskType,
             ChannelType
<1>6. ASSUME NEW p \in Sides, Tick(p) PROVE TypeInv'
  <2>1. /\ UNCHANGED <<proc, now, online, hist, pending, disk>>
        /\ due' = [due EXCEPT ![p] = @ + Period]
        /\ count' = [count EXCEPT ![p] = 0]
        /\ ticks' = [ticks EXCEPT ![p] = @ + 1]
        /\ series' = [series EXCEPT
                        ![p] = Trimmed(Append(@, [ts |-> now, value |-> count[p]]))]
        /\ rx' = Send(rx, Snapshot(p, series'[p], ticks[p] + 1))
    BY <1>6 DEF Tick
  <2>2. TaskType'
    <3>1. due' \in [Sides -> Nat] /\ count' \in [Sides -> Nat]
      BY <1>0, <2>1 DEF TaskType
    <3> QED BY <1>0, <2>1, <3>1 DEF TaskType
  <2>3. series' \in [Sides -> Series] /\ ticks' \in [Sides -> Nat]
    <3>1. [ts |-> now, value |-> count[p]] \in Point
      BY <1>0 DEF TaskType, Point
    <3>2. Trimmed(Append(series[p], [ts |-> now, value |-> count[p]])) \in Series
      BY <1>0, <3>1, TrimmedSeries DEF SeriesType
    <3> QED BY <1>0, <2>1, <3>2 DEF SeriesType
  <2>4. Snapshot(p, series'[p], ticks[p] + 1) \in Item
    BY <1>0, <2>3 DEF Snapshot, Item, SeriesType
  <2>5. ChannelType'
    BY <1>0, <2>1, <2>4, SendChannel
  <2> QED BY <1>1, <2>1, <2>2, <2>3, <2>5 DEF TypeInv, SameBuckets, SeriesType
<1>7. CASE MergeSnapshot
  <2> DEFINE x == Head(rx.items)
             h == merge_series(hist, x.side, x.series)
             kept == Without(h, Expired(h, now))
  <2>1. /\ Ready(rx) /\ rx' = Taken(rx) /\ x.kind = "tlm" /\ hist' = kept /\ disk' = disk
        /\ pending' = [kind |-> "mirror", touched |-> Only(kept, KeysOf(x.series)),
                       pruned |-> Expired(h, now)]
        /\ UNCHANGED <<proc, now, online, due, count, series, ticks>>
    BY <1>7 DEF MergeSnapshot, producers
  <2>2. x \in Item /\ ChannelType'
    BY <1>0, <2>1, TakeChannel
  <2>3. x.side \in Sides /\ x.series \in Series
    BY <2>1, <2>2, SnapshotType
  <2> HIDE DEF x
  <2>4. h \in Buckets
    BY <1>0, <2>3, MergedBuckets DEF BucketType
  <2> HIDE DEF h
  <2>5. kept \in Buckets
    BY <2>4, FewerBuckets
  <2> HIDE DEF kept
  <2>6. Only(kept, KeysOf(x.series)) \in Buckets
    BY <2>5, FewerBuckets
  <2>7. pending'.touched \in Buckets
    BY <2>1, <2>6
  <2>8. BucketType'
    BY <1>0, <2>1, <2>5, <2>7 DEF BucketType
  <2> QED BY <1>0, <2>1, <2>2, <2>8 DEF TypeInv, TaskType, SeriesType
<1>8. CASE persist_history
  <2>1. /\ pending # Nothing /\ pending' = Nothing
        /\ UNCHANGED <<proc, now, online, due, count, series, rx, hist, ticks>>
    BY <1>8 DEF persist_history, producers
  <2>2. PICK u \in Outcomes, e \in Outcomes :
           LET d == IF u THEN Upserted(disk, pending.touched) ELSE disk
           IN  disk' = IF e THEN Without(d, pending.pruned) ELSE d
    BY <1>8 DEF persist_history
  <2>3. Upserted(disk, pending.touched) \in Buckets /\ disk \in Buckets
    BY <1>0, <2>1, UpsertedBuckets DEF BucketType
  <2>4. disk' \in Buckets
    BY <2>2, <2>3, FewerBuckets
  <2> QED BY <1>0, <2>1, <2>4 DEF TypeInv, TaskType, SeriesType, ChannelType, BucketType
<1>9. CASE ForwardOther
  <2>1. ChannelType'
    BY <1>0, <1>9, TakeChannel DEF ForwardOther
  <2> QED BY <1>0, <1>1, <1>9, <2>1 DEF ForwardOther, TypeInv, SameBuckets, SeriesType,
             TaskType, producers, log
<1>10. CASE SkipLagged
  <2>1. ChannelType'
    BY <1>0, <1>10 DEF SkipLagged, Relag, ChannelType
  <2> QED BY <1>0, <1>1, <1>10, <2>1 DEF SkipLagged, TypeInv, SameBuckets, SeriesType,
             TaskType, producers, log
<1>11. CASE Stop \/ Crash
  <2>1. /\ proc' = "down" /\ UNCHANGED <<now, due>> /\ MemoryGone
        /\ disk' = disk \/ disk' = Upserted(disk, hist)
    BY <1>11 DEF Stop, Crash
  <2>2. TaskType'
    BY <1>0, <2>1 DEF TaskType, MemoryGone
  <2>3. SeriesType'
    <3>1. <<>> \in Series
      BY StatHistoryAssumption DEF Series
    <3> QED BY <2>1, <3>1 DEF SeriesType, MemoryGone
  <2>4. ChannelType'
    BY <2>1, CapAssumption DEF ChannelType, MemoryGone, Subscribed
  <2>5. BucketType'
    BY <1>0, <2>1, EmptyBuckets, UpsertedBuckets DEF BucketType, MemoryGone
  <2> QED BY <2>2, <2>3, <2>4, <2>5 DEF TypeInv
<1>12. CASE Restart
  <2>1. /\ proc' = "up" /\ due' = [p \in Sides |-> now]
        /\ UNCHANGED <<now, online, count, series, rx, pending, ticks>>
    BY <1>12 DEF Restart
  <2>2. PICK l \in Outcomes, e \in Outcomes :
           LET restored == IF l THEN disk ELSE NoBuckets
               old == Expired(restored, now)
           IN  /\ hist' = Without(restored, old)
               /\ disk' = IF e THEN Without(disk, old) ELSE disk
    BY <1>12 DEF Restart
  <2>3. hist' \in Buckets /\ disk' \in Buckets
    BY <1>0, <2>2, EmptyBuckets, FewerBuckets DEF BucketType
  <2>4. TaskType'
    BY <1>0, <2>1 DEF TaskType
  <2> QED BY <1>0, <2>1, <2>3, <2>4 DEF TypeInv, SeriesType, ChannelType, BucketType
<1>13. CASE UNCHANGED vars
  BY <1>0, <1>1, <1>13 DEF vars, TypeInv, SameBuckets, TaskType, SeriesType, ChannelType
<1> QED BY <1>2, <1>3, <1>4, <1>5, <1>6, <1>7, <1>8, <1>9, <1>10, <1>11, <1>12, <1>13
        DEF Next

\* For every interval, number of points, retention and capacity: no series and no
\* channel outgrows its limit, and every bucket, in memory or on disk, starts on a
\* boundary.
THEOREM HistoryTypes == Spec => []TypeOK
<1>1. TypeInv => TypeOK
  <2> SUFFICES ASSUME TypeInv PROVE TypeOK
    OBVIOUS
  <2>1. \A h \in Buckets : IsBuckets(h)
    BY BucketsElements DEF IsBuckets, Boundaries
  <2>2. \A p \in Sides : /\ Len(series[p]) <= MaxPoints
                         /\ \A i \in DOMAIN series[p] : series[p][i] \in Point
    BY DEF TypeInv, SeriesType, Series
  <2> QED BY <2>1, <2>2 DEF TypeOK, TypeInv, TaskType, ChannelType, BucketType
<1> QED BY <1>1, InitType, NextType, PTL DEF Spec

-----------------------------------------------------------------------------
(* The chart.  Ticks that are on time are a period apart, so that each has *)
(* a bucket of its own, which later ticks leave alone: a snapshot of any   *)
(* age holds what was published into the buckets of its points.            *)

LEMMA Multiples ==
    /\ Period \in Nat \ {0}
    /\ \A a \in Int : a * Period \in Int /\ (a + 1) * Period = a * Period + Period
    /\ \A a, b \in Int : a <= b => a * Period <= b * Period
<1>1. Period \in Nat \ {0}
  BY StatHistoryAssumption
<1>2. ASSUME NEW a \in Int PROVE a * Period \in Int /\ (a + 1) * Period = a * Period + Period
  BY <1>1
<1>3. ASSUME NEW a \in Int, NEW b \in Int, a <= b PROVE a * Period <= b * Period
  BY <1>1, <1>3
<1> QED BY <1>1, <1>2, <1>3

\* A bucket is a multiple of the period, not more than a period before its times.
LEMMA BucketOf ==
    ASSUME NEW t \in Nat
    PROVE  \E q \in Nat : /\ BucketKey(t) = q * Period
                          /\ q * Period <= t /\ t < q * Period + Period
<1> DEFINE q == t \div Period
           r == t % Period
<1>1. Period \in Nat \ {0}
  BY StatHistoryAssumption
<1>2. q \in Nat /\ r \in 0 .. Period - 1 /\ t = Period * q + r
  BY <1>1
<1>3. BucketKey(t) = t - r
  BY DEF BucketKey
<1> HIDE DEF q, r
<1>4. q * Period = Period * q /\ q * Period \in Int
  BY <1>1, <1>2
<1> DEFINE m == q * Period
<1>5. m \in Int /\ t = m + r
  BY <1>2, <1>4
<1> HIDE DEF m
<1>6. BucketKey(t) = m /\ m <= t /\ t < m + Period
  BY <1>1, <1>2, <1>3, <1>5
<1> QED BY <1>2, <1>6 DEF m

LEMMA BucketsInOrder ==
    ASSUME NEW t \in Nat, NEW u \in Nat, t <= u
    PROVE  BucketKey(t) <= BucketKey(u)
<1>1. PICK a \in Nat : BucketKey(t) = a * Period /\ a * Period <= t
  BY BucketOf
<1>2. PICK b \in Nat : BucketKey(u) = b * Period /\ u < b * Period + Period
  BY BucketOf
<1>3. CASE b + 1 <= a
  <2>1. /\ (b + 1) * Period <= a * Period /\ (b + 1) * Period = b * Period + Period
        /\ a * Period \in Int /\ b * Period \in Int /\ Period \in Int
    BY <1>3, Multiples
  <2> QED BY <1>1, <1>2, <2>1
<1>4. CASE a <= b
  BY <1>1, <1>2, <1>4, Multiples
<1> QED BY <1>3, <1>4

LEMMA BucketsApart ==
    ASSUME NEW t \in Nat, NEW u \in Nat, t + Period <= u
    PROVE  BucketKey(t) < BucketKey(u)
<1>1. PICK a \in Nat : BucketKey(t) = a * Period /\ a * Period <= t
  BY BucketOf
<1>2. PICK b \in Nat : BucketKey(u) = b * Period /\ u < b * Period + Period
  BY BucketOf
<1>3. CASE b <= a
  <2>1. /\ b * Period <= a * Period
        /\ a * Period \in Int /\ b * Period \in Int /\ Period \in Int
    BY <1>3, Multiples
  <2> QED BY <1>1, <1>2, <2>1
<1>4. CASE a + 1 <= b
  <2>1. /\ (a + 1) * Period <= b * Period /\ (a + 1) * Period = a * Period + Period
        /\ a * Period \in Int /\ b * Period \in Int /\ Period \in Nat \ {0}
    BY <1>4, Multiples
  <2> QED BY <1>1, <1>2, <2>1
<1> QED BY <1>3, <1>4

-----------------------------------------------------------------------------

\* When the side made its m-th tick of this run, if none was late, and the bucket
\* that this tick counted into.
Time(p, m) == due[p] - (ticks[p] + 1 - m) * Period
Key(p, m) == BucketKey(Time(p, m))

\* No tick is late, and the first was not before the beginning of time.
OnTime ==
    \A p \in Sides : /\ proc = "up" => now <= due[p]
                     /\ ticks[p] * Period <= due[p]

\* Each tick has published into a bucket of its own.
PublishedByTick ==
    /\ published = [p \in Sides |-> published[p]]
    /\ \A p \in Sides : /\ DOMAIN published[p] = {Key(p, m) : m \in 1 .. ticks[p]}
                        /\ \A k \in DOMAIN published[p] : published[p][k] \in Nat

\* s is the series that the m-th tick sent: what the last ticks up to it published.
Window(p, s, m) ==
    /\ m \in 0 .. ticks[p]
    /\ Len(s) = IF m < MaxPoints THEN m ELSE MaxPoints
    /\ \A i \in 1 .. Len(s) : /\ s[i].ts = Time(p, m - Len(s) + i)
                              /\ s[i].value = published[p][Key(p, m - Len(s) + i)]

SeriesWindow == \A p \in Sides : Window(p, series[p], ticks[p])

Items(r) == {r.items[i] : i \in DOMAIN r.items}

QueueWindows ==
    \A x \in Items(rx) : x.kind = "tlm" => Window(x.side, x.series, x.nr)

Charted(p, k) == k \in DOMAIN hist /\ hist[k][p] = published[p][k]

\* Without a gap, all ticks up to the last snapshot merged are charted.
Charts ==
    /\ merged \in [Sides -> Nat] /\ gapped \in [Sides -> BOOLEAN]
    /\ \A p \in Sides :
          /\ merged[p] <= ticks[p]
          /\ ~gapped[p] => \A m \in 1 .. merged[p] :
                              Key(p, m) >= Cutoff(now) => Charted(p, Key(p, m))

\* A process that is gone has not ticked and leaves no snapshot.
NoTicksDown == proc = "down" => Items(rx) = {} /\ \A p \in Sides : ticks[p] = 0

ChartInv ==
    /\ OnTime /\ PublishedByTick /\ SeriesWindow /\ QueueWindows
    /\ Charts /\ NoTicksDown

\* The times and the buckets of the ticks.
LEMMA TickTimes ==
    ASSUME TypeInv, OnTime, NEW p \in Sides
    PROVE  /\ \A m \in Int : Time(p, m) \in Int
           /\ \A m \in 1 .. ticks[p] + 1 : Time(p, m) \in Nat
           /\ \A i, j \in 1 .. ticks[p] + 1 : i < j => Key(p, i) < Key(p, j)
           /\ Time(p, ticks[p] + 1) = due[p]
<1>1. ticks[p] \in Nat /\ due[p] \in Nat /\ ticks[p] * Period <= due[p]
  BY DEF TypeInv, TaskType, SeriesType, OnTime
<1>2. Period \in Nat \ {0}
  BY Multiples
<1>3. ASSUME NEW m \in Int PROVE Time(p, m) \in Int
  <2>1. (ticks[p] + 1 - m) * Period \in Int
    BY <1>1, Multiples
  <2> QED BY <1>1, <2>1 DEF Time
<1>4. ASSUME NEW m \in 1 .. ticks[p] + 1 PROVE Time(p, m) \in Nat
  <2>1. ticks[p] + 1 - m \in Int /\ ticks[p] + 1 - m <= ticks[p]
    BY <1>1
  <2>2. /\ (ticks[p] + 1 - m) * Period <= ticks[p] * Period
        /\ (ticks[p] + 1 - m) * Period \in Int /\ ticks[p] * Period \in Int
    BY <1>1, <2>1, Multiples
  <2> QED BY <1>1, <2>2 DEF Time
<1>5. ASSUME NEW i \in 1 .. ticks[p] + 1, NEW j \in 1 .. ticks[p] + 1, i < j
      PROVE  Key(p, i) < Key(p, j)
  <2> DEFINE a == ticks[p] + 1 - j
             b == ticks[p] + 1 - i
  <2>1. a \in Int /\ b \in Int /\ a + 1 <= b
    BY <1>1, <1>5
  <2>2. Time(p, j) = due[p] - a * Period /\ Time(p, i) = due[p] - b * Period
    BY DEF Time
  <2> HIDE DEF a, b
  <2>3. /\ (a + 1) * Period <= b * Period /\ (a + 1) * Period = a * Period + Period
        /\ a * Period \in Int /\ b * Period \in Int
    BY <2>1, Multiples
  <2>4. Time(p, i) + Period <= Time(p, j)
    BY <1>1, <1>2, <2>2, <2>3
  <2>5. Time(p, i) \in Nat /\ Time(p, j) \in Nat
    BY <1>4
  <2> QED BY <2>4, <2>5, BucketsApart DEF Key
<1>6. Time(p, ticks[p] + 1) = due[p]
  BY <1>1, <1>2 DEF Time
<1> QED BY <1>3, <1>4, <1>5, <1>6

\* A window stays one when the ticks it holds have the same times and sums.
LEMMA SameWindow ==
    ASSUME NEW p \in Sides, NEW s \in Series, NEW m, Window(p, s, m),
           ticks[p] \in Nat, ticks'[p] \in Nat, ticks[p] <= ticks'[p],
           \A j \in 1 .. ticks[p] : /\ Time(p, j)' = Time(p, j)
                                    /\ Key(p, j)' = Key(p, j)
                                    /\ published'[p][Key(p, j)] = published[p][Key(p, j)]
    PROVE  Window(p, s, m)'
<1>1. m \in 0 .. ticks[p] /\ Len(s) \in Nat /\ MaxPoints \in Nat
  BY StatHistoryAssumption DEF Window, Series
<1>2. Len(s) <= m
  BY <1>1 DEF Window
<1>3. ASSUME NEW i \in 1 .. Len(s)
      PROVE  /\ s[i].ts = Time(p, m - Len(s) + i)'
             /\ s[i].value = published'[p][Key(p, m - Len(s) + i)']
  <2>1. m - Len(s) + i \in 1 .. ticks[p]
    BY <1>1, <1>2
  <2> QED BY <1>3, <2>1 DEF Window
<1>4. m \in 0 .. ticks'[p]
  BY <1>1
<1> QED BY <1>3, <1>4 DEF Window

\* What the operations of the channel leave in it.
LEMMA SendItems ==
    ASSUME ChannelType, NEW x
    PROVE  Items(Send(rx, x)) \subseteq Items(rx) \cup {x}
<1> DEFINE q == rx.items
<1>1. q \in Seq(Item) /\ Len(q) \in Nat /\ Cap \in Nat \ {0}
      /\ rx = [items |-> q, missed |-> rx.missed]
  BY CapAssumption DEF ChannelType
<1>2. CASE Len(q) < Cap
  <2>1. Send(rx, x).items = Append(q, x)
    BY <1>1, <1>2 DEF Send
  <2> QED BY <1>1, <2>1 DEF Items
<1>3. CASE ~(Len(q) < Cap)
  <2>1. Send(rx, x).items = Append(Tail(q), x)
    BY <1>3 DEF Send
  <2>2. q # <<>>
    BY <1>1, <1>3
  <2> DEFINE u == Tail(q)
  <2>3. u \in Seq(Item) /\ Len(u) = Len(q) - 1 /\ \A i \in 1 .. Len(u) : u[i] = q[i + 1]
    BY <1>1, <2>2
  <2> HIDE DEF u, q
  <2>4. ASSUME NEW i \in DOMAIN Append(u, x)
        PROVE  Append(u, x)[i] = x \/ \E j \in DOMAIN q : Append(u, x)[i] = q[j]
    <3>1. i \in 1 .. Len(u) + 1
      BY <2>3
    <3>2. CASE i = Len(u) + 1
      BY <2>3, <3>2
    <3>3. CASE i \in 1 .. Len(u)
      <4>1. Append(u, x)[i] = q[i + 1] /\ i + 1 \in 1 .. Len(q)
        BY <1>1, <2>3, <3>3
      <4> QED BY <1>1, <4>1
    <3> QED BY <2>3, <3>1, <3>2, <3>3
  <2> QED BY <2>1, <2>4 DEF Items, u, q
<1> QED BY <1>2, <1>3

LEMMA TakeItems ==
    ASSUME ChannelType, Ready(rx)
    PROVE  Head(rx.items) \in Items(rx) /\ Items(Taken(rx)) \subseteq Items(rx)
<1> DEFINE q == rx.items
<1>1. q \in Seq(Item) /\ Len(q) \in Nat /\ q # <<>>
      /\ rx = [items |-> q, missed |-> rx.missed]
  BY DEF ChannelType, Ready
<1>2. Taken(rx).items = Tail(q)
  BY <1>1 DEF Taken
<1> HIDE DEF q
<1>3. Head(q) = q[1] /\ 1 \in DOMAIN q
  BY <1>1
<1>4. \A i \in DOMAIN Tail(q) : Tail(q)[i] = q[i + 1] /\ i + 1 \in DOMAIN q
  BY <1>1
<1> QED BY <1>2, <1>3, <1>4 DEF Items, q

\* The step leaves the ticks of this run alone.
SamePast == UNCHANGED <<due, ticks, published>>

\* In such a step windows stay windows.
LEMMA PastWindows ==
    ASSUME TypeInv, ChartInv, SamePast, Items(rx)' \subseteq Items(rx) \cup {Noise},
           series' = series
    PROVE  PublishedByTick' /\ SeriesWindow' /\ QueueWindows'
<1>1. \A p, m : Time(p, m)' = Time(p, m) /\ Key(p, m)' = Key(p, m)
  BY DEF SamePast, Time, Key, BucketKey
<1>2. UNCHANGED <<published, ticks>>
  BY DEF SamePast
<1>3. PublishedByTick'
  BY <1>1, <1>2 DEF ChartInv, PublishedByTick
<1>4. \A p, s, m : Window(p, s, m)' <=> Window(p, s, m)
  BY <1>1, <1>2 DEF Window
<1>5. SeriesWindow'
  BY <1>2, <1>4 DEF ChartInv, SeriesWindow
<1>6. QueueWindows'
  BY <1>4 DEF ChartInv, QueueWindows, Noise
<1> QED BY <1>3, <1>5, <1>6

\* The windows of a tick.
LEMMA TickWindow ==
    ASSUME NEW p \in Sides, NEW s \in Series, NEW n \in Nat, Window(p, s, n),
           NEW x, ticks'[p] = n + 1, ticks[p] = n,
           \A j \in 1 .. n : /\ Time(p, j)' = Time(p, j)
                             /\ Key(p, j)' = Key(p, j)
                             /\ published'[p][Key(p, j)] = published[p][Key(p, j)],
           x.ts = Time(p, n + 1)', x.value = published'[p][Key(p, n + 1)']
    PROVE  Window(p, Trimmed(Append(s, x)), n + 1)'
<1> DEFINE a == Append(s, x)
           l == Len(s)
<1>t. PICK t : t = Trimmed(a)
  OBVIOUS
<1>w. SUFFICES Window(p, t, n + 1)'
  BY <1>t
<1>1. MaxPoints \in Nat \ {0} /\ l \in Nat /\ s \in Seq(Point)
  BY StatHistoryAssumption DEF Series
<1>2. l = IF n < MaxPoints THEN n ELSE MaxPoints
  BY DEF Window
<1>3. Len(a) = l + 1 /\ a[l + 1] = x /\ \A i \in 1 .. l : a[i] = s[i]
  BY <1>1
<1>4. ASSUME NEW i \in 1 .. l + 1
      PROVE  /\ a[i].ts = Time(p, n - l + i)'
             /\ a[i].value = published'[p][Key(p, n - l + i)']
  <2>1. CASE i = l + 1
    BY <1>1, <1>3, <2>1
  <2>2. CASE i \in 1 .. l
    <3>1. n - l + i \in 1 .. n
      BY <1>1, <1>2, <2>2
    <3>2. s[i].ts = Time(p, n - l + i) /\ s[i].value = published[p][Key(p, n - l + i)]
      BY <2>2 DEF Window
    <3> QED BY <1>3, <2>2, <3>1, <3>2
  <2> QED BY <1>1, <2>1, <2>2
<1>5. n + 1 \in 0 .. ticks'[p]
  OBVIOUS
<1>6. CASE n < MaxPoints
  <2>1. t = a /\ Len(a) = n + 1
    BY <1>1, <1>2, <1>3, <1>6, <1>t DEF Trimmed
  <2>2. Len(t) = IF n + 1 < MaxPoints THEN n + 1 ELSE MaxPoints
    BY <1>1, <1>6, <2>1
  <2>3. \A i \in 1 .. Len(t) : (n + 1) - Len(t) + i = n - l + i
    BY <1>1, <1>2, <1>6, <2>1
  <2> HIDE DEF a
  <2> QED BY <1>2, <1>4, <1>5, <1>6, <2>1, <2>2, <2>3 DEF Window
<1>7. CASE ~(n < MaxPoints)
  <2>1. t = Tail(a) /\ l = MaxPoints
    BY <1>1, <1>2, <1>3, <1>7, <1>t DEF Trimmed
  <2>2. s \in Seq({s[i] : i \in 1 .. l}) /\ a \in Seq({s[i] : i \in 1 .. l} \cup {x})
    BY <1>1
  <2>3. Len(t) = l /\ \A i \in 1 .. l : t[i] = a[i + 1]
    <3> HIDE DEF a
    <3>1. a # <<>>
      BY <1>1, <1>3
    <3> QED BY <1>1, <1>3, <2>1, <2>2, <3>1
  <2>4. Len(t) = IF n + 1 < MaxPoints THEN n + 1 ELSE MaxPoints
    BY <1>1, <1>7, <2>1, <2>3
  <2>5. ASSUME NEW i \in 1 .. Len(t)
        PROVE  /\ t[i].ts = Time(p, (n + 1) - Len(t) + i)'
               /\ t[i].value = published'[p][Key(p, (n + 1) - Len(t) + i)']
    <3>1. i + 1 \in 1 .. l + 1 /\ n - l + (i + 1) = (n + 1) - Len(t) + i
      BY <1>1, <2>3
    <3>2. /\ a[i + 1].ts = Time(p, n - l + (i + 1))'
          /\ a[i + 1].value = published'[p][Key(p, n - l + (i + 1))']
      BY <1>4, <3>1
    <3> QED BY <2>3, <3>1, <3>2
  <2> HIDE DEF a, l
  <2> QED BY <1>5, <2>4, <2>5 DEF Window
<1> QED BY <1>6, <1>7

\* A tick that is on time counts into a bucket no tick before it has counted into.
LEMMA TickCharts ==
    ASSUME TypeInv, ChartInv, NEW p \in Sides, Tick(p)
    PROVE  ChartInv'
<1>n. PICK n \in Nat : n = ticks[p]
  BY DEF TypeInv, SeriesType
<1> DEFINE k0 == Key(p, n + 1)
           x == [ts |-> now, value |-> count[p]]
<1>0. OnTime /\ PublishedByTick /\ SeriesWindow /\ QueueWindows /\ Charts
  BY DEF ChartInv
<1>1. /\ proc = "up" /\ due[p] <= now
      /\ due' = [due EXCEPT ![p] = @ + Period]
      /\ ticks' = [ticks EXCEPT ![p] = @ + 1]
      /\ series' = [series EXCEPT ![p] = Trimmed(Append(@, x))]
      /\ rx' = Send(rx, Snapshot(p, series'[p], n + 1))
      /\ published' = [published EXCEPT ![p] = Summed(@, now, count[p])]
      /\ UNCHANGED <<proc, now, hist, merged, gapped>>
  BY <1>n DEF Tick
<1>2. /\ due \in [Sides -> Nat] /\ ticks \in [Sides -> Nat] /\ count \in [Sides -> Nat]
      /\ now \in Nat /\ series \in [Sides -> Series] /\ Period \in Nat
  BY Multiples DEF TypeInv, TaskType, SeriesType
<1>3. now = due[p]
  <2>1. now \in Nat /\ due[p] \in Nat /\ due[p] <= now
    BY <1>1, <1>2
  <2>2. now <= due[p]
    BY <1>0, <1>1 DEF OnTime
  <2> QED BY <2>1, <2>2
<1>4. \A q \in Sides : /\ due'[q] = IF q = p THEN due[q] + Period ELSE due[q]
                       /\ ticks'[q] = IF q = p THEN ticks[q] + 1 ELSE ticks[q]
  BY <1>1, <1>2
<1>5. ASSUME NEW q \in Sides, NEW m \in Int
      PROVE  Time(q, m)' = Time(q, m) /\ Key(q, m)' = Key(q, m)
  <2>1. CASE q = p
    <3> DEFINE a == n + 1 - m
    <3>1. a \in Int /\ n + 1 + 1 - m = a + 1
      BY <1>2
    <3>2. (a + 1) * Period = a * Period + Period /\ a * Period \in Int
      BY <3>1, Multiples
    <3>3. Time(q, m) = due[p] - a * Period
      BY <1>n, <2>1 DEF Time
    <3>4. Time(q, m)' = (due[p] + Period) - (a + 1) * Period
      BY <1>4, <1>n, <2>1, <3>1 DEF Time
    <3> HIDE DEF a
    <3>5. Time(q, m)' = Time(q, m)
      BY <1>2, <3>2, <3>3, <3>4
    <3> QED BY <3>5 DEF Key, BucketKey
  <2>2. CASE q # p
    BY <1>4, <2>2 DEF Time, Key, BucketKey
  <2> QED BY <2>1, <2>2
<1>6. k0 = BucketKey(now) /\ Time(p, n + 1) = now
  BY <1>0, <1>3, <1>n, TickTimes DEF Key
<1>7. k0 \notin DOMAIN published[p]
  <2> SUFFICES ASSUME NEW m \in 1 .. n, k0 = Key(p, m) PROVE FALSE
    BY <1>0, <1>n DEF PublishedByTick
  <2>1. m \in 1 .. n + 1 /\ n + 1 \in 1 .. n + 1 /\ m < n + 1
    BY <1>2
  <2>2. Key(p, m) < k0
    BY <1>0, <1>n, <2>1, TickTimes
  <2>3. k0 \in Nat
    BY <1>2, <1>6, BucketKeyType DEF Boundaries
  <2> QED BY <2>2, <2>3
<1>8. /\ published'[p] = Summed(published[p], now, count[p])
      /\ \A q \in Sides : q # p => published'[q] = published[q]
      /\ published' = [q \in Sides |-> published'[q]]
  BY <1>0, <1>1 DEF PublishedByTick
<1>9. /\ DOMAIN published'[p] = DOMAIN published[p] \cup {k0}
      /\ published'[p][k0] = count[p]
      /\ \A k \in DOMAIN published[p] : published'[p][k] = published[p][k]
  <2>1. \A k \in DOMAIN published[p] : published[p][k] \in Nat
    BY <1>0 DEF PublishedByTick
  <2>2. count[p] \in Nat
    BY <1>2
  <2>3. published'[p] = [k \in DOMAIN published[p] \cup {k0} |->
           (IF k \in DOMAIN published[p] THEN published[p][k] ELSE 0)
           + (IF k = k0 THEN count[p] ELSE 0)]
    BY <1>6, <1>8 DEF Summed
  <2> HIDE DEF k0
  <2> QED BY <1>7, <2>1, <2>2, <2>3
<1> HIDE DEF k0
<1>10. ASSUME NEW q \in Sides, NEW j \in 1 .. ticks[q]
       PROVE  published'[q][Key(q, j)] = published[q][Key(q, j)]
  <2>1. Key(q, j) \in DOMAIN published[q]
    BY <1>0 DEF PublishedByTick
  <2> QED BY <1>8, <1>9, <2>1
<1>11. OnTime'
  <2> SUFFICES ASSUME NEW q \in Sides
               PROVE  (proc' = "up" => now' <= due'[q]) /\ ticks'[q] * Period <= due'[q]
    BY DEF OnTime
  <2>1. now <= due[q] /\ ticks[q] * Period <= due[q]
    BY <1>0, <1>1 DEF OnTime
  <2>2. ticks[q] * Period \in Int /\ (ticks[q] + 1) * Period = ticks[q] * Period + Period
        /\ due[q] \in Nat
    BY <1>2, Multiples
  <2> QED BY <1>1, <1>2, <1>4, <2>1, <2>2
<1>12. PublishedByTick'
  <2> SUFFICES ASSUME NEW q \in Sides
               PROVE  /\ DOMAIN published'[q] = {Key(q, m)' : m \in 1 .. ticks'[q]}
                      /\ \A k \in DOMAIN published'[q] : published'[q][k] \in Nat
    BY <1>8 DEF PublishedByTick
  <2>1. /\ DOMAIN published[q] = {Key(q, m) : m \in 1 .. ticks[q]}
        /\ \A k \in DOMAIN published[q] : published[q][k] \in Nat
    BY <1>0 DEF PublishedByTick
  <2>2. {Key(q, m)' : m \in 1 .. ticks'[q]} = {Key(q, m) : m \in 1 .. ticks'[q]}
    BY <1>5
  <2>3. CASE q # p
    BY <1>4, <1>8, <2>1, <2>2, <2>3
  <2>4. CASE q = p
    <3>1. 1 .. ticks'[q] = (1 .. n) \cup {n + 1}
      <4>1. ticks'[q] = n + 1
        BY <1>4, <1>n, <2>4
      <4> QED BY <4>1
    <3>2. {Key(p, m) : m \in 1 .. ticks'[q]} = {Key(p, m) : m \in 1 .. n} \cup {Key(p, n + 1)}
      BY <3>1
    <3>3. count[p] \in Nat
      BY <1>2
    <3> QED BY <1>9, <1>n, <2>1, <2>2, <2>4, <3>2, <3>3 DEF k0
  <2> QED BY <2>3, <2>4
<1>13. ASSUME NEW q \in Sides, NEW s \in Series, NEW m, Window(q, s, m)
       PROVE  Window(q, s, m)'
  <2>1. ticks[q] \in Nat /\ ticks'[q] \in Nat /\ ticks[q] <= ticks'[q]
    BY <1>2, <1>4
  <2>2. \A j \in 1 .. ticks[q] : Time(q, j)' = Time(q, j) /\ Key(q, j)' = Key(q, j)
    BY <1>5
  <2> QED BY <1>10, <1>13, <2>1, <2>2, SameWindow
<1>14. PICK w \in Series : w = series'[p]
  <2>1. series'[p] = Trimmed(Append(series[p], x)) /\ series[p] \in Series
    BY <1>1, <1>2
  <2>2. x \in Point
    BY <1>2 DEF Point
  <2> QED BY <2>1, <2>2, TrimmedSeries
<1>15. Window(p, w, n + 1)'
  <2>y. PICK y : y = x
    OBVIOUS
  <2>s. PICK s \in Series : s = series[p]
    BY <1>2
  <2>1. s = series[p] /\ y = x
    BY <2>s, <2>y
  <2>2. Window(p, s, n) /\ w = Trimmed(Append(s, y))
    BY <1>0, <1>1, <1>2, <1>14, <1>n, <2>1 DEF SeriesWindow
  <2>3. \A j \in 1 .. n : /\ Time(p, j)' = Time(p, j) /\ Key(p, j)' = Key(p, j)
                          /\ published'[p][Key(p, j)] = published[p][Key(p, j)]
    BY <1>5, <1>10, <1>n
  <2>4. Time(p, n + 1)' = now /\ Key(p, n + 1)' = k0
    BY <1>5, <1>6 DEF k0
  <2>5. y.ts = Time(p, n + 1)' /\ y.value = published'[p][Key(p, n + 1)']
    BY <1>9, <2>1, <2>4
  <2>6. ticks'[p] = n + 1 /\ ticks[p] = n
    BY <1>4, <1>n
  <2>7. Window(p, Trimmed(Append(s, y)), n + 1)'
    BY <2>2, <2>3, <2>5, <2>6, TickWindow
  <2> QED BY <2>2, <2>7
<1>16. SeriesWindow'
  <2> SUFFICES ASSUME NEW q \in Sides PROVE Window(q, series[q], ticks[q])'
    BY DEF SeriesWindow
  <2>1. CASE q = p
    <3>1. (Window(q, series[q], ticks[q]) <=> Window(p, w, n + 1))'
      BY <1>4, <1>14, <1>n, <2>1
    <3> QED BY <1>15, <3>1
  <2>2. CASE q # p
    <3>1. PICK s \in Series, m \in Nat : s = series[q] /\ m = ticks[q]
      BY <1>2
    <3>2. series'[q] = s /\ ticks'[q] = m
      BY <1>1, <1>2, <1>4, <2>2, <3>1
    <3>3. Window(q, s, m)'
      BY <1>0, <1>13, <3>1 DEF SeriesWindow
    <3> QED BY <3>2, <3>3
  <2> QED BY <2>1, <2>2
<1>17. QueueWindows'
  <2>1. PICK z : z = Snapshot(p, w, n + 1)
    OBVIOUS
  <2>2. Items(rx)' \subseteq Items(rx) \cup {z}
    <3>1. rx' = Send(rx, z)
      BY <1>1, <1>14, <2>1
    <3>2. Items(rx)' = Items(Send(rx, z))
      BY <3>1 DEF Items
    <3>3. Items(Send(rx, z)) \subseteq Items(rx) \cup {z}
      BY SendItems DEF TypeInv
    <3> QED BY <3>2, <3>3
  <2>3. Items(rx) \subseteq Item
    BY DEF TypeInv, ChannelType, Items
  <2> SUFFICES ASSUME NEW y \in Items(rx)', y.kind = "tlm"
               PROVE  Window(y.side, y.series, y.nr)'
    BY DEF QueueWindows
  <2>4. CASE y = z
    BY <1>15, <2>1, <2>4 DEF Snapshot
  <2>5. CASE y \in Items(rx)
    <3>1. y.side \in Sides /\ y.series \in Series
      BY <2>3, <2>5, SnapshotType
    <3> QED BY <1>0, <1>13, <2>5, <3>1 DEF QueueWindows
  <2> QED BY <2>2, <2>4, <2>5
<1>18. Charts'
  <2>1. UNCHANGED <<merged, gapped, hist, now>>
    BY <1>1
  <2> SUFFICES ASSUME NEW q \in Sides
               PROVE  /\ merged[q] <= ticks'[q]
                      /\ ~gapped[q] => \A m \in 1 .. merged[q] :
                           Key(q, m)' >= Cutoff(now) => Charted(q, Key(q, m))'
    BY <1>0, <2>1 DEF Charts, Cutoff, BucketKey
  <2>2. merged[q] \in Nat /\ ticks[q] \in Nat /\ merged[q] <= ticks[q]
    BY <1>0, <1>2 DEF Charts
  <2>3. ASSUME ~gapped[q], NEW m \in 1 .. merged[q], Key(q, m) >= Cutoff(now)
        PROVE  Charted(q, Key(q, m))'
    <3>1. PICK k : k = Key(q, m)
      OBVIOUS
    <3>2. Charted(q, k) /\ m \in 1 .. ticks[q]
      BY <1>0, <2>2, <2>3, <3>1 DEF Charts
    <3>3. published'[q][k] = published[q][k] /\ Key(q, m)' = k
      BY <1>5, <1>10, <3>1, <3>2
    <3> QED BY <2>1, <3>2, <3>3 DEF Charted
  <2>4. \A m \in 1 .. merged[q] : Key(q, m)' = Key(q, m)
    BY <1>5
  <2> QED BY <1>4, <2>2, <2>3, <2>4
<1>19. NoTicksDown'
  BY <1>1 DEF NoTicksDown
<1> QED BY <1>11, <1>12, <1>16, <1>17, <1>18, <1>19 DEF ChartInv

\* What a snapshot of any age has in its buckets.
LEMMA WindowValues ==
    ASSUME TypeInv, OnTime, NEW p \in Sides, NEW s \in Series, NEW m, Window(p, s, m)
    PROVE  /\ \A k \in KeysOf(s) : LastValue(s, k) = published[p][k]
           /\ \A j \in 1 .. m : j > m - Len(s) => Key(p, j) \in KeysOf(s)
<1> DEFINE l == Len(s)
<1>1. /\ l \in Nat /\ DOMAIN s = 1 .. l /\ MaxPoints \in Nat
      /\ ticks[p] \in Nat /\ m \in 0 .. ticks[p]
  BY StatHistoryAssumption DEF Series, TypeInv, SeriesType, Window
<1>2. l = IF m < MaxPoints THEN m ELSE MaxPoints
  BY DEF Window
<1>3. \A i \in 1 .. l : /\ s[i].ts = Time(p, m - l + i)
                        /\ s[i].value = published[p][Key(p, m - l + i)]
  BY DEF Window
<1> HIDE DEF l
<1>4. \A i \in 1 .. l : m - l + i \in 1 .. ticks[p] + 1
  BY <1>1, <1>2
<1>5. \A i \in 1 .. l : BucketKey(s[i].ts) = Key(p, m - l + i)
  BY <1>3 DEF Key
<1>6. ASSUME NEW k \in KeysOf(s) PROVE LastValue(s, k) = published[p][k]
  <2>1. PICK i \in 1 .. l : k = BucketKey(s[i].ts)
    BY <1>1 DEF KeysOf
  <2>2. ASSUME NEW j \in 1 .. l, BucketKey(s[j].ts) = k PROVE j = i
    <3> DEFINE a == m - l + i
               b == m - l + j
    <3>1. a \in 1 .. ticks[p] + 1 /\ b \in 1 .. ticks[p] + 1
      BY <1>4
    <3>2. Key(p, a) = Key(p, b)
      BY <1>5, <2>1, <2>2
    <3>3. Key(p, a) \in Nat
      <4>1. Time(p, a) \in Nat
        BY <3>1, TickTimes
      <4> QED BY <4>1, BucketKeyType DEF Key, Boundaries
    <3>4. ~(a < b) /\ ~(b < a)
      BY <3>1, <3>2, <3>3, TickTimes
    <3> QED BY <1>1, <3>1, <3>4
  <2>3. {j \in DOMAIN s : BucketKey(s[j].ts) = k} = {i}
    BY <1>1, <2>1, <2>2
  <2>4. Max({i}) = i
    BY DEF Max
  <2>5. LastValue(s, k) = s[i].value
    BY <2>3, <2>4 DEF LastValue
  <2> QED BY <1>3, <1>5, <2>1, <2>5
<1>7. ASSUME NEW j \in 1 .. m, j > m - l PROVE Key(p, j) \in KeysOf(s)
  <2>1. PICK i \in 1 .. l : m - l + i = j
    <3>1. j - m + l \in 1 .. l /\ m - l + (j - m + l) = j
      BY <1>1, <1>2, <1>7
    <3> QED BY <3>1
  <2> QED BY <1>1, <1>5, <2>1 DEF KeysOf
<1> QED BY <1>6, <1>7 DEF l

\* A merge charts the window, and what it leaves out was charted before or is gapped.
LEMMA MergeCharts ==
    ASSUME TypeInv, ChartInv, MergeSnapshot
    PROVE  ChartInv'
<1>x. PICK x : x = Head(rx.items)
  OBVIOUS
<1>p. PICK p, s, n : p = x.side /\ s = x.series /\ n = x.nr
  OBVIOUS
<1> DEFINE h == merge_series(hist, p, s)
<1>0. OnTime /\ SeriesWindow /\ QueueWindows /\ Charts
  BY DEF ChartInv
<1>1. /\ proc = "up" /\ Ready(rx) /\ x.kind = "tlm" /\ rx' = Taken(rx)
      /\ hist' = Without(h, Expired(h, now))
      /\ merged' = [merged EXCEPT ![p] = n]
      /\ gapped' = [gapped EXCEPT ![p] = @ \/ n > merged[p] + MaxPoints]
      /\ UNCHANGED <<proc, now, due, series, published, ticks>>
  BY <1>x, <1>p DEF MergeSnapshot, producers
<1>2. x \in Items(rx) /\ Items(Taken(rx)) \subseteq Items(rx)
  BY <1>1, <1>x, TakeItems DEF TypeInv
<1>3. p \in Sides /\ s \in Series /\ Window(p, s, n)
  <2>1. x \in Item
    BY <1>2 DEF TypeInv, ChannelType, Items
  <2> QED BY <1>0, <1>1, <1>2, <1>p, <2>1, SnapshotType DEF QueueWindows
<1>4. PublishedByTick' /\ SeriesWindow' /\ QueueWindows'
  <2>1. Items(rx)' = Items(Taken(rx))
    BY <1>1 DEF Items
  <2> QED BY <1>1, <1>2, <2>1, PastWindows DEF SamePast
<1>5. OnTime' /\ NoTicksDown'
  BY <1>0, <1>1 DEF OnTime, NoTicksDown
<1>6. \A q, m : Key(q, m)' = Key(q, m)
  BY <1>1 DEF Time, Key, BucketKey
<1>7. /\ merged \in [Sides -> Nat] /\ gapped \in [Sides -> BOOLEAN]
      /\ ticks[p] \in Nat /\ n \in 0 .. ticks[p] /\ MaxPoints \in Nat \ {0} /\ Len(s) \in Nat
      /\ Len(s) = IF n < MaxPoints THEN n ELSE MaxPoints
  BY <1>0, <1>3, StatHistoryAssumption DEF Charts, TypeInv, SeriesType, Window, Series
<1>8. /\ DOMAIN h = DOMAIN hist \cup KeysOf(s)
      /\ \A k \in DOMAIN hist : k \notin KeysOf(s) => h[k] = hist[k]
      /\ \A k \in KeysOf(s) : /\ h[k][p] = LastValue(s, k)
                              /\ \A q \in Sides : q # p => h[k][q] = BucketAt(hist, k)[q]
  <2>1. hist \in Buckets
    BY DEF TypeInv, BucketType
  <2>2. \A k \in DOMAIN hist : hist[k] \in [Sides -> Nat]
    BY <2>1, BucketsElements
  <2>3. \A k : BucketAt(hist, k) \in [Sides -> Nat]
    BY <2>2 DEF BucketAt, ZeroBucket
  <2>4. h = [k \in DOMAIN hist \cup KeysOf(s) |->
               IF k \in KeysOf(s) THEN [BucketAt(hist, k) EXCEPT ![p] = LastValue(s, k)]
                                  ELSE hist[k]]
    BY DEF merge_series
  <2> HIDE DEF h
  <2>5. \A k \in KeysOf(s) : h[k] = [BucketAt(hist, k) EXCEPT ![p] = LastValue(s, k)]
    BY <2>4
  <2> QED BY <1>3, <2>3, <2>4, <2>5
<1>9. \A k \in DOMAIN h : k >= Cutoff(now) /\ k \in Nat /\ Cutoff(now) \in Int
                              => k \in DOMAIN hist' /\ hist'[k] = h[k]
  <2> HIDE DEF h
  <2> QED BY <1>1 DEF Without, Expired
<1> HIDE DEF h
<1>10. Charts'
  <2>1. merged' \in [Sides -> Nat] /\ gapped' \in [Sides -> BOOLEAN]
    <3>1. PICK b \in BOOLEAN : b = (gapped[p] \/ n > merged[p] + MaxPoints)
      OBVIOUS
    <3>2. gapped' = [gapped EXCEPT ![p] = b]
      BY <1>1, <3>1
    <3>3. gapped' \in [Sides -> BOOLEAN]
      <4>1. gapped \in [Sides -> BOOLEAN]
        BY <1>7
      <4> QED BY <3>2, <4>1, Zenon
    <3>4. n \in Nat /\ merged' = [merged EXCEPT ![p] = n]
      BY <1>1, <1>7
    <3> QED BY <1>7, <3>3, <3>4
  <2> SUFFICES ASSUME NEW q \in Sides
               PROVE  /\ merged'[q] <= ticks[q]
                      /\ ~gapped'[q] => \A m \in 1 .. merged'[q] :
                            Key(q, m) >= Cutoff(now) => Charted(q, Key(q, m))'
    BY <1>1, <1>6, <2>1 DEF Charts, Cutoff, BucketKey
  <2>2. merged'[q] <= ticks[q]
    <3>1. CASE q = p
      BY <1>1, <1>7, <3>1
    <3>2. CASE q # p
      BY <1>0, <1>1, <1>7, <3>2 DEF Charts
    <3> QED BY <3>1, <3>2
  <2>3. ASSUME ~gapped'[q], NEW m \in 1 .. merged'[q], Key(q, m) >= Cutoff(now)
        PROVE  Charted(q, Key(q, m))'
    <3>1. PICK k : k = Key(q, m)
      OBVIOUS
    <3>2. k \in Nat /\ Cutoff(now) \in Int
      <4>1. ticks[q] \in Nat /\ merged'[q] \in Nat
        BY <2>1 DEF TypeInv, SeriesType
      <4>2. m \in 1 .. ticks[q] + 1
        BY <2>2, <4>1
      <4>3. Time(q, m) \in Nat /\ now \in Nat
        BY <1>0, <4>2, TickTimes DEF TypeInv, TaskType
      <4>4. BucketKey(now) \in Nat /\ Retention \in Nat
        BY <4>3, BucketKeyType, StatHistoryAssumption DEF Boundaries
      <4> QED BY <3>1, <4>3, <4>4, BucketKeyType DEF Key, Boundaries, Cutoff
    <3>3. SUFFICES k \in DOMAIN h /\ h[k][q] = published[q][k]
      BY <1>1, <1>6, <1>9, <2>3, <3>1, <3>2 DEF Charted
    <3>4. ASSUME ~gapped[q], m \in 1 .. merged[q]
          PROVE  k \in DOMAIN hist /\ hist[k][q] = published[q][k]
      BY <1>0, <2>3, <3>1, <3>4 DEF Charts, Charted
    <3>5. CASE q # p
      <4>1. merged'[q] = merged[q] /\ gapped'[q] = gapped[q]
        BY <1>1, <1>7, <3>5
      <4>2. k \in DOMAIN hist /\ hist[k][q] = published[q][k]
        BY <2>3, <3>4, <4>1
      <4>3. h[k][q] = hist[k][q]
        BY <1>8, <3>5, <4>2 DEF BucketAt
      <4> QED BY <1>8, <4>2, <4>3
    <3>6. CASE q = p /\ k \in KeysOf(s)
      BY <1>0, <1>3, <1>8, <3>6, WindowValues
    <3>7. CASE q = p /\ k \notin KeysOf(s)
      <4>1. merged'[q] = n /\ ~gapped[q] /\ ~(n > merged[q] + MaxPoints) /\ merged[q] \in Nat
        BY <1>1, <1>7, <2>3, <3>7
      <4>2. ~(m > n - Len(s))
        BY <1>0, <1>3, <3>1, <3>7, <4>1, WindowValues
      <4>3. m \in 1 .. merged[q]
        BY <1>7, <4>1, <4>2
      <4> QED BY <1>8, <3>4, <3>7, <4>1, <4>3
    <3> QED BY <3>5, <3>6, <3>7
  <2> QED BY <2>2, <2>3
<1> QED BY <1>4, <1>5, <1>10 DEF ChartInv

\* Time passes, or nothing that matters to the chart happens.
LEMMA QuietCharts ==
    ASSUME TypeInv, ChartInv, SamePast, Items(rx)' \subseteq Items(rx) \cup {Noise},
           UNCHANGED <<proc, series, hist, merged, gapped>>,
           now' \in Nat, now <= now',
           proc = "up" => \A p \in Sides : now' <= due[p],
           proc = "down" => rx' = rx
    PROVE  ChartInv'
<1>0. OnTime /\ Charts /\ NoTicksDown
  BY DEF ChartInv
<1>1. PublishedByTick' /\ SeriesWindow' /\ QueueWindows'
  BY PastWindows
<1>2. OnTime'
  BY <1>0 DEF OnTime, SamePast
<1>3. NoTicksDown'
  BY <1>0 DEF NoTicksDown, SamePast, Items
<1>4. \A q, m : Key(q, m)' = Key(q, m)
  BY DEF SamePast, Time, Key, BucketKey
<1>5. Charts'
  <2>1. /\ now \in Nat /\ Retention \in Nat
        /\ BucketKey(now) \in Nat /\ BucketKey(now') \in Nat
        /\ BucketKey(now) <= BucketKey(now')
    BY BucketKeyType, BucketsInOrder, StatHistoryAssumption
       DEF TypeInv, TaskType, Boundaries
  <2>2. Cutoff(now) <= Cutoff(now') /\ Cutoff(now) \in Int /\ Cutoff(now') \in Int
    BY <2>1 DEF Cutoff
  <2>3. PICK c : c = Cutoff(now')
    OBVIOUS
  <2> SUFFICES ASSUME NEW q \in Sides, ~gapped[q], NEW m \in 1 .. merged[q], Key(q, m) >= c
               PROVE  Charted(q, Key(q, m))'
    <3>1. Cutoff(now)' = c
      BY <2>3 DEF Cutoff, BucketKey
    <3> QED BY <1>0, <1>4, <3>1 DEF Charts, SamePast
  <2>4. Key(q, m) \in Nat
    <3>1. ticks[q] \in Nat /\ merged[q] \in Nat /\ merged[q] <= ticks[q]
      BY <1>0 DEF Charts, TypeInv, SeriesType
    <3>2. m \in 1 .. ticks[q] + 1
      BY <3>1
    <3> QED BY <1>0, <3>2, TickTimes, BucketKeyType DEF Key, Boundaries
  <2>5. Key(q, m) >= Cutoff(now)
    BY <2>2, <2>3, <2>4
  <2>6. Charted(q, Key(q, m))
    BY <1>0, <2>5 DEF Charts
  <2> QED BY <1>4, <2>6 DEF Charted, SamePast
<1> QED BY <1>1, <1>2, <1>3, <1>5 DEF ChartInv

\* A process that has not ticked.
Fresh ==
    /\ \A p \in Sides : /\ ticks[p] = 0 /\ due[p] \in Nat
                        /\ DOMAIN published[p] = {} /\ series[p] = <<>>
                        /\ merged[p] = 0
                        /\ proc = "up" => now <= due[p]
    /\ published = [p \in Sides |-> published[p]]
    /\ merged \in [Sides -> Nat] /\ gapped \in [Sides -> BOOLEAN]
    /\ Items(rx) = {}

LEMMA FreshCharts == Fresh => ChartInv
<1> SUFFICES ASSUME Fresh PROVE ChartInv
  OBVIOUS
<1>1. Period \in Nat /\ MaxPoints \in Nat \ {0}
  BY StatHistoryAssumption
<1>2. OnTime
  BY <1>1 DEF Fresh, OnTime
<1>3. PublishedByTick
  BY DEF Fresh, PublishedByTick
<1>4. SeriesWindow
  <2> SUFFICES ASSUME NEW p \in Sides PROVE Window(p, <<>>, 0)
    BY DEF Fresh, SeriesWindow
  <2>1. ticks[p] = 0 /\ Len(<<>>) = 0 /\ 0 < MaxPoints
    BY <1>1 DEF Fresh
  <2> QED BY <2>1 DEF Window
<1>5. QueueWindows /\ NoTicksDown
  BY DEF Fresh, QueueWindows, NoTicksDown
<1>6. Charts
  BY DEF Fresh, Charts
<1> QED BY <1>2, <1>3, <1>4, <1>5, <1>6 DEF ChartInv

LEMMA InitCharts == Init => ChartInv
<1>1. Items(Subscribed) = {}
  BY DEF Items, Subscribed
<1>2. Init => Fresh
  BY <1>1 DEF Init, Fresh, NoSums, NoBuckets
<1> QED BY <1>2, FreshCharts

\* The start and the end of a run.
LEMMA FreshStep ==
    ASSUME TypeInv, ChartInv, Stop \/ Crash \/ Restart
    PROVE  ChartInv'
<1>1. CASE Stop \/ Crash
  <2>1. Items(Subscribed) = {}
    BY DEF Items, Subscribed
  <2>2. proc' = "down" /\ due' = due /\ MemoryGone
    BY <1>1 DEF Stop, Crash
  <2>3. Items(rx)' = {}
    BY <2>1, <2>2 DEF MemoryGone, Items
  <2>4. due \in [Sides -> Nat]
    BY DEF TypeInv, TaskType
  <2>5. Fresh'
    BY <2>2, <2>3, <2>4 DEF Fresh, MemoryGone, NoSums, NoBuckets
  <2> QED BY <2>5, FreshCharts, PTL
<1>2. CASE Restart
  <2>1. /\ proc = "down" /\ due' = [p \in Sides |-> now]
        /\ UNCHANGED <<now, series, rx, published, ticks, merged, gapped>>
    BY <1>2 DEF Restart
  <2>2. Items(rx) = {} /\ (\A p \in Sides : ticks[p] = 0) /\ now \in Nat
    BY <2>1 DEF ChartInv, NoTicksDown, TypeInv, TaskType
  <2>3. /\ published = [p \in Sides |-> published[p]]
        /\ \A p \in Sides : DOMAIN published[p] = {}
    BY <2>2 DEF ChartInv, PublishedByTick
  <2>4. \A p \in Sides : series[p] = <<>>
    <3> SUFFICES ASSUME NEW p \in Sides PROVE series[p] = <<>>
      OBVIOUS
    <3>1. series[p] \in Seq(Point) /\ MaxPoints \in Nat \ {0}
      BY StatHistoryAssumption DEF TypeInv, SeriesType, Series
    <3>2. Len(series[p]) = 0
      BY <2>2, <3>1 DEF ChartInv, SeriesWindow, Window
    <3> QED BY <3>1, <3>2
  <2>5. /\ merged \in [Sides -> Nat] /\ gapped \in [Sides -> BOOLEAN]
        /\ \A p \in Sides : merged[p] = 0
    BY <2>2 DEF ChartInv, Charts
  <2>6. Items(rx)' = {}
    BY <2>1, <2>2 DEF Items
  <2>7. Fresh'
    BY <2>1, <2>2, <2>3, <2>4, <2>5, <2>6 DEF Fresh
  <2> QED BY <2>7, FreshCharts, PTL
<1> QED BY <1>1, <1>2

LEMMA NextCharts ==
    ASSUME ~Outages
    PROVE  TypeInv /\ ChartInv /\ [Next]_vars => ChartInv'
<1> SUFFICES ASSUME TypeInv, ChartInv, [Next]_vars PROVE ChartInv'
  OBVIOUS
<1>1. /\ now \in Nat /\ due \in [Sides -> Nat] /\ ChannelType
      /\ proc = "up" => \A p \in Sides : now <= due[p]
      /\ proc = "down" => Items(rx) = {}
  BY DEF TypeInv, TaskType, ChartInv, OnTime, NoTicksDown
<1>2. ASSUME UNCHANGED <<proc, now, due, series, rx, hist, published, ticks, merged, gapped>>
      PROVE  ChartInv'
  <2>1. Items(rx)' = Items(rx) /\ SamePast
    BY <1>2 DEF Items, SamePast
  <2> QED BY <1>1, <1>2, <2>1, QuietCharts
<1>3. CASE UNCHANGED vars
  BY <1>2, <1>3 DEF vars
<1>4. CASE persist_history
  BY <1>2, <1>4 DEF persist_history, producers
<1>5. ASSUME NEW p \in Sides, ComesOnline(p) \/ GoesOffline(p) \/ Count(p) PROVE ChartInv'
  BY <1>2, <1>5 DEF ComesOnline, GoesOffline, Count, log
<1>6. CASE SecondPasses
  <2>1. /\ now' = now + 1 /\ UNCHANGED <<proc, series, rx, hist, merged, gapped>>
        /\ SamePast
    BY <1>6 DEF SecondPasses, producers, log, SamePast
  <2>2. proc = "up" => \A p \in Sides : due[p] > now
    BY <1>6 DEF SecondPasses
  <2>3. now' \in Nat /\ now <= now' /\ (proc = "up" => \A p \in Sides : now' <= due[p])
    BY <1>1, <2>1, <2>2
  <2>4. Items(rx)' = Items(rx)
    BY <2>1 DEF Items
  <2> QED BY <2>1, <2>3, <2>4, QuietCharts
<1>7. CASE OtherItem
  <2>1. /\ proc = "up" /\ rx' = Send(rx, Noise) /\ SamePast
        /\ UNCHANGED <<proc, now, series, hist, merged, gapped>>
    BY <1>7 DEF OtherItem, producers, SamePast
  <2>2. Items(rx)' \subseteq Items(rx) \cup {Noise}
    <3>1. Items(rx)' = Items(Send(rx, Noise))
      BY <2>1 DEF Items
    <3> QED BY <1>1, <3>1, SendItems
  <2> QED BY <1>1, <2>1, <2>2, QuietCharts
<1>8. CASE ForwardOther
  <2>1. /\ proc = "up" /\ Ready(rx) /\ rx' = Taken(rx) /\ SamePast
        /\ UNCHANGED <<proc, now, series, hist, merged, gapped>>
    BY <1>8 DEF ForwardOther, producers, log, SamePast
  <2>2. Items(rx)' \subseteq Items(rx)
    <3>1. Items(rx)' = Items(Taken(rx))
      BY <2>1 DEF Items
    <3> QED BY <1>1, <2>1, <3>1, TakeItems
  <2> QED BY <1>1, <2>1, <2>2, QuietCharts
<1>9. CASE SkipLagged
  <2>1. /\ proc = "up" /\ rx' = Relag(rx) /\ SamePast
        /\ UNCHANGED <<proc, now, series, hist, merged, gapped>>
    BY <1>9 DEF SkipLagged, producers, log, SamePast
  <2>2. rx'.items = rx.items
    BY <1>1, <2>1 DEF Relag, ChannelType
  <2>3. Items(rx)' = Items(rx)
    BY <2>2 DEF Items
  <2> QED BY <1>1, <2>1, <2>3, QuietCharts
<1>10. ASSUME NEW p \in Sides, Tick(p) PROVE ChartInv'
  BY <1>10, TickCharts
<1>11. CASE MergeSnapshot
  BY <1>11, MergeCharts
<1>12. CASE Stop \/ Crash \/ Restart
  BY <1>12, FreshStep
<1> QED BY <1>3, <1>4, <1>5, <1>6, <1>7, <1>8, <1>9, <1>10, <1>11, <1>12 DEF Next

LEMMA ChartsCount == TypeInv /\ ChartInv => EveryCountCharted
<1> SUFFICES ASSUME TypeInv, ChartInv, NEW p \in Sides, CaughtUp(p), ~gapped[p],
                    NEW k \in DOMAIN published[p], k >= Cutoff(now)
             PROVE  Charted(p, k)
  BY DEF EveryCountCharted, Charted
<1>1. PICK m \in 1 .. ticks[p] : k = Key(p, m)
  BY DEF ChartInv, PublishedByTick
<1> QED BY <1>1 DEF CaughtUp, ChartInv, Charts

\* For every interval, retention, series length and channel capacity, whichever
\* transactions fail, however often the process ends and starts: while the tasks
\* tick on time and fewer snapshots in a row are lost than a series has points, the
\* chart holds exactly what this run published into each bucket not yet expired.
THEOREM CountsCharted ==
    ASSUME ~Outages
    PROVE  Spec => []EveryCountCharted
<1>1. Init => TypeInv /\ ChartInv
  BY InitType, InitCharts
<1>2. TypeInv /\ ChartInv /\ [Next]_vars => (TypeInv /\ ChartInv)'
  BY NextType, NextCharts
<1> QED BY <1>1, <1>2, ChartsCount, PTL DEF Spec
=============================================================================
