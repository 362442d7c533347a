---------------------------- MODULE ListenerProofs ----------------------------
(***************************************************************************)
(* Theorems about Listener, for any frames, keys, limits and failures of   *)
(* the store.                                                              *)
(***************************************************************************)
EXTENDS Listener, OrderLemmas, SequenceTheorems

-----------------------------------------------------------------------------
(* Types.  TypeOK says what is worth saying of them; the proofs need the   *)
(* shape of every value.                                                   *)

RowType == [n : Nat \ {0}, last : Int]
RowsOf(K) == UNION {[S -> RowType] : S \in SUBSET K}

\* The rows of the waterfall.
History == {r \in Seq(Seq(Nat)) : Len(r) <= MaxRows}

SavedType == [kind : {"saved"}, hits : Seq(Nat), rows : History]

DiskShape ==
    disk = [life |-> disk.life, table |-> disk.table, slicer |-> disk.slicer,
            sat |-> disk.sat, packets |-> disk.packets]

ProcessType ==
    /\ proc \in {"up", "ended", "dead"}
    /\ now \in Nat /\ life \in Nat /\ count \in Nat
    /\ ticked \in BOOLEAN

TableType ==
    \A t \in Tables : /\ table[t] \in RowsOf(Keys[t])
                      /\ disk.table[t] \in RowsOf(Keys[t])
                      /\ dirty[t] \subseteq DOMAIN table[t]

SlicerType ==
    /\ slicer \in [n : Nat, hits : Seq(Nat), interval : Seq(Nat), rows : History]
    /\ Len(slicer.hits) = slicer.n
    /\ Len(slicer.interval) = slicer.n
    /\ restored \in {None} \cup SavedType

DiskType == DiskShape /\ disk.life \in Nat /\ disk.slicer \in {None} \cup SavedType

TypeInv == ProcessType /\ TableType /\ SlicerType /\ DiskType

-----------------------------------------------------------------------------
(* Facts about the operators.                                              *)

\* The rows of a table, by key.
LEMMA RowsOfElements ==
    ASSUME NEW K, NEW m
    PROVE  m \in RowsOf(K) <=> /\ m = [k \in DOMAIN m |-> m[k]]
                               /\ DOMAIN m \subseteq K
                               /\ \A k \in DOMAIN m : m[k] \in RowType
<1>1. ASSUME m \in RowsOf(K)
      PROVE  /\ m = [k \in DOMAIN m |-> m[k]]
             /\ DOMAIN m \subseteq K
             /\ \A k \in DOMAIN m : m[k] \in RowType
  <2>1. PICK S \in SUBSET K : m \in [S -> RowType]
    BY <1>1 DEF RowsOf
  <2> QED BY <2>1
<1>2. ASSUME m = [k \in DOMAIN m |-> m[k]], DOMAIN m \subseteq K,
             \A k \in DOMAIN m : m[k] \in RowType
      PROVE  m \in RowsOf(K)
  <2>1. m \in [DOMAIN m -> RowType]
    BY <1>2
  <2> QED BY <1>2, <2>1 DEF RowsOf
<1> QED BY <1>1, <1>2

LEMMA NoRowsType == \A K : NoRows \in RowsOf(K) /\ DOMAIN NoRows = {}
BY RowsOfElements DEF NoRows

\* A packet stamped s gives the row of k one more, and leaves the others alone.
LEMMA TouchedRows ==
    ASSUME NEW m, NEW k, NEW s
    PROVE  /\ DOMAIN Touched(m, k, s) = DOMAIN m \cup {k}
           /\ Touched(m, k, s)[k]
                = [n |-> IF k \in DOMAIN m THEN m[k].n + 1 ELSE 1, last |-> s]
           /\ \A x \in DOMAIN m : x # k => Touched(m, k, s)[x] = m[x]
           /\ Touched(m, k, s) = [x \in DOMAIN Touched(m, k, s) |-> Touched(m, k, s)[x]]
BY DEF Touched, Put

LEMMA TouchedType ==
    ASSUME NEW K, NEW m \in RowsOf(K), NEW k \in K, NEW s \in Int
    PROVE  Touched(m, k, s) \in RowsOf(K)
<1> DEFINE r == [n |-> IF k \in DOMAIN m THEN m[k].n + 1 ELSE 1, last |-> s]
           w == Touched(m, k, s)
<1>1. DOMAIN m \subseteq K /\ \A x \in DOMAIN m : m[x] \in RowType
  BY RowsOfElements
<1>2. r \in RowType
  BY <1>1 DEF RowType
<1>3. /\ DOMAIN w = DOMAIN m \cup {k} /\ w[k] = r
      /\ \A x \in DOMAIN m : x # k => w[x] = m[x]
      /\ w = [x \in DOMAIN w |-> w[x]]
  BY DEF Touched, Put
<1> HIDE DEF r, w
<1>4. DOMAIN w \subseteq K /\ \A x \in DOMAIN w : w[x] \in RowType
  BY <1>1, <1>2, <1>3
<1>5. w \in RowsOf(K)
  BY <1>3, <1>4, RowsOfElements
<1> QED BY <1>5 DEF w

\* Rows are dropped and the others are kept.
LEMMA WithoutRows ==
    ASSUME NEW K, NEW m \in RowsOf(K), NEW E
    PROVE  /\ Without(m, E) \in RowsOf(K)
           /\ DOMAIN Without(m, E) = DOMAIN m \ E
           /\ \A x \in DOMAIN m \ E : Without(m, E)[x] = m[x]
<1> DEFINE w == Without(m, E)
<1>1. /\ DOMAIN w = DOMAIN m \ E
      /\ \A x \in DOMAIN w : w[x] = m[x]
      /\ w = [x \in DOMAIN w |-> w[x]]
  BY DEF Without
<1>2. DOMAIN m \subseteq K /\ \A x \in DOMAIN m : m[x] \in RowType
  BY RowsOfElements
<1> HIDE DEF w
<1>3. w \in RowsOf(K)
  BY <1>1, <1>2, RowsOfElements
<1> QED BY <1>1, <1>3 DEF w

\* What a flush makes of the rows on disk: gone are the deleted, as in memory are the
\* dirty that remain, and what failed is as it was.
LEMMA FlushRows ==
    ASSUME NEW t \in Tables, NEW gone, NEW bad,
           disk.table[t] \in RowsOf(Keys[t]), table'[t] \in RowsOf(Keys[t]),
           DOMAIN table'[t] \cap gone = {}, dirty[t] \ gone \subseteq DOMAIN table'[t]
    PROVE  /\ FlushedRows(t, gone, bad) \in RowsOf(Keys[t])
           /\ \A k : <<t, k>> \notin bad /\ k \in dirty[t] \cup gone
                     => Row(FlushedRows(t, gone, bad), k) = Row(table'[t], k)
           /\ \A k : k \notin dirty[t] \cup gone
                     => Row(FlushedRows(t, gone, bad), k) = Row(disk.table[t], k)
<1> DEFINE del == Good(gone, t, bad)
           put == Good((dirty[t] \ gone) \cap DOMAIN table'[t], t, bad)
           w   == FlushedRows(t, gone, bad)
<1>1. w = [k \in (DOMAIN disk.table[t] \ del) \cup put |->
              IF k \in put THEN table'[t][k] ELSE disk.table[t][k]]
  BY DEF FlushedRows
<1>2. del = {k \in gone : <<t, k>> \notin bad}
      /\ put = {k \in dirty[t] \ gone : <<t, k>> \notin bad}
  BY DEF Good
<1>3. /\ DOMAIN disk.table[t] \subseteq Keys[t]
      /\ \A k \in DOMAIN disk.table[t] : disk.table[t][k] \in RowType
      /\ DOMAIN table'[t] \subseteq Keys[t]
      /\ \A k \in DOMAIN table'[t] : table'[t][k] \in RowType
  BY RowsOfElements
<1>4. put \subseteq DOMAIN table'[t]
  BY <1>2
<1> HIDE DEF del, put, w
<1>5. /\ DOMAIN w = (DOMAIN disk.table[t] \ del) \cup put
      /\ \A k \in DOMAIN w : w[k] = IF k \in put THEN table'[t][k] ELSE disk.table[t][k]
  BY <1>1
<1>6. w \in RowsOf(Keys[t])
  <2>1. DOMAIN w \subseteq Keys[t] /\ \A k \in DOMAIN w : w[k] \in RowType
    BY <1>3, <1>4, <1>5
  <2>2. w = [k \in DOMAIN w |-> w[k]]
    BY <1>1
  <2> QED BY <2>1, <2>2, RowsOfElements
<1>7. ASSUME NEW k, <<t, k>> \notin bad, k \in dirty[t] \cup gone
      PROVE  Row(w, k) = Row(table'[t], k)
  <2>1. CASE k \in gone
    BY <1>2, <1>4, <1>5, <1>7, <2>1 DEF Row
  <2>2. CASE k \notin gone
    BY <1>2, <1>4, <1>5, <1>7, <2>2 DEF Row
  <2> QED BY <2>1, <2>2
<1>8. ASSUME NEW k, k \notin dirty[t] \cup gone
      PROVE  Row(w, k) = Row(disk.table[t], k)
  BY <1>2, <1>5, <1>8 DEF Row
<1> QED BY <1>6, <1>7, <1>8 DEF w

\* Vectors of counters.
LEMMA CountVectors ==
    /\ \A n \in Nat : Zeros(n) \in Seq(Nat) /\ Len(Zeros(n)) = n
                      /\ \A i \in 1 .. n : Zeros(n)[i] = 0
    /\ \A mask : \A v \in Seq(Nat) :
           /\ Tallied(v, mask) \in Seq(Nat)
           /\ Len(Tallied(v, mask)) = Len(v)
           /\ \A i \in 1 .. Len(v) : Tallied(v, mask)[i] >= v[i]
<1>1. ASSUME NEW n \in Nat
      PROVE  Zeros(n) \in Seq(Nat) /\ Len(Zeros(n)) = n
             /\ \A i \in 1 .. n : Zeros(n)[i] = 0
  BY DEF Zeros
<1>2. ASSUME NEW v \in Seq(Nat), NEW mask
      PROVE  /\ Tallied(v, mask) \in Seq(Nat)
             /\ Len(Tallied(v, mask)) = Len(v)
             /\ \A i \in 1 .. Len(v) : Tallied(v, mask)[i] >= v[i]
  <2>1. DOMAIN v = 1 .. Len(v) /\ Len(v) \in Nat /\ \A i \in 1 .. Len(v) : v[i] \in Nat
    OBVIOUS
  <2>2. Tallied(v, mask) = [i \in 1 .. Len(v) |-> IF i \in mask THEN v[i] + 1 ELSE v[i]]
    BY <2>1 DEF Tallied
  <2> QED BY <2>1, <2>2
<1> QED BY <1>1, <1>2

\* The waterfall keeps at most MaxRows rows.
LEMMA WaterfallType ==
    ASSUME NEW r \in Seq(Seq(Nat))
    PROVE  Waterfall(r) \in History
<1>1. Len(r) \in Nat /\ MaxRows \in Nat \ {0}
  BY ListenerAssumption
<1>2. CASE Len(r) > MaxRows
  <2> DEFINE a == Len(r) - MaxRows + 1
             w == SubSeq(r, a, Len(r))
  <2>1. a \in 1 .. Len(r) + 1 /\ Len(r) - a + 1 = MaxRows /\ a <= Len(r)
    BY <1>1, <1>2
  <2>2. w \in Seq(Seq(Nat)) /\ Len(w) = MaxRows
    BY <1>1, <2>1, SubSeqProperties
  <2> QED BY <1>1, <1>2, <2>2 DEF Waterfall, History
<1>3. CASE ~(Len(r) > MaxRows)
  BY <1>1, <1>3 DEF Waterfall, History
<1> QED BY <1>2, <1>3

LEMMA FrameTypes ==
    ASSUME NEW f \in Frames
    PROVE  /\ \A t \in Tables : f[t] \in Keys[t]
           /\ f.late \in Nat /\ f.bank \in Nat
BY ListenerAssumption DEF Frame, Tables

-----------------------------------------------------------------------------
(* What the steps do, by the parts of the state the proofs speak of.       *)

\* The frames, the failures of which concern only the logs.
LEMMA HearEffect ==
    ASSUME TypeInv, NEW f \in Frames, HearFrame(f)
    PROVE  /\ proc = "up" /\ proc' = "up" /\ now' = now
           /\ life' = life + 1 /\ count' = count + 1 /\ ticked' = FALSE
           /\ now - f.late \in Int
           /\ \A t \in Tables : /\ table'[t] = Touched(table[t], f[t], now - f.late)
                                /\ dirty'[t] = dirty[t] \cup {f[t]}
           /\ DiskShape' /\ disk'.life = disk.life /\ disk'.table = disk.table
           /\ disk'.slicer = disk.slicer
           /\ failed \subseteq failed'
           /\ \A c \in failed' \ failed : c[1] \in {"packets", "sat"}
<1>1. PICK bad \in Failures(Whole({"packets"} \cup IF f.sat THEN {"sat"} ELSE {})) :
         /\ disk' = [disk EXCEPT
               !.sat = IF f.sat /\ ~Failed("sat", bad) THEN @ \cup {now - f.late} ELSE @,
               !.packets = IF Failed("packets", bad) THEN @
                           ELSE Put(@, now - f.late, tally.frames)]
         /\ failed' = (failed \ {}) \cup bad
  BY DEF HearFrame, Record
<1>2. \A c \in bad : c[1] \in {"packets", "sat"}
  BY <1>1 DEF Failures, Whole
<1>3. /\ DiskShape' /\ disk'.life = disk.life /\ disk'.table = disk.table
      /\ disk'.slicer = disk.slicer
  BY <1>1 DEF TypeInv, DiskType, DiskShape
<1>4. now - f.late \in Int
  BY FrameTypes DEF TypeInv, ProcessType
<1> QED BY <1>1, <1>2, <1>3, <1>4 DEF HearFrame

\* The tick.
LEMMA TickEffect ==
    ASSUME TypeInv, Tick
    PROVE  \E bad \in Failures(Flushed([t \in Tables |-> Evicted(t)])
                              \cup Whole({"sat", "packets"})) :
           /\ proc = "up" /\ proc' = "up" /\ now' = now /\ life' = life
           /\ count' = 0 /\ ticked' = TRUE /\ restored' = restored
           /\ slicer' = [slicer EXCEPT
                           !.rows = Waterfall(Append(slicer.rows, slicer.interval)),
                           !.interval = Zeros(slicer.n)]
           /\ \A t \in Tables :
                 /\ table'[t] = Without(table[t], Evicted(t))
                 /\ dirty'[t] = {}
                 /\ disk'.table[t] = FlushedRows(t, Evicted(t), bad)
           /\ DiskShape' /\ disk'.life = SavedLife(bad)
           /\ disk'.slicer = SavedSlicer(bad)
           /\ failed' = (failed \ Flushed([t \in Tables |-> Evicted(t)])) \cup bad
           /\ bad \subseteq Flushed([t \in Tables |-> Evicted(t)])
                            \cup Whole({"sat", "packets"})
           /\ tally' = [[tally EXCEPT !.ticks = @ + 1] EXCEPT
                           !.faults = @ + Cardinality(bad)]
<1> DEFINE gone == [t \in Tables |-> Evicted(t)]
<1>1. PICK bad \in Failures(Flushed(gone) \cup Whole({"sat", "packets"})) :
         /\ disk' = [life    |-> SavedLife(bad),
                     table   |-> [t \in Tables |-> FlushedRows(t, gone[t], bad)],
                     slicer  |-> SavedSlicer(bad),
                     sat     |-> IF Failed("sat", bad) THEN disk.sat
                                 ELSE disk.sat \ {satlog[i] : i \in 1 .. SatPruned},
                     packets |-> IF Failed("packets", bad) THEN disk.packets
                                 ELSE Without(disk.packets,
                                              {s \in DOMAIN disk.packets :
                                                   s < now - PacketKeep})]
         /\ failed' = (failed \ Flushed(gone)) \cup bad
         /\ tally' = [[tally EXCEPT !.ticks = @ + 1] EXCEPT
                         !.faults = @ + Cardinality(bad)]
  BY DEF Tick, Record
<1>2. \A t \in Tables : gone[t] = Evicted(t)
  OBVIOUS
<1> HIDE DEF gone
<1>3. bad \subseteq Flushed(gone) \cup Whole({"sat", "packets"})
  BY <1>1 DEF Failures
<1>4. /\ DiskShape' /\ disk'.life = SavedLife(bad)
      /\ disk'.slicer = SavedSlicer(bad)
      /\ \A t \in Tables : disk'.table[t] = FlushedRows(t, Evicted(t), bad)
  BY <1>1, <1>2 DEF DiskShape
<1>5. /\ proc = "up" /\ proc' = "up" /\ now' = now /\ life' = life
      /\ count' = 0 /\ ticked' = TRUE /\ restored' = restored
      /\ \A t \in Tables : /\ table'[t] = Without(table[t], Evicted(t))
                           /\ dirty'[t] = {}
  BY DEF Tick, NoDirty
<1>6. slicer' = [slicer EXCEPT
                  !.rows = Waterfall(Append(slicer.rows, slicer.interval)),
                  !.interval = Zeros(slicer.n)]
  BY DEF Tick, TypeInv, SlicerType
<1> QED BY <1>1, <1>3, <1>4, <1>5, <1>6 DEF gone

\* The final flush.
LEMMA StopEffect ==
    ASSUME TypeInv, Stop
    PROVE  \E bad :
           /\ proc = "up" /\ proc' = "ended" /\ ticked' = FALSE
           /\ UNCHANGED <<now, life, count, table, slicer, restored, satlog>>
           /\ \A t \in Tables : /\ dirty'[t] = {}
                                /\ disk'.table[t] = FlushedRows(t, {}, bad)
           /\ DiskShape' /\ disk'.life = SavedLife(bad)
           /\ disk'.slicer = SavedSlicer(bad)
           /\ failed' = (failed \ Flushed(NoDirty)) \cup bad
           /\ bad \subseteq Flushed(NoDirty)
<1>1. PICK bad \in Failures(Flushed(NoDirty)) :
         /\ disk' = [disk EXCEPT
                       !.life = SavedLife(bad),
                       !.table = [t \in Tables |-> FlushedRows(t, {}, bad)],
                       !.slicer = SavedSlicer(bad)]
         /\ failed' = (failed \ Flushed(NoDirty)) \cup bad
  BY DEF Stop, Record
<1>2. bad \subseteq Flushed(NoDirty)
  BY <1>1 DEF Failures
<1>3. /\ DiskShape' /\ disk'.life = SavedLife(bad)
      /\ disk'.slicer = SavedSlicer(bad)
      /\ \A t \in Tables : disk'.table[t] = FlushedRows(t, {}, bad)
  BY <1>1 DEF TypeInv, DiskType, DiskShape
<1>4. /\ proc = "up" /\ proc' = "ended" /\ ticked' = FALSE
      /\ UNCHANGED <<now, life, count, table, slicer, restored, satlog>>
      /\ \A t \in Tables : dirty'[t] = {}
  BY DEF Stop, NoDirty
<1> QED BY <1>1, <1>2, <1>3, <1>4

\* The next run.
LEMMA RestartEffect ==
    ASSUME Restart
    PROVE  \E bad \in Failures(Whole({"life", "slicer", "sat"} \cup Tables)) :
           /\ proc # "up" /\ proc' = "up" /\ now' = now
           /\ count' = 0 /\ ticked' = FALSE /\ slicer' = FreshSlicer
           /\ disk' = disk
           /\ life' = IF Failed("life", bad) THEN 0 ELSE disk.life
           /\ \A t \in Tables :
                 /\ table'[t] = IF Failed(t, bad) THEN NoRows ELSE disk.table[t]
                 /\ dirty'[t] = {}
           /\ restored' = IF Failed("slicer", bad) THEN None ELSE disk.slicer
           /\ satlog' = IF Failed("sat", bad) THEN <<>> ELSE Ascending(disk.sat)
           /\ failed' = (bad \cap Calls)
                 \cup UNION {{t} \X Keys[t] : t \in {u \in Tables : Failed(u, bad)}}
           /\ tally' = [tally EXCEPT !.runs = @ + 1, !.faults = @ + Cardinality(bad)]
BY DEF Restart, NoDirty

-----------------------------------------------------------------------------
(* The types.                                                              *)

\* Learning the geometry, and what a frame adds to the counters.
LEMMA LearnedType ==
    ASSUME SlicerType, NEW f \in Frames
    PROVE  /\ Learned(f) \in [n : Nat, hits : Seq(Nat), interval : Seq(Nat),
                              rows : History]
           /\ Len(Learned(f).hits) = Learned(f).n
           /\ Len(Learned(f).interval) = Learned(f).n
<1>1. CASE slicer.n = 0 /\ f.bank > 0
  <2>1. f.bank \in Nat /\ Zeros(f.bank) \in Seq(Nat) /\ Len(Zeros(f.bank)) = f.bank
    BY FrameTypes, CountVectors
  <2>2. /\ Adopted(f.bank).hits \in Seq(Nat) /\ Len(Adopted(f.bank).hits) = f.bank
        /\ Adopted(f.bank).rows \in History
    <3>1. CASE restored # None /\ Len(restored.hits) = f.bank
      <4>1. restored \in SavedType
        BY <3>1 DEF SlicerType
      <4> QED BY <3>1, <4>1 DEF Adopted, SavedType
    <3>2. CASE ~(restored # None /\ Len(restored.hits) = f.bank)
      BY <2>1, <3>2 DEF Adopted, SlicerType
    <3> QED BY <3>1, <3>2
  <2> QED BY <1>1, <2>1, <2>2 DEF Learned
<1>2. CASE ~(slicer.n = 0 /\ f.bank > 0)
  BY <1>2 DEF Learned, SlicerType
<1> QED BY <1>1, <1>2

LEMMA HearSlicer ==
    ASSUME SlicerType, NEW f \in Frames, HearFrame(f)
    PROVE  /\ slicer' \in [n : Nat, hits : Seq(Nat), interval : Seq(Nat),
                           rows : History]
           /\ slicer'.n = Learned(f).n
           /\ slicer'.hits = Tallied(Learned(f).hits, f.mask)
           /\ Len(slicer'.hits) = slicer'.n /\ Len(slicer'.interval) = slicer'.n
<1> DEFINE l == Learned(f)
<1>1. /\ l \in [n : Nat, hits : Seq(Nat), interval : Seq(Nat), rows : History]
      /\ Len(l.hits) = l.n /\ Len(l.interval) = l.n
  BY LearnedType
<1>2. slicer' = [l EXCEPT !.hits = Tallied(@, f.mask), !.interval = Tallied(@, f.mask)]
  BY DEF HearFrame
<1> HIDE DEF l
<1>3. /\ slicer'.n = l.n /\ slicer'.rows = l.rows
      /\ slicer'.hits = Tallied(l.hits, f.mask)
      /\ slicer'.interval = Tallied(l.interval, f.mask)
      /\ slicer' = [n |-> slicer'.n, hits |-> slicer'.hits,
                    interval |-> slicer'.interval, rows |-> slicer'.rows]
  BY <1>1, <1>2
<1>4. /\ Tallied(l.hits, f.mask) \in Seq(Nat) /\ Len(Tallied(l.hits, f.mask)) = l.n
      /\ Tallied(l.interval, f.mask) \in Seq(Nat)
      /\ Len(Tallied(l.interval, f.mask)) = l.n
  BY <1>1, CountVectors
<1> QED BY <1>1, <1>3, <1>4 DEF l

\* What a tick or a stop saves of the slicers.
LEMMA SavedSlicerType ==
    ASSUME SlicerType, SlicerType', DiskType, NEW bad
    PROVE  SavedSlicer(bad) \in {None} \cup SavedType
BY DEF SlicerType, DiskType, SavedSlicer, SavedType

LEMMA InitType == Init => TypeInv
<1> SUFFICES ASSUME Init PROVE TypeInv
  OBVIOUS
<1>1. ProcessType
  BY DEF Init, ProcessType
<1>2. TableType
  BY NoRowsType DEF Init, TableType, NoTables, NoDirty, EmptyDisk
<1>3. SlicerType
  <2>1. <<>> \in Seq(Nat) /\ Len(<<>>) = 0 /\ <<>> \in History
    BY ListenerAssumption DEF History
  <2> QED BY <2>1 DEF Init, SlicerType, FreshSlicer
<1>4. DiskType
  BY DEF Init, DiskType, DiskShape, EmptyDisk
<1> QED BY <1>1, <1>2, <1>3, <1>4 DEF TypeInv

\* The evicted rows leave the dirty ones that stay in the table.
LEMMA TickTables ==
    ASSUME TableType, NEW t \in Tables, table'[t] = Without(table[t], Evicted(t))
    PROVE  /\ table'[t] \in RowsOf(Keys[t])
           /\ DOMAIN table'[t] = DOMAIN table[t] \ Evicted(t)
           /\ \A k \in DOMAIN table'[t] : table'[t][k] = table[t][k]
           /\ DOMAIN table'[t] \cap Evicted(t) = {}
           /\ dirty[t] \ Evicted(t) \subseteq DOMAIN table'[t]
<1>1. table[t] \in RowsOf(Keys[t]) /\ dirty[t] \subseteq DOMAIN table[t]
  BY DEF TableType
<1> QED BY <1>1, WithoutRows

LEMMA NextType == TypeInv /\ [Next]_vars => TypeInv'
<1> SUFFICES ASSUME TypeInv, [Next]_vars PROVE TypeInv'
  OBVIOUS
<1>1. ASSUME NEW f \in Frames, HearFrame(f) PROVE TypeInv'
  <2>1. ProcessType' /\ DiskType'
    <3>1. /\ proc' = "up" /\ now' = now /\ life' = life + 1 /\ count' = count + 1
          /\ ticked' = FALSE /\ DiskShape' /\ disk'.life = disk.life
          /\ disk'.slicer = disk.slicer
      BY <1>1, HearEffect
    <3>2. life' \in Nat /\ count' \in Nat
      BY <3>1 DEF TypeInv, ProcessType
    <3> QED BY <3>1, <3>2, Zenon DEF TypeInv, ProcessType, DiskType
  <2>2. TableType'
    <3> SUFFICES ASSUME NEW t \in Tables
                 PROVE  /\ table'[t] \in RowsOf(Keys[t])
                        /\ disk'.table[t] \in RowsOf(Keys[t])
                        /\ dirty'[t] \subseteq DOMAIN table'[t]
      BY DEF TableType
    <3>1. f[t] \in Keys[t]
      BY <1>1, FrameTypes
    <3>2. /\ table'[t] = Touched(table[t], f[t], now - f.late) /\ now - f.late \in Int
          /\ dirty'[t] = dirty[t] \cup {f[t]} /\ disk'.table = disk.table
      BY <1>1, HearEffect
    <3>3. /\ table[t] \in RowsOf(Keys[t]) /\ disk.table[t] \in RowsOf(Keys[t])
          /\ dirty[t] \subseteq DOMAIN table[t]
      BY DEF TypeInv, TableType
    <3>4. /\ table'[t] \in RowsOf(Keys[t])
          /\ DOMAIN table'[t] = DOMAIN table[t] \cup {f[t]}
      <4> DEFINE s == now - f.late  m == table[t]  k == f[t]  K == Keys[t]
      <4>1. m \in RowsOf(K) /\ k \in K /\ s \in Int
        BY <3>1, <3>2, <3>3
      <4>2. table'[t] = Touched(m, k, s)
        BY <3>2
      <4> HIDE DEF s, m, k, K
      <4>3. Touched(m, k, s) \in RowsOf(K) /\ DOMAIN Touched(m, k, s) = DOMAIN m \cup {k}
        BY <4>1, TouchedType, TouchedRows
      <4> QED BY <4>2, <4>3 DEF m, k, K
    <3> QED BY <3>2, <3>3, <3>4
  <2>3. SlicerType'
    BY <1>1, HearSlicer DEF HearFrame, TypeInv, SlicerType
  <2> QED BY <2>1, <2>2, <2>3 DEF TypeInv
<1>2. ASSUME NEW f \in Frames, SkipFrame(f) PROVE TypeInv'
  <2>1. SlicerType'
    BY <1>2, LearnedType DEF SkipFrame, TypeInv, SlicerType
  <2> QED
    BY <1>2, <2>1 DEF SkipFrame, TypeInv, ProcessType, TableType, DiskType, DiskShape
<1>3. CASE TimePasses
  <2>1. ProcessType'
    <3>1. now' \in Nat
      BY <1>3 DEF TimePasses, TypeInv, ProcessType
    <3> QED BY <1>3, <3>1, Zenon DEF TimePasses, memory, TypeInv, ProcessType
  <2> QED BY <1>3, <2>1 DEF TimePasses, memory, TypeInv, TableType, SlicerType,
                            DiskType, DiskShape
<1>4. CASE Tick
  <2>1. PICK bad :
           /\ proc' = "up" /\ now' = now /\ life' = life
           /\ count' = 0 /\ ticked' = TRUE /\ restored' = restored
           /\ slicer' = [slicer EXCEPT
                           !.rows = Waterfall(Append(slicer.rows, slicer.interval)),
                           !.interval = Zeros(slicer.n)]
           /\ \A t \in Tables :
                 /\ table'[t] = Without(table[t], Evicted(t))
                 /\ dirty'[t] = {}
                 /\ disk'.table[t] = FlushedRows(t, Evicted(t), bad)
           /\ DiskShape' /\ disk'.life = SavedLife(bad)
           /\ disk'.slicer = SavedSlicer(bad)
    BY <1>4, TickEffect
  <2>2. SlicerType'
    <3>1. Append(slicer.rows, slicer.interval) \in Seq(Seq(Nat))
      BY DEF TypeInv, SlicerType, History
    <3>2. Waterfall(Append(slicer.rows, slicer.interval)) \in History
      BY <3>1, WaterfallType
    <3>3. Zeros(slicer.n) \in Seq(Nat) /\ Len(Zeros(slicer.n)) = slicer.n
      BY CountVectors DEF TypeInv, SlicerType
    <3> QED BY <2>1, <3>2, <3>3 DEF TypeInv, SlicerType
  <2>3. ProcessType'
    BY <2>1 DEF TypeInv, ProcessType
  <2>4. DiskType'
    BY <2>1, <2>2, SavedSlicerType DEF TypeInv, ProcessType, DiskType, SavedLife
  <2>5. TableType'
    <3> SUFFICES ASSUME NEW t \in Tables
                 PROVE  /\ table'[t] \in RowsOf(Keys[t])
                        /\ disk'.table[t] \in RowsOf(Keys[t])
                        /\ dirty'[t] \subseteq DOMAIN table'[t]
      BY DEF TableType
    <3>1. /\ table'[t] \in RowsOf(Keys[t])
          /\ DOMAIN table'[t] \cap Evicted(t) = {}
          /\ dirty[t] \ Evicted(t) \subseteq DOMAIN table'[t]
      BY <2>1, TickTables DEF TypeInv
    <3>2. FlushedRows(t, Evicted(t), bad) \in RowsOf(Keys[t])
      BY <3>1, FlushRows DEF TypeInv, TableType
    <3> QED BY <2>1, <3>1, <3>2
  <2> QED BY <2>2, <2>3, <2>4, <2>5 DEF TypeInv
<1>5. CASE Stop
  <2>1. PICK bad :
           /\ proc' = "ended" /\ ticked' = FALSE
           /\ UNCHANGED <<now, life, count, table, slicer, restored, satlog>>
           /\ \A t \in Tables : /\ dirty'[t] = {}
                                /\ disk'.table[t] = FlushedRows(t, {}, bad)
           /\ DiskShape' /\ disk'.life = SavedLife(bad)
           /\ disk'.slicer = SavedSlicer(bad)
    BY <1>5, StopEffect
  <2>2. SlicerType' /\ ProcessType'
    BY <2>1 DEF TypeInv, SlicerType, ProcessType
  <2>3. DiskType'
    BY <2>1, <2>2, SavedSlicerType DEF TypeInv, ProcessType, DiskType, SavedLife
  <2>4. TableType'
    <3> SUFFICES ASSUME NEW t \in Tables
                 PROVE  /\ table'[t] \in RowsOf(Keys[t])
                        /\ disk'.table[t] \in RowsOf(Keys[t])
                        /\ dirty'[t] \subseteq DOMAIN table'[t]
      BY DEF TableType
    <3>1. /\ table'[t] \in RowsOf(Keys[t]) /\ disk.table[t] \in RowsOf(Keys[t])
          /\ dirty[t] \ {} \subseteq DOMAIN table'[t]
          /\ DOMAIN table'[t] \cap {} = {}
      BY <2>1 DEF TypeInv, TableType
    <3>2. FlushedRows(t, {}, bad) \in RowsOf(Keys[t])
      BY <3>1, FlushRows
    <3> QED BY <2>1, <3>1, <3>2
  <2> QED BY <2>2, <2>3, <2>4 DEF TypeInv
<1>6. CASE Crash
  <2>1. <<>> \in Seq(Nat) /\ Len(<<>>) = 0 /\ <<>> \in History
    BY ListenerAssumption DEF History
  <2>2. SlicerType'
    BY <1>6, <2>1 DEF Crash, SlicerType, FreshSlicer
  <2>3. TableType'
    BY <1>6, NoRowsType DEF Crash, TypeInv, TableType, NoTables, NoDirty
  <2> QED BY <1>6, <2>2, <2>3 DEF Crash, TypeInv, ProcessType, DiskType, DiskShape
<1>7. CASE Restart
  <2>1. <<>> \in Seq(Nat) /\ Len(<<>>) = 0 /\ <<>> \in History
    BY ListenerAssumption DEF History
  <2>2. PICK bad :
           /\ proc' = "up" /\ now' = now
           /\ count' = 0 /\ ticked' = FALSE /\ slicer' = FreshSlicer
           /\ disk' = disk
           /\ life' = IF Failed("life", bad) THEN 0 ELSE disk.life
           /\ \A t \in Tables :
                 /\ table'[t] = IF Failed(t, bad) THEN NoRows ELSE disk.table[t]
                 /\ dirty'[t] = {}
           /\ restored' = IF Failed("slicer", bad) THEN None ELSE disk.slicer
    BY <1>7, RestartEffect
  <2>3. SlicerType'
    BY <2>1, <2>2 DEF SlicerType, FreshSlicer, TypeInv, DiskType
  <2>4. TableType'
    BY <2>2, NoRowsType DEF TypeInv, TableType
  <2> QED BY <2>2, <2>3, <2>4 DEF TypeInv, ProcessType, DiskType, DiskShape
<1>8. CASE UNCHANGED vars
  BY <1>8 DEF vars, TypeInv, ProcessType, TableType, SlicerType, DiskType, DiskShape
<1> QED BY <1>1, <1>2, <1>3, <1>4, <1>5, <1>6, <1>7, <1>8 DEF Next

LEMMA SpecType == Spec => []TypeInv
BY InitType, NextType, PTL DEF Spec

\* The types hold: in particular there is one counter per slicer, whatever geometry
\* was restored, and the waterfall stays within its limit.
THEOREM ListenerTypes == Spec => []TypeOK
<1>1. TypeInv => TypeOK
  <2> SUFFICES ASSUME TypeInv PROVE TypeOK
    OBVIOUS
  <2>1. ASSUME NEW t \in Tables
        PROVE  /\ IsRows(table[t], Keys[t]) /\ IsRows(disk.table[t], Keys[t])
               /\ dirty[t] \subseteq DOMAIN table[t]
    BY <2>1, RowsOfElements DEF TypeInv, TableType, IsRows, RowType
  <2>2. IsCounts(slicer.hits, slicer.n) /\ IsCounts(slicer.interval, slicer.n)
        /\ Len(slicer.rows) <= MaxRows
    BY DEF TypeInv, SlicerType, IsCounts, History
  <2> QED BY <2>1, <2>2 DEF TypeInv, ProcessType, DiskType, TypeOK
<1> QED BY <1>1, SpecType, PTL
-----------------------------------------------------------------------------
(* The tables.  CrashLosesOneTick needs RowsMirrored, because what a       *)
(* packet adds to a row is bounded if the row was mirrored before it; and  *)
(* so does StopLosesNothing, because a stop writes only the dirty rows.    *)

MirrorInv == RowsMirrored /\ CrashLosesOneTick

\* The same row, or none in either table.
LEMMA SameRow ==
    ASSUME NEW K, NEW m \in RowsOf(K), NEW d \in RowsOf(K), NEW k,
           Row(m, k) = Row(d, k)
    PROVE  /\ k \in DOMAIN m <=> k \in DOMAIN d
           /\ k \in DOMAIN m => m[k] = d[k] /\ m[k].n \in Nat
<1>1. None \notin RowType
  BY DEF None, RowType
<1>2. /\ k \in DOMAIN m => m[k] \in RowType
      /\ k \in DOMAIN d => d[k] \in RowType
  BY RowsOfElements
<1> QED BY <1>1, <1>2 DEF Row, RowType

\* The calls of a flush: always the counter, and the rows that are dirty or gone.
LEMMA FlushedCalls ==
    ASSUME NEW gone
    PROVE  /\ <<"life", "all">> \in Flushed(gone)
           /\ <<"slicer", "all">> \in Flushed(gone) <=> slicer.n > 0
           /\ \A t \in Tables : \A k : <<t, k>> \in Flushed(gone)
                                       <=> k \in dirty[t] \cup gone[t]
<1>1. Whole({"life"} \cup IF slicer.n > 0 THEN {"slicer"} ELSE {}) \subseteq Flushed(gone)
  BY DEF Flushed
<1>2. <<"life", "all">> \in Flushed(gone)
  BY <1>1 DEF Whole
<1>3. \A t \in Tables : \A k : <<t, k>> \in Flushed(gone) <=> k \in dirty[t] \cup gone[t]
  BY DEF Flushed, Whole, Tables
<1>4. <<"slicer", "all">> \in Flushed(gone) <=> slicer.n > 0
  BY DEF Flushed, Whole, Tables
<1> QED BY <1>2, <1>3, <1>4

\* What a packet does to a table.
LEMMA HearRows ==
    ASSUME TypeInv, NEW f \in Frames, HearFrame(f), NEW t \in Tables
    PROVE  /\ DOMAIN table'[t] = DOMAIN table[t] \cup {f[t]}
           /\ table'[t][f[t]].n = IF f[t] \in DOMAIN table[t]
                                  THEN table[t][f[t]].n + 1 ELSE 1
           /\ \A x \in DOMAIN table[t] : x # f[t] => table'[t][x] = table[t][x]
<1> DEFINE s == now - f.late  m == table[t]  k == f[t]
<1>1. table'[t] = Touched(m, k, s)
  BY HearEffect
<1> HIDE DEF s, m, k
<1>2. /\ DOMAIN Touched(m, k, s) = DOMAIN m \cup {k}
      /\ Touched(m, k, s)[k].n = IF k \in DOMAIN m THEN m[k].n + 1 ELSE 1
      /\ \A x \in DOMAIN m : x # k => Touched(m, k, s)[x] = m[x]
  BY DEF Touched, Put
<1> QED BY <1>1, <1>2 DEF m, k

\* A packet: its rows become dirty, one ahead of what they were.
LEMMA HearMirror ==
    ASSUME TypeInv, MirrorInv, NEW f \in Frames, HearFrame(f)
    PROVE  MirrorInv'
<1>1. /\ proc = "up" /\ proc' = "up"
      /\ life' = life + 1 /\ count' = count + 1
      /\ \A t \in Tables : /\ table'[t] = Touched(table[t], f[t], now - f.late)
                           /\ dirty'[t] = dirty[t] \cup {f[t]}
      /\ disk'.life = disk.life /\ disk'.table = disk.table
      /\ failed \subseteq failed'
  BY HearEffect
<1>2. life \in Nat /\ count \in Nat /\ disk.life \in Nat
  BY DEF TypeInv, ProcessType, DiskType
<1>3. ASSUME NEW t \in Tables, NEW k \in Keys[t] \ dirty'[t], <<t, k>> \notin failed'
      PROVE  Row(table'[t], k) = Row(disk'.table[t], k)
  <2>1. k \in Keys[t] \ dirty[t] /\ k # f[t] /\ <<t, k>> \notin failed
    BY <1>1, <1>3
  <2>2. Row(table[t], k) = Row(disk.table[t], k)
    BY <1>1, <1>3, <2>1 DEF MirrorInv, RowsMirrored
  <2>3. Row(table'[t], k) = Row(table[t], k)
    BY <2>1, HearRows DEF Row
  <2> QED BY <1>1, <2>2, <2>3
<1>4. ASSUME NEW t \in Tables, NEW k \in dirty'[t], <<t, k>> \notin failed'
      PROVE  table'[t][k].n - (IF k \in DOMAIN disk'.table[t] THEN disk'.table[t][k].n
                               ELSE 0) \in 0 .. count'
  <2> DEFINE m == table[t]  d == disk.table[t]
             old == IF k \in DOMAIN d THEN d[k].n ELSE 0
  <2>1. /\ m \in RowsOf(Keys[t]) /\ d \in RowsOf(Keys[t]) /\ disk'.table[t] = d
        /\ <<t, k>> \notin failed /\ dirty[t] \subseteq DOMAIN m
        /\ table'[t] = Touched(m, f[t], now - f.late)
    BY <1>1, <1>4 DEF TypeInv, TableType
  <2>2. \A x \in DOMAIN m : m[x].n \in Nat
    BY <2>1, RowsOfElements DEF RowType
  <2>3. old \in Nat
    BY <2>1, RowsOfElements DEF RowType
  <2>4. CASE k \in dirty[t]
    <3>1. k \in DOMAIN m /\ m[k].n - old \in 0 .. count
      BY <1>1, <1>4, <2>1, <2>4 DEF MirrorInv, CrashLosesOneTick
    <3>2. table'[t][k].n \in {m[k].n, m[k].n + 1}
      BY <2>1, <3>1, HearRows
    <3>3. table'[t][k].n - old \in 0 .. count + 1
      BY <1>2, <2>2, <2>3, <3>1, <3>2
    <3> QED BY <1>1, <2>1, <3>3
  <2>5. CASE k \notin dirty[t]
    <3>1. k = f[t] /\ k \in Keys[t]
      BY <1>1, <1>4, <2>5, FrameTypes
    <3>2. Row(m, k) = Row(d, k)
      BY <1>1, <1>4, <2>1, <2>5, <3>1 DEF MirrorInv, RowsMirrored
    <3>3. old = IF k \in DOMAIN m THEN m[k].n ELSE 0
      BY <2>1, <3>2, SameRow
    <3>4. table'[t][k].n = IF k \in DOMAIN m THEN m[k].n + 1 ELSE 1
      BY <2>1, <3>1, HearRows
    <3>5. table'[t][k].n - old = 1
      BY <2>2, <2>3, <3>3, <3>4
    <3> QED BY <1>1, <1>2, <2>1, <3>5
  <2> QED BY <2>4, <2>5
<1>5. ~Failed("life", failed') => life' = disk'.life + count'
  <2> SUFFICES ASSUME ~Failed("life", failed') PROVE life' = disk'.life + count'
    OBVIOUS
  <2>1. ~Failed("life", failed)
    BY <1>1 DEF Failed
  <2>2. life = disk.life + count
    BY <1>1, <2>1 DEF MirrorInv, CrashLosesOneTick
  <2> QED BY <1>1, <1>2, <2>2
<1> QED BY <1>1, <1>3, <1>4, <1>5
        DEF MirrorInv, RowsMirrored, CrashLosesOneTick

\* A flush whose deletions are the rows that have left the table makes every row the
\* same on disk as in memory, if its call and the last one on it did not fail.
LEMMA FlushMirrors ==
    ASSUME NEW t \in Tables, NEW gone, NEW g, NEW bad, NEW k \in Keys[t],
           gone[t] = g,
           disk.table[t] \in RowsOf(Keys[t]), table'[t] \in RowsOf(Keys[t]),
           DOMAIN table'[t] \cap g = {}, dirty[t] \ g \subseteq DOMAIN table'[t],
           k \notin g => Row(table'[t], k) = Row(table[t], k),
           k \notin dirty[t] /\ <<t, k>> \notin failed
              => Row(table[t], k) = Row(disk.table[t], k),
           <<t, k>> \notin (failed \ Flushed(gone)) \cup bad
    PROVE  Row(table'[t], k) = Row(FlushedRows(t, g, bad), k)
<1>1. CASE k \in dirty[t] \cup g
  BY <1>1, FlushRows
<1>2. CASE k \notin dirty[t] \cup g
  <2>1. <<t, k>> \notin Flushed(gone)
    BY <1>2, FlushedCalls
  <2>2. Row(table'[t], k) = Row(disk.table[t], k)
    BY <1>2, <2>1
  <2>3. Row(FlushedRows(t, g, bad), k) = Row(disk.table[t], k)
    BY <1>2, FlushRows
  <2> QED BY <2>2, <2>3
<1> QED BY <1>1, <1>2

LEMMA TickMirror ==
    ASSUME TypeInv, MirrorInv, Tick
    PROVE  MirrorInv'
<1> DEFINE gone == [t \in Tables |-> Evicted(t)]
<1>1. PICK bad :
         /\ proc = "up" /\ proc' = "up" /\ life' = life /\ count' = 0
         /\ \A t \in Tables : /\ table'[t] = Without(table[t], Evicted(t))
                              /\ dirty'[t] = {}
                              /\ disk'.table[t] = FlushedRows(t, Evicted(t), bad)
         /\ disk'.life = SavedLife(bad)
         /\ failed' = (failed \ Flushed(gone)) \cup bad
  BY TickEffect
<1>2. \A t \in Tables : gone[t] = Evicted(t)
  OBVIOUS
<1> HIDE DEF gone
<1>3. ASSUME NEW t \in Tables, NEW k \in Keys[t], <<t, k>> \notin failed'
      PROVE  Row(table'[t], k) = Row(disk'.table[t], k)
  <2> DEFINE g == Evicted(t)
  <2>1. /\ table'[t] \in RowsOf(Keys[t]) /\ disk.table[t] \in RowsOf(Keys[t])
        /\ DOMAIN table'[t] = DOMAIN table[t] \ g
        /\ \A x \in DOMAIN table'[t] : table'[t][x] = table[t][x]
        /\ DOMAIN table'[t] \cap g = {}
        /\ dirty[t] \ g \subseteq DOMAIN table'[t]
    BY <1>1, TickTables DEF TypeInv, TableType
  <2>2. gone[t] = g
    BY <1>2
  <2> HIDE DEF g
  <2>3. k \notin g => Row(table'[t], k) = Row(table[t], k)
    BY <2>1 DEF Row
  <2>4. k \notin dirty[t] /\ <<t, k>> \notin failed
          => Row(table[t], k) = Row(disk.table[t], k)
    BY <1>1 DEF MirrorInv, RowsMirrored
  <2>5. <<t, k>> \notin (failed \ Flushed(gone)) \cup bad
    BY <1>1, <1>3
  <2>6. Row(table'[t], k) = Row(FlushedRows(t, g, bad), k)
    BY <2>1, <2>2, <2>3, <2>4, <2>5, FlushMirrors
  <2> QED BY <1>1, <2>6 DEF g
<1>4. ~Failed("life", failed') => life' = disk'.life + count'
  BY <1>1 DEF SavedLife, Failed, TypeInv, ProcessType
<1> QED BY <1>1, <1>3, <1>4
        DEF MirrorInv, RowsMirrored, CrashLosesOneTick

\* What a stop leaves behind.
LEMMA StopWrites ==
    ASSUME TypeInv, MirrorInv, Stop
    PROVE  LET own     == failed' \cap Flushed(NoDirty)
               earlier == failed \ Flushed(NoDirty)
           IN  /\ ~Failed("life", own) => disk'.life = life
               /\ \A t \in Tables : \A k \in Keys[t] :
                     <<t, k>> \notin own \cup earlier =>
                        Row(disk'.table[t], k) = Row(table[t], k)
               /\ slicer.n > 0 /\ ~Failed("slicer", own) =>
                     disk'.slicer.kind = "saved" /\ disk'.slicer.hits = slicer.hits
<1> DEFINE own     == failed' \cap Flushed(NoDirty)
           earlier == failed \ Flushed(NoDirty)
<1>1. PICK bad :
         /\ proc = "up" /\ UNCHANGED <<life, table, slicer>>
         /\ \A t \in Tables : disk'.table[t] = FlushedRows(t, {}, bad)
         /\ disk'.life = SavedLife(bad) /\ disk'.slicer = SavedSlicer(bad)
         /\ failed' = (failed \ Flushed(NoDirty)) \cup bad
         /\ bad \subseteq Flushed(NoDirty)
  BY StopEffect
<1>2. own = bad
  BY <1>1
<1> HIDE DEF own
<1>3. ASSUME NEW t \in Tables, NEW k \in Keys[t], <<t, k>> \notin own \cup earlier
      PROVE  Row(disk'.table[t], k) = Row(table[t], k)
  <2> DEFINE g == {}
  <2>1. /\ table'[t] \in RowsOf(Keys[t]) /\ disk.table[t] \in RowsOf(Keys[t])
        /\ DOMAIN table'[t] \cap g = {} /\ NoDirty[t] = g
        /\ dirty[t] \ g \subseteq DOMAIN table'[t]
    BY <1>1 DEF TypeInv, TableType, NoDirty
  <2>2. k \notin g => Row(table'[t], k) = Row(table[t], k)
    BY <1>1
  <2>3. k \notin dirty[t] /\ <<t, k>> \notin failed
          => Row(table[t], k) = Row(disk.table[t], k)
    BY <1>1 DEF MirrorInv, RowsMirrored
  <2>4. <<t, k>> \notin (failed \ Flushed(NoDirty)) \cup bad
    BY <1>2, <1>3
  <2> HIDE DEF g
  <2>5. Row(table'[t], k) = Row(FlushedRows(t, g, bad), k)
    BY <2>1, <2>2, <2>3, <2>4, FlushMirrors
  <2> QED BY <1>1, <2>5 DEF g
<1>4. ~Failed("life", own) => disk'.life = life
  BY <1>1, <1>2 DEF SavedLife, Failed
<1>5. slicer.n > 0 /\ ~Failed("slicer", own)
        => disk'.slicer.kind = "saved" /\ disk'.slicer.hits = slicer.hits
  BY <1>1, <1>2 DEF SavedSlicer, Failed
<1> QED BY <1>3, <1>4, <1>5 DEF own

LEMMA StopMirror ==
    ASSUME Stop
    PROVE  MirrorInv'
BY DEF Stop, MirrorInv, RowsMirrored, CrashLosesOneTick

LEMMA RestartMirror ==
    ASSUME TypeInv, Restart
    PROVE  MirrorInv'
<1>1. PICK bad :
         /\ proc' = "up" /\ count' = 0 /\ disk' = disk
         /\ life' = IF Failed("life", bad) THEN 0 ELSE disk.life
         /\ \A t \in Tables :
               /\ table'[t] = IF Failed(t, bad) THEN NoRows ELSE disk.table[t]
               /\ dirty'[t] = {}
         /\ failed' = (bad \cap Calls)
               \cup UNION {{t} \X Keys[t] : t \in {u \in Tables : Failed(u, bad)}}
  BY RestartEffect
<1>2. ASSUME NEW t \in Tables, NEW k \in Keys[t], <<t, k>> \notin failed'
      PROVE  Row(table'[t], k) = Row(disk'.table[t], k)
  <2>1. ~Failed(t, bad)
    BY <1>1, <1>2
  <2> QED BY <1>1, <2>1
<1>3. ~Failed("life", failed') => life' = disk'.life + count'
  <2>1. Failed("life", bad) => Failed("life", failed')
    BY <1>1 DEF Failed, Calls, Whole
  <2> QED BY <1>1, <2>1 DEF TypeInv, DiskType
<1> QED BY <1>1, <1>2, <1>3
        DEF MirrorInv, RowsMirrored, CrashLosesOneTick

LEMMA NextMirror == TypeInv /\ MirrorInv /\ [Next]_vars => MirrorInv'
<1> SUFFICES ASSUME TypeInv, MirrorInv, [Next]_vars PROVE MirrorInv'
  OBVIOUS
<1>1. ASSUME UNCHANGED <<proc, life, count, table, dirty, disk, failed>>
      PROVE  MirrorInv'
  BY <1>1 DEF MirrorInv, RowsMirrored, CrashLosesOneTick
<1>2. CASE TimePasses
  BY <1>1, <1>2 DEF TimePasses, memory
<1>3. ASSUME NEW f \in Frames, SkipFrame(f) PROVE MirrorInv'
  BY <1>1, <1>3 DEF SkipFrame
<1>4. CASE Crash
  BY <1>4 DEF Crash, MirrorInv, RowsMirrored, CrashLosesOneTick
<1>5. CASE UNCHANGED vars
  BY <1>1, <1>5 DEF vars
<1> QED BY <1>2, <1>3, <1>4, <1>5, HearMirror, TickMirror, StopMirror, RestartMirror
        DEF Next

LEMMA SpecMirror == Spec => []MirrorInv
<1>1. Init => MirrorInv
  BY DEF Init, MirrorInv, RowsMirrored, CrashLosesOneTick, NoTables,
         NoRows, NoDirty, EmptyDisk, Row, Tables
<1> QED BY <1>1, NextMirror, SpecType, PTL DEF Spec

\* Whatever the frames, and whichever transactions fail: a row that is not dirty and
\* whose last transaction succeeded is the same on disk as in memory.
THEOREM TablesMirrored == Spec => []RowsMirrored
BY SpecMirror, PTL DEF MirrorInv

\* A crash costs at most the packets of the current interval, in the total and in
\* every row, except where the last transaction failed.
THEOREM CrashBounded == Spec => []CrashLosesOneTick
BY SpecMirror, PTL DEF MirrorInv

\* A graceful stop leaves everything in the store but what its own flush could not
\* write, and rows that an earlier flush could not write and that are not dirty: a row
\* that a packet touched since the last tick is lost only by the final flush itself.
THEOREM StopComplete == Spec => StopLosesNothing
<1>1. ASSUME TypeInv, MirrorInv, [Next]_vars, proc = "up", proc' = "ended"
      PROVE  Stop
  BY <1>1 DEF Next, TimePasses, HearFrame, SkipFrame, Tick, Crash, Restart, vars
<1>2. TypeInv /\ MirrorInv /\ [Next]_vars =>
        [ proc = "up" /\ proc' = "ended" =>
            LET own     == failed' \cap Flushed(NoDirty)
                earlier == failed \ Flushed(NoDirty)
            IN  /\ ~Failed("life", own) => disk'.life = life
                /\ \A t \in Tables : \A k \in Keys[t] :
                      <<t, k>> \notin own \cup earlier =>
                         Row(disk'.table[t], k) = Row(table[t], k)
                /\ slicer.n > 0 /\ ~Failed("slicer", own) =>
                      disk'.slicer.kind = "saved" /\ disk'.slicer.hits = slicer.hits
        ]_vars
  BY <1>1, StopWrites
<1> QED BY <1>2, SpecType, SpecMirror, PTL DEF Spec, StopLosesNothing
-----------------------------------------------------------------------------
(* The abstract machine.  A store without faults (MaxFaults = 0) is one of *)
(* which no call fails; that takes the faults to be counted, and so to be  *)
(* finitely many at a time.                                                *)

FaultType == tally \in [frames : Nat, ticks : Nat, runs : Nat, faults : Nat]

\* A call that fails is a fault, and there is at most MaxFaults of them.
LEMMA FaultsCounted ==
    ASSUME FaultType, NEW calls, IsFiniteSet(calls), NEW bad \in Failures(calls)
    PROVE  Cardinality(bad) \in Nat /\ (bad # {} => MaxFaults > 0)
<1>1. bad \in SUBSET calls /\ Cardinality(bad) + tally.faults <= MaxFaults
  BY DEF Failures
<1>2. IsFiniteSet(bad)
  BY <1>1, FS_Subset
<1>3. Cardinality(bad) \in Nat
  BY <1>2, FS_CardinalityType
<1>4. bad # {} => Cardinality(bad) # 0
  BY <1>2, FS_EmptySet
<1> QED BY <1>1, <1>3, <1>4, ListenerAssumption DEF FaultType

LEMMA WholeFinite == \A S : IsFiniteSet(S) => IsFiniteSet(Whole(S))
<1>1. IsFiniteSet({"all"})
  BY FS_Singleton
<1> QED BY <1>1, FS_Product DEF Whole

\* The calls of a step are finitely many.
LEMMA CallsFinite ==
    ASSUME \A t \in Tables : IsFiniteSet(Keys[t]), NEW gone,
           \A t \in Tables : dirty[t] \cup gone[t] \subseteq Keys[t]
    PROVE  IsFiniteSet(Flushed(gone)) /\ IsFiniteSet(Flushed(gone) \cup Whole({"sat", "packets"}))
<1> DEFINE R(t) == {t} \X (dirty[t] \cup gone[t])
<1>1. \A t \in Tables : IsFiniteSet(R(t))
  <2> SUFFICES ASSUME NEW t \in Tables PROVE IsFiniteSet(R(t))
    OBVIOUS
  <2>1. IsFiniteSet(dirty[t] \cup gone[t])
    BY FS_Subset
  <2>2. IsFiniteSet({t})
    BY FS_Singleton
  <2> QED BY <2>1, <2>2, FS_Product
<1>2. UNION {R(t) : t \in Tables} = R("stations") \cup R("freqs")
  BY DEF Tables
<1>3. IsFiniteSet(R("stations") \cup R("freqs"))
  BY <1>1, FS_Union DEF Tables
<1> DEFINE A == {"life"} \cup IF slicer.n > 0 THEN {"slicer"} ELSE {}
<1>4. IsFiniteSet(A)
  <2>1. IsFiniteSet({"life"})
    BY FS_Singleton
  <2>2. A = {"life"} \/ A = {"life"} \cup {"slicer"}
    OBVIOUS
  <2>3. IsFiniteSet({"life"} \cup {"slicer"})
    BY <2>1, FS_AddElement
  <2> QED BY <2>1, <2>2, <2>3
<1>5. IsFiniteSet(Whole(A))
  BY <1>4, WholeFinite
<1> DEFINE X == Whole(A)
           Y == R("stations") \cup R("freqs")
<1>6. Flushed(gone) = X \cup Y
  BY <1>2 DEF Flushed
<1> HIDE DEF X, Y
<1>7. IsFiniteSet(Flushed(gone))
  <2>1. IsFiniteSet(X) /\ IsFiniteSet(Y)
    BY <1>3, <1>5 DEF X, Y
  <2> QED BY <1>6, <2>1, FS_Union
<1>8. IsFiniteSet(Whole({"sat", "packets"}))
  <2>1. IsFiniteSet({"sat"})
    BY FS_Singleton
  <2>2. IsFiniteSet({"sat"} \cup {"packets"}) /\ {"sat"} \cup {"packets"} = {"sat", "packets"}
    BY <2>1, FS_AddElement
  <2> QED BY <2>2, WholeFinite
<1> QED BY <1>7, <1>8, FS_Union

LEMMA LoadsFinite == IsFiniteSet(Whole({"life", "slicer", "sat"} \cup Tables))
<1>1. IsFiniteSet({"life"})
  BY FS_Singleton
<1>2. IsFiniteSet({"life"} \cup {"slicer"})
  BY <1>1, FS_AddElement
<1>3. IsFiniteSet(({"life"} \cup {"slicer"}) \cup {"sat"})
  BY <1>2, FS_AddElement
<1>4. IsFiniteSet((({"life"} \cup {"slicer"}) \cup {"sat"}) \cup {"stations"})
  BY <1>3, FS_AddElement
<1>5. IsFiniteSet(((({"life"} \cup {"slicer"}) \cup {"sat"}) \cup {"stations"}) \cup {"freqs"})
  BY <1>4, FS_AddElement
<1>6. {"life", "slicer", "sat"} \cup Tables
        = ((({"life"} \cup {"slicer"}) \cup {"sat"}) \cup {"stations"}) \cup {"freqs"}
  BY DEF Tables
<1> QED BY <1>5, <1>6, WholeFinite

LEMMA LogsFinite == \A b : IsFiniteSet(Whole({"packets"} \cup IF b THEN {"sat"} ELSE {}))
<1> SUFFICES ASSUME NEW b PROVE IsFiniteSet(Whole({"packets"} \cup IF b THEN {"sat"} ELSE {}))
  OBVIOUS
<1>1. IsFiniteSet({"packets"})
  BY FS_Singleton
<1>2. IsFiniteSet({"packets"} \cup {"sat"})
  BY <1>1, FS_AddElement
<1>3. IsFiniteSet({"packets"} \cup IF b THEN {"sat"} ELSE {})
  <2>1. CASE b
    BY <1>2, <2>1
  <2>2. CASE ~b
    <3>1. {"packets"} \cup {} = {"packets"}
      OBVIOUS
    <3> QED BY <1>1, <2>2, <3>1
  <2> QED BY <2>1, <2>2
<1> QED BY <1>3, WholeFinite
\* The counters of the bounds, after c faults.
LEMMA FaultTypes ==
    ASSUME FaultType, NEW c \in Nat,
           \/ tally' = [[tally EXCEPT !.frames = @ + 1] EXCEPT !.faults = @ + c]
           \/ tally' = [[tally EXCEPT !.ticks = @ + 1] EXCEPT !.faults = @ + c]
           \/ tally' = [tally EXCEPT !.runs = @ + 1, !.faults = @ + c]
           \/ tally' = [tally EXCEPT !.faults = @ + c]
    PROVE  FaultType'
<1>1. /\ tally.frames \in Nat /\ tally.ticks \in Nat /\ tally.runs \in Nat
      /\ tally.faults \in Nat
      /\ tally = [frames |-> tally.frames, ticks |-> tally.ticks,
                  runs |-> tally.runs, faults |-> tally.faults]
  BY DEF FaultType
<1>2. PICK i, j, k \in Nat : tally' = [frames |-> i, ticks |-> j, runs |-> k,
                                     faults |-> tally.faults + c]
  <2>1. tally.frames + 1 \in Nat /\ tally.ticks + 1 \in Nat /\ tally.runs + 1 \in Nat
    BY <1>1
  <2>2. CASE tally' = [[tally EXCEPT !.frames = @ + 1] EXCEPT !.faults = @ + c]
    <3>1. tally' = [frames |-> tally.frames + 1, ticks |-> tally.ticks,
                    runs |-> tally.runs, faults |-> tally.faults + c]
      BY <1>1, <2>2
    <3> QED BY <1>1, <2>1, <3>1
  <2>3. CASE tally' = [[tally EXCEPT !.ticks = @ + 1] EXCEPT !.faults = @ + c]
    <3>1. tally' = [frames |-> tally.frames, ticks |-> tally.ticks + 1,
                    runs |-> tally.runs, faults |-> tally.faults + c]
      BY <1>1, <2>3
    <3> QED BY <1>1, <2>1, <3>1
  <2>4. CASE tally' = [tally EXCEPT !.runs = @ + 1, !.faults = @ + c]
    <3>1. tally' = [frames |-> tally.frames, ticks |-> tally.ticks,
                    runs |-> tally.runs + 1, faults |-> tally.faults + c]
      BY <1>1, <2>4
    <3> QED BY <1>1, <2>1, <3>1
  <2>5. CASE tally' = [tally EXCEPT !.faults = @ + c]
    <3>1. tally' = [frames |-> tally.frames, ticks |-> tally.ticks,
                    runs |-> tally.runs, faults |-> tally.faults + c]
      BY <1>1, <2>5
    <3> QED BY <1>1, <3>1
  <2> QED BY <2>2, <2>3, <2>4, <2>5
<1>3. tally.faults + c \in Nat
  BY <1>1
<1> QED BY <1>2, <1>3 DEF FaultType

\* The failures of each step, and what they do to the counter on disk.
LEMMA FaultStep ==
    ASSUME \A t \in Tables : IsFiniteSet(Keys[t]), TypeInv, FaultType, [Next]_vars
    PROVE  /\ FaultType'
           /\ Tick \/ Stop => disk'.life = life \/ (MaxFaults > 0 /\ disk'.life = disk.life)
           /\ Restart => life' = disk.life \/ (MaxFaults > 0 /\ life' = 0)
<1>t. /\ tally.frames \in Nat /\ tally.ticks \in Nat /\ tally.runs \in Nat
      /\ tally.faults \in Nat
      /\ tally = [frames |-> tally.frames, ticks |-> tally.ticks,
                  runs |-> tally.runs, faults |-> tally.faults]
  BY DEF FaultType
<1>k. ASSUME NEW t \in Tables
      PROVE  /\ dirty[t] \subseteq Keys[t] /\ Evicted(t) \subseteq Keys[t]
             /\ dirty[t] \cup NoDirty[t] \subseteq Keys[t]
  <2>1. DOMAIN table[t] \subseteq Keys[t] /\ dirty[t] \subseteq DOMAIN table[t]
    BY <1>k, RowsOfElements DEF TypeInv, TableType
  <2> QED BY <1>k, <2>1 DEF Evicted, NoDirty
<1>1. ASSUME NEW f \in Frames, HearFrame(f) PROVE FaultType' /\ ~Tick /\ ~Stop /\ ~Restart
  <2>1. PICK bad \in Failures(Whole({"packets"} \cup IF f.sat THEN {"sat"} ELSE {})) :
           tally' = [[tally EXCEPT !.frames = @ + 1] EXCEPT
                        !.faults = @ + Cardinality(bad)]
    BY <1>1 DEF HearFrame, Record
  <2>2. Cardinality(bad) \in Nat
    BY <2>1, LogsFinite, FaultsCounted
  <2>3. FaultType'
    BY <2>1, <2>2, FaultTypes
  <2>4. life' = life + 1 /\ life \in Nat /\ proc = "up" /\ proc' = "up"
    BY <1>1, HearEffect DEF TypeInv, ProcessType
  <2>5. life' # life
    BY <2>4
  <2>6. ~Tick
    BY <2>5 DEF Tick
  <2> QED BY <2>3, <2>4, <2>6 DEF Stop, Restart
<1>2. ASSUME NEW f \in Frames, SkipFrame(f) PROVE FaultType' /\ ~Tick /\ ~Stop /\ ~Restart
  BY <1>2, <1>t DEF SkipFrame, FaultType, Tick, Stop, Restart
<1>3. CASE Tick
  <2> DEFINE gone == [t \in Tables |-> Evicted(t)]
             calls == Flushed(gone) \cup Whole({"sat", "packets"})
  <2>1. PICK bad \in Failures(calls) :
           /\ disk'.life = SavedLife(bad)
           /\ tally' = [[tally EXCEPT !.ticks = @ + 1] EXCEPT
                           !.faults = @ + Cardinality(bad)]
    BY <1>3, TickEffect
  <2>2. \A t \in Tables : dirty[t] \cup gone[t] \subseteq Keys[t]
    BY <1>k
  <2> HIDE DEF gone
  <2>3. IsFiniteSet(calls)
    BY <2>2, CallsFinite
  <2> HIDE DEF calls
  <2>4. Cardinality(bad) \in Nat /\ (bad # {} => MaxFaults > 0)
    BY <2>1, <2>3, FaultsCounted
  <2>5. FaultType'
    BY <2>1, <2>4, FaultTypes
  <2>6. disk'.life = life \/ (MaxFaults > 0 /\ disk'.life = disk.life)
    BY <2>1, <2>4 DEF SavedLife, Failed
  <2> QED BY <1>3, <2>5, <2>6 DEF Tick, Restart
<1>4. CASE Stop
  <2>1. PICK bad \in Failures(Flushed(NoDirty)) :
           /\ disk' = [disk EXCEPT
                         !.life = SavedLife(bad),
                         !.table = [t \in Tables |-> FlushedRows(t, {}, bad)],
                         !.slicer = SavedSlicer(bad)]
           /\ tally' = [tally EXCEPT !.faults = @ + Cardinality(bad)]
    BY <1>4 DEF Stop, Record
  <2>2. IsFiniteSet(Flushed(NoDirty))
    BY <1>k, CallsFinite
  <2>3. Cardinality(bad) \in Nat /\ (bad # {} => MaxFaults > 0)
    BY <2>1, <2>2, FaultsCounted
  <2>4. FaultType'
    BY <2>1, <2>3, FaultTypes
  <2>5. disk'.life = SavedLife(bad)
    BY <2>1 DEF TypeInv, DiskType, DiskShape
  <2>6. disk'.life = life \/ (MaxFaults > 0 /\ disk'.life = disk.life)
    BY <2>5, <2>3 DEF SavedLife, Failed
  <2> QED BY <1>4, <2>4, <2>6 DEF Stop, Restart
<1>5. CASE Restart
  <2>1. PICK bad \in Failures(Whole({"life", "slicer", "sat"} \cup Tables)) :
           /\ proc # "up"
           /\ life' = IF Failed("life", bad) THEN 0 ELSE disk.life
           /\ tally' = [tally EXCEPT !.runs = @ + 1, !.faults = @ + Cardinality(bad)]
    BY <1>5, RestartEffect
  <2>2. Cardinality(bad) \in Nat /\ (bad # {} => MaxFaults > 0)
    BY <2>1, LoadsFinite, FaultsCounted
  <2>3. FaultType'
    BY <2>1, <2>2, FaultTypes
  <2>4. life' = disk.life \/ (MaxFaults > 0 /\ life' = 0)
    BY <2>1, <2>2 DEF Failed
  <2> QED BY <2>1, <2>3, <2>4 DEF Tick, Stop
<1>6. CASE TimePasses \/ Crash \/ UNCHANGED vars
  <2>1. tally' = tally
    BY <1>6 DEF TimePasses, Crash, vars
  <2>2. CASE ~(Tick \/ Stop \/ Restart)
    BY <2>1, <2>2 DEF FaultType
  <2> QED BY <1>3, <1>4, <1>5, <2>2
<1> QED BY <1>1, <1>2, <1>3, <1>4, <1>5, <1>6 DEF Next

\* With finitely many stations and frequencies, whatever the store does, the packet
\* counter behaves as Checkpoint says.
THEOREM ListenerImplementsCheckpoint ==
    ASSUME \A t \in Tables : IsFiniteSet(Keys[t])
    PROVE  Spec => ImplementsCheckpoint
<1>1. Init => CP!Init /\ FaultType
  BY DEF Init, CP!Init, CP!Zero, EmptyDisk, FaultType
<1>2. TypeInv /\ FaultType /\ [Next]_vars => FaultType'
  BY FaultStep
<1>3. TypeInv /\ FaultType /\ [Next]_vars => [CP!Next]_(CP!vars)
  <2> SUFFICES ASSUME TypeInv, FaultType, [Next]_vars PROVE [CP!Next]_(CP!vars)
    OBVIOUS
  <2>1. ASSUME NEW f \in Frames, HearFrame(f) PROVE CP!Work
    <3>1. /\ proc = "up" /\ proc' = "up" /\ life' = life + 1 /\ disk'.life = disk.life
          /\ life \in Nat
      BY <2>1, HearEffect DEF TypeInv, ProcessType
    <3> QED BY <3>1 DEF CP!Work, CP!AtLeast
  <2>2. ASSUME UNCHANGED <<proc, life, disk>> PROVE UNCHANGED CP!vars
    BY <2>2 DEF CP!vars
  <2>3. ASSUME NEW f \in Frames, SkipFrame(f) PROVE UNCHANGED CP!vars
    BY <2>2, <2>3 DEF SkipFrame
  <2>4. CASE TimePasses \/ UNCHANGED vars
    BY <2>2, <2>4 DEF TimePasses, memory, vars
  <2>5. CASE Tick
    <3>1. /\ proc = "up" /\ proc' = "up" /\ life' = life
          /\ disk'.life = life \/ disk'.life = disk.life
      BY <2>5, FaultStep DEF Tick
    <3> QED BY <3>1 DEF CP!Next, CP!Save, CP!vars
  <2>6. CASE Stop
    <3>1. /\ proc = "up" /\ proc' = "ended" /\ life' = life
          /\ disk'.life = life \/ (MaxFaults > 0 /\ disk'.life = disk.life)
      BY <2>6, FaultStep DEF Stop
    <3> QED BY <3>1 DEF CP!Next, CP!Stop
  <2>7. CASE Crash
    BY <2>7 DEF Crash, CP!Next, CP!Crash
  <2>8. CASE Restart
    <3>1. /\ proc # "up" /\ proc' = "up" /\ disk' = disk
          /\ life' = disk.life \/ (MaxFaults > 0 /\ life' = 0)
      BY <2>8, FaultStep DEF Restart
    <3> QED BY <3>1 DEF CP!Next, CP!Restart, CP!Zero
  <2> QED BY <2>1, <2>3, <2>4, <2>5, <2>6, <2>7, <2>8 DEF Next, CP!Next
<1> QED BY <1>1, <1>2, <1>3, SpecType, PTL DEF Spec, ImplementsCheckpoint, CP!Spec
-----------------------------------------------------------------------------
(* The lifetime hits of the slicers.  Until the geometry is known they     *)
(* are only in restored_slicer; from then on the counters in memory are    *)
(* ahead of those on disk, if the bank is still of the same size.          *)

HitsAhead(l, r) ==
    /\ l.n = 0 => r = disk.slicer
    /\ l.n > 0 /\ Len(disk.slicer.hits) = l.n
       => \A i \in 1 .. l.n : l.hits[i] >= disk.slicer.hits[i]

HitsInv ==
    proc = "up" /\ disk.slicer # None /\ ~Failed("slicer", failed)
        => HitsAhead(slicer, restored)

\* A frame that tells the geometry adopts what was restored, if it fits.
LEMMA LearnHits ==
    ASSUME TypeInv, NEW f \in Frames, disk.slicer # None, HitsAhead(slicer, restored)
    PROVE  HitsAhead(Learned(f), IF slicer.n = 0 /\ f.bank > 0 THEN None ELSE restored)
<1>1. CASE slicer.n = 0 /\ f.bank > 0
  <2>1. restored = disk.slicer /\ f.bank \in Nat
    BY <1>1, FrameTypes DEF HitsAhead
  <2>2. Learned(f).n = f.bank /\ Learned(f).hits = Adopted(f.bank).hits
    BY <1>1 DEF Learned
  <2>3. ASSUME Len(disk.slicer.hits) = f.bank
        PROVE  Learned(f).hits = disk.slicer.hits
    BY <2>1, <2>2, <2>3 DEF Adopted
  <2>4. disk.slicer \in SavedType
    BY DEF TypeInv, DiskType
  <2>5. \A i \in 1 .. Len(disk.slicer.hits) : disk.slicer.hits[i] >= disk.slicer.hits[i]
    BY <2>4 DEF SavedType
  <2> QED BY <1>1, <2>1, <2>2, <2>3, <2>5 DEF HitsAhead
<1>2. CASE ~(slicer.n = 0 /\ f.bank > 0)
  BY <1>2 DEF Learned
<1> QED BY <1>1, <1>2

\* Saving makes the hits on disk those in memory.
LEMMA SaveHits ==
    ASSUME TypeInv, SlicerType', HitsInv, proc = "up", NEW bad,
           slicer'.n = slicer.n, slicer'.hits = slicer.hits,
           disk'.slicer = SavedSlicer(bad),
           disk.slicer # None, ~Failed("slicer", failed)
    PROVE  /\ disk'.slicer # None
           /\ IF Len(disk'.slicer.hits) = Len(disk.slicer.hits)
              THEN \A i \in DOMAIN disk.slicer.hits :
                     disk'.slicer.hits[i] >= disk.slicer.hits[i]
              ELSE slicer.n > 0 /\ Len(disk'.slicer.hits) = slicer.n
<1>1. /\ disk.slicer \in SavedType
      /\ DOMAIN disk.slicer.hits = 1 .. Len(disk.slicer.hits)
      /\ \A i \in DOMAIN disk.slicer.hits : disk.slicer.hits[i] \in Nat
  BY DEF TypeInv, DiskType, SavedType
<1>2. HitsAhead(slicer, restored)
  BY DEF HitsInv
<1>3. CASE slicer'.n > 0 /\ ~Failed("slicer", bad)
  <2>1. disk'.slicer.hits = slicer.hits /\ disk'.slicer # None
        /\ Len(slicer.hits) = slicer.n
    BY <1>3 DEF SavedSlicer, None, TypeInv, SlicerType
  <2> QED BY <1>1, <1>2, <1>3, <2>1 DEF HitsAhead
<1>4. CASE ~(slicer'.n > 0 /\ ~Failed("slicer", bad))
  <2>1. disk'.slicer = disk.slicer
    BY <1>4 DEF SavedSlicer
  <2> QED BY <1>1, <2>1
<1> QED BY <1>3, <1>4

LEMMA NextHits == TypeInv /\ TypeInv' /\ HitsInv /\ [Next]_vars => HitsInv'
<1> SUFFICES ASSUME TypeInv, TypeInv', HitsInv, [Next]_vars,
                    proc' = "up", disk'.slicer # None, ~Failed("slicer", failed')
             PROVE  HitsAhead(slicer, restored)'
  BY DEF HitsInv
<1>1. ASSUME NEW f \in Frames, HearFrame(f) PROVE HitsAhead(slicer, restored)'
  <2>1. /\ proc = "up" /\ disk'.slicer = disk.slicer /\ failed \subseteq failed'
        /\ restored' = IF slicer.n = 0 /\ f.bank > 0 THEN None ELSE restored
    BY <1>1, HearEffect DEF HearFrame
  <2>2. HitsAhead(slicer, restored)
    BY <2>1 DEF HitsInv, Failed
  <2>3. HitsAhead(Learned(f), restored')
    BY <1>1, <2>1, <2>2, LearnHits
  <2>4. slicer'.n = Learned(f).n /\ slicer'.hits = Tallied(Learned(f).hits, f.mask)
    BY <1>1, HearSlicer DEF TypeInv
  <2>5. Learned(f).hits \in Seq(Nat) /\ Len(Learned(f).hits) = Learned(f).n
    BY <1>1, LearnedType DEF TypeInv
  <2>6. \A i \in 1 .. Learned(f).n : slicer'.hits[i] >= Learned(f).hits[i]
    BY <2>4, <2>5, CountVectors
  <2>7. disk.slicer \in SavedType
    BY <2>1 DEF TypeInv, DiskType
  <2>8. ASSUME slicer'.n > 0, Len(disk.slicer.hits) = slicer'.n, NEW i \in 1 .. slicer'.n
        PROVE  slicer'.hits[i] >= disk.slicer.hits[i]
    <3>1. Learned(f).hits[i] >= disk.slicer.hits[i]
      BY <2>3, <2>4, <2>8 DEF HitsAhead
    <3>2. slicer'.hits[i] >= Learned(f).hits[i]
      BY <2>4, <2>6, <2>8
    <3>3. /\ slicer'.hits[i] \in Nat /\ Learned(f).hits[i] \in Nat
          /\ disk.slicer.hits[i] \in Nat
      <4>1. disk.slicer.hits \in Seq(Nat) /\ i \in 1 .. Len(disk.slicer.hits)
        BY <2>7, <2>8 DEF SavedType
      <4>2. slicer'.hits \in Seq(Nat) /\ i \in 1 .. Len(slicer'.hits)
        BY <2>8 DEF TypeInv, SlicerType
      <4>3. i \in 1 .. Len(Learned(f).hits)
        BY <2>4, <2>5, <2>8
      <4>4. disk.slicer.hits[i] \in Nat
        BY <4>1
      <4>5. slicer'.hits[i] \in Nat
        BY <4>2
      <4>6. Learned(f).hits[i] \in Nat
        BY <2>5, <4>3
      <4> QED BY <4>4, <4>5, <4>6
    <3> QED BY <3>1, <3>2, <3>3
  <2> QED BY <2>1, <2>3, <2>4, <2>8 DEF HitsAhead
<1>2. ASSUME NEW f \in Frames, SkipFrame(f) PROVE HitsAhead(slicer, restored)'
  <2>1. /\ proc = "up" /\ disk' = disk /\ failed' = failed /\ slicer' = Learned(f)
        /\ restored' = IF slicer.n = 0 /\ f.bank > 0 THEN None ELSE restored
    BY <1>2 DEF SkipFrame
  <2>2. HitsAhead(slicer, restored)
    BY <2>1 DEF HitsInv
  <2>3. HitsAhead(Learned(f), restored')
    BY <1>2, <2>1, <2>2, LearnHits
  <2> QED BY <2>1, <2>3 DEF HitsAhead
<1>3. CASE Tick
  <2>1. PICK bad :
           /\ proc = "up" /\ restored' = restored
           /\ slicer'.n = slicer.n /\ slicer'.hits = slicer.hits
           /\ disk'.slicer = SavedSlicer(bad)
           /\ failed' = (failed \ Flushed([t \in Tables |-> Evicted(t)])) \cup bad
    BY <1>3, TickEffect DEF TypeInv, SlicerType
  <2>2. ~Failed("slicer", bad)
    BY <2>1 DEF Failed
  <2>3. slicer.n \in Nat /\ slicer.hits \in Seq(Nat) /\ Len(slicer.hits) = slicer.n
    BY DEF TypeInv, SlicerType
  <2>4. CASE slicer.n > 0
    <3>1. disk'.slicer.hits = slicer.hits
      BY <2>1, <2>2, <2>4 DEF SavedSlicer
    <3> QED BY <2>1, <2>3, <2>4, <3>1 DEF HitsAhead
  <2>5. CASE slicer.n = 0
    <3>1. ~Failed("slicer", failed)
      BY <2>1, <2>5, FlushedCalls DEF Failed
    <3>2. disk'.slicer = disk.slicer
      BY <2>1, <2>5 DEF SavedSlicer
    <3>3. restored = disk.slicer
      BY <2>1, <2>5, <3>1, <3>2 DEF HitsInv, HitsAhead
    <3> QED BY <2>1, <2>5, <3>2, <3>3 DEF HitsAhead
  <2> QED BY <2>3, <2>4, <2>5
<1>4. CASE Restart
  <2>1. PICK bad :
           /\ slicer' = FreshSlicer /\ disk' = disk
           /\ restored' = IF Failed("slicer", bad) THEN None ELSE disk.slicer
           /\ failed' = (bad \cap Calls)
                 \cup UNION {{t} \X Keys[t] : t \in {u \in Tables : Failed(u, bad)}}
    BY <1>4, RestartEffect
  <2>2. ~Failed("slicer", bad)
    BY <2>1 DEF Failed, Calls, Whole
  <2> QED BY <2>1, <2>2 DEF HitsAhead, FreshSlicer
<1>5. CASE Stop \/ Crash
  BY <1>5 DEF Stop, Crash
<1>6. CASE TimePasses \/ UNCHANGED vars
  <2>1. UNCHANGED <<proc, disk, failed, slicer, restored>>
    BY <1>6 DEF TimePasses, memory, vars
  <2> QED BY <2>1 DEF HitsInv, HitsAhead
<1> QED BY <1>1, <1>2, <1>3, <1>4, <1>5, <1>6 DEF Next

\* Whatever the order of frames, restarts, crashes and failures: lifetime hits that are
\* on disk never get lost or smaller, unless the bank has another size or the run could
\* not load them.
THEOREM LifetimeHitsSurvive == Spec => HitsSurvive
<1> DEFINE Survives ==
       disk.slicer # None /\ ~Failed("slicer", failed) =>
          /\ disk'.slicer # None
          /\ IF Len(disk'.slicer.hits) = Len(disk.slicer.hits)
             THEN \A i \in DOMAIN disk.slicer.hits :
                    disk'.slicer.hits[i] >= disk.slicer.hits[i]
             ELSE slicer.n > 0 /\ Len(disk'.slicer.hits) = slicer.n
<1>1. Init => HitsInv
  BY DEF Init, HitsInv, EmptyDisk
<1>2. TypeInv /\ TypeInv' /\ HitsInv /\ [Next]_vars => Survives
  <2> SUFFICES ASSUME TypeInv, TypeInv', HitsInv, [Next]_vars, disk.slicer # None,
                      ~Failed("slicer", failed)
               PROVE  Survives
    OBVIOUS
  <2>1. ASSUME disk'.slicer = disk.slicer PROVE Survives
    <3>1. disk.slicer.hits \in Seq(Nat)
      BY DEF TypeInv, DiskType, SavedType
    <3> QED BY <2>1, <3>1
  <2>2. ASSUME NEW f \in Frames, HearFrame(f) \/ SkipFrame(f) PROVE Survives
    <3>1. disk'.slicer = disk.slicer
      BY <2>2, HearEffect DEF SkipFrame
    <3> QED BY <2>1, <3>1
  <2>3. CASE Tick
    <3>1. PICK bad : /\ proc = "up" /\ slicer'.n = slicer.n /\ slicer'.hits = slicer.hits
                     /\ disk'.slicer = SavedSlicer(bad)
      BY <2>3, TickEffect DEF TypeInv, SlicerType
    <3> QED BY <3>1, SaveHits DEF TypeInv
  <2>4. CASE Stop
    <3>1. PICK bad : /\ proc = "up" /\ slicer'.n = slicer.n /\ slicer'.hits = slicer.hits
                     /\ disk'.slicer = SavedSlicer(bad)
      BY <2>4, StopEffect
    <3> QED BY <3>1, SaveHits DEF TypeInv
  <2>5. CASE Crash \/ Restart \/ TimePasses \/ UNCHANGED vars
    BY <2>1, <2>5 DEF Crash, Restart, TimePasses, vars
  <2> QED BY <2>2, <2>3, <2>4, <2>5 DEF Next
<1> QED BY <1>1, <1>2, NextHits, SpecType, PTL DEF Spec, HitsSurvive
-----------------------------------------------------------------------------
(* The satellite log.  Pruning stops at the first packet that is young     *)
(* enough, so the log has to be in the order of the time stamps: it is if  *)
(* the packets of satellites all arrive with the same delay.               *)

SameDelay == \A f, g \in Frames : f.sat /\ g.sat => f.late = g.late

Ordered(q) == \A i, j \in DOMAIN q : i < j => q[i] <= q[j]

Elements(q) == {q[i] : i \in DOMAIN q}

\* No time stamp is later than that of a satellite packet heard now.
NotAhead(S) == \A f \in Frames : f.sat => \A s \in S : s <= now - f.late

SatDisk == disk.sat \in SUBSET Int /\ IsFiniteSet(disk.sat) /\ NotAhead(disk.sat)

SatMemory ==
    proc = "up" => satlog \in Seq(Int) /\ Ordered(satlog) /\ NotAhead(Elements(satlog))

SatInv == SatDisk /\ SatMemory /\ SatLogMirrored

\* A table is loaded in order, and completely.
LEMMA AscendingLists ==
    ASSUME NEW S \in SUBSET Int, IsFiniteSet(S)
    PROVE  Ascending(S) \in Seq(Int) /\ Ordered(Ascending(S)) /\ Elements(Ascending(S)) = S
<1> DEFINE d == [s \in S |-> s]
           n == Cardinality(S)
           Up(q) == \A i, j \in DOMAIN q : i < j => q[i] < q[j]
<1>1. Keyed(S, d) /\ n \in Nat
  BY FS_CardinalityType DEF Keyed
<1>2. ASSUME NEW q \in [1 .. n -> S] PROVE Increasing(q, d) <=> Up(q)
  BY DEF Increasing
<1> HIDE DEF d
<1>3. \E q \in [1 .. n -> S] : Up(q)
  <2>1. PICK q \in [1 .. n -> S] : Increasing(q, d)
    BY <1>1, EnumerationExists
  <2> QED BY <1>2, <2>1
<1> DEFINE a == Ascending(S)
<1>4. a \in [1 .. n -> S] /\ Up(a)
  BY <1>3 DEF Ascending
<1> HIDE DEF a
<1>5. Enumerates(a, n, S, d)
  BY <1>1, <1>2, <1>4, EnumerationOnto
<1>6. Elements(a) = S
  BY <1>4, <1>5 DEF Elements, Enumerates
<1> HIDE DEF n
<1>7. a \in Seq(Int)
  <2>1. a \in [1 .. n -> Int]
    BY <1>4
  <2> QED BY <1>1, <2>1, SeqDef, Zenon
<1>8. Ordered(a)
  <2> SUFFICES ASSUME NEW i \in DOMAIN a, NEW j \in DOMAIN a, i < j
               PROVE  a[i] <= a[j]
    BY DEF Ordered
  <2>1. a[i] \in Int /\ a[j] \in Int
    BY <1>4
  <2>2. a[i] < a[j]
    BY <1>4
  <2> QED BY <2>1, <2>2
<1> QED BY <1>6, <1>7, <1>8 DEF a

\* There is a place where the pruning stops.
LEMMA PrunedPlace ==
    ASSUME satlog \in Seq(Int), now \in Nat
    PROVE  /\ SatPruned \in 0 .. Len(satlog)
           /\ \A i \in 1 .. SatPruned : now - satlog[i] > SatKeep
           /\ SatPruned < Len(satlog) => now - satlog[SatPruned + 1] <= SatKeep
<1> DEFINE Stops(n) == /\ \A i \in 1 .. n : now - satlog[i] > SatKeep
                       /\ n < Len(satlog) => now - satlog[n + 1] <= SatKeep
           Young == {i \in 1 .. Len(satlog) : ~(now - satlog[i] > SatKeep)}
<1>1. Len(satlog) \in Nat /\ SatKeep \in Nat /\ \A i \in 1 .. Len(satlog) : satlog[i] \in Int
  BY ListenerAssumption
<1>2. \E n \in 0 .. Len(satlog) : Stops(n)
  <2>1. CASE Young = {}
    <3>1. Stops(Len(satlog))
      BY <1>1, <2>1
    <3> QED BY <1>1, <3>1
  <2>2. CASE Young # {}
    <3>1. Young \in SUBSET Nat
      BY <1>1
    <3>2. PICK y \in Young : \A m \in Young : y <= m
      BY <2>2, <3>1, Least
    <3>3. y \in 1 .. Len(satlog) /\ now - satlog[y] <= SatKeep
      BY <1>1, <3>2
    <3>4. ASSUME NEW i \in 1 .. y - 1 PROVE now - satlog[i] > SatKeep
      <4>1. i \in 1 .. Len(satlog) /\ ~(y <= i)
        BY <1>1, <3>3
      <4>2. i \notin Young
        BY <3>2, <4>1
      <4> QED BY <4>1, <4>2
    <3>5. (y - 1) + 1 = y /\ y - 1 \in 0 .. Len(satlog)
      BY <1>1, <3>3
    <3>6. Stops(y - 1)
      BY <3>3, <3>4, <3>5
    <3> QED BY <3>5, <3>6
  <2> QED BY <2>1, <2>2
<1>3. SatPruned \in 0 .. Len(satlog) /\ Stops(SatPruned)
  BY <1>2 DEF SatPruned
<1> QED BY <1>3

\* A list stays in order when something that is not earlier is appended.
LEMMA AppendElements ==
    ASSUME NEW q \in Seq(Int), NEW s \in Int
    PROVE  Append(q, s) \in Seq(Int) /\ Elements(Append(q, s)) = Elements(q) \cup {s}
<1> DEFINE a == Append(q, s)
<1>1. /\ a \in Seq(Int) /\ DOMAIN a = 1 .. Len(q) + 1 /\ DOMAIN q = 1 .. Len(q)
      /\ Len(q) \in Nat /\ a[Len(q) + 1] = s
  OBVIOUS
<1>2. \A i \in 1 .. Len(q) : a[i] = q[i]
  OBVIOUS
<1> HIDE DEF a
<1>3. ASSUME NEW x \in Elements(a) PROVE x \in Elements(q) \cup {s}
  <2>1. PICK i \in 1 .. Len(q) + 1 : x = a[i]
    BY <1>1 DEF Elements
  <2>2. CASE i = Len(q) + 1
    BY <1>1, <2>1, <2>2
  <2>3. CASE i # Len(q) + 1
    <3>1. i \in 1 .. Len(q)
      BY <1>1, <2>1, <2>3
    <3> QED BY <1>1, <1>2, <2>1, <3>1 DEF Elements
  <2> QED BY <2>2, <2>3
<1>4. ASSUME NEW x \in Elements(q) \cup {s} PROVE x \in Elements(a)
  <2>1. CASE x = s
    <3>1. Len(q) + 1 \in DOMAIN a
      BY <1>1
    <3> QED BY <1>1, <2>1, <3>1 DEF Elements
  <2>2. CASE x \in Elements(q)
    <3>1. PICK i \in 1 .. Len(q) : x = q[i]
      BY <1>1, <2>2 DEF Elements
    <3>2. i \in DOMAIN a
      BY <1>1, <3>1
    <3> QED BY <1>2, <3>1, <3>2 DEF Elements
  <2> QED BY <1>4, <2>1, <2>2
<1>5. Elements(a) = Elements(q) \cup {s}
  BY <1>3, <1>4
<1> QED BY <1>1, <1>5 DEF a

LEMMA AppendOrdered ==
    ASSUME NEW q \in Seq(Int), NEW s \in Int, Ordered(q), \A x \in Elements(q) : x <= s
    PROVE  Ordered(Append(q, s))
<1> DEFINE a == Append(q, s)
<1>1. /\ DOMAIN a = 1 .. Len(q) + 1 /\ DOMAIN q = 1 .. Len(q)
      /\ Len(q) \in Nat /\ a[Len(q) + 1] = s
  OBVIOUS
<1>2. \A i \in 1 .. Len(q) : a[i] = q[i]
  OBVIOUS
<1> HIDE DEF a
<1>3. ASSUME NEW i \in DOMAIN a, NEW j \in DOMAIN a, i < j PROVE a[i] <= a[j]
  <2>1. i \in 1 .. Len(q) /\ (j = Len(q) + 1 \/ j \in 1 .. Len(q))
    BY <1>1, <1>3
  <2>2. q[i] \in Elements(q)
    BY <1>1, <2>1 DEF Elements
  <2>3. CASE j = Len(q) + 1
    BY <1>1, <1>2, <2>1, <2>2, <2>3
  <2>4. CASE j \in 1 .. Len(q)
    BY <1>1, <1>2, <1>3, <2>1, <2>4 DEF Ordered
  <2> QED BY <2>1, <2>3, <2>4
<1> QED BY <1>3 DEF Ordered, a

\* Pruning an ordered list up to the first place that is young enough leaves what is
\* young enough, and nothing of what it drops.
StopsAt(q, m, c, w) ==
    /\ \A i \in 1 .. m : c - q[i] > w
    /\ m < Len(q) => c - q[m + 1] <= w

LEMMA PruneOrdered ==
    ASSUME NEW q \in Seq(Int), Ordered(q), NEW m \in 0 .. Len(q), NEW c \in Nat,
           NEW w \in Nat, StopsAt(q, m, c, w), NEW r, r = SubSeq(q, m + 1, Len(q))
    PROVE  /\ r \in Seq(Int) /\ Ordered(r)
           /\ Elements(r) = Elements(q) \ {q[i] : i \in 1 .. m}
           /\ \A x \in Elements(r) : c - x <= w
<1> DEFINE n == Len(q)
<1>0. /\ \A i \in 1 .. m : c - q[i] > w
      /\ m < n => c - q[m + 1] <= w
  BY DEF StopsAt
<1>1. n \in Nat /\ m \in Nat /\ m <= n /\ DOMAIN q = 1 .. n /\ \A i \in 1 .. n : q[i] \in Int
  OBVIOUS
<1>2. r \in Seq(Int) /\ DOMAIN r = 1 .. n - m
  <2>1. r \in Seq(Int)
    BY <1>1, SubSeqProperties
  <2>2. Len(r) = IF m + 1 <= n THEN n - (m + 1) + 1 ELSE 0
    <3>1. m + 1 \in Int /\ n \in Int /\ \A i \in (m + 1) .. n : q[i] \in Int
      BY <1>1
    <3> QED BY <3>1, SubSeqProperties
  <2> HIDE DEF n
  <2>3. Len(r) = n - m
    BY <1>1, <2>2
  <2> QED BY <2>1, <2>3
<1>3. \A k \in 1 .. n - m : r[k] = q[m + k]
  BY <1>1, SubSeqProperties
<1> HIDE DEF n
<1>4. \A i \in 1 .. n : i > m => c - q[i] <= w
  <2> SUFFICES ASSUME NEW i \in 1 .. n, i > m PROVE c - q[i] <= w
    OBVIOUS
  <2>1. m + 1 \in 1 .. n /\ m < n /\ (m + 1 < i \/ m + 1 = i)
    BY <1>1
  <2>2. q[m + 1] <= q[i]
    <3>1. q[m + 1] \in Int
      BY <1>1, <2>1
    <3>2. CASE m + 1 = i
      BY <3>1, <3>2
    <3>3. CASE m + 1 < i
      BY <1>1, <2>1, <3>3 DEF Ordered
    <3> QED BY <2>1, <3>2, <3>3
  <2>3. c - q[m + 1] <= w
    BY <1>0, <2>1
  <2> QED BY <1>1, <2>1, <2>2, <2>3
<1>5. Ordered(r)
  <2> SUFFICES ASSUME NEW i \in 1 .. n - m, NEW j \in 1 .. n - m, i < j
               PROVE  r[i] <= r[j]
    BY <1>2 DEF Ordered
  <2>1. m + i \in 1 .. n /\ m + j \in 1 .. n /\ m + i < m + j
    BY <1>1
  <2>2. q[m + i] <= q[m + j]
    BY <1>1, <2>1 DEF Ordered
  <2> QED BY <1>3, <2>2
<1>6. ASSUME NEW x \in Elements(r)
      PROVE  c - x <= w /\ x \in Elements(q) /\ x \notin {q[i] : i \in 1 .. m}
  <2>1. PICK k \in 1 .. n - m : x = r[k]
    BY <1>2 DEF Elements
  <2>2. m + k \in 1 .. n /\ m + k > m
    BY <1>1
  <2>3. x = q[m + k]
    BY <1>3, <2>1
  <2>4. c - x <= w /\ x \in Elements(q) /\ x \in Int
    BY <1>1, <1>4, <2>2, <2>3 DEF Elements
  <2>5. ASSUME NEW i \in 1 .. m PROVE x # q[i]
    <3>1. q[i] \in Int /\ c - q[i] > w
      BY <1>0, <1>1
    <3> QED BY <2>4, <3>1
  <2> QED BY <2>4, <2>5
<1>7. ASSUME NEW x \in Elements(q), x \notin {q[i] : i \in 1 .. m} PROVE x \in Elements(r)
  <2>1. PICK i \in 1 .. n : x = q[i]
    BY <1>1, <1>7 DEF Elements
  <2>2. i \notin 1 .. m
    BY <1>7, <2>1
  <2>3. i - m \in 1 .. n - m /\ m + (i - m) = i
    BY <1>1, <2>1, <2>2
  <2>4. r[i - m] = x
    BY <1>3, <2>1, <2>3
  <2> QED BY <1>2, <2>3, <2>4 DEF Elements
<1>8. Elements(r) = Elements(q) \ {q[i] : i \in 1 .. m}
  BY <1>6, <1>7
<1> QED BY <1>2, <1>5, <1>6, <1>8

\* What a frame does to the log and its table.
LEMMA HearSat ==
    ASSUME TypeInv, NEW f \in Frames, HearFrame(f)
    PROVE  /\ satlog' = IF f.sat THEN Append(satlog, now - f.late) ELSE satlog
           /\ \/ ~f.sat /\ disk'.sat = disk.sat
              \/ f.sat /\ disk'.sat = disk.sat \cup {now - f.late}
              \/ f.sat /\ disk'.sat = disk.sat /\ Failed("sat", failed')
<1>1. PICK bad \in Failures(Whole({"packets"} \cup IF f.sat THEN {"sat"} ELSE {})) :
         /\ disk' = [disk EXCEPT
               !.sat = IF f.sat /\ ~Failed("sat", bad) THEN @ \cup {now - f.late} ELSE @,
               !.packets = IF Failed("packets", bad) THEN @
                           ELSE Put(@, now - f.late, tally.frames)]
         /\ failed' = (failed \ {}) \cup bad
  BY DEF HearFrame, Record
<1>2. disk'.sat = IF f.sat /\ ~Failed("sat", bad) THEN disk.sat \cup {now - f.late}
                  ELSE disk.sat
  BY <1>1 DEF TypeInv, DiskType, DiskShape
<1>3. Failed("sat", bad) => Failed("sat", failed')
  BY <1>1 DEF Failed
<1> QED BY <1>2, <1>3 DEF HearFrame

\* What a tick does to them.
LEMMA TickSat ==
    ASSUME TypeInv, Tick
    PROVE  /\ satlog' = SubSeq(satlog, SatPruned + 1, Len(satlog))
           /\ \/ disk'.sat = disk.sat \ {satlog[i] : i \in 1 .. SatPruned}
              \/ disk'.sat = disk.sat /\ Failed("sat", failed')
           /\ Failed("sat", failed) => Failed("sat", failed')
<1> DEFINE gone == [t \in Tables |-> Evicted(t)]
<1>1. PICK bad \in Failures(Flushed(gone) \cup Whole({"sat", "packets"})) :
         /\ disk' = [life    |-> SavedLife(bad),
                     table   |-> [t \in Tables |-> FlushedRows(t, gone[t], bad)],
                     slicer  |-> SavedSlicer(bad),
                     sat     |-> IF Failed("sat", bad) THEN disk.sat
                                 ELSE disk.sat \ {satlog[i] : i \in 1 .. SatPruned},
                     packets |-> IF Failed("packets", bad) THEN disk.packets
                                 ELSE Without(disk.packets,
                                              {s \in DOMAIN disk.packets :
                                                   s < now - PacketKeep})]
         /\ failed' = (failed \ Flushed(gone)) \cup bad
  BY DEF Tick, Record
<1> HIDE DEF gone
<1>2. disk'.sat = IF Failed("sat", bad) THEN disk.sat
                  ELSE disk.sat \ {satlog[i] : i \in 1 .. SatPruned}
  BY <1>1
<1>3. <<"sat", "all">> \notin Flushed(gone)
  BY DEF Flushed, Whole, Tables
<1>4. Failed("sat", bad) \/ Failed("sat", failed) => Failed("sat", failed')
  BY <1>1, <1>3 DEF Failed
<1>5. satlog' = SubSeq(satlog, SatPruned + 1, Len(satlog))
  BY DEF Tick
<1> QED BY <1>2, <1>4, <1>5

LEMMA InitSat == Init => SatInv
<1> SUFFICES ASSUME Init PROVE SatInv
  OBVIOUS
<1>1. satlog = <<>> /\ disk.sat = {} /\ ticked = FALSE
  BY DEF Init, EmptyDisk
<1>2. IsFiniteSet({})
  BY FS_EmptySet
<1> QED BY <1>1, <1>2 DEF SatInv, SatDisk, SatMemory, SatLogMirrored, Ordered, Elements, NotAhead

LEMMA NextSat == SameDelay /\ TypeInv /\ TypeInv' /\ SatInv /\ [Next]_vars => SatInv'
<1> SUFFICES ASSUME SameDelay, TypeInv, TypeInv', SatInv, [Next]_vars PROVE SatInv'
  OBVIOUS
<1>0. now \in Nat /\ \A f \in Frames : f.late \in Nat
  BY ListenerAssumption DEF TypeInv, ProcessType, Frame
<1>1. ASSUME NEW f \in Frames, HearFrame(f) PROVE SatInv'
  <2> DEFINE s == now - f.late
  <2>1. /\ proc = "up" /\ proc' = "up" /\ now' = now /\ ticked' = FALSE /\ s \in Int
        /\ failed \subseteq failed'
    BY <1>0, <1>1, HearEffect DEF HearFrame
  <2>2. /\ satlog \in Seq(Int) /\ Ordered(satlog) /\ NotAhead(Elements(satlog))
        /\ ~Failed("sat", failed) => disk.sat = Elements(satlog)
    BY <2>1 DEF SatInv, SatMemory, SatLogMirrored, Elements
  <2>3. CASE ~f.sat
    <3>1. satlog' = satlog /\ disk'.sat = disk.sat
      BY <1>1, <2>3, HearSat
    <3>2. UNCHANGED <<now, proc>> /\ (Failed("sat", failed) => Failed("sat", failed'))
      BY <2>1 DEF Failed
    <3> QED BY <2>1, <2>2, <3>1, <3>2
            DEF SatInv, SatDisk, SatMemory, SatLogMirrored, NotAhead, Elements
  <2>4. CASE f.sat
    <3>1. /\ satlog' = Append(satlog, s)
          /\ \/ disk'.sat = disk.sat \cup {s}
             \/ disk'.sat = disk.sat /\ Failed("sat", failed')
      BY <1>1, <2>4, HearSat
    <3>2. \A g \in Frames : g.sat => s <= now - g.late
      BY <1>0, <2>4 DEF SameDelay
    <3>3. satlog' \in Seq(Int) /\ Elements(satlog') = Elements(satlog) \cup {s}
      BY <2>1, <2>2, <3>1, AppendElements
    <3>4. NotAhead(Elements(satlog))'
      BY <2>1, <2>2, <3>2, <3>3 DEF NotAhead, Elements
    <3>5. Ordered(satlog')
      <4>1. \A x \in Elements(satlog) : x <= s
        BY <2>2, <2>4 DEF NotAhead
      <4> HIDE DEF s
      <4> QED BY <2>1, <2>2, <3>1, <4>1, AppendOrdered
    <3>6. SatDisk'
      <4>1. disk.sat \in SUBSET Int /\ IsFiniteSet(disk.sat) /\ NotAhead(disk.sat)
        BY DEF SatInv, SatDisk
      <4>2. IsFiniteSet(disk.sat \cup {s})
        BY <4>1, FS_AddElement
      <4>3. NotAhead(disk.sat \cup {s})
        BY <3>2, <4>1 DEF NotAhead
      <4>4. disk'.sat \in SUBSET Int /\ IsFiniteSet(disk'.sat) /\ NotAhead(disk'.sat)
        BY <2>1, <3>1, <4>1, <4>2, <4>3
      <4> QED BY <2>1, <4>4 DEF SatDisk, NotAhead
    <3>7. ~Failed("sat", failed') => disk'.sat = Elements(satlog')
      BY <2>1, <2>2, <3>1, <3>3 DEF Failed
    <3> QED BY <2>1, <3>3, <3>4, <3>5, <3>6, <3>7
            DEF SatInv, SatMemory, SatLogMirrored, Elements
  <2> QED BY <2>3, <2>4
<1>2. CASE Tick
  <2> DEFINE m == SatPruned
  <2>1. /\ proc = "up" /\ proc' = "up" /\ now' = now
        /\ satlog' = SubSeq(satlog, m + 1, Len(satlog))
        /\ \/ disk'.sat = disk.sat \ {satlog[i] : i \in 1 .. m}
           \/ disk'.sat = disk.sat /\ Failed("sat", failed')
        /\ Failed("sat", failed) => Failed("sat", failed')
    BY <1>2, TickSat DEF Tick
  <2>2. /\ satlog \in Seq(Int) /\ Ordered(satlog) /\ NotAhead(Elements(satlog))
        /\ ~Failed("sat", failed) => disk.sat = Elements(satlog)
    BY <2>1 DEF SatInv, SatMemory, SatLogMirrored, Elements
  <2>3. /\ m \in 0 .. Len(satlog)
        /\ \A i \in 1 .. m : now - satlog[i] > SatKeep
        /\ m < Len(satlog) => now - satlog[m + 1] <= SatKeep
    BY <1>0, <2>2, PrunedPlace
  <2> HIDE DEF m
  <2>4. /\ satlog' \in Seq(Int) /\ Ordered(satlog')
        /\ Elements(satlog') = Elements(satlog) \ {satlog[i] : i \in 1 .. m}
        /\ \A x \in Elements(satlog') : now - x <= SatKeep
    <3>1. SatKeep \in Nat
      BY ListenerAssumption
    <3>2. StopsAt(satlog, m, now, SatKeep)
      BY <2>3 DEF StopsAt
    <3> QED BY <1>0, <2>1, <2>2, <2>3, <3>1, <3>2, PruneOrdered
  <2>5. SatDisk'
    <3>1. disk.sat \in SUBSET Int /\ IsFiniteSet(disk.sat) /\ NotAhead(disk.sat)
      BY DEF SatInv, SatDisk
    <3>2. disk'.sat \subseteq disk.sat
      BY <2>1
    <3>3. IsFiniteSet(disk'.sat)
      BY <3>1, <3>2, FS_Subset
    <3> QED BY <2>1, <3>1, <3>2, <3>3 DEF SatDisk, NotAhead
  <2>6. NotAhead(Elements(satlog))'
    BY <2>1, <2>2, <2>4 DEF NotAhead, Elements
  <2>7. ~Failed("sat", failed') => disk'.sat = Elements(satlog')
    BY <2>1, <2>2, <2>4
  <2>8. \A i \in DOMAIN satlog' : now' - satlog'[i] <= SatKeep
    BY <2>1, <2>4 DEF Elements
  <2> QED BY <2>1, <2>4, <2>5, <2>6, <2>7, <2>8
          DEF SatInv, SatMemory, SatLogMirrored, Elements
<1>3. CASE Restart
  <2>1. PICK bad :
           /\ satlog' = IF Failed("sat", bad) THEN <<>> ELSE Ascending(disk.sat)
           /\ failed' = (bad \cap Calls)
                 \cup UNION {{t} \X Keys[t] : t \in {u \in Tables : Failed(u, bad)}}
    BY <1>3 DEF Restart
  <2>2. now' = now /\ disk' = disk /\ ticked' = FALSE
    BY <1>3 DEF Restart
  <2>3. Failed("sat", bad) => Failed("sat", failed')
    BY <2>1 DEF Failed, Calls, Whole
  <2>4. disk.sat \in SUBSET Int /\ IsFiniteSet(disk.sat) /\ NotAhead(disk.sat)
    BY DEF SatInv, SatDisk
  <2>5. SatDisk'
    BY <2>2, <2>4 DEF SatDisk, NotAhead
  <2>6. CASE Failed("sat", bad)
    <3>1. satlog' = <<>>
      BY <2>1, <2>6
    <3>2. satlog' \in Seq(Int) /\ Elements(satlog') = {} /\ Ordered(satlog')
      BY <3>1 DEF Elements, Ordered
    <3> QED BY <2>2, <2>3, <2>5, <2>6, <3>2 DEF SatInv, SatMemory, SatLogMirrored, NotAhead
  <2>7. CASE ~Failed("sat", bad)
    <3>1. satlog' \in Seq(Int) /\ Ordered(satlog') /\ Elements(satlog') = disk.sat
      BY <2>1, <2>4, <2>7, AscendingLists
    <3> QED BY <2>2, <2>4, <2>5, <3>1
            DEF SatInv, SatMemory, SatLogMirrored, NotAhead, Elements
  <2> QED BY <2>6, <2>7
<1>4. CASE Stop \/ Crash
  <2>1. proc' # "up" /\ now' = now /\ disk'.sat = disk.sat
    <3>1. CASE Crash
      BY <3>1 DEF Crash
    <3>2. CASE Stop
      <4>1. proc' # "up" /\ now' = now
        BY <3>2 DEF Stop
      <4>2. PICK bad : disk' = [disk EXCEPT
                            !.life = SavedLife(bad),
                            !.table = [t \in Tables |-> FlushedRows(t, {}, bad)],
                            !.slicer = SavedSlicer(bad)]
        BY <3>2 DEF Stop
      <4> QED BY <4>1, <4>2 DEF TypeInv, DiskType, DiskShape
    <3> QED BY <1>4, <3>1, <3>2
  <2> QED BY <2>1 DEF SatInv, SatDisk, SatMemory, SatLogMirrored, NotAhead
<1>5. CASE TimePasses
  <2>1. UNCHANGED <<proc, satlog, disk, failed>> /\ ticked' = FALSE /\ now' = now + 1
    BY <1>5 DEF TimePasses, memory
  <2>2. ASSUME NEW S, S \subseteq Int, NotAhead(S) PROVE NotAhead(S)'
    <3> SUFFICES ASSUME NEW f \in Frames, f.sat, NEW x \in S PROVE x <= now' - f.late
      BY DEF NotAhead
    <3>1. x <= now - f.late /\ x \in Int /\ now \in Nat /\ f.late \in Nat
      BY <1>0, <2>2 DEF NotAhead
    <3> QED BY <2>1, <3>1
  <2>3. SatDisk'
    <3>1. disk.sat \in SUBSET Int /\ IsFiniteSet(disk.sat) /\ NotAhead(disk.sat)
      BY DEF SatInv, SatDisk
    <3>2. NotAhead(disk.sat)' 
      BY <2>1, <2>2, <3>1 DEF NotAhead
    <3> QED BY <2>1, <3>1, <3>2 DEF SatDisk
  <2>4. SatMemory'
    <3> SUFFICES ASSUME proc = "up"
                 PROVE  satlog \in Seq(Int) /\ Ordered(satlog) /\ NotAhead(Elements(satlog))'
      BY <2>1 DEF SatMemory
    <3>1. satlog \in Seq(Int) /\ Ordered(satlog) /\ NotAhead(Elements(satlog))
      BY DEF SatInv, SatMemory
    <3>2. Elements(satlog) \subseteq Int
      BY <3>1 DEF Elements
    <3> QED BY <2>1, <2>2, <3>1, <3>2 DEF NotAhead, Elements
  <2> QED BY <2>1, <2>3, <2>4 DEF SatInv, SatLogMirrored
<1>6. ASSUME NEW f \in Frames, SkipFrame(f) PROVE SatInv'
  <2>1. UNCHANGED <<proc, now, satlog, disk, failed>> /\ ticked' = FALSE
    BY <1>6 DEF SkipFrame
  <2> QED BY <2>1 DEF SatInv, SatDisk, SatMemory, SatLogMirrored, NotAhead, Elements
<1>7. CASE UNCHANGED vars
  <2>1. UNCHANGED <<proc, now, satlog, disk, failed, ticked>>
    BY <1>7 DEF vars
  <2> QED BY <2>1 DEF SatInv, SatDisk, SatMemory, SatLogMirrored, NotAhead, Elements
<1> QED BY <1>1, <1>2, <1>3, <1>4, <1>5, <1>6, <1>7 DEF Next

\* If the packets of satellites arrive in the order of their time stamps, the log and
\* its table hold the same packets until a transaction on it fails, and no packet
\* outlives a tick that should have pruned it.
THEOREM SatLogAgrees == ASSUME SameDelay PROVE Spec => []SatLogMirrored
<1>1. SatInv => SatLogMirrored
  BY DEF SatInv
<1>2. SameDelay
  OBVIOUS
<1>3. TypeInv /\ TypeInv' /\ SatInv /\ [Next]_vars => SatInv'
  BY <1>2, NextSat
<1> QED BY <1>1, <1>3, InitSat, SpecType, PTL DEF Spec
=============================================================================
