----------------------------- MODULE WatchedProofs -----------------------------
(***************************************************************************)
(* Proofs about Watched: no station is listed twice, the table agrees with *)
(* the list between requests, and a restart gives back the tabs in order.  *)
(***************************************************************************)
EXTENDS Watched, OrderLemmas, SequenceTheorems

Distinct(q) == \A i, j \in DOMAIN q : q[i] = q[j] => i = j

Requests == {Idle} \cup {Adding(s) : s \in Stations} \cup {Removing(s) : s \in Stations}

ListType == list \in Seq(Stations) /\ Distinct(list)

\* The rows were added one after the other.
DiskType ==
    /\ DOMAIN disk \subseteq Stations
    /\ Keyed(DOMAIN disk, disk)
    /\ clock \in Nat
    /\ \A s \in DOMAIN disk : disk[s] \in Nat /\ disk[s] < clock

HistoryType ==
    /\ overlap \in BOOLEAN /\ raced \in BOOLEAN
    /\ req \in [Clients -> Requests]
    /\ runs \in Nat

TypeInv == ListType /\ DiskType /\ HistoryType

-----------------------------------------------------------------------------
(* Facts about the operators.                                              *)

\* A finite table is enumerated by InOrder.
LEMMA InOrderEnumerates ==
    ASSUME NEW d, Keyed(DOMAIN d, d)
    PROVE  Enumerates(InOrder(d), Cardinality(DOMAIN d), DOMAIN d, d)
<1> DEFINE D == DOMAIN d
           n == Cardinality(D)
           Up(q) == \A i, j \in DOMAIN q : i < j => d[q[i]] < d[q[j]]
<1>1. \E q \in [1 .. n -> D] : Increasing(q, d)
  BY EnumerationExists
<1>2. \A q \in [1 .. n -> D] : Increasing(q, d) <=> Up(q)
  BY DEF Increasing
<1>3. InOrder(d) \in [1 .. n -> D] /\ Up(InOrder(d))
  BY <1>1, <1>2 DEF InOrder
<1>4. Increasing(InOrder(d), d)
  BY <1>2, <1>3
<1> QED BY <1>3, <1>4, EnumerationOnto

\* What enumerates a set is a list of its elements, each of them once.
LEMMA EnumerationLists ==
    ASSUME NEW q, NEW n, NEW D, NEW d, Keyed(D, d), Enumerates(q, n, D, d)
    PROVE  /\ q \in Seq(D) /\ Len(q) = n /\ DOMAIN q = 1 .. n
           /\ Distinct(q)
           /\ {q[i] : i \in DOMAIN q} = D
<1>1. n \in Nat /\ q \in [1 .. n -> D] /\ Increasing(q, d)
      /\ \A x \in D : \E i \in 1 .. n : q[i] = x
  BY DEF Enumerates
<1>2. q \in Seq(D)
  <2>1. n \in Nat /\ q \in [1 .. n -> D]
    BY <1>1
  <2> QED BY <2>1, SeqDef, Zenon
<1>3. DOMAIN q = 1 .. n /\ Len(q) = n
  <2>1. DOMAIN q = 1 .. n
    BY <1>1
  <2>2. DOMAIN q = 1 .. Len(q) /\ Len(q) \in Nat
    BY <1>2
  <2>3. Len(q) = n
    BY <1>1, <2>1, <2>2
  <2> QED BY <2>1, <2>3
<1>4. Distinct(q)
  <2> SUFFICES ASSUME NEW i \in 1 .. n, NEW j \in 1 .. n, q[i] = q[j], i < j
               PROVE  FALSE
    BY <1>1, <1>3 DEF Distinct
  <2>1. d[q[i]] < d[q[j]]
    BY <1>1 DEF Increasing
  <2>2. d[q[i]] \in Int
    BY <1>1 DEF Keyed
  <2> QED BY <2>1, <2>2
<1>5. {q[i] : i \in DOMAIN q} = D
  BY <1>1, <1>3
<1> QED BY <1>2, <1>3, <1>4, <1>5

\* The rows after a row is added, and after one is removed.
Added(s) == [x \in DOMAIN disk \cup {s} |-> IF x = s THEN clock ELSE disk[x]]
Removed(s) == [x \in DOMAIN disk \ {s} |-> disk[x]]

LEMMA AddedType ==
    ASSUME DiskType, NEW s \in Stations
    PROVE  /\ DOMAIN Added(s) = DOMAIN disk \cup {s}
           /\ Keyed(DOMAIN Added(s), Added(s))
           /\ \A x \in DOMAIN Added(s) : Added(s)[x] \in Nat /\ Added(s)[x] < clock + 1
<1> DEFINE e == Added(s)
<1>1. DOMAIN e = DOMAIN disk \cup {s}
      /\ e = [x \in DOMAIN disk \cup {s} |-> IF x = s THEN clock ELSE disk[x]]
  BY DEF Added
<1> HIDE DEF e
<1>2. IsFiniteSet(DOMAIN e)
  BY <1>1, FS_AddElement DEF DiskType, Keyed
<1>3. clock \in Nat /\ \A x \in DOMAIN disk : disk[x] \in Nat /\ disk[x] < clock
  BY DEF DiskType
<1>4. \A x \in DOMAIN e : e[x] \in Nat /\ e[x] < clock + 1
  BY <1>1, <1>3
<1>5. e \in [DOMAIN e -> Int]
  <2>1. \A x \in DOMAIN disk \cup {s} : (IF x = s THEN clock ELSE disk[x]) \in Int
    BY <1>3
  <2>2. e \in [DOMAIN disk \cup {s} -> Int]
    BY <1>1, <2>1, Zenon
  <2> QED BY <1>1, <2>2
<1>6. ASSUME NEW x \in DOMAIN e, NEW y \in DOMAIN e, e[x] = e[y] PROVE x = y
  <2>1. \A z \in DOMAIN disk : z # s => e[z] = disk[z]
    BY <1>1
  <2>2. e[s] = clock /\ s \in DOMAIN e
    BY <1>1
  <2>3. CASE x = s \/ y = s
    <3>1. \A z \in DOMAIN e : z # s => z \in DOMAIN disk /\ e[z] < clock /\ e[z] \in Nat
      BY <1>1, <1>3, <2>1
    <3> QED BY <1>3, <1>6, <2>2, <2>3, <3>1
  <2>4. CASE x # s /\ y # s
    BY <1>1, <1>6, <2>1, <2>4 DEF DiskType, Keyed
  <2> QED BY <2>3, <2>4
<1> QED BY <1>1, <1>2, <1>4, <1>5, <1>6 DEF Keyed, e

LEMMA RemovedType ==
    ASSUME DiskType, NEW s
    PROVE  /\ DOMAIN Removed(s) = DOMAIN disk \ {s}
           /\ Keyed(DOMAIN Removed(s), Removed(s))
           /\ \A x \in DOMAIN Removed(s) : Removed(s)[x] = disk[x]
<1> DEFINE e == Removed(s)
<1>1. DOMAIN e = DOMAIN disk \ {s} /\ e = [x \in DOMAIN disk \ {s} |-> disk[x]]
  BY DEF Removed
<1> HIDE DEF e
<1>2. IsFiniteSet(DOMAIN e)
  BY <1>1, FS_Subset DEF DiskType, Keyed
<1>3. e \in [DOMAIN e -> Int]
  BY <1>1 DEF DiskType, Keyed
<1>4. ASSUME NEW x \in DOMAIN e, NEW y \in DOMAIN e, e[x] = e[y] PROVE x = y
  BY <1>1, <1>4 DEF DiskType, Keyed
<1> QED BY <1>1, <1>2, <1>3, <1>4 DEF Keyed, e

\* The stations retain() leaves are those of the list but s, in the same order.
LEMMA RetainedList ==
    ASSUME ListType, NEW s
    PROVE  /\ Retained(s) \in Seq(Stations) /\ Distinct(Retained(s))
           /\ {Retained(s)[i] : i \in DOMAIN Retained(s)} = Listed \ {s}
           /\ \E at : /\ \A i \in DOMAIN Retained(s) : /\ at[i] \in DOMAIN list
                                                       /\ Retained(s)[i] = list[at[i]]
                      /\ \A i, j \in DOMAIN Retained(s) : i < j => at[i] < at[j]
<1> DEFINE K == Kept(s)
           d == [i \in K |-> i]
           n == Cardinality(K)
           at == InOrder(d)
           r == Retained(s)
<1>1. /\ list \in Seq(Stations) /\ Len(list) \in Nat /\ DOMAIN list = 1 .. Len(list)
      /\ Distinct(list) /\ \A i \in DOMAIN list : list[i] \in Stations
  BY DEF ListType
<1>2. IsFiniteSet(K) /\ K \subseteq 1 .. Len(list)
  <2>1. IsFiniteSet(1 .. Len(list))
    BY <1>1, FS_Interval
  <2>2. K \subseteq 1 .. Len(list)
    BY <1>1 DEF Kept
  <2> QED BY <2>1, <2>2, FS_Subset
<1>3. DOMAIN d = K /\ Keyed(K, d)
  BY <1>2 DEF Keyed
<1>4. Enumerates(at, n, K, d)
  <2> HIDE DEF d
  <2> QED BY <1>3, InOrderEnumerates
<1>5. /\ n \in Nat /\ at \in [1 .. n -> K] /\ Increasing(at, d)
      /\ \A x \in K : \E i \in 1 .. n : at[i] = x
  BY <1>4 DEF Enumerates
<1>6. r = [i \in 1 .. n |-> list[at[i]]]
  BY <1>5 DEF Retained
<1>7. \A i, j \in 1 .. n : i < j => at[i] < at[j]
  BY <1>5 DEF Increasing
<1>8. \A i \in K : i \in DOMAIN list /\ list[i] # s
  BY DEF Kept
<1>9. \A i \in DOMAIN list : list[i] # s => i \in K
  BY DEF Kept
<1> HIDE DEF K, d, n, at, r
<1>10. DOMAIN r = 1 .. n /\ \A i \in 1 .. n : r[i] = list[at[i]] /\ at[i] \in DOMAIN list
  BY <1>5, <1>6, <1>8
<1>11. r \in Seq(Stations)
  <2>1. r \in [1 .. n -> Stations]
    BY <1>1, <1>6, <1>10
  <2> QED BY <1>5, <2>1, SeqDef, Zenon
<1>12. Distinct(r)
  <2> SUFFICES ASSUME NEW i \in 1 .. n, NEW j \in 1 .. n, r[i] = r[j], i < j
               PROVE  FALSE
    BY <1>5, <1>10 DEF Distinct
  <2>1. at[i] = at[j]
    BY <1>1, <1>10 DEF Distinct
  <2>2. at[i] < at[j] /\ at[i] \in Int
    BY <1>1, <1>7, <1>10
  <2> QED BY <2>1, <2>2
<1>13. {r[i] : i \in DOMAIN r} = Listed \ {s}
  <2>1. ASSUME NEW i \in DOMAIN r PROVE r[i] \in Listed \ {s}
    BY <1>5, <1>8, <1>10 DEF Listed
  <2>2. ASSUME NEW x \in Listed, x # s PROVE \E i \in DOMAIN r : r[i] = x
    <3>1. PICK k \in DOMAIN list : list[k] = x
      BY DEF Listed
    <3>2. PICK i \in 1 .. n : at[i] = k
      BY <1>5, <1>9, <2>2, <3>1
    <3> QED BY <1>10, <3>1, <3>2
  <2> QED BY <2>1, <2>2
<1>14. \E a : /\ \A i \in DOMAIN r : a[i] \in DOMAIN list /\ r[i] = list[a[i]]
              /\ \A i, j \in DOMAIN r : i < j => a[i] < a[j]
  BY <1>7, <1>10
<1> QED BY <1>11, <1>12, <1>13, <1>14 DEF r

\* A station that is not listed is appended.
LEMMA AppendedList ==
    ASSUME ListType, NEW s \in Stations, s \notin Listed
    PROVE  /\ Append(list, s) \in Seq(Stations) /\ Distinct(Append(list, s))
           /\ {Append(list, s)[i] : i \in DOMAIN Append(list, s)} = Listed \cup {s}
<1> DEFINE a == Append(list, s)
           n == Len(list)
<1>1. /\ n \in Nat /\ DOMAIN list = 1 .. n /\ Distinct(list)
      /\ a \in Seq(Stations) /\ DOMAIN a = 1 .. n + 1 /\ a[n + 1] = s
      /\ \A i \in 1 .. n : a[i] = list[i]
  BY DEF ListType
<1> HIDE DEF a, n
<1>2. \A i \in 1 .. n : a[i] \in Listed /\ a[i] # s
  BY <1>1 DEF Listed
<1>3. \A i \in DOMAIN a : i \in 1 .. n \/ i = n + 1
  BY <1>1
<1>4. Distinct(a)
  <2> SUFFICES ASSUME NEW i \in DOMAIN a, NEW j \in DOMAIN a, a[i] = a[j] PROVE i = j
    BY DEF Distinct
  <2> QED BY <1>1, <1>2, <1>3 DEF Distinct
<1>5. {a[i] : i \in DOMAIN a} = Listed \cup {s}
  <2>1. \A i \in DOMAIN a : a[i] \in Listed \cup {s}
    BY <1>1, <1>2, <1>3
  <2>2. ASSUME NEW x \in Listed PROVE \E i \in DOMAIN a : a[i] = x
    <3>1. PICK i \in 1 .. n : list[i] = x
      BY <1>1 DEF Listed
    <3>2. i \in DOMAIN a
      BY <1>1
    <3> QED BY <1>1, <3>1, <3>2
  <2>3. n + 1 \in DOMAIN a
    BY <1>1
  <2> QED BY <1>1, <2>1, <2>2, <2>3
<1> QED BY <1>1, <1>4, <1>5 DEF a

-----------------------------------------------------------------------------
(* Types.                                                                  *)

LEMMA InitType == Init => TypeInv
<1> SUFFICES ASSUME Init PROVE TypeInv
  OBVIOUS
<1>1. list = <<>> /\ DOMAIN disk = {} /\ disk = [s \in {} |-> 0] /\ clock = 0
  BY DEF Init
<1>2. ListType
  BY <1>1 DEF ListType, Distinct
<1>3. DiskType
  BY <1>1, FS_EmptySet DEF DiskType, Keyed
<1>4. HistoryType
  BY DEF Init, HistoryType, Requests
<1> QED BY <1>2, <1>3, <1>4 DEF TypeInv

\* A request's own fields.
LEMMA RequestFields ==
    ASSUME NEW r \in Requests
    PROVE  /\ r = Idle \/ (r.op \in {"add", "remove"} /\ r.station \in Stations)
           /\ r.op = "add" => r # Idle
           /\ r.op = "remove" => r # Idle
  BY DEF Requests, Idle, Adding, Removing

LEMMA NextType == TypeInv /\ [Next]_vars => TypeInv'
<1> SUFFICES ASSUME TypeInv, [Next]_vars PROVE TypeInv'
  OBVIOUS
<1> USE DEF TypeInv
<1>1. ASSUME NEW c \in Clients, NEW s \in Stations, PostAdds(c, s) PROVE TypeInv'
  <2>1. ListType'
    BY <1>1, AppendedList DEF PostAdds, ListType, Distinct
  <2>2. DiskType'
    BY <1>1 DEF PostAdds, DiskType
  <2>3. HistoryType'
    BY <1>1 DEF PostAdds, HistoryType, Pending, Requests
  <2> QED BY <2>1, <2>2, <2>3
<1>2. ASSUME NEW c \in Clients, NEW s \in Stations, PostRefused(c, s) PROVE TypeInv'
  BY <1>2 DEF PostRefused, ListType, Distinct, DiskType, HistoryType
<1>3. ASSUME NEW c \in Clients, NEW s \in Stations, Delete(c, s) PROVE TypeInv'
  <2>1. ListType'
    BY <1>3, RetainedList DEF Delete, ListType, Distinct
  <2>2. DiskType'
    BY <1>3 DEF Delete, DiskType
  <2>3. HistoryType'
    BY <1>3 DEF Delete, HistoryType, Pending, Requests
  <2> QED BY <2>1, <2>2, <2>3
<1>4. ASSUME NEW c \in Clients, PersistAdd(c) PROVE TypeInv'
  <2>1. req[c] \in Requests /\ req[c].op = "add"
    BY <1>4 DEF PersistAdd, HistoryType
  <2>2. req[c].station \in Stations
    BY <2>1, RequestFields
  <2>3. (disk' = Added(req[c].station) \/ disk' = disk) /\ clock' = clock + 1
    BY <1>4 DEF PersistAdd, Added
  <2>4. DiskType'
    <3>1. CASE disk' = disk
      BY <2>3, <3>1 DEF DiskType
    <3>2. CASE disk' = Added(req[c].station)
      <4>1. /\ DOMAIN disk' = DOMAIN disk \cup {req[c].station}
            /\ Keyed(DOMAIN disk', disk')
            /\ \A x \in DOMAIN disk' : disk'[x] \in Nat /\ disk'[x] < clock + 1
        BY <2>2, <3>2, AddedType
      <4>2. clock \in Nat /\ DOMAIN disk \subseteq Stations
        BY DEF DiskType
      <4>3. Keyed(DOMAIN disk, disk)'
        BY <4>1 DEF Keyed
      <4>4. clock' \in Nat
        BY <2>3, <4>2
      <4> QED BY <2>2, <2>3, <4>1, <4>2, <4>3, <4>4 DEF DiskType
    <3> QED BY <2>3, <3>1, <3>2
  <2>5. ListType'
    BY <1>4 DEF PersistAdd, ListType, Distinct
  <2>6. HistoryType'
    BY <1>4 DEF PersistAdd, HistoryType, Requests
  <2> QED BY <2>4, <2>5, <2>6
<1>5. ASSUME NEW c \in Clients, PersistRemove(c) PROVE TypeInv'
  <2>1. (disk' = Removed(req[c].station) \/ disk' = disk) /\ clock' = clock
    BY <1>5 DEF PersistRemove, Removed
  <2>2. DiskType'
    <3>1. CASE disk' = disk
      BY <2>1, <3>1 DEF DiskType
    <3>2. CASE disk' = Removed(req[c].station)
      BY <2>1, <3>2, RemovedType DEF DiskType
    <3> QED BY <2>1, <3>1, <3>2
  <2>3. ListType'
    BY <1>5 DEF PersistRemove, ListType, Distinct
  <2>4. HistoryType'
    BY <1>5 DEF PersistRemove, HistoryType, Requests
  <2> QED BY <2>2, <2>3, <2>4
<1>6. CASE Restart
  <2>1. ListType'
    <3>1. list' = <<>> \/ list' = InOrder(disk)
      BY <1>6 DEF Restart, LoadOrder
    <3>2. CASE list' = <<>>
      BY <3>2 DEF ListType, Distinct
    <3>3. CASE list' = InOrder(disk)
      <4>1. list' \in Seq(DOMAIN disk) /\ Distinct(list)'
        BY <3>3, InOrderEnumerates, EnumerationLists DEF DiskType, Distinct
      <4>2. list' \in Seq(Stations)
        BY <4>1, SeqMonotonic DEF DiskType
      <4> QED BY <4>1, <4>2 DEF ListType
    <3> QED BY <3>1, <3>2, <3>3
  <2>2. DiskType'
    BY <1>6 DEF Restart, DiskType
  <2>3. HistoryType'
    <3>1. runs' \in Nat
      BY <1>6 DEF Restart, HistoryType
    <3>2. overlap' \in BOOLEAN /\ raced' \in BOOLEAN
      BY <1>6, Zenon DEF Restart, HistoryType
    <3>3. req' \in [Clients -> Requests]
      BY <1>6 DEF Restart, Requests
    <3> QED BY <3>1, <3>2, <3>3 DEF HistoryType
  <2> QED BY <2>1, <2>2, <2>3
<1>7. CASE UNCHANGED vars
  BY <1>7 DEF vars, ListType, Distinct, DiskType, HistoryType
<1> QED BY <1>1, <1>2, <1>3, <1>4, <1>5, <1>6, <1>7 DEF Next

LEMMA SpecType == Spec => []TypeInv
  BY InitType, NextType, PTL DEF Spec

\* Whatever the clients, the stations, the cap and the failures of the store: no
\* station is ever listed twice, and every row was added before now.
THEOREM WatchedTypes == Spec => []TypeOK
<1>1. TypeInv => TypeOK
  <2> SUFFICES ASSUME TypeInv PROVE TypeOK
    OBVIOUS
  <2>1. Listed \subseteq Stations
    BY DEF TypeInv, ListType, Listed
  <2>2. Cardinality(Listed) = Len(list)
    <3> DEFINE n == Len(list)
    <3>1. n \in Nat /\ list \in [1 .. n -> Listed]
      <4>1. list \in Seq(Stations) /\ n \in Nat /\ DOMAIN list = 1 .. n
        BY DEF TypeInv, ListType
      <4> QED BY <4>1 DEF Listed
    <3>2. list \in Bijection(1 .. n, Listed)
      <4>1. list \in Injection(1 .. n, Listed)
        BY <3>1 DEF TypeInv, ListType, Distinct, Injection, IsInjective
      <4>2. list \in Surjection(1 .. n, Listed)
        BY <3>1 DEF Listed, Surjection
      <4> QED BY <4>1, <4>2 DEF Bijection
    <3>3. IsFiniteSet(1 .. n) /\ Cardinality(1 .. n) = n
      <4> HIDE DEF n
      <4> QED BY <3>1, FS_Interval
    <3>4. ExistsBijection(1 .. n, Listed)
      BY <3>2 DEF ExistsBijection
    <3> HIDE DEF n
    <3>5. Cardinality(Listed) = n
      BY <3>3, <3>4, FS_Bijection
    <3> QED BY <3>5 DEF n
  <2>3. \A s \in DOMAIN disk : disk[s] \in 0 .. clock
    BY DEF TypeInv, DiskType
  <2> QED BY <2>1, <2>2, <2>3 DEF TypeOK, TypeInv, DiskType, HistoryType, Requests
<1> QED BY <1>1, SpecType, PTL

-----------------------------------------------------------------------------
(* The table and the list.  Between the change of the list and that of the *)
(* table they disagree about the one station the request is about.         *)

Busy(s) == \E c \in Clients : req[c] # Idle /\ req[c].station = s

\* A station no request is working on is in both or in neither; one that is being
\* added is listed already, one that is being removed no longer.
Agree ==
    /\ \A s \in Stations : ~Busy(s) => (s \in DOMAIN disk <=> s \in Listed)
    /\ \A c \in Clients : /\ req[c].op = "add" => req[c].station \in Listed
                          /\ req[c].op = "remove" => req[c].station \notin Listed

\* No two requests are working on one station.
OneEach ==
    \A c, e \in Clients :
        req[c] # Idle /\ req[e] # Idle /\ req[c].station = req[e].station => c = e

MatchInv == ~raced => Agree /\ OneEach

LEMMA InitMatch == Init => MatchInv
  BY DEF Init, MatchInv, Agree, OneEach, Busy, Listed, Idle

\* A request about s that no other one is working on, after which s is listed
\* exactly if it is to be added.
LEMMA BeginMatch ==
    ASSUME TypeInv, MatchInv, ~raced', NEW c \in Clients, NEW s \in Stations,
           NEW r, r = Adding(s) \/ r = Removing(s), Begins(c), Pending(c, r),
           disk' = disk,
           r = Adding(s) => Listed' = Listed \cup {s},
           r = Removing(s) => Listed' = Listed \ {s}
    PROVE  MatchInv'
<1>1. r # Idle /\ r.station = s /\ r.op \in {"add", "remove"}
      /\ (r.op = "add" => r = Adding(s)) /\ (r.op = "remove" => r = Removing(s))
  BY DEF Adding, Removing, Idle
<1>2. ~raced /\ \A e \in Clients : req[e] # Idle => req[e].station # s
  BY <1>1 DEF Pending
<1>3. Agree /\ OneEach
  BY <1>2 DEF MatchInv
<1>4. /\ req' = [req EXCEPT ![c] = r] /\ req \in [Clients -> Requests]
      /\ req[c] = Idle
  BY DEF Pending, Begins, TypeInv, HistoryType
<1>5. req'[c] = r /\ \A e \in Clients : e # c => req'[e] = req[e]
  BY <1>4
<1>6. \A e \in Clients : req[e].op \in {"add", "remove"} => req[e] # Idle
  BY DEF Idle
<1>7. OneEach'
  BY <1>1, <1>2, <1>3, <1>5 DEF OneEach
<1>8. ASSUME NEW x \in Stations, ~Busy(x)'
      PROVE  x \in DOMAIN disk' <=> x \in Listed'
  <2>1. x # s
    BY <1>1, <1>5, <1>8 DEF Busy
  <2>2. ~Busy(x)
    BY <1>4, <1>5, <1>8 DEF Busy
  <2>3. x \in Listed' <=> x \in Listed
    BY <2>1
  <2> QED BY <1>3, <2>2, <2>3 DEF Agree
<1>9. ASSUME NEW e \in Clients
      PROVE  /\ req'[e].op = "add" => req'[e].station \in Listed'
             /\ req'[e].op = "remove" => req'[e].station \notin Listed'
  <2>1. CASE e = c
    BY <1>1, <1>5, <2>1
  <2>2. CASE e # c
    <3>1. req'[e] = req[e] /\ (req[e] # Idle => req[e].station # s)
      BY <1>2, <1>5, <2>2
    <3>2. \A x : x # s => (x \in Listed' <=> x \in Listed)
      OBVIOUS
    <3> QED BY <1>3, <1>6, <3>1, <3>2 DEF Agree
  <2> QED BY <2>1, <2>2
<1>10. Agree'
  BY <1>8, <1>9 DEF Agree
<1> QED BY <1>7, <1>10 DEF MatchInv

\* The request is done, and the table agrees with the list about its station.
LEMMA EndMatch ==
    ASSUME TypeInv, MatchInv, NEW c \in Clients, req[c] # Idle,
           req' = [req EXCEPT ![c] = Idle], list' = list, raced' = raced,
           \A x : x # req[c].station => (x \in DOMAIN disk' <=> x \in DOMAIN disk),
           ~raced => (req[c].station \in DOMAIN disk' <=> req[c].station \in Listed)
    PROVE  MatchInv'
<1> SUFFICES ASSUME ~raced PROVE Agree' /\ OneEach'
  BY DEF MatchInv
<1>1. Agree /\ OneEach /\ Listed' = Listed
  BY DEF MatchInv, Listed
<1>2. req'[c] = Idle /\ \A e \in Clients : e # c => req'[e] = req[e]
  BY DEF TypeInv, HistoryType
<1>3. OneEach'
  BY <1>1, <1>2 DEF OneEach
<1>4. ASSUME NEW x \in Stations, ~Busy(x)'
      PROVE  x \in DOMAIN disk' <=> x \in Listed
  <2>1. CASE x = req[c].station
    BY <2>1
  <2>2. CASE x # req[c].station
    <3>1. ~Busy(x)
      BY <1>2, <1>4, <2>2 DEF Busy
    <3> QED BY <1>1, <2>2, <3>1 DEF Agree
  <2> QED BY <2>1, <2>2
<1>5. Idle.op # "add" /\ Idle.op # "remove"
  BY DEF Idle
<1>6. Agree'
  BY <1>1, <1>2, <1>4, <1>5 DEF Agree
<1> QED BY <1>3, <1>6

LEMMA NextMatch == ~StoreFails /\ TypeInv /\ MatchInv /\ [Next]_vars => MatchInv'
<1> SUFFICES ASSUME ~StoreFails, TypeInv, MatchInv, [Next]_vars PROVE MatchInv'
  OBVIOUS
<1>0. Outcomes = {TRUE}
  BY DEF Outcomes
<1>1. ASSUME NEW c \in Clients, NEW s \in Stations, PostAdds(c, s) PROVE MatchInv'
  <2>1. Listed' = Listed \cup {s}
    BY <1>1, AppendedList DEF PostAdds, TypeInv, Listed
  <2>2. Adding(s) # Removing(s)
    BY DEF Adding, Removing
  <2>3. CASE raced'
    BY <2>3 DEF MatchInv
  <2>4. CASE ~raced'
    BY <1>1, <2>1, <2>2, <2>4, BeginMatch DEF PostAdds
  <2> QED BY <2>3, <2>4
<1>2. ASSUME NEW c \in Clients, NEW s \in Stations, PostRefused(c, s) PROVE MatchInv'
  BY <1>2 DEF PostRefused, MatchInv, Agree, OneEach, Busy, Listed
<1>3. ASSUME NEW c \in Clients, NEW s \in Stations, Delete(c, s) PROVE MatchInv'
  <2>1. Listed' = Listed \ {s}
    <3>1. list' = Retained(s)
      BY <1>3 DEF Delete
    <3>2. {Retained(s)[i] : i \in DOMAIN Retained(s)} = Listed \ {s}
      BY RetainedList DEF TypeInv
    <3>3. Listed' = {list'[i] : i \in DOMAIN list'}
      BY DEF Listed
    <3> QED BY <3>1, <3>2, <3>3
  <2>2. Adding(s) # Removing(s)
    BY DEF Adding, Removing
  <2>3. CASE raced'
    BY <2>3 DEF MatchInv
  <2>4. CASE ~raced'
    BY <1>3, <2>1, <2>2, <2>4, BeginMatch DEF Delete
  <2> QED BY <2>3, <2>4
<1>4. ASSUME NEW c \in Clients, PersistAdd(c) PROVE MatchInv'
  <2>1. req[c] # Idle
    BY <1>4 DEF PersistAdd, Idle
  <2>2. disk' = Added(req[c].station)
    BY <1>0, <1>4 DEF PersistAdd, Added
  <2>3. DOMAIN disk' = DOMAIN disk \cup {req[c].station}
    BY <2>2 DEF Added
  <2>4. ~raced => req[c].station \in Listed
    BY <1>4 DEF PersistAdd, MatchInv, Agree
  <2> QED BY <1>4, <2>1, <2>3, <2>4, EndMatch DEF PersistAdd
<1>5. ASSUME NEW c \in Clients, PersistRemove(c) PROVE MatchInv'
  <2>1. req[c] # Idle
    BY <1>5 DEF PersistRemove, Idle
  <2>2. disk' = Removed(req[c].station)
    BY <1>0, <1>5 DEF PersistRemove, Removed
  <2>3. DOMAIN disk' = DOMAIN disk \ {req[c].station}
    BY <2>2 DEF Removed
  <2>4. ~raced => req[c].station \notin Listed
    BY <1>5 DEF PersistRemove, MatchInv, Agree
  <2> QED BY <1>5, <2>1, <2>3, <2>4, EndMatch DEF PersistRemove
<1>6. CASE Restart
  <2>1. list' = InOrder(disk) /\ disk' = disk /\ req' = [c \in Clients |-> Idle]
    BY <1>0, <1>6 DEF Restart, LoadOrder
  <2>2. Listed' = DOMAIN disk
    <3>1. Keyed(DOMAIN disk, disk)
      BY DEF TypeInv, DiskType
    <3>2. {InOrder(disk)[i] : i \in DOMAIN InOrder(disk)} = DOMAIN disk
      BY <3>1, InOrderEnumerates, EnumerationLists
    <3>3. Listed' = {list'[i] : i \in DOMAIN list'}
      BY DEF Listed
    <3> QED BY <2>1, <3>2, <3>3
  <2>3. OneEach'
    BY <2>1 DEF OneEach
  <2>4. Agree'
    BY <2>1, <2>2 DEF Agree, Idle
  <2> QED BY <2>3, <2>4 DEF MatchInv
<1>7. CASE UNCHANGED vars
  BY <1>7 DEF vars, MatchInv, Agree, OneEach, Busy, Listed
<1> QED BY <1>1, <1>2, <1>3, <1>4, <1>5, <1>6, <1>7 DEF Next

\* With a working store, whatever the clients, the stations and the cap: when no
\* request is in progress the table holds the listed stations and no others, unless
\* two requests about one station overlapped; a crash inside a request does no harm.
THEOREM TableAgreesWithList == ASSUME ~StoreFails PROVE Spec => []TableMatchesList
<1>1. TypeInv /\ MatchInv => TableMatchesList
  <2> SUFFICES ASSUME TypeInv, MatchInv, Quiet, ~raced PROVE DOMAIN disk = Listed
    BY DEF TableMatchesList
  <2>1. \A s \in Stations : s \in DOMAIN disk <=> s \in Listed
    BY DEF MatchInv, Agree, Busy, Quiet
  <2>2. Listed \subseteq Stations
    BY DEF TypeInv, ListType, Listed
  <2> QED BY <2>1, <2>2 DEF TypeInv, DiskType
<1>2. TypeInv /\ MatchInv /\ [Next]_vars => MatchInv'
  BY NextMatch
<1> QED BY <1>1, <1>2, InitMatch, SpecType, PTL DEF Spec

-----------------------------------------------------------------------------
(* The order of the tabs.  As long as requests do not overlap, the list is *)
(* the order of the rows that will be there when the request is done.      *)

InTabOrder(d) == Enumerates(list, Len(list), DOMAIN d, d)

OrderInv ==
    ~overlap =>
        /\ Quiet => InTabOrder(disk)
        /\ \A c \in Clients :
              req[c] # Idle =>
                 /\ \A e \in Clients : e # c => req[e] = Idle
                 /\ req[c].op = "add" => InTabOrder(Added(req[c].station))
                 /\ req[c].op = "remove" => InTabOrder(Removed(req[c].station))

\* A station appended to the list gets the latest row.
LEMMA AppendInOrder ==
    ASSUME TypeInv, InTabOrder(disk), NEW s \in Stations, s \notin Listed
    PROVE  Enumerates(Append(list, s), Len(Append(list, s)), DOMAIN Added(s), Added(s))
<1> DEFINE n == Len(list)
           a == Append(list, s)
           e == Added(s)
<1>1. /\ n \in Nat /\ list \in [1 .. n -> DOMAIN disk] /\ Increasing(list, disk)
      /\ \A x \in DOMAIN disk : \E i \in 1 .. n : list[i] = x
  BY DEF InTabOrder, Enumerates
<1>2. /\ a \in Seq(Stations) /\ DOMAIN a = 1 .. n + 1 /\ Len(a) = n + 1 /\ a[n + 1] = s
      /\ \A i \in 1 .. n : a[i] = list[i]
  BY DEF TypeInv, ListType
<1>3. /\ DOMAIN e = DOMAIN disk \cup {s} /\ e[s] = clock
      /\ \A x \in DOMAIN disk : x # s => e[x] = disk[x]
  BY DEF Added
<1>4. \A x \in DOMAIN disk : disk[x] < clock
  BY DEF TypeInv, DiskType
<1>5. \A i \in 1 .. n : list[i] \in DOMAIN disk /\ list[i] # s
  BY <1>1 DEF Listed
<1> HIDE DEF n, a, e
<1>6. \A i \in 1 .. n + 1 : i \in 1 .. n \/ i = n + 1
  BY <1>1
<1>7. \A i \in 1 .. n + 1 : a[i] \in DOMAIN e
  BY <1>2, <1>3, <1>5, <1>6
<1>8. a \in [1 .. n + 1 -> DOMAIN e]
  BY <1>2, <1>7
<1>9. Increasing(a, e)
  <2> SUFFICES ASSUME NEW i \in 1 .. n + 1, NEW j \in 1 .. n + 1, i < j
               PROVE  e[a[i]] < e[a[j]]
    BY <1>2 DEF Increasing
  <2>1. i \in 1 .. n
    BY <1>1
  <2>2. e[a[i]] = disk[list[i]]
    BY <1>2, <1>3, <1>5, <2>1
  <2>3. CASE j = n + 1
    BY <1>2, <1>3, <1>4, <1>5, <2>1, <2>2, <2>3
  <2>4. CASE j \in 1 .. n
    <3>1. e[a[j]] = disk[list[j]]
      BY <1>2, <1>3, <1>5, <2>4
    <3>2. disk[list[i]] < disk[list[j]]
      BY <1>1, <2>1, <2>4 DEF Increasing
    <3> QED BY <2>2, <3>1, <3>2
  <2> QED BY <1>6, <2>3, <2>4
<1>10. ASSUME NEW x \in DOMAIN e PROVE \E i \in 1 .. n + 1 : a[i] = x
  <2>1. CASE x = s
    <3>1. n + 1 \in 1 .. n + 1
      BY <1>1
    <3> QED BY <1>2, <2>1, <3>1
  <2>2. CASE x # s
    <3>1. PICK i \in 1 .. n : list[i] = x
      BY <1>1, <1>3, <2>2
    <3>2. i \in 1 .. n + 1
      BY <1>1
    <3> QED BY <1>2, <3>1, <3>2
  <2> QED BY <2>1, <2>2
<1>11. n + 1 \in Nat
  BY <1>1
<1> QED BY <1>2, <1>8, <1>9, <1>10, <1>11 DEF Enumerates, a, e

\* A station taken off the list leaves the others in their order.
LEMMA RetainInOrder ==
    ASSUME TypeInv, InTabOrder(disk), NEW s
    PROVE  Enumerates(Retained(s), Len(Retained(s)), DOMAIN Removed(s), Removed(s))
<1> DEFINE r == Retained(s)
           n == Len(r)
           e == Removed(s)
<1>1. /\ list \in [1 .. Len(list) -> DOMAIN disk] /\ Increasing(list, disk)
      /\ \A x \in DOMAIN disk : \E i \in 1 .. Len(list) : list[i] = x
  BY DEF InTabOrder, Enumerates
<1>2. Listed = DOMAIN disk
  BY <1>1 DEF Listed
<1>3. r \in Seq(Stations) /\ {r[i] : i \in DOMAIN r} = Listed \ {s}
  BY RetainedList DEF TypeInv
<1>4. PICK at : /\ \A i \in DOMAIN r : at[i] \in DOMAIN list /\ r[i] = list[at[i]]
                /\ \A i, j \in DOMAIN r : i < j => at[i] < at[j]
  BY RetainedList DEF TypeInv
<1>5. DOMAIN e = DOMAIN disk \ {s} /\ \A x \in DOMAIN e : e[x] = disk[x]
  BY DEF Removed
<1> HIDE DEF r, e
<1>6. n \in Nat /\ DOMAIN r = 1 .. n /\ r = [i \in 1 .. n |-> r[i]]
  BY <1>3
<1> HIDE DEF n
<1>7. \A i \in 1 .. n : r[i] \in DOMAIN e
  BY <1>2, <1>3, <1>5, <1>6
<1>8. r \in [1 .. n -> DOMAIN e]
  BY <1>6, <1>7
<1>9. Increasing(r, e)
  <2> SUFFICES ASSUME NEW i \in 1 .. n, NEW j \in 1 .. n, i < j
               PROVE  e[r[i]] < e[r[j]]
    BY <1>6 DEF Increasing
  <2>1. e[r[i]] = disk[list[at[i]]] /\ e[r[j]] = disk[list[at[j]]]
    BY <1>4, <1>5, <1>6, <1>7
  <2>2. at[i] \in DOMAIN list /\ at[j] \in DOMAIN list /\ at[i] < at[j]
    BY <1>4, <1>6
  <2> QED BY <1>1, <2>1, <2>2 DEF Increasing
<1>10. \A x \in DOMAIN e : \E i \in 1 .. n : r[i] = x
  BY <1>2, <1>3, <1>5, <1>6
<1> QED BY <1>6, <1>8, <1>9, <1>10 DEF Enumerates, r, e, n

\* A table that was loaded is in order.
LEMMA LoadInOrder ==
    ASSUME DiskType
    PROVE  Enumerates(InOrder(disk), Len(InOrder(disk)), DOMAIN disk, disk)
<1>1. Keyed(DOMAIN disk, disk)
  BY DEF DiskType
<1>2. Enumerates(InOrder(disk), Cardinality(DOMAIN disk), DOMAIN disk, disk)
  BY <1>1, InOrderEnumerates
<1>3. Len(InOrder(disk)) = Cardinality(DOMAIN disk)
  BY <1>1, <1>2, EnumerationLists
<1> QED BY <1>2, <1>3

LEMMA InitOrder == Init => OrderInv
<1> SUFFICES ASSUME Init PROVE OrderInv
  OBVIOUS
<1>1. list = <<>> /\ disk = [s \in {} |-> 0] /\ \A c \in Clients : req[c] = Idle
  BY DEF Init
<1>2. list \in [1 .. 0 -> DOMAIN disk] /\ Len(list) = 0 /\ DOMAIN list = {}
  BY <1>1
<1>3. InTabOrder(disk)
  BY <1>1, <1>2 DEF InTabOrder, Enumerates, Increasing
<1> QED BY <1>1, <1>3 DEF OrderInv

\* The first request after a quiet moment.
LEMMA BeginOrder ==
    ASSUME TypeInv, OrderInv, ~overlap', NEW c \in Clients, NEW r, Pending(c, r)
    PROVE  /\ InTabOrder(disk)
           /\ req'[c] = r /\ \A e \in Clients : e # c => req'[e] = Idle
<1>1. ~overlap /\ \A e \in Clients : req[e] = Idle
  BY DEF Pending
<1>2. InTabOrder(disk)
  BY <1>1 DEF OrderInv, Quiet
<1>3. req' = [req EXCEPT ![c] = r] /\ req \in [Clients -> Requests]
  BY DEF Pending, TypeInv, HistoryType
<1> QED BY <1>1, <1>2, <1>3

LEMMA NextOrder == ~StoreFails /\ TypeInv /\ OrderInv /\ [Next]_vars => OrderInv'
<1> SUFFICES ASSUME ~StoreFails, TypeInv, OrderInv, [Next]_vars, ~overlap' PROVE OrderInv'
  BY DEF OrderInv
<1>0. Outcomes = {TRUE}
  BY DEF Outcomes
<1>1. ASSUME NEW c \in Clients, NEW s \in Stations, PostAdds(c, s) PROVE OrderInv'
  <2>1. /\ InTabOrder(disk) /\ req'[c] = Adding(s)
        /\ \A e \in Clients : e # c => req'[e] = Idle
    BY <1>1, BeginOrder DEF PostAdds
  <2>2. /\ list' = Append(list, s) /\ disk' = disk /\ clock' = clock /\ s \notin Listed
    BY <1>1 DEF PostAdds
  <2>3. Adding(s).station = s /\ Adding(s).op = "add" /\ Adding(s) # Idle
    BY DEF Adding, Idle
  <2>4. InTabOrder(Added(s))'
    BY <2>1, <2>2, AppendInOrder DEF InTabOrder, Added
  <2> QED BY <2>1, <2>3, <2>4 DEF OrderInv, Quiet
<1>2. ASSUME NEW c \in Clients, NEW s \in Stations, PostRefused(c, s) PROVE OrderInv'
  <2>1. UNCHANGED <<list, disk, clock, req, overlap>>
    BY <1>2 DEF PostRefused
  <2> QED BY <2>1 DEF OrderInv, Quiet, InTabOrder, Added, Removed
<1>3. ASSUME NEW c \in Clients, NEW s \in Stations, Delete(c, s) PROVE OrderInv'
  <2>1. /\ InTabOrder(disk) /\ req'[c] = Removing(s)
        /\ \A e \in Clients : e # c => req'[e] = Idle
    BY <1>3, BeginOrder DEF Delete
  <2>2. list' = Retained(s) /\ disk' = disk /\ clock' = clock
    BY <1>3 DEF Delete
  <2>3. Removing(s).station = s /\ Removing(s).op = "remove" /\ Removing(s) # Idle
    BY DEF Removing, Idle
  <2>4. InTabOrder(Removed(s))'
    BY <2>1, <2>2, RetainInOrder DEF InTabOrder, Removed
  <2> QED BY <2>1, <2>3, <2>4 DEF OrderInv, Quiet
<1>4. ASSUME NEW c \in Clients, PersistAdd(c) PROVE OrderInv'
  <2>1. req[c] # Idle /\ req[c].op = "add" /\ ~overlap /\ list' = list
    BY <1>4 DEF PersistAdd, Idle
  <2>2. disk' = Added(req[c].station)
    BY <1>0, <1>4 DEF PersistAdd, Added
  <2>3. InTabOrder(Added(req[c].station)) /\ \A e \in Clients : e # c => req[e] = Idle
    BY <2>1 DEF OrderInv
  <2>4. \A e \in Clients : req'[e] = Idle
    BY <1>4, <2>3 DEF PersistAdd, TypeInv, HistoryType
  <2>5. InTabOrder(disk)'
    BY <2>1, <2>2, <2>3 DEF InTabOrder
  <2> QED BY <2>4, <2>5 DEF OrderInv
<1>5. ASSUME NEW c \in Clients, PersistRemove(c) PROVE OrderInv'
  <2>1. req[c] # Idle /\ req[c].op = "remove" /\ ~overlap /\ list' = list
    BY <1>5 DEF PersistRemove, Idle
  <2>2. disk' = Removed(req[c].station)
    BY <1>0, <1>5 DEF PersistRemove, Removed
  <2>3. InTabOrder(Removed(req[c].station)) /\ \A e \in Clients : e # c => req[e] = Idle
    BY <2>1 DEF OrderInv
  <2>4. \A e \in Clients : req'[e] = Idle
    BY <1>5, <2>3 DEF PersistRemove, TypeInv, HistoryType
  <2>5. InTabOrder(disk)'
    BY <2>1, <2>2, <2>3 DEF InTabOrder
  <2> QED BY <2>4, <2>5 DEF OrderInv
<1>6. CASE Restart
  <2>1. list' = InOrder(disk) /\ disk' = disk /\ \A e \in Clients : req'[e] = Idle
    BY <1>0, <1>6 DEF Restart, LoadOrder
  <2>2. InTabOrder(disk)'
    BY <2>1, LoadInOrder DEF InTabOrder, TypeInv
  <2> QED BY <2>1, <2>2 DEF OrderInv
<1>7. CASE UNCHANGED vars
  <2>1. UNCHANGED <<list, disk, clock, req, overlap>>
    BY <1>7 DEF vars
  <2> QED BY <2>1 DEF OrderInv, Quiet, InTabOrder, Added, Removed
<1> QED BY <1>1, <1>2, <1>3, <1>4, <1>5, <1>6, <1>7 DEF Next

\* With a working store, and as long as requests do not overlap, a restart between
\* requests gives back the same tabs in the same order: however they were opened,
\* closed and opened again, and whenever the process died before.
THEOREM TabsRestored == ASSUME ~StoreFails PROVE Spec => RestartRestoresTabs
<1>1. TypeInv /\ OrderInv /\ [Next]_vars
        => (runs' # runs /\ Quiet /\ ~overlap => list' = list)
  <2> SUFFICES ASSUME TypeInv, OrderInv, [Next]_vars, runs' # runs, Quiet, ~overlap
               PROVE  list' = list
    OBVIOUS
  <2>1. Restart
    BY DEF Next, PostAdds, PostRefused, Delete, PersistAdd, PersistRemove, vars
  <2>2. list' = InOrder(disk)
    BY <2>1 DEF Restart, LoadOrder, Outcomes
  <2>3. Keyed(DOMAIN disk, disk) /\ Enumerates(list, Len(list), DOMAIN disk, disk)
    BY DEF OrderInv, InTabOrder, TypeInv, DiskType
  <2>4. Enumerates(InOrder(disk), Cardinality(DOMAIN disk), DOMAIN disk, disk)
    BY <2>3, InOrderEnumerates
  <2> QED BY <2>2, <2>3, <2>4, EnumerationUnique
<1>2. TypeInv /\ OrderInv /\ [Next]_vars => OrderInv'
  BY NextOrder
<1> QED BY <1>1, <1>2, InitOrder, SpecType, PTL DEF Spec, RestartRestoresTabs
=============================================================================
