-------------------------------- MODULE Watched --------------------------------
(***************************************************************************)
(* The watched stations (open monitor tabs): the /api/watched handlers     *)
(* change the list under its lock and then, without the lock, the table    *)
(* of the store.  Requests of several browsers are handled concurrently.   *)
(***************************************************************************)
EXTENDS Naturals, Sequences, FiniteSets

CONSTANTS
    Clients,      \* the browsers
    Stations,     \* the callsigns they may watch
    MaxWatched,   \* MAX_WATCHED
    StoreFails,   \* may a transaction of the store fail?
    MaxRequests,  \* bound: requests
    MaxRuns       \* bound: starts of the process

ASSUME WatchedAssumption ==
    /\ MaxWatched \in Nat
    /\ StoreFails \in BOOLEAN
    /\ MaxRequests \in Nat /\ MaxRuns \in Nat

VARIABLES
    list,     \* watched_stations, in tab order
    disk,     \* the WatchedStationRec table: callsign |-> added_micros
    clock,    \* the time the next row is added at
    req,      \* what each client's request has still to do
    made,     \* history: requests made
    runs,     \* history: starts of the process
    overlap,  \* history: has a change begun while another was in progress?
    raced     \* history: has one of the same station, in this run?

vars == <<list, disk, clock, req, made, runs, overlap, raced>>

Idle == [op |-> "none"]
Adding(s) == [op |-> "add", station |-> s]
Removing(s) == [op |-> "remove", station |-> s]

Listed == {list[i] : i \in DOMAIN list}

\* The domain of d, in the order of d's values.
InOrder(d) ==
    CHOOSE q \in [1 .. Cardinality(DOMAIN d) -> DOMAIN d] :
        \A i, j \in DOMAIN q : i < j => d[q[i]] < d[q[j]]

Init ==
    /\ list = <<>>
    /\ disk = [s \in {} |-> 0]
    /\ clock = 0
    /\ req = [c \in Clients |-> Idle]
    /\ made = 0
    /\ runs = 1
    /\ overlap = FALSE
    /\ raced = FALSE

\* A request arrives and is the client's only one.
Begins(c) ==
    /\ req[c] = Idle
    /\ made < MaxRequests
    /\ made' = made + 1

\* The request is left with r to do.
Pending(c, r) ==
    /\ req' = [req EXCEPT ![c] = r]
    /\ overlap' = (overlap \/ \E d \in Clients : req[d] # Idle)
    /\ raced' = (raced \/ \E d \in Clients : req[d] # Idle
                                            /\ req[d].station = r.station)

\* A mutant: a station that is already listed is added again.
M_PostAdds(c, s) ==
    /\ Begins(c)
    /\ Len(list) < MaxWatched
    /\ list' = Append(list, s)
    /\ Pending(c, Adding(s))
    /\ UNCHANGED <<disk, clock, runs>>

\* POST of a station that is not listed, with room: it is appended, under the lock.
PostAdds(c, s) ==
    /\ Begins(c)
    /\ s \notin Listed
    /\ Len(list) < MaxWatched
    /\ list' = Append(list, s)
    /\ Pending(c, Adding(s))
    /\ UNCHANGED <<disk, clock, runs>>

\* POST of a listed station is answered with the list, one beyond the cap with 409.
PostRefused(c, s) ==
    /\ Begins(c)
    /\ s \in Listed \/ Len(list) >= MaxWatched
    /\ UNCHANGED <<list, disk, clock, req, runs, overlap, raced>>

\* retain(): the places of the list that keep their station, and these in order.
Kept(s) == {i \in DOMAIN list : list[i] # s}
Retained(s) ==
    LET at == InOrder([i \in Kept(s) |-> i])
    IN  [n \in DOMAIN at |-> list[at[n]]]

\* DELETE: the list loses the station, listed or not.
Delete(c, s) ==
    /\ Begins(c)
    /\ list' = Retained(s)
    /\ Pending(c, Removing(s))
    /\ UNCHANGED <<disk, clock, runs>>

Outcomes == IF StoreFails THEN BOOLEAN ELSE {TRUE}

\* add_watched_station, after the lock is released; a failure is logged.
PersistAdd(c) ==
    /\ req[c].op = "add"
    /\ \E ok \in Outcomes :
          disk' = IF ok
                  THEN [s \in DOMAIN disk \cup {req[c].station} |->
                           IF s = req[c].station THEN clock ELSE disk[s]]
                  ELSE disk
    /\ clock' = clock + 1
    /\ req' = [req EXCEPT ![c] = Idle]
    /\ UNCHANGED <<list, made, runs, overlap, raced>>

\* A mutant: the row stays.
M_PersistRemove(c) ==
    /\ req[c].op = "remove"
    /\ req' = [req EXCEPT ![c] = Idle]
    /\ UNCHANGED <<list, disk, clock, made, runs, overlap, raced>>

\* remove_watched_station.
PersistRemove(c) ==
    /\ req[c].op = "remove"
    /\ \E ok \in Outcomes :
          disk' = IF ok THEN [s \in DOMAIN disk \ {req[c].station} |-> disk[s]]
                  ELSE disk
    /\ req' = [req EXCEPT ![c] = Idle]
    /\ UNCHANGED <<list, clock, made, runs, overlap, raced>>

\* A mutant: the tabs come back newest first.
M_LoadOrder(d) ==
    CHOOSE q \in [1 .. Cardinality(DOMAIN d) -> DOMAIN d] :
        \A i, j \in DOMAIN q : i < j => d[q[i]] > d[q[j]]

\* load_watched_stations: oldest first.
LoadOrder(d) == InOrder(d)

\* The process stops or dies, whatever requests are being handled, and starts again;
\* a list that cannot be loaded starts empty.
Restart ==
    /\ runs < MaxRuns
    /\ runs' = runs + 1
    /\ \E ok \in Outcomes : list' = IF ok THEN LoadOrder(disk) ELSE <<>>
    /\ req' = [c \in Clients |-> Idle]
    /\ raced' = FALSE
    /\ UNCHANGED <<disk, clock, made, overlap>>

Next ==
    \/ \E c \in Clients :
          \/ \E s \in Stations : PostAdds(c, s) \/ PostRefused(c, s) \/ Delete(c, s)
          \/ PersistAdd(c) \/ PersistRemove(c)
    \/ Restart

Spec == Init /\ [][Next]_vars

-----------------------------------------------------------------------------
(* Properties.                                                             *)

\* The types of the variables; no station is listed twice.
TypeOK ==
    /\ Listed \subseteq Stations
    /\ Cardinality(Listed) = Len(list)
    /\ DOMAIN disk \subseteq Stations
    /\ \A s \in DOMAIN disk : disk[s] \in 0 .. clock
    /\ overlap \in BOOLEAN /\ raced \in BOOLEAN
    /\ req \in [Clients -> {Idle} \cup {Adding(s) : s \in Stations}
                                  \cup {Removing(s) : s \in Stations}]

Quiet == \A c \in Clients : req[c] = Idle

\* With a working store, whenever no request is in progress the table holds exactly
\* the listed stations, unless two requests of one station overlapped in this run;
\* a crash between the change of the list and that of the table does no harm.
TableMatchesList == Quiet /\ ~raced => DOMAIN disk = Listed

\* With a working store, a restart between requests gives back the same tabs in the
\* same order, unless requests overlapped.
RestartRestoresTabs ==
    [][ runs' # runs /\ Quiet /\ ~overlap => list' = list ]_vars

-----------------------------------------------------------------------------
(* What the repository's documents say and the code does not keep; README  *)
(* tells how it fails.                                                     *)

\* main.rs:566: the watched set is capped at MAX_WATCHED.  After a restart it is what
\* the table holds, which requests that overlapped can leave longer.
ListCapped == Len(list) <= MaxWatched
=============================================================================
