------------------------------ MODULE Checkpoint ------------------------------
(***************************************************************************)
(* What store.rs promises of a set of counters (its module comment: "a     *)
(* service restart - planned or a crash - resumes with statistics          *)
(* intact"), whoever keeps them and whenever they are saved: they grow     *)
(* while the process runs, a save makes what is in memory durable as a     *)
(* whole, a graceful stop ends with a save, a crash falls back to the last *)
(* save, and the next run goes on from there.  A store that fails may omit *)
(* a save or start a run at zero, and do nothing else.                     *)
(*                                                                         *)
(* AprsIsGate and Listener implement this specification.                   *)
(***************************************************************************)
EXTENDS Naturals

CONSTANTS
    Fields,      \* the counters of the record
    SaveFails,   \* may a save be lost?
    LoadFails    \* may a run start without what was saved?

VARIABLES
    mode,    \* the owner is "up", "ended" by a graceful stop, or "dead"
    value,   \* the counters; of a dead process, what is left of them
    saved    \* the record in the store

vars == <<mode, value, saved>>

Zero == [f \in Fields |-> 0]

\* No counter of b is behind the one of a.
AtLeast(b, a) == \A f \in Fields : b[f] >= a[f]

Init == mode = "up" /\ value = Zero /\ saved = Zero

\* Events are counted.
Work ==
    /\ mode = "up"
    /\ AtLeast(value', value)
    /\ UNCHANGED <<mode, saved>>

\* The record is replaced by what is in memory.
Save ==
    /\ mode = "up"
    /\ saved' = value
    /\ UNCHANGED <<mode, value>>

\* A graceful stop flushes.
Stop ==
    /\ mode = "up"
    /\ mode' = "ended"
    /\ saved' = value \/ (SaveFails /\ saved' = saved)
    /\ UNCHANGED value

\* Only what was saved is left.
Crash ==
    /\ mode = "up"
    /\ mode' = "dead"
    /\ value' = saved
    /\ UNCHANGED saved

\* The next run starts from the record.
Restart ==
    /\ mode # "up"
    /\ mode' = "up"
    /\ value' = saved \/ (LoadFails /\ value' = Zero)
    /\ UNCHANGED saved

Next == Work \/ Save \/ Stop \/ Crash \/ Restart

Spec == Init /\ [][Next]_vars
=============================================================================
