------------------------------ MODULE MCListener ------------------------------
(* Small instances of Listener for TLC.                                    *)
EXTENDS Listener

Plain == [stations |-> "s1", freqs |-> "f1", sat |-> FALSE, late |-> 0,
          bank |-> 0, mask |-> {}, meta |-> TRUE]

\* Two stations, one of them heard late enough to be evicted at once, one on a
\* satellite frequency; frames without a gain ladder, with ladders of one and of
\* two slicers, and one with a ladder and no ax25_meta.
AllFrames == {[Plain EXCEPT !.sat = TRUE, !.mask = {1}],
              [Plain EXCEPT !.stations = "s2", !.bank = 1, !.mask = {1}],
              [Plain EXCEPT !.late = 2, !.bank = 2, !.mask = {1, 2}],
              [Plain EXCEPT !.bank = 1, !.meta = FALSE]}

SomeKeys == [stations |-> {"s1", "s2"}, freqs |-> {"f1"}]
SomeKeep == [stations |-> 2, freqs |-> 1]
=============================================================================
