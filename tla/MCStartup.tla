------------------------------ MODULE MCStartup -------------------------------
(* A small instance of Startup for TLC.                                    *)
EXTENDS Startup

At(v) == [a \in Axes |-> v]

\* A fixed station that gates and beacons.
Full == [callsign |-> "set", flaws |-> {}, enabled |-> TRUE, host |-> "set",
         aprsPort |-> TRUE, igating |-> TRUE, beaconing |-> TRUE,
         passcode |-> "right", source |-> "Config", place |-> At("good"),
         threshold |-> "positive", minBeacon |-> "positive",
         moveBy |-> "positive"]

Mobile   == [Full EXCEPT !.source = "Gpsd", !.place = At("none")]
ReadOnly == [Full EXCEPT !.igating = FALSE, !.beaconing = FALSE,
                         !.passcode = "none"]
Offline  == [Full EXCEPT !.enabled = FALSE]

\* What an operator may make of Full by changing one thing.
Edited ==
    {[Full EXCEPT !.callsign = "empty"], [Full EXCEPT !.flaws = {"range"}],
     [Full EXCEPT !.host = "none"], [Full EXCEPT !.aprsPort = FALSE],
     [Full EXCEPT !.igating = FALSE], [Full EXCEPT !.beaconing = FALSE],
     [Full EXCEPT !.passcode = "wrong"], [Full EXCEPT !.place["alt"] = "none"],
     [Full EXCEPT !.place["alt"] = "void"], [Full EXCEPT !.threshold = "zero"],
     [Full EXCEPT !.minBeacon = "zero"]}

SomeFiles ==
    {Full, Mobile, ReadOnly, Offline, Unreadable} \cup Edited \cup
    {[Mobile EXCEPT !.minBeacon = "zero"], [Mobile EXCEPT !.moveBy = "zero"],
     [Mobile EXCEPT !.passcode = "wrong"], [ReadOnly EXCEPT !.passcode = "wrong"],
     [Offline EXCEPT !.callsign = "none"], [Offline EXCEPT !.host = "empty"]}
=============================================================================
