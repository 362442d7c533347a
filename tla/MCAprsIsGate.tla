----------------------------- MODULE MCAprsIsGate -----------------------------
(* Small instances of AprsIsGate for TLC.                                  *)
EXTENDS AprsIsGate

Plain(k) == [key |-> k, crlf |-> "none", rfonly |-> FALSE, ptype |-> "other",
             inet |-> FALSE, satellite |-> FALSE, digipeated |-> FALSE,
             known_sat |-> FALSE]

\* Two stations.
TwoStations == {Plain("a"), Plain("b")}

\* One packet, relayed by a digipeater.
OnePacket == {[Plain("a") EXCEPT !.digipeated = TRUE]}

\* One packet per rule of droppacket that does not depend on time, one that only
\* the write boundary refuses, and packets that pass.
RulePackets ==
    {Plain("a"),
     [Plain("a") EXCEPT !.crlf = "embedded"],
     [Plain("a") EXCEPT !.crlf = "header_tail"],
     [Plain("a") EXCEPT !.crlf = "info_tail"],
     [Plain("a") EXCEPT !.rfonly = TRUE],
     [Plain("a") EXCEPT !.ptype = "query"],
     [Plain("a") EXCEPT !.ptype = "thirdparty", !.inet = TRUE],
     [Plain("a") EXCEPT !.satellite = TRUE],
     [Plain("a") EXCEPT !.satellite = TRUE, !.known_sat = TRUE]}

NoSkew == {0}
SomeSkew == {0, -3, 3}
=============================================================================
