-------------------------------- MODULE Igate --------------------------------
(***************************************************************************)
(* The gating rules of igate.rs, as operators.                             *)
(*                                                                         *)
(* A packet is abstracted to what the rules can tell apart.  "key" is the  *)
(* dedup key source:info.  "crlf" says where the packet carries a CR or an *)
(* LF: nowhere, only at the end of the info field, at the end of a header  *)
(* field (source, destination or path), or inside some field.              *)
(***************************************************************************)
EXTENDS Integers

CONSTANTS
    Keys,      \* the dedup keys ("source:info") packets may carry
    MaxAge     \* AGE_THRESHOLD, in seconds

ASSUME MaxAgeAssumption == MaxAge \in Nat

CrlfPlaces == {"none", "info_tail", "header_tail", "embedded"}

PacketTypes == {"query", "thirdparty", "other"}

\* RTPPacket, the fields droppacket and the gating path look at.
Packet == [key : Keys,
           crlf : CrlfPlaces,
           rfonly : BOOLEAN,
           ptype : PacketTypes,
           inet : BOOLEAN,        \* the third-party header holds TCPIP or TCPXX
           satellite : BOOLEAN,   \* is_satellite
           digipeated : BOOLEAN,  \* was_digipeated
           known_sat : BOOLEAN]   \* the source is one of KNOWN_SATS

\* DropReason.
RuleReasons == {"malformed", "stale", "rfonly", "query", "thirdparty", "sat"}

\* What a drop is attributed to: a DropReason, or the duplicate suppression of
\* the APRS-IS task.
DropReasons == RuleReasons \cup {"duplicate"}

NoReason == "none"

\* A mutated rule order: the staleness guard is skipped for digipeated packets.
M_droppacket(p, age) ==
    IF p.crlf = "embedded" THEN "malformed"
    ELSE IF age > MaxAge /\ ~p.digipeated THEN "stale"
    ELSE IF p.rfonly THEN "rfonly"
    ELSE IF p.ptype = "query" THEN "query"
    ELSE IF p.ptype = "thirdparty" /\ p.inet THEN "thirdparty"
    ELSE IF ~p.digipeated /\ p.satellite /\ ~p.known_sat THEN "sat"
    ELSE NoReason

\* The early returns of droppacket, in order.  A trailing CR or LF of a field
\* is tolerated here, whichever field it ends.
droppacket(p, age) ==
    IF p.crlf = "embedded" THEN "malformed"
    ELSE IF age > MaxAge THEN "stale"
    ELSE IF p.rfonly THEN "rfonly"
    ELSE IF p.ptype = "query" THEN "query"
    ELSE IF p.ptype = "thirdparty" /\ p.inet THEN "thirdparty"
    ELSE IF ~p.digipeated /\ p.satellite /\ ~p.known_sat THEN "sat"
    ELSE NoReason

\* The assembled line (for_rxigate_bytes) with its own trailing CR/LF trimmed
\* still holds one: a CR/LF that ended a header field is now inside the line.
LineHasCrlf(p) == p.crlf \in {"embedded", "header_tail"}
=============================================================================
