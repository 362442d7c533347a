------------------------------ MODULE Conversions ------------------------------
(***************************************************************************)
(* The conversions between what the program knows and what it writes, each *)
(* followed to its reader: a number to an APRS telemetry value and back, a *)
(* position to the text of a beacon and back, a packet to a row of the     *)
(* store, written by this build or by another one, and back.               *)
(*                                                                         *)
(* Fractions are integers in a small enough unit, named with each; the     *)
(* error of the f64 arithmetic is below it.                                *)
(***************************************************************************)
EXTENDS Integers

CONSTANTS
    Values,      \* the numbers reported: [whole, frac], frac in 10^-7
    Angles,      \* absolute coordinates: [deg, hund, rem] (see positpacket)
    Packets,     \* packets heard: [stamp, base, twist, motion, snr]
    None,        \* an absent value
    MaxValues    \* bound: values a receiver hears

\* The millionths that values are rounded to and that the epsilon is one of.
Million == 1000000

\* What is converted: values and stamps that are not negative, fractions below one,
\* and twist bars that are absent or have a column.
ASSUME ConversionsAssumption ==
    /\ \A v \in Values : v.whole \in Nat /\ v.frac \in 0 .. 10 * Million - 1
    /\ \A p \in Angles : p.deg \in Nat /\ p.hund \in Nat /\ p.rem \in 0 .. Million - 1
    /\ \A p \in Packets : p.stamp \in Nat /\ p.twist \in (Nat \ {0}) \cup {None}
    /\ None \notin {"T#", "EQNS"}
    /\ MaxValues \in Nat

VARIABLE job   \* what is being converted, and how far it has come

-----------------------------------------------------------------------------
(* Telemetry: a value v becomes coefficients a, b, c and a byte x with     *)
(* v = a x^2 + b x + c.  The byte travels on the T# line, the coefficients *)
(* on the EQNS line after it.                                              *)

\* Round to a millionth: a fraction in 10^-7 to one in 10^-6.
Rounded(frac) == (frac + 5) \div 10

\* A mutant: the range in which the byte carries the value ends one too late.
M_APRSQuadratic(v) ==
    IF v.whole <= 256
    THEN [a |-> 0, b |-> 1, c |-> 0, micro |-> Rounded(v.frac), x |-> v.whole]
    ELSE [a |-> v.whole \div 16384, b |-> (v.whole % 16384) \div 128,
          c |-> v.whole % 128, micro |-> Rounded(v.frac), x |-> 128]

\* The encoding of a value that is not negative.
APRSQuadratic(v) ==
    IF v.whole < 255 \/ (v.whole = 255 /\ v.frac = 0)
    THEN [a |-> 0, b |-> 1, c |-> 0, micro |-> Rounded(v.frac), x |-> v.whole]
    ELSE [a |-> v.whole \div 16384, b |-> (v.whole % 16384) \div 128,
          c |-> v.whole % 128, micro |-> Rounded(v.frac), x |-> 128]

\* What a receiver makes of byte x and equation q: the whole part and the micros,
\* which may be a million.
Decoded(x, q) == [whole |-> q.a * x * x + q.b * x + q.c, micro |-> q.micro]

\* Analog values on the T# line of a report of n items: up to five, then the padding.
AnalogFields(n) ==
    LET i == IF n > 5 THEN 6 ELSE n + 1
    IN  (i - 1) + (IF i < 5 THEN 5 - i ELSE 0)

\* The T# line of a report of value v is heard: after a whole report, or after one
\* whose EQNS line a failed write has cut off.
HearValue ==
    /\ job.kind = "report"
    /\ job.reports < MaxValues
    /\ \E v \in Values :
          job' = [job EXCEPT !.line = "T#", !.value = v,
                             !.x = APRSQuadratic(v).x, !.reports = @ + 1]

\* The EQNS line of the same report is heard.
HearEquations ==
    /\ job.kind = "report"
    /\ job.line = "T#"
    /\ job' = [job EXCEPT !.line = "EQNS", !.q = APRSQuadratic(job.value)]

-----------------------------------------------------------------------------
(* Positions.  An angle is deg degrees, hund hundredths of a minute, and   *)
(* rem millionths of a hundredth, the size of the epsilon.                 *)

\* base91_dao_char, as the number the character stands for.
base91_dao_char(rem) == (rem * 91) \div Million

\* A mutant: the remainder is taken before the carry.
M_positpacket(p, dao) ==
    LET h   == p.hund + (p.rem + 1) \div Million
    IN  [deg |-> p.deg, hund |-> h,
         digit |-> CASE dao = "Off" -> 0
                     [] dao = "Human" -> p.rem \div 100000
                     [] dao = "Base91" -> base91_dao_char(p.rem)]

\* One axis of a beacon: degrees, hundredths of a minute, and the extra digit.
positpacket(p, dao) ==
    LET h   == p.hund + (p.rem + 1) \div Million
        rem == IF h > p.hund THEN 0 ELSE p.rem
    IN  [deg |-> p.deg, hund |-> h,
         digit |-> CASE dao = "Off" -> 0
                     [] dao = "Human" -> rem \div 100000
                     [] dao = "Base91" -> base91_dao_char(rem)]

\* The width of a digit, in the unit of rem, rounded up.
Step(dao) == CASE dao = "Off" -> Million
               [] dao = "Human" -> 100000
               [] dao = "Base91" -> 10990

\* Where a receiver puts the digit: the lower end of its interval.
DigitAt(dao, d) == CASE dao = "Off" -> 0
                     [] dao = "Human" -> d * 100000
                     [] dao = "Base91" -> (d * Million) \div 91

MakePosit ==
    /\ job.kind = "posit"
    /\ job.text = None
    /\ job' = [job EXCEPT !.text = positpacket(job.angle, job.dao)]

-----------------------------------------------------------------------------
(* Packets in the store.  "base" stands for the 20 display fields every    *)
(* version has; "twist" is None or has at least one column; "motion" are   *)
(* speed and course.                                                       *)

\* A time stamp in nanoseconds is stored in microseconds.
to_micros(t) == t \div 1000
from_micros(k) == k * 1000

\* PacketRec::from_packet: no twist is stored as no columns.
from_packet(p) ==
    [key_micros |-> to_micros(p.stamp), base |-> p.base,
     twist_cols |-> IF p.twist = None THEN 0 ELSE p.twist,
     motion |-> p.motion, snr_db |-> p.snr]

\* A mutant: the count of columns is taken as it is.
M_into_packet(r) ==
    [stamp |-> from_micros(r.key_micros), base |-> r.base, twist |-> r.twist_cols,
     motion |-> r.motion, snr |-> r.snr_db]

\* PacketRec::into_packet.
into_packet(r) ==
    [stamp |-> from_micros(r.key_micros), base |-> r.base,
     twist |-> IF r.twist_cols > 0 THEN r.twist_cols ELSE None,
     motion |-> r.motion, snr |-> r.snr_db]

\* SatPacketRec keeps what version 1 of PacketRec keeps.
SatRoundTrip(p) ==
    [stamp |-> from_micros(to_micros(p.stamp)), base |-> p.base,
     twist |-> None, motion |-> None, snr |-> None]

\* The fields a version of the record has beyond the base.
FieldsOf(version) ==
    CASE version = 1 -> {}
      [] version = 2 -> {"twist_cols"}
      [] version = 3 -> {"twist_cols", "motion"}
      [] version = 4 -> {"twist_cols", "motion", "snr_db"}

\* The version of the record that MODELS registers.
Current == 4

\* A build whose record has version v stores the packet.  Of a build that is not this
\* one only its record type is known (external).
StoreRow ==
    /\ job.kind = "row"
    /\ job.version = 0
    /\ \E v \in 1 .. 4 :
          job' = [job EXCEPT !.version = v,
                             !.row = [f \in {"key_micros", "base"} \cup FieldsOf(v) |->
                                         from_packet(job.packet)[f]]]

\* The packets this build reads back, whichever build it has replaced: native_db keeps
\* the rows of each version in a table of their own (external), this build knows the
\* current one, and open() migrates nothing.
Loaded == IF job.version = Current THEN {into_packet(job.row)} ELSE {}

-----------------------------------------------------------------------------
Start ==
    \/ job = [kind |-> "report", line |-> None, value |-> None, x |-> 0,
              q |-> None, reports |-> 0]
    \/ \E p \in Angles, d \in {"Off", "Human", "Base91"} :
          job = [kind |-> "posit", angle |-> p, dao |-> d, text |-> None]
    \/ \E p \in Packets :
          job = [kind |-> "row", packet |-> p, version |-> 0, row |-> None]

Convert == \/ HearValue \/ HearEquations \/ MakePosit \/ StoreRow

ConversionSpec == Start /\ [][Convert]_job

-----------------------------------------------------------------------------
(* Properties.                                                             *)

\* Whatever was reported before, a receiver that has heard the whole report gets the
\* reported number back to within half a millionth, from a byte.
ReportDecodes ==
    (job.kind = "report" /\ job.line = "EQNS") =>
        LET d   == Decoded(job.x, job.q)
            off == 10 * d.micro - job.value.frac
        IN  /\ job.x \in 0 .. 255
            /\ d.whole = job.value.whole
            /\ off \in -5 .. 5

\* The position read out of a beacon is less than one digit away from the true one,
\* in every precision mode, at every boundary between two digits.
PositionDecodes ==
    (job.kind = "posit" /\ job.text # None) =>
        LET t   == job.text
            off == (job.angle.hund - t.hund) * Million
                   + job.angle.rem - DigitAt(job.dao, t.digit)
        IN  /\ t.deg = job.angle.deg
            /\ off \in -1 .. Step(job.dao) - 1

\* A packet read back from the store, by this build from a row of its own, is the packet
\* that was heard in every field, its stamp cut to the microsecond; and the packet, the
\* one read back and its copy in the satellite log have one key, so that what is
\* computed from either deletes the row.
RowKeepsPacket ==
    job.kind = "row" =>
        LET q == job.packet
        IN  \A p \in Loaded :
               /\ p.base = q.base /\ p.twist = q.twist
               /\ p.motion = q.motion /\ p.snr = q.snr
               /\ q.stamp - p.stamp \in 0 .. 999
               /\ \A s \in {p, q, SatRoundTrip(q)} :
                     to_micros(s.stamp) = job.row.key_micros

-----------------------------------------------------------------------------
(* What the repository's comments or the APRS format say and the code does *)
(* not keep; README tells how each one fails.                              *)

\* APRS: minutes are below 60.
MinutesBelowSixty ==
    (job.kind = "posit" /\ job.text # None) => job.text.hund < 6000

\* to_aprs: "pad with zeros if we have less than 5 telemetry items".
PaddedToFive == \A n \in 1 .. 7 : AnalogFields(n) = 5

\* PacketRecV1: "so native_model can migrate rows written by an earlier build up to the
\* current PacketRec".
UpgradeKeepsHistory ==
    (job.kind = "row" /\ job.version > 0) => Loaded # {}

\* A receiver that applies the last EQNS line it has heard reads the right value as
\* soon as the T# line arrives.
DecodedOnArrival ==
    (job.kind = "report" /\ job.line = "T#" /\ job.q # None) =>
        Decoded(job.x, job.q).whole = job.value.whole
=============================================================================
