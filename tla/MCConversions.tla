---------------------------- MODULE MCConversions -----------------------------
(* A small instance of Conversions for TLC.                                *)
EXTENDS Conversions

\* Numbers around every boundary of the encoding.
SomeValues ==
    [whole : {0, 1, 99, 100, 127, 128, 254, 255, 256, 383, 384, 16383, 16384,
              16385, 32767, 32768, 1000000},
     frac : {0, 4, 5, 3333333, 9999994, 9999995, 9999999}]

\* Hundredths of a minute and remainders around every boundary of the digits.
SomeAngles ==
    [deg : {0, 39, 179}, hund : {0, 1, 99, 100, 5898, 5999},
     rem : {0, 1, 10989, 10990, 99999, 100000, 899999, 900000, 989010, 989011,
            999998, 999999}]

SomePackets ==
    [stamp : {5000, 5999}, base : {"fields"}, twist : {None, 1, 16},
     motion : {None, "motion"}, snr : {None, "snr"}]
=============================================================================
