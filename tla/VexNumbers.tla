----------------------------- MODULE VexNumbers ------------------------------
(***************************************************************************)
(* The conversions of vexf.c, by what they accept: a field is a number, a  *)
(* word that begins with none, or nothing; units are split at their slash. *)
(* The results are the codes the functions return.                         *)
(***************************************************************************)
EXTENDS Integers, Sequences

Times   == {"psec", "nsec", "usec", "msec", "sec", "min", "hr", "day", "yr"}
Lengths == {"um", "mm", "cm", "m", "km", "in", "ft"}
Angles  == {"mdeg", "deg", "amin", "asec", "rad"}
Others  == {"mHz", "Hz", "kHz", "MHz", "GHz", "mJy", "Jy", "bpi", "kbpi"}

Whole == {<<u>> : u \in Times \cup Lengths \cup Angles \cup Others}
            \cup {<<"ks", "sec">>, <<"Ms", "sec">>}

Converts(units) ==
    \/ units \in Whole
    \/ Len(units) = 2 /\ units[1] \in Angles \cup Lengths \cup Times /\ units[2] \in Times

IsNumber(field) == field.text \in {"number", "negative"}

(* A number alone is no quantity: fvex_double asks for units. *)
FvexDouble(field) ==
    IF ~IsNumber(field) THEN -7 ELSE IF Converts(field.units) THEN 0 ELSE -8

FvexInt(field) == IF IsNumber(field) THEN 0 ELSE -7

(* The year and the day are needed, hour, minute and second are not; a     *)
(* right ascension or a declination needs all its three parts.             *)
FvexDate(parts) == IF parts < 2 THEN -7 ELSE 0
=============================================================================
