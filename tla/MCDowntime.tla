----------------------------- MODULE MCDowntime ------------------------------
(***************************************************************************)
(* Downtime on three stations, with intervals that meet, that overlap, and *)
(* that fall inside a scan or at its ends.                                 *)
(***************************************************************************)
EXTENDS Downtime, TLC

Interval(b, e) == [beg |-> b, end |-> e]

\* 2..4 meets 4..5; a scan from 2 to 4 holds all of 3..3, and one from 3 to 5
\* runs into each of them.
SomeIntervals == {Interval(2, 4), Interval(3, 3), Interval(4, 5)}

\* Two scans are tried with one downtime, and one scan with two.
OneByOne == Cardinality({t \in Starts : plan[t] # NoScan}) = 2 => Len(down) <= 1

AnyStation == Permutations(Names)
=============================================================================
