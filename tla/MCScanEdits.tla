---------------------------- MODULE MCScanEdits ----------------------------
(***************************************************************************)
(* Three stations, two sources, up to three scans.  Starts leave time to   *)
(* fill, none, or a whole day; the fourth unit of time is midnight.  A     *)
(* scan has two or three stations: its first observes longest, and alone,  *)
(* or the others do.                                                       *)
(***************************************************************************)
EXTENDS ScanEdits

Long(pair, a) == [m \in 1..3 |-> IF m = pair[1] THEN a ELSE IF m \in ToSet(pair) THEN 3 - a ELSE 0]

MCScan(t, src, sta, a) == [t |-> t, src |-> src, sta |-> sta, dur |-> Long(sta, a)]

A == <<1, 2>>
B == <<3, 1>>
C == <<2, 3, 1>>

MCSchedules ==
    {<<MCScan(1, 1, a, d), MCScan(2, s, A, 1)>> : a \in {A, C}, s \in {1, 2}, d \in {1, 2}}
    \cup
    {<<MCScan(1, 1, in[1], d), MCScan(t[1], s, in[2], 3 - d), MCScan(t[2], 2, in[3], 1)>> :
        in \in {<<A, B, C>>, <<C, A, B>>, <<B, C, A>>, <<B, A, A>>},
        t \in {<<2, 6>>, <<3, 4>>, <<5, 7>>, <<4, 9>>}, s \in {1, 2}, d \in {1, 2}}

MCWindows == {[st |-> 0, en |-> 9], [st |-> 1, en |-> 4], [st |-> 2, en |-> 5]}
=============================================================================
