---------------------------- MODULE MCScanStore ------------------------------
(***************************************************************************)
(* ScanStore on small schedules.  A station stands for a subnet: two       *)
(* disjoint ones, so that one may be scheduled behind the other, or one,   *)
(* with counts that take the cursor behind the last scan.                  *)
(***************************************************************************)
EXTENDS ScanStore, TLC

OneEach == {<<m>> : m \in Stations}

At(t, m) == [t |-> t, src |-> 1, sta |-> <<m>>]

\* A new schedule, and files whose scans are not in time order.
SomeFiles == {<< >>} \cup {<<At(2, m), At(1, n)>> : m, n \in Stations}

EarlyEdits == {At(1, m) : m \in Stations}
SomeCounts == {1, 2}
AheadCounts == {-2, 1}

StationsAlike == Permutations(Stations)
=============================================================================
