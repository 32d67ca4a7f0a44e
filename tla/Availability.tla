---------------------------- MODULE Availability -----------------------------
(***************************************************************************)
(* What DOWNTIME promises: each selected station has a set of moments it   *)
(* is down.  A user adds an interval, takes one back, or drops all of some *)
(* stations; a station that is no longer selected loses its downtimes;     *)
(* nothing else changes what is down.                                      *)
(***************************************************************************)
EXTENDS Integers

CONSTANTS
    Names,          \* stations
    Intervals       \* the intervals a user may type

VARIABLES
    blocked,    \* when each station is down
    selected,   \* the selected stations
    dropping    \* the last command was to drop downtimes

vars == <<blocked, selected, dropping>>

Moments(y) == y.beg .. y.end

Init ==
    /\ blocked = [n \in Names |-> {}]
    /\ selected \in SUBSET Names
    /\ dropping = FALSE

Block(S, y) ==
    /\ blocked' = [n \in Names |-> IF n \in S THEN blocked[n] \cup Moments(y) ELSE blocked[n]]
    /\ dropping' = FALSE
    /\ UNCHANGED selected

\* Moments that another interval covers as well stay blocked.
Free(S, y) ==
    /\ blocked' \in [Names -> SUBSET Int]
    /\ \A n \in Names \ S : blocked'[n] = blocked[n]
    /\ \A n \in S : /\ blocked[n] \ Moments(y) \subseteq blocked'[n]
                    /\ blocked'[n] \subseteq blocked[n]
    /\ dropping' = FALSE
    /\ UNCHANGED selected

Clear(S) == blocked' = [n \in Names |-> IF n \in S THEN {} ELSE blocked[n]]

Drop(S) ==
    /\ Clear(S)
    /\ dropping' = TRUE
    /\ UNCHANGED selected

Select(S) ==
    /\ selected' = S
    /\ Clear(Names \ S)
    /\ dropping' = FALSE

Other == dropping' = FALSE /\ UNCHANGED <<blocked, selected>>

Next ==
    \/ \E S \in SUBSET selected :
          \/ \E y \in Intervals : Block(S, y) \/ Free(S, y)
          \/ Drop(S)
    \/ \E S \in SUBSET Names : Select(S)
    \/ Other

Spec == Init /\ [][Next]_vars
=============================================================================
