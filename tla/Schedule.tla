------------------------------ MODULE Schedule -------------------------------
(***************************************************************************)
(* What the scan store promises: the user sees a list of scans with a      *)
(* current place.  A command inserts one scan behind the current place and *)
(* puts the scans up to there in order, replaces the current scan, takes   *)
(* out a block, empties the list, or moves the place; no command touches a *)
(* scan it does not name.  The promise is kept until the program fails or  *)
(* an edit is made with the place behind the last scan, and again once the *)
(* list has been emptied.                                                  *)
(***************************************************************************)
EXTENDS Integers, Sequences

CONSTANTS Scan, Files

VARIABLES sched, at, kept

Init == /\ \E f \in Files : /\ Len(sched) = Len(f)
                            /\ \A i \in 1..Len(f) : \E j \in 1..Len(f) : sched[j] = f[i]
        /\ at \in 0..Len(sched)
        /\ kept = TRUE

\* The scans 1..n of new are those of old in another order; the rest stay.
SameScans(old, new, n) ==
    /\ Len(new) = Len(old)
    /\ \E order \in [1..n -> 1..n] :
          /\ \A i, j \in 1..n : i # j => order[i] # order[j]
          /\ \A k \in 1..n : new[k] = old[order[k]]
    /\ \A k \in (n + 1)..Len(old) : new[k] = old[k]

Grown(x) == SubSeq(sched, 1, at) \o <<x>> \o SubSeq(sched, at + 1, Len(sched))

Insert(x) ==
    /\ at <= Len(sched)
    /\ at' = at + 1
    /\ Len(sched') = Len(sched) + 1
    /\ SameScans(Grown(x), sched', at + 1)
    /\ \A i, j \in 1..at' : i < j => sched'[i].t <= sched'[j].t

Replace(x) ==
    /\ at \in 1..Len(sched)
    /\ sched' = [sched EXCEPT ![at] = x]
    /\ UNCHANGED at

RemoveBlock(a, b) ==
    /\ sched' = SubSeq(sched, 1, a - 1) \o SubSeq(sched, b + 1, Len(sched))
    /\ at' \in 0..Len(sched')

Clear ==
    /\ sched' = << >>
    /\ at' = 0

Move ==
    /\ at' \in Nat
    /\ UNCHANGED sched

Keep ==
    \/ Move
    \/ \E x \in Scan : Insert(x) \/ Replace(x)
    \/ \E a, b \in 1..Len(sched) : a <= b /\ RemoveBlock(a, b)

Lose == at > Len(sched) \/ UNCHANGED sched

Next ==
    \/ kept /\ kept' /\ Keep
    \/ kept /\ ~kept' /\ Lose
    \/ ~kept /\ ~kept'
    \/ kept' /\ Clear

Spec == Init /\ [][Next]_<<sched, at, kept>>
=============================================================================
