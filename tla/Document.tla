------------------------------ MODULE Document -------------------------------
(***************************************************************************)
(* What the schedule files promise: one document is edited at a time, and  *)
(* a file only ever holds what the document was when it was saved there.   *)
(***************************************************************************)
CONSTANTS Names, Contents, Blank

VARIABLES doc, saved, open

Init ==
    /\ doc = Blank
    /\ saved \in [Names -> Contents]
    /\ open = FALSE

Open ==
    /\ ~open /\ open'
    /\ doc' \in {Blank} \cup {saved[n] : n \in Names}
    /\ UNCHANGED saved

Change ==
    /\ open
    /\ doc' \in Contents
    /\ UNCHANGED <<saved, open>>

Close ==
    /\ open' = FALSE
    /\ doc' = Blank

Save(n) ==
    /\ open
    /\ saved' = [saved EXCEPT ![n] = doc]
    /\ UNCHANGED <<doc, open>> \/ Close

Drop ==
    /\ open
    /\ Close
    /\ UNCHANGED saved

Next == Open \/ Change \/ Drop \/ \E n \in Names : Save(n)

Spec == Init /\ [][Next]_<<doc, saved, open>>
=============================================================================
