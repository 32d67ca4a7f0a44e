----------------------------- MODULE VexAnswers ------------------------------
(***************************************************************************)
(* What vexf.c promises of its retrieval functions: the first call of a    *)
(* walk asks a question, it and the calls after it give the lines of the   *)
(* file that answer it, each once and in the order of the file, and then   *)
(* none.  A new question forgets what was left of the old one.             *)
(***************************************************************************)
EXTENDS Naturals, Sequences

CONSTANTS
    Walks,      \* the walks that can go on beside each other
    Questions,  \* the questions, each [walk, ...]
    Answers,    \* [Questions -> Seq(lines)]: what the file holds
    Nothing     \* the answer of a walk that is over, or has not begun

VARIABLES
    todo,       \* what each walk has still to give
    answer      \* what it gave last

Init ==
    /\ todo = [w \in Walks |-> << >>]
    /\ answer = [w \in Walks |-> Nothing]

Give(w, lines) ==
    /\ answer' = [answer EXCEPT ![w] = IF lines = << >> THEN Nothing ELSE Head(lines)]
    /\ todo' = [todo EXCEPT ![w] = IF lines = << >> THEN << >> ELSE Tail(lines)]

Ask(q) == Give(q.walk, Answers[q])

More(w) == Give(w, todo[w])

(* A line of texts may be taken text by text; after its last text comes    *)
(* the next line.                                                          *)
Spell(w) ==
    /\ answer[w] # Nothing
    /\ IF Len(answer[w].item) > 1
       THEN /\ answer' = [answer EXCEPT ![w].item = Tail(@)]
            /\ UNCHANGED todo
       ELSE More(w)

Next ==
    \/ \E q \in Questions : Ask(q)
    \/ \E w \in Walks : More(w) \/ Spell(w)

Spec == Init /\ [][Next]_<<todo, answer>>
=============================================================================
