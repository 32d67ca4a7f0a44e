------------------------------ MODULE VexLists -------------------------------
(***************************************************************************)
(* The lists vex_get.c walks through, and its searches in them.            *)
(*                                                                         *)
(* The parser leaves a file as a list of blocks; a block is a list of      *)
(* lines [statement, ...]: definitions and scans have a name and lines of  *)
(* their own, the references of $GLOBAL, $MODE and $STATION a primitive    *)
(* block, a name and the stations they apply to, and any other line the    *)
(* item its statement keeps.  A pointer into a list is what is left of the *)
(* list from there on; NULL is the empty sequence.                         *)
(***************************************************************************)
EXTENDS Naturals, SequencesExt

(* The list from the first line that is wanted. *)
From(list, Wanted(_)) ==
    LET first == CHOOSE i \in 1 .. Len(list) + 1 :
                     /\ i <= Len(list) => Wanted(list[i])
                     /\ \A j \in 1 .. i - 1 : ~Wanted(list[j])
    IN  SubSeq(list, first, Len(list))

FindBlock(block, vex) == From(vex, LAMBDA b : b.block = block)

FindDef(defs, name) == From(defs, LAMBDA d : d.statement = "def" /\ d.name = name)

FindLowl(lowls, statement) == From(lowls, LAMBDA l : l.statement = statement)

FindNextDef(defs) == FindLowl(defs, "def")

FindNextScan(defs) == FindLowl(defs, "scan")

(* What a walk goes on from: the lines of the block or the definition that *)
(* was found, none if there is none.                                       *)
Items(blocks) == IF blocks = << >> THEN << >> ELSE Head(blocks).items

Lines(defs) == IF defs = << >> THEN << >> ELSE Head(defs).refs

Behind(list) == IF list = << >> THEN << >> ELSE Tail(list)

(* What the properties ask of a list: its lines of a statement, in order. *)
Of(lines, statement) ==
    FlattenSeq([i \in DOMAIN lines |->
        IF lines[i].statement = statement THEN <<lines[i]>> ELSE << >>])
=============================================================================
