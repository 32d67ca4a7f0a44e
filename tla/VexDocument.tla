----------------------------- MODULE VexDocument -----------------------------
(***************************************************************************)
(* What the caller of the VEX library asks for: a document with a heading  *)
(* and blocks, a block with definitions, a definition with statements, in  *)
(* the order of the calls, and a file that holds the document.             *)
(*                                                                         *)
(* The library promises this of the calls create_version, create_block,    *)
(* create_def and the rest; VexWriter is how it is done.                   *)
(***************************************************************************)
EXTENDS Naturals, Sequences

CONSTANTS
    Calls,      \* the numbers of the calls
    Blocks      \* the names of the blocks

VARIABLES
    heading,    \* the lines above the first block
    blocks,     \* the blocks so far, each with its items
    open,       \* is the last item a definition that takes statements?
    elements,   \* the elements of a list that is not closed yet
    files       \* the documents written

doc == <<heading, blocks, open, elements, files>>

(* A line, an item or a block: what it is, the call it comes from, and     *)
(* what it holds.                                                          *)
Node(kind, id, below) == [kind |-> kind, id |-> id, below |-> below]

Init ==
    /\ heading = << >> /\ blocks = << >> /\ elements = << >> /\ files = << >>
    /\ open = FALSE

(* A node goes where the document stands: into the open definition, into   *)
(* the last block, or into the heading.                                    *)
With(above, node) == Node(above.kind, above.id, Append(above.below, node))

InBlock(node) == [blocks EXCEPT ![Len(blocks)] = With(@, node)]

InDefinition(node) ==
    LET block == blocks[Len(blocks)]
        items == [block.below EXCEPT ![Len(block.below)] = With(@, node)]
    IN  [blocks EXCEPT ![Len(blocks)] = Node(block.kind, block.id, items)]

Version(id) ==
    /\ blocks = << >>
    /\ heading' = <<Node("version", id, << >>)>>
    /\ UNCHANGED <<blocks, open, elements, files>>

Comment(id) ==
    /\ IF blocks = << >>
       THEN heading' = Append(heading, Node("comment", id, << >>)) /\ UNCHANGED blocks
       ELSE /\ blocks' = IF open THEN InDefinition(Node("comment", id, << >>))
                         ELSE InBlock(Node("comment", id, << >>))
            /\ UNCHANGED heading
    /\ UNCHANGED <<open, elements, files>>

Block(b) ==
    /\ blocks' = Append(blocks, Node("block", b, << >>))
    /\ open' = FALSE
    /\ UNCHANGED <<heading, elements, files>>

(* A new definition closes the one before it. *)
Definition(kind, id) ==
    /\ blocks # << >>
    /\ blocks' = InBlock(Node(kind, id, << >>))
    /\ open' = TRUE
    /\ UNCHANGED <<heading, elements, files>>

End == open /\ open' = FALSE /\ UNCHANGED <<heading, blocks, elements, files>>

Statement(kind, id) ==
    /\ blocks # << >>
    /\ blocks' = IF open THEN InDefinition(Node(kind, id, << >>))
                 ELSE InBlock(Node(kind, id, << >>))
    /\ UNCHANGED <<heading, open, elements, files>>

Element(id) ==
    /\ elements' = Append(elements, id)
    /\ UNCHANGED <<heading, blocks, open, files>>

(* A list statement has the elements given since the one before. *)
List(kind, id) ==
    /\ open
    /\ blocks' = InDefinition(Node(kind, id, elements))
    /\ elements' = << >>
    /\ UNCHANGED <<heading, open, files>>

(* The file is the document, and the next document starts empty. *)
File ==
    /\ blocks # << >>
    /\ files' = Append(files, [heading |-> heading, blocks |-> blocks])
    /\ heading' = << >> /\ blocks' = << >> /\ elements' = << >>
    /\ open' = FALSE

Next ==
    \/ \E id \in Calls :
         \/ Version(id) \/ Comment(id) \/ Element(id)
         \/ \E kind \in {"def", "scan"} : Definition(kind, id)
         \/ \E kind \in {"ref", "statement"} : Statement(kind, id)
         \/ \E kind \in {"ref", "list"} : List(kind, id)
    \/ \E b \in Blocks : Block(b)
    \/ End
    \/ File

Spec == Init /\ [][Next]_doc

=============================================================================
