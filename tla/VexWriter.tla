------------------------------ MODULE VexWriter ------------------------------
(***************************************************************************)
(* The state of vex_put.c between its calls, and the file create_vex       *)
(* prints (print_vex.c).                                                   *)
(*                                                                         *)
(* The functions keep one list for the definition that is open (qref_list),*)
(* one for the items of the block (def_list), one for the blocks (b_list)  *)
(* and one for the elements of a list statement (q_list); which of them a  *)
(* call closes depends on five flags.  The caller is sked's own: it writes *)
(* the version first, each block once, statements inside definitions or    *)
(* scans and references inside $GLOBAL or definitions, and closes a list   *)
(* before anything else (vglout.f to vtrout.f, called by skcls.f).         *)
(***************************************************************************)
EXTENDS Naturals, Sequences

CONSTANTS
    Blocks,     \* the names of the blocks the caller writes
    MaxCalls,   \* the most calls of a session
    MaxFiles    \* the most files of a session

None == "none"      \* the block in hand before the first

ASSUME WriterAssumption ==
    Blocks \subseteq STRING \ {None} /\ MaxCalls \in Nat /\ MaxFiles \in Nat

VARIABLES
    blk, block_flag,            \* the block in hand, if there ever was one
    def_flag, in_def_flag,      \* the block had a def; a def is open
    scan_flag, in_scan_flag,    \* the same for scans
    qref_flag,                  \* a reference or a comment was put
    def_str, scan_str,          \* the name of the open def, of the open scan
    version_list, b_list, def_list, qref_list, q_list, string,
    files,                      \* the files printed
    died,                       \* print_vex met a line it does not know
    calls, begun, stage         \* of the caller: its calls, the blocks of
                                \* this file, "version", "body" or "list"

flags  == <<def_flag, in_def_flag, scan_flag, in_scan_flag, qref_flag>>
lists  == <<version_list, b_list, def_list, qref_list, q_list, string>>
caller == <<calls, begun, stage>>
vars   == <<blk, block_flag, flags, def_str, scan_str, lists, files, died, caller>>

(* The blocks whose definitions hold references and nothing else. *)
OfRefs == {"MODE", "STATION"}

Node(kind, id, below) == [kind |-> kind, id |-> id, below |-> below]

(* The call is the one after the last, and has its number. *)
Call(next_stage) ==
    /\ calls < MaxCalls /\ ~died
    /\ calls' = calls + 1
    /\ stage' = next_stage

Init ==
    /\ blk = None /\ block_flag = FALSE
    /\ def_flag = FALSE /\ in_def_flag = FALSE
    /\ scan_flag = FALSE /\ in_scan_flag = FALSE
    /\ qref_flag = FALSE
    /\ def_str = 0 /\ scan_str = 0
    /\ version_list = << >> /\ b_list = << >> /\ def_list = << >>
    /\ qref_list = << >> /\ q_list = << >> /\ string = 0
    /\ files = << >> /\ died = FALSE
    /\ calls = 0 /\ begun = {} /\ stage = "version"

-----------------------------------------------------------------------------
(* What create_block and create_vex make of the lists in hand. *)
OpenDef  == Append(def_list, Node("def", def_str, qref_list))
OpenScan == Append(def_list, Node("scan", scan_str, qref_list))

ClosedBlock(items) == Append(b_list, Node("block", blk, items))

ClosedByBlock ==
    IF ~block_flag THEN b_list
    ELSE IF qref_flag /\ ~def_flag /\ ~scan_flag THEN ClosedBlock(qref_list)
    ELSE IF in_def_flag THEN ClosedBlock(OpenDef)
    ELSE IF in_scan_flag THEN ClosedBlock(OpenScan)
    ELSE ClosedBlock(def_list)

\* Variant: the last scan of the file is not closed.
ClosedByVexNoScan ==
    IF in_def_flag THEN ClosedBlock(OpenDef)
    ELSE IF def_flag \/ scan_flag THEN ClosedBlock(def_list)
    ELSE IF blk # None THEN ClosedBlock(qref_list)
    ELSE << >>

ClosedByVex ==
    IF in_def_flag THEN ClosedBlock(OpenDef)
    ELSE IF in_scan_flag THEN ClosedBlock(OpenScan)
    ELSE IF def_flag \/ scan_flag THEN ClosedBlock(def_list)
    ELSE IF blk # None THEN ClosedBlock(qref_list)
    ELSE << >>

Inside == in_def_flag \/ in_scan_flag

ResetFlags ==
    /\ qref_flag' = FALSE
    /\ def_flag' = FALSE /\ in_def_flag' = FALSE
    /\ scan_flag' = FALSE /\ in_scan_flag' = FALSE

-----------------------------------------------------------------------------
CreateVersion ==
    /\ stage = "version" /\ Len(files) < MaxFiles
    /\ Call("body")
    /\ version_list' = <<Node("version", calls', << >>)>>
    /\ b_list' = << >>
    /\ UNCHANGED <<blk, block_flag, flags, def_str, scan_str, def_list, qref_list,
                   q_list, string, files, died, begun>>

CreateBlock(b) ==
    /\ stage = "body" /\ b \notin begun
    /\ Call("body")
    /\ begun' = begun \cup {b}
    /\ b_list' = ClosedByBlock
    /\ qref_list' = << >> /\ def_list' = << >>
    /\ ResetFlags
    /\ blk' = b /\ block_flag' = TRUE
    /\ UNCHANGED <<def_str, scan_str, version_list, q_list, string, files, died>>

(* Comments put before the first def of a block are its first items. *)
CreateDef ==
    /\ stage = "body" /\ begun # {} /\ blk \notin {"GLOBAL", "SCHED"}
    /\ Call("body")
    /\ def_list' = IF in_def_flag THEN OpenDef
                   ELSE IF ~def_flag /\ qref_list # << >> THEN qref_list
                   ELSE def_list
    /\ qref_list' = << >> /\ qref_flag' = FALSE
    /\ def_str' = calls' /\ def_flag' = TRUE /\ in_def_flag' = TRUE
    /\ UNCHANGED <<blk, block_flag, scan_flag, in_scan_flag, scan_str, version_list,
                   b_list, q_list, string, files, died, begun>>

\* Variant: the lines of the def stay in hand.
EndDefKeeping ==
    /\ stage = "body" /\ in_def_flag
    /\ Call("body")
    /\ def_list' = OpenDef
    /\ def_str' = 0 /\ in_def_flag' = FALSE
    /\ UNCHANGED <<blk, block_flag, def_flag, scan_flag, in_scan_flag, scan_str,
                   version_list, b_list, qref_list, qref_flag, q_list, string, files,
                   died, begun>>

EndDef ==
    /\ stage = "body" /\ in_def_flag
    /\ Call("body")
    /\ def_list' = OpenDef
    /\ qref_list' = << >> /\ qref_flag' = FALSE
    /\ def_str' = 0 /\ in_def_flag' = FALSE
    /\ UNCHANGED <<blk, block_flag, def_flag, scan_flag, in_scan_flag, scan_str,
                   version_list, b_list, q_list, string, files, died, begun>>

\* vex_end_section_comment ends the def before its comment also where there is
\* none: behind the scans, or in a block without items.
EndNoDef ==
    /\ stage = "body" /\ begun # {} /\ ~Inside /\ qref_list = << >>
    /\ Call("body")
    /\ qref_list' = << >> /\ qref_flag' = FALSE
    /\ def_str' = 0
    /\ UNCHANGED <<blk, block_flag, def_flag, in_def_flag, scan_flag, in_scan_flag,
                   scan_str, version_list, b_list, def_list, q_list, string, files,
                   died, begun>>

CreateScan ==
    /\ stage = "body" /\ begun # {} /\ blk = "SCHED"
    /\ Call("body")
    /\ def_list' = IF in_scan_flag THEN OpenScan
                   ELSE IF ~scan_flag /\ qref_list # << >> THEN qref_list
                   ELSE def_list
    /\ qref_list' = << >> /\ qref_flag' = FALSE /\ q_list' = << >>
    /\ scan_str' = calls' /\ scan_flag' = TRUE /\ in_scan_flag' = TRUE
    /\ UNCHANGED <<blk, block_flag, def_flag, in_def_flag, def_str, version_list,
                   b_list, string, files, died, begun>>

EndScan ==
    /\ stage = "body" /\ in_scan_flag
    /\ Call("body")
    /\ def_list' = OpenScan
    /\ qref_list' = << >> /\ qref_flag' = FALSE /\ q_list' = << >>
    /\ scan_str' = 0 /\ in_scan_flag' = FALSE
    /\ UNCHANGED <<blk, block_flag, def_flag, in_def_flag, scan_flag, def_str,
                   version_list, b_list, string, files, died, begun>>

(* A comment, trailing or on its own line; static list remembers nothing   *)
(* that the flags do not decide anew.                                      *)
CreateComment ==
    LET comment == Node("comment", calls + 1, << >>)
    IN  /\ stage = "body"
        /\ Call("body")
        /\ CASE ~block_flag ->
                  /\ version_list' = Append(version_list, comment)
                  /\ UNCHANGED <<qref_list, def_list, qref_flag>>
             [] block_flag /\ (Inside \/ (~def_flag /\ ~scan_flag)) ->
                  /\ qref_list' = Append(qref_list, comment) /\ qref_flag' = TRUE
                  /\ UNCHANGED <<version_list, def_list>>
             [] OTHER ->
                  /\ def_list' = Append(def_list, comment)
                  /\ UNCHANGED <<version_list, qref_list, qref_flag>>
        /\ UNCHANGED <<blk, block_flag, def_flag, in_def_flag, scan_flag, in_scan_flag,
                       def_str, scan_str, b_list, q_list, string, files, died, begun>>

-----------------------------------------------------------------------------
(* Lines of a definition. *)
CreateRef ==
    /\ stage = "body" /\ begun # {}
    /\ blk = "GLOBAL" \/ (in_def_flag /\ blk \in OfRefs)
    /\ Call("body")
    /\ qref_list' = Append(qref_list, Node("ref", calls', << >>))
    /\ qref_flag' = TRUE
    /\ UNCHANGED <<blk, block_flag, def_flag, in_def_flag, scan_flag, in_scan_flag,
                   def_str, scan_str, version_list, b_list, def_list, q_list, string,
                   files, died, begun>>

(* A statement made in one call. *)
CreateStatement ==
    /\ stage = "body" /\ begun # {} /\ Inside /\ blk \notin OfRefs
    /\ Call("body")
    /\ qref_list' = Append(qref_list, Node("statement", calls', << >>))
    /\ UNCHANGED <<blk, block_flag, flags, def_str, scan_str, version_list, b_list,
                   def_list, q_list, string, files, died, begun>>

(* One made of a first call, its elements and a call with an empty string; *)
(* a reference with qualifiers is made in the same way.                    *)
BeginList ==
    /\ stage = "body" /\ begun # {} /\ Inside
    /\ Call("list")
    /\ string' = calls'
    /\ UNCHANGED <<blk, block_flag, flags, def_str, scan_str, version_list, b_list,
                   def_list, qref_list, q_list, files, died, begun>>

AddElement ==
    /\ stage = "list"
    /\ Call("list")
    /\ q_list' = Append(q_list, calls')
    /\ UNCHANGED <<blk, block_flag, flags, def_str, scan_str, version_list, b_list,
                   def_list, qref_list, string, files, died, begun>>

CloseList ==
    /\ stage = "list"
    /\ Call("body")
    /\ qref_list' = Append(qref_list, Node(IF blk \in OfRefs THEN "ref" ELSE "list",
                                           string, q_list))
    /\ q_list' = << >>
    /\ UNCHANGED <<blk, block_flag, flags, def_str, scan_str, version_list, b_list,
                   def_list, string, files, died, begun>>

-----------------------------------------------------------------------------
(* print_vex: the lines each part of a file may have.  A line a list does  *)
(* not take ends the program; a reference among statements is read as if   *)
(* it were one to another file.  Names are left out, and with them that a  *)
(* definition with "comment" in its name is printed without "def" and      *)
(* "enddef".                                                               *)
Below(node, kinds) == \A i \in DOMAIN node.below : node.below[i].kind \in kinds

PrintableDef(block, item) ==
    \/ item.kind = "comment"
    \/ /\ item.kind \in {"def", "scan"}
       /\ Below(item, IF block \in OfRefs THEN {"ref", "comment"}
                      ELSE {"statement", "list", "comment"})

PrintableBlock(block) ==
    IF block.id = "GLOBAL" THEN Below(block, {"ref", "comment"})
    ELSE \A i \in DOMAIN block.below : PrintableDef(block.id, block.below[i])

Printable(blocks) == \A i \in DOMAIN blocks : PrintableBlock(blocks[i])

(* The lists, the flags and the strings of the elements are reset; the     *)
(* block in hand, its flag and the heading are not.                        *)
CreateVex ==
    /\ stage = "body" /\ begun # {}
    /\ Call("version")
    /\ IF Printable(ClosedByVex)
       THEN /\ files' = Append(files, [heading |-> version_list, blocks |-> ClosedByVex])
            /\ UNCHANGED died
       ELSE died' = TRUE /\ UNCHANGED files
    /\ qref_list' = << >> /\ def_list' = << >> /\ q_list' = << >> /\ b_list' = << >>
    /\ ResetFlags
    /\ begun' = {}
    /\ UNCHANGED <<blk, block_flag, def_str, scan_str, version_list, string>>

Next ==
    \/ CreateVersion
    \/ \E b \in Blocks : CreateBlock(b)
    \/ CreateDef \/ EndDef \/ EndNoDef \/ CreateScan \/ EndScan \/ CreateComment
    \/ CreateRef \/ CreateStatement \/ BeginList \/ AddElement \/ CloseList
    \/ CreateVex

Spec == Init /\ [][Next]_vars

-----------------------------------------------------------------------------
(***************************************************************************)
(* Properties.                                                             *)
(***************************************************************************)
Line  == [kind : {"version", "comment", "ref", "statement", "list"}, id : Nat,
          below : Seq(Nat)]
Item  == [kind : {"comment", "ref", "def", "scan"}, id : Nat, below : Seq(Line)]
Block == [kind : {"block"}, id : Blocks, below : Seq(Item)]
File  == [heading : Seq(Line), blocks : Seq(Block)]

TypeOK ==
    /\ blk \in Blocks \cup {None} /\ begun \subseteq Blocks
    /\ def_flag \in BOOLEAN /\ in_def_flag \in BOOLEAN
    /\ scan_flag \in BOOLEAN /\ in_scan_flag \in BOOLEAN
    /\ qref_flag \in BOOLEAN /\ block_flag \in BOOLEAN /\ died \in BOOLEAN
    /\ def_str \in Nat /\ scan_str \in Nat /\ string \in Nat /\ calls \in Nat
    /\ version_list \in Seq(Line) /\ qref_list \in Seq(Line)
    /\ def_list \in Seq(Item) /\ b_list \in Seq(Block)
    /\ q_list \in Seq(Nat)
    /\ files \in Seq(File)
    /\ stage \in {"version", "body", "list"}

\* The flags tell which list holds the lines in hand.  A def or a scan that is
\* open is of this block; lines that no def or scan takes are there only before
\* the first of them, and create_block and create_vex then look at qref_flag or
\* at nothing; no element of a list statement is left over for the next one.
FlagsAgree ==
    /\ in_def_flag => def_flag
    /\ in_scan_flag => scan_flag
    /\ ~(def_flag /\ scan_flag)
    /\ ~Inside => (qref_flag <=> qref_list # << >>)
    /\ (def_flag \/ scan_flag) /\ ~Inside => qref_list = << >>
    /\ q_list # << >> => stage = "list"
    /\ ~(def_flag \/ scan_flag) => def_list = << >>

\* create_vex never meets a line it has no way to print, whatever the caller
\* puts where sked puts it: the file is always written.
AlwaysPrinted == ~died

\* A session that writes one file: the file holds a block for every
\* create_block, a def for every create_def, whether end_def was called or not,
\* and every line where it was put, in the order of the calls.
Unwritten(list) == IF files = << >> THEN list ELSE << >>

Promise ==
    INSTANCE VexDocument WITH
        Calls <- 1..MaxCalls, heading <- Unwritten(version_list),
        blocks <- Unwritten(ClosedByBlock), open <- Inside, elements <- q_list
FilesAreDocuments == Promise!Spec
=============================================================================
