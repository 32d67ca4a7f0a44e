--------------------------- MODULE VexWriterProofs ---------------------------
(***************************************************************************)
(* Proofs about VexWriter for any blocks and any number of calls and       *)
(* files: the flags agree with the lists, a file can always be printed,    *)
(* and a session of one file writes the document its calls describe.       *)
(* Proofs about VexStatement follow: nothing moves from field to field.    *)
(***************************************************************************)
EXTENDS VexWriter, VexStatement, ListLemmas, SequenceTheorems, TLAPS

(* What the caller's order leaves in the writer: a block is in hand from   *)
(* the first create_block on, a list is open only inside a def or a scan,  *)
(* and between two files nothing is pending but comments.                  *)
CallerInv ==
    /\ block_flag <=> blk # None
    /\ begun # {} => block_flag
    /\ begun = {} => /\ ~def_flag /\ ~scan_flag /\ b_list = << >>
                     /\ ~block_flag => qref_list = << >>
    /\ def_flag => blk \notin {"GLOBAL", "SCHED"}
    /\ scan_flag => blk = "SCHED"
    /\ stage = "version" => begun = {} /\ qref_list = << >>
    /\ stage = "list" => Inside /\ begun # {} /\ string \in 1..MaxCalls

(* The kinds of line that may be in qref_list. *)
HereKinds ==
    IF Inside THEN IF blk \in OfRefs THEN {"ref", "comment"}
                   ELSE {"statement", "list", "comment"}
    ELSE IF blk = "GLOBAL" THEN {"ref", "comment"}
    ELSE {"comment"}

LinesInv ==
    /\ \A i \in DOMAIN qref_list : qref_list[i].kind \in HereKinds
    /\ ~Inside => \A i \in DOMAIN qref_list : qref_list[i].below = << >>
    /\ \A i \in DOMAIN def_list : PrintableDef(blk, def_list[i])
    /\ Printable(b_list)
    /\ AlwaysPrinted

IInv == TypeOK /\ FlagsAgree /\ CallerInv /\ LinesInv

-----------------------------------------------------------------------------
(* Nodes and the lists they are put in. *)

\* A line, a def, a block and a file made by the calls are of their types.
LEMMA NodeTypes ==
    /\ \A k \in {"version", "comment", "ref", "statement", "list"}, n \in Nat,
          l \in Seq(Nat) : Node(k, n, l) \in Line
    /\ \A k \in {"comment", "ref", "def", "scan"}, n \in Nat, l \in Seq(Line) :
          Node(k, n, l) \in Item
    /\ \A b \in Blocks, l \in Seq(Item) : Node("block", b, l) \in Block
    /\ << >> \in Seq(Nat) /\ << >> \in Seq(Line) /\ << >> \in Seq(Item)
    /\ << >> \in Seq(Block) /\ << >> \in Seq(File)
  BY DEF Node, Line, Item, Block

\* Lines that hold nothing and are comments or references are items too.
LEMMA LinesAreItems ==
  ASSUME NEW l \in Seq(Line),
         \A i \in DOMAIN l : l[i].kind \in {"ref", "comment"} /\ l[i].below = << >>
  PROVE  l \in Seq(Item)
<1>1. \A i \in 1..Len(l) : l[i] \in Item
  <2> SUFFICES ASSUME NEW i \in 1..Len(l) PROVE l[i] \in Item
    OBVIOUS
  <2>1. l[i] \in Line
    OBVIOUS
  <2>2. l[i].kind \in {"ref", "comment"} /\ l[i].below = << >>
    OBVIOUS
  <2>3. l[i] = Node(l[i].kind, l[i].id, << >>) /\ l[i].id \in Nat
    BY <2>1, <2>2 DEF Line, Node
  <2> QED
    BY <2>2, <2>3, NodeTypes
<1> QED
  BY <1>1

\* What is appended is last, and the rest is as it was.
LEMMA Appending ==
  ASSUME NEW S, NEW s \in Seq(S), NEW e \in S
  PROVE  /\ Append(s, e) \in Seq(S)
         /\ Append(s, e) # << >>
         /\ DOMAIN Append(s, e) = DOMAIN s \cup {Len(s) + 1}
         /\ Len(Append(s, e)) = Len(s) + 1
         /\ Append(s, e)[Len(s) + 1] = e
         /\ \A i \in DOMAIN s : Append(s, e)[i] = s[i] /\ i # Len(s) + 1
  OBVIOUS

\* Changing what was appended last is appending it changed.
LEMMA LastReplaced ==
  ASSUME NEW S, NEW s \in Seq(S), NEW e \in S, NEW f \in S
  PROVE  [Append(s, e) EXCEPT ![Len(Append(s, e))] = f] = Append(s, f)
<1> DEFINE t == Append(s, e)
           n == Len(t)
           u == [t EXCEPT ![n] = f]
<1>1. t \in Seq(S) /\ n = Len(s) + 1 /\ n \in 1..Len(t)
  BY Appending
<1>2. /\ u \in Seq(S) /\ Len(u) = n
      /\ \A j \in 1..n : u[j] = IF j = n THEN f ELSE t[j]
  <2> HIDE DEF t
  <2> QED
    BY <1>1, ExceptSeq
<1>3. Append(s, f) \in Seq(S) /\ Len(Append(s, f)) = n
  BY <1>1, Appending
<1>4. ASSUME NEW i \in 1..n PROVE u[i] = Append(s, f)[i]
  <2>1. i = Len(s) + 1 \/ i \in DOMAIN s
    BY <1>1
  <2> HIDE DEF u
  <2> QED
    BY <1>1, <1>2, <2>1, Appending
<1> HIDE DEF u
<1>5. u = Append(s, f)
  BY <1>2, <1>3, <1>4, SeqEqual
<1> QED
  BY <1>5 DEF u

-----------------------------------------------------------------------------
(* What create_block and create_vex close. *)

\* The items of the block in hand, were it closed now.
Items ==
    IF in_def_flag THEN OpenDef
    ELSE IF in_scan_flag THEN OpenScan
    ELSE IF def_flag \/ scan_flag THEN def_list
    ELSE qref_list

\* An open def or scan, and the lines outside any, are items of this block.
LEMMA ItemsFit ==
  ASSUME IInv, block_flag
  PROVE  /\ Items \in Seq(Item)
         /\ PrintableBlock(Node("block", blk, Items))
<1> USE DEF IInv
<1>1. CASE in_def_flag
  <2> DEFINE d == Node("def", def_str, qref_list)
  <2>1. d \in Item
    BY NodeTypes DEF TypeOK
  <2>2. Items = Append(def_list, d) /\ blk # "GLOBAL"
    BY <1>1 DEF Items, OpenDef, FlagsAgree, CallerInv
  <2>3. PrintableDef(blk, d)
    BY <1>1 DEF PrintableDef, Below, Node, LinesInv, HereKinds, Inside
  <2> HIDE DEF d
  <2>4. /\ Items \in Seq(Item)
        /\ \A i \in DOMAIN Items : PrintableDef(blk, Items[i])
    BY <2>1, <2>2, <2>3, Appending DEF TypeOK, LinesInv
  <2> QED
    BY <2>2, <2>4 DEF PrintableBlock, Node
<1>2. CASE ~in_def_flag /\ in_scan_flag
  <2> DEFINE d == Node("scan", scan_str, qref_list)
  <2>1. d \in Item
    BY NodeTypes DEF TypeOK
  <2>2. Items = Append(def_list, d) /\ blk # "GLOBAL"
    BY <1>2 DEF Items, OpenScan, FlagsAgree, CallerInv
  <2>3. PrintableDef(blk, d)
    BY <1>2 DEF PrintableDef, Below, Node, LinesInv, HereKinds, Inside
  <2> HIDE DEF d
  <2>4. /\ Items \in Seq(Item)
        /\ \A i \in DOMAIN Items : PrintableDef(blk, Items[i])
    BY <2>1, <2>2, <2>3, Appending DEF TypeOK, LinesInv
  <2> QED
    BY <2>2, <2>4 DEF PrintableBlock, Node
<1>3. CASE ~Inside /\ (def_flag \/ scan_flag)
  <2>1. Items = def_list /\ blk # "GLOBAL"
    BY <1>3 DEF Items, Inside, CallerInv
  <2> QED
    BY <2>1 DEF PrintableBlock, Node, TypeOK, LinesInv
<1>4. CASE ~Inside /\ ~def_flag /\ ~scan_flag
  <2>1. Items = qref_list
    BY <1>4 DEF Items, Inside
  <2>2. /\ \A i \in DOMAIN qref_list : qref_list[i].kind \in {"ref", "comment"}
        /\ \A i \in DOMAIN qref_list : qref_list[i].below = << >>
        /\ blk # "GLOBAL" =>
             \A i \in DOMAIN qref_list : qref_list[i].kind = "comment"
    BY <1>4 DEF LinesInv, HereKinds
  <2>3. qref_list \in Seq(Item)
    BY <2>2, LinesAreItems DEF TypeOK
  <2>4. PrintableBlock(Node("block", blk, qref_list))
    BY <2>2 DEF PrintableBlock, PrintableDef, Below, Node
  <2> QED
    BY <2>1, <2>3, <2>4
<1> QED
  BY <1>1, <1>2, <1>3, <1>4 DEF Inside

\* Both calls close the block in hand with these items; before the first block
\* create_block closes nothing.
LEMMA Closing ==
  ASSUME IInv
  PROVE  /\ block_flag => /\ ClosedByBlock = ClosedBlock(Items)
                          /\ begun # {} => ClosedByVex = ClosedBlock(Items)
         /\ ~block_flag => ClosedByBlock = b_list /\ b_list = << >>
         /\ ClosedByBlock \in Seq(Block) /\ Printable(ClosedByBlock)
<1> USE DEF IInv
<1>1. ASSUME block_flag
      PROVE  /\ ClosedByBlock = ClosedBlock(Items)
             /\ begun # {} => ClosedByVex = ClosedBlock(Items)
  <2>1. ~Inside /\ ~def_flag /\ ~scan_flag /\ ~qref_flag => qref_list = def_list
    BY DEF FlagsAgree
  <2>2. (Inside => def_flag \/ scan_flag) /\ blk # None
    BY <1>1 DEF FlagsAgree, Inside, CallerInv
  <2> QED
    BY <1>1, <2>1, <2>2 DEF ClosedByBlock, ClosedByVex, Items, Inside
<1>2. ASSUME ~block_flag PROVE ClosedByBlock = b_list /\ b_list = << >>
  BY <1>2 DEF CallerInv, ClosedByBlock
<1>3. ASSUME block_flag PROVE ClosedByBlock \in Seq(Block) /\ Printable(ClosedByBlock)
  <2> DEFINE b == Node("block", blk, Items)
  <2>1. blk \in Blocks
    BY <1>3 DEF TypeOK, CallerInv
  <2>2. b \in Block /\ PrintableBlock(b)
    BY <1>3, <2>1, ItemsFit, NodeTypes
  <2>3. ClosedByBlock = Append(b_list, b)
    BY <1>1, <1>3 DEF ClosedBlock
  <2> HIDE DEF b
  <2> QED
    BY <2>2, <2>3, Appending DEF TypeOK, LinesInv, Printable
<1> QED
  BY <1>1, <1>2, <1>3 DEF TypeOK, LinesInv

-----------------------------------------------------------------------------
(* The invariant. *)

\* A call has the next number.
LEMMA CallNumber ==
  ASSUME TypeOK, NEW s, Call(s)
  PROVE  /\ calls' \in Nat /\ calls' = calls + 1 /\ calls' \in 1..MaxCalls
         /\ ~died /\ stage' = s
  BY WriterAssumption DEF TypeOK, Call

\* The invariant holds before the first call.
LEMMA InitInv == Init => IInv
<1> SUFFICES ASSUME Init PROVE IInv
  OBVIOUS
<1>1. TypeOK
  BY NodeTypes DEF Init, TypeOK
<1>2. FlagsAgree /\ CallerInv
  BY DEF Init, FlagsAgree, CallerInv, Inside
<1>3. LinesInv
  BY DEF Init, LinesInv, Printable, AlwaysPrinted
<1> QED
  BY <1>1, <1>2, <1>3 DEF IInv

\* create_version keeps it.
LEMMA VersionInv == ASSUME IInv, CreateVersion PROVE IInv'
<1> USE DEF IInv, CreateVersion
<1>1. calls' \in Nat /\ stage' = "body" /\ ~died
  BY CallNumber
<1>2. version_list' \in Seq(Line)
  <2>1. Node("version", calls', << >>) \in Line
    BY <1>1, NodeTypes
  <2> QED
    BY <2>1
<1>3. TypeOK'
  BY <1>1, <1>2, NodeTypes DEF TypeOK, flags
<1>4. FlagsAgree' /\ CallerInv'
  BY <1>1 DEF FlagsAgree, CallerInv, Inside, flags
<1>5. LinesInv'
  BY DEF LinesInv, HereKinds, Inside, flags, Printable, AlwaysPrinted
<1> QED
  BY <1>3, <1>4, <1>5

\* create_block keeps it.
LEMMA BlockInv == ASSUME IInv, NEW b \in Blocks, CreateBlock(b) PROVE IInv'
<1> USE DEF IInv, CreateBlock
<1>1. calls' \in Nat /\ stage' = "body" /\ ~died
  BY CallNumber
<1>2. b_list' \in Seq(Block) /\ Printable(b_list')
  BY Closing
<1>3. TypeOK'
  BY <1>1, <1>2, NodeTypes DEF TypeOK, ResetFlags
<1>4. FlagsAgree' /\ CallerInv'
  BY <1>1, WriterAssumption DEF FlagsAgree, CallerInv, Inside, ResetFlags, TypeOK
<1>5. LinesInv'
  BY <1>1, <1>2 DEF LinesInv, AlwaysPrinted
<1> QED
  BY <1>3, <1>4, <1>5

\* The items a new def or scan comes after, and what becomes of them.
LEMMA Opening ==
  ASSUME IInv, block_flag, blk # "GLOBAL",
         NEW kind \in {"def", "scan"},
         kind = "def" => ~scan_flag,
         kind = "scan" => ~def_flag,
         def_list' = IF kind = "def"
                     THEN IF in_def_flag THEN OpenDef
                          ELSE IF ~def_flag /\ qref_list # << >> THEN qref_list
                          ELSE def_list
                     ELSE IF in_scan_flag THEN OpenScan
                          ELSE IF ~scan_flag /\ qref_list # << >> THEN qref_list
                          ELSE def_list
  PROVE  /\ def_list' = Items /\ def_list' \in Seq(Item)
         /\ \A i \in DOMAIN def_list' : PrintableDef(blk, def_list'[i])
<1> USE DEF IInv
<1>1. def_list' = Items
  BY DEF Items, FlagsAgree, Inside
<1> QED
  BY <1>1, ItemsFit DEF PrintableBlock, Node

\* create_def keeps it.
LEMMA DefInv == ASSUME IInv, CreateDef PROVE IInv'
<1> USE DEF IInv, CreateDef
<1>1. calls' \in Nat /\ stage' = "body" /\ ~died
  BY CallNumber
<1>2. block_flag /\ ~scan_flag
  BY DEF CallerInv
<1>3. /\ def_list' \in Seq(Item)
      /\ \A i \in DOMAIN def_list' : PrintableDef(blk, def_list'[i])
  BY <1>2, Opening
<1>4. TypeOK'
  BY <1>1, <1>3, NodeTypes DEF TypeOK
<1>5. FlagsAgree' /\ CallerInv'
  BY <1>1, <1>2 DEF FlagsAgree, CallerInv, Inside
<1>6. LinesInv'
  BY <1>3 DEF LinesInv, AlwaysPrinted
<1> QED
  BY <1>4, <1>5, <1>6

\* create_scan keeps it.
LEMMA ScanInv == ASSUME IInv, CreateScan PROVE IInv'
<1> USE DEF IInv, CreateScan
<1>1. calls' \in Nat /\ stage' = "body" /\ ~died
  BY CallNumber
<1>2. block_flag /\ ~def_flag /\ ~in_def_flag
  BY DEF CallerInv, FlagsAgree
<1>3. /\ def_list' \in Seq(Item)
      /\ \A i \in DOMAIN def_list' : PrintableDef(blk, def_list'[i])
  BY <1>2, Opening
<1>4. TypeOK'
  BY <1>1, <1>3, NodeTypes DEF TypeOK
<1>5. FlagsAgree' /\ CallerInv'
  BY <1>1, <1>2 DEF FlagsAgree, CallerInv, Inside
<1>6. LinesInv'
  BY <1>3 DEF LinesInv, AlwaysPrinted
<1> QED
  BY <1>4, <1>5, <1>6

\* Where no def is open, ending one only forgets its name.
LEMMA EndNoDefInv == ASSUME IInv, EndNoDef PROVE IInv'
<1> USE DEF IInv
<1>1. calls' \in Nat /\ stage' = "body" /\ ~died
  BY CallNumber DEF EndNoDef
<1>2. qref_list = << >> /\ qref_list' = << >> /\ ~qref_flag' /\ ~in_def_flag /\ ~in_scan_flag
  BY DEF EndNoDef, Inside
<1>3. TypeOK'
  BY <1>1, <1>2 DEF TypeOK, EndNoDef
<1>4. FlagsAgree' /\ CallerInv'
  BY <1>1, <1>2 DEF FlagsAgree, CallerInv, Inside, EndNoDef
<1>5. LinesInv'
  BY <1>1, <1>2 DEF LinesInv, AlwaysPrinted, EndNoDef
<1> QED
  BY <1>3, <1>4, <1>5

\* Closing the open def or scan makes it the last item.
LEMMA EndInv == ASSUME IInv, EndDef \/ EndScan PROVE IInv'
<1> USE DEF IInv
<1>1. calls' \in Nat /\ stage' = "body" /\ ~died
  BY CallNumber DEF EndDef, EndScan
<1>2. block_flag /\ Inside /\ begun # {}
  BY DEF CallerInv, FlagsAgree, EndDef, EndScan, Inside
<1>3. def_list' = Items /\ blk # "GLOBAL"
  BY <1>2 DEF Items, EndDef, EndScan, CallerInv, FlagsAgree
<1>4. /\ def_list' \in Seq(Item)
      /\ \A i \in DOMAIN def_list' : PrintableDef(blk, def_list'[i])
  BY <1>2, <1>3, ItemsFit DEF PrintableBlock, Node
<1>5. CASE EndDef
  <2>1. ~in_scan_flag /\ def_flag
    BY <1>5 DEF EndDef, FlagsAgree
  <2>2. FlagsAgree' /\ CallerInv'
    BY <1>1, <1>2, <1>5, <2>1 DEF FlagsAgree, CallerInv, Inside, EndDef
  <2>3. LinesInv'
    BY <1>4, <1>5 DEF LinesInv, AlwaysPrinted, EndDef
  <2>4. TypeOK'
    BY <1>1, <1>4, <1>5, NodeTypes DEF TypeOK, EndDef
  <2> QED
    BY <2>2, <2>3, <2>4
<1>6. CASE EndScan
  <2>1. ~in_def_flag /\ scan_flag
    BY <1>6 DEF EndScan, FlagsAgree
  <2>2. FlagsAgree' /\ CallerInv'
    BY <1>1, <1>2, <1>6, <2>1 DEF FlagsAgree, CallerInv, Inside, EndScan
  <2>3. LinesInv'
    BY <1>4, <1>6 DEF LinesInv, AlwaysPrinted, EndScan
  <2>4. TypeOK'
    BY <1>1, <1>4, <1>6, NodeTypes DEF TypeOK, EndScan
  <2> QED
    BY <2>2, <2>3, <2>4
<1> QED
  BY <1>5, <1>6

\* A line of the kinds that fit goes at the end of qref_list.
LEMMA LineInv ==
  ASSUME IInv, NEW node \in Line, node.kind \in HereKinds,
         block_flag, ~Inside => node.below = << >> /\ ~def_flag /\ ~scan_flag,
         qref_list' = Append(qref_list, node),
         ~Inside => qref_flag'
  PROVE  /\ qref_list' \in Seq(Line) /\ qref_list' # << >>
         /\ \A i \in DOMAIN qref_list' : qref_list'[i].kind \in HereKinds
         /\ ~Inside => \A i \in DOMAIN qref_list' : qref_list'[i].below = << >>
<1>1. qref_list \in Seq(Line)
  BY DEF IInv, TypeOK
<1> QED
  BY <1>1, Appending DEF IInv, LinesInv

\* create_comment keeps it, wherever the comment goes.
LEMMA CommentInv == ASSUME IInv, CreateComment PROVE IInv'
<1> DEFINE comment == Node("comment", calls + 1, << >>)
<1> USE DEF IInv
<1>1. calls' \in Nat /\ stage' = "body" /\ ~died
  BY CallNumber DEF CreateComment
<1>2. /\ comment \in Line /\ comment \in Item
      /\ comment.kind = "comment" /\ comment.below = << >>
  <2>1. calls + 1 \in Nat
    BY DEF TypeOK
  <2>2. comment \in Line /\ comment \in Item
    BY <2>1, NodeTypes
  <2> QED
    BY <2>2 DEF Node
<1> HIDE DEF comment
<1>3. CASE ~block_flag
  <2>1. version_list' = Append(version_list, comment)
        /\ UNCHANGED <<qref_list, def_list, qref_flag>>
    BY <1>3 DEF CreateComment, comment
  <2>2. version_list' \in Seq(Line)
    BY <1>2, <2>1 DEF TypeOK
  <2>3. TypeOK'
    BY <1>1, <2>1, <2>2 DEF TypeOK, CreateComment
  <2>4. FlagsAgree' /\ CallerInv' /\ LinesInv'
    BY <1>1, <2>1
    DEF FlagsAgree, CallerInv, LinesInv, HereKinds, Inside, AlwaysPrinted, CreateComment
  <2> QED
    BY <2>3, <2>4
<1>4. CASE block_flag /\ (Inside \/ (~def_flag /\ ~scan_flag))
  <2>1. /\ qref_list' = Append(qref_list, comment) /\ qref_flag'
        /\ qref_flag' \in BOOLEAN
        /\ UNCHANGED <<version_list, def_list>>
    BY <1>4 DEF CreateComment, comment
  <2>2. comment.kind \in HereKinds
    BY <1>2 DEF HereKinds
  <2>3. /\ qref_list' \in Seq(Line) /\ qref_list' # << >>
        /\ \A i \in DOMAIN qref_list' : qref_list'[i].kind \in HereKinds
        /\ ~Inside => \A i \in DOMAIN qref_list' : qref_list'[i].below = << >>
    BY <1>2, <1>4, <2>1, <2>2, LineInv
  <2>4. TypeOK'
    BY <1>1, <2>1, <2>3 DEF TypeOK, CreateComment
  <2>5. FlagsAgree' /\ CallerInv'
    BY <1>1, <1>4, <2>1, <2>3 DEF FlagsAgree, CallerInv, Inside, CreateComment
  <2>6. LinesInv'
    BY <1>4, <2>1, <2>3 DEF LinesInv, HereKinds, Inside, AlwaysPrinted, CreateComment
  <2> QED
    BY <2>4, <2>5, <2>6
<1>5. CASE block_flag /\ ~Inside /\ (def_flag \/ scan_flag)
  <2>1. def_list' = Append(def_list, comment)
        /\ UNCHANGED <<version_list, qref_list, qref_flag>>
    BY <1>5 DEF CreateComment, comment
  <2>2. PrintableDef(blk, comment)
    BY <1>2 DEF PrintableDef
  <2>3. /\ def_list' \in Seq(Item)
        /\ \A i \in DOMAIN def_list' : PrintableDef(blk, def_list'[i])
    BY <1>2, <2>1, <2>2, Appending DEF TypeOK, LinesInv
  <2>4. TypeOK'
    BY <1>1, <2>1, <2>3 DEF TypeOK, CreateComment
  <2>5. FlagsAgree' /\ CallerInv'
    BY <1>1, <1>5, <2>1 DEF FlagsAgree, CallerInv, Inside, CreateComment
  <2>6. LinesInv'
    BY <1>5, <2>1, <2>3 DEF LinesInv, HereKinds, Inside, AlwaysPrinted, CreateComment
  <2> QED
    BY <2>4, <2>5, <2>6
<1> QED
  BY <1>3, <1>4, <1>5

\* create_ref keeps it.
LEMMA RefInv == ASSUME IInv, CreateRef PROVE IInv'
<1> DEFINE ref == Node("ref", calls', << >>)
<1> USE DEF IInv
<1>1. calls' \in Nat /\ stage' = "body" /\ ~died
  BY CallNumber DEF CreateRef
<1>2. ref \in Line /\ ref.kind = "ref" /\ ref.below = << >>
  BY <1>1, NodeTypes DEF Node
<1>3. qref_list' = Append(qref_list, ref)
  BY DEF CreateRef
<1> HIDE DEF ref
<1>4. block_flag /\ (~Inside => ~def_flag /\ ~scan_flag) /\ ref.kind \in HereKinds
  BY <1>2, WriterAssumption
  DEF CreateRef, CallerInv, FlagsAgree, Inside, HereKinds, OfRefs
<1>5. /\ qref_list' \in Seq(Line) /\ qref_list' # << >>
      /\ \A i \in DOMAIN qref_list' : qref_list'[i].kind \in HereKinds
      /\ ~Inside => \A i \in DOMAIN qref_list' : qref_list'[i].below = << >>
  BY <1>2, <1>3, <1>4, LineInv DEF CreateRef
<1>6. TypeOK'
  BY <1>1, <1>5 DEF TypeOK, CreateRef
<1>7. FlagsAgree' /\ CallerInv'
  BY <1>1, <1>4, <1>5 DEF FlagsAgree, CallerInv, Inside, CreateRef
<1>8. LinesInv'
  BY <1>5 DEF LinesInv, HereKinds, Inside, AlwaysPrinted, CreateRef
<1> QED
  BY <1>6, <1>7, <1>8

\* A statement of a definition or of a scan keeps it.
LEMMA StatementInv == ASSUME IInv, CreateStatement PROVE IInv'
<1> DEFINE node == Node("statement", calls', << >>)
<1> USE DEF IInv
<1>1. calls' \in Nat /\ stage' = "body" /\ ~died
  BY CallNumber DEF CreateStatement
<1>2. node \in Line /\ node.kind = "statement" /\ node.below = << >>
  BY <1>1, NodeTypes DEF Node
<1>3. qref_list' = Append(qref_list, node)
  BY DEF CreateStatement
<1> HIDE DEF node
<1>4. block_flag /\ Inside /\ node.kind \in HereKinds
  BY <1>2 DEF CreateStatement, CallerInv, HereKinds
<1>5. /\ qref_list' \in Seq(Line) /\ qref_list' # << >>
      /\ \A i \in DOMAIN qref_list' : qref_list'[i].kind \in HereKinds
  BY <1>2, <1>3, <1>4, LineInv
<1>6. TypeOK'
  BY <1>1, <1>5 DEF TypeOK, CreateStatement, flags
<1>7. FlagsAgree' /\ CallerInv'
  BY <1>1, <1>4 DEF FlagsAgree, CallerInv, Inside, CreateStatement, flags
<1>8. LinesInv'
  BY <1>4, <1>5 DEF LinesInv, HereKinds, Inside, AlwaysPrinted, CreateStatement, flags
<1> QED
  BY <1>6, <1>7, <1>8

\* The calls of a list statement.
LEMMA ListInv == ASSUME IInv, BeginList \/ AddElement \/ CloseList PROVE IInv'
<1> USE DEF IInv
<1>1. calls' \in Nat /\ ~died
  BY CallNumber DEF BeginList, AddElement, CloseList
<1>2. block_flag /\ Inside /\ begun # {}
  BY DEF BeginList, AddElement, CloseList, CallerInv
<1>3. ASSUME BeginList PROVE IInv'
  <2>1. stage' = "list" /\ q_list' \in Seq(Nat) /\ string' \in 1..MaxCalls
    BY <1>1, <1>3, CallNumber DEF BeginList, Call, TypeOK
  <2>2. TypeOK'
    BY <1>1, <1>3, <2>1 DEF TypeOK, BeginList, flags
  <2>3. FlagsAgree' /\ CallerInv'
    BY <1>2, <1>3, <2>1 DEF FlagsAgree, CallerInv, Inside, BeginList, flags
  <2>4. LinesInv'
    BY <1>3 DEF LinesInv, HereKinds, Inside, AlwaysPrinted, BeginList, flags
  <2> QED
    BY <2>2, <2>3, <2>4
<1>4. ASSUME AddElement PROVE IInv'
  <2>1. stage' = "list" /\ q_list' \in Seq(Nat)
    BY <1>1, <1>4 DEF AddElement, Call, TypeOK
  <2>2. TypeOK'
    BY <1>1, <1>4, <2>1 DEF TypeOK, AddElement, flags
  <2>3. FlagsAgree' /\ CallerInv'
    BY <1>2, <1>4, <2>1 DEF FlagsAgree, CallerInv, Inside, AddElement, flags
  <2>4. LinesInv'
    BY <1>4 DEF LinesInv, HereKinds, Inside, AlwaysPrinted, AddElement, flags
  <2> QED
    BY <2>2, <2>3, <2>4
<1>5. ASSUME CloseList PROVE IInv'
  <2> DEFINE k == IF blk \in OfRefs THEN "ref" ELSE "list"
             node == Node(k, string, q_list)
  <2>1. node \in Line /\ node.kind \in HereKinds
    <3>1. k \in HereKinds /\ k \in {"ref", "list"}
      BY <1>2 DEF HereKinds
    <3> HIDE DEF k
    <3> QED
      BY <3>1, NodeTypes DEF TypeOK, Node
  <2>2. qref_list' = Append(qref_list, node) /\ stage' = "body" /\ q_list' = << >>
    BY <1>5 DEF CloseList, Call
  <2> HIDE DEF node
  <2>3. /\ qref_list' \in Seq(Line)
        /\ \A i \in DOMAIN qref_list' : qref_list'[i].kind \in HereKinds
    BY <1>2, <2>1, <2>2, LineInv
  <2>4. TypeOK'
    BY <1>1, <1>5, <2>2, <2>3, NodeTypes DEF TypeOK, CloseList, flags
  <2>5. FlagsAgree' /\ CallerInv'
    BY <1>2, <1>5, <2>2 DEF FlagsAgree, CallerInv, Inside, CloseList, flags
  <2>6. LinesInv'
    BY <1>2, <1>5, <2>3
    DEF LinesInv, HereKinds, Inside, AlwaysPrinted, CloseList, flags
  <2> QED
    BY <2>4, <2>5, <2>6
<1> QED
  BY <1>3, <1>4, <1>5

\* The file is printed, and only the block in hand and the heading remain.
LEMMA VexInv == ASSUME IInv, CreateVex PROVE IInv'
<1> USE DEF IInv
<1>1. calls' \in Nat /\ stage' = "version" /\ ~died
  BY CallNumber DEF CreateVex
<1>2. block_flag /\ begun # {}
  BY DEF CreateVex, CallerInv
<1>3. ClosedByVex \in Seq(Block) /\ Printable(ClosedByVex)
  BY <1>2, Closing
<1>4. files' = Append(files, [heading |-> version_list, blocks |-> ClosedByVex])
      /\ UNCHANGED died
  BY <1>3 DEF CreateVex
<1>5. files' \in Seq(File)
  <2>1. [heading |-> version_list, blocks |-> ClosedByVex] \in File
    BY <1>3 DEF File, TypeOK
  <2> QED
    BY <1>4, <2>1 DEF TypeOK
<1>6. TypeOK'
  BY <1>1, <1>4, <1>5, NodeTypes DEF TypeOK, CreateVex, ResetFlags
<1>7. FlagsAgree' /\ CallerInv'
  BY <1>1, <1>2 DEF FlagsAgree, CallerInv, Inside, CreateVex, ResetFlags
<1>8. LinesInv'
  BY <1>1, <1>4 DEF LinesInv, Printable, AlwaysPrinted, CreateVex
<1> QED
  BY <1>6, <1>7, <1>8

\* Every call keeps it.
LEMMA NextInv == IInv /\ [Next]_vars => IInv'
<1> SUFFICES ASSUME IInv, [Next]_vars PROVE IInv'
  OBVIOUS
<1>1. CASE UNCHANGED vars
  BY <1>1
  DEF vars, flags, lists, caller, IInv, TypeOK, FlagsAgree, CallerInv, LinesInv,
      HereKinds, Inside, Printable, AlwaysPrinted
<1>2. CASE \E b \in Blocks : CreateBlock(b)
  BY <1>2, BlockInv
<1> QED
  BY <1>1, <1>2, VersionInv, DefInv, ScanInv, EndInv, EndNoDefInv, CommentInv, RefInv,
     StatementInv, ListInv, VexInv DEF Next

\* Every value the writer keeps is of its type.
THEOREM WriterTypes == Spec => []TypeOK
<1>1. IInv => TypeOK
  BY DEF IInv
<1> QED
  BY <1>1, InitInv, NextInv, PTL DEF Spec

\* The flags always tell which list the lines in hand are in.
THEOREM WriterFlags == Spec => []FlagsAgree
<1>1. IInv => FlagsAgree
  BY DEF IInv
<1> QED
  BY <1>1, InitInv, NextInv, PTL DEF Spec

\* Whatever the caller puts where it may, the file is printed.
THEOREM WriterPrints == Spec => []AlwaysPrinted
<1>1. IInv => AlwaysPrinted
  BY DEF IInv, LinesInv
<1> QED
  BY <1>1, InitInv, NextInv, PTL DEF Spec

-----------------------------------------------------------------------------
(* The refinement: the calls of one file write the document they describe. *)

OneFileInv ==
    /\ files # << >> => stage = "version"
    /\ files = << >> /\ begun = {} => ~block_flag

\* In a session of one file the block in hand is one of this file.
LEMMA OneFileNext ==
  ASSUME MaxFiles = 1, IInv, OneFileInv, [Next]_vars
  PROVE  OneFileInv'
<1>1. files \in Seq(File) /\ (Len(files) < 1 => files = << >>)
  BY EmptySeq DEF IInv, TypeOK
<1>2. CASE UNCHANGED vars
  BY <1>2 DEF vars, flags, caller, OneFileInv
<1>3. CASE CreateVersion
  BY <1>1, <1>3 DEF CreateVersion, OneFileInv
<1>4. ASSUME NEW b \in Blocks, CreateBlock(b) PROVE OneFileInv'
  BY <1>4 DEF CreateBlock, OneFileInv
<1>5. CASE CreateVex
  <2>1. ~died' /\ stage' = "version" /\ files' # << >>
    <3>1. IInv'
      BY <1>5, VexInv
    <3>2. ~died'
      BY <3>1 DEF IInv, LinesInv, AlwaysPrinted
    <3>3. files' = Append(files, [heading |-> version_list, blocks |-> ClosedByVex])
      BY <1>5, <3>2 DEF CreateVex
    <3>4. files' # << >>
      BY <1>1, <3>3
    <3> QED
      BY <1>5, <3>2, <3>4 DEF CreateVex, Call
  <2> QED
    BY <2>1 DEF OneFileInv
<1>6. CASE CreateDef \/ EndDef \/ EndNoDef \/ CreateScan \/ EndScan
  BY <1>6 DEF CreateDef, EndDef, EndNoDef, CreateScan, EndScan, OneFileInv
<1>7. CASE CreateComment \/ CreateRef \/ CreateStatement
  BY <1>7 DEF CreateComment, CreateRef, CreateStatement, OneFileInv, flags
<1>8. CASE BeginList \/ AddElement \/ CloseList
  BY <1>8 DEF BeginList, AddElement, CloseList, OneFileInv, flags
<1> QED
  BY <1>2, <1>3, <1>4, <1>5, <1>6, <1>7, <1>8 DEF Next

\* What both calls close, before and after a step.
LEMMA ClosedNow ==
  IInv /\ block_flag => ClosedByBlock = Append(b_list, Node("block", blk, Items))
  BY Closing DEF ClosedBlock

\* The same after a step.
LEMMA ClosedNext ==
  (IInv /\ block_flag => ClosedByBlock = Append(b_list, Node("block", blk, Items)))'
  BY ClosedNow, PTL

DocBlocks == Unwritten(ClosedByBlock)
Heading == Unwritten(version_list)

\* A node put in the last block of the document.
LEMMA InBlockIs ==
  ASSUME IInv, block_flag, files = << >>, NEW node \in Item
  PROVE  Promise!InBlock(node) = Append(b_list, Node("block", blk, Append(Items, node)))
<1> DEFINE b == Node("block", blk, Items)
           c == Node("block", blk, Append(Items, node))
<1>1. b \in Block /\ c \in Block
  <2>1. Items \in Seq(Item) /\ Append(Items, node) \in Seq(Item)
    BY ItemsFit
  <2>2. blk \in Blocks
    BY DEF IInv, TypeOK, CallerInv
  <2> QED
    BY <2>1, <2>2, NodeTypes
<1>2. DocBlocks = Append(b_list, b)
  BY ClosedNow DEF DocBlocks, Unwritten
<1>3. Promise!With(b, node) = c
  BY DEF Promise!With, Promise!Node, Node
<1> HIDE DEF b, c
<1>4. b_list \in Seq(Block)
  BY DEF IInv, TypeOK
<1>5. DocBlocks[Len(DocBlocks)] = b
  BY <1>1, <1>2, <1>4, Appending
<1>6. Promise!InBlock(node) = [DocBlocks EXCEPT ![Len(DocBlocks)] = c]
  BY <1>3, <1>5 DEF Promise!InBlock, DocBlocks
<1> QED
  BY <1>1, <1>2, <1>4, <1>6, LastReplaced DEF c

\* A line put in the open def or scan of the document.
LEMMA InDefinitionIs ==
  ASSUME IInv, block_flag, files = << >>, NEW node \in Line,
         NEW kind \in {"def", "scan"}, NEW name \in Nat,
         Items = Append(def_list, Node(kind, name, qref_list))
  PROVE  Promise!InDefinition(node) =
           Append(b_list, Node("block", blk,
             Append(def_list, Node(kind, name, Append(qref_list, node)))))
<1> DEFINE d == Node(kind, name, qref_list)
           e == Node(kind, name, Append(qref_list, node))
           b == Node("block", blk, Items)
           c == Node("block", blk, Append(def_list, e))
<1>1. d \in Item /\ e \in Item /\ def_list \in Seq(Item)
  <2>1. qref_list \in Seq(Line) /\ Append(qref_list, node) \in Seq(Line)
    BY DEF IInv, TypeOK
  <2> QED
    BY <2>1, NodeTypes DEF IInv, TypeOK
<1>2. Promise!With(d, node) = e
  BY DEF Promise!With, Promise!Node, Node
<1>3. /\ b.below = Items
      /\ Promise!Node(b.kind, b.id, Append(def_list, e)) = c
  BY DEF Promise!Node, Node
<1>4. Items = Append(def_list, d)
  OBVIOUS
<1> HIDE DEF d, e
<1>5. Items[Len(Items)] = d /\ [Items EXCEPT ![Len(Items)] = e] = Append(def_list, e)
  BY <1>1, <1>4, Appending, LastReplaced
<1>6. b \in Block /\ c \in Block
  <2>1. Items \in Seq(Item) /\ Append(def_list, e) \in Seq(Item)
    BY <1>1, ItemsFit
  <2>2. blk \in Blocks
    BY DEF IInv, TypeOK, CallerInv
  <2> QED
    BY <2>1, <2>2, NodeTypes
<1>7. DocBlocks = Append(b_list, b) /\ b_list \in Seq(Block)
  BY ClosedNow DEF DocBlocks, Unwritten, IInv, TypeOK
<1> HIDE DEF b, c
<1>8. DocBlocks[Len(DocBlocks)] = b
  BY <1>6, <1>7, Appending
<1>9. Promise!InDefinition(node) = [DocBlocks EXCEPT ![Len(DocBlocks)] = c]
  <2>1. [b.below EXCEPT ![Len(b.below)] = Promise!With(@, node)] = Append(def_list, e)
    BY <1>2, <1>3, <1>5
  <2> QED
    BY <1>3, <1>8, <2>1 DEF Promise!InDefinition, DocBlocks
<1> QED
  BY <1>6, <1>7, <1>9, LastReplaced DEF c, e

\* What a step of the document sees of a step of the writer.
LEMMA Seen ==
  ASSUME IInv, IInv', files = << >>, files' = << >>, block_flag, block_flag'
  PROVE  /\ DocBlocks = Append(b_list, Node("block", blk, Items))
         /\ DocBlocks' = Append(b_list', Node("block", blk', Items'))
         /\ DocBlocks # << >>
         /\ Heading = version_list /\ Heading' = version_list'
<1>1. /\ DocBlocks = ClosedByBlock /\ DocBlocks' = ClosedByBlock'
      /\ Heading = version_list /\ Heading' = version_list'
  BY DEF DocBlocks, Heading, Unwritten
<1>2. /\ ClosedByBlock = Append(b_list, Node("block", blk, Items))
      /\ ClosedByBlock' = Append(b_list', Node("block", blk', Items'))
  BY ClosedNow, ClosedNext
<1>3. b_list \in Seq(Block) /\ Node("block", blk, Items) \in Block
  BY ItemsFit, NodeTypes DEF IInv, TypeOK, CallerInv
<1> QED
  BY <1>1, <1>2, <1>3, Appending

\* create_version begins the document.
LEMMA VersionStep ==
  ASSUME MaxFiles = 1, IInv, OneFileInv, CreateVersion
  PROVE  Promise!Version(calls') /\ calls' \in 1..MaxCalls
<1>1. files = << >> /\ files' = << >>
  BY EmptySeq DEF IInv, TypeOK, CreateVersion
<1>2. ~block_flag /\ ~block_flag' /\ b_list' = << >> /\ b_list = << >>
  BY <1>1 DEF CreateVersion, IInv, CallerInv, OneFileInv
<1>3. DocBlocks = << >> /\ DocBlocks' = << >>
  BY <1>1, <1>2 DEF DocBlocks, Unwritten, ClosedByBlock
<1>4. Heading' = <<Node("version", calls', << >>)>>
  BY <1>1 DEF Heading, Unwritten, CreateVersion
<1>5. UNCHANGED <<Inside, q_list, files>>
  BY DEF CreateVersion, flags, Inside
<1> QED
  BY <1>1, <1>3, <1>4, <1>5, CallNumber
  DEF CreateVersion, IInv, Promise!Version, Promise!Node, Node, DocBlocks, Heading

\* create_block opens a block of the document.
LEMMA BlockStep ==
  ASSUME IInv, IInv', OneFileInv, NEW b \in Blocks, CreateBlock(b)
  PROVE  Promise!Block(b)
<1>1. files = << >> /\ files' = << >>
  BY DEF CreateBlock, OneFileInv
<1>2. DocBlocks = ClosedByBlock /\ DocBlocks' = ClosedByBlock'
      /\ Heading' = Heading
  BY <1>1 DEF DocBlocks, Heading, Unwritten, CreateBlock
<1>3. ~Inside' /\ Items' = << >>
  BY DEF CreateBlock, ResetFlags, Inside, Items
<1>4. DocBlocks' = Append(DocBlocks, Node("block", b, << >>))
  BY <1>2, <1>3, ClosedNext DEF CreateBlock
<1> QED
  BY <1>1, <1>2, <1>3, <1>4
  DEF CreateBlock, Promise!Block, Promise!Node, Node, DocBlocks, Heading

\* create_def and create_scan open a definition of the document.
LEMMA DefinitionStep ==
  ASSUME IInv, IInv', OneFileInv, CreateDef \/ CreateScan
  PROVE  Promise!Definition(IF CreateDef THEN "def" ELSE "scan", calls')
         /\ calls' \in 1..MaxCalls
<1> DEFINE kind == IF CreateDef THEN "def" ELSE "scan"
           node == Node(kind, calls', << >>)
<1>1. files = << >> /\ files' = << >> /\ block_flag /\ block_flag'
      /\ blk' = blk /\ b_list' = b_list
  BY DEF CreateDef, CreateScan, OneFileInv, IInv, CallerInv
<1>2. calls' \in 1..MaxCalls /\ calls' \in Nat
  BY CallNumber DEF IInv, CreateDef, CreateScan
<1>3. node \in Item
  BY <1>2, NodeTypes
<1>4. def_list' = Items
  <2>1. CreateDef => ~in_scan_flag /\ ~scan_flag
    BY <1>1 DEF CreateDef, IInv, CallerInv, FlagsAgree
  <2>2. CreateScan => ~in_def_flag /\ ~def_flag
    BY <1>1 DEF CreateScan, IInv, CallerInv, FlagsAgree
  <2> QED
    BY <2>1, <2>2 DEF CreateDef, CreateScan, Items, IInv, FlagsAgree, Inside
<1>5. Items' = Append(def_list', node) /\ Inside'
  <2>1. CASE CreateDef
    BY <2>1 DEF CreateDef, Items, OpenDef, Inside
  <2>2. CASE ~CreateDef
    <3>1. ~in_def_flag'
      BY <2>2 DEF CreateScan, IInv, CallerInv, FlagsAgree
    <3> QED
      BY <2>2, <3>1 DEF CreateScan, Items, OpenScan, Inside
  <2> QED
    BY <2>1, <2>2
<1>6. q_list' = q_list
  BY DEF CreateDef, CreateScan, IInv, FlagsAgree
<1> HIDE DEF node, kind
<1>7. DocBlocks' = Promise!InBlock(node)
  BY <1>1, <1>3, <1>4, <1>5, Seen, InBlockIs
<1>8. DocBlocks # << >> /\ Heading' = Heading
  BY <1>1, Seen DEF CreateDef, CreateScan
<1> QED
  BY <1>1, <1>2, <1>5, <1>6, <1>7, <1>8
  DEF Promise!Definition, Promise!Node, Node, DocBlocks, Heading, node, kind

\* What ends a definition or a scan ends it in the document.
LEMMA EndStep ==
  ASSUME IInv, IInv', OneFileInv, EndDef \/ EndScan
  PROVE  Promise!End
<1>1. files = << >> /\ files' = << >> /\ block_flag /\ block_flag'
      /\ blk' = blk /\ b_list' = b_list /\ version_list' = version_list
  BY DEF EndDef, EndScan, OneFileInv, IInv, CallerInv, FlagsAgree
<1>2. def_list' = Items /\ Inside
  BY DEF EndDef, EndScan, Items, Inside, IInv, CallerInv, FlagsAgree
<1>3. Items' = def_list' /\ ~Inside' /\ q_list' = q_list
  <2>1. CASE EndDef
    BY <2>1 DEF EndDef, Items, Inside, IInv, FlagsAgree
  <2>2. CASE EndScan
    BY <2>2 DEF EndScan, Items, Inside, IInv, FlagsAgree
  <2> QED
    BY <2>1, <2>2
<1>4. DocBlocks' = DocBlocks /\ Heading' = Heading
  BY <1>1, <1>2, <1>3, Seen
<1> QED
  BY <1>1, <1>2, <1>3, <1>4 DEF Promise!End, DocBlocks, Heading

\* A line put in qref_list while a def or a scan is open is put in it.
LEMMA LineStep ==
  ASSUME IInv, IInv', files = << >>, files' = << >>, block_flag, block_flag', Inside,
         NEW node \in Line, qref_list' = Append(qref_list, node),
         UNCHANGED <<blk, in_def_flag, in_scan_flag, def_str, scan_str, def_list,
                     b_list, version_list>>
  PROVE  /\ DocBlocks' = Promise!InDefinition(node)
         /\ DocBlocks # << >> /\ Heading' = Heading /\ Inside' = Inside
<1>1. CASE in_def_flag
  <2>1. def_str \in Nat /\ Items = Append(def_list, Node("def", def_str, qref_list))
    BY <1>1 DEF Items, OpenDef, IInv, TypeOK
  <2>2. Items' = Append(def_list, Node("def", def_str, Append(qref_list, node)))
    BY <1>1 DEF Items, OpenDef
  <2>3. DocBlocks' = Append(b_list, Node("block", blk, Items'))
    BY Seen
  <2> QED
    BY <2>1, <2>2, <2>3, InDefinitionIs, Seen DEF Inside
<1>2. CASE ~in_def_flag
  <2>1. scan_str \in Nat /\ Items = Append(def_list, Node("scan", scan_str, qref_list))
    BY <1>2 DEF Items, OpenScan, IInv, TypeOK, Inside
  <2>2. Items' = Append(def_list, Node("scan", scan_str, Append(qref_list, node)))
    BY <1>2 DEF Items, OpenScan, Inside
  <2>3. DocBlocks' = Append(b_list, Node("block", blk, Items'))
    BY Seen
  <2> QED
    BY <2>1, <2>2, <2>3, InDefinitionIs, Seen DEF Inside
<1> QED
  BY <1>1, <1>2

\* One that no def or scan takes is put in the block.
LEMMA OutsideStep ==
  ASSUME IInv, IInv', files = << >>, files' = << >>, block_flag, block_flag',
         ~Inside, ~Inside', NEW node \in Item, Items' = Append(Items, node),
         UNCHANGED <<blk, b_list, version_list>>
  PROVE  /\ DocBlocks' = Promise!InBlock(node)
         /\ DocBlocks # << >> /\ Heading' = Heading /\ Inside' = Inside
<1>1. Inside' = Inside
  BY DEF Inside
<1> QED
  BY <1>1, Seen, InBlockIs

\* A comment is a line of the document.
LEMMA CommentStep ==
  ASSUME IInv, IInv', OneFileInv, CreateComment
  PROVE  Promise!Comment(calls') /\ calls' \in 1..MaxCalls
<1> DEFINE node == Node("comment", calls + 1, << >>)
<1>1. /\ files = << >> /\ files' = << >> /\ q_list' = q_list
      /\ UNCHANGED <<blk, block_flag, in_def_flag, in_scan_flag, def_flag, scan_flag,
                     def_str, scan_str, b_list>>
  BY DEF CreateComment, OneFileInv
<1>2. calls' \in 1..MaxCalls /\ calls' = calls + 1 /\ calls + 1 \in Nat
  BY CallNumber DEF IInv, CreateComment
<1>3. node \in Line /\ node \in Item
  BY <1>2, NodeTypes
<1>4. node = Promise!Node("comment", calls', << >>)
  BY <1>2 DEF Promise!Node, Node
<1>5. CASE ~block_flag
  <2>1. version_list' = Append(version_list, node)
    BY <1>5 DEF CreateComment
  <2>2. DocBlocks = << >> /\ DocBlocks' = << >> /\ Inside' = Inside
    BY <1>1, <1>5
    DEF DocBlocks, Unwritten, ClosedByBlock, IInv, CallerInv, OneFileInv, Inside
  <2>3. Heading' = Append(Heading, node)
    BY <1>1, <2>1 DEF Heading, Unwritten
  <2> HIDE DEF node
  <2> QED
    BY <1>1, <1>2, <1>4, <2>2, <2>3 DEF Promise!Comment, DocBlocks, Heading
<1>6. CASE block_flag /\ Inside
  <2>1. /\ qref_list' = Append(qref_list, node)
        /\ UNCHANGED <<version_list, def_list>>
    BY <1>6 DEF CreateComment
  <2> HIDE DEF node
  <2>2. /\ DocBlocks' = Promise!InDefinition(node)
        /\ DocBlocks # << >> /\ Heading' = Heading /\ Inside' = Inside
    BY <1>1, <1>3, <1>6, <2>1, LineStep
  <2> QED
    BY <1>1, <1>2, <1>4, <1>6, <2>2 DEF Promise!Comment, DocBlocks, Heading
<1>7. CASE block_flag /\ ~Inside
  <2>1. Items' = Append(Items, node) /\ version_list' = version_list
    <3>1. CASE def_flag \/ scan_flag
      BY <1>1, <1>7, <3>1 DEF CreateComment, Items, Inside
    <3>2. CASE ~def_flag /\ ~scan_flag
      BY <1>1, <1>7, <3>2 DEF CreateComment, Items, Inside
    <3> QED
      BY <3>1, <3>2
  <2>2. ~Inside'
    BY <1>1, <1>7 DEF Inside
  <2> HIDE DEF node
  <2>3. /\ DocBlocks' = Promise!InBlock(node)
        /\ DocBlocks # << >> /\ Heading' = Heading /\ Inside' = Inside
    BY <1>1, <1>3, <1>7, <2>1, <2>2, OutsideStep
  <2> QED
    BY <1>1, <1>2, <1>4, <1>7, <2>3 DEF Promise!Comment, DocBlocks, Heading
<1> QED
  BY <1>5, <1>6, <1>7, <1>2

\* The lines of a def: references and statements made in one call.
LEMMA StatementStep ==
  ASSUME IInv, IInv', OneFileInv, CreateRef \/ CreateStatement
  PROVE  /\ Promise!Statement(IF CreateRef THEN "ref" ELSE "statement", calls')
         /\ calls' \in 1..MaxCalls
<1> DEFINE kind == IF CreateRef THEN "ref" ELSE "statement"
           node == Node(kind, calls', << >>)
<1>1. /\ files = << >> /\ files' = << >> /\ q_list' = q_list
      /\ UNCHANGED <<blk, block_flag, in_def_flag, in_scan_flag, def_flag, scan_flag,
                     def_str, scan_str, def_list, b_list, version_list>>
      /\ block_flag /\ block_flag'
  BY DEF CreateRef, CreateStatement, OneFileInv, flags, IInv, CallerInv
<1>2. calls' \in 1..MaxCalls /\ calls' \in Nat
  BY CallNumber DEF IInv, CreateRef, CreateStatement
<1>3. node \in Line /\ (~Inside => node \in Item)
  <2>1. ~Inside => CreateRef
    BY DEF CreateStatement
  <2> QED
    BY <1>2, <2>1, NodeTypes
<1>4. node = Promise!Node(kind, calls', << >>)
  BY DEF Promise!Node, Node
<1>5. qref_list' = Append(qref_list, node)
  BY DEF CreateRef, CreateStatement
<1>6. CASE Inside
  <2> HIDE DEF node
  <2>1. /\ DocBlocks' = Promise!InDefinition(node)
        /\ DocBlocks # << >> /\ Heading' = Heading /\ Inside' = Inside
    BY <1>1, <1>3, <1>5, <1>6, LineStep
  <2> HIDE DEF kind
  <2> QED
    BY <1>1, <1>2, <1>4, <1>6, <2>1 DEF Promise!Statement, DocBlocks, Heading, kind
<1>7. CASE ~Inside
  <2>1. ~def_flag /\ ~scan_flag
    BY <1>7 DEF CreateRef, CreateStatement, Inside, IInv, CallerInv, FlagsAgree
  <2>2. Items' = Append(Items, node) /\ ~Inside'
    BY <1>1, <1>5, <1>7, <2>1 DEF Items, Inside
  <2> HIDE DEF node
  <2>3. /\ DocBlocks' = Promise!InBlock(node)
        /\ DocBlocks # << >> /\ Heading' = Heading /\ Inside' = Inside
    BY <1>1, <1>3, <1>7, <2>2, OutsideStep
  <2> QED
    BY <1>1, <1>2, <1>4, <1>7, <2>3 DEF Promise!Statement, DocBlocks, Heading, kind
<1> QED
  BY <1>6, <1>7

\* A list statement is put when it is closed, with the elements given for it.
LEMMA ListStep ==
  ASSUME IInv, IInv', OneFileInv, CloseList
  PROVE  Promise!List(IF blk \in OfRefs THEN "ref" ELSE "list", string)
<1> DEFINE kind == IF blk \in OfRefs THEN "ref" ELSE "list"
           node == Node(kind, string, q_list)
<1>1. /\ files = << >> /\ files' = << >> /\ q_list' = << >>
      /\ UNCHANGED <<blk, block_flag, in_def_flag, in_scan_flag, def_str, scan_str,
                     def_list, b_list, version_list>>
      /\ block_flag /\ block_flag' /\ Inside
  BY DEF CloseList, OneFileInv, flags, IInv, CallerInv
<1>2. node \in Line
  BY NodeTypes DEF IInv, TypeOK
<1>3. node = Promise!Node(kind, string, q_list)
  BY DEF Promise!Node, Node
<1>4. qref_list' = Append(qref_list, node)
  BY DEF CloseList
<1> HIDE DEF node
<1>5. /\ DocBlocks' = Promise!InDefinition(node)
      /\ DocBlocks # << >> /\ Heading' = Heading /\ Inside' = Inside
  BY <1>1, <1>2, <1>4, LineStep
<1> QED
  BY <1>1, <1>3, <1>5 DEF Promise!List, DocBlocks, Heading

\* The file holds the document, and nothing of it is left.
LEMMA FileStep ==
  ASSUME MaxFiles = 1, IInv, IInv', OneFileInv, OneFileInv', CreateVex
  PROVE  Promise!File
<1>1. files = << >> /\ block_flag /\ begun # {} /\ version_list' = version_list
  BY DEF CreateVex, OneFileInv, IInv, CallerInv
<1>2. ClosedByVex = DocBlocks /\ Heading = version_list /\ DocBlocks # << >>
  <2>1. ClosedByVex = ClosedByBlock
    BY <1>1, Closing
  <2>2. b_list \in Seq(Block) /\ Node("block", blk, Items) \in Block
    BY <1>1, ItemsFit, NodeTypes DEF IInv, TypeOK, CallerInv
  <2> QED
    BY <1>1, <2>1, <2>2, ClosedNow, Appending DEF DocBlocks, Heading, Unwritten
<1>3. files' = Append(files, [heading |-> version_list, blocks |-> ClosedByVex])
  <2>1. ~died'
    BY DEF IInv, LinesInv, AlwaysPrinted
  <2> QED
    BY <2>1 DEF CreateVex
<1>4. files' # << >>
  BY <1>1, <1>3
<1>5. DocBlocks' = << >> /\ Heading' = << >>
  BY <1>4 DEF DocBlocks, Heading, Unwritten
<1>6. q_list' = << >> /\ Inside' = FALSE
  BY DEF CreateVex, ResetFlags, Inside
<1> QED
  BY <1>2, <1>3, <1>5, <1>6 DEF Promise!File, DocBlocks, Heading

DocVars == <<Heading, DocBlocks, Inside, q_list, files>>

\* The session begins with no document.
LEMMA InitDocument == Init => Promise!Init
  BY DEF Init, Promise!Init, Unwritten, ClosedByBlock, Inside

\* Every call is a step of the document, or none.
LEMMA NextDocument ==
  ASSUME MaxFiles = 1, IInv, IInv', OneFileInv, OneFileInv', [Next]_vars
  PROVE  [Promise!Next]_DocVars
<1>1. CASE UNCHANGED vars
  BY <1>1
  DEF vars, flags, lists, caller, DocVars, DocBlocks, Heading, Unwritten, ClosedByBlock,
      ClosedBlock, OpenDef, OpenScan, Inside
<1>2. CASE CreateVersion
  BY <1>2, VersionStep DEF Promise!Next
<1>3. CASE \E b \in Blocks : CreateBlock(b)
  BY <1>3, BlockStep DEF Promise!Next
<1>4. CASE CreateDef \/ CreateScan
  BY <1>4, DefinitionStep DEF Promise!Next
<1>5. CASE EndDef \/ EndScan
  BY <1>5, EndStep DEF Promise!Next
<1>6. CASE CreateComment
  BY <1>6, CommentStep DEF Promise!Next
<1>7. CASE CreateRef \/ CreateStatement
  BY <1>7, StatementStep DEF Promise!Next
<1>8. CASE BeginList
  BY <1>8
  DEF BeginList, flags, DocVars, DocBlocks, Heading, Unwritten, ClosedByBlock,
      ClosedBlock, OpenDef, OpenScan, Inside
<1>9. CASE AddElement
  <2>1. calls' \in 1..MaxCalls
    BY <1>9, CallNumber DEF AddElement, IInv
  <2>2. /\ q_list' = Append(q_list, calls')
        /\ UNCHANGED <<Heading, DocBlocks, Inside, files>>
    BY <1>9
    DEF AddElement, flags, DocBlocks, Heading, Unwritten, ClosedByBlock, ClosedBlock,
        OpenDef, OpenScan, Inside
  <2>3. Promise!Element(calls')
    BY <2>2 DEF Promise!Element, DocBlocks, Heading
  <2> QED
    BY <2>1, <2>3 DEF Promise!Next
<1>10. CASE CloseList
  <2>1. string \in 1..MaxCalls
    BY <1>10 DEF CloseList, IInv, CallerInv
  <2> QED
    BY <1>10, <2>1, ListStep DEF Promise!Next
<1>11. CASE CreateVex
  BY <1>11, FileStep DEF Promise!Next
<1>12. CASE EndNoDef
  <2>1. ~in_def_flag /\ ~in_scan_flag /\ ~qref_flag /\ ~qref_flag' /\ qref_list' = qref_list
    BY <1>12 DEF EndNoDef, Inside, IInv, FlagsAgree
  <2>2. ClosedByBlock' = ClosedByBlock
    BY <1>12, <2>1 DEF EndNoDef, ClosedByBlock, ClosedBlock
  <2> QED
    BY <1>12, <2>1, <2>2 DEF EndNoDef, DocVars, DocBlocks, Heading, Unwritten, Inside
<1> QED
  BY <1>1, <1>2, <1>3, <1>4, <1>5, <1>6, <1>7, <1>8, <1>9, <1>10, <1>11, <1>12 DEF Next

\* A session of one file writes the document its calls describe: a block for
\* every create_block, a def for every create_def whether it was ended or not,
\* every line in its place, and at create_vex all of it and nothing else.
THEOREM WriterWritesDocument == MaxFiles = 1 /\ Spec => FilesAreDocuments
<1> SUFFICES ASSUME MaxFiles = 1 PROVE Spec => FilesAreDocuments
  OBVIOUS
<1>1. Init => IInv /\ OneFileInv /\ Promise!Init
  BY InitInv, InitDocument DEF Init, OneFileInv
<1>2. IInv /\ OneFileInv /\ [Next]_vars => IInv' /\ OneFileInv'
  BY NextInv, OneFileNext
<1>3. IInv /\ IInv' /\ OneFileInv /\ OneFileInv' /\ [Next]_vars => [Promise!Next]_DocVars
  BY NextDocument
<1> QED
  BY <1>1, <1>2, <1>3, PTL
  DEF Spec, FilesAreDocuments, Promise!Spec, Promise!doc, DocVars, DocBlocks, Heading

-----------------------------------------------------------------------------
(***************************************************************************)
(* Proofs about VexStatement, for lists of any length and any arguments    *)
(* left out: a statement that can be read is read as it was made.  The     *)
(* argument: where the create function fills one member for each column    *)
(* of vex_field and the forms of the grammar give field i to member i, the *)
(* entry the reader makes of a field shows the same (MadeAlike), so the    *)
(* structs mean the same (RoundTrip); and every statement but one is of    *)
(* that kind (the lemmas ...Agree).  The fan-out, whose pair of bit        *)
(* streams is one member, has a lemma of its own (FanoutKept).             *)
(***************************************************************************)

\* The lists joined one after the other grow by one at a time.
LEMMA FlattenGrows ==
    ASSUME NEW S, NEW seqs \in Seq(Seq(S))
    PROVE  \E f \in [0 .. Len(seqs) -> Seq(S)] :
              /\ f[0] = << >> /\ FlattenSeq(seqs) = f[Len(seqs)]
              /\ \A i \in 1 .. Len(seqs) : f[i] = f[i - 1] \o seqs[i]
<1> DEFINE n == Len(seqs)
<1>1. n \in Nat /\ \A i \in 1 .. n : seqs[i] \in Seq(S)
    BY ElementOfSeq
<1>2. CASE seqs = << >>
  <2> DEFINE g == [i \in 0 .. 0 |-> << >>]
  <2>1. n = 0 /\ FlattenSeq(seqs) = << >>
    BY <1>2, FlattenType
  <2>2. g \in [0 .. n -> Seq(S)] /\ g[0] = << >> /\ 1 .. n = {}
    BY <2>1, EmptySeq
  <2> HIDE DEF g
  <2> QED
    BY <2>1, <2>2
<1>3. CASE seqs # << >>
  <2>1. n > 0
    BY <1>1, <1>3, EmptySeq
  <2>2. PICK h : Joins(h, n, seqs, S) /\ FlattenSeq(seqs) = h[n]
    BY <2>1, FlattenJoins
  <2> DEFINE g == [i \in 0 .. n |-> IF i = 0 THEN << >> ELSE h[i]]
  <2>3. \A i \in 1 .. n : h[i] \in Seq(S)
    BY <2>2 DEF Joins
  <2>4. g \in [0 .. n -> Seq(S)] /\ g[0] = << >> /\ FlattenSeq(seqs) = g[n]
    BY <1>1, <2>1, <2>2, <2>3, EmptySeq
  <2>5. ASSUME NEW i \in 1 .. n
        PROVE  g[i] = g[i - 1] \o seqs[i]
    <3>1. CASE i = 1
      <4>1. g[i] = seqs[i] /\ g[i - 1] = << >> /\ seqs[i] \in Seq(S)
        BY <1>1, <2>1, <2>2, <3>1 DEF Joins
      <4> HIDE DEF g
      <4> QED
        BY <4>1, ConcatEmptySeq
    <3>2. CASE i # 1
      <4>1. i \in 2 .. n /\ i - 1 \in 1 .. n /\ g[i] = h[i] /\ g[i - 1] = h[i - 1]
        BY <1>1, <3>2
      <4> QED
        BY <2>2, <4>1 DEF Joins
    <3> QED
      BY <3>1, <3>2
  <2> HIDE DEF g
  <2> QED
    BY <2>4, <2>5
<1> QED
    BY <1>2, <1>3

\* Of empty lists nothing comes.
LEMMA FlattenNone ==
    ASSUME NEW S, NEW seqs \in Seq(Seq(S)), \A i \in 1 .. Len(seqs) : seqs[i] = << >>
    PROVE  FlattenSeq(seqs) = << >>
<1>1. Len(seqs) \in Nat /\ Len(seqs) + 1 \in 1 .. Len(seqs) + 1
    OBVIOUS
<1>2. FlattenSeq(seqs) = FlattenSeq(SubSeq(seqs, Len(seqs) + 1, Len(seqs)))
    BY <1>1, FlattenFrom
<1>3. SubSeq(seqs, Len(seqs) + 1, Len(seqs)) = << >>
    BY <1>1, SubSeqEmpty
<1> QED
    BY <1>2, <1>3, EmptySeq, FlattenType

\* Of lists that are empty but for one comes that one.
LEMMA FlattenOne ==
    ASSUME NEW S, NEW seqs \in Seq(Seq(S)), NEW i \in 1 .. Len(seqs),
           \A j \in 1 .. Len(seqs) : j # i => seqs[j] = << >>
    PROVE  FlattenSeq(seqs) = seqs[i]
<1> DEFINE n == Len(seqs)
           rest == SubSeq(seqs, i + 1, n)
<1>1. n \in Nat /\ \A j \in i + 1 .. n : seqs[j] \in Seq(S)
    BY ElementOfSeq
<1>2. /\ rest \in Seq(Seq(S)) /\ Len(rest) = IF i + 1 <= n THEN n - (i + 1) + 1 ELSE 0
      /\ \A j \in 1 .. n - (i + 1) + 1 : rest[j] = seqs[i + 1 + j - 1]
    BY <1>1, SubSeqProperties
<1>3. ASSUME NEW j \in 1 .. Len(rest)
      PROVE  rest[j] = << >>
  <2>1. j \in 1 .. n - (i + 1) + 1 /\ i + 1 + j - 1 \in 1 .. n /\ i + 1 + j - 1 # i
    BY <1>1, <1>2
  <2> QED
    BY <1>2, <2>1
<1> HIDE DEF rest
<1>4. FlattenSeq(rest) = << >>
    BY <1>2, <1>3, FlattenNone
<1>5. FlattenSeq(seqs) = seqs[i] \o FlattenSeq(rest)
  <2>1. \A j \in 1 .. i - 1 : seqs[j] = << >>
    BY <1>1
  <2> QED
    BY <2>1, FlattenAt DEF rest
<1>6. seqs[i] \in Seq(S)
    BY ElementOfSeq
<1> QED
    BY <1>4, <1>5, <1>6, ConcatEmptySeq

\* Of lists of one element, after m empty ones, come the elements.
LEMMA FlattenSingles ==
    ASSUME NEW S, NEW seqs \in Seq(Seq(S)), NEW m \in 0 .. Len(seqs),
           \A i \in 1 .. m : seqs[i] = << >>,
           \A i \in m + 1 .. Len(seqs) : Len(seqs[i]) = 1
    PROVE  /\ Len(FlattenSeq(seqs)) = Len(seqs) - m
           /\ \A j \in 1 .. Len(seqs) - m : FlattenSeq(seqs)[j] = seqs[m + j][1]
<1> DEFINE n == Len(seqs)
<1>1. n \in Nat /\ m \in Nat /\ \A i \in 1 .. n : seqs[i] \in Seq(S)
    BY ElementOfSeq
<1>2. PICK f \in [0 .. n -> Seq(S)] :
            /\ f[0] = << >> /\ FlattenSeq(seqs) = f[n]
            /\ \A i \in 1 .. n : f[i] = f[i - 1] \o seqs[i]
    BY FlattenGrows
<1> DEFINE Good(i) == /\ Len(f[i]) = IF i <= m THEN 0 ELSE i - m
                      /\ \A j \in 1 .. i - m : f[i][j] = seqs[m + j][1]
           Bad == {i \in 0 .. n : ~Good(i)}
<1>3. ASSUME Bad # {}
      PROVE  FALSE
  <2>1. PICK i \in Bad : \A j \in Bad : i <= j
    <3>1. Bad \in SUBSET Nat
      BY <1>1
    <3> QED
      BY <1>3, <3>1, HasLeast
  <2>2. i # 0
    <3>1. Good(0)
      BY <1>1, <1>2, EmptySeq
    <3> QED
      BY <2>1, <3>1
  <2>3. i - 1 \in 0 .. n /\ i \in 1 .. n /\ i - 1 \notin Bad
    <3>1. i \in 0 .. n
      BY <2>1
    <3> HIDE DEF Bad
    <3> QED
      BY <1>1, <2>1, <2>2, <3>1
  <2>4. Good(i - 1) /\ f[i - 1] \in Seq(S) /\ seqs[i] \in Seq(S)
    BY <1>1, <1>2, <2>3
  <2>5. f[i] = f[i - 1] \o seqs[i]
    BY <1>2, <2>3
  <2>6. /\ Len(f[i]) = Len(f[i - 1]) + Len(seqs[i])
        /\ \A k \in 1 .. Len(f[i - 1]) + Len(seqs[i]) :
              f[i][k] = IF k <= Len(f[i - 1]) THEN f[i - 1][k]
                        ELSE seqs[i][k - Len(f[i - 1])]
    <3> DEFINE a == f[i - 1]
               b == seqs[i]
               c == f[i]
    <3>1. a \in Seq(S) /\ b \in Seq(S) /\ c = a \o b
      BY <2>4, <2>5
    <3> HIDE DEF a, b, c
    <3>2. /\ Len(c) = Len(a) + Len(b)
          /\ \A k \in 1 .. Len(a) + Len(b) :
                c[k] = IF k <= Len(a) THEN a[k] ELSE b[k - Len(a)]
      BY <3>1, ConcatProperties
    <3> QED
      BY <3>2 DEF a, b, c
  <2>7. CASE i <= m
    <3>1. Len(seqs[i]) = 0 /\ Len(f[i - 1]) = 0
      BY <1>1, <2>3, <2>4, <2>7, EmptySeq
    <3>2. Good(i)
      BY <1>1, <2>3, <2>6, <2>7, <3>1
    <3> QED
      BY <2>1, <3>2
  <2>8. CASE i > m
    <3>1. Len(seqs[i]) = 1 /\ Len(f[i - 1]) = i - 1 - m
      BY <1>1, <2>3, <2>4, <2>8
    <3>2. Len(f[i]) = i - m
      BY <1>1, <2>3, <2>6, <3>1
    <3>3. ASSUME NEW j \in 1 .. i - m
          PROVE  f[i][j] = seqs[m + j][1]
      <4>1. CASE j <= i - 1 - m
        <5>1. j \in 1 .. (i - 1) - m /\ j \in 1 .. (i - 1 - m) + 1 /\ j <= i - 1 - m
          BY <1>1, <2>3, <4>1
        <5>2. f[i][j] = f[i - 1][j]
          BY <2>6, <3>1, <5>1
        <5> QED
          BY <2>4, <5>1, <5>2
      <4>2. CASE j = i - m
        <5>1. /\ j \in 1 .. (i - 1 - m) + 1 /\ ~(j <= i - 1 - m) /\ j - (i - 1 - m) = 1
              /\ m + j = i
          BY <1>1, <2>3, <4>2
        <5>2. f[i][j] = seqs[i][j - Len(f[i - 1])] /\ j - Len(f[i - 1]) = 1
          BY <2>6, <3>1, <5>1
        <5> QED
          BY <5>1, <5>2
      <4> QED
        BY <1>1, <2>3, <4>1, <4>2
    <3>4. Good(i)
      BY <2>3, <2>8, <3>2, <3>3
    <3> QED
      BY <2>1, <3>4
  <2> QED
    BY <1>1, <2>3, <2>7, <2>8
<1>4. Good(n)
  <2>1. n \in 0 .. n
    BY <1>1
  <2>2. n \notin Bad
    <3> HIDE DEF Bad
    <3> QED
      BY <1>3
  <2> QED
    BY <2>1, <2>2
<1> HIDE DEF n
<1> QED
    BY <1>1, <1>2, <1>4 DEF n

(* An entry with texts of T. *)
Entry(T) == {e \in Seq(T) : Len(e) \in {1, 2}}

(* What the column shows of its slot. *)
ShownAt(kind, slot) == IF 1 <= Len(slot) THEN Shown(kind, slot[1]) ELSE Shown(kind, <<0>>)

(* Column i shows slot i, and asks only for slots up to its own. *)
Ordered(get) ==
    /\ Len(get.columns) \in Nat /\ DOMAIN get.columns = 1 .. Len(get.columns)
    /\ \A i \in 1 .. Len(get.columns) :
         /\ get.columns[i].slot = i /\ get.columns[i].at = 1
         /\ \A need \in get.columns[i].needs :
              need[1] \in 1 .. i /\ need[2] = 1 /\ get.rest = "none"

Width(get) == Len(get.columns) + IF get.rest = "none" THEN 0 ELSE 1

(* A struct with a slot for each column and one for the list. *)
StructOf(s, get, T) ==
    /\ s \in Seq(Seq(Entry(T))) /\ Len(s) = Width(get)
    /\ \A i \in 1 .. Len(get.columns) : Len(s[i]) <= 1

Stops(get, s) == {i \in DOMAIN get.columns : Ends(get.columns[i], s)}

RestKind(get, j) == IF get.rest = "bits" THEN BitKind(j) ELSE get.rest

(* F are the fields of s. *)
AreFields(F, get, s, p) ==
    LET n == Len(get.columns)
    IN  /\ DOMAIN F = 1 .. p
        /\ \A i \in 1 .. p : i <= n => F[i] = ShownAt(get.columns[i].kind, s[i])
        /\ \A i \in 1 .. n : i <= p => i \notin Stops(get, s)
        /\ p < n => p + 1 \in Stops(get, s)
        /\ get.rest = "none" => p <= n
        /\ get.rest # "none" =>
             /\ p = n + Len(s[n + 1])
             /\ \A j \in 1 .. p - n : F[n + j] = Shown(RestKind(get, j), s[n + 1][j])

\* The fields of a struct: one for each column, up to the first that ends the
\* statement, and one for each element of the list.
LEMMA FieldsOf ==
    ASSUME NEW stmt, Ordered(Get[stmt]), NEW T, NEW s, StructOf(s, Get[stmt], T)
    PROVE  \E p \in Nat : AreFields(Fields(stmt, s), Get[stmt], s, p)
<1> DEFINE get   == Get[stmt]
           n     == Len(get.columns)
           F     == Fields(stmt, s)
           stops == Stops(get, s)
           shown == [i \in DOMAIN get.columns |-> ColumnField(get.columns[i], s)]
           list  == s[Len(s)]
           rest  == RestFields(get.rest, list)
<1>1. /\ n \in Nat /\ DOMAIN get.columns = 1 .. n
      /\ \A i \in 1 .. n : get.columns[i].slot = i /\ get.columns[i].at = 1
      /\ \A i \in 1 .. n : \A need \in get.columns[i].needs : get.rest = "none"
    BY DEF Ordered
<1>2. /\ Len(s) = Width(get) /\ Len(s) \in Nat /\ s \in Seq(Seq(Entry(T)))
      /\ \A i \in 1 .. Len(s) : s[i] \in Seq(Entry(T))
    BY ElementOfSeq DEF StructOf
<1>3. \A i \in 1 .. n : shown[i] = ShownAt(get.columns[i].kind, s[i])
    BY <1>1 DEF ColumnField, ShownAt
<1>4. stops \subseteq 1 .. n /\ (get.rest # "none" => stops = {})
    BY <1>1 DEF Stops, Ends
<1>5. F = CASE stops # {} -> SubSeq(shown, 1, Min(stops) - 1)
            [] stops = {} /\ get.rest = "none" -> shown
            [] OTHER -> shown \o rest
    BY DEF Fields, Stops
<1> DEFINE V == {shown[i] : i \in 1 .. n}
<1>6. shown \in Seq(V) /\ Len(shown) = n /\ DOMAIN shown = 1 .. n
  <2>1. DOMAIN shown = 1 .. n /\ \A i \in 1 .. n : shown[i] \in V
    BY <1>1
  <2>2. shown = [i \in 1 .. n |-> shown[i]]
    BY <2>1
  <2> HIDE DEF shown, V, n
  <2>3. shown \in [1 .. n -> V] /\ n \in Nat
    BY <1>1, <2>1, <2>2
  <2> QED
    BY <2>1, <2>3
<1> HIDE DEF F, shown, n, get, stops, V, rest
<1>7. CASE stops # {}
  <2>1. PICK m \in stops : \A k \in stops : m <= k
    <3>1. stops \in SUBSET Nat
      BY <1>1, <1>4
    <3> QED
      BY <1>7, <3>1, HasLeast
  <2>2. Min(stops) = m
    <3>1. stops \in SUBSET Nat
      BY <1>1, <1>4
    <3> QED
      BY <2>1, <3>1, MinIs
  <2>3. m \in 1 .. n /\ m - 1 \in Nat /\ get.rest = "none"
    BY <1>1, <1>4, <1>7, <2>1
  <2>4. F = SubSeq(shown, 1, m - 1)
    BY <1>5, <1>7, <2>2
  <2>5. /\ F \in Seq(V) /\ Len(F) = m - 1 /\ DOMAIN F = 1 .. m - 1
        /\ \A i \in 1 .. m - 1 : F[i] = shown[i]
    <3>1. \A i \in 1 .. m - 1 : shown[i] \in V
      BY <1>1, <1>6, <2>3
    <3>2. /\ SubSeq(shown, 1, m - 1) \in Seq(V)
          /\ Len(SubSeq(shown, 1, m - 1)) = IF 1 <= m - 1 THEN m - 1 - 1 + 1 ELSE 0
          /\ \A i \in 1 .. m - 1 - 1 + 1 : SubSeq(shown, 1, m - 1)[i] = shown[1 + i - 1]
      BY <2>3, <3>1, SubSeqProperties
    <3>3. F \in Seq(V) /\ Len(F) = m - 1
      BY <2>3, <2>4, <3>2
    <3>4. \A i \in 1 .. m - 1 : i \in 1 .. m - 1 - 1 + 1 /\ 1 + i - 1 = i
      BY <2>3
    <3>5. \A i \in 1 .. m - 1 : F[i] = shown[i]
      BY <2>4, <3>2, <3>4
    <3> QED
      BY <3>3, <3>5, LenProperties
  <2>6. \A i \in 1 .. n : i <= m - 1 => i \notin stops
    BY <1>1, <2>1, <2>3
  <2>7. (m - 1) + 1 = m /\ m - 1 <= n
    BY <1>1, <2>3
  <2>8. \A i \in 1 .. m - 1 : i \in 1 .. n
    BY <1>1, <2>3
  <2> QED
    BY <1>3, <2>1, <2>3, <2>5, <2>6, <2>7, <2>8 DEF F, n, get, stops, AreFields
<1>8. CASE stops = {} /\ get.rest = "none"
  <2>1. F = shown
    BY <1>5, <1>8
  <2>2. ~(n < n) /\ n <= n
    BY <1>1
  <2> QED
    BY <1>1, <1>3, <1>6, <1>8, <2>1, <2>2 DEF F, n, get, stops, AreFields
<1>9. CASE stops = {} /\ get.rest # "none"
  <2>1. Len(s) = n + 1 /\ list = s[n + 1] /\ list \in Seq(Entry(T))
    BY <1>1, <1>2, <1>9 DEF Width, n
  <2>2. F = shown \o rest
    BY <1>5, <1>9
  <2> DEFINE k == Len(list)
             U == V \cup {rest[j] : j \in 1 .. k}
  <2>3. /\ k \in Nat /\ DOMAIN rest = 1 .. k
        /\ \A j \in 1 .. k : rest[j] = Shown(RestKind(get, j), list[j])
    BY <2>1 DEF rest, RestFields, RestKind
  <2>4. rest = [j \in 1 .. k |-> rest[j]]
    BY <2>3 DEF rest, RestFields
  <2> HIDE DEF k
  <2>5. rest \in Seq(U) /\ Len(rest) = k
    <3>1. rest \in [1 .. k -> U]
      BY <2>3, <2>4
    <3> HIDE DEF U
    <3> QED
      BY <2>3, <3>1
  <2>6. shown \in Seq(U)
    BY <1>6, SeqMonotonic
  <2> HIDE DEF U
  <2>7. /\ F \in Seq(U) /\ Len(F) = n + k
        /\ \A i \in 1 .. n + k : F[i] = IF i <= n THEN shown[i] ELSE rest[i - n]
    BY <1>6, <2>2, <2>5, <2>6, ConcatProperties
  <2>8. DOMAIN F = 1 .. n + k /\ n + k \in Nat
    BY <1>1, <2>3, <2>7, LenProperties
  <2>9. ASSUME NEW j \in 1 .. (n + k) - n
        PROVE  F[n + j] = Shown(RestKind(get, j), s[n + 1][j])
    <3>1. n + j \in 1 .. n + k /\ ~(n + j <= n) /\ (n + j) - n = j /\ j \in 1 .. k
      BY <1>1, <2>3
    <3> QED
      BY <2>1, <2>3, <2>7, <3>1
  <2>10. \A i \in 1 .. n + k : i <= n => F[i] = shown[i] /\ i \in 1 .. n
    BY <1>1, <2>7
  <2>11. ~(n + k < n)
    BY <1>1, <2>3
  <2>12. n + k = n + Len(s[n + 1])
    BY <2>1 DEF k
  <2> QED
    BY <1>3, <1>9, <2>8, <2>9, <2>10, <2>11, <2>12 DEF F, n, get, stops, AreFields
<1> QED
    BY <1>7, <1>8, <1>9

(* Fields that say the same. *)
Alike(f, g) == f.text = g.text /\ (f.text # 0 => f.units = g.units)

\* An entry has one text or two.
LEMMA EntryShapes ==
    ASSUME NEW T, NEW e \in Entry(T)
    PROVE  /\ e[1] \in T
           /\ \/ Len(e) = 1 /\ e = <<e[1]>> /\ Units(e) = 0
              \/ Len(e) = 2 /\ e = <<e[1], e[2]>> /\ e[2] \in T /\ Units(e) = e[2]
<1>1. e \in Seq(T) /\ Len(e) \in {1, 2}
    BY DEF Entry
<1>2. CASE Len(e) = 1
  <2>1. e[1] \in T
    BY <1>1, <1>2, ElementOfSeq
  <2> DEFINE d == <<e[1]>>
  <2>2. d \in Seq(T) /\ Len(d) = 1 /\ d[1] = e[1]
    BY <2>1
  <2>3. e = d
    BY <1>1, <1>2, <2>2, SeqEqual
  <2> QED
    BY <1>2, <2>1, <2>3 DEF Units
<1>3. CASE Len(e) = 2
  <2>1. e[1] \in T /\ e[2] \in T
    BY <1>1, <1>3, ElementOfSeq
  <2> DEFINE d == <<e[1], e[2]>>
  <2>2. d \in Seq(T) /\ Len(d) = 2 /\ d[1] = e[1] /\ d[2] = e[2]
    BY <2>1
  <2> HIDE DEF d
  <2>3. e = d
    BY <1>1, <1>3, <2>2, SeqEqual
  <2> QED
    BY <1>3, <2>1, <2>3 DEF Units, d
<1> QED
    BY <1>1, <1>2, <1>3

\* An entry shown in a field.
LEMMA ShownFields ==
    ASSUME NEW T, 0 \in T, NEW e \in Entry(T), NEW kind
    PROVE  /\ Shown(kind, e).text = e[1] /\ Shown(kind, e).text \in T
           /\ Shown(kind, e).units = (IF kind = "bare" THEN 0 ELSE Units(e))
           /\ Shown(kind, e).units \in T
<1>1. e[1] \in T /\ Units(e) \in T
    BY EntryShapes
<1>2. CASE kind = "bare"
    BY <1>1, <1>2 DEF Shown, Field
<1>3. CASE kind = "name"
    BY <1>1, <1>3 DEF Shown, Field
<1>4. CASE kind \notin {"bare", "name"}
    BY <1>1, <1>4 DEF Shown, Field
<1> QED
    BY <1>2, <1>3, <1>4

\* Without blanks a field is printed as no token, one or two.
LEMMA PlainTokens ==
    ASSUME NEW stmt, NEW f
    PROVE  /\ f.text = 0 => Tokens(stmt, f, {}) = << >>
           /\ f.text # 0 /\ f.units = 0 =>
                Tokens(stmt, f, {}) = <<Token(Class(stmt, f.kind), f.text)>>
           /\ f.text # 0 /\ f.units # 0 =>
                Tokens(stmt, f, {}) = <<Token(Class(stmt, f.kind), f.text),
                                        Token("name", f.units)>>
<1>1. ASSUME NEW a, NEW b
      PROVE  <<a>> \o <<b>> = <<a, b>>
  <2> DEFINE S == {a, b}
  <2>1. <<a>> \in Seq(S) /\ <<b>> \in Seq(S) /\ <<a, b>> \in Seq(S)
    OBVIOUS
  <2> DEFINE ab == <<a>> \o <<b>>
             c  == <<a, b>>
  <2>2. ab \in Seq(S) /\ Len(ab) = 2 /\ ab[1] = a /\ ab[2] = b
    BY <2>1, ConcatProperties
  <2>3. c \in Seq(S) /\ Len(c) = 2 /\ c[1] = a /\ c[2] = b
    BY <2>1
  <2> HIDE DEF S, ab, c
  <2>4. ab = c
    BY <2>2, <2>3, SeqEqual
  <2> QED
    BY <2>4 DEF ab, c
<1> QED
    BY <1>1 DEF Tokens, Words

\* What the reader makes of a field is an entry that shows the same.
LEMMA MadeAlike ==
    ASSUME NEW T, 0 \in T, NEW e \in Entry(T), NEW stmt, NEW kind, NEW letter
    PROVE  LET f    == Shown(kind, e)
               slot == Made(letter, Tokens(stmt, f, {}))
           IN  /\ slot \in Seq(Entry(T)) /\ Len(slot) <= 1
               /\ f.text # 0 => Len(slot) = 1
               /\ f.text # 0 <=> Tokens(stmt, f, {}) # << >>
               /\ f.text = 0 /\ letter # "d" => slot = << >>
               /\ 1 <= Len(slot) => Alike(f, Shown(kind, slot[1]))
               /\ Alike(f, ShownAt(kind, slot))
<1> DEFINE f    == Shown(kind, e)
           tok  == Tokens(stmt, f, {})
           slot == Made(letter, tok)
           t    == e[1]
           u    == IF kind = "bare" THEN 0 ELSE Units(e)
<1>1. f.text = t /\ f.units = u /\ t \in T /\ u \in T
    BY ShownFields
<1> HIDE DEF t, u, f
<1>2. ASSUME NEW d, d \in {<<t>>, <<t, 0>>, <<t, u>>}, d = <<t>> \/ d = <<t, 0>> => u = 0
      PROVE  d \in Entry(T) /\ Alike(f, Shown(kind, d))
  <2>1. d \in Seq(T) /\ Len(d) \in {1, 2}
    <3>1. \A a, b \in T : /\ <<a>> \in Seq(T) /\ Len(<<a>>) = 1
                         /\ <<a, b>> \in Seq(T) /\ Len(<<a, b>>) = 2
      OBVIOUS
    <3> QED
      BY <1>1, <1>2, <3>1
  <2>2. d \in Entry(T)
    BY <2>1 DEF Entry
  <2>3. d[1] = t /\ (kind # "bare" => Units(d) = u)
    <3>1. CASE d = <<t>>
      BY <1>2, <3>1 DEF Units
    <3>2. CASE d = <<t, 0>>
      BY <1>2, <3>2 DEF Units
    <3>3. CASE d = <<t, u>>
      BY <3>3 DEF Units
    <3> QED
      BY <1>2, <3>1, <3>2, <3>3
  <2>4. kind = "bare" => u = 0
    BY DEF u
  <2>5. Shown(kind, d).text = t /\ Shown(kind, d).units = u
    BY <2>2, <2>3, <2>4, ShownFields
  <2> QED
    BY <1>1, <2>2, <2>5 DEF Alike
<1>3. ASSUME NEW d, d \in Entry(T)
      PROVE  <<d>> \in Seq(Entry(T)) /\ Len(<<d>>) = 1 /\ <<d>>[1] = d /\ <<d>> # << >>
    BY <1>3
<1>4. CASE t = 0
  <2>1. tok = << >>
    BY <1>1, <1>4, PlainTokens
  <2>2. slot = IF letter = "d" THEN << <<0, 0>> >> ELSE << >>
    BY <2>1 DEF Made, Null
  <2>3. CASE letter = "d"
    <3>1. <<0, 0>> \in Seq(T) /\ Len(<<0, 0>>) = 2 /\ <<0, 0>>[1] = 0
      OBVIOUS
    <3>2. <<0, 0>> \in Entry(T)
      BY <3>1 DEF Entry
    <3>3. Alike(f, Shown(kind, <<0, 0>>))
      BY <1>1, <1>4, <3>1, <3>2, ShownFields DEF Alike
    <3>4. slot = << <<0, 0>> >>
      BY <2>2, <2>3
    <3>5. slot \in Seq(Entry(T)) /\ Len(slot) = 1 /\ slot[1] = <<0, 0>>
      BY <1>3, <3>2, <3>4
    <3> HIDE DEF slot, tok
    <3>6. /\ slot \in Seq(Entry(T)) /\ Len(slot) <= 1
          /\ f.text # 0 => Len(slot) = 1
          /\ f.text # 0 <=> tok # << >>
          /\ f.text = 0 /\ letter # "d" => slot = << >>
          /\ 1 <= Len(slot) => Alike(f, Shown(kind, slot[1]))
          /\ Alike(f, ShownAt(kind, slot))
      BY <1>1, <1>4, <2>1, <2>3, <3>3, <3>5 DEF ShownAt
    <3> QED
      BY <3>6 DEF f, slot, tok
  <2>4. CASE letter # "d"
    <3>1. slot = << >>
      BY <2>2, <2>4
    <3>2. <<0>> \in Entry(T)
      <4>1. <<0>> \in Seq(T) /\ Len(<<0>>) = 1
        OBVIOUS
      <4> QED
        BY <4>1 DEF Entry
    <3>3. Shown(kind, <<0>>).text = 0
      BY <3>2, ShownFields
    <3>4. slot \in Seq(Entry(T)) /\ Len(slot) = 0
      BY <3>1, EmptySeq
    <3> HIDE DEF slot
    <3> QED
      BY <1>1, <1>4, <2>1, <2>4, <3>1, <3>3, <3>4 DEF ShownAt, Alike, f, slot, tok
  <2> QED
    BY <2>3, <2>4
<1>5. CASE t # 0
  <2>1. PICK d : slot = <<d>> /\ d \in {<<t>>, <<t, 0>>, <<t, u>>}
                 /\ (d = <<t>> \/ d = <<t, 0>> => u = 0) /\ tok # << >>
    <3>1. CASE u = 0
      <4>1. tok = <<Token(Class(stmt, f.kind), t)>>
        BY <1>1, <1>5, <3>1, PlainTokens
      <4>2. tok # << >> /\ Len(tok) # 2 /\ tok[1].text = t
        BY <4>1 DEF Token
      <4>3. slot = IF letter \in {"V", "O"} THEN << <<t, 0>> >> ELSE << <<t>> >>
        BY <4>2 DEF Made
      <4> QED
        BY <3>1, <4>2, <4>3
    <3>2. CASE u # 0
      <4>1. tok = <<Token(Class(stmt, f.kind), t), Token("name", u)>>
        BY <1>1, <1>5, <3>2, PlainTokens
      <4>2. tok # << >> /\ Len(tok) = 2 /\ tok[1].text = t /\ tok[2].text = u
        BY <4>1 DEF Token
      <4>3. slot = << <<t, u>> >>
        BY <4>2 DEF Made
      <4>4. <<t, u>> # <<t>> /\ <<t, u>> # <<t, 0>>
        BY <3>2
      <4> QED
        BY <4>2, <4>3, <4>4
    <3> QED
      BY <3>1, <3>2
  <2>2. d \in Entry(T) /\ Alike(f, Shown(kind, d))
    BY <1>2, <2>1
  <2>3. slot \in Seq(Entry(T)) /\ Len(slot) = 1 /\ slot[1] = d
    BY <1>3, <2>1, <2>2
  <2> HIDE DEF slot, tok
  <2>4. /\ slot \in Seq(Entry(T)) /\ Len(slot) <= 1
        /\ f.text # 0 => Len(slot) = 1
        /\ f.text # 0 <=> tok # << >>
        /\ f.text = 0 /\ letter # "d" => slot = << >>
        /\ 1 <= Len(slot) => Alike(f, Shown(kind, slot[1]))
        /\ Alike(f, ShownAt(kind, slot))
    BY <1>1, <1>5, <2>1, <2>2, <2>3 DEF ShownAt
  <2> QED
    BY <2>4 DEF f, slot, tok
<1> QED
    BY <1>4, <1>5

\* The letters that stand for something.
LEMMA SolidLetters ==
    ASSUME NEW letter \in {"N", "V", "U", "O", "L", "A"}, << >> \in Admits[letter]
    PROVE  FALSE
<1>1. Name # << >> /\ Pair # << >> /\ <<"link">> # << >> /\ <<"angle">> # << >>
    BY DEF Name, Pair
<1>2. Admits[letter] \in {{Name}, {Pair}, {Name, Pair}, {<<"link">>}, {<<"angle">>}}
    BY DEF Admits
<1> QED
    BY <1>1, <1>2

(* The letters that stand for something. *)
Solid == {"N", "V", "U", "O", "L", "A"}

(* Field i becomes member i, and those after the columns become the list:  *)
(* solid ones, or a single one that may be empty.                          *)
Aligned(form, get) ==
    LET n == Len(get.columns)
        m == Len(form.letters)
    IN  /\ m \in Nat /\ form.least \in Nat /\ form.most \in Nat
        /\ form.width = Width(get)
        /\ \A i \in 1 .. m : form.slots[i] = IF i <= n THEN i ELSE n + 1
        /\ get.rest = "none" => form.most = 0
        /\ get.rest # "none" =>
             /\ n <= m
             /\ \/ \A i \in n + 1 .. m : form.letters[i] \in Solid
                \/ m = n + 1 /\ form.most = 0 /\ form.letters[m] # "d"
             /\ form.most > 0 =>
                  /\ Len(form.list) \in Nat \ {0}
                  /\ \A i \in 1 .. Len(form.list) : form.list[i] \in Solid

(* The fields of entries. *)
Row(stmt, kinds, entries) ==
    [i \in DOMAIN entries |-> Tokens(stmt, Shown(kinds[i], entries[i]), {})]

(* From the one after the m-th on, the fields of a row are elements of a member. *)
Trailing(form, slot, row, p, m) ==
    \A j \in 1 .. p : /\ MemberOf(form, j) = slot <=> j > m
                      /\ j > m => Len(Made(Letter(form, j), row[j])) = 1

(* And the member consists of them. *)
Gathered(form, slot, row, p, m) ==
    /\ Len(Member(form, row, slot)) = p - m
    /\ \A j \in 1 .. p - m :
         Member(form, row, slot)[j] = Made(Letter(form, m + j), row[m + j])[1]

\* The members the reader makes of printed entries.
LEMMA MembersOf ==
    ASSUME NEW T, 0 \in T, NEW p \in Nat, NEW entries \in [1 .. p -> Entry(T)], NEW kinds,
           NEW stmt, NEW form, NEW slot
    PROVE  LET fields  == Row(stmt, kinds, entries)
               made(i) == Made(Letter(form, i), fields[i])
           IN  /\ Member(form, fields, slot) \in Seq(Entry(T))
               /\ \A i \in 1 .. p :
                    (\A j \in 1 .. p : MemberOf(form, j) = slot <=> j = i)
                    => Member(form, fields, slot) = made(i)
               /\ (\A j \in 1 .. p : MemberOf(form, j) # slot)
                    => Member(form, fields, slot) = << >>
               /\ \A m \in 0 .. p :
                    Trailing(form, slot, fields, p, m) => Gathered(form, slot, fields, p, m)
<1> DEFINE fields  == Row(stmt, kinds, entries)
           made(i) == Made(Letter(form, i), fields[i])
           seqs == [i \in 1 .. p |-> IF MemberOf(form, i) = slot THEN made(i) ELSE << >>]
<1>1. DOMAIN fields = 1 .. p
    BY DEF Row
<1>2. Member(form, fields, slot) = FlattenSeq(seqs)
    BY <1>1 DEF Member
<1>3. \A i \in 1 .. p : made(i) \in Seq(Entry(T))
    BY <1>1, MadeAlike DEF Row
<1>4. seqs \in Seq(Seq(Entry(T))) /\ Len(seqs) = p /\ DOMAIN seqs = 1 .. p
  <2>1. seqs \in [1 .. p -> Seq(Entry(T))]
    BY <1>3
  <2> HIDE DEF seqs
  <2> QED
    BY <2>1
<1>5. \A i \in 1 .. p : seqs[i] = IF MemberOf(form, i) = slot THEN made(i) ELSE << >>
    OBVIOUS
<1> HIDE DEF seqs, made, fields
<1>6. FlattenSeq(seqs) \in Seq(Entry(T))
    BY <1>4, FlattenType
<1>7. ASSUME NEW i \in 1 .. p, \A j \in 1 .. p : MemberOf(form, j) = slot <=> j = i
      PROVE  FlattenSeq(seqs) = made(i)
  <2>1. i \in 1 .. Len(seqs) /\ \A j \in 1 .. Len(seqs) : j # i => seqs[j] = << >>
    BY <1>4, <1>5, <1>7
  <2>2. FlattenSeq(seqs) = seqs[i]
    BY <1>4, <2>1, FlattenOne
  <2> QED
    BY <1>5, <1>7, <2>2
<1>8. ASSUME \A j \in 1 .. p : MemberOf(form, j) # slot
      PROVE  FlattenSeq(seqs) = << >>
  <2>1. \A j \in 1 .. Len(seqs) : seqs[j] = << >>
    BY <1>4, <1>5, <1>8
  <2> QED
    BY <1>4, <2>1, FlattenNone
<1>9. ASSUME NEW m \in 0 .. p, Trailing(form, slot, fields, p, m)
      PROVE  Gathered(form, slot, fields, p, m)
  <2>0. \A j \in 1 .. p : /\ MemberOf(form, j) = slot <=> j > m
                          /\ j > m => Len(made(j)) = 1
    BY <1>9 DEF Trailing, made
  <2>1. \A j \in 1 .. m : seqs[j] = << >>
    BY <1>5, <2>0
  <2>2. \A j \in m + 1 .. p : seqs[j] = made(j) /\ Len(seqs[j]) = 1
    BY <1>5, <2>0
  <2>3. m \in 0 .. Len(seqs) /\ \A j \in m + 1 .. Len(seqs) : Len(seqs[j]) = 1
    BY <1>4, <2>2
  <2>4. /\ Len(FlattenSeq(seqs)) = Len(seqs) - m
        /\ \A j \in 1 .. Len(seqs) - m : FlattenSeq(seqs)[j] = seqs[m + j][1]
    BY <1>4, <2>1, <2>3, FlattenSingles
  <2>5. \A j \in 1 .. p - m : m + j \in m + 1 .. p
    OBVIOUS
  <2> QED
    BY <1>2, <1>4, <2>2, <2>4, <2>5 DEF Gathered, made
<1> QED
    BY <1>2, <1>6, <1>7, <1>8, <1>9 DEF made, fields

\* A set of numbers up to p has a greatest.
LEMMA HasGreatest ==
    ASSUME NEW p \in Nat, NEW S \in SUBSET (0 .. p), S # {}
    PROVE  /\ Max(S) \in S /\ \A x \in S : x <= Max(S)
<1> DEFINE D == {p - x : x \in S}
<1>1. D \in SUBSET Nat /\ D # {}
  <2>1. \A x \in S : p - x \in Nat
    OBVIOUS
  <2>2. PICK x \in S : TRUE
    OBVIOUS
  <2> QED
    BY <2>1, <2>2
<1>2. PICK d \in D : \A y \in D : d <= y
    BY <1>1, HasLeast
<1>3. PICK x \in S : d = p - x
    BY <1>2
<1>4. \A y \in S : x >= y
  <2>1. ASSUME NEW y \in S
        PROVE  x >= y
    <3>1. p - y \in D
      OBVIOUS
    <3>2. p - x <= p - y
      BY <1>2, <1>3, <3>1
    <3> QED
      BY <3>2
  <2> QED
    BY <2>1
<1>5. Max(S) \in S /\ \A y \in S : Max(S) >= y
    BY <1>4 DEF Max
<1> QED
    BY <1>5

\* Structs whose fields say the same, but for empty ones at the end, mean the same.
LEMMA MeaningAlike ==
    ASSUME NEW stmt, NEW a, NEW b, NEW p \in Nat, NEW q \in Nat,
           DOMAIN Fields(stmt, a) = 1 .. p, DOMAIN Fields(stmt, b) = 1 .. q,
           \A i \in 1 .. p : i <= q => Alike(Fields(stmt, a)[i], Fields(stmt, b)[i]),
           \A i \in 1 .. p : i > q => Fields(stmt, a)[i].text = 0,
           \A i \in 1 .. q : i > p => Fields(stmt, b)[i].text = 0
    PROVE  Meaning(stmt, a) = Meaning(stmt, b)
<1> DEFINE A == Fields(stmt, a)
           B == Fields(stmt, b)
           fa == {i \in DOMAIN A : A[i].text # 0}
           fb == {i \in DOMAIN B : B[i].text # 0}
           M  == Max(fa \cup {0})
<1> HIDE DEF A, B
<1>1. DOMAIN A = 1 .. p /\ DOMAIN B = 1 .. q
    BY DEF A, B
<1>2. /\ \A i \in 1 .. p : i <= q => Alike(A[i], B[i])
      /\ \A i \in 1 .. p : i > q => A[i].text = 0
      /\ \A i \in 1 .. q : i > p => B[i].text = 0
    BY DEF A, B
<1>3. fa = fb
  <2>1. ASSUME NEW i \in fa
        PROVE  i \in fb
    <3>1. i \in 1 .. p /\ A[i].text # 0
      BY <1>1
    <3>2. i <= q
      BY <1>2, <3>1
    <3> QED
      BY <1>1, <1>2, <3>1, <3>2 DEF Alike
  <2>2. ASSUME NEW i \in fb
        PROVE  i \in fa
    <3>1. i \in 1 .. q /\ B[i].text # 0
      BY <1>1
    <3>2. i <= p
      BY <1>2, <3>1
    <3> QED
      BY <1>1, <1>2, <3>1, <3>2 DEF Alike
  <2> QED
    BY <2>1, <2>2
<1>4. M \in fa \cup {0} /\ M \in Nat /\ M <= p /\ M <= q
  <2>1. fa \cup {0} \in SUBSET (0 .. p) /\ fa \cup {0} # {}
    BY <1>1
  <2>2. M \in fa \cup {0}
    BY <2>1, HasGreatest
  <2>3. M \in fb \cup {0}
    BY <1>3, <2>2
  <2> HIDE DEF M
  <2> QED
    BY <1>1, <2>2, <2>3
<1> DEFINE said(f) == IF f.text = 0 THEN <<0, 0>> ELSE <<f.text, f.units>>
<1> HIDE DEF M, fa, fb
<1>5. \A i \in 1 .. M : said(A[i]) = said(B[i])
  <2>1. \A i \in 1 .. M : i \in 1 .. p /\ i <= q
    BY <1>4
  <2> QED
    BY <1>2, <2>1 DEF Alike
<1> HIDE DEF said
<1>6. Meaning(stmt, a) = [i \in 1 .. M |-> said(A[i])]
    BY DEF Meaning, M, fa, A, said
<1>7. Meaning(stmt, b) = [i \in 1 .. M |-> said(B[i])]
    BY <1>3 DEF Meaning, M, fb, B, said
<1> QED
    BY <1>5, <1>6, <1>7

\* How many members the struct of a statement has.
LEMMA WidthIs ==
    ASSUME NEW get, Len(get.columns) \in Nat
    PROVE  /\ get.rest = "none" => Width(get) = Len(get.columns)
           /\ get.rest # "none" => Width(get) = Len(get.columns) + 1
<1> DEFINE n == Len(get.columns)
<1>1. n \in Nat
    OBVIOUS
<1>2. CASE get.rest = "none"
  <2>1. Width(get) = n + 0
    BY <1>2 DEF Width
  <2> HIDE DEF n
  <2> QED
    BY <1>1, <1>2, <2>1 DEF n
<1>3. CASE get.rest # "none"
    BY <1>1, <1>3 DEF Width
<1> QED
    BY <1>2, <1>3

(* What the columns ask for is there: a slot with a text. *)
Filled(get, s) ==
    \A i \in 1 .. Len(get.columns) : \A need \in get.columns[i].needs :
        1 <= Len(s[need[1]]) => s[need[1]][1][1] # 0

(* The forms of a statement fit its fields. *)
InStep(stmt) ==
    /\ Ordered(Get[stmt])
    /\ \A form \in Forms[stmt] : Aligned(form, Get[stmt])

\* A struct without empty texts where they are asked for is read from what is
\* printed as it was: the reader's struct means the same.
LEMMA RoundTrip ==
    ASSUME NEW stmt, InStep(stmt), NEW T, 0 \in T, NEW s, StructOf(s, Get[stmt], T),
           Filled(Get[stmt], s), Accepted(stmt, Printed(stmt, s, {}))
    PROVE  Meaning(stmt, Parse(stmt, Printed(stmt, s, {}))) = Meaning(stmt, s)
<1> DEFINE get == Get[stmt]
           n   == Len(get.columns)
           F   == Fields(stmt, s)
           fields == Printed(stmt, s, {})
           form == CHOOSE form \in Forms[stmt] : Matches(form, fields)
           L    == Len(form.letters)
           again == Parse(stmt, fields)
           B    == Fields(stmt, again)
           kind(i) == IF i <= n THEN get.columns[i].kind ELSE RestKind(get, i - n)
           entry(i) == IF i <= n THEN IF 1 <= Len(s[i]) THEN s[i][1] ELSE <<0>>
                       ELSE s[n + 1][i - n]
<1>1. /\ n \in Nat /\ DOMAIN get.columns = 1 .. n
      /\ \A i \in 1 .. n : get.columns[i].slot = i /\ get.columns[i].at = 1
      /\ \A i \in 1 .. n : \A need \in get.columns[i].needs :
           need[1] \in 1 .. i /\ need[2] = 1 /\ get.rest = "none"
    BY DEF InStep, Ordered
<1>2. /\ Len(s) = Width(get) /\ n <= Len(s) /\ Len(s) \in Nat
      /\ n <= Width(get) /\ (get.rest # "none" => Width(get) = n + 1)
      /\ \A i \in 1 .. Len(s) : s[i] \in Seq(Entry(T)) /\ Len(s[i]) \in Nat
      /\ \A i \in 1 .. n : Len(s[i]) <= 1
      /\ \A i \in 1 .. Len(s) : \A j \in 1 .. Len(s[i]) : s[i][j] \in Entry(T)
  <2>1. s \in Seq(Seq(Entry(T))) /\ Len(s) = Width(get) /\ \A i \in 1 .. n : Len(s[i]) <= 1
    BY DEF StructOf
  <2>2. Len(s) \in Nat /\ \A i \in 1 .. Len(s) : s[i] \in Seq(Entry(T))
    BY <2>1, ElementOfSeq
  <2>3. \A i \in 1 .. Len(s) : Len(s[i]) \in Nat
    BY <2>2, LenProperties
  <2>4. \A i \in 1 .. Len(s) : \A j \in 1 .. Len(s[i]) : s[i][j] \in Entry(T)
    BY <2>2, ElementOfSeq
  <2>5. n <= Width(get) /\ (get.rest # "none" => Width(get) = n + 1)
    BY <1>1, WidthIs
  <2> HIDE DEF n, get
  <2> QED
    BY <2>1, <2>2, <2>3, <2>4, <2>5
<1>3. PICK p \in Nat :
         /\ DOMAIN F = 1 .. p
         /\ \A i \in 1 .. p : i <= n => F[i] = ShownAt(get.columns[i].kind, s[i])
         /\ \A i \in 1 .. n : i <= p => i \notin Stops(get, s)
         /\ p < n => p + 1 \in Stops(get, s)
         /\ get.rest = "none" => p <= n
         /\ get.rest # "none" =>
              /\ p = n + Len(s[n + 1])
              /\ \A j \in 1 .. p - n : F[n + j] = Shown(RestKind(get, j), s[n + 1][j])
  <2>1. Ordered(get)
    BY DEF InStep
  <2>2. \E p \in Nat : AreFields(F, get, s, p)
    BY <2>1, FieldsOf
  <2> QED
    BY <2>2 DEF AreFields
<1>4. form \in Forms[stmt] /\ Matches(form, fields) /\ Aligned(form, get)
    BY DEF InStep, Accepted
<1>5. <<0>> \in Entry(T)
  <2>1. <<0>> \in Seq(T) /\ Len(<<0>>) = 1
    OBVIOUS
  <2> QED
    BY <2>1 DEF Entry
<1> HIDE DEF F, fields, form, again, B, get, n
<1>6. ASSUME NEW i \in 1 .. p
      PROVE  entry(i) \in Entry(T) /\ F[i] = Shown(kind(i), entry(i))
  <2>1. CASE i <= n
    <3>1. i \in 1 .. Len(s) /\ i \in 1 .. n
      BY <1>1, <1>2, <2>1
    <3> QED
      BY <1>2, <1>3, <1>5, <2>1, <3>1 DEF ShownAt
  <2>2. CASE ~(i <= n)
    <3>1. get.rest # "none" /\ p = n + Len(s[n + 1]) /\ n + 1 = Len(s)
      BY <1>1, <1>2, <1>3, <2>2
    <3>2. i - n \in 1 .. Len(s[n + 1]) /\ i - n \in 1 .. p - n /\ n + (i - n) = i
          /\ n + 1 \in 1 .. Len(s)
      BY <1>1, <2>2, <3>1
    <3>3. F[n + (i - n)] = Shown(RestKind(get, i - n), s[n + 1][i - n])
      BY <1>3, <3>1, <3>2
    <3>4. s[n + 1][i - n] \in Entry(T)
      BY <1>2, <3>2
    <3> QED
      BY <2>2, <3>2, <3>3, <3>4
  <2> QED
    BY <2>1, <2>2
<1> DEFINE entries == [i \in 1 .. p |-> entry(i)]
           kinds == [i \in 1 .. p |-> kind(i)]
<1>7. entries \in [1 .. p -> Entry(T)] /\ DOMAIN entries = 1 .. p
      /\ \A i \in 1 .. p : entries[i] = entry(i) /\ kinds[i] = kind(i)
    BY <1>6
<1>8. fields = Row(stmt, kinds, entries)
    BY <1>3, <1>6, <1>7 DEF fields, Printed, Row, F
<1> HIDE DEF entry, kind, entries, kinds, L
<1> DEFINE made(i) == Made(Letter(form, i), fields[i])
<1>9. \A i \in 1 .. p : fields[i] = Tokens(stmt, F[i], {})
    BY <1>6, <1>7, <1>8 DEF Row
<1>10. ASSUME NEW i \in 1 .. p
       PROVE  /\ F[i].text # 0 => Len(made(i)) = 1
              /\ F[i].text # 0 <=> fields[i] # << >>
              /\ F[i].text = 0 /\ Letter(form, i) # "d" => made(i) = << >>
              /\ 1 <= Len(made(i)) => Alike(F[i], Shown(kind(i), made(i)[1]))
              /\ Alike(F[i], ShownAt(kind(i), made(i)))
              /\ made(i) \in Seq(Entry(T)) /\ Len(made(i)) <= 1
    BY <1>6, <1>9, MadeAlike
<1>11. /\ DOMAIN fields = 1 .. p /\ Len(fields) = p
  <2>1. DOMAIN fields = 1 .. p
    BY <1>7, <1>8 DEF Row
  <2>2. fields \in Seq({fields[i] : i \in 1 .. p})
    <3>1. fields = [i \in 1 .. p |-> fields[i]]
      BY <1>7, <1>8 DEF Row
    <3> QED
      BY <3>1
  <2> QED
    BY <2>1, <2>2, LenProperties
<1>12. /\ L \in Nat /\ form.least \in Nat /\ form.most \in Nat /\ form.least <= p - L
       /\ (form.most = Endless \/ p - L <= form.most) /\ form.width = Width(get)
       /\ \A i \in 1 .. L : form.slots[i] = IF i <= n THEN i ELSE n + 1
       /\ \A i \in 1 .. p : Shape(fields[i]) \in Admits[Letter(form, i)]
    BY <1>4, <1>11 DEF Matches, Aligned, L, n
<1>13. L <= p
    BY <1>12
<1>14. again = [slot \in 1 .. Width(get) |-> Member(form, fields, slot)]
    BY <1>12 DEF again, Parse, form
<1>15. /\ DOMAIN again = 1 .. Width(get) /\ Width(get) \in Nat /\ n <= Width(get)
       /\ \A slot \in 1 .. Width(get) :
            again[slot] = Member(form, fields, slot) /\ again[slot] \in Seq(Entry(T))
  <2>1. \A slot \in 1 .. Width(get) : Member(form, fields, slot) \in Seq(Entry(T))
    BY <1>7, <1>8, MembersOf
  <2> QED
    BY <1>1, <1>2, <1>14, <2>1
<1>16. again \in Seq(Seq(Entry(T))) /\ Len(again) = Width(get)
  <2>1. again \in [1 .. Width(get) -> Seq(Entry(T))]
    BY <1>14, <1>15
  <2> QED
    BY <1>15, <2>1
<1>17. \A j \in 1 .. p : MemberOf(form, j) = IF j <= n /\ j <= L THEN j ELSE
                            IF j <= L THEN n + 1 ELSE Width(get)
    BY <1>12 DEF MemberOf, L
<1>18. get.rest # "none" => n <= L /\ Width(get) = n + 1
    BY <1>4 DEF Aligned, L, n, Width
<1>19. get.rest = "none" => p = L /\ p <= n /\ Width(get) = n
    BY <1>1, <1>3, <1>4, <1>12 DEF Aligned, n, Width, Endless
<1>20. ASSUME NEW slot \in 1 .. n
       PROVE  again[slot] = IF slot <= p THEN made(slot) ELSE << >>
  <2>1. \A j \in 1 .. p : MemberOf(form, j) = slot <=> j = slot
    BY <1>1, <1>12, <1>17, <1>18, <1>19
  <2>2. slot \in 1 .. Width(get)
    BY <1>1, <1>15
  <2>3. CASE slot <= p
    <3>1. slot \in 1 .. p
      BY <1>1, <2>3
    <3>2. Member(form, fields, slot) = made(slot)
      BY <1>7, <1>8, <2>1, <3>1, MembersOf
    <3> QED
      BY <1>15, <2>2, <2>3, <3>2
  <2>4. CASE ~(slot <= p)
    <3>1. \A j \in 1 .. p : MemberOf(form, j) # slot
      BY <1>1, <2>1, <2>4
    <3>2. Member(form, fields, slot) = << >>
      BY <1>7, <1>8, <3>1, MembersOf
    <3> QED
      BY <1>15, <2>2, <2>4, <3>2
  <2> QED
    BY <2>3, <2>4
<1> HIDE DEF made
<1>21. StructOf(again, get, T)
  <2>1. ASSUME NEW i \in 1 .. n
        PROVE  Len(again[i]) <= 1
    <3>1. CASE i <= p
      <4>1. i \in 1 .. p
        BY <1>1, <3>1
      <4> QED
        BY <1>10, <1>20, <3>1, <4>1
    <3>2. CASE ~(i <= p)
      <4>1. Len(again[i]) = 0
        BY <1>20, <3>2, EmptySeq
      <4> QED
        BY <4>1
    <3> QED
      BY <3>1, <3>2
  <2> QED
    BY <1>16, <2>1 DEF StructOf, n
<1>22. PICK q \in Nat :
         /\ DOMAIN B = 1 .. q
         /\ \A i \in 1 .. q : i <= n => B[i] = ShownAt(get.columns[i].kind, again[i])
         /\ \A i \in 1 .. n : i <= q => i \notin Stops(get, again)
         /\ q < n => q + 1 \in Stops(get, again)
         /\ get.rest = "none" => q <= n
         /\ get.rest # "none" =>
              /\ q = n + Len(again[n + 1])
              /\ \A j \in 1 .. q - n : B[n + j] = Shown(RestKind(get, j), again[n + 1][j])
  <2>1. Ordered(Get[stmt])
    BY DEF InStep
  <2>2. StructOf(again, Get[stmt], T)
    BY <1>21 DEF get
  <2>3. \E q \in Nat : AreFields(B, get, again, q)
    BY <2>1, <2>2, FieldsOf DEF B, get
  <2> QED
    BY <2>3 DEF AreFields, n
<1>23. ASSUME NEW i \in 1 .. q, i <= n, i <= p
       PROVE  Alike(F[i], B[i])
  <2>1. i \in 1 .. n /\ i \in 1 .. p
    BY <1>1, <1>23
  <2>2. B[i] = ShownAt(kind(i), made(i))
    BY <1>20, <1>22, <1>23, <2>1 DEF kind
  <2> QED
    BY <1>10, <2>1, <2>2
<1>24. ASSUME NEW i \in 1 .. q, i <= n, ~(i <= p)
       PROVE  B[i].text = 0
  <2>1. i \in 1 .. n
    BY <1>1, <1>24
  <2>2. again[i] = << >> /\ Len(again[i]) = 0
    BY <1>20, <1>24, <2>1, EmptySeq
  <2>3. B[i] = Shown(get.columns[i].kind, <<0>>)
    BY <1>22, <1>24, <2>2 DEF ShownAt
  <2>4. Shown(get.columns[i].kind, <<0>>).text = <<0>>[1]
    BY <1>5, ShownFields
  <2> QED
    BY <2>3, <2>4
<1> DEFINE Same == /\ \A i \in 1 .. p : i <= q => Alike(F[i], B[i])
                   /\ \A i \in 1 .. p : i > q => F[i].text = 0
                   /\ \A i \in 1 .. q : i > p => B[i].text = 0
<1>25. ASSUME get.rest = "none"
       PROVE  Same
  <2>1. p <= n /\ q <= n
    BY <1>19, <1>22, <1>25
  <2>2. p <= q
    <3>1. SUFFICES ASSUME q < p
                   PROVE  FALSE
      BY <1>3, <1>22
    <3>2. q + 1 \in Stops(get, again) /\ q + 1 \in 1 .. p /\ q + 1 \in 1 .. n
      BY <1>1, <1>22, <2>1, <3>1
    <3>3. PICK need \in get.columns[q + 1].needs : Len(again[need[1]]) < need[2]
      BY <3>2 DEF Stops, Ends
    <3>4. need[1] \in 1 .. q + 1 /\ need[2] = 1
      BY <1>1, <3>2
    <3>5. q + 1 \notin Stops(get, s)
      BY <1>1, <1>3, <3>2
    <3>6. ~(Len(s[need[1]]) < need[2])
      BY <1>1, <3>2, <3>5 DEF Stops, Ends
    <3>7. need[1] \in 1 .. n /\ need[1] \in 1 .. p /\ need[1] \in 1 .. Len(s)
      BY <1>1, <1>2, <3>2, <3>4
    <3>8. 1 <= Len(s[need[1]]) /\ s[need[1]][1][1] # 0
      <4>1. 1 <= Len(s[need[1]])
        BY <1>2, <3>4, <3>6, <3>7
      <4>2. Filled(get, s)
        BY DEF get
      <4> QED
        BY <3>2, <4>1, <4>2 DEF Filled, n
    <3>9. F[need[1]].text # 0
      <4>1. entry(need[1]) = s[need[1]][1]
        BY <3>7, <3>8 DEF entry
      <4>2. F[need[1]].text = entry(need[1])[1]
        BY <1>6, <3>7, ShownFields
      <4> QED
        BY <3>8, <4>1, <4>2
    <3>10. again[need[1]] = made(need[1]) /\ Len(made(need[1])) = 1
      BY <1>10, <1>20, <3>7, <3>9
    <3> QED
      BY <3>3, <3>4, <3>10
  <2>3. \A i \in 1 .. p : i <= q /\ i \in 1 .. q /\ i <= n
    BY <1>1, <2>1, <2>2
  <2>4. \A i \in 1 .. q : i <= n
    BY <1>1, <2>1
  <2> QED
    BY <1>23, <1>24, <2>3, <2>4
<1>26. ASSUME get.rest # "none"
       PROVE  Same
  <2>1. /\ p = n + Len(s[n + 1]) /\ q = n + Len(again[n + 1]) /\ n <= p /\ n <= q /\ n <= L
        /\ Width(get) = n + 1 /\ n + 1 \in 1 .. Width(get)
    <3>1. Width(get) = n + 1 /\ n + 1 \in 1 .. Width(get) /\ n <= L
      BY <1>1, <1>18, <1>26
    <3>2. Len(s[n + 1]) \in Nat /\ Len(again[n + 1]) \in Nat
      BY <1>2, <1>15, <3>1, LenProperties
    <3> QED
      BY <1>1, <1>3, <1>22, <1>26, <3>1, <3>2
  <2>2. \A j \in 1 .. p : MemberOf(form, j) = n + 1 <=> j > n
    BY <1>1, <1>12, <1>17, <2>1
  <2>3. ASSUME \A j \in 1 .. p : j > n => Len(made(j)) = 1
        PROVE  Same
    <3>1. n \in 0 .. p
      BY <1>1, <2>1
    <3>2. /\ Len(again[n + 1]) = p - n
          /\ \A j \in 1 .. p - n : again[n + 1][j] = made(n + j)[1]
      <4>1. /\ Len(Member(form, fields, n + 1)) = p - n
            /\ \A j \in 1 .. p - n : Member(form, fields, n + 1)[j] = made(n + j)[1]
        <5>1. Trailing(form, n + 1, fields, p, n)
          BY <2>2, <2>3 DEF made, Trailing
        <5>2. Gathered(form, n + 1, fields, p, n)
          BY <1>7, <1>8, <3>1, <5>1, MembersOf
        <5> QED
          BY <5>2 DEF made, Gathered
      <4> QED
        BY <1>15, <2>1, <4>1
    <3>3. p = q
      BY <1>1, <2>1, <3>2
    <3>4. ASSUME NEW i \in 1 .. p, ~(i <= n)
          PROVE  Alike(F[i], B[i])
      <4>1. i - n \in 1 .. p - n /\ n + (i - n) = i
        BY <1>1, <3>4
      <4>2. B[n + (i - n)] = Shown(RestKind(get, i - n), again[n + 1][i - n])
        BY <1>22, <1>26, <3>3, <4>1
      <4>3. again[n + 1][i - n] = made(i)[1]
        BY <3>2, <4>1
      <4>4. B[i] = Shown(kind(i), made(i)[1])
        BY <3>4, <4>1, <4>2, <4>3 DEF kind
      <4>5. 1 <= Len(made(i))
        BY <1>1, <2>3, <3>4
      <4> QED
        BY <1>10, <4>4, <4>5
    <3>5. \A i \in 1 .. p : i <= q /\ i \in 1 .. q
      BY <3>3
    <3> QED
      BY <1>23, <3>3, <3>4, <3>5
  <2>4. CASE \A i \in n + 1 .. L : form.letters[i] \in Solid
    <3>1. ASSUME NEW j \in 1 .. p, j > n
          PROVE  Len(made(j)) = 1
      <4>1. Letter(form, j) \in Solid
        <5>1. CASE j <= L
          BY <1>1, <1>12, <2>4, <3>1, <5>1 DEF Letter, L
        <5>2. CASE ~(j <= L)
          <6>1. form.most > 0
            BY <1>12, <5>2 DEF Endless
          <6>2. /\ Len(form.list) \in Nat \ {0}
                /\ \A i \in 1 .. Len(form.list) : form.list[i] \in Solid
            BY <1>4, <1>26, <6>1 DEF Aligned
          <6>3. Letter(form, j) = ListLetter(form, j - L) /\ j - L \in Nat \ {0}
            BY <1>12, <5>2 DEF Letter, L
          <6>4. ListLetter(form, j - L) \in Solid
            BY <6>2, <6>3 DEF ListLetter, Solid
          <6> QED
            BY <6>3, <6>4
        <5> QED
          BY <5>1, <5>2
      <4>2. fields[j] # << >>
        <5>1. SUFFICES ASSUME fields[j] = << >>
                       PROVE  FALSE
          OBVIOUS
        <5>2. Shape(fields[j]) = << >>
          BY <5>1 DEF Shape
        <5> QED
          BY <1>12, <4>1, <5>2, SolidLetters DEF Solid
      <4> QED
        BY <1>10, <4>2
    <3> QED
      BY <2>3, <3>1
  <2>5. CASE L = n + 1 /\ form.most = 0 /\ form.letters[L] # "d"
    <3>1. p = L /\ p = n + 1 /\ p \in 1 .. p /\ Letter(form, p) # "d"
      BY <1>1, <1>12, <2>5 DEF Letter, L, Endless
    <3>2. CASE F[p].text # 0
      <4>1. \A j \in 1 .. p : j > n => j = p
        BY <1>1, <3>1
      <4>2. Len(made(p)) = 1
        BY <1>10, <3>1, <3>2
      <4> QED
        BY <2>3, <4>1, <4>2
    <3>3. CASE F[p].text = 0
      <4>1. made(p) = << >>
        BY <1>10, <3>1, <3>3
      <4>2. Member(form, fields, n + 1) = made(p)
        <5>1. \A j \in 1 .. p : MemberOf(form, j) = n + 1 <=> j = p
          BY <1>1, <2>2, <3>1
        <5> QED
          BY <1>7, <1>8, <3>1, <5>1, MembersOf DEF made
      <4>3. q = n
        BY <1>1, <1>15, <2>1, <4>1, <4>2, EmptySeq
      <4>4. \A i \in 1 .. p : i <= q => i \in 1 .. q /\ i <= n
        BY <4>3
      <4>5. \A i \in 1 .. p : i > q => i = p
        BY <1>1, <3>1, <4>3
      <4>6. \A i \in 1 .. q : ~(i > p)
        BY <1>1, <3>1, <4>3
      <4> QED
        BY <1>23, <3>3, <4>4, <4>5, <4>6
    <3> QED
      BY <3>2, <3>3
  <2>6. \/ \A i \in n + 1 .. L : form.letters[i] \in Solid
        \/ L = n + 1 /\ form.most = 0 /\ form.letters[L] # "d"
    BY <1>4, <1>26 DEF Aligned, L, n
  <2> QED
    BY <2>4, <2>5, <2>6
<1>27. Same
    BY <1>25, <1>26
<1>28. /\ \A i \in 1 .. q : i <= p => Alike(B[i], F[i])
    <2>1. \A i \in 1 .. q : i <= p => i \in 1 .. p /\ i <= q
      OBVIOUS
    <2> QED
      BY <1>27, <2>1 DEF Alike
<1> QED
    BY <1>3, <1>22, <1>27, <1>28, MeaningAlike DEF F, B, again, fields

(* The statements of f mean in g what they mean in f. *)
Part(f, g) == DOMAIN f \subseteq DOMAIN g /\ \A x \in DOMAIN f : g[x] = f[x]

(* The tables have no statement of f, unless they are f. *)
Apart(f, tables) == \A g \in tables : \A x \in DOMAIN f : x \in DOMAIN g => g = f

\* A table that shares no statement with the others is part of the whole.
LEMMA JoinedAt ==
    ASSUME NEW tables, NEW f \in tables, Apart(f, tables)
    PROVE  Part(f, Joined(tables))
<1> DEFINE all == UNION {DOMAIN g : g \in tables}
<1>1. ASSUME NEW x \in DOMAIN f
      PROVE  x \in all /\ (CHOOSE g \in tables : x \in DOMAIN g) = f
  <2>1. \E g \in tables : x \in DOMAIN g
    OBVIOUS
  <2> DEFINE h == CHOOSE g \in tables : x \in DOMAIN g
  <2>2. h \in tables /\ x \in DOMAIN h
    BY <2>1
  <2> HIDE DEF h
  <2>3. h = f
    BY <2>2 DEF Apart
  <2> QED
    BY <2>3 DEF h
<1> QED
    BY <1>1 DEF Part, Joined

\* No statement of the create functions is in two blocks: each block is part of Put.
LEMMA PutBlocks ==
    /\ Part(PutSched, Put) /\ Part(PutAntenna, Put) /\ Part(PutBbc, Put)
    /\ Part(PutClock, Put) /\ Part(PutDas, Put) /\ Part(PutTape, Put)
    /\ Part(PutEop, Put) /\ Part(PutEopLists, Put) /\ Part(PutNutation, Put)
    /\ Part(PutExper, Put) /\ Part(PutPeople, Put) /\ Part(PutFreq, Put)
    /\ Part(PutHeadPos, Put) /\ Part(PutIf, Put) /\ Part(PutPassOrder, Put)
    /\ Part(PutPhaseCal, Put) /\ Part(PutProcedures, Put) /\ Part(PutRoll, Put)
    /\ Part(PutSefd, Put) /\ Part(PutSite, Put) /\ Part(PutOrbit, Put)
    /\ Part(PutSource, Put) /\ Part(PutSourceModel, Put) /\ Part(PutVsn, Put)
    /\ Part(PutFan, Put) /\ Part(PutTracks, Put)
<1> DEFINE blocks == {PutSched, PutAntenna, PutBbc, PutClock, PutDas, PutTape, PutEop,
                      PutEopLists, PutNutation, PutExper, PutPeople, PutFreq,
                      PutHeadPos, PutIf, PutPassOrder, PutPhaseCal, PutProcedures,
                      PutRoll, PutSefd, PutSite, PutOrbit, PutSource, PutSourceModel,
                      PutVsn, PutFan, PutTracks}
<1>d0. DOMAIN PutSched = {"start", "mode", "source", "station", "data_transfer"}
    BY DEF PutSched
<1>d1. DOMAIN PutAntenna = {"antenna_diam", "axis_type", "axis_offset",
          "antenna_motion", "pointing_sector"}
    BY DEF PutAntenna
<1>d2. DOMAIN PutBbc = {"BBC_assign"}
    BY DEF PutBbc
<1>d3. DOMAIN PutClock = {"clock_early"}
    BY DEF PutClock
<1>d4. DOMAIN PutDas = {"record_transport_type", "electronics_rack_type",
          "number_drives", "headstack", "record_density", "tape_length"}
    BY DEF PutDas
<1>d5. DOMAIN PutTape = {"recording_system_ID", "tape_motion", "tape_control"}
    BY DEF PutTape
<1>d6. DOMAIN PutEop = {"TAI_UTC", "A1_TAI", "eop_ref_epoch", "num_eop_points",
          "eop_interval"}
    BY DEF PutEop
<1>d7. DOMAIN PutEopLists = {"ut1_utc", "x_wobble", "y_wobble"}
    BY DEF PutEopLists
<1>d8. DOMAIN PutNutation = {"nut_ref_epoch", "num_nut_points", "nut_interval",
          "delta_psi", "delta_eps", "nut_model"}
    BY DEF PutNutation
<1>d9. DOMAIN PutExper = {"exper_name", "exper_num", "exper_description",
          "exper_nominal_start", "exper_nominal_stop"}
    BY DEF PutExper
<1>d10. DOMAIN PutPeople = {"PI_name", "PI_email", "contact_name", "contact_email",
          "scheduler_name", "scheduler_email", "target_correlator"}
    BY DEF PutPeople
<1>d11. DOMAIN PutFreq = {"chan_def", "sample_rate", "bits_per_sample",
          "switching_cycle"}
    BY DEF PutFreq
<1>d12. DOMAIN PutHeadPos = {"headstack_pos"}
    BY DEF PutHeadPos
<1>d13. DOMAIN PutIf = {"if_def"}
    BY DEF PutIf
<1>d14. DOMAIN PutPassOrder = {"pass_order", "S2_group_order"}
    BY DEF PutPassOrder
<1>d15. DOMAIN PutPhaseCal = {"phase_cal_detect"}
    BY DEF PutPhaseCal
<1>d16. DOMAIN PutProcedures = {"tape_change", "headstack_motion",
          "new_source_command", "new_tape_setup", "setup_always", "parity_check",
          "tape_prepass", "preob_cal", "midob_cal", "postob_cal",
          "procedure_name_prefix"}
    BY DEF PutProcedures
<1>d17. DOMAIN PutRoll = {"roll", "roll_reinit_period", "roll_inc_period", "roll_def"}
    BY DEF PutRoll
<1>d18. DOMAIN PutSefd = {"sefd_model", "sefd"}
    BY DEF PutSefd
<1>d19. DOMAIN PutSite = {"site_name", "site_type", "site_ID", "site_position_epoch",
          "site_position_ref", "occupation_code", "site_position", "site_velocity",
          "horizon_map_az", "horizon_map_el", "ocean_load_vert", "ocean_load_horiz",
          "zen_atmos"}
    BY DEF PutSite
<1>d20. DOMAIN PutOrbit = {"inclination", "arg_perigee", "ascending_node",
          "mean_anomaly", "semi_major_axis", "eccentricity", "mean_motion",
          "orbit_epoch"}
    BY DEF PutOrbit
<1>d21. DOMAIN PutSource = {"source_type", "source_name", "ra", "IAU_name", "dec",
          "ref_coord_frame", "source_position_ref", "source_position_epoch", "ra_rate",
          "dec_rate", "velocity_wrt_LSR"}
    BY DEF PutSource
<1>d22. DOMAIN PutSourceModel = {"source_model"}
    BY DEF PutSourceModel
<1>d23. DOMAIN PutVsn = {"VSN"}
    BY DEF PutVsn
<1>d24. DOMAIN PutFan = {"fanin_def", "fanout_def"}
    BY DEF PutFan
<1>d25. DOMAIN PutTracks = {"track_frame_format", "data_modulation",
          "S2_recording_mode", "VLBA_frmtr_sys_trk", "VLBA_trnsprt_sys_trk",
          "S2_data_source"}
    BY DEF PutTracks
<1>1. Apart(PutSched, blocks)
    BY <1>d0, <1>d1, <1>d2, <1>d3, <1>d4, <1>d5, <1>d6, <1>d7, <1>d8, <1>d9, <1>d10,
       <1>d11, <1>d12, <1>d13, <1>d14, <1>d15, <1>d16, <1>d17, <1>d18, <1>d19, <1>d20,
       <1>d21, <1>d22, <1>d23, <1>d24, <1>d25 DEF Apart
<1>2. Apart(PutAntenna, blocks)
    BY <1>d0, <1>d1, <1>d2, <1>d3, <1>d4, <1>d5, <1>d6, <1>d7, <1>d8, <1>d9, <1>d10,
       <1>d11, <1>d12, <1>d13, <1>d14, <1>d15, <1>d16, <1>d17, <1>d18, <1>d19, <1>d20,
       <1>d21, <1>d22, <1>d23, <1>d24, <1>d25 DEF Apart
<1>3. Apart(PutBbc, blocks)
    BY <1>d0, <1>d1, <1>d2, <1>d3, <1>d4, <1>d5, <1>d6, <1>d7, <1>d8, <1>d9, <1>d10,
       <1>d11, <1>d12, <1>d13, <1>d14, <1>d15, <1>d16, <1>d17, <1>d18, <1>d19, <1>d20,
       <1>d21, <1>d22, <1>d23, <1>d24, <1>d25 DEF Apart
<1>4. Apart(PutClock, blocks)
    BY <1>d0, <1>d1, <1>d2, <1>d3, <1>d4, <1>d5, <1>d6, <1>d7, <1>d8, <1>d9, <1>d10,
       <1>d11, <1>d12, <1>d13, <1>d14, <1>d15, <1>d16, <1>d17, <1>d18, <1>d19, <1>d20,
       <1>d21, <1>d22, <1>d23, <1>d24, <1>d25 DEF Apart
<1>5. Apart(PutDas, blocks)
    BY <1>d0, <1>d1, <1>d2, <1>d3, <1>d4, <1>d5, <1>d6, <1>d7, <1>d8, <1>d9, <1>d10,
       <1>d11, <1>d12, <1>d13, <1>d14, <1>d15, <1>d16, <1>d17, <1>d18, <1>d19, <1>d20,
       <1>d21, <1>d22, <1>d23, <1>d24, <1>d25 DEF Apart
<1>6. Apart(PutTape, blocks)
    BY <1>d0, <1>d1, <1>d2, <1>d3, <1>d4, <1>d5, <1>d6, <1>d7, <1>d8, <1>d9, <1>d10,
       <1>d11, <1>d12, <1>d13, <1>d14, <1>d15, <1>d16, <1>d17, <1>d18, <1>d19, <1>d20,
       <1>d21, <1>d22, <1>d23, <1>d24, <1>d25 DEF Apart
<1>7. Apart(PutEop, blocks)
    BY <1>d0, <1>d1, <1>d2, <1>d3, <1>d4, <1>d5, <1>d6, <1>d7, <1>d8, <1>d9, <1>d10,
       <1>d11, <1>d12, <1>d13, <1>d14, <1>d15, <1>d16, <1>d17, <1>d18, <1>d19, <1>d20,
       <1>d21, <1>d22, <1>d23, <1>d24, <1>d25 DEF Apart
<1>8. Apart(PutEopLists, blocks)
    BY <1>d0, <1>d1, <1>d2, <1>d3, <1>d4, <1>d5, <1>d6, <1>d7, <1>d8, <1>d9, <1>d10,
       <1>d11, <1>d12, <1>d13, <1>d14, <1>d15, <1>d16, <1>d17, <1>d18, <1>d19, <1>d20,
       <1>d21, <1>d22, <1>d23, <1>d24, <1>d25 DEF Apart
<1>9. Apart(PutNutation, blocks)
    BY <1>d0, <1>d1, <1>d2, <1>d3, <1>d4, <1>d5, <1>d6, <1>d7, <1>d8, <1>d9, <1>d10,
       <1>d11, <1>d12, <1>d13, <1>d14, <1>d15, <1>d16, <1>d17, <1>d18, <1>d19, <1>d20,
       <1>d21, <1>d22, <1>d23, <1>d24, <1>d25 DEF Apart
<1>10. Apart(PutExper, blocks)
    BY <1>d0, <1>d1, <1>d2, <1>d3, <1>d4, <1>d5, <1>d6, <1>d7, <1>d8, <1>d9, <1>d10,
       <1>d11, <1>d12, <1>d13, <1>d14, <1>d15, <1>d16, <1>d17, <1>d18, <1>d19, <1>d20,
       <1>d21, <1>d22, <1>d23, <1>d24, <1>d25 DEF Apart
<1>11. Apart(PutPeople, blocks)
    BY <1>d0, <1>d1, <1>d2, <1>d3, <1>d4, <1>d5, <1>d6, <1>d7, <1>d8, <1>d9, <1>d10,
       <1>d11, <1>d12, <1>d13, <1>d14, <1>d15, <1>d16, <1>d17, <1>d18, <1>d19, <1>d20,
       <1>d21, <1>d22, <1>d23, <1>d24, <1>d25 DEF Apart
<1>12. Apart(PutFreq, blocks)
    BY <1>d0, <1>d1, <1>d2, <1>d3, <1>d4, <1>d5, <1>d6, <1>d7, <1>d8, <1>d9, <1>d10,
       <1>d11, <1>d12, <1>d13, <1>d14, <1>d15, <1>d16, <1>d17, <1>d18, <1>d19, <1>d20,
       <1>d21, <1>d22, <1>d23, <1>d24, <1>d25 DEF Apart
<1>13. Apart(PutHeadPos, blocks)
    BY <1>d0, <1>d1, <1>d2, <1>d3, <1>d4, <1>d5, <1>d6, <1>d7, <1>d8, <1>d9, <1>d10,
       <1>d11, <1>d12, <1>d13, <1>d14, <1>d15, <1>d16, <1>d17, <1>d18, <1>d19, <1>d20,
       <1>d21, <1>d22, <1>d23, <1>d24, <1>d25 DEF Apart
<1>14. Apart(PutIf, blocks)
    BY <1>d0, <1>d1, <1>d2, <1>d3, <1>d4, <1>d5, <1>d6, <1>d7, <1>d8, <1>d9, <1>d10,
       <1>d11, <1>d12, <1>d13, <1>d14, <1>d15, <1>d16, <1>d17, <1>d18, <1>d19, <1>d20,
       <1>d21, <1>d22, <1>d23, <1>d24, <1>d25 DEF Apart
<1>15. Apart(PutPassOrder, blocks)
    BY <1>d0, <1>d1, <1>d2, <1>d3, <1>d4, <1>d5, <1>d6, <1>d7, <1>d8, <1>d9, <1>d10,
       <1>d11, <1>d12, <1>d13, <1>d14, <1>d15, <1>d16, <1>d17, <1>d18, <1>d19, <1>d20,
       <1>d21, <1>d22, <1>d23, <1>d24, <1>d25 DEF Apart
<1>16. Apart(PutPhaseCal, blocks)
    BY <1>d0, <1>d1, <1>d2, <1>d3, <1>d4, <1>d5, <1>d6, <1>d7, <1>d8, <1>d9, <1>d10,
       <1>d11, <1>d12, <1>d13, <1>d14, <1>d15, <1>d16, <1>d17, <1>d18, <1>d19, <1>d20,
       <1>d21, <1>d22, <1>d23, <1>d24, <1>d25 DEF Apart
<1>17. Apart(PutProcedures, blocks)
    BY <1>d0, <1>d1, <1>d2, <1>d3, <1>d4, <1>d5, <1>d6, <1>d7, <1>d8, <1>d9, <1>d10,
       <1>d11, <1>d12, <1>d13, <1>d14, <1>d15, <1>d16, <1>d17, <1>d18, <1>d19, <1>d20,
       <1>d21, <1>d22, <1>d23, <1>d24, <1>d25 DEF Apart
<1>18. Apart(PutRoll, blocks)
    BY <1>d0, <1>d1, <1>d2, <1>d3, <1>d4, <1>d5, <1>d6, <1>d7, <1>d8, <1>d9, <1>d10,
       <1>d11, <1>d12, <1>d13, <1>d14, <1>d15, <1>d16, <1>d17, <1>d18, <1>d19, <1>d20,
       <1>d21, <1>d22, <1>d23, <1>d24, <1>d25 DEF Apart
<1>19. Apart(PutSefd, blocks)
    BY <1>d0, <1>d1, <1>d2, <1>d3, <1>d4, <1>d5, <1>d6, <1>d7, <1>d8, <1>d9, <1>d10,
       <1>d11, <1>d12, <1>d13, <1>d14, <1>d15, <1>d16, <1>d17, <1>d18, <1>d19, <1>d20,
       <1>d21, <1>d22, <1>d23, <1>d24, <1>d25 DEF Apart
<1>20. Apart(PutSite, blocks)
    BY <1>d0, <1>d1, <1>d2, <1>d3, <1>d4, <1>d5, <1>d6, <1>d7, <1>d8, <1>d9, <1>d10,
       <1>d11, <1>d12, <1>d13, <1>d14, <1>d15, <1>d16, <1>d17, <1>d18, <1>d19, <1>d20,
       <1>d21, <1>d22, <1>d23, <1>d24, <1>d25 DEF Apart
<1>21. Apart(PutOrbit, blocks)
    BY <1>d0, <1>d1, <1>d2, <1>d3, <1>d4, <1>d5, <1>d6, <1>d7, <1>d8, <1>d9, <1>d10,
       <1>d11, <1>d12, <1>d13, <1>d14, <1>d15, <1>d16, <1>d17, <1>d18, <1>d19, <1>d20,
       <1>d21, <1>d22, <1>d23, <1>d24, <1>d25 DEF Apart
<1>22. Apart(PutSource, blocks)
    BY <1>d0, <1>d1, <1>d2, <1>d3, <1>d4, <1>d5, <1>d6, <1>d7, <1>d8, <1>d9, <1>d10,
       <1>d11, <1>d12, <1>d13, <1>d14, <1>d15, <1>d16, <1>d17, <1>d18, <1>d19, <1>d20,
       <1>d21, <1>d22, <1>d23, <1>d24, <1>d25 DEF Apart
<1>23. Apart(PutSourceModel, blocks)
    BY <1>d0, <1>d1, <1>d2, <1>d3, <1>d4, <1>d5, <1>d6, <1>d7, <1>d8, <1>d9, <1>d10,
       <1>d11, <1>d12, <1>d13, <1>d14, <1>d15, <1>d16, <1>d17, <1>d18, <1>d19, <1>d20,
       <1>d21, <1>d22, <1>d23, <1>d24, <1>d25 DEF Apart
<1>24. Apart(PutVsn, blocks)
    BY <1>d0, <1>d1, <1>d2, <1>d3, <1>d4, <1>d5, <1>d6, <1>d7, <1>d8, <1>d9, <1>d10,
       <1>d11, <1>d12, <1>d13, <1>d14, <1>d15, <1>d16, <1>d17, <1>d18, <1>d19, <1>d20,
       <1>d21, <1>d22, <1>d23, <1>d24, <1>d25 DEF Apart
<1>25. Apart(PutFan, blocks)
    BY <1>d0, <1>d1, <1>d2, <1>d3, <1>d4, <1>d5, <1>d6, <1>d7, <1>d8, <1>d9, <1>d10,
       <1>d11, <1>d12, <1>d13, <1>d14, <1>d15, <1>d16, <1>d17, <1>d18, <1>d19, <1>d20,
       <1>d21, <1>d22, <1>d23, <1>d24, <1>d25 DEF Apart
<1>26. Apart(PutTracks, blocks)
    BY <1>d0, <1>d1, <1>d2, <1>d3, <1>d4, <1>d5, <1>d6, <1>d7, <1>d8, <1>d9, <1>d10,
       <1>d11, <1>d12, <1>d13, <1>d14, <1>d15, <1>d16, <1>d17, <1>d18, <1>d19, <1>d20,
       <1>d21, <1>d22, <1>d23, <1>d24, <1>d25 DEF Apart
<1> HIDE DEF blocks
<1>27. Put = Joined(blocks)
    BY DEF Put, blocks
<1>28. /\ PutSched \in blocks /\ PutAntenna \in blocks /\ PutBbc \in blocks
      /\ PutClock \in blocks /\ PutDas \in blocks /\ PutTape \in blocks
      /\ PutEop \in blocks /\ PutEopLists \in blocks /\ PutNutation \in blocks
      /\ PutExper \in blocks /\ PutPeople \in blocks /\ PutFreq \in blocks
      /\ PutHeadPos \in blocks /\ PutIf \in blocks /\ PutPassOrder \in blocks
      /\ PutPhaseCal \in blocks /\ PutProcedures \in blocks /\ PutRoll \in blocks
      /\ PutSefd \in blocks /\ PutSite \in blocks /\ PutOrbit \in blocks
      /\ PutSource \in blocks /\ PutSourceModel \in blocks /\ PutVsn \in blocks
      /\ PutFan \in blocks /\ PutTracks \in blocks
    BY DEF blocks
<1> QED
    BY <1>1, <1>2, <1>3, <1>4, <1>5, <1>6, <1>7, <1>8, <1>9, <1>10, <1>11, <1>12,
       <1>13, <1>14, <1>15, <1>16, <1>17, <1>18, <1>19, <1>20, <1>21, <1>22, <1>23,
       <1>24, <1>25, <1>26, <1>27, <1>28, JoinedAt

\* No statement of the fields is in two blocks: each block is part of Get.
LEMMA GetBlocks ==
    /\ Part(GetFreq, Get) /\ Part(GetSched, Get) /\ Part(GetAntenna, Get)
    /\ Part(GetBbcClock, Get) /\ Part(GetDas, Get) /\ Part(GetHeadPos, Get)
    /\ Part(GetIf, Get) /\ Part(GetSetup, Get) /\ Part(GetCal, Get)
    /\ Part(GetSefd, Get) /\ Part(GetSite, Get) /\ Part(GetSourceModel, Get)
    /\ Part(GetVsn, Get) /\ Part(GetFan, Get) /\ Part(GetVlba, Get)
    /\ Part(GetValue, Get) /\ Part(GetName, Get) /\ Part(GetDate, Get)
    /\ Part(GetPosition, Get) /\ Part(GetList, Get) /\ Part(GetNames, Get)
<1> DEFINE blocks == {GetFreq, GetSched, GetAntenna, GetBbcClock, GetDas, GetHeadPos,
                      GetIf, GetSetup, GetCal, GetSefd, GetSite, GetSourceModel,
                      GetVsn, GetFan, GetVlba, GetValue, GetName, GetDate, GetPosition,
                      GetList, GetNames}
<1>d0. DOMAIN GetFreq = {"chan_def", "switching_cycle"}
    BY DEF GetFreq
<1>d1. DOMAIN GetSched = {"station", "data_transfer"}
    BY DEF GetSched
<1>d2. DOMAIN GetAntenna = {"axis_type", "antenna_motion", "pointing_sector"}
    BY DEF GetAntenna
<1>d3. DOMAIN GetBbcClock = {"BBC_assign", "clock_early"}
    BY DEF GetBbcClock
<1>d4. DOMAIN GetDas = {"headstack", "tape_length", "tape_motion"}
    BY DEF GetDas
<1>d5. DOMAIN GetHeadPos = {"headstack_pos"}
    BY DEF GetHeadPos
<1>d6. DOMAIN GetIf = {"if_def", "phase_cal_detect"}
    BY DEF GetIf
<1>d7. DOMAIN GetSetup = {"setup_always", "parity_check", "tape_prepass"}
    BY DEF GetSetup
<1>d8. DOMAIN GetCal = {"preob_cal", "midob_cal", "postob_cal"}
    BY DEF GetCal
<1>d9. DOMAIN GetSefd = {"sefd"}
    BY DEF GetSefd
<1>d10. DOMAIN GetSite = {"site_position", "site_velocity", "ocean_load_vert",
          "ocean_load_horiz"}
    BY DEF GetSite
<1>d11. DOMAIN GetSourceModel = {"source_model"}
    BY DEF GetSourceModel
<1>d12. DOMAIN GetVsn = {"VSN"}
    BY DEF GetVsn
<1>d13. DOMAIN GetFan = {"fanin_def", "fanout_def"}
    BY DEF GetFan
<1>d14. DOMAIN GetVlba = {"VLBA_frmtr_sys_trk", "S2_data_source"}
    BY DEF GetVlba
<1>d15. DOMAIN GetValue = {"VEX_rev", "sample_rate", "bits_per_sample", "antenna_diam",
          "axis_offset", "number_drives", "record_density", "recording_system_ID",
          "TAI_UTC", "A1_TAI", "num_eop_points", "eop_interval", "num_nut_points",
          "nut_interval", "exper_num", "tape_change", "headstack_motion",
          "new_source_command", "new_tape_setup", "roll_reinit_period",
          "roll_inc_period", "zen_atmos", "inclination", "eccentricity", "arg_perigee",
          "ascending_node", "mean_anomaly", "semi_major_axis", "mean_motion",
          "ra_rate", "dec_rate", "velocity_wrt_LSR"}
    BY DEF GetValue
<1>d16. DOMAIN GetName = {"mode", "source", "record_transport_type",
          "electronics_rack_type", "tape_control", "nut_model", "exper_name",
          "exper_description", "PI_name", "PI_email", "contact_name", "contact_email",
          "scheduler_name", "scheduler_email", "target_correlator",
          "procedure_name_prefix", "roll", "sefd_model", "site_type", "site_name",
          "site_ID", "site_position_epoch", "site_position_ref", "occupation_code",
          "source_name", "IAU_name", "ref_coord_frame", "source_position_ref",
          "source_position_epoch", "track_frame_format", "data_modulation",
          "S2_recording_mode"}
    BY DEF GetName
<1>d17. DOMAIN GetDate = {"start", "eop_ref_epoch", "nut_ref_epoch",
          "exper_nominal_start", "exper_nominal_stop", "orbit_epoch"}
    BY DEF GetDate
<1>d18. DOMAIN GetPosition = {"ra", "dec"}
    BY DEF GetPosition
<1>d19. DOMAIN GetList = {"ut1_utc", "x_wobble", "y_wobble", "delta_psi", "delta_eps",
          "S2_group_order", "roll_def", "horizon_map_az", "horizon_map_el",
          "VLBA_trnsprt_sys_trk"}
    BY DEF GetList
<1>d20. DOMAIN GetNames = {"pass_order", "source_type"}
    BY DEF GetNames
<1>1. Apart(GetFreq, blocks)
    BY <1>d0, <1>d1, <1>d2, <1>d3, <1>d4, <1>d5, <1>d6, <1>d7, <1>d8, <1>d9, <1>d10,
       <1>d11, <1>d12, <1>d13, <1>d14, <1>d15, <1>d16, <1>d17, <1>d18, <1>d19, <1>d20 DEF Apart
<1>2. Apart(GetSched, blocks)
    BY <1>d0, <1>d1, <1>d2, <1>d3, <1>d4, <1>d5, <1>d6, <1>d7, <1>d8, <1>d9, <1>d10,
       <1>d11, <1>d12, <1>d13, <1>d14, <1>d15, <1>d16, <1>d17, <1>d18, <1>d19, <1>d20 DEF Apart
<1>3. Apart(GetAntenna, blocks)
    BY <1>d0, <1>d1, <1>d2, <1>d3, <1>d4, <1>d5, <1>d6, <1>d7, <1>d8, <1>d9, <1>d10,
       <1>d11, <1>d12, <1>d13, <1>d14, <1>d15, <1>d16, <1>d17, <1>d18, <1>d19, <1>d20 DEF Apart
<1>4. Apart(GetBbcClock, blocks)
    BY <1>d0, <1>d1, <1>d2, <1>d3, <1>d4, <1>d5, <1>d6, <1>d7, <1>d8, <1>d9, <1>d10,
       <1>d11, <1>d12, <1>d13, <1>d14, <1>d15, <1>d16, <1>d17, <1>d18, <1>d19, <1>d20 DEF Apart
<1>5. Apart(GetDas, blocks)
    BY <1>d0, <1>d1, <1>d2, <1>d3, <1>d4, <1>d5, <1>d6, <1>d7, <1>d8, <1>d9, <1>d10,
       <1>d11, <1>d12, <1>d13, <1>d14, <1>d15, <1>d16, <1>d17, <1>d18, <1>d19, <1>d20 DEF Apart
<1>6. Apart(GetHeadPos, blocks)
    BY <1>d0, <1>d1, <1>d2, <1>d3, <1>d4, <1>d5, <1>d6, <1>d7, <1>d8, <1>d9, <1>d10,
       <1>d11, <1>d12, <1>d13, <1>d14, <1>d15, <1>d16, <1>d17, <1>d18, <1>d19, <1>d20 DEF Apart
<1>7. Apart(GetIf, blocks)
    BY <1>d0, <1>d1, <1>d2, <1>d3, <1>d4, <1>d5, <1>d6, <1>d7, <1>d8, <1>d9, <1>d10,
       <1>d11, <1>d12, <1>d13, <1>d14, <1>d15, <1>d16, <1>d17, <1>d18, <1>d19, <1>d20 DEF Apart
<1>8. Apart(GetSetup, blocks)
    BY <1>d0, <1>d1, <1>d2, <1>d3, <1>d4, <1>d5, <1>d6, <1>d7, <1>d8, <1>d9, <1>d10,
       <1>d11, <1>d12, <1>d13, <1>d14, <1>d15, <1>d16, <1>d17, <1>d18, <1>d19, <1>d20 DEF Apart
<1>9. Apart(GetCal, blocks)
    BY <1>d0, <1>d1, <1>d2, <1>d3, <1>d4, <1>d5, <1>d6, <1>d7, <1>d8, <1>d9, <1>d10,
       <1>d11, <1>d12, <1>d13, <1>d14, <1>d15, <1>d16, <1>d17, <1>d18, <1>d19, <1>d20 DEF Apart
<1>10. Apart(GetSefd, blocks)
    BY <1>d0, <1>d1, <1>d2, <1>d3, <1>d4, <1>d5, <1>d6, <1>d7, <1>d8, <1>d9, <1>d10,
       <1>d11, <1>d12, <1>d13, <1>d14, <1>d15, <1>d16, <1>d17, <1>d18, <1>d19, <1>d20 DEF Apart
<1>11. Apart(GetSite, blocks)
    BY <1>d0, <1>d1, <1>d2, <1>d3, <1>d4, <1>d5, <1>d6, <1>d7, <1>d8, <1>d9, <1>d10,
       <1>d11, <1>d12, <1>d13, <1>d14, <1>d15, <1>d16, <1>d17, <1>d18, <1>d19, <1>d20 DEF Apart
<1>12. Apart(GetSourceModel, blocks)
    BY <1>d0, <1>d1, <1>d2, <1>d3, <1>d4, <1>d5, <1>d6, <1>d7, <1>d8, <1>d9, <1>d10,
       <1>d11, <1>d12, <1>d13, <1>d14, <1>d15, <1>d16, <1>d17, <1>d18, <1>d19, <1>d20 DEF Apart
<1>13. Apart(GetVsn, blocks)
    BY <1>d0, <1>d1, <1>d2, <1>d3, <1>d4, <1>d5, <1>d6, <1>d7, <1>d8, <1>d9, <1>d10,
       <1>d11, <1>d12, <1>d13, <1>d14, <1>d15, <1>d16, <1>d17, <1>d18, <1>d19, <1>d20 DEF Apart
<1>14. Apart(GetFan, blocks)
    BY <1>d0, <1>d1, <1>d2, <1>d3, <1>d4, <1>d5, <1>d6, <1>d7, <1>d8, <1>d9, <1>d10,
       <1>d11, <1>d12, <1>d13, <1>d14, <1>d15, <1>d16, <1>d17, <1>d18, <1>d19, <1>d20 DEF Apart
<1>15. Apart(GetVlba, blocks)
    BY <1>d0, <1>d1, <1>d2, <1>d3, <1>d4, <1>d5, <1>d6, <1>d7, <1>d8, <1>d9, <1>d10,
       <1>d11, <1>d12, <1>d13, <1>d14, <1>d15, <1>d16, <1>d17, <1>d18, <1>d19, <1>d20 DEF Apart
<1>16. Apart(GetValue, blocks)
    BY <1>d0, <1>d1, <1>d2, <1>d3, <1>d4, <1>d5, <1>d6, <1>d7, <1>d8, <1>d9, <1>d10,
       <1>d11, <1>d12, <1>d13, <1>d14, <1>d15, <1>d16, <1>d17, <1>d18, <1>d19, <1>d20 DEF Apart
<1>17. Apart(GetName, blocks)
    BY <1>d0, <1>d1, <1>d2, <1>d3, <1>d4, <1>d5, <1>d6, <1>d7, <1>d8, <1>d9, <1>d10,
       <1>d11, <1>d12, <1>d13, <1>d14, <1>d15, <1>d16, <1>d17, <1>d18, <1>d19, <1>d20 DEF Apart
<1>18. Apart(GetDate, blocks)
    BY <1>d0, <1>d1, <1>d2, <1>d3, <1>d4, <1>d5, <1>d6, <1>d7, <1>d8, <1>d9, <1>d10,
       <1>d11, <1>d12, <1>d13, <1>d14, <1>d15, <1>d16, <1>d17, <1>d18, <1>d19, <1>d20 DEF Apart
<1>19. Apart(GetPosition, blocks)
    BY <1>d0, <1>d1, <1>d2, <1>d3, <1>d4, <1>d5, <1>d6, <1>d7, <1>d8, <1>d9, <1>d10,
       <1>d11, <1>d12, <1>d13, <1>d14, <1>d15, <1>d16, <1>d17, <1>d18, <1>d19, <1>d20 DEF Apart
<1>20. Apart(GetList, blocks)
    BY <1>d0, <1>d1, <1>d2, <1>d3, <1>d4, <1>d5, <1>d6, <1>d7, <1>d8, <1>d9, <1>d10,
       <1>d11, <1>d12, <1>d13, <1>d14, <1>d15, <1>d16, <1>d17, <1>d18, <1>d19, <1>d20 DEF Apart
<1>21. Apart(GetNames, blocks)
    BY <1>d0, <1>d1, <1>d2, <1>d3, <1>d4, <1>d5, <1>d6, <1>d7, <1>d8, <1>d9, <1>d10,
       <1>d11, <1>d12, <1>d13, <1>d14, <1>d15, <1>d16, <1>d17, <1>d18, <1>d19, <1>d20 DEF Apart
<1> HIDE DEF blocks
<1>22. Get = Joined(blocks)
    BY DEF Get, blocks
<1>23. /\ GetFreq \in blocks /\ GetSched \in blocks /\ GetAntenna \in blocks
      /\ GetBbcClock \in blocks /\ GetDas \in blocks /\ GetHeadPos \in blocks
      /\ GetIf \in blocks /\ GetSetup \in blocks /\ GetCal \in blocks
      /\ GetSefd \in blocks /\ GetSite \in blocks /\ GetSourceModel \in blocks
      /\ GetVsn \in blocks /\ GetFan \in blocks /\ GetVlba \in blocks
      /\ GetValue \in blocks /\ GetName \in blocks /\ GetDate \in blocks
      /\ GetPosition \in blocks /\ GetList \in blocks /\ GetNames \in blocks
    BY DEF blocks
<1> QED
    BY <1>1, <1>2, <1>3, <1>4, <1>5, <1>6, <1>7, <1>8, <1>9, <1>10, <1>11, <1>12,
       <1>13, <1>14, <1>15, <1>16, <1>17, <1>18, <1>19, <1>20, <1>21, <1>22, <1>23,
       JoinedAt

\* No statement of the grammar is in two blocks: each block is part of Forms.
LEMMA FormsBlocks ==
    /\ Part(SchedForms, Forms) /\ Part(AntennaForms, Forms) /\ Part(BbcForms, Forms)
    /\ Part(ClockForms, Forms) /\ Part(DasForms, Forms) /\ Part(EopForms, Forms)
    /\ Part(ExperForms, Forms) /\ Part(FreqForms, Forms) /\ Part(HeadPosForms, Forms)
    /\ Part(IfForms, Forms) /\ Part(PassOrderForms, Forms)
    /\ Part(PhaseCalForms, Forms) /\ Part(ProceduresForms, Forms)
    /\ Part(RollForms, Forms) /\ Part(SefdForms, Forms) /\ Part(SiteForms, Forms)
    /\ Part(OrbitForms, Forms) /\ Part(SourceForms, Forms) /\ Part(TapelogForms, Forms)
    /\ Part(FanForms, Forms) /\ Part(TracksForms, Forms)
<1> DEFINE blocks == {SchedForms, AntennaForms, BbcForms, ClockForms, DasForms,
                      EopForms, ExperForms, FreqForms, HeadPosForms, IfForms,
                      PassOrderForms, PhaseCalForms, ProceduresForms, RollForms,
                      SefdForms, SiteForms, OrbitForms, SourceForms, TapelogForms,
                      FanForms, TracksForms}
<1>d0. DOMAIN SchedForms = {"start", "mode", "source", "station", "data_transfer"}
    BY DEF SchedForms
<1>d1. DOMAIN AntennaForms = {"antenna_diam", "axis_type", "axis_offset",
          "antenna_motion", "pointing_sector"}
    BY DEF AntennaForms
<1>d2. DOMAIN BbcForms = {"BBC_assign"}
    BY DEF BbcForms
<1>d3. DOMAIN ClockForms = {"clock_early"}
    BY DEF ClockForms
<1>d4. DOMAIN DasForms = {"record_transport_type", "electronics_rack_type",
          "tape_control", "number_drives", "recording_system_ID", "headstack",
          "record_density", "tape_length", "tape_motion"}
    BY DEF DasForms
<1>d5. DOMAIN EopForms = {"TAI_UTC", "A1_TAI", "eop_interval", "nut_interval",
          "eop_ref_epoch", "nut_ref_epoch", "nut_model", "num_eop_points",
          "num_nut_points", "ut1_utc", "x_wobble", "y_wobble", "delta_psi",
          "delta_eps"}
    BY DEF EopForms
<1>d6. DOMAIN ExperForms = {"exper_name", "exper_description", "exper_nominal_start",
          "exper_nominal_stop", "PI_name", "PI_email", "contact_name", "contact_email",
          "scheduler_name", "scheduler_email", "target_correlator", "exper_num"}
    BY DEF ExperForms
<1>d7. DOMAIN FreqForms = {"chan_def", "sample_rate", "bits_per_sample",
          "switching_cycle"}
    BY DEF FreqForms
<1>d8. DOMAIN HeadPosForms = {"headstack_pos"}
    BY DEF HeadPosForms
<1>d9. DOMAIN IfForms = {"if_def"}
    BY DEF IfForms
<1>d10. DOMAIN PassOrderForms = {"pass_order", "S2_group_order"}
    BY DEF PassOrderForms
<1>d11. DOMAIN PhaseCalForms = {"phase_cal_detect"}
    BY DEF PhaseCalForms
<1>d12. DOMAIN ProceduresForms = {"tape_change", "headstack_motion",
          "new_source_command", "new_tape_setup", "setup_always", "parity_check",
          "tape_prepass", "preob_cal", "midob_cal", "postob_cal",
          "procedure_name_prefix"}
    BY DEF ProceduresForms
<1>d13. DOMAIN RollForms = {"roll_reinit_period", "roll_inc_period", "roll",
          "roll_def"}
    BY DEF RollForms
<1>d14. DOMAIN SefdForms = {"sefd_model", "sefd"}
    BY DEF SefdForms
<1>d15. DOMAIN SiteForms = {"site_type", "site_name", "site_ID", "site_position_epoch",
          "site_position_ref", "occupation_code", "site_position", "site_velocity",
          "horizon_map_az", "horizon_map_el", "ocean_load_vert", "ocean_load_horiz",
          "zen_atmos"}
    BY DEF SiteForms
<1>d16. DOMAIN OrbitForms = {"inclination", "arg_perigee", "ascending_node",
          "mean_anomaly", "semi_major_axis", "eccentricity", "mean_motion",
          "orbit_epoch"}
    BY DEF OrbitForms
<1>d17. DOMAIN SourceForms = {"source_name", "IAU_name", "ra", "ref_coord_frame",
          "source_position_ref", "source_position_epoch", "ra_rate", "dec_rate",
          "velocity_wrt_LSR", "source_type", "dec", "source_model"}
    BY DEF SourceForms
<1>d18. DOMAIN TapelogForms = {"VSN"}
    BY DEF TapelogForms
<1>d19. DOMAIN FanForms = {"fanin_def", "fanout_def"}
    BY DEF FanForms
<1>d20. DOMAIN TracksForms = {"track_frame_format", "data_modulation",
          "S2_recording_mode", "VLBA_frmtr_sys_trk", "VLBA_trnsprt_sys_trk",
          "S2_data_source"}
    BY DEF TracksForms
<1>1. Apart(SchedForms, blocks)
    BY <1>d0, <1>d1, <1>d2, <1>d3, <1>d4, <1>d5, <1>d6, <1>d7, <1>d8, <1>d9, <1>d10,
       <1>d11, <1>d12, <1>d13, <1>d14, <1>d15, <1>d16, <1>d17, <1>d18, <1>d19, <1>d20 DEF Apart
<1>2. Apart(AntennaForms, blocks)
    BY <1>d0, <1>d1, <1>d2, <1>d3, <1>d4, <1>d5, <1>d6, <1>d7, <1>d8, <1>d9, <1>d10,
       <1>d11, <1>d12, <1>d13, <1>d14, <1>d15, <1>d16, <1>d17, <1>d18, <1>d19, <1>d20 DEF Apart
<1>3. Apart(BbcForms, blocks)
    BY <1>d0, <1>d1, <1>d2, <1>d3, <1>d4, <1>d5, <1>d6, <1>d7, <1>d8, <1>d9, <1>d10,
       <1>d11, <1>d12, <1>d13, <1>d14, <1>d15, <1>d16, <1>d17, <1>d18, <1>d19, <1>d20 DEF Apart
<1>4. Apart(ClockForms, blocks)
    BY <1>d0, <1>d1, <1>d2, <1>d3, <1>d4, <1>d5, <1>d6, <1>d7, <1>d8, <1>d9, <1>d10,
       <1>d11, <1>d12, <1>d13, <1>d14, <1>d15, <1>d16, <1>d17, <1>d18, <1>d19, <1>d20 DEF Apart
<1>5. Apart(DasForms, blocks)
    BY <1>d0, <1>d1, <1>d2, <1>d3, <1>d4, <1>d5, <1>d6, <1>d7, <1>d8, <1>d9, <1>d10,
       <1>d11, <1>d12, <1>d13, <1>d14, <1>d15, <1>d16, <1>d17, <1>d18, <1>d19, <1>d20 DEF Apart
<1>6. Apart(EopForms, blocks)
    BY <1>d0, <1>d1, <1>d2, <1>d3, <1>d4, <1>d5, <1>d6, <1>d7, <1>d8, <1>d9, <1>d10,
       <1>d11, <1>d12, <1>d13, <1>d14, <1>d15, <1>d16, <1>d17, <1>d18, <1>d19, <1>d20 DEF Apart
<1>7. Apart(ExperForms, blocks)
    BY <1>d0, <1>d1, <1>d2, <1>d3, <1>d4, <1>d5, <1>d6, <1>d7, <1>d8, <1>d9, <1>d10,
       <1>d11, <1>d12, <1>d13, <1>d14, <1>d15, <1>d16, <1>d17, <1>d18, <1>d19, <1>d20 DEF Apart
<1>8. Apart(FreqForms, blocks)
    BY <1>d0, <1>d1, <1>d2, <1>d3, <1>d4, <1>d5, <1>d6, <1>d7, <1>d8, <1>d9, <1>d10,
       <1>d11, <1>d12, <1>d13, <1>d14, <1>d15, <1>d16, <1>d17, <1>d18, <1>d19, <1>d20 DEF Apart
<1>9. Apart(HeadPosForms, blocks)
    BY <1>d0, <1>d1, <1>d2, <1>d3, <1>d4, <1>d5, <1>d6, <1>d7, <1>d8, <1>d9, <1>d10,
       <1>d11, <1>d12, <1>d13, <1>d14, <1>d15, <1>d16, <1>d17, <1>d18, <1>d19, <1>d20 DEF Apart
<1>10. Apart(IfForms, blocks)
    BY <1>d0, <1>d1, <1>d2, <1>d3, <1>d4, <1>d5, <1>d6, <1>d7, <1>d8, <1>d9, <1>d10,
       <1>d11, <1>d12, <1>d13, <1>d14, <1>d15, <1>d16, <1>d17, <1>d18, <1>d19, <1>d20 DEF Apart
<1>11. Apart(PassOrderForms, blocks)
    BY <1>d0, <1>d1, <1>d2, <1>d3, <1>d4, <1>d5, <1>d6, <1>d7, <1>d8, <1>d9, <1>d10,
       <1>d11, <1>d12, <1>d13, <1>d14, <1>d15, <1>d16, <1>d17, <1>d18, <1>d19, <1>d20 DEF Apart
<1>12. Apart(PhaseCalForms, blocks)
    BY <1>d0, <1>d1, <1>d2, <1>d3, <1>d4, <1>d5, <1>d6, <1>d7, <1>d8, <1>d9, <1>d10,
       <1>d11, <1>d12, <1>d13, <1>d14, <1>d15, <1>d16, <1>d17, <1>d18, <1>d19, <1>d20 DEF Apart
<1>13. Apart(ProceduresForms, blocks)
    BY <1>d0, <1>d1, <1>d2, <1>d3, <1>d4, <1>d5, <1>d6, <1>d7, <1>d8, <1>d9, <1>d10,
       <1>d11, <1>d12, <1>d13, <1>d14, <1>d15, <1>d16, <1>d17, <1>d18, <1>d19, <1>d20 DEF Apart
<1>14. Apart(RollForms, blocks)
    BY <1>d0, <1>d1, <1>d2, <1>d3, <1>d4, <1>d5, <1>d6, <1>d7, <1>d8, <1>d9, <1>d10,
       <1>d11, <1>d12, <1>d13, <1>d14, <1>d15, <1>d16, <1>d17, <1>d18, <1>d19, <1>d20 DEF Apart
<1>15. Apart(SefdForms, blocks)
    BY <1>d0, <1>d1, <1>d2, <1>d3, <1>d4, <1>d5, <1>d6, <1>d7, <1>d8, <1>d9, <1>d10,
       <1>d11, <1>d12, <1>d13, <1>d14, <1>d15, <1>d16, <1>d17, <1>d18, <1>d19, <1>d20 DEF Apart
<1>16. Apart(SiteForms, blocks)
    BY <1>d0, <1>d1, <1>d2, <1>d3, <1>d4, <1>d5, <1>d6, <1>d7, <1>d8, <1>d9, <1>d10,
       <1>d11, <1>d12, <1>d13, <1>d14, <1>d15, <1>d16, <1>d17, <1>d18, <1>d19, <1>d20 DEF Apart
<1>17. Apart(OrbitForms, blocks)
    BY <1>d0, <1>d1, <1>d2, <1>d3, <1>d4, <1>d5, <1>d6, <1>d7, <1>d8, <1>d9, <1>d10,
       <1>d11, <1>d12, <1>d13, <1>d14, <1>d15, <1>d16, <1>d17, <1>d18, <1>d19, <1>d20 DEF Apart
<1>18. Apart(SourceForms, blocks)
    BY <1>d0, <1>d1, <1>d2, <1>d3, <1>d4, <1>d5, <1>d6, <1>d7, <1>d8, <1>d9, <1>d10,
       <1>d11, <1>d12, <1>d13, <1>d14, <1>d15, <1>d16, <1>d17, <1>d18, <1>d19, <1>d20 DEF Apart
<1>19. Apart(TapelogForms, blocks)
    BY <1>d0, <1>d1, <1>d2, <1>d3, <1>d4, <1>d5, <1>d6, <1>d7, <1>d8, <1>d9, <1>d10,
       <1>d11, <1>d12, <1>d13, <1>d14, <1>d15, <1>d16, <1>d17, <1>d18, <1>d19, <1>d20 DEF Apart
<1>20. Apart(FanForms, blocks)
    BY <1>d0, <1>d1, <1>d2, <1>d3, <1>d4, <1>d5, <1>d6, <1>d7, <1>d8, <1>d9, <1>d10,
       <1>d11, <1>d12, <1>d13, <1>d14, <1>d15, <1>d16, <1>d17, <1>d18, <1>d19, <1>d20 DEF Apart
<1>21. Apart(TracksForms, blocks)
    BY <1>d0, <1>d1, <1>d2, <1>d3, <1>d4, <1>d5, <1>d6, <1>d7, <1>d8, <1>d9, <1>d10,
       <1>d11, <1>d12, <1>d13, <1>d14, <1>d15, <1>d16, <1>d17, <1>d18, <1>d19, <1>d20 DEF Apart
<1> HIDE DEF blocks
<1>22. Forms = Joined(blocks)
    BY DEF Forms, blocks
<1>23. /\ SchedForms \in blocks /\ AntennaForms \in blocks /\ BbcForms \in blocks
      /\ ClockForms \in blocks /\ DasForms \in blocks /\ EopForms \in blocks
      /\ ExperForms \in blocks /\ FreqForms \in blocks /\ HeadPosForms \in blocks
      /\ IfForms \in blocks /\ PassOrderForms \in blocks /\ PhaseCalForms \in blocks
      /\ ProceduresForms \in blocks /\ RollForms \in blocks /\ SefdForms \in blocks
      /\ SiteForms \in blocks /\ OrbitForms \in blocks /\ SourceForms \in blocks
      /\ TapelogForms \in blocks /\ FanForms \in blocks /\ TracksForms \in blocks
    BY DEF blocks
<1> QED
    BY <1>1, <1>2, <1>3, <1>4, <1>5, <1>6, <1>7, <1>8, <1>9, <1>10, <1>11, <1>12,
       <1>13, <1>14, <1>15, <1>16, <1>17, <1>18, <1>19, <1>20, <1>21, <1>22, <1>23,
       JoinedAt

(* A slot for a column: a text, a value or nothing. *)
One(slot) == slot \in Seq(Entry(Nat)) /\ Len(slot) <= 1

(* The slots of a branch fit the fields: what a column asks for has a text *)
(* when the branch is taken, and only the last slot is a list.             *)
FitsBranch(form, get) ==
    /\ Len(form.slots) = Width(get) /\ DOMAIN form.slots = 1 .. Width(get)
    /\ \A i \in 1 .. Width(get) :
         IF i <= Len(get.columns) THEN One(form.slots[i])
         ELSE form.slots[i] = Many \/ form.slots[i] \in Seq(Entry(Nat))
    /\ \A i \in 1 .. Len(get.columns) : \A need \in get.columns[i].needs :
         \/ form.slots[need[1]] = Null
         \/ form.slots[need[1]][1][1] \in form.needs \ {0}

Fits(put, get) ==
    /\ put.args \in Nat /\ put.empty \in Seq(Entry({0}))
    /\ DOMAIN put.forms \in SUBSET Nat
    /\ \A b \in DOMAIN put.forms : FitsBranch(put.forms[b], get)

(* All the texts there may be. *)
TextsOf(texts) == {0} \cup {texts[k] : k \in Nat}

Given(e, texts) == IF e[1] = 0 THEN 0 ELSE texts[e[1]]

\* An entry with the texts of a call has a text or nothing in each place.
LEMMA MaskIs ==
    ASSUME NEW e \in Entry(Nat), NEW texts
    PROVE  /\ Mask(e, texts) \in Entry(TextsOf(texts))
           /\ Mask(e, texts)[1] = Given(e, texts)
<1> DEFINE T == TextsOf(texts)
           m == Mask(e, texts)
<1>1. e \in Seq(Nat) /\ Len(e) \in {1, 2} /\ \A i \in 1 .. Len(e) : e[i] \in Nat
    BY ElementOfSeq DEF Entry
<1>2. DOMAIN e = 1 .. Len(e)
    BY <1>1, LenProperties
<1>3. \A i \in 1 .. Len(e) : (IF e[i] = 0 THEN 0 ELSE texts[e[i]]) \in T
    BY <1>1 DEF TextsOf
<1>4. m = [i \in 1 .. Len(e) |-> IF e[i] = 0 THEN 0 ELSE texts[e[i]]]
    BY <1>2 DEF Mask
<1> HIDE DEF T, m
<1>5. m \in [1 .. Len(e) -> T]
    BY <1>3, <1>4
<1>6. m \in Seq(T) /\ Len(m) = Len(e)
  <2> DEFINE len == Len(e)
  <2>1. len \in Nat /\ m \in [1 .. len -> T]
    BY <1>1, <1>5
  <2> HIDE DEF len
  <2>2. m \in Seq(T) /\ Len(m) = len
    BY <2>1
  <2> QED
    BY <2>2 DEF len
<1>7. 1 \in 1 .. Len(e)
  <2>1. CASE Len(e) = 1
    BY <2>1
  <2>2. CASE Len(e) = 2
    BY <2>2
  <2> QED
    BY <1>1, <2>1, <2>2
<1> QED
    BY <1>1, <1>4, <1>6, <1>7 DEF Entry, Given, T, m

\* The list of a struct has an entry for each element, with the texts of the call.
LEMMA ListFill ==
    ASSUME NEW put, NEW texts, NEW count \in Nat, NEW slot, slot = Many,
           put.args \in Nat, put.empty \in Seq(Entry({0}))
    PROVE  Fill(put, texts, count, slot) \in Seq(Entry(TextsOf(texts)))
<1> DEFINE T == TextsOf(texts)
           fill == Fill(put, texts, count, slot)
<1>1. ASSUME count = 0
      PROVE  fill \in Seq(Entry(T))
  <2>1. Entry({0}) \subseteq Entry(T)
    <3>1. {0} \subseteq T
      BY DEF TextsOf
    <3>2. Seq({0}) \subseteq Seq(T)
      BY <3>1, SeqMonotonic
    <3> QED
      BY <3>2 DEF Entry
  <2>2. fill = put.empty
    BY <1>1 DEF Fill
  <2> QED
    BY <2>1, <2>2, SeqMonotonic
<1>2. ASSUME count # 0
      PROVE  fill \in Seq(Entry(T))
  <2>1. ASSUME NEW j \in 1 .. count
        PROVE  Element(put.args, put.each, j) \in Entry(Nat)
    <3>1. /\ put.args + 2 * j - 1 \in Nat /\ put.args + 2 * j \in Nat /\ put.args + j \in Nat
      OBVIOUS
    <3> DEFINE a == put.args + 2 * j - 1
               b == put.args + 2 * j
               c == put.args + j
    <3>2. a \in Nat /\ b \in Nat /\ c \in Nat
      BY <3>1
    <3> HIDE DEF a, b, c
    <3>3. <<a, b>> \in Entry(Nat) /\ <<c, 0>> \in Entry(Nat) /\ <<c>> \in Entry(Nat)
      BY <3>2 DEF Entry
    <3>4. Element(put.args, put.each, j) \in {<<a, b>>, <<c, 0>>, <<c>>}
      BY DEF Element, a, b, c
    <3> QED
      BY <3>3, <3>4
  <2>2. fill = [j \in 1 .. count |-> Mask(Element(put.args, put.each, j), texts)]
    BY <1>2 DEF Fill
  <2>3. \A j \in 1 .. count : Mask(Element(put.args, put.each, j), texts) \in Entry(T)
    BY <2>1, MaskIs
  <2> HIDE DEF fill, T
  <2>4. fill \in [1 .. count -> Entry(T)]
    BY <2>2, <2>3
  <2> QED
    BY <2>4
<1> QED
    BY <1>1, <1>2

\* A member that is no list has as many entries as the create function gives it.
LEMMA SlotFill ==
    ASSUME NEW put, NEW texts, NEW count \in Nat, NEW slot \in Seq(Entry(Nat))
    PROVE  /\ Fill(put, texts, count, slot) \in Seq(Entry(TextsOf(texts)))
           /\ Len(Fill(put, texts, count, slot)) = Len(slot)
           /\ 1 <= Len(slot) =>
                Fill(put, texts, count, slot)[1][1] = Given(slot[1], texts)
<1> DEFINE T == TextsOf(texts)
           fill == Fill(put, texts, count, slot)
<1>1. /\ Len(slot) \in Nat /\ DOMAIN slot = 1 .. Len(slot)
      /\ \A i \in 1 .. Len(slot) : slot[i] \in Entry(Nat)
    BY LenProperties, ElementOfSeq
<1>2. slot # Many
  <2>1. SUFFICES ASSUME slot = Many
                 PROVE  FALSE
    OBVIOUS
  <2>2. Len(slot) = 1 /\ slot[1] = << >>
    BY <2>1 DEF Many
  <2>3. << >> \in Entry(Nat)
    BY <1>1, <2>2
  <2> QED
    BY <2>3 DEF Entry
<1>3. fill = [i \in 1 .. Len(slot) |-> Mask(slot[i], texts)]
    BY <1>1, <1>2 DEF Fill
<1>4. \A i \in 1 .. Len(slot) :
        /\ Mask(slot[i], texts) \in Entry(T)
        /\ Mask(slot[i], texts)[1] = Given(slot[i], texts)
    BY <1>1, MaskIs
<1> HIDE DEF fill, T
<1>5. fill \in [1 .. Len(slot) -> Entry(T)]
    BY <1>3, <1>4
<1>6. fill \in Seq(Entry(T)) /\ Len(fill) = Len(slot)
    BY <1>1, <1>5
<1>7. ASSUME 1 <= Len(slot)
      PROVE  fill[1][1] = Given(slot[1], texts)
  <2>1. 1 \in 1 .. Len(slot)
    BY <1>1, <1>7
  <2> QED
    BY <1>3, <1>4, <2>1
<1> QED
    BY <1>6, <1>7 DEF fill, T

\* A create function whose slots fit makes a struct the fields can show.
LEMMA BuildFits ==
    ASSUME NEW put, NEW get, Fits(put, get), NEW texts, NEW count \in Nat,
           Len(get.columns) \in Nat, Ordered(get), Accepts(put, texts)
    PROVE  /\ StructOf(Build(put, texts, count), get, TextsOf(texts))
           /\ Filled(get, Build(put, texts, count))
<1> DEFINE T == TextsOf(texts)
           taken == Min(Met(put, texts))
           form  == put.forms[taken]
           slots == form.slots
           s     == Build(put, texts, count)
           n     == Len(get.columns)
           w     == Width(get)
<1>1. taken \in Met(put, texts)
  <2>1. Met(put, texts) \in SUBSET Nat /\ Met(put, texts) # {}
    BY DEF Met, Fits, Accepts
  <2>2. PICK m \in Met(put, texts) : \A k \in Met(put, texts) : m <= k
    BY <2>1, HasLeast
  <2>3. Min(Met(put, texts)) = m
    BY <2>1, <2>2, MinIs
  <2> QED
    BY <2>3
<1>2. /\ taken \in DOMAIN put.forms
      /\ \A k \in form.needs : texts[k] # 0
    BY <1>1 DEF Met
<1>3. FitsBranch(form, get) /\ put.args \in Nat /\ put.empty \in Seq(Entry({0}))
    BY <1>2 DEF Fits
<1>4. n \in Nat /\ w \in Nat /\ n <= w /\ (get.rest = "none" => w = n)
    BY WidthIs
<1>5. DOMAIN slots = 1 .. w
    BY <1>3 DEF FitsBranch
<1>6. s = [i \in 1 .. w |-> Fill(put, texts, count, slots[i])]
    BY <1>5 DEF Build
<1> HIDE DEF T, form, s, n, w, taken
<1>7. ASSUME NEW i \in 1 .. w
      PROVE  /\ s[i] \in Seq(Entry(T))
             /\ i <= n => /\ Len(s[i]) = Len(slots[i]) /\ Len(s[i]) <= 1
                          /\ 1 <= Len(slots[i]) =>
                               s[i][1][1] = Given(slots[i][1], texts)
  <2>1. s[i] = Fill(put, texts, count, slots[i])
    BY <1>6
  <2>2. \/ slots[i] \in Seq(Entry(Nat)) /\ (i <= n => Len(slots[i]) <= 1)
        \/ slots[i] = Many /\ i > n
    BY <1>3, <1>4 DEF FitsBranch, One, n, w
  <2>3. CASE slots[i] \in Seq(Entry(Nat)) /\ (i <= n => Len(slots[i]) <= 1)
    <3> DEFINE slot == slots[i]
               fill == Fill(put, texts, count, slot)
    <3>1. slot \in Seq(Entry(Nat)) /\ (i <= n => Len(slot) <= 1)
      BY <2>3
    <3> HIDE DEF slots, slot
    <3>2. /\ fill \in Seq(Entry(T)) /\ Len(fill) = Len(slot)
          /\ 1 <= Len(slot) =>
               fill[1][1] = Given(slot[1], texts)
      BY <3>1, SlotFill DEF T
    <3>3. s[i] = fill
      BY <2>1 DEF slot
    <3> QED
      BY <3>1, <3>2, <3>3 DEF slot
  <2>4. CASE slots[i] = Many /\ i > n
    <3>1. s[i] \in Seq(Entry(T))
      BY <1>3, <2>1, <2>4, ListFill DEF T
    <3> QED
      BY <1>4, <2>4, <3>1
  <2> QED
    BY <2>2, <2>3, <2>4
<1>8. s \in Seq(Seq(Entry(T))) /\ Len(s) = w
  <2>1. s \in [1 .. w -> Seq(Entry(T))]
    BY <1>6, <1>7
  <2> QED
    BY <1>4, <2>1
<1>9. StructOf(s, get, T)
  <2>1. \A i \in 1 .. n : Len(s[i]) <= 1
    BY <1>4, <1>7
  <2> QED
    BY <1>8, <2>1 DEF StructOf, n, w
<1>10. ASSUME NEW i \in 1 .. n, NEW need \in get.columns[i].needs, 1 <= Len(s[need[1]])
       PROVE  s[need[1]][1][1] # 0
  <2>1. need[1] \in 1 .. i
    BY <1>10 DEF Ordered, n
  <2>2. need[1] \in 1 .. w /\ need[1] <= n
    BY <1>4, <2>1
  <2>3. 1 <= Len(slots[need[1]])
    BY <1>7, <1>10, <2>2
  <2>4. slots[need[1]][1][1] \in form.needs \ {0}
    BY <1>3, <1>10, <2>3 DEF FitsBranch, Null, n
  <2> QED
    BY <1>2, <1>7, <2>2, <2>3, <2>4 DEF Given
<1> QED
    BY <1>9, <1>10 DEF Filled, T, s, n

(* The create function, the fields and the grammar of a statement fit.    *)
Agrees(s) == Fits(Put[s], Get[s]) /\ InStep(s)

\* A text, a value with units and one without fill a slot of one entry.
LEMMA Ones ==
    ASSUME NEW k \in Nat
    PROVE  /\ One(Str(k)) /\ One(Unit(k)) /\ One(Value(k)) /\ One(Null)
           /\ Str(k)[1][1] = k /\ Unit(k)[1][1] = k /\ Value(k)[1][1] = k
<1>1. <<k>> \in Entry(Nat) /\ <<k, k + 1>> \in Entry(Nat) /\ <<k, 0>> \in Entry(Nat)
    BY DEF Entry
<1> DEFINE E == Entry(Nat)
           a == <<k>>
           b == <<k, k + 1>>
           c == <<k, 0>>
<1>2. a[1] = k /\ b[1] = k /\ c[1] = k
    OBVIOUS
<1>3. a \in E /\ b \in E /\ c \in E
    BY <1>1
<1> HIDE DEF E, a, b, c
<1>4. <<a>> \in Seq(E) /\ <<b>> \in Seq(E) /\ <<c>> \in Seq(E) /\ << >> \in Seq(E)
    BY <1>3
<1>5. Str(k) = <<a>> /\ Unit(k) = <<b>> /\ Value(k) = <<c>>
    BY DEF Str, Unit, Value, a, b, c
<1> QED
    BY <1>2, <1>4, <1>5 DEF E, One, Null

\* What stands in a list to which nothing was added: nothing, or one empty value.
LEMMA EmptyList == << >> \in Seq(Entry({0})) /\ << <<0, 0>> >> \in Seq(Entry({0}))
<1>1. <<0, 0>> \in Entry({0})
    BY DEF Entry
<1> DEFINE a == <<0, 0>>
           E == Entry({0})
<1>2. a \in E
    BY <1>1
<1> HIDE DEF a, E
<1>3. <<a>> \in Seq(E)
    BY <1>2
<1> QED
    BY <1>3 DEF a, E

(* Columns some of which end the statement. *)
Asking(cols, n) ==
    /\ Len(cols) = n /\ DOMAIN cols = 1 .. n
    /\ \A i \in 1 .. n : cols[i].slot = i /\ cols[i].at = 1
    /\ \A i \in 1 .. n : \A need \in cols[i].needs : need[1] \in 1 .. i /\ need[2] = 1

InOrderForms(forms, n) ==
    \A form \in forms : \E letters :
       /\ form = InOrder(letters, n)
       /\ Len(letters) \in 0 .. n /\ DOMAIN letters = 1 .. Len(letters)

Answering(forms, cols, n) ==
    /\ DOMAIN forms \in SUBSET Nat
    /\ \A b \in DOMAIN forms :
         /\ Len(forms[b].slots) = n /\ DOMAIN forms[b].slots = 1 .. n
         /\ \A i \in 1 .. n : One(forms[b].slots[i])
         /\ \A i \in 1 .. n : \A need \in cols[i].needs :
              \/ forms[b].slots[need[1]] = Null
              \/ forms[b].slots[need[1]][1][1] \in forms[b].needs \ {0}

\* A statement that ends where a column asks for a slot that is not there.
LEMMA AskingAgrees ==
    ASSUME NEW s, NEW n \in Nat, NEW cols, NEW args \in Nat, NEW branches,
           Asking(cols, n), Get[s] = Fixed(cols), InOrderForms(Forms[s], n),
           Put[s] = Branches(args, branches), Answering(branches, cols, n)
    PROVE  Agrees(s)
<1> DEFINE get == Get[s]
<1>1. get.columns = cols /\ get.rest = "none" /\ Len(cols) = n
    BY DEF Fixed, Asking
<1>2. Width(get) = n
    BY <1>1, WidthIs
<1>3. Ordered(get)
    BY <1>1 DEF Ordered, Asking
<1>4. ASSUME NEW form \in Forms[s]
      PROVE  Aligned(form, get)
  <2>1. PICK letters : /\ form = InOrder(letters, n) /\ Len(letters) \in 0 .. n
                       /\ DOMAIN letters = 1 .. Len(letters)
    BY DEF InOrderForms
  <2>2. /\ form.letters = letters /\ form.least = 0 /\ form.most = 0 /\ form.width = n
        /\ \A i \in 1 .. Len(letters) : form.slots[i] = i
    BY <2>1 DEF InOrder, Form
  <2> HIDE DEF get
  <2> QED
    BY <1>1, <1>2, <2>1, <2>2 DEF Aligned
<1>5. Fits(Put[s], get)
  <2>1. Put[s].args = args /\ Put[s].empty = << >> /\ Put[s].forms = branches
    BY DEF Branches
  <2> HIDE DEF get
  <2>2. \A b \in DOMAIN branches : FitsBranch(branches[b], get)
    BY <1>1, <1>2 DEF FitsBranch, Answering
  <2> QED
    BY <2>1, <2>2, EmptyList DEF Fits, Answering
<1> QED
    BY <1>3, <1>4, <1>5 DEF Agrees, InStep

(* Columns none of which ends the statement. *)
InTurn(cols, n) ==
    /\ Len(cols) = n /\ DOMAIN cols = 1 .. n
    /\ \A i \in 1 .. n : cols[i].slot = i /\ cols[i].at = 1 /\ cols[i].needs = {}

Singles(slots, n) ==
    Len(slots) = n /\ DOMAIN slots = 1 .. n /\ \A i \in 1 .. n : One(slots[i])

\* A statement of one form whose fields are all printed.
LEMMA FixedAgrees ==
    ASSUME NEW s, NEW n \in Nat, NEW cols, NEW args \in Nat, NEW slots, NEW letters,
           InTurn(cols, n), Get[s] = Fixed(cols), Singles(slots, n),
           \/ Put[s] = Checked(args, slots)
           \/ Put[s] = Unchecked(args, slots)
           \/ \E needs : Put[s] = Branches(args, <<Branch(needs, slots)>>),
           Len(letters) = n, DOMAIN letters = 1 .. n, Forms[s] = Only(letters)
    PROVE  Agrees(s)
<1>1. Asking(cols, n)
    BY DEF InTurn, Asking
<1>2. InOrderForms(Forms[s], n)
  <2>1. \A form \in Forms[s] : form = InOrder(letters, n)
    BY DEF Only
  <2>2. Len(letters) \in 0 .. n /\ DOMAIN letters = 1 .. Len(letters)
    OBVIOUS
  <2> QED
    BY <2>1, <2>2 DEF InOrderForms
<1>3. ASSUME NEW needs, Put[s] = Branches(args, <<Branch(needs, slots)>>)
      PROVE  Agrees(s)
  <2> DEFINE branches == <<Branch(needs, slots)>>
  <2>1. DOMAIN branches = {1} /\ branches[1].slots = slots
    BY DEF Branch
  <2>2. Put[s] = Branches(args, branches)
    BY <1>3
  <2> HIDE DEF branches
  <2>3. Answering(branches, cols, n)
    BY <2>1 DEF Answering, InTurn, Singles
  <2> QED
    BY <1>1, <1>2, <2>2, <2>3, AskingAgrees
<1> QED
    BY <1>3 DEF Checked, Unchecked

(* Forms of n fields and a list. *)
InList(form, n) ==
    LET m == Len(form.letters)
    IN  /\ m \in Nat /\ n <= m /\ form.least \in Nat /\ form.most \in Nat
        /\ form.width = n + 1
        /\ \A i \in 1 .. m : form.slots[i] = IF i <= n THEN i ELSE n + 1
        /\ \/ \A i \in n + 1 .. m : form.letters[i] \in Solid
           \/ m = n + 1 /\ form.most = 0 /\ form.letters[m] # "d"
        /\ form.most > 0 =>
             /\ Len(form.list) \in Nat \ {0}
             /\ \A i \in 1 .. Len(form.list) : form.list[i] \in Solid

(* Branches that fill n slots and a list. *)
InListSlots(branches, n) ==
    /\ DOMAIN branches \in SUBSET Nat
    /\ \A b \in DOMAIN branches :
         LET slots == branches[b].slots
         IN  /\ Len(slots) = n + 1 /\ DOMAIN slots = 1 .. n + 1
             /\ \A i \in 1 .. n : One(slots[i])
             /\ slots[n + 1] = Many \/ slots[n + 1] \in Seq(Entry(Nat))

(* A create function that does so. *)
MakesList(put, n) ==
    /\ put.args \in Nat /\ put.empty \in Seq(Entry({0}))
    /\ InListSlots(put.forms, n)

\* A statement that ends with a list.
LEMMA ListAgrees ==
    ASSUME NEW s, NEW n \in Nat, NEW cols, NEW kind, kind # "none",
           InTurn(cols, n), Get[s] = Listed(cols, kind),
           MakesList(Put[s], n), \A form \in Forms[s] : InList(form, n)
    PROVE  Agrees(s)
<1> DEFINE get == Get[s]
<1>1. get.columns = cols /\ get.rest = kind /\ Len(cols) = n
    BY DEF Listed, InTurn
<1>2. Width(get) = n + 1
    BY <1>1, WidthIs
<1>3. Ordered(get)
    BY <1>1 DEF Ordered, InTurn
<1> HIDE DEF get
<1>4. ASSUME NEW form \in Forms[s]
      PROVE  Aligned(form, get)
  <2>1. InList(form, n)
    OBVIOUS
  <2> QED
    BY <1>1, <1>2, <2>1 DEF InList, Aligned
<1>5. ASSUME NEW b \in DOMAIN Put[s].forms
      PROVE  FitsBranch(Put[s].forms[b], get)
  <2> DEFINE slots == Put[s].forms[b].slots
  <2>1. /\ Len(slots) = n + 1 /\ DOMAIN slots = 1 .. n + 1
        /\ \A i \in 1 .. n : One(slots[i])
        /\ slots[n + 1] = Many \/ slots[n + 1] \in Seq(Entry(Nat))
    BY DEF MakesList, InListSlots
  <2>2. \A i \in 1 .. n + 1 : ~ i <= n => i = n + 1
    OBVIOUS
  <2>3. \A i \in 1 .. n : cols[i].needs = {}
    BY DEF InTurn
  <2> HIDE DEF slots
  <2>4. \A i \in 1 .. n + 1 : IF i <= n THEN One(slots[i])
                              ELSE slots[i] = Many \/ slots[i] \in Seq(Entry(Nat))
    BY <2>1, <2>2
  <2> QED
    BY <1>1, <1>2, <2>1, <2>3, <2>4 DEF FitsBranch, slots
<1>6. Fits(Put[s], get)
    BY <1>5 DEF Fits, MakesList, InListSlots
<1> QED
    BY <1>3, <1>4, <1>6 DEF Agrees, InStep, get

\* A statement whose struct is one list.
LEMMA ListOnly ==
    ASSUME NEW branches, DOMAIN branches \in SUBSET Nat,
           \A b \in DOMAIN branches : \E slot \in Seq(Entry(Nat)) : branches[b].slots = <<slot>>
    PROVE  InListSlots(branches, 0)
<1> SUFFICES ASSUME NEW b \in DOMAIN branches
             PROVE  LET slots == branches[b].slots
                    IN  /\ Len(slots) = 0 + 1 /\ DOMAIN slots = 1 .. 0 + 1
                        /\ \A i \in 1 .. 0 : One(slots[i])
                        /\ slots[0 + 1] = Many \/ slots[0 + 1] \in Seq(Entry(Nat))
    BY DEF InListSlots
<1>1. PICK slot \in Seq(Entry(Nat)) : branches[b].slots = <<slot>>
    OBVIOUS
<1>2. Len(<<slot>>) = 1 /\ DOMAIN <<slot>> = 1 .. 1 /\ <<slot>>[1] = slot
    OBVIOUS
<1>3. 0 + 1 = 1 /\ 1 .. 0 = {}
    OBVIOUS
<1> QED
    BY <1>1, <1>2, <1>3

\* The forms with a list of the grammar.
LEMMA ListForms ==
    ASSUME NEW n \in Nat, NEW letters, Len(letters) = n, DOMAIN letters = 1 .. n
    PROVE  /\ \A form \in UnitList(letters) : InList(form, n)
           /\ \A least, most \in Nat : \A form \in Values(letters, least, most) : InList(form, n)
           /\ \A list : \A least, most \in Nat :
                Len(list) \in Nat \ {0} /\ (\A i \in 1 .. Len(list) : list[i] \in Solid) =>
                  InList(Repeating(InOrder(letters, n + 1), list, least, most), n)
<1>1. ASSUME NEW list, NEW least \in Nat, NEW most \in Nat, Len(list) \in Nat \ {0},
             \A i \in 1 .. Len(list) : list[i] \in Solid
      PROVE  InList(Repeating(InOrder(letters, n + 1), list, least, most), n)
  <2> DEFINE form == Repeating(InOrder(letters, n + 1), list, least, most)
  <2>1. /\ form.letters = letters /\ form.least = least /\ form.most = most
        /\ form.list = list /\ form.width = n + 1 /\ \A i \in 1 .. n : form.slots[i] = i
    BY DEF Repeating, InOrder, Form
  <2> HIDE DEF form
  <2>2. InList(form, n)
    BY <1>1, <2>1 DEF InList
  <2> QED
    BY <2>2 DEF form
<1>2. ASSUME NEW form \in UnitList(letters)
      PROVE  InList(form, n)
  <2> DEFINE list == <<"U", "O">>
  <2>1. form = Repeating(InOrder(letters, n + 1), list, 1, Endless)
    BY DEF UnitList
  <2>2. Len(list) \in Nat \ {0} /\ (\A i \in 1 .. Len(list) : list[i] \in Solid)
    BY DEF Solid
  <2>3. 1 \in Nat /\ Endless \in Nat
    BY DEF Endless
  <2> HIDE DEF list
  <2> QED
    BY <1>1, <2>1, <2>2, <2>3
<1>3. ASSUME NEW least \in Nat, NEW most \in Nat, NEW form \in Values(letters, least, most)
      PROVE  InList(form, n)
  <2> DEFINE list == <<"V">>
  <2>1. form = Repeating(InOrder(letters, n + 1), list, least, most)
    BY DEF Values
  <2>2. Len(list) \in Nat \ {0} /\ (\A i \in 1 .. Len(list) : list[i] \in Solid)
    BY DEF Solid
  <2> HIDE DEF list
  <2> QED
    BY <1>1, <2>1, <2>2
<1> QED
    BY <1>1, <1>2, <1>3

(* Slots for n columns, then the elements of the caller's list. *)
Slotted(slots, n) ==
    /\ Len(slots) = n + 1 /\ DOMAIN slots = 1 .. n + 1
    /\ \A i \in 1 .. n : One(slots[i])
    /\ slots[n + 1] = Many

\* What a create function with a list says.
LEMMA ListingIs ==
    ASSUME NEW n \in Nat, NEW args \in Nat, NEW each, NEW slots, Slotted(slots, n)
    PROVE  MakesList(Listing(args, slots, each), n)
<1> DEFINE put == Listing(args, slots, each)
<1>1. /\ put.args = args /\ put.empty = << >>
      /\ put.forms = << Branch({}, slots) >>
    BY DEF Listing, Unchecked, Branches
<1>2. InListSlots(<< Branch({}, slots) >>, n)
  <2> DEFINE branches == << Branch({}, slots) >>
  <2>1. DOMAIN branches = {1} /\ branches[1].slots = slots
    BY DEF Branch
  <2> HIDE DEF branches
  <2>2. InListSlots(branches, n)
    BY <2>1 DEF InListSlots, Slotted
  <2> QED
    BY <2>2 DEF branches
<1> HIDE DEF put
<1>3. put.empty \in Seq(Entry({0}))
    BY <1>1, EmptyList
<1>4. MakesList(put, n)
    BY <1>1, <1>2, <1>3 DEF MakesList
<1> QED
    BY <1>4 DEF put

\* A form without a list the fields of which are members or elements of the last one.
LEMMA ClosedForm ==
    ASSUME NEW n \in Nat, NEW m \in Nat, n <= m, NEW letters, Len(letters) = m,
           NEW slots, \A i \in 1 .. m : slots[i] = IF i <= n THEN i ELSE n + 1,
           NEW width, width = n + 1,
           \/ \A i \in n + 1 .. m : letters[i] \in Solid
           \/ m = n + 1 /\ letters[m] # "d"
    PROVE  InList(Form(letters, slots, width), n)
<1> DEFINE form == Form(letters, slots, width)
<1>1. /\ form.letters = letters /\ form.least = 0 /\ form.most = 0
      /\ form.width = width /\ form.slots = slots
    BY DEF Form
<1> HIDE DEF form
<1>2. InList(form, n)
    BY <1>1 DEF InList
<1> QED
    BY <1>2 DEF form

\* A list of which nothing is given.
LEMMA EmptyForm == InList(InOrder(<<"e">>, 1), 0)
<1> DEFINE letters == <<"e">>
           slots   == [i \in DOMAIN letters |-> i]
           n == 0
           m == 1
           width == 1
<1>1. Len(letters) = m /\ DOMAIN letters = 1 .. m /\ letters[m] # "d"
    OBVIOUS
<1>2. n \in Nat /\ m \in Nat /\ n <= m /\ width = n + 1 /\ m = n + 1
    OBVIOUS
<1>3. InOrder(<<"e">>, 1) = Form(letters, slots, width)
    BY DEF InOrder
<1>4. \A i \in 1 .. m : slots[i] = IF i <= n THEN i ELSE n + 1
  <2>1. \A i \in 1 .. 1 : slots[i] = 1
    BY <1>1
  <2> HIDE DEF slots
  <2> QED
    BY <2>1
<1> HIDE DEF letters, slots, m, width
<1>5. InList(Form(letters, slots, width), n)
    BY <1>1, <1>2, <1>4, ClosedForm
<1> QED
    BY <1>3, <1>5

(* All the fields are elements of the one list. *)
AllListed(letters, slots) ==
    /\ Len(letters) \in {1, 2}
    /\ \A i \in 1 .. Len(letters) : letters[i] \in Solid /\ slots[i] = 1

\* A list of one or two fields, which are given.
LEMMA TwoForm ==
    ASSUME NEW letters, NEW slots, AllListed(letters, slots)
    PROVE  InList(Form(letters, slots, 1), 0)
<1> DEFINE m == Len(letters)
           n == 0
           width == 1
<1>1. n \in Nat /\ m \in Nat /\ n <= m /\ width = n + 1 /\ Len(letters) = m
    BY DEF AllListed
<1>2. \A i \in 1 .. m : slots[i] = IF i <= n THEN i ELSE n + 1
    BY DEF AllListed
<1>3. \A i \in n + 1 .. m : letters[i] \in Solid
    BY DEF AllListed
<1> HIDE DEF n, m, width
<1>4. InList(Form(letters, slots, width), n)
    BY <1>1, <1>2, <1>3, ClosedForm
<1> QED
    BY <1>4 DEF n, width

\* Statements of one text.
LEMMA NameAgree ==
    \A s \in {"start", "orbit_epoch", "ra", "mode", "source", "procedure_name_prefix",
               "roll", "sefd_model", "site_name", "site_type", "site_ID",
               "site_position_epoch", "site_position_ref", "occupation_code",
               "source_name", "IAU_name", "ref_coord_frame", "source_position_ref",
               "source_position_epoch", "track_frame_format", "data_modulation",
               "S2_recording_mode", "record_transport_type", "electronics_rack_type",
               "tape_control", "nut_model", "exper_name", "exper_description",
               "PI_name", "PI_email", "contact_name", "contact_email", "scheduler_name",
               "scheduler_email", "target_correlator", "eop_ref_epoch", "nut_ref_epoch",
               "exper_nominal_start", "exper_nominal_stop"} : Agrees(s)
<1>1. ASSUME NEW s \in {"start", "orbit_epoch", "ra"}
      PROVE  Agrees(s)
  <2> DEFINE cols == <<Word(1)>>
             slots == <<Str(1)>>
             letters == <<"N">>
  <2>1. Put[s] = Unchecked(1, slots)
    BY PutBlocks DEF Part, PutSched, PutOrbit, PutSource
  <2>2. Get[s] = Fixed(cols)
    BY GetBlocks DEF Part, GetDate, GetPosition
  <2>3. Forms[s] = Only(letters)
    BY FormsBlocks DEF Part, SchedForms, OrbitForms, SourceForms
  <2>4. InTurn(cols, 1)
    BY DEF InTurn, Column, Word
  <2>5. Singles(slots, 1) /\ Len(letters) = 1 /\ DOMAIN letters = 1 .. 1
    BY Ones DEF Singles
  <2> HIDE DEF cols, slots, letters
  <2> QED
    BY <2>1, <2>2, <2>3, <2>4, <2>5, FixedAgrees
<1>2. ASSUME NEW s \in {"mode", "source", "procedure_name_prefix", "roll",
                          "sefd_model", "site_name", "site_type", "site_ID",
                          "site_position_epoch", "site_position_ref", "occupation_code",
                          "source_name", "IAU_name", "ref_coord_frame",
                          "source_position_ref", "source_position_epoch",
                          "track_frame_format", "data_modulation", "S2_recording_mode"}
      PROVE  Agrees(s)
  <2> DEFINE cols == <<Text(1)>>
             slots == <<Str(1)>>
             letters == <<"N">>
  <2>1. Put[s] = Unchecked(1, slots)
    BY PutBlocks DEF Part, PutSched, PutProcedures, PutRoll, PutSefd, PutSite, PutSource, PutTracks
  <2>2. Get[s] = Fixed(cols)
    BY GetBlocks DEF Part, GetName
  <2>3. Forms[s] = Only(letters)
    BY FormsBlocks DEF Part, SchedForms, ProceduresForms, RollForms, SefdForms, SiteForms, SourceForms,
       TracksForms
  <2>4. InTurn(cols, 1)
    BY DEF InTurn, Column, Text
  <2>5. Singles(slots, 1) /\ Len(letters) = 1 /\ DOMAIN letters = 1 .. 1
    BY Ones DEF Singles
  <2> HIDE DEF cols, slots, letters
  <2> QED
    BY <2>1, <2>2, <2>3, <2>4, <2>5, FixedAgrees
<1>3. ASSUME NEW s \in {"record_transport_type", "electronics_rack_type",
                          "tape_control", "nut_model", "exper_name",
                          "exper_description", "PI_name", "PI_email", "contact_name",
                          "contact_email", "scheduler_name", "scheduler_email",
                          "target_correlator"}
      PROVE  Agrees(s)
  <2> DEFINE cols == <<Text(1)>>
             slots == <<Str(1)>>
             letters == <<"N">>
  <2>1. Put[s] = Checked(1, slots)
    BY PutBlocks DEF Part, PutDas, PutTape, PutNutation, PutExper, PutPeople
  <2>2. Get[s] = Fixed(cols)
    BY GetBlocks DEF Part, GetName
  <2>3. Forms[s] = Only(letters)
    BY FormsBlocks DEF Part, DasForms, EopForms, ExperForms
  <2>4. InTurn(cols, 1)
    BY DEF InTurn, Column, Text
  <2>5. Singles(slots, 1) /\ Len(letters) = 1 /\ DOMAIN letters = 1 .. 1
    BY Ones DEF Singles
  <2> HIDE DEF cols, slots, letters
  <2> QED
    BY <2>1, <2>2, <2>3, <2>4, <2>5, FixedAgrees
<1>4. ASSUME NEW s \in {"eop_ref_epoch", "nut_ref_epoch", "exper_nominal_start",
                          "exper_nominal_stop"}
      PROVE  Agrees(s)
  <2> DEFINE cols == <<Word(1)>>
             slots == <<Str(1)>>
             letters == <<"N">>
  <2>1. Put[s] = Checked(1, slots)
    BY PutBlocks DEF Part, PutEop, PutNutation, PutExper
  <2>2. Get[s] = Fixed(cols)
    BY GetBlocks DEF Part, GetDate
  <2>3. Forms[s] = Only(letters)
    BY FormsBlocks DEF Part, EopForms, ExperForms
  <2>4. InTurn(cols, 1)
    BY DEF InTurn, Column, Word
  <2>5. Singles(slots, 1) /\ Len(letters) = 1 /\ DOMAIN letters = 1 .. 1
    BY Ones DEF Singles
  <2> HIDE DEF cols, slots, letters
  <2> QED
    BY <2>1, <2>2, <2>3, <2>4, <2>5, FixedAgrees
<1> QED
    BY <1>1, <1>2, <1>3, <1>4

\* Statements of one value with its units.
LEMMA UnitAgree ==
    \A s \in {"antenna_diam", "axis_offset", "TAI_UTC", "A1_TAI", "eop_interval",
               "nut_interval", "sample_rate", "tape_change", "headstack_motion",
               "new_source_command", "new_tape_setup", "roll_reinit_period",
               "zen_atmos", "inclination", "arg_perigee", "ascending_node",
               "mean_anomaly", "semi_major_axis", "ra_rate", "dec_rate",
               "velocity_wrt_LSR"} : Agrees(s)
<1>1. ASSUME NEW s \in {"antenna_diam", "axis_offset", "TAI_UTC", "A1_TAI",
                          "eop_interval", "nut_interval", "sample_rate"}
      PROVE  Agrees(s)
  <2> DEFINE cols == <<Number(1)>>
             slots == <<Unit(1)>>
             letters == <<"U">>
  <2>1. Put[s] = Checked(2, slots)
    BY PutBlocks DEF Part, PutAntenna, PutEop, PutNutation, PutFreq
  <2>2. Get[s] = Fixed(cols)
    BY GetBlocks DEF Part, GetValue
  <2>3. Forms[s] = Only(letters)
    BY FormsBlocks DEF Part, AntennaForms, EopForms, FreqForms
  <2>4. InTurn(cols, 1)
    BY DEF InTurn, Column, Number
  <2>5. Singles(slots, 1) /\ Len(letters) = 1 /\ DOMAIN letters = 1 .. 1
    BY Ones DEF Singles
  <2> HIDE DEF cols, slots, letters
  <2> QED
    BY <2>1, <2>2, <2>3, <2>4, <2>5, FixedAgrees
<1>2. ASSUME NEW s \in {"tape_change", "headstack_motion", "new_source_command",
                          "new_tape_setup", "roll_reinit_period", "zen_atmos",
                          "inclination", "arg_perigee", "ascending_node",
                          "mean_anomaly", "semi_major_axis", "ra_rate", "dec_rate",
                          "velocity_wrt_LSR"}
      PROVE  Agrees(s)
  <2> DEFINE cols == <<Number(1)>>
             slots == <<Unit(1)>>
             letters == <<"U">>
  <2>1. Put[s] = Unchecked(2, slots)
    BY PutBlocks DEF Part, PutProcedures, PutRoll, PutSite, PutOrbit, PutSource
  <2>2. Get[s] = Fixed(cols)
    BY GetBlocks DEF Part, GetValue
  <2>3. Forms[s] = Only(letters)
    BY FormsBlocks DEF Part, ProceduresForms, RollForms, SiteForms, OrbitForms, SourceForms
  <2>4. InTurn(cols, 1)
    BY DEF InTurn, Column, Number
  <2>5. Singles(slots, 1) /\ Len(letters) = 1 /\ DOMAIN letters = 1 .. 1
    BY Ones DEF Singles
  <2> HIDE DEF cols, slots, letters
  <2> QED
    BY <2>1, <2>2, <2>3, <2>4, <2>5, FixedAgrees
<1> QED
    BY <1>1, <1>2

\* Statements of one value without units.
LEMMA ValueAgree ==
    \A s \in {"number_drives", "recording_system_ID", "num_eop_points",
               "num_nut_points", "exper_num", "bits_per_sample", "roll_inc_period",
               "eccentricity", "mean_motion"} : Agrees(s)
<1>1. ASSUME NEW s \in {"number_drives", "recording_system_ID", "num_eop_points",
                          "num_nut_points", "exper_num", "bits_per_sample"}
      PROVE  Agrees(s)
  <2> DEFINE cols == <<Number(1)>>
             slots == <<Value(1)>>
             letters == <<"V">>
  <2>1. Put[s] = Checked(1, slots)
    BY PutBlocks DEF Part, PutDas, PutTape, PutEop, PutNutation, PutExper, PutFreq
  <2>2. Get[s] = Fixed(cols)
    BY GetBlocks DEF Part, GetValue
  <2>3. Forms[s] = Only(letters)
    BY FormsBlocks DEF Part, DasForms, EopForms, ExperForms, FreqForms
  <2>4. InTurn(cols, 1)
    BY DEF InTurn, Column, Number
  <2>5. Singles(slots, 1) /\ Len(letters) = 1 /\ DOMAIN letters = 1 .. 1
    BY Ones DEF Singles
  <2> HIDE DEF cols, slots, letters
  <2> QED
    BY <2>1, <2>2, <2>3, <2>4, <2>5, FixedAgrees
<1>2. ASSUME NEW s \in {"roll_inc_period", "eccentricity", "mean_motion"}
      PROVE  Agrees(s)
  <2> DEFINE cols == <<Number(1)>>
             slots == <<Value(1)>>
             letters == <<"V">>
  <2>1. Put[s] = Unchecked(1, slots)
    BY PutBlocks DEF Part, PutRoll, PutOrbit
  <2>2. Get[s] = Fixed(cols)
    BY GetBlocks DEF Part, GetValue
  <2>3. Forms[s] = Only(letters)
    BY FormsBlocks DEF Part, RollForms, OrbitForms
  <2>4. InTurn(cols, 1)
    BY DEF InTurn, Column, Number
  <2>5. Singles(slots, 1) /\ Len(letters) = 1 /\ DOMAIN letters = 1 .. 1
    BY Ones DEF Singles
  <2> HIDE DEF cols, slots, letters
  <2> QED
    BY <2>1, <2>2, <2>3, <2>4, <2>5, FixedAgrees
<1> QED
    BY <1>1, <1>2

\* The statements of $SCHED that have more than a text.
LEMMA SchedAgree ==
    \A s \in {"station", "data_transfer"} : Agrees(s)
<1>1. Agrees("station")
  <2> DEFINE cols == <<Text(1), Number(2), Number(3), Number(4), Text(5), Link(6)>>
             slots == <<Str(1), Unit(2), Unit(4), Unit(6), Str(8), Str(9), Many>>
             put == Listing(9, slots, "value")
             none == << <<0, 0>> >>
             short == <<"N", "U", "U", "u", "n", "l", "e">>
             long == <<"N", "U", "U", "u", "n", "l">>
  <2>1. Put["station"] = [put EXCEPT !.empty = none]
    BY PutBlocks DEF Part, PutSched
  <2>2. Get["station"] = Listed(cols, "value")
    BY GetBlocks DEF Part, GetSched
  <2>3. Forms["station"] = {InOrder(short, 7)} \cup Values(long, 1, 2)
    BY FormsBlocks DEF Part, SchedForms
  <2>4. InTurn(cols, 6)
    BY DEF InTurn, Column, Link, Number, Text
  <2>5. Slotted(slots, 6)
    BY Ones DEF Slotted
  <2>6. InList(InOrder(short, 7), 6)
    <3> DEFINE order == [i \in DOMAIN short |-> i]
               n == 6
               m == 7
               width == 7
    <3>1. Len(short) = m /\ DOMAIN short = 1 .. m /\ short[m] # "d"
      OBVIOUS
    <3>2. n \in Nat /\ m \in Nat /\ n <= m /\ width = n + 1 /\ m = n + 1
      OBVIOUS
    <3>3. InOrder(short, 7) = Form(short, order, width)
      BY DEF InOrder
    <3>4. \A i \in 1 .. m : order[i] = IF i <= n THEN i ELSE n + 1
      <4>1. \A i \in 1 .. 7 : order[i] = i
        BY <3>1
      <4>2. \A i \in 1 .. 7 : ~ i <= 6 => i = 6 + 1
        OBVIOUS
      <4> HIDE DEF order
      <4> QED
        BY <4>1, <4>2
    <3> HIDE DEF short, order, n, m, width
    <3>5. InList(Form(short, order, width), n)
      BY <3>1, <3>2, <3>4, ClosedForm
    <3> QED
      BY <3>3, <3>5 DEF n
  <2>7. \A form \in Values(long, 1, 2) : InList(form, 6)
    <3>1. Len(long) = 6 /\ DOMAIN long = 1 .. 6
      OBVIOUS
    <3> HIDE DEF long
    <3> QED
      BY <3>1, ListForms
  <2> HIDE DEF cols, slots, short, long
  <2>8. /\ put.args \in Nat /\ InListSlots(put.forms, 6)
    BY <2>5, ListingIs DEF MakesList
  <2>9. put = [args |-> put.args, forms |-> put.forms, each |-> put.each, empty |-> put.empty]
    BY DEF Listing, Unchecked, Branches
  <2>10. none \in Seq(Entry({0}))
    BY EmptyList
  <2> HIDE DEF put, none
  <2>11. /\ Put["station"].args = put.args /\ Put["station"].forms = put.forms
         /\ Put["station"].empty = none
    BY <2>1, <2>9
  <2>12. MakesList(Put["station"], 6)
    BY <2>8, <2>10, <2>11 DEF MakesList
  <2>13. \A form \in Forms["station"] : InList(form, 6)
    BY <2>3, <2>6, <2>7
  <2> QED
    BY <2>2, <2>4, <2>12, <2>13, ListAgrees
<1>2. Agrees("data_transfer")
  <2> DEFINE cols == <<Text(1), Text(2), Text(3), Number(4), Number(5), Text(6)>>
             slots == <<Str(1), Str(2), Str(3), Unit(4), Unit(6), Str(8)>>
             branches == <<Branch({}, slots)>>
             long == <<"n", "n", "n", "d", "d", "n">>
             short == <<"n", "n", "n", "d", "d">>
  <2>1. Put["data_transfer"] = Unchecked(8, slots)
    BY PutBlocks DEF Part, PutSched
  <2>2. Get["data_transfer"] = Fixed(cols)
    BY GetBlocks DEF Part, GetSched
  <2>3. Forms["data_transfer"] = {InOrder(long, 6), InOrder(short, 6)}
    BY FormsBlocks DEF Part, SchedForms
  <2>4. InTurn(cols, 6)
    BY DEF InTurn, Column, Number, Text
  <2>5. Singles(slots, 6)
    BY Ones DEF Singles
  <2>6. /\ Len(long) \in 0 .. 6 /\ DOMAIN long = 1 .. Len(long)
        /\ Len(short) \in 0 .. 6 /\ DOMAIN short = 1 .. Len(short)
    OBVIOUS
  <2> HIDE DEF cols, slots, long, short
  <2>7. DOMAIN branches = {1} /\ branches[1].slots = slots
    BY DEF Branch
  <2>8. Put["data_transfer"] = Branches(8, branches)
    BY <2>1 DEF Unchecked
  <2> HIDE DEF branches
  <2>9. Answering(branches, cols, 6)
    BY <2>4, <2>5, <2>7 DEF Answering, InTurn, Singles
  <2>10. Asking(cols, 6)
    BY <2>4 DEF InTurn, Asking
  <2>11. InOrderForms(Forms["data_transfer"], 6)
    BY <2>3, <2>6 DEF InOrderForms
  <2> QED
    BY <2>2, <2>8, <2>9, <2>10, <2>11, AskingAgrees
<1> QED
    BY <1>1, <1>2

\* The statements of $ANTENNA and $BBC that have more than a value.
LEMMA AntennaAgree ==
    \A s \in {"axis_type", "antenna_motion", "pointing_sector", "BBC_assign"} : Agrees(s)
<1>1. Agrees("axis_type")
  <2> DEFINE cols == <<Text(1), Text(2)>>
             slots == <<Str(1), Str(2)>>
             letters == <<"N", "N">>
  <2>1. Put["axis_type"] = Checked(2, slots)
    BY PutBlocks DEF Part, PutAntenna
  <2>2. Get["axis_type"] = Fixed(cols)
    BY GetBlocks DEF Part, GetAntenna
  <2>3. Forms["axis_type"] = Only(letters)
    BY FormsBlocks DEF Part, AntennaForms
  <2>4. InTurn(cols, 2)
    BY DEF InTurn, Column, Text
  <2>5. Singles(slots, 2) /\ Len(letters) = 2 /\ DOMAIN letters = 1 .. 2
    BY Ones DEF Singles
  <2> HIDE DEF cols, slots, letters
  <2> QED
    BY <2>1, <2>2, <2>3, <2>4, <2>5, FixedAgrees
<1>2. Agrees("antenna_motion")
  <2> DEFINE cols == <<Text(1), Number(2), Number(3)>>
             slots == <<Str(1), Unit(2), Unit(4)>>
             letters == <<"N", "U", "U">>
  <2>1. Put["antenna_motion"] = Checked(5, slots)
    BY PutBlocks DEF Part, PutAntenna
  <2>2. Get["antenna_motion"] = Fixed(cols)
    BY GetBlocks DEF Part, GetAntenna
  <2>3. Forms["antenna_motion"] = Only(letters)
    BY FormsBlocks DEF Part, AntennaForms
  <2>4. InTurn(cols, 3)
    BY DEF InTurn, Column, Number, Text
  <2>5. Singles(slots, 3) /\ Len(letters) = 3 /\ DOMAIN letters = 1 .. 3
    BY Ones DEF Singles
  <2> HIDE DEF cols, slots, letters
  <2> QED
    BY <2>1, <2>2, <2>3, <2>4, <2>5, FixedAgrees
<1>3. Agrees("pointing_sector")
  <2> DEFINE cols == <<Link(1), Text(2), Number(3), Number(4), Text(5), Number(6),
               Number(7)>>
             slots == <<Str(1), Str(2), Unit(3), Unit(5), Str(7), Unit(8), Unit(10)>>
             letters == <<"L", "N", "U", "U", "N", "U", "U">>
  <2>1. Put["pointing_sector"] = Checked(11, slots)
    BY PutBlocks DEF Part, PutAntenna
  <2>2. Get["pointing_sector"] = Fixed(cols)
    BY GetBlocks DEF Part, GetAntenna
  <2>3. Forms["pointing_sector"] = Only(letters)
    BY FormsBlocks DEF Part, AntennaForms
  <2>4. InTurn(cols, 7)
    BY DEF InTurn, Column, Link, Number, Text
  <2>5. Singles(slots, 7) /\ Len(letters) = 7 /\ DOMAIN letters = 1 .. 7
    BY Ones DEF Singles
  <2> HIDE DEF cols, slots, letters
  <2> QED
    BY <2>1, <2>2, <2>3, <2>4, <2>5, FixedAgrees
<1>4. Agrees("BBC_assign")
  <2> DEFINE cols == <<Link(1), Number(2), Link(3)>>
             slots == <<Str(1), Value(2), Str(3)>>
             letters == <<"L", "V", "L">>
  <2>1. Put["BBC_assign"] = Checked(3, slots)
    BY PutBlocks DEF Part, PutBbc
  <2>2. Get["BBC_assign"] = Fixed(cols)
    BY GetBlocks DEF Part, GetBbcClock
  <2>3. Forms["BBC_assign"] = Only(letters)
    BY FormsBlocks DEF Part, BbcForms
  <2>4. InTurn(cols, 3)
    BY DEF InTurn, Column, Link, Number
  <2>5. Singles(slots, 3) /\ Len(letters) = 3 /\ DOMAIN letters = 1 .. 3
    BY Ones DEF Singles
  <2> HIDE DEF cols, slots, letters
  <2> QED
    BY <2>1, <2>2, <2>3, <2>4, <2>5, FixedAgrees
<1> QED
    BY <1>1, <1>2, <1>3, <1>4

\* The statements of $DAS that test their first argument only.
LEMMA DasAgree ==
    \A s \in {"headstack", "record_density"} : Agrees(s)
<1>1. Agrees("headstack")
  <2> DEFINE cols == <<Number(1), Text(2), Bare(3)>>
             slots == <<Value(1), Str(2), Value(3)>>
             letters == <<"V", "n", "V">>
  <2>1. Put["headstack"] = Branches(3, <<Branch({1}, slots)>>)
    BY PutBlocks DEF Part, PutDas
  <2>2. Get["headstack"] = Fixed(cols)
    BY GetBlocks DEF Part, GetDas
  <2>3. Forms["headstack"] = Only(letters)
    BY FormsBlocks DEF Part, DasForms
  <2>4. InTurn(cols, 3)
    BY DEF InTurn, Column, Bare, Number, Text
  <2>5. Singles(slots, 3) /\ Len(letters) = 3 /\ DOMAIN letters = 1 .. 3
    BY Ones DEF Singles
  <2> HIDE DEF cols, slots, letters
  <2> QED
    BY <2>1, <2>2, <2>3, <2>4, <2>5, FixedAgrees
<1>2. Agrees("record_density")
  <2> DEFINE cols == <<Number(1)>>
             slots == <<Unit(1)>>
             letters == <<"U">>
  <2>1. Put["record_density"] = Branches(2, <<Branch({1}, slots)>>)
    BY PutBlocks DEF Part, PutDas
  <2>2. Get["record_density"] = Fixed(cols)
    BY GetBlocks DEF Part, GetValue
  <2>3. Forms["record_density"] = Only(letters)
    BY FormsBlocks DEF Part, DasForms
  <2>4. InTurn(cols, 1)
    BY DEF InTurn, Column, Number
  <2>5. Singles(slots, 1) /\ Len(letters) = 1 /\ DOMAIN letters = 1 .. 1
    BY Ones DEF Singles
  <2> HIDE DEF cols, slots, letters
  <2> QED
    BY <2>1, <2>2, <2>3, <2>4, <2>5, FixedAgrees
<1> QED
    BY <1>1, <1>2

\* The statements that are a list.
LEMMA ListsAgree ==
    \A s \in {"ut1_utc", "x_wobble", "y_wobble", "delta_psi", "delta_eps",
               "pass_order", "S2_group_order", "roll_def"} : Agrees(s)
<1>1. ASSUME NEW s \in {"ut1_utc", "x_wobble", "y_wobble"}
      PROVE  Agrees(s)
  <2> DEFINE cols == << >>
             slots == <<Many>>
  <2>1. Put[s] = Listing(0, slots, "strict")
    BY PutBlocks DEF Part, PutEopLists
  <2>2. Get[s] = Listed(cols, "value")
    BY GetBlocks DEF Part, GetList
  <2>3. Forms[s] = UnitList(<< >>) \cup {InOrder(<<"e">>, 1)}
    BY FormsBlocks DEF Part, EopForms
  <2>4. InTurn(cols, 0)
    BY DEF InTurn
  <2>5. Slotted(slots, 0)
    BY Ones DEF Slotted
  <2>6. \A form \in Forms[s] : InList(form, 0)
    <3> DEFINE letters == << >>
    <3>1. Len(letters) = 0 /\ DOMAIN letters = 1 .. 0
      OBVIOUS
    <3>2. Forms[s] = UnitList(letters) \cup {InOrder(<<"e">>, 1)}
      BY <2>3
    <3> HIDE DEF letters
    <3> QED
      BY <3>1, <3>2, ListForms, EmptyForm
  <2> HIDE DEF cols, slots
  <2>7. MakesList(Put[s], 0)
    BY <2>1, <2>5, ListingIs
  <2> QED
    BY <2>2, <2>4, <2>6, <2>7, ListAgrees
<1>2. ASSUME NEW s \in {"delta_psi", "delta_eps"}
      PROVE  Agrees(s)
  <2> DEFINE cols == << >>
             slots == <<Many>>
  <2>1. Put[s] = Listing(0, slots, "unit")
    BY PutBlocks DEF Part, PutNutation
  <2>2. Get[s] = Listed(cols, "value")
    BY GetBlocks DEF Part, GetList
  <2>3. Forms[s] = UnitList(<< >>) \cup {InOrder(<<"e">>, 1)}
    BY FormsBlocks DEF Part, EopForms
  <2>4. InTurn(cols, 0)
    BY DEF InTurn
  <2>5. Slotted(slots, 0)
    BY Ones DEF Slotted
  <2>6. \A form \in Forms[s] : InList(form, 0)
    <3> DEFINE letters == << >>
    <3>1. Len(letters) = 0 /\ DOMAIN letters = 1 .. 0
      OBVIOUS
    <3>2. Forms[s] = UnitList(letters) \cup {InOrder(<<"e">>, 1)}
      BY <2>3
    <3> HIDE DEF letters
    <3> QED
      BY <3>1, <3>2, ListForms, EmptyForm
  <2> HIDE DEF cols, slots
  <2>7. MakesList(Put[s], 0)
    BY <2>1, <2>5, ListingIs
  <2> QED
    BY <2>2, <2>4, <2>6, <2>7, ListAgrees
<1>3. Agrees("pass_order")
  <2> DEFINE cols == << >>
             slots == <<Many>>
  <2>1. Put["pass_order"] = Listing(0, slots, "name")
    BY PutBlocks DEF Part, PutPassOrder
  <2>2. Get["pass_order"] = Listed(cols, "word")
    BY GetBlocks DEF Part, GetNames
  <2>3. Forms["pass_order"] = {Repeating(InOrder(<< >>, 1), <<"N">>, 1, Endless)}
    BY FormsBlocks DEF Part, PassOrderForms
  <2>4. InTurn(cols, 0)
    BY DEF InTurn
  <2>5. Slotted(slots, 0)
    BY Ones DEF Slotted
  <2>6. \A form \in Forms["pass_order"] : InList(form, 0)
    <3> DEFINE letters == << >>
               names   == <<"N">>
    <3>1. /\ Len(letters) = 0 /\ DOMAIN letters = 1 .. 0
          /\ Len(names) \in Nat \ {0} /\ \A i \in 1 .. Len(names) : names[i] \in Solid
      BY DEF Solid
    <3>2. Forms["pass_order"] = {Repeating(InOrder(letters, 0 + 1), names, 1, Endless)}
      BY <2>3
    <3>3. 1 \in Nat /\ Endless \in Nat
      BY DEF Endless
    <3> HIDE DEF letters, names
    <3> QED
      BY <3>1, <3>2, <3>3, ListForms
  <2> HIDE DEF cols, slots
  <2>7. MakesList(Put["pass_order"], 0)
    BY <2>1, <2>5, ListingIs
  <2> QED
    BY <2>2, <2>4, <2>6, <2>7, ListAgrees
<1>4. ASSUME NEW s \in {"S2_group_order", "roll_def"}
      PROVE  Agrees(s)
  <2> DEFINE cols == << >>
             slots == <<Many>>
  <2>1. Put[s] = Listing(0, slots, "value")
    BY PutBlocks DEF Part, PutPassOrder, PutRoll
  <2>2. Get[s] = Listed(cols, "value")
    BY GetBlocks DEF Part, GetList
  <2>3. Forms[s] = Values(<< >>, 1, Endless)
    BY FormsBlocks DEF Part, PassOrderForms, RollForms
  <2>4. InTurn(cols, 0)
    BY DEF InTurn
  <2>5. Slotted(slots, 0)
    BY Ones DEF Slotted
  <2>6. \A form \in Forms[s] : InList(form, 0)
    <3> DEFINE letters == << >>
    <3>1. Len(letters) = 0 /\ DOMAIN letters = 1 .. 0
      OBVIOUS
    <3>2. Forms[s] = Values(letters, 1, Endless)
      BY <2>3
    <3> HIDE DEF letters
    <3> QED
      BY <3>1, <3>2, ListForms DEF Endless
  <2> HIDE DEF cols, slots
  <2>7. MakesList(Put[s], 0)
    BY <2>1, <2>5, ListingIs
  <2> QED
    BY <2>2, <2>4, <2>6, <2>7, ListAgrees
<1> QED
    BY <1>1, <1>2, <1>3, <1>4

\* The statements that end with a list.
LEMMA ChannelAgree ==
    \A s \in {"chan_def", "switching_cycle", "headstack_pos", "phase_cal_detect",
               "sefd"} : Agrees(s)
<1>1. Agrees("chan_def")
  <2> DEFINE cols == <<Link(1), Number(2), Text(3), Number(4), Link(5), Link(6),
               Link(7)>>
             slots == <<Str(1), Unit(2), Str(4), Unit(5), Str(7), Str(8), Str(9), Many>>
  <2>1. Put["chan_def"] = Listing(9, slots, "value")
    BY PutBlocks DEF Part, PutFreq
  <2>2. Get["chan_def"] = Listed(cols, "value")
    BY GetBlocks DEF Part, GetFreq
  <2>3. Forms["chan_def"] = Values(<<"l", "U", "N", "U", "L", "L", "L">>, 0, Endless)
    BY FormsBlocks DEF Part, FreqForms
  <2>4. InTurn(cols, 7)
    BY DEF InTurn, Column, Link, Number, Text
  <2>5. Slotted(slots, 7)
    BY Ones DEF Slotted
  <2>6. \A form \in Forms["chan_def"] : InList(form, 7)
    <3> DEFINE letters == <<"l", "U", "N", "U", "L", "L", "L">>
    <3>1. Len(letters) = 7 /\ DOMAIN letters = 1 .. 7
      OBVIOUS
    <3>2. Forms["chan_def"] = Values(letters, 0, Endless)
      BY <2>3
    <3> HIDE DEF letters
    <3> QED
      BY <3>1, <3>2, ListForms DEF Endless
  <2> HIDE DEF cols, slots
  <2>7. MakesList(Put["chan_def"], 7)
    BY <2>1, <2>5, ListingIs
  <2> QED
    BY <2>2, <2>4, <2>6, <2>7, ListAgrees
<1>2. Agrees("switching_cycle")
  <2> DEFINE cols == <<Text(1)>>
             slots == <<Str(1), Many>>
  <2>1. Put["switching_cycle"] = Listing(1, slots, "unit")
    BY PutBlocks DEF Part, PutFreq
  <2>2. Get["switching_cycle"] = Listed(cols, "value")
    BY GetBlocks DEF Part, GetFreq
  <2>3. Forms["switching_cycle"] = UnitList(<<"N">>)
    BY FormsBlocks DEF Part, FreqForms
  <2>4. InTurn(cols, 1)
    BY DEF InTurn, Column, Text
  <2>5. Slotted(slots, 1)
    BY Ones DEF Slotted
  <2>6. \A form \in Forms["switching_cycle"] : InList(form, 1)
    <3> DEFINE letters == <<"N">>
    <3>1. Len(letters) = 1 /\ DOMAIN letters = 1 .. 1
      OBVIOUS
    <3>2. Forms["switching_cycle"] = UnitList(letters)
      BY <2>3
    <3> HIDE DEF letters
    <3> QED
      BY <3>1, <3>2, ListForms
  <2> HIDE DEF cols, slots
  <2>7. MakesList(Put["switching_cycle"], 1)
    BY <2>1, <2>5, ListingIs
  <2> QED
    BY <2>2, <2>4, <2>6, <2>7, ListAgrees
<1>3. Agrees("headstack_pos")
  <2> DEFINE cols == <<Number(1)>>
             slots == <<Value(1), Many>>
  <2>1. Put["headstack_pos"] = Listing(1, slots, "strict")
    BY PutBlocks DEF Part, PutHeadPos
  <2>2. Get["headstack_pos"] = Listed(cols, "value")
    BY GetBlocks DEF Part, GetHeadPos
  <2>3. Forms["headstack_pos"] = UnitList(<<"V">>)
    BY FormsBlocks DEF Part, HeadPosForms
  <2>4. InTurn(cols, 1)
    BY DEF InTurn, Column, Number
  <2>5. Slotted(slots, 1)
    BY Ones DEF Slotted
  <2>6. \A form \in Forms["headstack_pos"] : InList(form, 1)
    <3> DEFINE letters == <<"V">>
    <3>1. Len(letters) = 1 /\ DOMAIN letters = 1 .. 1
      OBVIOUS
    <3>2. Forms["headstack_pos"] = UnitList(letters)
      BY <2>3
    <3> HIDE DEF letters
    <3> QED
      BY <3>1, <3>2, ListForms
  <2> HIDE DEF cols, slots
  <2>7. MakesList(Put["headstack_pos"], 1)
    BY <2>1, <2>5, ListingIs
  <2> QED
    BY <2>2, <2>4, <2>6, <2>7, ListAgrees
<1>4. Agrees("phase_cal_detect")
  <2> DEFINE cols == <<Link(1)>>
             slots == <<Str(1), Many>>
  <2>1. Put["phase_cal_detect"] = Listing(1, slots, "value")
    BY PutBlocks DEF Part, PutPhaseCal
  <2>2. Get["phase_cal_detect"] = Listed(cols, "value")
    BY GetBlocks DEF Part, GetIf
  <2>3. Forms["phase_cal_detect"] = Values(<<"L">>, 0, Endless)
    BY FormsBlocks DEF Part, PhaseCalForms
  <2>4. InTurn(cols, 1)
    BY DEF InTurn, Column, Link
  <2>5. Slotted(slots, 1)
    BY Ones DEF Slotted
  <2>6. \A form \in Forms["phase_cal_detect"] : InList(form, 1)
    <3> DEFINE letters == <<"L">>
    <3>1. Len(letters) = 1 /\ DOMAIN letters = 1 .. 1
      OBVIOUS
    <3>2. Forms["phase_cal_detect"] = Values(letters, 0, Endless)
      BY <2>3
    <3> HIDE DEF letters
    <3> QED
      BY <3>1, <3>2, ListForms DEF Endless
  <2> HIDE DEF cols, slots
  <2>7. MakesList(Put["phase_cal_detect"], 1)
    BY <2>1, <2>5, ListingIs
  <2> QED
    BY <2>2, <2>4, <2>6, <2>7, ListAgrees
<1>5. Agrees("sefd")
  <2> DEFINE cols == <<Link(1), Number(2)>>
             slots == <<Str(1), Unit(2), Many>>
  <2>1. Put["sefd"] = Listing(3, slots, "value")
    BY PutBlocks DEF Part, PutSefd
  <2>2. Get["sefd"] = Listed(cols, "value")
    BY GetBlocks DEF Part, GetSefd
  <2>3. Forms["sefd"] = Values(<<"L", "U">>, 1, Endless)
    BY FormsBlocks DEF Part, SefdForms
  <2>4. InTurn(cols, 2)
    BY DEF InTurn, Column, Link, Number
  <2>5. Slotted(slots, 2)
    BY Ones DEF Slotted
  <2>6. \A form \in Forms["sefd"] : InList(form, 2)
    <3> DEFINE letters == <<"L", "U">>
    <3>1. Len(letters) = 2 /\ DOMAIN letters = 1 .. 2
      OBVIOUS
    <3>2. Forms["sefd"] = Values(letters, 1, Endless)
      BY <2>3
    <3> HIDE DEF letters
    <3> QED
      BY <3>1, <3>2, ListForms DEF Endless
  <2> HIDE DEF cols, slots
  <2>7. MakesList(Put["sefd"], 2)
    BY <2>1, <2>5, ListingIs
  <2> QED
    BY <2>2, <2>4, <2>6, <2>7, ListAgrees
<1> QED
    BY <1>1, <1>2, <1>3, <1>4, <1>5

\* The procedures.
LEMMA ProceduresAgree ==
    \A s \in {"setup_always", "parity_check", "tape_prepass", "preob_cal", "midob_cal",
               "postob_cal"} : Agrees(s)
<1>1. Agrees("setup_always")
  <2> DEFINE cols == <<Text(1), NumberAsText(2)>>
             slots == <<Str(1), Unit(2)>>
             letters == <<"N", "U">>
  <2>1. Put["setup_always"] = Unchecked(3, slots)
    BY PutBlocks DEF Part, PutProcedures
  <2>2. Get["setup_always"] = Fixed(cols)
    BY GetBlocks DEF Part, GetSetup
  <2>3. Forms["setup_always"] = Only(letters)
    BY FormsBlocks DEF Part, ProceduresForms
  <2>4. InTurn(cols, 2)
    BY DEF InTurn, Column, NumberAsText, Text
  <2>5. Singles(slots, 2) /\ Len(letters) = 2 /\ DOMAIN letters = 1 .. 2
    BY Ones DEF Singles
  <2> HIDE DEF cols, slots, letters
  <2> QED
    BY <2>1, <2>2, <2>3, <2>4, <2>5, FixedAgrees
<1>2. ASSUME NEW s \in {"parity_check", "tape_prepass"}
      PROVE  Agrees(s)
  <2> DEFINE cols == <<Text(1), Number(2)>>
             slots == <<Str(1), Unit(2)>>
             letters == <<"N", "U">>
  <2>1. Put[s] = Unchecked(3, slots)
    BY PutBlocks DEF Part, PutProcedures
  <2>2. Get[s] = Fixed(cols)
    BY GetBlocks DEF Part, GetSetup
  <2>3. Forms[s] = Only(letters)
    BY FormsBlocks DEF Part, ProceduresForms
  <2>4. InTurn(cols, 2)
    BY DEF InTurn, Column, Number, Text
  <2>5. Singles(slots, 2) /\ Len(letters) = 2 /\ DOMAIN letters = 1 .. 2
    BY Ones DEF Singles
  <2> HIDE DEF cols, slots, letters
  <2> QED
    BY <2>1, <2>2, <2>3, <2>4, <2>5, FixedAgrees
<1>3. ASSUME NEW s \in {"preob_cal", "midob_cal", "postob_cal"}
      PROVE  Agrees(s)
  <2> DEFINE cols == <<Text(1), Number(2), Text(3)>>
             slots == <<Str(1), Unit(2), Str(4)>>
             letters == <<"N", "U", "N">>
  <2>1. Put[s] = Unchecked(4, slots)
    BY PutBlocks DEF Part, PutProcedures
  <2>2. Get[s] = Fixed(cols)
    BY GetBlocks DEF Part, GetCal
  <2>3. Forms[s] = Only(letters)
    BY FormsBlocks DEF Part, ProceduresForms
  <2>4. InTurn(cols, 3)
    BY DEF InTurn, Column, Number, Text
  <2>5. Singles(slots, 3) /\ Len(letters) = 3 /\ DOMAIN letters = 1 .. 3
    BY Ones DEF Singles
  <2> HIDE DEF cols, slots, letters
  <2> QED
    BY <2>1, <2>2, <2>3, <2>4, <2>5, FixedAgrees
<1> QED
    BY <1>1, <1>2, <1>3

\* The statements of $SITE that have more than one field.
LEMMA SiteAgree ==
    \A s \in {"site_position", "site_velocity", "horizon_map_az", "horizon_map_el",
               "ocean_load_vert", "ocean_load_horiz"} : Agrees(s)
<1>1. ASSUME NEW s \in {"site_position", "site_velocity"}
      PROVE  Agrees(s)
  <2> DEFINE cols == <<Number(1), Number(2), Number(3)>>
             slots == <<Unit(1), Unit(3), Unit(5)>>
             letters == <<"U", "U", "U">>
  <2>1. Put[s] = Unchecked(6, slots)
    BY PutBlocks DEF Part, PutSite
  <2>2. Get[s] = Fixed(cols)
    BY GetBlocks DEF Part, GetSite
  <2>3. Forms[s] = Only(letters)
    BY FormsBlocks DEF Part, SiteForms
  <2>4. InTurn(cols, 3)
    BY DEF InTurn, Column, Number
  <2>5. Singles(slots, 3) /\ Len(letters) = 3 /\ DOMAIN letters = 1 .. 3
    BY Ones DEF Singles
  <2> HIDE DEF cols, slots, letters
  <2> QED
    BY <2>1, <2>2, <2>3, <2>4, <2>5, FixedAgrees
<1>2. ASSUME NEW s \in {"horizon_map_az", "horizon_map_el"}
      PROVE  Agrees(s)
  <2> DEFINE cols == << >>
             slots == <<Many>>
  <2>1. Put[s] = Listing(0, slots, "unit")
    BY PutBlocks DEF Part, PutSite
  <2>2. Get[s] = Listed(cols, "value")
    BY GetBlocks DEF Part, GetList
  <2>3. Forms[s] = UnitList(<< >>)
    BY FormsBlocks DEF Part, SiteForms
  <2>4. InTurn(cols, 0)
    BY DEF InTurn
  <2>5. Slotted(slots, 0)
    BY Ones DEF Slotted
  <2>6. \A form \in Forms[s] : InList(form, 0)
    <3> DEFINE letters == << >>
    <3>1. Len(letters) = 0 /\ DOMAIN letters = 1 .. 0
      OBVIOUS
    <3>2. Forms[s] = UnitList(letters)
      BY <2>3
    <3> HIDE DEF letters
    <3> QED
      BY <3>1, <3>2, ListForms
  <2> HIDE DEF cols, slots
  <2>7. MakesList(Put[s], 0)
    BY <2>1, <2>5, ListingIs
  <2> QED
    BY <2>2, <2>4, <2>6, <2>7, ListAgrees
<1>3. ASSUME NEW s \in {"ocean_load_vert", "ocean_load_horiz"}
      PROVE  Agrees(s)
  <2> DEFINE cols == <<Number(1), Number(2)>>
             slots == <<Unit(1), Unit(3)>>
             letters == <<"U", "U">>
  <2>1. Put[s] = Unchecked(4, slots)
    BY PutBlocks DEF Part, PutSite
  <2>2. Get[s] = Fixed(cols)
    BY GetBlocks DEF Part, GetSite
  <2>3. Forms[s] = Only(letters)
    BY FormsBlocks DEF Part, SiteForms
  <2>4. InTurn(cols, 2)
    BY DEF InTurn, Column, Number
  <2>5. Singles(slots, 2) /\ Len(letters) = 2 /\ DOMAIN letters = 1 .. 2
    BY Ones DEF Singles
  <2> HIDE DEF cols, slots, letters
  <2> QED
    BY <2>1, <2>2, <2>3, <2>4, <2>5, FixedAgrees
<1> QED
    BY <1>1, <1>2, <1>3

\* The statements of $SOURCE and $TAPELOG_OBS that have more than a text.
LEMMA SourceAgree ==
    \A s \in {"source_type", "dec", "source_model", "VSN"} : Agrees(s)
<1>1. Agrees("source_type")
  <2> DEFINE both == << <<1>>, <<2>> >>
             branches == << Branch({1, 2}, <<both>>), Branch({1}, <<Str(1)>>),
                            Branch({2}, <<Str(2)>>), Branch({}, <<Null>>) >>
             one == <<"N">>
             two == <<"N", "N">>
  <2>1. Put["source_type"] = Branches(2, branches)
    BY PutBlocks DEF Part, PutSource
  <2> DEFINE cols == << >>
  <2>2. Get["source_type"] = Listed(cols, "word")
    BY GetBlocks DEF Part, GetNames
  <2>3. Forms["source_type"] = {Form(one, <<1>>, 1), Form(two, <<1, 1>>, 1)}
    BY FormsBlocks DEF Part, SourceForms
  <2>4. InTurn(cols, 0)
    BY DEF InTurn
  <2>5. InListSlots(branches, 0)
    <3> DEFINE a == <<1>>
               b == <<2>>
               E == Entry(Nat)
    <3>1. a \in E /\ b \in E
      BY DEF Entry
    <3> HIDE DEF a, b, E
    <3>2. <<a, b>> \in Seq(E) /\ <<a>> \in Seq(E) /\ <<b>> \in Seq(E) /\ << >> \in Seq(E)
      BY <3>1
    <3>3. both \in Seq(E) /\ Str(1) \in Seq(E) /\ Str(2) \in Seq(E) /\ Null \in Seq(E)
      BY <3>2 DEF a, b, Str, Null
    <3> HIDE DEF both
    <3>4. /\ DOMAIN branches = 1 .. 4
          /\ branches[1].slots = <<both>> /\ branches[2].slots = <<Str(1)>>
          /\ branches[3].slots = <<Str(2)>> /\ branches[4].slots = <<Null>>
      BY DEF Branch
    <3> HIDE DEF branches
    <3>5. ASSUME NEW i \in 1 .. 4
          PROVE  \E slot \in Seq(E) : branches[i].slots = <<slot>>
      <4>1. i = 1 \/ i = 2 \/ i = 3 \/ i = 4
        OBVIOUS
      <4> QED
        BY <3>3, <3>4, <4>1
    <3>6. DOMAIN branches \in SUBSET Nat
      BY <3>4
    <3> QED
      BY <3>4, <3>5, <3>6, ListOnly DEF E
  <2>6. InList(Form(one, <<1>>, 1), 0)
    <3> DEFINE slots == <<1>>
    <3>1. AllListed(one, slots)
      BY DEF AllListed, Solid
    <3> HIDE DEF one, slots
    <3>2. InList(Form(one, slots, 1), 0)
      BY <3>1, TwoForm
    <3> QED
      BY <3>2 DEF slots
  <2>7. InList(Form(two, <<1, 1>>, 1), 0)
    <3> DEFINE slots == <<1, 1>>
    <3>1. AllListed(two, slots)
      BY DEF AllListed, Solid
    <3> HIDE DEF two, slots
    <3>2. InList(Form(two, slots, 1), 0)
      BY <3>1, TwoForm
    <3> QED
      BY <3>2 DEF slots
  <2>8. << >> \in Seq(Entry({0}))
    BY EmptyList
  <2> HIDE DEF branches, one, two, cols
  <2>9. Put["source_type"].args = 2 /\ Put["source_type"].empty = << >> /\ Put["source_type"].forms = branches
    BY <2>1 DEF Branches
  <2>10. \A form \in Forms["source_type"] : InList(form, 0)
    BY <2>3, <2>6, <2>7
  <2>11. MakesList(Put["source_type"], 0)
    BY <2>5, <2>8, <2>9 DEF MakesList
  <2> QED
    BY <2>2, <2>4, <2>10, <2>11, ListAgrees
<1>2. Agrees("dec")
  <2> DEFINE cols == <<Word(1)>>
             slots == <<Str(1)>>
             letters == <<"A">>
  <2>1. Put["dec"] = Unchecked(1, slots)
    BY PutBlocks DEF Part, PutSource
  <2>2. Get["dec"] = Fixed(cols)
    BY GetBlocks DEF Part, GetPosition
  <2>3. Forms["dec"] = Only(letters)
    BY FormsBlocks DEF Part, SourceForms
  <2>4. InTurn(cols, 1)
    BY DEF InTurn, Column, Word
  <2>5. Singles(slots, 1) /\ Len(letters) = 1 /\ DOMAIN letters = 1 .. 1
    BY Ones DEF Singles
  <2> HIDE DEF cols, slots, letters
  <2> QED
    BY <2>1, <2>2, <2>3, <2>4, <2>5, FixedAgrees
<1>3. Agrees("source_model")
  <2> DEFINE cols == <<Number(1), Link(2), Number(3), Number(4), Number(5), Number(6),
               Number(7), Number(8)>>
             slots == <<Value(1), Str(2), Unit(3), Unit(5), Value(7), Unit(8), Unit(10),
               Unit(12)>>
             letters == <<"V", "L", "U", "U", "V", "U", "U", "U">>
  <2>1. Put["source_model"] = Unchecked(13, slots)
    BY PutBlocks DEF Part, PutSourceModel
  <2>2. Get["source_model"] = Fixed(cols)
    BY GetBlocks DEF Part, GetSourceModel
  <2>3. Forms["source_model"] = Only(letters)
    BY FormsBlocks DEF Part, SourceForms
  <2>4. InTurn(cols, 8)
    BY DEF InTurn, Column, Link, Number
  <2>5. Singles(slots, 8) /\ Len(letters) = 8 /\ DOMAIN letters = 1 .. 8
    BY Ones DEF Singles
  <2> HIDE DEF cols, slots, letters
  <2> QED
    BY <2>1, <2>2, <2>3, <2>4, <2>5, FixedAgrees
<1>4. Agrees("VSN")
  <2> DEFINE cols == <<Number(1), Text(2), Word(3), Word(4)>>
             slots == <<Value(1), Str(2), Str(3), Str(4)>>
             letters == <<"V", "N", "N", "N">>
  <2>1. Put["VSN"] = Unchecked(4, slots)
    BY PutBlocks DEF Part, PutVsn
  <2>2. Get["VSN"] = Fixed(cols)
    BY GetBlocks DEF Part, GetVsn
  <2>3. Forms["VSN"] = Only(letters)
    BY FormsBlocks DEF Part, TapelogForms
  <2>4. InTurn(cols, 4)
    BY DEF InTurn, Column, Number, Text, Word
  <2>5. Singles(slots, 4) /\ Len(letters) = 4 /\ DOMAIN letters = 1 .. 4
    BY Ones DEF Singles
  <2> HIDE DEF cols, slots, letters
  <2> QED
    BY <2>1, <2>2, <2>3, <2>4, <2>5, FixedAgrees
<1> QED
    BY <1>1, <1>2, <1>3, <1>4

\* The statements of $TRACKS with a list the writer and the reader agree on.
LEMMA TracksAgree ==
    \A s \in {"fanin_def", "VLBA_trnsprt_sys_trk"} : Agrees(s)
<1>1. Agrees("fanin_def")
  <2> DEFINE cols == <<Text(1), Number(2), Number(3)>>
             slots == <<Str(1), Value(2), Value(3), Many>>
  <2>1. Put["fanin_def"] = Listing(3, slots, "name")
    BY PutBlocks DEF Part, PutFan
  <2>2. Get["fanin_def"] = Listed(cols, "bits")
    BY GetBlocks DEF Part, GetFan
  <2>3. Forms["fanin_def"] = {Repeating(InOrder(<<"N", "V", "V">>, 4), <<"L", "N">>, 2, Endless)}
    BY FormsBlocks DEF Part, FanForms
  <2>4. InTurn(cols, 3)
    BY DEF InTurn, Column, Number, Text
  <2>5. Slotted(slots, 3)
    BY Ones DEF Slotted
  <2>6. \A form \in Forms["fanin_def"] : InList(form, 3)
    <3> DEFINE letters == <<"N", "V", "V">>
               streams == <<"L", "N">>
    <3>1. /\ Len(letters) = 3 /\ DOMAIN letters = 1 .. 3
          /\ Len(streams) \in Nat \ {0} /\ \A i \in 1 .. Len(streams) : streams[i] \in Solid
      BY DEF Solid
    <3> DEFINE n == 3
    <3>2. Forms["fanin_def"] = {Repeating(InOrder(letters, n + 1), streams, 2, Endless)}
      BY <2>3
    <3>3. 2 \in Nat /\ Endless \in Nat /\ n \in Nat
      BY DEF Endless
    <3>4. Len(letters) = n /\ DOMAIN letters = 1 .. n
      BY <3>1
    <3> HIDE DEF letters, streams, n
    <3>5. \A form \in Forms["fanin_def"] : InList(form, n)
      BY <3>1, <3>2, <3>3, <3>4, ListForms
    <3> QED
      BY <3>5 DEF n
  <2> HIDE DEF cols, slots
  <2>7. MakesList(Put["fanin_def"], 3)
    BY <2>1, <2>5, ListingIs
  <2> QED
    BY <2>2, <2>4, <2>6, <2>7, ListAgrees
<1>2. Agrees("VLBA_trnsprt_sys_trk")
  <2> DEFINE pair == << <<1, 0>>, <<2, 0>> >>
             branches == << Branch({}, <<pair>>) >>
             two == <<"V", "V">>
  <2>1. Put["VLBA_trnsprt_sys_trk"] = Branches(2, branches)
    BY PutBlocks DEF Part, PutTracks, Unchecked
  <2> DEFINE cols == << >>
  <2>2. Get["VLBA_trnsprt_sys_trk"] = Listed(cols, "value")
    BY GetBlocks DEF Part, GetList
  <2>3. Forms["VLBA_trnsprt_sys_trk"] = {Form(two, <<1, 1>>, 1)}
    BY FormsBlocks DEF Part, TracksForms
  <2>4. InTurn(cols, 0)
    BY DEF InTurn
  <2>5. InListSlots(branches, 0)
    <3> DEFINE a == <<1, 0>>
               b == <<2, 0>>
               E == Entry(Nat)
    <3>1. a \in E /\ b \in E
      BY DEF Entry
    <3> HIDE DEF a, b, E
    <3>2. <<a, b>> \in Seq(E)
      BY <3>1
    <3>3. pair \in Seq(E)
      BY <3>2 DEF a, b
    <3> HIDE DEF pair
    <3>4. DOMAIN branches = {1} /\ branches[1].slots = <<pair>>
      BY DEF Branch
    <3> HIDE DEF branches
    <3> QED
      BY <3>3, <3>4, ListOnly DEF E
  <2>6. InList(Form(two, <<1, 1>>, 1), 0)
    <3> DEFINE slots == <<1, 1>>
    <3>1. AllListed(two, slots)
      BY DEF AllListed, Solid
    <3> HIDE DEF two, slots
    <3>2. InList(Form(two, slots, 1), 0)
      BY <3>1, TwoForm
    <3> QED
      BY <3>2 DEF slots
  <2>7. << >> \in Seq(Entry({0}))
    BY EmptyList
  <2> HIDE DEF branches, two, cols
  <2>8. /\ Put["VLBA_trnsprt_sys_trk"].args = 2 /\ Put["VLBA_trnsprt_sys_trk"].empty = << >>
        /\ Put["VLBA_trnsprt_sys_trk"].forms = branches
    BY <2>1 DEF Branches
  <2>9. \A form \in Forms["VLBA_trnsprt_sys_trk"] : InList(form, 0)
    BY <2>3, <2>6
  <2>10. MakesList(Put["VLBA_trnsprt_sys_trk"], 0)
    BY <2>5, <2>7, <2>8 DEF MakesList
  <2> QED
    BY <2>2, <2>4, <2>9, <2>10, ListAgrees
<1> QED
    BY <1>1, <1>2

\* The if_def, whose phase calibration may be left out, agrees.
LEMMA IfAgrees == Agrees("if_def")
<1> DEFINE cols     == <<Link(1), Text(2), Text(3), Number(4), Text(5),
                         Ending(Number(6), {<<6, 1>>}), Ending(Number(7), {<<7, 1>>})>>
           branches == << Branch(7 .. 10, <<Str(1), Str(2), Str(3), Unit(4), Str(6),
                             Unit(7), Unit(9)>>),
                           Branch({7, 8}, <<Str(1), Str(2), Str(3), Unit(4), Str(6),
                             Unit(7), Null>>),
                           Branch({}, <<Str(1), Str(2), Str(3), Unit(4), Str(6), Null,
                             Null>>) >>
<1>1. /\ Get["if_def"] = Fixed(cols)
      /\ Put["if_def"] = Branches(10, branches)
      /\ Forms["if_def"] =
           {InOrder(<<"L", "N", "N", "U", "N">>, 7),
            InOrder(<<"L", "N", "N", "U", "N", "u">>, 7),
            InOrder(<<"L", "N", "N", "U", "N", "e", "e">>, 7),
            InOrder(<<"L", "N", "N", "U", "N", "U", "u">>, 7)}
    BY PutBlocks, GetBlocks, FormsBlocks DEF Part, GetIf, PutIf, IfForms
<1>2. /\ Len(cols) = 7 /\ DOMAIN cols = 1 .. 7
      /\ \A i \in 1 .. 7 : cols[i].slot = i /\ cols[i].at = 1
      /\ \A i \in 1 .. 7 : \A need \in cols[i].needs :
           \/ i = 6 /\ need = <<6, 1>>
           \/ i = 7 /\ need = <<7, 1>>
    BY DEF Text, Link, Number, Ending, Column
<1>3. InOrderForms(Forms["if_def"], 7)
  <2> DEFINE f1 == <<"L", "N", "N", "U", "N">>
             f2 == <<"L", "N", "N", "U", "N", "u">>
             f3 == <<"L", "N", "N", "U", "N", "e", "e">>
             f4 == <<"L", "N", "N", "U", "N", "U", "u">>
  <2>1. Len(f1) \in 0 .. 7 /\ DOMAIN f1 = 1 .. Len(f1)
    OBVIOUS
  <2>2. Len(f2) \in 0 .. 7 /\ DOMAIN f2 = 1 .. Len(f2)
    OBVIOUS
  <2>3. Len(f3) \in 0 .. 7 /\ DOMAIN f3 = 1 .. Len(f3)
    OBVIOUS
  <2>4. Len(f4) \in 0 .. 7 /\ DOMAIN f4 = 1 .. Len(f4)
    OBVIOUS
  <2>5. Forms["if_def"] = {InOrder(f1, 7), InOrder(f2, 7), InOrder(f3, 7), InOrder(f4, 7)}
    BY <1>1
  <2> HIDE DEF f1, f2, f3, f4
  <2> QED
    BY <2>1, <2>2, <2>3, <2>4, <2>5 DEF InOrderForms
<1>4. /\ DOMAIN branches \in SUBSET Nat
      /\ \A b \in DOMAIN branches :
           /\ Len(branches[b].slots) = 7 /\ DOMAIN branches[b].slots = 1 .. 7
           /\ \A i \in 1 .. 7 : One(branches[b].slots[i])
           /\ \A k \in {6, 7} :
                \/ branches[b].slots[k] = Null
                \/ branches[b].slots[k][1][1] \in branches[b].needs \ {0}
    BY Ones DEF Branch
<1> HIDE DEF cols, branches
<1>5. Asking(cols, 7)
    BY <1>2 DEF Asking
<1>6. Answering(branches, cols, 7)
    BY <1>2, <1>4 DEF Answering
<1> QED
    BY <1>1, <1>3, <1>5, <1>6, AskingAgrees

\* The clock_early, whose rate may be left out, agrees.
LEMMA ClockAgrees == Agrees("clock_early")
<1> DEFINE cols     == <<Text(1), Number(2), Ending(Text(3), {<<3, 1>>}),
                         Ending(Number(4), {<<3, 1>>})>>
           branches == << Branch(1 .. 5, <<Str(1), Unit(2), Str(4), Value(5)>>),
                           Branch(2 .. 5, <<Null, Unit(2), Str(4), Value(5)>>),
                           Branch(1 .. 3, <<Str(1), Unit(2), Null, Null>>),
                           Branch(2 .. 3, <<Null, Unit(2), Null, Null>>) >>
<1>1. /\ Get["clock_early"] = Fixed(cols)
      /\ Put["clock_early"] = Branches(5, branches)
      /\ Forms["clock_early"] =
           {InOrder(<<"n", "U">>, 4),
            InOrder(<<"n", "U", "N", "O">>, 4)}
    BY PutBlocks, GetBlocks, FormsBlocks DEF Part, GetBbcClock, PutClock, ClockForms
<1>2. /\ Len(cols) = 4 /\ DOMAIN cols = 1 .. 4
      /\ \A i \in 1 .. 4 : cols[i].slot = i /\ cols[i].at = 1
      /\ \A i \in 1 .. 4 : \A need \in cols[i].needs :
           \/ i = 3 /\ need = <<3, 1>>
           \/ i = 4 /\ need = <<3, 1>>
    BY DEF Text, Link, Number, Ending, Column
<1>3. InOrderForms(Forms["clock_early"], 4)
    BY <1>1 DEF InOrderForms
<1>4. /\ DOMAIN branches \in SUBSET Nat
      /\ \A b \in DOMAIN branches :
           /\ Len(branches[b].slots) = 4 /\ DOMAIN branches[b].slots = 1 .. 4
           /\ \A i \in 1 .. 4 : One(branches[b].slots[i])
           /\ \A k \in {3} :
                \/ branches[b].slots[k] = Null
                \/ branches[b].slots[k][1][1] \in branches[b].needs \ {0}
    BY Ones DEF Branch
<1> HIDE DEF cols, branches
<1>5. Asking(cols, 4)
    BY <1>2 DEF Asking
<1>6. Answering(branches, cols, 4)
    BY <1>2, <1>4 DEF Answering
<1> QED
    BY <1>1, <1>3, <1>5, <1>6, AskingAgrees

\* The tape_length, with a speed or without, agrees.
LEMMA TapeLengthAgrees == Agrees("tape_length")
<1> DEFINE cols     == <<Number(1), Ending(Text(2), {<<2, 1>>}), Ending(Number(3),
                         {<<2, 1>>})>>
           branches == << Branch({1, 3, 4}, <<Unit(1), Str(3), Value(4)>>),
                           Branch({1}, <<Unit(1), Null, Null>>) >>
<1>1. /\ Get["tape_length"] = Fixed(cols)
      /\ Put["tape_length"] = Branches(4, branches)
      /\ Forms["tape_length"] =
           {InOrder(<<"U">>, 3),
            InOrder(<<"U", "N", "V">>, 3)}
    BY PutBlocks, GetBlocks, FormsBlocks DEF Part, GetDas, PutDas, DasForms
<1>2. /\ Len(cols) = 3 /\ DOMAIN cols = 1 .. 3
      /\ \A i \in 1 .. 3 : cols[i].slot = i /\ cols[i].at = 1
      /\ \A i \in 1 .. 3 : \A need \in cols[i].needs :
           \/ i = 2 /\ need = <<2, 1>>
           \/ i = 3 /\ need = <<2, 1>>
    BY DEF Text, Link, Number, Ending, Column
<1>3. InOrderForms(Forms["tape_length"], 3)
    BY <1>1 DEF InOrderForms
<1>4. /\ DOMAIN branches \in SUBSET Nat
      /\ \A b \in DOMAIN branches :
           /\ Len(branches[b].slots) = 3 /\ DOMAIN branches[b].slots = 1 .. 3
           /\ \A i \in 1 .. 3 : One(branches[b].slots[i])
           /\ \A k \in {2} :
                \/ branches[b].slots[k] = Null
                \/ branches[b].slots[k][1][1] \in branches[b].needs \ {0}
    BY Ones DEF Branch
<1> HIDE DEF cols, branches
<1>5. Asking(cols, 3)
    BY <1>2 DEF Asking
<1>6. Answering(branches, cols, 3)
    BY <1>2, <1>4 DEF Answering
<1> QED
    BY <1>1, <1>3, <1>5, <1>6, AskingAgrees

\* The tape_motion, of one field, two or four, agrees.
LEMMA TapeMotionAgrees == Agrees("tape_motion")
<1> DEFINE cols     == <<Text(1), Ending(Number(2), {<<2, 1>>}), Ending(Number(3),
                         {<<3, 1>>}), Ending(Number(4), {<<2, 1>>, <<3, 1>>})>>
           branches == << Branch(1 .. 7, <<Str(1), Unit(2), Unit(4), Unit(6)>>),
                           Branch(1 .. 3, <<Str(1), Unit(2), Null, Null>>),
                           Branch({1}, <<Str(1), Null, Null, Null>>) >>
<1>1. /\ Get["tape_motion"] = Fixed(cols)
      /\ Put["tape_motion"] = Branches(7, branches)
      /\ Forms["tape_motion"] =
           {InOrder(<<"N">>, 4),
            InOrder(<<"N", "U">>, 4),
            InOrder(<<"N", "U", "U", "U">>, 4)}
    BY PutBlocks, GetBlocks, FormsBlocks DEF Part, GetDas, PutTape, DasForms
<1>2. /\ Len(cols) = 4 /\ DOMAIN cols = 1 .. 4
      /\ \A i \in 1 .. 4 : cols[i].slot = i /\ cols[i].at = 1
      /\ \A i \in 1 .. 4 : \A need \in cols[i].needs :
           \/ i = 2 /\ need = <<2, 1>>
           \/ i = 3 /\ need = <<3, 1>>
           \/ i = 4 /\ need = <<2, 1>>
           \/ i = 4 /\ need = <<3, 1>>
    BY DEF Text, Link, Number, Ending, Column
<1>3. InOrderForms(Forms["tape_motion"], 4)
    BY <1>1 DEF InOrderForms
<1>4. /\ DOMAIN branches \in SUBSET Nat
      /\ \A b \in DOMAIN branches :
           /\ Len(branches[b].slots) = 4 /\ DOMAIN branches[b].slots = 1 .. 4
           /\ \A i \in 1 .. 4 : One(branches[b].slots[i])
           /\ \A k \in {2, 3} :
                \/ branches[b].slots[k] = Null
                \/ branches[b].slots[k][1][1] \in branches[b].needs \ {0}
    BY Ones DEF Branch
<1> HIDE DEF cols, branches
<1>5. Asking(cols, 4)
    BY <1>2 DEF Asking
<1>6. Answering(branches, cols, 4)
    BY <1>2, <1>4 DEF Answering
<1> QED
    BY <1>1, <1>3, <1>5, <1>6, AskingAgrees

\* The VLBA formatter's track, with a second bit or without, agrees.
LEMMA FormatterAgrees == Agrees("VLBA_frmtr_sys_trk")
<1> DEFINE cols     == <<Number(1), Text(2), Number(3), Ending(Number(4), {<<4,
                         1>>})>>
           branches == << Branch({4}, <<Value(1), Str(2), Value(3), Value(4)>>),
                           Branch({}, <<Value(1), Str(2), Value(3), Null>>) >>
<1>1. /\ Get["VLBA_frmtr_sys_trk"] = Fixed(cols)
      /\ Put["VLBA_frmtr_sys_trk"] = Branches(4, branches)
      /\ Forms["VLBA_frmtr_sys_trk"] =
           {InOrder(<<"V", "N", "V">>, 4),
            InOrder(<<"V", "N", "V", "V">>, 4)}
    BY PutBlocks, GetBlocks, FormsBlocks DEF Part, GetVlba, PutTracks, TracksForms
<1>2. /\ Len(cols) = 4 /\ DOMAIN cols = 1 .. 4
      /\ \A i \in 1 .. 4 : cols[i].slot = i /\ cols[i].at = 1
      /\ \A i \in 1 .. 4 : \A need \in cols[i].needs :
           \/ i = 4 /\ need = <<4, 1>>
    BY DEF Text, Link, Number, Ending, Column
<1>3. InOrderForms(Forms["VLBA_frmtr_sys_trk"], 4)
    BY <1>1 DEF InOrderForms
<1>4. /\ DOMAIN branches \in SUBSET Nat
      /\ \A b \in DOMAIN branches :
           /\ Len(branches[b].slots) = 4 /\ DOMAIN branches[b].slots = 1 .. 4
           /\ \A i \in 1 .. 4 : One(branches[b].slots[i])
           /\ \A k \in {4} :
                \/ branches[b].slots[k] = Null
                \/ branches[b].slots[k][1][1] \in branches[b].needs \ {0}
    BY Ones DEF Branch
<1> HIDE DEF cols, branches
<1>5. Asking(cols, 4)
    BY <1>2 DEF Asking
<1>6. Answering(branches, cols, 4)
    BY <1>2, <1>4 DEF Answering
<1> QED
    BY <1>1, <1>3, <1>5, <1>6, AskingAgrees

\* The S2 data source, with two links or without, agrees.
LEMMA DataSourceAgrees == Agrees("S2_data_source")
<1> DEFINE cols     == <<Text(1), Ending(Link(2), {<<2, 1>>}), Ending(Link(3), {<<2,
                         1>>})>>
           branches == << Branch({2, 3}, <<Str(1), Str(2), Str(3)>>),
                           Branch({}, <<Str(1), Null, Null>>) >>
<1>1. /\ Get["S2_data_source"] = Fixed(cols)
      /\ Put["S2_data_source"] = Branches(3, branches)
      /\ Forms["S2_data_source"] =
           {InOrder(<<"N">>, 3),
            InOrder(<<"N", "L", "L">>, 3)}
    BY PutBlocks, GetBlocks, FormsBlocks DEF Part, GetVlba, PutTracks, TracksForms
<1>2. /\ Len(cols) = 3 /\ DOMAIN cols = 1 .. 3
      /\ \A i \in 1 .. 3 : cols[i].slot = i /\ cols[i].at = 1
      /\ \A i \in 1 .. 3 : \A need \in cols[i].needs :
           \/ i = 2 /\ need = <<2, 1>>
           \/ i = 3 /\ need = <<2, 1>>
    BY DEF Text, Link, Number, Ending, Column
<1>3. InOrderForms(Forms["S2_data_source"], 3)
    BY <1>1 DEF InOrderForms
<1>4. /\ DOMAIN branches \in SUBSET Nat
      /\ \A b \in DOMAIN branches :
           /\ Len(branches[b].slots) = 3 /\ DOMAIN branches[b].slots = 1 .. 3
           /\ \A i \in 1 .. 3 : One(branches[b].slots[i])
           /\ \A k \in {2} :
                \/ branches[b].slots[k] = Null
                \/ branches[b].slots[k][1][1] \in branches[b].needs \ {0}
    BY Ones DEF Branch
<1> HIDE DEF cols, branches
<1>5. Asking(cols, 3)
    BY <1>2 DEF Asking
<1>6. Answering(branches, cols, 3)
    BY <1>2, <1>4 DEF Answering
<1> QED
    BY <1>1, <1>3, <1>5, <1>6, AskingAgrees

(* The reader's struct means what the writer's did. *)
Kept(s) ==
    \A texts : \A count \in Nat : Accepts(Put[s], texts) =>
      LET made == Build(Put[s], texts, count)
          line_ == Printed(s, made, {})
      IN  Accepted(s, line_) => Meaning(s, Parse(s, line_)) = Meaning(s, made)

\* A statement whose tables agree is read as it was made.
LEMMA AgreesKept ==
    ASSUME NEW s, Agrees(s)
    PROVE  Kept(s)
<1> SUFFICES ASSUME NEW texts, NEW count \in Nat, Accepts(Put[s], texts),
                    Accepted(s, Printed(s, Build(Put[s], texts, count), {}))
             PROVE  LET made == Build(Put[s], texts, count)
                    IN  Meaning(s, Parse(s, Printed(s, made, {}))) = Meaning(s, made)
    BY DEF Kept
<1>1. Len(Get[s].columns) \in Nat /\ Ordered(Get[s]) /\ InStep(s) /\ Fits(Put[s], Get[s])
    BY DEF Agrees, InStep, Ordered
<1>2. /\ StructOf(Build(Put[s], texts, count), Get[s], TextsOf(texts))
      /\ Filled(Get[s], Build(Put[s], texts, count))
    BY <1>1, BuildFits
<1>3. 0 \in TextsOf(texts)
    BY DEF TextsOf
<1> QED
    BY <1>1, <1>2, <1>3, RoundTrip

(* Fields i and i + 1 make the member. *)
IsPair(form, slot, p, i) == \A j \in 1 .. p : MemberOf(form, j) = slot <=> j = i \/ j = i + 1

\* A member of two fields that follow each other.
LEMMA MemberPair ==
    ASSUME NEW T, 0 \in T, NEW p \in Nat, NEW entries \in [1 .. p -> Entry(T)], NEW kinds,
           NEW stmt, NEW form, NEW slot
    PROVE  LET fields == Row(stmt, kinds, entries)
           IN  \A i \in 1 .. p :
                 i + 1 <= p /\ IsPair(form, slot, p, i) =>
                    Member(form, fields, slot)
                      = Made(Letter(form, i), fields[i])
                        \o Made(Letter(form, i + 1), fields[i + 1])
<1> DEFINE fields == Row(stmt, kinds, entries)
<1> SUFFICES ASSUME NEW i \in 1 .. p, i + 1 <= p,
                    \A j \in 1 .. p : MemberOf(form, j) = slot <=> j = i \/ j = i + 1
             PROVE  Member(form, fields, slot)
                      = Made(Letter(form, i), fields[i])
                        \o Made(Letter(form, i + 1), fields[i + 1])
    BY DEF IsPair
<1> DEFINE made(j) == Made(Letter(form, j), fields[j])
           seqs == [j \in 1 .. p |-> IF MemberOf(form, j) = slot THEN made(j) ELSE << >>]
           E    == Entry(T)
           rest == SubSeq(seqs, i + 1, p)
<1>1. DOMAIN fields = 1 .. p
    BY DEF Row
<1>2. Member(form, fields, slot) = FlattenSeq(seqs)
    BY <1>1 DEF Member
<1>3. \A j \in 1 .. p : made(j) \in Seq(E)
    BY <1>1, MadeAlike DEF Row
<1>4. /\ \A j \in 1 .. p : seqs[j] \in Seq(E)
      /\ \A j \in 1 .. p : j # i /\ j # i + 1 => seqs[j] = << >>
      /\ i + 1 \in 1 .. p /\ seqs[i] = made(i) /\ seqs[i + 1] = made(i + 1)
    BY <1>3
<1>5. seqs \in Seq(Seq(E)) /\ Len(seqs) = p
  <2>1. seqs \in [1 .. p -> Seq(E)]
    BY <1>3
  <2> HIDE DEF seqs, E
  <2> QED
    BY <2>1
<1> HIDE DEF seqs, made, E
<1>6. FlattenSeq(seqs) = seqs[i] \o FlattenSeq(rest)
  <2>1. i \in 1 .. Len(seqs) /\ \A j \in 1 .. i - 1 : seqs[j] = << >>
    BY <1>4, <1>5
  <2>2. FlattenSeq(seqs) = seqs[i] \o FlattenSeq(SubSeq(seqs, i + 1, Len(seqs)))
    BY <1>5, <2>1, FlattenAt
  <2> QED
    BY <1>5, <2>2
<1>7. /\ rest \in Seq(Seq(E)) /\ Len(rest) = p - i
      /\ \A j \in 1 .. p - i : rest[j] = seqs[i + j]
  <2>1. \A j \in i + 1 .. p : seqs[j] \in Seq(E)
    BY <1>4
  <2>2. /\ rest \in Seq(Seq(E)) /\ Len(rest) = IF i + 1 <= p THEN p - (i + 1) + 1 ELSE 0
        /\ \A j \in 1 .. p - (i + 1) + 1 : rest[j] = seqs[i + 1 + j - 1]
    BY <1>5, <2>1, SubSeqProperties
  <2>3. p - (i + 1) + 1 = p - i /\ \A j \in 1 .. p - i : i + 1 + j - 1 = i + j
    OBVIOUS
  <2> HIDE DEF rest
  <2> QED
    BY <2>2, <2>3
<1> HIDE DEF rest
<1>8. FlattenSeq(rest) = rest[1]
  <2>1. 1 \in 1 .. Len(rest)
    BY <1>7
  <2>2. ASSUME NEW j \in 1 .. Len(rest), j # 1
        PROVE  rest[j] = << >>
    <3>1. i + j \in 1 .. p /\ i + j # i /\ i + j # i + 1 /\ j \in 1 .. p - i
      BY <1>7, <2>2
    <3> QED
      BY <1>4, <1>7, <3>1
  <2> QED
    BY <1>7, <2>1, <2>2, FlattenOne
<1>9. rest[1] = seqs[i + 1]
  <2>1. 1 \in 1 .. p - i
    BY <1>4
  <2> QED
    BY <1>7, <2>1
<1> QED
    BY <1>2, <1>4, <1>6, <1>8, <1>9 DEF made

(* The entries a fan-out shows: the name, the pair of bit streams, the     *)
(* headstack and the tracks.                                               *)
First(slot) == IF 1 <= Len(slot) THEN slot[1] ELSE <<0>>

FanKind(i) == IF i = 1 THEN "text" ELSE IF i = 2 THEN "link" ELSE IF i = 3 THEN "text" ELSE "value"

FanEntry(s, i) ==
    IF i = 1 THEN First(s[1]) ELSE IF i = 2 THEN s[2][1] ELSE IF i = 3 THEN s[2][2]
    ELSE IF i = 4 THEN First(s[3]) ELSE s[4][i - 4]

\* The columns of a fan-out: its name, the pair of bit streams, the headstack.
LEMMA FanoutColumns ==
    LET get == Get["fanout_def"]
    IN  /\ Len(get.columns) = 4 /\ DOMAIN get.columns = 1 .. 4 /\ get.rest = "value"
        /\ \A i \in 1 .. 4 : get.columns[i].kind = FanKind(i)
        /\ get.columns[1].slot = 1 /\ get.columns[1].at = 1 /\ get.columns[1].needs = {}
        /\ get.columns[2].slot = 2 /\ get.columns[2].at = 1 /\ get.columns[2].needs = {<<2, 1>>}
        /\ get.columns[3].slot = 2 /\ get.columns[3].at = 2 /\ get.columns[3].needs = {<<2, 2>>}
        /\ get.columns[4].slot = 3 /\ get.columns[4].at = 1 /\ get.columns[4].needs = {}
<1> DEFINE cols == <<Text(1), Bit(2, 1, "link"), Bit(2, 2, "text"), Number(3)>>
           get == Get["fanout_def"]
<1>1. get = Listed(cols, "value")
    BY GetBlocks DEF Part, GetFan
<1>2. get.columns = cols /\ get.rest = "value"
    BY <1>1 DEF Listed
<1>3. Len(cols) = 4 /\ DOMAIN cols = 1 .. 4
    OBVIOUS
<1>4. /\ \A i \in 1 .. 4 : cols[i].kind = FanKind(i)
      /\ cols[1].slot = 1 /\ cols[1].at = 1 /\ cols[1].needs = {}
      /\ cols[2].slot = 2 /\ cols[2].at = 1 /\ cols[2].needs = {<<2, 1>>}
      /\ cols[3].slot = 2 /\ cols[3].at = 2 /\ cols[3].needs = {<<2, 2>>}
      /\ cols[4].slot = 3 /\ cols[4].at = 1 /\ cols[4].needs = {}
  <2>1. /\ cols[1] = Column(1, "text") /\ cols[4] = Column(3, "value")
        /\ cols[2] = Bit(2, 1, "link") /\ cols[3] = Bit(2, 2, "text")
    BY DEF Text, Number
  <2>2. /\ cols[1].slot = 1 /\ cols[1].at = 1 /\ cols[1].needs = {} /\ cols[1].kind = "text"
        /\ cols[4].slot = 3 /\ cols[4].at = 1 /\ cols[4].needs = {} /\ cols[4].kind = "value"
    BY <2>1 DEF Column
  <2>3. /\ cols[2].slot = 2 /\ cols[2].at = 1 /\ cols[2].needs = {<<2, 1>>}
        /\ cols[2].kind = "link"
    BY <2>1 DEF Bit, Column
  <2>4. /\ cols[3].slot = 2 /\ cols[3].at = 2 /\ cols[3].needs = {<<2, 2>>}
        /\ cols[3].kind = "text"
    BY <2>1 DEF Bit, Column
  <2> HIDE DEF cols
  <2>5. \A i \in 1 .. 4 : cols[i].kind = FanKind(i)
    BY <2>2, <2>3, <2>4 DEF FanKind
  <2> QED
    BY <2>2, <2>3, <2>4, <2>5
<1> HIDE DEF cols, get
<1> QED
    BY <1>2, <1>3, <1>4 DEF get

\* The fields of a fan-out with its pair of bit streams; without, at most two.
LEMMA FanoutFields ==
    ASSUME NEW T, NEW s \in Seq(Seq(Entry(T))), Len(s) = 4
    PROVE  LET F == Fields("fanout_def", s)
           IN  /\ Len(s[2]) = 2 =>
                    /\ DOMAIN F = 1 .. 4 + Len(s[4])
                    /\ \A i \in 1 .. 4 + Len(s[4]) : F[i] = Shown(FanKind(i), FanEntry(s, i))
               /\ Len(s[2]) < 2 => \E m \in 0 .. 2 : DOMAIN F = 1 .. m
<1> DEFINE get   == Get["fanout_def"]
           F     == Fields("fanout_def", s)
           stops == {i \in DOMAIN get.columns : Ends(get.columns[i], s)}
           shown == [i \in DOMAIN get.columns |-> ColumnField(get.columns[i], s)]
           rest  == RestFields("value", s[4])
           k     == Len(s[4])
<1>1. \A i \in 1 .. 4 : s[i] \in Seq(Entry(T)) /\ Len(s[i]) \in Nat
    BY ElementOfSeq, LenProperties
<1>2. /\ 1 \notin stops /\ 4 \notin stops
      /\ 2 \in stops <=> Len(s[2]) < 1
      /\ 3 \in stops <=> Len(s[2]) < 2
  <2>1. /\ 1 \in DOMAIN get.columns /\ 2 \in DOMAIN get.columns
        /\ 3 \in DOMAIN get.columns /\ 4 \in DOMAIN get.columns
    BY FanoutColumns
  <2>2. ~Ends(get.columns[1], s) /\ ~Ends(get.columns[4], s)
    BY FanoutColumns DEF Ends
  <2>3. Ends(get.columns[2], s) <=> Len(s[2]) < 1
    BY FanoutColumns DEF Ends
  <2>4. Ends(get.columns[3], s) <=> Len(s[2]) < 2
    BY FanoutColumns DEF Ends
  <2> QED
    BY <2>1, <2>2, <2>3, <2>4
<1>3. stops \subseteq 1 .. 4
    BY FanoutColumns
<1>4. F = CASE stops # {} -> SubSeq(shown, 1, Min(stops) - 1)
            [] stops = {} /\ get.rest = "none" -> shown
            [] OTHER -> shown \o rest
    BY FanoutColumns DEF Fields
<1> DEFINE V == {shown[i] : i \in 1 .. 4}
<1>5. shown \in Seq(V) /\ Len(shown) = 4 /\ DOMAIN shown = 1 .. 4
  <2>1. shown = [i \in 1 .. 4 |-> shown[i]] /\ DOMAIN shown = 1 .. 4
    BY FanoutColumns
  <2> HIDE DEF shown
  <2>2. shown \in [1 .. 4 -> V]
    BY <2>1
  <2> HIDE DEF V
  <2> QED
    BY <2>1, <2>2
<1>6. ASSUME Len(s[2]) = 2, NEW i \in 1 .. 4
      PROVE  shown[i] = Shown(FanKind(i), FanEntry(s, i))
  <2>1. shown[i] = ColumnField(get.columns[i], s)
    BY FanoutColumns
  <2>2. CASE i = 1
    BY <2>1, <2>2, FanoutColumns DEF ColumnField, FanEntry, First
  <2>3. CASE i = 2
    BY <1>6, <2>1, <2>3, FanoutColumns DEF ColumnField, FanEntry
  <2>4. CASE i = 3
    BY <1>6, <2>1, <2>4, FanoutColumns DEF ColumnField, FanEntry
  <2>5. CASE i = 4
    BY <2>1, <2>5, FanoutColumns DEF ColumnField, FanEntry, First
  <2> QED
    BY <2>2, <2>3, <2>4, <2>5
<1> HIDE DEF F, stops, shown, V, get, rest
<1>7. ASSUME Len(s[2]) < 2
      PROVE  \E m \in 0 .. 2 : DOMAIN F = 1 .. m
  <2>1. stops \in SUBSET Nat /\ 3 \in stops
    BY <1>2, <1>3, <1>7
  <2>2. PICK m \in stops : \A j \in stops : m <= j
    BY <2>1, HasLeast
  <2>3. Min(stops) = m
    BY <2>1, <2>2, MinIs
  <2>4. m \in {2, 3}
    BY <1>2, <1>3, <2>1, <2>2
  <2>5. F = SubSeq(shown, 1, m - 1)
    BY <1>4, <2>1, <2>3
  <2>6. m - 1 \in 0 .. 2 /\ \A i \in 1 .. m - 1 : shown[i] \in V
    BY <1>5, <2>4 DEF V
  <2>7. SubSeq(shown, 1, m - 1) \in Seq(V) /\ Len(SubSeq(shown, 1, m - 1)) = m - 1
    <3>1. /\ SubSeq(shown, 1, m - 1) \in Seq(V)
          /\ Len(SubSeq(shown, 1, m - 1)) = IF 1 <= m - 1 THEN m - 1 - 1 + 1 ELSE 0
      BY <1>5, <2>6, SubSeqProperties
    <3> QED
      BY <2>4, <3>1
  <2>8. DOMAIN F = 1 .. m - 1
    BY <2>5, <2>7, LenProperties
  <2> QED
    BY <2>6, <2>8
<1>8. ASSUME Len(s[2]) = 2
      PROVE  /\ DOMAIN F = 1 .. 4 + k
             /\ \A i \in 1 .. 4 + k : F[i] = Shown(FanKind(i), FanEntry(s, i))
  <2>1. stops = {}
    BY <1>2, <1>3, <1>8
  <2>2. F = shown \o rest
    BY <1>4, <2>1, FanoutColumns DEF get
  <2> DEFINE U == V \cup {rest[j] : j \in 1 .. k}
  <2>3. /\ k \in Nat /\ DOMAIN rest = 1 .. k
        /\ \A j \in 1 .. k : rest[j] = Shown("value", s[4][j])
    BY <1>1, LenProperties DEF rest, RestFields
  <2>4. rest = [j \in 1 .. k |-> rest[j]]
    BY <2>3 DEF rest, RestFields
  <2> HIDE DEF k
  <2>5. rest \in Seq(U) /\ Len(rest) = k
    <3>1. rest \in [1 .. k -> U]
      BY <2>3, <2>4
    <3> HIDE DEF U
    <3> QED
      BY <2>3, <3>1
  <2>6. shown \in Seq(U)
    BY <1>5, SeqMonotonic
  <2> HIDE DEF U
  <2>7. /\ F \in Seq(U) /\ Len(F) = 4 + k
        /\ \A i \in 1 .. 4 + k : F[i] = IF i <= 4 THEN shown[i] ELSE rest[i - 4]
    <3>1. /\ F \in Seq(U) /\ Len(F) = Len(shown) + Len(rest)
          /\ \A i \in 1 .. Len(shown) + Len(rest) :
               F[i] = IF i <= Len(shown) THEN shown[i] ELSE rest[i - Len(shown)]
      BY <2>2, <2>5, <2>6, ConcatProperties
    <3> QED
      BY <1>5, <2>5, <3>1
  <2>8. DOMAIN F = 1 .. 4 + k
    BY <2>3, <2>7, LenProperties
  <2>9. ASSUME NEW i \in 1 .. 4 + k
        PROVE  F[i] = Shown(FanKind(i), FanEntry(s, i))
    <3>1. CASE i <= 4
      BY <1>6, <1>8, <2>7, <3>1
    <3>2. CASE ~(i <= 4)
      <4>1. i - 4 \in 1 .. k /\ i \notin {1, 2, 3, 4}
        BY <2>3, <3>2
      <4>2. F[i] = Shown("value", s[4][i - 4])
        BY <2>3, <2>7, <3>2, <4>1
      <4> QED
        BY <4>1, <4>2 DEF FanKind, FanEntry
    <3> QED
      BY <3>1, <3>2
  <2> QED
    BY <2>8, <2>9
<1> QED
    BY <1>7, <1>8 DEF F

\* The struct of a fan-out: four members, the bit streams none, one or a pair.
LEMMA FanoutStruct ==
    ASSUME NEW texts, NEW count \in Nat, Accepts(Put["fanout_def"], texts)
    PROVE  LET s == Build(Put["fanout_def"], texts, count)
           IN  /\ s \in Seq(Seq(Entry(TextsOf(texts)))) /\ Len(s) = 4
               /\ Len(s[2]) \in {0, 1, 2}
<1> DEFINE put   == Put["fanout_def"]
           T     == TextsOf(texts)
           taken == Min(Met(put, texts))
           slots == put.forms[taken].slots
           s     == Build(put, texts, count)
           pair  == << <<2>>, <<3>> >>
           forms == << Branch({2, 3}, <<Str(1), pair, Value(4), Many>>),
                       Branch({2}, <<Str(1), Str(2), Value(4), Many>>),
                       Branch({3}, <<Str(1), Str(3), Value(4), Many>>),
                       Branch({}, <<Str(1), Null, Value(4), Many>>) >>
<1>1. put = [Listing(4, <<Str(1), Null, Value(4), Many>>, "value") EXCEPT !.forms = forms]
    BY PutBlocks DEF Part, PutFan
<1>2. /\ put.forms = forms /\ put.args = 4 /\ put.empty = << >>
    BY <1>1 DEF Listing, Unchecked, Branches
<1>3. /\ DOMAIN forms = 1 .. 4
      /\ \A b \in 1 .. 4 :
           /\ Len(forms[b].slots) = 4 /\ DOMAIN forms[b].slots = 1 .. 4
           /\ forms[b].slots[1] = Str(1) /\ forms[b].slots[3] = Value(4)
           /\ forms[b].slots[4] = Many
           /\ forms[b].slots[2] \in {pair, Str(2), Str(3), Null}
    BY DEF Branch
<1>4. /\ Str(1) \in Seq(Entry(Nat)) /\ Value(4) \in Seq(Entry(Nat))
      /\ Str(2) \in Seq(Entry(Nat)) /\ Str(3) \in Seq(Entry(Nat)) /\ Null \in Seq(Entry(Nat))
    BY Ones DEF One
<1>5. pair \in Seq(Entry(Nat)) /\ Len(pair) = 2
  <2> DEFINE E == Entry(Nat)
             a == <<2>>
             b == <<3>>
  <2>1. a \in E /\ b \in E
    BY DEF Entry
  <2> HIDE DEF E, a, b
  <2>2. <<a, b>> \in Seq(E) /\ Len(<<a, b>>) = 2
    BY <2>1
  <2> QED
    BY <2>2 DEF E, a, b
<1>6. Len(Str(2)) = 1 /\ Len(Str(3)) = 1 /\ Len(Null) = 0
    BY DEF Str, Null
<1> HIDE DEF pair, forms, put, T, taken, s
<1>7. taken \in 1 .. 4
  <2>1. Met(put, texts) \in SUBSET Nat /\ Met(put, texts) # {}
    BY <1>2, <1>3 DEF Met, Accepts, put
  <2>2. PICK m \in Met(put, texts) : \A k \in Met(put, texts) : m <= k
    BY <2>1, HasLeast
  <2>3. Min(Met(put, texts)) = m
    BY <2>1, <2>2, MinIs
  <2> QED
    BY <1>2, <1>3, <2>2, <2>3 DEF Met, taken
<1>8. /\ DOMAIN slots = 1 .. 4
      /\ slots[1] \in Seq(Entry(Nat)) /\ slots[3] \in Seq(Entry(Nat)) /\ slots[4] = Many
      /\ slots[2] \in Seq(Entry(Nat)) /\ Len(slots[2]) \in {0, 1, 2}
    BY <1>2, <1>3, <1>4, <1>5, <1>6, <1>7
<1>9. s = [i \in 1 .. 4 |-> Fill(put, texts, count, slots[i])]
    BY <1>8 DEF Build, s, taken, put
<1> HIDE DEF slots
<1>10. /\ \A i \in 1 .. 3 : s[i] \in Seq(Entry(T)) /\ Len(s[i]) = Len(slots[i])
  <2>1. ASSUME NEW i \in 1 .. 3
        PROVE  s[i] \in Seq(Entry(T)) /\ Len(s[i]) = Len(slots[i])
    <3>1. slots[i] \in Seq(Entry(Nat)) /\ s[i] = Fill(put, texts, count, slots[i])
      BY <1>8, <1>9
    <3> QED
      BY <3>1, SlotFill DEF T
  <2> QED
    BY <2>1
<1>11. s[4] \in Seq(Entry(T))
  <2>1. << >> \in Seq(Entry({0}))
    OBVIOUS
  <2>2. put.args \in Nat /\ put.empty \in Seq(Entry({0}))
    BY <1>2, <2>1
  <2>3. \A slot : slot = Many => Fill(put, texts, count, slot) \in Seq(Entry(T))
    BY <2>2, ListFill DEF T
  <2>4. s[4] = Fill(put, texts, count, slots[4])
    BY <1>9
  <2> QED
    BY <1>8, <2>3, <2>4
<1>12. s \in Seq(Seq(Entry(T))) /\ Len(s) = 4
  <2> DEFINE U == Seq(Entry(T))
  <2>1. \A i \in 1 .. 4 : s[i] \in U
    BY <1>10, <1>11
  <2> HIDE DEF U
  <2> DEFINE w == 4
  <2>2. s \in [1 .. w -> U] /\ w \in Nat
    BY <1>9, <2>1
  <2> HIDE DEF w
  <2>3. s \in Seq(U) /\ Len(s) = w
    BY <2>2
  <2> QED
    BY <2>3 DEF U, w
<1> QED
    BY <1>8, <1>10, <1>12 DEF s, T, put

\* What the grammar makes of a fan-out: only the form with one pair can match.
LEMMA FanoutForms ==
    ASSUME NEW form \in Forms["fanout_def"]
    PROVE  LET L == Len(form.letters)
           IN  /\ form.least = 1 /\ form.width = 4 /\ L \in {4, 6}
               /\ form.letters[2] = "L" /\ form.letters[3] = "N"
               /\ L = 6 => form.letters[4] = "L"
               /\ L = 4 => /\ form.letters[4] = "V" /\ form.letters[1] = "n"
                           /\ \A i \in 1 .. 4 : form.slots[i] = IF i = 1 THEN 1 ELSE IF i = 4 THEN 3 ELSE 2
                           /\ form.list = <<"V">>
<1> DEFINE a == Repeating(Form(<<"n", "L", "N", "V">>, <<1, 2, 2, 3>>, 4), <<"V">>, 1, Endless)
           b == Repeating(Form(<<"n", "L", "N", "L", "N", "V">>,
                               <<1, 2, 2, 2, 2, 3>>, 4), <<"V">>, 1, Endless)
<1>1. Forms["fanout_def"] = {a, b}
    BY FormsBlocks DEF Part, FanForms
<1>2. CASE form = a
    BY <1>2 DEF Repeating, Form
<1>3. CASE form = b
    BY <1>3 DEF Repeating, Form
<1> QED
    BY <1>1, <1>2, <1>3

\* The members of the form of a fan-out with one pair of bit streams.
LEMMA PairThenList ==
    ASSUME NEW T, 0 \in T, NEW p \in Nat, 4 <= p, NEW entries \in [1 .. p -> Entry(T)],
           NEW kinds, NEW stmt, NEW form,
           \A i \in 1 .. p : MemberOf(form, i) = IF i = 1 THEN 1 ELSE IF i = 2 \/ i = 3 THEN 2
                                                 ELSE IF i = 4 THEN 3 ELSE 4,
           \A i \in 1 .. p :
              i > 4 => Len(Made(Letter(form, i), Row(stmt, kinds, entries)[i])) = 1
    PROVE  LET fields  == Row(stmt, kinds, entries)
               made(i) == Made(Letter(form, i), fields[i])
           IN  /\ Member(form, fields, 1) = made(1) /\ Member(form, fields, 3) = made(4)
               /\ Member(form, fields, 2) = made(2) \o made(3)
               /\ Len(Member(form, fields, 4)) = p - 4
               /\ \A j \in 1 .. p - 4 : Member(form, fields, 4)[j] = made(4 + j)[1]
<1> DEFINE fields  == Row(stmt, kinds, entries)
           made(i) == Made(Letter(form, i), fields[i])
<1>1. /\ \A j \in 1 .. p : MemberOf(form, j) = 1 <=> j = 1
      /\ \A j \in 1 .. p : MemberOf(form, j) = 3 <=> j = 4
      /\ \A j \in 1 .. p : MemberOf(form, j) = 2 <=> j = 2 \/ j = 2 + 1
      /\ \A j \in 1 .. p : MemberOf(form, j) = 4 <=> j > 4
    OBVIOUS
<1>2. 1 \in 1 .. p /\ 4 \in 1 .. p /\ 2 \in 1 .. p /\ 2 + 1 <= p /\ 4 \in 0 .. p
    OBVIOUS
<1>3. Member(form, fields, 1) = made(1)
    BY <1>1, <1>2, MembersOf
<1>4. Member(form, fields, 3) = made(4)
    BY <1>1, <1>2, MembersOf
<1>5. Member(form, fields, 2) = made(2) \o made(2 + 1)
  <2>1. IsPair(form, 2, p, 2)
    BY <1>1 DEF IsPair
  <2> QED
    BY <1>2, <2>1, MemberPair
<1>6. /\ Len(Member(form, fields, 4)) = p - 4
      /\ \A j \in 1 .. p - 4 : Member(form, fields, 4)[j] = made(4 + j)[1]
  <2>1. Trailing(form, 4, fields, p, 4)
    BY <1>1 DEF Trailing
  <2>2. Gathered(form, 4, fields, p, 4)
    BY <1>2, <2>1, MembersOf
  <2> QED
    BY <2>2 DEF Gathered
<1> QED
    BY <1>3, <1>4, <1>5, <1>6

\* A fan-out is not in step (its pair of bit streams is one member), and yet
\* what the reader makes of it means the same.
LEMMA FanoutKept == Kept("fanout_def")
<1> SUFFICES ASSUME NEW texts, NEW count \in Nat, Accepts(Put["fanout_def"], texts),
                    Accepted("fanout_def",
                      Printed("fanout_def", Build(Put["fanout_def"], texts, count), {}))
             PROVE  LET made == Build(Put["fanout_def"], texts, count)
                    IN  Meaning("fanout_def", Parse("fanout_def", Printed("fanout_def", made, {})))
                          = Meaning("fanout_def", made)
    BY DEF Kept
<1> DEFINE stmt   == "fanout_def"
           T      == TextsOf(texts)
           s      == Build(Put[stmt], texts, count)
           k      == Len(s[4])
           p      == 4 + k
           F      == Fields(stmt, s)
           fields == Printed(stmt, s, {})
           form   == CHOOSE form \in Forms[stmt] : Matches(form, fields)
           L      == Len(form.letters)
           again   == Parse(stmt, fields)
           B      == Fields(stmt, again)
<1>1. s \in Seq(Seq(Entry(T))) /\ Len(s) = 4 /\ Len(s[2]) \in {0, 1, 2} /\ 0 \in T
    BY FanoutStruct DEF TextsOf
<1>2. form \in Forms[stmt] /\ Matches(form, fields)
    BY DEF Accepted
<1>3. DOMAIN fields = DOMAIN F /\ \A i \in DOMAIN F : fields[i] = Tokens(stmt, F[i], {})
    BY DEF Printed
<1>4. /\ form.least = 1 /\ form.width = 4 /\ L \in {4, 6}
      /\ form.letters[2] = "L" /\ form.letters[3] = "N"
      /\ L = 6 => form.letters[4] = "L"
      /\ L = 4 => /\ form.letters[4] = "V" /\ form.letters[1] = "n"
                  /\ \A i \in 1 .. 4 :
                       form.slots[i] = IF i = 1 THEN 1 ELSE IF i = 4 THEN 3 ELSE 2
                  /\ form.list = <<"V">>
    BY <1>2, FanoutForms
<1>5. \A i \in 1 .. 4 : s[i] \in Seq(Entry(T)) /\ Len(s[i]) \in Nat
    BY <1>1, ElementOfSeq, LenProperties
<1>6. /\ Len(s[2]) = 2 =>
           /\ DOMAIN F = 1 .. p
           /\ \A i \in 1 .. p : F[i] = Shown(FanKind(i), FanEntry(s, i))
      /\ Len(s[2]) < 2 => \E m \in 0 .. 2 : DOMAIN F = 1 .. m
    BY <1>1, FanoutFields
<1>7. again = [slot \in 1 .. 4 |-> Member(form, fields, slot)]
    BY <1>4 DEF Parse
<1>8. /\ form.least <= Len(fields) - L
      /\ \A i \in DOMAIN fields : Shape(fields[i]) \in Admits[Letter(form, i)]
    BY <1>2 DEF Matches
<1> HIDE DEF stmt, T, s, F, fields, form, L, again, B
<1>9. \A m \in Nat : DOMAIN F = 1 .. m => Len(fields) = m
  <2>1. SUFFICES ASSUME NEW m \in Nat, DOMAIN F = 1 .. m
                 PROVE  Len(fields) = m
    OBVIOUS
  <2> DEFINE U == {fields[i] : i \in 1 .. m}
  <2>2. fields = [i \in 1 .. m |-> fields[i]]
    BY <1>3, <2>1 DEF Printed, fields, F
  <2>3. fields \in [1 .. m -> U]
    BY <2>2
  <2> HIDE DEF U
  <2>4. Len(fields) = m
    BY <2>3
  <2> QED
    BY <2>4
<1>10. Len(s[2]) = 2
  <2>1. SUFFICES ASSUME Len(s[2]) # 2
                 PROVE  FALSE
    OBVIOUS
  <2>2. Len(s[2]) < 2
    <3> DEFINE len == Len(s[2])
    <3>1. len \in {0, 1, 2} /\ len # 2
      BY <1>1, <2>1
    <3> HIDE DEF len
    <3>2. len < 2
      BY <3>1
    <3> QED
      BY <3>2 DEF len
  <2>3. PICK m \in 0 .. 2 : DOMAIN F = 1 .. m
    BY <1>6, <2>2
  <2>4. Len(fields) = m
    BY <1>9, <2>3
  <2>5. 1 <= m - L
    BY <1>4, <1>8, <2>4
  <2> QED
    BY <1>4, <2>3, <2>5
<1>11. k \in Nat /\ p \in Nat /\ 4 <= p /\ p - 4 = k
    BY <1>5
<1>12. /\ DOMAIN F = 1 .. p /\ Len(fields) = p /\ DOMAIN fields = 1 .. p
       /\ \A i \in 1 .. p : F[i] = Shown(FanKind(i), FanEntry(s, i))
    BY <1>3, <1>6, <1>9, <1>10, <1>11
<1>13. \A i \in 1 .. p : FanEntry(s, i) \in Entry(T)
  <2>1. <<0>> \in Entry(T)
    <3>1. <<0>> \in Seq(T) /\ Len(<<0>>) = 1
      BY <1>1
    <3> QED
      BY <3>1 DEF Entry
  <2>2. \A slot \in Seq(Entry(T)) : First(slot) \in Entry(T)
    BY <2>1, ElementOfSeq DEF First
  <2>3. s[2][1] \in Entry(T) /\ s[2][2] \in Entry(T)
    BY <1>5, <1>10, ElementOfSeq
  <2>4. ASSUME NEW i \in 1 .. p, i \notin {1, 2, 3, 4}
        PROVE  s[4][i - 4] \in Entry(T)
    <3>1. i - 4 \in 1 .. k
      BY <1>11, <2>4
    <3> QED
      BY <1>5, <3>1, ElementOfSeq
  <2> QED
    BY <1>5, <2>2, <2>3, <2>4 DEF FanEntry
<1> DEFINE entries == [i \in 1 .. p |-> FanEntry(s, i)]
           kinds   == [i \in 1 .. p |-> FanKind(i)]
           made(i) == Made(Letter(form, i), fields[i])
<1>14. entries \in [1 .. p -> Entry(T)] /\ DOMAIN entries = 1 .. p
       /\ \A i \in 1 .. p : entries[i] = FanEntry(s, i) /\ kinds[i] = FanKind(i)
    BY <1>13
<1>15. fields = Row(stmt, kinds, entries)
    BY <1>12, <1>14 DEF fields, Printed, Row, F
<1>a. 0 \in T /\ p \in Nat /\ entries \in [1 .. p -> Entry(T)]
    BY <1>1, <1>11, <1>14
<1>16. \A i \in 1 .. p : fields[i] = Tokens(stmt, F[i], {})
    BY <1>3, <1>12
<1> HIDE DEF entries, kinds, k, p
<1>17. ASSUME NEW i \in 1 .. p
       PROVE  /\ F[i].text # 0 => Len(made(i)) = 1
              /\ F[i].text # 0 <=> fields[i] # << >>
              /\ 1 <= Len(made(i)) => Alike(F[i], Shown(FanKind(i), made(i)[1]))
              /\ Alike(F[i], ShownAt(FanKind(i), made(i)))
              /\ made(i) \in Seq(Entry(T)) /\ Len(made(i)) <= 1
    BY <1>1, <1>12, <1>13, <1>16, MadeAlike
<1>18. ASSUME NEW i \in 1 .. p, Letter(form, i) \in Solid
       PROVE  Len(made(i)) = 1
  <2>1. fields[i] # << >>
    <3>1. SUFFICES ASSUME fields[i] = << >>
                   PROVE  FALSE
      OBVIOUS
    <3>2. Shape(fields[i]) = << >>
      BY <3>1 DEF Shape
    <3>3. << >> \in Admits[Letter(form, i)]
      BY <1>8, <1>12, <3>2
    <3> QED
      BY <1>18, <3>3, SolidLetters DEF Solid
  <2> QED
    BY <1>17, <2>1
<1>19. {1, 2, 3, 4} \subseteq 1 .. p
    BY <1>11
<1>20. Letter(form, 2) = "L" /\ Letter(form, 3) = "N"
    BY <1>4 DEF Letter, L
<1>21. L = 4
  <2>1. SUFFICES ASSUME L = 6
                 PROVE  FALSE
    BY <1>4
  <2>2. Letter(form, 4) = "L"
    BY <1>4, <2>1 DEF Letter, L
  <2>3. Admits["L"] = {<<"link">>}
    BY DEF Admits
  <2>4. Shape(fields[4]) = <<"link">>
    BY <1>8, <1>12, <1>19, <2>2, <2>3
  <2>5. fields[4] = Tokens(stmt, F[4], {}) /\ F[4] = Shown("value", FanEntry(s, 4))
    BY <1>12, <1>16, <1>19 DEF FanKind
  <2>6. Class(stmt, F[4].kind) = "name"
    BY <2>5 DEF Shown, Field, Class, stmt
  <2>7. fields[4] = << >> \/ fields[4][1] = Token("name", F[4].text)
    BY <2>5, <2>6, PlainTokens
  <2>8. DOMAIN fields[4] = {1} /\ fields[4][1].class = "link"
    <3> DEFINE link == <<"link">>
    <3>1. DOMAIN link = {1} /\ link[1] = "link"
      OBVIOUS
    <3> HIDE DEF link
    <3>2. Shape(fields[4]) = link
      BY <2>4 DEF link
    <3> QED
      BY <3>1, <3>2 DEF Shape
  <2> QED
    BY <2>7, <2>8 DEF Token
<1>22. \A i \in 1 .. p : MemberOf(form, i) = IF i = 1 THEN 1 ELSE IF i = 2 \/ i = 3 THEN 2
                                             ELSE IF i = 4 THEN 3 ELSE 4
  <2>1. /\ form.slots[1] = 1 /\ form.slots[2] = 2 /\ form.slots[3] = 2 /\ form.slots[4] = 3
    BY <1>4, <1>21
  <2> QED
    BY <1>4, <1>11, <1>21, <2>1 DEF MemberOf, L
<1>23. \A i \in 1 .. p : i > 4 => Letter(form, i) = "V"
  <2>1. Len(form.list) = 1 /\ form.list[1] = "V" /\ form.list # <<"L", "N">>
    BY <1>4, <1>21
  <2>2. \A j \in Nat \ {0} : ListLetter(form, j) = "V"
    BY <2>1 DEF ListLetter
  <2>3. \A i \in 1 .. p : i > 4 => i - 4 \in Nat \ {0} /\ ~(i <= 4)
    BY <1>11
  <2> QED
    BY <1>21, <2>2, <2>3 DEF Letter, L
<1>24. Len(made(2)) = 1 /\ Len(made(3)) = 1
    BY <1>18, <1>19, <1>20 DEF Solid
<1>25. \A i \in 1 .. p : i > 4 => Len(made(i)) = 1
    BY <1>18, <1>23 DEF Solid
<1>26. /\ DOMAIN again = 1 .. 4
       /\ \A slot \in 1 .. 4 : again[slot] = Member(form, fields, slot)
    BY <1>7
<1>27. \A slot \in 1 .. 4 : again[slot] \in Seq(Entry(T))
    BY <1>a, <1>15, <1>26, MembersOf
<1>28. again \in Seq(Seq(Entry(T))) /\ Len(again) = 4
  <2> DEFINE U == Seq(Entry(T))
             w == 4
  <2>1. \A i \in 1 .. w : again[i] \in U
    BY <1>27
  <2>2. again = [i \in 1 .. w |-> again[i]] /\ w \in Nat
    BY <1>7, <1>26
  <2> HIDE DEF U, w
  <2>3. again \in [1 .. w -> U]
    BY <2>1, <2>2
  <2>4. again \in Seq(U) /\ Len(again) = w
    BY <2>2, <2>3
  <2> QED
    BY <2>4 DEF U, w
<1>29. /\ again[1] = made(1) /\ again[3] = made(4) /\ again[2] = made(2) \o made(3)
       /\ Len(again[4]) = p - 4 /\ \A j \in 1 .. p - 4 : again[4][j] = made(4 + j)[1]
  <2> DEFINE row     == Row(stmt, kinds, entries)
             read(i) == Made(Letter(form, i), row[i])
  <2>1. \A i \in 1 .. p : i > 4 => Len(read(i)) = 1
    BY <1>15, <1>25
  <2>2. /\ Member(form, row, 1) = read(1) /\ Member(form, row, 3) = read(4)
        /\ Member(form, row, 2) = read(2) \o read(3)
        /\ Len(Member(form, row, 4)) = p - 4
        /\ \A j \in 1 .. p - 4 : Member(form, row, 4)[j] = read(4 + j)[1]
    BY <1>a, <1>11, <1>22, <2>1, PairThenList
  <2>3. fields = row /\ \A i : read(i) = made(i)
    BY <1>15
  <2> HIDE DEF row, read, made
  <2>4. /\ again[1] = Member(form, row, 1) /\ again[2] = Member(form, row, 2)
        /\ again[3] = Member(form, row, 3) /\ again[4] = Member(form, row, 4)
    BY <1>26, <2>3
  <2> QED
    BY <2>2, <2>3, <2>4
<1> HIDE DEF made
<1>32. Len(again[2]) = 2 /\ again[2][1] = made(2)[1] /\ again[2][2] = made(3)[1]
  <2>1. made(2) \in Seq(Entry(T)) /\ made(3) \in Seq(Entry(T))
    BY <1>17, <1>19
  <2> DEFINE a == made(2)
             b == made(3)
             c == a \o b
  <2>2. a \in Seq(Entry(T)) /\ b \in Seq(Entry(T)) /\ Len(a) = 1 /\ Len(b) = 1
    BY <1>24, <2>1
  <2> HIDE DEF a, b
  <2>3. /\ Len(c) = Len(a) + Len(b)
        /\ \A i \in 1 .. Len(a) + Len(b) : c[i] = IF i <= Len(a) THEN a[i] ELSE b[i - Len(a)]
    BY <2>2, ConcatProperties
  <2> HIDE DEF c
  <2>4. Len(c) = 2 /\ c[1] = a[1] /\ c[2] = b[1]
    BY <2>2, <2>3
  <2> QED
    BY <1>29, <2>4 DEF a, b, c
<1>33. /\ DOMAIN B = 1 .. p
       /\ \A i \in 1 .. p : B[i] = Shown(FanKind(i), FanEntry(again, i))
  <2>1. /\ DOMAIN B = 1 .. 4 + Len(again[4])
        /\ \A i \in 1 .. 4 + Len(again[4]) : B[i] = Shown(FanKind(i), FanEntry(again, i))
    BY <1>28, <1>32, FanoutFields DEF B, stmt
  <2>2. 4 + Len(again[4]) = p
    BY <1>11, <1>29
  <2> QED
    BY <2>1, <2>2
<1>34. ASSUME NEW i \in 1 .. p
       PROVE  Alike(F[i], B[i])
  <2>1. CASE i = 1
    <3>1. B[i] = ShownAt(FanKind(i), made(i))
      BY <1>29, <1>33, <2>1 DEF FanEntry, First, ShownAt
    <3> QED
      BY <1>17, <3>1
  <2>2. CASE i = 4
    <3>1. B[i] = ShownAt(FanKind(i), made(i))
      BY <1>29, <1>33, <2>2 DEF FanEntry, First, ShownAt
    <3> QED
      BY <1>17, <3>1
  <2>3. CASE i = 2 \/ i = 3
    <3>1. B[i] = Shown(FanKind(i), made(i)[1])
      BY <1>32, <1>33, <2>3 DEF FanEntry
    <3> QED
      BY <1>17, <1>24, <2>3, <3>1
  <2>4. CASE i > 4
    <3>1. i - 4 \in 1 .. p - 4 /\ 4 + (i - 4) = i /\ i \notin {1, 2, 3, 4}
      BY <1>11, <2>4
    <3>2. B[i] = Shown(FanKind(i), made(i)[1])
      BY <1>29, <1>33, <3>1 DEF FanEntry
    <3> QED
      BY <1>17, <1>25, <2>4, <3>2
  <2> QED
    BY <1>11, <2>1, <2>2, <2>3, <2>4
<1>35. \A i \in 1 .. p : Alike(B[i], F[i]) /\ i <= p /\ ~(i > p)
    BY <1>11, <1>34 DEF Alike
<1> QED
    BY <1>11, <1>12, <1>33, <1>35, MeaningAlike DEF F, B, again, fields, s, stmt

\* Every statement of the writer is in one of its blocks.
LEMMA PutDomain ==
    Statements = DOMAIN PutSched \cup DOMAIN PutAntenna \cup DOMAIN PutBbc \cup
      DOMAIN PutClock \cup DOMAIN PutDas \cup DOMAIN PutTape \cup DOMAIN PutEop \cup
      DOMAIN PutEopLists \cup DOMAIN PutNutation \cup DOMAIN PutExper \cup
      DOMAIN PutPeople \cup DOMAIN PutFreq \cup DOMAIN PutHeadPos \cup
      DOMAIN PutIf \cup DOMAIN PutPassOrder \cup DOMAIN PutPhaseCal \cup
      DOMAIN PutProcedures \cup DOMAIN PutRoll \cup DOMAIN PutSefd \cup
      DOMAIN PutSite \cup DOMAIN PutOrbit \cup DOMAIN PutSource \cup
      DOMAIN PutSourceModel \cup DOMAIN PutVsn \cup DOMAIN PutFan \cup DOMAIN PutTracks
    BY DEF Statements, Put, Joined

\* Whatever statement is made, the reader's struct means what the writer's did.
LEMMA AllKept ==
    \A s \in Statements : Kept(s)
<1>1. \A s \in DOMAIN PutSched : Kept(s)
  <2>1. DOMAIN PutSched = {"start", "mode", "source", "station", "data_transfer"}
    BY DEF PutSched
  <2> QED
    BY <2>1, AgreesKept, NameAgree, SchedAgree
<1>2. \A s \in DOMAIN PutAntenna : Kept(s)
  <2>1. DOMAIN PutAntenna = {"antenna_diam", "axis_type", "axis_offset",
          "antenna_motion", "pointing_sector"}
    BY DEF PutAntenna
  <2> QED
    BY <2>1, AgreesKept, UnitAgree, AntennaAgree
<1>3. \A s \in DOMAIN PutBbc : Kept(s)
  <2>1. DOMAIN PutBbc = {"BBC_assign"}
    BY DEF PutBbc
  <2> QED
    BY <2>1, AgreesKept, AntennaAgree
<1>4. \A s \in DOMAIN PutClock : Kept(s)
  <2>1. DOMAIN PutClock = {"clock_early"}
    BY DEF PutClock
  <2> QED
    BY <2>1, AgreesKept, ClockAgrees
<1>5. \A s \in DOMAIN PutDas : Kept(s)
  <2>1. DOMAIN PutDas = {"record_transport_type", "electronics_rack_type",
          "number_drives", "headstack", "record_density", "tape_length"}
    BY DEF PutDas
  <2> QED
    BY <2>1, AgreesKept, NameAgree, ValueAgree, DasAgree, TapeLengthAgrees
<1>6. \A s \in DOMAIN PutTape : Kept(s)
  <2>1. DOMAIN PutTape = {"recording_system_ID", "tape_motion", "tape_control"}
    BY DEF PutTape
  <2> QED
    BY <2>1, AgreesKept, ValueAgree, TapeMotionAgrees, NameAgree
<1>7. \A s \in DOMAIN PutEop : Kept(s)
  <2>1. DOMAIN PutEop = {"TAI_UTC", "A1_TAI", "eop_ref_epoch", "num_eop_points",
          "eop_interval"}
    BY DEF PutEop
  <2> QED
    BY <2>1, AgreesKept, UnitAgree, NameAgree, ValueAgree
<1>8. \A s \in DOMAIN PutEopLists : Kept(s)
  <2>1. DOMAIN PutEopLists = {"ut1_utc", "x_wobble", "y_wobble"}
    BY DEF PutEopLists
  <2> QED
    BY <2>1, AgreesKept, ListsAgree
<1>9. \A s \in DOMAIN PutNutation : Kept(s)
  <2>1. DOMAIN PutNutation = {"nut_ref_epoch", "num_nut_points", "nut_interval",
          "delta_psi", "delta_eps", "nut_model"}
    BY DEF PutNutation
  <2> QED
    BY <2>1, AgreesKept, NameAgree, ValueAgree, UnitAgree, ListsAgree
<1>10. \A s \in DOMAIN PutExper : Kept(s)
  <2>1. DOMAIN PutExper = {"exper_name", "exper_num", "exper_description",
          "exper_nominal_start", "exper_nominal_stop"}
    BY DEF PutExper
  <2> QED
    BY <2>1, AgreesKept, NameAgree, ValueAgree
<1>11. \A s \in DOMAIN PutPeople : Kept(s)
  <2>1. DOMAIN PutPeople = {"PI_name", "PI_email", "contact_name", "contact_email",
          "scheduler_name", "scheduler_email", "target_correlator"}
    BY DEF PutPeople
  <2> QED
    BY <2>1, AgreesKept, NameAgree
<1>12. \A s \in DOMAIN PutFreq : Kept(s)
  <2>1. DOMAIN PutFreq = {"chan_def", "sample_rate", "bits_per_sample",
          "switching_cycle"}
    BY DEF PutFreq
  <2> QED
    BY <2>1, AgreesKept, ChannelAgree, UnitAgree, ValueAgree
<1>13. \A s \in DOMAIN PutHeadPos : Kept(s)
  <2>1. DOMAIN PutHeadPos = {"headstack_pos"}
    BY DEF PutHeadPos
  <2> QED
    BY <2>1, AgreesKept, ChannelAgree
<1>14. \A s \in DOMAIN PutIf : Kept(s)
  <2>1. DOMAIN PutIf = {"if_def"}
    BY DEF PutIf
  <2> QED
    BY <2>1, AgreesKept, IfAgrees
<1>15. \A s \in DOMAIN PutPassOrder : Kept(s)
  <2>1. DOMAIN PutPassOrder = {"pass_order", "S2_group_order"}
    BY DEF PutPassOrder
  <2> QED
    BY <2>1, AgreesKept, ListsAgree
<1>16. \A s \in DOMAIN PutPhaseCal : Kept(s)
  <2>1. DOMAIN PutPhaseCal = {"phase_cal_detect"}
    BY DEF PutPhaseCal
  <2> QED
    BY <2>1, AgreesKept, ChannelAgree
<1>17. \A s \in DOMAIN PutProcedures : Kept(s)
  <2>1. DOMAIN PutProcedures = {"tape_change", "headstack_motion",
          "new_source_command", "new_tape_setup", "setup_always", "parity_check",
          "tape_prepass", "preob_cal", "midob_cal", "postob_cal",
          "procedure_name_prefix"}
    BY DEF PutProcedures
  <2> QED
    BY <2>1, AgreesKept, UnitAgree, ProceduresAgree, NameAgree
<1>18. \A s \in DOMAIN PutRoll : Kept(s)
  <2>1. DOMAIN PutRoll = {"roll", "roll_reinit_period", "roll_inc_period", "roll_def"}
    BY DEF PutRoll
  <2> QED
    BY <2>1, AgreesKept, NameAgree, UnitAgree, ValueAgree, ListsAgree
<1>19. \A s \in DOMAIN PutSefd : Kept(s)
  <2>1. DOMAIN PutSefd = {"sefd_model", "sefd"}
    BY DEF PutSefd
  <2> QED
    BY <2>1, AgreesKept, NameAgree, ChannelAgree
<1>20. \A s \in DOMAIN PutSite : Kept(s)
  <2>1. DOMAIN PutSite = {"site_name", "site_type", "site_ID", "site_position_epoch",
          "site_position_ref", "occupation_code", "site_position", "site_velocity",
          "horizon_map_az", "horizon_map_el", "ocean_load_vert", "ocean_load_horiz",
          "zen_atmos"}
    BY DEF PutSite
  <2> QED
    BY <2>1, AgreesKept, NameAgree, SiteAgree, UnitAgree
<1>21. \A s \in DOMAIN PutOrbit : Kept(s)
  <2>1. DOMAIN PutOrbit = {"inclination", "arg_perigee", "ascending_node",
          "mean_anomaly", "semi_major_axis", "eccentricity", "mean_motion",
          "orbit_epoch"}
    BY DEF PutOrbit
  <2> QED
    BY <2>1, AgreesKept, UnitAgree, ValueAgree, NameAgree
<1>22. \A s \in DOMAIN PutSource : Kept(s)
  <2>1. DOMAIN PutSource = {"source_name", "ra", "IAU_name", "dec", "ref_coord_frame",
          "source_position_ref", "source_position_epoch", "ra_rate", "dec_rate",
          "velocity_wrt_LSR", "source_type"}
    BY DEF PutSource
  <2> QED
    BY <2>1, AgreesKept, NameAgree, SourceAgree, UnitAgree
<1>23. \A s \in DOMAIN PutSourceModel : Kept(s)
  <2>1. DOMAIN PutSourceModel = {"source_model"}
    BY DEF PutSourceModel
  <2> QED
    BY <2>1, AgreesKept, SourceAgree
<1>24. \A s \in DOMAIN PutVsn : Kept(s)
  <2>1. DOMAIN PutVsn = {"VSN"}
    BY DEF PutVsn
  <2> QED
    BY <2>1, AgreesKept, SourceAgree
<1>25. \A s \in DOMAIN PutFan : Kept(s)
  <2>1. DOMAIN PutFan = {"fanin_def", "fanout_def"}
    BY DEF PutFan
  <2> QED
    BY <2>1, AgreesKept, TracksAgree, FanoutKept
<1>26. \A s \in DOMAIN PutTracks : Kept(s)
  <2>1. DOMAIN PutTracks = {"track_frame_format", "data_modulation",
          "S2_recording_mode", "VLBA_frmtr_sys_trk", "VLBA_trnsprt_sys_trk",
          "S2_data_source"}
    BY DEF PutTracks
  <2> QED
    BY <2>1, AgreesKept, NameAgree, FormatterAgrees, TracksAgree,
       DataSourceAgrees
<1> QED
    BY <1>1, <1>2, <1>3, <1>4, <1>5, <1>6, <1>7, <1>8, <1>9, <1>10, <1>11,
       <1>12, <1>13, <1>14, <1>15, <1>16, <1>17, <1>18, <1>19, <1>20, <1>21, <1>22,
       <1>23, <1>24, <1>25, <1>26, PutDomain

(* Where the struct, the printed fields and the reader's struct come from. *)
Traced ==
    LET stmt  == call.stmt
        texts == Passed(call.stmt, call.given, call.count)
    IN  /\ progress \in {"made", "printed", "read", "stopped"} =>
             /\ stmt \in Statements /\ call.count \in Nat
             /\ Accepts(Put[stmt], texts)
             /\ item = Build(Put[stmt], texts, call.count)
        /\ progress \in {"printed", "read", "stopped"} =>
             line = Printed(stmt, item, call.spaced)
        /\ progress = "read" => Accepted(stmt, line) /\ back = Parse(stmt, line)

\* What is read was printed, and what is printed was made: the inductive invariant of
\* one statement on its way through the file.
THEOREM StatementTraced == StatementSpec => []Traced
<1>1. AtRest => Traced
    BY DEF AtRest, Traced
<1>2. Traced /\ [Advance]_statement => Traced'
  <2> SUFFICES ASSUME Traced, [Advance]_statement
               PROVE  Traced'
    OBVIOUS
  <2>1. ASSUME NEW stmt \in Tried, NEW count \in Counts(stmt),
               NEW missing \in Missing(stmt, count),
               NEW spaced \in Blanks(missing, Arguments(stmt, count) \ missing),
               Create(stmt, Arguments(stmt, count) \ missing, count, spaced)
        PROVE  Traced'
    <3> DEFINE given == Arguments(stmt, count) \ missing
               texts == Passed(stmt, given, count)
    <3>1. stmt \in Statements /\ count \in Nat
      BY StatementAssumption DEF Counts
    <3>2. call' = [stmt |-> stmt, given |-> given, count |-> count, spaced |-> spaced]
      BY <2>1 DEF Create
    <3> HIDE DEF given
    <3>3. /\ (call').stmt = stmt /\ (call').given = given /\ (call').count = count
          /\ (call').spaced = spaced
      BY <3>2
    <3>4. \/ /\ progress' = "made" /\ Accepts(Put[stmt], texts)
             /\ item' = Build(Put[stmt], texts, count)
          \/ progress' = "refused"
      BY <2>1 DEF Create, given
    <3> HIDE DEF texts
    <3> QED
      BY <3>1, <3>3, <3>4 DEF Traced, texts
  <2>2. CASE Write
    BY <2>2 DEF Write, Traced
  <2>3. CASE Read
    BY <2>3 DEF Read, Traced
  <2>4. CASE Again
    BY <2>4 DEF Again, Traced
  <2>5. CASE UNCHANGED statement
    BY <2>5 DEF statement, Traced
  <2> QED
    BY <2>1, <2>2, <2>3, <2>4, <2>5 DEF Advance
<1> QED
    BY <1>1, <1>2, PTL DEF StatementSpec

\* Whatever arguments are left out, of any of the 115 statements and with lists of any
\* length: a statement the reader can read is read as it was made, for print_vex and the
\* grammar agree with vex_field on where each text goes.
THEOREM StatementNothingMoves == StatementSpec => []NothingMoves
<1>1. Traced => NothingMoves
  <2> SUFFICES ASSUME Traced, progress = "read", call.spaced = {}
               PROVE  Meaning(call.stmt, back) = Meaning(call.stmt, item)
    BY DEF NothingMoves
  <2> DEFINE stmt  == call.stmt
             count == call.count
             texts == Passed(call.stmt, call.given, call.count)
  <2>1. /\ stmt \in Statements /\ count \in Nat /\ Accepts(Put[stmt], texts)
        /\ item = Build(Put[stmt], texts, count)
        /\ line = Printed(stmt, item, {})
        /\ Accepted(stmt, line) /\ back = Parse(stmt, line)
    BY DEF Traced
  <2>2. Kept(stmt)
    BY <2>1, AllKept
  <2> HIDE DEF stmt, count, texts
  <2>3. Meaning(stmt, back) = Meaning(stmt, item)
    BY <2>1, <2>2 DEF Kept
  <2> QED
    BY <2>3 DEF stmt
<1> QED
    BY <1>1, StatementTraced, PTL

=============================================================================
