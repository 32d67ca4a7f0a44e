---------------------------- MODULE VexWalksProofs ----------------------------
(***************************************************************************)
(* What is proved of reading a VEX file line by line, for every file, every*)
(* set of questions, every size of the tables and any number of calls.     *)
(*                                                                         *)
(* The line vexf.c holds is of the statement it remembers (FieldsFit): the *)
(* statement is remembered at the first call of a walk only, and           *)
(* get_all_lowl goes on with places that other walks also use.  It is      *)
(* inductive with the types of the places (PlacesInv) and with what the    *)
(* caller's order leaves there: the walk it goes on with, if it is not     *)
(* over, is after the statement asked for last (AskedInv).                 *)
(*                                                                         *)
(* The walks implement VexAnswers (WalksAnswer): every function that       *)
(* searches a list gives the first of the lines still ahead of its place   *)
(* and leaves the others (Yields), reference by reference and, in          *)
(* get_all_lowl, section by section.                                       *)
(*                                                                         *)
(* The tables hold the names of the file (NamesStoredAll): as long as a    *)
(* table has room, the names in it and those its walk has still to give    *)
(* are all there are (StoredInv).                                          *)
(***************************************************************************)
EXTENDS VexWalks, ListLemmas

Inner == RefLines \cup Statements

VexBlocks == [block : STRING, items : Seq(AllLines)]

Asked == Queries \cup {NoQuery}

RefWalk == [state : BOOLEAN, refs : Seq(AllLines), lowls : Seq(Inner), query : Asked]

PlacesInv ==
    /\ TypeOK
    /\ def_walk \in [Kinds -> [state : BOOLEAN, defs : Seq(AllLines)]]
    /\ ref_walk \in [Sections -> RefWalk]
    /\ all_walk \in [state : 0 .. 4, query : Asked]
    /\ source_walk \in [state : BOOLEAN, refs : {<< >>}, lowls : Seq(Inner), query : Asked]

(* A place that is not over is after the statement that was asked for. *)
After(walk, statement) == walk.state => walk.query.statement = statement

AskedInv ==
    /\ save_type = asked.statement
    /\ save_ptr = NULL \/ save_ptr.statement = asked.statement
    /\ asked.kind = "mode" => After(ref_walk["MODE"], asked.statement)
    /\ asked.kind = "station" => After(ref_walk["STATION"], asked.statement)
    /\ asked.kind = "global" => After(ref_walk["GLOBAL"], asked.statement)
    /\ asked.kind = "source" => After(source_walk, asked.statement)
    /\ asked.kind = "all" =>
         /\ all_walk.state \in 1 .. 4 /\ all_walk.query = asked
         /\ all_walk.state < 4 => After(ref_walk[Order[all_walk.state]], asked.statement)

WalksInv == PlacesInv /\ AskedInv

-----------------------------------------------------------------------------
(* The searches in a list. *)

\* find_lowl stops at the first line of the statement.
LEMMA LowlPlace ==
    ASSUME NEW S, NEW list \in Seq(S), NEW statement
    PROVE  \E i \in 1 .. Len(list) + 1 :
              /\ FindLowl(list, statement) = SubSeq(list, i, Len(list))
              /\ i <= Len(list) => list[i].statement = statement
              /\ \A j \in 1 .. i - 1 : list[j].statement # statement
<1> DEFINE W == {i \in 1 .. Len(list) : list[i].statement = statement}
<1>1. Len(list) \in Nat /\ W \in SUBSET (1 .. Len(list))
    OBVIOUS
<1> HIDE DEF W
<1>2. \E i \in 1 .. Len(list) + 1 :
          (i <= Len(list) => i \in W) /\ \A j \in 1 .. i - 1 : j \notin W
    BY <1>1, FirstWanted
<1> USE DEF W
<1>3. \E i \in 1 .. Len(list) + 1 :
          /\ i <= Len(list) => list[i].statement = statement
          /\ \A j \in 1 .. i - 1 : ~(list[j].statement = statement)
    BY <1>1, <1>2
<1> QED
    BY <1>3 DEF FindLowl, From

\* find_lowl: a line of the statement, and the lines behind it.
LEMMA LowlFound ==
    ASSUME NEW S, NEW list \in Seq(S), NEW statement
    PROVE  LET here == FindLowl(list, statement)
           IN  /\ here \in Seq(S)
               /\ here # << >> => /\ Head(here) \in S /\ Tail(here) \in Seq(S)
                                  /\ Head(here).statement = statement
<1>1. PICK i \in 1 .. Len(list) + 1 :
          /\ FindLowl(list, statement) = SubSeq(list, i, Len(list))
          /\ i <= Len(list) => list[i].statement = statement
    BY LowlPlace
<1> QED
    BY <1>1, RestOf

\* find_def stops at the first def of the name.
LEMMA DefPlace ==
    ASSUME NEW S, NEW list \in Seq(S), NEW name
    PROVE  \E i \in 1 .. Len(list) + 1 :
              /\ FindDef(list, name) = SubSeq(list, i, Len(list))
              /\ i <= Len(list) => list[i].statement = "def" /\ list[i].name = name
              /\ \A j \in 1 .. i - 1 : ~(list[j].statement = "def" /\ list[j].name = name)
<1> DEFINE W == {i \in 1 .. Len(list) : list[i].statement = "def" /\ list[i].name = name}
<1>1. Len(list) \in Nat /\ W \in SUBSET (1 .. Len(list))
    OBVIOUS
<1> HIDE DEF W
<1>2. \E i \in 1 .. Len(list) + 1 :
          (i <= Len(list) => i \in W) /\ \A j \in 1 .. i - 1 : j \notin W
    BY <1>1, FirstWanted
<1> USE DEF W
<1>3. \E i \in 1 .. Len(list) + 1 :
          /\ i <= Len(list) => list[i].statement = "def" /\ list[i].name = name
          /\ \A j \in 1 .. i - 1 : ~(list[j].statement = "def" /\ list[j].name = name)
    BY <1>1, <1>2
<1> QED
    BY <1>3 DEF FindDef, From

\* find_def: a def of the name.
LEMMA DefFound ==
    ASSUME NEW S, NEW list \in Seq(S), NEW name
    PROVE  LET here == FindDef(list, name)
           IN  /\ here \in Seq(S)
               /\ here # << >> => /\ Head(here) \in S /\ Tail(here) \in Seq(S)
                                  /\ Head(here).statement = "def"
<1>1. PICK i \in 1 .. Len(list) + 1 :
          /\ FindDef(list, name) = SubSeq(list, i, Len(list))
          /\ i <= Len(list) => list[i].statement = "def"
    BY DefPlace
<1> QED
    BY <1>1, RestOf

\* find_block stops at the first block of the name.
LEMMA BlockPlace ==
    ASSUME NEW S, NEW list \in Seq(S), NEW name
    PROVE  \E i \in 1 .. Len(list) + 1 :
              /\ FindBlock(name, list) = SubSeq(list, i, Len(list))
              /\ i <= Len(list) => list[i].block = name
              /\ \A j \in 1 .. i - 1 : list[j].block # name
<1> DEFINE W == {i \in 1 .. Len(list) : list[i].block = name}
<1>1. Len(list) \in Nat /\ W \in SUBSET (1 .. Len(list))
    OBVIOUS
<1> HIDE DEF W
<1>2. \E i \in 1 .. Len(list) + 1 :
          (i <= Len(list) => i \in W) /\ \A j \in 1 .. i - 1 : j \notin W
    BY <1>1, FirstWanted
<1> USE DEF W
<1>3. \E i \in 1 .. Len(list) + 1 :
          /\ i <= Len(list) => list[i].block = name
          /\ \A j \in 1 .. i - 1 : ~(list[j].block = name)
    BY <1>1, <1>2
<1> QED
    BY <1>3 DEF FindBlock, From

\* find_block: a block.
LEMMA BlockFound ==
    ASSUME NEW S, NEW list \in Seq(S), NEW name
    PROVE  LET here == FindBlock(name, list)
           IN  /\ here \in Seq(S)
               /\ here # << >> => /\ Head(here) \in S /\ Tail(here) \in Seq(S)
                                  /\ Head(here).block = name
<1>1. PICK i \in 1 .. Len(list) + 1 :
          /\ FindBlock(name, list) = SubSeq(list, i, Len(list))
          /\ i <= Len(list) => list[i].block = name
    BY BlockPlace
<1> QED
    BY <1>1, RestOf

\* The lines of a block, and of a definition in it.
LEMMA ItemsType ==
    ASSUME NEW block
    PROVE  Items(FindBlock(block, Vex)) \in Seq(AllLines)
<1>1. Vex \in Seq(VexBlocks)
    BY WalksAssumption DEF VexBlocks
<1>2. FindBlock(block, Vex) # << >> => Head(FindBlock(block, Vex)) \in VexBlocks
    BY <1>1, BlockFound
<1>3. << >> \in Seq(AllLines)
    OBVIOUS
<1> QED
    BY <1>2, <1>3 DEF Items, VexBlocks

\* The lines of a definition are lines, also where there is no such definition.
LEMMA LinesType ==
    ASSUME NEW block, NEW name
    PROVE  Lines(FindDef(Items(FindBlock(block, Vex)), name)) \in Seq(Inner)
<1> DEFINE here == FindDef(Items(FindBlock(block, Vex)), name)
<1>1. here # << >> => Head(here) \in AllLines /\ Head(here).statement = "def"
    BY ItemsType, DefFound
<1>2. here # << >> => Head(here) \in Defs
    BY <1>1 DEF AllLines, RefLines, Statements
<1>3. << >> \in Seq(Inner)
    OBVIOUS
<1> HIDE DEF here
<1>4. Lines(here) \in Seq(Inner)
    BY <1>2, <1>3 DEF Lines, Defs, Inner
<1> QED
    BY <1>4 DEF here

\* The lines a definition holds may be taken for lines of a block.
LEMMA InnerLines == ASSUME NEW list \in Seq(Inner) PROVE list \in Seq(AllLines)
BY DEF Inner, AllLines

-----------------------------------------------------------------------------
(* The walks over references. *)

(* What a call gives: a place after the query's statement and a line of it. *)
GivesTo(r, query) ==
    /\ r.walk \in RefWalk /\ r.walk.query = query
    /\ r.walk.state => r.walk.refs # << >>
    /\ r.found = NULL \/ (r.walk.state /\ r.found.statement = query.statement)

\* What is searched for the ith reference is a list of lines.
LEMMA SearchedType ==
    ASSUME NEW w, NEW walk \in RefWalk, NEW i
    PROVE  Searched(w, walk, i) \in Seq(Inner)
<1>1. << >> \in Seq(Inner) /\ walk.lowls \in Seq(Inner)
    BY DEF RefWalk
<1>2. Referred(walk.query, walk.refs[i]) \in Seq(Inner)
    BY LinesType DEF Referred
<1> QED
    BY <1>1, <1>2 DEF Searched

\* A walk that is over gives nothing.
LEMMA OverGives == ASSUME NEW walk \in RefWalk PROVE GivesTo(Over(walk), walk.query)
BY DEF Over, GivesTo, RefWalk

\* Going on, the walk gives a line of the statement it is after, or is over.
LEMMA AdvanceGives ==
    ASSUME NEW w, NEW walk \in RefWalk
    PROVE  GivesTo(Advance(w, walk), walk.query)
<1> DEFINE i    == Min(Hits(w, walk))
           here == FindLowl(Searched(w, walk, i), walk.query.statement)
           new  == [walk EXCEPT !.state = TRUE, !.refs = SubSeq(@, i, Len(@)),
                                !.lowls = Tail(here)]
<1>1. CASE Hits(w, walk) = {}
  <2>1. Advance(w, walk) = Over(walk)
    BY <1>1 DEF Advance
  <2> QED
    BY <2>1, OverGives
<1>2. CASE Hits(w, walk) # {}
  <2>1. Advance(w, walk) = [walk |-> new, found |-> Head(here)]
    BY <1>2 DEF Advance
  <2>2. walk.refs \in Seq(AllLines) /\ Len(walk.refs) \in Nat
    BY DEF RefWalk
  <2>3. Hits(w, walk) \in SUBSET Nat
    BY <2>2 DEF Hits
  <2>4. i \in Hits(w, walk)
    BY <1>2, <2>3, HasLeast DEF Min
  <2>5. i \in 1 .. Len(walk.refs) /\ here # << >>
    BY <2>2, <2>4 DEF Hits
  <2> HIDE DEF i
  <2>6. Searched(w, walk, i) \in Seq(Inner)
    BY SearchedType
  <2>7. Tail(here) \in Seq(Inner) /\ Head(here).statement = walk.query.statement
    BY <2>5, <2>6, LowlFound
  <2> HIDE DEF here
  <2>8. SubSeq(walk.refs, i, Len(walk.refs)) \in Seq(AllLines)
        /\ SubSeq(walk.refs, i, Len(walk.refs)) # << >>
    <3> DEFINE rest == SubSeq(walk.refs, i, Len(walk.refs))
    <3>1. Len(rest) = Len(walk.refs) - i + 1 /\ rest \in Seq(AllLines)
      BY <2>2, <2>5, SubSeqProperties
    <3> HIDE DEF rest
    <3>2. Len(rest) > 0
      BY <2>2, <2>5, <3>1
    <3>3. rest # << >>
      BY <3>2, EmptySeq
    <3> QED
      BY <3>1, <3>3 DEF rest
  <2>9. /\ new \in RefWalk /\ new.query = walk.query
        /\ new.state /\ new.refs # << >>
    BY <2>7, <2>8 DEF RefWalk
  <2> HIDE DEF new
  <2> QED
    BY <2>1, <2>7, <2>9 DEF GivesTo
<1> QED
    BY <1>1, <1>2

\* A first call begins after the query's statement, a next one goes on or is over.
LEMMA FirstGives ==
    ASSUME NEW w \in Sections, NEW query \in Asked
    PROVE  GivesTo(FirstLowl(w, query), query)
<1>1. ASSUME NEW v, NEW refs \in Seq(AllLines)
      PROVE  GivesTo(Begin(v, refs, query), query)
  <2> DEFINE walk == [state |-> FALSE, refs |-> refs, lowls |-> << >>, query |-> query]
  <2>1. walk \in RefWalk /\ walk.query = query
    BY <1>1 DEF RefWalk
  <2>2. Begin(v, refs, query) = Advance(v, walk)
    BY DEF Begin
  <2> HIDE DEF walk
  <2> QED
    BY <2>1, <2>2, AdvanceGives
<1>2. GivesTo(GetModeLowl(query), query) /\ GivesTo(GetStationLowl(query), query)
  <2>1. \A block, name : Lines(FindDef(Items(FindBlock(block, Vex)), name)) \in Seq(AllLines)
    BY LinesType, InnerLines
  <2> QED
    BY <1>1, <2>1 DEF GetModeLowl, GetStationLowl
<1>3. GivesTo(GetGlobalLowl(query), query)
    BY <1>1, ItemsType DEF GetGlobalLowl
<1>4. w \in {"MODE", "STATION", "GLOBAL"}
    BY DEF Sections, Order
<1> QED
    BY <1>2, <1>3, <1>4 DEF FirstLowl

\* A next call gives a line of the statement its walk was begun with, or none.
LEMMA ContinueGives ==
    ASSUME PlacesInv, NEW w \in Sections
    PROVE  GivesTo(Continue(w), ref_walk[w].query)
BY AdvanceGives, OverGives DEF Continue, PlacesInv

\* A next call finds a line only where the place is not over.
LEMMA ContinueAfter ==
    ASSUME NEW w, NEW statement, After(ref_walk[w], statement), Continue(w).found # NULL
    PROVE  ref_walk[w].query.statement = statement
<1>1. Over(ref_walk[w]).found = NULL
    BY DEF Over
<1> QED
    BY <1>1 DEF Continue, After

-----------------------------------------------------------------------------
(* get_all_lowl. *)

\* get_all_lowl goes through the three sections in one order, each once.
LEMMA OrderFacts ==
    /\ \A i \in 1 .. 3 : Order[i] \in Sections
    /\ \A i, j \in 1 .. 3 : Order[i] = Order[j] => i = j
    /\ Order[1] = "MODE" /\ Order[2] = "STATION" /\ Order[3] = "GLOBAL"
BY DEF Order, Sections

\* It goes on with the walk it is in and begins those after it, all of them
\* after the same statement; the places of the others stay as they were.
LEMMA AllGives ==
    ASSUME PlacesInv, NEW s \in 1 .. 4, NEW fresh \in BOOLEAN, NEW query \in Asked,
           s < 4 /\ ~fresh => After(ref_walk[Order[s]], query.statement)
    PROVE  LET r == GetAllLowl(s, fresh, query)
           IN  /\ r.state \in 1 .. 4
               /\ r.walks \in [Sections -> RefWalk]
               /\ \A w \in Sections : r.walks[w].state => r.walks[w].refs # << >>
               /\ r.found = NULL \/ r.found.statement = query.statement
               /\ r.state < 4 => After(r.walks[Order[r.state]], query.statement)
<1> DEFINE call == [i \in s .. 3 |-> IF i = s /\ ~fresh THEN Continue(Order[i])
                                     ELSE FirstLowl(Order[i], query)]
           ends == {i \in s .. 3 : call[i].found # NULL} \cup {4}
           end  == Min(ends)
           made == {i \in s .. 3 : i <= end}
           put  == [w \in Sections |->
                      IF \E i \in made : Order[i] = w
                      THEN call[CHOOSE i \in made : Order[i] = w].walk ELSE ref_walk[w]]
           r    == GetAllLowl(s, fresh, query)
<1>1. ASSUME NEW i \in s .. 3
      PROVE  /\ call[i].walk \in RefWalk
             /\ call[i].walk.state => call[i].walk.refs # << >>
             /\ call[i].found # NULL => /\ call[i].found.statement = query.statement
                                        /\ call[i].walk.query.statement = query.statement
  <2>1. Order[i] \in Sections
    BY OrderFacts
  <2>2. CASE i = s /\ ~fresh
    <3>1. call[i] = Continue(Order[i])
      BY <2>2
    <3>2. GivesTo(Continue(Order[i]), ref_walk[Order[i]].query)
      BY <2>1, ContinueGives
    <3>3. Continue(Order[i]).found # NULL
            => ref_walk[Order[i]].query.statement = query.statement
      BY <2>2, ContinueAfter
    <3> HIDE DEF call
    <3> QED
      BY <3>1, <3>2, <3>3 DEF GivesTo
  <2>3. CASE ~(i = s /\ ~fresh)
    <3>1. call[i] = FirstLowl(Order[i], query)
      BY <2>3
    <3>2. GivesTo(FirstLowl(Order[i], query), query)
      BY <2>1, FirstGives
    <3> HIDE DEF call
    <3> QED
      BY <3>1, <3>2 DEF GivesTo
  <2> QED
    BY <2>2, <2>3
<1>2. r = [state |-> end, walks |-> put,
           found |-> IF end = 4 THEN NULL ELSE call[end].found]
    BY DEF GetAllLowl
<1>3. ends \in SUBSET Nat /\ ends # {} /\ ends \subseteq 1 .. 4
    OBVIOUS
<1> HIDE DEF call
<1>4. end \in ends /\ end \in 1 .. 4
    BY <1>3, HasLeast DEF Min
<1>5. end < 4 => end \in s .. 3 /\ call[end].found # NULL
    BY <1>4
<1> HIDE DEF end
<1>6. ASSUME NEW w \in Sections
      PROVE  put[w] \in RefWalk /\ (put[w].state => put[w].refs # << >>)
  <2>1. CASE \E i \in made : Order[i] = w
    <3>1. PICK i \in made : put[w] = call[i].walk
      BY <2>1
    <3> HIDE DEF put
    <3> QED
      BY <1>1, <3>1
  <2>2. CASE ~ \E i \in made : Order[i] = w
    <3>1. put[w] = ref_walk[w]
      BY <2>2
    <3> HIDE DEF put
    <3> QED
      BY <3>1 DEF PlacesInv, TypeOK
  <2> QED
    BY <2>1, <2>2
<1>7. end < 4 => After(put[Order[end]], query.statement)
  <2> SUFFICES ASSUME end < 4 PROVE After(put[Order[end]], query.statement)
    OBVIOUS
  <2>1. end \in made /\ end \in 1 .. 3 /\ made \subseteq 1 .. 3
    BY <1>4, <1>5
  <2>2. Order[end] \in Sections
        /\ \A i \in made : Order[i] = Order[end] => i = end
    BY <2>1, OrderFacts
  <2> HIDE DEF made
  <2>3. put[Order[end]] = call[end].walk
    BY <2>1, <2>2
  <2> HIDE DEF put
  <2> QED
    BY <1>1, <1>5, <2>3 DEF After
<1>8. put \in [Sections -> RefWalk]
    BY <1>6
<1> HIDE DEF put, r, made
<1>9. /\ r.state = end /\ r.walks = put
      /\ r.found = IF end = 4 THEN NULL ELSE call[end].found
    BY <1>2
<1>10. r.found = NULL \/ r.found.statement = query.statement
    BY <1>1, <1>4, <1>5, <1>9
<1>11. /\ r.state \in 1 .. 4 /\ r.walks \in [Sections -> RefWalk]
       /\ \A w \in Sections : r.walks[w].state => r.walks[w].refs # << >>
       /\ r.state < 4 => After(r.walks[Order[r.state]], query.statement)
    BY <1>4, <1>6, <1>7, <1>8, <1>9
<1> QED
    BY <1>10, <1>11 DEF r

-----------------------------------------------------------------------------
(* The other walks. *)

\* get_source_lowl looks in lines of the source only.
LEMMA SourceGives ==
    ASSUME NEW lowls \in Seq(Inner), NEW query \in Asked
    PROVE  LET r == SourceFrom(lowls, query)
           IN  /\ r.walk \in [state : BOOLEAN, refs : {<< >>}, lowls : Seq(Inner),
                              query : Asked]
               /\ r.walk.query = query
               /\ r.found = NULL \/ r.found.statement = query.statement
<1> DEFINE here == FindLowl(lowls, query.statement)
<1>1. here \in Seq(Inner) /\ (here # << >> => Tail(here) \in Seq(Inner)
                                /\ Head(here).statement = query.statement)
    BY LowlFound
<1>2. Behind(here) \in Seq(Inner)
    BY <1>1 DEF Behind
<1> HIDE DEF here
<1> QED
    BY <1>1, <1>2 DEF SourceFrom, here

\* The loops over names touch no other walk than their own.
LEMMA DefType ==
    ASSUME PlacesInv, NEW k \in Kinds, NEW first \in BOOLEAN
    PROVE  GetDef(k, first).walk \in [state : BOOLEAN, defs : Seq(AllLines)]
<1>1. ASSUME NEW defs \in Seq(AllLines)
      PROVE  GoneThrough(defs).walk \in [state : BOOLEAN, defs : Seq(AllLines)]
  <2>1. /\ FindNextDef(defs) \in Seq(AllLines)
        /\ FindNextDef(defs) # << >> => Tail(FindNextDef(defs)) \in Seq(AllLines)
    BY LowlFound DEF FindNextDef
  <2>2. Behind(FindNextDef(defs)) \in Seq(AllLines)
    BY <2>1 DEF Behind
  <2> QED
    BY <2>2 DEF GoneThrough
<1> QED
    BY <1>1, ItemsType DEF GetDef, PlacesInv

\* The calls for names keep the types of their places.
LEMMA FgetDefTypes ==
    ASSUME PlacesInv, part \in DOMAIN Parts, NEW first \in BOOLEAN, FgetDef(first)
    PROVE  def_walk' \in [Kinds -> [state : BOOLEAN, defs : Seq(AllLines)]]
<1>1. Kind \in Kinds /\ Kinds = {"STATION", "MODE", "SOURCE"}
    BY DEF Kind, Kinds, Parts
<1>2. def_walk' = [def_walk EXCEPT ![Kind] = GetDef(Kind, first).walk]
  <2>1. CASE Kind = "STATION"
    BY <2>1 DEF FgetDef, GetStationDef
  <2>2. CASE Kind = "MODE"
    BY <2>2 DEF FgetDef, GetModeDef
  <2>3. CASE Kind = "SOURCE"
    BY <2>3 DEF FgetDef, GetSourceDef
  <2> QED
    BY <1>1, <2>1, <2>2, <2>3
<1>3. GetDef(Kind, first).walk \in [state : BOOLEAN, defs : Seq(AllLines)]
    BY <1>1, DefType
<1> QED
    BY <1>1, <1>2, <1>3 DEF PlacesInv

-----------------------------------------------------------------------------
(* The invariant holds. *)

\* It holds before the first call, where no walk is under way.
LEMMA InitWalks == Init => WalksInv
<1> SUFFICES ASSUME Init PROVE WalksInv
    OBVIOUS
<1>1. /\ << >> \in Seq(AllLines) /\ << >> \in Seq(Inner) /\ MaxCalls \in Nat
      /\ Len(Parts) = 3 /\ NoQuery \in Asked
    BY WalksAssumption DEF Parts, Asked
<1>2. Idle \in RefWalk /\ ~Idle.state /\ Idle.refs = << >>
    BY <1>1 DEF Idle, RefWalk
<1>3. /\ def_walk \in [Kinds -> [state : BOOLEAN, defs : Seq(AllLines)]]
      /\ \A k \in Kinds : def_walk[k].state \in BOOLEAN
    BY <1>1 DEF Init, IdleDefs
<1>4. /\ ref_walk \in [Sections -> RefWalk]
      /\ \A w \in Sections : ~ref_walk[w].state
    BY <1>2 DEF Init
<1>5. all_walk \in [state : 0 .. 4, query : Asked] /\ all_walk.state \in 0 .. 4
    BY <1>1 DEF Init
<1>6. /\ source_walk \in [state : BOOLEAN, refs : {<< >>}, lowls : Seq(Inner),
                          query : Asked]
      /\ source_walk.state \in BOOLEAN
    BY <1>1 DEF Init, Idle
<1>7. /\ part \in 1 .. Len(Parts) + 1 /\ phase \in {"first", "names", "lines"}
      /\ calls \in 0 .. MaxCalls /\ asked \in Asked
    BY <1>1 DEF Init
<1>8. \A w \in Sections : ref_walk[w].state \in BOOLEAN
    BY <1>4 DEF RefWalk
<1>9. PlacesInv
    BY <1>3, <1>4, <1>5, <1>6, <1>7, <1>8 DEF PlacesInv, TypeOK, Asked
<1>10. AskedInv
    BY DEF Init, AskedInv, NoQuery
<1> QED
    BY <1>9, <1>10 DEF WalksInv

\* A step of a loop over names.
LEMMA NamesWalks ==
    ASSUME WalksInv, FirstName \/ StoreName \/ NamesStored \/ NextPart
    PROVE  WalksInv'
<1>1. /\ UNCHANGED <<ref_walk, all_walk, source_walk, save_ptr, save_type, asked, calls>>
      /\ part \in DOMAIN Parts
    BY DEF FirstName, StoreName, NamesStored, NextPart, walks, saved
<1>2. def_walk' \in [Kinds -> [state : BOOLEAN, defs : Seq(AllLines)]]
  <2>1. FgetDef(TRUE) \/ FgetDef(FALSE) \/ def_walk' = def_walk
    BY DEF FirstName, StoreName, NamesStored, NextPart, walks
  <2> QED
    BY <1>1, <2>1, FgetDefTypes DEF WalksInv, PlacesInv
<1>3. part' \in 1 .. Len(Parts) + 1 /\ phase' \in {"first", "names", "lines"}
  <2>1. DOMAIN Parts = 1 .. 3 /\ Len(Parts) = 3
    BY DEF Parts
  <2>2. part' = part \/ part' = part + 1
    BY DEF FirstName, StoreName, NamesStored, NextPart
  <2>3. phase' \in {"first", "names", "lines"}
    BY DEF FirstName, StoreName, NamesStored, NextPart, WalksInv, PlacesInv, TypeOK
  <2> QED
    BY <1>1, <2>1, <2>2, <2>3
<1>4. TypeOK'
    BY <1>1, <1>2, <1>3 DEF TypeOK, WalksInv, PlacesInv
<1>5. PlacesInv'
    BY <1>1, <1>2, <1>4 DEF WalksInv, PlacesInv
<1>6. AskedInv'
    BY <1>1 DEF WalksInv, AskedInv, After
<1> QED
    BY <1>5, <1>6 DEF WalksInv

(* What a call for lines leaves, for the query it is about. *)
Answered(query) ==
    /\ def_walk' = def_walk
    /\ ref_walk' \in [Sections -> RefWalk]
    /\ \A w \in Sections : ref_walk'[w].state => ref_walk'[w].refs # << >>
    /\ all_walk' \in [state : 0 .. 4, query : Asked]
    /\ source_walk' \in [state : BOOLEAN, refs : {<< >>}, lowls : Seq(Inner),
                         query : Asked]
    /\ save_ptr' = NULL \/ save_ptr'.statement = query.statement
    /\ query.kind = "mode" => After(ref_walk'["MODE"], query.statement)
    /\ query.kind = "station" => After(ref_walk'["STATION"], query.statement)
    /\ query.kind = "global" => After(ref_walk'["GLOBAL"], query.statement)
    /\ query.kind = "source" => After(source_walk', query.statement)
    /\ query.kind = "all" =>
         /\ all_walk'.state \in 1 .. 4 /\ all_walk'.query = query
         /\ all_walk'.state < 4 => After(ref_walk'[Order[all_walk'.state]], query.statement)

\* get_all_lowl answers the query it is asked.
LEMMA AllAnswers ==
    ASSUME PlacesInv, NEW s \in 1 .. 4, NEW fresh \in BOOLEAN, NEW query \in Asked,
           query.kind = "all", FgetAllLowl(s, fresh, query),
           s < 4 /\ ~fresh => After(ref_walk[Order[s]], query.statement)
    PROVE  Answered(query)
<1> DEFINE r == GetAllLowl(s, fresh, query)
<1>1. /\ r.state \in 1 .. 4
      /\ r.walks \in [Sections -> RefWalk]
      /\ \A w \in Sections : r.walks[w].state => r.walks[w].refs # << >>
      /\ r.found = NULL \/ r.found.statement = query.statement
      /\ r.state < 4 => After(r.walks[Order[r.state]], query.statement)
    BY AllGives
<1> HIDE DEF r
<1>2. /\ all_walk' = [state |-> r.state, query |-> query]
      /\ ref_walk' = r.walks /\ save_ptr' = r.found
      /\ UNCHANGED <<def_walk, source_walk>>
    BY DEF FgetAllLowl, Found, r
<1>3. all_walk'.state = r.state /\ all_walk'.query = query
      /\ all_walk' \in [state : 0 .. 4, query : Asked]
    BY <1>1, <1>2
<1> QED
    BY <1>1, <1>2, <1>3 DEF Answered, PlacesInv

\* So does each of the walks it is made of, asked alone.
LEMMA RefAnswers ==
    ASSUME PlacesInv, NEW w \in Sections, NEW query \in Asked, NEW r,
           r.walk \in RefWalk, r.walk.state => r.walk.refs # << >>,
           After(r.walk, query.statement),
           r.found = NULL \/ r.found.statement = query.statement,
           query.kind \in {"mode", "station", "global"},
           query.kind = "mode" => w = "MODE",
           query.kind = "station" => w = "STATION",
           query.kind = "global" => w = "GLOBAL",
           FgetRefLowl(w, r)
    PROVE  Answered(query)
<1>1. /\ ref_walk' = [ref_walk EXCEPT ![w] = r.walk] /\ save_ptr' = r.found
      /\ UNCHANGED <<def_walk, all_walk, source_walk>>
    BY DEF FgetRefLowl, Found
<1>2. ref_walk \in [Sections -> RefWalk]
      /\ \A v \in Sections : ref_walk[v].state => ref_walk[v].refs # << >>
    BY DEF PlacesInv, TypeOK
<1>3. ref_walk' \in [Sections -> RefWalk] /\ ref_walk'[w] = r.walk
      /\ \A v \in Sections : v # w => ref_walk'[v] = ref_walk[v]
    BY <1>1, <1>2
<1>4. \A v \in Sections : ref_walk'[v].state => ref_walk'[v].refs # << >>
    BY <1>2, <1>3
<1> QED
    BY <1>1, <1>3, <1>4 DEF Answered, PlacesInv

\* And get_source_lowl.
LEMMA SourceAnswers ==
    ASSUME PlacesInv, NEW query \in Asked, NEW r,
           r.walk \in [state : BOOLEAN, refs : {<< >>}, lowls : Seq(Inner), query : Asked],
           After(r.walk, query.statement),
           r.found = NULL \/ r.found.statement = query.statement,
           query.kind = "source", FgetSourceLowl(r)
    PROVE  Answered(query)
BY DEF FgetSourceLowl, Found, Answered, PlacesInv, TypeOK

\* The first call of a walk.
LEMMA FirstAnswers ==
    ASSUME PlacesInv, NEW query \in Queries, FgetFirst(query)
    PROVE  Answered(query)
<1>1. query \in Asked /\ query.kind \in {"all", "mode", "station", "global", "source"}
    BY WalksAssumption DEF Asked
<1>2. "MODE" \in Sections /\ "STATION" \in Sections /\ "GLOBAL" \in Sections
    BY OrderFacts
<1>3. /\ GivesTo(GetModeLowl(query), query) /\ GivesTo(GetStationLowl(query), query)
      /\ GivesTo(GetGlobalLowl(query), query)
  <2>1. \A w \in Sections : GivesTo(FirstLowl(w, query), query)
    BY <1>1, FirstGives
  <2> QED
    BY <1>2, <2>1 DEF FirstLowl
<1>4. CASE query.kind = "all"
  <2>1. FgetAllLowl(1, TRUE, query)
    BY <1>4 DEF FgetFirst
  <2>2. 1 \in 1 .. 4 /\ TRUE \in BOOLEAN
    OBVIOUS
  <2> QED
    BY <1>1, <1>4, <2>1, <2>2, AllAnswers, Zenon
<1>5. CASE query.kind = "mode"
  <2>1. FgetRefLowl("MODE", GetModeLowl(query))
    BY <1>5 DEF FgetFirst
  <2> QED
    BY <1>1, <1>2, <1>3, <1>5, <2>1, RefAnswers DEF GivesTo, After
<1>6. CASE query.kind = "station"
  <2>1. FgetRefLowl("STATION", GetStationLowl(query))
    BY <1>6 DEF FgetFirst
  <2> QED
    BY <1>1, <1>2, <1>3, <1>6, <2>1, RefAnswers DEF GivesTo, After
<1>7. CASE query.kind = "global"
  <2>1. FgetRefLowl("GLOBAL", GetGlobalLowl(query))
    BY <1>7 DEF FgetFirst
  <2> QED
    BY <1>1, <1>2, <1>3, <1>7, <2>1, RefAnswers DEF GivesTo, After
<1>8. CASE query.kind = "source"
  <2>1. FgetSourceLowl(GetSourceLowl(query))
    BY <1>8 DEF FgetFirst
  <2>2. /\ GetSourceLowl(query).walk \in [state : BOOLEAN, refs : {<< >>},
                                          lowls : Seq(Inner), query : Asked]
        /\ GetSourceLowl(query).walk.query = query
        /\ GetSourceLowl(query).found = NULL
             \/ GetSourceLowl(query).found.statement = query.statement
    BY <1>1, LinesType, SourceGives DEF GetSourceLowl
  <2> QED
    BY <1>1, <1>8, <2>1, <2>2, SourceAnswers DEF After
<1> QED
    BY <1>1, <1>4, <1>5, <1>6, <1>7, <1>8

\* A later call of it, about the same query.
LEMMA NextAnswers ==
    ASSUME WalksInv, asked # NoQuery, FgetNext
    PROVE  Answered(asked)
<1>1. /\ asked \in Asked /\ PlacesInv /\ AskedInv
      /\ asked.kind \in {"all", "mode", "station", "global", "source"}
    BY WalksAssumption DEF Asked, WalksInv, PlacesInv, TypeOK
<1>2. "MODE" \in Sections /\ "STATION" \in Sections /\ "GLOBAL" \in Sections
    BY OrderFacts
<1>3. ASSUME NEW w \in Sections, After(ref_walk[w], asked.statement)
      PROVE  LET r == Continue(w)
             IN  /\ r.walk \in RefWalk /\ (r.walk.state => r.walk.refs # << >>)
                 /\ After(r.walk, asked.statement)
                 /\ r.found = NULL \/ r.found.statement = asked.statement
  <2>1. GivesTo(Continue(w), ref_walk[w].query)
    BY <1>1, ContinueGives
  <2>2. ~ref_walk[w].state => ~Continue(w).walk.state /\ Continue(w).found = NULL
    BY <1>1 DEF Continue, Over, PlacesInv, RefWalk
  <2> QED
    BY <1>3, <2>1, <2>2 DEF GivesTo, After
<1>4. CASE asked.kind = "all"
  <2>1. FgetAllLowl(all_walk.state, FALSE, asked)
    BY <1>1, <1>4 DEF FgetNext, AskedInv
  <2>2. /\ all_walk.state \in 1 .. 4
        /\ all_walk.state < 4 => After(ref_walk[Order[all_walk.state]], asked.statement)
    BY <1>1, <1>4 DEF AskedInv
  <2> QED
    BY <1>1, <1>4, <2>1, <2>2, AllAnswers
<1>5. CASE asked.kind = "mode"
  <2>1. FgetRefLowl("MODE", Continue("MODE")) /\ After(ref_walk["MODE"], asked.statement)
    BY <1>1, <1>5 DEF FgetNext, AskedInv
  <2> QED
    BY <1>1, <1>2, <1>3, <1>5, <2>1, RefAnswers
<1>6. CASE asked.kind = "station"
  <2>1. /\ FgetRefLowl("STATION", Continue("STATION"))
        /\ After(ref_walk["STATION"], asked.statement)
    BY <1>1, <1>6 DEF FgetNext, AskedInv
  <2> QED
    BY <1>1, <1>2, <1>3, <1>6, <2>1, RefAnswers
<1>7. CASE asked.kind = "global"
  <2>1. /\ FgetRefLowl("GLOBAL", Continue("GLOBAL"))
        /\ After(ref_walk["GLOBAL"], asked.statement)
    BY <1>1, <1>7 DEF FgetNext, AskedInv
  <2> QED
    BY <1>1, <1>2, <1>3, <1>7, <2>1, RefAnswers
<1>8. CASE asked.kind = "source"
  <2> DEFINE r == IF source_walk.state
                  THEN SourceFrom(source_walk.lowls, source_walk.query)
                  ELSE Over(source_walk)
  <2>1. FgetSourceLowl(r) /\ After(source_walk, asked.statement)
    BY <1>1, <1>8 DEF FgetNext, AskedInv
  <2>2. source_walk \in [state : BOOLEAN, refs : {<< >>}, lowls : Seq(Inner), query : Asked]
    BY <1>1 DEF PlacesInv
  <2>3. /\ r.walk \in [state : BOOLEAN, refs : {<< >>}, lowls : Seq(Inner), query : Asked]
        /\ After(r.walk, asked.statement)
        /\ r.found = NULL \/ r.found.statement = asked.statement
    <3>1. CASE source_walk.state
      BY <2>1, <2>2, <3>1, SourceGives DEF After
    <3>2. CASE ~source_walk.state
      BY <2>2, <3>2 DEF Over, After
    <3> QED
      BY <3>1, <3>2
  <2> HIDE DEF r
  <2> QED
    BY <1>1, <1>8, <2>1, <2>3, SourceAnswers
<1> QED
    BY <1>1, <1>4, <1>5, <1>6, <1>7, <1>8

\* A call for lines keeps the invariant when it is answered.
LEMMA LinesWalks ==
    ASSUME WalksInv, CallForLines, asked' \in Asked, save_type' = asked'.statement,
           Answered(asked')
    PROVE  WalksInv'
<1>1. /\ part' \in 1 .. Len(Parts) + 1 /\ phase' \in {"first", "names", "lines"}
      /\ calls' \in 0 .. MaxCalls
    BY WalksAssumption DEF CallForLines, WalksInv, PlacesInv, TypeOK
<1>2. /\ def_walk' \in [Kinds -> [state : BOOLEAN, defs : Seq(AllLines)]]
      /\ ref_walk' \in [Sections -> RefWalk]
      /\ \A w \in Sections : ref_walk'[w].state => ref_walk'[w].refs # << >>
      /\ all_walk' \in [state : 0 .. 4, query : Asked]
      /\ source_walk' \in [state : BOOLEAN, refs : {<< >>}, lowls : Seq(Inner),
                           query : Asked]
    BY DEF Answered, WalksInv, PlacesInv
<1>3. TypeOK'
    BY <1>1, <1>2 DEF TypeOK, RefWalk, Asked
<1>4. AskedInv'
    BY DEF Answered, AskedInv
<1> QED
    BY <1>2, <1>3, <1>4 DEF WalksInv, PlacesInv

\* The next text of a literal is of the same statement.
LEMMA TextWalks ==
    ASSUME WalksInv, CallForLines, UNCHANGED <<walks, save_type, asked>>,
           save_ptr' = [statement |-> save_ptr.statement, item |-> Tail(save_ptr.item)],
           save_ptr # NULL
    PROVE  WalksInv'
<1>1. UNCHANGED <<def_walk, ref_walk, all_walk, source_walk>>
    BY DEF walks
<1>2. /\ part' \in 1 .. Len(Parts) + 1 /\ phase' \in {"first", "names", "lines"}
      /\ calls' \in 0 .. MaxCalls
    BY WalksAssumption DEF CallForLines, WalksInv, PlacesInv, TypeOK
<1>3. TypeOK'
    BY <1>1, <1>2 DEF TypeOK, WalksInv, PlacesInv
<1>4. save_ptr'.statement = asked'.statement
    BY DEF WalksInv, AskedInv
<1>5. AskedInv'
    BY <1>1, <1>4 DEF WalksInv, AskedInv, After
<1> QED
    BY <1>1, <1>3, <1>5 DEF WalksInv, PlacesInv

\* Every step of the reading keeps the invariant.
LEMMA NextWalks == WalksInv /\ [Next]_vars => WalksInv'
<1> SUFFICES ASSUME WalksInv, [Next]_vars
             PROVE  WalksInv'
    OBVIOUS
<1>1. asked \in Asked /\ save_type = asked.statement
    BY DEF WalksInv, PlacesInv, TypeOK, AskedInv, Asked
<1>2. CASE FirstName \/ StoreName \/ NamesStored \/ NextPart
    BY <1>2, NamesWalks
<1>3. ASSUME NEW query \in Queries, AskLines(query)
      PROVE  WalksInv'
  <2>1. CallForLines /\ FgetFirst(query) /\ save_type' = query.statement /\ asked' = query
    BY <1>3 DEF AskLines
  <2>2. Answered(query)
    BY <2>1, FirstAnswers DEF WalksInv
  <2>3. query \in Asked
    BY DEF Asked
  <2> QED
    BY <2>1, <2>2, <2>3, LinesWalks
<1>4. ASSUME CallForLines, asked # NoQuery, FgetNext, UNCHANGED <<save_type, asked>>
      PROVE  WalksInv'
  <2>1. Answered(asked)
    BY <1>4, NextAnswers
  <2>2. asked' = asked /\ save_type' = save_type
    BY <1>4
  <2> QED
    BY <1>1, <1>4, <2>1, <2>2, LinesWalks
<1>5. CASE MoreLines
    BY <1>4, <1>5 DEF MoreLines
<1>6. CASE FgetLiteral
  <2>1. CASE Len(save_ptr.item) > 1
    BY <1>6, <2>1, TextWalks DEF FgetLiteral
  <2>2. CASE ~(Len(save_ptr.item) > 1)
    BY <1>4, <1>6, <2>2 DEF FgetLiteral
  <2> QED
    BY <2>1, <2>2
<1>7. CASE UNCHANGED vars
  <2>1. UNCHANGED <<def_walk, ref_walk, all_walk, source_walk, save_ptr, save_type,
                    part, phase, asked, calls>>
    BY <1>7 DEF vars, walks, saved, caller
  <2> QED
    BY <2>1 DEF WalksInv, PlacesInv, TypeOK, AskedInv, After
<1> QED
    BY <1>2, <1>3, <1>5, <1>6, <1>7 DEF Next

\* The places of the walks keep their types, and a place that is not over has
\* a reference to go on with.
THEOREM PlacesKeepTypes == Spec => []TypeOK
<1>1. WalksInv => TypeOK
    BY DEF WalksInv, PlacesInv
<1> QED
    BY <1>1, InitWalks, NextWalks, PTL DEF Spec

\* vex_field is never asked to read a line as another statement's struct: the
\* pointer vexf.c holds is of the type it remembers, in every session.
THEOREM FieldsAlwaysFit == Spec => []FieldsFit
<1>1. WalksInv => FieldsFit
    BY DEF WalksInv, AskedInv, FieldsFit, Readable
<1> QED
    BY <1>1, InitWalks, NextWalks, PTL DEF Spec

-----------------------------------------------------------------------------
(* The file by its names, and the lines of a statement. *)

\* The first block of a name is the one find_block finds.
LEMMA BlockIs ==
    ASSUME NEW block
    PROVE  /\ Block(block) = Items(FindBlock(block, Vex))
           /\ block \in DOMAIN Blocks <=> FindBlock(block, Vex) # << >>
<1> DEFINE W == {i \in DOMAIN Vex : Vex[i].block = block}
           n == Len(Vex)
<1>1. Vex \in Seq(VexBlocks) /\ n \in Nat /\ DOMAIN Vex = 1 .. n
    BY WalksAssumption DEF VexBlocks
<1>2. PICK i \in 1 .. n + 1 :
          /\ FindBlock(block, Vex) = SubSeq(Vex, i, n)
          /\ i <= n => Vex[i].block = block
          /\ \A j \in 1 .. i - 1 : Vex[j].block # block
    BY <1>1, BlockPlace
<1> HIDE DEF n
<1>3. DOMAIN Blocks = {Vex[j].block : j \in DOMAIN Vex}
    BY DEF Blocks
<1>4. CASE i = n + 1
  <2>1. block \notin DOMAIN Blocks
    BY <1>1, <1>2, <1>3, <1>4
  <2>2. FindBlock(block, Vex) = << >>
    BY <1>1, <1>2, <1>4, SubSeqEmpty
  <2> QED
    BY <2>1, <2>2 DEF Block, Items
<1>5. CASE i # n + 1
  <2>1. i \in 1 .. n /\ i \in W
    BY <1>1, <1>2, <1>5
  <2>2. W \in SUBSET Nat /\ \A j \in W : i <= j
    BY <1>1, <1>2
  <2> HIDE DEF W
  <2>3. Min(W) = i
    BY <2>1, <2>2, MinIs
  <2>4. block \in DOMAIN Blocks
    BY <1>1, <1>2, <1>3, <2>1
  <2>5. Blocks[block] = Vex[i].items
    BY <1>3, <2>3, <2>4 DEF Blocks, W
  <2>6. FindBlock(block, Vex) # << >> /\ Head(FindBlock(block, Vex)) = Vex[i]
    BY <1>1, <1>2, <2>1, HeadFrom DEF n
  <2> QED
    BY <2>4, <2>5, <2>6 DEF Block, Items
<1> QED
    BY <1>4, <1>5

\* The first definition of a name is the one find_def finds.
LEMMA BodyIs ==
    ASSUME NEW block, NEW name
    PROVE  Body(block, name) = Lines(FindDef(Items(FindBlock(block, Vex)), name))
<1> DEFINE list == Block(block)
           n == Len(list)
           defs == {i \in DOMAIN list : list[i].statement = "def"}
           W == {i \in defs : list[i].name = name}
<1>1. list = Items(FindBlock(block, Vex))
    BY BlockIs
<1>2. list \in Seq(AllLines)
    BY <1>1, ItemsType
<1>3. n \in Nat /\ DOMAIN list = 1 .. n
    BY <1>2
<1>4. PICK i \in 1 .. n + 1 :
          /\ FindDef(list, name) = SubSeq(list, i, n)
          /\ i <= n => list[i].statement = "def" /\ list[i].name = name
          /\ \A j \in 1 .. i - 1 : ~(list[j].statement = "def" /\ list[j].name = name)
    BY <1>2, DefPlace
<1>5. block \in DOMAIN Blocks =>
        /\ block \in DOMAIN Bodies
        /\ DOMAIN Bodies[block] = {list[j].name : j \in defs}
        /\ name \in DOMAIN Bodies[block] => Bodies[block][name] = list[Min(W)].refs
    BY DEF Bodies, Block
<1>6. block \notin DOMAIN Blocks => block \notin DOMAIN Bodies /\ list = << >>
    BY DEF Bodies, Block
<1> HIDE DEF list, n
<1>7. CASE i = n + 1
  <2>1. block \in DOMAIN Blocks => name \notin DOMAIN Bodies[block]
    BY <1>3, <1>4, <1>5, <1>7
  <2>2. Body(block, name) = << >>
    BY <1>6, <2>1 DEF Body
  <2>3. FindDef(list, name) = << >>
    BY <1>3, <1>4, <1>7, SubSeqEmpty
  <2> QED
    BY <1>1, <2>2, <2>3 DEF Lines
<1>8. CASE i # n + 1
  <2>1. i \in 1 .. n /\ i \in W /\ i \in defs
    BY <1>3, <1>4, <1>8
  <2>2. W \in SUBSET Nat /\ \A j \in W : i <= j
    BY <1>3, <1>4
  <2>3. list # << >>
    BY <1>3, <2>1 DEF n
  <2>4. block \in DOMAIN Blocks /\ name \in DOMAIN Bodies[block]
    BY <1>4, <1>5, <1>6, <2>1, <2>3
  <2> HIDE DEF W
  <2>5. Min(W) = i
    BY <2>1, <2>2, MinIs
  <2>6. Body(block, name) = list[i].refs
    BY <1>5, <2>4, <2>5 DEF Body
  <2>7. FindDef(list, name) # << >> /\ Head(FindDef(list, name)) = list[i]
    BY <1>2, <1>4, <2>1, HeadFrom DEF n
  <2> QED
    BY <1>1, <2>6, <2>7 DEF Lines
<1> QED
    BY <1>7, <1>8

\* The lines of a statement: the one find_lowl finds and those behind it.
LEMMA OfFound ==
    ASSUME NEW S, NEW list \in Seq(S), NEW statement
    PROVE  LET here == FindLowl(list, statement)
           IN  /\ Of(list, statement) \in Seq(S)
               /\ here = << >> => Of(list, statement) = << >>
               /\ here # << >> => Of(list, statement) = <<Head(here)>> \o Of(Tail(here), statement)
<1>1. PICK i \in 1 .. Len(list) + 1 :
          /\ FindLowl(list, statement) = SubSeq(list, i, Len(list))
          /\ i <= Len(list) => list[i].statement = statement
          /\ \A j \in 1 .. i - 1 : list[j].statement # statement
    BY LowlPlace
<1> DEFINE here == SubSeq(list, i, Len(list))
           Flat(l) == FlattenSeq(PicksOf(l, statement))
<1>2. \A l : Of(l, statement) = Flat(l)
    BY DEF Of, PicksOf
<1>3. /\ Flat(list) \in Seq(S)
      /\ here = << >> => Flat(list) = << >>
      /\ here # << >> => Flat(list) = <<Head(here)>> \o Flat(Tail(here))
    BY <1>1, PicksOfFound
<1> HIDE DEF here, Flat
<1>4. FindLowl(list, statement) = here
    BY <1>1 DEF here
<1> QED
    BY <1>2, <1>3, <1>4

\* The names of definitions, one by one.
LEMMA NamesOfCons ==
    ASSUME NEW S, NEW d \in S, NEW rest \in Seq(S)
    PROVE  /\ NamesOf(<< >>) = << >>
           /\ NamesOf(rest) \in Seq({[statement |-> "def", item |-> <<x.name>>] : x \in S})
           /\ NamesOf(<<d>> \o rest)
                = <<[statement |-> "def", item |-> <<d.name>>]>> \o NamesOf(rest)
<1> DEFINE N == {[statement |-> "def", item |-> <<x.name>>] : x \in S}
           all == <<d>> \o rest
           m == Len(rest)
           left == NamesOf(all)
           name == [statement |-> "def", item |-> <<d.name>>]
           right == <<name>> \o NamesOf(rest)
<1>1. m \in Nat /\ <<d>> \in Seq(S) /\ Len(<<d>>) = 1
    OBVIOUS
<1>2. /\ all \in Seq(S) /\ Len(all) = m + 1 /\ all[1] = d
      /\ \A i \in 2 .. m + 1 : all[i] = rest[i - 1]
    BY <1>1, ConcatProperties
<1>3. /\ NamesOf(rest) \in Seq(N) /\ Len(NamesOf(rest)) = m
      /\ \A i \in 1 .. m : NamesOf(rest)[i] = [statement |-> "def", item |-> <<rest[i].name>>]
    BY <1>1, ElementOfSeq DEF NamesOf
<1>4. NamesOf(<< >>) = << >>
    BY DEF NamesOf
<1> HIDE DEF all, m
<1>9. DOMAIN all = 1 .. m + 1 /\ \A i \in 1 .. m + 1 : all[i] \in S
    BY <1>2, ElementOfSeq, LenProperties
<1>5. /\ left \in Seq(N) /\ Len(left) = m + 1
      /\ \A i \in 1 .. m + 1 : left[i] = [statement |-> "def", item |-> <<all[i].name>>]
  <2> DEFINE k == m + 1
  <2>1. k \in Nat
    BY <1>1
  <2>2. left = [i \in 1 .. k |-> [statement |-> "def", item |-> <<all[i].name>>]]
    BY <1>9 DEF NamesOf
  <2>3. \A i \in 1 .. k : [statement |-> "def", item |-> <<all[i].name>>] \in N
    BY <1>9
  <2> HIDE DEF k, left, N
  <2>4. left \in [1 .. k -> N]
    BY <2>2, <2>3
  <2>5. left \in Seq(N) /\ Len(left) = k
    BY <2>1, <2>4
  <2> QED
    BY <2>2, <2>5 DEF k
<1>6. /\ right \in Seq(N) /\ Len(right) = m + 1 /\ right[1] = name
      /\ \A i \in 2 .. m + 1 : right[i] = NamesOf(rest)[i - 1]
  <2>1. name \in N /\ <<name>> \in Seq(N) /\ Len(<<name>>) = 1 /\ <<name>>[1] = name
    OBVIOUS
  <2> HIDE DEF name, N
  <2> QED
    BY <1>1, <1>3, <2>1, ConcatProperties
<1>7. \A i \in 1 .. m + 1 : left[i] = right[i]
  <2> SUFFICES ASSUME NEW i \in 1 .. m + 1
               PROVE  left[i] = right[i]
    OBVIOUS
  <2>1. CASE i = 1
    BY <1>1, <1>2, <1>5, <1>6, <2>1
  <2>2. CASE i # 1
    <3>1. i \in 2 .. m + 1 /\ i - 1 \in 1 .. m
      BY <1>1, <2>2
    <3>2. left[i] = [statement |-> "def", item |-> <<all[i].name>>] /\ all[i] = rest[i - 1]
      BY <1>2, <1>5, <3>1
    <3>3. right[i] = [statement |-> "def", item |-> <<rest[i - 1].name>>]
      BY <1>3, <1>6, <3>1
    <3> QED
      BY <3>2, <3>3
  <2> QED
    BY <2>1, <2>2
<1> HIDE DEF left, right
<1>8. left = right
    BY <1>5, <1>6, <1>7, SeqEqual
<1> QED
    BY <1>3, <1>4, <1>8 DEF left, right, all

-----------------------------------------------------------------------------
(* What a reference gives to a query, and the references of a walk. *)
Share(w, query, ref) ==
    IF Applies(w, query, ref)
    THEN Of(Body(query.primitive, ref.name), query.statement) ELSE << >>

Shares(w, refs, query) == [i \in DOMAIN refs |-> Share(w, query, refs[i])]

\* It is a list of lines, and what the walk finds where it searches.
LEMMA ShareIs ==
    ASSUME NEW w, NEW query, NEW ref
    PROVE  /\ Share(w, query, ref) \in Seq(Inner)
           /\ Share(w, query, ref) =
                Of(IF Applies(w, query, ref) THEN Referred(query, ref) ELSE << >>,
                   query.statement)
<1>1. Body(query.primitive, ref.name) = Referred(query, ref)
    BY BodyIs DEF Referred
<1>2. Referred(query, ref) \in Seq(Inner)
    BY LinesType DEF Referred
<1>3. Of(Referred(query, ref), query.statement) \in Seq(Inner)
    BY <1>2, OfFound
<1>4. << >> \in Seq(Inner) /\ Of(<< >>, query.statement) = << >>
    BY DEF Of, FlattenSeq
<1> QED
    BY <1>1, <1>3, <1>4 DEF Share

\* What the rest of the references gives is the rest of what they give.
LEMMA SharesRest ==
    ASSUME NEW w, NEW query, NEW refs \in Seq(AllLines), NEW i \in 1 .. Len(refs) + 1
    PROVE  /\ Shares(w, refs, query) \in Seq(Seq(Inner))
           /\ Len(Shares(w, refs, query)) = Len(refs)
           /\ SubSeq(Shares(w, refs, query), i, Len(refs))
                = Shares(w, SubSeq(refs, i, Len(refs)), query)
<1> DEFINE f == [ref \in AllLines |-> Share(w, query, ref)]
           Made(l) == [j \in DOMAIN l |-> f[l[j]]]
           rest == SubSeq(refs, i, Len(refs))
<1>1. f \in [AllLines -> Seq(Inner)]
    BY ShareIs
<1>2. ASSUME NEW l \in Seq(AllLines)
      PROVE  Shares(w, l, query) = Made(l)
  <2>1. \A j \in DOMAIN l : l[j] \in AllLines
    BY ElementOfSeq
  <2> QED
    BY <2>1 DEF Shares
<1>3. rest \in Seq(AllLines)
    BY RestOf
<1> HIDE DEF f
<1>4. /\ Made(refs) \in Seq(Seq(Inner)) /\ Len(Made(refs)) = Len(refs)
      /\ SubSeq(Made(refs), i, Len(refs)) = Made(rest)
    BY <1>1, MapRest
<1> HIDE DEF Made
<1> QED
    BY <1>2, <1>3, <1>4

\* What a query holds is what its references give, joined.
LEMMA HeldByIs ==
    ASSUME NEW w, NEW query, NEW refs \in Seq(AllLines)
    PROVE  /\ HeldBy(w, refs, query) = FlattenSeq(Shares(w, refs, query))
           /\ HeldBy(w, refs, query) \in Seq(Inner)
<1>1. HeldBy(w, refs, query) = FlattenSeq(Shares(w, refs, query))
    BY DEF HeldBy, Shares, Share
<1>2. 1 \in 1 .. Len(refs) + 1
    OBVIOUS
<1>3. Shares(w, refs, query) \in Seq(Seq(Inner))
    BY <1>2, SharesRest
<1> QED
    BY <1>1, <1>3, FlattenType

(* What the place of a walk leaves to come. *)
LeftIn(w, walk) ==
    IF ~walk.state THEN << >>
    ELSE Of(walk.lowls, walk.query.statement) \o HeldBy(w, Tail(walk.refs), walk.query)

(* A call gives the first of the lines and leaves the others. *)
Yields(w, r, lines, statement) ==
    /\ lines \in Seq(Inner)
    /\ lines # << >> => r.found.statement = statement
    /\ r.found = IF lines = << >> THEN NULL ELSE Head(lines)
    /\ LeftIn(w, r.walk) = IF lines = << >> THEN << >> ELSE Tail(lines)

(* The lines a walk has before it, reference by reference. *)
Ahead(w, walk) ==
    [i \in DOMAIN walk.refs |-> Of(Searched(w, walk, i), walk.query.statement)]

\* Behind its first reference a walk has what the references give.
LEMMA AheadRest ==
    ASSUME NEW w, NEW walk \in RefWalk, NEW i \in 1 .. Len(walk.refs)
    PROVE  /\ Ahead(w, walk) \in Seq(Seq(Inner))
           /\ Len(Ahead(w, walk)) = Len(walk.refs)
           /\ SubSeq(Ahead(w, walk), i + 1, Len(walk.refs))
                = Shares(w, SubSeq(walk.refs, i + 1, Len(walk.refs)), walk.query)
           /\ ~walk.state => Ahead(w, walk) = Shares(w, walk.refs, walk.query)
<1> DEFINE n == Len(walk.refs)
           ahead == Ahead(w, walk)
           all == Shares(w, walk.refs, walk.query)
           tail == SubSeq(ahead, i + 1, n)
           left == SubSeq(all, i + 1, n)
<1>1. walk.refs \in Seq(AllLines) /\ n \in Nat /\ DOMAIN walk.refs = 1 .. n
    BY DEF RefWalk
<1>2. i + 1 \in 1 .. n + 1
    BY <1>1
<1>3. all \in Seq(Seq(Inner)) /\ Len(all) = n
      /\ left = Shares(w, SubSeq(walk.refs, i + 1, n), walk.query)
    BY <1>1, <1>2, SharesRest
<1>4. \A j \in 1 .. n : all[j] = Share(w, walk.query, walk.refs[j])
    BY <1>1 DEF Shares
<1>5. \A j \in 1 .. n : ahead[j] = Of(Searched(w, walk, j), walk.query.statement)
    BY <1>1 DEF Ahead
<1>6. ahead \in Seq(Seq(Inner)) /\ Len(ahead) = n
  <2>1. \A j \in 1 .. n : Of(Searched(w, walk, j), walk.query.statement) \in Seq(Inner)
    BY SearchedType, OfFound
  <2> HIDE DEF n
  <2>2. ahead \in [1 .. n -> Seq(Inner)]
    BY <1>1, <2>1 DEF Ahead
  <2> HIDE DEF ahead
  <2> QED
    BY <1>1, <2>2
<1>7. ASSUME NEW j \in 1 .. n, j # 1 \/ ~walk.state
      PROVE  ahead[j] = all[j]
  <2>1. Searched(w, walk, j) =
          IF Applies(w, walk.query, walk.refs[j]) THEN Referred(walk.query, walk.refs[j])
          ELSE << >>
    BY <1>7 DEF Searched
  <2> QED
    BY <1>4, <1>5, <2>1, ShareIs
<1> HIDE DEF ahead, all
<1>8. ~walk.state => ahead = all
    BY <1>3, <1>6, <1>7, SeqEqual
<1>9. /\ tail \in Seq(Seq(Inner)) /\ left \in Seq(Seq(Inner))
      /\ Len(tail) = Len(left)
      /\ \A j \in 1 .. Len(tail) : tail[j] = left[j]
  <2>1. \A s \in {ahead, all} :
          /\ SubSeq(s, i + 1, n) \in Seq(Seq(Inner))
          /\ Len(SubSeq(s, i + 1, n)) = IF i + 1 <= n THEN n - (i + 1) + 1 ELSE 0
          /\ \A j \in 1 .. n - (i + 1) + 1 : SubSeq(s, i + 1, n)[j] = s[(i + 1) + j - 1]
    <3> SUFFICES ASSUME NEW s \in {ahead, all}
                 PROVE  /\ SubSeq(s, i + 1, n) \in Seq(Seq(Inner))
                        /\ Len(SubSeq(s, i + 1, n)) = IF i + 1 <= n THEN n - (i + 1) + 1 ELSE 0
                        /\ \A j \in 1 .. n - (i + 1) + 1 :
                              SubSeq(s, i + 1, n)[j] = s[(i + 1) + j - 1]
      OBVIOUS
    <3>1. s \in Seq(Seq(Inner)) /\ Len(s) = n /\ i + 1 \in Nat
      BY <1>1, <1>3, <1>6
    <3>2. \A j \in i + 1 .. n : s[j] \in Seq(Inner)
      BY <1>1, <3>1, ElementOfSeq
    <3> HIDE DEF n
    <3> QED
      BY <1>1, <3>1, <3>2, SubSeqProperties
  <2>2. ASSUME NEW j \in 1 .. n - (i + 1) + 1
        PROVE  ahead[(i + 1) + j - 1] = all[(i + 1) + j - 1]
    <3>1. (i + 1) + j - 1 \in 1 .. n /\ (i + 1) + j - 1 # 1
      BY <1>1
    <3> QED
      BY <1>7, <3>1
  <2> DEFINE m == n - (i + 1) + 1
  <2>3. /\ tail \in Seq(Seq(Inner)) /\ Len(tail) = m
        /\ \A j \in 1 .. m : tail[j] = ahead[(i + 1) + j - 1]
    BY <1>1, <2>1
  <2>4. /\ left \in Seq(Seq(Inner)) /\ Len(left) = m
        /\ \A j \in 1 .. m : left[j] = all[(i + 1) + j - 1]
    BY <1>1, <2>1
  <2>5. \A j \in 1 .. m : ahead[(i + 1) + j - 1] = all[(i + 1) + j - 1]
    BY <2>2
  <2> HIDE DEF tail, left, m
  <2> QED
    BY <2>3, <2>4, <2>5
<1> HIDE DEF tail, left
<1>10. tail = left
    BY <1>9, SeqEqual
<1> QED
    BY <1>3, <1>6, <1>8, <1>10 DEF ahead, all, tail, left

\* Going on, a walk gives the first of the lines before it and leaves the rest.
LEMMA AdvanceYields ==
    ASSUME NEW w, NEW walk \in RefWalk
    PROVE  Yields(w, Advance(w, walk), FlattenSeq(Ahead(w, walk)), walk.query.statement)
<1> DEFINE n     == Len(walk.refs)
           st    == walk.query.statement
           ahead == Ahead(w, walk)
           here(i) == FindLowl(Searched(w, walk, i), st)
           lines == FlattenSeq(ahead)
<1>1. walk.refs \in Seq(AllLines) /\ n \in Nat /\ DOMAIN walk.refs = 1 .. n
    BY DEF RefWalk
<1>2. ahead \in Seq(Seq(Inner)) /\ Len(ahead) = n
  <2>1. CASE n = 0
    <3>1. ahead = << >> /\ DOMAIN walk.refs = {}
      BY <1>1, <2>1 DEF Ahead
    <3> QED
      BY <2>1, <3>1
  <2>2. CASE n # 0
    <3>1. 1 \in 1 .. n
      BY <1>1, <2>2
    <3> QED
      BY <3>1, AheadRest
  <2> QED
    BY <2>1, <2>2
<1>3. ASSUME NEW i \in 1 .. n
      PROVE  /\ i \in Hits(w, walk) <=> ahead[i] # << >>
             /\ i \in Hits(w, walk) =>
                  /\ ahead[i] = <<Head(here(i))>> \o Of(Tail(here(i)), st)
                  /\ Head(here(i)) \in Inner /\ Head(here(i)).statement = st
                  /\ Tail(here(i)) \in Seq(Inner)
                  /\ Of(Tail(here(i)), st) \in Seq(Inner)
  <2>1. ahead[i] = Of(Searched(w, walk, i), st)
    BY <1>1 DEF Ahead
  <2>2. Searched(w, walk, i) \in Seq(Inner)
    BY SearchedType
  <2>3. /\ here(i) = << >> => ahead[i] = << >>
        /\ here(i) # << >> => ahead[i] = <<Head(here(i))>> \o Of(Tail(here(i)), st)
    BY <2>1, <2>2, OfFound
  <2>4. here(i) # << >> => /\ Head(here(i)) \in Inner /\ Tail(here(i)) \in Seq(Inner)
                           /\ Head(here(i)).statement = st
    BY <2>2, LowlFound
  <2>5. here(i) # << >> => Of(Tail(here(i)), st) \in Seq(Inner)
    BY <2>4, OfFound
  <2>6. i \in Hits(w, walk) <=> here(i) # << >>
    BY <1>1 DEF Hits
  <2> DEFINE x == Head(here(i))
             t == Of(Tail(here(i)), st)
  <2>7. here(i) # << >> => x \in Inner /\ t \in Seq(Inner) /\ ahead[i] = <<x>> \o t
    BY <2>3, <2>4, <2>5
  <2>8. here(i) # << >> => ahead[i] # << >>
    <3> HIDE DEF x, t, here, ahead
    <3>1. here(i) # << >> => <<x>> \in Seq(Inner) /\ Len(<<x>>) = 1
      BY <2>7
    <3>2. here(i) # << >> => Len(ahead[i]) = 1 + Len(t) /\ Len(t) \in Nat
      BY <2>7, <3>1, ConcatProperties, LenProperties
    <3> QED
      BY <3>2
  <2> QED
    BY <2>3, <2>4, <2>5, <2>6, <2>8
<1>4. lines \in Seq(Inner)
    BY <1>2, FlattenType
<1> HIDE DEF ahead, st
<1>5. CASE Hits(w, walk) = {}
  <2>1. Advance(w, walk) = Over(walk)
    BY <1>5 DEF Advance
  <2>2. \A j \in 1 .. n : ahead[j] = << >>
    BY <1>3, <1>5
  <2>3. lines = FlattenSeq(SubSeq(ahead, n + 1, n))
    <3>1. n + 1 \in 1 .. Len(ahead) + 1 /\ (n + 1) - 1 = n
      BY <1>1, <1>2
    <3> HIDE DEF n
    <3> QED
      BY <1>2, <2>2, <3>1, FlattenFrom
  <2>4. SubSeq(ahead, n + 1, n) = << >> /\ FlattenSeq(<< >>) = << >>
    BY <1>1, <1>2, SubSeqEmpty DEF FlattenSeq
  <2>5. Over(walk).found = NULL /\ LeftIn(w, Over(walk).walk) = << >>
    BY DEF Over, LeftIn, RefWalk
  <2> QED
    BY <1>4, <2>1, <2>3, <2>4, <2>5 DEF Yields, ahead, st
<1>6. CASE Hits(w, walk) # {}
  <2> DEFINE i    == Min(Hits(w, walk))
             new  == [walk EXCEPT !.state = TRUE, !.refs = SubSeq(@, i, Len(@)),
                                  !.lowls = Tail(here(i))]
             rest == SubSeq(walk.refs, i + 1, n)
             x    == Head(here(i))
             t    == Of(Tail(here(i)), st)
             more == HeldBy(w, rest, walk.query)
  <2>1. Advance(w, walk) = [walk |-> new, found |-> x]
    BY <1>6 DEF Advance, st
  <2>2. i \in Hits(w, walk) /\ \A j \in Hits(w, walk) : i <= j
    <3>1. Hits(w, walk) \in SUBSET Nat
      BY <1>1 DEF Hits
    <3> QED
      BY <1>6, <3>1, HasLeast DEF Min
  <2>3. i \in 1 .. n
    BY <1>1, <2>2 DEF Hits
  <2> HIDE DEF i, here
  <2>4. \A j \in 1 .. i - 1 : ahead[j] = << >>
    <3> SUFFICES ASSUME NEW j \in 1 .. i - 1
                 PROVE  ahead[j] = << >>
      OBVIOUS
    <3>1. j \in 1 .. n /\ ~(i <= j)
      BY <1>1, <2>3
    <3> QED
      BY <1>3, <2>2, <3>1
  <2>5. /\ ahead[i] = <<x>> \o t /\ x \in Inner /\ x.statement = st
        /\ Tail(here(i)) \in Seq(Inner) /\ t \in Seq(Inner)
    BY <1>3, <2>2, <2>3
  <2>6. lines = ahead[i] \o FlattenSeq(SubSeq(ahead, i + 1, n))
    BY <1>2, <2>3, <2>4, FlattenAt
  <2>7. rest \in Seq(AllLines) /\ i + 1 \in 1 .. n + 1
    BY <1>1, <2>3, RestOf
  <2>8. FlattenSeq(SubSeq(ahead, i + 1, n)) = more /\ more \in Seq(Inner)
    <3>1. SubSeq(ahead, i + 1, n) = Shares(w, rest, walk.query)
      BY <2>3, AheadRest DEF ahead
    <3>2. more = FlattenSeq(Shares(w, rest, walk.query)) /\ more \in Seq(Inner)
      BY <2>7, HeldByIs
    <3> HIDE DEF rest, more
    <3> QED
      BY <3>1, <3>2
  <2>9. LeftIn(w, new) = t \o more
    <3>1. /\ new.state /\ new.lowls = Tail(here(i)) /\ new.query = walk.query
          /\ new.refs = SubSeq(walk.refs, i, n)
      BY DEF RefWalk
    <3>2. Tail(SubSeq(walk.refs, i, n)) = rest
      BY <1>1, <2>3, HeadFrom
    <3> QED
      BY <3>1, <3>2 DEF LeftIn, st
  <2>10. lines = <<x>> \o (t \o more) /\ t \o more \in Seq(Inner)
    <3> HIDE DEF x, t, more, lines
    <3>1. <<x>> \in Seq(Inner)
      BY <2>5
    <3> DEFINE a == <<x>>
    <3>2. a \in Seq(Inner) /\ lines = (a \o t) \o more
      BY <2>5, <2>6, <2>8, <3>1
    <3> HIDE DEF a
    <3>3. lines = a \o (t \o more) /\ t \o more \in Seq(Inner)
      BY <2>5, <2>8, <3>2, ConcatAssociative, ConcatProperties
    <3> QED
      BY <3>3 DEF a
  <2>11. /\ lines # << >> /\ Head(lines) = x /\ Tail(lines) = t \o more
    <3> DEFINE y == t \o more
    <3>1. lines = <<x>> \o y /\ y \in Seq(Inner) /\ x \in Inner
      BY <2>5, <2>10
    <3> HIDE DEF x, y, lines
    <3>2. <<x>> \in Seq(Inner) /\ Len(<<x>>) = 1 /\ <<x>>[1] = x
      BY <3>1
    <3> QED
      BY <3>1, <3>2, HeadTailOfOne DEF y
  <2> DEFINE left == t \o more
  <2>12. LeftIn(w, new) = left /\ Tail(lines) = left
    BY <2>9, <2>11
  <2> HIDE DEF new, x, lines, left
  <2>13. Advance(w, walk).walk = new /\ Advance(w, walk).found = x
    BY <2>1
  <2>14. Yields(w, Advance(w, walk), lines, st)
    BY <1>4, <2>5, <2>11, <2>12, <2>13 DEF Yields
  <2> QED
    BY <2>14 DEF lines, ahead, st
<1> QED
    BY <1>5, <1>6

\* A first call gives the first of the lines the references hold.
LEMMA BeginYields ==
    ASSUME NEW w, NEW refs \in Seq(AllLines), NEW query \in Asked
    PROVE  Yields(w, Begin(w, refs, query), HeldBy(w, refs, query), query.statement)
<1> DEFINE walk == [state |-> FALSE, refs |-> refs, lowls |-> << >>, query |-> query]
<1>1. walk \in RefWalk /\ walk.refs = refs /\ walk.query = query /\ ~walk.state
    BY DEF RefWalk
<1>2. Begin(w, refs, query) = Advance(w, walk)
    BY DEF Begin
<1> HIDE DEF walk
<1>3. Yields(w, Advance(w, walk), FlattenSeq(Ahead(w, walk)), query.statement)
    BY <1>1, AdvanceYields
<1>4. FlattenSeq(Ahead(w, walk)) = HeldBy(w, refs, query)
  <2>1. Ahead(w, walk) = Shares(w, refs, query)
    <3>1. CASE Len(refs) = 0
      <4>1. DOMAIN refs = {}
        BY <3>1
      <4> QED
        BY <1>1, <4>1 DEF Ahead, Shares
    <3>2. CASE Len(refs) # 0
      <4>1. 1 \in 1 .. Len(walk.refs)
        BY <1>1, <3>2
      <4> QED
        BY <1>1, <4>1, AheadRest
    <3> QED
      BY <3>1, <3>2
  <2> QED
    BY <2>1, HeldByIs
<1> QED
    BY <1>2, <1>3, <1>4

\* So the first call of a walk begins with what the file holds for the query.
LEMMA FirstYields ==
    ASSUME NEW w \in Sections, NEW query \in Asked
    PROVE  Yields(w, FirstLowl(w, query), Held(w, query), query.statement)
<1>1. w \in {"MODE", "STATION", "GLOBAL"}
    BY DEF Sections, Order
<1>2. CASE w = "MODE"
  <2> DEFINE refs == Lines(FindDef(Items(FindBlock("MODE", Vex)), query.mode))
  <2>1. refs \in Seq(AllLines)
    BY LinesType, InnerLines
  <2>2. Body("MODE", query.mode) = refs
    BY BodyIs
  <2> HIDE DEF refs
  <2>3. Yields(w, Begin("MODE", refs, query), HeldBy("MODE", refs, query), query.statement)
    BY <1>2, <2>1, BeginYields
  <2> QED
    BY <1>2, <2>2, <2>3 DEF FirstLowl, GetModeLowl, Held, refs
<1>3. CASE w = "STATION"
  <2> DEFINE refs == Lines(FindDef(Items(FindBlock("STATION", Vex)), query.station))
  <2>1. refs \in Seq(AllLines)
    BY LinesType, InnerLines
  <2>2. Body("STATION", query.station) = refs
    BY BodyIs
  <2> HIDE DEF refs
  <2>3. Yields(w, Begin("STATION", refs, query), HeldBy("STATION", refs, query),
               query.statement)
    BY <1>3, <2>1, BeginYields
  <2> QED
    BY <1>3, <2>2, <2>3 DEF FirstLowl, GetStationLowl, Held, refs
<1>4. CASE w = "GLOBAL"
  <2> DEFINE refs == Items(FindBlock("GLOBAL", Vex))
  <2>1. refs \in Seq(AllLines)
    BY ItemsType
  <2>2. Block("GLOBAL") = refs
    BY BlockIs
  <2> HIDE DEF refs
  <2>3. Yields(w, Begin("GLOBAL", refs, query), HeldBy("GLOBAL", refs, query),
               query.statement)
    BY <1>4, <2>1, BeginYields
  <2> QED
    BY <1>4, <2>2, <2>3 DEF FirstLowl, GetGlobalLowl, Held, refs
<1> QED
    BY <1>1, <1>2, <1>3, <1>4

\* A later call goes on with what its place leaves.
LEMMA ContinueYields ==
    ASSUME PlacesInv, NEW w \in Sections
    PROVE  Yields(w, Continue(w), Left(w), ref_walk[w].query.statement)
<1> DEFINE walk == ref_walk[w]
<1>1. walk \in RefWalk /\ (walk.state => walk.refs # << >>)
    BY DEF PlacesInv, TypeOK
<1>2. CASE ~walk.state
  <2>1. Continue(w) = Over(walk) /\ Left(w) = << >>
    BY <1>2 DEF Continue, Left
  <2>2. Over(walk).found = NULL /\ LeftIn(w, Over(walk).walk) = << >>
    BY <1>1 DEF Over, LeftIn, RefWalk
  <2>3. << >> \in Seq(Inner)
    OBVIOUS
  <2> HIDE DEF walk
  <2> QED
    BY <2>1, <2>2, <2>3 DEF Yields
<1>3. CASE walk.state
  <2>1. Yields(w, Continue(w), FlattenSeq(Ahead(w, walk)), walk.query.statement)
    BY <1>1, <1>3, AdvanceYields DEF Continue
  <2>2. FlattenSeq(Ahead(w, walk)) = Left(w)
    <3> DEFINE n == Len(walk.refs)
               ahead == Ahead(w, walk)
               rest == SubSeq(walk.refs, 2, n)
    <3>1. walk.refs \in Seq(AllLines) /\ walk.lowls \in Seq(Inner) /\ walk.refs # << >>
      BY <1>1, <1>3 DEF RefWalk
    <3> HIDE DEF walk
    <3>2. n \in Nat \ {0} /\ 1 \in 1 .. n /\ n \in 1 .. n /\ DOMAIN walk.refs = 1 .. n
      BY <3>1, EmptySeq
    <3>3. ahead[1] = Of(walk.lowls, walk.query.statement)
      BY <1>3, <3>2 DEF Ahead, Searched
    <3>4. /\ ahead \in Seq(Seq(Inner)) /\ Len(ahead) = n
          /\ SubSeq(ahead, 1 + 1, n) = Shares(w, SubSeq(walk.refs, 1 + 1, n), walk.query)
      BY <1>1, <3>2, AheadRest DEF walk
    <3>5. Tail(walk.refs) = rest /\ rest \in Seq(AllLines)
      <4>1. SubSeq(walk.refs, 1, n) = walk.refs
        BY <3>1, SubSeqFull
      <4>2. Tail(SubSeq(walk.refs, 1, n)) = SubSeq(walk.refs, 1 + 1, n)
        BY <3>1, <3>2, HeadFrom
      <4>3. Tail(walk.refs) \in Seq(AllLines)
        BY <3>1, HeadTailProperties
      <4> QED
        BY <4>1, <4>2, <4>3
    <3> HIDE DEF ahead
    <3>6. FlattenSeq(ahead) = ahead[1] \o FlattenSeq(SubSeq(ahead, 1 + 1, n))
      <4>1. \A j \in 1 .. 1 - 1 : ahead[j] = << >>
        OBVIOUS
      <4>2. 1 \in 1 .. Len(ahead)
        BY <3>2, <3>4
      <4> QED
        BY <3>4, <4>1, <4>2, FlattenAt
    <3>7. 1 + 1 = 2
      OBVIOUS
    <3>8. FlattenSeq(SubSeq(ahead, 1 + 1, n)) = HeldBy(w, Tail(walk.refs), walk.query)
      BY <3>4, <3>5, <3>7, HeldByIs
    <3> QED
      BY <1>3, <3>3, <3>6, <3>8 DEF Left, ahead, walk
  <2> QED
    BY <2>1, <2>2
<1> QED
    BY <1>2, <1>3

\* get_source_lowl gives the first of the lines of the statement.
LEMMA SourceYields ==
    ASSUME NEW lowls \in Seq(Inner), NEW query \in Asked
    PROVE  LET r     == SourceFrom(lowls, query)
               lines == Of(lowls, query.statement)
           IN  /\ r.found = IF lines = << >> THEN NULL ELSE Head(lines)
               /\ lines \in Seq(Inner)
               /\ (IF r.walk.state THEN Of(r.walk.lowls, query.statement) ELSE << >>)
                    = IF lines = << >> THEN << >> ELSE Tail(lines)
<1> DEFINE st == query.statement
           here == FindLowl(lowls, st)
           lines == Of(lowls, st)
           x == Head(here)
           left == Of(Tail(here), st)
           r == SourceFrom(lowls, query)
<1>1. /\ lines \in Seq(Inner) /\ (here = << >> => lines = << >>)
      /\ here # << >> => lines = <<x>> \o left
    BY OfFound
<1>2. here # << >> => x \in Inner /\ Tail(here) \in Seq(Inner)
    BY LowlFound
<1>3. here # << >> => left \in Seq(Inner)
    BY <1>2, OfFound
<1>4. /\ r.found = IF here = << >> THEN NULL ELSE x
      /\ r.walk.state <=> here # << >>
      /\ here # << >> => r.walk.lowls = Tail(here)
    BY DEF SourceFrom, Behind
<1>5. here # << >> => Of(r.walk.lowls, st) = left
    BY <1>4
<1> HIDE DEF x, left, here, r
<1>6. here # << >> => lines # << >> /\ Head(lines) = x /\ Tail(lines) = left
  <2> HIDE DEF lines
  <2> QED
    BY <1>1, <1>2, <1>3, HeadTailOfOne
<1> HIDE DEF lines
<1> QED
    BY <1>1, <1>4, <1>5, <1>6 DEF lines, r

-----------------------------------------------------------------------------
(* The lines of all sections. *)

\* What the sections hold for a query is a list of lines of its statement.
LEMMA HeldType ==
    ASSUME NEW i \in 1 .. 3, NEW query \in Asked
    PROVE  Held(Order[i], query) \in Seq(Inner)
BY FirstYields, OrderFacts DEF Yields

(* What the sections from one on hold, section by section. *)
HeldLists(i, query) == [j \in 1 .. 3 |-> IF j >= i THEN Held(Order[j], query) ELSE << >>]

\* Those before it are left out.
LEMMA HeldListsIs ==
    ASSUME NEW query \in Asked, NEW i \in 1 .. 4
    PROVE  /\ HeldLists(i, query) \in Seq(Seq(Inner)) /\ Len(HeldLists(i, query)) = 3
           /\ HeldFrom(i, query) = FlattenSeq(HeldLists(i, query))
           /\ \A j \in 1 .. 3 :
                 HeldLists(i, query)[j] = IF j >= i THEN Held(Order[j], query) ELSE << >>
           /\ SubSeq(HeldLists(i, query), i, 3) \in Seq(Seq(Inner))
           /\ HeldFrom(i, query) = FlattenSeq(SubSeq(HeldLists(i, query), i, 3))
<1> DEFINE held == HeldLists(i, query)
           k == 3
<1>1. \A j \in 1 .. k : held[j] = IF j >= i THEN Held(Order[j], query) ELSE << >>
    BY DEF HeldLists
<1>2. held \in [1 .. k -> Seq(Inner)]
  <2>1. << >> \in Seq(Inner)
    OBVIOUS
  <2> QED
    BY <2>1, HeldType DEF HeldLists
<1>3. k \in Nat
    OBVIOUS
<1>10. k = 3
    OBVIOUS
<1>4. HeldFrom(i, query) = FlattenSeq(held)
    BY DEF HeldFrom, HeldLists
<1> HIDE DEF held, k
<1>5. held \in Seq(Seq(Inner)) /\ Len(held) = k
    BY <1>2, <1>3
<1>6. \A j \in 1 .. i - 1 : held[j] = << >>
  <2> SUFFICES ASSUME NEW j \in 1 .. i - 1
               PROVE  held[j] = << >>
    OBVIOUS
  <2>1. j \in 1 .. k /\ ~(j >= i)
    BY <1>10
  <2> QED
    BY <1>1, <2>1
<1>7. i \in 1 .. Len(held) + 1
    BY <1>10, <1>5
<1>8. FlattenSeq(held) = FlattenSeq(SubSeq(held, i, Len(held)))
    BY <1>5, <1>6, <1>7, FlattenFrom
<1>9. SubSeq(held, i, Len(held)) \in Seq(Seq(Inner))
    BY <1>5, <1>7, RestOf
<1> QED
    BY <1>1, <1>4, <1>5, <1>8, <1>9, <1>10 DEF held

\* What the sections hold from one on: what it holds, and then the others.
LEMMA HeldFromIs ==
    ASSUME NEW query \in Asked
    PROVE  /\ HeldFrom(4, query) = << >>
           /\ \A i \in 1 .. 4 : HeldFrom(i, query) \in Seq(Inner)
           /\ \A i \in 1 .. 3 :
                 HeldFrom(i, query) = Held(Order[i], query) \o HeldFrom(i + 1, query)
<1>1. ASSUME NEW i \in 1 .. 3
      PROVE  HeldFrom(i, query) = Held(Order[i], query) \o HeldFrom(i + 1, query)
  <2> DEFINE here == HeldLists(i, query)
             next == HeldLists(i + 1, query)
             a == SubSeq(here, i + 1, 3)
             b == SubSeq(next, i + 1, 3)
  <2>1. i \in 1 .. 4 /\ i + 1 \in 1 .. 4
    OBVIOUS
  <2>2. /\ here \in Seq(Seq(Inner)) /\ Len(here) = 3
        /\ HeldFrom(i, query) = FlattenSeq(here)
        /\ \A j \in 1 .. 3 : here[j] = IF j >= i THEN Held(Order[j], query) ELSE << >>
    BY <2>1, HeldListsIs
  <2>3. /\ next \in Seq(Seq(Inner)) /\ Len(next) = 3
        /\ HeldFrom(i + 1, query) = FlattenSeq(b)
        /\ \A j \in 1 .. 3 : next[j] = IF j >= i + 1 THEN Held(Order[j], query) ELSE << >>
    BY <2>1, HeldListsIs
  <2> HIDE DEF here, next
  <2>4. \A s \in {here, next} :
          /\ SubSeq(s, i + 1, 3) \in Seq(Seq(Inner))
          /\ Len(SubSeq(s, i + 1, 3)) = 3 - i
          /\ \A j \in 1 .. 3 - i : SubSeq(s, i + 1, 3)[j] = s[i + j]
    <3> SUFFICES ASSUME NEW s \in {here, next}
                 PROVE  /\ SubSeq(s, i + 1, 3) \in Seq(Seq(Inner))
                        /\ Len(SubSeq(s, i + 1, 3)) = 3 - i
                        /\ \A j \in 1 .. 3 - i : SubSeq(s, i + 1, 3)[j] = s[i + j]
      OBVIOUS
    <3> DEFINE rest == SubSeq(s, i + 1, 3)
    <3>1. s \in Seq(Seq(Inner)) /\ Len(s) = 3
      BY <2>2, <2>3
    <3>2. \A j \in i + 1 .. 3 : s[j] \in Seq(Inner)
      <4> SUFFICES ASSUME NEW j \in i + 1 .. 3
                   PROVE  s[j] \in Seq(Inner)
        OBVIOUS
      <4>1. j \in 1 .. Len(s)
        BY <3>1
      <4> QED
        BY <3>1, <4>1, ElementOfSeq
    <3>3. /\ rest \in Seq(Seq(Inner))
          /\ Len(rest) = IF i + 1 <= 3 THEN 3 - (i + 1) + 1 ELSE 0
          /\ \A j \in 1 .. 3 - (i + 1) + 1 : rest[j] = s[(i + 1) + j - 1]
      BY <3>2, SubSeqProperties
    <3>4. \A j \in 1 .. 3 - i : (i + 1) + j - 1 = i + j
      OBVIOUS
    <3>5. 3 - (i + 1) + 1 = 3 - i /\ (i + 1 <= 3 \/ 3 - i = 0)
      OBVIOUS
    <3> HIDE DEF rest
    <3>6. rest \in Seq(Seq(Inner)) /\ Len(rest) = 3 - i /\ \A j \in 1 .. 3 - i : rest[j] = s[i + j]
      BY <3>3, <3>4, <3>5
    <3> QED
      BY <3>6 DEF rest
  <2>5. ASSUME NEW j \in 1 .. 3 - i
        PROVE  here[i + j] = next[i + j]
    <3>1. i + j \in 1 .. 3 /\ i + j >= i /\ i + j >= i + 1
      OBVIOUS
    <3> QED
      BY <2>2, <2>3, <3>1
  <2>6. /\ a \in Seq(Seq(Inner)) /\ b \in Seq(Seq(Inner)) /\ Len(a) = Len(b)
        /\ \A j \in 1 .. Len(a) : a[j] = b[j]
    <3> DEFINE k == 3 - i
    <3>1. a \in Seq(Seq(Inner)) /\ Len(a) = k /\ \A j \in 1 .. k : a[j] = here[i + j]
      BY <2>4
    <3>2. b \in Seq(Seq(Inner)) /\ Len(b) = k /\ \A j \in 1 .. k : b[j] = next[i + j]
      BY <2>4
    <3>3. \A j \in 1 .. k : here[i + j] = next[i + j]
      BY <2>5
    <3> HIDE DEF a, b, k
    <3> QED
      BY <3>1, <3>2, <3>3
  <2>7. \A j \in 1 .. i - 1 : here[j] = << >>
    <3> SUFFICES ASSUME NEW j \in 1 .. i - 1
                 PROVE  here[j] = << >>
      OBVIOUS
    <3>1. j \in 1 .. 3 /\ ~(j >= i)
      OBVIOUS
    <3> QED
      BY <2>2, <3>1
  <2>8. FlattenSeq(here) = here[i] \o FlattenSeq(SubSeq(here, i + 1, Len(here)))
    BY <2>2, <2>7, FlattenAt
  <2> HIDE DEF a, b
  <2>9. a = b
    BY <2>6, SeqEqual
  <2>10. here[i] = Held(Order[i], query)
    BY <2>2
  <2> QED
    BY <2>2, <2>3, <2>8, <2>9, <2>10 DEF a
<1>2. HeldFrom(4, query) = << >>
  <2>1. 4 \in 1 .. 4 /\ FlattenSeq(<< >>) = << >>
    BY DEF FlattenSeq
  <2>2. HeldFrom(4, query) = FlattenSeq(SubSeq(HeldLists(4, query), 4, 3))
    BY <2>1, HeldListsIs
  <2> DEFINE held == HeldLists(4, query)
  <2> HIDE DEF held
  <2>3. SubSeq(held, 4, 3) = << >>
    BY SubSeqEmpty
  <2> QED
    BY <2>1, <2>2, <2>3 DEF held
<1>3. \A i \in 1 .. 4 : HeldFrom(i, query) \in Seq(Inner)
    BY HeldListsIs, FlattenType
<1> QED
    BY <1>1, <1>2, <1>3

(* What get_all_lowl has before it, in state s. *)
AllAhead(s, fresh, query) ==
    IF s = 4 THEN << >>
    ELSE (IF fresh THEN Held(Order[s], query) ELSE Left(Order[s])) \o HeldFrom(s + 1, query)

\* get_all_lowl gives the first of the lines before it and leaves the others.
LEMMA AllYields ==
    ASSUME PlacesInv, NEW s \in 1 .. 4, NEW fresh \in BOOLEAN, NEW query \in Asked,
           query.statement # "none",
           s < 4 /\ ~fresh => After(ref_walk[Order[s]], query.statement)
    PROVE  LET r     == GetAllLowl(s, fresh, query)
               lines == AllAhead(s, fresh, query)
           IN  /\ lines \in Seq(Inner)
               /\ r.found = IF lines = << >> THEN NULL ELSE Head(lines)
               /\ (IF r.state = 4 THEN << >>
                   ELSE LeftIn(Order[r.state], r.walks[Order[r.state]])
                        \o HeldFrom(r.state + 1, query))
                    = IF lines = << >> THEN << >> ELSE Tail(lines)
<1> DEFINE call == [i \in s .. 3 |-> IF i = s /\ ~fresh THEN Continue(Order[i])
                                     ELSE FirstLowl(Order[i], query)]
           ends == {i \in s .. 3 : call[i].found # NULL} \cup {4}
           end  == Min(ends)
           made == {i \in s .. 3 : i <= end}
           put  == [w \in Sections |->
                      IF \E i \in made : Order[i] = w
                      THEN call[CHOOSE i \in made : Order[i] = w].walk ELSE ref_walk[w]]
           r    == GetAllLowl(s, fresh, query)
           part_of(i) == IF i = s /\ ~fresh THEN Left(Order[i]) ELSE Held(Order[i], query)
           lines == AllAhead(s, fresh, query)
<1>1. ASSUME NEW i \in s .. 3
      PROVE  /\ part_of(i) \in Seq(Inner)
             /\ call[i].found = IF part_of(i) = << >> THEN NULL ELSE Head(part_of(i))
             /\ call[i].found # NULL <=> part_of(i) # << >>
             /\ LeftIn(Order[i], call[i].walk)
                  = IF part_of(i) = << >> THEN << >> ELSE Tail(part_of(i))
  <2>1. Order[i] \in Sections
    BY OrderFacts
  <2>2. \E st : /\ Yields(Order[i], call[i], part_of(i), st)
                /\ part_of(i) # << >> => st # "none"
    <3>1. CASE i = s /\ ~fresh
      <4>1. call[i] = Continue(Order[i]) /\ part_of(i) = Left(Order[i])
        BY <3>1
      <4>2. Yields(Order[i], Continue(Order[i]), Left(Order[i]),
                   ref_walk[Order[i]].query.statement)
        BY <2>1, ContinueYields
      <4>3. Left(Order[i]) # << >> => ref_walk[Order[i]].query.statement # "none"
        BY <3>1 DEF Left, After
      <4> HIDE DEF call, part_of
      <4> QED
        BY <4>1, <4>2, <4>3
    <3>2. CASE ~(i = s /\ ~fresh)
      <4>1. call[i] = FirstLowl(Order[i], query) /\ part_of(i) = Held(Order[i], query)
        BY <3>2
      <4>2. Yields(Order[i], FirstLowl(Order[i], query), Held(Order[i], query),
                   query.statement)
        BY <2>1, FirstYields
      <4> HIDE DEF call, part_of
      <4> QED
        BY <4>1, <4>2
    <3> QED
      BY <3>1, <3>2
  <2>3. NULL.statement = "none"
    BY DEF NULL
  <2> HIDE DEF call, part_of
  <2> QED
    BY <2>2, <2>3 DEF Yields
<1>2. r = [state |-> end, walks |-> put,
           found |-> IF end = 4 THEN NULL ELSE call[end].found]
    BY DEF GetAllLowl
<1>3. ends \in SUBSET Nat /\ ends # {} /\ ends \subseteq 1 .. 4
    OBVIOUS
<1>9. s < 4 => lines = part_of(s) \o HeldFrom(s + 1, query)
  <2>1. s < 4 => s # 4 /\ (fresh \/ ~fresh) /\ s \in 1 .. 4
    OBVIOUS
  <2>2. s < 4 => (IF fresh THEN Held(Order[s], query) ELSE Left(Order[s])) = part_of(s)
    OBVIOUS
  <2> HIDE DEF part_of
  <2> QED
    BY <2>1, <2>2 DEF AllAhead
<1>10. \A i \in s + 1 .. 3 : part_of(i) = Held(Order[i], query)
    OBVIOUS
<1> HIDE DEF call, part_of, lines
<1>4. end \in ends /\ end \in 1 .. 4 /\ \A i \in ends : end <= i
  <2>1. end \in ends /\ \A i \in ends : end <= i
    BY <1>3, HasLeast DEF Min
  <2> QED
    BY <1>3, <2>1
<1>5. end < 4 => end \in s .. 3 /\ call[end].found # NULL
    BY <1>4
<1>6. ASSUME NEW i \in s .. 3, i < end
      PROVE  part_of(i) = << >>
  <2>1. i \notin ends
    BY <1>4, <1>6
  <2> QED
    BY <1>1, <2>1
<1>7. s <= end
    BY <1>4
<1> HIDE DEF end
<1>8. end < 4 => put[Order[end]] = call[end].walk
  <2> SUFFICES ASSUME end < 4 PROVE put[Order[end]] = call[end].walk
    OBVIOUS
  <2>1. end \in made /\ end \in 1 .. 3 /\ made \subseteq 1 .. 3
    BY <1>4, <1>5
  <2>2. Order[end] \in Sections
        /\ \A i \in made : Order[i] = Order[end] => i = end
    BY <2>1, OrderFacts
  <2> HIDE DEF made
  <2> QED
    BY <2>1, <2>2
<1> HIDE DEF put, r, made
<1>11. \A i \in 1 .. 4 : HeldFrom(i, query) \in Seq(Inner)
    BY HeldFromIs
<1>12. ASSUME NEW i \in s + 1 .. 3, i < end
       PROVE  HeldFrom(i, query) = HeldFrom(i + 1, query)
  <2>1. Held(Order[i], query) = << >> /\ i \in 1 .. 3 /\ i + 1 \in 1 .. 4
    BY <1>6, <1>10, <1>12
  <2> QED
    BY <1>11, <2>1, HeldFromIs, ConcatEmptySeq
<1>13. s < 4 => lines = IF end = 4 THEN << >> ELSE part_of(end) \o HeldFrom(end + 1, query)
  <2> SUFFICES ASSUME s < 4
               PROVE  lines = IF end = 4 THEN << >>
                              ELSE part_of(end) \o HeldFrom(end + 1, query)
    OBVIOUS
  <2>1. CASE end = s
    BY <1>9, <2>1
  <2>2. CASE end # s
    <3>1. part_of(s) = << >> /\ s + 1 \in 1 .. 4 /\ s + 1 <= end
      BY <1>4, <1>6, <1>7, <2>2
    <3>2. lines = HeldFrom(s + 1, query)
      BY <1>9, <1>11, <3>1, ConcatEmptySeq
    <3>3. HeldFrom(s + 1, query) = HeldFrom(end, query)
      <4>1. s + 1 = end \/ s + 2 = end \/ (s = 1 /\ end = 4)
        BY <1>4, <3>1
      <4>2. s + 2 = end => HeldFrom(s + 1, query) = HeldFrom(s + 2, query)
        BY <1>4, <1>12
      <4>3. s = 1 /\ end = 4 => /\ HeldFrom(2, query) = HeldFrom(3, query)
                                /\ HeldFrom(3, query) = HeldFrom(4, query)
        BY <1>12
      <4> QED
        BY <4>1, <4>2, <4>3
    <3>4. end < 4 => HeldFrom(end, query) = part_of(end) \o HeldFrom(end + 1, query)
      <4> SUFFICES ASSUME end < 4
                   PROVE  HeldFrom(end, query) = part_of(end) \o HeldFrom(end + 1, query)
        OBVIOUS
      <4>1. end \in 1 .. 3 /\ end \in s + 1 .. 3
        BY <1>4, <3>1
      <4> QED
        BY <1>10, <4>1, HeldFromIs
    <3>5. HeldFrom(4, query) = << >>
      BY HeldFromIs
    <3>6. end = 4 \/ end < 4
      BY <1>4
    <3> QED
      BY <3>2, <3>3, <3>4, <3>5, <3>6
  <2> QED
    BY <2>1, <2>2
<1>14. /\ r.state = end /\ r.walks = put
       /\ r.found = IF end = 4 THEN NULL ELSE call[end].found
    BY <1>2
<1>15. CASE end = 4
  <2>1. lines = << >>
    BY <1>13, <1>15 DEF AllAhead, lines
  <2>2. << >> \in Seq(Inner)
    OBVIOUS
  <2> QED
    BY <1>14, <1>15, <2>1, <2>2 DEF r, lines
<1>16. CASE end # 4
  <2> DEFINE a == part_of(end)
             b == HeldFrom(end + 1, query)
  <2>1. end < 4 /\ end \in s .. 3 /\ s < 4 /\ end + 1 \in 1 .. 4
    BY <1>4, <1>5, <1>16
  <2>2. a \in Seq(Inner) /\ a # << >> /\ b \in Seq(Inner) /\ lines = a \o b
    BY <1>1, <1>5, <1>11, <1>13, <2>1
  <2>3. call[end].found = Head(a) /\ LeftIn(Order[end], call[end].walk) = Tail(a)
    BY <1>1, <2>1, <2>2
  <2>4. LeftIn(Order[end], put[Order[end]]) \o b = Tail(a) \o b
    BY <1>8, <2>1, <2>3
  <2> HIDE DEF a
  <2>5. lines # << >> /\ Head(lines) = Head(a) /\ Tail(lines) = Tail(a) \o b
        /\ lines \in Seq(Inner)
    <3> HIDE DEF b
    <3> QED
      BY <2>2, HeadTailOfConcat, ConcatProperties
  <2> QED
    BY <1>14, <1>16, <2>3, <2>4, <2>5 DEF r, lines
<1> QED
    BY <1>15, <1>16

-----------------------------------------------------------------------------
(* What the calls for names and for lines give. *)

(* A definition's name is given the way a line is. *)
NameOf(d) == [statement |-> "def", item |-> <<d.name>>]

NameLines == {NameOf(d) : d \in AllLines}

(* In hand are lines and names, or nothing. *)
GivenInv ==
    /\ save_ptr \in Inner \cup {NULL}
    /\ cout \in [Kinds -> NameLines \cup {NULL}]

(* What is left of the names by the place of a walk. *)
NamesIn(walk) == IF walk.state THEN NamesOf(Of(walk.defs, "def")) ELSE << >>

\* A walk over definitions gives the next name and leaves the others.
LEMMA NamesYield ==
    ASSUME NEW defs \in Seq(AllLines)
    PROVE  LET r     == GoneThrough(defs)
               lines == NamesOf(Of(defs, "def"))
           IN  /\ lines \in Seq(NameLines)
               /\ r.found = IF lines = << >> THEN NULL ELSE Head(lines)
               /\ NamesIn(r.walk) = IF lines = << >> THEN << >> ELSE Tail(lines)
<1> DEFINE here == FindNextDef(defs)
           r == GoneThrough(defs)
           lines == NamesOf(Of(defs, "def"))
           x == Head(here)
           rest == Of(Tail(here), "def")
           left == NamesOf(rest)
<1>1. /\ r.found = IF here = << >> THEN NULL ELSE NameOf(x)
      /\ r.walk.state <=> here # << >>
      /\ here # << >> => r.walk.defs = Tail(here)
    BY DEF GoneThrough, NameOf, Behind
<1>2. /\ here = << >> => Of(defs, "def") = << >>
      /\ here # << >> => Of(defs, "def") = <<x>> \o rest
    BY OfFound DEF FindNextDef
<1>3. here # << >> => x \in AllLines /\ Tail(here) \in Seq(AllLines)
    BY LowlFound DEF FindNextDef
<1> HIDE DEF r
<1>4. CASE here = << >>
  <2>1. lines = << >>
    BY <1>2, <1>4 DEF NamesOf
  <2>2. NamesIn(r.walk) = << >> /\ r.found = NULL /\ << >> \in Seq(NameLines)
    BY <1>1, <1>4 DEF NamesIn
  <2> QED
    BY <2>1, <2>2 DEF r
<1>5. CASE here # << >>
  <2>1. rest \in Seq(AllLines)
    BY <1>3, <1>5, OfFound
  <2>2. lines = <<NameOf(x)>> \o left /\ left \in Seq(NameLines)
    <3> HIDE DEF rest
    <3> QED
      BY <1>2, <1>3, <1>5, <2>1, NamesOfCons DEF NameOf, NameLines
  <2>3. NameOf(x) \in NameLines
    BY <1>3, <1>5 DEF NameLines
  <2>4. NamesIn(r.walk) = left /\ r.found = NameOf(x)
    BY <1>1, <1>5 DEF NamesIn
  <2> HIDE DEF left, x, lines
  <2>5. lines # << >> /\ Head(lines) = NameOf(x) /\ Tail(lines) = left /\ lines \in Seq(NameLines)
    BY <2>2, <2>3, HeadTailOfOne
  <2> QED
    BY <2>4, <2>5 DEF r, lines
<1> QED
    BY <1>4, <1>5

(* A call for a name gives the first of the names and leaves the others. *)
NamesGiven(k, lines) ==
    /\ lines \in Seq(NameLines)
    /\ cout' = [cout EXCEPT ![k] = IF lines = << >> THEN NULL ELSE Head(lines)]
    /\ LeftOfNames(k)' = IF lines = << >> THEN << >> ELSE Tail(lines)
    /\ \A j \in Kinds \ {k} : LeftOfNames(j)' = LeftOfNames(j)

\* A first call begins with the names of the block, a next one goes on.
LEMMA FgetDefGives ==
    ASSUME PlacesInv, part \in DOMAIN Parts, NEW first \in BOOLEAN, FgetDef(first)
    PROVE  \E k \in Kinds :
              /\ k = Kind
              /\ NamesGiven(k, IF first THEN Defined(k) ELSE LeftOfNames(k))
<1>0. PICK k : k = Kind
    OBVIOUS
<1> DEFINE r == GetDef(k, first)
           lines == IF first THEN Defined(k) ELSE LeftOfNames(k)
<1>1. k \in Kinds /\ Kinds = {"STATION", "MODE", "SOURCE"}
    BY <1>0 DEF Kind, Kinds, Parts
<1>2. def_walk' = [def_walk EXCEPT ![k] = r.walk] /\ cout' = [cout EXCEPT ![k] = r.found]
  <2>1. CASE k = "STATION"
    BY <1>0, <2>1 DEF FgetDef, GetStationDef
  <2>2. CASE k = "MODE"
    BY <1>0, <2>2 DEF FgetDef, GetModeDef
  <2>3. CASE k = "SOURCE"
    BY <1>0, <2>3 DEF FgetDef, GetSourceDef
  <2> QED
    BY <1>1, <2>1, <2>2, <2>3
<1>3. def_walk \in [Kinds -> [state : BOOLEAN, defs : Seq(AllLines)]]
    BY DEF PlacesInv
<1>4. /\ lines \in Seq(NameLines)
      /\ r.found = IF lines = << >> THEN NULL ELSE Head(lines)
      /\ NamesIn(r.walk) = IF lines = << >> THEN << >> ELSE Tail(lines)
  <2>1. CASE first
    <3> DEFINE defs == Items(FindBlock(k, Vex))
    <3>1. defs \in Seq(AllLines)
      BY ItemsType
    <3>2. r = GoneThrough(defs) /\ lines = NamesOf(Of(defs, "def"))
      BY <2>1, BlockIs DEF GetDef, Defined
    <3> HIDE DEF defs, r, lines
    <3> QED
      BY <3>1, <3>2, NamesYield
  <2>2. CASE ~first /\ def_walk[k].state
    <3> DEFINE defs == def_walk[k].defs
    <3>1. defs \in Seq(AllLines)
      BY <1>1, <1>3
    <3>2. r = GoneThrough(defs) /\ lines = NamesOf(Of(defs, "def"))
      BY <2>2 DEF GetDef, LeftOfNames
    <3> HIDE DEF defs, r, lines
    <3> QED
      BY <3>1, <3>2, NamesYield
  <2>3. CASE ~first /\ ~def_walk[k].state
    <3>1. r = [walk |-> def_walk[k], found |-> NULL] /\ lines = << >>
      BY <2>3 DEF GetDef, LeftOfNames
    <3> HIDE DEF r, lines
    <3> QED
      BY <2>3, <3>1 DEF NamesIn
  <2> QED
    BY <2>1, <2>2, <2>3
<1> HIDE DEF r, lines
<1>5. \A j \in Kinds : LeftOfNames(j)' = IF j = k THEN NamesIn(r.walk) ELSE LeftOfNames(j)
    BY <1>1, <1>2, <1>3 DEF LeftOfNames, NamesIn
<1>6. NamesGiven(k, lines)
  <2>1. cout' = [cout EXCEPT ![k] = IF lines = << >> THEN NULL ELSE Head(lines)]
    BY <1>2, <1>4
  <2>2. LeftOfNames(k)' = IF lines = << >> THEN << >> ELSE Tail(lines)
    BY <1>1, <1>4, <1>5
  <2>3. \A j \in Kinds \ {k} : LeftOfNames(j)' = LeftOfNames(j)
    BY <1>5
  <2> QED
    BY <1>4, <2>1, <2>2, <2>3 DEF NamesGiven
<1> QED
    BY <1>0, <1>1, <1>6 DEF lines

(* A call for a line gives the first of the lines and leaves the others. *)
LinesGiven(lines) ==
    /\ lines \in Seq(Inner)
    /\ save_ptr' = IF lines = << >> THEN NULL ELSE Head(lines)
    /\ LeftOfLines' = IF lines = << >> THEN << >> ELSE Tail(lines)

\* The place a walk over references has come to is what it leaves.
LEMMA LeftIs ==
    /\ \A w : Left(w) = LeftIn(w, ref_walk[w])
    /\ \A w : Left(w)' = LeftIn(w, ref_walk'[w])
BY DEF Left, LeftIn

\* get_all_lowl gives the lines it has before it.
LEMMA AllGiven ==
    ASSUME PlacesInv, NEW s \in 1 .. 4, NEW fresh \in BOOLEAN, NEW query \in Asked,
           query.statement # "none", query.kind = "all", FgetAllLowl(s, fresh, query),
           asked' = query,
           s < 4 /\ ~fresh => After(ref_walk[Order[s]], query.statement)
    PROVE  LinesGiven(AllAhead(s, fresh, query))
<1> DEFINE r     == GetAllLowl(s, fresh, query)
           lines == AllAhead(s, fresh, query)
<1>1. /\ lines \in Seq(Inner)
      /\ r.found = IF lines = << >> THEN NULL ELSE Head(lines)
      /\ (IF r.state = 4 THEN << >>
          ELSE LeftIn(Order[r.state], r.walks[Order[r.state]]) \o HeldFrom(r.state + 1, query))
           = IF lines = << >> THEN << >> ELSE Tail(lines)
    BY AllYields
<1>2. r.state \in 1 .. 4
    BY AllGives
<1>3. /\ all_walk' = [state |-> r.state, query |-> query]
      /\ ref_walk' = r.walks /\ save_ptr' = r.found
    BY DEF FgetAllLowl, Found
<1> HIDE DEF r, lines
<1>4. all_walk'.state = r.state /\ all_walk'.query = query
    BY <1>3
<1>5. LeftOfLines' =
        IF r.state \in {0, 4} THEN << >>
        ELSE LeftIn(Order[r.state], r.walks[Order[r.state]]) \o HeldFrom(r.state + 1, query)
    BY <1>3, <1>4 DEF LeftOfLines, Left, LeftIn
<1>7. r.state \in {0, 4} <=> r.state = 4
    BY <1>2
<1> QED
    BY <1>1, <1>3, <1>5, <1>7 DEF LinesGiven, lines

\* So does each of the walks it is made of.
LEMMA RefGiven ==
    ASSUME PlacesInv, NEW w \in Sections, NEW r, NEW lines, NEW st,
           Yields(w, r, lines, st), FgetRefLowl(w, r),
           asked'.kind \in {"mode", "station", "global"},
           asked'.kind = "mode" => w = "MODE",
           asked'.kind = "station" => w = "STATION",
           asked'.kind = "global" => w = "GLOBAL"
    PROVE  LinesGiven(lines)
<1>1. ref_walk' = [ref_walk EXCEPT ![w] = r.walk] /\ save_ptr' = r.found
    BY DEF FgetRefLowl, Found
<1>2. ref_walk'[w] = r.walk
    BY <1>1 DEF PlacesInv
<1>3. LeftOfLines' = Left(w)'
    BY DEF LeftOfLines
<1>4. Left(w)' = LeftIn(w, r.walk)
    BY <1>2, LeftIs
<1> QED
    BY <1>1, <1>3, <1>4 DEF Yields, LinesGiven

\* And get_source_lowl.
LEMMA SourceGiven ==
    ASSUME NEW r, NEW lines, lines \in Seq(Inner), FgetSourceLowl(r),
           r.found = IF lines = << >> THEN NULL ELSE Head(lines),
           (IF r.walk.state THEN Of(r.walk.lowls, r.walk.query.statement) ELSE << >>)
             = IF lines = << >> THEN << >> ELSE Tail(lines),
           asked'.kind = "source"
    PROVE  LinesGiven(lines)
<1>1. source_walk' = r.walk /\ save_ptr' = r.found
    BY DEF FgetSourceLowl, Found
<1>2. LeftOfLines' = IF r.walk.state THEN Of(r.walk.lowls, r.walk.query.statement) ELSE << >>
    BY <1>1 DEF LeftOfLines, Of
<1> QED
    BY <1>1, <1>2 DEF LinesGiven

\* The first call of a walk gives the first of the lines that answer the query.
LEMMA FirstGiven ==
    ASSUME PlacesInv, NEW query \in Queries, FgetFirst(query), asked' = query
    PROVE  LinesGiven(LinesFor(query))
<1>1. /\ query \in Asked /\ query.statement # "none"
      /\ query.kind \in {"all", "mode", "station", "global", "source"}
    BY WalksAssumption DEF Asked
<1>2. "MODE" \in Sections /\ "STATION" \in Sections /\ "GLOBAL" \in Sections
    BY OrderFacts
<1>3. /\ Yields("MODE", GetModeLowl(query), Held("MODE", query), query.statement)
      /\ Yields("STATION", GetStationLowl(query), Held("STATION", query), query.statement)
      /\ Yields("GLOBAL", GetGlobalLowl(query), Held("GLOBAL", query), query.statement)
  <2>1. /\ FirstLowl("MODE", query) = GetModeLowl(query)
        /\ FirstLowl("STATION", query) = GetStationLowl(query)
        /\ FirstLowl("GLOBAL", query) = GetGlobalLowl(query)
    BY DEF FirstLowl
  <2>2. \A w \in Sections : Yields(w, FirstLowl(w, query), Held(w, query), query.statement)
    BY <1>1, FirstYields
  <2> QED
    BY <1>2, <2>1, <2>2
<1>4. CASE query.kind = "all"
  <2>1. FgetAllLowl(1, TRUE, query)
    BY <1>4 DEF FgetFirst
  <2>2. 1 \in 1 .. 4 /\ TRUE \in BOOLEAN
    OBVIOUS
  <2>3. LinesGiven(AllAhead(1, TRUE, query))
    BY <1>1, <1>4, <2>1, <2>2, AllGiven, Zenon
  <2>4. AllAhead(1, TRUE, query) = Held(Order[1], query) \o HeldFrom(1 + 1, query)
    BY DEF AllAhead
  <2>5. HeldFrom(1, query) = Held(Order[1], query) \o HeldFrom(1 + 1, query)
    <3>1. 1 \in 1 .. 3
      OBVIOUS
    <3> QED
      BY <1>1, <3>1, HeldFromIs
  <2> QED
    BY <1>4, <2>3, <2>4, <2>5 DEF LinesFor
<1>5. CASE query.kind = "mode"
  <2>1. FgetRefLowl("MODE", GetModeLowl(query)) /\ LinesFor(query) = Held("MODE", query)
    BY <1>5 DEF FgetFirst, LinesFor
  <2> QED
    BY <1>2, <1>3, <1>5, <2>1, RefGiven
<1>6. CASE query.kind = "station"
  <2>1. FgetRefLowl("STATION", GetStationLowl(query))
        /\ LinesFor(query) = Held("STATION", query)
    BY <1>6 DEF FgetFirst, LinesFor
  <2> QED
    BY <1>2, <1>3, <1>6, <2>1, RefGiven
<1>7. CASE query.kind = "global"
  <2>1. FgetRefLowl("GLOBAL", GetGlobalLowl(query)) /\ LinesFor(query) = Held("GLOBAL", query)
    BY <1>7 DEF FgetFirst, LinesFor
  <2> QED
    BY <1>2, <1>3, <1>7, <2>1, RefGiven
<1>8. CASE query.kind = "source"
  <2> DEFINE lowls == Lines(FindDef(Items(FindBlock("SOURCE", Vex)), query.source))
             r == SourceFrom(lowls, query)
             lines == Of(lowls, query.statement)
  <2>1. FgetSourceLowl(r)
    BY <1>8 DEF FgetFirst, GetSourceLowl
  <2>2. LinesFor(query) = lines
    <3>1. Body("SOURCE", query.source) = lowls
      BY BodyIs
    <3> QED
      BY <1>8, <3>1 DEF LinesFor
  <2>3. lowls \in Seq(Inner)
    BY LinesType
  <2> HIDE DEF lowls
  <2>4. r.walk.query = query
    BY <1>1, <2>3, SourceGives
  <2>5. /\ r.found = IF lines = << >> THEN NULL ELSE Head(lines)
        /\ lines \in Seq(Inner)
        /\ (IF r.walk.state THEN Of(r.walk.lowls, query.statement) ELSE << >>)
             = IF lines = << >> THEN << >> ELSE Tail(lines)
    BY <1>1, <2>3, SourceYields
  <2> HIDE DEF r, lines
  <2> QED
    BY <1>8, <2>1, <2>2, <2>4, <2>5, SourceGiven
<1> QED
    BY <1>1, <1>4, <1>5, <1>6, <1>7, <1>8

\* A later call of it gives the first of what was left.
LEMMA NextGiven ==
    ASSUME WalksInv, asked # NoQuery, FgetNext, asked' = asked
    PROVE  LinesGiven(LeftOfLines)
<1>1. /\ asked \in Asked /\ PlacesInv /\ AskedInv /\ asked.statement # "none"
      /\ asked.kind \in {"all", "mode", "station", "global", "source"}
    BY WalksAssumption DEF Asked, WalksInv, PlacesInv, TypeOK
<1>2. "MODE" \in Sections /\ "STATION" \in Sections /\ "GLOBAL" \in Sections
    BY OrderFacts
<1>4. CASE asked.kind = "all"
  <2> DEFINE s == all_walk.state
  <2>1. FgetAllLowl(s, FALSE, asked)
    BY <1>1, <1>4 DEF FgetNext, AskedInv
  <2>2. /\ s \in 1 .. 4 /\ all_walk.query = asked /\ FALSE \in BOOLEAN
        /\ s < 4 => After(ref_walk[Order[s]], asked.statement)
    BY <1>1, <1>4 DEF AskedInv
  <2>3. AllAhead(s, FALSE, asked) = LeftOfLines
    BY <1>4, <2>2 DEF AllAhead, LeftOfLines
  <2> HIDE DEF s
  <2>4. LinesGiven(AllAhead(s, FALSE, asked))
    BY <1>1, <1>4, <2>1, <2>2, AllGiven, Zenon
  <2> QED
    BY <2>3, <2>4
<1>5. CASE asked.kind = "mode"
  <2>1. FgetRefLowl("MODE", Continue("MODE")) /\ LeftOfLines = Left("MODE")
    BY <1>5 DEF FgetNext, LeftOfLines
  <2>2. Yields("MODE", Continue("MODE"), Left("MODE"), ref_walk["MODE"].query.statement)
    BY <1>1, <1>2, ContinueYields
  <2> QED
    BY <1>1, <1>2, <1>5, <2>1, <2>2, RefGiven
<1>6. CASE asked.kind = "station"
  <2>1. FgetRefLowl("STATION", Continue("STATION")) /\ LeftOfLines = Left("STATION")
    BY <1>6 DEF FgetNext, LeftOfLines
  <2>2. Yields("STATION", Continue("STATION"), Left("STATION"),
               ref_walk["STATION"].query.statement)
    BY <1>1, <1>2, ContinueYields
  <2> QED
    BY <1>1, <1>2, <1>6, <2>1, <2>2, RefGiven
<1>7. CASE asked.kind = "global"
  <2>1. FgetRefLowl("GLOBAL", Continue("GLOBAL")) /\ LeftOfLines = Left("GLOBAL")
    BY <1>7 DEF FgetNext, LeftOfLines
  <2>2. Yields("GLOBAL", Continue("GLOBAL"), Left("GLOBAL"),
               ref_walk["GLOBAL"].query.statement)
    BY <1>1, <1>2, ContinueYields
  <2> QED
    BY <1>1, <1>2, <1>7, <2>1, <2>2, RefGiven
<1>8. CASE asked.kind = "source"
  <2> DEFINE query == source_walk.query
             r == IF source_walk.state THEN SourceFrom(source_walk.lowls, query)
                  ELSE Over(source_walk)
             lines == IF source_walk.state THEN Of(source_walk.lowls, query.statement)
                      ELSE << >>
  <2>1. FgetSourceLowl(r) /\ LeftOfLines = lines
    BY <1>8 DEF FgetNext, LeftOfLines
  <2>2. /\ source_walk.lowls \in Seq(Inner) /\ query \in Asked
        /\ source_walk \in [state : BOOLEAN, refs : {<< >>}, lowls : Seq(Inner), query : Asked]
    BY <1>1 DEF PlacesInv
  <2>3. /\ r.found = IF lines = << >> THEN NULL ELSE Head(lines)
        /\ lines \in Seq(Inner)
        /\ (IF r.walk.state THEN Of(r.walk.lowls, r.walk.query.statement) ELSE << >>)
             = IF lines = << >> THEN << >> ELSE Tail(lines)
    <3>1. CASE source_walk.state
      <4> DEFINE a == SourceFrom(source_walk.lowls, query)
                 b == Of(source_walk.lowls, query.statement)
      <4>1. a.walk.query = query
        BY <2>2, SourceGives
      <4>2. /\ a.found = IF b = << >> THEN NULL ELSE Head(b)
            /\ b \in Seq(Inner)
            /\ (IF a.walk.state THEN Of(a.walk.lowls, query.statement) ELSE << >>)
                 = IF b = << >> THEN << >> ELSE Tail(b)
        BY <2>2, SourceYields
      <4>3. r = a /\ lines = b
        BY <3>1
      <4> HIDE DEF a, b, r, lines
      <4> QED
        BY <4>1, <4>2, <4>3
    <3>2. CASE ~source_walk.state
      <4>1. r = Over(source_walk) /\ lines = << >>
        BY <3>2
      <4>2. Over(source_walk).found = NULL /\ ~Over(source_walk).walk.state
        BY <2>2 DEF Over
      <4>3. << >> \in Seq(Inner)
        OBVIOUS
      <4> HIDE DEF r, lines
      <4> QED
        BY <4>1, <4>2, <4>3
    <3> QED
      BY <3>1, <3>2
  <2> HIDE DEF r, lines
  <2> QED
    BY <1>8, <2>1, <2>3, SourceGiven
<1> QED
    BY <1>1, <1>4, <1>5, <1>6, <1>7, <1>8

-----------------------------------------------------------------------------
(* The walks implement VexAnswers. *)

\* A call for a name is a call of the walk over those names.
LEMMA NamesArePromised ==
    ASSUME GivenInv, NEW k \in Kinds, NEW lines, NamesGiven(k, lines),
           LeftOfLines' = LeftOfLines, save_ptr' = save_ptr
    PROVE  Promise!Give(k, lines)
<1>1. "lines" \notin Kinds /\ k # "lines"
    BY DEF Kinds, Parts
<1>2. /\ cout' = [cout EXCEPT ![k] = IF lines = << >> THEN NULL ELSE Head(lines)]
      /\ LeftOfNames(k)' = IF lines = << >> THEN << >> ELSE Tail(lines)
      /\ \A j \in Kinds \ {k} : LeftOfNames(j)' = LeftOfNames(j)
    BY DEF NamesGiven
<1>3. \A j \in Kinds : cout'[j] = IF j = k THEN IF lines = << >> THEN NULL ELSE Head(lines)
                                  ELSE cout[j]
    BY <1>2 DEF GivenInv
<1>4. Given' = [Given EXCEPT ![k] = IF lines = << >> THEN NULL ELSE Head(lines)]
    BY <1>1, <1>3 DEF Given
<1>5. Todo' = [Todo EXCEPT ![k] = IF lines = << >> THEN << >> ELSE Tail(lines)]
    BY <1>1, <1>2 DEF Todo
<1> QED
    BY <1>4, <1>5 DEF Promise!Give

\* A call for a line is a call of the walk over lines.
LEMMA LinesArePromised ==
    ASSUME NEW lines, LinesGiven(lines), def_walk' = def_walk, cout' = cout
    PROVE  Promise!Give("lines", lines)
<1>1. "lines" \notin Kinds
    BY DEF Kinds, Parts
<1>2. \A j \in Kinds : LeftOfNames(j)' = LeftOfNames(j)
    BY DEF LeftOfNames
<1>3. /\ save_ptr' = IF lines = << >> THEN NULL ELSE Head(lines)
      /\ LeftOfLines' = IF lines = << >> THEN << >> ELSE Tail(lines)
    BY DEF LinesGiven
<1>4. Given' = [Given EXCEPT !["lines"] = IF lines = << >> THEN NULL ELSE Head(lines)]
    BY <1>1, <1>3 DEF Given
<1>5. Todo' = [Todo EXCEPT !["lines"] = IF lines = << >> THEN << >> ELSE Tail(lines)]
    BY <1>1, <1>2, <1>3 DEF Todo
<1> QED
    BY <1>4, <1>5 DEF Promise!Give

\* What a call gives is a name or a line, or nothing.
LEMMA GivenTypes ==
    /\ \A k \in Kinds : \A lines :
          GivenInv /\ NamesGiven(k, lines) /\ save_ptr' = save_ptr => GivenInv'
    /\ \A lines : GivenInv /\ LinesGiven(lines) /\ cout' = cout => GivenInv'
<1>1. ASSUME NEW k \in Kinds, NEW lines, GivenInv, NamesGiven(k, lines), save_ptr' = save_ptr
      PROVE  GivenInv'
  <2> DEFINE x == IF lines = << >> THEN NULL ELSE Head(lines)
  <2>1. x \in NameLines \cup {NULL}
    BY <1>1, HeadTailProperties DEF NamesGiven
  <2>2. cout' = [cout EXCEPT ![k] = x]
    BY <1>1 DEF NamesGiven
  <2> HIDE DEF x
  <2> QED
    BY <1>1, <2>1, <2>2 DEF GivenInv
<1>2. ASSUME NEW lines, GivenInv, LinesGiven(lines), cout' = cout
      PROVE  GivenInv'
  <2>1. save_ptr' \in Inner \cup {NULL}
    BY <1>2, HeadTailProperties DEF LinesGiven
  <2> QED
    BY <1>2, <2>1 DEF GivenInv
<1> QED
    BY <1>1, <1>2

\* The next text of a literal is a step of the promise, too.
LEMMA TextIsPromised ==
    ASSUME WalksInv, GivenInv, asked.statement = "literal", save_ptr # NULL,
           Len(save_ptr.item) > 1, UNCHANGED <<walks, asked, cout>>,
           save_ptr' = [statement |-> save_ptr.statement, item |-> Tail(save_ptr.item)]
    PROVE  GivenInv' /\ Promise!Spell("lines")
<1>1. save_ptr.statement = "literal"
    BY DEF WalksInv, AskedInv
<1>2. save_ptr \in Statements
    BY <1>1 DEF GivenInv, Inner, RefLines
<1>3. save_ptr.item \in Seq(STRING) /\ save_ptr.item # << >>
    BY <1>2 DEF Statements
<1>4. Tail(save_ptr.item) \in Seq(STRING)
    BY <1>3, HeadTailProperties
<1>5. save_ptr' \in Statements /\ save_ptr' = [save_ptr EXCEPT !.item = Tail(@)]
  <2>1. save_ptr' \in Statements
    BY <1>2, <1>4 DEF Statements
  <2> DEFINE text == Tail(save_ptr.item)
  <2>2. save_ptr' = [statement |-> save_ptr.statement, item |-> text]
    OBVIOUS
  <2>3. save_ptr \in [statement : STRING \ {"def", "ref"}, item : Seq(STRING)]
    BY <1>2 DEF Statements
  <2> HIDE DEF text
  <2>4. save_ptr' = [save_ptr EXCEPT !.item = text]
    <3> DEFINE a == save_ptr.statement
               b == save_ptr.item
    <3>1. save_ptr = [statement |-> a, item |-> b]
      BY <2>3
    <3> HIDE DEF a, b
    <3>2. [[statement |-> a, item |-> b] EXCEPT !.item = text] = [statement |-> a, item |-> text]
      OBVIOUS
    <3> QED
      BY <2>2, <3>1, <3>2 DEF a
  <2> QED
    BY <2>1, <2>4 DEF text
<1>6. GivenInv'
    BY <1>5 DEF GivenInv, Inner
<1>7. UNCHANGED <<def_walk, ref_walk, all_walk, source_walk>>
    BY DEF walks
<1>8. Todo' = Todo
    BY <1>7 DEF Todo, LeftOfLines, LeftOfNames, Left
<1>9. "lines" \notin Kinds
    BY DEF Kinds, Parts
<1>10. Given["lines"] = save_ptr /\ Given["lines"] # NULL /\ Len(Given["lines"].item) > 1
    BY DEF Given
<1>11. Given' = [Given EXCEPT !["lines"] = [save_ptr EXCEPT !.item = Tail(@)]]
    BY <1>5, <1>9 DEF Given
<1>12. Given' = [Given EXCEPT !["lines"].item = Tail(@)]
    BY <1>10, <1>11
<1> QED
    BY <1>6, <1>8, <1>10, <1>12 DEF Promise!Spell

\* Every step of the reading is a step of the promise, or none.
LEMMA NextIsPromised ==
    ASSUME WalksInv, GivenInv, [Next]_vars
    PROVE  GivenInv' /\ [Promise!Next]_<<Todo, Given>>
<1>1. PlacesInv /\ AskedInv /\ asked \in Asked
    BY DEF WalksInv, PlacesInv, TypeOK, Asked
<1>2. ASSUME FirstName
      PROVE  GivenInv' /\ Promise!Next
  <2>1. /\ part \in DOMAIN Parts /\ FgetDef(TRUE)
        /\ UNCHANGED <<ref_walk, all_walk, source_walk, save_ptr, asked>>
    BY <1>2 DEF FirstName, saved
  <2>2. PICK k \in Kinds : NamesGiven(k, Defined(k))
    BY <1>1, <2>1, FgetDefGives, Zenon
  <2>3. LeftOfLines' = LeftOfLines
    BY <2>1 DEF LeftOfLines, Left
  <2>4. Promise!Give(k, Defined(k)) /\ GivenInv'
    BY <2>1, <2>2, <2>3, NamesArePromised, GivenTypes
  <2> DEFINE q == [walk |-> k, query |-> NoQuery]
  <2>5. q \in DOMAIN Asking /\ Asking[q] = Defined(k)
    <3>1. k # "lines"
      BY DEF Kinds, Parts
    <3> QED
      BY <3>1 DEF Asking
  <2>6. Promise!Ask(q)
    BY <2>4, <2>5 DEF Promise!Ask
  <2> HIDE DEF q
  <2> QED
    BY <2>4, <2>5, <2>6 DEF Promise!Next
<1>3. ASSUME StoreName
      PROVE  GivenInv' /\ [Promise!Next]_<<Todo, Given>>
  <2>1. /\ part \in DOMAIN Parts /\ (FgetDef(FALSE) \/ UNCHANGED <<cout, def_walk>>)
        /\ UNCHANGED <<ref_walk, all_walk, source_walk, save_ptr, asked>>
    BY <1>3 DEF StoreName, saved
  <2>2. LeftOfLines' = LeftOfLines
    BY <2>1 DEF LeftOfLines, Left
  <2>3. CASE FgetDef(FALSE)
    <3>1. PICK k \in Kinds : NamesGiven(k, LeftOfNames(k))
      BY <1>1, <2>1, <2>3, FgetDefGives, Zenon
    <3>2. Promise!Give(k, LeftOfNames(k)) /\ GivenInv'
      BY <2>1, <2>2, <3>1, NamesArePromised, GivenTypes
    <3>3. Todo[k] = LeftOfNames(k) /\ k \in Kinds \cup {"lines"}
      BY DEF Todo, Kinds, Parts
    <3>4. Promise!More(k)
      BY <3>2, <3>3 DEF Promise!More
    <3> QED
      BY <3>2, <3>3, <3>4 DEF Promise!Next
  <2>4. CASE UNCHANGED <<cout, def_walk>>
    <3>1. Todo' = Todo /\ Given' = Given /\ GivenInv'
      BY <2>1, <2>2, <2>4 DEF Todo, Given, GivenInv, LeftOfNames
    <3> QED
      BY <3>1
  <2> QED
    BY <2>1, <2>3, <2>4
<1>4. ASSUME NamesStored \/ NextPart \/ UNCHANGED vars
      PROVE  GivenInv' /\ UNCHANGED <<Todo, Given>>
  <2>1. UNCHANGED <<def_walk, ref_walk, all_walk, source_walk, save_ptr, asked, cout>>
    BY <1>4 DEF NamesStored, NextPart, vars, walks, saved, caller
  <2> QED
    BY <2>1 DEF Todo, Given, GivenInv, LeftOfNames, LeftOfLines, Left
<1>5. ASSUME NEW query \in Queries, AskLines(query)
      PROVE  GivenInv' /\ Promise!Next
  <2>1. FgetFirst(query) /\ asked' = query /\ cout' = cout
    BY <1>5 DEF AskLines, CallForLines
  <2>2. def_walk' = def_walk
    BY <1>1, <2>1, FirstAnswers DEF Answered
  <2>3. LinesGiven(LinesFor(query))
    BY <1>1, <2>1, FirstGiven
  <2>4. Promise!Give("lines", LinesFor(query)) /\ GivenInv'
    BY <2>1, <2>2, <2>3, LinesArePromised, GivenTypes
  <2> DEFINE q == [walk |-> "lines", query |-> query]
  <2>5. q \in DOMAIN Asking /\ Asking[q] = LinesFor(query)
    BY DEF Asking
  <2>6. Promise!Ask(q)
    BY <2>4, <2>5 DEF Promise!Ask
  <2> HIDE DEF q
  <2> QED
    BY <2>4, <2>5, <2>6 DEF Promise!Next
<1>6. ASSUME asked # NoQuery, FgetNext, asked' = asked, cout' = cout
      PROVE  GivenInv' /\ Promise!More("lines")
  <2>1. LinesGiven(LeftOfLines) /\ def_walk' = def_walk
    BY <1>6, NextGiven, NextAnswers DEF Answered
  <2>2. Promise!Give("lines", LeftOfLines) /\ GivenInv'
    BY <1>6, <2>1, LinesArePromised, GivenTypes
  <2>3. Todo["lines"] = LeftOfLines
    BY DEF Todo
  <2> QED
    BY <2>2, <2>3 DEF Promise!More
<1>7. ASSUME MoreLines
      PROVE  GivenInv' /\ Promise!Next
  <2>1. asked # NoQuery /\ FgetNext /\ asked' = asked /\ cout' = cout
    BY <1>7 DEF MoreLines, CallForLines
  <2> QED
    BY <1>6, <2>1 DEF Promise!Next
<1>8. ASSUME FgetLiteral
      PROVE  GivenInv' /\ Promise!Next
  <2>1. /\ asked # NoQuery /\ asked.statement = "literal" /\ save_ptr # NULL
        /\ asked' = asked /\ cout' = cout
    BY <1>8 DEF FgetLiteral, CallForLines
  <2>2. CASE Len(save_ptr.item) > 1
    <3>1. /\ UNCHANGED <<walks, asked, cout>>
          /\ save_ptr' = [statement |-> save_ptr.statement, item |-> Tail(save_ptr.item)]
      BY <1>8, <2>1, <2>2 DEF FgetLiteral
    <3> QED
      BY <2>1, <2>2, <3>1, TextIsPromised DEF Promise!Next
  <2>3. CASE ~(Len(save_ptr.item) > 1)
    <3>1. FgetNext
      BY <1>8, <2>3 DEF FgetLiteral
    <3> QED
      BY <1>6, <2>1, <3>1 DEF Promise!Next
  <2> QED
    BY <2>2, <2>3
<1> QED
    BY <1>2, <1>3, <1>4, <1>5, <1>7, <1>8 DEF Next

\* Before the first call no walk has anything to come.
LEMMA InitIsPromised == Init => GivenInv /\ Promise!Init
<1> SUFFICES ASSUME Init PROVE GivenInv /\ Promise!Init
    OBVIOUS
<1>1. /\ \A k \in Kinds : LeftOfNames(k) = << >> /\ cout[k] = NULL
      /\ LeftOfLines = << >> /\ save_ptr = NULL
    BY DEF Init, IdleDefs, LeftOfNames, LeftOfLines, NoQuery
<1>2. Todo = [w \in Kinds \cup {"lines"} |-> << >>]
    BY <1>1 DEF Todo
<1>3. Given = [w \in Kinds \cup {"lines"} |-> NULL]
    BY <1>1 DEF Given
<1>4. GivenInv
    BY DEF Init, GivenInv
<1> QED
    BY <1>2, <1>3, <1>4 DEF Promise!Init

\* The retrieval functions of vexf.c keep what they promise, for every file, every
\* set of questions and any number of calls: each walk gives the lines that answer
\* its question, each once, in the order of the file, and then nothing, whatever
\* was asked and left unfinished before it.
THEOREM WalksAlwaysAnswer == Spec => WalksAnswer
<1>1. Init => WalksInv /\ GivenInv /\ Promise!Init
    BY InitWalks, InitIsPromised
<1>2. WalksInv /\ GivenInv /\ [Next]_vars
        => WalksInv' /\ GivenInv' /\ [Promise!Next]_<<Todo, Given>>
    BY NextWalks, NextIsPromised
<1> QED
    BY <1>1, <1>2, PTL DEF Spec, WalksAnswer, Promise!Spec

-----------------------------------------------------------------------------
(* The tables of names. *)

(* The names a walk has still to give, the one in hand first. *)
Rest(k) == IF cout[k] = NULL THEN << >> ELSE <<cout[k]>> \o LeftOfNames(k)

Untouched(k) == names[k] = << >>

(* As long as its table has room, nothing is left out. *)
Underway(k) ==
    /\ IsPrefix(names[k], Defined(k)) /\ Len(names[k]) <= MaxNames[k]
    /\ Len(names[k]) < MaxNames[k] => Defined(k) = names[k] \o Rest(k)

(* A table that has been read is full, or holds all the names. *)
Complete(k) ==
    /\ IsPrefix(names[k], Defined(k))
    /\ Len(names[k]) = MaxNames[k] \/ names[k] = Defined(k)

StoredInv ==
    /\ names \in [Kinds -> Seq(NameLines)]
    /\ \A p \in 1 .. 3 :
          /\ p < part => Complete(Parts[p])
          /\ p = part /\ phase = "first" => Untouched(Parts[p])
          /\ p = part /\ phase = "names" => Underway(Parts[p])
          /\ p = part /\ phase = "lines" => Complete(Parts[p])
          /\ p > part => Untouched(Parts[p])

\* The names of a block are names.
LEMMA DefinedType == ASSUME NEW k PROVE Defined(k) \in Seq(NameLines)
<1>1. Block(k) \in Seq(AllLines)
    BY BlockIs, ItemsType
<1> QED
    BY <1>1, NamesYield DEF Defined

\* After a call, what a walk still has is what it had before it.
LEMMA RestGiven ==
    ASSUME GivenInv, NEW k \in Kinds, NEW lines, NamesGiven(k, lines)
    PROVE  Rest(k)' = lines
<1> DEFINE x == Head(lines)
           t == Tail(lines)
<1>1. /\ lines \in Seq(NameLines)
      /\ cout' = [cout EXCEPT ![k] = IF lines = << >> THEN NULL ELSE x]
      /\ LeftOfNames(k)' = IF lines = << >> THEN << >> ELSE t
    BY DEF NamesGiven
<1>2. cout'[k] = IF lines = << >> THEN NULL ELSE x
    BY <1>1 DEF GivenInv
<1>3. Rest(k)' = IF cout'[k] = NULL THEN << >> ELSE <<cout'[k]>> \o LeftOfNames(k)'
    BY DEF Rest
<1>4. CASE lines = << >>
    BY <1>2, <1>3, <1>4
<1>5. CASE lines # << >>
  <2>1. x \in NameLines /\ t \in Seq(NameLines)
    BY <1>1, <1>5, HeadTailProperties
  <2>2. x # NULL
    BY <2>1 DEF NameLines, NameOf, NULL
  <2>3. lines = <<x>> \o t
    BY <1>1, <1>5, HeadBeforeTail
  <2> QED
    BY <1>1, <1>2, <1>3, <1>5, <2>2, <2>3
<1> QED
    BY <1>4, <1>5

\* Storing the name in hand leaves nothing out.
LEMMA StoreKeeps ==
    ASSUME GivenInv, StoredInv, PlacesInv, StoreName
    PROVE  \E k \in Kinds : /\ k = Kind /\ Underway(k)'
                            /\ names' \in [Kinds -> Seq(NameLines)]
                            /\ \A j \in Kinds \ {k} : names'[j] = names[j]
<1>0. PICK k : k = Kind
    OBVIOUS
<1>1. k \in Kinds /\ part \in 1 .. 3 /\ k = Parts[part] /\ part \in DOMAIN Parts
    BY <1>0 DEF StoreName, Kind, Kinds, Parts
<1>2. Underway(k) /\ names \in [Kinds -> Seq(NameLines)] /\ names[k] \in Seq(NameLines)
    BY <1>1 DEF StoreName, StoredInv
<1>3. MaxNames[k] \in Nat /\ Len(names[k]) \in Nat
    BY <1>1, <1>2, WalksAssumption
<1>4. cout[k] # NULL /\ cout[k] \in NameLines
    BY <1>0, <1>1 DEF StoreName, GivenInv
<1>5. FgetDef(FALSE) => NamesGiven(k, LeftOfNames(k)) /\ Rest(k)' = LeftOfNames(k)
  <2> SUFFICES ASSUME FgetDef(FALSE)
               PROVE  NamesGiven(k, LeftOfNames(k)) /\ Rest(k)' = LeftOfNames(k)
    OBVIOUS
  <2>1. \E j \in Kinds : j = Kind /\ NamesGiven(j, LeftOfNames(j))
    BY <1>1, FgetDefGives, Zenon
  <2>2. NamesGiven(k, LeftOfNames(k))
    BY <1>0, <2>1
  <2> QED
    BY <1>1, <2>2, RestGiven
<1>6. CASE Len(names[k]) < MaxNames[k]
  <2> DEFINE old == names[k]
             new == Append(names[k], cout[k])
             left == LeftOfNames(k)
  <2>1. names' = [names EXCEPT ![k] = new] /\ FgetDef(FALSE)
    BY <1>0, <1>6 DEF StoreName
  <2>2. NamesGiven(k, left) /\ Rest(k)' = left /\ left \in Seq(NameLines)
    BY <1>5, <2>1 DEF NamesGiven
  <2>3. Defined(k) = old \o (<<cout[k]>> \o left)
    BY <1>2, <1>4, <1>6 DEF Underway, Rest
  <2>4. /\ new \in Seq(NameLines) /\ Len(new) = Len(old) + 1
        /\ new = old \o <<cout[k]>>
    BY <1>2, <1>4, AppendProperties, AppendIsConcat
  <2>5. Defined(k) = new \o left
    <3> DEFINE c == <<cout[k]>>
    <3>1. c \in Seq(NameLines) /\ old \in Seq(NameLines)
      BY <1>2, <1>4
    <3> HIDE DEF c, old, new, left
    <3>2. (old \o c) \o left = old \o (c \o left)
      BY <2>2, <3>1, ConcatAssociative
    <3> QED
      BY <2>3, <2>4, <3>2 DEF c
  <2>6. names'[k] = new /\ names' \in [Kinds -> Seq(NameLines)]
        /\ \A j \in Kinds \ {k} : names'[j] = names[j]
    BY <1>1, <1>2, <2>1, <2>4
  <2> HIDE DEF new, left
  <2>7. IsPrefix(new, Defined(k))
    BY <2>2, <2>4, <2>5, PrefixOfConcat
  <2>8. Underway(k)'
    <3>1. Len(new) <= MaxNames[k]
      BY <1>3, <1>6, <2>4
    <3>2. Defined(k)' = Defined(k)
      BY DEF Defined
    <3> QED
      BY <2>2, <2>5, <2>6, <2>7, <3>1, <3>2 DEF Underway
  <2> QED
    BY <1>0, <1>1, <2>6, <2>8
<1>7. CASE ~(Len(names[k]) < MaxNames[k])
  <2>1. names' = names
    BY <1>0, <1>7 DEF StoreName
  <2>2. Underway(k)'
    BY <1>2, <1>7, <2>1 DEF Underway
  <2> QED
    BY <1>0, <1>1, <1>2, <2>1, <2>2
<1> QED
    BY <1>6, <1>7

\* Every step keeps what is stored.
LEMMA NextStored ==
    ASSUME WalksInv, GivenInv, StoredInv, [Next]_vars
    PROVE  StoredInv'
<1>1. PlacesInv /\ part \in 1 .. 4
    BY DEF WalksInv, PlacesInv, TypeOK, Parts
<1>2. /\ \A p \in 1 .. 3 : Parts[p] \in Kinds
      /\ \A p, q \in 1 .. 3 : Parts[p] = Parts[q] => p = q
      /\ DOMAIN Parts = 1 .. 3
    BY DEF Parts, Kinds
<1>3. ASSUME NEW j, names'[j] = names[j]
      PROVE  (Complete(j) => Complete(j)') /\ (Untouched(j) => Untouched(j)')
    BY <1>3 DEF Complete, Untouched
<1>4. CASE FirstName
  <2>1. /\ part \in 1 .. 3 /\ phase = "first" /\ phase' = "names" /\ part' = part
        /\ names' = names /\ FgetDef(TRUE)
    BY <1>2, <1>4 DEF FirstName
  <2>2. PICK k \in Kinds : k = Kind /\ NamesGiven(k, Defined(k))
    BY <1>1, <1>2, <2>1, FgetDefGives, Zenon
  <2>3. k = Parts[part] /\ Untouched(k)
    BY <2>1, <2>2 DEF Kind, StoredInv
  <2>4. Rest(k)' = Defined(k)
    BY <2>2, RestGiven
  <2>5. Underway(k)'
    <3>1. names'[k] = << >> /\ Defined(k) \in Seq(NameLines) /\ MaxNames[k] \in Nat
      BY <2>1, <2>3, DefinedType, WalksAssumption DEF Untouched
    <3>2. << >> \in Seq(NameLines) /\ << >> \o Defined(k) = Defined(k)
      BY <3>1, ConcatEmptySeq
    <3>3. IsPrefix(<< >>, Defined(k))
      BY <3>1, <3>2, PrefixOfConcat
    <3>4. Defined(k)' = Defined(k) /\ Len(<< >>) = 0
      BY DEF Defined
    <3> QED
      BY <2>4, <3>1, <3>2, <3>3, <3>4 DEF Underway
  <2> QED
    BY <1>2, <1>3, <2>1, <2>3, <2>5 DEF StoredInv
<1>5. CASE StoreName
  <2>1. part \in 1 .. 3 /\ phase = "names" /\ phase' = phase /\ part' = part
    BY <1>2, <1>5 DEF StoreName
  <2>2. PICK k \in Kinds : /\ k = Kind /\ Underway(k)'
                           /\ names' \in [Kinds -> Seq(NameLines)]
                           /\ \A j \in Kinds \ {k} : names'[j] = names[j]
    BY <1>1, <1>5, StoreKeeps
  <2>3. k = Parts[part] /\ \A p \in 1 .. 3 : p # part => Parts[p] \in Kinds \ {k}
    BY <1>2, <2>1, <2>2 DEF Kind
  <2> QED
    BY <1>3, <2>1, <2>2, <2>3 DEF StoredInv
<1>6. CASE NamesStored
  <2>1. /\ part \in 1 .. 3 /\ phase = "names" /\ phase' = "lines" /\ part' = part
        /\ names' = names /\ cout[Parts[part]] = NULL
    BY <1>2, <1>6 DEF NamesStored, Kind
  <2> DEFINE k == Parts[part]
  <2>2. Underway(k) /\ k \in Kinds /\ names[k] \in Seq(NameLines)
    BY <1>2, <2>1 DEF StoredInv
  <2>3. MaxNames[k] \in Nat /\ Len(names[k]) \in Nat
    BY <2>2, WalksAssumption
  <2>4. Complete(k)
    <3>1. Len(names[k]) < MaxNames[k] => Defined(k) = names[k]
      <4>1. Rest(k) = << >> /\ names[k] \o << >> = names[k]
        BY <2>1, <2>2, ConcatEmptySeq DEF Rest
      <4> QED
        BY <2>2, <4>1 DEF Underway
    <3> QED
      BY <2>2, <2>3, <3>1 DEF Underway, Complete
  <2>5. \A p \in 1 .. 3 : (Complete(Parts[p]) => Complete(Parts[p])')
                          /\ (Untouched(Parts[p]) => Untouched(Parts[p])')
    BY <2>1 DEF Complete, Untouched
  <2> QED
    BY <2>1, <2>4, <2>5 DEF StoredInv
<1>7. CASE NextPart
  <2>1. /\ part \in 1 .. 3 /\ phase = "lines" /\ phase' = "first" /\ part' = part + 1
        /\ names' = names
    BY <1>2, <1>7 DEF NextPart
  <2>2. \A p \in 1 .. 3 : (Complete(Parts[p]) => Complete(Parts[p])')
                          /\ (Untouched(Parts[p]) => Untouched(Parts[p])')
    BY <2>1 DEF Complete, Untouched
  <2> QED
    BY <2>1, <2>2 DEF StoredInv
<1>8. ASSUME UNCHANGED <<part, phase, cout, names, def_walk>>
      PROVE  StoredInv'
    BY <1>8 DEF StoredInv, Complete, Untouched, Underway, Rest, LeftOfNames
<1>9. ASSUME NEW query \in Queries, AskLines(query)
      PROVE  StoredInv'
  <2>1. FgetFirst(query) /\ UNCHANGED <<part, phase, cout, names>>
    BY <1>9 DEF AskLines, CallForLines
  <2>2. def_walk' = def_walk
    BY <1>1, <2>1, FirstAnswers DEF Answered
  <2> QED
    BY <1>8, <2>1, <2>2
<1>10. CASE MoreLines \/ FgetLiteral
  <2>1. /\ asked # NoQuery /\ UNCHANGED <<part, phase, cout, names>>
        /\ FgetNext \/ UNCHANGED walks
    BY <1>10 DEF MoreLines, FgetLiteral, CallForLines
  <2>2. FgetNext => def_walk' = def_walk
    BY <2>1, NextAnswers DEF Answered
  <2>3. UNCHANGED walks => def_walk' = def_walk
    BY DEF walks
  <2> QED
    BY <1>8, <2>1, <2>2, <2>3
<1>11. CASE UNCHANGED vars
    BY <1>8, <1>11 DEF vars, walks, caller
<1> QED
    BY <1>4, <1>5, <1>6, <1>7, <1>9, <1>10, <1>11 DEF Next

\* The tables of stations, modes and sources hold the names the file defines, in its
\* order and none twice; only what there is no room for is missing, and it is at the
\* end. So for every file and every size of the tables.
THEOREM TablesHoldNames == Spec => []NamesStoredAll
<1>1. Init => WalksInv /\ GivenInv
    BY InitWalks, InitIsPromised
<1>2. Init => StoredInv
  <2> SUFFICES ASSUME Init PROVE StoredInv
    OBVIOUS
  <2>1. names \in [Kinds -> Seq(NameLines)] /\ part = 1 /\ phase = "first"
        /\ \A k \in Kinds : Untouched(k)
    BY DEF Init, Untouched
  <2>2. \A p \in 1 .. 3 : Parts[p] \in Kinds
    BY DEF Parts, Kinds
  <2> QED
    BY <2>1, <2>2 DEF StoredInv
<1>3. WalksInv /\ GivenInv /\ StoredInv /\ [Next]_vars
        => WalksInv' /\ GivenInv' /\ StoredInv'
    BY NextWalks, NextIsPromised, NextStored
<1>4. WalksInv /\ StoredInv => NamesStoredAll
  <2> SUFFICES ASSUME WalksInv, StoredInv, NEW k \in Kinds
               PROVE  /\ IsPrefix(names[k], Defined(k))
                      /\ k \in {Parts[p] : p \in 1 .. part - 1}
                           => Len(names[k]) = MaxNames[k] \/ names[k] = Defined(k)
    BY DEF NamesStoredAll
  <2>1. part \in 1 .. 4 /\ phase \in {"first", "names", "lines"}
    BY DEF WalksInv, PlacesInv, TypeOK, Parts
  <2>2. PICK p \in 1 .. 3 : k = Parts[p] /\ \A q \in 1 .. 3 : k = Parts[q] => q = p
    BY DEF Kinds, Parts
  <2>3. /\ Complete(k) \/ Underway(k) \/ Untouched(k)
        /\ p < part => Complete(k)
    BY <2>1, <2>2 DEF StoredInv
  <2>4. IsPrefix(<< >>, Defined(k))
    <3>1. << >> \in Seq(NameLines) /\ << >> \o Defined(k) = Defined(k)
          /\ Defined(k) \in Seq(NameLines)
      BY DefinedType, ConcatEmptySeq
    <3> QED
      BY <3>1, PrefixOfConcat
  <2>5. IsPrefix(names[k], Defined(k))
    BY <2>3, <2>4 DEF Complete, Underway, Untouched
  <2>6. k \in {Parts[q] : q \in 1 .. part - 1} => p < part
    <3> SUFFICES ASSUME NEW q \in 1 .. part - 1, k = Parts[q] PROVE p < part
      OBVIOUS
    <3>1. q \in 1 .. 3 /\ q < part
      BY <2>1
    <3> QED
      BY <2>2, <3>1
  <2> QED
    BY <2>3, <2>5, <2>6 DEF Complete
<1> QED
    BY <1>1, <1>2, <1>3, <1>4, PTL DEF Spec
==============================================================================
