------------------------------ MODULE VexWalks -------------------------------
(***************************************************************************)
(* Reading the definitions of a VEX file: the walks of vex_get.c, the      *)
(* session vexf.c keeps over them, and the order in which vread.f calls    *)
(* them.                                                                   *)
(*                                                                         *)
(* Every walk keeps its place in static variables: its first call names    *)
(* the file, the later ones nothing.  get_all_lowl has no place of its own *)
(* but borrows those of get_mode_lowl, get_station_lowl and                *)
(* get_global_lowl, one after the other, and all five leave what they find *)
(* in one pointer, save_ptr, whose type only a first call sets.            *)
(*                                                                         *)
(* The caller first takes the names of all stations, then asks for the     *)
(* lines of each; so too for modes and sources.  It has one walk over      *)
(* lines at a time, and often leaves one before its end.                   *)
(***************************************************************************)
EXTENDS VexLists

CONSTANTS
    Vex,        \* the blocks of the file
    Queries,    \* what the caller asks of its lines
    MaxNames,   \* MAX_STN, max_code, MAX_SOR, by section
    MaxCalls    \* the most calls for lines

Order    == <<"MODE", "STATION", "GLOBAL">>     \* of get_all_lowl
Sections == {Order[i] : i \in DOMAIN Order}
Parts    == <<"STATION", "MODE", "SOURCE">>     \* of the caller
Kinds    == {Parts[i] : i \in DOMAIN Parts}

(* The lines of a file: definitions, references and all others. *)
RefLines   == [statement : {"ref"}, primitive : STRING, name : STRING,
               qualifiers : Seq(STRING)]
Statements == [statement : STRING \ {"def", "ref"}, item : Seq(STRING)]
Defs       == [statement : {"def"}, name : STRING, refs : Seq(RefLines \cup Statements)]
AllLines   == Defs \cup RefLines \cup Statements

ASSUME WalksAssumption ==
    /\ Vex \in Seq([block : STRING, items : Seq(AllLines)])
    /\ MaxCalls \in Nat /\ MaxNames \in [Kinds -> Nat]
    /\ Queries \subseteq [kind : {"all", "mode", "station", "global", "source"},
                          station : STRING, mode : STRING, source : STRING,
                          primitive : STRING, statement : STRING \ {"none"}]

NULL == [statement |-> "none", item |-> << >>]

VARIABLES
    def_walk,       \* get_station_def, get_mode_def, get_source_def
    ref_walk,       \* get_mode_lowl, get_station_lowl, get_global_lowl
    all_walk,       \* get_all_lowl
    source_walk,    \* get_source_lowl
    save_ptr,       \* the line found last, of all but the def walks
    save_type,      \* its statement, as vexf.c believes
    part, phase, cout, names, asked, calls     \* of the caller

walks  == <<def_walk, ref_walk, all_walk, source_walk>>
saved  == <<save_ptr, save_type>>
caller == <<part, phase, cout, names, asked, calls>>
vars   == <<walks, saved, caller>>

NoQuery == [kind |-> "none", station |-> "", mode |-> "", source |-> "",
            primitive |-> "", statement |-> "none"]

Idle     == [state |-> FALSE, refs |-> << >>, lowls |-> << >>, query |-> NoQuery]
IdleDefs == [state |-> FALSE, defs |-> << >>]

Init ==
    /\ def_walk = [k \in Kinds |-> IdleDefs]
    /\ ref_walk = [w \in Sections |-> Idle]
    /\ all_walk = [state |-> 0, query |-> NoQuery]
    /\ source_walk = Idle
    /\ save_ptr = NULL /\ save_type = "none"
    /\ part = 1 /\ phase = "first" /\ calls = 0
    /\ cout = [k \in Kinds |-> NULL] /\ names = [k \in Kinds |-> << >>]
    /\ asked = NoQuery

-----------------------------------------------------------------------------
(* Variant: the walk does not step behind what it found. *)
GoneThroughHere(defs) ==
    LET here == FindNextDef(defs)
    IN  [walk  |-> [state |-> here # << >>, defs |-> here],
         found |-> IF here = << >> THEN NULL
                   ELSE [statement |-> "def", item |-> <<Head(here).name>>]]

(* get_station_def, get_mode_def, get_source_def: the place, the name.     *)
GoneThrough(defs) ==
    LET here == FindNextDef(defs)
    IN  [walk  |-> [state |-> here # << >>, defs |-> Behind(here)],
         found |-> IF here = << >> THEN NULL
                   ELSE [statement |-> "def", item |-> <<Head(here).name>>]]

GetDef(k, first) ==
    IF first THEN GoneThrough(Items(FindBlock(k, Vex)))
    ELSE IF def_walk[k].state THEN GoneThrough(def_walk[k].defs)
    ELSE [walk |-> def_walk[k], found |-> NULL]

GetStationDef(first) == GetDef("STATION", first)
GetModeDef(first)    == GetDef("MODE", first)
GetSourceDef(first)  == GetDef("SOURCE", first)

-----------------------------------------------------------------------------
(* A reference applies to the query: it names the primitive block and, in  *)
(* $MODE, the query's station, if it names any.  Comment lines, which the  *)
(* grammar admits among references and vex_get.c reads as one, are left    *)
(* out.                                                                    *)
Applies(w, query, ref) ==
    /\ ref.primitive = query.primitive
    /\ \/ w # "MODE"
       \/ ref.qualifiers = << >>
       \/ \E i \in DOMAIN ref.qualifiers : ref.qualifiers[i] = query.station

Referred(query, ref) ==
    Lines(FindDef(Items(FindBlock(query.primitive, Vex)), ref.name))

(* From the place a walk has come to: the rest of the definition it stands *)
(* in, then the definitions of the references after it.                    *)
Searched(w, walk, i) ==
    IF i = 1 /\ walk.state THEN walk.lowls
    ELSE IF Applies(w, walk.query, walk.refs[i]) THEN Referred(walk.query, walk.refs[i])
    ELSE << >>

Over(walk) == [walk |-> [walk EXCEPT !.state = FALSE], found |-> NULL]

(* The references from which the walk gets a line. *)
Hits(w, walk) ==
    {i \in DOMAIN walk.refs : FindLowl(Searched(w, walk, i), walk.query.statement) # << >>}

(* Variant: the walk stays on the reference it began with. *)
AdvanceStaying(w, walk) ==
    LET i    == Min(Hits(w, walk))
        here == FindLowl(Searched(w, walk, i), walk.query.statement)
    IN  IF Hits(w, walk) = {} THEN Over(walk)
        ELSE [walk  |-> [walk EXCEPT !.state = TRUE, !.lowls = Tail(here)],
              found |-> Head(here)]

Advance(w, walk) ==
    LET i    == Min(Hits(w, walk))
        here == FindLowl(Searched(w, walk, i), walk.query.statement)
    IN  IF Hits(w, walk) = {} THEN Over(walk)
        ELSE [walk  |-> [walk EXCEPT !.state = TRUE, !.refs = SubSeq(@, i, Len(@)),
                                     !.lowls = Tail(here)],
              found |-> Head(here)]

Begin(w, refs, query) ==
    Advance(w, [state |-> FALSE, refs |-> refs, lowls |-> << >>, query |-> query])

Continue(w) == IF ref_walk[w].state THEN Advance(w, ref_walk[w]) ELSE Over(ref_walk[w])

GetModeLowl(query) ==
    Begin("MODE", Lines(FindDef(Items(FindBlock("MODE", Vex)), query.mode)), query)

GetStationLowl(query) ==
    Begin("STATION", Lines(FindDef(Items(FindBlock("STATION", Vex)), query.station)), query)

GetGlobalLowl(query) == Begin("GLOBAL", Items(FindBlock("GLOBAL", Vex)), query)

FirstLowl(w, query) ==
    CASE w = "MODE"    -> GetModeLowl(query)
      [] w = "STATION" -> GetStationLowl(query)
      [] w = "GLOBAL"  -> GetGlobalLowl(query)

(* get_all_lowl in state s: goes on with the walk it is in, unless it has  *)
(* just begun, and begins those after it until one finds a line.  The new  *)
(* state, the places of the three walks and the line.                      *)
GetAllLowl(s, fresh, query) ==
    LET call == [i \in s .. 3 |-> IF i = s /\ ~fresh THEN Continue(Order[i])
                                  ELSE FirstLowl(Order[i], query)]
        end  == Min({i \in s .. 3 : call[i].found # NULL} \cup {4})
        made == {i \in s .. 3 : i <= end}
    IN  [state |-> end,
         walks |-> [w \in Sections |->
                      IF \E i \in made : Order[i] = w
                      THEN call[CHOOSE i \in made : Order[i] = w].walk ELSE ref_walk[w]],
         found |-> IF end = 4 THEN NULL ELSE call[end].found]

(* get_source_lowl, on the lines of the source or on what is left of them. *)
SourceFrom(lowls, query) ==
    LET here == FindLowl(lowls, query.statement)
    IN  [walk  |-> [state |-> here # << >>, refs |-> << >>, lowls |-> Behind(here),
                    query |-> query],
         found |-> IF here = << >> THEN NULL ELSE Head(here)]

GetSourceLowl(query) ==
    SourceFrom(Lines(FindDef(Items(FindBlock("SOURCE", Vex)), query.source)), query)

-----------------------------------------------------------------------------
(* The names of a part: fget_station_def and its like, and the loops of    *)
(* vstinp.f, vmoinp.f and vsoinp.f over them.  The one over the modes goes *)
(* on when its table is full; the others ask for the next name only after  *)
(* they have stored one.                                                   *)
Kind == Parts[part]

FgetDef(first) ==
    LET r == CASE Kind = "STATION" -> GetStationDef(first)
               [] Kind = "MODE"    -> GetModeDef(first)
               [] Kind = "SOURCE"  -> GetSourceDef(first)
    IN  /\ cout' = [cout EXCEPT ![Kind] = r.found]
        /\ def_walk' = [def_walk EXCEPT ![Kind] = r.walk]

FirstName ==
    /\ part \in DOMAIN Parts /\ phase = "first"
    /\ FgetDef(TRUE)
    /\ phase' = "names"
    /\ UNCHANGED <<ref_walk, all_walk, source_walk, saved, part, names, asked, calls>>

(* Variant: no loop goes on when its table is full. *)
StoreNameStuck ==
    /\ part \in DOMAIN Parts /\ phase = "names" /\ cout[Kind] # NULL
    /\ IF Len(names[Kind]) < MaxNames[Kind]
       THEN names' = [names EXCEPT ![Kind] = Append(@, cout[Kind])] /\ FgetDef(FALSE)
       ELSE UNCHANGED <<names, cout, def_walk>>
    /\ UNCHANGED <<ref_walk, all_walk, source_walk, saved, part, phase, asked, calls>>

StoreName ==
    /\ part \in DOMAIN Parts /\ phase = "names" /\ cout[Kind] # NULL
    /\ IF Len(names[Kind]) < MaxNames[Kind]
       THEN names' = [names EXCEPT ![Kind] = Append(@, cout[Kind])] /\ FgetDef(FALSE)
       ELSE IF Kind = "MODE" THEN FgetDef(FALSE) /\ UNCHANGED names
       ELSE UNCHANGED <<names, cout, def_walk>>
    /\ UNCHANGED <<ref_walk, all_walk, source_walk, saved, part, phase, asked, calls>>

NamesStored ==
    /\ part \in DOMAIN Parts /\ phase = "names" /\ cout[Kind] = NULL
    /\ phase' = "lines"
    /\ UNCHANGED <<walks, saved, part, cout, names, asked, calls>>

-----------------------------------------------------------------------------
(* The lines: fget_all_lowl and its like, first call and next.             *)
Found(r) == save_ptr' = r.found

FgetAllLowl(s, fresh, query) ==
    LET r == GetAllLowl(s, fresh, query)
    IN  /\ all_walk' = [state |-> r.state, query |-> query]
        /\ ref_walk' = r.walks
        /\ Found(r)
        /\ UNCHANGED <<def_walk, source_walk>>

FgetRefLowl(w, r) ==
    /\ ref_walk' = [ref_walk EXCEPT ![w] = r.walk]
    /\ Found(r)
    /\ UNCHANGED <<def_walk, all_walk, source_walk>>

FgetSourceLowl(r) ==
    /\ source_walk' = r.walk
    /\ Found(r)
    /\ UNCHANGED <<def_walk, ref_walk, all_walk>>

FgetFirst(query) ==
    CASE query.kind = "all"     -> FgetAllLowl(1, TRUE, query)
      [] query.kind = "mode"    -> FgetRefLowl("MODE", GetModeLowl(query))
      [] query.kind = "station" -> FgetRefLowl("STATION", GetStationLowl(query))
      [] query.kind = "global"  -> FgetRefLowl("GLOBAL", GetGlobalLowl(query))
      [] query.kind = "source"  -> FgetSourceLowl(GetSourceLowl(query))

FgetNext ==
    CASE asked.kind = "all" ->
            FgetAllLowl(all_walk.state, FALSE, all_walk.query)
      [] asked.kind = "mode"    -> FgetRefLowl("MODE", Continue("MODE"))
      [] asked.kind = "station" -> FgetRefLowl("STATION", Continue("STATION"))
      [] asked.kind = "global"  -> FgetRefLowl("GLOBAL", Continue("GLOBAL"))
      [] asked.kind = "source"  ->
            FgetSourceLowl(IF source_walk.state
                           THEN SourceFrom(source_walk.lowls, source_walk.query)
                           ELSE Over(source_walk))

CallForLines ==
    /\ part \in DOMAIN Parts /\ phase = "lines" /\ calls < MaxCalls
    /\ calls' = calls + 1
    /\ UNCHANGED <<part, phase, cout, names>>

(* Variant: only fget_all_lowl sets the type. *)
AskLinesUntyped(query) ==
    /\ CallForLines
    /\ FgetFirst(query)
    /\ save_type' = IF query.kind = "all" THEN query.statement ELSE save_type
    /\ asked' = query

AskLines(query) ==
    /\ CallForLines
    /\ FgetFirst(query)
    /\ save_type' = query.statement
    /\ asked' = query

MoreLines ==
    /\ CallForLines /\ asked # NoQuery
    /\ FgetNext
    /\ UNCHANGED <<save_type, asked>>

(* fget_literal takes one text of the statement found; with the last it    *)
(* asks for the next statement.                                            *)
FgetLiteral ==
    /\ CallForLines /\ asked # NoQuery
    /\ asked.kind = "all" /\ asked.statement = "literal" /\ save_ptr # NULL
    /\ IF Len(save_ptr.item) > 1
       THEN /\ save_ptr' = [statement |-> save_ptr.statement, item |-> Tail(save_ptr.item)]
            /\ UNCHANGED walks
       ELSE FgetNext
    /\ UNCHANGED <<save_type, asked>>

NextPart ==
    /\ part \in DOMAIN Parts /\ phase = "lines"
    /\ part' = part + 1 /\ phase' = "first"
    /\ UNCHANGED <<walks, saved, cout, names, asked, calls>>

Next ==
    \/ FirstName \/ StoreName \/ NamesStored
    \/ \E query \in Queries : AskLines(query)
    \/ MoreLines \/ FgetLiteral
    \/ NextPart

(* The program is sequential: a loop over names goes on while it has a     *)
(* name, and the caller has a next thing to do when it has its lines.      *)
Fairness ==
    /\ WF_vars(FirstName) /\ WF_vars(StoreName) /\ WF_vars(NamesStored)
    /\ WF_vars(NextPart)

Spec == Init /\ [][Next]_vars /\ Fairness

-----------------------------------------------------------------------------
(***************************************************************************)
(* Properties.                                                             *)
(***************************************************************************)
TypeOK ==
    /\ part \in 1 .. Len(Parts) + 1 /\ phase \in {"first", "names", "lines"}
    /\ calls \in 0 .. MaxCalls
    /\ \A k \in Kinds : def_walk[k].state \in BOOLEAN
    /\ \A w \in Sections :
          ref_walk[w].state \in BOOLEAN /\ (ref_walk[w].state => ref_walk[w].refs # << >>)
    /\ all_walk.state \in 0 .. 4 /\ source_walk.state \in BOOLEAN
    /\ asked \in Queries \cup {NoQuery}

(* fvex_field reads save_ptr as the struct of save_type, which next calls  *)
(* and fget_literal leave alone (it refuses when either is not set).       *)
Readable == save_type # "none" /\ save_ptr # NULL

FieldsFit == Readable => save_ptr.statement = save_type

(* The file by the names of its blocks and of the definitions in them: the *)
(* first of a name counts.                                                 *)
Blocks ==
    [block \in {Vex[i].block : i \in DOMAIN Vex} |->
        Vex[Min({i \in DOMAIN Vex : Vex[i].block = block})].items]

Bodies ==
    [block \in DOMAIN Blocks |->
        LET defs == {i \in DOMAIN Blocks[block] : Blocks[block][i].statement = "def"}
        IN  [name \in {Blocks[block][i].name : i \in defs} |->
                Blocks[block][Min({i \in defs : Blocks[block][i].name = name})].refs]]

Block(block) == IF block \in DOMAIN Blocks THEN Blocks[block] ELSE << >>

Body(block, name) ==
    IF block \in DOMAIN Bodies /\ name \in DOMAIN Bodies[block] THEN Bodies[block][name]
    ELSE << >>

NamesOf(defs) == [i \in DOMAIN defs |-> [statement |-> "def", item |-> <<defs[i].name>>]]

Defined(k) == NamesOf(Of(Block(k), "def"))

(* The names stored are those of the file, in its order and none twice;    *)
(* what the tables do not hold is at the end.                              *)
NamesStoredAll ==
    \A k \in Kinds :
        /\ IsPrefix(names[k], Defined(k))
        /\ k \in {Parts[p] : p \in 1 .. part - 1}
             => Len(names[k]) = MaxNames[k] \/ names[k] = Defined(k)

(* The lines a query is about, read off the file. *)
HeldBy(w, refs, query) ==
    FlattenSeq([i \in DOMAIN refs |->
        IF Applies(w, query, refs[i])
        THEN Of(Body(query.primitive, refs[i].name), query.statement) ELSE << >>])

Held(w, query) ==
    HeldBy(w, CASE w = "MODE"    -> Body("MODE", query.mode)
                [] w = "STATION" -> Body("STATION", query.station)
                [] w = "GLOBAL"  -> Block("GLOBAL"),
           query)

HeldFrom(i, query) ==
    FlattenSeq([j \in 1 .. 3 |-> IF j >= i THEN Held(Order[j], query) ELSE << >>])

LinesFor(query) ==
    CASE query.kind = "all"     -> HeldFrom(1, query)
      [] query.kind = "mode"    -> Held("MODE", query)
      [] query.kind = "station" -> Held("STATION", query)
      [] query.kind = "global"  -> Held("GLOBAL", query)
      [] query.kind = "source"  -> Of(Body("SOURCE", query.source), query.statement)

(* What the places of the walks leave to come. *)
Left(w) ==
    LET walk == ref_walk[w]
    IN  IF ~walk.state THEN << >>
        ELSE Of(walk.lowls, walk.query.statement)
             \o HeldBy(w, Tail(walk.refs), walk.query)

LeftOfLines ==
    CASE asked.kind = "none" -> << >>
      [] asked.kind = "all" ->
            IF all_walk.state \in {0, 4} THEN << >>
            ELSE Left(Order[all_walk.state]) \o HeldFrom(all_walk.state + 1, all_walk.query)
      [] asked.kind = "mode"    -> Left("MODE")
      [] asked.kind = "station" -> Left("STATION")
      [] asked.kind = "global"  -> Left("GLOBAL")
      [] asked.kind = "source"  ->
            IF source_walk.state THEN Of(source_walk.lowls, source_walk.query.statement)
            ELSE << >>

LeftOfNames(k) ==
    IF def_walk[k].state THEN NamesOf(Of(def_walk[k].defs, "def")) ELSE << >>

Asking ==
    [q \in {[walk |-> k, query |-> NoQuery] : k \in Kinds}
             \cup {[walk |-> "lines", query |-> query] : query \in Queries} |->
       IF q.walk = "lines" THEN LinesFor(q.query) ELSE Defined(q.walk)]

Todo ==
    [w \in Kinds \cup {"lines"} |-> IF w = "lines" THEN LeftOfLines ELSE LeftOfNames(w)]

Given == [w \in Kinds \cup {"lines"} |-> IF w = "lines" THEN save_ptr ELSE cout[w]]

(* Every walk gives the lines that answer its question, each once and in   *)
(* the order of the file, whatever walk was left unfinished before it.     *)
Promise ==
    INSTANCE VexAnswers WITH
        Walks <- Kinds \cup {"lines"}, Questions <- DOMAIN Asking, Answers <- Asking,
        Nothing <- NULL, todo <- Todo, answer <- Given

WalksAnswer == Promise!Spec

(* As long as no more stations and sources are defined than the tables     *)
(* hold, all parts are read, and every walk comes to its end.              *)
Fits == \A k \in {"STATION", "SOURCE"} : Len(Defined(k)) <= MaxNames[k]

ReadingEnds == Fits => <>(part > Len(Parts))
=============================================================================
