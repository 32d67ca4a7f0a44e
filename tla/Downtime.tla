------------------------------ MODULE Downtime -------------------------------
(***************************************************************************)
(* When a station is down: the list behind DOWNTIME, its way through a new *)
(* selection of stations and through the schedule file, and the commands   *)
(* that ask it: a new scan (newob), FILL and TAGALONG.                     *)
(*                                                                         *)
(* A station is known by its two-letter code; the list holds station       *)
(* numbers, which are places in the list of selected stations.  Time is    *)
(* in whole units; a downtime, like a scan, is a closed interval.          *)
(***************************************************************************)
EXTENDS Integers, Sequences, FiniteSets

CONSTANTS
    Names,          \* two-letter codes in the station catalog
    Blank,          \* the code of a station number that is not in use
    Intervals,      \* the intervals a user may type
    Starts,         \* start times of scans
    MaxDur,         \* bound on the length of a scan
    Day,            \* 86400 s
    MaxDown         \* MAX_DOWN: entries in the list

ASSUME NamesAreFinite      == IsFiniteSet(Names) /\ Blank \notin Names
ASSUME IntervalsAreNumbers == Intervals \subseteq [beg : Int, end : Int]
ASSUME StartsAreNumbers    == Starts \subseteq Int
ASSUME BoundsAreNumbers    == MaxDur \in Nat \ {0} /\ Day \in Nat \ {0} /\ MaxDown \in Nat \ {0}

VARIABLES
    stations,   \* CPOCOD(1..NSTATN): the selected stations
    down,       \* IDOWN_STAT, MJD/UT_DOWN_BEG, MJD/UT_DOWN_END, 1..NUM_DOWN
    unread,     \* lines of $DOWNTIME that SKOPN has yet to read
    plan,       \* how long each station observes in the scan of each start, 0 not
    did,        \* the last command, where a property asks
    status      \* "ok", or "failed" once a subscript has left its array

vars == <<stations, down, unread, plan, did, status>>

Members(list) == {list[i] : i \in DOMAIN list}

\* The lists of all of S, and those that keep its order.
Lists(S) == {p \in [1..Cardinality(S) -> S] : \A s \in S : \E i \in DOMAIN p : p[i] = s}
Picks(S) == {p \in Lists(S) : \A i, j \in DOMAIN p : i < j => p[i] < p[j]}

Numbers    == 1..Len(stations)
NumberOf(list, n) == CHOOSE s \in DOMAIN list : list[s] = n
Code(s)    == IF s \in Numbers THEN stations[s] ELSE Blank
Entries    == 1..Len(down)
Selections == UNION {Lists(S) : S \in SUBSET Names}
NoScan     == [n \in Names |-> 0]
Observing(scan) == {n \in Names : scan[n] > 0}

Init ==
    /\ stations \in Selections
    /\ down = << >>
    /\ unread = << >>
    /\ plan = [t \in Starts |-> NoScan]
    /\ did = "other"
    /\ status = "ok"

Command == status = "ok" /\ unread = << >>

-----------------------------------------------------------------------------
(***************************************************************************)
(* DOWNTIME subnet begin end.  The first entry of the station that is the  *)
(* same, or that the new interval meets at either end, takes it in; else   *)
(* the interval goes to the end of the list.  The size of the list is not  *)
(* looked at.                                                              *)
(***************************************************************************)
Same(x, y)    == x.beg = y.beg /\ x.end = y.end
Touches(x, y) == Same(x, y) \/ x.beg = y.end \/ x.end = y.beg

\* Variant: the end that meets is the one moved.
MergedOtherEnd(x, y) ==
    IF Same(x, y) THEN x
    ELSE IF x.beg = y.end THEN [x EXCEPT !.end = y.end]
    ELSE [x EXCEPT !.beg = y.beg]

Merged(x, y) ==
    IF Same(x, y) THEN x
    ELSE IF x.beg = y.end THEN [x EXCEPT !.beg = y.beg]
    ELSE [x EXCEPT !.end = y.end]

Matches(s, y) == {i \in Entries : down[i].sta = s /\ Touches(down[i], y)}

\* S are station numbers, new[1], new[2], ... those that have no match.
Added(S, y, new) ==
    [i \in Entries |->
        IF /\ down[i].sta \in S /\ Touches(down[i], y)
           /\ \A j \in Matches(down[i].sta, y) : i <= j
        THEN Merged(down[i], y) ELSE down[i]]
    \o [k \in DOMAIN new |-> [sta |-> new[k], beg |-> y.beg, end |-> y.end]]

Add(S, y) ==
    LET without == {s \in S : Matches(s, y) = {}}
    IN  \/ /\ Len(down) + Cardinality(without) <= MaxDown
           /\ \E new \in Lists(without) : down' = Added(S, y, new)
           /\ UNCHANGED status
        \/ /\ Len(down) + Cardinality(without) > MaxDown
           /\ status' = "failed"
           /\ UNCHANGED down

Set(S, y) ==
    /\ Command
    /\ Add(S, y)
    /\ did' = "other"
    /\ UNCHANGED <<stations, unread, plan>>

(***************************************************************************)
(* The removing forms set IDOWN_STAT to zero, and clean_up_down_list       *)
(* closes the list up.                                                     *)
(***************************************************************************)
Keep(K) == \E pick \in Picks(K) : down' = [k \in DOMAIN pick |-> down[pick[k]]]

\* DOWNTIME subnet begin end OFF
RemoveOne(S, y) ==
    /\ Command
    /\ Keep({i \in Entries : ~(down[i].sta \in S /\ Same(down[i], y))})
    /\ did' = "other"
    /\ UNCHANGED <<stations, unread, plan, status>>

\* DOWNTIME subnet OFF
RemoveAll(S) ==
    /\ Command
    /\ Keep({i \in Entries : down[i].sta \notin S})
    /\ did' = "drop"
    /\ UNCHANGED <<stations, unread, plan, status>>

\* DOWNTIME OFF jumps over the list of stations: NUM_SUB and ISTN_TMP hold what
\* the stack held.
Off ==
    /\ Command
    /\ \/ \E S \in SUBSET Numbers : Keep({i \in Entries : down[i].sta \notin S})
          /\ UNCHANGED status
       \/ down # << >> /\ status' = "failed" /\ UNCHANGED down
    /\ did' = "off"
    /\ UNCHANGED <<stations, unread, plan>>

-----------------------------------------------------------------------------
(***************************************************************************)
(* stsel: the downtimes are saved by code and come back with the numbers   *)
(* of the new list, unless that is empty.  (Stations that have scans stay  *)
(* selected.)                                                              *)
(***************************************************************************)
\* Variant: the station keeps its number.
RenumberedNot(x, list) == x

Renumbered(x, list) == [x EXCEPT !.sta = NumberOf(list, Code(x.sta))]

Select(list) ==
    /\ Command
    /\ \A t \in Starts : Observing(plan[t]) \subseteq Members(list)
    /\ stations' = list
    /\ IF list = << >> THEN UNCHANGED down
       ELSE \E pick \in Picks({i \in Entries : Code(down[i].sta) \in Members(list)}) :
                down' = [k \in DOMAIN pick |-> Renumbered(down[pick[k]], list)]
    /\ did' = "other"
    /\ UNCHANGED <<unread, plan, status>>

(***************************************************************************)
(* downtime_out writes one line for each interval, with all its stations;  *)
(* SKINI empties the list and SKOPN gives the lines to DOWNTIME one by one.*)
(***************************************************************************)
Heads   == {i \in Entries : \A j \in 1..(i - 1) : ~Same(down[i], down[j])}

\* Variant: the first station of each line only.
LineOfOne(i) == [beg |-> down[i].beg, end |-> down[i].end, sta |-> {down[i].sta}]

Line(i) == [beg |-> down[i].beg, end |-> down[i].end,
            sta |-> {down[j].sta : j \in {k \in Entries : Same(down[k], down[i])}}]

Reopen ==
    /\ Command
    /\ stations # << >>
    /\ \E pick \in Picks(Heads) : unread' = [k \in DOMAIN pick |-> Line(pick[k])]
    /\ down' = << >>
    /\ did' = "other"
    /\ UNCHANGED <<stations, plan, status>>

ReadLine ==
    /\ status = "ok"
    /\ unread # << >>
    /\ Add(Head(unread).sta, Head(unread))
    /\ unread' = IF status' = "ok" THEN Tail(unread) ELSE unread
    /\ did' = "other"
    /\ UNCHANGED <<stations, plan>>

-----------------------------------------------------------------------------
(***************************************************************************)
(* Asking.  kstatup: station s is up from t for d; itime_to_down: how long *)
(* from t to its next downtime.                                            *)
(***************************************************************************)
\* Variant: a downtime inside the scan is not looked for.
MeetsEnds(x, t, d) ==
    \/ t >= x.beg /\ t <= x.end
    \/ t + d >= x.beg /\ t + d <= x.end

Meets(x, t, d) ==
    \/ t >= x.beg /\ t <= x.end
    \/ t + d >= x.beg /\ t + d <= x.end
    \/ t <= x.beg /\ t + d >= x.end

Kstatup(s, t, d) == \A i \in Entries : down[i].sta = s => ~Meets(down[i], t, d)

Ahead(t, s) == {down[i].beg - t : i \in {k \in Entries : down[k].sta = s /\ down[k].beg >= t}}

\* Variant: the last downtime in the list instead of the nearest.
TimeToLastDown(t, s) ==
    CHOOSE m \in {Day} \cup Ahead(t, s) :
        (Ahead(t, s) # {} => m \in Ahead(t, s)) /\ \A x \in Ahead(t, s) : x <= m

ItimeToDown(t, s) ==
    CHOOSE m \in {Day} \cup Ahead(t, s) : m <= Day /\ \A x \in Ahead(t, s) : m <= x

(***************************************************************************)
(* newob, in the end: a scan of at least two stations, each up for as long *)
(* as it observes.                                                         *)
(***************************************************************************)
Schedule(t, scan) ==
    /\ Command
    /\ plan[t] = NoScan
    /\ Cardinality(Observing(scan)) >= 2
    /\ Observing(scan) \subseteq Members(stations)
    /\ \A n \in Observing(scan) : Kstatup(NumberOf(stations, n), t, scan[n])
    /\ plan' = [plan EXCEPT ![t] = scan]
    /\ did' = "scan"
    /\ UNCHANGED <<stations, down, unread, status>>

(***************************************************************************)
(* FILL, for one scan: its stations observe longer, to the next downtime   *)
(* at most, and none is left to observe alone at the end.                  *)
(***************************************************************************)
Longest(scan)      == {n \in Names : \A o \in Names : scan[o] <= scan[n]}
RunnersUp(scan, n) == {o \in Names \ {n} : \A p \in Names \ {n} : scan[p] <= scan[o]}

Fill(t, scan) ==
    /\ Command
    /\ Observing(plan[t]) # {}
    /\ Observing(scan) = Observing(plan[t])
    /\ Observing(scan) \subseteq Members(stations)
    /\ \A n \in Observing(scan) :
          \/ scan[n] = plan[t][n]
          \/ scan[n] > plan[t][n] /\ scan[n] <= ItimeToDown(t, NumberOf(stations, n))
    /\ \E n \in Longest(scan) : \E o \in RunnersUp(scan, n) :
          plan' = [plan EXCEPT ![t] = [scan EXCEPT ![n] = scan[o]]]
    /\ did' = "fill"
    /\ UNCHANGED <<stations, down, unread, status>>

(***************************************************************************)
(* TAGALONG n.  chcmd asks kstatup about ISTAT, which holds anything until *)
(* the first scan that gets that far sets it to n, and for the duration of *)
(* the scan's first station.  T are the scans that take n in, T[t] for how *)
(* long: never longer than the others.                                     *)
(***************************************************************************)
TagAlong(n, first, T) ==
    /\ Command
    /\ n \in Members(stations)
    /\ \A t \in DOMAIN T :
          /\ first <= t
          /\ Observing(plan[t]) # {} /\ plan[t][n] = 0
          /\ \E longest \in Observing(plan[t]) : T[t] <= plan[t][longest]
          /\ \E lead \in Observing(plan[t]) :
                IF t = first
                  THEN \E istat \in 0..Len(stations) : Kstatup(istat, t, plan[t][lead])
                  ELSE Kstatup(NumberOf(stations, n), t, plan[t][lead])
    /\ plan' = [t \in Starts |->
                  IF t \in DOMAIN T THEN [plan[t] EXCEPT ![n] = T[t]] ELSE plan[t]]
    /\ did' = "tag"
    /\ UNCHANGED <<stations, down, unread, status>>

Next ==
    \/ \E S \in SUBSET Numbers \ {{}} :
          \/ \E y \in Intervals : Set(S, y) \/ RemoveOne(S, y)
          \/ RemoveAll(S)
    \/ Off
    \/ \E list \in Selections : Select(list)
    \/ Reopen
    \/ ReadLine
    \/ \E t \in Starts, scan \in [Names -> 0..MaxDur] : Schedule(t, scan) \/ Fill(t, scan)
    \/ \E n \in Names, first \in Starts, D \in SUBSET Starts \ {{}} :
          \E T \in [D -> 1..MaxDur] : TagAlong(n, first, T)

Spec == Init /\ [][Next]_vars

-----------------------------------------------------------------------------
Downtimes == [sta : Nat, beg : Int, end : Int]
Lines     == [sta : SUBSET Nat, beg : Int, end : Int]

\* The variables keep their types; a session that has not failed has at most
\* MAX_DOWN downtimes, each of a station number in use while any is selected.
TypeOK ==
    /\ stations \in Selections
    /\ down \in Seq(Downtimes) /\ Len(down) <= MaxDown
    /\ unread \in Seq(Lines)
    /\ plan \in [Starts -> [Names -> 0..MaxDur]]
    /\ did \in {"other", "drop", "off", "scan", "fill", "tag"}
    /\ status \in {"ok", "failed"}
    /\ stations # << >> => \A i \in Entries : down[i].sta \in Numbers
    /\ \A k \in DOMAIN unread : unread[k].sta \subseteq Numbers

\* kstatup says "up" exactly when the scan and the downtimes of the station have
\* no moment in common, whatever the list has grown into.
UpIsClear ==
    \A s \in Numbers, t \in Starts, d \in 1..MaxDur :
        Kstatup(s, t, d) <=>
            \A i \in Entries : down[i].sta = s =>
                (t .. t + d) \cap (down[i].beg .. down[i].end) = {}

\* Station n has a downtime that a scan from t for d runs into.
RunsInto(n, t, d) ==
    d > 0 /\ \E i \in Entries : Code(down[i].sta) = n /\ t < down[i].end /\ down[i].beg < t + d

\* Neither a new scan nor FILL takes a station into a downtime that its scan
\* was clear of.  (FILL may go as far as the beginning of one.)  TAGALONG does,
\* but only in the first of the scans it takes the station into, or in one that
\* another of its stations leaves earlier.
ScansStayClear ==
    [][\A t \in Starts, n \in Names :
         RunsInto(n, t, plan'[t][n]) =>
           /\ did' \in {"scan", "fill"} => RunsInto(n, t, plan[t][n])
           /\ did' = "tag" /\ plan[t][n] = 0 =>
                \/ \A u \in Starts : plan'[u] # plan[u] => t <= u
                \/ \E lead \in Observing(plan[t]) : plan[t][lead] < plan'[t][n]]_vars

\* The moments each station is down, by name: those of the list and, while a
\* schedule is read, of the lines to come.
Blocked ==
    [n \in Names |->
        (UNION {down[i].beg .. down[i].end : i \in {j \in Entries : Code(down[j].sta) = n}})
        \cup (UNION {unread[k].beg .. unread[k].end :
                       k \in {l \in DOMAIN unread : \E s \in unread[l].sta : Code(s) = n}})]

Promise == INSTANCE Availability WITH
    blocked <- Blocked, selected <- Members(stations), dropping <- did \in {"drop", "off"}

\* Merging intervals, renumbering the stations of a new selection, and writing
\* the list to a schedule and reading it back leave every station down when its
\* user said, and at no other time.
DowntimesHold == Promise!Spec
=============================================================================
