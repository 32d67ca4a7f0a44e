------------------------------ MODULE ScanStore ------------------------------
(***************************************************************************)
(* The schedule in memory: the table of scan records, the index that puts  *)
(* them in order, the cursor, the CUR variables ("the current              *)
(* observation"), and every command that edits or walks them.              *)
(*                                                                         *)
(* A scan is [t, src, sta]: start time, source and the stations in the     *)
(* order of its record.  A source is its rank in name order, which is what *)
(* obs_sort compares.  Everything else of a record is the same for every   *)
(* property here and is left out; a scan lasts at least one unit of time.  *)
(***************************************************************************)
EXTENDS Integers, Sequences, FiniteSets

CONSTANTS
    Stations,       \* the selected stations
    Sources,        \* the selected sources, numbered from 1 in name order
    Subnets,        \* the station lists a scan may have
    StartTime,      \* nominal start of the experiment
    LastTime,       \* latest start of a scan
    MaxObs,         \* MAX_OBS: records in cskobs, entries in iskrec
    Files,          \* the scan lists a schedule file may hold
    VexFile,        \* the files are VEX files (else .skd files)
    Edits,          \* the scans that MODIFY is given
    Counts,         \* the numbers typed after NEXT, PREVIOUS and BACK
    MaxPlace        \* bound: PREVIOUS takes the cursor no farther than this

Members(list) == {list[i] : i \in DOMAIN list}

Times    == StartTime..LastTime
Instants == (StartTime - 1)..(LastTime + 1)  \* times a user may type: "^" to "*"
Scan     == [t : Times, src : Sources, sta : Subnets]

\* NSORCUR of a station that has no source: never scheduled, or rewound.
Unscheduled == 0
Rewound     == -1
NoScan      == [t |-> StartTime, src |-> Unscheduled, sta |-> << >>]

(***************************************************************************)
(* obs_sort on the first n scans of s: order[k] is the place the k-th scan *)
(* comes from.  Records equal in time and source change places.            *)
(***************************************************************************)
Precedes(s, i, j) ==
    \/ s[i].t < s[j].t
    \/ s[i].t = s[j].t /\ s[i].src < s[j].src
    \/ s[i].t = s[j].t /\ s[i].src = s[j].src /\ i > j

SortOrders(s, n) ==
    {order \in [1..n -> 1..n] :
        \A i, j \in 1..n : i < j => Precedes(s, order[i], order[j])}

\* Variant: the sorted order is not copied back.
ReorderNothing(s, order) == [k \in 1..Len(s) |-> s[k]]

Reorder(s, order) ==
    [k \in 1..Len(s) |-> IF k \in DOMAIN order THEN s[order[k]] ELSE s[k]]

TimeOrdered(s) == \A i, j \in 1..Len(s) : i < j => s[i].t <= s[j].t

ASSUME SourcesAreRanks  == Sources \subseteq Nat \ {0}
ASSUME SubnetsAreLists  == /\ Subnets \subseteq Seq(Stations)
                           /\ \A list \in Subnets : list # << >>
ASSUME TimesAreIntegers == StartTime \in Int /\ LastTime \in Int /\ StartTime <= LastTime
ASSUME MaxObsIsPositive == MaxObs \in Nat \ {0}
ASSUME FilesFit         == /\ Files \subseteq Seq(Scan)
                           /\ \A f \in Files : Len(f) <= MaxObs
ASSUME VexFileIsBoolean == VexFile \in BOOLEAN
ASSUME EditsAreScans    == Edits \subseteq Scan
ASSUME CountsAreIntegers == Counts \subseteq Int

VARIABLES
    index,      \* iskrec(1..nobs): the records in schedule order
    behind,     \* iskrec(nobs+1..): what deletions have left there; the rest is not set
    rec,        \* cskobs: record number -> scan
    nxtrec,     \* the record the next insertion writes
    ircur,      \* the cursor: place of the current observation in index
    irecgo,     \* place GTOBS is asked to go to, 0 for none
    cur,        \* CUR variables: MJDCUR/UTCUR and NSORCUR by station, ISTCUR
    status      \* "ok", "upset" after an edit with the cursor behind the last
                \* scan, or "failed" once a subscript has left its array

vars  == <<index, behind, rec, nxtrec, ircur, irecgo, cur, status>>
store == <<index, behind, rec, nxtrec>>

nobs      == Len(index)
iskrec    == index \o behind
Sched     == [i \in 1..nobs |-> rec[index[i]]]
Running   == status # "failed"
Sound     == status = "ok"
Instant(c) == c.t[Head(c.sta)]       \* MJDCUR, UTCUR of J = ISTCUR(1)
Source(c)  == c.src[Head(c.sta)]     \* NSORCUR(J)

(***************************************************************************)
(* UNPAK: the scans a..b of s pass through the CUR variables, so that each *)
(* station keeps what its last scan gave it.                               *)
(***************************************************************************)
Unpak(c, x) ==
    [t   |-> [m \in Stations |-> IF m \in Members(x.sta) THEN x.t ELSE c.t[m]],
     src |-> [m \in Stations |-> IF m \in Members(x.sta) THEN x.src ELSE c.src[m]],
     sta |-> x.sta]

LastOf(m, s, a, b) ==
    CHOOSE i \in a..b : /\ m \in Members(s[i].sta)
                        /\ \A j \in (i + 1)..b : m \notin Members(s[j].sta)

UnpakRange(c, s, a, b) ==
    IF a > b THEN c
    ELSE LET Seen(m) == \E i \in a..b : m \in Members(s[i].sta)
             Latest(m) == s[LastOf(m, s, a, b)]
         IN [t   |-> [m \in Stations |-> IF Seen(m) THEN Latest(m).t ELSE c.t[m]],
             src |-> [m \in Stations |-> IF Seen(m) THEN Latest(m).src ELSE c.src[m]],
             sta |-> s[b].sta]

(***************************************************************************)
(* GTOBS on the scans s.  A position p is [at |-> IRCUR, cur, go |->       *)
(* IRECGO]; a range is [st, en, n]: JDSTCM/UTSTCM, JDENCM/UTENCM, NOBSCM.  *)
(* IRCUR may be behind the last scan (PreviousScans).                      *)
(***************************************************************************)
Least(S) == CHOOSE i \in S : \A j \in S : i <= j

RewoundCur(list) == [t   |-> [m \in Stations |-> StartTime],
                     src |-> [m \in Stations |-> Rewound],
                     sta |-> list]

\* Variant: MJDCUR and UTCUR are not reset.
RewindKeepingTimes(p) ==
    [p EXCEPT !.at = 0, !.cur = [RewoundCur(p.cur.sta) EXCEPT !.t = p.cur.t]]

\* Variant: the cursor stays where it is.
RewindStaying(p) == [p EXCEPT !.cur = RewoundCur(p.cur.sta)]

Rewind(p) == [p EXCEPT !.at = 0, !.cur = RewoundCur(p.cur.sta)]

\* Variants: the records passed over are not unpacked; the last one is not.
ReadToJumping(s, p, a, b) ==
    [p EXCEPT !.at = b, !.cur = IF a > b THEN p.cur ELSE Unpak(p.cur, s[b])]
ReadToShort(s, p, a, b)   == [p EXCEPT !.at = b, !.cur = UnpakRange(p.cur, s, a, b - 1)]

ReadTo(s, p, a, b) == [p EXCEPT !.at = b, !.cur = UnpakRange(p.cur, s, a, b)]

\* The record a time lands on, reading on from place a: the first that starts
\* later, or else the last of the schedule.
Landing(s, a, time) == Least({i \in a..Len(s) : s[i].t > time} \cup {Len(s)})

Lesser(a, b)  == IF a < b THEN a ELSE b
Greater(a, b) == IF a > b THEN a ELSE b

\* The first call (KSTART true), on a schedule that has scans.
GtStart(s, p, time, krwnd) ==
    LET back == \/ krwnd
                \/ 0 < p.go /\ p.go < p.at
                \/ p.go = 0 /\ time < Instant(p.cur)
        q    == IF back THEN Rewind(p) ELSE p
        next == Lesser(q.at + 1, Len(s))
    IN  IF p.go > 0
          THEN ReadTo(s, [q EXCEPT !.go = 0], q.at + 1,
                      Greater(q.at, Lesser(p.go, Len(s))))
        ELSE IF time = Instant(q.cur) THEN q       \* "current is resident"
        ELSE ReadTo(s, q, next, Landing(s, next, time))

\* The calls that follow (KSTART false), until one finds nothing; count is
\* IRCNT before them.
GtRest(s, p, range, count) ==
    LET stop == IF p.at >= Len(s) THEN p.at
                ELSE IF range.n > 0 THEN Lesser(Len(s), p.at + range.n - count)
                ELSE IF range.n < 0 THEN Len(s)
                ELSE IF range.en <= Instant(p.cur) THEN p.at
                ELSE Least({i \in (p.at + 1)..Len(s) : s[i].t >= range.en} \cup {Len(s)})
    IN  ReadTo(s, p, p.at + 1, stop)

Position   == [at |-> ircur, cur |-> cur, go |-> irecgo]
MoveTo(p)  == ircur' = p.at /\ cur' = p.cur /\ irecgo' = p.go

\* From behind the last scan a later time is looked for in the entry of the index
\* that is there: one that a deletion has left, or, and that fails, none.
ReadsBehind(p, time) == p.go = 0 /\ p.at > nobs /\ time > Instant(p.cur)
ReadsUnset(p, time)  == ReadsBehind(p, time) /\ p.at > Len(iskrec)

GtFirst(p, time) ==
    IF ReadsBehind(p, time) /\ p.at <= Len(iskrec)
      THEN [p EXCEPT !.cur = Unpak(p.cur, rec[iskrec[p.at]])]
      ELSE GtStart(Sched, p, time, FALSE)

\* LSCUR prints csorna(NSORCUR(J)).  A source that is not there stops a build with
\* bounds checked (set_misc_gfort64); without, what lies in front of csorna is
\* printed; and nothing is, if the stations or the source asked for are others.
Listed(p) == \/ status' = status
             \/ Source(p.cur) \notin Sources /\ status' = "failed"

-----------------------------------------------------------------------------
(***************************************************************************)
(* SKOPN: read a file's scans into records 1, 2, ..., sort all of them,    *)
(* and list the first.  newscan, which reads the scans of a VEX file, does *)
(* not move nxtrec.                                                        *)
(***************************************************************************)
FreshCur == [t   |-> [m \in Stations |-> StartTime],
             src |-> [m \in Stations |-> Unscheduled],
             sta |-> << >>]

Load(f) ==
    /\ rec = [r \in 1..MaxObs |-> IF r \in DOMAIN f THEN f[r] ELSE NoScan]
    /\ \E order \in SortOrders(f, Len(f)) : index = order
    /\ behind = << >>
    /\ nxtrec = IF VexFile THEN 1 ELSE Len(f) + 1
    /\ irecgo = 0
    /\ status = "ok"
    /\ IF f = << >>
         THEN ircur = 0 /\ cur = FreshCur
         ELSE LET first == f[index[1]]
              IN  /\ first.t = StartTime    \* which becomes the nominal start
                  /\ ircur = 1
                  /\ cur = Unpak(RewoundCur(<< >>), first)

Init == \E f \in Files : Load(f)

-----------------------------------------------------------------------------
(***************************************************************************)
(* NEWCM and each scan of NEXTC: newob (or UNPAK of a trial scan) has put  *)
(* the scan x in CUR; PTOBS 'IN'/'AU' inserts it behind the cursor and     *)
(* sorts up to there.  The cursor keeps its place, whatever is sorted      *)
(* into it.                                                                *)
(***************************************************************************)
\* Variant: a station may start two scans at once.
CanStartTogether(x) == \A m \in Members(x.sta) : x.t >= cur.t[m]

CanStart(x) ==      \* no station of x is asked for before it is free
    \A m \in Members(x.sta) :
        x.t > cur.t[m] \/ (x.t = cur.t[m] /\ cur.src[m] \notin Sources)

\* Variant: the entry that is written over stays.
DisplacedNone == behind

Displaced == SubSeq(behind, 2, Len(behind))

Insert(x) ==
    /\ Running
    /\ CanStart(x)
    /\ cur' = Unpak(cur, x)
    /\ \/ /\ nobs >= MaxObs             \* KERR = 30
          /\ UNCHANGED <<store, ircur, irecgo, status>>
       \/ /\ nobs < MaxObs
          /\ nxtrec > MaxObs            \* cskobs(nxtrec) is past the table
          /\ status' = "failed"
          /\ UNCHANGED <<store, ircur, irecgo>>
       \/ /\ nobs < MaxObs
          /\ nxtrec <= MaxObs
          /\ ircur <= nobs
          /\ rec' = [rec EXCEPT ![nxtrec] = x]
          /\ nxtrec' = nxtrec + 1
          /\ ircur' = ircur + 1
          /\ LET grown == SubSeq(index, 1, ircur) \o <<nxtrec>>
                            \o SubSeq(index, ircur + 1, nobs)
                 scans == [i \in 1..(nobs + 1) |-> rec'[grown[i]]]
             IN  \E order \in SortOrders(scans, ircur + 1) :
                    index' = Reorder(grown, order)
          /\ behind' = Displaced
          /\ UNCHANGED <<irecgo, status>>

\* With the cursor behind the last scan nothing is moved to make room, and what is
\* left in the index up to there is sorted into the schedule.
InsertBehind(x) ==
    /\ Running
    /\ CanStart(x)
    /\ nobs < MaxObs
    /\ nxtrec <= MaxObs
    /\ ircur > nobs
    /\ cur' = Unpak(cur, x)
    /\ \/ /\ ircur > Len(iskrec) \/ ircur = MaxObs      \* cskobs(0), iskrec(MaxObs+1)
          /\ status' = "failed"
          /\ UNCHANGED <<store, ircur, irecgo>>
       \/ /\ ircur <= Len(iskrec) /\ ircur < MaxObs
          /\ rec' = [rec EXCEPT ![nxtrec] = x]
          /\ nxtrec' = nxtrec + 1
          /\ ircur' = ircur + 1
          /\ LET grown == SubSeq(iskrec, 1, ircur) \o <<nxtrec>>
                            \o SubSeq(iskrec, ircur + 2, Len(iskrec))
                 scans == [i \in 1..Len(grown) |-> rec'[grown[i]]]
             IN  \E order \in SortOrders(scans, ircur + 1) :
                    LET sorted == Reorder(grown, order)
                    IN  /\ index' = SubSeq(sorted, 1, nobs + 1)
                        /\ behind' = SubSeq(sorted, nobs + 2, Len(sorted))
          /\ status' = "upset"
          /\ UNCHANGED irecgo

(***************************************************************************)
(* MODCU: the user edits the text of the current observation into y; UNPAK *)
(* takes it into CUR and PTOBS 'RE' writes CUR over the record at the      *)
(* cursor.  Nothing is sorted.                                             *)
(***************************************************************************)
Modify(y) ==
    /\ Running
    /\ cur.sta # << >> /\ Source(cur) > 0       \* else "not valid"
    /\ cur' = Unpak(cur, y)
    /\ \/ /\ ircur \in DOMAIN iskrec
          /\ rec' = [rec EXCEPT ![iskrec[ircur]] = y]
          /\ status' = IF ircur <= nobs THEN status ELSE "upset"
          /\ UNCHANGED <<index, behind, nxtrec>>
       \/ /\ ircur \notin DOMAIN iskrec         \* no entry there, or none set
          /\ status' = "failed"
          /\ UNCHANGED store
    /\ UNCHANGED <<ircur, irecgo>>

\* Variant: the CUR variables are not reset.
ClearAllKeepingCur ==
    /\ index' = << >>
    /\ behind' = iskrec
    /\ nxtrec' = 1
    /\ ircur' = 0
    /\ status' = "ok"
    /\ UNCHANGED <<rec, cur>>

\* delete_all_obs.  IRECGO and ISTCUR are left as they are.
ClearAll ==
    /\ index' = << >>
    /\ behind' = iskrec
    /\ nxtrec' = 1
    /\ ircur' = 0
    /\ cur' = [FreshCur EXCEPT !.sta = cur.sta]
    /\ status' = "ok"
    /\ UNCHANGED rec

DeleteAll ==
    /\ Running
    /\ ClearAll
    /\ UNCHANGED irecgo

(***************************************************************************)
(* DELCM.  PTOBS 'DE' takes n entries out of the index from place k on;    *)
(* with k = 0 it takes them from the end, and one too many makes NOBS      *)
(* negative; with k behind the last scan NOBS becomes k - 1.  What stood   *)
(* in the last entries stays behind.  Then the schedule is read again up   *)
(* to the place before.                                                    *)
(***************************************************************************)
\* Variant: the entries behind the block move down, but one too many is kept.
WithoutButLast(k, n) ==
    IF k = 0 THEN SubSeq(index, 1, nobs - n)
    ELSE IF k > nobs THEN SubSeq(iskrec, 1, k - 1)
    ELSE SubSeq(index, 1, k - 1) \o SubSeq(index, k + n, nobs) \o <<index[nobs]>>

Without(k, n) ==
    IF k = 0 THEN SubSeq(index, 1, nobs - n)
    ELSE IF k > nobs THEN SubSeq(iskrec, 1, k - 1)
    ELSE SubSeq(index, 1, k - 1) \o SubSeq(index, k + n, nobs)

Delete(range) ==
    /\ Running
    /\ nobs > 0                                 \* else "No observations in range"
    /\ LET first == GtFirst(Position, range.st)
           ircnt == GtRest(Sched, first, range, 1).at - first.at + 1
           again == GtStart(Sched, first, range.st, TRUE)
           k     == IF range.n > 0 THEN first.at ELSE Greater(again.at, 1)
           n     == IF range.n > 0 THEN range.n ELSE ircnt
           back  == Greater(first.at - 1, 1)
           left  == Without(k, n)
           scans == [i \in 1..Len(left) |-> rec[left[i]]]
           stops == \/ ReadsUnset(Position, range.st)
                    \/ k = 0 /\ n > nobs            \* NOBS = -1
                    \/ k - 1 > Len(iskrec)          \* an entry not set is read
       IN  \/ /\ stops
              /\ status' = "failed"
              /\ UNCHANGED <<store, ircur, irecgo, cur>>
           \/ /\ ~stops
              /\ left # << >>
              /\ index' = left
              /\ behind' = SubSeq(iskrec, Len(left) + 1, Len(iskrec))
              /\ MoveTo(GtStart(scans, [first EXCEPT !.go = back], range.st, TRUE))
              /\ status' = IF k <= nobs + 1 THEN status ELSE "upset"
              /\ UNCHANGED <<rec, nxtrec>>
           \/ /\ ~stops
              /\ left = << >>
              /\ ClearAll
              /\ irecgo' = back

-----------------------------------------------------------------------------
(***************************************************************************)
(* LICMD.  LIST a range ("." is the range that starts at the current       *)
(* time), NEXT n, PREVIOUS n, BACK n.  Any integer is taken for n, and     *)
(* with zero scans to show the last range given ends the listing.          *)
(***************************************************************************)
ListOn(p, range, count) ==
    /\ Listed(p)
    /\ IF status' = "failed" THEN MoveTo(p) ELSE MoveTo(GtRest(Sched, p, range, count))
    /\ UNCHANGED store

List(range) ==
    LET from == [Position EXCEPT !.go = 0]
    IN  /\ Running
        /\ nobs > 0
        /\ \/ /\ ReadsUnset(from, range.st)
              /\ status' = "failed"
              /\ UNCHANGED <<store, ircur, irecgo, cur>>
           \/ /\ ~ReadsUnset(from, range.st)
              /\ ListOn(GtFirst(from, range.st), range, 1)

Count(n, en) == [st |-> StartTime, en |-> en, n |-> n]

NextScans(n, en) ==
    /\ Running
    /\ nobs > 0
    /\ ListOn(GtStart(Sched, [Position EXCEPT !.go = ircur + 1], StartTime, FALSE),
              Count(n, en), 1)

\* JDENCM/UTENCM are those of an earlier command; they count with zero to show.
Endings(n) == IF n \in {-1, 0} THEN Instants ELSE {StartTime}

PlaceBack(n) == Greater(ircur - Lesser(ircur, n), 1)

BackScans(n) ==
    /\ Running
    /\ nobs > 0
    /\ ListOn(GtStart(Sched, [Position EXCEPT !.go = PlaceBack(n)], StartTime, FALSE),
              Count(1, StartTime), 1)

\* GTOBS is called with KSTART false and IRCNT zero.  A negative count takes the
\* cursor on without reading, and behind the last scan it stays there.
PreviousScans(n, en) ==
    /\ Running
    /\ PlaceBack(n) - 1 <= MaxPlace
    /\ LET from == [Position EXCEPT !.at = PlaceBack(n) - 1, !.go = 0]
       IN  MoveTo(GtRest(Sched, from, Count(Lesser(ircur, n) + 1, en), 0))
    /\ UNCHANGED <<store, status>>

\* A source or station that is not known, or no scans to list: IRECGO keeps what
\* LICMD gave it.
ListNothing ==
    /\ Running
    /\ irecgo' \in {0, ircur + 1} \cup {PlaceBack(n) : n \in Counts}
    /\ UNCHANGED <<store, ircur, cur, status>>

(***************************************************************************)
(* WC and its kin: CHSKE unpacks every scan to check it, SKCLS writes the  *)
(* file and asks GTOBS for the place of the current observation, unless    *)
(* output goes to a file.                                                  *)
(***************************************************************************)
WriteContinue ==
    /\ Running
    /\ nobs > 0
    /\ LET checked == [at |-> ircur, go |-> ircur,
                       cur |-> UnpakRange(cur, Sched, 1, nobs)]
       IN  \/ \E time \in Instants :       \* the last range; used if ircur = 0
                 LET to == GtStart(Sched, checked, time, FALSE)
                 IN  Listed(to) /\ MoveTo(to)
           \/ MoveTo([checked EXCEPT !.go = irecgo]) /\ UNCHANGED status
    /\ UNCHANGED store

Ranges == [st : Instants, en : {StartTime - 1}, n : 1..(MaxObs + 1)]
            \cup [st : Instants, en : Instants, n : {0}]

Next ==
    \/ \E x \in Scan : Insert(x) \/ InsertBehind(x)
    \/ \E y \in Edits : Modify(y)
    \/ \E range \in Ranges : Delete(range) \/ List(range)
    \/ \E n \in Counts : \/ BackScans(n)
                         \/ \E en \in Endings(n) : NextScans(n, en) \/ PreviousScans(n, en)
    \/ DeleteAll
    \/ ListNothing
    \/ WriteContinue

Spec == Init /\ [][Next]_vars

-----------------------------------------------------------------------------
(***************************************************************************)
(* Properties.                                                             *)
(***************************************************************************)
CurType == [t   : [Stations -> Times],
            src : [Stations -> Sources \cup {Unscheduled, Rewound}],
            sta : Subnets \cup {<< >>}]

\* The types of the store, the cursor and the CUR variables: in particular the
\* index never outgrows iskrec (skobs.ftni, ptobs.f).
TypeOK ==
    /\ index \in Seq(1..MaxObs)
    /\ behind \in Seq(1..MaxObs)
    /\ nobs + Len(behind) <= MaxObs
    /\ rec \in [1..MaxObs -> Scan \cup {NoScan}]
    /\ nxtrec \in 1..(MaxObs + 1)
    /\ ircur \in Nat
    /\ irecgo \in Nat
    /\ cur \in CurType
    /\ status \in {"ok", "upset", "failed"}

\* No two places of the index share a record, and the record the next insertion
\* writes is past all of them: ptobs.f never recycles a record, and deleting and
\* inserting in any order keeps every scan's text its own, until an edit is made
\* with the cursor behind the last scan.
RecordsDistinct ==
    Sound =>
      /\ \A i, j \in 1..nobs : i # j => index[i] # index[j]
      /\ \A i \in 1..nobs : index[i] < nxtrec /\ rec[index[i]] # NoScan

\* Whatever was done, and wherever the cursor is, CUR holds the source of a scan
\* when there are scans, or else all of it is as a rewind left it: MODIFY, which
\* uses the source as a subscript, sees from one station whether there is a scan.
\* No station has a source when there are no scans.
CursorValid ==
    Running => /\ nobs > 0 => /\ cur.sta # << >>
                              /\ \/ Source(cur) \in Sources
                                 \/ \A m \in Stations : cur.src[m] = Rewound
               /\ nobs = 0 => \A m \in Stations : cur.src[m] = Unscheduled

\* PREVIOUS with a negative count, which licmd.f:80 takes like any other, or from
\* behind the last scan, where one has led.
Strays ==
    \E n \in Counts : \E en \in Endings(n) : (n < 0 \/ ircur > nobs) /\ PreviousScans(n, en)

\* CUR holds the record at the cursor.
CurrentInCur ==
    LET x == rec[index[ircur]]
    IN  cur.sta = x.sta /\ \A m \in Members(x.sta) : cur.t[m] = x.t /\ cur.src[m] = x.src

\* GTOBS: whatever way a listing command moves the cursor, the scan it comes to
\* rest on is the one in CUR, unless PREVIOUS strays.  In front of the first
\* scan, where LIST rests if it shows nothing of the nominal start, none is.
MoveBringsCurrent ==
    [][store' = store /\ ircur' # ircur /\ Running' /\ ircur' \in 1..nobs
         => CurrentInCur' \/ Strays]_vars

\* CUR loses its source only in front of the first scan: the rewound variables of a
\* station are never left in CUR at the place of a scan.
RewoundInFront ==
    [][nobs > 0 /\ nobs' > 0 /\ Source(cur) # Rewound /\ Source(cur)' = Rewound
         => ircur' = 0]_vars

\* "The observations all pass through the CUR variables so that the subnet
\* information is always up to date": the cursor is not behind the last scan, and
\* each station is where its last scan up to the cursor left it, if it has one.
SubnetUpToDate ==
    /\ ircur <= nobs
    /\ \A m \in Stations :
          LET mine == {i \in 1..ircur : m \in Members(Sched[i].sta)}
              last == Sched[CHOOSE i \in mine : \A j \in mine : j <= i]
          IN  IF mine = {} THEN cur.t[m] = StartTime /\ cur.src[m] \notin Sources
              ELSE cur.t[m] = last.t /\ cur.src[m] = last.src

\* DELCM reads the schedule again from the start, so a deletion leaves every
\* station up to date, whatever CUR held before and wherever the cursor was.
DeleteRefreshesSubnets ==
    [][0 < nobs' /\ nobs' < nobs => SubnetUpToDate']_vars

\* The scans of a station follow one another: it is never in two at once.
StationsInOrder ==
    \A i, j \in 1..nobs :
        i < j /\ Members(Sched[i].sta) \cap Members(Sched[j].sta) # {}
            => Sched[i].t < Sched[j].t

\* Every walk, every deletion and every insertion that finds room keeps the
\* stations up to date, even when the sort moves the new scan away from the
\* cursor; only an edit, the check before writing, a failed insertion and PREVIOUS
\* with a negative count do not.
WalkKeepsSubnets ==
    [][Sound /\ SubnetUpToDate /\ StationsInOrder /\ ~SubnetUpToDate'
       => \/ \E y \in Edits : Modify(y)
          \/ WriteContinue
          \/ nobs' = nobs /\ (nobs = MaxObs \/ status' = "failed")
          \/ Strays]_vars

\* A scan that newob accepts at the end of a schedule, with the stations up to
\* date, never overlaps an earlier scan of one of its stations.
AppendNeverOverlaps ==
    [][Sound /\ nobs' > nobs /\ ircur = nobs /\ SubnetUpToDate /\ StationsInOrder
         => StationsInOrder']_vars

(***************************************************************************)
(* What the store is for: the user's list of scans.                        *)
(***************************************************************************)
Promise == INSTANCE Schedule WITH sched <- Sched, at <- ircur, kept <- Sound

\* Records, index and nxtrec together behave as the plain list of scans, which
\* only an edit behind its end, or the end of the program, takes from the user.
KeepsSchedule == Promise!Spec
=============================================================================
