------------------------------- MODULE VexScans -------------------------------
(***************************************************************************)
(* Reading the scans of a VEX file: vobinp.f over the scan walks of vexf.c *)
(* and vex_get.c.                                                          *)
(*                                                                         *)
(* fget_scan walks over the scans.  Within one, fget_station_scan and      *)
(* fget_data_transfer_scan are asked for the nth line of their kind; they  *)
(* remember the last n and the scan it was of, and go on from there when   *)
(* the next n of the same scan is asked for.  vobinp asks for n = 1, 2,    *)
(* ... as often as there are stations, whether lines are left or not, and  *)
(* makes of every scan a record, its stations and its data transfers.      *)
(***************************************************************************)
EXTENDS VexLists, VexNumbers, FiniteSets

CONSTANTS
    Files,      \* the $SCHED blocks that may be read, sequences of scans
    Known,      \* the stations read from $STATION
    Modes,      \* the names of the modes read from $MODE, in order
    Sources,    \* the sources read from $SOURCE
    Recorded,   \* the stations and mode indices with channels: nchan not 0
    MaxObs,     \* max_obs
    MaxStn,     \* max_stn
    MaxXfer     \* a bound on the transfers read, which the code does not have

ASSUME ScansAssumption ==
    /\ \A f \in Files :
          /\ f \in Seq(ToSet(f))
          /\ \A s \in ToSet(f) : s.statement = "scan" => s.refs \in Seq(ToSet(s.refs))
    /\ IsFiniteSet(Known) /\ Cardinality(Known) <= MaxStn
    /\ Recorded \subseteq Known \X DOMAIN Modes
    /\ Modes # << >> /\ MaxStn \in Nat /\ MaxXfer \in Nat /\ MaxObs \in Nat \ {0}
    /\ "" \notin Sources

LineKinds == {"station", "data_transfer"}

NULL == [statement |-> "none"]

VARIABLES
    file,           \* the file read
    scan_walk,      \* get_scan: what is left of the scans
    place,          \* get_station_scan and get_data_transfer_scan, and what
                    \* their fget functions remember
    save_lowls,     \* the lines of the scan in hand
    save_ptr,       \* the line in hand
    stage,          \* of vobinp: "scan", "station", "transfer"; "done", "error"
    n,              \* istn_scan
    scan,           \* name and mode index of the scan in hand
    kfirst_station, kignore_error,
    obs,            \* the records made
    ixfer,          \* the stations of the data transfers, ixfer_stat
    ixfer_beg, ixfer_end    \* the first and last of each record; element 0
                            \* is what stands before the table

session == <<scan_walk, place, save_lowls, save_ptr>>
records == <<obs, ixfer, ixfer_beg, ixfer_end>>
vars    == <<file, session, stage, n, scan, kfirst_station, kignore_error, records>>

nobs   == Len(obs)
nstatn == Cardinality(Known)

Init ==
    /\ file \in Files
    /\ scan_walk = [state |-> FALSE, defs |-> << >>]
    /\ place = [k \in LineKinds |-> [lowls |-> << >>, save_n |-> 0, save2_lowls |-> << >>]]
    /\ save_lowls = << >> /\ save_ptr = NULL
    /\ stage = "scan" /\ n = 0 /\ scan = [name |-> "", icod |-> 0]
    /\ kfirst_station = TRUE /\ kignore_error = FALSE
    /\ obs = << >> /\ ixfer = << >>
    /\ ixfer_beg = [i \in 0 .. MaxObs |-> 0] /\ ixfer_end = [i \in 0 .. MaxObs |-> 0]

-----------------------------------------------------------------------------
(* Variant: every call is the first. *)
GetScanAnew(first) == FindNextScan(file)

(* get_scan, first call and next. *)
GetScan(first) ==
    FindNextScan(IF first THEN file ELSE IF scan_walk.state THEN scan_walk.defs ELSE << >>)

(* get_station_scan and get_data_transfer_scan: on from lowls. *)
GetLine(k, lowls) ==
    LET here == FindLowl(lowls, k)
    IN  [lowls |-> Behind(here), found |-> IF here = << >> THEN NULL ELSE Head(here)]

(* Variant: n more calls. *)
NthFromPast(k, lowls) ==
    LET call[i \in 0 .. n] ==
            IF i = 0 THEN GetLine(k, lowls)
            ELSE IF call[i - 1].found = NULL THEN call[i - 1]
            ELSE GetLine(k, call[i - 1].lowls)
    IN  call[n]

(* fget_station_scan and fget_data_transfer_scan when they begin anew: one *)
(* call and up to n - 1 more.                                              *)
NthFrom(k, lowls) ==
    LET call[i \in 1 .. n] ==
            IF i = 1 THEN GetLine(k, lowls)
            ELSE IF call[i - 1].found = NULL THEN call[i - 1]
            ELSE GetLine(k, call[i - 1].lowls)
    IN  call[n]

GoesOn(k) ==
    n # 1 /\ n = place[k].save_n + 1 /\ save_lowls = place[k].save2_lowls

FgetNth(k) ==
    LET from == IF save_lowls # << >> THEN save_lowls ELSE place[k].lowls
        r    == IF GoesOn(k) THEN GetLine(k, place[k].lowls) ELSE NthFrom(k, from)
    IN  /\ save_ptr' = r.found
        /\ place' = [place EXCEPT ![k] =
              [lowls       |-> r.lowls,
               save_n      |-> IF r.found = NULL THEN @.save_n ELSE n,
               save2_lowls |-> IF GoesOn(k) THEN @.save2_lowls ELSE save_lowls]]

-----------------------------------------------------------------------------
(* ivgtmo: a name that is not in the table has the index of the last. *)
Ivgtmo(mode) ==
    IF \E i \in DOMAIN Modes : Modes[i] = mode
    THEN CHOOSE i \in DOMAIN Modes : Modes[i] = mode ELSE Len(Modes)

(* get_scan_source for the first source, and what fvex_scan_source gives. *)
GetScanSource == FindLowl(save_lowls', "source")

ScanSource == IF GetScanSource = << >> THEN "" ELSE Head(GetScanSource).key

(* fget_scan: the walk stands behind the scan, its lines are in hand. *)
FgetScan(here) ==
    /\ scan_walk' = [state |-> here # << >>, defs |-> Behind(here)]
    /\ save_lowls' = Lines(here)

(* A scan, with the file named anew while no record is made.  One that has *)
(* a start; a scan without any line, which ends the reading, is left out.  *)
NextScan ==
    /\ stage = "scan"
    /\ LET here == GetScan(nobs = 0)
       IN  /\ FgetScan(here)
           /\ IF here = << >>
              THEN stage' = "done" /\ UNCHANGED <<scan, n, kfirst_station>>
              ELSE IF FvexDate(Head(here).start) # 0 \/ ScanSource \notin Sources
              THEN stage' = "error" /\ UNCHANGED <<scan, n, kfirst_station>>
              ELSE /\ stage' = "station" /\ n' = 1 /\ kfirst_station' = TRUE
                   /\ scan' = [name |-> Head(here).name, icod |-> Ivgtmo(Head(here).mode)]
    /\ UNCHANGED <<file, place, save_ptr, kignore_error, records>>

(* Variant: the first station goes into the record in hand, if there is    *)
(* one.                                                                    *)
StoredAdding(key) ==
    IF nobs > 0 THEN [obs EXCEPT ![nobs].stations = Append(@, key)]
    ELSE <<[name |-> scan.name, icod |-> scan.icod, stations |-> <<key>>]>>

(* Variant: every station is the first. *)
StoredAnew(key) ==
    IF nobs < MaxObs
    THEN Append(obs, [name |-> scan.name, icod |-> scan.icod, stations |-> <<key>>])
    ELSE [obs EXCEPT ![nobs].name = scan.name]

(* newscan for the first station that is known, addscan for the others.    *)
(* When newscan has no room, vobinp still names the last record after this *)
(* scan, and addscan puts the other stations there.                        *)
Stored(key) ==
    IF ~kfirst_station THEN [obs EXCEPT ![nobs].stations = Append(@, key)]
    ELSE IF nobs < MaxObs
    THEN Append(obs, [name |-> scan.name, icod |-> scan.icod, stations |-> <<key>>])
    ELSE [obs EXCEPT ![nobs].name = scan.name]

GoodStation(line) ==
    /\ <<line.key, scan.icod>> \in Recorded
    /\ FvexDouble(line.begin) = 0 /\ FvexDouble(line.end) = 0
    /\ FvexInt(line.drive) = 0 /\ line.drive.text # "negative"

(* One turn of the loop over the stations, with a line for this n. *)
StationLine ==
    /\ stage = "station" /\ n <= nstatn
    /\ FgetNth("station")
    /\ save_ptr' # NULL
    /\ \/ /\ save_ptr'.key \notin Known         \* ignored, now or for good
          /\ kignore_error' = TRUE
          /\ n' = n + 1
          /\ UNCHANGED <<stage, kfirst_station, obs>>
       \/ /\ save_ptr'.key \notin Known         \* "Ignore this error?" No
          /\ ~kignore_error
          /\ stage' = "error"
          /\ UNCHANGED <<n, kfirst_station, kignore_error, obs>>
       \/ /\ save_ptr'.key \in Known /\ GoodStation(save_ptr')
          /\ obs' = Stored(save_ptr'.key)
          /\ kfirst_station' = FALSE
          /\ n' = n + 1
          /\ UNCHANGED <<stage, kignore_error>>
       \/ /\ save_ptr'.key \in Known /\ ~GoodStation(save_ptr')
          /\ stage' = "error"
          /\ UNCHANGED <<n, kfirst_station, kignore_error, obs>>
    /\ UNCHANGED <<file, scan_walk, save_lowls, scan, ixfer, ixfer_beg, ixfer_end>>

(* The loop goes on when no line is left. *)
NoStationLine ==
    /\ stage = "station" /\ n <= nstatn
    /\ FgetNth("station")
    /\ save_ptr' = NULL
    /\ n' = n + 1
    /\ UNCHANGED <<file, scan_walk, save_lowls, stage, scan, kfirst_station,
                   kignore_error, records>>

StationsRead ==
    /\ stage = "station" /\ n > nstatn
    /\ ixfer_beg' = [ixfer_beg EXCEPT ![nobs] = Len(ixfer) + 1]
    /\ stage' = "transfer" /\ n' = 1
    /\ UNCHANGED <<file, session, scan, kfirst_station, kignore_error, obs, ixfer, ixfer_end>>

TransferLine ==
    /\ stage = "transfer" /\ n <= MaxStn /\ Len(ixfer) < MaxXfer
    /\ FgetNth("data_transfer")
    /\ save_ptr' # NULL
    /\ IF save_ptr'.key \in Known /\ save_ptr'.method \in {"in2net", "disk2file"}
       THEN ixfer' = Append(ixfer, save_ptr'.key) /\ n' = n + 1 /\ UNCHANGED stage
       ELSE stage' = "error" /\ UNCHANGED <<ixfer, n>>
    /\ UNCHANGED <<file, scan_walk, save_lowls, scan, kfirst_station, kignore_error, obs,
                   ixfer_beg, ixfer_end>>

RangeSet ==
    IF Len(ixfer) < ixfer_beg[nobs]
    THEN ixfer_beg' = [ixfer_beg EXCEPT ![nobs] = 0] /\ UNCHANGED ixfer_end
    ELSE ixfer_end' = [ixfer_end EXCEPT ![nobs] = Len(ixfer)] /\ UNCHANGED ixfer_beg

TransfersRead ==
    /\ stage = "transfer"
    /\ IF n <= MaxStn THEN FgetNth("data_transfer") /\ save_ptr' = NULL
       ELSE UNCHANGED <<place, save_ptr>>
    /\ RangeSet
    /\ stage' = "scan"
    /\ UNCHANGED <<file, scan_walk, save_lowls, n, scan, kfirst_station, kignore_error,
                   obs, ixfer>>

Next ==
    \/ NextScan \/ StationLine \/ NoStationLine \/ StationsRead
    \/ TransferLine \/ TransfersRead

(* One sequential loop, which waits for nobody but an answer. *)
Spec == Init /\ [][Next]_vars /\ WF_vars(Next)

-----------------------------------------------------------------------------
(***************************************************************************)
(* Properties.                                                             *)
(***************************************************************************)
Scans == Of(file, "scan")

Keys(lines) == [i \in DOMAIN lines |-> lines[i].key]

KnownIn(lines) ==
    FlattenSeq([i \in DOMAIN lines |->
        IF lines[i].key \in Known THEN <<lines[i].key>> ELSE << >>])

KnownOf(s) == KnownIn(Of(s.refs, "station"))

Nth(k, m) == LET lines == Of(save_lowls, k)
             IN  IF m <= Len(lines) THEN lines[m] ELSE NULL

\* fget_station_scan(n) and fget_data_transfer_scan(n) find the nth line of the
\* scan in hand, whether they go on from the last one or begin anew, and
\* whatever they remember of scans before.
NthLine ==
    [][/\ stage = "station" /\ n <= nstatn => save_ptr' = Nth("station", n)
       /\ stage = "transfer" /\ n <= MaxStn => save_ptr' = Nth("data_transfer", n)]_vars

\* A record is of one scan of the file: its stations are the first of those
\* stations of that scan that are known, in the order of the file, also when
\* the reading broke off or a station was ignored; and its mode is that of the
\* scan, if the file has that mode: only a mode that is not there is another's.
OwnScan ==
    Len(Scans) <= MaxObs =>
        \A i \in 1 .. nobs :
            \E j \in DOMAIN Scans :
                /\ obs[i].name = Scans[j].name
                /\ IsPrefix(obs[i].stations, KnownOf(Scans[j]))
                /\ Scans[j].mode \in ToSet(Modes) => Modes[obs[i].icod] = Scans[j].mode

Transfers(i) ==
    IF ixfer_beg[i] = 0 THEN << >> ELSE SubSeq(ixfer, ixfer_beg[i], ixfer_end[i])

(* No more scans than records, no scan with more station or transfer lines *)
(* than the loops have turns, and in each a station that is known.         *)
Plain ==
    /\ Len(Scans) <= MaxObs
    /\ \A j \in DOMAIN Scans :
         /\ Len(Of(Scans[j].refs, "station")) <= nstatn
         /\ Len(Of(Scans[j].refs, "data_transfer")) <= MaxStn
         /\ KnownOf(Scans[j]) # << >>

\* A plain file is read as it was written: each scan one record, with all its
\* known stations and its own data transfers, those of no other scan and none
\* left over.
ReadAsWritten ==
    stage = "done" /\ Plain =>
        /\ nobs = Len(Scans)
        /\ \A i \in 1 .. nobs :
             /\ obs[i].name = Scans[i].name
             /\ obs[i].stations = KnownOf(Scans[i])
             /\ Transfers(i) = Keys(Of(Scans[i].refs, "data_transfer"))

(* vobinp takes the file from its beginning until it has made a record.    *)
BeginsWithRecord ==
    Scans # << >> =>
        LET stations == Of(Scans[1].refs, "station")
        IN  \E i \in DOMAIN stations : i <= nstatn /\ stations[i].key \in Known

\* The reading comes to its end if the first scan makes a record.
ReadingEnds == BeginsWithRecord => <>(stage \in {"done", "error"})
=============================================================================
