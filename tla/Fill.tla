--------------------------------- MODULE Fill ---------------------------------
(***************************************************************************)
(* FILL: every station stays on its source until it has to leave for its   *)
(* next scan.                                                              *)
(*                                                                         *)
(* A first loop goes over the scans and looks back at the last scan of     *)
(* each station in them; a second goes over the stations it has not done   *)
(* with; a third shortens, scan by scan, the station that observes longest.*)
(***************************************************************************)
EXTENDS ScanTable

VARIABLE fill   \* the loops: phase, window, kstat_do, iprv_scan, place, limits, ISTAT

Idle == [phase |-> "off"]

FillInit == fill = Idle

(* FILL time-range source-list subnet.  Two scans are unpacked to compare  *)
(* them with the window, and it may turn out that there is nothing to do.  *)
BeginFill(window, sources, stations) ==
    /\ Begin([cmd |-> "FILL", window |-> window, sources |-> sources, who |-> stations])
    /\ nobs > 0
    /\ scans[1].t <= window.en
    /\ scans[nobs].t >= window.st
    /\ cur' = UnpakAll(cur, scans, {1, nobs})
    /\ fill' = [phase |-> "scans", do |-> stations, prev |-> [m \in Stations |-> 0],
                at |-> 1, todo |-> << >>, beg |-> nobs, end |-> 1, istat |-> 0]
    /\ UNCHANGED <<scans, place, status>>

RefuseFill(window) ==
    /\ Begin([cmd |-> "FILL", window |-> window, sources |-> {}, who |-> {}])
    /\ nobs > 0
    /\ scans[1].t > window.en \/ scans[nobs].t < window.st
    /\ cur' = UnpakAll(cur, scans, IF scans[1].t > window.en THEN {1} ELSE {1, nobs})
    /\ fill' = [phase |-> "end"]
    /\ UNCHANGED <<scans, place, status>>

-----------------------------------------------------------------------------
(* The first loop: the next scan is read. *)
ReadScan ==
    /\ fill.phase = "scans" /\ fill.at <= nobs
    /\ cur' = Unpak([cur EXCEPT !.dur = Fresh.dur], scans[fill.at])
    /\ LET x == scans[fill.at]
       IN  fill' = IF x.t < job.window.st
                     THEN [fill EXCEPT !.at = @ + 1, !.istat = Head(x.sta)]
                     ELSE [fill EXCEPT !.phase = "stations", !.todo = x.sta,
                                       !.istat = Head(x.sta)]
    /\ UNCHANGED <<scans, place, status>>

(* A station of it: how long could it stay on its source of before? *)
Room(m, p, n) ==
    scans[n].t - Ready(scans[p].t, scans[p].dur[m], scans[p].src, scans[n].src)

Looks(m, p) == p # 0 /\ scans[p].src \in job.sources /\ m \in fill.do

(* Variant: the scan looked at is not the station's last. *)
LookedForgetting(m) ==
    [fill EXCEPT !.todo = Tail(@), !.istat = m,
                 !.prev = [@ EXCEPT ![m] = IF @ = 0 THEN fill.at ELSE @]]

Looked(m) ==
    [fill EXCEPT !.todo = Tail(@), !.istat = m, !.prev = [@ EXCEPT ![m] = fill.at]]

PassStation ==
    /\ fill.phase = "stations" /\ fill.todo # << >>
    /\ LET m == Head(fill.todo)
           p == fill.prev[m]
       IN  \/ ~Looks(m, p)
           \/ Looks(m, p) /\ Room(m, p, fill.at) <= 0
           \/ Looks(m, p)                    \* a downtime leaves no time
    /\ fill' = Looked(Head(fill.todo))
    /\ UNCHANGED table

(* It stays by some time, until it has to leave, its source sets or a      *)
(* downtime begins.  If it is ready only after the window it is done with; *)
(* the time looked at may be that of one second more, which was too much.  *)
Stay ==
    /\ fill.phase = "stations" /\ fill.todo # << >>
    /\ LET m == Head(fill.todo)
           p == fill.prev[m]
           n == fill.at
       IN  /\ Looks(m, p)
           /\ Room(m, p, n) > 0
           /\ \E more \in 0..Room(m, p, n) :
                /\ scans' = [scans EXCEPT ![p].dur[m] = @ + more]
                /\ \E over \in {0, IF more < Room(m, p, n) THEN 1 ELSE 0} :
                     LET ready == Ready(scans[p].t, scans[p].dur[m] + more + over,
                                        scans[p].src, scans[n].src)
                     IN  fill' = [Looked(m) EXCEPT
                                    !.beg = Min({@, p}),
                                    !.end = Max({Min({fill.beg, p}), p}),
                                    !.do  = IF ready >= job.window.en THEN @ \ {m} ELSE @]
    /\ UNCHANGED <<place, cur, status>>

(* The loop ends behind the first scan beyond the window, or behind all. *)
NextScan ==
    /\ fill.phase = "stations" /\ fill.todo = << >>
    /\ fill' = IF scans[fill.at].t > job.window.en
                 THEN [fill EXCEPT !.phase = "rest", !.end = fill.at, !.at = 1]
                 ELSE [fill EXCEPT !.phase = "scans", !.at = @ + 1]
    /\ UNCHANGED table

NoMoreScans ==
    /\ fill.phase = "scans" /\ fill.at > nobs
    /\ fill' = [fill EXCEPT !.phase = "rest", !.end = fill.at, !.at = 1]
    /\ UNCHANGED table

-----------------------------------------------------------------------------
(* The second loop, over the stations.  One without a scan turns off the   *)
(* station ISTAT still names.                                              *)
SkipStation ==
    /\ fill.phase = "rest" /\ fill.at <= NStatn
    /\ LET m == fill.at
       IN  \/ m \notin fill.do /\ fill' = [fill EXCEPT !.at = @ + 1]
           \/ /\ m \in fill.do /\ fill.prev[m] = 0
              /\ fill' = [fill EXCEPT !.at = @ + 1, !.do = @ \ {fill.istat}]
    /\ UNCHANGED table

(* All stations whose last scan this is stay to the end of the window, but *)
(* no longer than the scan, and only to the next downtime, which may come  *)
(* at any moment.                                                          *)
Until(x, m) == Max({x.dur[m], Min({job.window.en - x.t, Longest(x.dur, ToSet(x.sta))})})

LastScan(p) ==
    LET x  == scans[p]
        us == {m \in ToSet(x.sta) : m \in fill.do /\ fill.prev[m] = p}
    IN  \E stay \in [us -> 0..Longest(x.dur, ToSet(x.sta))] :
          /\ \A m \in us : x.dur[m] <= stay[m] /\ stay[m] <= Until(x, m)
          /\ scans' = [scans EXCEPT ![p].dur =
               [m \in Stations |-> IF m \in us THEN stay[m] ELSE @[m]]]

FillLastScan ==
    /\ fill.phase = "rest" /\ fill.at <= NStatn
    /\ fill.at \in fill.do
    /\ LET p == fill.prev[fill.at]
       IN  /\ p # 0
           /\ LastScan(p)
           /\ fill' = [fill EXCEPT !.at = @ + 1,
                          !.istat = Last(scans[p].sta),
                          !.do    = @ \ {m \in ToSet(scans[p].sta) : fill.prev[m] = p},
                          !.beg   = Min({@, p}),
                          !.end   = Max({Min({fill.beg, p}), p})]
    /\ UNCHANGED <<place, cur, status>>

NoMoreStations ==
    /\ fill.phase = "rest" /\ fill.at > NStatn
    /\ fill' = [fill EXCEPT !.phase = "clean", !.at = fill.beg]
    /\ UNCHANGED table

-----------------------------------------------------------------------------
(* The third loop: the longest duration of a scan becomes the second       *)
(* longest.                                                                *)

(* Variant: the first station of the scan is passed over. *)
TrimmedButFirst(x) ==
    [x EXCEPT !.dur = [m \in Stations |->
        IF m \in ToSet(Tail(x.sta)) /\ \A n \in ToSet(x.sta) \ {m} : x.dur[n] < x.dur[m]
        THEN Longest(x.dur, ToSet(x.sta) \ {m})
        ELSE x.dur[m]]]

Trimmed(x) ==
    [x EXCEPT !.dur = [m \in Stations |->
        IF m \in ToSet(x.sta) /\ \A n \in ToSet(x.sta) \ {m} : x.dur[n] < x.dur[m]
        THEN Longest(x.dur, ToSet(x.sta) \ {m})
        ELSE x.dur[m]]]

Trim ==
    /\ fill.phase = "clean" /\ fill.at <= fill.end /\ fill.at <= nobs
    /\ scans' = [scans EXCEPT ![fill.at] = Trimmed(@)]
    /\ fill' = [fill EXCEPT !.at = @ + 1]
    /\ UNCHANGED <<place, cur, status>>

(* Behind the last scan the index is empty, or holds a scan that was       *)
(* deleted.                                                                *)
TrimBeyond ==
    /\ fill.phase = "clean" /\ fill.at <= fill.end /\ fill.at > nobs
    /\ fill' = [fill EXCEPT !.at = @ + 1]
    /\ status' \in {"ok", "failed"}
    /\ UNCHANGED <<scans, place, cur>>

EndFill ==
    /\ \/ fill.phase = "end"
       \/ fill.phase = "clean" /\ fill.at > fill.end
    /\ fill' = Idle
    /\ busy' = FALSE
    /\ UNCHANGED table

FillStep ==
    \/ ReadScan \/ PassStation \/ Stay \/ NextScan \/ NoMoreScans
    \/ SkipStation \/ FillLastScan \/ NoMoreStations
    \/ Trim \/ TrimBeyond
=============================================================================
