------------------------------ MODULE ScanTable ------------------------------
(***************************************************************************)
(* What the commands that edit a whole schedule work on: the scans in the  *)
(* order of the index, the cursor and the CUR variables.  No two places    *)
(* share a record (ScanStore), so the scans are a sequence here.           *)
(*                                                                         *)
(* A scan has a start, a source, its stations in order and a duration for  *)
(* each, 0 for the others.  Slewing takes Slew from one source to another; *)
(* the tape, calibration and setup times come with it.  Whether a source   *)
(* is up, and when the next downtime begins, is a choice where it is asked *)
(* (Downtime has the latter).                                              *)
(***************************************************************************)
EXTENDS Integers, SequencesExt, FiniteSetsExt

CONSTANTS
    NStatn,     \* the number of stations selected
    Sources,    \* the sources selected
    StartTime,  \* nominal start of the experiment
    Slew,       \* time from one source to the next
    Schedules,  \* schedules to begin with, in order of time
    Windows     \* the time ranges that are typed

Stations == 1..NStatn
NoSource == -1      \* NSORCUR, NSPRE of a station in no scan since the schedule was rewound
Unread   == 0       \* NSORCUR before anything is read

ScanFields == [t : Nat, src : Sources, sta : Seq(Stations), dur : [Stations -> Nat]]

IsScan(x) ==
    /\ x \in ScanFields
    /\ IsInjective(x.sta)
    /\ \A m \in Stations : x.dur[m] > 0 <=> m \in ToSet(x.sta)

ASSUME TableAssumption ==
    /\ NStatn \in Nat \ {0} /\ Slew \in Nat /\ StartTime \in Nat
    /\ Sources \subseteq Nat \ {Unread}
    /\ Windows \subseteq [st : Nat, en : Nat]
    /\ \A s \in Schedules :
          /\ s \in Seq(ScanFields) /\ s # << >> /\ s[1].t = StartTime
          /\ \A i \in DOMAIN s : IsScan(s[i]) /\ Len(s[i].sta) >= 2
          /\ \A i, j \in DOMAIN s : i < j => s[i].t <= s[j].t

VARIABLES
    scans,      \* cskobs(iskrec(1..nobs))
    ircur,      \* the cursor
    irecgo,     \* place GTOBS is asked to go to, 0 for none
    cur,        \* CUR variables: ISTCUR, and MJDCUR/UTCUR, NSORCUR, IDURCUR by station
    status,     \* "ok", or "failed" once a subscript has left its array
    job,        \* the command given and its parameters
    busy,       \* it is running
    was         \* the scans when it began, and whether CUR held the one at the cursor

table == <<scans, ircur, irecgo, cur, status>>
place == <<ircur, irecgo>>
given == <<job, was>>

nobs == Len(scans)

(***************************************************************************)
(* UNPAK and PAKUP.  The record gets time and source of its first station. *)
(***************************************************************************)
Unpak(c, x) ==
    LET in == ToSet(x.sta)
    IN  [sta |-> x.sta,
         t   |-> [m \in Stations |-> IF m \in in THEN x.t ELSE c.t[m]],
         src |-> [m \in Stations |-> IF m \in in THEN x.src ELSE c.src[m]],
         dur |-> [m \in Stations |-> IF m \in in THEN x.dur[m] ELSE c.dur[m]]]

Pakup(c) ==
    [t |-> c.t[Head(c.sta)], src |-> c.src[Head(c.sta)], sta |-> c.sta,
     dur |-> [m \in Stations |-> IF m \in ToSet(c.sta) THEN c.dur[m] ELSE 0]]

(* The scans at some places are read one after the other: each station has *)
(* what the last of them with it gives.                                    *)
UnpakAll(c, s, places) ==
    LET with(m) == {i \in places : m \in ToSet(s[i].sta)}
        seen(m) == s[Max(with(m))]
    IN  [sta |-> IF places = {} THEN c.sta ELSE s[Max(places)].sta,
         t   |-> [m \in Stations |-> IF with(m) = {} THEN c.t[m] ELSE seen(m).t],
         src |-> [m \in Stations |-> IF with(m) = {} THEN c.src[m] ELSE seen(m).src],
         dur |-> [m \in Stations |-> IF with(m) = {} THEN c.dur[m] ELSE seen(m).dur[m]]]

Blank(source) ==
    [sta |-> << >>, t |-> [m \in Stations |-> StartTime],
     src |-> [m \in Stations |-> source], dur |-> [m \in Stations |-> 0]]

Fresh == Blank(NoSource)

(* when_at_next_source: when a station that was last on src is ready for next. *)
Ready(t, dur, src, next) == t + dur + (IF src \in {NoSource, next} THEN 0 ELSE Slew)

Longest(dur, in) == Max({dur[m] : m \in in})

(* The members of a list at some of its places, in their order (SelectSeq  *)
(* in a form that can be reasoned about).                                  *)
Nth(places, n) == CHOOSE i \in places : Cardinality({j \in places : j <= i}) = n

Kept(list, places) == [n \in 1..Cardinality(places) |-> list[Nth(places, n)]]

Without(list, out) == Kept(list, {i \in DOMAIN list : list[i] \notin out})

-----------------------------------------------------------------------------
(* A schedule has been made, or read, and listed up to some scan.  CUR may *)
(* hold another than the one at the cursor: CHSKE and FILL leave it so.    *)
TableInit ==
    /\ scans \in Schedules
    /\ ircur \in DOMAIN scans
    /\ irecgo = 0
    /\ \E read \in DOMAIN scans, source \in {NoSource, Unread} :
          /\ cur = UnpakAll(Blank(source), scans, 1..read)
          /\ was = [scans |-> scans, synced |-> read = ircur]
    /\ status = "ok"
    /\ busy = FALSE
    /\ job = [cmd |-> "NONE"]

Begin(command) ==
    /\ job.cmd = "NONE"
    /\ job' = command
    /\ busy' = TRUE
    /\ UNCHANGED was

-----------------------------------------------------------------------------
(* What the properties speak of. *)
Place(s, m, i) == m \in ToSet(s[i].sta)

(* Places i and j are scans of station m with none between. *)
Follows(s, m, i, j) ==
    i < j /\ Place(s, m, i) /\ Place(s, m, j) /\ \A k \in (i + 1)..(j - 1) : ~Place(s, m, k)

InTime(s, m, i, j) == Ready(s[i].t, s[i].dur[m], s[i].src, s[j].src) <= s[j].t

OnTime(s) ==
    \A m \in Stations : \A i, j \in DOMAIN s : Follows(s, m, i, j) => InTime(s, m, i, j)
=============================================================================
