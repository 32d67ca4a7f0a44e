------------------------------ MODULE CheckWalk ------------------------------
(***************************************************************************)
(* chcmd.f: CHECK, SHIFT, TAGALONG, ADD, REMOVE, UNTAG and REWRITE are one *)
(* loop over the scans.  CUR holds the scan of the turn, PRE what each     *)
(* station did before; a command changes CUR and puts it back (PTOBS).     *)
(*                                                                         *)
(* What the loop asks of the sky and of the sensitivity is a choice: is    *)
(* the source up, is the station down, is its signal strong enough.  When  *)
(* the sun is near or a slew gives a message AUCHK breaks off; with        *)
(* job.clear neither happens.                                              *)
(***************************************************************************)
EXTENDS ScanTable

CONSTANTS
    MaxObs,     \* MAX_OBS: size of the index
    Forget      \* time after which a station tagged along counts as unused

ASSUME WalkAssumption ==
    /\ MaxObs \in Nat /\ Forget \in Nat
    /\ \A s \in Schedules : Len(s) <= MaxObs

VARIABLE walk   \* the loop: phase, IFIRST, place of the first turn, PRE variables

WalkInit == walk = [phase |-> "off"]

Instant(c) == c.t[Head(c.sta)]
Source(c)  == c.src[Head(c.sta)]
Staying    == UNCHANGED <<scans, place, status>>

-----------------------------------------------------------------------------
(* GTOBS, the first call: the scan asked for, the one in CUR if it starts  *)
(* at the time typed, or else the first that starts later.                 *)
Rewound(c) == [c EXCEPT !.t = Fresh.t, !.src = Fresh.src]

Landing(from, time) ==
    Min({i \in from..nobs : scans[i].t > time} \cup {nobs})

ReadOn(c, from, to) == UnpakAll(c, scans, from..to)

GtStart(time) ==
    LET back == time < Instant(cur)
        at   == IF back THEN 0 ELSE ircur
        c    == IF back THEN Rewound(cur) ELSE cur
        from == Min({at + 1, nobs})
    IN  IF time = Instant(c) THEN [at |-> at, cur |-> c]
        ELSE [at |-> Landing(from, time), cur |-> ReadOn(c, from, Landing(from, time))]

(* After a rewind CUR has the nominal start of the experiment: who types   *)
(* that time gets CUR, and no place.  What is listed then has no source.   *)
BeginWalk(command) ==
    /\ Begin(command)
    /\ LET p == GtStart(command.window.st)
       IN  /\ ircur' = p.at
           /\ cur' = p.cur
           /\ walk' = [phase |-> "visit", first |-> TRUE, entry |-> p.at,
                       pre |-> [t |-> p.cur.t, dur |-> p.cur.dur, src |-> Fresh.src]]
           /\ status' \in IF p.at = 0 THEN {"ok", "failed"} ELSE {"ok"}
    /\ UNCHANGED <<scans, irecgo>>

(* The following calls.  Without stations in CUR the subscript J is not    *)
(* one of a station, and the next command is to begin at the first scan.   *)
Lost     == cur.sta = << >>
NoNext   == ~Lost /\ (ircur >= nobs \/ job.window.en <= Instant(cur))

EndWalk ==
    /\ walk.phase = "next"
    /\ \/ NoNext /\ UNCHANGED <<place, status>>
       \/ Lost /\ ircur' = MaxObs /\ irecgo' = 1 /\ status' \in {"ok", "failed"}
    /\ walk' = [walk EXCEPT !.phase = "off"]
    /\ busy' = FALSE
    /\ UNCHANGED <<scans, cur>>

(* PRE of the stations in CUR, saved at the end of each turn. *)
Saved(pre, c) ==
    LET in == ToSet(c.sta)
    IN  [t   |-> [m \in Stations |-> IF m \in in THEN c.t[m] ELSE pre.t[m]],
         dur |-> [m \in Stations |-> IF m \in in THEN c.dur[m] ELSE pre.dur[m]],
         src |-> [m \in Stations |-> IF m \in in THEN c.src[m] ELSE pre.src[m]]]

EndTurn(pre, c) ==
    /\ cur' = c
    /\ walk' = [walk EXCEPT !.phase = "next", !.first = FALSE, !.pre = Saved(pre, c)]

-----------------------------------------------------------------------------
(* PTOBS 'RE' and 'DE'.  At place 0 the one writes through a subscript out *)
(* of its array, and the other takes the last scan from the index.         *)
Replace(c) ==
    /\ IF ircur = 0
         THEN status' = "failed" /\ UNCHANGED scans
         ELSE scans' = [scans EXCEPT ![ircur] = Pakup(c)] /\ UNCHANGED status
    /\ UNCHANGED place

(* Variant: the cursor is left. *)
DeleteStaying ==
    /\ scans' = RemoveAt(scans, IF ircur = 0 THEN nobs ELSE ircur)
    /\ UNCHANGED <<place, status>>

Delete ==
    /\ scans' = RemoveAt(scans, IF ircur = 0 THEN nobs ELSE ircur)
    /\ ircur' = IF nobs = 1 THEN 0 ELSE IF ircur > 1 THEN ircur - 1 ELSE ircur
    /\ UNCHANGED <<irecgo, status>>

(* AUCHK: when the station is ready, and whether it is looked at at all. *)
ReadyAt(m, pre, c) == Ready(pre.t[m], pre.dur[m], pre.src[m], Source(c))

-----------------------------------------------------------------------------
(* CHECK and SHIFT change nothing in their turn. *)
Look ==
    /\ walk.phase = "visit" /\ job.cmd \in {"CHECK", "SHIFT"}
    /\ Staying
    /\ EndTurn(walk.pre, cur)

Rewrite ==
    /\ walk.phase = "visit" /\ job.cmd = "REWRITE"
    /\ Replace(cur)
    /\ EndTurn(walk.pre, cur)

(* The new station goes to the end and stays as long as it needs to, no    *)
(* longer than the others.                                                 *)
Joined(m, long) ==
    [cur EXCEPT !.sta = Append(@, m), !.dur[m] = long, !.src[m] = Source(cur)]

Timed(m, c) == [c EXCEPT !.t[m] = Instant(cur)]

Lasting == 1..Longest(cur.dur, ToSet(cur.sta))

(* Is it on time?  Then it counts as unused if its last scan is long ago.  *)
Arrives(m) ==
    walk.pre.src[m] = NoSource \/ ReadyAt(m, walk.pre, cur) <= Instant(cur)

Forgotten(m) ==
    IF Instant(cur) - walk.pre.t[m] > Forget
      THEN [walk.pre EXCEPT !.src[m] = NoSource] ELSE walk.pre

(* AUCHK on the scan with the new station: all have to be ready, unless    *)
(* none has come from another source.  Its answer does not count for a     *)
(* station that was never read.  A unit of time is longer than the five    *)
(* seconds by which a station may be late.                                 *)
AllReady(pre, c) ==
    \/ \A m \in ToSet(c.sta) : pre.src[m] \in {NoSource, Source(c)}
    \/ \A m \in ToSet(c.sta) : ReadyAt(m, pre, c) <= Instant(c)

CanJoin(m) ==
    /\ m \notin ToSet(cur.sta)
    /\ job.to # {} => job.to \cap ToSet(cur.sta) # {}

Tag ==
    /\ walk.phase = "visit" /\ job.cmd = "TAGALONG"
    /\ \E m \in job.who, long \in Lasting :
         LET c == Timed(m, Joined(m, long))
         IN  /\ CanJoin(m)
             /\ Arrives(m)
             /\ cur.src[m] = Unread \/ AllReady(Forgotten(m), c)
             /\ Replace(c)
             /\ EndTurn(Forgotten(m), c)

(* It stays out: it is there already, down, too weak, late, or AUCHK has   *)
(* found something.                                                        *)
NoTag ==
    /\ walk.phase = "visit" /\ job.cmd = "TAGALONG"
    /\ Staying
    /\ \E m \in job.who :
         \/ EndTurn(walk.pre, cur)
         \/ CanJoin(m) /\ Arrives(m) /\ EndTurn(Forgotten(m), cur)

(* ADD asks whether the source is up, and a late station keeps the time it *)
(* had in CUR.                                                             *)
AddOn ==
    /\ walk.phase = "visit" /\ job.cmd = "ADD"
    /\ \E m \in job.who :
         \/ Staying /\ EndTurn(walk.pre, cur)
         \/ /\ CanJoin(m)
            /\ \E long \in Lasting :
                 LET c == Joined(m, long)
                 IN  \/ ~Arrives(m) /\ Replace(c) /\ EndTurn(walk.pre, c)
                     \/ /\ Arrives(m)
                        /\ Replace(Timed(m, c))
                        /\ EndTurn(Forgotten(m), Timed(m, c))

(* A scan without two stations is deleted; CUR keeps the first of the      *)
(* list, which has not been moved up.                                      *)
TakeOff ==
    /\ walk.phase = "visit" /\ job.cmd = "REMOVE"
    /\ \E m \in job.who :
         LET c == [cur EXCEPT !.sta = Without(@, {m})]
         IN  \/ m \notin ToSet(cur.sta) /\ Staying /\ EndTurn(walk.pre, cur)
             \/ /\ m \in ToSet(cur.sta) /\ Len(c.sta) >= 2
                /\ Replace(c) /\ EndTurn(walk.pre, c)
             \/ /\ m \in ToSet(cur.sta) /\ Len(c.sta) < 2
                /\ Delete /\ EndTurn(walk.pre, [cur EXCEPT !.sta = SubSeq(@, 1, 1)])

(* UNTAG: on the first scan the weak stations leave CUR, and only CUR. *)
UntagFirst ==
    /\ walk.phase = "visit" /\ job.cmd = "UNTAG" /\ walk.first
    /\ Staying
    /\ \E weak \in SUBSET ToSet(cur.sta) :
         EndTurn(walk.pre, [cur EXCEPT !.sta = Without(@, weak)])

(* Variant: a station's readiness is asked with no slewing. *)
LateIfStaying(m) ==
    walk.pre.src[m] # NoSource /\ walk.pre.t[m] + walk.pre.dur[m] > cur.t[m]

(* On the others the late go (AUTOT allows two seconds, which are left out *)
(* here), and those whose source is not up.                                *)
Late(m) == walk.pre.src[m] # NoSource /\ ReadyAt(m, walk.pre, cur) > cur.t[m]

Untag ==
    /\ walk.phase = "visit" /\ job.cmd = "UNTAG" /\ ~walk.first
    /\ \E hidden \in SUBSET ToSet(cur.sta), broken \in {FALSE, ~job.clear} :
         LET bad == IF broken THEN {} ELSE {m \in ToSet(cur.sta) : m \in hidden \/ Late(m)}
             c   == [cur EXCEPT !.sta = Without(@, bad)]
         IN  /\ \/ Len(c.sta) >= 2 /\ Replace(c)
                \/ Len(c.sta) < 2 /\ Delete
             /\ EndTurn(walk.pre, c)

-----------------------------------------------------------------------------
(* The next scan; SHIFT moves it to the time when all are ready.  Only the *)
(* stations PRE knows are moved, and the record has the first one's time.  *)
Latest(c) == Max({ReadyAt(m, walk.pre, c) : m \in ToSet(c.sta)})

Moves(c) == {m \in ToSet(c.sta) : walk.pre.src[m] # NoSource /\ c.t[m] # Latest(c)}

Shifted(c) ==
    [c EXCEPT !.t = [m \in Stations |-> IF m \in Moves(c) THEN Latest(c) ELSE @[m]]]

(* Variant: the cursor stays. *)
NextAgain == ircur

NextPlace == ircur + 1

NextScanOf(c) ==
    /\ ircur' = NextPlace
    /\ \/ /\ job.cmd = "SHIFT"
          /\ Moves(c) # {}
          /\ cur' = Shifted(c)
          /\ scans' = [scans EXCEPT ![NextPlace] = Pakup(Shifted(c))]
       \/ /\ job.cmd = "SHIFT" => Moves(c) = {} \/ ~job.clear
          /\ cur' = c
          /\ scans' = scans
    /\ walk' = [walk EXCEPT !.phase = "visit"]
    /\ UNCHANGED <<irecgo, status>>

GetNext ==
    /\ walk.phase = "next"
    /\ ~Lost /\ ~NoNext
    /\ NextScanOf(Unpak(cur, scans[ircur + 1]))

WalkStep ==
    \/ Look \/ Rewrite \/ Tag \/ NoTag \/ AddOn \/ TakeOff \/ UntagFirst \/ Untag
    \/ GetNext
=============================================================================
