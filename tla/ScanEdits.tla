------------------------------ MODULE ScanEdits ------------------------------
(***************************************************************************)
(* One command that goes over the whole schedule: FILL, THIN, or one of    *)
(* the loop of chcmd.f.  The command is given once; what it leaves is the  *)
(* end of the behaviour.                                                   *)
(***************************************************************************)
EXTENDS Fill, Thin, CheckWalk

CONSTANTS
    SourceLists,    \* the source lists FILL may be given
    Subnets,        \* and its subnets
    Numbers         \* how many scans THIN may be told to thin

ASSUME EditsAssumption ==
    /\ SourceLists \subseteq SUBSET Sources /\ Subnets \subseteq SUBSET Stations
    /\ Numbers \subseteq Nat

vars == <<scans, ircur, irecgo, cur, status, job, busy, was, fill, thin, walk>>

Init == TableInit /\ FillInit /\ ThinInit /\ WalkInit

FillCommand ==
    /\ \E window \in Windows :
          \/ \E sources \in SourceLists, stations \in Subnets :
                BeginFill(window, sources, stations)
          \/ RefuseFill(window)
    /\ UNCHANGED <<thin, walk>>

ThinCommand ==
    /\ \E window \in Windows, m \in Stations, number \in Numbers :
          BeginThin(window, m, number)
    /\ UNCHANGED <<fill, walk>>

WalkCommand ==
    /\ \E window \in Windows :
          \/ \E cmd \in {"CHECK", "REWRITE"} :
                BeginWalk([cmd |-> cmd, window |-> window, who |-> {}])
          \/ \E cmd \in {"SHIFT", "UNTAG"}, clear \in BOOLEAN :
                BeginWalk([cmd |-> cmd, window |-> window, who |-> {}, clear |-> clear])
          \/ \E cmd \in {"ADD", "REMOVE"}, m \in Stations :
                BeginWalk([cmd |-> cmd, window |-> window, who |-> {m}, to |-> {}])
          \/ \E m \in Stations : \E to \in {{}} \cup {{n} : n \in Stations \ {m}} :
                BeginWalk([cmd |-> "TAGALONG", window |-> window, who |-> {m}, to |-> to])
    /\ UNCHANGED <<fill, thin>>

Command == FillCommand \/ ThinCommand \/ WalkCommand

Running == busy /\ status = "ok"

Step ==
    /\ Running
    /\ UNCHANGED given
    /\ \/ FillStep /\ UNCHANGED <<busy, thin, walk>>
       \/ EndFill /\ UNCHANGED <<thin, walk>>
       \/ Turn /\ UNCHANGED <<busy, fill, walk>>
       \/ EndThin /\ UNCHANGED <<fill, walk>>
       \/ WalkStep /\ UNCHANGED <<busy, fill, thin>>
       \/ EndWalk /\ UNCHANGED <<fill, thin>>

Next == Command \/ Step

(* A command that runs goes on: nothing in it waits. *)
Spec == Init /\ [][Next]_vars /\ WF_vars(Step)

-----------------------------------------------------------------------------
Ended(commands) == job.cmd \in commands /\ ~busy /\ status = "ok"

(* The scan in CUR is the one at the cursor in the first turn. *)
Synced == was.synced /\ walk.entry # 0

Walks == {"CHECK", "REWRITE", "SHIFT", "ADD", "TAGALONG", "REMOVE", "UNTAG"}

(* FILL never makes a station late for a scan it has looked at: if all had *)
(* the time to get from each scan to their next before, they have it after *)
(* up to the first scan that starts behind the window.  Beyond, nobody     *)
(* still observes when the next scan starts.                               *)
FillOnTime ==
    Ended({"FILL"}) /\ OnTime(was.scans) =>
        \A m \in Stations : \A i, j \in DOMAIN scans :
            Follows(scans, m, i, j) =>
                IF scans[j - 1].t <= job.window.en
                  THEN InTime(scans, m, i, j)
                  ELSE scans[i].t + scans[i].dur[m] <= scans[j].t

(* In a scan FILL has changed no station observes longer than all others   *)
(* (fillcmd.f:542), unless a station of the subnet has its last scan of    *)
(* those read before it: the second loop may then have set the last of the *)
(* range of the third back to that one (fillcmd.f:534).                    *)
DoneBefore(m, i) ==
    /\ \E p \in 1..(i - 1) : m \in ToSet(scans[p].sta) /\ scans[p].t >= job.window.st
    /\ \A j \in i..nobs : m \in ToSet(scans[j].sta) => scans[j - 1].t > job.window.en

FillLeavesNoneAlone ==
    Ended({"FILL"}) =>
        \A i \in DOMAIN scans :
            LET x == scans[i]
            IN  scans[i] # was.scans[i] =>
                  \/ \E m, n \in ToSet(x.sta) : m # n /\ x.dur[m] = x.dur[n]
                                   /\ x.dur[m] = Longest(x.dur, ToSet(x.sta))
                  \/ \E m \in job.who : DoneBefore(m, i)

-----------------------------------------------------------------------------
(* What a command may have made of the scan y: x. *)
SameBut(stations, x, y) ==
    /\ x.t = y.t /\ x.src = y.src
    /\ Without(x.sta, stations) = Without(y.sta, stations)
    /\ \A m \in Stations \ stations : x.dur[m] = y.dur[m]

Fewer(x, y) ==
    /\ x.t = y.t /\ x.src = y.src
    /\ \E out \in SUBSET Stations : x.sta = Without(y.sta, out)
    /\ \A m \in ToSet(x.sta) : x.dur[m] = y.dur[m]

Asked(x, y) ==
    CASE job.cmd \in {"CHECK", "REWRITE"} -> x = y
      [] job.cmd = "FILL" ->
            /\ [x EXCEPT !.dur = y.dur] = y
            /\ \A m \in Stations : x.dur[m] > y.dur[m] => m \in job.who
      [] job.cmd = "SHIFT" -> [x EXCEPT !.t = y.t] = y
      [] job.cmd \in {"ADD", "TAGALONG"} ->
            SameBut(job.who, x, y) /\ Len(x.sta) >= Len(y.sta)
      [] job.cmd \in {"REMOVE", "THIN"} ->
            SameBut(job.who, x, y) /\ Len(x.sta) <= Len(y.sta)
      [] job.cmd = "UNTAG" -> Fewer(x, y)

Count(s, stations) == Cardinality({i \in DOMAIN s : stations \cap ToSet(s[i].sta) # {}})

(* A command changes what it is asked to and no more: FILL lengthens the   *)
(* stations named, SHIFT moves scans, TAGALONG, ADD, REMOVE and THIN take  *)
(* the station named in or out, UNTAG takes stations out, CHECK and        *)
(* REWRITE do nothing.  Each scan left is one that was there, in the same  *)
(* order, with two stations at least; only those that take stations out    *)
(* lose scans, and THIN takes its station out of the number it was told.   *)
(* For the loop this needs CUR to be the scan at the cursor in its first   *)
(* turn: else that may be put over another.                                *)
DoesAsAsked ==
    Ended({"FILL", "THIN"} \cup Walks) /\ (job.cmd \in Walks => Synced) =>
        /\ \E from \in [DOMAIN scans -> DOMAIN was.scans] :
              /\ \A i, j \in DOMAIN scans : i < j => from[i] < from[j]
              /\ \A i \in DOMAIN scans : Asked(scans[i], was.scans[from[i]])
        /\ \A i \in DOMAIN scans : Len(scans[i].sta) >= 2
        /\ job.cmd \notin {"REMOVE", "THIN", "UNTAG"} => nobs = Len(was.scans)
        /\ job.cmd = "THIN" =>
              Count(was.scans, job.who) - Count(scans, job.who) = job.number

-----------------------------------------------------------------------------
(* The scans of a turn: behind the first and up to the last.               *)
Turns == {i \in DOMAIN scans : walk.entry < i /\ i <= ircur}

(* The loop knew station m when it came to scan i: it has been in a scan   *)
(* of the loop before, or i is the scan the loop began with.               *)
Known(m, i) == i = walk.entry \/ \E k \in walk.entry..(i - 1) : Place(scans, m, k)

HeadKnown(i) == Known(Head(scans[i].sta), i)

(* Whom the loop has let pass is on time.  After UNTAG every station has   *)
(* the time from its scan before; the first scan of the loop does not      *)
(* count, as its weak stations are forgotten.  After SHIFT a station known *)
(* when its scan before was moved has it, if the first station of both     *)
(* scans was known, too: SHIFT does not move the CUR of one that was not.  *)
(* After TAGALONG the new station has it, unless its last scan is long     *)
(* ago.  After REMOVE the station is in no scan of the loop, but for the   *)
(* one that follows a deleted first scan.                                  *)
WalkLeavesInTime ==
    Ended(Walks) /\ Synced /\ irecgo = 0 =>
        /\ job.cmd \in {"UNTAG", "SHIFT"} /\ job.clear =>
              \A m \in Stations, j \in Turns : \A i \in walk.entry..(j - 1) :
                  /\ Follows(scans, m, i, j)
                  /\ job.cmd = "UNTAG" => i \in Turns
                  /\ job.cmd = "SHIFT" => Known(m, i) /\ HeadKnown(i) /\ HeadKnown(j)
                  => InTime(scans, m, i, j)
        /\ job.cmd = "TAGALONG" =>
              \A m \in job.who, j \in Turns : \A i \in walk.entry..(j - 1) :
                  Follows(scans, m, i, j) /\ ~Place(was.scans, m, j) =>
                      InTime(scans, m, i, j) \/ scans[j].t - scans[i].t > Forget
        /\ job.cmd = "REMOVE" =>
              \A m \in job.who, i \in walk.entry..Min({ircur, nobs}) :
                  Place(scans, m, i) => i = 1 /\ walk.entry = 1 /\ nobs < Len(was.scans)

-----------------------------------------------------------------------------
(* Scan i starts in the window, or is the first that starts at its end or  *)
(* later.                                                                  *)
InWindow(i) ==
    /\ job.window.st <= was.scans[i].t
    /\ \A j \in 1..(i - 1) : was.scans[j].t < job.window.en

(* FILL leaves the index only if no scan starts behind its window; THIN    *)
(* leaves its list only if it is told to take the station's last scan in   *)
(* the window, a scan starts at midnight or a day passes; UNTAG subscripts *)
(* with no station only after it took all out of a scan; the loop may      *)
(* begin at place 0.  Otherwise the cursor is on a scan in the end, but    *)
(* for THIN, which does not move it.                                       *)
StaysInside ==
    /\ status = "failed" =>
          \/ job.cmd = "FILL" /\ scans[nobs].t <= job.window.en
          \/ /\ job.cmd = "THIN"
             /\ \/ job.number >= Cardinality({i \in DOMAIN was.scans :
                      InWindow(i) /\ job.who \subseteq ToSet(was.scans[i].sta)})
                \/ \E i \in DOMAIN was.scans : was.scans[i].t % Day = 0
                \/ Last(was.scans).t - Head(was.scans).t >= Day
          \/ job.cmd = "UNTAG" /\ cur.sta = << >>
          \/ job.cmd \in Walks /\ walk.entry = 0
    /\ Ended({"FILL"} \cup Walks) =>
          \/ ircur \in DOMAIN scans
          \/ ircur = 0 /\ (scans = << >> \/ walk.entry = 0)
          \/ job.cmd = "UNTAG" /\ irecgo = 1

(* A command comes to its end, if it is not stopped by a subscript. *)
CommandsEnd == [](busy => <>(~busy \/ status = "failed"))
=============================================================================
