--------------------------------- MODULE Thin ---------------------------------
(***************************************************************************)
(* THIN: a station is taken out of a number of scans, each time out of the *)
(* one that follows closest on its last.                                   *)
(*                                                                         *)
(* The places of its scans are listed once; each turn goes over those not  *)
(* struck out for the smallest gap and strikes a place out.  A scan left   *)
(* with one station loses its place in the index at once, and the index is *)
(* closed up at the end.  The cursor stays where it is.                    *)
(***************************************************************************)
EXTENDS ScanTable

CONSTANT Day    \* the length of a day

ASSUME ThinAssumption == Day \in Nat \ {0}

VARIABLE thin   \* the turns: the places iobs_stat still has, the turns left, and the
                \* place struck last, which is IOBS_DELETE (0: not yet set)

ThinInit == thin = [phase |-> "off"]

(* The scans that are read, and the places among them that are listed: from *)
(* the first that starts in the window to the first that starts at its end. *)
Last4Thin(window) ==
    Min({i \in DOMAIN scans : scans[i].t >= window.en} \cup {nobs})

Listed4Thin(window, m) ==
    {i \in 1..Last4Thin(window) :
        /\ \E j \in 1..i : scans[j].t >= window.st
        /\ m \in ToSet(scans[i].sta)}

BeginThin(window, m, number) ==
    /\ Begin([cmd |-> "THIN", window |-> window, who |-> {m}, number |-> number])
    /\ cur' = UnpakAll(cur, scans, 1..Last4Thin(window))
    /\ thin' = [phase |-> "turns", listed |-> Listed4Thin(window, m),
                left |-> number, pick |-> 0]
    /\ UNCHANGED <<scans, place, status>>

-----------------------------------------------------------------------------
(* Time 0 stands for "no scan yet", so the gap after a scan at midnight is *)
(* not looked at, nor is one of a day or more.                             *)
Earlier(i) == {j \in thin.listed : j < i}

Gap(i) == scans[i].t - scans[Max(Earlier(i))].t

Gaps == {i \in thin.listed :
            Earlier(i) # {} /\ scans[Max(Earlier(i))].t % Day # 0 /\ Gap(i) < Day}

Closest == Min({i \in Gaps : \A other \in Gaps : Gap(i) <= Gap(other)})

(* Without a gap IOBS_DELETE keeps its value: that of the turn before, or  *)
(* none at all.                                                            *)
Picks ==
    IF Gaps # {} THEN {Closest}
    ELSE IF thin.pick # 0 THEN {thin.pick}
    ELSE {0} \cup thin.listed

(* Variant: the first station of the scan goes. *)
FirstTakenOut(i, m) == [scans EXCEPT ![i].sta = Tail(@), ![i].dur[Head(scans[i].sta)] = 0]

TakenOut(i, m) == [scans EXCEPT ![i].sta = Without(@, {m}), ![i].dur[m] = 0]

Turn ==
    /\ thin.phase = "turns" /\ thin.left > 0
    /\ \E i \in Picks, m \in job.who :
         IF i \notin thin.listed
           THEN status' = "failed" /\ UNCHANGED <<scans, cur, thin>>
           ELSE /\ scans' = TakenOut(i, m)
                /\ LET read == UnpakAll(cur, scans, thin.listed)
                   IN  cur' = [Unpak(read, scans[i]) EXCEPT !.sta = Without(@, {m})]
                /\ thin' = [thin EXCEPT !.listed = @ \ {i}, !.left = @ - 1, !.pick = i]
                /\ UNCHANGED status
    /\ UNCHANGED place

(* Scans with one station have no place in the index any more. *)
EndThin ==
    /\ thin.phase = "turns" /\ thin.left = 0
    /\ scans' = Kept(scans, {i \in DOMAIN scans : Len(scans[i].sta) >= 2})
    /\ thin' = [phase |-> "off"]
    /\ busy' = FALSE
    /\ UNCHANGED <<cur, place, status>>
=============================================================================
