---------------------------- MODULE VexScansProofs ----------------------------
(***************************************************************************)
(* Proofs about VexScans.                                                  *)
(*                                                                         *)
(* WalkInv says where the walks stand: the scan walk behind the last scan  *)
(* taken, and what fget_station_scan and fget_data_transfer_scan remember  *)
(* on the lines of the scan in hand that are still to come, from their     *)
(* second call on.  OwnInv says what the record in hand lacks: the known   *)
(* stations of the lines still to come.  ReadInv adds, for a plain file,   *)
(* that every scan before the one in hand is a record, whole and with its  *)
(* own transfers, and that those of the scan in hand are the end of the    *)
(* table.                                                                  *)
(***************************************************************************)
EXTENDS VexScans, ListLemmas

-----------------------------------------------------------------------------
(* The walk over the lines of one kind. *)

\* find_lowl: the first line of the statement, and those behind it.
LEMMA LineFound ==
    ASSUME NEW S, NEW list \in Seq(S), NEW k
    PROVE  LET here == FindLowl(list, k)
           IN  /\ here \in Seq(S) /\ Behind(here) \in Seq(S)
               /\ Of(list, k) \in Seq(S)
               /\ here = << >> => Of(list, k) = << >>
               /\ here # << >> => /\ Head(here) \in S /\ Head(here).statement = k
                                  /\ Of(list, k) = <<Head(here)>> \o Of(Behind(here), k)
<1> DEFINE W == {i \in 1 .. Len(list) : list[i].statement = k}
           Flat(l) == FlattenSeq(PicksOf(l, k))
<1>1. Len(list) \in Nat /\ W \in SUBSET (1 .. Len(list))
    OBVIOUS
<1> HIDE DEF W
<1>2. \E i \in 1 .. Len(list) + 1 :
          (i <= Len(list) => i \in W) /\ \A j \in 1 .. i - 1 : j \notin W
    BY <1>1, FirstWanted
<1> USE DEF W
<1>3. \E i \in 1 .. Len(list) + 1 :
          /\ i <= Len(list) => list[i].statement = k
          /\ \A j \in 1 .. i - 1 : ~(list[j].statement = k)
    BY <1>1, <1>2
<1>4. PICK i \in 1 .. Len(list) + 1 :
          /\ FindLowl(list, k) = SubSeq(list, i, Len(list))
          /\ i <= Len(list) => list[i].statement = k
          /\ \A j \in 1 .. i - 1 : list[j].statement # k
    BY <1>3 DEF FindLowl, From
<1> DEFINE here == SubSeq(list, i, Len(list))
<1>5. /\ here \in Seq(S)
      /\ here # << >> => /\ i <= Len(list) /\ Head(here) = list[i]
                         /\ Head(here) \in S /\ Tail(here) \in Seq(S)
    BY RestOf
<1>6. \A l : Of(l, k) = Flat(l)
    BY DEF Of, PicksOf
<1>7. /\ Flat(list) \in Seq(S)
      /\ here = << >> => Flat(list) = << >>
      /\ here # << >> => Flat(list) = <<Head(here)>> \o Flat(Tail(here))
    BY <1>4, PicksOfFound
<1>8. FindLowl(list, k) = here
    BY <1>4
<1> HIDE DEF here, Flat
<1> QED
    BY <1>4, <1>5, <1>6, <1>7, <1>8 DEF Behind

\* The lines are those of list from place i on.
IsRest(lowls, k, list, i) == Of(lowls, k) = SubSeq(list, i, Len(list))

\* A search gives the next line, if one is left, and leaves those behind it.
LEMMA NextOf ==
    ASSUME NEW S, NEW k, NEW list \in Seq(S), NEW lowls \in Seq(S),
           NEW i \in Nat \ {0}, IsRest(lowls, k, list, i)
    PROVE  LET here == FindLowl(lowls, k)
           IN  /\ here # << >> <=> i <= Len(list)
               /\ here # << >> => /\ Head(here) = list[i] /\ Head(here) \in S
                                  /\ Head(here).statement = k
               /\ Behind(here) \in Seq(S)
               /\ IsRest(Behind(here), k, list, i + 1)
<1> DEFINE here == FindLowl(lowls, k)
           m == Len(list)
<1>1. m \in Nat
    OBVIOUS
<1>2. /\ here \in Seq(S) /\ Behind(here) \in Seq(S)
      /\ here = << >> => Of(lowls, k) = << >>
      /\ here # << >> => /\ Head(here) \in S /\ Head(here).statement = k
                         /\ Of(lowls, k) = <<Head(here)>> \o Of(Behind(here), k)
    BY LineFound
<1>3. Of(lowls, k) = SubSeq(list, i, m)
    BY DEF IsRest
<1>4. Of(Behind(here), k) \in Seq(S)
    BY <1>2, LineFound
<1> HIDE DEF here, m
<1>5. CASE here = << >>
  <2>1. ~(i <= m)
    <3>1. ASSUME i <= m PROVE FALSE
      <4>1. SubSeq(list, i, m) # << >>
        BY <1>1, <3>1, HeadFrom DEF m
      <4> QED
        BY <1>2, <1>3, <1>5, <4>1
    <3> QED
      BY <3>1
  <2>2. Behind(here) = << >> /\ SubSeq(list, i + 1, m) = << >>
    BY <1>1, <1>5, <2>1, SubSeqEmpty DEF Behind
  <2>3. Of(<< >>, k) = << >>
    BY DEF Of, FlattenSeq
  <2> QED
    BY <1>2, <1>5, <2>1, <2>2, <2>3 DEF IsRest, m, here
<1>6. CASE here # << >>
  <2> DEFINE rest == Of(Behind(here), k)
             all  == <<Head(here)>> \o rest
  <2>1. all \in Seq(S) /\ all # << >> /\ Head(all) = Head(here) /\ Tail(all) = rest
    BY <1>2, <1>4, <1>6, HeadTailOfOne
  <2>2. SubSeq(list, i, m) = all
    BY <1>2, <1>3, <1>6
  <2> HIDE DEF rest, all
  <2>3. i \in 1 .. m
    <3>1. ASSUME ~(i <= m) PROVE FALSE
      BY <1>1, <2>1, <2>2, <3>1, SubSeqEmpty
    <3> QED
      BY <1>1, <3>1
  <2>4. Head(SubSeq(list, i, m)) = list[i] /\ Tail(SubSeq(list, i, m)) = SubSeq(list, i + 1, m)
    BY <2>3, HeadFrom DEF m
  <2>5. Head(here) = list[i] /\ rest = SubSeq(list, i + 1, m)
    BY <2>1, <2>2, <2>4
  <2> QED
    BY <1>2, <1>6, <2>3, <2>5 DEF IsRest, m, rest, here
<1> QED
    BY <1>5, <1>6

Answers(r, k, list, i, S) ==
    /\ r.lowls \in Seq(S)
    /\ r.found = IF i <= Len(list) THEN list[i] ELSE NULL
    /\ r.found # NULL <=> i <= Len(list)
    /\ IsRest(r.lowls, k, list, i + 1)

\* One call gives the next line and leaves those behind it.
LEMMA OneCall ==
    ASSUME NEW S, NEW k \in LineKinds, NEW list \in Seq(S), NEW lowls \in Seq(S),
           NEW i \in Nat \ {0}, IsRest(lowls, k, list, i)
    PROVE  Answers(GetLine(k, lowls), k, list, i, S)
<1> DEFINE here == FindLowl(lowls, k)
           r == GetLine(k, lowls)
<1>1. /\ here # << >> <=> i <= Len(list)
      /\ here # << >> => /\ Head(here) = list[i] /\ Head(here) \in S
                         /\ Head(here).statement = k
      /\ Behind(here) \in Seq(S)
      /\ IsRest(Behind(here), k, list, i + 1)
    BY NextOf
<1>2. r.lowls = Behind(here) /\ r.found = IF here = << >> THEN NULL ELSE Head(here)
    BY DEF GetLine
<1>3. NULL.statement # k
    BY DEF NULL, LineKinds
<1> HIDE DEF here, r
<1> QED
    BY <1>1, <1>2, <1>3 DEF Answers, r

(* What is done after the first call. *)
Again(k, r) == IF r.found = NULL THEN r ELSE GetLine(k, r.lowls)

CallsFrom(f, k, lowls, m) ==
    f = [i \in 1 .. m |-> IF i = 1 THEN GetLine(k, lowls) ELSE Again(k, f[i - 1])]

\* Another call changes nothing when no line was left.
LEMMA AnotherCall ==
    ASSUME NEW S, NEW k \in LineKinds, NEW list \in Seq(S), NEW i \in Nat \ {0},
           NEW r, Answers(r, k, list, i, S)
    PROVE  Answers(Again(k, r), k, list, i + 1, S)
<1>1. i + 1 \in Nat \ {0} /\ (i + 1) + 1 \in Nat /\ Len(list) \in Nat
    OBVIOUS
<1>2. CASE r.found # NULL
    BY <1>1, <1>2, OneCall DEF Answers, Again
<1>3. CASE r.found = NULL
  <2>1. ~(i <= Len(list))
    BY <1>3 DEF Answers
  <2>2. SubSeq(list, i + 1, Len(list)) = << >> /\ SubSeq(list, (i + 1) + 1, Len(list)) = << >>
    BY <1>1, <2>1, SubSeqEmpty
  <2> QED
    BY <1>1, <1>3, <2>1, <2>2 DEF Answers, Again, IsRest
<1> QED
    BY <1>2, <1>3

\* The calls of a new beginning can be made.
LEMMA CallsExist ==
    ASSUME NEW k, NEW lowls, NEW m \in Nat \ {0}
    PROVE  \E f : CallsFrom(f, k, lowls, m)
<1> DEFINE Bad == {i \in 1 .. m : ~\E f : CallsFrom(f, k, lowls, i)}
<1>1. ASSUME Bad # {}
      PROVE  FALSE
  <2>1. Bad \in SUBSET Nat
    OBVIOUS
  <2>2. PICK i \in Bad : \A j \in Bad : i <= j
    BY <1>1, <2>1, HasLeast
  <2>3. i \in 1 .. m /\ ~\E f : CallsFrom(f, k, lowls, i)
    BY <2>2
  <2> HIDE DEF Bad
  <2>4. CASE i = 1
    <3>1. CallsFrom([j \in 1 .. 1 |-> GetLine(k, lowls)], k, lowls, 1)
      BY DEF CallsFrom
    <3> QED
      BY <2>3, <2>4, <3>1
  <2>5. CASE i # 1
    <3>1. i - 1 \in 1 .. m /\ i - 1 \notin Bad /\ i - 1 \in 1 .. i - 1 /\ i \in Nat
      BY <2>2, <2>3, <2>5
    <3>2. PICK f : CallsFrom(f, k, lowls, i - 1)
      BY <3>1 DEF Bad
    <3> DEFINE g == [j \in 1 .. i |-> IF j = i THEN Again(k, f[i - 1]) ELSE f[j]]
    <3>3. \A j \in 1 .. i - 1 : f[j] = IF j = 1 THEN GetLine(k, lowls) ELSE Again(k, f[j - 1])
      <4> HIDE DEF g
      <4>1. f = [j \in 1 .. i - 1 |-> IF j = 1 THEN GetLine(k, lowls) ELSE Again(k, f[j - 1])]
        BY <3>2 DEF CallsFrom
      <4> QED
        BY <4>1
    <3>4. \A j \in 1 .. i : g[j] = IF j = 1 THEN GetLine(k, lowls) ELSE Again(k, g[j - 1])
      <4> SUFFICES ASSUME NEW j \in 1 .. i
                   PROVE  g[j] = IF j = 1 THEN GetLine(k, lowls) ELSE Again(k, g[j - 1])
        OBVIOUS
      <4>1. CASE j = i
        <5>1. g[j] = Again(k, f[i - 1]) /\ g[j - 1] = f[i - 1] /\ j # 1
          BY <2>5, <3>1, <4>1
        <5> QED
          BY <4>1, <5>1
      <4>2. CASE j # i
        <5>1. j \in 1 .. i - 1 /\ (j # 1 => j - 1 \in 1 .. i - 1)
          BY <3>1, <4>2
        <5>2. g[j] = f[j] /\ (j # 1 => g[j - 1] = f[j - 1])
          BY <3>1, <4>2, <5>1
        <5> QED
          BY <3>3, <5>1, <5>2
      <4> QED
        BY <4>1, <4>2
    <3>5. g = [j \in 1 .. i |-> g[j]]
      OBVIOUS
    <3> HIDE DEF g
    <3>6. CallsFrom(g, k, lowls, i)
      <4>1. [j \in 1 .. i |-> g[j]]
              = [j \in 1 .. i |-> IF j = 1 THEN GetLine(k, lowls) ELSE Again(k, g[j - 1])]
        BY <3>4
      <4> QED
        BY <3>5, <4>1 DEF CallsFrom
    <3> QED
      BY <2>3, <3>6
  <2> QED
    BY <2>4, <2>5
<1>2. m \in 1 .. m
    OBVIOUS
<1> QED
    BY <1>1, <1>2

\* fget_station_scan and fget_data_transfer_scan, when they begin anew, give
\* the nth line of the list.
LEMMA CallsAnswer ==
    ASSUME NEW S, NEW k \in LineKinds, NEW lowls \in Seq(S), n \in Nat \ {0}
    PROVE  Answers(NthFrom(k, lowls), k, Of(lowls, k), n, S)
<1> DEFINE F == CHOOSE f : CallsFrom(f, k, lowls, n)
           list == Of(lowls, k)
<1>1. CallsFrom(F, k, lowls, n)
    BY CallsExist
<1>2. NthFrom(k, lowls) = F[n]
    BY DEF NthFrom, CallsFrom, Again
<1>3. list \in Seq(S) /\ IsRest(lowls, k, list, 1)
  <2>1. list \in Seq(S)
    BY LineFound
  <2> QED
    BY <2>1, SubSeqFull DEF IsRest
<1> HIDE DEF F, list
<1>4. \A i \in 1 .. n : F[i] = IF i = 1 THEN GetLine(k, lowls) ELSE Again(k, F[i - 1])
  <2>1. F = [i \in 1 .. n |-> IF i = 1 THEN GetLine(k, lowls) ELSE Again(k, F[i - 1])]
    BY <1>1 DEF CallsFrom
  <2> QED
    BY <2>1
<1> DEFINE Bad == {i \in 1 .. n : ~Answers(F[i], k, list, i, S)}
<1>5. ASSUME Bad # {}
      PROVE  FALSE
  <2>1. Bad \in SUBSET Nat
    OBVIOUS
  <2>2. PICK i \in Bad : \A j \in Bad : i <= j
    BY <1>5, <2>1, HasLeast
  <2>3. i \in 1 .. n /\ ~Answers(F[i], k, list, i, S)
    BY <2>2
  <2>4. CASE i = 1
    BY <1>3, <1>4, <2>3, <2>4, OneCall
  <2>5. CASE i # 1
    <3>1. i - 1 \in 1 .. n /\ i - 1 \notin Bad /\ i - 1 \in Nat \ {0} /\ (i - 1) + 1 = i
      BY <2>2, <2>3, <2>5
    <3>2. Answers(F[i - 1], k, list, i - 1, S)
      BY <3>1
    <3> HIDE DEF Bad
    <3>3. Answers(Again(k, F[i - 1]), k, list, (i - 1) + 1, S)
      BY <1>3, <3>1, <3>2, AnotherCall
    <3> QED
      BY <1>4, <2>3, <2>5, <3>1, <3>3
  <2> QED
    BY <2>4, <2>5
<1>6. n \in 1 .. n
    OBVIOUS
<1>7. Answers(F[n], k, list, n, S)
    BY <1>5, <1>6
<1> QED
    BY <1>2, <1>7 DEF list

-----------------------------------------------------------------------------
(* What fget_station_scan and fget_data_transfer_scan remember: from the    *)
(* second call on, the lines of the scan in hand that are still to come.    *)
Standing(k) ==
    n # 1 => /\ place[k].lowls \in Seq(ToSet(save_lowls))
             /\ IsRest(place[k].lowls, k, Of(save_lowls, k), n)

(* The nth line of the scan in hand is found, and the next is at hand. *)
NthFound(k) ==
    /\ save_ptr' = Nth(k, n)
    /\ save_ptr' # NULL <=> n <= Len(Of(save_lowls, k))
    /\ save_ptr' # NULL => save_ptr' = Of(save_lowls, k)[n]
    /\ place' = [x \in LineKinds |-> place'[x]]
    /\ place'[k].lowls \in Seq(ToSet(save_lowls))
    /\ IsRest(place'[k].lowls, k, Of(save_lowls, k), n + 1)

\* Going on from the last line and beginning anew both find the nth.
LEMMA NthAnswered ==
    ASSUME NEW k \in LineKinds, n \in Nat \ {0}, save_lowls \in Seq(ToSet(save_lowls)),
           save_lowls # << >>, place = [x \in LineKinds |-> place[x]],
           Standing(k), FgetNth(k)
    PROVE  NthFound(k)
<1> DEFINE S == ToSet(save_lowls)
           list == Of(save_lowls, k)
           from == IF save_lowls # << >> THEN save_lowls ELSE place[k].lowls
           r    == IF GoesOn(k) THEN GetLine(k, place[k].lowls) ELSE NthFrom(k, from)
<1>1. list \in Seq(S)
    BY LineFound
<1>2. Answers(r, k, list, n, S)
  <2>1. CASE GoesOn(k)
    <3>1. place[k].lowls \in Seq(S) /\ IsRest(place[k].lowls, k, list, n)
      BY <2>1 DEF GoesOn, Standing
    <3> HIDE DEF S, list
    <3>2. Answers(GetLine(k, place[k].lowls), k, list, n, S)
      BY <1>1, <3>1, OneCall
    <3> QED
      BY <2>1, <3>2
  <2>2. CASE ~GoesOn(k)
    <3>1. save_lowls \in Seq(S)
      OBVIOUS
    <3> HIDE DEF S
    <3>2. Answers(NthFrom(k, save_lowls), k, Of(save_lowls, k), n, S)
      BY <3>1, CallsAnswer
    <3> QED
      BY <2>2, <3>2
  <2> QED
    BY <2>1, <2>2
<1> DEFINE new == [lowls       |-> r.lowls,
                   save_n      |-> IF r.found = NULL THEN place[k].save_n ELSE n,
                   save2_lowls |-> IF GoesOn(k) THEN place[k].save2_lowls ELSE save_lowls]
<1>3. save_ptr' = r.found /\ place' = [place EXCEPT ![k] = new]
    BY DEF FgetNth
<1>4. new.lowls = r.lowls
    OBVIOUS
<1> HIDE DEF r, new, S, list
<1>5. place' = [x \in LineKinds |-> place'[x]] /\ place'[k] = new
    BY <1>3
<1> QED
    BY <1>2, <1>3, <1>4, <1>5 DEF Answers, NthFound, Nth, S, list

-----------------------------------------------------------------------------
(* The inductive invariant: where the walks stand.                          *)
InHand == stage \in {"station", "transfer"}

Going == InHand \/ (stage = "scan" /\ nobs > 0)

(* What the records are made of. *)
Names   == {s.name : s \in ToSet(file)}
Indices == {Ivgtmo(s.mode) : s \in ToSet(file)}
Records == [name : Names, icod : Indices, stations : Seq(Known)]

(* The scans taken from the file; the last is the one in hand. *)
Taken == Len(Scans) - Len(Of(scan_walk.defs, "scan"))

Typed ==
    /\ file \in Files
    /\ stage \in {"scan", "station", "transfer", "done", "error"}
    /\ kfirst_station \in BOOLEAN
    /\ place = [x \in LineKinds |-> place[x]]
    /\ obs \in Seq(Records)
    /\ InHand => scan \in [name : Names, icod : Indices]

WalkStands ==
    Going => /\ scan_walk.state
             /\ scan_walk.defs \in Seq(ToSet(file))
             /\ Taken \in DOMAIN Scans
             /\ IsRest(scan_walk.defs, "scan", Scans, Taken + 1)

LinesInHand ==
    InHand => /\ n \in Nat \ {0}
              /\ save_lowls # << >>
              /\ save_lowls = Scans[Taken].refs
              /\ save_lowls \in Seq(ToSet(save_lowls))

PlaceStands ==
    /\ stage = "station" => Standing("station")
    /\ stage = "transfer" => Standing("data_transfer")

WalkInv == Typed /\ WalkStands /\ LinesInHand /\ PlaceStands

\* The scans of the file.
LEMMA ScansOfFile ==
    ASSUME file \in Files
    PROVE  /\ file \in Seq(ToSet(file)) /\ Scans \in Seq(ToSet(file)) /\ Len(Scans) \in Nat
           /\ DOMAIN Scans = 1 .. Len(Scans)
           /\ \A s \in ToSet(file) : s.statement = "scan" => s.refs \in Seq(ToSet(s.refs))
<1>1. /\ file \in Seq(ToSet(file))
      /\ \A s \in ToSet(file) : s.statement = "scan" => s.refs \in Seq(ToSet(s.refs))
    BY ScansAssumption
<1> DEFINE S == ToSet(file)
<1>2. file \in Seq(S)
    BY <1>1
<1> HIDE DEF S
<1>3. Scans \in Seq(S)
    BY <1>2, LineFound DEF Scans
<1> QED
    BY <1>1, <1>3 DEF S

\* What is left of the scans tells how many are taken.
LEMMA TakenIs ==
    ASSUME NEW S, NEW k, NEW list \in Seq(S), NEW left, NEW i \in Nat, i <= Len(list),
           IsRest(left, k, list, i + 1)
    PROVE  Len(list) - Len(Of(left, k)) = i
<1> DEFINE m == Len(list)
           rest == Of(left, k)
<1>1. m \in Nat /\ rest = SubSeq(list, i + 1, m)
    BY DEF IsRest
<1>2. Len(SubSeq(list, i + 1, m)) = IF i + 1 <= m THEN m - (i + 1) + 1 ELSE 0
  <2>1. \A j \in i + 1 .. m : list[j] \in S
    BY ElementOfSeq
  <2> QED
    BY <1>1, <2>1, SubSeqProperties
<1> HIDE DEF rest, m
<1>3. Len(rest) = m - i
    BY <1>1, <1>2 DEF m
<1> QED
    BY <1>1, <1>3 DEF m, rest

(* What the next scan is. *)
NextOne == IF nobs = 0 THEN 1 ELSE Taken + 1

\* get_scan gives the next scan, and the first again as long as there is no
\* record.
LEMMA ScanGiven ==
    ASSUME WalkInv, stage = "scan", NEW here, here = GetScan(nobs = 0), FgetScan(here)
    PROVE  /\ here # << >> <=> NextOne <= Len(Scans)
           /\ NextOne \in Nat \ {0}
           /\ here # << >> => /\ Head(here) = Scans[NextOne] /\ Head(here) \in ToSet(file)
                              /\ Head(here).statement = "scan"
                              /\ scan_walk'.state
           /\ scan_walk'.defs \in Seq(ToSet(file))
           /\ IsRest(scan_walk'.defs, "scan", Scans, NextOne + 1)
<1> DEFINE S == ToSet(file)
           from == IF nobs = 0 THEN file ELSE scan_walk.defs
<1>1. file \in Seq(S) /\ Scans \in Seq(S) /\ Len(Scans) \in Nat
    BY ScansOfFile DEF WalkInv, Typed
<1>2. from \in Seq(S) /\ IsRest(from, "scan", Scans, NextOne) /\ NextOne \in Nat \ {0}
      /\ here = FindLowl(from, "scan")
  <2>1. CASE nobs = 0
    <3>1. IsRest(file, "scan", Scans, 1)
      <4> HIDE DEF S
      <4> QED
        BY <1>1, SubSeqFull DEF IsRest, Scans
    <3> QED
      BY <1>1, <2>1, <3>1 DEF NextOne, GetScan, FindNextScan
  <2>2. CASE nobs # 0
    <3>1. nobs \in Nat
      BY DEF WalkInv, Typed, nobs
    <3>2. Going
      BY <2>2, <3>1 DEF Going
    <3>3. scan_walk.state /\ scan_walk.defs \in Seq(S) /\ Taken \in DOMAIN Scans
          /\ IsRest(scan_walk.defs, "scan", Scans, Taken + 1)
      BY <3>2 DEF WalkInv, WalkStands
    <3> HIDE DEF S
    <3> QED
      BY <1>1, <2>2, <3>3 DEF NextOne, GetScan, FindNextScan
  <2> QED
    BY <2>1, <2>2
<1> DEFINE k == "scan"
<1> HIDE DEF S, from, k
<1>3. LET h == FindLowl(from, k)
      IN  /\ h # << >> <=> NextOne <= Len(Scans)
          /\ h # << >> => /\ Head(h) = Scans[NextOne] /\ Head(h) \in S
                          /\ Head(h).statement = k
          /\ Behind(h) \in Seq(S)
          /\ IsRest(Behind(h), k, Scans, NextOne + 1)
  <2>1. IsRest(from, k, Scans, NextOne)
    BY <1>2 DEF k
  <2> QED
    BY <1>1, <1>2, <2>1, NextOf
<1>4. scan_walk'.defs = Behind(here) /\ (here # << >> => scan_walk'.state)
    BY DEF FgetScan
<1> QED
    BY <1>2, <1>3, <1>4 DEF S, k

\* find_lowl finds nothing in an empty list.
LEMMA NothingFound ==
    ASSUME NEW k
    PROVE  FindLowl(<< >>, k) = << >>
<1>1. FindLowl(<< >>, k) \in Seq({})
  <2>1. << >> \in Seq({})
    OBVIOUS
  <2> QED
    BY <2>1, LineFound
<1> DEFINE here == FindLowl(<< >>, k)
<1> HIDE DEF here
<1>2. here # << >> => Head(here) \in {}
    BY <1>1, HeadTailProperties DEF here
<1> QED
    BY <1>2 DEF here

\* The scan taken is the next of the file, and its lines are in hand.
LEMMA ScanTaken ==
    ASSUME WalkInv, NextScan
    PROVE  /\ WalkInv' /\ Scans' = Scans
           /\ stage' \in {"station", "done", "error"}
           /\ stage' = "done" => ~(NextOne <= Len(Scans))
           /\ stage' = "station" =>
                /\ n' = 1 /\ kfirst_station' = TRUE /\ Taken' = NextOne
                /\ NextOne \in 1 .. Len(Scans) /\ Scans[NextOne] \in ToSet(file)
                /\ scan' = [name |-> Scans[NextOne].name,
                            icod |-> Ivgtmo(Scans[NextOne].mode)]
<1> DEFINE here == GetScan(nobs = 0)
<1>1. stage = "scan" /\ FgetScan(here)
    BY DEF NextScan
<1>2. /\ here # << >> <=> NextOne <= Len(Scans)
      /\ NextOne \in Nat \ {0}
      /\ here # << >> => /\ Head(here) = Scans[NextOne] /\ Head(here) \in ToSet(file)
                         /\ Head(here).statement = "scan"
                         /\ scan_walk'.state
      /\ scan_walk'.defs \in Seq(ToSet(file))
      /\ IsRest(scan_walk'.defs, "scan", Scans, NextOne + 1)
    BY <1>1, ScanGiven
<1>3. /\ file \in Seq(ToSet(file)) /\ Scans \in Seq(ToSet(file)) /\ Len(Scans) \in Nat
      /\ DOMAIN Scans = 1 .. Len(Scans)
      /\ \A s \in ToSet(file) : s.statement = "scan" => s.refs \in Seq(ToSet(s.refs))
    BY ScansOfFile DEF WalkInv, Typed
<1>4. file' = file /\ place' = place /\ save_lowls' = Lines(here) /\ obs' = obs
    BY <1>1 DEF NextScan, FgetScan, records
<1>5. Scans' = Scans /\ Names' = Names /\ Indices' = Indices /\ Records' = Records
    BY <1>4 DEF Scans, Names, Indices, Records
<1>6. \/ here = << >> /\ stage' = "done" /\ UNCHANGED kfirst_station
      \/ stage' = "error" /\ UNCHANGED kfirst_station
      \/ /\ here # << >> /\ ScanSource \in Sources /\ stage' = "station" /\ n' = 1
         /\ kfirst_station' = TRUE
         /\ scan' = [name |-> Head(here).name, icod |-> Ivgtmo(Head(here).mode)]
    BY DEF NextScan
<1> HIDE DEF here
<1>7. CASE stage' = "station"
  <2>1. /\ here # << >> /\ ScanSource \in Sources /\ n' = 1 /\ kfirst_station' = TRUE
        /\ scan' = [name |-> Head(here).name, icod |-> Ivgtmo(Head(here).mode)]
    BY <1>6, <1>7
  <2>2. NextOne \in 1 .. Len(Scans) /\ NextOne \in Nat
    BY <1>2, <1>3, <2>1
  <2>3. Taken' = NextOne
    <3>1. Len(Scans) - Len(Of(scan_walk'.defs, "scan")) = NextOne
      <4> DEFINE S == ToSet(file)
                 left == scan_walk'.defs
      <4>1. Scans \in Seq(S) /\ IsRest(left, "scan", Scans, NextOne + 1)
        BY <1>2, <1>3
      <4> HIDE DEF S, left
      <4>2. NextOne <= Len(Scans)
        BY <1>2, <2>1
      <4>3. Len(Scans) - Len(Of(left, "scan")) = NextOne
        BY <2>2, <4>1, <4>2, TakenIs
      <4> QED
        BY <4>3 DEF left
    <3> QED
      BY <1>5, <3>1 DEF Taken
  <2>4. save_lowls' = Scans[NextOne].refs /\ save_lowls' \in Seq(ToSet(save_lowls'))
    BY <1>2, <1>3, <1>4, <2>1 DEF Lines
  <2>5. save_lowls' # << >>
    BY <2>1, ScansAssumption, NothingFound DEF ScanSource, GetScanSource
  <2>6. WalkStands'
    BY <1>2, <1>3, <1>4, <1>5, <2>1, <2>2, <2>3 DEF WalkStands, Going
  <2>7. LinesInHand'
    BY <1>5, <2>1, <2>3, <2>4, <2>5 DEF LinesInHand
  <2>8. PlaceStands'
    BY <1>7, <2>1 DEF PlaceStands, Standing
  <2>9. Typed'
    <3>1. scan' \in [name : Names, icod : Indices]
      BY <1>2, <2>1 DEF Names, Indices
    <3> QED
      BY <1>4, <1>5, <1>7, <2>1, <3>1 DEF WalkInv, Typed
  <2> QED
    BY <1>2, <1>5, <1>7, <2>1, <2>2, <2>3, <2>6, <2>7, <2>8, <2>9 DEF WalkInv
<1>8. CASE stage' # "station"
  <2>1. stage' \in {"done", "error"} /\ kfirst_station' = kfirst_station
        /\ (stage' = "done" => here = << >>)
    BY <1>6, <1>8
  <2>2. WalkStands' /\ LinesInHand' /\ PlaceStands'
    BY <2>1 DEF WalkStands, LinesInHand, PlaceStands, Going, InHand
  <2>3. Typed'
    BY <1>4, <1>5, <2>1 DEF WalkInv, Typed, InHand
  <2> QED
    BY <1>2, <1>5, <2>1, <2>2, <2>3 DEF WalkInv
<1> QED
    BY <1>7, <1>8

\* The loops over the lines leave the walk over the scans alone.
LEMMA ScanKept ==
    ASSUME WalkInv, InHand, UNCHANGED <<file, scan_walk, save_lowls, scan>>,
           obs' \in Seq(Records), kfirst_station' \in BOOLEAN,
           place' = [x \in LineKinds |-> place'[x]],
           stage' \in {"scan", "station", "transfer", "error"},
           InHand' => n' \in Nat \ {0} /\ PlaceStands'
    PROVE  WalkInv' /\ Scans' = Scans /\ Taken' = Taken
<1>1. /\ Scans' = Scans /\ Taken' = Taken /\ Names' = Names /\ Indices' = Indices
      /\ Records' = Records
    BY DEF Scans, Taken, Names, Indices, Records
<1>2. Typed'
    BY <1>1 DEF WalkInv, Typed
<1>3. WalkStands'
    BY <1>1 DEF WalkInv, WalkStands, Going
<1>4. LinesInHand'
    BY <1>1 DEF WalkInv, LinesInHand
<1>5. PlaceStands'
    BY DEF PlaceStands, InHand
<1> QED
    BY <1>1, <1>2, <1>3, <1>4, <1>5 DEF WalkInv

(* The loop over the lines of a kind. *)
LoopOver(k) == \/ stage = "station" /\ k = "station"
               \/ stage = "transfer" /\ k = "data_transfer"

\* One turn of a loop finds the nth line of the scan in hand.
LEMMA TurnFinds ==
    ASSUME WalkInv, NEW k, LoopOver(k), FgetNth(k)
    PROVE  InHand /\ NthFound(k)
<1>1. InHand /\ k \in LineKinds /\ Standing(k)
    BY DEF LoopOver, InHand, LineKinds, WalkInv, PlaceStands
<1> QED
    BY <1>1, NthAnswered DEF WalkInv, Typed, LinesInHand

\* After a turn the next line is at hand.
LEMMA TurnStands ==
    ASSUME WalkInv, NEW k, LoopOver(k), NthFound(k), save_lowls' = save_lowls,
           stage' = stage, n' = n + 1
    PROVE  n' \in Nat \ {0} /\ PlaceStands'
<1>1. n \in Nat \ {0}
    BY DEF WalkInv, LinesInHand, LoopOver, InHand
<1>2. Standing(k)'
    BY DEF NthFound, Standing
<1> QED
    BY <1>1, <1>2 DEF PlaceStands, LoopOver

\* newscan and addscan make records.
LEMMA StoredType ==
    ASSUME WalkInv, InHand, NEW key \in Known
    PROVE  /\ Stored(key) \in Seq(Records)
           /\ ~kfirst_station => Len(Stored(key)) = nobs
           /\ kfirst_station /\ nobs < MaxObs => Len(Stored(key)) = nobs + 1
<1>1. obs \in Seq(Records) /\ scan \in [name : Names, icod : Indices] /\ nobs \in Nat
    BY DEF WalkInv, Typed, nobs
<1>2. CASE ~kfirst_station
  <2> DEFINE added == [obs EXCEPT ![nobs].stations = Append(@, key)]
  <2>1. ASSUME NEW i \in 1 .. nobs
        PROVE  added[i] \in Records
    <3>1. obs[i] \in Records
      BY <1>1, ElementOfSeq DEF nobs
    <3>2. Append(obs[i].stations, key) \in Seq(Known)
      BY <3>1 DEF Records
    <3>3. [obs[i] EXCEPT !.stations = Append(obs[i].stations, key)] \in Records
      BY <3>1, <3>2 DEF Records
    <3>4. DOMAIN obs = 1 .. nobs
      BY <1>1 DEF nobs
    <3>5. added[i] = IF i = nobs THEN [obs[i] EXCEPT !.stations = Append(obs[i].stations, key)]
                     ELSE obs[i]
      BY <3>4
    <3> QED
      BY <3>1, <3>3, <3>5
  <2>2. added = [i \in 1 .. nobs |-> added[i]]
    <3>1. DOMAIN obs = 1 .. nobs
      BY <1>1 DEF nobs
    <3> QED
      BY <3>1
  <2> HIDE DEF added
  <2>3. added \in Seq(Records) /\ Len(added) = nobs
    BY <1>1, <2>1, <2>2
  <2> QED
    BY <1>2, <2>3 DEF Stored, added
<1>3. CASE kfirst_station /\ nobs < MaxObs
  <2> DEFINE new == [name |-> scan.name, icod |-> scan.icod, stations |-> <<key>>]
  <2>1. <<key>> \in Seq(Known)
    OBVIOUS
  <2>2. new \in Records
    BY <1>1, <2>1 DEF Records
  <2> HIDE DEF new
  <2>3. Append(obs, new) \in Seq(Records) /\ Len(Append(obs, new)) = Len(obs) + 1
    BY <1>1, <2>2, AppendProperties
  <2> QED
    BY <1>3, <2>3 DEF Stored, new, nobs
<1>4. CASE kfirst_station /\ ~(nobs < MaxObs)
  <2> DEFINE named == [obs EXCEPT ![nobs].name = scan.name]
  <2>1. ASSUME NEW i \in 1 .. nobs
        PROVE  named[i] \in Records
    <3>1. obs[i] \in Records
      BY <1>1, ElementOfSeq DEF nobs
    <3>2. [obs[i] EXCEPT !.name = scan.name] \in Records
      BY <1>1, <3>1 DEF Records
    <3>3. DOMAIN obs = 1 .. nobs
      BY <1>1 DEF nobs
    <3>4. named[i] = IF i = nobs THEN [obs[i] EXCEPT !.name = scan.name] ELSE obs[i]
      BY <3>3
    <3> QED
      BY <3>1, <3>2, <3>4
  <2>2. named = [i \in 1 .. nobs |-> named[i]]
    <3>1. DOMAIN obs = 1 .. nobs
      BY <1>1 DEF nobs
    <3> QED
      BY <3>1
  <2> HIDE DEF named
  <2>3. named \in Seq(Records)
    BY <1>1, <2>1, <2>2
  <2> QED
    BY <1>4, <2>3 DEF Stored, named
<1> QED
    BY <1>2, <1>3, <1>4 DEF WalkInv, Typed

\* Every step keeps the walks where they stand.
LEMMA WalkNext ==
    ASSUME WalkInv, [Next]_vars
    PROVE  WalkInv'
<1>1. CASE NextScan
    BY <1>1, ScanTaken
<1>2. CASE StationLine
  <2>1. LoopOver("station") /\ FgetNth("station") /\ save_lowls' = save_lowls
        /\ UNCHANGED <<file, scan_walk, scan>> /\ stage = "station"
    BY <1>2 DEF StationLine, LoopOver
  <2>2. InHand /\ NthFound("station")
    BY <2>1, TurnFinds
  <2>3. obs' \in Seq(Records) /\ kfirst_station' \in BOOLEAN
    <3>1. CASE save_ptr'.key \in Known /\ obs' = Stored(save_ptr'.key) /\ kfirst_station' = FALSE
      <4> DEFINE key == save_ptr'.key
      <4>1. key \in Known
        BY <3>1
      <4> HIDE DEF key
      <4>2. Stored(key) \in Seq(Records)
        BY <2>2, <4>1, StoredType
      <4> QED
        BY <3>1, <4>2 DEF key
    <3>2. CASE UNCHANGED <<obs, kfirst_station>>
      BY <3>2 DEF WalkInv, Typed
    <3> QED
      BY <1>2, <3>1, <3>2 DEF StationLine
  <2>4. stage' = "error" \/ (stage' = stage /\ n' = n + 1)
    BY <1>2, <2>1 DEF StationLine
  <2>5. stage' = stage => n' \in Nat \ {0} /\ PlaceStands'
    BY <2>1, <2>2, <2>4, TurnStands
  <2> QED
    BY <2>1, <2>2, <2>3, <2>4, <2>5, ScanKept DEF NthFound, InHand
<1>3. CASE NoStationLine
  <2>1. /\ LoopOver("station") /\ FgetNth("station") /\ save_lowls' = save_lowls
        /\ UNCHANGED <<file, scan_walk, scan, obs, kfirst_station>> /\ stage = "station"
        /\ stage' = stage /\ n' = n + 1
    BY <1>3 DEF NoStationLine, LoopOver, records
  <2>2. InHand /\ NthFound("station")
    BY <2>1, TurnFinds
  <2>3. n' \in Nat \ {0} /\ PlaceStands'
    BY <2>1, <2>2, TurnStands
  <2>4. obs' \in Seq(Records) /\ kfirst_station' \in BOOLEAN
    BY <2>1 DEF WalkInv, Typed
  <2> QED
    BY <2>1, <2>2, <2>3, <2>4, ScanKept DEF NthFound
<1>4. CASE StationsRead
  <2>1. /\ stage = "station" /\ stage' = "transfer" /\ n' = 1 /\ place' = place
        /\ UNCHANGED <<file, scan_walk, save_lowls, scan, obs, kfirst_station>>
    BY <1>4 DEF StationsRead, session
  <2>2. InHand /\ PlaceStands'
    BY <2>1 DEF InHand, PlaceStands, Standing
  <2> QED
    BY <2>1, <2>2, ScanKept DEF WalkInv, Typed
<1>5. CASE TransferLine
  <2>1. /\ LoopOver("data_transfer") /\ FgetNth("data_transfer") /\ save_lowls' = save_lowls
        /\ UNCHANGED <<file, scan_walk, scan, obs, kfirst_station>> /\ stage = "transfer"
        /\ stage' = "error" \/ (stage' = stage /\ n' = n + 1)
    BY <1>5 DEF TransferLine, LoopOver
  <2>2. InHand /\ NthFound("data_transfer")
    BY <2>1, TurnFinds
  <2>3. stage' = stage => n' \in Nat \ {0} /\ PlaceStands'
    BY <2>1, <2>2, TurnStands
  <2>4. obs' \in Seq(Records) /\ kfirst_station' \in BOOLEAN
    BY <2>1 DEF WalkInv, Typed
  <2> QED
    BY <2>1, <2>2, <2>3, <2>4, ScanKept DEF NthFound, InHand
<1>6. CASE TransfersRead
  <2>1. /\ LoopOver("data_transfer") /\ stage = "transfer" /\ stage' = "scan"
        /\ UNCHANGED <<file, scan_walk, save_lowls, scan, obs, kfirst_station>>
        /\ FgetNth("data_transfer") \/ place' = place
    BY <1>6 DEF TransfersRead, LoopOver
  <2>2. InHand /\ place' = [x \in LineKinds |-> place'[x]]
    <3>1. CASE FgetNth("data_transfer")
      BY <2>1, <3>1, TurnFinds DEF NthFound
    <3>2. CASE place' = place
      BY <2>1, <3>2 DEF WalkInv, Typed, InHand
    <3> QED
      BY <2>1, <3>1, <3>2
  <2> QED
    BY <2>1, <2>2, ScanKept DEF WalkInv, Typed, InHand
<1>7. CASE UNCHANGED vars
  <2>1. UNCHANGED <<file, scan_walk, place, save_lowls, stage, n, scan, kfirst_station, obs>>
    BY <1>7 DEF vars, session, records
  <2>2. Scans' = Scans /\ Taken' = Taken /\ Records' = Records /\ Names' = Names
        /\ Indices' = Indices
    BY <2>1 DEF Scans, Taken, Records, Names, Indices
  <2>3. Typed'
    BY <2>1, <2>2 DEF WalkInv, Typed, InHand
  <2>4. WalkStands' /\ LinesInHand'
    BY <2>1, <2>2 DEF WalkInv, WalkStands, LinesInHand, InHand, Going, nobs
  <2>5. PlaceStands'
    BY <2>1 DEF WalkInv, PlaceStands, Standing
  <2> QED
    BY <2>3, <2>4, <2>5 DEF WalkInv
<1> QED
    BY <1>1, <1>2, <1>3, <1>4, <1>5, <1>6, <1>7 DEF Next

\* At first nothing is taken.
LEMMA WalkInit ==
    ASSUME Init
    PROVE  WalkInv
<1>1. /\ stage = "scan" /\ obs = << >> /\ file \in Files /\ kfirst_station = TRUE
      /\ place = [k \in LineKinds |-> [lowls |-> << >>, save_n |-> 0, save2_lowls |-> << >>]]
    BY DEF Init
<1>2. nobs = 0 /\ obs \in Seq(Records) /\ ~InHand /\ ~Going
    BY <1>1 DEF nobs, InHand, Going
<1>3. place = [x \in LineKinds |-> place[x]]
    BY <1>1
<1> QED
    BY <1>1, <1>2, <1>3 DEF WalkInv, Typed, WalkStands, LinesInHand, PlaceStands

\* fget_station_scan(n) and fget_data_transfer_scan(n) find the nth line of the
\* scan in hand, going on or beginning anew, whatever was read before.
THEOREM NthLineFound == Spec => NthLine
<1>1. ASSUME WalkInv, [Next]_vars
      PROVE  [/\ stage = "station" /\ n <= nstatn => save_ptr' = Nth("station", n)
              /\ stage = "transfer" /\ n <= MaxStn => save_ptr' = Nth("data_transfer", n)]_vars
  <2>1. CASE stage = "station" /\ n <= nstatn /\ ~UNCHANGED vars
    <3>1. ~(n > nstatn)
      <4>1. nstatn \in Nat
        BY ScansAssumption, FS_CardinalityType DEF nstatn
      <4>2. n \in Nat
        BY <1>1, <2>1 DEF WalkInv, LinesInHand, InHand
      <4> QED
        BY <2>1, <4>1, <4>2
    <3>2. LoopOver("station") /\ FgetNth("station")
      BY <1>1, <2>1, <3>1 DEF Next, NextScan, StationLine, NoStationLine, StationsRead,
         TransferLine, TransfersRead, LoopOver
    <3> QED
      BY <1>1, <2>1, <3>2, TurnFinds DEF NthFound
  <2>2. CASE stage = "transfer" /\ n <= MaxStn /\ ~UNCHANGED vars
    <3>1. LoopOver("data_transfer") /\ FgetNth("data_transfer")
      BY <1>1, <2>2 DEF Next, NextScan, StationLine, NoStationLine, StationsRead,
         TransferLine, TransfersRead, LoopOver
    <3> QED
      BY <1>1, <2>2, <3>1, TurnFinds DEF NthFound
  <2> QED
    BY <2>1, <2>2
<1>2. WalkInv /\ [Next]_vars => WalkInv'
    BY WalkNext
<1>3. Init => WalkInv
    BY WalkInit
<1> QED
    BY <1>1, <1>2, <1>3, PTL DEF Spec, NthLine

-----------------------------------------------------------------------------
(* The stations that are known, from a line of the scan on. *)
KnownFrom(lines, i) == KnownIn(SubSeq(lines, i, Len(lines)))

KnownAt(line) == IF line.key \in Known THEN <<line.key>> ELSE << >>

\* They are that of the line, and those of the lines behind it.
LEMMA KnownRest ==
    ASSUME NEW T, NEW lines \in Seq(T), NEW i \in 1 .. Len(lines) + 1
    PROVE  /\ KnownFrom(lines, i) \in Seq(Known)
           /\ i > Len(lines) => KnownFrom(lines, i) = << >>
           /\ i <= Len(lines) =>
                KnownFrom(lines, i) = KnownAt(lines[i]) \o KnownFrom(lines, i + 1)
<1> DEFINE f == [x \in T |-> KnownAt(x)]
           Made(l) == [j \in DOMAIN l |-> f[l[j]]]
           m == Len(lines)
           made == Made(lines)
<1>1. m \in Nat
    OBVIOUS
<1>2. f \in [T -> Seq(Known)]
  <2>1. \A x \in T : KnownAt(x) \in Seq(Known)
    BY DEF KnownAt
  <2> QED
    BY <2>1
<1>3. ASSUME NEW l \in Seq(T)
      PROVE  KnownIn(l) = FlattenSeq(Made(l))
  <2>1. \A j \in DOMAIN l : l[j] \in T
    BY ElementOfSeq
  <2>2. Made(l) = [j \in DOMAIN l |-> IF l[j].key \in Known THEN <<l[j].key>> ELSE << >>]
    BY <2>1 DEF KnownAt
  <2> QED
    BY <2>2 DEF KnownIn
<1> HIDE DEF f
<1>4. ASSUME NEW j \in 1 .. m + 1
      PROVE  /\ made \in Seq(Seq(Known)) /\ Len(made) = m
             /\ SubSeq(made, j, m) = Made(SubSeq(lines, j, m))
  <2> DEFINE U == Seq(Known)
  <2>1. f \in [T -> U]
    BY <1>2
  <2> HIDE DEF U
  <2>2. made \in Seq(U) /\ Len(made) = m /\ SubSeq(made, j, m) = Made(SubSeq(lines, j, m))
    BY <2>1, MapRest
  <2> QED
    BY <2>2 DEF U
<1>5. \A j \in 1 .. m + 1 : KnownFrom(lines, j) = FlattenSeq(SubSeq(made, j, m))
  <2> SUFFICES ASSUME NEW j \in 1 .. m + 1
               PROVE  KnownFrom(lines, j) = FlattenSeq(SubSeq(made, j, m))
    OBVIOUS
  <2>1. SubSeq(lines, j, m) \in Seq(T)
    BY RestOf
  <2>2. KnownFrom(lines, j) = KnownIn(SubSeq(lines, j, m))
    BY DEF KnownFrom
  <2> HIDE DEF Made, m, made
  <2> QED
    BY <1>3, <1>4, <2>1, <2>2
<1>6. \A j \in 1 .. m + 1 : KnownFrom(lines, j) \in Seq(Known)
  <2> SUFFICES ASSUME NEW j \in 1 .. m + 1
               PROVE  KnownFrom(lines, j) \in Seq(Known)
    OBVIOUS
  <2> DEFINE U == Seq(Known)
             rest == SubSeq(made, j, m)
  <2>1. made \in Seq(U) /\ Len(made) = m
    BY <1>4
  <2> HIDE DEF U, made, Made, m
  <2>2. rest \in Seq(U)
    BY <2>1, RestOf
  <2> HIDE DEF rest
  <2>3. FlattenSeq(rest) \in Seq(Known)
    BY <2>2, FlattenType DEF U
  <2> QED
    BY <1>5, <2>3 DEF rest
<1>7. ASSUME i > m
      PROVE  KnownFrom(lines, i) = << >>
  <2>1. SubSeq(made, i, m) = << >>
    BY <1>1, <1>7, SubSeqEmpty
  <2>2. FlattenSeq(<< >>) = << >>
    BY DEF FlattenSeq
  <2> QED
    BY <1>5, <2>1, <2>2
<1>8. ASSUME i <= m
      PROVE  KnownFrom(lines, i) = KnownAt(lines[i]) \o KnownFrom(lines, i + 1)
  <2> DEFINE U == Seq(Known)
             here == SubSeq(made, i, m)
  <2>1. made \in Seq(U) /\ Len(made) = m /\ i \in 1 .. m /\ i + 1 \in 1 .. m + 1
    BY <1>1, <1>4, <1>8
  <2>2. made[i] = KnownAt(lines[i])
    <3>1. lines[i] \in T /\ i \in DOMAIN lines
      BY <2>1, ElementOfSeq
    <3> QED
      BY <3>1 DEF f
  <2> HIDE DEF U, made, Made, m
  <2>3. here # << >> /\ Head(here) = made[i] /\ Tail(here) = SubSeq(made, i + 1, m)
    BY <2>1, HeadFrom
  <2>4. here \in Seq(U)
    BY <2>1, RestOf
  <2> HIDE DEF here
  <2>5. here \in Seq(Seq(Known))
    BY <2>4 DEF U
  <2>6. FlattenSeq(here) = here[1] \o FlattenSeq(Tail(here))
    BY <2>3, <2>5, FlattenCons
  <2>7. here[1] = Head(here)
    BY <2>3, <2>4, HeadTailProperties
  <2>8. KnownFrom(lines, i) = FlattenSeq(here)
        /\ KnownFrom(lines, i + 1) = FlattenSeq(SubSeq(made, i + 1, m))
    BY <1>5, <2>1 DEF here
  <2> QED
    BY <2>2, <2>3, <2>6, <2>7, <2>8
<1> QED
    BY <1>6, <1>7, <1>8 DEF m

-----------------------------------------------------------------------------
(* The inductive invariant: whose record is being made.                     *)
StationLines == Of(save_lowls, "station")

Own(i) ==
    \E j \in DOMAIN Scans :
        /\ obs[i].name = Scans[j].name /\ obs[i].icod = Ivgtmo(Scans[j].mode)
        /\ IsPrefix(obs[i].stations, KnownOf(Scans[j]))

(* Before the first station that is known the record is not made; then it is *)
(* the last, of the scan in hand, and lacks the stations still to come.      *)
RecordInHand ==
    /\ scan.name = Scans[Taken].name /\ scan.icod = Ivgtmo(Scans[Taken].mode)
    /\ kfirst_station => /\ nobs < Taken
                         /\ KnownFrom(StationLines, n) = KnownOf(Scans[Taken])
    /\ ~kfirst_station =>
          /\ nobs > 0 /\ obs[nobs].name = scan.name /\ obs[nobs].icod = scan.icod
          /\ obs[nobs].stations \o KnownFrom(StationLines, n) = KnownOf(Scans[Taken])

OwnInv ==
    Len(Scans) <= MaxObs =>
        /\ \A i \in 1 .. nobs : Own(i)
        /\ Going => nobs <= Taken
        /\ stage = "station" => RecordInHand

\* What is known of the lines of the scan in hand.
LEMMA LinesKnown ==
    ASSUME WalkInv, stage = "station"
    PROVE  LET all == KnownFrom(StationLines, n)
           IN  /\ n \in Nat \ {0} /\ nobs \in Nat
               /\ Taken \in 1 .. Len(Scans) /\ Len(Scans) \in Nat
               /\ StationLines \in Seq(ToSet(save_lowls)) /\ Len(StationLines) \in Nat
               /\ KnownOf(Scans[Taken]) = KnownFrom(StationLines, 1)
               /\ all \in Seq(Known) /\ KnownFrom(StationLines, n + 1) \in Seq(Known)
               /\ n > Len(StationLines) =>
                    all = << >> /\ KnownFrom(StationLines, n + 1) = << >>
               /\ n <= Len(StationLines) =>
                    all = KnownAt(StationLines[n]) \o KnownFrom(StationLines, n + 1)
<1> DEFINE T == ToSet(save_lowls)
           lines == StationLines
           m == Len(lines)
<1>1. /\ n \in Nat \ {0} /\ save_lowls \in Seq(T) /\ save_lowls = Scans[Taken].refs
      /\ Taken \in DOMAIN Scans /\ nobs \in Nat
    BY DEF WalkInv, Typed, WalkStands, LinesInHand, InHand, Going, nobs
<1>2. DOMAIN Scans = 1 .. Len(Scans) /\ Len(Scans) \in Nat
    BY ScansOfFile DEF WalkInv, Typed
<1> HIDE DEF T
<1>3. lines \in Seq(T)
    BY <1>1, LineFound DEF StationLines
<1>4. KnownOf(Scans[Taken]) = KnownFrom(lines, 1)
  <2>1. KnownOf(Scans[Taken]) = KnownIn(lines)
    BY <1>1 DEF KnownOf, StationLines
  <2> HIDE DEF lines
  <2>2. SubSeq(lines, 1, Len(lines)) = lines
    BY <1>3, SubSeqFull
  <2> QED
    BY <2>1, <2>2 DEF KnownFrom
<1> HIDE DEF lines
<1>5. m \in Nat
    BY <1>3
<1>6. CASE n > m
  <2>1. n > m /\ n + 1 > m
    BY <1>1, <1>5, <1>6
  <2>2. \A i \in {n, n + 1} : KnownFrom(lines, i) = << >>
    <3> SUFFICES ASSUME NEW i \in {n, n + 1}
                 PROVE  KnownFrom(lines, i) = << >>
      OBVIOUS
    <3>1. i \in Nat /\ i > m /\ 1 \in 1 .. m + 1
      BY <1>1, <1>5, <2>1
    <3>2. SubSeq(lines, i, m) = << >>
      BY <1>5, <3>1, SubSeqEmpty
    <3>3. KnownIn(<< >>) = << >>
      BY DEF KnownIn, FlattenSeq
    <3> QED
      BY <3>2, <3>3 DEF KnownFrom
  <2>3. << >> \in Seq(Known) /\ ~(n <= m)
    BY <1>1, <1>5, <1>6
  <2>4. KnownFrom(lines, n) = << >> /\ KnownFrom(lines, n + 1) = << >>
    BY <2>2
  <2> QED
    BY <1>1, <1>2, <1>3, <1>4, <1>5, <2>3, <2>4 DEF lines, T
<1>7. CASE ~(n > m)
  <2>1. n \in 1 .. m + 1 /\ n + 1 \in 1 .. m + 1 /\ n <= m
    BY <1>1, <1>5, <1>7
  <2> HIDE DEF m
  <2>2. /\ KnownFrom(lines, n) \in Seq(Known) /\ KnownFrom(lines, n + 1) \in Seq(Known)
        /\ KnownFrom(lines, n) = KnownAt(lines[n]) \o KnownFrom(lines, n + 1)
    BY <1>3, <2>1, KnownRest DEF m
  <2> QED
    BY <1>1, <1>2, <1>3, <1>4, <1>5, <1>7, <2>1, <2>2 DEF lines, T, m
<1> QED
    BY <1>6, <1>7

\* A station that is known goes to the end of the record of the scan in hand,
\* which is a new one for the first.
LEMMA StoredOwn ==
    ASSUME WalkInv, OwnInv, Len(Scans) <= MaxObs, stage = "station",
           n <= Len(StationLines), NEW key, key = StationLines[n].key, key \in Known
    PROVE  LET new  == Stored(key)
               last == Len(new)
           IN  /\ new \in Seq(Records)
               /\ last \in Nat \ {0} /\ last <= Taken
               /\ last = IF kfirst_station THEN nobs + 1 ELSE nobs
               /\ \A i \in 1 .. last - 1 : i \in 1 .. nobs /\ new[i] = obs[i]
               /\ new[last].name = scan.name /\ new[last].icod = scan.icod
               /\ new[last].stations \in Seq(Known)
               /\ new[last].stations \o KnownFrom(StationLines, n + 1) = KnownOf(Scans[Taken])
<1> DEFINE new == Stored(key)
           rest == KnownFrom(StationLines, n + 1)
           one == <<key>>
<1>1. /\ nobs \in Nat /\ Taken \in 1 .. Len(Scans) /\ Len(Scans) \in Nat
      /\ rest \in Seq(Known) /\ KnownFrom(StationLines, n) = one \o rest
      /\ one \in Seq(Known)
    BY LinesKnown DEF KnownAt
<1>2. obs \in Seq(Records) /\ DOMAIN obs = 1 .. nobs
    BY DEF WalkInv, Typed, nobs
<1>3. RecordInHand /\ nobs <= Taken
    BY DEF OwnInv, Going, InHand
<1> HIDE DEF rest, one
<1>4. CASE kfirst_station
  <2>1. nobs < Taken /\ one \o rest = KnownOf(Scans[Taken])
    BY <1>1, <1>3, <1>4 DEF RecordInHand
  <2>2. nobs < MaxObs /\ nobs + 1 <= Taken
    <3>1. MaxObs \in Nat
      BY ScansAssumption
    <3> QED
      BY <1>1, <2>1, <3>1
  <2> DEFINE r == [name |-> scan.name, icod |-> scan.icod, stations |-> one]
  <2>3. r \in Records
    BY <1>1 DEF WalkInv, Typed, InHand, Records
  <2>4. r.name = scan.name /\ r.icod = scan.icod /\ r.stations = one
    OBVIOUS
  <2>5. new = Append(obs, r)
    BY <1>4, <2>2 DEF Stored, one
  <2> HIDE DEF r
  <2>6. /\ Append(obs, r) \in Seq(Records) /\ Len(Append(obs, r)) = Len(obs) + 1
        /\ Append(obs, r)[Len(obs) + 1] = r
        /\ \A i \in 1 .. Len(obs) : Append(obs, r)[i] = obs[i]
    BY <1>2, <2>3, AppendProperties
  <2> HIDE DEF new
  <2>7. /\ new \in Seq(Records) /\ Len(new) = nobs + 1 /\ new[nobs + 1] = r
        /\ \A i \in 1 .. nobs : new[i] = obs[i]
    BY <2>5, <2>6 DEF nobs
  <2>8. nobs + 1 \in Nat \ {0} /\ (nobs + 1) - 1 = nobs
    BY <1>1
  <2>9. /\ new[nobs + 1].name = scan.name /\ new[nobs + 1].icod = scan.icod
        /\ new[nobs + 1].stations = one
    BY <2>4, <2>7
  <2> QED
    BY <1>1, <1>4, <2>1, <2>2, <2>7, <2>8, <2>9 DEF new, rest
<1>5. CASE ~kfirst_station
  <2>1. nobs > 0 /\ obs[nobs].name = scan.name /\ obs[nobs].icod = scan.icod
        /\ obs[nobs].stations \o (one \o rest) = KnownOf(Scans[Taken])
    BY <1>1, <1>3, <1>5 DEF RecordInHand
  <2> DEFINE had == obs[nobs].stations
  <2>2. nobs \in 1 .. nobs /\ nobs \in DOMAIN obs
    BY <1>1, <1>2, <2>1
  <2>3. obs[nobs] \in Records /\ had \in Seq(Known)
    <3>1. obs[nobs] \in Records
      BY <1>2, <2>2, ElementOfSeq
    <3> QED
      BY <3>1 DEF Records
  <2>4. new = [obs EXCEPT ![nobs].stations = Append(had, key)]
    BY <1>5 DEF Stored
  <2>5. /\ \A i \in 1 .. nobs : i # nobs => new[i] = obs[i]
        /\ new[nobs] = [obs[nobs] EXCEPT !.stations = Append(had, key)]
    BY <1>2, <2>2, <2>4
  <2>6. /\ new[nobs].name = obs[nobs].name /\ new[nobs].icod = obs[nobs].icod
        /\ new[nobs].stations = Append(had, key)
    <3>1. {"name", "icod", "stations"} \subseteq DOMAIN obs[nobs]
      BY <2>3 DEF Records
    <3> HIDE DEF new, had
    <3> QED
      BY <2>5, <3>1
  <2>7. new \in Seq(Records) /\ Len(new) = nobs
    BY <1>5, StoredType DEF InHand
  <2> HIDE DEF had, new
  <2>8. Append(had, key) = had \o one
    BY <2>3, AppendIsConcat DEF one
  <2>9. (had \o one) \o rest = had \o (one \o rest)
    BY <1>1, <2>3, ConcatAssociative
  <2>10. had \o one \in Seq(Known)
    BY <1>1, <2>3, ConcatProperties
  <2>11. \A i \in 1 .. nobs - 1 : i \in 1 .. nobs /\ i # nobs
    BY <1>1
  <2>12. nobs \in Nat \ {0} /\ nobs <= Taken
    BY <1>1, <1>3, <2>1
  <2>13. \A i \in 1 .. nobs - 1 : i \in 1 .. nobs /\ new[i] = obs[i]
    BY <2>5, <2>11
  <2> QED
    BY <1>5, <2>1, <2>6, <2>7, <2>8, <2>9, <2>10, <2>12, <2>13 DEF had, new, rest
<1> QED
    BY <1>4, <1>5

\* A step that makes no record and leaves the loop over the stations.
LEMMA OwnKept ==
    ASSUME OwnInv, UNCHANGED <<file, scan_walk, obs>>, stage' # "station",
           Going' => Going
    PROVE  OwnInv'
<1>1. Scans' = Scans /\ nobs' = nobs /\ Taken' = Taken /\ \A i : Own(i)' <=> Own(i)
    BY DEF Scans, nobs, Taken, Own, KnownOf
<1> QED
    BY <1>1 DEF OwnInv

\* A turn of that loop in which no station that is known was found.
LEMMA OwnTurn ==
    ASSUME OwnInv, UNCHANGED <<file, scan_walk, save_lowls, scan, kfirst_station, obs>>,
           stage = "station", stage' = "station", n' = n + 1,
           KnownFrom(StationLines, n) = KnownFrom(StationLines, n + 1)
    PROVE  OwnInv'
<1>1. /\ Scans' = Scans /\ nobs' = nobs /\ Taken' = Taken /\ \A i : Own(i)' <=> Own(i)
      /\ StationLines' = StationLines
    BY DEF Scans, nobs, Taken, Own, KnownOf, StationLines
<1>2. Going
    BY DEF Going, InHand
<1>3. KnownOf(Scans[Taken])' = KnownOf(Scans[Taken])
    BY <1>1 DEF KnownOf
<1>4. KnownFrom(StationLines, n)' = KnownFrom(StationLines, n)
  <2>1. KnownFrom(StationLines, n)' = KnownFrom(StationLines', n')
    BY DEF KnownFrom, KnownIn
  <2> QED
    BY <1>1, <2>1
<1>5. RecordInHand => RecordInHand'
    BY <1>1, <1>3, <1>4 DEF RecordInHand
<1> QED
    BY <1>1, <1>2, <1>5 DEF OwnInv

\* Every step keeps the records those of single scans.
LEMMA OwnNext ==
    ASSUME WalkInv, OwnInv, [Next]_vars
    PROVE  OwnInv'
<1>1. CASE NextScan
  <2>1. /\ WalkInv' /\ Scans' = Scans
        /\ stage' \in {"station", "done", "error"}
        /\ stage' = "station" =>
             /\ n' = 1 /\ kfirst_station' = TRUE /\ Taken' = NextOne
             /\ NextOne \in 1 .. Len(Scans) /\ Scans[NextOne] \in ToSet(file)
             /\ scan' = [name |-> Scans[NextOne].name,
                         icod |-> Ivgtmo(Scans[NextOne].mode)]
    BY <1>1, ScanTaken
  <2>2. obs' = obs /\ nobs' = nobs /\ stage = "scan" /\ nobs \in Nat
    BY <1>1 DEF NextScan, records, nobs, WalkInv, Typed
  <2>3. \A i : Own(i)' <=> Own(i)
    BY <2>1, <2>2 DEF Own, KnownOf
  <2>4. CASE stage' = "station"
    <3>1. SUFFICES ASSUME Len(Scans) <= MaxObs
                   PROVE  nobs < NextOne /\ RecordInHand'
      <4>1. Going'
        BY <2>4 DEF Going, InHand
      <4>2. nobs < NextOne => nobs <= NextOne
        BY <2>1, <2>2, <2>4
      <4> QED
        BY <2>1, <2>2, <2>3, <2>4, <3>1, <4>1, <4>2 DEF OwnInv
    <3>2. nobs < NextOne
      <4>1. CASE nobs = 0
        BY <4>1 DEF NextOne
      <4>2. CASE nobs # 0
        <5>1. Going
          BY <2>2, <4>2 DEF Going
        <5>2. nobs <= Taken /\ Taken \in Nat
          BY <3>1, <5>1, ScansOfFile DEF OwnInv, WalkInv, WalkStands, Typed
        <5> QED
          BY <2>2, <4>2, <5>2 DEF NextOne
      <4> QED
        BY <4>1, <4>2
    <3>3. save_lowls' = Scans[NextOne].refs /\ save_lowls' \in Seq(ToSet(save_lowls'))
      BY <2>1, <2>4 DEF WalkInv, LinesInHand, InHand
    <3>4. KnownFrom(StationLines', 1) = KnownOf(Scans[NextOne])
      <4> DEFINE lines == Of(Scans[NextOne].refs, "station")
                 refs == Scans[NextOne].refs
                 T == ToSet(refs)
      <4>1. refs \in Seq(T)
        BY <3>3
      <4> HIDE DEF T
      <4>2. lines \in Seq(T)
        BY <4>1, LineFound
      <4>3. StationLines' = lines /\ KnownOf(Scans[NextOne]) = KnownIn(lines)
        BY <3>3 DEF StationLines, KnownOf
      <4> HIDE DEF lines
      <4>4. SubSeq(lines, 1, Len(lines)) = lines
        BY <4>2, SubSeqFull
      <4> QED
        BY <4>3, <4>4 DEF KnownFrom
    <3>5. KnownFrom(StationLines, n)' = KnownFrom(StationLines', n')
          /\ KnownOf(Scans[Taken])' = KnownOf(Scans'[Taken'])
      BY DEF KnownFrom, KnownIn, KnownOf
    <3> QED
      BY <2>1, <2>2, <2>4, <3>2, <3>4, <3>5 DEF RecordInHand
  <2>5. CASE stage' # "station"
    <3>1. ~Going'
      BY <2>1, <2>5 DEF Going, InHand
    <3> QED
      BY <2>1, <2>2, <2>3, <2>5, <3>1 DEF OwnInv
  <2> QED
    BY <2>4, <2>5
<1>2. CASE StationLine
  <2>1. /\ FgetNth("station") /\ stage = "station" /\ save_ptr' # NULL
        /\ UNCHANGED <<file, scan_walk, save_lowls, scan>>
    BY <1>2 DEF StationLine
  <2>2. NthFound("station")
    BY <2>1, TurnFinds DEF LoopOver
  <2>3. n <= Len(StationLines) /\ save_ptr' = StationLines[n]
    BY <2>1, <2>2 DEF NthFound, StationLines
  <2>4. /\ n \in Nat \ {0} /\ nobs \in Nat
        /\ Taken \in 1 .. Len(Scans) /\ Len(Scans) \in Nat
        /\ KnownFrom(StationLines, n + 1) \in Seq(Known)
        /\ KnownFrom(StationLines, n)
             = KnownAt(StationLines[n]) \o KnownFrom(StationLines, n + 1)
    BY <2>1, <2>3, LinesKnown
  <2> DEFINE key == StationLines[n].key
             rest == KnownFrom(StationLines, n + 1)
  <2>5. CASE key \notin Known /\ n' = n + 1 /\ UNCHANGED <<stage, kfirst_station, obs>>
    <3>1. KnownFrom(StationLines, n) = << >> \o rest
      BY <2>4, <2>5 DEF KnownAt
    <3> HIDE DEF rest
    <3>2. << >> \o rest = rest
      BY <2>4, ConcatEmptySeq DEF rest
    <3> QED
      BY <2>1, <2>5, <3>1, <3>2, OwnTurn DEF rest
  <2>6. CASE stage' = "error" /\ UNCHANGED obs
    <3>1. stage' # "station" /\ ~Going'
      BY <2>6 DEF Going, InHand
    <3> QED
      BY <2>1, <2>6, <3>1, OwnKept
  <2>7. CASE /\ key \in Known /\ obs' = Stored(key) /\ kfirst_station' = FALSE
             /\ n' = n + 1 /\ UNCHANGED stage
    <3>1. Scans' = Scans /\ Taken' = Taken /\ StationLines' = StationLines
      BY <2>1 DEF Scans, Taken, StationLines
    <3>2. SUFFICES ASSUME Len(Scans) <= MaxObs
                   PROVE  /\ \A i \in 1 .. nobs' : Own(i)'
                          /\ nobs' <= Taken'
                          /\ RecordInHand'
      BY <3>1, <3>2 DEF OwnInv
    <3> DEFINE last == Len(Stored(key))
    <3>3. /\ last \in Nat \ {0} /\ last <= Taken
          /\ \A i \in 1 .. last - 1 : i \in 1 .. nobs /\ Stored(key)[i] = obs[i]
          /\ Stored(key)[last].name = scan.name /\ Stored(key)[last].icod = scan.icod
          /\ Stored(key)[last].stations \in Seq(Known)
          /\ Stored(key)[last].stations \o rest = KnownOf(Scans[Taken])
      <4> HIDE DEF key
      <4> QED
        BY <2>1, <2>3, <2>7, <3>2, StoredOwn DEF key
    <3> DEFINE new == Stored(key)
               r == new[last]
    <3>4. nobs' = last /\ obs' = new
      BY <2>7 DEF nobs
    <3> HIDE DEF key, new, last, rest
    <3>5. /\ IsPrefix(r.stations, KnownOf(Scans[Taken])) /\ r.name = Scans[Taken].name
          /\ r.icod = Ivgtmo(Scans[Taken].mode)
      <4>1. r.stations \in Seq(Known) /\ rest \in Seq(Known)
            /\ r.stations \o rest = KnownOf(Scans[Taken])
        BY <2>4, <3>3 DEF rest, new, last
      <4>2. IsPrefix(r.stations, r.stations \o rest)
        BY <4>1, PrefixOfConcat
      <4>3. scan.name = Scans[Taken].name /\ scan.icod = Ivgtmo(Scans[Taken].mode)
        BY <2>1, <3>2 DEF OwnInv, RecordInHand
      <4>4. r.name = scan.name /\ r.icod = scan.icod
        BY <3>3 DEF new, last
      <4> QED
        BY <4>1, <4>2, <4>3, <4>4
    <3>6. ASSUME NEW i \in 1 .. last
          PROVE  Own(i)'
      <4>1. CASE i = last
        BY <2>4, <3>1, <3>4, <3>5, <4>1, ScansOfFile DEF Own, KnownOf, WalkInv, Typed
      <4>2. CASE i # last
        <5>1. i \in 1 .. last - 1
          BY <3>3, <4>2
        <5>2. i \in 1 .. nobs /\ new[i] = obs[i]
          BY <3>3, <5>1 DEF new, last
        <5>3. Own(i)
          BY <3>2, <5>2 DEF OwnInv
        <5> QED
          BY <3>1, <3>4, <5>2, <5>3 DEF Own, KnownOf
      <4> QED
        BY <4>1, <4>2
    <3>7. KnownFrom(StationLines, n)' = KnownFrom(StationLines', n')
          /\ KnownOf(Scans[Taken])' = KnownOf(Scans'[Taken'])
      BY DEF KnownFrom, KnownIn, KnownOf
    <3>8. KnownFrom(StationLines, n)' = rest /\ KnownOf(Scans[Taken])' = KnownOf(Scans[Taken])
      BY <2>7, <3>1, <3>7 DEF rest
    <3>9. /\ scan' = scan /\ scan.name = Scans[Taken].name /\ nobs' > 0
          /\ scan.icod = Ivgtmo(Scans[Taken].mode)
      BY <2>1, <3>2, <3>3, <3>4 DEF OwnInv, RecordInHand
    <3>10. /\ obs'[nobs'].name = scan.name /\ obs'[nobs'].icod = scan.icod
           /\ obs'[nobs'].stations \o rest = KnownOf(Scans[Taken])
      BY <3>3, <3>4 DEF new, last
    <3>11. RecordInHand'
      BY <2>7, <3>1, <3>8, <3>9, <3>10 DEF RecordInHand
    <3> QED
      BY <3>1, <3>3, <3>4, <3>6, <3>11
  <2> QED
    BY <1>2, <2>3, <2>5, <2>6, <2>7 DEF StationLine
<1>3. CASE NoStationLine
  <2>1. /\ FgetNth("station") /\ stage = "station" /\ save_ptr' = NULL /\ stage' = stage
        /\ n' = n + 1 /\ UNCHANGED <<file, scan_walk, save_lowls, scan, kfirst_station, obs>>
    BY <1>3 DEF NoStationLine, records
  <2>2. NthFound("station")
    BY <2>1, TurnFinds DEF LoopOver
  <2>3. ~(n <= Len(StationLines))
    BY <2>1, <2>2 DEF NthFound, StationLines
  <2>4. KnownFrom(StationLines, n) = << >> /\ KnownFrom(StationLines, n + 1) = << >>
    <3>1. n > Len(StationLines)
      BY <2>1, <2>3, LinesKnown
    <3> QED
      BY <2>1, <3>1, LinesKnown
  <2> QED
    BY <2>1, <2>4, OwnTurn
<1>4. CASE StationsRead
  <2>1. stage = "station" /\ stage' = "transfer" /\ UNCHANGED <<file, scan_walk, obs>>
    BY <1>4 DEF StationsRead, session
  <2> QED
    BY <2>1, OwnKept DEF Going, InHand
<1>5. CASE TransferLine
  <2>1. /\ stage = "transfer" /\ stage' \in {"transfer", "error"}
        /\ UNCHANGED <<file, scan_walk, obs>>
    BY <1>5 DEF TransferLine
  <2> QED
    BY <2>1, OwnKept DEF Going, InHand
<1>6. CASE TransfersRead
  <2>1. /\ stage = "transfer" /\ stage' = "scan" /\ UNCHANGED <<file, scan_walk, obs>>
    BY <1>6 DEF TransfersRead
  <2> QED
    BY <2>1, OwnKept DEF Going, InHand
<1>7. CASE UNCHANGED vars
  <2>1. UNCHANGED <<file, scan_walk, save_lowls, stage, n, scan, kfirst_station, obs>>
    BY <1>7 DEF vars, session, records
  <2>2. /\ Scans' = Scans /\ nobs' = nobs /\ Taken' = Taken /\ \A i : Own(i)' <=> Own(i)
        /\ StationLines' = StationLines
    BY <2>1 DEF Scans, nobs, Taken, Own, KnownOf, StationLines
  <2>3. KnownFrom(StationLines, n)' = KnownFrom(StationLines', n')
        /\ KnownOf(Scans[Taken])' = KnownOf(Scans'[Taken'])
    BY DEF KnownFrom, KnownIn, KnownOf
  <2>4. RecordInHand' <=> RecordInHand
    BY <2>1, <2>2, <2>3 DEF RecordInHand
  <2>5. Going' <=> Going
    BY <2>1, <2>2 DEF Going, InHand
  <2> QED
    BY <2>1, <2>2, <2>4, <2>5 DEF OwnInv
<1> QED
    BY <1>1, <1>2, <1>3, <1>4, <1>5, <1>6, <1>7 DEF Next

\* At first there is no record.
LEMMA OwnInit ==
    ASSUME Init
    PROVE  OwnInv
<1>1. nobs = 0 /\ stage = "scan"
    BY DEF Init, nobs
<1> QED
    BY <1>1 DEF OwnInv, Going, InHand

\* ivgtmo finds a mode that is in the table.
LEMMA ModeFound ==
    ASSUME NEW mode \in ToSet(Modes)
    PROVE  Modes[Ivgtmo(mode)] = mode
<1>1. \E i \in DOMAIN Modes : Modes[i] = mode
    BY DEF ToSet
<1> QED
    BY <1>1 DEF Ivgtmo

\* Whatever the file, every record vobinp has made is of one of its scans, holds
\* the first of that scan's known stations, and has its mode if the file has it,
\* as long as there are no more scans than records.
THEOREM RecordsOwn == Spec => []OwnScan
<1>1. WalkInv /\ OwnInv /\ [Next]_vars => WalkInv' /\ OwnInv'
    BY WalkNext, OwnNext
<1>2. Init => WalkInv /\ OwnInv
    BY WalkInit, OwnInit
<1>3. WalkInv /\ OwnInv => OwnScan
    BY ModeFound DEF OwnInv, OwnScan, Own
<1> QED
    BY <1>1, <1>2, <1>3, PTL DEF Spec

-----------------------------------------------------------------------------
(* The inductive invariant: what a plain file has been read into.           *)
TransferLines == Of(save_lowls, "data_transfer")

HasStations(i) ==
    obs[i].name = Scans[i].name /\ obs[i].stations = KnownOf(Scans[i])

Placed(i) ==
    \/ ixfer_beg[i] = 0
    \/ /\ ixfer_beg[i] \in 1 .. Len(ixfer)
       /\ ixfer_end[i] \in ixfer_beg[i] .. Len(ixfer)

Finished(i) ==
    /\ HasStations(i) /\ Placed(i)
    /\ Transfers(i) = Keys(Of(Scans[i].refs, "data_transfer"))

(* The transfers of the scan in hand so far are the last of the table. *)
Moving ==
    /\ ixfer_beg[nobs] \in Nat \ {0}
    /\ ixfer_beg[nobs] + n = Len(ixfer) + 2
    /\ n - 1 <= Len(TransferLines)
    /\ \A m \in 1 .. n - 1 : ixfer[ixfer_beg[nobs] + m - 1] = TransferLines[m].key

Tables ==
    /\ ixfer \in Seq(Known)
    /\ ixfer_beg = [i \in 0 .. MaxObs |-> ixfer_beg[i]]
    /\ ixfer_end = [i \in 0 .. MaxObs |-> ixfer_end[i]]

FinishedTo(last) == \A i \in 1 .. last : Finished(i)

ReadInv ==
    /\ Tables
    /\ Plain =>
         /\ stage = "scan" => (nobs > 0 => nobs = Taken) /\ FinishedTo(nobs)
         /\ stage = "station" => /\ nobs = IF kfirst_station THEN Taken - 1 ELSE Taken
                                 /\ FinishedTo(Taken - 1)
         /\ stage = "transfer" => /\ nobs = Taken /\ FinishedTo(Taken - 1)
                                  /\ HasStations(nobs) /\ Moving
         /\ stage = "done" => nobs = Len(Scans) /\ FinishedTo(nobs)

\* The end of a table, entered line by line.
LEMMA MovedAll ==
    ASSUME NEW S, NEW table \in Seq(S), NEW T, NEW lines \in Seq(T),
           NEW b \in 1 .. Len(table), Len(lines) = Len(table) - b + 1,
           \A m \in 1 .. Len(lines) : table[b + m - 1] = lines[m].key
    PROVE  SubSeq(table, b, Len(table)) = Keys(lines)
<1> DEFINE len == Len(lines)
           n0  == Len(table)
           end == SubSeq(table, b, n0)
           keys == Keys(lines)
<1>1. len \in Nat /\ n0 \in Nat /\ DOMAIN lines = 1 .. len /\ b <= n0
    OBVIOUS
<1>2. end \in Seq(S) /\ Len(end) = len /\ \A m \in 1 .. len : end[m] = table[b + m - 1]
  <2>1. \A m \in b .. n0 : table[m] \in S
    BY <1>1, ElementOfSeq
  <2>2. /\ end \in Seq(S) /\ Len(end) = IF b <= n0 THEN n0 - b + 1 ELSE 0
        /\ \A m \in 1 .. n0 - b + 1 : end[m] = table[b + m - 1]
    BY <1>1, <2>1, SubSeqProperties
  <2> QED
    BY <1>1, <2>2
<1>3. keys = [m \in 1 .. len |-> lines[m].key]
    BY <1>1 DEF Keys
<1>4. ASSUME NEW m \in 1 .. len
      PROVE  lines[m].key \in S /\ end[m] = lines[m].key
  <2>1. end[m] = lines[m].key
    BY <1>2
  <2> HIDE DEF end
  <2> QED
    BY <1>2, <2>1, ElementOfSeq
<1> HIDE DEF end, keys, len
<1>5. keys \in [1 .. len -> S]
    BY <1>3, <1>4
<1>6. keys \in Seq(S) /\ Len(keys) = len
    BY <1>1, <1>5
<1>7. \A m \in 1 .. len : end[m] = keys[m]
    BY <1>3, <1>4
<1>8. end = keys
    BY <1>2, <1>6, <1>7, SeqEqual
<1> QED
    BY <1>8 DEF end, keys, n0

\* What is finished is left alone, also by transfers that are added.
LEMMA FinishedKept ==
    ASSUME NEW i, Finished(i), ixfer \in Seq(Known), Scans' = Scans, obs'[i] = obs[i],
           ixfer_beg'[i] = ixfer_beg[i], ixfer_end'[i] = ixfer_end[i],
           NEW more \in Seq(Known), ixfer' = ixfer \o more
    PROVE  Finished(i)'
<1>1. /\ HasStations(i)' /\ KnownOf(Scans[i])' = KnownOf(Scans[i])
      /\ Keys(Of(Scans[i].refs, "data_transfer"))' = Keys(Of(Scans[i].refs, "data_transfer"))
    BY DEF Finished, HasStations, KnownOf
<1>2. Len(ixfer') = Len(ixfer) + Len(more) /\ Len(ixfer) \in Nat /\ Len(more) \in Nat
    BY ConcatProperties
<1>3. CASE ixfer_beg[i] = 0
    BY <1>1, <1>3 DEF Finished, Placed, Transfers
<1>4. CASE ixfer_beg[i] # 0
  <2>1. ixfer_beg[i] \in 1 .. Len(ixfer) /\ ixfer_end[i] \in ixfer_beg[i] .. Len(ixfer)
    BY <1>4 DEF Finished, Placed
  <2>2. Placed(i)'
    BY <1>2, <2>1 DEF Placed
  <2> DEFINE b == ixfer_beg[i]
             e == ixfer_end[i]
  <2>3. SubSeq(ixfer \o more, b, e) = SubSeq(ixfer, b, e)
    <3>1. b \in 1 .. Len(ixfer) /\ e \in 1 .. Len(ixfer)
      BY <1>2, <2>1
    <3> HIDE DEF b, e
    <3> QED
      BY <3>1, SubSeqOfConcat1
  <2>4. Transfers(i)' = Transfers(i)
    BY <1>4, <2>3 DEF Transfers
  <2> QED
    BY <1>1, <2>2, <2>4 DEF Finished
<1> QED
    BY <1>3, <1>4

\* What is finished up to a record is left alone when only later records and
\* the end of the table of transfers change.
LEMMA AllKept ==
    ASSUME ixfer \in Seq(Known), NEW last, FinishedTo(last), Scans' = Scans,
           \A i \in 1 .. last : /\ obs'[i] = obs[i]
                               /\ ixfer_beg'[i] = ixfer_beg[i] /\ ixfer_end'[i] = ixfer_end[i],
           ixfer' = ixfer \/ \E key \in Known : ixfer' = Append(ixfer, key)
    PROVE  \A i \in 1 .. last : Finished(i)'
<1>1. PICK more \in Seq(Known) : ixfer' = ixfer \o more
  <2>1. CASE ixfer' = ixfer
    <3>1. << >> \in Seq(Known) /\ ixfer \o << >> = ixfer
      BY ConcatEmptySeq
    <3> QED
      BY <2>1, <3>1
  <2>2. ASSUME NEW key \in Known, ixfer' = Append(ixfer, key)
        PROVE  \E more \in Seq(Known) : ixfer' = ixfer \o more
    <3>1. <<key>> \in Seq(Known) /\ Append(ixfer, key) = ixfer \o <<key>>
      BY AppendIsConcat
    <3> QED
      BY <2>2, <3>1
  <2> QED
    BY <2>1, <2>2
<1>2. ASSUME NEW i \in 1 .. last
      PROVE  Finished(i)'
  <2>1. Finished(i)
    BY DEF FinishedTo
  <2> QED
    BY <1>1, <2>1, FinishedKept
<1> QED
    BY <1>2

\* Where the records and the scans are.
LEMMA Counts ==
    ASSUME WalkInv
    PROVE  /\ nobs \in Nat /\ Len(Scans) \in Nat /\ MaxObs \in Nat
           /\ Going => Taken \in 1 .. Len(Scans)
<1>1. nobs \in Nat /\ file \in Files
    BY DEF WalkInv, Typed, nobs
<1>2. MaxObs \in Nat
    BY ScansAssumption
<1> QED
    BY <1>1, <1>2, ScansOfFile DEF WalkInv, WalkStands

\* The next scan, and the end of the scans.
LEMMA ReadScan ==
    ASSUME WalkInv, ReadInv, NextScan
    PROVE  ReadInv'
<1>1. /\ Scans' = Scans /\ stage' \in {"station", "done", "error"}
      /\ stage' = "done" => ~(NextOne <= Len(Scans))
      /\ stage' = "station" => kfirst_station' = TRUE /\ Taken' = NextOne
    BY ScanTaken
<1>2. UNCHANGED <<file, obs, ixfer, ixfer_beg, ixfer_end>> /\ nobs' = nobs /\ stage = "scan"
    BY DEF NextScan, records, nobs
<1>3. Tables' /\ (Plain' <=> Plain)
    BY <1>1, <1>2 DEF ReadInv, Tables, Plain, KnownOf
<1>4. SUFFICES ASSUME Plain
               PROVE  /\ stage' = "station" => /\ nobs = Taken' - 1
                                               /\ \A i \in 1 .. Taken' - 1 : Finished(i)'
                      /\ stage' = "done" => /\ nobs = Len(Scans)
                                            /\ \A i \in 1 .. nobs : Finished(i)'
    BY <1>1, <1>2, <1>3, <1>4 DEF ReadInv, FinishedTo
<1>5. FinishedTo(nobs) /\ (nobs > 0 => nobs = Taken) /\ ixfer \in Seq(Known)
    BY <1>2, <1>4 DEF ReadInv, Tables
<1>6. \A i \in 1 .. nobs : Finished(i)'
    BY <1>1, <1>2, <1>5, AllKept
<1>7. /\ nobs = NextOne - 1 /\ nobs <= Len(Scans) /\ nobs \in Nat /\ Len(Scans) \in Nat
      /\ NextOne \in Nat
  <2>1. CASE nobs = 0
    BY <2>1, Counts DEF NextOne
  <2>2. CASE nobs # 0
    <3>1. Going
      BY <1>2, <2>2, Counts DEF Going
    <3> QED
      BY <1>5, <2>2, <3>1, Counts DEF NextOne
  <2> QED
    BY <2>1, <2>2
<1>8. \A i \in 1 .. NextOne - 1 : Finished(i)'
    BY <1>6, <1>7
<1>9. stage' = "station" => nobs = Taken' - 1 /\ \A i \in 1 .. Taken' - 1 : Finished(i)'
    BY <1>1, <1>7, <1>8
<1>10. ~(NextOne <= Len(Scans)) => nobs = Len(Scans)
    BY <1>7
<1> QED
    BY <1>1, <1>6, <1>9, <1>10

\* The stations of the scan in hand.
LEMMA ReadStation ==
    ASSUME WalkInv, OwnInv, ReadInv, StationLine \/ NoStationLine
    PROVE  ReadInv'
<1>1. /\ stage = "station" /\ FgetNth("station")
      /\ UNCHANGED <<file, scan_walk, scan, ixfer, ixfer_beg, ixfer_end>>
      /\ save_lowls' = save_lowls
    BY DEF StationLine, NoStationLine, records
<1>2. Scans' = Scans /\ Taken' = Taken
    BY <1>1 DEF Scans, Taken
<1>3. Tables' /\ (Plain' <=> Plain)
    BY <1>1, <1>2 DEF ReadInv, Tables, Plain, KnownOf
<1>4. CASE stage' = "error"
    BY <1>3, <1>4 DEF ReadInv
<1>5. CASE stage' = "station"
  <2>1. SUFFICES ASSUME Plain
                 PROVE  /\ nobs' = IF kfirst_station' THEN Taken - 1 ELSE Taken
                        /\ \A i \in 1 .. Taken - 1 : Finished(i)'
    BY <1>2, <1>3, <1>5, <2>1 DEF ReadInv, FinishedTo
  <2>2. /\ nobs = IF kfirst_station THEN Taken - 1 ELSE Taken
        /\ FinishedTo(Taken - 1) /\ ixfer \in Seq(Known)
    BY <1>1, <2>1 DEF ReadInv, Tables
  <2>3. CASE UNCHANGED <<obs, kfirst_station>>
    <3>1. \A i \in 1 .. Taken - 1 : Finished(i)'
      BY <1>1, <1>2, <2>2, <2>3, AllKept
    <3> QED
      BY <2>2, <2>3, <3>1 DEF nobs
  <2>4. CASE /\ StationLine /\ save_ptr'.key \in Known /\ obs' = Stored(save_ptr'.key)
             /\ kfirst_station' = FALSE
    <3>1. NthFound("station") /\ save_ptr' # NULL
      BY <1>1, <2>4, TurnFinds DEF LoopOver, StationLine
    <3>2. n <= Len(StationLines) /\ save_ptr' = StationLines[n]
      BY <3>1 DEF NthFound, StationLines
    <3> DEFINE key  == StationLines[n].key
               last == Len(Stored(key))
    <3>3. key \in Known /\ obs' = Stored(key)
      BY <2>4, <3>2
    <3>4. Len(Scans) <= MaxObs
      BY <2>1 DEF Plain
    <3>5. /\ last = IF kfirst_station THEN nobs + 1 ELSE nobs
          /\ \A i \in 1 .. last - 1 : i \in 1 .. nobs /\ Stored(key)[i] = obs[i]
      <4> HIDE DEF key
      <4> QED
        BY <1>1, <3>2, <3>3, <3>4, StoredOwn DEF key
    <3>6. Taken \in Nat /\ nobs \in Nat
      BY <1>1, Counts DEF Going, InHand
    <3> HIDE DEF key, last
    <3>7. last = Taken
      BY <2>2, <3>5, <3>6
    <3>8. \A i \in 1 .. Taken - 1 : Finished(i)'
      BY <1>1, <1>2, <2>2, <3>3, <3>5, <3>7, AllKept
    <3> QED
      BY <2>4, <3>3, <3>7, <3>8 DEF nobs, last
  <2> QED
    BY <1>5, <2>3, <2>4 DEF StationLine, NoStationLine, records
<1> QED
    BY <1>1, <1>4, <1>5 DEF StationLine, NoStationLine

\* The record of a plain scan is whole when its stations are read.
LEMMA ReadStations ==
    ASSUME WalkInv, OwnInv, ReadInv, StationsRead
    PROVE  ReadInv'
<1>1. /\ stage = "station" /\ n > nstatn /\ stage' = "transfer" /\ n' = 1
      /\ UNCHANGED <<file, scan_walk, save_lowls, obs, ixfer, ixfer_end>>
      /\ ixfer_beg' = [ixfer_beg EXCEPT ![nobs] = Len(ixfer) + 1]
    BY DEF StationsRead, session
<1>2. Scans' = Scans /\ Taken' = Taken /\ nobs' = nobs
    BY <1>1 DEF Scans, Taken, nobs
<1>3. Tables' /\ (Plain' <=> Plain)
    BY <1>1, <1>2 DEF ReadInv, Tables, Plain, KnownOf
<1>4. SUFFICES ASSUME Plain
               PROVE  /\ nobs = Taken /\ (\A i \in 1 .. Taken - 1 : Finished(i)')
                      /\ HasStations(nobs) /\ Moving'
  <2>1. HasStations(nobs)' <=> HasStations(nobs)
    BY <1>1, <1>2 DEF HasStations, KnownOf
  <2> QED
    BY <1>1, <1>2, <1>3, <1>4, <2>1 DEF ReadInv, FinishedTo
<1>5. /\ nobs = IF kfirst_station THEN Taken - 1 ELSE Taken
      /\ FinishedTo(Taken - 1) /\ Tables
    BY <1>1, <1>4 DEF ReadInv
<1>6. /\ Taken \in 1 .. Len(Scans) /\ nobs \in Nat /\ Len(Scans) \in Nat /\ MaxObs \in Nat
      /\ Len(Scans) <= MaxObs
    BY <1>1, <1>4, Counts DEF Going, InHand, Plain
<1>7. KnownFrom(StationLines, n) = << >> /\ KnownOf(Scans[Taken]) # << >>
  <2>1. Taken \in DOMAIN Scans
    BY <1>1 DEF WalkInv, WalkStands, Going, InHand
  <2>2. KnownOf(Scans[Taken]) # << >> /\ Len(Of(Scans[Taken].refs, "station")) <= nstatn
    BY <1>4, <2>1 DEF Plain
  <2>3. Len(StationLines) <= nstatn
    BY <1>1, <2>2 DEF WalkInv, LinesInHand, InHand, StationLines
  <2>4. nstatn \in Nat /\ Len(StationLines) \in Nat /\ n \in Nat
    BY <1>1, ScansAssumption, FS_CardinalityType, LinesKnown DEF nstatn
  <2>5. n > Len(StationLines)
    BY <1>1, <2>3, <2>4
  <2> QED
    BY <1>1, <2>2, <2>5, LinesKnown
<1>8. RecordInHand
    BY <1>1, <1>6 DEF OwnInv
<1>9. ~kfirst_station
    BY <1>7, <1>8 DEF RecordInHand
<1>10. nobs = Taken
    BY <1>5, <1>9
<1>11. HasStations(nobs)
  <2>1. obs[nobs] \in Records
    <3>1. obs \in Seq(Records) /\ nobs \in 1 .. Len(obs)
      BY <1>6, <1>10 DEF WalkInv, Typed, nobs
    <3> QED
      BY <3>1, ElementOfSeq
  <2>2. obs[nobs].stations \in Seq(Known)
    BY <2>1 DEF Records
  <2>3. obs[nobs].stations \o << >> = obs[nobs].stations
    BY <2>2, ConcatEmptySeq
  <2> QED
    BY <1>7, <1>8, <1>9, <1>10, <2>3 DEF RecordInHand, HasStations
<1>12. nobs \in 0 .. MaxObs /\ \A i \in 1 .. Taken - 1 : i # nobs /\ i \in 0 .. MaxObs
    BY <1>6, <1>10
<1>13. ixfer_beg'[nobs] = Len(ixfer) + 1
       /\ \A i \in 1 .. Taken - 1 : ixfer_beg'[i] = ixfer_beg[i]
    BY <1>1, <1>5, <1>12 DEF Tables
<1>14. \A i \in 1 .. Taken - 1 : Finished(i)'
    BY <1>1, <1>2, <1>5, <1>13, AllKept DEF Tables
<1>15. Moving'
  <2>1. Len(ixfer) \in Nat
    BY <1>5 DEF Tables
  <2>2. TransferLines \in Seq(ToSet(save_lowls)) /\ TransferLines' = TransferLines
    BY <1>1, LineFound DEF WalkInv, LinesInHand, InHand, TransferLines
  <2>3. 0 <= Len(TransferLines)
    BY <2>2
  <2> QED
    BY <1>1, <1>2, <1>13, <2>1, <2>2, <2>3 DEF Moving
<1> QED
    BY <1>10, <1>11, <1>14, <1>15

\* The data transfers of the scan in hand, one after the other.
LEMMA ReadTransfer ==
    ASSUME WalkInv, ReadInv, TransferLine
    PROVE  ReadInv'
<1>1. /\ stage = "transfer" /\ FgetNth("data_transfer") /\ save_ptr' # NULL
      /\ UNCHANGED <<file, scan_walk, save_lowls, obs, ixfer_beg, ixfer_end>>
      /\ \/ /\ save_ptr'.key \in Known /\ ixfer' = Append(ixfer, save_ptr'.key)
            /\ n' = n + 1 /\ stage' = stage
         \/ stage' = "error" /\ ixfer' = ixfer
    BY DEF TransferLine
<1>2. /\ Scans' = Scans /\ Taken' = Taken /\ nobs' = nobs /\ TransferLines' = TransferLines
      /\ (Plain' <=> Plain)
    BY <1>1 DEF Scans, Taken, nobs, TransferLines, Plain, KnownOf
<1>3. ixfer \in Seq(Known) /\ Len(ixfer) \in Nat /\ n \in Nat \ {0}
    BY <1>1 DEF ReadInv, Tables, WalkInv, LinesInHand, InHand
<1>4. CASE stage' = "error" /\ ixfer' = ixfer
    BY <1>1, <1>4 DEF ReadInv, Tables
<1>5. CASE /\ save_ptr'.key \in Known /\ ixfer' = Append(ixfer, save_ptr'.key)
           /\ n' = n + 1 /\ stage' = stage
  <2>1. NthFound("data_transfer")
    BY <1>1, TurnFinds DEF LoopOver
  <2>2. n <= Len(TransferLines) /\ save_ptr' = TransferLines[n]
    BY <1>1, <2>1 DEF NthFound, TransferLines
  <2> DEFINE key == TransferLines[n].key
  <2>3. key \in Known /\ ixfer' = Append(ixfer, key)
    BY <1>5, <2>2
  <2> HIDE DEF key
  <2>4. /\ ixfer' \in Seq(Known) /\ Len(ixfer') = Len(ixfer) + 1 /\ ixfer'[Len(ixfer) + 1] = key
        /\ \A i \in 1 .. Len(ixfer) : ixfer'[i] = ixfer[i]
    BY <1>3, <2>3, AppendProperties
  <2>5. Tables'
    BY <1>1, <2>4 DEF ReadInv, Tables
  <2>6. SUFFICES ASSUME Plain
                 PROVE  /\ nobs = Taken /\ (\A i \in 1 .. Taken - 1 : Finished(i)')
                        /\ HasStations(nobs) /\ Moving'
    <3>1. HasStations(nobs)' <=> HasStations(nobs)
      BY <1>1, <1>2 DEF HasStations, KnownOf
    <3> QED
      BY <1>1, <1>2, <1>5, <2>5, <2>6, <3>1 DEF ReadInv, FinishedTo
  <2>7. nobs = Taken /\ FinishedTo(Taken - 1) /\ HasStations(nobs) /\ Moving
    BY <1>1, <2>6 DEF ReadInv
  <2>8. \A i \in 1 .. Taken - 1 : Finished(i)'
    BY <1>1, <1>2, <1>3, <2>3, <2>7, AllKept
  <2>9. Moving'
    <3> DEFINE b == ixfer_beg[nobs]
    <3>1. /\ b \in Nat \ {0} /\ b + n = Len(ixfer) + 2 /\ n - 1 <= Len(TransferLines)
          /\ \A m \in 1 .. n - 1 : ixfer[b + m - 1] = TransferLines[m].key
      BY <2>7 DEF Moving
    <3>2. ixfer_beg'[nobs'] = b
      BY <1>1, <1>2
    <3> HIDE DEF b
    <3>3. ASSUME NEW m \in 1 .. n
          PROVE  ixfer'[b + m - 1] = TransferLines[m].key
      <4>1. CASE m = n
        <5>1. b + m - 1 = Len(ixfer) + 1
          BY <1>3, <3>1, <4>1
        <5> QED
          BY <2>4, <4>1, <5>1 DEF key
      <4>2. CASE m # n
        <5>1. m \in 1 .. n - 1 /\ b + m - 1 \in 1 .. Len(ixfer)
          BY <1>3, <3>1, <4>2
        <5> QED
          BY <2>4, <3>1, <5>1
      <4> QED
        BY <4>1, <4>2
    <3>4. b + n' = Len(ixfer') + 2 /\ n' - 1 = n
      BY <1>3, <1>5, <2>4, <3>1
    <3> QED
      BY <1>2, <2>2, <3>1, <3>2, <3>3, <3>4 DEF Moving
  <2> QED
    BY <2>7, <2>8, <2>9
<1> QED
    BY <1>1, <1>4, <1>5

\* The transfers of the record are the end of the table when they are all read.
LEMMA ReadTransfers ==
    ASSUME WalkInv, ReadInv, TransfersRead
    PROVE  ReadInv'
<1>1. /\ stage = "transfer" /\ stage' = "scan" /\ RangeSet
      /\ UNCHANGED <<file, scan_walk, save_lowls, obs, ixfer>>
      /\ IF n <= MaxStn THEN FgetNth("data_transfer") /\ save_ptr' = NULL ELSE TRUE
    BY DEF TransfersRead
<1>2. Scans' = Scans /\ Taken' = Taken /\ nobs' = nobs /\ (Plain' <=> Plain)
    BY <1>1 DEF Scans, Taken, nobs, Plain, KnownOf
<1>3. Tables'
    BY <1>1 DEF ReadInv, Tables, RangeSet
<1>4. /\ ixfer \in Seq(Known) /\ Len(ixfer) \in Nat /\ n \in Nat \ {0} /\ Tables
      /\ nobs \in Nat /\ MaxObs \in Nat /\ Len(Scans) \in Nat /\ Taken \in 1 .. Len(Scans)
    BY <1>1, Counts DEF ReadInv, Tables, WalkInv, LinesInHand, InHand, Going
<1>5. SUFFICES ASSUME Plain
               PROVE  nobs = Taken /\ \A i \in 1 .. nobs : Finished(i)'
    BY <1>1, <1>2, <1>3, <1>5 DEF ReadInv, FinishedTo
<1>6. nobs = Taken /\ FinishedTo(Taken - 1) /\ HasStations(nobs) /\ Moving
    BY <1>1, <1>5 DEF ReadInv
<1>7. /\ Len(Scans) <= MaxObs /\ Len(Of(Scans[Taken].refs, "data_transfer")) <= MaxStn
    BY <1>1, <1>5 DEF Plain, WalkInv, WalkStands, Going, InHand
<1> DEFINE lines == Of(Scans[Taken].refs, "data_transfer")
           T == ToSet(save_lowls)
           b == ixfer_beg[nobs]
<1>8. lines = TransferLines /\ lines \in Seq(T)
    BY <1>1, LineFound DEF WalkInv, LinesInHand, InHand, TransferLines
<1>9. n - 1 = Len(lines) /\ Len(lines) \in Nat
  <2>1. Len(lines) \in Nat /\ MaxStn \in Nat /\ n - 1 <= Len(lines)
    <3>1. n - 1 <= Len(TransferLines) /\ MaxStn \in Nat
      BY <1>6, ScansAssumption DEF Moving
    <3> HIDE DEF lines
    <3> QED
      BY <1>8, <3>1
  <2>2. ~(n <= Len(lines))
    <3>1. CASE n <= MaxStn
      <4>1. NthFound("data_transfer")
        BY <1>1, <3>1, TurnFinds DEF LoopOver
      <4> QED
        BY <1>1, <1>8, <3>1, <4>1 DEF NthFound, TransferLines
    <3>2. CASE ~(n <= MaxStn)
      <4> HIDE DEF lines
      <4> QED
        BY <1>4, <1>7, <2>1, <3>2 DEF lines
    <3> QED
      BY <3>1, <3>2
  <2> HIDE DEF lines
  <2> QED
    BY <1>4, <2>1, <2>2
<1>10. /\ b \in Nat \ {0} /\ b + n = Len(ixfer) + 2
       /\ \A m \in 1 .. n - 1 : ixfer[b + m - 1] = lines[m].key
    BY <1>6, <1>8 DEF Moving
<1>11. nobs \in 0 .. MaxObs /\ \A i \in 1 .. Taken - 1 : i # nobs /\ i \in 0 .. MaxObs
    BY <1>4, <1>6, <1>7
<1>12. \A i \in 1 .. Taken - 1 : Finished(i)'
  <2>1. \A i \in 1 .. Taken - 1 : ixfer_beg'[i] = ixfer_beg[i] /\ ixfer_end'[i] = ixfer_end[i]
    BY <1>1, <1>4, <1>11 DEF RangeSet, Tables
  <2> QED
    BY <1>1, <1>2, <1>4, <1>6, <2>1, AllKept
<1>13. HasStations(nobs)'
    BY <1>1, <1>2, <1>6 DEF HasStations, KnownOf
<1> HIDE DEF b, lines, T
<1>14. Placed(nobs)' /\ Transfers(nobs)' = Keys(lines)
  <2>1. CASE Len(ixfer) < b
    <3>1. Len(lines) = 0
      BY <1>4, <1>9, <1>10, <2>1
    <3>2. lines = << >>
      BY <1>8, <3>1, EmptySeq
    <3>3. ixfer_beg'[nobs] = 0
      BY <1>1, <1>4, <1>11, <2>1 DEF RangeSet, Tables, b
    <3>4. Keys(<< >>) = << >>
      BY DEF Keys
    <3> QED
      BY <1>2, <3>2, <3>3, <3>4 DEF Placed, Transfers
  <2>2. CASE ~(Len(ixfer) < b)
    <3>1. b \in 1 .. Len(ixfer) /\ Len(lines) = Len(ixfer) - b + 1
      <4>1. b \in Nat \ {0} /\ b + n = Len(ixfer) + 2 /\ Len(ixfer) \in Nat /\ n \in Nat
        BY <1>4, <1>10
      <4>2. n - 1 = Len(ixfer) - b + 1
        BY <4>1
      <4> QED
        BY <1>9, <2>2, <4>1, <4>2
    <3>2. ixfer_end'[nobs] = Len(ixfer) /\ ixfer_beg'[nobs] = b
      BY <1>1, <1>4, <1>11, <2>2 DEF RangeSet, Tables, b
    <3>3. SubSeq(ixfer, b, Len(ixfer)) = Keys(lines)
      BY <1>4, <1>8, <1>9, <1>10, <3>1, MovedAll
    <3>4. Placed(nobs)'
      BY <1>1, <1>2, <1>4, <3>1, <3>2 DEF Placed
    <3>5. b # 0
      BY <1>10
    <3> QED
      BY <1>1, <1>2, <3>2, <3>3, <3>4, <3>5 DEF Transfers
  <2> QED
    BY <2>1, <2>2
<1>15. \A i : i = nobs => Finished(i)'
    BY <1>1, <1>2, <1>6, <1>13, <1>14 DEF Finished, HasStations, Placed, Transfers, lines, KnownOf
<1>16. \A i \in 1 .. nobs : i = nobs \/ i \in 1 .. Taken - 1
    BY <1>4, <1>6
<1> QED
    BY <1>6, <1>12, <1>15, <1>16

\* Every step reads a plain file as it was written.
LEMMA ReadNext ==
    ASSUME WalkInv, OwnInv, ReadInv, [Next]_vars
    PROVE  ReadInv'
<1>1. CASE UNCHANGED vars
  <2>1. /\ UNCHANGED <<file, scan_walk, save_lowls, stage, n, kfirst_station>>
        /\ UNCHANGED <<obs, ixfer, ixfer_beg, ixfer_end>>
    BY <1>1 DEF vars, session, records
  <2>2. /\ Scans' = Scans /\ nobs' = nobs /\ Taken' = Taken /\ TransferLines' = TransferLines
        /\ (Plain' <=> Plain)
    BY <2>1 DEF Scans, nobs, Taken, TransferLines, Plain, KnownOf
  <2>3. Tables' <=> Tables
    BY <2>1 DEF Tables
  <2>4. \A i : Finished(i)' <=> Finished(i)
    BY <2>1, <2>2 DEF Finished, HasStations, Placed, Transfers, KnownOf
  <2>5. /\ FinishedTo(nobs)' <=> FinishedTo(nobs)
        /\ FinishedTo(Taken - 1)' <=> FinishedTo(Taken - 1)
    BY <2>2, <2>4 DEF FinishedTo
  <2>6. HasStations(nobs)' <=> HasStations(nobs)
    BY <2>1, <2>2 DEF HasStations, KnownOf
  <2>7. Moving' <=> Moving
    BY <2>1, <2>2 DEF Moving
  <2> QED
    BY <2>1, <2>2, <2>3, <2>5, <2>6, <2>7 DEF ReadInv
<1> QED
    BY <1>1, ReadScan, ReadStation, ReadStations, ReadTransfer, ReadTransfers DEF Next

\* At first the tables are empty.
LEMMA ReadInit ==
    ASSUME Init
    PROVE  ReadInv
<1>1. /\ ixfer = << >> /\ obs = << >> /\ stage = "scan"
      /\ ixfer_beg = [i \in 0 .. MaxObs |-> 0] /\ ixfer_end = [i \in 0 .. MaxObs |-> 0]
    BY DEF Init
<1>2. nobs = 0 /\ Tables
    BY <1>1 DEF nobs, Tables
<1> QED
    BY <1>1, <1>2 DEF ReadInv, FinishedTo

\* A plain file is read as it was written: each scan one record, with all its
\* known stations and its own data transfers.
THEOREM PlainFilesRead == Spec => []ReadAsWritten
<1>1. WalkInv /\ OwnInv /\ ReadInv /\ [Next]_vars => WalkInv' /\ OwnInv' /\ ReadInv'
    BY WalkNext, OwnNext, ReadNext
<1>2. Init => WalkInv /\ OwnInv /\ ReadInv
    BY WalkInit, OwnInit, ReadInit
<1>3. ReadInv => ReadAsWritten
    BY DEF ReadInv, FinishedTo, Finished, HasStations, ReadAsWritten
<1> QED
    BY <1>1, <1>2, <1>3, PTL DEF Spec
=============================================================================
