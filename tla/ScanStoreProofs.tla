--------------------------- MODULE ScanStoreProofs ---------------------------
(***************************************************************************)
(* The types of the scan store, and that no two places of the schedule     *)
(* share a record, for every number of stations, sources and scans.        *)
(*                                                                         *)
(* TypeOK is not inductive: UNPAK keeps the CUR variables in their types   *)
(* only because every entry of iskrec that is set has a scan in its record *)
(* (IndexHoldsScans, BehindHoldsScans), and GTOBS compares times only      *)
(* because CUR has stations when there are scans.  RecordsDistinct is      *)
(* inductive with these.  Behind that: the cursor, the order of the scans, *)
(* and the refinement of Schedule.                                         *)
(***************************************************************************)
EXTENDS ScanStore, ListLemmas

IndexHoldsScans  == \A i \in 1..nobs : rec[index[i]] \in Scan
BehindHoldsScans == \A i \in 1..Len(behind) : rec[behind[i]] \in Scan
CurHasStations   == nobs > 0 => cur.sta # << >>

StoreInv == TypeOK /\ IndexHoldsScans /\ BehindHoldsScans /\ CurHasStations

\* The CUR variables once a scan has been in them.
FullCur == {c \in CurType : c.sta # << >>}

-----------------------------------------------------------------------------
(***************************************************************************)
(* The helpers on numbers and sets.                                        *)
(***************************************************************************)
\* A set of naturals that has members has a least one, and Least is it.
LEMMA LeastOf ==
    ASSUME NEW S \in SUBSET Nat, S # {}
    PROVE  Least(S) \in S /\ \A j \in S : Least(S) <= j
BY HasLeast DEF Least

\* GTOBS lands on a place from a on, or on the last.
LEMMA LandingType ==
    ASSUME NEW s, Len(s) \in Nat \ {0}, NEW a \in 1..Len(s), NEW time
    PROVE  Landing(s, a, time) \in a..Len(s)
<1> DEFINE S == {i \in a..Len(s) : s[i].t > time} \cup {Len(s)}
<1>1. S \in SUBSET Nat /\ S # {} /\ S \subseteq a..Len(s)
    OBVIOUS
<1> HIDE DEF S
<1>2. Least(S) \in a..Len(s)
    BY <1>1, LeastOf
<1> QED
    BY <1>2 DEF Landing, S

\* The last scan of a station exists when it has one.
LEMMA LastOfType ==
    ASSUME NEW s, NEW a \in Nat, NEW b \in Nat, NEW m,
           \E i \in a..b : m \in Members(s[i].sta)
    PROVE  /\ LastOf(m, s, a, b) \in a..b /\ m \in Members(s[LastOf(m, s, a, b)].sta)
           /\ \A j \in (LastOf(m, s, a, b) + 1)..b : m \notin Members(s[j].sta)
<1> DEFINE Has(i) == m \in Members(s[i].sta)
           Back   == {b - i : i \in {j \in a..b : Has(j)}}
<1> HIDE DEF Has
<1>1. Back \in SUBSET Nat /\ Back # {}
    BY DEF Has
<1>2. Least(Back) \in Back /\ \A j \in Back : Least(Back) <= j
    BY <1>1, LeastOf
<1>3. PICK i \in a..b : Has(i) /\ Least(Back) = b - i
    BY <1>2
<1>4. \A j \in (i + 1)..b : ~Has(j)
  <2> SUFFICES ASSUME NEW j \in (i + 1)..b, Has(j)
               PROVE  FALSE
    OBVIOUS
  <2>1. j \in a..b /\ b - j \in Back
    OBVIOUS
  <2>2. Least(Back) <= b - j
    BY <1>2, <2>1
  <2> HIDE DEF Back
  <2> QED
    BY <1>3, <2>2
<1>5. \E k \in a..b : Has(k) /\ \A j \in (k + 1)..b : ~Has(j)
    BY <1>3, <1>4
<1> QED
    BY <1>5 DEF LastOf, Has

-----------------------------------------------------------------------------
(***************************************************************************)
(* The CUR variables stay in their types.                                  *)
(***************************************************************************)
LEMMA ConstantTypes ==
    /\ StartTime \in Times
    /\ Times \subseteq Int
    /\ FreshCur \in CurType
    /\ MaxObs \in Nat \ {0}
    /\ NoScan \notin Scan
<1>1. StartTime \in Times /\ Times \subseteq Int
    BY TimesAreIntegers DEF Times
<1>2. FreshCur \in CurType
    BY <1>1 DEF FreshCur, CurType
<1>3. 0 \notin Sources
    BY SourcesAreRanks
<1>4. NoScan \notin Scan
    BY <1>3 DEF NoScan, Scan, Unscheduled
<1> QED
    BY <1>1, <1>2, <1>4, MaxObsIsPositive

\* Unpacking one scan keeps the CUR variables well typed.
LEMMA UnpakType ==
    ASSUME NEW c \in CurType, NEW x \in Scan
    PROVE  Unpak(c, x) \in FullCur
BY SubnetsAreLists DEF Unpak, CurType, FullCur, Scan

\* The time of the current observation is a number.
LEMMA InstantType ==
    ASSUME NEW c \in FullCur
    PROVE  Head(c.sta) \in Stations /\ Instant(c) \in Times /\ Instant(c) \in Int
<1>1. c.sta \in Subnets /\ c.sta \in Seq(Stations) /\ c.sta # << >>
    BY SubnetsAreLists DEF FullCur, CurType
<1>2. Head(c.sta) \in Stations
    BY <1>1
<1> QED
    BY <1>2, ConstantTypes DEF FullCur, CurType, Instant

\* So does reading a run of scans through them.
LEMMA UnpakRangeType ==
    ASSUME NEW c \in FullCur, NEW s \in Seq(Scan),
           NEW a \in Nat \ {0}, NEW b \in 0..Len(s)
    PROVE  UnpakRange(c, s, a, b) \in FullCur
<1>1. CASE a > b
    BY <1>1 DEF UnpakRange
<1>2. CASE a <= b
  <2> DEFINE Seen(m) == \E i \in a..b : m \in Members(s[i].sta)
             Latest(m) == s[LastOf(m, s, a, b)]
  <2>1. \A i \in a..b : s[i] \in Scan
    BY ElementOfSeq
  <2>2. ASSUME NEW m \in Stations, Seen(m)
        PROVE  Latest(m) \in Scan
    BY <2>1, <2>2, LastOfType
  <2>3. s[b] \in Scan
    BY <1>2, <2>1
  <2> HIDE DEF Seen, Latest
  <2>4. [m \in Stations |-> IF Seen(m) THEN Latest(m).t ELSE c.t[m]] \in [Stations -> Times]
    BY <2>2 DEF FullCur, CurType, Scan
  <2>5. [m \in Stations |-> IF Seen(m) THEN Latest(m).src ELSE c.src[m]]
            \in [Stations -> Sources \cup {Unscheduled, Rewound}]
    BY <2>2 DEF FullCur, CurType, Scan
  <2>6. [t   |-> [m \in Stations |-> IF Seen(m) THEN Latest(m).t ELSE c.t[m]],
         src |-> [m \in Stations |-> IF Seen(m) THEN Latest(m).src ELSE c.src[m]],
         sta |-> s[b].sta] \in FullCur
    BY <2>3, <2>4, <2>5, SubnetsAreLists DEF FullCur, CurType, Scan
  <2> QED
    BY <1>2, <2>6 DEF UnpakRange, Seen, Latest
<1> QED
    BY <1>1, <1>2

(***************************************************************************)
(* GTOBS stays inside the schedule, or where it was behind it.             *)
(***************************************************************************)
PosType == [at : Nat, cur : FullCur, go : Nat]

\* Reading on to place b puts the cursor there and keeps the request IRECGO.
LEMMA ReadToType ==
    ASSUME NEW s \in Seq(Scan), NEW p \in PosType, NEW a \in Nat \ {0}, NEW b \in Nat,
           b <= Len(s) \/ a > b
    PROVE  /\ ReadTo(s, p, a, b) \in PosType
           /\ ReadTo(s, p, a, b).at = b
           /\ ReadTo(s, p, a, b).go = p.go
<1>1. UnpakRange(p.cur, s, a, b) \in FullCur
  <2>1. CASE a > b
    BY <2>1 DEF UnpakRange, PosType
  <2>2. CASE b <= Len(s)
    BY <2>2, UnpakRangeType DEF PosType
  <2> QED
    BY <2>1, <2>2
<1> QED
    BY <1>1 DEF ReadTo, PosType

LEMMA RewindType ==
    ASSUME NEW p \in PosType
    PROVE  Rewind(p) \in PosType /\ Rewind(p).at = 0 /\ Rewind(p).go = p.go
<1>1. RewoundCur(p.cur.sta) \in FullCur
    BY ConstantTypes DEF RewoundCur, CurType, FullCur, PosType
<1> QED
    BY <1>1 DEF Rewind, PosType

\* The first call of GTOBS serves the request, and leaves the cursor within the
\* schedule or behind it where it was.
LEMMA GtStartType ==
    ASSUME NEW s \in Seq(Scan), s # << >>, NEW p \in PosType, NEW time \in Int,
           NEW krwnd \in BOOLEAN,
           krwnd \/ p.go > 0 \/ p.at <= Len(s) \/ time <= Instant(p.cur)
    PROVE  /\ GtStart(s, p, time, krwnd) \in PosType
           /\ GtStart(s, p, time, krwnd).go = 0
           /\ krwnd \/ p.at <= Len(s) => GtStart(s, p, time, krwnd).at <= Len(s)
<1> DEFINE back == \/ krwnd
                   \/ 0 < p.go /\ p.go < p.at
                   \/ p.go = 0 /\ time < Instant(p.cur)
           q    == IF back THEN Rewind(p) ELSE p
           next == Lesser(q.at + 1, Len(s))
<1> HIDE DEF back, q, next
<1>1. Len(s) \in Nat \ {0}
    BY EmptySeq
<1>2. q \in PosType /\ q.go = p.go /\ q.at \in Nat /\ (krwnd \/ p.at <= Len(s) => q.at <= Len(s))
    BY <1>1, RewindType DEF PosType, q, back
<1>3. CASE p.go > 0
  <2> DEFINE r == [q EXCEPT !.go = 0]
             b == Greater(q.at, Lesser(p.go, Len(s)))
  <2>1. r \in PosType /\ r.go = 0
    BY <1>2 DEF PosType
  <2>2. b \in Nat /\ q.at + 1 \in Nat \ {0} /\ (b <= Len(s) \/ q.at + 1 > b)
        /\ (q.at <= Len(s) => b <= Len(s))
    BY <1>1, <1>2 DEF Greater, Lesser, PosType
  <2> HIDE DEF r, b
  <2>3. /\ ReadTo(s, r, q.at + 1, b) \in PosType
        /\ ReadTo(s, r, q.at + 1, b).at = b
        /\ ReadTo(s, r, q.at + 1, b).go = 0
    <3> DEFINE a == q.at + 1
    <3>1. a \in Nat \ {0} /\ b \in Nat /\ (b <= Len(s) \/ a > b)
      BY <2>2
    <3> HIDE DEF a
    <3>2. /\ ReadTo(s, r, a, b) \in PosType
          /\ ReadTo(s, r, a, b).at = b
          /\ ReadTo(s, r, a, b).go = r.go
      <4> HIDE DEF PosType
      <4>1. CASE b <= Len(s)
        BY <2>1, <3>1, <4>1, ReadToType, SMT
      <4>2. CASE a > b
        BY <2>1, <3>1, <4>2, ReadToType, SMT
      <4> QED
        BY <3>1, <4>1, <4>2
    <3> QED
      BY <2>1, <3>2 DEF a
  <2>4. GtStart(s, p, time, krwnd) = ReadTo(s, r, q.at + 1, b)
    BY <1>3 DEF GtStart, q, back, r, b
  <2> QED
    BY <1>2, <2>2, <2>3, <2>4
<1>4. CASE p.go = 0 /\ time = Instant(q.cur)
  <2>1. GtStart(s, p, time, krwnd) = q
    BY <1>4 DEF GtStart, q, back
  <2> QED
    BY <1>2, <1>4, <2>1
<1>5. CASE p.go = 0 /\ time # Instant(q.cur)
  <2>1. q.at <= Len(s)
    <3>1. Instant(p.cur) \in Int
      BY InstantType DEF PosType
    <3>2. CASE krwnd \/ p.at <= Len(s)
      BY <1>2, <3>2
    <3>3. CASE time <= Instant(p.cur)
      <4>1. back
        BY <1>5, <3>1, <3>3 DEF q, back
      <4> QED
        BY <1>1, <4>1, RewindType DEF q
    <3> QED
      BY <1>5, <3>2, <3>3
  <2>2. next \in 1..Len(s)
    BY <1>1, <1>2, <2>1 DEF Lesser, next
  <2>3. Landing(s, next, time) \in 0..Len(s)
    BY <1>1, <2>2, LandingType
  <2>4. /\ ReadTo(s, q, next, Landing(s, next, time)) \in PosType
        /\ ReadTo(s, q, next, Landing(s, next, time)).at <= Len(s)
        /\ ReadTo(s, q, next, Landing(s, next, time)).go = 0
    <3> DEFINE to == Landing(s, next, time)
    <3>1. next \in Nat \ {0} /\ to \in Nat /\ to <= Len(s)
      BY <1>1, <2>2, <2>3
    <3> HIDE DEF to
    <3>2. /\ ReadTo(s, q, next, to) \in PosType
          /\ ReadTo(s, q, next, to).at = to
          /\ ReadTo(s, q, next, to).go = q.go
      BY <1>2, <3>1, ReadToType, Zenon
    <3> QED
      BY <1>2, <1>5, <3>1, <3>2 DEF to
  <2>5. GtStart(s, p, time, krwnd) = ReadTo(s, q, next, Landing(s, next, time))
    BY <1>5 DEF GtStart, q, back, next
  <2> QED
    BY <2>4, <2>5
<1>6. p.go = 0 \/ p.go > 0
    BY DEF PosType
<1> QED
    BY <1>3, <1>4, <1>5, <1>6

\* The calls that follow never move the cursor back, nor out of the schedule.
LEMMA GtRestType ==
    ASSUME NEW s \in Seq(Scan), s # << >>, NEW p \in PosType,
           NEW range, range.n \in Int, range.en \in Int, NEW count \in {0, 1}
    PROVE  /\ GtRest(s, p, range, count) \in PosType
           /\ GtRest(s, p, range, count).at >= p.at
           /\ GtRest(s, p, range, count).go = p.go
           /\ p.at <= Len(s) => GtRest(s, p, range, count).at <= Len(s)
           /\ p.at >= Len(s) => GtRest(s, p, range, count) = p
<1> DEFINE later == {i \in (p.at + 1)..Len(s) : s[i].t >= range.en} \cup {Len(s)}
           stop  == IF p.at >= Len(s) THEN p.at
                    ELSE IF range.n > 0 THEN Lesser(Len(s), p.at + range.n - count)
                    ELSE IF range.n < 0 THEN Len(s)
                    ELSE IF range.en <= Instant(p.cur) THEN p.at
                    ELSE Least(later)
<1>1. Len(s) \in Nat \ {0} /\ p.at \in Nat
    BY EmptySeq DEF PosType
<1>2. later \in SUBSET Nat /\ later # {}
    BY <1>1
<1>3. p.at < Len(s) => later \subseteq p.at..Len(s)
    BY <1>1
<1> HIDE DEF later
<1>4. p.at < Len(s) => Least(later) \in p.at..Len(s)
    BY <1>2, <1>3, LeastOf
<1>5. p.at < Len(s) /\ range.n > 0 => Lesser(Len(s), p.at + range.n - count) \in p.at..Len(s)
    BY <1>1 DEF Lesser
<1>6. stop \in Nat /\ stop >= p.at /\ (p.at < Len(s) => stop <= Len(s))
      /\ (p.at >= Len(s) => stop = p.at)
    BY <1>1, <1>4, <1>5
<1>7. GtRest(s, p, range, count) = ReadTo(s, p, p.at + 1, stop)
    BY DEF GtRest, later
<1> HIDE DEF stop
<1>8. /\ ReadTo(s, p, p.at + 1, stop) \in PosType
      /\ ReadTo(s, p, p.at + 1, stop).at = stop
      /\ ReadTo(s, p, p.at + 1, stop).go = p.go
  <2>1. p.at + 1 \in Nat \ {0} /\ (stop <= Len(s) \/ p.at + 1 > stop)
    BY <1>1, <1>6
  <2> QED
    BY <1>6, <2>1, ReadToType, Zenon
<1>9. p.at >= Len(s) => ReadTo(s, p, p.at + 1, stop) = p
  <2> SUFFICES ASSUME p.at >= Len(s)
               PROVE  ReadTo(s, p, p.at + 1, stop) = p
    OBVIOUS
  <2>1. stop = p.at /\ p.at + 1 > stop
    BY <1>1, <1>6
  <2>2. UnpakRange(p.cur, s, p.at + 1, stop) = p.cur
    BY <2>1 DEF UnpakRange
  <2>3. [p EXCEPT !.at = p.at, !.cur = p.cur] = p
    BY DEF PosType
  <2> QED
    BY <2>1, <2>2, <2>3 DEF ReadTo
<1> QED
    BY <1>1, <1>6, <1>7, <1>8, <1>9

-----------------------------------------------------------------------------
(***************************************************************************)
(* The index, before and after an insertion or a deletion.                 *)
(***************************************************************************)
LEMMA ScansOf ==
    ASSUME NEW list \in Seq(1..MaxObs), NEW table,
           \A i \in 1..Len(list) : table[list[i]] \in Scan
    PROVE  /\ [i \in 1..Len(list) |-> table[list[i]]] \in Seq(Scan)
           /\ Len([i \in 1..Len(list) |-> table[list[i]]]) = Len(list)
<1>1. Len(list) \in Nat
    BY LenProperties
<1> QED
    BY <1>1

\* The schedule is a list of scans: no place of the index holds an unused record.
LEMMA SchedType ==
    ASSUME StoreInv
    PROVE  Sched \in Seq(Scan) /\ Len(Sched) = nobs /\ nobs \in Nat
BY ScansOf, LenProperties DEF Sched, nobs, StoreInv, TypeOK, IndexHoldsScans

\* A list of records that hold scans.
ScanList(list, table) ==
    /\ list \in Seq(1..MaxObs)
    /\ \A i \in 1..Len(list) : table[list[i]] \in Scan

\* A part of such a list is one, ...
LEMMA PartOfScanList ==
    ASSUME NEW list, NEW table, ScanList(list, table),
           NEW a \in Nat \ {0}, NEW b \in 0..Len(list)
    PROVE  /\ ScanList(SubSeq(list, a, b), table)
           /\ Len(SubSeq(list, a, b)) = IF a <= b THEN b - a + 1 ELSE 0
           /\ \A i \in 1..(b - a + 1) : SubSeq(list, a, b)[i] = list[a + i - 1]
<1>1. list \in Seq(1..MaxObs) /\ Len(list) \in Nat
    BY LenProperties DEF ScanList
<1>2. /\ SubSeq(list, a, b) \in Seq(1..MaxObs)
      /\ Len(SubSeq(list, a, b)) = IF a <= b THEN b - a + 1 ELSE 0
      /\ \A i \in 1..(b - a + 1) : SubSeq(list, a, b)[i] = list[a + i - 1]
  <2>1. \A i \in 1..Len(list) : list[i] \in 1..MaxObs
    BY <1>1, ElementOfSeq
  <2>2. a \in Int /\ b \in Int /\ \A i \in a..b : i \in 1..Len(list)
    BY <1>1
  <2> QED
    BY <2>1, <2>2, SubSeqProperties
<1>3. \A i \in 1..Len(SubSeq(list, a, b)) : table[SubSeq(list, a, b)[i]] \in Scan
    BY <1>1, <1>2 DEF ScanList
<1> QED
    BY <1>2, <1>3 DEF ScanList

\* ... and two of them one behind the other are.
LEMMA JoinedScanLists ==
    ASSUME NEW one, NEW two, NEW table, ScanList(one, table), ScanList(two, table)
    PROVE  /\ ScanList(one \o two, table)
           /\ Len(one \o two) = Len(one) + Len(two)
           /\ \A i \in 1..Len(one) : (one \o two)[i] = one[i]
           /\ \A i \in (Len(one) + 1)..(Len(one) + Len(two)) :
                 (one \o two)[i] = two[i - Len(one)]
<1>1. one \in Seq(1..MaxObs) /\ two \in Seq(1..MaxObs) /\ Len(one) \in Nat /\ Len(two) \in Nat
    BY LenProperties DEF ScanList
<1>2. /\ one \o two \in Seq(1..MaxObs)
      /\ Len(one \o two) = Len(one) + Len(two)
      /\ \A i \in 1..(Len(one) + Len(two)) :
            (one \o two)[i] = IF i <= Len(one) THEN one[i] ELSE two[i - Len(one)]
    BY <1>1, ConcatProperties
<1>3. \A i \in 1..Len(one) : (one \o two)[i] = one[i]
    BY <1>1, <1>2
<1>4. \A i \in (Len(one) + 1)..(Len(one) + Len(two)) :
          (one \o two)[i] = two[i - Len(one)] /\ i - Len(one) \in 1..Len(two)
    BY <1>1, <1>2
<1>5. \A i \in 1..Len(one \o two) : table[(one \o two)[i]] \in Scan
    BY <1>1, <1>2, <1>3, <1>4 DEF ScanList
<1> QED
    BY <1>2, <1>3, <1>4, <1>5 DEF ScanList

\* The index, what deletions left behind it, and the two as they stand in iskrec.
LEMMA IskrecType ==
    ASSUME StoreInv
    PROVE  /\ ScanList(index, rec) /\ ScanList(behind, rec) /\ ScanList(iskrec, rec)
           /\ nobs \in Nat /\ Len(behind) \in Nat
           /\ Len(iskrec) = nobs + Len(behind) /\ Len(iskrec) <= MaxObs
           /\ \A i \in 1..nobs : iskrec[i] = index[i]
<1>1. ScanList(index, rec) /\ ScanList(behind, rec)
    BY DEF StoreInv, TypeOK, IndexHoldsScans, BehindHoldsScans, ScanList, nobs
<1>2. nobs \in Nat /\ Len(behind) \in Nat /\ nobs + Len(behind) <= MaxObs
    BY LenProperties DEF StoreInv, TypeOK, nobs
<1> QED
    BY <1>1, <1>2, JoinedScanLists DEF iskrec, nobs

\* PTOBS 'DE': what is left is the entries before the block and those behind it.
LEMMA WithoutType ==
    ASSUME index \in Seq(1..MaxObs), behind \in Seq(1..MaxObs),
           NEW k \in 0..(nobs + 1), NEW n \in Nat \ {0}
    PROVE  /\ Without(k, n) \in Seq(1..MaxObs)
           /\ Len(Without(k, n)) <= nobs
           /\ \A i \in 1..Len(Without(k, n)) :
                 \/ (k = 0 \/ i < k) /\ i <= nobs /\ Without(k, n)[i] = index[i]
                 \/ 0 < k /\ k <= i /\ i + n <= nobs /\ Without(k, n)[i] = index[i + n]
<1>1. nobs \in Nat /\ \A i \in 1..nobs : index[i] \in 1..MaxObs
    BY LenProperties, ElementOfSeq DEF nobs
<1>2. CASE k = 0
  <2>1. /\ SubSeq(index, 1, nobs - n) \in Seq(1..MaxObs)
        /\ Len(SubSeq(index, 1, nobs - n)) = IF 1 <= nobs - n THEN nobs - n - 1 + 1 ELSE 0
        /\ \A i \in 1..(nobs - n - 1 + 1) : SubSeq(index, 1, nobs - n)[i] = index[1 + i - 1]
    BY <1>1, SubSeqProperties
  <2> QED
    BY <1>1, <1>2, <2>1 DEF Without
<1>3. CASE k = nobs + 1
  <2>1. /\ SubSeq(iskrec, 1, nobs) \in Seq(1..MaxObs)
        /\ Len(SubSeq(iskrec, 1, nobs)) = nobs
        /\ \A i \in 1..nobs : SubSeq(iskrec, 1, nobs)[i] = index[i]
    <3>1. /\ iskrec \in Seq(1..MaxObs) /\ nobs <= Len(iskrec) /\ Len(iskrec) \in Nat
          /\ \A i \in 1..nobs : iskrec[i] = index[i]
      BY <1>1, ConcatProperties, LenProperties DEF iskrec, nobs
    <3> HIDE DEF iskrec
    <3>2. \A i \in 1..nobs : iskrec[i] \in 1..MaxObs
      BY <1>1, <3>1, ElementOfSeq
    <3> DEFINE list == iskrec
               last == nobs
               part == SubSeq(list, 1, last)
    <3>3. 1 \in Int /\ last \in Int /\ \A i \in 1..last : list[i] \in 1..MaxObs
      BY <1>1, <3>2
    <3> HIDE DEF list, last
    <3>4. /\ part \in Seq(1..MaxObs)
          /\ Len(part) = IF 1 <= last THEN last - 1 + 1 ELSE 0
          /\ \A i \in 1..(last - 1 + 1) : part[i] = list[1 + i - 1]
      BY <3>3, SubSeqProperties
    <3> HIDE DEF part
    <3>5. Len(part) = last /\ \A i \in 1..last : part[i] = list[i]
      BY <1>1, <3>4 DEF last
    <3> QED
      BY <3>1, <3>4, <3>5 DEF part, list, last
  <2>2. Without(k, n) = SubSeq(iskrec, 1, nobs)
    BY <1>1, <1>3 DEF Without
  <2>3. \A i \in 1..nobs : i < k /\ i <= nobs
    BY <1>1, <1>3
  <2>4. \A i \in 1..Len(Without(k, n)) : i \in 1..nobs /\ Without(k, n)[i] = index[i]
    BY <2>1, <2>2
  <2>5. Len(Without(k, n)) <= nobs
    BY <1>1, <2>1, <2>2
  <2>6. Without(k, n) \in Seq(1..MaxObs)
    BY <2>1, <2>2
  <2> QED
    BY <2>3, <2>4, <2>5, <2>6
<1>4. CASE k > 0 /\ k <= nobs
  <2> DEFINE before == SubSeq(index, 1, k - 1)
             after  == SubSeq(index, k + n, nobs)
  <2>1. /\ before \in Seq(1..MaxObs)
        /\ Len(before) = k - 1
        /\ \A i \in 1..(k - 1) : before[i] = index[i]
    BY <1>1, <1>4, SubSeqProperties
  <2>2. /\ after \in Seq(1..MaxObs)
        /\ Len(after) = IF k + n <= nobs THEN nobs - k - n + 1 ELSE 0
        /\ \A i \in 1..(nobs - k - n + 1) : after[i] = index[k + n + i - 1]
    BY <1>1, <1>4, SubSeqProperties
  <2> HIDE DEF before, after
  <2>3. /\ before \o after \in Seq(1..MaxObs)
        /\ Len(before \o after) = Len(before) + Len(after)
        /\ \A i \in 1..(Len(before) + Len(after)) :
              (before \o after)[i] = IF i <= Len(before) THEN before[i]
                                                          ELSE after[i - Len(before)]
    BY <2>1, <2>2, ConcatProperties
  <2>4. Len(before \o after) <= nobs
    BY <1>1, <1>4, <2>1, <2>2, <2>3
  <2>5. ASSUME NEW i \in 1..Len(before \o after)
        PROVE  \/ i < k /\ i <= nobs /\ (before \o after)[i] = index[i]
               \/ k <= i /\ i + n <= nobs /\ (before \o after)[i] = index[i + n]
    <3>1. CASE i < k
      BY <1>1, <1>4, <2>1, <2>2, <2>3, <3>1
    <3>2. CASE i >= k
      <4>1. i - (k - 1) \in 1..(nobs - k - n + 1)
        BY <1>1, <1>4, <2>1, <2>2, <2>3, <3>2
      <4>2. (before \o after)[i] = after[i - (k - 1)]
        BY <1>1, <1>4, <2>1, <2>2, <2>3, <3>2
      <4>3. k + n + (i - (k - 1)) - 1 = i + n
        BY <1>1
      <4> QED
        BY <1>1, <2>2, <3>2, <4>1, <4>2, <4>3
    <3> QED
      BY <3>1, <3>2
  <2>6. k # 0 /\ ~(k > nobs)
    BY <1>1, <1>4
  <2>7. Without(k, n) = before \o after
    BY <2>6, Zenon DEF Without, before, after
  <2> QED
    BY <1>1, <1>4, <2>3, <2>4, <2>5, <2>7
<1> QED
    BY <1>1, <1>2, <1>3, <1>4

\* PTOBS 'IN': the new record stands behind the cursor.
Grown == SubSeq(index, 1, ircur) \o <<nxtrec>> \o SubSeq(index, ircur + 1, nobs)

\* Inserting nxtrec after the cursor shifts the places behind it by one.
LEMMA GrownType ==
    ASSUME index \in Seq(1..MaxObs), ircur \in 0..nobs, nxtrec \in 1..MaxObs
    PROVE  /\ Grown \in Seq(1..MaxObs)
           /\ Len(Grown) = nobs + 1
           /\ \A i \in 1..(nobs + 1) :
                 Grown[i] = IF i <= ircur THEN index[i]
                            ELSE IF i = ircur + 1 THEN nxtrec
                            ELSE index[i - 1]
<1> DEFINE before == SubSeq(index, 1, ircur)
           after  == SubSeq(index, ircur + 1, nobs)
<1>1. nobs \in Nat /\ \A i \in 1..nobs : index[i] \in 1..MaxObs
    BY LenProperties, ElementOfSeq DEF nobs
<1>2. /\ before \in Seq(1..MaxObs)
      /\ Len(before) = ircur
      /\ \A i \in 1..ircur : before[i] = index[i]
    BY <1>1, SubSeqProperties
<1>3. /\ after \in Seq(1..MaxObs)
      /\ Len(after) = nobs - ircur
      /\ \A i \in 1..(nobs - ircur) : after[i] = index[ircur + i]
    BY <1>1, SubSeqProperties
<1>4. <<nxtrec>> \in Seq(1..MaxObs) /\ Len(<<nxtrec>>) = 1 /\ <<nxtrec>>[1] = nxtrec
    OBVIOUS
<1> HIDE DEF before, after
<1>5. /\ before \o <<nxtrec>> \in Seq(1..MaxObs)
      /\ Len(before \o <<nxtrec>>) = ircur + 1
      /\ \A i \in 1..(ircur + 1) :
            (before \o <<nxtrec>>)[i] = IF i <= ircur THEN before[i] ELSE nxtrec
    BY <1>1, <1>2, <1>4, ConcatProperties
<1>6. /\ (before \o <<nxtrec>>) \o after \in Seq(1..MaxObs)
      /\ Len((before \o <<nxtrec>>) \o after) = nobs + 1
      /\ \A i \in 1..(nobs + 1) :
            ((before \o <<nxtrec>>) \o after)[i] =
                IF i <= ircur + 1 THEN (before \o <<nxtrec>>)[i]
                                  ELSE after[i - (ircur + 1)]
    BY <1>1, <1>3, <1>5, ConcatProperties
<1>7. ASSUME NEW i \in 1..(nobs + 1)
      PROVE  ((before \o <<nxtrec>>) \o after)[i] =
                IF i <= ircur THEN index[i]
                ELSE IF i = ircur + 1 THEN nxtrec ELSE index[i - 1]
  <2>1. CASE i <= ircur + 1
    BY <1>1, <1>2, <1>5, <1>6, <2>1
  <2>2. CASE i > ircur + 1
    <3>1. i - (ircur + 1) \in 1..(nobs - ircur) /\ ircur + (i - (ircur + 1)) = i - 1
      BY <1>1, <2>2
    <3> QED
      BY <1>1, <1>3, <1>6, <2>2, <3>1
  <2>3. i <= ircur + 1 \/ i > ircur + 1
    BY <1>1
  <2> QED
    BY <2>1, <2>2, <2>3, Zenon
<1> QED
    BY <1>6, <1>7 DEF Grown, before, after

\* obs_sort takes each of the scans it sorts from a place of its own.
LEMMA SortOrderType ==
    ASSUME NEW n \in Nat, NEW scans, \A i \in 1..n : scans[i] \in Scan,
           NEW order \in SortOrders(scans, n)
    PROVE  /\ order \in [1..n -> 1..n]
           /\ \A i, j \in 1..n : i # j => order[i] # order[j]
<1>1. /\ order \in [1..n -> 1..n]
      /\ \A i, j \in 1..n : i < j => Precedes(scans, order[i], order[j])
    BY DEF SortOrders
<1>2. ASSUME NEW i \in 1..n, NEW j \in 1..n, i < j
      PROVE  order[i] # order[j]
  <2>1. Precedes(scans, order[i], order[j])
    BY <1>1, <1>2
  <2>2. scans[order[i]].t \in Int /\ scans[order[i]].src \in Int
    <3>1. scans[order[i]] \in Scan
      BY <1>1
    <3>2. scans[order[i]].t \in Times /\ scans[order[i]].src \in Sources
      BY <3>1 DEF Scan
    <3>3. Times \subseteq Int /\ Sources \subseteq Int
      BY ConstantTypes, SourcesAreRanks
    <3> QED
      BY <3>2, <3>3, Zenon
  <2>3. order[i] \in Int
    BY <1>1
  <2> QED
    BY <2>1, <2>2, <2>3 DEF Precedes
<1>3. \A i, j \in 1..n : i # j => order[i] # order[j]
  <2> TAKE i, j \in 1..n
  <2>1. i < j \/ j < i \/ i = j
    OBVIOUS
  <2> QED
    BY <1>2, <2>1
<1> QED
    BY <1>1, <1>3

\* obs_sort moves the entries it sorts, each to a place of its own.
LEMMA ReorderType ==
    ASSUME NEW S, NEW s \in Seq(S), NEW n \in 0..Len(s),
           NEW scans, \A i \in 1..n : scans[i] \in Scan,
           NEW order \in SortOrders(scans, n)
    PROVE  /\ order \in [1..n -> 1..n]
           /\ Reorder(s, order) \in Seq(S)
           /\ Len(Reorder(s, order)) = Len(s)
           /\ \A k \in 1..Len(s) :
                 Reorder(s, order)[k] = IF k <= n THEN s[order[k]] ELSE s[k]
           /\ \A i, j \in 1..n : i # j => order[i] # order[j]
<1>1. n \in Nat /\ Len(s) \in Nat /\ \A i \in 1..Len(s) : s[i] \in S
    BY LenProperties, ElementOfSeq
<1>2. /\ order \in [1..n -> 1..n]
      /\ \A i, j \in 1..n : i # j => order[i] # order[j]
    BY <1>1, SortOrderType
<1>3. \A k \in 1..Len(s) : (k \in DOMAIN order) <=> k <= n
    BY <1>1, <1>2
<1>4. ASSUME NEW k \in 1..Len(s)
      PROVE  (IF k \in DOMAIN order THEN s[order[k]] ELSE s[k]) \in S
    BY <1>1, <1>2, <1>3
<1>5. Reorder(s, order) \in Seq(S) /\ Len(Reorder(s, order)) = Len(s)
    BY <1>1, <1>4 DEF Reorder
<1> QED
    BY <1>1, <1>2, <1>3, <1>5 DEF Reorder

-----------------------------------------------------------------------------
(***************************************************************************)
(* Every action keeps the types.                                           *)
(***************************************************************************)
\* A list still holds scans when one is written over a record.
LEMMA WrittenScanList ==
    ASSUME NEW list, ScanList(list, rec), rec \in [1..MaxObs -> Scan \cup {NoScan}],
           NEW r \in 1..MaxObs, NEW x \in Scan, rec' = [rec EXCEPT ![r] = x]
    PROVE  ScanList(list, rec')
<1>1. \A i \in 1..Len(list) : list[i] \in 1..MaxObs /\ rec[list[i]] \in Scan
    BY LenProperties, ElementOfSeq DEF ScanList
<1>2. \A q \in 1..MaxObs : rec'[q] = IF q = r THEN x ELSE rec[q]
    OBVIOUS
<1>3. \A i \in 1..Len(list) : rec'[list[i]] \in Scan
    BY <1>1, <1>2
<1> QED
    BY <1>3 DEF ScanList

\* A step that leaves the store alone.
LEMMA SameStoreTypes ==
    ASSUME StoreInv, UNCHANGED store, ircur' \in Nat, irecgo' \in Nat, cur' \in CurType,
           nobs > 0 => cur'.sta # << >>, status' \in {"ok", "upset", "failed"}
    PROVE  StoreInv'
<1>1. UNCHANGED <<index, behind, rec, nxtrec>> /\ nobs' = nobs
    BY DEF store, nobs
<1> QED
    BY <1>1 DEF StoreInv, TypeOK, IndexHoldsScans, BehindHoldsScans, CurHasStations

\* The ranges and the counts that are typed are numbers, and so is the place that
\* PREVIOUS and BACK go to.
LEMMA RangeTypes ==
    ASSUME NEW range \in Ranges
    PROVE  range.n \in Nat /\ range.n \in Int /\ range.en \in Int /\ range.st \in Int
BY TimesAreIntegers, ConstantTypes DEF Ranges, Instants

LEMMA CountTypes ==
    ASSUME StoreInv, NEW n \in Counts
    PROVE  /\ n \in Int /\ Lesser(ircur, n) + 1 \in Int
           /\ PlaceBack(n) \in Nat \ {0} /\ PlaceBack(n) - 1 \in Nat
           /\ \A en \in Endings(n) : en \in Int
<1>1. n \in Int /\ ircur \in Nat
    BY CountsAreIntegers DEF StoreInv, TypeOK
<1>2. \A en \in Endings(n) : en \in Int
    BY TimesAreIntegers DEF Endings, Instants
<1> QED
    BY <1>1, <1>2 DEF PlaceBack, Greater, Lesser

LEMMA InitTypes == Init => StoreInv
<1> SUFFICES ASSUME NEW f \in Files, Load(f)
             PROVE  StoreInv
    BY DEF Init
<1>1. f \in Seq(Scan) /\ Len(f) \in Nat /\ Len(f) <= MaxObs /\ DOMAIN f = 1..Len(f)
      /\ \A i \in 1..Len(f) : f[i] \in Scan
    BY FilesFit, LenProperties, ElementOfSeq
<1>2. PICK order \in SortOrders(f, Len(f)) : index = order
    BY DEF Load
<1>3. index \in [1..Len(f) -> 1..Len(f)]
    BY <1>2 DEF SortOrders
<1>4. index \in Seq(1..MaxObs) /\ nobs = Len(f)
    BY <1>1, <1>3, ConstantTypes DEF nobs
<1>5. rec = [r \in 1..MaxObs |-> IF r \in DOMAIN f THEN f[r] ELSE NoScan]
    BY DEF Load
<1>6. rec \in [1..MaxObs -> Scan \cup {NoScan}]
    BY <1>1, <1>5
<1>7. \A i \in 1..nobs : index[i] \in 1..Len(f) /\ rec[index[i]] = f[index[i]]
    BY <1>1, <1>3, <1>4, <1>5, ConstantTypes
<1>8. IndexHoldsScans
    BY <1>1, <1>7 DEF IndexHoldsScans
<1>9. nxtrec \in 1..(MaxObs + 1)
    BY <1>1, ConstantTypes DEF Load
<1>10. ircur \in 0..nobs /\ cur \in CurType /\ CurHasStations
  <2>1. CASE f = << >>
    BY <1>1, <1>4, <2>1, ConstantTypes DEF Load, CurHasStations
  <2>2. CASE f # << >>
    <3>1. 1 \in 1..nobs
      BY <1>1, <1>4, <2>2, EmptySeq
    <3>2. f[index[1]] \in Scan
      BY <1>1, <1>7, <3>1
    <3>3. RewoundCur(<< >>) \in CurType
      BY ConstantTypes DEF RewoundCur, CurType
    <3>4. Unpak(RewoundCur(<< >>), f[index[1]]) \in FullCur
      BY <3>2, <3>3, UnpakType
    <3>5. ircur = 1 /\ cur = Unpak(RewoundCur(<< >>), f[index[1]])
      BY <2>2 DEF Load
    <3> QED
      BY <3>1, <3>4, <3>5 DEF FullCur, CurHasStations
  <2> QED
    BY <2>1, <2>2
<1>11. irecgo = 0 /\ status = "ok" /\ behind = << >>
    BY DEF Load
<1>12. behind \in Seq(1..MaxObs) /\ Len(behind) = 0 /\ BehindHoldsScans
    BY <1>11 DEF BehindHoldsScans
<1> QED
    BY <1>1, <1>4, <1>6, <1>8, <1>9, <1>10, <1>11, <1>12, ConstantTypes DEF StoreInv, TypeOK

\* What PTOBS 'IN' does to the index when there is room.
LEMMA InsertEffect ==
    ASSUME StoreInv, NEW x \in Scan, Insert(x), nobs < MaxObs, nxtrec <= MaxObs
    PROVE  /\ rec' = [rec EXCEPT ![nxtrec] = x]
           /\ nxtrec' = nxtrec + 1
           /\ ircur' = ircur + 1 /\ ircur <= nobs
           /\ behind' = Displaced
           /\ UNCHANGED <<irecgo, status>>
           /\ \A i \in 1..(nobs + 1) : rec'[Grown[i]] \in Scan
           /\ \E order : /\ order \in [1..(ircur + 1) -> 1..(ircur + 1)]
                         /\ \A i, j \in 1..(ircur + 1) : i # j => order[i] # order[j]
                         /\ index' = Reorder(Grown, order)
                         /\ index' \in Seq(1..MaxObs)
                         /\ Len(index') = nobs + 1
                         /\ \A k \in 1..(nobs + 1) :
                               index'[k] = IF k <= ircur + 1 THEN Grown[order[k]]
                                                             ELSE Grown[k]
<1> DEFINE scans == [i \in 1..(nobs + 1) |-> rec'[Grown[i]]]
<1>1. /\ rec' = [rec EXCEPT ![nxtrec] = x]
      /\ nxtrec' = nxtrec + 1
      /\ ircur' = ircur + 1 /\ ircur <= nobs
      /\ behind' = Displaced
      /\ UNCHANGED <<irecgo, status>>
      /\ \E order \in SortOrders(scans, ircur + 1) : index' = Reorder(Grown, order)
  <2>1. ~(nobs >= MaxObs) /\ ~(nxtrec > MaxObs)
    BY LenProperties, ConstantTypes DEF StoreInv, TypeOK, nobs
  <2> QED
    BY <2>1, Zenon DEF Insert, Grown
<1>2. /\ index \in Seq(1..MaxObs) /\ nobs \in Nat /\ ircur \in 0..nobs
      /\ nxtrec \in 1..MaxObs /\ rec \in [1..MaxObs -> Scan \cup {NoScan}]
      /\ \A i \in 1..nobs : index[i] \in 1..MaxObs /\ rec[index[i]] \in Scan
    BY <1>1, ConstantTypes, LenProperties, ElementOfSeq DEF StoreInv, TypeOK, IndexHoldsScans, nobs
<1>3. /\ Grown \in Seq(1..MaxObs)
      /\ Len(Grown) = nobs + 1
      /\ \A i \in 1..(nobs + 1) :
            Grown[i] = IF i <= ircur THEN index[i]
                       ELSE IF i = ircur + 1 THEN nxtrec
                       ELSE index[i - 1]
    BY <1>2, GrownType
<1>4. \A r \in 1..MaxObs : rec'[r] = IF r = nxtrec THEN x ELSE rec[r]
    BY <1>1, <1>2
<1>5. ASSUME NEW i \in 1..(nobs + 1)
      PROVE  rec'[Grown[i]] \in Scan
  <2>1. CASE i <= ircur
    <3>1. i \in 1..nobs /\ Grown[i] = index[i]
      BY <1>2, <1>3, <2>1
    <3> QED
      BY <1>2, <1>4, <3>1
  <2>2. CASE i = ircur + 1
    BY <1>2, <1>3, <1>4, <2>2
  <2>3. CASE i > ircur + 1
    <3>1. i - 1 \in 1..nobs /\ Grown[i] = index[i - 1]
      BY <1>2, <1>3, <2>3
    <3> QED
      BY <1>2, <1>4, <3>1
  <2>4. i <= ircur \/ i = ircur + 1 \/ i > ircur + 1
    BY <1>2
  <2> QED
    BY <2>1, <2>2, <2>3, <2>4
<1>6. PICK order \in SortOrders(scans, ircur + 1) : index' = Reorder(Grown, order)
    BY <1>1
<1>7. \A i \in 1..(ircur + 1) : scans[i] \in Scan
    BY <1>2, <1>5
<1>8. ircur + 1 \in 0..Len(Grown)
    BY <1>2, <1>3
<1> HIDE DEF scans
<1>9. /\ order \in [1..(ircur + 1) -> 1..(ircur + 1)]
      /\ Reorder(Grown, order) \in Seq(1..MaxObs)
      /\ Len(Reorder(Grown, order)) = Len(Grown)
      /\ \A k \in 1..Len(Grown) :
            Reorder(Grown, order)[k] = IF k <= ircur + 1 THEN Grown[order[k]] ELSE Grown[k]
      /\ \A i, j \in 1..(ircur + 1) : i # j => order[i] # order[j]
    BY <1>3, <1>7, <1>8, ReorderType
<1>10. /\ index' \in Seq(1..MaxObs)
       /\ Len(index') = nobs + 1
       /\ \A k \in 1..(nobs + 1) :
             index'[k] = IF k <= ircur + 1 THEN Grown[order[k]] ELSE Grown[k]
    BY <1>3, <1>6, <1>9
<1> QED
    BY <1>1, <1>5, <1>6, <1>9, <1>10

\* PTOBS keeps the invariant when it inserts a new scan...
LEMMA InsertTypes ==
    ASSUME StoreInv, NEW x \in Scan, Insert(x)
    PROVE  StoreInv'
<1>1. cur' \in FullCur
    BY UnpakType DEF Insert, StoreInv, TypeOK
<1>2. CASE nobs < MaxObs /\ nxtrec <= MaxObs
  <2>1. nobs \in Nat /\ ircur \in Nat /\ nxtrec \in 1..MaxObs
        /\ rec \in [1..MaxObs -> Scan \cup {NoScan}]
    BY <1>2, ConstantTypes, LenProperties DEF StoreInv, TypeOK, nobs
  <2>2. PICK order :
           /\ rec' = [rec EXCEPT ![nxtrec] = x]
           /\ nxtrec' = nxtrec + 1
           /\ ircur' = ircur + 1 /\ ircur <= nobs
           /\ behind' = Displaced
           /\ UNCHANGED <<irecgo, status>>
           /\ \A i \in 1..(nobs + 1) : rec'[Grown[i]] \in Scan
           /\ order \in [1..(ircur + 1) -> 1..(ircur + 1)]
           /\ index' \in Seq(1..MaxObs)
           /\ Len(index') = nobs + 1
           /\ \A k \in 1..(nobs + 1) :
                 index'[k] = IF k <= ircur + 1 THEN Grown[order[k]] ELSE Grown[k]
    BY <1>2, InsertEffect
  <2>3. \A k \in 1..(nobs + 1) : rec'[index'[k]] \in Scan
    <3> TAKE k \in 1..(nobs + 1)
    <3>1. CASE k <= ircur + 1
      <4>1. order[k] \in 1..(nobs + 1) /\ index'[k] = Grown[order[k]]
        BY <2>1, <2>2, <3>1
      <4> QED
        BY <2>2, <4>1
    <3>2. CASE ~(k <= ircur + 1)
      <4>1. index'[k] = Grown[k]
        BY <2>2, <3>2, Zenon
      <4> QED
        BY <2>2, <4>1, Zenon
    <3> QED
      BY <3>1, <3>2
  <2>4. rec' \in [1..MaxObs -> Scan \cup {NoScan}]
    BY <2>1, <2>2
  <2>5. nobs' = nobs + 1
    BY <2>2 DEF nobs
  <2>6. IndexHoldsScans'
    BY <2>3, <2>5 DEF IndexHoldsScans
  <2>7. /\ ScanList(behind', rec') /\ nobs' + Len(behind') <= MaxObs
    <3>1. ScanList(behind, rec) /\ Len(behind) \in Nat /\ nobs + Len(behind) <= MaxObs
      BY IskrecType DEF StoreInv, TypeOK
    <3>2. /\ ScanList(SubSeq(behind, 2, Len(behind)), rec)
          /\ Len(SubSeq(behind, 2, Len(behind))) = IF 2 <= Len(behind) THEN Len(behind) - 1 ELSE 0
      BY <3>1, PartOfScanList
    <3>3. ScanList(behind', rec)
      BY <2>2, <3>2 DEF Displaced
    <3>4. ScanList(behind', rec')
      BY <2>1, <2>2, <3>3, WrittenScanList
    <3>5. Len(behind') = IF 2 <= Len(behind) THEN Len(behind) - 1 ELSE 0
      BY <2>2, <3>2 DEF Displaced
    <3>6. MaxObs \in Nat /\ nobs + 1 <= MaxObs
      BY <1>2, <2>1, ConstantTypes
    <3>7. nobs' + Len(behind') <= MaxObs
      <4>1. CASE 2 <= Len(behind)
        <5>1. Len(behind') = Len(behind) - 1
          BY <3>5, <4>1
        <5> QED
          BY <2>1, <2>5, <3>1, <5>1
      <4>2. CASE ~(2 <= Len(behind))
        <5>1. Len(behind') = 0
          BY <3>5, <4>2
        <5> QED
          BY <2>1, <2>5, <3>6, <5>1
      <4> QED
        BY <4>1, <4>2
    <3> QED
      BY <3>4, <3>7
  <2>8. behind' \in Seq(1..MaxObs) /\ BehindHoldsScans' /\ CurHasStations'
    BY <1>1, <2>7 DEF ScanList, BehindHoldsScans, CurHasStations, FullCur
  <2>9. ircur' \in Nat /\ nxtrec' \in 1..(MaxObs + 1) /\ irecgo' \in Nat
        /\ status' \in {"ok", "upset", "failed"}
    BY <1>2, <2>1, <2>2, ConstantTypes DEF StoreInv, TypeOK
  <2> QED
    BY <1>1, <2>2, <2>4, <2>6, <2>7, <2>8, <2>9 DEF StoreInv, TypeOK, FullCur
<1>3. CASE ~(nobs < MaxObs /\ nxtrec <= MaxObs)
  <2>1. UNCHANGED <<store, ircur, irecgo>> /\ status' \in {"ok", "upset", "failed"}
    BY <1>3 DEF Insert, StoreInv, TypeOK
  <2> QED
    BY <1>1, <2>1, SameStoreTypes DEF StoreInv, TypeOK, FullCur
<1> QED
    BY <1>2, <1>3

\* With the cursor behind the last scan the new record is sorted in with whatever
\* stands in the index up to there.
LEMMA InsertBehindTypes ==
    ASSUME StoreInv, NEW x \in Scan, InsertBehind(x)
    PROVE  /\ StoreInv'
           /\ status' # "failed" => nobs' = nobs + 1
<1>1. cur' \in FullCur
    BY UnpakType DEF InsertBehind, StoreInv, TypeOK
<1>2. CASE status' = "failed" /\ UNCHANGED <<store, ircur, irecgo>>
    BY <1>1, <1>2, SameStoreTypes DEF StoreInv, TypeOK, FullCur
<1>3. CASE ~(status' = "failed" /\ UNCHANGED <<store, ircur, irecgo>>)
  <2> DEFINE before == SubSeq(iskrec, 1, ircur)
             after  == SubSeq(iskrec, ircur + 2, Len(iskrec))
             grown  == before \o <<nxtrec>> \o after
             scans  == [i \in 1..Len(grown) |-> rec'[grown[i]]]
  <2>1. /\ nobs < MaxObs /\ nxtrec <= MaxObs /\ ircur <= Len(iskrec) /\ ircur < MaxObs
        /\ ircur > nobs
        /\ rec' = [rec EXCEPT ![nxtrec] = x] /\ nxtrec' = nxtrec + 1 /\ ircur' = ircur + 1
        /\ status' = "upset" /\ irecgo' = irecgo
    BY <1>3 DEF InsertBehind
  <2>2. /\ nobs \in Nat /\ ircur \in Nat /\ nxtrec \in 1..MaxObs /\ irecgo \in Nat
        /\ rec \in [1..MaxObs -> Scan \cup {NoScan}]
        /\ Len(iskrec) \in Nat /\ Len(iskrec) <= MaxObs /\ MaxObs \in Nat
    BY <2>1, IskrecType, ConstantTypes DEF StoreInv, TypeOK
  <2>3. /\ rec' \in [1..MaxObs -> Scan \cup {NoScan}] /\ rec'[nxtrec] \in Scan
    BY <2>1, <2>2
  <2>4. ScanList(iskrec, rec')
    BY <2>1, <2>2, IskrecType, WrittenScanList
  <2>5. /\ ScanList(before, rec') /\ Len(before) = ircur
        /\ ScanList(after, rec')
        /\ Len(after) = IF ircur + 2 <= Len(iskrec) THEN Len(iskrec) - ircur - 1 ELSE 0
    <3>1. ircur \in 0..Len(iskrec) /\ ircur + 2 \in Nat \ {0} /\ 1 \in Nat \ {0}
          /\ Len(iskrec) \in 0..Len(iskrec)
      BY <2>1, <2>2
    <3>2. ScanList(before, rec') /\ Len(before) = IF 1 <= ircur THEN ircur - 1 + 1 ELSE 0
      BY <2>4, <3>1, PartOfScanList
    <3>3. ScanList(after, rec')
          /\ Len(after) = IF ircur + 2 <= Len(iskrec) THEN Len(iskrec) - (ircur + 2) + 1 ELSE 0
      BY <2>4, <3>1, PartOfScanList
    <3> QED
      BY <2>2, <3>2, <3>3
  <2>6. ScanList(<<nxtrec>>, rec') /\ Len(<<nxtrec>>) = 1
    BY <2>2, <2>3 DEF ScanList
  <2> HIDE DEF before, after
  <2>7. ScanList(before \o <<nxtrec>>, rec') /\ Len(before \o <<nxtrec>>) = ircur + 1
    BY <2>5, <2>6, JoinedScanLists
  <2>8. ScanList(grown, rec') /\ Len(grown) = ircur + 1 + Len(after)
    BY <2>5, <2>7, JoinedScanLists
  <2>9. PICK order \in SortOrders(scans, ircur + 1) :
           /\ index' = SubSeq(Reorder(grown, order), 1, nobs + 1)
           /\ behind' = SubSeq(Reorder(grown, order), nobs + 2, Len(Reorder(grown, order)))
    BY <1>3 DEF InsertBehind, before, after
  <2>10. /\ Len(grown) \in Nat /\ Len(grown) <= MaxObs /\ ircur + 1 \in 0..Len(grown)
         /\ nobs + 1 <= Len(grown)
    BY <2>1, <2>2, <2>5, <2>8
  <2> HIDE DEF grown
  <2>11. ScanList(Reorder(grown, order), rec') /\ Len(Reorder(grown, order)) = Len(grown)
    <3>1. grown \in Seq(1..MaxObs) /\ \A i \in 1..Len(grown) : rec'[grown[i]] \in Scan
      BY <2>8 DEF ScanList
    <3>2. \A i \in 1..(ircur + 1) : scans[i] \in Scan
      BY <2>2, <2>10, <3>1
    <3> HIDE DEF scans
    <3>3. /\ order \in [1..(ircur + 1) -> 1..(ircur + 1)]
          /\ Reorder(grown, order) \in Seq(1..MaxObs)
          /\ Len(Reorder(grown, order)) = Len(grown)
          /\ \A k \in 1..Len(grown) :
                Reorder(grown, order)[k] = IF k <= ircur + 1 THEN grown[order[k]] ELSE grown[k]
      BY <2>9, <2>10, <3>1, <3>2, ReorderType
    <3>4. ASSUME NEW k \in 1..Len(grown)
          PROVE  rec'[Reorder(grown, order)[k]] \in Scan
      <4>1. CASE k <= ircur + 1
        <5>1. order[k] \in 1..Len(grown)
          BY <2>2, <2>10, <3>3, <4>1
        <5> QED
          BY <3>1, <3>3, <4>1, <5>1
      <4>2. CASE ~(k <= ircur + 1)
        BY <3>1, <3>3, <4>2
      <4> QED
        BY <4>1, <4>2
    <3> QED
      BY <3>3, <3>4 DEF ScanList
  <2> DEFINE sorted == Reorder(grown, order)
  <2> HIDE DEF sorted
  <2>12. /\ ScanList(index', rec') /\ nobs' = nobs + 1
         /\ ScanList(behind', rec') /\ Len(behind') = Len(grown) - (nobs + 1)
    <3>1. ScanList(sorted, rec') /\ Len(sorted) = Len(grown)
          /\ index' = SubSeq(sorted, 1, nobs + 1)
          /\ behind' = SubSeq(sorted, nobs + 2, Len(sorted))
      BY <2>9, <2>11 DEF sorted
    <3>2. nobs + 1 \in 0..Len(sorted) /\ nobs + 2 \in Nat \ {0} /\ 1 \in Nat \ {0}
          /\ Len(sorted) \in 0..Len(sorted)
      BY <2>2, <2>10, <3>1
    <3>3. ScanList(index', rec') /\ Len(index') = nobs + 1
      <4> DEFINE b == nobs + 1
      <4>1. b \in 0..Len(sorted) /\ index' = SubSeq(sorted, 1, b) /\ 1 <= b /\ b \in Nat
        BY <2>2, <3>1, <3>2
      <4> HIDE DEF b
      <4>2. ScanList(index', rec') /\ Len(index') = IF 1 <= b THEN b - 1 + 1 ELSE 0
        BY <3>1, <3>2, <4>1, PartOfScanList
      <4>3. Len(index') = b
        BY <4>1, <4>2
      <4> QED
        BY <4>2, <4>3 DEF b
    <3>4. ScanList(behind', rec')
          /\ Len(behind') = IF nobs + 2 <= Len(sorted) THEN Len(sorted) - (nobs + 2) + 1 ELSE 0
      BY <3>1, <3>2, PartOfScanList
    <3> QED
      BY <2>2, <2>10, <3>1, <3>3, <3>4 DEF nobs
  <2>13. index' \in Seq(1..MaxObs) /\ IndexHoldsScans'
         /\ behind' \in Seq(1..MaxObs) /\ BehindHoldsScans'
    BY <2>12 DEF ScanList, IndexHoldsScans, BehindHoldsScans, nobs
  <2>14. nobs' + Len(behind') <= MaxObs
    BY <2>2, <2>10, <2>12
  <2>15. ircur' \in Nat /\ nxtrec' \in 1..(MaxObs + 1)
    BY <2>1, <2>2
  <2> QED
    BY <1>1, <2>1, <2>2, <2>3, <2>12, <2>13, <2>14, <2>15
       DEF StoreInv, TypeOK, CurHasStations, FullCur
<1> QED
    BY <1>2, <1>3

\* ... and when it replaces the current one.
LEMMA ModifyTypes ==
    ASSUME StoreInv, NEW y \in Edits, Modify(y)
    PROVE  StoreInv'
<1>1. y \in Scan /\ cur' \in FullCur
    BY UnpakType, EditsAreScans DEF Modify, StoreInv, TypeOK
<1>2. CASE ircur \in DOMAIN iskrec
  <2>1. rec' = [rec EXCEPT ![iskrec[ircur]] = y] /\ status' \in {"ok", "upset", "failed"}
        /\ UNCHANGED <<index, behind, nxtrec, ircur, irecgo>>
    BY <1>2 DEF Modify, StoreInv, TypeOK
  <2>2. iskrec \in Seq(1..MaxObs)
    BY IskrecType DEF ScanList
  <2>3. iskrec[ircur] \in 1..MaxObs /\ rec \in [1..MaxObs -> Scan \cup {NoScan}]
    BY <1>2, <2>2, LenProperties, ElementOfSeq DEF StoreInv, TypeOK
  <2>4. rec' \in [1..MaxObs -> Scan \cup {NoScan}]
    BY <1>1, <2>1, <2>3
  <2>5. ScanList(index, rec') /\ ScanList(behind, rec')
    BY <1>1, <2>1, <2>3, IskrecType, WrittenScanList
  <2>6. IndexHoldsScans' /\ BehindHoldsScans'
    BY <2>1, <2>5 DEF ScanList, IndexHoldsScans, BehindHoldsScans, nobs
  <2> QED
    BY <1>1, <2>1, <2>4, <2>6 DEF StoreInv, TypeOK, CurHasStations, FullCur, nobs
<1>3. CASE ircur \notin DOMAIN iskrec
  <2>1. UNCHANGED <<store, ircur, irecgo>> /\ status' = "failed"
    BY <1>3 DEF Modify
  <2> QED
    BY <1>1, <2>1, SameStoreTypes DEF StoreInv, TypeOK, FullCur
<1> QED
    BY <1>2, <1>3

\* Emptying the schedule keeps the invariant.
LEMMA ClearAllTypes ==
    ASSUME StoreInv, ClearAll, irecgo' \in Nat
    PROVE  StoreInv'
<1>1. index' = << >> /\ nxtrec' = 1 /\ ircur' = 0 /\ rec' = rec /\ behind' = iskrec
      /\ cur' = [FreshCur EXCEPT !.sta = cur.sta] /\ status' = "ok"
    BY DEF ClearAll
<1>2. index' \in Seq(1..MaxObs) /\ nobs' = 0
    BY <1>1 DEF nobs
<1>3. cur' \in CurType
    BY <1>1, ConstantTypes DEF CurType, StoreInv, TypeOK
<1>4. behind' \in Seq(1..MaxObs) /\ BehindHoldsScans' /\ nobs' + Len(behind') <= MaxObs
    BY <1>1, <1>2, IskrecType DEF ScanList, BehindHoldsScans
<1> QED
    BY <1>1, <1>2, <1>3, <1>4, ConstantTypes
       DEF StoreInv, TypeOK, IndexHoldsScans, CurHasStations

\* A command that leaves the store alone and moves the cursor.
LEMMA MoveTypes ==
    ASSUME StoreInv, UNCHANGED store, NEW p \in PosType, MoveTo(p),
           status' \in {"ok", "upset", "failed"}
    PROVE  StoreInv'
<1>1. ircur' \in Nat /\ cur' \in FullCur /\ irecgo' \in Nat
    BY DEF MoveTo, PosType
<1> QED
    BY <1>1, SameStoreTypes DEF FullCur

\* The cursor and the CUR variables are a position GTOBS may start from.
LEMMA PositionType ==
    ASSUME StoreInv, nobs > 0
    PROVE  /\ Sched \in Seq(Scan) /\ Sched # << >> /\ Len(Sched) = nobs /\ nobs \in Nat
           /\ cur \in FullCur /\ ircur \in Nat
           /\ Position \in PosType /\ Position.at = ircur
           /\ \A go \in Nat : /\ [Position EXCEPT !.go = go] \in PosType
                              /\ [Position EXCEPT !.go = go].at = ircur
                              /\ [Position EXCEPT !.go = go].go = go
<1>1. Sched \in Seq(Scan) /\ Sched # << >> /\ Len(Sched) = nobs /\ nobs \in Nat
    BY SchedType, EmptySeq
<1>2. cur \in FullCur /\ ircur \in Nat /\ irecgo \in Nat
    BY DEF StoreInv, TypeOK, CurHasStations, FullCur
<1> QED
    BY <1>1, <1>2 DEF Position, PosType

\* From any place it is asked for, GTOBS starts inside the schedule, or behind it
\* where it was.
LEMMA StartTypes ==
    ASSUME StoreInv, nobs > 0, NEW go \in Nat \ {0}, NEW time \in Int
    PROVE  /\ GtStart(Sched, [Position EXCEPT !.go = go], time, FALSE) \in PosType
           /\ GtStart(Sched, [Position EXCEPT !.go = go], time, FALSE).go = 0
<1>1. /\ [Position EXCEPT !.go = go] \in PosType
      /\ [Position EXCEPT !.go = go].go > 0
    BY PositionType
<1> QED
    BY <1>1, PositionType, GtStartType

\* And so it does when it looks for a time, if the entry it looks at is set.
LEMMA GtFirstTypes ==
    ASSUME StoreInv, nobs > 0, NEW p \in PosType, NEW time \in Int, ~ReadsUnset(p, time)
    PROVE  /\ GtFirst(p, time) \in PosType
           /\ GtFirst(p, time).go = 0
           /\ p.at <= nobs => /\ GtFirst(p, time) = GtStart(Sched, p, time, FALSE)
                              /\ GtFirst(p, time).at <= nobs
<1>1. CASE ReadsBehind(p, time)
  <2>1. p.at \in Nat /\ p.at > nobs /\ p.at <= Len(iskrec) /\ p.go = 0
    BY <1>1, IskrecType DEF ReadsUnset, ReadsBehind, PosType
  <2>2. rec[iskrec[p.at]] \in Scan
    BY <2>1, IskrecType DEF ScanList
  <2>3. Unpak(p.cur, rec[iskrec[p.at]]) \in FullCur
    BY <2>2, UnpakType DEF PosType, FullCur
  <2>4. GtFirst(p, time) = [p EXCEPT !.cur = Unpak(p.cur, rec[iskrec[p.at]])]
    BY <1>1, <2>1 DEF GtFirst
  <2>5. \A c \in FullCur : [p EXCEPT !.cur = c] \in PosType /\ [p EXCEPT !.cur = c].go = p.go
    BY DEF PosType
  <2>6. ~(p.at <= nobs)
    BY <2>1, IskrecType
  <2> DEFINE c == Unpak(p.cur, rec[iskrec[p.at]])
  <2> HIDE DEF c
  <2>7. GtFirst(p, time) = [p EXCEPT !.cur = c] /\ c \in FullCur
    BY <2>3, <2>4 DEF c
  <2>8. [p EXCEPT !.cur = c] \in PosType /\ [p EXCEPT !.cur = c].go = 0
    BY <2>1, <2>5, <2>7
  <2>9. GtFirst(p, time) \in PosType /\ GtFirst(p, time).go = 0
    BY <2>7, <2>8, Zenon
  <2> QED
    BY <2>6, <2>9, Zenon
<1>2. CASE ~ReadsBehind(p, time)
  <2>1. p.go > 0 \/ p.at <= Len(Sched) \/ time <= Instant(p.cur)
    <3>1. Instant(p.cur) \in Int /\ p.at \in Nat /\ p.go \in Nat /\ Len(Sched) = nobs /\ nobs \in Nat
      BY PositionType, InstantType DEF PosType
    <3> QED
      BY <1>2, <3>1 DEF ReadsBehind
  <2>2. GtFirst(p, time) = GtStart(Sched, p, time, FALSE)
    BY <1>2 DEF GtFirst
  <2>3. Sched \in Seq(Scan) /\ Sched # << >> /\ Len(Sched) = nobs
    BY PositionType
  <2>4. /\ GtStart(Sched, p, time, FALSE) \in PosType
        /\ GtStart(Sched, p, time, FALSE).go = 0
        /\ p.at <= nobs => GtStart(Sched, p, time, FALSE).at <= nobs
    <3>1. CASE p.go > 0
      BY <2>3, <3>1, GtStartType
    <3>2. CASE p.at <= Len(Sched)
      BY <2>3, <3>2, GtStartType
    <3>3. CASE time <= Instant(p.cur)
      BY <2>3, <3>3, GtStartType
    <3> QED
      BY <2>1, <3>1, <3>2, <3>3
  <2> QED
    BY <2>2, <2>4
<1> QED
    BY <1>1, <1>2

\* A command that lists on from a place keeps the invariant; so do the commands below.
LEMMA ListOnTypes ==
    ASSUME StoreInv, nobs > 0, NEW p \in PosType,
           NEW range, range.n \in Int, range.en \in Int, NEW count \in {0, 1},
           ListOn(p, range, count)
    PROVE  StoreInv'
<1>1. UNCHANGED store /\ status' \in {"ok", "upset", "failed"}
    BY DEF ListOn, Listed, StoreInv, TypeOK
<1>2. PICK q \in {p, GtRest(Sched, p, range, count)} : MoveTo(q)
    BY DEF ListOn
<1>3. Sched \in Seq(Scan) /\ Sched # << >>
    BY PositionType
<1>4. GtRest(Sched, p, range, count) \in PosType
    BY <1>3, GtRestType
<1>5. q \in PosType
    BY <1>2, <1>4
<1> QED
    BY <1>1, <1>2, <1>5, MoveTypes

\* LIST with a range of times or a count.
LEMMA ListTypes ==
    ASSUME StoreInv, NEW range \in Ranges, List(range)
    PROVE  StoreInv'
<1> DEFINE from == [Position EXCEPT !.go = 0]
<1>1. range.n \in Int /\ range.en \in Int /\ range.st \in Int
    BY RangeTypes
<1>2. nobs > 0
    BY DEF List
<1>3. from \in PosType
    BY <1>2, PositionType
<1>4. \/ status' = "failed" /\ UNCHANGED <<store, ircur, irecgo, cur>>
      \/ ~ReadsUnset(from, range.st) /\ ListOn(GtFirst(from, range.st), range, 1)
    BY DEF List
<1> HIDE DEF from
<1>5. CASE status' = "failed" /\ UNCHANGED <<store, ircur, irecgo, cur>>
    BY <1>5, SameStoreTypes DEF StoreInv, TypeOK, CurHasStations
<1>6. CASE ~ReadsUnset(from, range.st) /\ ListOn(GtFirst(from, range.st), range, 1)
  <2>1. GtFirst(from, range.st) \in PosType
    BY <1>1, <1>2, <1>3, <1>6, GtFirstTypes
  <2> QED
    BY <1>1, <1>2, <1>6, <2>1, ListOnTypes
<1> QED
    BY <1>4, <1>5, <1>6

\* NEXT.
LEMMA NextScansTypes ==
    ASSUME StoreInv, NEW n \in Counts, NEW en \in Endings(n), NextScans(n, en)
    PROVE  StoreInv'
<1>1. Count(n, en).n \in Int /\ Count(n, en).en \in Int
    BY CountTypes DEF Count
<1>2. ircur + 1 \in Nat \ {0}
    BY DEF StoreInv, TypeOK
<1>3. nobs > 0 /\ ListOn(GtStart(Sched, [Position EXCEPT !.go = ircur + 1], StartTime, FALSE),
                         Count(n, en), 1)
    BY DEF NextScans
<1>4. GtStart(Sched, [Position EXCEPT !.go = ircur + 1], StartTime, FALSE) \in PosType
    BY <1>2, <1>3, StartTypes, TimesAreIntegers
<1> QED
    BY <1>1, <1>3, <1>4, ListOnTypes

\* BACK.
LEMMA BackScansTypes ==
    ASSUME StoreInv, NEW n \in Counts, BackScans(n)
    PROVE  StoreInv'
<1>1. Count(1, StartTime).n \in Int /\ Count(1, StartTime).en \in Int
    BY TimesAreIntegers DEF Count
<1>2. PlaceBack(n) \in Nat \ {0}
    BY CountTypes
<1>3. nobs > 0 /\ ListOn(GtStart(Sched, [Position EXCEPT !.go = PlaceBack(n)], StartTime, FALSE),
                         Count(1, StartTime), 1)
    BY DEF BackScans
<1>4. GtStart(Sched, [Position EXCEPT !.go = PlaceBack(n)], StartTime, FALSE) \in PosType
    BY <1>2, <1>3, StartTypes, TimesAreIntegers
<1> QED
    BY <1>1, <1>3, <1>4, ListOnTypes

\* PREVIOUS, which moves the cursor on without reading if the count is negative.
LEMMA PreviousScansTypes ==
    ASSUME StoreInv, NEW n \in Counts, NEW en \in Endings(n), PreviousScans(n, en)
    PROVE  StoreInv'
<1> DEFINE from  == [Position EXCEPT !.at = PlaceBack(n) - 1, !.go = 0]
           range == Count(Lesser(ircur, n) + 1, en)
           to    == GtRest(Sched, from, range, 0)
<1>1. PlaceBack(n) - 1 \in Nat /\ range.n \in Int /\ range.en \in Int
    BY CountTypes DEF Count
<1>2. MoveTo(to) /\ UNCHANGED store /\ status' \in {"ok", "upset", "failed"}
    BY DEF PreviousScans, StoreInv, TypeOK
<1>3. from.at = PlaceBack(n) - 1 /\ from.cur = cur /\ from.go = 0
    BY DEF Position
<1>4. nobs > 0 => from \in PosType
  <2>1. nobs > 0 => \A a \in Nat : [Position EXCEPT !.at = a, !.go = 0] \in PosType
    BY PositionType DEF Position, PosType
  <2> QED
    BY <1>1, <2>1
<1>5. from \in [at : Nat, cur : CurType, go : Nat]
  <2>1. \A a \in Nat : [Position EXCEPT !.at = a, !.go = 0] \in [at : Nat, cur : CurType, go : Nat]
    BY DEF Position, StoreInv, TypeOK
  <2> QED
    BY <1>1, <2>1
<1> HIDE DEF from, range
<1>6. CASE nobs > 0
  <2>1. Sched \in Seq(Scan) /\ Sched # << >>
    BY <1>6, PositionType
  <2>2. from \in PosType
    BY <1>4, <1>6
  <2>3. to \in PosType
    BY <1>1, <2>1, <2>2, GtRestType
  <2> HIDE DEF to
  <2> QED
    BY <1>2, <2>3, MoveTypes
<1>7. CASE ~(nobs > 0)
  <2>1. Len(Sched) = 0 /\ nobs = 0
    BY <1>7, SchedType
  <2>2. to = ReadTo(Sched, from, from.at + 1, from.at) /\ from.at + 1 > from.at
    BY <1>1, <1>3, <2>1 DEF GtRest
  <2>3. to.at = from.at /\ to.cur = cur /\ to.go = 0
    BY <1>3, <1>5, <2>2 DEF ReadTo, UnpakRange
  <2>4. ircur' \in Nat /\ cur' = cur /\ irecgo' \in Nat
    BY <1>1, <1>2, <1>3, <2>3 DEF MoveTo
  <2> QED
    BY <1>2, <2>1, <2>4, SameStoreTypes DEF StoreInv, TypeOK
<1> QED
    BY <1>6, <1>7

\* A listing that is refused, or of an empty schedule.
LEMMA ListNothingTypes ==
    ASSUME StoreInv, ListNothing
    PROVE  StoreInv'
<1>1. irecgo' \in Nat
  <2>1. ircur + 1 \in Nat
    BY DEF StoreInv, TypeOK
  <2>2. \A n \in Counts : PlaceBack(n) \in Nat
    BY CountTypes
  <2> QED
    BY <2>1, <2>2 DEF ListNothing
<1> QED
    BY <1>1, SameStoreTypes DEF ListNothing, StoreInv, TypeOK, CurHasStations

\* WC, which reads the whole schedule to check it.
LEMMA WriteContinueTypes ==
    ASSUME StoreInv, WriteContinue
    PROVE  StoreInv'
<1> DEFINE checked == [at |-> ircur, go |-> ircur, cur |-> UnpakRange(cur, Sched, 1, nobs)]
<1>1. nobs > 0
    BY DEF WriteContinue
<1>2. Sched \in Seq(Scan) /\ Sched # << >> /\ Len(Sched) = nobs /\ nobs \in Nat
      /\ cur \in FullCur /\ ircur \in Nat
    BY <1>1, PositionType
<1>3. UnpakRange(cur, Sched, 1, nobs) \in FullCur
  <2>1. nobs \in 0..Len(Sched) /\ 1 \in Nat \ {0}
    BY <1>2
  <2> QED
    BY <1>2, <2>1, UnpakRangeType
<1>4. checked \in PosType /\ checked.at = ircur /\ checked.go = ircur
    BY <1>2, <1>3 DEF PosType
<1>5. UNCHANGED store /\ status' \in {"ok", "upset", "failed"}
    BY DEF WriteContinue, Listed, StoreInv, TypeOK
<1>6. (\E time \in Instants : MoveTo(GtStart(Sched, checked, time, FALSE)))
         \/ MoveTo([checked EXCEPT !.go = irecgo])
    BY DEF WriteContinue
<1> HIDE DEF checked
<1>7. CASE \E time \in Instants : MoveTo(GtStart(Sched, checked, time, FALSE))
  <2>1. PICK time \in Instants : MoveTo(GtStart(Sched, checked, time, FALSE))
    BY <1>7
  <2>2. time \in Int /\ (checked.go > 0 \/ checked.at <= Len(Sched))
    BY <1>2, <1>4, TimesAreIntegers DEF Instants
  <2>3. GtStart(Sched, checked, time, FALSE) \in PosType
    <3>1. CASE checked.go > 0
      BY <1>2, <1>4, <2>2, <3>1, GtStartType
    <3>2. CASE checked.at <= Len(Sched)
      BY <1>2, <1>4, <2>2, <3>2, GtStartType
    <3> QED
      BY <2>2, <3>1, <3>2
  <2> QED
    BY <1>5, <2>1, <2>3, MoveTypes
<1>8. CASE MoveTo([checked EXCEPT !.go = irecgo])
  <2>1. [checked EXCEPT !.go = irecgo] \in PosType
    BY <1>4 DEF PosType, StoreInv, TypeOK
  <2> QED
    BY <1>5, <1>8, <2>1, MoveTypes
<1> QED
    BY <1>6, <1>7, <1>8

\* DELCM's own deletion: what is left is typed, and its places hold scans.
LEMMA LeftTypes ==
    ASSUME StoreInv, NEW k \in Nat, k - 1 <= Len(iskrec), NEW n \in Nat \ {0}
    PROVE  /\ ScanList(Without(k, n), rec)
           /\ Len(Without(k, n)) <= Len(iskrec)
           /\ k <= nobs + 1 => Len(Without(k, n)) <= nobs
<1>1. /\ index \in Seq(1..MaxObs) /\ behind \in Seq(1..MaxObs)
      /\ \A i \in 1..nobs : rec[index[i]] \in Scan
      /\ nobs \in Nat /\ Len(iskrec) \in Nat /\ nobs <= Len(iskrec) /\ ScanList(iskrec, rec)
    BY IskrecType DEF StoreInv, TypeOK, IndexHoldsScans
<1>2. CASE k <= nobs + 1
  <2>1. k \in 0..(nobs + 1)
    BY <1>1, <1>2
  <2>2. /\ Without(k, n) \in Seq(1..MaxObs)
        /\ Len(Without(k, n)) <= nobs
        /\ \A i \in 1..Len(Without(k, n)) :
              \/ (k = 0 \/ i < k) /\ i <= nobs /\ Without(k, n)[i] = index[i]
              \/ 0 < k /\ k <= i /\ i + n <= nobs /\ Without(k, n)[i] = index[i + n]
    BY <1>1, <2>1, WithoutType
  <2>3. Len(Without(k, n)) \in Nat
    BY <2>2, LenProperties
  <2>4. ASSUME NEW i \in 1..Len(Without(k, n))
        PROVE  rec[Without(k, n)[i]] \in Scan
    <3>1. CASE i <= nobs /\ Without(k, n)[i] = index[i]
      BY <1>1, <2>3, <3>1
    <3>2. CASE i + n <= nobs /\ Without(k, n)[i] = index[i + n]
      BY <1>1, <2>3, <3>2
    <3> QED
      BY <2>2, <3>1, <3>2, Zenon
  <2>5. ScanList(Without(k, n), rec)
    BY <2>2, <2>4 DEF ScanList
  <2> QED
    BY <1>1, <2>2, <2>3, <2>5
<1>3. CASE ~(k <= nobs + 1)
  <2>1. k - 1 \in 0..Len(iskrec) /\ 1 \in Nat \ {0} /\ k # 0 /\ k > nobs
    BY <1>1, <1>3
  <2>2. Without(k, n) = SubSeq(iskrec, 1, k - 1)
    BY <2>1 DEF Without
  <2>3. /\ ScanList(SubSeq(iskrec, 1, k - 1), rec)
        /\ Len(SubSeq(iskrec, 1, k - 1)) = IF 1 <= k - 1 THEN k - 1 - 1 + 1 ELSE 0
    BY <1>1, <2>1, PartOfScanList
  <2> QED
    BY <1>1, <1>3, <2>1, <2>2, <2>3
<1> QED
    BY <1>2, <1>3

\* What DELCM does, once the block to delete is known: fail with the store as it
\* was, take a block out and go back, or empty the schedule.
ScansLeft(left) == [i \in 1..Len(left) |-> rec[left[i]]]

BlockTaken(k, n, first, back, st) ==
    LET left == Without(k, n)
    IN  /\ left # << >>
        /\ index' = left
        /\ behind' = SubSeq(iskrec, Len(left) + 1, Len(iskrec))
        /\ MoveTo(GtStart(ScansLeft(left), [first EXCEPT !.go = back], st, TRUE))
        /\ status' = IF k <= nobs + 1 THEN status ELSE "upset"
        /\ UNCHANGED <<rec, nxtrec>>

\* DELETE fails on a subscript, closes up a block of the list, or empties it.
LEMMA DeleteShapes ==
    ASSUME StoreInv, NEW range \in Ranges, Delete(range)
    PROVE  \E k \in Nat, n \in Nat \ {0}, back \in Nat \ {0}, first \in PosType :
              \/ status' = "failed" /\ UNCHANGED <<store, ircur, irecgo, cur>>
              \/ /\ k - 1 <= Len(iskrec) /\ (k <= nobs + 1 \/ ircur > nobs)
                 /\ BlockTaken(k, n, first, back, range.st)
              \/ ClearAll /\ irecgo' = back
<1> DEFINE first == GtFirst(Position, range.st)
           rest  == GtRest(Sched, first, range, 1)
           ircnt == rest.at - first.at + 1
           again == GtStart(Sched, first, range.st, TRUE)
           k     == IF range.n > 0 THEN first.at ELSE Greater(again.at, 1)
           n     == IF range.n > 0 THEN range.n ELSE ircnt
           back  == Greater(first.at - 1, 1)
           fails == status' = "failed" /\ UNCHANGED <<store, ircur, irecgo, cur>>
<1>1. nobs > 0
    BY DEF Delete
<1>2. /\ Sched \in Seq(Scan) /\ Sched # << >> /\ Len(Sched) = nobs /\ nobs \in Nat
      /\ Position \in PosType
    BY <1>1, PositionType
<1>3. range.n \in Int /\ range.en \in Int /\ range.st \in Int /\ range.n \in Nat
    BY RangeTypes
<1>4. \/ fails
      \/ /\ ~ReadsUnset(Position, range.st) /\ ~(k - 1 > Len(iskrec))
         /\ BlockTaken(k, n, first, back, range.st)
      \/ /\ ~ReadsUnset(Position, range.st)
         /\ ClearAll /\ irecgo' = back
    BY Zenon DEF Delete, BlockTaken, ScansLeft
<1> HIDE DEF fails
<1>5. CASE fails
  <2>1. 1 \in Nat \ {0}
    OBVIOUS
  <2> QED
    BY <1>2, <1>5, <2>1 DEF fails
<1>6. CASE ~fails
  <2>1. first \in PosType /\ (Position.at <= nobs => first.at <= nobs)
    BY <1>1, <1>2, <1>3, <1>4, <1>6, GtFirstTypes
  <2> HIDE DEF first
  <2>2. rest \in PosType /\ rest.at >= first.at
    BY <1>2, <1>3, <2>1, GtRestType
  <2>3. again \in PosType /\ again.at <= nobs
    BY <1>2, <1>3, <2>1, GtStartType
  <2> HIDE DEF rest, again
  <2>4. k \in Nat
    BY <2>1, <2>3 DEF Greater, PosType
  <2>5. k <= nobs + 1 \/ ircur > nobs
    BY <1>2, <2>1, <2>3 DEF Greater, PosType, Position
  <2>6. n \in Nat \ {0}
    BY <1>3, <2>1, <2>2 DEF PosType
  <2>7. back \in Nat \ {0}
    BY <2>1 DEF Greater, PosType
  <2> HIDE DEF k, n, back
  <2>8. Len(iskrec) \in Nat
    BY IskrecType
  <2>9. k - 1 <= Len(iskrec) \/ k - 1 > Len(iskrec)
    BY <2>4, <2>8
  <2> QED
    BY <1>4, <1>6, <2>1, <2>4, <2>6, <2>7, <2>9, <2>5
<1> QED
    BY <1>5, <1>6

\* DELETE keeps the invariant in each of these cases.
LEMMA DeleteTypes ==
    ASSUME StoreInv, NEW range \in Ranges, Delete(range)
    PROVE  StoreInv'
<1>1. PICK k \in Nat, n \in Nat \ {0}, back \in Nat \ {0}, first \in PosType :
              \/ status' = "failed" /\ UNCHANGED <<store, ircur, irecgo, cur>>
              \/ /\ k - 1 <= Len(iskrec)
                 /\ BlockTaken(k, n, first, back, range.st)
              \/ ClearAll /\ irecgo' = back
    BY DeleteShapes
<1>2. CASE status' = "failed" /\ UNCHANGED <<store, ircur, irecgo, cur>>
    BY <1>2, SameStoreTypes DEF StoreInv, TypeOK, CurHasStations
<1>3. CASE /\ k - 1 <= Len(iskrec)
           /\ BlockTaken(k, n, first, back, range.st)
  <2> DEFINE left == Without(k, n)
             to   == GtStart(ScansLeft(left), [first EXCEPT !.go = back], range.st, TRUE)
  <2>1. ScanList(left, rec) /\ Len(left) <= Len(iskrec)
    BY <1>3, LeftTypes
  <2>2. /\ left # << >> /\ index' = left
        /\ behind' = SubSeq(iskrec, Len(left) + 1, Len(iskrec))
        /\ MoveTo(to) /\ UNCHANGED <<rec, nxtrec>>
        /\ status' \in {"ok", "upset", "failed"}
    BY <1>3 DEF BlockTaken, StoreInv, TypeOK
  <2> HIDE DEF left
  <2>3. ScansLeft(left) \in Seq(Scan) /\ Len(ScansLeft(left)) = Len(left)
        /\ ScansLeft(left) # << >>
    BY <2>1, <2>2, ScansOf, EmptySeq DEF ScansLeft, ScanList
  <2>4. [first EXCEPT !.go = back] \in PosType
    BY DEF PosType
  <2>5. to \in PosType
    BY <2>3, <2>4, RangeTypes, GtStartType
  <2> HIDE DEF to
  <2>6. ircur' \in Nat /\ cur' \in FullCur /\ irecgo' \in Nat
    BY <2>2, <2>5 DEF MoveTo, PosType
  <2>7. Len(left) \in Nat /\ Len(iskrec) \in Nat /\ Len(iskrec) <= MaxObs /\ MaxObs \in Nat
    BY <2>1, IskrecType, ConstantTypes, LenProperties DEF ScanList
  <2>8. /\ ScanList(behind', rec)
        /\ Len(behind') = Len(iskrec) - Len(left)
    <3>1. Len(left) + 1 \in Nat \ {0} /\ Len(iskrec) \in 0..Len(iskrec)
      BY <2>7
    <3>2. /\ ScanList(behind', rec)
          /\ Len(behind') = IF Len(left) + 1 <= Len(iskrec)
                              THEN Len(iskrec) - (Len(left) + 1) + 1 ELSE 0
      BY <2>2, <3>1, IskrecType, PartOfScanList
    <3> QED
      BY <2>1, <2>7, <3>2
  <2>9. index' \in Seq(1..MaxObs) /\ IndexHoldsScans'
        /\ behind' \in Seq(1..MaxObs) /\ BehindHoldsScans'
        /\ nobs' + Len(behind') <= MaxObs
    <3>1. UNCHANGED rec /\ nobs' = Len(left)
      BY <2>2 DEF nobs
    <3>2. index' \in Seq(1..MaxObs) /\ IndexHoldsScans'
      BY <2>1, <2>2, <3>1 DEF ScanList, IndexHoldsScans
    <3>3. behind' \in Seq(1..MaxObs) /\ BehindHoldsScans'
      BY <2>8, <3>1 DEF ScanList, BehindHoldsScans
    <3>4. nobs' + Len(behind') <= MaxObs
      BY <2>7, <2>8, <3>1
    <3> QED
      BY <3>2, <3>3, <3>4
  <2> QED
    BY <2>2, <2>6, <2>9 DEF StoreInv, TypeOK, CurHasStations, FullCur
<1>4. CASE ClearAll /\ irecgo' = back
    BY <1>4, ClearAllTypes
<1> QED
    BY <1>1, <1>2, <1>3, <1>4

\* Every command keeps the invariant.
LEMMA NextTypes == StoreInv /\ [Next]_vars => StoreInv'
<1> SUFFICES ASSUME StoreInv, [Next]_vars
             PROVE  StoreInv'
    OBVIOUS
<1>1. CASE \E x \in Scan : Insert(x) \/ InsertBehind(x)
    BY <1>1, InsertTypes, InsertBehindTypes
<1>2. CASE \E y \in Edits : Modify(y)
    BY <1>2, ModifyTypes
<1>3. CASE \E range \in Ranges : Delete(range) \/ List(range)
    BY <1>3, DeleteTypes, ListTypes
<1>4. CASE \E n \in Counts : \/ BackScans(n)
                             \/ \E en \in Endings(n) : NextScans(n, en) \/ PreviousScans(n, en)
    BY <1>4, NextScansTypes, BackScansTypes, PreviousScansTypes
<1>5. CASE DeleteAll
    BY <1>5, ClearAllTypes DEF DeleteAll, StoreInv, TypeOK
<1>6. CASE ListNothing
    BY <1>6, ListNothingTypes
<1>7. CASE WriteContinue
    BY <1>7, WriteContinueTypes
<1>8. CASE UNCHANGED vars
    BY <1>8, SameStoreTypes DEF vars, store, StoreInv, TypeOK, CurHasStations
<1> QED
    BY <1>1, <1>2, <1>3, <1>4, <1>5, <1>6, <1>7, <1>8 DEF Next

\* Whatever the user types, and whatever count, the store, the cursor and the CUR
\* variables keep their types: the index stays inside the table.
THEOREM TypesAreKept == Spec => []TypeOK
<1>1. StoreInv => TypeOK
    BY DEF StoreInv
<1> QED
    BY <1>1, InitTypes, NextTypes, PTL DEF Spec

\* Every place of the schedule, and every entry that a deletion has left behind it,
\* has a scan in its record, VEX files included.
THEOREM IndexedRecordsAreScans == Spec => [](IndexHoldsScans /\ BehindHoldsScans)
<1>1. StoreInv => IndexHoldsScans /\ BehindHoldsScans
    BY DEF StoreInv
<1> QED
    BY <1>1, InitTypes, NextTypes, PTL DEF Spec

-----------------------------------------------------------------------------
(***************************************************************************)
(* Records are not shared.                                                 *)
(***************************************************************************)
OwnRecords ==
    /\ \A i, j \in 1..nobs : i # j => index[i] # index[j]
    /\ \A i \in 1..nobs : index[i] < nxtrec /\ rec[index[i]] # NoScan

DistinctInv == StoreInv /\ RecordsDistinct

\* A .skd file gives every scan a record of its own.
LEMMA InitDistinct == ~VexFile /\ Init => DistinctInv
<1> SUFFICES ASSUME ~VexFile, NEW f \in Files, Load(f), StoreInv
             PROVE  OwnRecords
    BY InitTypes DEF Init, DistinctInv, RecordsDistinct, OwnRecords
<1>1. Len(f) \in Nat /\ \A i \in 1..Len(f) : f[i] \in Scan
    BY FilesFit, LenProperties, ElementOfSeq
<1>2. PICK order \in SortOrders(f, Len(f)) : index = order
    BY DEF Load
<1>3. nxtrec = Len(f) + 1
    BY DEF Load
<1>4. f \in Seq(Scan) /\ Len(f) \in 0..Len(f)
    BY <1>1, FilesFit
<1>5. /\ index \in [1..Len(f) -> 1..Len(f)]
      /\ \A i, j \in 1..Len(f) : i # j => index[i] # index[j]
    BY <1>1, <1>2, SortOrderType
<1>6. nobs = Len(f)
    BY <1>1, <1>5 DEF nobs
<1>7. \A i \in 1..nobs : index[i] < nxtrec
    BY <1>1, <1>3, <1>5, <1>6
<1>8. \A i \in 1..nobs : rec[index[i]] # NoScan
    BY ConstantTypes DEF StoreInv, IndexHoldsScans
<1> QED
    BY <1>5, <1>6, <1>7, <1>8 DEF OwnRecords

\* An insertion never uses a record the list points to: nxtrec lies above them all.
LEMMA InsertDistinct ==
    ASSUME StoreInv, OwnRecords, NEW x \in Scan, Insert(x)
    PROVE  OwnRecords'
<1>1. StoreInv /\ StoreInv'
    BY InsertTypes
<1>2. nobs \in Nat /\ ircur \in Nat /\ nxtrec \in Nat \ {0}
      /\ index \in Seq(1..MaxObs)
    BY <1>1, ConstantTypes, LenProperties DEF StoreInv, TypeOK, nobs
<1>3. CASE nobs < MaxObs /\ nxtrec <= MaxObs
  <2>1. PICK order :
           /\ nxtrec' = nxtrec + 1 /\ ircur <= nobs
           /\ order \in [1..(ircur + 1) -> 1..(ircur + 1)]
           /\ \A i, j \in 1..(ircur + 1) : i # j => order[i] # order[j]
           /\ Len(index') = nobs + 1
           /\ \A k \in 1..(nobs + 1) :
                 index'[k] = IF k <= ircur + 1 THEN Grown[order[k]] ELSE Grown[k]
    BY <1>1, <1>3, InsertEffect
  <2>2. \A i \in 1..(nobs + 1) :
            Grown[i] = IF i <= ircur THEN index[i]
                       ELSE IF i = ircur + 1 THEN nxtrec
                       ELSE index[i - 1]
    BY <1>2, <1>3, <2>1, GrownType, ConstantTypes
  <2>3. /\ \A i, j \in 1..nobs : i # j => index[i] # index[j]
        /\ \A i \in 1..nobs : index[i] < nxtrec /\ index[i] \in Nat
    <3>1. \A i \in 1..nobs : index[i] \in 1..MaxObs
      BY <1>2, ElementOfSeq DEF nobs
    <3> QED
      BY <3>1, ConstantTypes DEF OwnRecords
  <2> DEFINE From(i) == IF i <= ircur THEN i ELSE i - 1
             Put(k)  == IF k <= ircur + 1 THEN order[k] ELSE k
  <2>4. \A i \in 1..(nobs + 1) :
            \/ i = ircur + 1 /\ Grown[i] = nxtrec
            \/ i # ircur + 1 /\ From(i) \in 1..nobs /\ Grown[i] = index[From(i)]
    BY <1>2, <2>1, <2>2
  <2>5. \A i, j \in 1..(nobs + 1) :
            i # j /\ i # ircur + 1 /\ j # ircur + 1 => From(i) # From(j)
    BY <1>2
  <2> HIDE DEF From
  <2>6. \A i, j \in 1..(nobs + 1) : i # j => Grown[i] # Grown[j]
    BY <1>2, <2>3, <2>4, <2>5
  <2>7. \A i \in 1..(nobs + 1) : Grown[i] < nxtrec + 1
    BY <1>2, <2>3, <2>4
  <2>8. \A k \in 1..(nobs + 1) : Put(k) \in 1..(nobs + 1) /\ index'[k] = Grown[Put(k)]
    BY <1>2, <2>1
  <2>9. \A i, j \in 1..(nobs + 1) : i # j => Put(i) # Put(j)
    BY <1>2, <2>1
  <2> HIDE DEF Put
  <2>10. nobs' = nobs + 1
    BY <2>1 DEF nobs
  <2>11. /\ \A i, j \in 1..nobs' : i # j => index'[i] # index'[j]
         /\ \A i \in 1..nobs' : index'[i] < nxtrec'
    <3>1. \A i, j \in 1..nobs' : i # j => index'[i] # index'[j]
      BY <2>6, <2>8, <2>9, <2>10
    <3>2. \A i \in 1..nobs' : index'[i] < nxtrec'
      BY <2>1, <2>7, <2>8, <2>10
    <3> QED
      BY <3>1, <3>2
  <2>12. \A i \in 1..nobs' : rec'[index'[i]] # NoScan
    BY <1>1, ConstantTypes DEF StoreInv, IndexHoldsScans
  <2> QED
    BY <2>11, <2>12 DEF OwnRecords
<1>4. CASE ~(nobs < MaxObs /\ nxtrec <= MaxObs)
  <2>1. UNCHANGED <<index, rec, nxtrec>>
    BY <1>4 DEF Insert, store
  <2> QED
    BY <2>1 DEF OwnRecords, nobs
<1> QED
    BY <1>3, <1>4

\* Closing up the list or emptying it makes no two places share a record.
LEMMA DeleteDistinct ==
    ASSUME StoreInv, OwnRecords, NEW range \in Ranges, Delete(range), Sound'
    PROVE  OwnRecords'
<1>1. StoreInv /\ StoreInv'
    BY DeleteTypes
<1>2. CASE \E k \in 0..(nobs + 1), n \in Nat \ {0} :
               index' = Without(k, n) /\ UNCHANGED nxtrec
  <2>1. PICK k \in 0..(nobs + 1), n \in Nat \ {0} :
               index' = Without(k, n) /\ UNCHANGED nxtrec
    BY <1>2
  <2>2. /\ Len(index') <= nobs
        /\ index' \in Seq(1..MaxObs)
        /\ \A i \in 1..Len(index') :
              \/ (k = 0 \/ i < k) /\ i <= nobs /\ index'[i] = index[i]
              \/ 0 < k /\ k <= i /\ i + n <= nobs /\ index'[i] = index[i + n]
    BY <1>1, <2>1, WithoutType DEF StoreInv, TypeOK
  <2>3. nobs \in Nat /\ Len(index') \in Nat /\ nobs' = Len(index')
    BY <1>1, <2>2, LenProperties DEF StoreInv, TypeOK, nobs
  <2> DEFINE From(i) == IF k = 0 \/ i < k THEN i ELSE i + n
  <2>4. \A i \in 1..nobs' : From(i) \in 1..nobs /\ index'[i] = index[From(i)]
    BY <2>2, <2>3
  <2>5. \A i, j \in 1..nobs' : i # j => From(i) # From(j)
    BY <2>3
  <2> HIDE DEF From
  <2>6. /\ \A i, j \in 1..nobs : i # j => index[i] # index[j]
        /\ \A i \in 1..nobs : index[i] < nxtrec
    BY DEF OwnRecords
  <2>7. /\ \A i, j \in 1..nobs' : i # j => index'[i] # index'[j]
        /\ \A i \in 1..nobs' : index'[i] < nxtrec'
    BY <2>1, <2>4, <2>5, <2>6
  <2>8. \A i \in 1..nobs' : rec'[index'[i]] # NoScan
    BY <1>1, ConstantTypes DEF StoreInv, IndexHoldsScans
  <2> QED
    BY <2>7, <2>8 DEF OwnRecords
<1>3. CASE UNCHANGED store
    BY <1>3 DEF store, OwnRecords, nobs
<1>4. CASE index' = << >>
    BY <1>4 DEF OwnRecords, nobs
<1>5. \/ \E k \in 0..(nobs + 1), n \in Nat \ {0} : index' = Without(k, n) /\ UNCHANGED nxtrec
      \/ UNCHANGED store
      \/ index' = << >>
  <2>1. ASSUME NEW k \in Nat, NEW n \in Nat \ {0}, NEW back, NEW first,
               BlockTaken(k, n, first, back, range.st)
        PROVE  k \in 0..(nobs + 1) /\ index' = Without(k, n) /\ UNCHANGED nxtrec
    <3>1. k <= nobs + 1
      BY <2>1 DEF BlockTaken, Sound
    <3> QED
      BY <1>1, <2>1, <3>1, SchedType DEF BlockTaken
  <2>2. PICK k \in Nat, n \in Nat \ {0}, back \in Nat \ {0}, first \in PosType :
              \/ UNCHANGED store
              \/ BlockTaken(k, n, first, back, range.st)
              \/ ClearAll
    BY <1>1, DeleteShapes
  <2> QED
    BY <2>1, <2>2 DEF ClearAll
<1> QED
    BY <1>2, <1>3, <1>4, <1>5

\* Every command keeps the records distinct.
LEMMA NextDistinct == DistinctInv /\ [Next]_vars => DistinctInv'
<1> SUFFICES ASSUME DistinctInv, [Next]_vars, Sound'
             PROVE  OwnRecords'
    BY NextTypes DEF DistinctInv, RecordsDistinct, OwnRecords
<1>1. StoreInv /\ StoreInv' /\ (Sound => OwnRecords)
    BY NextTypes DEF DistinctInv, RecordsDistinct, OwnRecords
<1>2. CASE UNCHANGED store /\ Sound
    BY <1>1, <1>2 DEF store, OwnRecords, nobs
<1>3. CASE \E x \in Scan : Insert(x) \/ InsertBehind(x)
  <2>1. PICK x \in Scan : Insert(x)
    BY <1>3 DEF InsertBehind, Sound
  <2>2. Sound
    BY <2>1 DEF Insert, Sound
  <2> QED
    BY <1>1, <2>1, <2>2, InsertDistinct
<1>4. CASE \E y \in Edits : Modify(y)
  <2>1. UNCHANGED <<index, nxtrec>> /\ Sound
    BY <1>4 DEF Modify, Sound
  <2>2. \A i \in 1..nobs' : rec'[index'[i]] # NoScan
    BY <1>1, ConstantTypes DEF StoreInv, IndexHoldsScans
  <2> QED
    BY <1>1, <2>1, <2>2 DEF OwnRecords, nobs
<1>5. CASE \E range \in Ranges : Delete(range)
  <2>1. PICK range \in Ranges : Delete(range)
    BY <1>5
  <2>2. CASE Sound
    BY <1>1, <2>1, <2>2, DeleteDistinct
  <2>3. CASE ~Sound
    <3>1. PICK k \in Nat, n \in Nat \ {0}, back \in Nat \ {0}, first \in PosType :
              \/ status' = "failed"
              \/ BlockTaken(k, n, first, back, range.st)
              \/ ClearAll
      BY <1>1, <2>1, DeleteShapes
    <3>2. ClearAll
      BY <2>3, <3>1 DEF BlockTaken, Sound
    <3> QED
      BY <3>2 DEF ClearAll, OwnRecords, nobs
  <2> QED
    BY <2>2, <2>3
<1>6. CASE \E range \in Ranges : List(range)
    BY <1>2, <1>6 DEF List, ListOn, Listed, Sound
<1>7. CASE \E n \in Counts : \/ BackScans(n)
                             \/ \E en \in Endings(n) : NextScans(n, en) \/ PreviousScans(n, en)
    BY <1>2, <1>7 DEF NextScans, BackScans, PreviousScans, ListOn, Listed, Sound
<1>8. CASE DeleteAll
    BY <1>8 DEF DeleteAll, ClearAll, OwnRecords, nobs
<1>9. CASE ListNothing \/ WriteContinue \/ UNCHANGED vars
    BY <1>2, <1>9 DEF ListNothing, WriteContinue, Listed, vars, store, Sound
<1> QED
    BY <1>3, <1>4, <1>5, <1>6, <1>7, <1>8, <1>9 DEF Next

\* Starting from .skd files, no two places of the schedule ever share a record and
\* the next insertion never writes over one, until an edit is made behind the last
\* scan: with VEX files they do.
THEOREM RecordsStayDistinct == ASSUME ~VexFile PROVE Spec => []RecordsDistinct
<1>1. Init => DistinctInv
    BY InitDistinct
<1>2. DistinctInv => RecordsDistinct
    BY DEF DistinctInv
<1> QED
    BY <1>1, <1>2, NextDistinct, PTL DEF Spec
-----------------------------------------------------------------------------
(***************************************************************************)
(* What GTOBS does to a position: it stays, or reads on to a later place,  *)
(* or reads the last scan again; before that it may have been rewound.     *)
(***************************************************************************)
ReadsOn(s, p, r) ==
    \/ r.at = p.at /\ r.cur = p.cur
    \/ p.at < r.at /\ r.at <= Len(s) /\ r.cur = UnpakRange(p.cur, s, p.at + 1, r.at)
    \/ r.at = p.at /\ p.at = Len(s) /\ r.cur = UnpakRange(p.cur, s, r.at, r.at)

\* Reading on from a place to one that is not before it.
LEMMA ReadToReadsOn ==
    ASSUME NEW s \in Seq(Scan), s # << >>, NEW p \in PosType, NEW q \in PosType,
           q.at = p.at, q.cur = p.cur, NEW a \in Nat \ {0}, NEW b \in Nat,
           \/ a = p.at + 1 /\ b >= p.at /\ (b <= Len(s) \/ b = p.at)
           \/ a = Len(s) /\ b = Len(s) /\ p.at = Len(s)
    PROVE  ReadsOn(s, p, ReadTo(s, q, a, b))
<1>1. /\ ReadTo(s, q, a, b).at = b
      /\ ReadTo(s, q, a, b).cur = UnpakRange(p.cur, s, a, b)
    BY DEF ReadTo, PosType
<1>2. p.at \in Nat /\ Len(s) \in Nat
    BY DEF PosType
<1>3. CASE a = Len(s) /\ b = Len(s) /\ p.at = Len(s)
    BY <1>1, <1>3 DEF ReadsOn
<1>4. CASE a = p.at + 1 /\ b = p.at
  <2>1. UnpakRange(p.cur, s, a, b) = p.cur
    BY <1>2, <1>4 DEF UnpakRange
  <2> QED
    BY <1>1, <1>4, <2>1 DEF ReadsOn
<1>5. CASE a = p.at + 1 /\ b > p.at /\ b <= Len(s)
    BY <1>1, <1>2, <1>5 DEF ReadsOn
<1> QED
    BY <1>2, <1>3, <1>4, <1>5

\* The first call.
LEMMA GtStartReads ==
    ASSUME NEW s \in Seq(Scan), s # << >>, NEW p \in PosType, NEW time \in Int,
           NEW krwnd \in BOOLEAN,
           krwnd \/ p.go > 0 \/ p.at <= Len(s) \/ time <= Instant(p.cur)
    PROVE  \E q \in {p, Rewind(p)} : /\ ReadsOn(s, q, GtStart(s, p, time, krwnd))
                                     /\ krwnd => q = Rewind(p)
<1> DEFINE back == \/ krwnd
                   \/ 0 < p.go /\ p.go < p.at
                   \/ p.go = 0 /\ time < Instant(p.cur)
           q    == IF back THEN Rewind(p) ELSE p
           next == Lesser(q.at + 1, Len(s))
<1> HIDE DEF back, q, next
<1>1. Len(s) \in Nat \ {0}
    BY EmptySeq
<1>2. /\ q \in {p, Rewind(p)} /\ (krwnd => q = Rewind(p))
      /\ q \in PosType /\ q.go = p.go /\ q.at \in Nat
      /\ krwnd \/ p.at <= Len(s) => q.at <= Len(s)
    BY <1>1, RewindType DEF PosType, q, back
<1> SUFFICES ReadsOn(s, q, GtStart(s, p, time, krwnd))
    BY <1>2
<1>3. CASE p.go > 0
  <2> DEFINE r == [q EXCEPT !.go = 0]
             a == q.at + 1
             b == Greater(q.at, Lesser(p.go, Len(s)))
  <2>1. r \in PosType /\ r.at = q.at /\ r.cur = q.cur
    BY <1>2 DEF PosType
  <2>2. b \in Nat /\ a \in Nat \ {0} /\ a = q.at + 1 /\ b >= q.at /\ (b <= Len(s) \/ b = q.at)
    BY <1>1, <1>2 DEF Greater, Lesser, PosType
  <2>3. GtStart(s, p, time, krwnd) = ReadTo(s, r, a, b)
    BY <1>3 DEF GtStart, q, back
  <2> HIDE DEF r, a, b
  <2> QED
    BY <1>2, <2>1, <2>2, <2>3, ReadToReadsOn
<1>4. CASE p.go = 0 /\ time = Instant(q.cur)
  <2>1. GtStart(s, p, time, krwnd) = q
    BY <1>4 DEF GtStart, q, back
  <2> QED
    BY <2>1 DEF ReadsOn
<1>5. CASE p.go = 0 /\ time # Instant(q.cur)
  <2>1. q.at <= Len(s)
    <3>1. Instant(p.cur) \in Int
      BY InstantType DEF PosType
    <3>2. CASE krwnd \/ p.at <= Len(s)
      BY <1>2, <3>2
    <3>3. CASE time <= Instant(p.cur)
      <4>1. back
        BY <1>5, <3>1, <3>3 DEF q, back
      <4> QED
        BY <1>1, <4>1, RewindType DEF q
    <3> QED
      BY <1>5, <3>2, <3>3
  <2>2. next \in 1..Len(s) /\ (q.at < Len(s) => next = q.at + 1) /\ (q.at = Len(s) => next = Len(s))
    BY <1>1, <1>2, <2>1 DEF Lesser, next
  <2> DEFINE to == Landing(s, next, time)
  <2>3. to \in next..Len(s)
    BY <1>1, <2>2, LandingType
  <2>4. GtStart(s, p, time, krwnd) = ReadTo(s, q, next, to)
    BY <1>5 DEF GtStart, q, back, next
  <2> HIDE DEF to
  <2>5. next \in Nat \ {0} /\ to \in Nat
        /\ \/ next = q.at + 1 /\ to >= q.at /\ (to <= Len(s) \/ to = q.at)
           \/ next = Len(s) /\ to = Len(s) /\ q.at = Len(s)
    BY <1>1, <1>2, <2>1, <2>2, <2>3
  <2> QED
    BY <1>2, <2>4, <2>5, ReadToReadsOn
<1>6. p.go = 0 \/ p.go > 0
    BY DEF PosType
<1> QED
    BY <1>3, <1>4, <1>5, <1>6

\* The calls that follow.
LEMMA GtRestReads ==
    ASSUME NEW s \in Seq(Scan), s # << >>, NEW p \in PosType,
           NEW range, range.n \in Int, range.en \in Int, NEW count \in {0, 1}
    PROVE  /\ ReadsOn(s, p, GtRest(s, p, range, count))
           /\ p.at < Len(s) /\ range.n > count => GtRest(s, p, range, count).at > p.at
           /\ p.at < Len(s) /\ range.n > 0 =>
                 GtRest(s, p, range, count).at = Lesser(Len(s), p.at + range.n - count)
<1> DEFINE later == {i \in (p.at + 1)..Len(s) : s[i].t >= range.en} \cup {Len(s)}
           stop  == IF p.at >= Len(s) THEN p.at
                    ELSE IF range.n > 0 THEN Lesser(Len(s), p.at + range.n - count)
                    ELSE IF range.n < 0 THEN Len(s)
                    ELSE IF range.en <= Instant(p.cur) THEN p.at
                    ELSE Least(later)
           a     == p.at + 1
<1>1. Len(s) \in Nat \ {0} /\ p.at \in Nat
    BY EmptySeq DEF PosType
<1>2. later \in SUBSET Nat /\ later # {}
    BY <1>1
<1>3. p.at < Len(s) => later \subseteq p.at..Len(s)
    BY <1>1
<1> HIDE DEF later
<1>4. p.at < Len(s) => Least(later) \in p.at..Len(s)
    BY <1>2, <1>3, LeastOf
<1>5. p.at < Len(s) /\ range.n > 0
        => /\ Lesser(Len(s), p.at + range.n - count) \in p.at..Len(s)
           /\ range.n > count => Lesser(Len(s), p.at + range.n - count) > p.at
    BY <1>1 DEF Lesser
<1>6. /\ stop \in Nat /\ stop >= p.at /\ (stop <= Len(s) \/ stop = p.at)
      /\ p.at < Len(s) /\ range.n > count => stop > p.at
      /\ p.at < Len(s) /\ range.n > 0 => stop = Lesser(Len(s), p.at + range.n - count)
    BY <1>1, <1>4, <1>5
<1>7. GtRest(s, p, range, count) = ReadTo(s, p, a, stop)
    BY DEF GtRest, later
<1>8. a \in Nat \ {0} /\ a = p.at + 1
    BY <1>1
<1> HIDE DEF stop, a
<1>9. ReadsOn(s, p, ReadTo(s, p, a, stop))
    BY <1>6, <1>8, ReadToReadsOn
<1>10. ReadTo(s, p, a, stop).at = stop
    BY DEF ReadTo, PosType
<1> QED
    BY <1>6, <1>7, <1>9, <1>10

-----------------------------------------------------------------------------
(***************************************************************************)
(* CUR always has a source, unless it is as a rewind left it.              *)
(***************************************************************************)
HasSource(c) == c.sta # << >> /\ Source(c) \in Sources
IsRewound(c) == c.sta # << >> /\ \A m \in Stations : c.src[m] = Rewound

\* No station without a source is taken for one with a source.
LEMMA NoSource == Unscheduled \notin Sources /\ Rewound \notin Sources
BY SourcesAreRanks DEF Unscheduled, Rewound

\* A station list that is not empty begins with a station.
LEMMA HeadIsStation ==
    ASSUME NEW list \in Subnets \cup {<< >>}, list # << >>
    PROVE  Head(list) \in Stations /\ Head(list) \in Members(list)
<1>1. list \in Seq(Stations)
    BY SubnetsAreLists
<1>2. 1 \in DOMAIN list /\ Head(list) = list[1]
    BY <1>1, EmptySeq
<1> QED
    BY <1>1, <1>2, ElementOfSeq DEF Members

\* A scan that is unpacked is current, with its source.
LEMMA UnpakValid ==
    ASSUME NEW c \in CurType, NEW x \in Scan
    PROVE  HasSource(Unpak(c, x))
<1>1. x.sta \in Subnets /\ x.src \in Sources /\ x.sta # << >>
    BY SubnetsAreLists DEF Scan
<1>2. Head(x.sta) \in Stations /\ Head(x.sta) \in Members(x.sta)
    BY <1>1, HeadIsStation
<1> QED
    BY <1>1, <1>2 DEF HasSource, Source, Unpak

\* So is the last of a run of scans that are read.
LEMMA UnpakRangeValid ==
    ASSUME NEW c \in CurType, NEW s \in Seq(Scan),
           NEW a \in Nat \ {0}, NEW b \in 0..Len(s), a <= b
    PROVE  HasSource(UnpakRange(c, s, a, b))
<1> DEFINE m == Head(s[b].sta)
           Seen(n) == \E i \in a..b : n \in Members(s[i].sta)
           Latest(n) == s[LastOf(n, s, a, b)]
<1>1. b \in a..b /\ \A i \in a..b : s[i] \in Scan
    BY ElementOfSeq
<1>2. s[b].sta \in Subnets /\ s[b].sta # << >>
    BY <1>1, SubnetsAreLists DEF Scan
<1>3. m \in Stations /\ m \in Members(s[b].sta)
    BY <1>2, HeadIsStation
<1>4. Seen(m)
    BY <1>1, <1>3
<1>5. Latest(m) \in Scan
    BY <1>1, <1>4, LastOfType
<1>6. Latest(m).src \in Sources
    BY <1>5 DEF Scan
<1>7. UnpakRange(c, s, a, b).sta = s[b].sta
      /\ UnpakRange(c, s, a, b).src
           = [n \in Stations |-> IF Seen(n) THEN Latest(n).src ELSE c.src[n]]
    BY DEF UnpakRange
<1> HIDE DEF Seen, Latest
<1>8. UnpakRange(c, s, a, b).src[m] = Latest(m).src
    BY <1>3, <1>4, <1>7
<1> QED
    BY <1>2, <1>6, <1>7, <1>8 DEF HasSource, Source

\* GTOBS comes to a scan, or leaves CUR as it was.
LEMMA ReadsOnValid ==
    ASSUME NEW s \in Seq(Scan), s # << >>, NEW p \in PosType, NEW r \in PosType,
           ReadsOn(s, p, r)
    PROVE  (r.at = p.at /\ r.cur = p.cur) \/ HasSource(r.cur)
<1>1. Len(s) \in Nat \ {0} /\ p.at \in Nat /\ r.at \in Nat /\ p.cur \in CurType
    BY EmptySeq DEF PosType, FullCur
<1>2. CASE p.at < r.at /\ r.at <= Len(s) /\ r.cur = UnpakRange(p.cur, s, p.at + 1, r.at)
  <2> DEFINE a == p.at + 1
  <2>1. a \in Nat \ {0} /\ r.at \in 0..Len(s) /\ a <= r.at
    BY <1>1, <1>2
  <2> HIDE DEF a
  <2>2. HasSource(UnpakRange(p.cur, s, a, r.at))
    BY <1>1, <2>1, UnpakRangeValid
  <2> QED
    BY <1>2, <2>2 DEF a
<1>3. CASE r.at = p.at /\ p.at = Len(s) /\ r.cur = UnpakRange(p.cur, s, r.at, r.at)
  <2>1. r.at \in Nat \ {0} /\ r.at \in 0..Len(s) /\ r.at <= r.at
    BY <1>1, <1>3
  <2>2. HasSource(UnpakRange(p.cur, s, r.at, r.at))
    BY <1>1, <2>1, UnpakRangeValid
  <2> QED
    BY <1>3, <2>2
<1> QED
    BY <1>2, <1>3 DEF ReadsOn

\* CUR is left alone, or a scan is in it, or it is rewound and the cursor in front.
Settles(p, r) == r.cur = p.cur \/ HasSource(r.cur) \/ (r.at = 0 /\ IsRewound(r.cur))

LEMMA RewindValid ==
    ASSUME NEW p \in PosType
    PROVE  Rewind(p).at = 0 /\ IsRewound(Rewind(p).cur)
<1>1. p.cur.sta # << >>
    BY DEF PosType, FullCur
<1> QED
    BY <1>1 DEF Rewind, RewoundCur, IsRewound, PosType

LEMMA GtStartSettles ==
    ASSUME NEW s \in Seq(Scan), s # << >>, NEW p \in PosType, NEW time \in Int,
           NEW krwnd \in BOOLEAN,
           krwnd \/ p.go > 0 \/ p.at <= Len(s) \/ time <= Instant(p.cur)
    PROVE  /\ Settles(p, GtStart(s, p, time, krwnd))
           /\ krwnd => \/ HasSource(GtStart(s, p, time, krwnd).cur)
                       \/ /\ GtStart(s, p, time, krwnd).at = 0
                          /\ IsRewound(GtStart(s, p, time, krwnd).cur)
<1> DEFINE r == GtStart(s, p, time, krwnd)
<1>1. r \in PosType
    BY GtStartType
<1>2. PICK q \in {p, Rewind(p)} : ReadsOn(s, q, r) /\ (krwnd => q = Rewind(p))
    BY GtStartReads
<1>3. q \in PosType
    BY RewindType
<1> HIDE DEF r
<1>4. (r.at = q.at /\ r.cur = q.cur) \/ HasSource(r.cur)
    BY <1>1, <1>2, <1>3, ReadsOnValid
<1>5. Settles(p, r) /\ (krwnd => HasSource(r.cur) \/ (r.at = 0 /\ IsRewound(r.cur)))
    BY <1>2, <1>4, RewindValid DEF Settles
<1> QED
    BY <1>5 DEF r

\* From behind the last scan, an entry that a deletion has left is read.
LEMMA GtFirstSettles ==
    ASSUME StoreInv, nobs > 0, NEW p \in PosType, NEW time \in Int, ~ReadsUnset(p, time)
    PROVE  Settles(p, GtFirst(p, time))
<1>1. Sched \in Seq(Scan) /\ Sched # << >> /\ Len(Sched) = nobs /\ nobs \in Nat
    BY PositionType
<1>2. CASE ReadsBehind(p, time)
  <2>1. p.at \in Nat /\ p.at > nobs /\ p.at <= Len(iskrec) /\ p.cur \in CurType
    BY <1>2, IskrecType DEF ReadsUnset, ReadsBehind, PosType, FullCur
  <2>2. rec[iskrec[p.at]] \in Scan
    BY <1>1, <2>1, IskrecType DEF ScanList
  <2>3. GtFirst(p, time).cur = Unpak(p.cur, rec[iskrec[p.at]])
    BY <1>2, <2>1 DEF GtFirst, PosType
  <2>4. HasSource(Unpak(p.cur, rec[iskrec[p.at]]))
    BY <2>1, <2>2, UnpakValid
  <2> QED
    BY <2>3, <2>4 DEF Settles
<1>3. CASE ~ReadsBehind(p, time)
  <2>1. p.go > 0 \/ p.at <= Len(Sched) \/ time <= Instant(p.cur)
    <3>1. Instant(p.cur) \in Int /\ p.at \in Nat /\ p.go \in Nat
      BY InstantType DEF PosType
    <3> QED
      BY <1>1, <1>3, <3>1 DEF ReadsBehind
  <2>2. GtFirst(p, time) = GtStart(Sched, p, time, FALSE)
    BY <1>3 DEF GtFirst
  <2>3. Settles(p, GtStart(Sched, p, time, FALSE))
    <3>1. CASE p.go > 0
      BY <1>1, <3>1, GtStartSettles
    <3>2. CASE p.at <= Len(Sched)
      BY <1>1, <3>2, GtStartSettles
    <3>3. CASE time <= Instant(p.cur)
      BY <1>1, <3>3, GtStartSettles
    <3> QED
      BY <2>1, <3>1, <3>2, <3>3
  <2> QED
    BY <2>2, <2>3
<1> QED
    BY <1>2, <1>3

\* The calls that follow leave CUR with a source, or as the first left it.
LEMMA GtRestSettles ==
    ASSUME NEW s \in Seq(Scan), s # << >>, NEW o, NEW p \in PosType, Settles(o, p),
           NEW range, range.n \in Int, range.en \in Int, NEW count \in {0, 1}
    PROVE  Settles(o, GtRest(s, p, range, count))
<1> DEFINE r == GtRest(s, p, range, count)
<1>1. r \in PosType /\ ReadsOn(s, p, r)
    BY GtRestType, GtRestReads
<1> HIDE DEF r
<1>2. (r.at = p.at /\ r.cur = p.cur) \/ HasSource(r.cur)
    BY <1>1, ReadsOnValid
<1>3. Settles(o, r)
    BY <1>2 DEF Settles
<1> QED
    BY <1>3 DEF r

\* What a command does to CUR.
CurStep ==
    \/ cur' = cur /\ nobs' = nobs
    \/ HasSource(cur') /\ (nobs' > 0 \/ status' = "failed")
    \/ nobs' > 0 /\ ircur' = 0 /\ IsRewound(cur')
    \/ ClearAll

ValidInv == StoreInv /\ CursorValid

\* A command that moves the cursor.
LEMMA MoveStep ==
    ASSUME StoreInv, nobs > 0, UNCHANGED store, NEW o, o.cur = cur,
           NEW p, MoveTo(p), Settles(o, p)
    PROVE  CurStep
<1>1. nobs' = nobs
    BY DEF store, nobs
<1> QED
    BY <1>1 DEF CurStep, Settles, MoveTo

\* LIST, NEXT and BACK.
LEMMA ListOnStep ==
    ASSUME StoreInv, nobs > 0, NEW o, o.cur = cur, NEW p \in PosType, Settles(o, p),
           NEW range, range.n \in Int, range.en \in Int, NEW count \in {0, 1},
           ListOn(p, range, count)
    PROVE  CurStep
<1>1. Sched \in Seq(Scan) /\ Sched # << >>
    BY PositionType
<1>2. PICK q \in {p, GtRest(Sched, p, range, count)} : MoveTo(q)
    BY DEF ListOn
<1>3. Settles(o, GtRest(Sched, p, range, count))
    BY <1>1, GtRestSettles
<1>4. UNCHANGED store
    BY DEF ListOn
<1> QED
    BY <1>2, <1>3, <1>4, MoveStep

LEMMA ListStep ==
    ASSUME StoreInv, NEW range \in Ranges, List(range)
    PROVE  CurStep
<1> DEFINE from == [Position EXCEPT !.go = 0]
<1>1. range.n \in Int /\ range.en \in Int /\ range.st \in Int
    BY RangeTypes
<1>2. nobs > 0
    BY DEF List
<1>3. from \in PosType /\ from.cur = cur
    BY <1>2, PositionType DEF Position
<1>4. \/ UNCHANGED <<store, cur>>
      \/ ~ReadsUnset(from, range.st) /\ ListOn(GtFirst(from, range.st), range, 1)
    BY DEF List
<1> HIDE DEF from
<1>5. CASE UNCHANGED <<store, cur>>
    BY <1>5 DEF CurStep, store, nobs
<1>6. CASE ~ReadsUnset(from, range.st) /\ ListOn(GtFirst(from, range.st), range, 1)
  <2>1. GtFirst(from, range.st) \in PosType /\ Settles(from, GtFirst(from, range.st))
    BY <1>1, <1>2, <1>3, <1>6, GtFirstTypes, GtFirstSettles
  <2> QED
    BY <1>1, <1>2, <1>3, <1>6, <2>1, ListOnStep
<1> QED
    BY <1>4, <1>5, <1>6

\* NEXT and BACK ask for a place.
LEMMA PlaceStep ==
    ASSUME StoreInv, nobs > 0, NEW go \in Nat \ {0},
           NEW range, range.n \in Int, range.en \in Int,
           ListOn(GtStart(Sched, [Position EXCEPT !.go = go], StartTime, FALSE), range, 1)
    PROVE  CurStep
<1> DEFINE from == [Position EXCEPT !.go = go]
           p    == GtStart(Sched, from, StartTime, FALSE)
<1>1. Sched \in Seq(Scan) /\ Sched # << >>
    BY PositionType
<1>2. from \in PosType /\ from.cur = cur /\ from.go > 0
    BY PositionType DEF Position
<1>3. p \in PosType
    BY StartTypes, TimesAreIntegers
<1>4. ListOn(p, range, 1)
    OBVIOUS
<1> HIDE DEF from
<1>5. Settles(from, p)
    BY <1>1, <1>2, GtStartSettles, TimesAreIntegers
<1> HIDE DEF p
<1> QED
    BY <1>2, <1>3, <1>4, <1>5, ListOnStep

LEMMA NextBackStep ==
    ASSUME StoreInv, NEW n \in Counts,
           BackScans(n) \/ \E en \in Endings(n) : NextScans(n, en)
    PROVE  CurStep
<1>1. CASE BackScans(n)
  <2>1. Count(1, StartTime).n \in Int /\ Count(1, StartTime).en \in Int
    BY TimesAreIntegers DEF Count
  <2>2. PlaceBack(n) \in Nat \ {0}
    BY CountTypes
  <2>3. nobs > 0 /\ ListOn(GtStart(Sched, [Position EXCEPT !.go = PlaceBack(n)], StartTime, FALSE),
                           Count(1, StartTime), 1)
    BY <1>1 DEF BackScans
  <2> QED
    BY <2>1, <2>2, <2>3, PlaceStep
<1>2. ASSUME NEW en \in Endings(n), NextScans(n, en)
      PROVE  CurStep
  <2>1. Count(n, en).n \in Int /\ Count(n, en).en \in Int
    BY CountTypes DEF Count
  <2>2. ircur + 1 \in Nat \ {0}
    BY DEF StoreInv, TypeOK
  <2>3. nobs > 0 /\ ListOn(GtStart(Sched, [Position EXCEPT !.go = ircur + 1], StartTime, FALSE),
                           Count(n, en), 1)
    BY <1>2 DEF NextScans
  <2> QED
    BY <2>1, <2>2, <2>3, PlaceStep
<1> QED
    BY <1>1, <1>2

\* The place PREVIOUS goes on from; on an empty schedule it reads nothing.
LEMMA PreviousPlace ==
    ASSUME StoreInv, NEW n \in Counts, NEW en \in Endings(n), PreviousScans(n, en)
    PROVE  \E from, range :
              /\ from.at = PlaceBack(n) - 1 /\ from.cur = cur /\ from.go = 0
              /\ range.n = Lesser(ircur, n) + 1 /\ range.n \in Int /\ range.en \in Int
              /\ MoveTo(GtRest(Sched, from, range, 0)) /\ UNCHANGED <<store, status>>
              /\ nobs > 0 => from \in PosType
              /\ nobs = 0 => cur' = cur
<1> DEFINE from  == [Position EXCEPT !.at = PlaceBack(n) - 1, !.go = 0]
           range == Count(Lesser(ircur, n) + 1, en)
           to    == GtRest(Sched, from, range, 0)
<1>1. /\ PlaceBack(n) - 1 \in Nat /\ range.n \in Int /\ range.en \in Int
      /\ range.n = Lesser(ircur, n) + 1
    BY CountTypes DEF Count
<1>2. MoveTo(to) /\ UNCHANGED <<store, status>>
    BY DEF PreviousScans
<1>3. from.at = PlaceBack(n) - 1 /\ from.cur = cur /\ from.go = 0
    BY DEF Position
<1>4. nobs > 0 => from \in PosType
  <2>1. nobs > 0 => \A a \in Nat : [Position EXCEPT !.at = a, !.go = 0] \in PosType
    BY PositionType DEF Position, PosType
  <2> QED
    BY <1>1, <2>1
<1>5. from \in [at : Nat, cur : CurType, go : Nat]
  <2>1. \A a \in Nat : [Position EXCEPT !.at = a, !.go = 0] \in [at : Nat, cur : CurType, go : Nat]
    BY DEF Position, StoreInv, TypeOK
  <2> QED
    BY <1>1, <2>1
<1> HIDE DEF from, range
<1>6. nobs = 0 => cur' = cur
  <2> SUFFICES ASSUME nobs = 0
               PROVE  cur' = cur
    OBVIOUS
  <2>1. Len(Sched) = 0
    BY SchedType
  <2>2. to = ReadTo(Sched, from, from.at + 1, from.at) /\ from.at + 1 > from.at
    BY <1>1, <1>3, <2>1 DEF GtRest
  <2>3. to.cur = cur
    BY <1>3, <1>5, <2>2 DEF ReadTo, UnpakRange
  <2> QED
    BY <1>2, <2>3 DEF MoveTo
<1> QED
    BY <1>1, <1>2, <1>3, <1>4, <1>6

LEMMA PreviousStep ==
    ASSUME StoreInv, NEW n \in Counts, NEW en \in Endings(n), PreviousScans(n, en)
    PROVE  CurStep
<1>1. PICK from, range :
         /\ from.at = PlaceBack(n) - 1 /\ from.cur = cur /\ from.go = 0
         /\ range.n = Lesser(ircur, n) + 1 /\ range.n \in Int /\ range.en \in Int
         /\ MoveTo(GtRest(Sched, from, range, 0)) /\ UNCHANGED <<store, status>>
         /\ nobs > 0 => from \in PosType
         /\ nobs = 0 => cur' = cur
    BY PreviousPlace
<1>2. CASE nobs > 0
  <2>1. Sched \in Seq(Scan) /\ Sched # << >> /\ from \in PosType
    BY <1>1, <1>2, PositionType
  <2>2. Settles(from, from)
    BY DEF Settles
  <2>3. Settles(from, GtRest(Sched, from, range, 0))
    BY <1>1, <2>1, <2>2, GtRestSettles
  <2> QED
    BY <1>1, <1>2, <2>3, MoveStep
<1>3. CASE nobs = 0
    BY <1>1, <1>3 DEF CurStep, store, nobs
<1> QED
    BY <1>2, <1>3, SchedType

\* WC, which has read the whole schedule before it asks for the place it knows.
LEMMA WriteContinueStep ==
    ASSUME StoreInv, WriteContinue
    PROVE  CurStep
<1> DEFINE checked == [at |-> ircur, go |-> ircur, cur |-> UnpakRange(cur, Sched, 1, nobs)]
<1>1. nobs > 0 /\ UNCHANGED store
    BY DEF WriteContinue
<1>2. Sched \in Seq(Scan) /\ Sched # << >> /\ Len(Sched) = nobs /\ nobs \in Nat
      /\ cur \in FullCur /\ ircur \in Nat
    BY <1>1, PositionType
<1>3. UnpakRange(cur, Sched, 1, nobs) \in FullCur /\ HasSource(UnpakRange(cur, Sched, 1, nobs))
  <2>1. nobs \in 0..Len(Sched) /\ 1 \in Nat \ {0} /\ 1 <= nobs /\ cur \in CurType
    BY <1>1, <1>2 DEF FullCur
  <2> QED
    BY <1>2, <2>1, UnpakRangeType, UnpakRangeValid
<1>4. checked \in PosType /\ checked.at = ircur /\ checked.go = ircur /\ HasSource(checked.cur)
    BY <1>2, <1>3 DEF PosType
<1>5. (\E time \in Instants : MoveTo(GtStart(Sched, checked, time, FALSE)))
         \/ MoveTo([checked EXCEPT !.go = irecgo])
    BY DEF WriteContinue
<1>6. nobs' = nobs
    BY <1>1 DEF store, nobs
<1>7. [checked EXCEPT !.go = irecgo].cur = checked.cur
    OBVIOUS
<1> HIDE DEF checked
<1>8. CASE \E time \in Instants : MoveTo(GtStart(Sched, checked, time, FALSE))
  <2>1. PICK time \in Instants : MoveTo(GtStart(Sched, checked, time, FALSE))
    BY <1>8
  <2>2. time \in Int /\ (checked.go > 0 \/ checked.at <= Len(Sched))
    BY <1>2, <1>4, TimesAreIntegers DEF Instants
  <2>3. Settles(checked, GtStart(Sched, checked, time, FALSE))
    <3>1. CASE checked.go > 0
      BY <1>2, <1>4, <2>2, <3>1, GtStartSettles
    <3>2. CASE checked.at <= Len(Sched)
      BY <1>2, <1>4, <2>2, <3>2, GtStartSettles
    <3> QED
      BY <2>2, <3>1, <3>2
  <2> QED
    BY <1>1, <1>4, <1>6, <2>1, <2>3 DEF CurStep, Settles, MoveTo
<1>9. CASE MoveTo([checked EXCEPT !.go = irecgo])
    BY <1>1, <1>4, <1>6, <1>7, <1>9 DEF CurStep, MoveTo
<1> QED
    BY <1>5, <1>8, <1>9

\* An insertion puts the new scan in CUR, also when there was no room for it.
LEMMA InsertStep ==
    ASSUME StoreInv, NEW x \in Scan, Insert(x) \/ InsertBehind(x)
    PROVE  CurStep
<1>1. HasSource(cur')
    BY UnpakValid DEF Insert, InsertBehind, StoreInv, TypeOK
<1>2. nobs \in Nat /\ MaxObs \in Nat \ {0} /\ nxtrec \in Nat
    BY IskrecType, ConstantTypes DEF StoreInv, TypeOK
<1>3. CASE Insert(x)
  <2>1. CASE nobs >= MaxObs
    <3>1. UNCHANGED store
      BY <1>2, <1>3, <2>1 DEF Insert
    <3>2. nobs' = nobs
      BY <3>1 DEF store, nobs
    <3> QED
      BY <1>1, <1>2, <2>1, <3>2 DEF CurStep
  <2>2. CASE nobs < MaxObs /\ nxtrec <= MaxObs
    <3>1. Len(index') = nobs + 1
      BY <1>3, <2>2, InsertEffect
    <3> QED
      BY <1>1, <1>2, <3>1 DEF CurStep, nobs
  <2>3. CASE nobs < MaxObs /\ nxtrec > MaxObs
    <3>1. status' = "failed"
      BY <1>2, <1>3, <2>3 DEF Insert
    <3> QED
      BY <1>1, <3>1 DEF CurStep
  <2> QED
    BY <1>2, <2>1, <2>2, <2>3
<1>4. CASE InsertBehind(x)
  <2>1. CASE status' = "failed"
    BY <1>1, <2>1 DEF CurStep
  <2>2. CASE status' # "failed"
    <3>1. nobs' > 0
      BY <1>2, <1>4, <2>2, InsertBehindTypes
    <3> QED
      BY <1>1, <3>1 DEF CurStep
  <2> QED
    BY <2>1, <2>2
<1> QED
    BY <1>3, <1>4

\* MODCU is refused while no source is current; so there are scans.
LEMMA ModifyStep ==
    ASSUME ValidInv, NEW y \in Edits, Modify(y)
    PROVE  CurStep
<1>1. StoreInv /\ cur \in CurType /\ y \in Scan
    BY EditsAreScans DEF ValidInv, StoreInv, TypeOK
<1>2. Running /\ cur.sta # << >> /\ Source(cur) > 0
    BY DEF Modify
<1>3. nobs \in Nat
    BY <1>1, SchedType
<1>4. nobs # 0
  <2>1. Head(cur.sta) \in Stations
    BY <1>1, <1>2, HeadIsStation DEF CurType
  <2>2. nobs = 0 => Source(cur) = 0
    BY <1>2, <2>1 DEF ValidInv, CursorValid, Source, Unscheduled
  <2> QED
    BY <1>2, <2>2
<1>5. nobs' = nobs
    BY DEF Modify, nobs, store
<1>6. HasSource(cur')
    BY <1>1, UnpakValid DEF Modify
<1> QED
    BY <1>3, <1>4, <1>5, <1>6 DEF CurStep

\* DELCM reads what is left from the start, or empties the schedule.
LEMMA DeleteStep ==
    ASSUME StoreInv, NEW range \in Ranges, Delete(range)
    PROVE  CurStep
<1>1. PICK k \in Nat, n \in Nat \ {0}, back \in Nat \ {0}, first \in PosType :
              \/ status' = "failed" /\ UNCHANGED <<store, ircur, irecgo, cur>>
              \/ /\ k - 1 <= Len(iskrec)
                 /\ BlockTaken(k, n, first, back, range.st)
              \/ ClearAll /\ irecgo' = back
    BY DeleteShapes
<1>2. CASE UNCHANGED <<store, ircur, irecgo, cur>>
    BY <1>2 DEF CurStep, store, nobs
<1>3. CASE /\ k - 1 <= Len(iskrec)
           /\ BlockTaken(k, n, first, back, range.st)
  <2> DEFINE left == Without(k, n)
             from == [first EXCEPT !.go = back]
             to   == GtStart(ScansLeft(left), from, range.st, TRUE)
  <2>1. ScanList(left, rec)
    BY <1>3, LeftTypes
  <2>2. left # << >> /\ index' = left /\ MoveTo(to)
    BY <1>3 DEF BlockTaken
  <2>3. from \in PosType
    BY DEF PosType
  <2> HIDE DEF left, from
  <2>4. ScansLeft(left) \in Seq(Scan) /\ Len(ScansLeft(left)) = Len(left)
        /\ ScansLeft(left) # << >> /\ Len(left) \in Nat \ {0}
    BY <2>1, <2>2, ScansOf, EmptySeq DEF ScansLeft, ScanList
  <2>5. HasSource(to.cur) \/ (to.at = 0 /\ IsRewound(to.cur))
    BY <2>3, <2>4, RangeTypes, GtStartSettles
  <2> HIDE DEF to
  <2> QED
    BY <2>2, <2>4, <2>5 DEF MoveTo, CurStep, nobs
<1>4. CASE ClearAll
    BY <1>4 DEF CurStep
<1> QED
    BY <1>1, <1>2, <1>3, <1>4

\* Every command does to CUR what the five cases say.
LEMMA NextStep ==
    ASSUME ValidInv, [Next]_vars
    PROVE  CurStep
<1>1. StoreInv
    BY DEF ValidInv
<1>2. CASE \E x \in Scan : Insert(x) \/ InsertBehind(x)
    BY <1>1, <1>2, InsertStep
<1>3. CASE \E y \in Edits : Modify(y)
    BY <1>3, ModifyStep
<1>4. CASE \E range \in Ranges : Delete(range) \/ List(range)
    BY <1>1, <1>4, DeleteStep, ListStep
<1>5. CASE \E n \in Counts : \/ BackScans(n)
                             \/ \E en \in Endings(n) : NextScans(n, en) \/ PreviousScans(n, en)
    BY <1>1, <1>5, NextBackStep, PreviousStep
<1>6. CASE DeleteAll
    BY <1>6 DEF DeleteAll, CurStep
<1>7. CASE ListNothing \/ UNCHANGED vars
    BY <1>7 DEF ListNothing, vars, store, nobs, CurStep
<1>8. CASE WriteContinue
    BY <1>1, <1>8, WriteContinueStep
<1> QED
    BY <1>2, <1>3, <1>4, <1>5, <1>6, <1>7, <1>8 DEF Next

\* At first the first scan of the file is current.
LEMMA InitValid == Init => ValidInv
<1> SUFFICES ASSUME NEW f \in Files, Load(f), StoreInv
             PROVE  CursorValid
    BY InitTypes DEF Init, ValidInv
<1>1. f \in Seq(Scan) /\ Len(f) \in Nat
    BY FilesFit, LenProperties
<1>2. PICK order \in SortOrders(f, Len(f)) : index = order
    BY DEF Load
<1>3. index \in [1..Len(f) -> 1..Len(f)] /\ nobs = Len(f)
    BY <1>1, <1>2 DEF SortOrders, nobs
<1>4. CASE f = << >>
    BY <1>3, <1>4 DEF Load, CursorValid, FreshCur
<1>5. CASE f # << >>
  <2>1. nobs > 0 /\ f[index[1]] \in Scan
    BY <1>1, <1>3, <1>5, EmptySeq, ElementOfSeq
  <2>2. RewoundCur(<< >>) \in CurType
    BY ConstantTypes DEF RewoundCur, CurType
  <2>3. cur = Unpak(RewoundCur(<< >>), f[index[1]])
    BY <1>5 DEF Load
  <2>4. HasSource(cur)
    BY <2>1, <2>2, <2>3, UnpakValid
  <2> QED
    BY <2>1, <2>4 DEF CursorValid, HasSource
<1> QED
    BY <1>4, <1>5

LEMMA NextValid == ValidInv /\ [Next]_vars => ValidInv'
<1> SUFFICES ASSUME ValidInv, [Next]_vars
             PROVE  CursorValid'
    BY NextTypes DEF ValidInv
<1>1. CurStep /\ StoreInv /\ StoreInv'
    BY NextStep, NextTypes DEF ValidInv
<1>2. nobs \in Nat /\ nobs' \in Nat
    BY <1>1, LenProperties DEF StoreInv, TypeOK, nobs
<1>3. CASE cur' = cur /\ nobs' = nobs
  <2>1. Running' => Running
    BY DEF Next, vars, Running, Insert, InsertBehind, Modify, Delete, List, NextScans,
           BackScans, PreviousScans, DeleteAll, ListNothing, WriteContinue
  <2> QED
    BY <1>3, <2>1 DEF ValidInv, CursorValid, Source
<1>4. CASE HasSource(cur') /\ (nobs' > 0 \/ status' = "failed")
    BY <1>2, <1>4 DEF CursorValid, HasSource, Source, Running
<1>5. CASE nobs' > 0 /\ IsRewound(cur')
    BY <1>2, <1>5 DEF CursorValid, IsRewound
<1>6. CASE ClearAll
    BY <1>6 DEF ClearAll, CursorValid, FreshCur, nobs
<1> QED
    BY <1>1, <1>3, <1>4, <1>5, <1>6 DEF CurStep

\* Wherever the cursor is, CUR has the source of a scan or is rewound; this holds
\* for every count and every listing, and needs no check of subscripts.
THEOREM CursorStaysValid == Spec => []CursorValid
<1>1. ValidInv => CursorValid
    BY DEF ValidInv
<1>2. ValidInv /\ [Next]_vars => ValidInv'
    BY NextValid
<1> QED
    BY <1>1, <1>2, InitValid, PTL DEF Spec

\* CUR loses its source to a rewind only in front of the first scan.
THEOREM SourceLostInFront == Spec => RewoundInFront
<1>1. ValidInv /\ [Next]_vars
        => [nobs > 0 /\ nobs' > 0 /\ Source(cur) # Rewound /\ Source(cur)' = Rewound
              => ircur' = 0]_vars
  <2> SUFFICES ASSUME ValidInv, [Next]_vars,
                      nobs' > 0, Source(cur) # Rewound, Source(cur)' = Rewound
               PROVE  ircur' = 0
    OBVIOUS
  <2>1. CurStep
    BY NextStep
  <2>2. cur' # cur
    BY DEF Source
  <2>3. ~HasSource(cur')
    BY NoSource DEF HasSource, Source
  <2>4. ~ClearAll
    BY DEF ClearAll, nobs
  <2> QED
    BY <2>1, <2>2, <2>3, <2>4 DEF CurStep
<1>2. ValidInv /\ [Next]_vars => ValidInv'
    BY NextValid
<1> QED
    BY <1>1, <1>2, InitValid, PTL DEF Spec, RewoundInFront
-----------------------------------------------------------------------------
(***************************************************************************)
(* Where the cursor comes to rest.  GTOBS never moves the cursor onto a    *)
(* scan without reading it; only PREVIOUS does, by itself.                 *)
(***************************************************************************)
Holds(c, x) ==
    c.sta = x.sta /\ \A m \in Members(x.sta) : c.t[m] = x.t /\ c.src[m] = x.src

\* LastOf is the last place of the station, whoever names it.
LEMMA LastOfIs ==
    ASSUME NEW s, NEW a \in Nat, NEW b \in Nat, NEW m, NEW i \in a..b,
           m \in Members(s[i].sta), \A j \in (i + 1)..b : m \notin Members(s[j].sta)
    PROVE  LastOf(m, s, a, b) = i
<1> DEFINE Has(j) == m \in Members(s[j].sta)
           Final(k) == Has(k) /\ \A j \in (k + 1)..b : ~Has(j)
<1>1. Final(i)
    OBVIOUS
<1> HIDE DEF Has
<1>2. \A k \in a..b : Final(k) => k = i
    BY <1>1
<1>3. LastOf(m, s, a, b) = CHOOSE k \in a..b : Final(k)
    BY DEF LastOf, Has
<1> HIDE DEF Final
<1> QED
    BY <1>1, <1>2, <1>3

\* A run of scans leaves its last scan in CUR.
LEMMA RangeHolds ==
    ASSUME NEW c \in CurType, NEW s \in Seq(Scan),
           NEW a \in Nat \ {0}, NEW b \in 0..Len(s), a <= b
    PROVE  Holds(UnpakRange(c, s, a, b), s[b])
<1> DEFINE Seen(n) == \E i \in a..b : n \in Members(s[i].sta)
           Latest(n) == s[LastOf(n, s, a, b)]
<1>1. s[b] \in Scan /\ b \in a..b
    BY ElementOfSeq
<1>2. ASSUME NEW m \in Members(s[b].sta)
      PROVE  m \in Stations /\ Seen(m) /\ Latest(m) = s[b]
  <2>1. s[b].sta \in Seq(Stations)
    BY <1>1, SubnetsAreLists DEF Scan
  <2>2. m \in Stations
    BY <2>1, ElementOfSeq DEF Members
  <2>3. \A j \in (b + 1)..b : m \notin Members(s[j].sta)
    OBVIOUS
  <2>4. LastOf(m, s, a, b) = b
    BY <1>1, <2>3, LastOfIs
  <2> QED
    BY <1>1, <2>2, <2>4
<1>3. /\ UnpakRange(c, s, a, b).sta = s[b].sta
      /\ UnpakRange(c, s, a, b).t
           = [n \in Stations |-> IF Seen(n) THEN Latest(n).t ELSE c.t[n]]
      /\ UnpakRange(c, s, a, b).src
           = [n \in Stations |-> IF Seen(n) THEN Latest(n).src ELSE c.src[n]]
    BY DEF UnpakRange
<1> HIDE DEF Seen, Latest
<1>4. ASSUME NEW m \in Members(s[b].sta)
      PROVE  /\ UnpakRange(c, s, a, b).t[m] = s[b].t
             /\ UnpakRange(c, s, a, b).src[m] = s[b].src
    BY <1>2, <1>3
<1> QED
    BY <1>3, <1>4 DEF Holds

\* GTOBS leaves the position as it was, or comes to a scan that is then in CUR.
LEMMA ReadsOnHolds ==
    ASSUME NEW s \in Seq(Scan), s # << >>, NEW p \in PosType, NEW r \in PosType,
           ReadsOn(s, p, r)
    PROVE  \/ r.at = p.at /\ r.cur = p.cur
           \/ r.at \in 1..Len(s) /\ Holds(r.cur, s[r.at])
<1>1. Len(s) \in Nat \ {0} /\ p.at \in Nat /\ r.at \in Nat /\ p.cur \in CurType
    BY EmptySeq DEF PosType, FullCur
<1>2. CASE p.at < r.at /\ r.at <= Len(s) /\ r.cur = UnpakRange(p.cur, s, p.at + 1, r.at)
  <2> DEFINE a == p.at + 1
  <2>1. a \in Nat \ {0} /\ r.at \in 0..Len(s) /\ a <= r.at /\ r.at \in 1..Len(s)
    BY <1>1, <1>2
  <2> HIDE DEF a
  <2>2. Holds(UnpakRange(p.cur, s, a, r.at), s[r.at])
    BY <1>1, <2>1, RangeHolds
  <2> QED
    BY <1>2, <2>1, <2>2 DEF a
<1>3. CASE r.at = p.at /\ p.at = Len(s) /\ r.cur = UnpakRange(p.cur, s, r.at, r.at)
  <2>1. r.at \in Nat \ {0} /\ r.at \in 0..Len(s) /\ r.at <= r.at /\ r.at \in 1..Len(s)
    BY <1>1, <1>3
  <2>2. Holds(UnpakRange(p.cur, s, r.at, r.at), s[r.at])
    BY <1>1, <2>1, RangeHolds
  <2> QED
    BY <1>3, <2>1, <2>2
<1> QED
    BY <1>2, <1>3 DEF ReadsOn

\* A command that begins at place a ends there, or on a scan that is in CUR, or on
\* no scan at all.
RestsOn(s, a, r) == r.at = a \/ r.at \notin 1..Len(s) \/ Holds(r.cur, s[r.at])

LEMMA GtStartRests ==
    ASSUME NEW s \in Seq(Scan), s # << >>, NEW p \in PosType, NEW time \in Int,
           NEW krwnd \in BOOLEAN,
           krwnd \/ p.go > 0 \/ p.at <= Len(s) \/ time <= Instant(p.cur)
    PROVE  /\ RestsOn(s, p.at, GtStart(s, p, time, krwnd))
           /\ krwnd => RestsOn(s, 0, GtStart(s, p, time, krwnd))
<1> DEFINE r == GtStart(s, p, time, krwnd)
<1>1. r \in PosType
    BY GtStartType
<1>2. PICK q \in {p, Rewind(p)} : ReadsOn(s, q, r) /\ (krwnd => q = Rewind(p))
    BY GtStartReads
<1>3. q \in PosType /\ Rewind(p).at = 0
    BY RewindType
<1> HIDE DEF r
<1>4. \/ r.at = q.at /\ r.cur = q.cur
      \/ r.at \in 1..Len(s) /\ Holds(r.cur, s[r.at])
    BY <1>1, <1>2, <1>3, ReadsOnHolds
<1>5. 0 \notin 1..Len(s)
    OBVIOUS
<1>6. RestsOn(s, p.at, r) /\ (krwnd => RestsOn(s, 0, r))
    BY <1>2, <1>3, <1>4, <1>5 DEF RestsOn
<1> QED
    BY <1>6 DEF r

LEMMA GtFirstRests ==
    ASSUME StoreInv, nobs > 0, NEW p \in PosType, NEW time \in Int, ~ReadsUnset(p, time)
    PROVE  RestsOn(Sched, p.at, GtFirst(p, time))
<1>1. Sched \in Seq(Scan) /\ Sched # << >> /\ Len(Sched) = nobs /\ nobs \in Nat
    BY PositionType
<1>2. CASE ReadsBehind(p, time)
  <2>1. p.at <= Len(iskrec)
    BY <1>2, IskrecType DEF ReadsUnset, PosType
  <2>2. GtFirst(p, time).at = p.at
    BY <1>2, <2>1 DEF GtFirst, PosType
  <2> QED
    BY <2>2 DEF RestsOn
<1>3. CASE ~ReadsBehind(p, time)
  <2>1. p.go > 0 \/ p.at <= Len(Sched) \/ time <= Instant(p.cur)
    <3>1. Instant(p.cur) \in Int /\ p.at \in Nat /\ p.go \in Nat
      BY InstantType DEF PosType
    <3> QED
      BY <1>1, <1>3, <3>1 DEF ReadsBehind
  <2>2. GtFirst(p, time) = GtStart(Sched, p, time, FALSE)
    BY <1>3 DEF GtFirst
  <2>3. RestsOn(Sched, p.at, GtStart(Sched, p, time, FALSE))
    <3>1. CASE p.go > 0
      BY <1>1, <3>1, GtStartRests
    <3>2. CASE p.at <= Len(Sched)
      BY <1>1, <3>2, GtStartRests
    <3>3. CASE time <= Instant(p.cur)
      BY <1>1, <3>3, GtStartRests
    <3> QED
      BY <2>1, <3>1, <3>2, <3>3
  <2> QED
    BY <2>2, <2>3
<1> QED
    BY <1>2, <1>3

LEMMA GtRestRests ==
    ASSUME NEW s \in Seq(Scan), s # << >>, NEW a, NEW p \in PosType, RestsOn(s, a, p),
           NEW range, range.n \in Int, range.en \in Int, NEW count \in {0, 1}
    PROVE  RestsOn(s, a, GtRest(s, p, range, count))
<1> DEFINE r == GtRest(s, p, range, count)
<1>1. r \in PosType /\ ReadsOn(s, p, r)
    BY GtRestType, GtRestReads
<1> HIDE DEF r
<1>2. \/ r.at = p.at /\ r.cur = p.cur
      \/ r.at \in 1..Len(s) /\ Holds(r.cur, s[r.at])
    BY <1>1, ReadsOnHolds
<1>3. RestsOn(s, a, r)
    BY <1>2 DEF RestsOn
<1> QED
    BY <1>3 DEF r

-----------------------------------------------------------------------------
\* One step as MoveBringsCurrent wants it.
Brought ==
    store' = store /\ ircur' # ircur /\ Running' /\ ircur' \in 1..nobs => CurrentInCur'

\* A position that a command rests on, moved to.
LEMMA MoveHolds ==
    ASSUME StoreInv, UNCHANGED store, NEW p, MoveTo(p), RestsOn(Sched, ircur, p)
    PROVE  Brought
<1> SUFFICES ASSUME ircur' # ircur, ircur' \in 1..nobs
             PROVE  CurrentInCur'
    BY DEF Brought
<1>1. rec' = rec /\ index' = index /\ ircur' = p.at /\ cur' = p.cur
    BY DEF store, MoveTo
<1>2. Len(Sched) = nobs
    BY SchedType
<1>3. Holds(p.cur, Sched[p.at])
    BY <1>1, <1>2 DEF RestsOn
<1>4. Sched[p.at] = rec[index[p.at]]
    BY <1>1 DEF Sched
<1>5. Holds(cur', rec'[index'[ircur']])
    BY <1>1, <1>3, <1>4
<1> QED
    BY <1>5 DEF Holds, CurrentInCur

\* A listing goes on from the scan it started with, or from where the cursor is.
LEMMA ListOnHolds ==
    ASSUME StoreInv, nobs > 0, NEW p \in PosType, RestsOn(Sched, ircur, p),
           NEW range, range.n \in Int, range.en \in Int, NEW count \in {0, 1},
           ListOn(p, range, count)
    PROVE  Brought
<1>1. Sched \in Seq(Scan) /\ Sched # << >>
    BY PositionType
<1>2. PICK q \in {p, GtRest(Sched, p, range, count)} : MoveTo(q)
    BY DEF ListOn
<1>3. RestsOn(Sched, ircur, GtRest(Sched, p, range, count))
    BY <1>1, GtRestRests
<1>4. UNCHANGED store
    BY DEF ListOn
<1> QED
    BY <1>2, <1>3, <1>4, MoveHolds

LEMMA ListHolds ==
    ASSUME StoreInv, NEW range \in Ranges, List(range)
    PROVE  Brought
<1> DEFINE from == [Position EXCEPT !.go = 0]
<1>1. range.n \in Int /\ range.en \in Int /\ range.st \in Int
    BY RangeTypes
<1>2. nobs > 0
    BY DEF List
<1>3. from \in PosType /\ from.at = ircur
    BY <1>2, PositionType
<1>4. \/ ircur' = ircur
      \/ ~ReadsUnset(from, range.st) /\ ListOn(GtFirst(from, range.st), range, 1)
    BY DEF List
<1> HIDE DEF from
<1>5. CASE ircur' = ircur
    BY <1>5 DEF Brought
<1>6. CASE ~ReadsUnset(from, range.st) /\ ListOn(GtFirst(from, range.st), range, 1)
  <2>1. GtFirst(from, range.st) \in PosType /\ RestsOn(Sched, ircur, GtFirst(from, range.st))
    BY <1>1, <1>2, <1>3, <1>6, GtFirstTypes, GtFirstRests
  <2> QED
    BY <1>1, <1>2, <1>6, <2>1, ListOnHolds
<1> QED
    BY <1>4, <1>5, <1>6

\* NEXT and BACK ask for a place.
LEMMA PlaceHolds ==
    ASSUME StoreInv, nobs > 0, NEW go \in Nat \ {0},
           NEW range, range.n \in Int, range.en \in Int,
           ListOn(GtStart(Sched, [Position EXCEPT !.go = go], StartTime, FALSE), range, 1)
    PROVE  Brought
<1> DEFINE from == [Position EXCEPT !.go = go]
           p    == GtStart(Sched, from, StartTime, FALSE)
<1>1. Sched \in Seq(Scan) /\ Sched # << >>
    BY PositionType
<1>2. from \in PosType /\ from.at = ircur /\ from.go > 0
    BY PositionType
<1>3. p \in PosType
    BY StartTypes, TimesAreIntegers
<1>4. ListOn(p, range, 1)
    OBVIOUS
<1> HIDE DEF from
<1>5. RestsOn(Sched, ircur, p)
  <2>1. RestsOn(Sched, from.at, p)
    BY <1>1, <1>2, GtStartRests, TimesAreIntegers
  <2> QED
    BY <1>2, <2>1
<1> HIDE DEF p
<1> QED
    BY <1>3, <1>4, <1>5, ListOnHolds

LEMMA NextBackHolds ==
    ASSUME StoreInv, NEW n \in Counts,
           BackScans(n) \/ \E en \in Endings(n) : NextScans(n, en)
    PROVE  Brought
<1>1. CASE BackScans(n)
  <2>1. Count(1, StartTime).n \in Int /\ Count(1, StartTime).en \in Int
    BY TimesAreIntegers DEF Count
  <2>2. PlaceBack(n) \in Nat \ {0}
    BY CountTypes
  <2>3. nobs > 0 /\ ListOn(GtStart(Sched, [Position EXCEPT !.go = PlaceBack(n)], StartTime, FALSE),
                           Count(1, StartTime), 1)
    BY <1>1 DEF BackScans
  <2> QED
    BY <2>1, <2>2, <2>3, PlaceHolds
<1>2. ASSUME NEW en \in Endings(n), NextScans(n, en)
      PROVE  Brought
  <2>1. Count(n, en).n \in Int /\ Count(n, en).en \in Int
    BY CountTypes DEF Count
  <2>2. ircur + 1 \in Nat \ {0}
    BY DEF StoreInv, TypeOK
  <2>3. nobs > 0 /\ ListOn(GtStart(Sched, [Position EXCEPT !.go = ircur + 1], StartTime, FALSE),
                           Count(n, en), 1)
    BY <1>2 DEF NextScans
  <2> QED
    BY <2>1, <2>2, <2>3, PlaceHolds
<1> QED
    BY <1>1, <1>2

\* Where PREVIOUS goes with a count that is not negative, from a place in the
\* schedule: back, but by one scan less than it then reads.
LEMMA PreviousReads ==
    ASSUME StoreInv, nobs > 0, ircur <= nobs, NEW n \in Counts, n >= 0
    PROVE  /\ PlaceBack(n) - 1 \in Nat /\ PlaceBack(n) - 1 < nobs
           /\ PlaceBack(n) - 1 <= ircur
           /\ Lesser(ircur, n) + 1 > 0
           /\ PlaceBack(n) - 1 + Lesser(ircur, n) + 1 >= ircur
<1>1. n \in Int /\ ircur \in Nat /\ nobs \in Nat
    BY CountTypes, SchedType DEF StoreInv, TypeOK
<1> QED
    BY <1>1 DEF PlaceBack, Lesser, Greater

\* So it reads at least one scan.
LEMMA PreviousHolds ==
    ASSUME StoreInv, NEW n \in Counts, NEW en \in Endings(n), PreviousScans(n, en),
           n >= 0, ircur <= nobs
    PROVE  Brought
<1>1. PICK from, range :
         /\ from.at = PlaceBack(n) - 1 /\ from.cur = cur /\ from.go = 0
         /\ range.n = Lesser(ircur, n) + 1 /\ range.n \in Int /\ range.en \in Int
         /\ MoveTo(GtRest(Sched, from, range, 0)) /\ UNCHANGED <<store, status>>
         /\ nobs > 0 => from \in PosType
         /\ nobs = 0 => cur' = cur
    BY PreviousPlace
<1>2. nobs \in Nat
    BY SchedType
<1>3. CASE nobs > 0
  <2> DEFINE to == GtRest(Sched, from, range, 0)
  <2>1. Sched \in Seq(Scan) /\ Sched # << >> /\ Len(Sched) = nobs /\ from \in PosType
    BY <1>1, <1>3, PositionType
  <2>2. from.at < Len(Sched) /\ range.n > 0
    BY <1>1, <1>3, <2>1, PreviousReads
  <2>3. to \in PosType /\ ReadsOn(Sched, from, to) /\ to.at > from.at
    BY <1>1, <2>1, <2>2, GtRestType, GtRestReads
  <2>4. MoveTo(to)
    BY <1>1
  <2> HIDE DEF to
  <2>5. to.at # from.at
    BY <2>1, <2>3 DEF PosType
  <2>6. RestsOn(Sched, ircur, to)
    BY <2>1, <2>3, <2>5, ReadsOnHolds DEF RestsOn
  <2> QED
    BY <1>1, <2>4, <2>6, MoveHolds
<1>4. CASE ~(nobs > 0)
  <2>1. 1..nobs = {}
    BY <1>2, <1>4
  <2> QED
    BY <2>1 DEF Brought
<1> QED
    BY <1>3, <1>4

\* WC asks for the place it is at.
LEMMA WriteContinueHolds ==
    ASSUME StoreInv, WriteContinue
    PROVE  Brought
<1> DEFINE checked == [at |-> ircur, go |-> ircur, cur |-> UnpakRange(cur, Sched, 1, nobs)]
<1>1. nobs > 0 /\ UNCHANGED store
    BY DEF WriteContinue
<1>2. Sched \in Seq(Scan) /\ Sched # << >> /\ Len(Sched) = nobs /\ nobs \in Nat
      /\ cur \in FullCur /\ ircur \in Nat
    BY <1>1, PositionType
<1>3. UnpakRange(cur, Sched, 1, nobs) \in FullCur
  <2>1. nobs \in 0..Len(Sched) /\ 1 \in Nat \ {0}
    BY <1>2
  <2> QED
    BY <1>2, <2>1, UnpakRangeType
<1>4. checked \in PosType /\ checked.at = ircur /\ checked.go = ircur
    BY <1>2, <1>3 DEF PosType
<1>5. (\E time \in Instants : MoveTo(GtStart(Sched, checked, time, FALSE)))
         \/ MoveTo([checked EXCEPT !.go = irecgo])
    BY DEF WriteContinue
<1>6. [checked EXCEPT !.go = irecgo].at = ircur
    OBVIOUS
<1> HIDE DEF checked
<1>7. CASE \E time \in Instants : MoveTo(GtStart(Sched, checked, time, FALSE))
  <2>1. PICK time \in Instants : MoveTo(GtStart(Sched, checked, time, FALSE))
    BY <1>7
  <2>2. time \in Int /\ (checked.go > 0 \/ checked.at <= Len(Sched))
    BY <1>2, <1>4, TimesAreIntegers DEF Instants
  <2>3. RestsOn(Sched, checked.at, GtStart(Sched, checked, time, FALSE))
    <3>1. CASE checked.go > 0
      BY <1>2, <1>4, <2>2, <3>1, GtStartRests
    <3>2. CASE checked.at <= Len(Sched)
      BY <1>2, <1>4, <2>2, <3>2, GtStartRests
    <3> QED
      BY <2>2, <3>1, <3>2
  <2>4. RestsOn(Sched, ircur, GtStart(Sched, checked, time, FALSE))
    BY <1>4, <2>3
  <2> QED
    BY <1>1, <2>1, <2>4, MoveHolds
<1>8. CASE MoveTo([checked EXCEPT !.go = irecgo])
    BY <1>6, <1>8 DEF MoveTo, Brought
<1> QED
    BY <1>5, <1>7, <1>8

\* DELCM reads what is left from the start; if that is all there was, the cursor
\* may have moved.
LEMMA DeleteHolds ==
    ASSUME StoreInv, NEW range \in Ranges, Delete(range)
    PROVE  Brought
<1> SUFFICES ASSUME store' = store, ircur' # ircur, ircur' \in 1..nobs
             PROVE  CurrentInCur'
    BY DEF Brought
<1>1. PICK k \in Nat, n \in Nat \ {0}, back \in Nat \ {0}, first \in PosType :
              \/ status' = "failed" /\ UNCHANGED <<store, ircur, irecgo, cur>>
              \/ /\ k - 1 <= Len(iskrec)
                 /\ BlockTaken(k, n, first, back, range.st)
              \/ ClearAll /\ irecgo' = back
    BY DeleteShapes
<1>2. ~ClearAll
    BY DEF ClearAll
<1>3. k - 1 <= Len(iskrec) /\ BlockTaken(k, n, first, back, range.st)
    BY <1>1, <1>2
<1> DEFINE left == Without(k, n)
           from == [first EXCEPT !.go = back]
           to   == GtStart(ScansLeft(left), from, range.st, TRUE)
<1>4. ScanList(left, rec)
    BY <1>3, LeftTypes
<1>5. left # << >> /\ index' = left /\ MoveTo(to)
    BY <1>3 DEF BlockTaken
<1>6. from \in PosType
    BY DEF PosType
<1> HIDE DEF left, from
<1>7. ScansLeft(left) \in Seq(Scan) /\ ScansLeft(left) # << >>
      /\ Len(ScansLeft(left)) = Len(left)
    BY <1>4, <1>5, ScansOf, EmptySeq DEF ScansLeft, ScanList
<1>8. ScansLeft(left) = Sched /\ Len(left) = nobs
    BY <1>5 DEF ScansLeft, Sched, nobs, store
<1>9. RestsOn(Sched, 0, to)
    BY <1>6, <1>7, <1>8, RangeTypes, GtStartRests
<1> HIDE DEF to
<1>10. Holds(to.cur, Sched[to.at]) /\ to.at \in 1..nobs
    BY <1>5, <1>7, <1>8, <1>9 DEF RestsOn, MoveTo
<1>11. Holds(cur', rec'[index'[ircur']])
  <2>1. Sched[to.at] = rec[index[to.at]]
    BY <1>10 DEF Sched
  <2>2. rec' = rec /\ index' = index /\ ircur' = to.at /\ cur' = to.cur
    BY <1>5 DEF store, MoveTo
  <2> QED
    BY <1>10, <2>1, <2>2
<1> QED
    BY <1>11 DEF Holds, CurrentInCur

\* The other edits change the store, or leave the cursor, or empty the schedule.
LEMMA EditHolds ==
    ASSUME StoreInv,
           \/ \E x \in Scan : Insert(x) \/ InsertBehind(x)
           \/ \E y \in Edits : Modify(y)
           \/ DeleteAll
    PROVE  Brought
<1> SUFFICES ASSUME store' = store, ircur' # ircur, ircur' \in 1..nobs
             PROVE  FALSE
    BY DEF Brought
<1>1. nobs \in Nat /\ nobs' = nobs /\ nxtrec \in Nat
    BY SchedType, ConstantTypes DEF store, nobs, StoreInv, TypeOK
<1>2. ASSUME NEW x \in Scan, Insert(x)
      PROVE  FALSE
  <2>1. nobs < MaxObs /\ nxtrec <= MaxObs
    BY <1>2 DEF Insert
  <2>2. Len(index') = nobs + 1
    BY <1>2, <2>1, InsertEffect
  <2> QED
    BY <1>1, <2>2 DEF nobs
<1>3. ASSUME NEW x \in Scan, InsertBehind(x)
      PROVE  FALSE
  <2>1. nxtrec' = nxtrec + 1
    BY <1>3 DEF InsertBehind
  <2> QED
    BY <1>1, <2>1 DEF store
<1>4. ASSUME NEW y \in Edits, Modify(y)
      PROVE  FALSE
    BY <1>4 DEF Modify
<1>5. ASSUME DeleteAll
      PROVE  FALSE
    BY <1>5 DEF DeleteAll, ClearAll
<1> QED
    BY <1>2, <1>3, <1>4, <1>5

LEMMA NextHolds == StoreInv /\ Next => Brought \/ Strays
<1> SUFFICES ASSUME StoreInv, Next, ~Strays
             PROVE  Brought
    OBVIOUS
<1>1. CASE \E range \in Ranges : Delete(range) \/ List(range)
    BY <1>1, DeleteHolds, ListHolds
<1>2. CASE \E n \in Counts : BackScans(n) \/ \E en \in Endings(n) : NextScans(n, en)
    BY <1>2, NextBackHolds
<1>3. CASE \E n \in Counts : \E en \in Endings(n) : PreviousScans(n, en)
  <2>1. PICK n \in Counts : \E en \in Endings(n) : PreviousScans(n, en)
    BY <1>3
  <2>2. PICK en \in Endings(n) : PreviousScans(n, en)
    BY <2>1
  <2>3. ~(n < 0 \/ ircur > nobs)
    BY <2>2 DEF Strays
  <2>4. n \in Int /\ ircur \in Nat /\ nobs \in Nat
    BY CountTypes, SchedType DEF StoreInv, TypeOK
  <2>5. n >= 0 /\ ircur <= nobs
    BY <2>3, <2>4
  <2> QED
    BY <2>2, <2>5, PreviousHolds
<1>4. CASE ListNothing
    BY <1>4 DEF ListNothing, Brought
<1>5. CASE WriteContinue
    BY <1>5, WriteContinueHolds
<1> QED
    BY <1>1, <1>2, <1>3, <1>4, <1>5, EditHolds DEF Next

\* Whatever way a listing command moves the cursor onto a scan, that scan is then
\* in CUR: GTOBS reads every scan it passes, and what it reads last is where it
\* stays.  PREVIOUS with a negative count, or from behind the last scan, is the
\* one way to come to a scan that has not been read.
THEOREM MovesBringCurrent == Spec => MoveBringsCurrent
<1>1. StoreInv /\ [Next]_vars => StoreInv'
    BY NextTypes
<1>2. StoreInv /\ [Next]_vars =>
        [store' = store /\ ircur' # ircur /\ Running' /\ ircur' \in 1..nobs
           => CurrentInCur' \/ Strays]_vars
    BY NextHolds DEF Brought
<1> QED
    BY <1>1, <1>2, InitTypes, PTL DEF Spec, MoveBringsCurrent

-----------------------------------------------------------------------------
(***************************************************************************)
(* The stations up to date: reading on from a place where every station is *)
(* where its last scan left it comes to a place where that is so again,    *)
(* and after a rewind it is so in front of the first scan.                 *)
(***************************************************************************)
\* The i-th scan of s is the last of station m among the first b.
LastAt(m, s, i, b) ==
    m \in Members(s[i].sta) /\ \A j \in (i + 1)..b : m \notin Members(s[j].sta)

\* The first b scans of s have left station m where c has it.
Stands(m, s, b, c) ==
    \/ /\ \A i \in 1..b : m \notin Members(s[i].sta)
       /\ c.t[m] = StartTime /\ c.src[m] \notin Sources
    \/ \E i \in 1..b : LastAt(m, s, i, b) /\ c.t[m] = s[i].t /\ c.src[m] = s[i].src

AllStand(s, b, c) == \A m \in Stations : Stands(m, s, b, c)

\* The same, with the last scan chosen among those of the station.
StandsByChoice(m, s, b, c) ==
    LET mine == {i \in 1..b : m \in Members(s[i].sta)}
        last == s[CHOOSE i \in mine : \A j \in mine : j <= i]
    IN  IF mine = {} THEN c.t[m] = StartTime /\ c.src[m] \notin Sources
        ELSE c.t[m] = last.t /\ c.src[m] = last.src

\* What is chosen is the last.
LEMMA ChoiceIsLast ==
    ASSUME NEW m, NEW s, NEW b \in Nat, NEW c
    PROVE  StandsByChoice(m, s, b, c) <=> Stands(m, s, b, c)
<1> DEFINE mine == {i \in 1..b : m \in Members(s[i].sta)}
           latest == CHOOSE i \in mine : \A j \in mine : j <= i
           last == LastOf(m, s, 1, b)
<1>1. CASE mine = {}
  <2>1. \A i \in 1..b : m \notin Members(s[i].sta)
    BY <1>1
  <2>2. ~ \E i \in 1..b : LastAt(m, s, i, b)
    BY <2>1 DEF LastAt
  <2> HIDE DEF mine
  <2>3. StandsByChoice(m, s, b, c) <=> c.t[m] = StartTime /\ c.src[m] \notin Sources
    BY <1>1 DEF StandsByChoice, mine
  <2> QED
    BY <2>1, <2>2, <2>3 DEF Stands
<1>2. CASE mine # {}
  <2>1. \E i \in 1..b : m \in Members(s[i].sta)
    BY <1>2
  <2>2. /\ last \in 1..b /\ m \in Members(s[last].sta)
        /\ \A j \in (last + 1)..b : m \notin Members(s[j].sta)
    BY <2>1, LastOfType
  <2> HIDE DEF last
  <2>3. last \in mine /\ \A j \in mine : j <= last
    BY <2>2
  <2>4. mine \subseteq Int
    OBVIOUS
  <2>5. StandsByChoice(m, s, b, c) <=> c.t[m] = s[latest].t /\ c.src[m] = s[latest].src
    BY <1>2 DEF StandsByChoice
  <2>6. Stands(m, s, b, c) <=> c.t[m] = s[last].t /\ c.src[m] = s[last].src
    <3>1. LastAt(m, s, last, b)
      BY <2>2 DEF LastAt
    <3>2. ASSUME NEW i \in 1..b, LastAt(m, s, i, b)
          PROVE  i = last
      BY <2>2, <3>2 DEF LastAt
    <3> QED
      BY <2>1, <2>2, <3>1, <3>2 DEF Stands
  <2> HIDE DEF mine
  <2>7. latest \in mine /\ \A j \in mine : j <= latest
    BY <2>3
  <2> HIDE DEF latest
  <2>8. latest = last
    BY <2>3, <2>4, <2>7
  <2> QED
    BY <2>5, <2>6, <2>8
<1> QED
    BY <1>1, <1>2

\* SubnetUpToDate says that all stand at the cursor, before a step and after it.
LEMMA UpToDateIs ==
    /\ ircur \in Nat => (SubnetUpToDate <=> ircur <= nobs /\ AllStand(Sched, ircur, cur))
    /\ ircur' \in Nat =>
          (SubnetUpToDate' <=> ircur' <= nobs' /\ AllStand(Sched', ircur', cur'))
<1>1. /\ SubnetUpToDate
           <=> ircur <= nobs /\ \A m \in Stations : StandsByChoice(m, Sched, ircur, cur)
      /\ SubnetUpToDate'
           <=> ircur' <= nobs' /\ \A m \in Stations : StandsByChoice(m, Sched', ircur', cur')
    BY Zenon DEF SubnetUpToDate, StandsByChoice
<1> QED
    BY <1>1, ChoiceIsLast DEF AllStand

\* UNPAK of all scans from one that is not beyond the next.
LEMMA RangeStands ==
    ASSUME NEW c, NEW s, NEW a \in Nat \ {0}, NEW k \in Nat, NEW b \in Nat,
           a - 1 <= k, k <= b, a <= b, AllStand(s, k, c)
    PROVE  AllStand(s, b, UnpakRange(c, s, a, b))
<1> DEFINE Seen(n) == \E i \in a..b : n \in Members(s[i].sta)
           Latest(n) == s[LastOf(n, s, a, b)]
           r == UnpakRange(c, s, a, b)
<1> SUFFICES ASSUME NEW m \in Stations
             PROVE  Stands(m, s, b, r)
    BY DEF AllStand
<1>1. /\ r.t = [n \in Stations |-> IF Seen(n) THEN Latest(n).t ELSE c.t[n]]
      /\ r.src = [n \in Stations |-> IF Seen(n) THEN Latest(n).src ELSE c.src[n]]
    BY DEF UnpakRange
<1> HIDE DEF r
<1>2. CASE Seen(m)
  <2> DEFINE i == LastOf(m, s, a, b)
  <2>1. i \in a..b /\ m \in Members(s[i].sta)
        /\ \A j \in (i + 1)..b : m \notin Members(s[j].sta)
    BY <1>2, LastOfType
  <2>2. r.t[m] = s[i].t /\ r.src[m] = s[i].src
    BY <1>1, <1>2
  <2> HIDE DEF i, Seen, Latest
  <2>3. i \in 1..b /\ LastAt(m, s, i, b)
    BY <2>1 DEF LastAt
  <2> QED
    BY <2>2, <2>3 DEF Stands
<1>3. CASE ~Seen(m)
  <2>1. r.t[m] = c.t[m] /\ r.src[m] = c.src[m]
    BY <1>1, <1>3
  <2>2. \A i \in a..b : m \notin Members(s[i].sta)
    BY <1>3
  <2> HIDE DEF Seen, Latest
  <2>3. CASE /\ \A i \in 1..k : m \notin Members(s[i].sta)
             /\ c.t[m] = StartTime /\ c.src[m] \notin Sources
    <3>1. \A i \in 1..b : m \notin Members(s[i].sta)
      BY <2>2, <2>3
    <3> QED
      BY <2>1, <2>3, <3>1 DEF Stands
  <2>4. ASSUME NEW i \in 1..k, LastAt(m, s, i, k), c.t[m] = s[i].t, c.src[m] = s[i].src
        PROVE  Stands(m, s, b, r)
    <3>1. i \in 1..b /\ LastAt(m, s, i, b)
      BY <2>2, <2>4 DEF LastAt
    <3> QED
      BY <2>1, <2>4, <3>1 DEF Stands
  <2>5. Stands(m, s, k, c)
    BY DEF AllStand
  <2> QED
    BY <2>3, <2>4, <2>5 DEF Stands
<1> QED
    BY <1>2, <1>3

\* Nobody has been scheduled when the variables have been rewound.
LEMMA RewoundStands ==
    ASSUME NEW s, NEW p \in PosType
    PROVE  AllStand(s, Rewind(p).at, Rewind(p).cur)
<1>1. Rewind(p).at = 0 /\ Rewind(p).cur = RewoundCur(p.cur.sta)
    BY DEF Rewind, PosType
<1>2. ASSUME NEW m \in Stations
      PROVE  /\ RewoundCur(p.cur.sta).t[m] = StartTime
             /\ RewoundCur(p.cur.sta).src[m] \notin Sources
    BY <1>2, NoSource DEF RewoundCur
<1> QED
    BY <1>1, <1>2 DEF AllStand, Stands

\* GTOBS goes on reading from the place it is at.
LEMMA ReadsOnStands ==
    ASSUME NEW s \in Seq(Scan), s # << >>, NEW p \in PosType, NEW r \in PosType,
           p.at <= Len(s), AllStand(s, p.at, p.cur), ReadsOn(s, p, r)
    PROVE  r.at <= Len(s) /\ AllStand(s, r.at, r.cur)
<1>1. p.at \in Nat /\ r.at \in Nat /\ Len(s) \in Nat \ {0}
    BY EmptySeq DEF PosType
<1>2. CASE r.at = p.at /\ r.cur = p.cur
    BY <1>2
<1>3. CASE /\ p.at < r.at /\ r.at <= Len(s)
           /\ r.cur = UnpakRange(p.cur, s, p.at + 1, r.at)
  <2>1. p.at + 1 \in Nat \ {0} /\ p.at + 1 - 1 <= p.at /\ p.at <= r.at /\ p.at + 1 <= r.at
    BY <1>1, <1>3
  <2>2. AllStand(s, r.at, UnpakRange(p.cur, s, p.at + 1, r.at))
    BY <1>1, <2>1, RangeStands
  <2> QED
    BY <1>3, <2>2
<1>4. CASE /\ r.at = p.at /\ r.at = Len(s)
           /\ r.cur = UnpakRange(p.cur, s, r.at, r.at)
  <2>1. r.at \in Nat \ {0} /\ r.at - 1 <= p.at /\ p.at <= r.at /\ r.at <= r.at
    BY <1>1, <1>4
  <2>2. AllStand(s, r.at, UnpakRange(p.cur, s, r.at, r.at))
    BY <1>1, <2>1, RangeStands
  <2> QED
    BY <1>1, <1>4, <2>2
<1> QED
    BY <1>1, <1>2, <1>3, <1>4 DEF ReadsOn

\* The first call of GTOBS goes on from where it is, or rewinds.
LEMMA GtStartStands ==
    ASSUME NEW s \in Seq(Scan), s # << >>, NEW p \in PosType, NEW time \in Int,
           NEW krwnd \in BOOLEAN,
           krwnd \/ (p.at <= Len(s) /\ AllStand(s, p.at, p.cur))
    PROVE  LET r == GtStart(s, p, time, krwnd)
           IN  r \in PosType /\ r.at <= Len(s) /\ AllStand(s, r.at, r.cur)
<1> DEFINE r == GtStart(s, p, time, krwnd)
<1>1. krwnd \/ p.go > 0 \/ p.at <= Len(s) \/ time <= Instant(p.cur)
    OBVIOUS
<1>2. r \in PosType
    BY <1>1, GtStartType
<1>3. PICK q \in {p, Rewind(p)} : ReadsOn(s, q, r) /\ (krwnd => q = Rewind(p))
    BY <1>1, GtStartReads
<1> HIDE DEF r
<1>4. Rewind(p) \in PosType /\ Rewind(p).at <= Len(s)
      /\ AllStand(s, Rewind(p).at, Rewind(p).cur)
  <2>1. Rewind(p) \in PosType /\ Rewind(p).at = 0
    BY RewindType
  <2>2. AllStand(s, Rewind(p).at, Rewind(p).cur)
    BY RewoundStands
  <2>3. Len(s) \in Nat
    BY EmptySeq
  <2> QED
    BY <2>1, <2>2, <2>3
<1>5. q \in PosType /\ q.at <= Len(s) /\ AllStand(s, q.at, q.cur)
  <2>1. CASE q = Rewind(p)
    BY <1>4, <2>1
  <2>2. CASE q # Rewind(p)
    BY <1>3, <2>2
  <2> QED
    BY <2>1, <2>2
<1>6. r.at <= Len(s) /\ AllStand(s, r.at, r.cur)
    BY <1>2, <1>3, <1>5, ReadsOnStands
<1> QED
    BY <1>2, <1>6 DEF r

\* The calls that follow go on.
LEMMA GtRestStands ==
    ASSUME NEW s \in Seq(Scan), s # << >>, NEW p \in PosType,
           p.at <= Len(s), AllStand(s, p.at, p.cur),
           NEW range, range.n \in Int, range.en \in Int, NEW count \in {0, 1}
    PROVE  LET r == GtRest(s, p, range, count)
           IN  r \in PosType /\ r.at <= Len(s) /\ AllStand(s, r.at, r.cur)
<1> DEFINE r == GtRest(s, p, range, count)
<1>1. r \in PosType
    BY GtRestType
<1>2. ReadsOn(s, p, r)
    BY GtRestReads
<1> HIDE DEF r
<1>3. r.at <= Len(s) /\ AllStand(s, r.at, r.cur)
    BY <1>1, <1>2, ReadsOnStands
<1> QED
    BY <1>1, <1>3 DEF r

-----------------------------------------------------------------------------
\* DELCM reads what is left of the schedule from the start up to the cursor.
LEMMA BlockTakenStands ==
    ASSUME StoreInv, NEW k \in Nat, k - 1 <= Len(iskrec), NEW n \in Nat \ {0},
           NEW back \in Nat \ {0}, NEW first \in PosType, NEW st \in Int,
           BlockTaken(k, n, first, back, st)
    PROVE  SubnetUpToDate'
<1> DEFINE left == Without(k, n)
           s    == ScansLeft(left)
           from == [first EXCEPT !.go = back]
           to   == GtStart(s, from, st, TRUE)
<1>1. ScanList(left, rec)
    BY LeftTypes
<1>2. left # << >> /\ index' = left /\ rec' = rec /\ ircur' = to.at /\ cur' = to.cur
    BY DEF BlockTaken, MoveTo
<1>3. from \in PosType
    BY DEF PosType
<1> HIDE DEF left, from
<1>4. s \in Seq(Scan) /\ s # << >> /\ Len(s) = Len(left)
    BY <1>1, <1>2, ScansOf, EmptySeq DEF ScansLeft, ScanList
<1>5. Sched' = s /\ nobs' = Len(s)
    BY <1>2, <1>4 DEF Sched, nobs, ScansLeft
<1> HIDE DEF s
<1>6. to \in PosType /\ to.at <= Len(s) /\ AllStand(s, to.at, to.cur)
    BY <1>3, <1>4, GtStartStands
<1>7. ircur' \in Nat /\ ircur' <= nobs' /\ AllStand(Sched', ircur', cur')
    BY <1>2, <1>5, <1>6 DEF PosType
<1> QED
    BY <1>7, UpToDateIs

\* What does not change the index does not change the number of scans; walks and
\* MODIFY are of this kind.
LEMMA SameIndex ==
    ASSUME \/ \E y \in Edits : Modify(y)
           \/ \E range \in Ranges : List(range)
           \/ \E n \in Counts : \/ BackScans(n)
                                \/ \E en \in Endings(n) : NextScans(n, en) \/ PreviousScans(n, en)
           \/ ListNothing
           \/ WriteContinue
    PROVE  UNCHANGED index
BY Zenon DEF Modify, List, NextScans, BackScans, PreviousScans, ListNothing, WriteContinue,
             ListOn, store

\* An insertion adds a scan, or leaves the index alone.
LEMMA InsertAdds ==
    ASSUME StoreInv, NEW x \in Scan, Insert(x) \/ InsertBehind(x)
    PROVE  nobs' = nobs \/ nobs' = nobs + 1
<1>1. nobs \in Nat /\ MaxObs \in Nat /\ nxtrec \in Nat
    BY SchedType, ConstantTypes DEF StoreInv, TypeOK
<1>2. CASE Insert(x) /\ nobs < MaxObs /\ nxtrec <= MaxObs
    BY <1>2, InsertEffect DEF nobs
<1>3. CASE Insert(x) /\ ~(nobs < MaxObs /\ nxtrec <= MaxObs)
  <2>1. UNCHANGED store
    BY <1>3, Zenon DEF Insert
  <2> QED
    BY <2>1 DEF store, nobs
<1>4. CASE InsertBehind(x) /\ status' # "failed"
    BY <1>4, InsertBehindTypes
<1>5. CASE InsertBehind(x) /\ status' = "failed"
  <2>1. UNCHANGED store
    BY <1>5 DEF InsertBehind
  <2> QED
    BY <2>1 DEF store, nobs
<1> QED
    BY <1>2, <1>3, <1>4, <1>5

\* Only DELETE leaves fewer scans, but some.
LEMMA DeleteRefreshes ==
    ASSUME StoreInv, Next, 0 < nobs', nobs' < nobs
    PROVE  SubnetUpToDate'
<1>1. nobs \in Nat
    BY SchedType
<1>2. ~(UNCHANGED index) /\ ~ClearAll /\ ~DeleteAll
    BY <1>1 DEF ClearAll, DeleteAll, nobs
<1>3. ~ \E x \in Scan : Insert(x) \/ InsertBehind(x)
    BY <1>1, InsertAdds
<1>4. PICK range \in Ranges : Delete(range)
    BY <1>2, <1>3, SameIndex DEF Next
<1>5. PICK k \in Nat, n \in Nat \ {0}, back \in Nat \ {0}, first \in PosType :
              \/ UNCHANGED store
              \/ k - 1 <= Len(iskrec) /\ BlockTaken(k, n, first, back, range.st)
              \/ ClearAll
    BY <1>4, DeleteShapes
<1>6. k - 1 <= Len(iskrec) /\ BlockTaken(k, n, first, back, range.st)
    BY <1>2, <1>5 DEF store
<1> QED
    BY <1>6, RangeTypes, BlockTakenStands

\* DELCM reads what is left of the schedule again from the start, so a deletion
\* leaves every station where its last scan up to the cursor put it, whatever
\* CUR held before and wherever the cursor was.
THEOREM DeletionsRefreshSubnets == Spec => DeleteRefreshesSubnets
<1>1. StoreInv /\ [Next]_vars => StoreInv'
    BY NextTypes
<1>2. StoreInv /\ [Next]_vars => [0 < nobs' /\ nobs' < nobs => SubnetUpToDate']_vars
    BY DeleteRefreshes
<1> QED
    BY <1>1, <1>2, InitTypes, PTL DEF Spec, DeleteRefreshesSubnets

-----------------------------------------------------------------------------
(***************************************************************************)
(* A scan added at the end of a schedule never overlaps one of its         *)
(* stations' earlier scans.  newob asks when each station of the new scan  *)
(* is free, and takes the start of its last scan from CUR; when the        *)
(* stations are up to date that is the last scan in the schedule.          *)
(***************************************************************************)
\* The stations of a scan are stations.
LEMMA ScanStations ==
    ASSUME NEW x \in Scan
    PROVE  Members(x.sta) \subseteq Stations /\ x.src \in Sources
<1>1. x.sta \in Seq(Stations)
    BY SubnetsAreLists DEF Scan
<1> QED
    BY <1>1, ElementOfSeq DEF Members, Scan

\* Its time and its source are numbers.
LEMMA ScanNumbers == \A x \in Scan : x.t \in Int /\ x.src \in Nat
<1>1. Times \subseteq Int /\ Sources \subseteq Nat
    BY TimesAreIntegers, SourcesAreRanks DEF Times
<1>2. \A x \in Scan : x.t \in Times /\ x.src \in Sources
    BY DEF Scan
<1> QED
    BY <1>1, <1>2

\* The place of a scan in the grown index before the sort.
LEMMA GrownScans ==
    ASSUME DistinctInv, Sound, NEW x \in Scan, Insert(x), nobs < MaxObs, nxtrec <= MaxObs
    PROVE  \A i \in 1..(nobs + 1) :
              rec'[Grown[i]] = IF i <= ircur THEN Sched[i]
                               ELSE IF i = ircur + 1 THEN x ELSE Sched[i - 1]
<1>1. /\ index \in Seq(1..MaxObs) /\ nobs = Len(index) /\ nobs \in Nat
      /\ nxtrec \in 1..MaxObs
      /\ rec \in [1..MaxObs -> Scan \cup {NoScan}]
      /\ \A i \in 1..nobs : index[i] \in 1..MaxObs /\ index[i] < nxtrec
    BY ConstantTypes, LenProperties, ElementOfSeq
       DEF DistinctInv, StoreInv, TypeOK, RecordsDistinct, nobs
<1>2. rec' = [rec EXCEPT ![nxtrec] = x] /\ ircur <= nobs
    BY InsertEffect DEF DistinctInv
<1>3. ircur \in 0..nobs
    BY <1>1, <1>2 DEF DistinctInv, StoreInv, TypeOK
<1>4. \A i \in 1..(nobs + 1) :
         Grown[i] = IF i <= ircur THEN index[i]
                    ELSE IF i = ircur + 1 THEN nxtrec
                    ELSE index[i - 1]
    BY <1>1, <1>3, GrownType
<1>5. rec'[nxtrec] = x
    BY <1>1, <1>2
<1>6. \A i \in 1..nobs : rec'[index[i]] = Sched[i]
    BY <1>1, <1>2 DEF Sched
<1> SUFFICES ASSUME NEW i \in 1..(nobs + 1)
             PROVE  rec'[Grown[i]] = IF i <= ircur THEN Sched[i]
                                     ELSE IF i = ircur + 1 THEN x ELSE Sched[i - 1]
    OBVIOUS
<1>7. CASE i <= ircur
    BY <1>1, <1>3, <1>4, <1>6, <1>7
<1>8. CASE i = ircur + 1
    BY <1>1, <1>3, <1>4, <1>5, <1>8
<1>9. CASE i > ircur + 1
  <2>1. i - 1 \in 1..nobs /\ Grown[i] = index[i - 1] /\ ~(i <= ircur) /\ i # ircur + 1
    BY <1>1, <1>3, <1>4, <1>9
  <2> QED
    BY <1>6, <2>1
<1> QED
    BY <1>1, <1>3, <1>7, <1>8, <1>9

\* PTOBS sorts the scans up to the cursor with the new one behind them.
LEMMA InsertSorts ==
    ASSUME DistinctInv, Sound, NEW x \in Scan, Insert(x), nobs < MaxObs, nxtrec <= MaxObs
    PROVE  /\ ircur \in 0..nobs /\ ircur' = ircur + 1 /\ nobs' = nobs + 1
           /\ \E s \in [1..(ircur + 1) -> Scan] : \E order \in SortOrders(s, ircur + 1) :
                 /\ \A i \in 1..ircur : s[i] = Sched[i]
                 /\ s[ircur + 1] = x
                 /\ \A k \in 1..(ircur + 1) : /\ order[k] \in 1..(ircur + 1)
                                              /\ Sched'[k] = s[order[k]]
<1> DEFINE n   == ircur + 1
           s   == [i \in 1..n |-> rec'[Grown[i]]]
           all == [i \in 1..(nobs + 1) |-> rec'[Grown[i]]]
<1>1. StoreInv /\ nobs \in Nat /\ nxtrec \in 1..MaxObs /\ index \in Seq(1..MaxObs)
    BY ConstantTypes, SchedType DEF DistinctInv, StoreInv, TypeOK
<1>2. ircur \in 0..nobs /\ ircur' = n /\ Len(index') = nobs + 1
      /\ \A i \in 1..(nobs + 1) : rec'[Grown[i]] \in Scan
    BY <1>1, InsertEffect DEF StoreInv, TypeOK
<1>3. s \in [1..n -> Scan]
    BY <1>1, <1>2
<1>4. (\A i \in 1..ircur : s[i] = Sched[i]) /\ s[n] = x
  <2>1. \A i \in 1..n : s[i] = rec'[Grown[i]] /\ i \in 1..(nobs + 1)
    BY <1>1, <1>2
  <2> HIDE DEF s
  <2> QED
    BY <1>1, <1>2, <2>1, GrownScans
<1>5. PICK order \in SortOrders(all, n) : index' = Reorder(Grown, order)
  <2>1. ~(nobs >= MaxObs) /\ ~(nxtrec > MaxObs)
    BY <1>1, ConstantTypes
  <2> QED
    BY <2>1, Zenon DEF Insert, Grown
<1>6. \A i \in 1..n : all[i] = s[i]
    BY <1>1, <1>2
<1>7. order \in [1..n -> 1..n]
    BY DEF SortOrders
<1>8. order \in SortOrders(s, n)
  <2> HIDE DEF s, all
  <2>1. ASSUME NEW i \in 1..n, NEW j \in 1..n, i < j
        PROVE  Precedes(s, order[i], order[j])
    <3>1. Precedes(all, order[i], order[j])
      BY <2>1 DEF SortOrders
    <3>2. all[order[i]] = s[order[i]] /\ all[order[j]] = s[order[j]]
      BY <1>6, <1>7
    <3> QED
      BY <3>1, <3>2 DEF Precedes
  <2> QED
    BY <1>7, <2>1 DEF SortOrders
<1>9. \A k \in 1..n : order[k] \in 1..n /\ Sched'[k] = s[order[k]]
  <2>1. Len(Grown) = nobs + 1
    BY <1>1, <1>2, GrownType
  <2>2. index' = [k \in 1..(nobs + 1) |-> IF k \in 1..n THEN Grown[order[k]] ELSE Grown[k]]
    BY <1>5, <1>7, <2>1 DEF Reorder
  <2>3. \A k \in 1..(nobs + 1) : Sched'[k] = rec'[index'[k]]
    BY <1>2 DEF Sched, nobs
  <2> QED
    BY <1>1, <1>2, <1>7, <2>2, <2>3
<1>10. nobs' = nobs + 1
    BY <1>2 DEF nobs
<1> HIDE DEF s
<1> QED
    BY <1>2, <1>3, <1>4, <1>8, <1>9, <1>10

\* The new scan starts after every scan of its stations up to the cursor.
LEMMA StartsAfter ==
    ASSUME StoreInv, SubnetUpToDate, StationsInOrder, NEW x \in Scan, CanStart(x),
           NEW i \in 1..ircur, Members(Sched[i].sta) \cap Members(x.sta) # {}
    PROVE  Sched[i].t < x.t
<1>1. PICK m \in Members(x.sta) : m \in Members(Sched[i].sta)
    OBVIOUS
<1>2. /\ ircur \in Nat /\ nobs \in Nat /\ Sched \in Seq(Scan) /\ Len(Sched) = nobs
    BY SchedType DEF StoreInv, TypeOK
<1>3. m \in Stations
    BY <1>1, ScanStations
<1>4. ircur <= nobs /\ Stands(m, Sched, ircur, cur)
    BY <1>2, <1>3, UpToDateIs DEF AllStand
<1>5. PICK last \in 1..ircur : /\ LastAt(m, Sched, last, ircur)
                               /\ cur.t[m] = Sched[last].t /\ cur.src[m] = Sched[last].src
    BY <1>1, <1>4 DEF Stands
<1>6. Sched[i] \in Scan /\ Sched[last] \in Scan
    BY <1>2, <1>4, ElementOfSeq
<1>7. Sched[i].t \in Int /\ Sched[last].t \in Int /\ x.t \in Int /\ cur.src[m] \in Sources
    BY <1>5, <1>6, ScanNumbers, ScanStations
<1>8. Sched[last].t < x.t
    BY <1>1, <1>5, <1>7 DEF CanStart
<1>9. CASE i = last
    BY <1>8, <1>9
<1>10. CASE i # last
  <2>1. i < last /\ i \in 1..nobs /\ last \in 1..nobs
    BY <1>1, <1>2, <1>4, <1>5, <1>10 DEF LastAt
  <2>2. Members(Sched[i].sta) \cap Members(Sched[last].sta) # {}
    BY <1>1, <1>5 DEF LastAt
  <2>3. Sched[i].t < Sched[last].t
    BY <2>1, <2>2, Zenon DEF StationsInOrder
  <2> QED
    BY <1>7, <1>8, <2>3
<1> QED
    BY <1>9, <1>10

\* Sorting scans of which no two of a station start together leaves the scans
\* of a station one after another.
LEMMA SortSeparates ==
    ASSUME NEW n \in Nat, NEW s \in [1..n -> Scan], NEW order \in SortOrders(s, n),
           \A i, j \in 1..n :
               i < j /\ Members(s[i].sta) \cap Members(s[j].sta) # {} => s[i].t < s[j].t
    PROVE  \A i, j \in 1..n :
               i < j /\ Members(s[order[i]].sta) \cap Members(s[order[j]].sta) # {}
                   => s[order[i]].t < s[order[j]].t
<1> SUFFICES ASSUME NEW i \in 1..n, NEW j \in 1..n, i < j,
                    Members(s[order[i]].sta) \cap Members(s[order[j]].sta) # {}
             PROVE  s[order[i]].t < s[order[j]].t
    OBVIOUS
<1>1. order[i] \in 1..n /\ order[j] \in 1..n /\ Precedes(s, order[i], order[j])
    BY DEF SortOrders
<1> DEFINE a == order[i]
           b == order[j]
<1> HIDE DEF a, b
<1>2. a \in 1..n /\ b \in 1..n /\ Precedes(s, a, b)
      /\ Members(s[a].sta) \cap Members(s[b].sta) # {}
    BY <1>1 DEF a, b
<1>3. s[a].t \in Int /\ s[b].t \in Int /\ s[a].src \in Nat /\ s[b].src \in Nat
  <2>1. s[a] \in Scan /\ s[b] \in Scan
    BY <1>2
  <2> QED
    BY <2>1, ScanNumbers
<1>4. a # b
    BY <1>2, <1>3 DEF Precedes
<1>5. s[a].t # s[b].t
  <2>1. CASE a < b
    <3>1. s[a].t < s[b].t
      BY <1>2, <2>1, Zenon
    <3> QED
      BY <1>3, <3>1
  <2>2. CASE b < a
    <3>1. Members(s[b].sta) \cap Members(s[a].sta) # {}
      BY <1>2
    <3>2. s[b].t < s[a].t
      BY <1>2, <2>2, <3>1, Zenon
    <3> QED
      BY <1>3, <3>2
  <2>3. a < b \/ b < a
    BY <1>2, <1>4
  <2> QED
    BY <2>1, <2>2, <2>3
<1>6. s[a].t < s[b].t
    BY <1>2, <1>5 DEF Precedes
<1> QED
    BY <1>6 DEF a, b

\* Inserted into stations up to date, the new scan and those before it are scans
\* of which no two of a station start together, before the sort and after it.
Apart(n, s) ==
    \A i, j \in 1..n :
        i < j /\ Members(s[i].sta) \cap Members(s[j].sta) # {} => s[i].t < s[j].t

LEMMA GrownApart ==
    ASSUME StoreInv, SubnetUpToDate, StationsInOrder, NEW x \in Scan, CanStart(x),
           NEW s, \A i \in 1..ircur : s[i] = Sched[i], s[ircur + 1] = x
    PROVE  Apart(ircur + 1, s)
<1>1. ircur \in Nat /\ nobs \in Nat
    BY SchedType DEF StoreInv, TypeOK
<1>2. ircur <= nobs
    BY DEF SubnetUpToDate
<1> SUFFICES ASSUME NEW i \in 1..(ircur + 1), NEW j \in 1..(ircur + 1), i < j,
                    Members(s[i].sta) \cap Members(s[j].sta) # {}
             PROVE  s[i].t < s[j].t
    BY DEF Apart
<1>3. i \in 1..ircur /\ i \in 1..nobs /\ s[i] = Sched[i]
    BY <1>1, <1>2
<1>4. CASE j \in 1..ircur
  <2>1. j \in 1..nobs /\ s[j] = Sched[j]
    BY <1>1, <1>2, <1>4
  <2>2. Members(Sched[i].sta) \cap Members(Sched[j].sta) # {}
    BY <1>3, <2>1
  <2>3. Sched[i].t < Sched[j].t
    BY <1>3, <2>1, <2>2, Zenon DEF StationsInOrder
  <2> QED
    BY <1>3, <2>1, <2>3
<1>5. CASE j = ircur + 1
  <2>1. Members(Sched[i].sta) \cap Members(x.sta) # {}
    BY <1>3, <1>5
  <2>2. Sched[i].t < x.t
    BY <1>3, <2>1, StartsAfter
  <2> QED
    BY <1>3, <1>5, <2>2
<1> QED
    BY <1>1, <1>4, <1>5

\* Only PTOBS 'IN' adds a scan at the end of the schedule, and it does so when
\* there is room.
LEMMA OnlyInsertAdds ==
    ASSUME StoreInv, Next, nobs' > nobs, ircur <= nobs
    PROVE  \E x \in Scan : Insert(x) /\ nobs < MaxObs /\ nxtrec <= MaxObs
<1>1. nobs \in Nat /\ nxtrec \in Nat /\ MaxObs \in Nat /\ ircur \in Nat
    BY SchedType, ConstantTypes DEF StoreInv, TypeOK
<1>2. ~(UNCHANGED index)
    BY <1>1 DEF nobs
<1>3. ASSUME NEW x \in Scan, Insert(x)
      PROVE  nobs < MaxObs /\ nxtrec <= MaxObs
  <2>1. CASE ~(nobs < MaxObs /\ nxtrec <= MaxObs)
    <3>1. UNCHANGED store
      BY <1>3, <2>1, Zenon DEF Insert
    <3> QED
      BY <1>2, <3>1 DEF store
  <2> QED
    BY <2>1
<1>4. ASSUME NEW x \in Scan, InsertBehind(x)
      PROVE  FALSE
    BY <1>1, <1>4 DEF InsertBehind
<1>5. ~ClearAll /\ ~DeleteAll
    BY <1>1 DEF ClearAll, DeleteAll, nobs
<1>6. ASSUME NEW range \in Ranges, Delete(range)
      PROVE  FALSE
  <2>1. PICK k \in Nat, n \in Nat \ {0}, back \in Nat \ {0}, first \in PosType :
              \/ UNCHANGED store
              \/ /\ k - 1 <= Len(iskrec) /\ (k <= nobs + 1 \/ ircur > nobs)
                 /\ BlockTaken(k, n, first, back, range.st)
              \/ ClearAll
    BY <1>6, DeleteShapes
  <2>2. k <= nobs + 1 /\ k - 1 <= Len(iskrec) /\ index' = Without(k, n)
    <3>1. ~(UNCHANGED store)
      BY <1>2 DEF store
    <3>2. /\ k - 1 <= Len(iskrec) /\ (k <= nobs + 1 \/ ircur > nobs)
          /\ BlockTaken(k, n, first, back, range.st)
      BY <1>5, <2>1, <3>1
    <3> QED
      BY <1>1, <3>2 DEF BlockTaken
  <2>3. Len(Without(k, n)) <= nobs /\ Len(Without(k, n)) \in Nat
    BY <2>2, LeftTypes, LenProperties DEF ScanList
  <2> QED
    BY <1>1, <2>2, <2>3 DEF nobs
<1> QED
    BY <1>2, <1>3, <1>4, <1>5, <1>6, SameIndex DEF Next

\* At the end of the schedule the whole of it is sorted.
LEMMA AppendSeparates ==
    ASSUME DistinctInv, Sound, Next, nobs' > nobs, ircur = nobs, SubnetUpToDate,
           StationsInOrder
    PROVE  StationsInOrder'
<1>1. StoreInv /\ nobs \in Nat
    BY SchedType DEF DistinctInv
<1>2. PICK x \in Scan : Insert(x) /\ nobs < MaxObs /\ nxtrec <= MaxObs
    BY <1>1, OnlyInsertAdds
<1>3. CanStart(x)
    BY <1>2 DEF Insert
<1> DEFINE n == ircur + 1
<1>4. nobs' = n /\ n \in Nat
    BY <1>1, <1>2, InsertSorts
<1>5. PICK s \in [1..n -> Scan] : \E order \in SortOrders(s, n) :
              /\ \A i \in 1..ircur : s[i] = Sched[i]
              /\ s[n] = x
              /\ \A k \in 1..n : order[k] \in 1..n /\ Sched'[k] = s[order[k]]
    BY <1>2, InsertSorts
<1>6. PICK order \in SortOrders(s, n) :
              /\ \A i \in 1..ircur : s[i] = Sched[i]
              /\ s[n] = x
              /\ \A k \in 1..n : order[k] \in 1..n /\ Sched'[k] = s[order[k]]
    BY <1>5
<1>7. Apart(n, s)
    BY <1>1, <1>3, <1>6, GrownApart
<1> HIDE DEF n
<1>8. \A i, j \in 1..n :
          i < j /\ Members(s[order[i]].sta) \cap Members(s[order[j]].sta) # {}
              => s[order[i]].t < s[order[j]].t
  <2>1. \A i, j \in 1..n :
            i < j /\ Members(s[i].sta) \cap Members(s[j].sta) # {} => s[i].t < s[j].t
    BY <1>7 DEF Apart
  <2> QED
    BY <1>4, <2>1, SortSeparates
<1> SUFFICES ASSUME NEW i \in 1..n, NEW j \in 1..n, i < j,
                    Members(Sched'[i].sta) \cap Members(Sched'[j].sta) # {}
             PROVE  Sched'[i].t < Sched'[j].t
    BY <1>4, Zenon DEF StationsInOrder
<1>9. Sched'[i] = s[order[i]] /\ Sched'[j] = s[order[j]]
    BY <1>6
<1>10. Members(s[order[i]].sta) \cap Members(s[order[j]].sta) # {}
    BY <1>9
<1>11. s[order[i]].t < s[order[j]].t
    BY <1>8, <1>10
<1> QED
    BY <1>9, <1>11

\* A scan that newob accepts at the end of a schedule, with the stations up to
\* date, never overlaps an earlier scan of one of its stations, whatever edits,
\* deletions and walks came before; for .skd files, since reading the scans of
\* a VEX file leaves nxtrec at records in use.
THEOREM AppendsNeverOverlap == ASSUME ~VexFile PROVE Spec => AppendNeverOverlaps
<1>1. DistinctInv /\ [Next]_vars => DistinctInv'
    BY NextDistinct
<1>2. DistinctInv /\ [Next]_vars =>
        [Sound /\ nobs' > nobs /\ ircur = nobs /\ SubnetUpToDate /\ StationsInOrder
           => StationsInOrder']_vars
    BY AppendSeparates
<1> QED
    BY <1>1, <1>2, InitDistinct, PTL DEF Spec, AppendNeverOverlaps

-----------------------------------------------------------------------------
(***************************************************************************)
(* Walks, deletions and insertions keep the stations up to date.           *)
(***************************************************************************)
\* The sort keeps all its scans: each comes to some place.
LEMMA SortKeepsAll ==
    ASSUME NEW n \in Nat, NEW s \in [1..n -> Scan], NEW order \in SortOrders(s, n),
           NEW i \in 1..n
    PROVE  \E k \in 1..n : order[k] = i
<1>1. \A j \in 1..n : s[j] \in Scan
    OBVIOUS
<1>2. order \in [1..n -> 1..n] /\ \A a, b \in 1..n : a # b => order[a] # order[b]
    BY <1>1, SortOrderType
<1>3. order \in Injection(1..n, 1..n)
    BY <1>2 DEF Injection, IsInjective
<1>4. IsFiniteSet(1..n)
    BY FS_Interval
<1>5. order \in Surjection(1..n, 1..n)
    BY <1>3, <1>4, FS_Injection
<1> QED
    BY <1>5 DEF Surjection

\* Sorted apart, the last scan of a station is still its last.
LEMMA LastStaysLast ==
    ASSUME NEW n \in Nat, NEW s \in [1..n -> Scan], NEW order \in SortOrders(s, n),
           Apart(n, s), NEW after,
           \A k \in 1..n : order[k] \in 1..n /\ after[k] = s[order[k]],
           NEW m, NEW top \in 1..n, LastAt(m, s, top, n)
    PROVE  \E k \in 1..n : LastAt(m, after, k, n) /\ after[k] = s[top]
<1>1. PICK k \in 1..n : order[k] = top
    BY SortKeepsAll
<1>2. \A i, j \in 1..n :
          i < j /\ Members(s[order[i]].sta) \cap Members(s[order[j]].sta) # {}
              => s[order[i]].t < s[order[j]].t
  <2>1. \A i, j \in 1..n :
            i < j /\ Members(s[i].sta) \cap Members(s[j].sta) # {} => s[i].t < s[j].t
    BY DEF Apart
  <2> QED
    BY <2>1, SortSeparates
<1>3. after[k] = s[top] /\ m \in Members(s[top].sta)
    BY <1>1 DEF LastAt
<1>4. ASSUME NEW j \in (k + 1)..n, m \in Members(after[j].sta)
      PROVE  FALSE
  <2>1. j \in 1..n /\ k < j /\ order[j] \in 1..n /\ m \in Members(s[order[j]].sta)
    BY <1>4
  <2>2. s[top].t < s[order[j]].t
    <3>1. Members(s[order[k]].sta) \cap Members(s[order[j]].sta) # {}
      BY <1>1, <1>3, <2>1
    <3>2. s[order[k]].t < s[order[j]].t
      BY <1>2, <2>1, <3>1
    <3> QED
      BY <1>1, <3>2
  <2>3. s[top].t \in Int /\ s[order[j]].t \in Int
    BY <2>1, ScanNumbers
  <2>4. order[j] <= top
    BY <1>3, <2>1 DEF LastAt
  <2>5. CASE order[j] = top
    BY <2>2, <2>3, <2>5
  <2>6. CASE order[j] < top
    <3>1. Members(s[order[j]].sta) \cap Members(s[top].sta) # {}
      BY <1>3, <2>1
    <3>2. s[order[j]].t < s[top].t
      BY <2>1, <2>6, <3>1, Zenon DEF Apart
    <3> QED
      BY <2>2, <2>3, <3>2
  <2> QED
    BY <2>1, <2>4, <2>5, <2>6
<1>5. LastAt(m, after, k, n)
    BY <1>3, <1>4 DEF LastAt
<1> QED
    BY <1>3, <1>5

\* After an insertion each station is where its last scan up to the cursor put
\* it, wherever the sort moves the new scan.
LEMMA InsertStands ==
    ASSUME DistinctInv, Sound, SubnetUpToDate, StationsInOrder, NEW x \in Scan, Insert(x),
           nobs < MaxObs, nxtrec <= MaxObs
    PROVE  SubnetUpToDate'
<1> DEFINE n == ircur + 1
<1>1. StoreInv /\ CanStart(x) /\ cur' = Unpak(cur, x) /\ cur \in CurType
    BY DEF DistinctInv, Insert, StoreInv, TypeOK
<1>2. nobs \in Nat
    BY <1>1, SchedType
<1>3. ircur \in 0..nobs /\ ircur' = n /\ nobs' = nobs + 1
    BY InsertSorts
<1>4. PICK s \in [1..n -> Scan] : \E order \in SortOrders(s, n) :
              /\ \A i \in 1..ircur : s[i] = Sched[i]
              /\ s[n] = x
              /\ \A k \in 1..n : order[k] \in 1..n /\ Sched'[k] = s[order[k]]
    BY InsertSorts
<1>5. PICK order \in SortOrders(s, n) :
              /\ \A i \in 1..ircur : s[i] = Sched[i]
              /\ s[n] = x
              /\ \A k \in 1..n : order[k] \in 1..n /\ Sched'[k] = s[order[k]]
    BY <1>4
<1>6. Apart(n, s)
    BY <1>1, <1>5, GrownApart
<1>7. AllStand(Sched, ircur, cur)
    BY <1>3, UpToDateIs
<1>8. n \in Nat /\ \A j \in 1..n : j \in 1..ircur \/ j = n
    BY <1>2, <1>3
<1>9. \A j \in 1..ircur : j \in 1..n
    BY <1>2, <1>3
<1>10. n \in 1..n /\ \A j \in (n + 1)..n : FALSE
    BY <1>2, <1>3
<1> HIDE DEF n
<1>11. ASSUME NEW m, NEW top \in 1..n, LastAt(m, s, top, n)
       PROVE  \E k \in 1..n : LastAt(m, Sched', k, n) /\ Sched'[k] = s[top]
  <2> DEFINE after == Sched'
  <2>1. \A k \in 1..n : order[k] \in 1..n /\ after[k] = s[order[k]]
    BY <1>5
  <2> HIDE DEF after
  <2>2. \E k \in 1..n : LastAt(m, after, k, n) /\ after[k] = s[top]
    BY <1>6, <1>8, <1>11, <2>1, LastStaysLast
  <2> QED
    BY <2>2 DEF after
<1>12. ASSUME NEW m \in Stations
       PROVE  Stands(m, Sched', n, cur')
  <2>1. /\ cur'.t[m] = IF m \in Members(x.sta) THEN x.t ELSE cur.t[m]
        /\ cur'.src[m] = IF m \in Members(x.sta) THEN x.src ELSE cur.src[m]
    BY <1>1 DEF Unpak
  <2>2. CASE m \in Members(x.sta)
    <3>1. LastAt(m, s, n, n)
      BY <1>5, <1>10, <2>2 DEF LastAt
    <3> QED
      BY <1>5, <1>10, <1>11, <2>1, <2>2, <3>1 DEF Stands
  <2>3. ASSUME m \notin Members(x.sta), NEW top \in 1..ircur, LastAt(m, Sched, top, ircur),
               cur.t[m] = Sched[top].t, cur.src[m] = Sched[top].src
        PROVE  Stands(m, Sched', n, cur')
    <3>1. top \in 1..n /\ s[top] = Sched[top]
      BY <1>5, <1>9
    <3>2. LastAt(m, s, top, n)
      <4>1. ASSUME NEW j \in (top + 1)..n
            PROVE  m \notin Members(s[j].sta)
        <5>1. j \in 1..n
          BY <1>8, <2>3
        <5>2. CASE j = n
          BY <1>5, <2>3, <5>2
        <5>3. CASE j \in 1..ircur
          <6>1. j \in (top + 1)..ircur
            BY <5>3
          <6> QED
            BY <1>5, <2>3, <5>3, <6>1 DEF LastAt
        <5> QED
          BY <1>8, <5>1, <5>2, <5>3
      <4> QED
        BY <2>3, <3>1, <4>1 DEF LastAt
    <3>3. PICK k \in 1..n : LastAt(m, Sched', k, n) /\ Sched'[k] = s[top]
      BY <1>11, <3>1, <3>2
    <3> QED
      BY <2>1, <2>3, <3>1, <3>3 DEF Stands
  <2>4. CASE /\ m \notin Members(x.sta)
             /\ \A i \in 1..ircur : m \notin Members(Sched[i].sta)
             /\ cur.t[m] = StartTime /\ cur.src[m] \notin Sources
    <3>1. \A j \in 1..n : m \notin Members(s[j].sta)
      BY <1>5, <1>8, <2>4
    <3>2. \A k \in 1..n : m \notin Members(Sched'[k].sta)
      BY <1>5, <3>1
    <3> QED
      BY <2>1, <2>4, <3>2 DEF Stands
  <2>5. Stands(m, Sched, ircur, cur)
    BY <1>7 DEF AllStand
  <2> QED
    BY <2>2, <2>3, <2>4, <2>5 DEF Stands
<1>13. ircur' \in Nat /\ ircur' <= nobs' /\ AllStand(Sched', ircur', cur')
    BY <1>2, <1>3, <1>8, <1>12 DEF AllStand, n
<1> QED
    BY <1>13, UpToDateIs

-----------------------------------------------------------------------------
\* A command that moves to a place where all stand.
LEMMA MoveStands ==
    ASSUME StoreInv, NEW p \in PosType, MoveTo(p), UNCHANGED store, p.at <= nobs,
           AllStand(Sched, p.at, p.cur)
    PROVE  SubnetUpToDate'
<1>1. Sched' = Sched /\ nobs' = nobs
    BY DEF store, Sched, nobs
<1>2. ircur' \in Nat /\ ircur' <= nobs' /\ AllStand(Sched', ircur', cur')
    BY <1>1 DEF MoveTo, PosType
<1> QED
    BY <1>2, UpToDateIs

\* The stations up to date, as the lemmas on GTOBS ask for it.
LEMMA UpToDateStands ==
    ASSUME StoreInv, SubnetUpToDate, nobs > 0
    PROVE  /\ Sched \in Seq(Scan) /\ Sched # << >> /\ Len(Sched) = nobs
           /\ ircur <= nobs /\ AllStand(Sched, ircur, cur)
           /\ \A go \in Nat : LET from == [Position EXCEPT !.go = go]
                              IN  /\ from \in PosType /\ from.at <= nobs
                                  /\ AllStand(Sched, from.at, from.cur)
<1>1. ircur \in Nat
    BY DEF StoreInv, TypeOK
<1>2. ircur <= nobs /\ AllStand(Sched, ircur, cur)
    BY <1>1, UpToDateIs
<1>3. ASSUME NEW go \in Nat
      PROVE  [Position EXCEPT !.go = go].at = ircur /\ [Position EXCEPT !.go = go].cur = cur
    BY DEF Position
<1> QED
    BY <1>2, <1>3, PositionType

\* LIST, NEXT and BACK read on from the cursor, or from the start.
LEMMA ListOnStands ==
    ASSUME StoreInv, SubnetUpToDate, nobs > 0, NEW go \in Nat, NEW time \in Int,
           NEW range, range.n \in Int, range.en \in Int,
           ListOn(GtStart(Sched, [Position EXCEPT !.go = go], time, FALSE), range, 1)
    PROVE  SubnetUpToDate'
<1> DEFINE from == [Position EXCEPT !.go = go]
           p    == GtStart(Sched, from, time, FALSE)
           r    == GtRest(Sched, p, range, 1)
<1>1. /\ Sched \in Seq(Scan) /\ Sched # << >> /\ Len(Sched) = nobs
      /\ from \in PosType /\ from.at <= nobs /\ AllStand(Sched, from.at, from.cur)
    BY UpToDateStands
<1>2. UNCHANGED store /\ (MoveTo(r) \/ MoveTo(p))
    BY DEF ListOn
<1> HIDE DEF from
<1>3. p \in PosType /\ p.at <= nobs /\ AllStand(Sched, p.at, p.cur)
    BY <1>1, GtStartStands
<1> HIDE DEF p
<1>4. r \in PosType /\ r.at <= nobs /\ AllStand(Sched, r.at, r.cur)
    BY <1>1, <1>3, GtRestStands
<1> HIDE DEF r
<1> QED
    BY <1>2, <1>3, <1>4, MoveStands

\* The listing commands that ask GTOBS for a time or a place.
LEMMA ListingsStand ==
    ASSUME StoreInv, SubnetUpToDate,
           \/ \E range \in Ranges : List(range)
           \/ \E n \in Counts : BackScans(n) \/ \E en \in Endings(n) : NextScans(n, en)
    PROVE  SubnetUpToDate'
<1>1. ircur \in Nat /\ nobs \in Nat /\ StartTime \in Int
    BY SchedType, TimesAreIntegers DEF StoreInv, TypeOK
<1>2. ircur <= nobs
    BY DEF SubnetUpToDate
<1>3. ASSUME NEW range \in Ranges, List(range)
      PROVE  SubnetUpToDate'
  <2> DEFINE from == [Position EXCEPT !.go = 0]
  <2>1. nobs > 0
    BY <1>3 DEF List
  <2>2. from.at = ircur
    BY DEF Position
  <2>3. ~ReadsUnset(from, range.st) /\ ~ReadsBehind(from, range.st)
    BY <1>1, <1>2, <2>2 DEF ReadsUnset, ReadsBehind
  <2>4. ListOn(GtFirst(from, range.st), range, 1)
    BY <1>3, <2>3 DEF List
  <2>5. GtFirst(from, range.st) = GtStart(Sched, from, range.st, FALSE)
    BY <2>3 DEF GtFirst
  <2>6. ListOn(GtStart(Sched, from, range.st, FALSE), range, 1)
    BY <2>4, <2>5
  <2>7. range.n \in Int /\ range.en \in Int /\ range.st \in Int /\ 0 \in Nat
    BY RangeTypes
  <2> QED
    BY <2>1, <2>6, <2>7, ListOnStands
<1>4. ASSUME NEW n \in Counts, NEW en \in Endings(n), NextScans(n, en)
      PROVE  SubnetUpToDate'
  <2>1. Count(n, en).n \in Int /\ Count(n, en).en \in Int /\ ircur + 1 \in Nat
    BY <1>1, CountTypes DEF Count
  <2>2. nobs > 0 /\ ListOn(GtStart(Sched, [Position EXCEPT !.go = ircur + 1], StartTime,
                                   FALSE), Count(n, en), 1)
    BY <1>4, Zenon DEF NextScans
  <2> QED
    BY <1>1, <2>1, <2>2, ListOnStands
<1>5. ASSUME NEW n \in Counts, BackScans(n)
      PROVE  SubnetUpToDate'
  <2>1. Count(1, StartTime).n \in Int /\ Count(1, StartTime).en \in Int
        /\ PlaceBack(n) \in Nat
    BY <1>1, CountTypes DEF Count
  <2>2. nobs > 0 /\ ListOn(GtStart(Sched, [Position EXCEPT !.go = PlaceBack(n)], StartTime,
                                   FALSE), Count(1, StartTime), 1)
    BY <1>5, Zenon DEF BackScans
  <2> QED
    BY <1>1, <2>1, <2>2, ListOnStands
<1> QED
    BY <1>3, <1>4, <1>5

\* PREVIOUS goes back without reading, but then reads at least up to the cursor.
LEMMA PreviousStands ==
    ASSUME StoreInv, SubnetUpToDate, NEW n \in Counts, NEW en \in Endings(n),
           PreviousScans(n, en), n >= 0
    PROVE  SubnetUpToDate'
<1>1. PICK from, range :
              /\ from.at = PlaceBack(n) - 1 /\ from.cur = cur /\ from.go = 0
              /\ range.n = Lesser(ircur, n) + 1 /\ range.n \in Int /\ range.en \in Int
              /\ MoveTo(GtRest(Sched, from, range, 0)) /\ UNCHANGED <<store, status>>
              /\ nobs > 0 => from \in PosType
              /\ nobs = 0 => cur' = cur
    BY PreviousPlace
<1>2. ircur \in Nat /\ nobs \in Nat /\ ircur <= nobs /\ n \in Int
    BY SchedType, CountTypes DEF SubnetUpToDate, StoreInv, TypeOK
<1> DEFINE to == GtRest(Sched, from, range, 0)
<1>3. CASE nobs > 0
  <2>1. /\ Sched \in Seq(Scan) /\ Sched # << >> /\ Len(Sched) = nobs
        /\ AllStand(Sched, ircur, cur) /\ from \in PosType
    BY <1>1, <1>3, UpToDateStands
  <2>2. /\ from.at \in Nat /\ from.at < nobs /\ from.at <= ircur
        /\ range.n \in Int /\ range.n > 0 /\ from.at + range.n >= ircur
    <3> DEFINE at == PlaceBack(n) - 1
               many == Lesser(ircur, n)
    <3>1. at \in Nat /\ at < nobs /\ at <= ircur /\ many + 1 > 0 /\ at + many + 1 >= ircur
      BY <1>2, <1>3, PreviousReads
    <3>2. many \in Int
      BY <1>2 DEF Lesser
    <3>3. from.at = at /\ range.n = many + 1
      BY <1>1
    <3> HIDE DEF at, many
    <3> QED
      BY <1>2, <3>1, <3>2, <3>3
  <2>3. /\ to \in PosType /\ ReadsOn(Sched, from, to)
        /\ to.at = Lesser(Len(Sched), from.at + range.n - 0)
    BY <1>1, <2>1, <2>2, GtRestType, GtRestReads
  <2> HIDE DEF to
  <2>4. to.at \in Nat /\ from.at < to.at /\ to.at <= nobs /\ ircur <= to.at
    BY <1>2, <2>1, <2>2, <2>3 DEF Lesser
  <2>5. to.cur = UnpakRange(cur, Sched, from.at + 1, to.at)
    BY <1>1, <2>1, <2>2, <2>3, <2>4 DEF ReadsOn
  <2>6. AllStand(Sched, to.at, to.cur)
    <3> DEFINE a == from.at + 1
    <3>1. a \in Nat \ {0} /\ a - 1 <= ircur /\ ircur <= to.at /\ a <= to.at
      BY <2>2, <2>4
    <3> HIDE DEF a
    <3>2. AllStand(Sched, to.at, UnpakRange(cur, Sched, a, to.at))
      BY <1>2, <2>1, <2>4, <3>1, RangeStands
    <3> QED
      BY <2>5, <3>2 DEF a
  <2>7. MoveTo(to) /\ UNCHANGED store
    BY <1>1 DEF to
  <2> QED
    BY <2>3, <2>4, <2>6, <2>7, MoveStands
<1>4. CASE ~(nobs > 0)
  <2>1. nobs = 0 /\ ircur = 0 /\ cur' = cur /\ Len(Sched) = 0 /\ Sched' = Sched
        /\ nobs' = nobs
    BY <1>1, <1>2, <1>4, SchedType DEF store, Sched, nobs
  <2>2. PlaceBack(n) - 1 = 0
    BY <1>2, <2>1 DEF PlaceBack, Lesser, Greater
  <2>3. to.at = 0
    BY <1>1, <2>1, <2>2 DEF GtRest, ReadTo
  <2>4. ircur' = 0
    BY <1>1, <2>3 DEF MoveTo
  <2>5. AllStand(Sched', ircur', cur')
    BY <1>2, <2>1, <2>4, UpToDateIs
  <2> QED
    BY <2>1, <2>4, <2>5, UpToDateIs
<1> QED
    BY <1>3, <1>4

\* An emptied schedule leaves every station at the start of the experiment.
LEMMA ClearAllStands == ClearAll => SubnetUpToDate'
<1> SUFFICES ASSUME ClearAll
             PROVE  SubnetUpToDate'
    OBVIOUS
<1>1. /\ ircur' = 0 /\ nobs' = 0
      /\ cur'.t = [m \in Stations |-> StartTime]
      /\ cur'.src = [m \in Stations |-> Unscheduled]
    BY DEF ClearAll, FreshCur, nobs
<1>2. AllStand(Sched', 0, cur')
    BY <1>1, NoSource DEF AllStand, Stands
<1> QED
    BY <1>1, <1>2, UpToDateIs

\* What leaves the schedule, the cursor and CUR alone.
LEMMA StaysUpToDate ==
    ASSUME StoreInv, SubnetUpToDate, UNCHANGED <<store, ircur, cur>>
    PROVE  SubnetUpToDate'
<1>1. Sched' = Sched /\ nobs' = nobs /\ ircur' = ircur /\ cur' = cur
    BY DEF store, Sched, nobs
<1>2. ircur \in Nat /\ ircur <= nobs /\ AllStand(Sched, ircur, cur)
    BY UpToDateIs DEF StoreInv, TypeOK
<1> QED
    BY <1>1, <1>2, UpToDateIs

\* DELETE reads from the start, or there is nothing left.
LEMMA DeleteStands ==
    ASSUME StoreInv, SubnetUpToDate, NEW range \in Ranges, Delete(range)
    PROVE  SubnetUpToDate'
<1>1. PICK k \in Nat, n \in Nat \ {0}, back \in Nat \ {0}, first \in PosType :
              \/ UNCHANGED <<store, ircur, irecgo, cur>>
              \/ k - 1 <= Len(iskrec) /\ BlockTaken(k, n, first, back, range.st)
              \/ ClearAll
    BY DeleteShapes
<1>2. CASE UNCHANGED <<store, ircur, irecgo, cur>>
    BY <1>2, StaysUpToDate
<1>3. CASE k - 1 <= Len(iskrec) /\ BlockTaken(k, n, first, back, range.st)
    BY <1>3, RangeTypes, BlockTakenStands
<1>4. CASE ClearAll
    BY <1>4, ClearAllStands
<1> QED
    BY <1>1, <1>2, <1>3, <1>4

\* Only an edit, the check before writing, a failed insertion and PREVIOUS with a
\* negative count leave a station elsewhere.
LEMMA NextStands ==
    ASSUME DistinctInv, Next, Sound, SubnetUpToDate, StationsInOrder
    PROVE  \/ SubnetUpToDate'
           \/ \E y \in Edits : Modify(y)
           \/ WriteContinue
           \/ nobs' = nobs /\ (nobs = MaxObs \/ status' = "failed")
           \/ Strays
<1>1. /\ StoreInv /\ nobs \in Nat /\ nobs <= MaxObs /\ MaxObs \in Nat /\ nxtrec \in Nat
      /\ ircur \in Nat /\ ircur <= nobs
  <2>1. StoreInv
    BY DEF DistinctInv
  <2>2. nobs \in Nat /\ Len(behind) \in Nat
    BY <2>1, IskrecType
  <2> QED
    BY <2>1, <2>2, ConstantTypes DEF StoreInv, TypeOK, SubnetUpToDate
<1>2. ASSUME NEW x \in Scan, Insert(x)
      PROVE  SubnetUpToDate' \/ (nobs' = nobs /\ (nobs = MaxObs \/ status' = "failed"))
  <2>1. CASE nobs < MaxObs /\ nxtrec <= MaxObs
    BY <1>2, <2>1, InsertStands
  <2>2. CASE nobs >= MaxObs
    <3>1. ~(nobs < MaxObs)
      BY <1>1, <2>2
    <3>2. UNCHANGED store
      BY <1>2, <3>1, Zenon DEF Insert
    <3> QED
      BY <1>1, <2>2, <3>2 DEF store, nobs
  <2>3. CASE nobs < MaxObs /\ nxtrec > MaxObs
    <3>1. ~(nobs >= MaxObs) /\ ~(nxtrec <= MaxObs)
      BY <1>1, <2>3
    <3>2. UNCHANGED store /\ status' = "failed"
      BY <1>2, <3>1, Zenon DEF Insert
    <3> QED
      BY <3>2 DEF store, nobs
  <2> QED
    BY <1>1, <2>1, <2>2, <2>3
<1>3. ASSUME NEW x \in Scan, InsertBehind(x)
      PROVE  FALSE
    BY <1>1, <1>3 DEF InsertBehind
<1>4. CASE \E range \in Ranges : Delete(range)
    BY <1>1, <1>4, DeleteStands
<1>5. CASE \/ \E range \in Ranges : List(range)
           \/ \E n \in Counts : BackScans(n) \/ \E en \in Endings(n) : NextScans(n, en)
    BY <1>1, <1>5, ListingsStand
<1>6. CASE \E n \in Counts : \E en \in Endings(n) : PreviousScans(n, en)
  <2>1. PICK n \in Counts : \E en \in Endings(n) : PreviousScans(n, en)
    BY <1>6
  <2>2. PICK en \in Endings(n) : PreviousScans(n, en)
    BY <2>1
  <2>3. CASE n < 0
    BY <2>2, <2>3 DEF Strays
  <2>4. CASE ~(n < 0)
    <3>1. n >= 0
      BY <1>1, <2>4, CountTypes
    <3> QED
      BY <1>1, <2>2, <3>1, PreviousStands
  <2> QED
    BY <2>3, <2>4
<1>7. CASE DeleteAll
    BY <1>7, ClearAllStands DEF DeleteAll
<1>8. CASE ListNothing
  <2>1. UNCHANGED <<store, ircur, cur>>
    BY <1>8 DEF ListNothing
  <2> QED
    BY <1>1, <2>1, StaysUpToDate
<1> QED
    BY <1>2, <1>3, <1>4, <1>5, <1>6, <1>7, <1>8 DEF Next

\* Every walk, deletion and insertion that finds room leaves each station where
\* its last scan up to the cursor put it, even when the sort moves the new scan
\* away from the cursor; for .skd files, as above.
THEOREM WalksKeepSubnets == ASSUME ~VexFile PROVE Spec => WalkKeepsSubnets
<1>1. DistinctInv /\ [Next]_vars => DistinctInv'
    BY NextDistinct
<1>2. DistinctInv /\ [Next]_vars =>
        [Sound /\ SubnetUpToDate /\ StationsInOrder /\ ~SubnetUpToDate'
           => \/ \E y \in Edits : Modify(y)
              \/ WriteContinue
              \/ nobs' = nobs /\ (nobs = MaxObs \/ status' = "failed")
              \/ Strays]_vars
    BY NextStands
<1> QED
    BY <1>1, <1>2, InitDistinct, PTL DEF Spec, WalkKeepsSubnets

-----------------------------------------------------------------------------
(***************************************************************************)
(* The scan store implements Schedule: behind its records, its index and   *)
(* nxtrec the user sees a list of scans, and no command touches a scan it  *)
(* does not name.                                                          *)
(*                                                                         *)
(* It takes that no two places share a record, or an edit would change two *)
(* scans.  The promise is given up when the program fails or an edit is    *)
(* made with the cursor behind the last scan: then, and only then, is the  *)
(* cursor behind the list, or the list as it was.                          *)
(***************************************************************************)
\* What every command starts from.
LEMMA KeptTypes ==
    ASSUME DistinctInv
    PROVE  /\ StoreInv
           /\ Sched \in Seq(Scan) /\ Len(Sched) = nobs /\ nobs = Len(index) /\ nobs \in Nat
           /\ DOMAIN Sched = 1..nobs /\ \A i \in 1..nobs : Sched[i] = rec[index[i]]
           /\ index \in Seq(1..MaxObs) /\ \A i \in 1..nobs : index[i] \in 1..MaxObs
           /\ ircur \in Nat /\ nxtrec \in Nat /\ MaxObs \in Nat
<1>1. StoreInv
    BY DEF DistinctInv
<1>2. Sched \in Seq(Scan) /\ Len(Sched) = nobs /\ nobs \in Nat
    BY <1>1, SchedType
<1>3. DOMAIN Sched = 1..nobs /\ \A i \in 1..nobs : Sched[i] = rec[index[i]]
    BY DEF Sched
<1>4. index \in Seq(1..MaxObs) /\ ircur \in Nat /\ nxtrec \in Nat /\ MaxObs \in Nat
    BY <1>1, ConstantTypes DEF StoreInv, TypeOK
<1>5. nobs = Len(index) /\ \A i \in 1..nobs : index[i] \in 1..MaxObs
    BY <1>4, ElementOfSeq DEF nobs
<1> QED
    BY <1>1, <1>2, <1>3, <1>4, <1>5

\* The file's scans, sorted.
LEMMA InitIsSchedule == ~VexFile /\ Init => Promise!Init
<1> SUFFICES ASSUME NEW f \in Files, Load(f), StoreInv
             PROVE  Promise!Init
    BY InitTypes DEF Init
<1>1. f \in Seq(Scan) /\ Len(f) \in Nat /\ Len(f) <= MaxObs
    BY FilesFit, LenProperties
<1>2. PICK order \in SortOrders(f, Len(f)) : index = order
    BY DEF Load
<1>3. index \in [1..Len(f) -> 1..Len(f)] /\ nobs = Len(f)
    BY <1>1, <1>2 DEF SortOrders, nobs
<1>4. Len(Sched) = Len(f) /\ ircur \in 0..Len(Sched) /\ Sound = TRUE
  <2>1. Len(Sched) = Len(f)
    BY <1>3, SchedType
  <2>2. f = << >> => ircur = 0
    BY DEF Load
  <2>3. f # << >> => ircur = 1 /\ Len(f) # 0
    BY <1>1, EmptySeq DEF Load
  <2>4. ircur \in 0..Len(f)
    BY <1>1, <2>2, <2>3
  <2> QED
    BY <2>1, <2>4 DEF Load, Sound
<1>5. \A j \in 1..Len(f) : Sched[j] = f[index[j]]
    BY <1>1, <1>3, ConstantTypes DEF Load, Sched
<1>6. ASSUME NEW i \in 1..Len(f)
      PROVE  \E j \in 1..Len(f) : Sched[j] = f[i]
  <2>1. f \in [1..Len(f) -> Scan]
    BY <1>1
  <2>2. PICK j \in 1..Len(f) : index[j] = i
    BY <1>1, <1>2, <2>1, SortKeepsAll
  <2> QED
    BY <1>5, <2>2
<1> QED
    BY <1>4, <1>6 DEF Promise!Init

\* An insertion that finds room inserts behind the current place, and puts the
\* scans up to there in order of time.
LEMMA InsertIsInsert ==
    ASSUME DistinctInv, Sound, NEW x \in Scan, Insert(x), nobs < MaxObs, nxtrec <= MaxObs
    PROVE  Promise!Insert(x)
<1> DEFINE old == Promise!Grown(x)
           n   == ircur + 1
<1>1. /\ StoreInv /\ DistinctInv /\ nobs \in Nat /\ ircur \in 0..nobs
      /\ Sched \in Seq(Scan) /\ Len(Sched) = nobs /\ nxtrec \in Nat
  <2>1. ircur <= nobs
    BY KeptTypes, InsertEffect
  <2> QED
    BY <2>1, KeptTypes
<1>2. /\ Len(old) = nobs + 1
      /\ \A i \in 1..(nobs + 1) :
            old[i] = IF i <= ircur THEN Sched[i]
                     ELSE IF i = ircur + 1 THEN x ELSE Sched[i - 1]
    BY <1>1 DEF Promise!Grown
<1>3. \A i \in 1..(nobs + 1) : rec'[Grown[i]] = old[i] /\ rec'[Grown[i]] \in Scan
    BY <1>1, <1>2, GrownScans, InsertEffect
<1> HIDE DEF old
<1> DEFINE all == [i \in 1..(nobs + 1) |-> rec'[Grown[i]]]
<1>4. PICK order \in SortOrders(all, n) : index' = Reorder(Grown, order) /\ ircur' = n
  <2>1. ~(nobs >= MaxObs) /\ ~(nxtrec > MaxObs)
    BY <1>1, ConstantTypes
  <2> QED
    BY <2>1, Zenon DEF Insert, Grown
<1>5. order \in [1..n -> 1..n]
    BY <1>4 DEF SortOrders
<1>6. Len(Grown) = nobs + 1
    BY <1>1, GrownType, ConstantTypes DEF StoreInv, TypeOK
<1>7. index' = [k \in 1..(nobs + 1) |-> IF k \in 1..n THEN Grown[order[k]] ELSE Grown[k]]
    BY <1>4, <1>5, <1>6 DEF Reorder
<1>8. nobs' = nobs + 1 /\ Sched' \in [1..(nobs + 1) -> Scan]
      /\ \A k \in 1..(nobs + 1) : Sched'[k] = rec'[index'[k]]
  <2>1. nobs' = nobs + 1
    BY <1>1, <1>7 DEF nobs
  <2>2. \A k \in 1..(nobs + 1) : rec'[index'[k]] \in Scan
    BY <1>1, <1>3, <1>5, <1>7
  <2> QED
    BY <2>1, <2>2 DEF Sched
<1>9. \A k \in 1..n : Sched'[k] = old[order[k]] /\ order[k] \in 1..(nobs + 1)
    BY <1>1, <1>3, <1>5, <1>7, <1>8
<1>10. \A k \in (n + 1)..(nobs + 1) : Sched'[k] = old[k]
    BY <1>1, <1>3, <1>7, <1>8
<1>11. Len(Sched') = nobs + 1
    BY <1>1, <1>8
<1>12. \A i \in 1..(nobs + 1) : all[i] = old[i] /\ old[i] \in Scan
    BY <1>3
<1> HIDE DEF all
<1>13. ASSUME NEW i \in 1..n, NEW j \in 1..n, i < j
       PROVE  order[i] # order[j] /\ Sched'[i].t <= Sched'[j].t
  <2>1. Precedes(all, order[i], order[j])
    BY <1>4, <1>13 DEF SortOrders
  <2>2. /\ all[order[i]] = Sched'[i] /\ all[order[j]] = Sched'[j]
        /\ Sched'[i] \in Scan /\ Sched'[j] \in Scan
    BY <1>9, <1>12
  <2>3. /\ Sched'[i].t \in Int /\ Sched'[j].t \in Int
        /\ Sched'[i].src \in Nat /\ Sched'[j].src \in Nat
    BY <2>2, ScanNumbers
  <2>4. order[i] \in Int /\ order[j] \in Int
    BY <1>5
  <2> QED
    BY <2>1, <2>2, <2>3, <2>4 DEF Precedes
<1>14. Promise!SameScans(old, Sched', n)
  <2>1. ASSUME NEW i \in 1..n, NEW j \in 1..n, i # j
        PROVE  order[i] # order[j]
    <3>1. i < j \/ j < i
      BY <1>1, <2>1
    <3> QED
      BY <1>13, <3>1
  <2> QED
    BY <1>2, <1>5, <1>9, <1>10, <1>11, <2>1 DEF Promise!SameScans
<1> QED
    BY <1>1, <1>4, <1>11, <1>13, <1>14 DEF Promise!Insert, old

\* An edit replaces the scan at the cursor, and no other place has its record;
\* behind the last scan it is in the list that no scan is replaced.
LEMMA ModifyIsReplace ==
    ASSUME DistinctInv, Sound, Sound', NEW y \in Edits, Modify(y)
    PROVE  Promise!Replace(y)
<1>1. /\ ircur \in DOMAIN iskrec /\ ircur <= nobs /\ UNCHANGED <<index, ircur>>
      /\ rec' = [rec EXCEPT ![iskrec[ircur]] = y]
    BY DEF Modify, Sound
<1>2. ircur \in 1..nobs /\ iskrec[ircur] = index[ircur]
  <2>1. ScanList(iskrec, rec) /\ \A i \in 1..nobs : iskrec[i] = index[i]
    BY KeptTypes, IskrecType
  <2>2. ircur \in 1..Len(iskrec)
    BY <1>1, <2>1 DEF ScanList
  <2> QED
    BY <1>1, <2>1, <2>2, KeptTypes
<1>3. rec \in [1..MaxObs -> Scan \cup {NoScan}]
    BY KeptTypes DEF StoreInv, TypeOK
<1>4. \A i \in 1..nobs : i # ircur => index[i] # index[ircur]
    BY <1>2 DEF DistinctInv, RecordsDistinct
<1>5. \A i \in 1..nobs : rec'[index[i]] = IF i = ircur THEN y ELSE Sched[i]
  <2>1. \A i \in 1..nobs : index[i] \in 1..MaxObs /\ Sched[i] = rec[index[i]]
    BY KeptTypes
  <2> QED
    BY <1>1, <1>2, <1>3, <1>4, <2>1
<1>6. Sched' = [i \in 1..nobs |-> rec'[index[i]]]
    BY <1>1 DEF Sched, nobs
<1>7. Sched' = [Sched EXCEPT ![ircur] = y]
  <2>1. DOMAIN Sched = 1..nobs
    BY KeptTypes
  <2>2. [Sched EXCEPT ![ircur] = y] = [i \in 1..nobs |-> IF i = ircur THEN y ELSE Sched[i]]
    BY <2>1 DEF Sched
  <2> QED
    BY <1>5, <1>6, <2>2
<1>8. ircur \in 1..Len(Sched)
    BY <1>2, KeptTypes
<1> QED
    BY <1>1, <1>7, <1>8 DEF Promise!Replace

Cut(s, a, b) == SubSeq(s, 1, a - 1) \o SubSeq(s, b + 1, Len(s))

CutShape(S, s, a, b) ==
    LET size == Len(s) - (b - a + 1)
    IN  /\ Cut(s, a, b) \in Seq(S)
        /\ Len(Cut(s, a, b)) = size /\ size \in Nat
        /\ \A i \in 1..size :
              Cut(s, a, b)[i] = IF i < a THEN s[i] ELSE s[i + (b - a + 1)]

\* What is left of a sequence when a block is cut out.
LEMMA CutOut ==
    ASSUME NEW S, NEW s \in Seq(S), NEW a \in 1..Len(s), NEW b \in a..Len(s)
    PROVE  CutShape(S, s, a, b)
<1> DEFINE front == SubSeq(s, 1, a - 1)
           rear  == SubSeq(s, b + 1, Len(s))
           size  == Len(s) - (b - a + 1)
<1>1. Len(s) \in Nat /\ size \in Nat /\ \A i \in 1..Len(s) : s[i] \in S
    BY LenProperties, ElementOfSeq
<1>2. /\ front \in Seq(S)
      /\ Len(front) = a - 1
      /\ \A i \in 1..(a - 1) : front[i] = s[i]
    BY <1>1, SubSeqProperties
<1>3. /\ rear \in Seq(S)
      /\ Len(rear) = Len(s) - b
      /\ \A i \in 1..(Len(s) - b) : rear[i] = s[b + i]
    BY <1>1, SubSeqProperties
<1> HIDE DEF front, rear
<1>4. /\ front \o rear \in Seq(S)
      /\ Len(front \o rear) = Len(front) + Len(rear)
      /\ \A i \in 1..(Len(front) + Len(rear)) :
            (front \o rear)[i] = IF i <= Len(front) THEN front[i] ELSE rear[i - Len(front)]
    BY <1>2, <1>3, ConcatProperties
<1>5. Len(front) + Len(rear) = size
    BY <1>1, <1>2, <1>3
<1>6. ASSUME NEW i \in 1..size
      PROVE  (front \o rear)[i] = IF i < a THEN s[i] ELSE s[i + (b - a + 1)]
  <2>1. CASE i < a
    BY <1>1, <1>2, <1>4, <1>5, <2>1
  <2>2. CASE i >= a
    <3>1. i - (a - 1) \in 1..(Len(s) - b) /\ b + (i - (a - 1)) = i + (b - a + 1)
      BY <1>1, <2>2
    <3>2. (front \o rear)[i] = rear[i - (a - 1)]
      BY <1>1, <1>2, <1>4, <1>5, <2>2
    <3>3. rear[i - (a - 1)] = s[i + (b - a + 1)]
      BY <1>3, <3>1
    <3> QED
      BY <1>1, <2>2, <3>2, <3>3
  <2>3. i < a \/ i >= a
    BY <1>1
  <2> QED
    BY <2>1, <2>2, <2>3, Zenon
<1>7. front \o rear = Cut(s, a, b)
    BY DEF front, rear, Cut
<1> QED
    BY <1>1, <1>4, <1>5, <1>6, <1>7 DEF CutShape

\* PTOBS 'DE' takes a block out of the index.
LEMMA WithoutIsCut ==
    ASSUME index \in Seq(1..MaxObs), NEW k \in 0..nobs, NEW n \in Nat \ {0},
           Without(k, n) # << >>
    PROVE  \E a, b \in 1..nobs :
              a <= b /\ Without(k, n) = SubSeq(index, 1, a - 1) \o SubSeq(index, b + 1, nobs)
<1>1. nobs \in Nat /\ nobs = Len(index) /\ \A i \in 1..nobs : index[i] \in 1..MaxObs
    BY LenProperties, ElementOfSeq DEF nobs
<1>2. CASE k = 0
  <2>1. Without(k, n) = SubSeq(index, 1, nobs - n)
    BY <1>2 DEF Without
  <2>2. nobs - n \in 1..nobs
    <3>1. nobs - n < 1 => SubSeq(index, 1, nobs - n) = << >>
      BY <1>1, SubSeqEmpty
    <3> QED
      BY <1>1, <2>1, <3>1
  <2> DEFINE a == nobs - n + 1
  <2>3. a \in 1..nobs /\ a - 1 = nobs - n /\ nobs \in 1..nobs /\ a <= nobs
    BY <1>1, <2>2
  <2>4. SubSeq(index, nobs + 1, nobs) = << >>
    BY <1>1, SubSeqEmpty
  <2>5. SubSeq(index, 1, nobs - n) \in Seq(1..MaxObs)
    BY <1>1, <2>2, SubSeqProperties
  <2>6. SubSeq(index, 1, nobs - n) \o << >> = SubSeq(index, 1, nobs - n)
    BY <2>5, ConcatEmptySeq
  <2>7. Without(k, n) = SubSeq(index, 1, a - 1) \o SubSeq(index, nobs + 1, nobs)
    BY <2>1, <2>3, <2>4, <2>6
  <2> HIDE DEF a
  <2> QED
    BY <2>3, <2>7
<1>3. CASE k # 0
  <2> DEFINE b == Lesser(k + n - 1, nobs)
  <2>1. k \in 1..nobs /\ b \in 1..nobs /\ k <= b
    BY <1>1, <1>3 DEF Lesser
  <2>2. SubSeq(index, k + n, nobs) = SubSeq(index, b + 1, nobs)
    <3>1. CASE k + n - 1 <= nobs
      <4>1. b + 1 = k + n
        BY <1>1, <3>1 DEF Lesser
      <4> QED
        BY <4>1
    <3>2. CASE k + n - 1 > nobs
      <4>1. b + 1 > nobs /\ b + 1 \in Int /\ k + n > nobs /\ k + n \in Int /\ nobs \in Int
        BY <1>1, <3>2 DEF Lesser
      <4> HIDE DEF b
      <4>2. SubSeq(index, b + 1, nobs) = << >>
        BY <4>1, SubSeqEmpty
      <4>3. SubSeq(index, k + n, nobs) = << >>
        BY <4>1, SubSeqEmpty
      <4> QED
        BY <4>2, <4>3
    <3>3. k + n - 1 <= nobs \/ k + n - 1 > nobs
      BY <1>1
    <3> QED
      BY <3>1, <3>2, <3>3, Zenon
  <2> HIDE DEF b
  <2>3. Without(k, n) = SubSeq(index, 1, k - 1) \o SubSeq(index, b + 1, nobs)
    <3>1. ~(k > nobs)
      BY <1>1
    <3> QED
      BY <1>3, <2>2, <3>1, Zenon DEF Without
  <2> QED
    BY <2>1, <2>3
<1> QED
    BY <1>2, <1>3

\* The list without the same block is what the records left show.
LEMMA WithoutIsRemoved ==
    ASSUME DistinctInv, NEW k \in 0..nobs, NEW n \in Nat \ {0}, Without(k, n) # << >>
    PROVE  \E a, b \in 1..nobs :
              /\ a <= b
              /\ ScansLeft(Without(k, n))
                   = SubSeq(Sched, 1, a - 1) \o SubSeq(Sched, b + 1, nobs)
<1>1. /\ index \in Seq(1..MaxObs) /\ nobs = Len(index) /\ nobs \in Nat
      /\ Sched \in Seq(Scan) /\ Len(Sched) = nobs
      /\ \A i \in 1..nobs : Sched[i] = rec[index[i]]
    BY KeptTypes
<1>2. PICK a \in 1..nobs, b \in 1..nobs : a <= b /\ Without(k, n) = Cut(index, a, b)
    BY <1>1, WithoutIsCut DEF Cut
<1> DEFINE left == Without(k, n)
           kept == Cut(Sched, a, b)
           size == nobs - (b - a + 1)
<1>3. b \in a..nobs
    BY <1>1, <1>2
<1>4. /\ Len(left) = size /\ size \in Nat
      /\ \A i \in 1..size : left[i] = IF i < a THEN index[i] ELSE index[i + (b - a + 1)]
  <2>1. a \in 1..Len(index) /\ b \in a..Len(index)
    BY <1>1, <1>3
  <2>2. CutShape(1..MaxObs, index, a, b)
    BY <1>1, <2>1, CutOut, Zenon
  <2> QED
    BY <1>1, <1>2, <2>2 DEF CutShape
<1>5. /\ kept \in Seq(Scan) /\ Len(kept) = size
      /\ \A i \in 1..size : kept[i] = IF i < a THEN Sched[i] ELSE Sched[i + (b - a + 1)]
  <2>1. a \in 1..Len(Sched) /\ b \in a..Len(Sched)
    BY <1>1, <1>3
  <2>2. CutShape(Scan, Sched, a, b)
    BY <1>1, <2>1, CutOut, Zenon
  <2> QED
    BY <1>1, <2>2 DEF CutShape
<1>6. \A i \in 1..size : i \in 1..nobs /\ (~(i < a) => i + (b - a + 1) \in 1..nobs)
    BY <1>1, <1>3
<1> HIDE DEF left, kept, size
<1>7. \A i \in 1..size : rec[left[i]] = kept[i]
    BY <1>1, <1>4, <1>5, <1>6
<1>8. ScansLeft(left) = [i \in 1..size |-> kept[i]]
    BY <1>4, <1>7 DEF ScansLeft
<1>9. ScansLeft(left) = kept
    BY <1>5, <1>8
<1> QED
    BY <1>1, <1>2, <1>9 DEF left, kept, Cut

\* Emptying the store empties the list.
LEMMA ClearIsClear == ClearAll => Promise!Clear
<1> SUFFICES ASSUME ClearAll
             PROVE  Promise!Clear
    OBVIOUS
<1>1. index' = << >> /\ ircur' = 0
    BY DEF ClearAll
<1>2. Sched' = << >>
    BY <1>1 DEF Sched, nobs
<1> QED
    BY <1>1, <1>2 DEF Promise!Clear

\* A deletion takes out a block, or empties the list, or with the cursor behind the
\* last scan leaves the list alone.
LEMMA DeleteIsRemove ==
    ASSUME DistinctInv, Sound, Sound', NEW range \in Ranges, Delete(range)
    PROVE  Promise!Keep \/ Promise!Clear
<1>1. StoreInv /\ nobs \in Nat /\ Len(Sched) = nobs /\ index \in Seq(1..MaxObs)
      /\ nobs = Len(index)
    BY KeptTypes
<1>2. PICK k \in Nat, n \in Nat \ {0}, back \in Nat \ {0}, first \in PosType :
              \/ status' = "failed"
              \/ k - 1 <= Len(iskrec) /\ BlockTaken(k, n, first, back, range.st)
              \/ ClearAll
    BY <1>1, DeleteShapes
<1>3. CASE ClearAll
    BY <1>3, ClearIsClear
<1>4. CASE k - 1 <= Len(iskrec) /\ BlockTaken(k, n, first, back, range.st)
  <2>1. /\ Without(k, n) # << >> /\ index' = Without(k, n) /\ rec' = rec
        /\ k <= nobs + 1
    BY <1>4 DEF BlockTaken, Sound
  <2>2. Sched' = ScansLeft(Without(k, n))
    BY <2>1 DEF Sched, nobs, ScansLeft
  <2>3. SubnetUpToDate' /\ StoreInv'
    BY <1>1, <1>4, RangeTypes, BlockTakenStands, DeleteTypes
  <2>4. ircur' \in 0..Len(Sched') /\ ircur' \in Nat
    <3>1. ircur' <= nobs' /\ ircur' \in Nat /\ nobs' = Len(index')
      BY <2>3 DEF SubnetUpToDate, StoreInv, TypeOK, nobs
    <3>2. Len(Sched') = nobs' /\ nobs' \in Nat
      BY <1>1, <1>4, <2>1, LeftTypes, ScansOf, LenProperties DEF Sched, nobs, ScanList
    <3> QED
      BY <3>1, <3>2
  <2>5. CASE k <= nobs
    <3>1. PICK a \in 1..nobs, b \in 1..nobs :
                 a <= b /\ Sched' = SubSeq(Sched, 1, a - 1) \o SubSeq(Sched, b + 1, nobs)
      <4>1. k \in 0..nobs
        BY <1>1, <2>5
      <4>2. \E a, b \in 1..nobs :
               /\ a <= b
               /\ ScansLeft(Without(k, n))
                    = SubSeq(Sched, 1, a - 1) \o SubSeq(Sched, b + 1, nobs)
        BY <2>1, <4>1, WithoutIsRemoved
      <4> QED
        BY <2>2, <4>2
    <3>2. Promise!RemoveBlock(a, b)
      BY <1>1, <2>4, <3>1 DEF Promise!RemoveBlock
    <3> QED
      BY <1>1, <3>1, <3>2 DEF Promise!Keep
  <2>6. CASE k = nobs + 1
    <3>1. Without(k, n) = SubSeq(iskrec, 1, nobs)
      <4>1. k # 0 /\ k > nobs /\ k - 1 = nobs
        BY <1>1, <2>6
      <4>2. Without(k, n) = SubSeq(iskrec, 1, k - 1)
        BY <4>1, Zenon DEF Without
      <4> QED
        BY <4>1, <4>2
    <3>2. /\ ScanList(iskrec, rec) /\ nobs <= Len(iskrec)
          /\ \A i \in 1..nobs : iskrec[i] = index[i]
      BY <1>1, IskrecType
    <3>3. /\ SubSeq(iskrec, 1, nobs) \in Seq(1..MaxObs)
          /\ Len(SubSeq(iskrec, 1, nobs)) = nobs
          /\ \A i \in 1..nobs : SubSeq(iskrec, 1, nobs)[i] = iskrec[i]
      <4> DEFINE part == SubSeq(iskrec, 1, nobs)
      <4>1. 1 \in Nat \ {0} /\ Len(iskrec) \in Nat
        BY <1>1, IskrecType
      <4>2. nobs \in 0..Len(iskrec)
        BY <1>1, <3>2, <4>1
      <4>3. /\ ScanList(part, rec)
            /\ Len(part) = IF 1 <= nobs THEN nobs - 1 + 1 ELSE 0
            /\ \A i \in 1..(nobs - 1 + 1) : part[i] = iskrec[1 + i - 1]
        BY <3>2, <4>1, <4>2, PartOfScanList
      <4> HIDE DEF part
      <4>4. Len(part) = nobs
        BY <1>1, <4>3
      <4>5. \A i \in 1..nobs : part[i] = iskrec[i]
        BY <1>1, <4>3
      <4> QED
        BY <4>3, <4>4, <4>5 DEF part, ScanList
    <3>4. index' = index
      BY <1>1, <2>1, <3>1, <3>2, <3>3, SeqEqual
    <3>5. Sched' = Sched
      BY <2>1, <3>4 DEF Sched, nobs
    <3> QED
      BY <2>4, <3>5 DEF Promise!Keep, Promise!Move
  <2> QED
    BY <1>1, <2>1, <2>5, <2>6
<1> QED
    BY <1>2, <1>3, <1>4 DEF Sound

\* The commands that only walk.
WalkStep ==
    \/ \E range \in Ranges : List(range)
    \/ \E n \in Counts : \/ BackScans(n)
                         \/ \E en \in Endings(n) : NextScans(n, en) \/ PreviousScans(n, en)
    \/ ListNothing
    \/ WriteContinue

LEMMA WalksLeaveTheStore == WalkStep => UNCHANGED store
BY Zenon DEF WalkStep, List, NextScans, BackScans, PreviousScans, ListNothing, WriteContinue,
             ListOn

\* As long as the promise is kept every command is a step of the list, or none.
LEMMA KeptNext ==
    ASSUME DistinctInv, Next, Sound, Sound'
    PROVE  Promise!Keep \/ Promise!Clear
<1>1. StoreInv' /\ nobs \in Nat /\ nxtrec \in Nat /\ MaxObs \in Nat
    BY KeptTypes, NextTypes
<1>2. ASSUME UNCHANGED store
      PROVE  Promise!Keep
  <2>1. Sched' = Sched /\ ircur' \in Nat
    BY <1>1, <1>2 DEF store, Sched, nobs, StoreInv, TypeOK
  <2> QED
    BY <2>1 DEF Promise!Keep, Promise!Move
<1>3. ASSUME NEW x \in Scan, Insert(x)
      PROVE  Promise!Keep
  <2>1. CASE nobs < MaxObs /\ nxtrec <= MaxObs
    BY <1>3, <2>1, InsertIsInsert DEF Promise!Keep
  <2>2. CASE ~(nobs < MaxObs /\ nxtrec <= MaxObs)
    <3>1. UNCHANGED store
      BY <1>3, <2>2, Zenon DEF Insert
    <3> QED
      BY <1>2, <3>1
  <2> QED
    BY <2>1, <2>2
<1>4. ~ \E x \in Scan : InsertBehind(x)
    BY DEF InsertBehind, Sound
<1>5. ASSUME NEW y \in Edits, Modify(y)
      PROVE  Promise!Keep
  <2>1. y \in Scan
    BY EditsAreScans
  <2> QED
    BY <1>5, <2>1, ModifyIsReplace DEF Promise!Keep
<1>6. CASE \E range \in Ranges : Delete(range)
    BY <1>6, DeleteIsRemove
<1>7. CASE DeleteAll
    BY <1>7, ClearIsClear DEF DeleteAll
<1>8. CASE WalkStep
    BY <1>2, <1>8, WalksLeaveTheStore
<1> QED
    BY <1>3, <1>4, <1>5, <1>6, <1>7, <1>8 DEF Next, WalkStep

\* It is given up with the cursor behind the last scan, or with the list as it was.
LEMMA LostNext ==
    ASSUME DistinctInv, Next, Sound, ~Sound'
    PROVE  Promise!Lose
<1>1. nobs \in Nat /\ nxtrec \in Nat /\ MaxObs \in Nat /\ ircur \in Nat /\ StoreInv
      /\ Len(Sched) = nobs
    BY KeptTypes
<1>2. ASSUME UNCHANGED store \/ ircur > nobs
      PROVE  Promise!Lose
  <2>1. CASE UNCHANGED store
    <3>1. Sched' = Sched
      BY <2>1 DEF store, Sched, nobs
    <3> QED
      BY <3>1 DEF Promise!Lose
  <2>2. CASE ircur > nobs
    BY <1>1, <2>2 DEF Promise!Lose
  <2> QED
    BY <1>2, <2>1, <2>2
<1>3. ASSUME NEW x \in Scan, Insert(x)
      PROVE  UNCHANGED store
  <2>1. ~(nobs < MaxObs /\ nxtrec <= MaxObs)
    BY <1>1, <1>3, InsertEffect DEF Sound
  <2> QED
    BY <1>3, <2>1, Zenon DEF Insert
<1>4. ASSUME NEW x \in Scan, InsertBehind(x)
      PROVE  ircur > nobs
    BY <1>4 DEF InsertBehind
<1>5. ASSUME NEW y \in Edits, Modify(y)
      PROVE  UNCHANGED store \/ ircur > nobs
  <2>1. CASE ircur \in DOMAIN iskrec
    <3>1. ~(ircur <= nobs)
      BY <1>5, <2>1 DEF Modify, Sound
    <3> QED
      BY <1>1, <3>1
  <2>2. CASE ircur \notin DOMAIN iskrec
    BY <1>5, <2>2 DEF Modify
  <2> QED
    BY <2>1, <2>2
<1>6. ~ClearAll /\ ~DeleteAll
    BY DEF ClearAll, DeleteAll, Sound
<1>7. ASSUME NEW range \in Ranges, Delete(range)
      PROVE  UNCHANGED store \/ ircur > nobs
  <2>1. PICK k \in Nat, n \in Nat \ {0}, back \in Nat \ {0}, first \in PosType :
              \/ UNCHANGED store
              \/ /\ k <= nobs + 1 \/ ircur > nobs
                 /\ BlockTaken(k, n, first, back, range.st)
              \/ ClearAll
    BY <1>1, <1>7, DeleteShapes
  <2>2. CASE (k <= nobs + 1 \/ ircur > nobs) /\ BlockTaken(k, n, first, back, range.st)
    <3>1. ~(k <= nobs + 1)
      BY <2>2 DEF BlockTaken, Sound
    <3> QED
      BY <2>2, <3>1
  <2> QED
    BY <1>6, <2>1, <2>2
<1>8. CASE WalkStep
    BY <1>2, <1>8, WalksLeaveTheStore
<1> QED
    BY <1>2, <1>3, <1>4, <1>5, <1>6, <1>7, <1>8 DEF Next, WalkStep

\* Once given up it is kept again when the list has been emptied.
LEMMA KeptAgain ==
    ASSUME StoreInv, Next, ~Sound, Sound'
    PROVE  Promise!Clear
<1>1. status' = "ok" /\ status # "ok"
    BY DEF Sound
<1>2. ASSUME NEW x \in Scan, Insert(x) \/ InsertBehind(x)
      PROVE  FALSE
  <2>1. Insert(x) => status' = status \/ status' = "failed"
    BY Zenon DEF Insert
  <2>2. InsertBehind(x) => status' = "failed" \/ status' = "upset"
    BY DEF InsertBehind
  <2> QED
    BY <1>1, <1>2, <2>1, <2>2
<1>3. ASSUME NEW y \in Edits, Modify(y)
      PROVE  FALSE
    BY <1>1, <1>3 DEF Modify
<1>4. ASSUME NEW range \in Ranges, Delete(range)
      PROVE  ClearAll
  <2>1. PICK k \in Nat, n \in Nat \ {0}, back \in Nat \ {0}, first \in PosType :
              \/ status' = "failed"
              \/ BlockTaken(k, n, first, back, range.st)
              \/ ClearAll
    BY <1>4, DeleteShapes
  <2>2. ~BlockTaken(k, n, first, back, range.st)
    BY <1>1 DEF BlockTaken
  <2> QED
    BY <1>1, <2>1, <2>2
<1>5. ~WalkStep
  <2>1. WalkStep => status' = status \/ status' = "failed"
    BY Zenon DEF WalkStep, List, NextScans, BackScans, PreviousScans, ListNothing,
                 WriteContinue, ListOn, Listed
  <2> QED
    BY <1>1, <2>1
<1>6. ClearAll
    BY <1>2, <1>3, <1>4, <1>5 DEF Next, WalkStep, DeleteAll
<1> QED
    BY <1>6, ClearIsClear

\* Every command is a step of the promise, or none.
LEMMA NextIsSchedule ==
    ASSUME DistinctInv, [Next]_vars
    PROVE  [Promise!Next]_<<Sched, ircur, Sound>>
<1>1. CASE UNCHANGED vars
    BY <1>1 DEF vars, Sched, nobs, Sound
<1>2. CASE Next /\ Sound /\ Sound'
    BY <1>2, KeptNext DEF Promise!Next
<1>3. CASE Next /\ Sound /\ ~Sound'
    BY <1>3, LostNext DEF Promise!Next
<1>4. CASE Next /\ ~Sound /\ Sound'
    BY <1>4, KeptAgain DEF DistinctInv, Promise!Next
<1>5. CASE ~Sound /\ ~Sound'
    BY <1>5 DEF Promise!Next
<1> QED
    BY <1>1, <1>2, <1>3, <1>4, <1>5

\* The store behaves as the plain list of scans until the program fails or an edit
\* is made with the cursor behind the last scan, and again when the list has been
\* emptied; for a .skd file: reading a VEX file leaves nxtrec at records in use.
THEOREM StoreKeepsSchedule == ASSUME ~VexFile PROVE Spec => KeepsSchedule
<1>1. DistinctInv /\ [Next]_vars => DistinctInv'
    BY NextDistinct
<1>2. Init => Promise!Init
    BY InitIsSchedule
<1>3. DistinctInv /\ [Next]_vars => [Promise!Next]_<<Sched, ircur, Sound>>
    BY NextIsSchedule
<1> QED
    BY <1>1, <1>2, <1>3, InitDistinct, PTL DEF Spec, KeepsSchedule, Promise!Spec
=============================================================================
