--------------------------- MODULE DowntimeProofs ----------------------------
(***************************************************************************)
(* The types of the downtimes, and that kstatup answers right, for every   *)
(* number of stations, intervals and scans.                                *)
(*                                                                         *)
(* kstatup is right about intervals that do not end before they begin.     *)
(* The list holds no others (Forward) as long as no user types one, since  *)
(* merging two that meet moves an end outward.                             *)
(***************************************************************************)
EXTENDS Downtime, ListLemmas

\* No user types an interval that ends before it begins.
TypedForward == \A y \in Intervals : y.beg <= y.end

Forward ==
    /\ \A i \in Entries : down[i].beg <= down[i].end
    /\ \A k \in DOMAIN unread : unread[k].beg <= unread[k].end

-----------------------------------------------------------------------------
(***************************************************************************)
(* Lists of the members of a finite set.                                   *)
(***************************************************************************)
\* A list of a finite set is a sequence of as many elements, without repetition.
LEMMA ListsAreSequences ==
    ASSUME NEW S, IsFiniteSet(S), NEW p \in Lists(S)
    PROVE  /\ p \in Seq(S) /\ Len(p) = Cardinality(S) /\ Cardinality(S) \in Nat
           /\ DOMAIN p = 1..Cardinality(S)
           /\ Members(p) = S
           /\ \A i, j \in DOMAIN p : p[i] = p[j] => i = j
<1>1. Cardinality(S) \in Nat
    BY FS_CardinalityType
<1>2. p \in [1..Cardinality(S) -> S] /\ \A s \in S : \E i \in DOMAIN p : p[i] = s
    BY DEF Lists
<1>3. p \in Seq(S) /\ Len(p) = Cardinality(S)
    BY <1>1, <1>2
<1>4. p \in Surjection(1..Cardinality(S), S)
    BY <1>2 DEF Surjection
<1>5. IsFiniteSet(1..Cardinality(S)) /\ Cardinality(1..Cardinality(S)) = Cardinality(S)
    BY <1>1, FS_Interval
<1>6. p \in Injection(1..Cardinality(S), S)
    BY <1>4, <1>5, FS_SurjSameCardinalityImpliesInj
<1>7. \A i, j \in DOMAIN p : p[i] = p[j] => i = j
    BY <1>2, <1>6 DEF Injection, IsInjective
<1>8. Members(p) = S
    BY <1>2 DEF Members
<1> QED
    BY <1>1, <1>2, <1>3, <1>7, <1>8

\* Places of a sequence, kept in their order, are no more than its length.
LEMMA PicksAreShorter ==
    ASSUME NEW n \in Nat, NEW K \in SUBSET (1..n), NEW pick \in Picks(K)
    PROVE  /\ DOMAIN pick = 1..Cardinality(K)
           /\ Cardinality(K) \in Nat /\ Cardinality(K) <= n
           /\ \A k \in DOMAIN pick : pick[k] \in K
<1>1. IsFiniteSet(1..n) /\ Cardinality(1..n) = n
    BY FS_Interval
<1>2. IsFiniteSet(K) /\ Cardinality(K) <= n
    BY <1>1, FS_Subset
<1>3. pick \in Lists(K)
    BY DEF Picks
<1> QED
    BY <1>2, <1>3, ListsAreSequences

\* The selection is a list of distinct names.
LEMMA StationsAreDistinct ==
    ASSUME NEW list \in Selections
    PROVE  /\ list \in Seq(Names)
           /\ IsFiniteSet(Members(list))
           /\ Len(list) \in Nat /\ DOMAIN list = 1..Len(list)
           /\ \A i, j \in DOMAIN list : list[i] = list[j] => i = j
           /\ Members(list) \subseteq Names
<1>1. PICK S \in SUBSET Names : list \in Lists(S)
    BY DEF Selections
<1>2. IsFiniteSet(S)
    BY FS_Subset, NamesAreFinite
<1>3. list \in Seq(S)
    BY <1>1, <1>2, ListsAreSequences
<1>4. list \in Seq(Names)
    BY <1>3
<1> QED
    BY <1>1, <1>2, <1>3, <1>4, ListsAreSequences

-----------------------------------------------------------------------------
(***************************************************************************)
(* What Add, Keep and the lines of $DOWNTIME do to the list.               *)
(***************************************************************************)
Growing(S, y, new) ==
    /\ Added(S, y, new) \in Seq(Downtimes)
    /\ Len(Added(S, y, new)) = Len(down) + Len(new)
    /\ \A i \in 1..Len(down) : /\ Added(S, y, new)[i].sta = down[i].sta
                               /\ Added(S, y, new)[i] =
                                     IF /\ down[i].sta \in S /\ Touches(down[i], y)
                                        /\ \A j \in Matches(down[i].sta, y) : i <= j
                                     THEN Merged(down[i], y) ELSE down[i]
    /\ \A k \in 1..Len(new) :
          Added(S, y, new)[Len(down) + k] = [sta |-> new[k], beg |-> y.beg, end |-> y.end]

\* Adding an interval lengthens entries that meet it and appends the rest.
LEMMA AddedGrows ==
    ASSUME down \in Seq(Downtimes), NEW S \in SUBSET Nat, NEW y, y.beg \in Int, y.end \in Int,
           NEW new \in Seq(S)
    PROVE  Growing(S, y, new)
<1> DEFINE Old == [i \in Entries |->
        IF /\ down[i].sta \in S /\ Touches(down[i], y)
           /\ \A j \in Matches(down[i].sta, y) : i <= j
        THEN Merged(down[i], y) ELSE down[i]]
           Fresh == [k \in DOMAIN new |-> [sta |-> new[k], beg |-> y.beg, end |-> y.end]]
<1>1. \A i \in 1..Len(down) : down[i] \in Downtimes
    OBVIOUS
<1>2. ASSUME NEW x \in Downtimes
      PROVE  Merged(x, y) \in Downtimes /\ Merged(x, y).sta = x.sta
    BY <1>2 DEF Merged, Downtimes
<1>3. Old \in Seq(Downtimes) /\ Len(Old) = Len(down)
  <2>1. Len(down) \in Nat
    OBVIOUS
  <2>2. Old \in [1..Len(down) -> Downtimes]
    BY <1>1, <1>2 DEF Entries
  <2> HIDE DEF Old
  <2> QED
    BY <2>1, <2>2
<1>4. Fresh \in Seq(Downtimes) /\ Len(Fresh) = Len(new)
  <2>1. Len(new) \in Nat /\ DOMAIN new = 1..Len(new)
    OBVIOUS
  <2>2. \A k \in 1..Len(new) : new[k] \in Nat
    BY ElementOfSeq
  <2>3. Fresh \in [1..Len(new) -> Downtimes]
    BY <2>1, <2>2 DEF Downtimes
  <2> HIDE DEF Fresh
  <2> QED
    BY <2>1, <2>3
<1>5. \A i \in 1..Len(down) : /\ Old[i].sta = down[i].sta
                              /\ Old[i] = IF /\ down[i].sta \in S /\ Touches(down[i], y)
                                            /\ \A j \in Matches(down[i].sta, y) : i <= j
                                         THEN Merged(down[i], y) ELSE down[i]
    BY <1>1, <1>2 DEF Entries
<1>6. \A k \in 1..Len(new) : Fresh[k] = [sta |-> new[k], beg |-> y.beg, end |-> y.end]
    OBVIOUS
<1>7. Added(S, y, new) = Old \o Fresh
    BY DEF Added
<1> HIDE DEF Old, Fresh
<1>8. Old \o Fresh \in Seq(Downtimes) /\ Len(Old \o Fresh) = Len(down) + Len(new)
  <2>1. Old \o Fresh \in Seq(Downtimes)
    BY <1>3, <1>4
  <2>2. Len(Old \o Fresh) = Len(Old) + Len(Fresh)
    BY <1>3, <1>4, SMTT(30)
  <2> QED
    BY <1>3, <1>4, <2>1, <2>2
<1>9. \A i \in 1..Len(down) : (Old \o Fresh)[i] = Old[i]
    BY <1>3, <1>4
<1>10. \A k \in 1..Len(new) : (Old \o Fresh)[Len(down) + k] = Fresh[k]
    BY <1>3, <1>4
<1> QED
    BY <1>5, <1>6, <1>7, <1>8, <1>9, <1>10 DEF Growing

\* Add keeps the list a list of downtimes that fits its arrays, of stations in
\* use, and keeps intervals from ending before they begin.
LEMMA AddKeeps ==
    ASSUME TypeOK, NEW S \in SUBSET Numbers, NEW y, y.beg \in Int, y.end \in Int, Add(S, y)
    PROVE  /\ down' \in Seq(Downtimes) /\ Len(down') <= MaxDown
           /\ status' \in {status, "failed"}
           /\ stations # << >> => \A i \in 1..Len(down') : down'[i].sta \in Numbers
           /\ y.beg <= y.end /\ Forward => \A i \in 1..Len(down') : down'[i].beg <= down'[i].end
<1> DEFINE without == {s \in S : Matches(s, y) = {}}
<1>1. down \in Seq(Downtimes) /\ Len(down) \in Nat /\ Len(down) <= MaxDown /\ MaxDown \in Nat
    BY BoundsAreNumbers DEF TypeOK
<1>2. Len(stations) \in Nat /\ Numbers = 1..Len(stations)
    BY StationsAreDistinct DEF TypeOK, Numbers
<1>3. IsFiniteSet(without)
  <2>1. IsFiniteSet(Numbers)
    BY <1>2, FS_Interval
  <2>2. without \in SUBSET Numbers
    OBVIOUS
  <2> QED
    BY <2>1, <2>2, FS_Subset
<1>4. CASE Len(down) + Cardinality(without) > MaxDown
  <2>1. down' = down /\ status' = "failed"
    BY <1>1, <1>3, <1>4, FS_CardinalityType DEF Add
  <2> QED
    BY <1>1, <2>1 DEF TypeOK, Forward, Entries
<1>5. CASE ~(Len(down) + Cardinality(without) > MaxDown)
  <2>1. PICK new \in Lists(without) : down' = Added(S, y, new)
    BY <1>5 DEF Add
  <2>2. status' = status
    BY <1>5 DEF Add
  <2>3. new \in Seq(without) /\ Len(new) = Cardinality(without)
    BY <1>3, ListsAreSequences
  <2>4. new \in Seq(S) /\ Len(new) \in Nat /\ \A k \in 1..Len(new) : new[k] \in S
    <3> HIDE DEF without
    <3>1. without \subseteq S
      BY DEF without
    <3>2. new \in Seq(S)
      BY <2>3, <3>1, SeqMonotonic
    <3> QED
      BY <3>2, LenProperties, ElementOfSeq
  <2>5. Growing(S, y, new)
    BY <1>1, <1>2, <2>4, AddedGrows
  <2>6. down' \in Seq(Downtimes) /\ Len(down') = Len(down) + Len(new)
    BY <2>1, <2>5 DEF Growing
  <2>7. Len(down') <= MaxDown
    BY <1>1, <1>3, <1>5, <2>3, <2>4, <2>6
  <2>8. ASSUME NEW i \in 1..Len(down')
        PROVE  /\ stations # << >> => down'[i].sta \in Numbers
               /\ y.beg <= y.end /\ Forward => down'[i].beg <= down'[i].end
    <3>1. CASE i \in 1..Len(down)
      <4>1. down'[i].sta = down[i].sta /\ down'[i] \in {down[i], Merged(down[i], y)}
            /\ (~Touches(down[i], y) => down'[i] = down[i])
        BY <2>1, <2>5, <3>1 DEF Growing
      <4>2. down[i] \in Downtimes
        BY <1>1, <3>1
      <4>3. stations # << >> => down[i].sta \in Numbers
        BY <3>1 DEF TypeOK, Entries
      <4>4. ASSUME Forward, y.beg <= y.end
            PROVE  down'[i].beg <= down'[i].end
        BY <3>1, <4>1, <4>2, <4>4 DEF Forward, Entries, Downtimes, Merged, Touches, Same
      <4> QED
        BY <4>1, <4>3, <4>4
    <3>2. CASE i \notin 1..Len(down)
      <4>1. PICK k \in 1..Len(new) : i = Len(down) + k
        <5>1. i - Len(down) \in 1..Len(new)
          BY <1>1, <2>4, <2>6, <3>2
        <5>2. i = Len(down) + (i - Len(down))
          BY <1>1, <2>4, <2>6
        <5> QED
          BY <5>1, <5>2
      <4>2. down'[i] = [sta |-> new[k], beg |-> y.beg, end |-> y.end]
        BY <2>1, <2>5, <4>1 DEF Growing
      <4> QED
        BY <2>4, <4>2
    <3> QED
      BY <3>1, <3>2
  <2> QED
    BY <2>2, <2>6, <2>7, <2>8
<1> QED
    BY <1>4, <1>5

\* Keep leaves a shorter list of what was there.
LEMMA KeepKeeps ==
    ASSUME TypeOK, NEW K \in SUBSET Entries, Keep(K)
    PROVE  /\ down' \in Seq(Downtimes) /\ Len(down') <= MaxDown
           /\ stations # << >> => \A i \in 1..Len(down') : down'[i].sta \in Numbers
           /\ Forward => \A i \in 1..Len(down') : down'[i].beg <= down'[i].end
<1>1. down \in Seq(Downtimes) /\ Len(down) \in Nat /\ Len(down) <= MaxDown /\ MaxDown \in Nat
    BY BoundsAreNumbers DEF TypeOK
<1>2. PICK pick \in Picks(K) : down' = [k \in DOMAIN pick |-> down[pick[k]]]
    BY DEF Keep
<1>3. /\ DOMAIN pick = 1..Cardinality(K)
      /\ Cardinality(K) \in Nat /\ Cardinality(K) <= Len(down)
      /\ \A k \in DOMAIN pick : pick[k] \in K
    BY <1>1, PicksAreShorter DEF Entries
<1>4. \A k \in 1..Cardinality(K) : down[pick[k]] \in Downtimes
  <2>1. \A i \in Entries : down[i] \in Downtimes
    BY <1>1, ElementOfSeq DEF Entries
  <2> QED
    BY <1>3, <2>1
<1>5. down' \in [1..Cardinality(K) -> Downtimes]
    BY <1>2, <1>3, <1>4
<1>6. down' \in Seq(Downtimes) /\ Len(down') = Cardinality(K)
  <2> DEFINE c == Cardinality(K)
  <2>1. c \in Nat /\ down' \in [1..c -> Downtimes]
    BY <1>3, <1>5
  <2> HIDE DEF c
  <2>2. down' \in Seq(Downtimes) /\ Len(down') = c
    BY <2>1
  <2> QED
    BY <2>2 DEF c
<1>7. \A i \in 1..Len(down') : down'[i] = down[pick[i]] /\ pick[i] \in Entries
    BY <1>2, <1>3, <1>6
<1>8. Len(down') <= MaxDown
    BY <1>1, <1>3, <1>6
<1>9. stations # << >> => \A i \in Entries : down[i].sta \in Numbers
    BY DEF TypeOK
<1>10. Forward => \A i \in Entries : down[i].beg <= down[i].end
    BY DEF Forward
<1> QED
    BY <1>6, <1>7, <1>8, <1>9, <1>10

-----------------------------------------------------------------------------
(***************************************************************************)
(* The invariant: types, and under TypedForward also Forward.              *)
(***************************************************************************)
DowntimeInv == TypeOK /\ (TypedForward => Forward)

\* At first there are no downtimes.
LEMMA InvHoldsAtFirst == Init => DowntimeInv
<1> SUFFICES ASSUME Init PROVE DowntimeInv
    OBVIOUS
<1> USE DEF Init
<1>1. down \in Seq(Downtimes) /\ Len(down) = 0 /\ unread \in Seq(Lines) /\ DOMAIN unread = {}
    OBVIOUS
<1>2. plan \in [Starts -> [Names -> 0..MaxDur]]
    BY BoundsAreNumbers DEF NoScan
<1> QED
    BY <1>1, <1>2, BoundsAreNumbers DEF DowntimeInv, TypeOK, Forward, Entries

\* What is left to show of a step that only changes the list of downtimes.
LEMMA DownOnly ==
    ASSUME DowntimeInv, UNCHANGED <<stations, unread, plan>>,
           did' \in {"other", "drop", "off"}, status' \in {"ok", "failed"},
           down' \in Seq(Downtimes), Len(down') <= MaxDown,
           stations # << >> => \A i \in 1..Len(down') : down'[i].sta \in Numbers,
           TypedForward => \A i \in 1..Len(down') : down'[i].beg <= down'[i].end
    PROVE  DowntimeInv'
BY DEF DowntimeInv, TypeOK, Forward, Entries, Numbers, TypedForward

\* Setting and removing downtimes keeps the invariant.
LEMMA InvAfterCommands ==
    ASSUME DowntimeInv, NEW S \in SUBSET Numbers,
           \/ \E y \in Intervals : Set(S, y) \/ RemoveOne(S, y)
           \/ RemoveAll(S)
    PROVE  DowntimeInv'
<1> USE DEF DowntimeInv
<1>1. \A y \in Intervals : y.beg \in Int /\ y.end \in Int
    BY IntervalsAreNumbers
<1>2. CASE \E y \in Intervals : Set(S, y)
  <2>1. PICK y \in Intervals : Set(S, y)
    BY <1>2
  <2>2. Add(S, y) /\ UNCHANGED <<stations, unread, plan>> /\ did' = "other" /\ status = "ok"
    BY <2>1 DEF Set, Command
  <2>3. /\ down' \in Seq(Downtimes) /\ Len(down') <= MaxDown
        /\ status' \in {status, "failed"}
        /\ stations # << >> => \A i \in 1..Len(down') : down'[i].sta \in Numbers
        /\ y.beg <= y.end /\ Forward => \A i \in 1..Len(down') : down'[i].beg <= down'[i].end
    BY <1>1, <2>2, AddKeeps
  <2>4. TypedForward => y.beg <= y.end
    BY DEF TypedForward
  <2> QED
    BY <2>2, <2>3, <2>4, DownOnly
<1>3. CASE \E y \in Intervals : RemoveOne(S, y)
  <2>1. PICK y \in Intervals : RemoveOne(S, y)
    BY <1>3
  <2>2. PICK K \in SUBSET Entries : Keep(K)
    BY <2>1 DEF RemoveOne
  <2>3. /\ down' \in Seq(Downtimes) /\ Len(down') <= MaxDown
        /\ stations # << >> => \A i \in 1..Len(down') : down'[i].sta \in Numbers
        /\ Forward => \A i \in 1..Len(down') : down'[i].beg <= down'[i].end
    BY <2>2, KeepKeeps
  <2> QED
    BY <2>1, <2>3, DownOnly DEF RemoveOne, Command
<1>4. CASE RemoveAll(S)
  <2>1. PICK K \in SUBSET Entries : Keep(K)
    BY <1>4 DEF RemoveAll
  <2>2. /\ down' \in Seq(Downtimes) /\ Len(down') <= MaxDown
        /\ stations # << >> => \A i \in 1..Len(down') : down'[i].sta \in Numbers
        /\ Forward => \A i \in 1..Len(down') : down'[i].beg <= down'[i].end
    BY <2>1, KeepKeeps
  <2> QED
    BY <1>4, <2>2, DownOnly DEF RemoveAll, Command
<1> QED
    BY <1>2, <1>3, <1>4

\* OFF keeps the invariant, whichever numbers its variables happen to hold.
LEMMA InvAfterOff ==
    ASSUME DowntimeInv, Off
    PROVE  DowntimeInv'
<1> USE DEF DowntimeInv
<1>1. CASE \E S \in SUBSET Numbers : Keep({i \in Entries : down[i].sta \notin S}) /\ UNCHANGED status
  <2>1. PICK K \in SUBSET Entries : Keep(K)
    BY <1>1
  <2>2. /\ down' \in Seq(Downtimes) /\ Len(down') <= MaxDown
        /\ stations # << >> => \A i \in 1..Len(down') : down'[i].sta \in Numbers
        /\ Forward => \A i \in 1..Len(down') : down'[i].beg <= down'[i].end
    BY <2>1, KeepKeeps
  <2> QED
    BY <1>1, <2>2, DownOnly DEF Off, Command
<1>2. CASE UNCHANGED down /\ status' = "failed"
    BY <1>2, DownOnly DEF Off, TypeOK, Forward, Entries
<1> QED
    BY <1>1, <1>2 DEF Off

\* A station that is in the new list has a number in it.
LEMMA RenumberedIsInUse ==
    ASSUME NEW list \in Selections, NEW x \in Downtimes, Code(x.sta) \in Members(list)
    PROVE  /\ Renumbered(x, list) \in Downtimes
           /\ Renumbered(x, list).sta \in 1..Len(list)
           /\ list[Renumbered(x, list).sta] = Code(x.sta)
           /\ Renumbered(x, list).beg = x.beg /\ Renumbered(x, list).end = x.end
<1>1. \E s \in DOMAIN list : list[s] = Code(x.sta)
    BY DEF Members
<1>2. NumberOf(list, Code(x.sta)) \in DOMAIN list /\ list[NumberOf(list, Code(x.sta))] = Code(x.sta)
    BY <1>1 DEF NumberOf
<1>3. DOMAIN list = 1..Len(list) /\ Len(list) \in Nat
    BY StationsAreDistinct
<1>4. NumberOf(list, Code(x.sta)) \in Nat
    BY <1>2, <1>3
<1> QED
    BY <1>2, <1>3, <1>4 DEF Renumbered, Downtimes

\* So does the renumbering by a new selection.
LEMMA InvAfterSelect ==
    ASSUME DowntimeInv, NEW list \in Selections, Select(list)
    PROVE  DowntimeInv'
<1> USE DEF DowntimeInv
<1>1. unread = << >> /\ unread' = << >> /\ stations' = list /\ UNCHANGED <<plan, status>> /\ did' = "other"
    BY DEF Select, Command
<1>2. CASE list = << >>
    BY <1>1, <1>2 DEF Select, TypeOK, Forward, Entries, TypedForward
<1>3. CASE list # << >>
  <2> DEFINE K == {i \in Entries : Code(down[i].sta) \in Members(list)}
  <2>1. PICK pick \in Picks(K) : down' = [k \in DOMAIN pick |-> Renumbered(down[pick[k]], list)]
    BY <1>3 DEF Select
  <2>2. down \in Seq(Downtimes) /\ Len(down) \in Nat /\ Len(down) <= MaxDown /\ MaxDown \in Nat
    BY BoundsAreNumbers DEF TypeOK
  <2>3. /\ DOMAIN pick = 1..Cardinality(K)
        /\ Cardinality(K) \in Nat /\ Cardinality(K) <= Len(down)
        /\ \A k \in DOMAIN pick : pick[k] \in K
    BY <2>2, PicksAreShorter DEF Entries
  <2>4. \A i \in K : down[i] \in Downtimes
    BY <2>2, ElementOfSeq DEF Entries
  <2>5. \A k \in DOMAIN pick : /\ Renumbered(down[pick[k]], list) \in Downtimes
                               /\ Renumbered(down[pick[k]], list).sta \in 1..Len(list)
                               /\ Renumbered(down[pick[k]], list).beg = down[pick[k]].beg
                               /\ Renumbered(down[pick[k]], list).end = down[pick[k]].end
    BY <2>3, <2>4, RenumberedIsInUse
  <2>6. down' \in [1..Cardinality(K) -> Downtimes]
    BY <2>1, <2>3, <2>5
  <2>7. K \subseteq Entries
    OBVIOUS
  <2> HIDE DEF K
  <2>8. down' \in Seq(Downtimes) /\ Len(down') = Cardinality(K)
    BY <2>3, <2>6
  <2>9. \A i \in 1..Len(down') : down'[i] = Renumbered(down[pick[i]], list) /\ pick[i] \in Entries
    BY <2>1, <2>3, <2>7, <2>8
  <2>10. TypeOK'
    <3>1. Len(down') <= MaxDown
      BY <2>2, <2>3, <2>8
    <3>2. \A i \in 1..Len(down') : down'[i].sta \in 1..Len(list)
      BY <2>3, <2>5, <2>8, <2>9
    <3> QED
      BY <1>1, <2>8, <3>1, <3>2 DEF TypeOK, Entries, Numbers
  <2>11. Forward => Forward'
    BY <1>1, <2>3, <2>5, <2>8, <2>9 DEF Forward, Entries
  <2> QED
    BY <2>10, <2>11 DEF TypedForward
<1> QED
    BY <1>2, <1>3

\* Writing the list and opening the file makes lines of the right form.
LEMMA InvAfterReopen ==
    ASSUME DowntimeInv, Reopen
    PROVE  DowntimeInv'
<1> USE DEF DowntimeInv
<1>1. PICK pick \in Picks(Heads) : unread' = [k \in DOMAIN pick |-> Line(pick[k])]
    BY DEF Reopen
<1>2. down' = << >> /\ did' = "other" /\ UNCHANGED <<stations, plan, status>> /\ stations # << >>
    BY DEF Reopen
<1>3. down \in Seq(Downtimes) /\ Len(down) \in Nat
    BY DEF TypeOK
<1>4. Heads \in SUBSET (1..Len(down)) /\ Heads \subseteq Entries
    BY DEF Heads, Entries
<1>5. /\ DOMAIN pick = 1..Cardinality(Heads)
      /\ Cardinality(Heads) \in Nat
      /\ \A k \in DOMAIN pick : pick[k] \in Heads
    BY <1>3, <1>4, PicksAreShorter
<1>6. ASSUME NEW i \in Entries
      PROVE  /\ Line(i) \in Lines /\ Line(i).sta \subseteq Numbers
             /\ Line(i).beg = down[i].beg /\ Line(i).end = down[i].end
  <2>1. \A j \in Entries : down[j] \in Downtimes /\ down[j].sta \in Numbers
    BY <1>2, <1>3, ElementOfSeq DEF Entries, TypeOK
  <2> QED
    BY <1>6, <2>1 DEF Line, Lines, Downtimes
<1>7. unread' \in [1..Cardinality(Heads) -> Lines]
    BY <1>1, <1>4, <1>5, <1>6
<1>8. unread' \in Seq(Lines) /\ DOMAIN unread' = 1..Cardinality(Heads)
    BY <1>5, <1>7
<1>9. \A k \in DOMAIN unread' : unread'[k] = Line(pick[k]) /\ pick[k] \in Entries
    BY <1>1, <1>4, <1>5
<1>10. down' \in Seq(Downtimes) /\ Len(down') = 0
    BY <1>2
<1>11. TypeOK'
    BY <1>2, <1>6, <1>8, <1>9, <1>10, BoundsAreNumbers DEF TypeOK, Entries, Numbers
<1>12. Forward => Forward'
    BY <1>6, <1>9, <1>10 DEF Forward, Entries
<1> QED
    BY <1>11, <1>12 DEF TypedForward

\* Reading a line back adds at most the entry it was written from.
LEMMA InvAfterReadLine ==
    ASSUME DowntimeInv, ReadLine
    PROVE  DowntimeInv'
<1> USE DEF DowntimeInv
<1>1. unread \in Seq(Lines) /\ unread # << >> /\ UNCHANGED <<stations, plan>> /\ did' = "other"
    BY DEF ReadLine, TypeOK
<1>2. Len(unread) \in Nat /\ 1 \in DOMAIN unread /\ Head(unread) = unread[1]
    BY <1>1
<1>3. Head(unread) \in Lines /\ Head(unread).sta \in SUBSET Numbers
    BY <1>1, <1>2, ElementOfSeq DEF TypeOK
<1>4. /\ down' \in Seq(Downtimes) /\ Len(down') <= MaxDown
      /\ status' \in {status, "failed"}
      /\ stations # << >> => \A i \in 1..Len(down') : down'[i].sta \in Numbers
      /\ Head(unread).beg <= Head(unread).end /\ Forward
            => \A i \in 1..Len(down') : down'[i].beg <= down'[i].end
  <2>1. Head(unread).beg \in Int /\ Head(unread).end \in Int
    BY <1>3 DEF Lines
  <2>2. Add(Head(unread).sta, Head(unread))
    BY DEF ReadLine
  <2> QED
    BY <1>3, <2>1, <2>2, AddKeeps
<1>5. unread' \in Seq(Lines) /\ \A k \in DOMAIN unread' : \E l \in DOMAIN unread : unread'[k] = unread[l]
  <2>1. CASE unread' = unread
    BY <1>1, <2>1
  <2>2. CASE unread' = Tail(unread)
    BY <1>1, <1>2, <2>2
  <2> QED
    BY <2>1, <2>2 DEF ReadLine
<1>6. TypeOK'
    BY <1>1, <1>4, <1>5 DEF TypeOK, Entries, Numbers
<1>7. Forward => Forward'
    BY <1>2, <1>4, <1>5 DEF Forward, Entries
<1> QED
    BY <1>6, <1>7 DEF TypedForward

\* The commands that read the downtimes leave them alone.
LEMMA InvAfterAsking ==
    ASSUME DowntimeInv,
           \/ \E t \in Starts, scan \in [Names -> 0..MaxDur] : Schedule(t, scan) \/ Fill(t, scan)
           \/ \E n \in Names, first \in Starts, D \in SUBSET Starts \ {{}} :
                 \E T \in [D -> 1..MaxDur] : TagAlong(n, first, T)
    PROVE  DowntimeInv'
<1> USE DEF DowntimeInv
<1>1. UNCHANGED <<stations, down, unread, status>> /\ did' \in {"scan", "fill", "tag"}
    BY DEF Schedule, Fill, TagAlong
<1>2. plan \in [Starts -> [Names -> 0..MaxDur]] /\ MaxDur \in Nat
    BY BoundsAreNumbers DEF TypeOK
<1>3. plan' \in [Starts -> [Names -> 0..MaxDur]]
  <2>1. CASE \E t \in Starts, scan \in [Names -> 0..MaxDur] : Schedule(t, scan)
    BY <1>2, <2>1 DEF Schedule
  <2>2. CASE \E t \in Starts, scan \in [Names -> 0..MaxDur] : Fill(t, scan)
    <3>1. PICK t \in Starts, scan \in [Names -> 0..MaxDur] : Fill(t, scan)
      BY <2>2
    <3>2. PICK n \in Longest(scan) : \E o \in RunnersUp(scan, n) :
              plan' = [plan EXCEPT ![t] = [scan EXCEPT ![n] = scan[o]]]
      BY <3>1 DEF Fill
    <3>3. PICK o \in RunnersUp(scan, n) : plan' = [plan EXCEPT ![t] = [scan EXCEPT ![n] = scan[o]]]
      BY <3>2
    <3>4. n \in Names /\ o \in Names
      BY DEF Longest, RunnersUp
    <3>5. [scan EXCEPT ![n] = scan[o]] \in [Names -> 0..MaxDur]
      BY <3>4
    <3> QED
      BY <1>2, <3>3, <3>5
  <2>3. CASE \E n \in Names, first \in Starts, D \in SUBSET Starts \ {{}} :
                \E T \in [D -> 1..MaxDur] : TagAlong(n, first, T)
    <3>0. PICK n \in Names, first \in Starts, D \in SUBSET Starts \ {{}} :
              \E T \in [D -> 1..MaxDur] : TagAlong(n, first, T)
      BY <2>3
    <3>1. PICK T \in [D -> 1..MaxDur] : TagAlong(n, first, T)
      BY <3>0
    <3>2. plan' = [t \in Starts |->
                     IF t \in DOMAIN T THEN [plan[t] EXCEPT ![n] = T[t]] ELSE plan[t]]
      BY <3>1 DEF TagAlong
    <3>3. \A t \in DOMAIN T : [plan[t] EXCEPT ![n] = T[t]] \in [Names -> 0..MaxDur]
      BY <1>2
    <3> QED
      BY <1>2, <3>2, <3>3
  <2> QED
    BY <2>1, <2>2, <2>3
<1>4. TypeOK'
    BY <1>1, <1>3 DEF TypeOK, Entries, Numbers
<1>5. Forward => Forward'
    BY <1>1 DEF Forward, Entries
<1> QED
    BY <1>4, <1>5 DEF TypedForward

\* Every step keeps the invariant.
LEMMA InvIsKept == DowntimeInv /\ [Next]_vars => DowntimeInv'
<1> SUFFICES ASSUME DowntimeInv, [Next]_vars PROVE DowntimeInv'
    OBVIOUS
<1>1. CASE UNCHANGED vars
    BY <1>1 DEF vars, DowntimeInv, TypeOK, Forward, TypedForward, Entries, Numbers
<1>2. CASE Next
    BY <1>2, InvAfterCommands, InvAfterOff, InvAfterSelect, InvAfterReopen, InvAfterReadLine,
       InvAfterAsking DEF Next
<1> QED
    BY <1>1, <1>2

\* The invariant holds in every behaviour.
LEMMA InvHolds == Spec => []DowntimeInv
BY InvHoldsAtFirst, InvIsKept, PTL DEF Spec

\* Stations, downtimes, lines to read and scans keep their types; the list never
\* outgrows its arrays in a session that goes on, and holds stations in use only
\* (downtime.f, restore_station_state).
THEOREM TypesAreKept == Spec => []TypeOK
<1>1. DowntimeInv => TypeOK
    BY DEF DowntimeInv
<1> QED
    BY <1>1, InvHolds, PTL

-----------------------------------------------------------------------------
(***************************************************************************)
(* kstatup.                                                                *)
(***************************************************************************)
LEMMA DowntimesAreNumbers ==
    ASSUME down \in Seq(Downtimes), NEW i \in Entries
    PROVE  down[i].beg \in Int /\ down[i].end \in Int
<1>1. down[i] \in Downtimes
    BY ElementOfSeq DEF Entries
<1> QED
    BY <1>1 DEF Downtimes

\* Two closed intervals that do not end before they begin have a moment in
\* common exactly when kstatup's three comparisons say so.
LEMMA MeetsIsOverlap ==
    ASSUME NEW b \in Int, NEW e \in Int, b <= e, NEW x, x.beg = b, x.end = e,
           NEW t \in Int, NEW d \in Nat
    PROVE  Meets(x, t, d) <=> (t .. t + d) \cap (b .. e) # {}
<1>1. Meets(x, t, d) <=> t <= e /\ b <= t + d
    BY DEF Meets
<1>2. t <= e /\ b <= t + d => (t .. t + d) \cap (b .. e) # {}
  <2>1. CASE t <= e /\ b <= t
    <3>1. t \in (t .. t + d) \cap (b .. e)
      BY <2>1
    <3> QED
      BY <3>1
  <2>2. CASE t < b /\ b <= t + d
    <3>1. b \in (t .. t + d) \cap (b .. e)
      BY <2>2
    <3> QED
      BY <3>1
  <2> QED
    BY <2>1, <2>2
<1>3. (t .. t + d) \cap (b .. e) # {} => t <= e /\ b <= t + d
    OBVIOUS
<1> QED
    BY <1>1, <1>2, <1>3

\* As long as no user types an interval that ends before it begins, kstatup says
\* that a station is up exactly when the scan meets none of its downtimes.
THEOREM UpIsRight == ASSUME TypedForward PROVE Spec => []UpIsClear
<1>1. DowntimeInv => UpIsClear
  <2> SUFFICES ASSUME DowntimeInv, NEW s \in Numbers, NEW t \in Starts, NEW d \in 1..MaxDur
               PROVE  Kstatup(s, t, d) <=>
                          \A i \in Entries : down[i].sta = s =>
                              (t .. t + d) \cap (down[i].beg .. down[i].end) = {}
    BY DEF UpIsClear
  <2>1. t \in Int /\ d \in Nat
    BY StartsAreNumbers, BoundsAreNumbers
  <2>2. \A i \in Entries : /\ down[i].beg \in Int /\ down[i].end \in Int
                           /\ down[i].beg <= down[i].end
    BY TypedForward, DowntimesAreNumbers DEF DowntimeInv, TypeOK, Forward
  <2>3. \A i \in Entries : Meets(down[i], t, d) <=> (t .. t + d) \cap (down[i].beg .. down[i].end) # {}
    BY <2>1, <2>2, MeetsIsOverlap
  <2> QED
    BY <2>3 DEF Kstatup
<1> QED
    BY <1>1, InvHolds, PTL

-----------------------------------------------------------------------------
(***************************************************************************)
(* New scans, FILL and TAGALONG.                                           *)
(***************************************************************************)
\* No downtime of the station begins between t and the time itime_to_down gives.
LEMMA NothingBeforeNextDown ==
    ASSUME down \in Seq(Downtimes), NEW t \in Int, NEW s
    PROVE  /\ ItimeToDown(t, s) \in Int
           /\ \A i \in Entries : down[i].sta = s /\ down[i].beg >= t
                                    => t + ItimeToDown(t, s) <= down[i].beg
<1> DEFINE All == {Day} \cup Ahead(t, s)
<1>1. \A i \in Entries : down[i].beg \in Int
    BY DowntimesAreNumbers
<1>2. Ahead(t, s) \subseteq Nat /\ Day \in Nat
    BY <1>1, BoundsAreNumbers DEF Ahead
<1>3. \E m \in All : \A j \in All : m <= j
    BY <1>2, HasLeast
<1>4. \E m \in All : m <= Day /\ \A x \in Ahead(t, s) : m <= x
    BY <1>3
<1>5. ItimeToDown(t, s) \in All /\ \A x \in Ahead(t, s) : ItimeToDown(t, s) <= x
    BY <1>4 DEF ItimeToDown
<1>6. ItimeToDown(t, s) \in Nat
    BY <1>2, <1>5
<1>7. ASSUME NEW i \in Entries, down[i].sta = s, down[i].beg >= t
      PROVE  t + ItimeToDown(t, s) <= down[i].beg
  <2>1. down[i].beg - t \in Ahead(t, s)
    BY <1>7 DEF Ahead
  <2> QED
    BY <1>1, <1>5, <1>6, <1>7, <2>1
<1> QED
    BY <1>6, <1>7

\* A name has one number.
LEMMA OneNumber ==
    ASSUME stations \in Selections, NEW n \in Names, NEW s, Code(s) = n
    PROVE  s \in Numbers /\ NumberOf(stations, n) = s
<1>1. s \in Numbers /\ stations[s] = n
    BY NamesAreFinite DEF Code
<1>2. Numbers = DOMAIN stations /\ \A i, j \in DOMAIN stations : stations[i] = stations[j] => i = j
    BY StationsAreDistinct DEF Numbers
<1> QED
    BY <1>1, <1>2 DEF NumberOf

\* A scan that runs into a downtime after newob ran into it before.
LEMMA ScheduleStaysClear ==
    ASSUME TypeOK, NEW t \in Starts, NEW scan \in [Names -> 0..MaxDur], Schedule(t, scan),
           NEW at \in Starts, NEW n \in Names, RunsInto(n, at, plan'[at][n])
    PROVE  RunsInto(n, at, plan[at][n])
<1>1. plan' = [plan EXCEPT ![t] = scan] /\ plan \in [Starts -> [Names -> 0..MaxDur]]
    BY DEF Schedule, TypeOK
<1>2. CASE at # t
    BY <1>1, <1>2
<1>3. CASE at = t
  <2>1. scan[n] > 0 /\ scan[n] \in Int /\ t \in Int /\ plan'[at][n] = scan[n]
    BY <1>1, <1>3, StartsAreNumbers, BoundsAreNumbers DEF RunsInto
  <2>2. PICK i \in Entries : Code(down[i].sta) = n /\ t < down[i].end /\ down[i].beg < t + scan[n]
    BY <1>3, <2>1 DEF RunsInto
  <2>3. NumberOf(stations, n) = down[i].sta
    BY <2>2, OneNumber DEF TypeOK
  <2>4. Kstatup(down[i].sta, t, scan[n])
    BY <2>1, <2>3 DEF Schedule, Observing
  <2>5. ~Meets(down[i], t, scan[n])
    BY <2>4 DEF Kstatup
  <2>6. down[i].beg \in Int /\ down[i].end \in Int
    BY DowntimesAreNumbers DEF TypeOK
  <2> QED
    BY <2>1, <2>2, <2>5, <2>6 DEF Meets
<1> QED
    BY <1>2, <1>3

\* A scan that runs into a downtime after FILL ran into it before.
LEMMA FillStaysClear ==
    ASSUME TypeOK, NEW t \in Starts, NEW scan \in [Names -> 0..MaxDur], Fill(t, scan),
           NEW at \in Starts, NEW n \in Names, RunsInto(n, at, plan'[at][n])
    PROVE  RunsInto(n, at, plan[at][n])
<1>1. PICK l \in Longest(scan) : \E o \in RunnersUp(scan, l) :
          plan' = [plan EXCEPT ![t] = [scan EXCEPT ![l] = scan[o]]]
    BY DEF Fill
<1>2. PICK o \in RunnersUp(scan, l) : plan' = [plan EXCEPT ![t] = [scan EXCEPT ![l] = scan[o]]]
    BY <1>1
<1>3. plan \in [Starts -> [Names -> 0..MaxDur]] /\ l \in Names /\ o \in Names /\ scan[o] <= scan[l]
    BY DEF TypeOK, Longest, RunnersUp
<1>4. CASE at # t
    BY <1>2, <1>3, <1>4
<1>5. CASE at = t
  <2>1. /\ plan'[at][n] \in 0..MaxDur /\ plan'[at][n] <= scan[n] /\ MaxDur \in Nat
        /\ scan[n] \in Int /\ plan[t][n] \in Int /\ t \in Int
    BY <1>2, <1>3, <1>5, StartsAreNumbers, BoundsAreNumbers
  <2>2. plan'[at][n] > 0
    BY DEF RunsInto
  <2>3. PICK i \in Entries : /\ Code(down[i].sta) = n
                             /\ t < down[i].end /\ down[i].beg < t + plan'[at][n]
    BY <1>5 DEF RunsInto
  <2>4. down[i].beg \in Int /\ down[i].end \in Int
    BY DowntimesAreNumbers DEF TypeOK
  <2>5. scan[n] > 0 /\ n \in Observing(scan)
    BY <2>1, <2>2 DEF Observing
  <2>6. plan[t][n] > 0
    BY <2>5 DEF Fill, Observing
  <2>7. CASE down[i].beg < t
    BY <1>5, <2>1, <2>3, <2>4, <2>6, <2>7 DEF RunsInto
  <2>8. CASE down[i].beg >= t
    <3>1. NumberOf(stations, n) = down[i].sta
      BY <2>3, OneNumber DEF TypeOK
    <3>2. /\ ItimeToDown(t, down[i].sta) \in Int
          /\ t + ItimeToDown(t, down[i].sta) <= down[i].beg
      BY <2>1, <2>8, NothingBeforeNextDown DEF TypeOK
    <3>3. ~(scan[n] <= ItimeToDown(t, down[i].sta))
      BY <2>1, <2>3, <2>4, <3>2
    <3>4. scan[n] = plan[t][n]
      BY <2>5, <3>1, <3>3 DEF Fill
    <3> QED
      BY <1>5, <2>1, <2>3, <2>4, <2>6, <3>4 DEF RunsInto
  <2> QED
    BY <2>4, <2>1, <2>7, <2>8
<1> QED
    BY <1>4, <1>5

\* TAGALONG takes a station into its downtime in the first of its scans, whose
\* question was about another station, or for longer than it asked.
LEMMA TagStaysClear ==
    ASSUME TypeOK, NEW m \in Names, NEW first \in Starts, NEW D \in SUBSET Starts,
           NEW T \in [D -> 1..MaxDur], TagAlong(m, first, T),
           NEW at \in Starts, NEW n \in Names, RunsInto(n, at, plan'[at][n]), plan[at][n] = 0,
           NEW u \in Starts, plan'[u] # plan[u], u < at
    PROVE  \E lead \in Observing(plan[at]) : plan[at][lead] < plan'[at][n]
<1>1. /\ plan \in [Starts -> [Names -> 0..MaxDur]]
      /\ plan' = [t \in Starts |->
                    IF t \in D THEN [plan[t] EXCEPT ![m] = T[t]] ELSE plan[t]]
    BY DEF TagAlong, TypeOK
<1>2. plan'[at][n] > 0
    BY DEF RunsInto
<1>3. at \in D /\ n = m /\ plan'[at][n] = T[at] /\ T[at] \in 1..MaxDur
  <2>1. at \in D
    BY <1>1, <1>2
  <2>2. plan'[at] = [plan[at] EXCEPT ![m] = T[at]] /\ plan[at] \in [Names -> 0..MaxDur]
    BY <1>1, <2>1
  <2> QED
    BY <1>2, <2>1, <2>2
<1>4. u \in D
    BY <1>1
<1>5. at # first
  <2>1. first <= u /\ first \in Int /\ u \in Int /\ at \in Int
    BY <1>4, StartsAreNumbers DEF TagAlong
  <2> QED
    BY <2>1
<1>6. PICK lead \in Observing(plan[at]) : Kstatup(NumberOf(stations, m), at, plan[at][lead])
    BY <1>3, <1>5 DEF TagAlong
<1>7. PICK i \in Entries : /\ Code(down[i].sta) = n
                          /\ at < down[i].end /\ down[i].beg < at + T[at]
    BY <1>3 DEF RunsInto
<1>8. ~Meets(down[i], at, plan[at][lead])
  <2>1. NumberOf(stations, m) = down[i].sta
    BY <1>3, <1>7, OneNumber DEF TypeOK
  <2> QED
    BY <1>6, <2>1 DEF Kstatup
<1>9. /\ down[i].beg \in Int /\ down[i].end \in Int /\ at \in Int
      /\ plan[at][lead] \in Int /\ T[at] \in Int
    BY <1>1, <1>3, DowntimesAreNumbers, StartsAreNumbers, BoundsAreNumbers
       DEF TypeOK, Observing
<1>10. plan[at][lead] < T[at]
    BY <1>7, <1>8, <1>9 DEF Meets
<1> QED
    BY <1>3, <1>10

\* Neither a new scan nor FILL takes a station into a downtime that its scan was
\* clear of (newob.f, fillcmd.f), and TAGALONG only where it asks too little
\* (chcmd.f), whatever intervals users type.
THEOREM ScansNeverEnterDowntimes == Spec => ScansStayClear
<1> DEFINE Clear(t, n) ==
             RunsInto(n, t, plan'[t][n]) =>
               /\ did' \in {"scan", "fill"} => RunsInto(n, t, plan[t][n])
               /\ did' = "tag" /\ plan[t][n] = 0 =>
                    \/ \A u \in Starts : plan'[u] # plan[u] => t <= u
                    \/ \E lead \in Observing(plan[t]) : plan[t][lead] < plan'[t][n]
           Step == \A t \in Starts, n \in Names : Clear(t, n)
<1>1. ASSUME DowntimeInv, [Next]_vars
      PROVE  [Step]_vars
  <2>1. CASE UNCHANGED vars
    BY <2>1
  <2>2. CASE \E t \in Starts, scan \in [Names -> 0..MaxDur] : Schedule(t, scan)
    <3>1. PICK t \in Starts, scan \in [Names -> 0..MaxDur] : Schedule(t, scan)
      BY <2>2
    <3>2. Step
      BY <1>1, <3>1, ScheduleStaysClear DEF DowntimeInv, Schedule
    <3> QED
      BY <3>2
  <2>3. CASE \E t \in Starts, scan \in [Names -> 0..MaxDur] : Fill(t, scan)
    <3>1. PICK t \in Starts, scan \in [Names -> 0..MaxDur] : Fill(t, scan)
      BY <2>3
    <3>2. Step
      BY <1>1, <3>1, FillStaysClear DEF DowntimeInv, Fill
    <3> QED
      BY <3>2
  <2>4. CASE \E m \in Names, first \in Starts, D \in SUBSET Starts \ {{}} :
               \E T \in [D -> 1..MaxDur] : TagAlong(m, first, T)
    <3>1. PICK m \in Names, first \in Starts, D \in SUBSET Starts \ {{}} :
               \E T \in [D -> 1..MaxDur] : TagAlong(m, first, T)
      BY <2>4
    <3>2. PICK T \in [D -> 1..MaxDur] : TagAlong(m, first, T)
      BY <3>1
    <3>3. did' = "tag" /\ D \in SUBSET Starts /\ TypeOK
      BY <1>1, <3>2 DEF TagAlong, DowntimeInv
    <3>4. ASSUME NEW t \in Starts, NEW n \in Names, RunsInto(n, t, plan'[t][n]),
                 plan[t][n] = 0, NEW u \in Starts, plan'[u] # plan[u], ~(t <= u)
          PROVE  \E lead \in Observing(plan[t]) : plan[t][lead] < plan'[t][n]
      <4>1. u < t
        BY <3>4, StartsAreNumbers
      <4> QED
        BY <3>2, <3>3, <3>4, <4>1, TagStaysClear
    <3>5. Step
      BY <3>3, <3>4
    <3> QED
      BY <3>5
  <2>5. CASE did' \notin {"scan", "fill", "tag"}
    BY <2>5
  <2>6. \/ UNCHANGED vars
        \/ \E t \in Starts, scan \in [Names -> 0..MaxDur] : Schedule(t, scan)
        \/ \E t \in Starts, scan \in [Names -> 0..MaxDur] : Fill(t, scan)
        \/ \E m \in Names, first \in Starts, D \in SUBSET Starts \ {{}} :
              \E T \in [D -> 1..MaxDur] : TagAlong(m, first, T)
        \/ did' \notin {"scan", "fill", "tag"}
    BY <1>1 DEF Next, Set, RemoveOne, RemoveAll, Off, Select, Reopen, ReadLine
  <2> QED
    BY <2>1, <2>2, <2>3, <2>4, <2>5, <2>6
<1> QED
    BY <1>1, InvHolds, PTL DEF Spec, ScansStayClear

-----------------------------------------------------------------------------
(***************************************************************************)
(* The list, merged, renumbered, written and read, implements what         *)
(* DOWNTIME promises.                                                      *)
(***************************************************************************)
\* The code of number s in a list of stations, and whether a list of downtimes
\* or of lines still to be read has station n down at moment m.
CodeIn(list, s) == IF s \in 1..Len(list) THEN list[s] ELSE Blank
DownAt(list, d, n, m)  == \E i \in 1..Len(d) : CodeIn(list, d[i].sta) = n /\ m \in d[i].beg .. d[i].end
LinesAt(list, l, n, m) == \E k \in DOMAIN l : /\ \E s \in l[k].sta : CodeIn(list, s) = n
                                              /\ m \in l[k].beg .. l[k].end
Codes(S) == {Code(s) : s \in S}

\* The moments a station is blocked are those of its entries and of its unread lines.
LEMMA BlockedAt ==
    \A n \in Names :
        /\ \A m : m \in Blocked[n] <=> DownAt(stations, down, n, m) \/ LinesAt(stations, unread, n, m)
        /\ \A m : m \in Blocked'[n] <=> \/ DownAt(stations', down', n, m)
                                        \/ LinesAt(stations', unread', n, m)
<1>1. ASSUME NEW n \in Names, NEW m
      PROVE  m \in Blocked[n] <=> DownAt(stations, down, n, m) \/ LinesAt(stations, unread, n, m)
  <2>1. m \in Blocked[n] <=>
            \/ \E i \in Entries : Code(down[i].sta) = n /\ m \in down[i].beg .. down[i].end
            \/ \E k \in DOMAIN unread : /\ \E s \in unread[k].sta : Code(s) = n
                                         /\ m \in unread[k].beg .. unread[k].end
    BY DEF Blocked
  <2> QED
    BY <2>1 DEF Code, Numbers, CodeIn, DownAt, LinesAt, Entries
<1>2. ASSUME NEW n \in Names, NEW m
      PROVE  m \in Blocked'[n] <=> \/ DownAt(stations', down', n, m)
                                   \/ LinesAt(stations', unread', n, m)
  <2>1. m \in Blocked'[n] <=>
            \/ \E i \in Entries' : Code(down[i].sta)' = n /\ m \in down'[i].beg .. down'[i].end
            \/ \E k \in DOMAIN unread' : /\ \E s \in unread'[k].sta : Code(s)' = n
                                          /\ m \in unread'[k].beg .. unread'[k].end
    BY DEF Blocked
  <2> QED
    BY <2>1 DEF Code, Numbers, CodeIn, DownAt, LinesAt, Entries
<1> QED
    BY <1>1, <1>2

\* A set of station numbers and the set of their codes determine each other.
LEMMA CodesOfNumbers ==
    ASSUME stations \in Selections, NEW S \in SUBSET Numbers
    PROVE  /\ Codes(S) \in SUBSET Members(stations) /\ Codes(S) \subseteq Names
           /\ \A s \in Numbers : Code(s) \in Codes(S) <=> s \in S
<1>1. /\ Numbers = DOMAIN stations /\ Members(stations) \subseteq Names
      /\ \A i, j \in DOMAIN stations : stations[i] = stations[j] => i = j
    BY StationsAreDistinct DEF Numbers
<1> QED
    BY <1>1 DEF Codes, Code, Members

\* Two intervals that meet, merged, hold the moments of both and no others.
LEMMA MergedHolds ==
    ASSUME NEW x \in Downtimes, NEW y, x.beg <= x.end,
           y.beg \in Int, y.end \in Int, y.beg <= y.end, Touches(x, y), NEW m
    PROVE  m \in Merged(x, y).beg .. Merged(x, y).end
               <=> m \in x.beg .. x.end \/ m \in y.beg .. y.end
<1>1. CASE Same(x, y)
    BY <1>1 DEF Merged, Same, Downtimes
<1>2. CASE ~Same(x, y) /\ x.beg = y.end
    BY <1>2 DEF Merged, Downtimes
<1>3. CASE ~Same(x, y) /\ x.beg # y.end /\ x.end = y.beg
    BY <1>3 DEF Merged, Downtimes
<1> QED
    BY <1>1, <1>2, <1>3 DEF Touches

\* Adding y makes the stations of S down for y, and nothing else.
LEMMA AddBlocks ==
    ASSUME TypeOK, Forward, NEW S \in SUBSET Numbers, NEW y, y.beg \in Int, y.end \in Int,
           y.beg <= y.end, Add(S, y), UNCHANGED stations
    PROVE  \/ /\ status' = status
              /\ \A n \in Names, m \in Int :
                    DownAt(stations, down', n, m)
                        <=> DownAt(stations, down, n, m) \/ (n \in Codes(S) /\ m \in y.beg .. y.end)
           \/ status' = "failed" /\ UNCHANGED down
<1> DEFINE without == {s \in S : Matches(s, y) = {}}
<1>1. Len(stations) \in Nat /\ Numbers = 1..Len(stations)
    BY StationsAreDistinct DEF TypeOK, Numbers
<1>2. IsFiniteSet(without)
  <2>1. IsFiniteSet(Numbers)
    BY <1>1, FS_Interval
  <2>2. without \in SUBSET Numbers
    OBVIOUS
  <2> QED
    BY <2>1, <2>2, FS_Subset
<1>3. CASE status' = "failed" /\ UNCHANGED down
    BY <1>3
<1>4. CASE UNCHANGED status /\ \E new \in Lists(without) : down' = Added(S, y, new)
  <2>1. PICK new \in Lists(without) : down' = Added(S, y, new)
    BY <1>4
  <2>2. /\ new \in Seq(without) /\ DOMAIN new = 1..Len(new) /\ Len(new) \in Nat
        /\ Members(new) = without
    BY <1>2, ListsAreSequences
  <2>3. \A k \in 1..Len(new) : new[k] \in without
    BY <2>2, ElementOfSeq
  <2>4. new \in [1..Len(new) -> S]
    BY <2>2, <2>3
  <2>5. new \in Seq(S)
    BY <2>2, <2>4
  <2>6. Growing(S, y, new)
    BY <1>1, <2>5, AddedGrows DEF TypeOK
  <2>7. Len(down) \in Nat /\ Len(down') = Len(down) + Len(new)
    BY <2>1, <2>6 DEF Growing, TypeOK
  <2>8. \A i \in Entries : /\ down[i] \in Downtimes
                           /\ down[i].beg \in Int /\ down[i].end \in Int
                           /\ down[i].beg <= down[i].end
    BY DowntimesAreNumbers, ElementOfSeq DEF TypeOK, Forward, Entries
  <2>9. \A i \in Entries : /\ i \in 1..Len(down') /\ down'[i].sta = down[i].sta
                           /\ down'[i] = IF /\ down[i].sta \in S /\ Touches(down[i], y)
                                            /\ \A j \in Matches(down[i].sta, y) : i <= j
                                         THEN Merged(down[i], y) ELSE down[i]
    BY <2>1, <2>2, <2>6, <2>7 DEF Growing, Entries
  <2>10. \A k \in 1..Len(new) :
            /\ Len(down) + k \in 1..Len(down')
            /\ down'[Len(down) + k] = [sta |-> new[k], beg |-> y.beg, end |-> y.end]
    BY <2>1, <2>2, <2>6, <2>7 DEF Growing, Entries
  <2>11. ASSUME NEW n \in Names, NEW m \in Int, DownAt(stations, down, n, m)
         PROVE  DownAt(stations, down', n, m)
    <3>1. PICK i \in 1..Len(down) : CodeIn(stations, down[i].sta) = n /\ m \in down[i].beg .. down[i].end
      BY <2>11 DEF DownAt
    <3>2. m \in down'[i].beg .. down'[i].end
      BY <2>8, <2>9, <3>1, MergedHolds DEF Entries
    <3>3. CodeIn(stations, down'[i].sta) = n /\ i \in 1..Len(down')
      BY <2>9, <3>1 DEF Entries
    <3> QED
      BY <3>2, <3>3 DEF DownAt
  <2>12. ASSUME NEW n \in Names, NEW m \in Int, n \in Codes(S), m \in y.beg .. y.end
         PROVE  DownAt(stations, down', n, m)
    <3>1. PICK s \in S : Code(s) = n
      BY <2>12 DEF Codes
    <3>2. CASE s \in without
      <4>1. PICK k \in 1..Len(new) : new[k] = s
        BY <2>2, <3>2 DEF Members
      <4>2. /\ Len(down) + k \in 1..Len(down')
            /\ down'[Len(down) + k] = [sta |-> s, beg |-> y.beg, end |-> y.end]
        BY <2>10, <4>1
      <4>3. PICK i \in 1..Len(down') : down'[i] = [sta |-> s, beg |-> y.beg, end |-> y.end]
        BY <4>2
      <4>4. CodeIn(stations, down'[i].sta) = n /\ m \in down'[i].beg .. down'[i].end
        BY <2>12, <3>1, <4>3 DEF Code, CodeIn, Numbers
      <4> QED
        BY <4>4 DEF DownAt
    <3>3. CASE s \notin without
      <4>1. Matches(s, y) # {} /\ Matches(s, y) \in SUBSET Nat /\ Matches(s, y) \subseteq Entries
        BY <2>7, <3>3 DEF Matches, Entries
      <4>2. PICK i \in Matches(s, y) : \A j \in Matches(s, y) : i <= j
        BY <4>1, HasLeast
      <4>3. i \in Entries /\ down[i].sta = s /\ Touches(down[i], y)
        BY <4>1, <4>2 DEF Matches
      <4>4. down'[i] = Merged(down[i], y) /\ down'[i].sta = s /\ i \in 1..Len(down')
        BY <2>9, <4>2, <4>3
      <4>5. m \in down'[i].beg .. down'[i].end
        BY <2>8, <2>12, <4>3, <4>4, MergedHolds
      <4> QED
        BY <3>1, <4>4, <4>5 DEF DownAt, Code, CodeIn, Numbers
    <3> QED
      BY <3>2, <3>3
  <2>13. ASSUME NEW n \in Names, NEW m \in Int, DownAt(stations, down', n, m)
         PROVE  DownAt(stations, down, n, m) \/ (n \in Codes(S) /\ m \in y.beg .. y.end)
    <3>1. PICK i \in 1..Len(down') : CodeIn(stations, down'[i].sta) = n /\ m \in down'[i].beg .. down'[i].end
      BY <2>13 DEF DownAt
    <3>3. CASE i \in Entries
      <4>1. CodeIn(stations, down[i].sta) = n
        BY <2>9, <3>1, <3>3
      <4>2. down'[i] # down[i] => down[i].sta \in S /\ Touches(down[i], y) /\ down'[i] = Merged(down[i], y)
        BY <2>9, <3>3
      <4>3. down'[i] # down[i] => n \in Codes(S)
        BY <4>1, <4>2 DEF Codes, Code, CodeIn, Numbers
      <4>4. CASE down'[i] = down[i]
        <5>1. i \in 1..Len(down) /\ m \in down[i].beg .. down[i].end
          BY <3>1, <3>3, <4>4 DEF Entries
        <5> QED
          BY <4>1, <5>1 DEF DownAt
      <4>5. CASE down'[i] # down[i]
        <5>1. m \in down[i].beg .. down[i].end \/ m \in y.beg .. y.end
          BY <2>8, <3>1, <3>3, <4>2, <4>5, MergedHolds
        <5>2. i \in 1..Len(down)
          BY <3>3 DEF Entries
        <5>3. m \in down[i].beg .. down[i].end => DownAt(stations, down, n, m)
          BY <4>1, <5>2 DEF DownAt
        <5> QED
          BY <4>3, <4>5, <5>1, <5>3
      <4> QED
        BY <4>4, <4>5
    <3>4. CASE i \notin Entries
      <4>1. i - Len(down) \in 1..Len(new) /\ i = Len(down) + (i - Len(down))
        BY <2>2, <2>7, <3>4 DEF Entries
      <4>2. PICK k \in 1..Len(new) : i = Len(down) + k
        BY <4>1
      <4>3. new[k] \in S /\ down'[i] = [sta |-> new[k], beg |-> y.beg, end |-> y.end]
        BY <2>3, <2>10, <4>2
      <4>4. Code(new[k]) = n /\ m \in y.beg .. y.end
        BY <3>1, <4>3 DEF Code, CodeIn, Numbers
      <4> QED
        BY <4>3, <4>4 DEF Codes
    <3> QED
      BY <3>3, <3>4
  <2> QED
    BY <1>4, <2>11, <2>12, <2>13
<1> QED
    BY <1>3, <1>4 DEF Add

\* Keep leaves the downtimes of K.
LEMMA KeepDown ==
    ASSUME TypeOK, NEW K \in SUBSET Entries, Keep(K), NEW list, NEW n, NEW m
    PROVE  DownAt(list, down', n, m) <=>
               \E i \in K : CodeIn(list, down[i].sta) = n /\ m \in down[i].beg .. down[i].end
<1>1. Len(down) \in Nat
    BY DEF TypeOK
<1>2. IsFiniteSet(K)
  <2>1. IsFiniteSet(Entries)
    BY <1>1, FS_Interval DEF Entries
  <2> QED
    BY <2>1, FS_Subset
<1>3. PICK pick \in Picks(K) : down' = [k \in DOMAIN pick |-> down[pick[k]]]
    BY DEF Keep
<1>4. pick \in Lists(K)
    BY DEF Picks
<1>5. DOMAIN pick = 1..Cardinality(K) /\ Members(pick) = K /\ Cardinality(K) \in Nat
    BY <1>2, <1>4, ListsAreSequences
<1>6. Len(down') = Cardinality(K)
    BY <1>3, <1>5
<1>7. \A k \in 1..Len(down') : pick[k] \in K /\ down'[k] = down[pick[k]]
    BY <1>3, <1>5, <1>6 DEF Members
<1>8. \A i \in K : \E k \in 1..Len(down') : pick[k] = i
    BY <1>5, <1>6 DEF Members
<1> QED
    BY <1>7, <1>8 DEF DownAt

\* What the steps of the list look like from outside.
LEMMA BlockedIs ==
    /\ Blocked = [n \in Names |-> Blocked[n]]
    /\ Blocked' = [n \in Names |-> Blocked'[n]]
BY DEF Blocked

\* Blocked moments are integers, now...
LEMMA BlockedIsTimes ==
    ASSUME TypeOK
    PROVE  \A n \in Names : Blocked[n] \subseteq Int
<1> SUFFICES ASSUME NEW n \in Names, NEW m \in Blocked[n] PROVE m \in Int
    OBVIOUS
<1>1. CASE DownAt(stations, down, n, m)
    BY <1>1, DowntimesAreNumbers DEF DownAt, TypeOK, Entries
<1>2. CASE LinesAt(stations, unread, n, m)
  <2>1. \A k \in DOMAIN unread : unread[k] \in Lines
    BY ElementOfSeq DEF TypeOK
  <2> QED
    BY <1>2, <2>1 DEF LinesAt, Lines
<1> QED
    BY <1>1, <1>2, BlockedAt

\* ... and after a step.
LEMMA BlockedIsTimesNext ==
    ASSUME TypeOK'
    PROVE  \A n \in Names : Blocked'[n] \subseteq Int
<1> SUFFICES ASSUME NEW n \in Names, NEW m \in Blocked'[n] PROVE m \in Int
    OBVIOUS
<1>1. CASE DownAt(stations', down', n, m)
  <2>1. \A i \in 1..Len(down') : down'[i] \in Downtimes
    BY ElementOfSeq DEF TypeOK
  <2> QED
    BY <1>1, <2>1 DEF DownAt, Downtimes
<1>2. CASE LinesAt(stations', unread', n, m)
  <2>1. \A k \in DOMAIN unread' : unread'[k] \in Lines
    BY ElementOfSeq DEF TypeOK
  <2> QED
    BY <1>2, <2>1 DEF LinesAt, Lines
<1> QED
    BY <1>1, <1>2, BlockedAt

\* With nothing left to read, a station is down by the list alone.
LEMMA BlockedByList ==
    /\ unread = << >> => \A n \in Names : \A m : m \in Blocked[n] <=> DownAt(stations, down, n, m)
    /\ unread' = << >> => \A n \in Names : \A m : m \in Blocked'[n] <=> DownAt(stations', down', n, m)
<1>1. \A list, n, m : ~LinesAt(list, << >>, n, m)
    BY DEF LinesAt
<1> QED
    BY <1>1, BlockedAt

\* A step that changes no downtime, selection or line to read.
LEMMA QuietStep ==
    ASSUME UNCHANGED <<stations, down, unread>>
    PROVE  UNCHANGED Blocked /\ UNCHANGED Members(stations)
BY DEF Blocked, Entries, Code, Numbers, Members

\* Setting a downtime, merged or not, blocks just the interval typed.
LEMMA SetRefines ==
    ASSUME TypeOK, Forward, TypedForward, NEW S \in SUBSET Numbers, NEW y \in Intervals, Set(S, y)
    PROVE  Promise!Next
<1>1. /\ unread = << >> /\ unread' = << >> /\ did' = "other" /\ status = "ok"
      /\ UNCHANGED stations /\ Add(S, y)
    BY DEF Set, Command
<1>2. y.beg \in Int /\ y.end \in Int /\ y.beg <= y.end
    BY IntervalsAreNumbers DEF TypedForward
<1>3. UNCHANGED Members(stations) /\ (did' \in {"drop", "off"}) = FALSE
    BY <1>1 DEF Members
<1>4. CASE UNCHANGED down
  <2>1. UNCHANGED Blocked
    BY <1>1, <1>4, QuietStep
  <2> QED
    BY <1>3, <2>1 DEF Promise!Next, Promise!Other
<1>5. CASE ~UNCHANGED down
  <2>1. \A n \in Names, m \in Int :
           DownAt(stations, down', n, m)
              <=> DownAt(stations, down, n, m) \/ (n \in Codes(S) /\ m \in y.beg .. y.end)
    BY <1>1, <1>2, <1>5, AddBlocks
  <2>2. \A n \in Names : Blocked[n] \subseteq Int /\ Blocked'[n] \subseteq Int
    <3>1. TypeOK'
      BY <1>1, InvAfterCommands DEF DowntimeInv
    <3>2. \A n \in Names : Blocked'[n] \subseteq Int
      BY <3>1, BlockedIsTimesNext
    <3> QED
      BY <3>2, BlockedIsTimes
  <2>3. \A n \in Names : Blocked'[n] = IF n \in Codes(S) THEN Blocked[n] \cup (y.beg .. y.end)
                                       ELSE Blocked[n]
    <3> TAKE n \in Names
    <3>1. \A m \in Int : m \in Blocked'[n] <=>
                            (m \in Blocked[n] \/ (n \in Codes(S) /\ m \in y.beg .. y.end))
      BY <1>1, <2>1, BlockedByList
    <3>2. /\ y.beg .. y.end \subseteq Int
          /\ Blocked[n] \subseteq Int /\ Blocked'[n] \subseteq Int
      BY <1>2, <2>2
    <3>3. CASE n \in Codes(S)
      BY <3>1, <3>2, <3>3
    <3>4. CASE n \notin Codes(S)
      BY <3>1, <3>2, <3>4
    <3> QED
      BY <3>3, <3>4
  <2>4. Promise!Block(Codes(S), y)
    BY <1>3, <2>3, BlockedIs DEF Promise!Block, Promise!Moments
  <2>5. Codes(S) \in SUBSET Members(stations)
    BY CodesOfNumbers DEF TypeOK
  <2> QED
    BY <2>4, <2>5 DEF Promise!Next
<1> QED
    BY <1>4, <1>5

\* Removing one downtime frees moments of its interval only, for the stations named.
LEMMA RemoveOneRefines ==
    ASSUME TypeOK, NEW S \in SUBSET Numbers, NEW y \in Intervals, RemoveOne(S, y)
    PROVE  Promise!Next
<1> DEFINE K == {i \in Entries : ~(down[i].sta \in S /\ Same(down[i], y))}
<1>1. /\ unread = << >> /\ unread' = << >> /\ did' = "other"
      /\ UNCHANGED stations /\ Keep(K)
    BY DEF RemoveOne, Command
<1>2. UNCHANGED Members(stations) /\ (did' \in {"drop", "off"}) = FALSE
    BY <1>1 DEF Members
<1>3. K \subseteq Entries
    OBVIOUS
<1>4. \A n \in Names : \A m :
         m \in Blocked'[n] <=>
             \E i \in K : CodeIn(stations, down[i].sta) = n /\ m \in down[i].beg .. down[i].end
    BY <1>1, <1>3, KeepDown, BlockedByList
<1>5. \A n \in Names : \A m :
         m \in Blocked[n] <=>
             \E i \in Entries : CodeIn(stations, down[i].sta) = n /\ m \in down[i].beg .. down[i].end
    BY <1>1, BlockedByList DEF DownAt, Entries
<1>6. \A n \in Names : Blocked'[n] \subseteq Blocked[n]
    BY <1>3, <1>4, <1>5
<1>7. ASSUME NEW n \in Names \ Codes(S)
      PROVE  Blocked'[n] = Blocked[n]
  <2>1. ASSUME NEW i \in Entries, CodeIn(stations, down[i].sta) = n
        PROVE  i \in K
    BY <1>7, <2>1 DEF Codes, Code, CodeIn, Numbers
  <2> HIDE DEF K
  <2> QED
    BY <1>4, <1>5, <1>6, <2>1
<1>8. ASSUME NEW n \in Names
      PROVE  Blocked[n] \ (y.beg .. y.end) \subseteq Blocked'[n]
  <2>1. ASSUME NEW m \in Blocked[n], m \notin y.beg .. y.end
        PROVE  m \in Blocked'[n]
    <3>1. PICK i \in Entries : CodeIn(stations, down[i].sta) = n /\ m \in down[i].beg .. down[i].end
      BY <1>5
    <3>2. i \in K
      BY <2>1, <3>1 DEF Same
    <3> HIDE DEF K
    <3> QED
      BY <1>4, <3>1, <3>2
  <2> QED
    BY <2>1
<1>9. Blocked' \in [Names -> SUBSET Int]
    BY <1>6, BlockedIsTimes, BlockedIs
<1>10. Promise!Free(Codes(S), y)
    BY <1>2, <1>6, <1>7, <1>8, <1>9, CodesOfNumbers DEF Promise!Free, Promise!Moments, TypeOK
<1>11. Codes(S) \in SUBSET Members(stations)
    BY CodesOfNumbers DEF TypeOK
<1> QED
    BY <1>10, <1>11 DEF Promise!Next

\* Removing all downtimes of the numbers in S, and nothing else.
LEMMA DropRefines ==
    ASSUME TypeOK, NEW S \in SUBSET Numbers, Keep({i \in Entries : down[i].sta \notin S}),
           unread = << >>, unread' = << >>, did' \in {"drop", "off"}, UNCHANGED stations
    PROVE  Promise!Next
<1> DEFINE K == {i \in Entries : down[i].sta \notin S}
<1>1. UNCHANGED Members(stations) /\ (did' \in {"drop", "off"}) = TRUE
    BY DEF Members
<1>2. K \subseteq Entries
    OBVIOUS
<1>3. \A n \in Names : \A m :
         m \in Blocked'[n] <=>
             \E i \in K : CodeIn(stations, down[i].sta) = n /\ m \in down[i].beg .. down[i].end
    BY <1>2, KeepDown, BlockedByList
<1>4. \A n \in Names : \A m :
         m \in Blocked[n] <=>
             \E i \in Entries : CodeIn(stations, down[i].sta) = n /\ m \in down[i].beg .. down[i].end
    BY BlockedByList DEF DownAt, Entries
<1>5. ASSUME NEW n \in Names, NEW i \in Entries, CodeIn(stations, down[i].sta) = n
      PROVE  i \in K <=> n \notin Codes(S)
  <2>1. Code(down[i].sta) = n /\ down[i].sta \in Numbers
    BY <1>5, OneNumber DEF Code, CodeIn, Numbers, TypeOK
  <2> QED
    BY <2>1, CodesOfNumbers DEF TypeOK
<1> HIDE DEF K
<1>6. \A n \in Names : Blocked'[n] = IF n \in Codes(S) THEN {} ELSE Blocked[n]
  <2> TAKE n \in Names
  <2>1. CASE n \in Codes(S)
    BY <1>2, <1>3, <1>5, <2>1
  <2>2. CASE n \notin Codes(S)
    BY <1>2, <1>3, <1>4, <1>5, <2>2
  <2> QED
    BY <2>1, <2>2
<1>7. Promise!Drop(Codes(S))
    BY <1>1, <1>6, BlockedIs DEF Promise!Drop, Promise!Clear
<1>8. Codes(S) \in SUBSET Members(stations)
    BY CodesOfNumbers DEF TypeOK
<1> QED
    BY <1>7, <1>8 DEF Promise!Next

\* OFF drops all downtimes of some stations, of none where it fails.
LEMMA OffRefines ==
    ASSUME TypeOK, Off
    PROVE  Promise!Next
<1>1. unread = << >> /\ unread' = << >> /\ did' = "off" /\ UNCHANGED stations
    BY DEF Off, Command
<1>2. CASE \E S \in SUBSET Numbers : Keep({i \in Entries : down[i].sta \notin S})
    BY <1>1, <1>2, DropRefines
<1>3. CASE UNCHANGED down
  <2>1. UNCHANGED Blocked /\ UNCHANGED Members(stations)
    BY <1>1, <1>3, QuietStep
  <2>2. Promise!Drop({})
    BY <1>1, <2>1, BlockedIs DEF Promise!Drop, Promise!Clear
  <2> QED
    BY <2>2 DEF Promise!Next
<1> QED
    BY <1>2, <1>3 DEF Off

\* A new selection drops the stations that are out and keeps the others' downtimes.
LEMMA SelectRefines ==
    ASSUME TypeOK, NEW list \in Selections, Select(list)
    PROVE  Promise!Next
<1>1. /\ unread = << >> /\ unread' = << >> /\ did' = "other" /\ stations' = list
    BY DEF Select, Command
<1>2. /\ Members(list) \in SUBSET Names
      /\ DOMAIN list = 1..Len(list)
    BY StationsAreDistinct
<1>3. \A n \in Names : Blocked'[n] = IF n \in Names \ Members(list) THEN {} ELSE Blocked[n]
  <2>1. \A n \in Names : \A m : m \in Blocked'[n] <=> DownAt(list, down', n, m)
    BY <1>1, BlockedByList
  <2>2. \A n \in Names : \A m : m \in Blocked[n] <=> DownAt(stations, down, n, m)
    BY <1>1, BlockedByList
  <2>3. ASSUME NEW n \in Names \ Members(list)
        PROVE  Blocked'[n] = {}
    <3>1. \A s : CodeIn(list, s) # n
      BY <1>2, <2>3, NamesAreFinite DEF CodeIn, Members
    <3> QED
      BY <2>1, <3>1 DEF DownAt
  <2>4. ASSUME NEW n \in Members(list)
        PROVE  Blocked'[n] = Blocked[n]
    <3> DEFINE K == {i \in Entries : Code(down[i].sta) \in Members(list)}
    <3>1. list # << >>
      BY <1>2, <2>4 DEF Members
    <3>2. PICK pick \in Picks(K) : down' = [k \in DOMAIN pick |-> Renumbered(down[pick[k]], list)]
      BY <3>1 DEF Select
    <3>3. IsFiniteSet(K)
      <4>1. IsFiniteSet(Entries)
        BY FS_Interval DEF Entries, TypeOK
      <4>2. K \in SUBSET Entries
        OBVIOUS
      <4> QED
        BY <4>1, <4>2, FS_Subset
    <3>4. DOMAIN pick = 1..Cardinality(K) /\ Members(pick) = K /\ Cardinality(K) \in Nat
      BY <3>2, <3>3, ListsAreSequences DEF Picks
    <3>5. \A i \in K : /\ list[Renumbered(down[i], list).sta] = Code(down[i].sta)
                       /\ Renumbered(down[i], list).sta \in 1..Len(list)
                       /\ Renumbered(down[i], list).beg = down[i].beg
                       /\ Renumbered(down[i], list).end = down[i].end
      <4>1. \A i \in K : down[i] \in Downtimes /\ Code(down[i].sta) \in Members(list)
        BY ElementOfSeq DEF TypeOK, Entries
      <4> QED
        BY <4>1, RenumberedIsInUse
    <3>6. \A i \in Entries : CodeIn(stations, down[i].sta) = n => i \in K
      BY <2>4 DEF Code, CodeIn, Numbers
    <3>7. \A i \in K : i \in 1..Len(down) /\ Code(down[i].sta) = CodeIn(stations, down[i].sta)
      BY DEF Code, CodeIn, Numbers, Entries
    <3> HIDE DEF K
    <3>8. Len(down') = Cardinality(K)
      BY <3>2, <3>4
    <3>9. \A k \in 1..Len(down') : pick[k] \in K /\ down'[k] = Renumbered(down[pick[k]], list)
      BY <3>2, <3>4, <3>8 DEF Members
    <3>10. \A i \in K : \E k \in 1..Len(down') : pick[k] = i
      BY <3>4, <3>8 DEF Members
    <3>11. \A k \in 1..Len(down') : CodeIn(list, down'[k].sta) = CodeIn(stations, down[pick[k]].sta)
      BY <3>5, <3>7, <3>9 DEF CodeIn
    <3>12. ASSUME NEW m, DownAt(list, down', n, m)
           PROVE  DownAt(stations, down, n, m)
      <4>1. PICK k \in 1..Len(down') : CodeIn(list, down'[k].sta) = n /\ m \in down'[k].beg .. down'[k].end
        BY <3>12 DEF DownAt
      <4>2. pick[k] \in K /\ m \in down[pick[k]].beg .. down[pick[k]].end
        BY <3>5, <3>9, <4>1
      <4> QED
        BY <3>7, <3>11, <4>1, <4>2 DEF DownAt
    <3>13. ASSUME NEW m, DownAt(stations, down, n, m)
           PROVE  DownAt(list, down', n, m)
      <4>1. PICK i \in 1..Len(down) : CodeIn(stations, down[i].sta) = n /\ m \in down[i].beg .. down[i].end
        BY <3>13 DEF DownAt
      <4>2. i \in K
        BY <3>6, <4>1 DEF Entries
      <4>3. PICK k \in 1..Len(down') : pick[k] = i
        BY <3>10, <4>2
      <4>4. m \in down'[k].beg .. down'[k].end /\ CodeIn(list, down'[k].sta) = n
        BY <3>5, <3>9, <3>11, <4>1, <4>2, <4>3
      <4> QED
        BY <4>4 DEF DownAt
    <3>14. n \in Names
      BY <1>2
    <3> QED
      BY <2>1, <2>2, <3>12, <3>13, <3>14
  <2> QED
    BY <1>2, <2>3, <2>4
<1>4. Promise!Select(Members(list))
  <2>1. Members(stations)' = Members(list) /\ (did' \in {"drop", "off"}) = FALSE
    BY <1>1 DEF Members
  <2> QED
    BY <1>3, <2>1, BlockedIs DEF Promise!Select, Promise!Clear
<1> QED
    BY <1>2, <1>4 DEF Promise!Next

\* Writing the list to a schedule: what is down is in the lines.
LEMMA ReopenRefines ==
    ASSUME TypeOK, Reopen
    PROVE  Promise!Next
<1>1. PICK pick \in Picks(Heads) : unread' = [k \in DOMAIN pick |-> Line(pick[k])]
    BY DEF Reopen
<1>2. /\ unread = << >> /\ down' = << >> /\ did' = "other" /\ UNCHANGED stations
      /\ UNCHANGED Members(stations) /\ (did' \in {"drop", "off"}) = FALSE
    BY DEF Reopen, Command, Members
<1>3. Heads \subseteq Entries /\ IsFiniteSet(Heads)
  <2>1. Heads \in SUBSET Entries
    BY DEF Heads
  <2>2. IsFiniteSet(Entries)
    BY FS_Interval DEF Entries, TypeOK
  <2> QED
    BY <2>1, <2>2, FS_Subset
<1>4. DOMAIN pick = DOMAIN unread' /\ Members(pick) = Heads
    BY <1>1, <1>3, ListsAreSequences DEF Picks
<1>5. \A k \in DOMAIN unread' : pick[k] \in Heads /\ unread'[k] = Line(pick[k])
    BY <1>1, <1>4 DEF Members
<1>6. \A i \in Heads : \E k \in DOMAIN unread' : pick[k] = i
    BY <1>4 DEF Members
<1>7. ASSUME NEW n, NEW m, LinesAt(stations, unread', n, m)
      PROVE  DownAt(stations, down, n, m)
  <2>1. PICK k \in DOMAIN unread' : /\ \E s \in unread'[k].sta : CodeIn(stations, s) = n
                                    /\ m \in unread'[k].beg .. unread'[k].end
    BY <1>7 DEF LinesAt
  <2>2. PICK j \in Entries : /\ Same(down[j], down[pick[k]]) /\ CodeIn(stations, down[j].sta) = n
                             /\ m \in down[pick[k]].beg .. down[pick[k]].end
    BY <1>5, <2>1 DEF Line
  <2> QED
    BY <2>2 DEF Same, DownAt, Entries
<1>8. ASSUME NEW n, NEW m, DownAt(stations, down, n, m)
      PROVE  LinesAt(stations, unread', n, m)
  <2>1. PICK i \in Entries : CodeIn(stations, down[i].sta) = n /\ m \in down[i].beg .. down[i].end
    BY <1>8 DEF DownAt, Entries
  <2> DEFINE Alike == {j \in Entries : Same(down[i], down[j])}
  <2>2. Alike \in SUBSET Nat /\ i \in Alike
    BY DEF Entries, Same
  <2>3. PICK h \in Alike : \A j \in Alike : h <= j
    BY <2>2, HasLeast
  <2>4. h \in Heads
    BY <2>2, <2>3 DEF Heads, Entries, Same, TypeOK
  <2>5. down[i].sta \in Line(h).sta /\ m \in Line(h).beg .. Line(h).end
    BY <2>1, <2>3 DEF Line, Same
  <2>6. PICK k \in DOMAIN unread' : unread'[k] = Line(h)
    BY <1>5, <1>6, <2>4
  <2> QED
    BY <2>1, <2>5, <2>6 DEF LinesAt
<1>9. \A n, m : ~DownAt(stations', down', n, m)
    BY <1>2 DEF DownAt
<1>10. \A n \in Names : \A m : m \in Blocked'[n] <=> LinesAt(stations, unread', n, m)
    BY <1>2, <1>9, BlockedAt
<1>11. \A n \in Names : \A m : m \in Blocked[n] <=> DownAt(stations, down, n, m)
    BY <1>2, BlockedByList
<1>12. \A n \in Names : Blocked'[n] = Blocked[n]
    BY <1>7, <1>8, <1>10, <1>11
<1>13. Promise!Other
    BY <1>2, <1>12, BlockedIs DEF Promise!Other
<1> QED
    BY <1>13 DEF Promise!Next

\* Reading a line gives its stations back what was written of them.
LEMMA ReadLineRefines ==
    ASSUME TypeOK, Forward, ReadLine
    PROVE  Promise!Next
<1>1. /\ unread \in Seq(Lines) /\ unread # << >> /\ UNCHANGED stations /\ did' = "other"
      /\ UNCHANGED Members(stations) /\ (did' \in {"drop", "off"}) = FALSE
    BY DEF ReadLine, TypeOK, Members
<1>2. /\ Len(unread) \in Nat \ {0} /\ DOMAIN unread = 1..Len(unread) /\ Head(unread) = unread[1]
      /\ Head(unread) \in Lines
    BY <1>1, ElementOfSeq
<1> DEFINE y == Head(unread)
<1>3. y.sta \in SUBSET Numbers /\ y.beg \in Int /\ y.end \in Int /\ y.beg <= y.end
    BY <1>2 DEF TypeOK, Forward, Lines
<1>4. Add(y.sta, y) /\ status = "ok"
    BY DEF ReadLine
<1>5. CASE /\ status' = status
           /\ \A n \in Names, m \in Int :
                 DownAt(stations, down', n, m)
                    <=> DownAt(stations, down, n, m) \/ (n \in Codes(y.sta) /\ m \in y.beg .. y.end)
  <2>1. unread' = Tail(unread)
    BY <1>4, <1>5 DEF ReadLine
  <2>2. /\ DOMAIN unread' = 1..(Len(unread) - 1)
        /\ \A k \in DOMAIN unread' : unread'[k] = unread[k + 1]
    BY <1>1, <1>2, <2>1
  <2>3. ASSUME NEW n, NEW m
        PROVE  LinesAt(stations, unread, n, m) <=>
                   \/ LinesAt(stations, unread', n, m)
                   \/ n \in Codes(y.sta) /\ m \in y.beg .. y.end
    <3>1. n \in Codes(y.sta) <=> \E s \in unread[1].sta : CodeIn(stations, s) = n
      BY <1>2 DEF Codes, Code, CodeIn, Numbers
    <3>2. \A k \in 2..Len(unread) : k - 1 \in DOMAIN unread' /\ unread[k] = unread'[k - 1]
      BY <1>2, <2>2
    <3>3. \A k \in DOMAIN unread' : k + 1 \in DOMAIN unread
      BY <1>2, <2>2
    <3>4. \A k \in DOMAIN unread : k = 1 \/ k \in 2..Len(unread)
      BY <1>2
    <3>5. 1 \in DOMAIN unread
      BY <1>2
    <3> QED
      BY <1>2, <2>2, <3>1, <3>2, <3>3, <3>4, <3>5 DEF LinesAt
  <2>4. \A n \in Names : Blocked[n] \subseteq Int /\ Blocked'[n] \subseteq Int
    <3>1. TypeOK'
      BY InvAfterReadLine DEF DowntimeInv
    <3> QED
      BY <3>1, BlockedIsTimes, BlockedIsTimesNext
  <2>5. \A n \in Names : Blocked'[n] = Blocked[n]
    <3> TAKE n \in Names
    <3>1. \A m \in Int : m \in Blocked'[n] <=> m \in Blocked[n]
      BY <1>1, <1>5, <2>3, BlockedAt
    <3> QED
      BY <2>4, <3>1
  <2>6. Promise!Other
    BY <1>1, <2>5, BlockedIs DEF Promise!Other
  <2> QED
    BY <2>6 DEF Promise!Next
<1>6. CASE status' = "failed" /\ UNCHANGED down
  <2>1. unread' = unread
    BY <1>4, <1>6 DEF ReadLine
  <2>2. UNCHANGED Blocked
    BY <1>1, <1>6, <2>1, QuietStep
  <2>3. Promise!Other
    BY <1>1, <2>2 DEF Promise!Other
  <2> QED
    BY <2>3 DEF Promise!Next
<1> QED
    BY <1>1, <1>3, <1>4, <1>5, <1>6, AddBlocks

\* As long as no user types an interval that ends before it begins, the list of
\* downtimes, merged by DOWNTIME, renumbered by a new selection, written to a
\* schedule and read back, keeps what the user asked for: every station is down
\* when its user said and at no other time.
THEOREM DowntimesAreKept == ASSUME TypedForward PROVE Spec => DowntimesHold
<1>1. Init => Promise!Init
  <2> SUFFICES ASSUME Init PROVE Promise!Init
    OBVIOUS
  <2>1. \A n \in Names : Blocked[n] = {}
    <3>1. \A n \in Names : \A m : ~DownAt(stations, down, n, m)
      BY DEF Init, DownAt
    <3> QED
      BY <3>1, BlockedByList DEF Init
  <2>2. Members(stations) \in SUBSET Names
    BY StationsAreDistinct DEF Init
  <2> QED
    BY <2>1, <2>2, BlockedIs DEF Init, Promise!Init
<1>2. ASSUME DowntimeInv, [Next]_vars
      PROVE  [Promise!Next]_Promise!vars
  <2>1. TypeOK /\ Forward
    BY <1>2, TypedForward DEF DowntimeInv
  <2>2. CASE UNCHANGED vars
    BY <2>2, QuietStep DEF vars, Promise!vars
  <2>3. CASE \E S \in SUBSET Numbers \ {{}}, y \in Intervals : Set(S, y) \/ RemoveOne(S, y)
    BY <2>1, <2>3, TypedForward, SetRefines, RemoveOneRefines
  <2>4. CASE \E S \in SUBSET Numbers \ {{}} : RemoveAll(S)
    <3>1. PICK S \in SUBSET Numbers \ {{}} : RemoveAll(S)
      BY <2>4
    <3> QED
      BY <2>1, <3>1, DropRefines DEF RemoveAll, Command
  <2>5. CASE Off
    BY <2>1, <2>5, OffRefines
  <2>6. CASE \E list \in Selections : Select(list)
    BY <2>1, <2>6, SelectRefines
  <2>7. CASE Reopen
    BY <2>1, <2>7, ReopenRefines
  <2>8. CASE ReadLine
    BY <2>1, <2>8, ReadLineRefines
  <2>9. CASE UNCHANGED <<stations, down, unread>> /\ did' \in {"scan", "fill", "tag"}
    <3>1. UNCHANGED Blocked /\ UNCHANGED Members(stations) /\ (did' \in {"drop", "off"}) = FALSE
      BY <2>9, QuietStep
    <3> QED
      BY <3>1 DEF Promise!Next, Promise!Other
  <2> QED
    BY <1>2, <2>2, <2>3, <2>4, <2>5, <2>6, <2>7, <2>8, <2>9 DEF Next, Schedule, Fill, TagAlong
<1> QED
    BY <1>1, <1>2, InvHolds, PTL DEF Spec, DowntimesHold, Promise!Spec
=============================================================================
