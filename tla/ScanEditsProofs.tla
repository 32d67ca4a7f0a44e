--------------------------- MODULE ScanEditsProofs ---------------------------
(***************************************************************************)
(* The commands that go over a whole schedule, for schedules of any length *)
(* and any stations, sources, slewing time and time ranges.                *)
(*                                                                         *)
(* None of the properties is inductive: they speak of the end of a command *)
(* and the loops know more on the way.  Inv is a disjunction, one disjunct *)
(* for each thing the program may be at:                                   *)
(*   Waiting   no command is given: scans are as they were, CUR as GTOBS   *)
(*             left it                                                     *)
(*   Filling   FILL: each station's last scan is the one fillcmd.f has in  *)
(*             IPRV_SCAN, and scans have only become longer where there is *)
(*             room for it                                                 *)
(*   Thinning  THIN: exactly the scans struck from IOBS_STAT have lost the *)
(*             station                                                     *)
(*   Walking   the loop of chcmd.f: types and cursor (Loop); if CUR was    *)
(*             the scan at the cursor, the scans before the cursor are     *)
(*             changed as asked and those behind are not (Following), and  *)
(*             PRE has what each station did last (Minding: one conjunct   *)
(*             for each of TAGALONG, UNTAG, SHIFT and REMOVE)              *)
(***************************************************************************)
EXTENDS ScanEdits, ListLemmas

-----------------------------------------------------------------------------
(* Some of the places of a list. *)

Upto(P, i) == {j \in P : j <= i}

\* Among the places up to i there is one more than among those up to i - 1.
LEMMA UptoGrows ==
    ASSUME NEW n \in Nat, NEW P \in SUBSET (1..n), NEW i \in Nat
    PROVE  /\ IsFiniteSet(Upto(P, i)) /\ Cardinality(Upto(P, i)) \in Nat
           /\ i \notin P => Upto(P, i) = Upto(P, i - 1)
           /\ i \in P => Cardinality(Upto(P, i)) = Cardinality(Upto(P, i - 1)) + 1
<1>1. IsFiniteSet(1..n) /\ \A j \in P : j \in Int
    BY FS_Interval
<1>2. ASSUME NEW k \in Int
      PROVE  IsFiniteSet(Upto(P, k)) /\ Cardinality(Upto(P, k)) \in Nat
  <2>1. Upto(P, k) \subseteq 1..n
    BY DEF Upto
  <2> QED
    BY <1>1, <2>1, FS_Subset, FS_CardinalityType
<1>3. i \notin P => Upto(P, i) = Upto(P, i - 1)
  <2>1. i \notin P => \A j \in P : j <= i <=> j <= i - 1
    BY <1>1
  <2> QED
    BY <2>1 DEF Upto
<1>4. ASSUME i \in P
      PROVE  Cardinality(Upto(P, i)) = Cardinality(Upto(P, i - 1)) + 1
  <2>1. Upto(P, i) = Upto(P, i - 1) \cup {i} /\ i \notin Upto(P, i - 1)
    <3>1. \A j \in P : j <= i <=> (j <= i - 1 \/ j = i)
      BY <1>1
    <3>2. ~(i <= i - 1)
      OBVIOUS
    <3> QED
      BY <1>4, <3>1, <3>2 DEF Upto
  <2>2. IsFiniteSet(Upto(P, i - 1))
    BY <1>2
  <2> QED
    BY <2>1, <2>2, FS_AddElement
<1> QED
    BY <1>2, <1>3, <1>4

\* The more places, the greater the last.
LEMMA UptoOrder ==
    ASSUME NEW n \in Nat, NEW P \in SUBSET (1..n), NEW i \in P, NEW j \in P, i < j
    PROVE  Cardinality(Upto(P, i)) < Cardinality(Upto(P, j))
<1>1. i \in Nat /\ j \in Nat /\ \A k \in P : k \in Int
    OBVIOUS
<1>2. IsFiniteSet(Upto(P, j)) /\ Cardinality(Upto(P, j)) \in Nat
    BY <1>1, UptoGrows
<1>3. Upto(P, i) \subseteq Upto(P, j) /\ j \in Upto(P, j) /\ j \notin Upto(P, i)
  <2>1. (\A k \in P : k <= i => k <= j) /\ j <= j /\ ~(j <= i)
    BY <1>1
  <2> QED
    BY <2>1 DEF Upto
<1>4. Upto(P, i) # Upto(P, j)
    BY <1>3
<1>5. Cardinality(Upto(P, i)) \in Nat
    BY <1>1, UptoGrows
<1>6. Cardinality(Upto(P, i)) <= Cardinality(Upto(P, j))
      /\ Cardinality(Upto(P, i)) # Cardinality(Upto(P, j))
    BY <1>2, <1>3, <1>4, FS_Subset
<1> QED
    BY <1>2, <1>5, <1>6

\* The nth place is one of them, n of them are up to it, and they are in order.
LEMMA NthPlace ==
    ASSUME NEW n \in Nat, NEW P \in SUBSET (1..n)
    PROVE  /\ Cardinality(P) \in Nat
           /\ \A k \in 1..Cardinality(P) :
                Nth(P, k) \in P /\ Cardinality(Upto(P, Nth(P, k))) = k
           /\ \A k, l \in 1..Cardinality(P) : k < l => Nth(P, k) < Nth(P, l)
           /\ \A i \in P : \E k \in 1..Cardinality(P) : Nth(P, k) = i
<1> DEFINE C(i) == Cardinality(Upto(P, i))
<1>0. \A i \in P : i \in Nat /\ i >= 1 /\ i <= n
    OBVIOUS
<1>1. Upto(P, n) = P /\ Upto(P, 0) = {}
  <2>1. \A i \in P : ~(i <= 0)
    BY <1>0
  <2> QED
    BY <1>0, <2>1 DEF Upto
<1>2. /\ \A i \in Nat : C(i) \in Nat
      /\ \A i \in Nat : i \notin P => C(i) = C(i - 1)
      /\ \A i \in Nat : i \in P => C(i) = C(i - 1) + 1
    BY UptoGrows
<1>3. C(n) = Cardinality(P) /\ Cardinality(P) \in Nat /\ C(0) = 0
    BY <1>1, <1>2, FS_EmptySet
<1>4. \A i, j \in P : i < j => C(i) < C(j)
    BY UptoOrder
<1>5. P \subseteq Nat
    OBVIOUS
<1> HIDE DEF C
<1>6. ASSUME NEW k \in 1..Cardinality(P)
      PROVE  \E i \in P : C(i) = k
  <2> DEFINE W == {i \in Nat : C(i) >= k}
  <2>1. n \in W /\ W \subseteq Nat
    BY <1>3, <1>6
  <2>2. PICK i \in W : \A j \in W : i <= j
    BY <2>1, HasLeast
  <2>3. i \in Nat /\ C(i) >= k /\ i # 0
    BY <1>3, <1>6, <2>2
  <2>4. i - 1 \in Nat /\ i - 1 \notin W
    BY <2>2, <2>3
  <2>5. C(i - 1) < k /\ C(i - 1) \in Nat /\ C(i) \in Nat
    BY <1>2, <1>6, <2>3, <2>4
  <2>6. i \in P
    BY <1>2, <2>3, <2>5
  <2> QED
    BY <1>2, <1>6, <2>3, <2>5, <2>6
<1>7. ASSUME NEW k \in 1..Cardinality(P)
      PROVE  Nth(P, k) \in P /\ C(Nth(P, k)) = k
  <2>1. Nth(P, k) = CHOOSE i \in P : C(i) = k
    BY DEF Nth, C, Upto
  <2> QED
    BY <1>6, <1>7, <2>1
<1>8. ASSUME NEW k \in 1..Cardinality(P), NEW l \in 1..Cardinality(P), k < l
      PROVE  Nth(P, k) < Nth(P, l)
  <2> DEFINE a == Nth(P, k)
             b == Nth(P, l)
  <2>1. a \in P /\ b \in P /\ C(a) = k /\ C(b) = l
    BY <1>7
  <2> HIDE DEF a, b
  <2>2. ~(b < a) /\ b # a
    BY <1>4, <1>8, <2>1
  <2>3. a < b
    BY <1>5, <2>1, <2>2
  <2> QED
    BY <2>3 DEF a, b
<1>9. ASSUME NEW i \in P
      PROVE  \E k \in 1..Cardinality(P) : Nth(P, k) = i
  <2>1. i \in 1..n /\ C(i) \in Nat /\ C(i - 1) \in Nat /\ C(i) = C(i - 1) + 1
    BY <1>2, <1>9
  <2>3. C(i) <= Cardinality(P)
    <3>1. Upto(P, i) \subseteq P
      BY DEF Upto
    <3>2. IsFiniteSet(Upto(P, n))
      BY UptoGrows
    <3>3. IsFiniteSet(P)
      BY <1>1, <3>2
    <3> QED
      BY <3>1, <3>3, FS_Subset DEF C
  <2>4. C(i) \in 1..Cardinality(P)
    BY <1>3, <2>1, <2>3
  <2> DEFINE k == C(i)
             a == Nth(P, k)
  <2>5. a \in P /\ C(a) = C(i)
    BY <1>7, <2>4
  <2> HIDE DEF a, k
  <2>6. a = i
    <3>1. a \in Nat /\ i \in Nat /\ i \in P
      BY <1>5, <1>9, <2>5
    <3>2. ~(a < i) /\ ~(i < a)
      BY <1>2, <1>4, <2>5, <3>1
    <3> QED
      BY <3>1, <3>2
  <2> QED
    BY <2>4, <2>6 DEF a, k
<1> QED
    BY <1>3, <1>7, <1>8, <1>9 DEF C

\* Nothing is left out of a list by keeping all its places.
LEMMA NthOfAll == \A n \in Nat : \A k \in 1..n : Nth(1..n, k) = k
<1> SUFFICES ASSUME NEW n \in Nat, NEW k \in 1..n PROVE Nth(1..n, k) = k
    OBVIOUS
<1> DEFINE P == 1..n
           a == Nth(P, k)
<1>1. ASSUME NEW i \in 1..n
      PROVE  Cardinality(Upto(1..n, i)) = i
  <2>1. Upto(1..n, i) = 1..i
    BY DEF Upto
  <2> QED
    BY <2>1, FS_Interval
<1>2. Cardinality(1..n) = n
    BY FS_Interval
<1>3. a \in P /\ Cardinality(Upto(P, a)) = k
  <2>1. P \in SUBSET (1..n) /\ Cardinality(P) = n
    BY <1>2
  <2> QED
    BY <2>1, NthPlace
<1> QED
    BY <1>1, <1>3

\* What is kept of a list: one member for each place, in order.
LEMMA KeptFacts ==
    ASSUME NEW S, NEW list \in Seq(S), NEW P \in SUBSET (DOMAIN list)
    PROVE  /\ Kept(list, P) \in Seq(S) /\ Len(Kept(list, P)) = Cardinality(P)
           /\ Cardinality(P) \in Nat
           /\ \A k \in 1..Cardinality(P) :
                Nth(P, k) \in P /\ Kept(list, P)[k] = list[Nth(P, k)]
           /\ \A i \in P : \E k \in 1..Cardinality(P) : Nth(P, k) = i
           /\ \A k, l \in 1..Cardinality(P) : k < l => Nth(P, k) < Nth(P, l)
<1> DEFINE n == Len(list)
           c == Cardinality(P)
<1>1. n \in Nat /\ P \in SUBSET (1..n)
    OBVIOUS
<1>2. /\ c \in Nat /\ \A k \in 1..c : Nth(P, k) \in P
      /\ \A i \in P : \E k \in 1..c : Nth(P, k) = i
      /\ \A k, l \in 1..c : k < l => Nth(P, k) < Nth(P, l)
    BY <1>1, NthPlace
<1>3. \A i \in P : list[i] \in S
    BY <1>1, ElementOfSeq
<1>4. Kept(list, P) = [k \in 1..c |-> list[Nth(P, k)]]
    BY DEF Kept
<1> HIDE DEF c
<1>5. Kept(list, P) \in [1..c -> S]
    BY <1>2, <1>3, <1>4
<1>6. Kept(list, P) \in Seq(S) /\ Len(Kept(list, P)) = c
  <2> DEFINE kept == Kept(list, P)
  <2>1. kept \in [1..c -> S]
    BY <1>5
  <2> HIDE DEF kept
  <2>2. kept \in Seq(S) /\ Len(kept) = c
    BY <1>2, <2>1
  <2> QED
    BY <2>2 DEF kept
<1> QED
    BY <1>2, <1>4, <1>6 DEF c

\* What is kept of a list are its members at the places kept.
LEMMA KeptMembers ==
    ASSUME NEW S, NEW list \in Seq(S), NEW P \in SUBSET (DOMAIN list)
    PROVE  ToSet(Kept(list, P)) = {list[i] : i \in P}
<1> DEFINE kept == Kept(list, P)
           c == Cardinality(P)
<1>1. /\ kept \in Seq(S) /\ Len(kept) = c /\ c \in Nat
      /\ \A k \in 1..c : Nth(P, k) \in P /\ kept[k] = list[Nth(P, k)]
      /\ \A i \in P : \E k \in 1..c : Nth(P, k) = i
    BY KeptFacts
<1> HIDE DEF kept, c
<1>2. DOMAIN kept = 1..c
    BY <1>1
<1>3. ToSet(kept) = {list[i] : i \in P}
    BY <1>1, <1>2 DEF ToSet
<1> QED
    BY <1>3 DEF kept

\* To keep all places is to keep the list.
LEMMA KeptAll == ASSUME NEW S, NEW list \in Seq(S) PROVE Kept(list, DOMAIN list) = list
<1> DEFINE n == Len(list)
           kept == Kept(list, 1..n)
<1>1. n \in Nat /\ DOMAIN list = 1..n
    OBVIOUS
<1>2. Cardinality(1..n) = n
    BY <1>1, FS_Interval
<1>3. kept = [k \in 1..n |-> list[Nth(1..n, k)]]
    BY <1>2 DEF Kept
<1>4. kept = [k \in 1..n |-> list[k]]
    BY <1>1, <1>3, NthOfAll
<1>5. kept = list
    BY <1>1, <1>4
<1> QED
    BY <1>1, <1>5

\* Taking members out of a list leaves the others, in order.
LEMMA WithoutFacts ==
    ASSUME NEW S, NEW list \in Seq(S), NEW out
    PROVE  /\ Without(list, out) \in Seq(S)
           /\ Len(Without(list, out)) <= Len(list)
           /\ ToSet(Without(list, out)) = ToSet(list) \ out
           /\ out \cap ToSet(list) = {} => Without(list, out) = list
<1> DEFINE P == {i \in DOMAIN list : list[i] \notin out}
           n == Len(list)
<1>1. n \in Nat /\ DOMAIN list = 1..n /\ P \in SUBSET (DOMAIN list)
    OBVIOUS
<1>2. Without(list, out) = Kept(list, P)
    BY DEF Without
<1>3. Cardinality(P) <= n
  <2>1. \A k \in Nat : IsFiniteSet(1..k) /\ Cardinality(1..k) = k
    BY FS_Interval
  <2> QED
    BY <1>1, <2>1, FS_Subset
<1>4. ToSet(list) \ out = {list[i] : i \in P}
    BY DEF ToSet
<1>5. out \cap ToSet(list) = {} => P = DOMAIN list
    BY DEF ToSet
<1> HIDE DEF P
<1>6. Kept(list, P) \in Seq(S) /\ Len(Kept(list, P)) = Cardinality(P)
    BY <1>1, KeptFacts
<1>7. ToSet(Kept(list, P)) = {list[i] : i \in P}
    BY <1>1, KeptMembers
<1>8. P = DOMAIN list => Kept(list, P) = list
    BY KeptAll
<1> QED
    BY <1>2, <1>3, <1>4, <1>5, <1>6, <1>7, <1>8

\* Taking the same stations out again changes nothing.
LEMMA WithoutTwice ==
    ASSUME NEW S, NEW list \in Seq(S), NEW out
    PROVE  Without(Without(list, out), out) = Without(list, out)
<1>1. Without(list, out) \in Seq(S) /\ out \cap ToSet(Without(list, out)) = {}
    BY WithoutFacts
<1> QED
    BY <1>1, WithoutFacts

\* Nor does adding one of them first.
LEMMA WithoutAppended ==
    ASSUME NEW S, NEW list \in Seq(S), NEW m \in S, NEW out, m \in out
    PROVE  Without(Append(list, m), out) = Without(list, out)
<1> DEFINE n == Len(list)
           longer == Append(list, m)
           P == {i \in DOMAIN list : list[i] \notin out}
           Q == {i \in DOMAIN longer : longer[i] \notin out}
<1>1. n \in Nat /\ DOMAIN list = 1..n
    OBVIOUS
<1>2. /\ DOMAIN longer = 1..(n + 1)
      /\ \A i \in 1..n : longer[i] = list[i]
      /\ longer[n + 1] = m
    BY <1>1, AppendProperties
<1>3. 1..(n + 1) = (1..n) \cup {n + 1}
    BY <1>1
<1> HIDE DEF longer
<1>4. P = Q
    BY <1>1, <1>2, <1>3
<1>5. \A i \in P : list[i] = longer[i]
    BY <1>1, <1>2
<1>6. \A k \in 1..Cardinality(P) : Nth(P, k) \in P
  <2>1. P \in SUBSET (DOMAIN list)
    OBVIOUS
  <2> QED
    BY <2>1, KeptFacts
<1>7. Kept(list, P) = Kept(longer, P)
  <2> HIDE DEF P
  <2> QED
    BY <1>5, <1>6 DEF Kept
<1>8. Without(list, out) = Kept(list, P) /\ Without(longer, out) = Kept(longer, Q)
    BY DEF Without
<1> QED
    BY <1>4, <1>7, <1>8 DEF longer

\* No station is twice in what is left of a list that has none twice.
LEMMA WithoutInjective ==
    ASSUME NEW S, NEW list \in Seq(S), NEW out, IsInjective(list)
    PROVE  IsInjective(Without(list, out))
<1> DEFINE P == {i \in DOMAIN list : list[i] \notin out}
           kept == Kept(list, P)
           c == Cardinality(P)
<1>1. P \in SUBSET (DOMAIN list)
    OBVIOUS
<1>2. Without(list, out) = kept
    BY DEF Without
<1> HIDE DEF P
<1>3. /\ kept \in Seq(S) /\ Len(kept) = c /\ c \in Nat
      /\ \A k \in 1..c : Nth(P, k) \in P /\ kept[k] = list[Nth(P, k)]
      /\ \A k, l \in 1..c : k < l => Nth(P, k) < Nth(P, l)
    BY <1>1, KeptFacts
<1> HIDE DEF kept, c
<1>4. ASSUME NEW k \in 1..c, NEW l \in 1..c, kept[k] = kept[l]
      PROVE  k = l
  <2>1. Nth(P, k) = Nth(P, l)
    BY <1>1, <1>3, <1>4 DEF IsInjective
  <2>2. Nth(P, k) \in Int /\ k \in Int /\ l \in Int
    BY <1>1, <1>3
  <2>3. ~(k < l) /\ ~(l < k)
    BY <1>3, <2>1, <2>2
  <2> QED
    BY <2>2, <2>3
<1>5. DOMAIN kept = 1..c
    BY <1>3
<1> QED
    BY <1>2, <1>4, <1>5 DEF IsInjective

-----------------------------------------------------------------------------
(* The greatest and the least. *)

\* A finite set of naturals that has members has a greatest: the one with the
\* fewest members from it on.
LEMMA HasGreatest ==
    ASSUME NEW S \in SUBSET Nat, IsFiniteSet(S), S # {}
    PROVE  \E x \in S : \A j \in S : j <= x
<1> DEFINE From(i) == {j \in S : i <= j}
           Counts == {Cardinality(From(i)) : i \in S}
<1>1. \A i \in S : IsFiniteSet(From(i)) /\ Cardinality(From(i)) \in Nat
  <2>1. \A i \in S : From(i) \in SUBSET S
    OBVIOUS
  <2> HIDE DEF From
  <2> QED
    BY <2>1, FS_Subset, FS_CardinalityType
<1>2. Counts \in SUBSET Nat /\ Counts # {}
  <2> HIDE DEF From
  <2> QED
    BY <1>1
<1>3. PICK least \in Counts : \A c \in Counts : least <= c
    BY <1>2, HasLeast
<1>4. PICK x \in S : least = Cardinality(From(x))
    BY <1>3
<1>5. ASSUME NEW j \in S, ~(j <= x)
      PROVE  FALSE
  <2>1. j \in Nat /\ x \in Nat /\ \A k \in S : k \in Nat
    OBVIOUS
  <2>2. From(j) \subseteq From(x)
    <3>1. \A k \in S : j <= k => x <= k
      BY <1>5, <2>1
    <3> QED
      BY <3>1
  <2>3. x \in From(x) /\ x \notin From(j)
    BY <1>5, <2>1
  <2>4. Cardinality(From(j)) \in Counts
    OBVIOUS
  <2> HIDE DEF From, Counts
  <2>5. From(j) # From(x) /\ IsFiniteSet(From(x)) /\ From(j) \in SUBSET From(x)
    BY <1>1, <2>2, <2>3
  <2>6. Cardinality(From(j)) <= Cardinality(From(x))
        /\ Cardinality(From(j)) # Cardinality(From(x))
    BY <2>5, FS_Subset
  <2>7. least <= Cardinality(From(j))
    BY <1>3, <2>4
  <2>8. Cardinality(From(j)) \in Nat /\ Cardinality(From(x)) \in Nat
    BY <1>1
  <2> QED
    BY <1>4, <2>6, <2>7, <2>8
<1> QED
    BY <1>5

\* A member that is not below another is the greatest.
LEMMA MaxIs ==
    ASSUME NEW W \in SUBSET Int, NEW i \in W, \A j \in W : j <= i
    PROVE  Max(W) = i
<1>1. \E x \in W : \A y \in W : x >= y
    OBVIOUS
<1>2. Max(W) \in W /\ \A y \in W : Max(W) >= y
    BY <1>1 DEF Max
<1>3. Max(W) >= i /\ i >= Max(W) /\ i \in Int /\ Max(W) \in Int
    BY <1>2
<1> QED
    BY <1>3

\* A finite set of naturals that has members has a greatest.
LEMMA MaxFinite ==
    ASSUME NEW W \in SUBSET Nat, IsFiniteSet(W), W # {}
    PROVE  Max(W) \in W /\ \A j \in W : j <= Max(W)
<1>1. PICK i \in W : \A j \in W : j <= i
    BY HasGreatest
<1>2. Max(W) = i
    BY <1>1, MaxIs
<1> QED
    BY <1>1, <1>2

\* Places up to one are finitely many, and have a last.
LEMMA MaxOfPlaces ==
    ASSUME NEW n \in Nat, NEW P \in SUBSET (1..n), P # {}
    PROVE  Max(P) \in P /\ \A j \in P : j <= Max(P)
<1>1. IsFiniteSet(1..n)
    BY FS_Interval
<1>2. IsFiniteSet(P)
    BY <1>1, FS_Subset
<1>3. P \in SUBSET Nat
    OBVIOUS
<1> QED
    BY <1>2, <1>3, MaxFinite

\* The greater of two is one of them and below neither.
LEMMA MaxOfTwo ==
    ASSUME NEW a \in Int, NEW b \in Int
    PROVE  Max({a, b}) \in {a, b} /\ a <= Max({a, b}) /\ b <= Max({a, b})
<1>1. CASE a <= b
    BY <1>1, MaxIs
<1>2. CASE ~(a <= b)
    BY <1>2, MaxIs
<1> QED
    BY <1>1, <1>2

\* The less of two is one of them and above neither.
LEMMA MinOfTwo ==
    ASSUME NEW a \in Int, NEW b \in Int
    PROVE  Min({a, b}) \in {a, b} /\ Min({a, b}) <= a /\ Min({a, b}) <= b
<1>1. \E x \in {a, b} : \A y \in {a, b} : x =< y
  <2>1. CASE a <= b
    BY <2>1
  <2>2. CASE ~(a <= b)
    BY <2>2
  <2> QED
    BY <2>1, <2>2
<1>2. Min({a, b}) \in {a, b} /\ \A y \in {a, b} : Min({a, b}) <= y
    BY <1>1 DEF Min
<1> QED
    BY <1>2

\* Some station observes longest.
LEMMA LongestIs ==
    ASSUME NEW dur \in [Stations -> Nat], NEW in \in SUBSET Stations, in # {}
    PROVE  /\ Longest(dur, in) \in Nat
           /\ \E m \in in : dur[m] = Longest(dur, in)
           /\ \A m \in in : dur[m] <= Longest(dur, in)
<1> DEFINE T == {dur[m] : m \in in}
           f == [m \in in |-> dur[m]]
<1>1. IsFiniteSet(in)
  <2>1. NStatn \in Int
    BY TableAssumption
  <2>2. IsFiniteSet(Stations)
    BY <2>1, FS_Interval DEF Stations
  <2> QED
    BY <2>2, FS_Subset
<1>2. f \in Surjection(in, T)
    BY DEF Surjection
<1>3. IsFiniteSet(T)
    BY <1>1, <1>2, FS_Surjection
<1>4. T \in SUBSET Nat /\ T # {}
    OBVIOUS
<1>5. Max(T) \in T /\ \A j \in T : j <= Max(T)
  <2> HIDE DEF T
  <2> QED
    BY <1>3, <1>4, MaxFinite
<1> QED
    BY <1>4, <1>5 DEF Longest

-----------------------------------------------------------------------------
(* Places in a list that two lists share. *)

\* The members of a list are found at its places.
LEMMA MembersAt ==
    ASSUME NEW S, NEW list \in Seq(S), NEW x
    PROVE  /\ x \in ToSet(list) <=> \E i \in 1..Len(list) : list[i] = x
           /\ ToSet(list) \subseteq S
           /\ list # << >> => Head(list) \in ToSet(list) /\ ToSet(list) # {}
<1>1. DOMAIN list = 1..Len(list) /\ \A i \in 1..Len(list) : list[i] \in S
    BY ElementOfSeq
<1>2. list # << >> => 1 \in DOMAIN list /\ Head(list) = list[1]
  <2>1. list # << >> => Len(list) \in Nat \ {0}
    BY EmptySeq
  <2> QED
    BY <1>1, <2>1
<1> QED
    BY <1>1, <1>2 DEF ToSet

\* What is left of a list whose members are all different.
LEMMA TailOfInjective ==
    ASSUME NEW S, NEW list \in Seq(S), list # << >>, IsInjective(list)
    PROVE  /\ Tail(list) \in Seq(S) /\ IsInjective(Tail(list))
           /\ ToSet(Tail(list)) = ToSet(list) \ {Head(list)}
<1> DEFINE n == Len(list)
           t == Tail(list)
<1>1. n \in Nat \ {0} /\ DOMAIN list = 1..n /\ Head(list) = list[1]
    BY EmptySeq
<1>2. /\ t \in Seq(S) /\ Len(t) = n - 1
      /\ \A i \in 1..Len(t) : t[i] = list[i + 1]
    BY HeadTailProperties
<1> HIDE DEF t, n
<1>3. DOMAIN t = 1..(n - 1) /\ \A i \in 1..(n - 1) : t[i] = list[i + 1] /\ i + 1 \in 1..n
    BY <1>1, <1>2
<1>4. IsInjective(t)
  <2> SUFFICES ASSUME NEW i \in 1..(n - 1), NEW j \in 1..(n - 1), t[i] = t[j]
               PROVE  i = j
    BY <1>3 DEF IsInjective
  <2>1. i + 1 = j + 1
    BY <1>1, <1>3 DEF IsInjective
  <2> QED
    BY <2>1
<1>5. \A x : x \in ToSet(t) <=> x \in ToSet(list) /\ x # list[1]
  <2> TAKE x
  <2>1. ASSUME x \in ToSet(t)
        PROVE  x \in ToSet(list) /\ x # list[1]
    <3>1. PICK i \in 1..(n - 1) : x = t[i]
      BY <1>3, <2>1 DEF ToSet
    <3>2. x = list[i + 1] /\ i + 1 \in 1..n /\ i + 1 # 1 /\ 1 \in 1..n
      BY <1>1, <1>3, <3>1
    <3> QED
      BY <1>1, <3>2 DEF ToSet, IsInjective
  <2>2. ASSUME x \in ToSet(list), x # list[1]
        PROVE  x \in ToSet(t)
    <3>1. PICK k \in 1..n : x = list[k]
      BY <1>1, <2>2 DEF ToSet
    <3>2. k # 1
      BY <2>2, <3>1
    <3>3. k - 1 \in 1..(n - 1) /\ t[k - 1] = x
      <4>1. k - 1 \in 1..(n - 1) /\ (k - 1) + 1 = k
        BY <1>1, <3>2
      <4> QED
        BY <1>3, <3>1, <4>1
    <3> QED
      BY <1>3, <3>3 DEF ToSet
  <2> QED
    BY <2>1, <2>2
<1> QED
    BY <1>1, <1>2, <1>4, <1>5 DEF t

-----------------------------------------------------------------------------
(* The schedules the commands begin with. *)

\* What the commands may take from a schedule they begin with.
LEMMA ScheduleFacts ==
    ASSUME NEW o \in Schedules
    PROVE  /\ o \in Seq(ScanFields) /\ Len(o) \in Nat \ {0} /\ DOMAIN o = 1..Len(o)
           /\ \A i \in DOMAIN o :
                /\ o[i] \in ScanFields
                /\ o[i].t \in Nat /\ o[i].src \in Sources
                /\ o[i].sta \in Seq(Stations) /\ o[i].dur \in [Stations -> Nat]
                /\ IsInjective(o[i].sta) /\ Len(o[i].sta) >= 2
                /\ \A m \in Stations : o[i].dur[m] > 0 <=> m \in ToSet(o[i].sta)
           /\ \A i, j \in DOMAIN o : i <= j => o[i].t <= o[j].t
<1>1. /\ o \in Seq(ScanFields) /\ o # << >>
      /\ \A i \in DOMAIN o : IsScan(o[i]) /\ Len(o[i].sta) >= 2
      /\ \A i, j \in DOMAIN o : i < j => o[i].t <= o[j].t
    BY TableAssumption
<1>2. Len(o) \in Nat \ {0} /\ DOMAIN o = 1..Len(o)
    BY <1>1, EmptySeq
<1>3. ASSUME NEW i \in DOMAIN o
      PROVE  /\ o[i] \in ScanFields
             /\ o[i].t \in Nat /\ o[i].src \in Sources
             /\ o[i].sta \in Seq(Stations) /\ o[i].dur \in [Stations -> Nat]
             /\ IsInjective(o[i].sta) /\ Len(o[i].sta) >= 2
             /\ \A m \in Stations : o[i].dur[m] > 0 <=> m \in ToSet(o[i].sta)
  <2>1. IsScan(o[i]) /\ Len(o[i].sta) >= 2
    BY <1>1
  <2>2. o[i] \in ScanFields
    BY <2>1 DEF IsScan
  <2> QED
    BY <2>1, <2>2 DEF IsScan, ScanFields
<1>4. ASSUME NEW i \in DOMAIN o, NEW j \in DOMAIN o, i <= j
      PROVE  o[i].t <= o[j].t
  <2>1. CASE i = j
    BY <2>1, <1>3
  <2>2. CASE i < j
    BY <2>2, <1>1
  <2> QED
    BY <2>1, <2>2, <1>2, <1>4
<1> QED
    BY <1>1, <1>2, <1>3, <1>4

\* A scan of a schedule has two stations, and stations are numbers from 1.
LEMMA TwoStations ==
    ASSUME NEW o \in Schedules, NEW i \in DOMAIN o
    PROVE  /\ ToSet(o[i].sta) \in SUBSET Stations /\ Head(o[i].sta) \in ToSet(o[i].sta)
           /\ o[i].sta # << >>
           /\ \A m \in Stations : ToSet(o[i].sta) \ {m} # {}
<1> DEFINE list == o[i].sta
<1>1. list \in Seq(Stations) /\ IsInjective(list) /\ Len(list) >= 2
    BY ScheduleFacts
<1> HIDE DEF list
<1>2. list # << >>
    BY <1>1, EmptySeq
<1>3. ToSet(list) \subseteq Stations /\ Head(list) \in ToSet(list)
    BY <1>1, <1>2, MembersAt
<1>4. ASSUME NEW m \in Stations
      PROVE  ToSet(list) \ {m} # {}
  <2>1. Len(list) \in Nat /\ DOMAIN list = 1..Len(list)
    BY <1>1
  <2>2. 1 \in DOMAIN list /\ 2 \in DOMAIN list /\ list[1] # list[2]
    BY <1>1, <2>1 DEF IsInjective
  <2>3. list[1] \in ToSet(list) /\ list[2] \in ToSet(list)
    BY <2>2 DEF ToSet
  <2> QED
    BY <2>2, <2>3
<1> QED
    BY <1>2, <1>3, <1>4 DEF list

-----------------------------------------------------------------------------
(* FILL: the schedule s is o but for some durations. *)

Longer(s, o, who) ==
    /\ s \in Seq(ScanFields) /\ Len(s) = Len(o)
    /\ \A i \in DOMAIN o :
          /\ s[i].t = o[i].t /\ s[i].src = o[i].src /\ s[i].sta = o[i].sta
          /\ \A m \in Stations : s[i].dur[m] > o[i].dur[m] => m \in who

\* How long a station can stay at its scan i if its next is scan j.
Fits(o, i, j, d) == Ready(o[i].t, d, o[i].src, o[j].src) <= o[j].t

\* The two lists have the same places, and are seen the same from them.
LEMMA LongerFacts ==
    ASSUME NEW o \in Schedules, NEW s, NEW who, Longer(s, o, who)
    PROVE  /\ DOMAIN s = DOMAIN o
           /\ \A i \in DOMAIN o : s[i] \in ScanFields /\ s[i].dur \in [Stations -> Nat]
           /\ \A m \in Stations, i, j \in DOMAIN o :
                /\ Follows(s, m, i, j) <=> Follows(o, m, i, j)
                /\ InTime(s, m, i, j) <=> Fits(o, i, j, s[i].dur[m])
<1>1. DOMAIN s = DOMAIN o /\ DOMAIN o = 1..Len(o) /\ Len(o) \in Nat
    BY ScheduleFacts DEF Longer
<1>2. \A i \in DOMAIN o : s[i] \in ScanFields
    BY <1>1, ElementOfSeq DEF Longer
<1>3. \A i \in DOMAIN o : s[i].dur \in [Stations -> Nat]
    BY <1>2 DEF ScanFields
<1>4. \A m \in Stations, i \in DOMAIN o : Place(s, m, i) <=> Place(o, m, i)
    BY DEF Longer, Place
<1>5. ASSUME NEW m \in Stations, NEW i \in DOMAIN o, NEW j \in DOMAIN o
      PROVE  Follows(s, m, i, j) <=> Follows(o, m, i, j)
  <2>1. \A k \in (i + 1)..(j - 1) : k \in DOMAIN o
    BY <1>1
  <2> QED
    BY <1>4, <2>1 DEF Follows
<1>6. ASSUME NEW m \in Stations, NEW i \in DOMAIN o, NEW j \in DOMAIN o
      PROVE  InTime(s, m, i, j) <=> Fits(o, i, j, s[i].dur[m])
    BY DEF Longer, InTime, Fits
<1> QED
    BY <1>1, <1>2, <1>3, <1>5, <1>6

\* A schedule that is left alone counts as made longer by nothing.
LEMMA SameIsLonger ==
    ASSUME NEW o \in Schedules, NEW who
    PROVE  Longer(o, o, who)
<1>1. \A i \in DOMAIN o, m \in Stations : o[i].dur[m] \in Nat
    BY ScheduleFacts
<1> QED
    BY <1>1, ScheduleFacts DEF Longer

\* A duration more or less.
LEMMA LongerStill ==
    ASSUME NEW o \in Schedules, NEW s, NEW who, Longer(s, o, who),
           NEW p \in DOMAIN o, NEW dur \in [Stations -> Nat],
           \A m \in Stations : dur[m] > o[p].dur[m] => m \in who
    PROVE  LET new == [s EXCEPT ![p].dur = dur]
           IN  /\ Longer(new, o, who)
               /\ new[p].dur = dur
               /\ \A i \in DOMAIN o : i # p => new[i] = s[i]
<1> DEFINE x == [s[p] EXCEPT !.dur = dur]
           new == [s EXCEPT ![p] = x]
<1>1. DOMAIN s = DOMAIN o /\ DOMAIN o = 1..Len(o) /\ s \in Seq(ScanFields) /\ Len(s) = Len(o)
    BY LongerFacts, ScheduleFacts DEF Longer
<1>2. s[p] \in ScanFields
    BY LongerFacts
<1>3. /\ x \in ScanFields /\ x.dur = dur
      /\ x.t = s[p].t /\ x.src = s[p].src /\ x.sta = s[p].sta
    BY <1>2 DEF ScanFields
<1> HIDE DEF x
<1>4. /\ new \in Seq(ScanFields) /\ Len(new) = Len(s)
      /\ \A i \in 1..Len(s) : new[i] = IF i = p THEN x ELSE s[i]
  <2>1. p \in 1..Len(s)
    BY <1>1
  <2> QED
    BY <1>1, <1>3, <2>1, ExceptSeq
<1> HIDE DEF new
<1>5. Longer(new, o, who)
    BY <1>1, <1>3, <1>4 DEF Longer
<1>6. new = [s EXCEPT ![p].dur = dur]
    BY DEF new, x
<1> QED
    BY <1>1, <1>3, <1>4, <1>5, <1>6

\* Slewing takes some time, or none.
LEMMA ReadyIs ==
    \A src, next : \E k \in Nat : \A t, d : Ready(t, d, src, next) = t + d + k
<1> SUFFICES ASSUME NEW src, NEW next
             PROVE  \E k \in Nat : \A t, d : Ready(t, d, src, next) = t + d + k
    OBVIOUS
<1> DEFINE k == IF src \in {NoSource, next} THEN 0 ELSE Slew
<1>1. k \in Nat
    BY TableAssumption
<1>2. \A t, d : Ready(t, d, src, next) = t + d + k
    BY DEF Ready
<1> HIDE DEF k
<1> QED
    BY <1>1, <1>2

-----------------------------------------------------------------------------
(* FILL: what its loops know.  f stands for fill, s for the schedule, o for *)
(* that of before and c for the command.                                   *)

FillJobs ==
    [cmd : {"FILL"}, window : [st : Nat, en : Nat],
     sources : SUBSET Sources, who : SUBSET Stations]

FillTypes(f, n, who) ==
    f \in [phase : {"scans", "stations", "rest", "clean"}, do : SUBSET who,
           prev : [Stations -> 0..n], at : Nat \ {0}, todo : Seq(Stations),
           beg : 1..n, end : Nat, istat : Stations \cup {0}]

\* The scan m was last seen in is in the window, and m has none after it up
\* to the scan in hand, but for that one if m is still to be looked at.
Seen(f, o, c, m, p) ==
    /\ p \in DOMAIN o /\ Place(o, m, p) /\ c.window.st <= o[p].t
    /\ p <= f.at
    /\ p = f.at => f.phase = "stations" /\ m \notin ToSet(f.todo)
    /\ \A k \in DOMAIN o : p < k /\ k <= f.at /\ Place(o, m, k) =>
          k = f.at /\ (f.phase = "scans" \/ m \in ToSet(f.todo))

Looping(f, o, c) ==
    /\ f.at \in 1..(Len(o) + 1) /\ f.end <= Len(o)
    /\ c.window.st <= o[Len(o)].t
    /\ f.phase = "stations" =>
          /\ f.at \in DOMAIN o /\ c.window.st <= o[f.at].t
          /\ ToSet(f.todo) \subseteq ToSet(o[f.at].sta) /\ IsInjective(f.todo)
    /\ \A m \in Stations : f.prev[m] # 0 => Seen(f, o, c, m, f.prev[m])
    /\ \A k \in DOMAIN o : k < f.at /\ c.window.st <= o[k].t => o[k].t <= c.window.en

\* The last loop stays inside unless the window reaches behind the last scan.
Limited(f, o, c) == f.end <= Len(o) \/ o[Len(o)].t <= c.window.en

\* The next scan of a station that is left is behind the window.
Rest(f, o, c) ==
    \A m \in Stations : f.prev[m] # 0 =>
        /\ f.prev[m] \in DOMAIN o
        /\ \A j \in DOMAIN o : f.prev[m] < j /\ Place(o, m, j) => o[j - 1].t > c.window.en

\* FillOnTime, with the places of o.
LeftOnTime(s, o, c) ==
    OnTime(o) =>
        \A m \in Stations : \A i, j \in DOMAIN o :
            Follows(o, m, i, j) =>
                IF o[j - 1].t <= c.window.en
                  THEN Fits(o, i, j, s[i].dur[m])
                  ELSE o[i].t + s[i].dur[m] <= o[j].t

Filled(f, s, o, c) ==
    /\ o \in Schedules /\ c \in FillJobs
    /\ Longer(s, o, c.who)
    /\ f.phase \in {"off", "end"} \/ FillTypes(f, Len(o), c.who)
    /\ f.phase \in {"scans", "stations"} => Looping(f, o, c) /\ (OnTime(o) => OnTime(s))
    /\ f.phase = "rest" => Rest(f, o, c)
    /\ f.phase \in {"rest", "clean"} => Limited(f, o, c)
    /\ f.phase \notin {"scans", "stations"} => LeftOnTime(s, o, c)

Off == [phase |-> "off"]

Filling ==
    /\ Filled(fill, scans, was.scans, job)
    /\ ircur \in DOMAIN was.scans
    /\ thin = Off /\ walk = Off
    /\ busy \/ fill.phase = "off"
    /\ status = "failed" => was.scans[Len(was.scans)].t <= job.window.en

\* The parts of a FILL that is in its loops.
LEMMA FillFacts ==
    ASSUME NEW f, NEW s, NEW o, NEW c, Filled(f, s, o, c), f.phase \notin {"off", "end"}
    PROVE  /\ FillTypes(f, Len(o), c.who)
           /\ f = [phase |-> f.phase, do |-> f.do, prev |-> f.prev, at |-> f.at,
                   todo |-> f.todo, beg |-> f.beg, end |-> f.end, istat |-> f.istat]
           /\ f.do \in SUBSET c.who /\ f.prev \in [Stations -> 0..Len(o)]
           /\ f.at \in Nat \ {0} /\ f.todo \in Seq(Stations) /\ f.beg \in 1..Len(o)
           /\ f.end \in Nat /\ f.istat \in Stations \cup {0}
           /\ Len(s) = Len(o) /\ DOMAIN s = DOMAIN o
           /\ c.window.st \in Nat /\ c.window.en \in Nat /\ c.who \in SUBSET Stations
<1>1. FillTypes(f, Len(o), c.who)
    BY DEF Filled
<1>2. Len(s) = Len(o) /\ DOMAIN s = DOMAIN o
    BY LongerFacts DEF Filled, Longer
<1>3. c.window \in [st : Nat, en : Nat] /\ c.who \in SUBSET Stations
    BY DEF Filled, FillJobs
<1>4. f = [phase |-> f.phase, do |-> f.do, prev |-> f.prev, at |-> f.at,
           todo |-> f.todo, beg |-> f.beg, end |-> f.end, istat |-> f.istat]
    BY <1>1 DEF FillTypes
<1>5. /\ f.do \in SUBSET c.who /\ f.prev \in [Stations -> 0..Len(o)]
      /\ f.at \in Nat \ {0} /\ f.todo \in Seq(Stations) /\ f.beg \in 1..Len(o)
      /\ f.end \in Nat /\ f.istat \in Stations \cup {0}
    BY <1>1 DEF FillTypes
<1> QED
    BY <1>1, <1>2, <1>3, <1>4, <1>5

\* In time in o and longer by no more than the room there is: still in time.
LEMMA OnTimeFits ==
    ASSUME NEW o \in Schedules, NEW s, NEW who, Longer(s, o, who)
    PROVE  OnTime(s) <=>
              \A m \in Stations : \A i, j \in DOMAIN o :
                  Follows(o, m, i, j) => Fits(o, i, j, s[i].dur[m])
    BY LongerFacts DEF OnTime

-----------------------------------------------------------------------------
(* The first loop. *)

\* The first loop reads its next scan: its stations are still to be looked
\* at.
LEMMA ReadScanStays ==
    ASSUME Filled(fill, scans, was.scans, job), ReadScan
    PROVE  Filled(fill', scans', was.scans, job) /\ fill'.phase # "off"
<1> DEFINE o == was.scans
           f == fill
           x == scans[f.at]
           st == job.window.st
<1>1. f.phase = "scans" /\ f.at <= Len(scans) /\ scans' = scans
    BY DEF ReadScan, nobs
<1>2. /\ FillTypes(f, Len(o), job.who) /\ f.at \in Nat \ {0} /\ f.prev \in [Stations -> 0..Len(o)]
      /\ Len(scans) = Len(o) /\ st \in Nat
    BY <1>1, FillFacts
<1>3. o \in Schedules /\ Longer(scans, o, job.who) /\ Looping(f, o, job)
    BY <1>1 DEF Filled
<1>4. /\ Len(o) \in Nat \ {0} /\ DOMAIN o = 1..Len(o) /\ f.at \in DOMAIN o
      /\ \A i, j \in DOMAIN o : i <= j => o[i].t <= o[j].t
      /\ \A i \in DOMAIN o : o[i].t \in Nat
    BY <1>1, <1>2, <1>3, ScheduleFacts
<1>5. /\ x.t = o[f.at].t /\ x.sta = o[f.at].sta
      /\ o[f.at].sta \in Seq(Stations) /\ IsInjective(o[f.at].sta)
      /\ Head(o[f.at].sta) \in Stations
    BY <1>3, <1>4, ScheduleFacts, TwoStations DEF Longer
<1>6. \A m \in Stations : f.prev[m] # 0 => f.prev[m] \in DOMAIN o /\ f.prev[m] < f.at
                          /\ Seen(f, o, job, m, f.prev[m])
  <2> SUFFICES ASSUME NEW m \in Stations, f.prev[m] # 0
               PROVE  f.prev[m] \in DOMAIN o /\ f.prev[m] < f.at /\ Seen(f, o, job, m, f.prev[m])
    OBVIOUS
  <2>1. Seen(f, o, job, m, f.prev[m])
    BY <1>3 DEF Looping
  <2>2. f.prev[m] \in DOMAIN o /\ f.prev[m] <= f.at /\ f.prev[m] # f.at
    BY <1>1, <2>1 DEF Seen
  <2> QED
    BY <1>2, <1>4, <2>1, <2>2
<1>7. CASE x.t < st
  <2> DEFINE g == [f EXCEPT !.at = @ + 1, !.istat = Head(x.sta)]
  <2>1. fill' = g
    BY <1>7 DEF ReadScan
  <2>2. /\ g.phase = "scans" /\ g.at = f.at + 1 /\ g.prev = f.prev /\ g.end = f.end
        /\ FillTypes(g, Len(o), job.who)
    <3> DEFINE h == Head(x.sta)
               a == f.at + 1
    <3>1. h \in Stations /\ a \in Nat \ {0}
      BY <1>2, <1>5
    <3>2. g = [f EXCEPT !.at = a, !.istat = h]
      OBVIOUS
    <3> HIDE DEF h, a
    <3>3. g.phase = "scans" /\ g.at = a /\ g.prev = f.prev /\ g.end = f.end
      BY <1>1, <1>2, <3>2 DEF FillTypes
    <3>4. FillTypes(g, Len(o), job.who)
      BY <1>2, <3>1, <3>2 DEF FillTypes
    <3> QED
      BY <3>3, <3>4 DEF a
  <2> HIDE DEF g
  <2>3. \A m \in Stations : g.prev[m] = 0
    <3> SUFFICES ASSUME NEW m \in Stations, f.prev[m] # 0
                 PROVE  FALSE
      BY <2>2
    <3>1. f.prev[m] \in DOMAIN o /\ f.prev[m] < f.at /\ st <= o[f.prev[m]].t
      BY <1>6 DEF Seen
    <3>2. o[f.prev[m]].t <= o[f.at].t /\ o[f.at].t < st
      BY <1>4, <1>5, <1>7, <3>1
    <3> QED
      BY <1>2, <1>4, <3>1, <3>2
  <2>4. Looping(g, o, job)
    <3>1. \A k \in DOMAIN o : k < g.at /\ st <= o[k].t => o[k].t <= job.window.en
      <4> SUFFICES ASSUME NEW k \in DOMAIN o, k < g.at, st <= o[k].t
                   PROVE  o[k].t <= job.window.en
        OBVIOUS
      <4>1. k # f.at
        BY <1>2, <1>4, <1>5, <1>7
      <4>2. k < f.at
        BY <1>4, <2>2, <4>1
      <4> QED
        BY <1>3, <4>2 DEF Looping
    <3>2. g.at \in 1..(Len(o) + 1)
      BY <1>1, <1>2, <1>4, <2>2
    <3> QED
      BY <1>3, <2>2, <2>3, <3>1, <3>2 DEF Looping
  <2>5. Filled(g, scans, o, job)
    BY <1>1, <2>2, <2>4 DEF Filled
  <2> QED
    BY <1>1, <2>1, <2>2, <2>5
<1>8. CASE ~(x.t < st)
  <2> DEFINE g == [f EXCEPT !.phase = "stations", !.todo = x.sta, !.istat = Head(x.sta)]
  <2>1. fill' = g
    BY <1>8 DEF ReadScan
  <2>2. /\ g.phase = "stations" /\ g.at = f.at /\ g.prev = f.prev /\ g.end = f.end
        /\ g.todo = o[f.at].sta /\ FillTypes(g, Len(o), job.who)
    BY <1>1, <1>2, <1>5 DEF FillTypes
  <2> HIDE DEF g
  <2>3. \A m \in Stations : g.prev[m] # 0 => Seen(g, o, job, m, g.prev[m])
    <3> SUFFICES ASSUME NEW m \in Stations, f.prev[m] # 0
                 PROVE  Seen(g, o, job, m, f.prev[m])
      BY <2>2
    <3>1. f.prev[m] \in DOMAIN o /\ f.prev[m] < f.at /\ Seen(f, o, job, m, f.prev[m])
      BY <1>6
    <3>2. \A k \in DOMAIN o : k = f.at /\ Place(o, m, k) => m \in ToSet(g.todo)
      BY <2>2 DEF Place
    <3> QED
      BY <1>4, <2>2, <3>1, <3>2 DEF Seen
  <2>4. Looping(g, o, job)
    <3>1. st <= o[g.at].t
      BY <1>2, <1>4, <1>5, <1>8, <2>2
    <3> QED
      BY <1>3, <1>4, <1>5, <2>2, <2>3, <3>1 DEF Looping
  <2>5. Filled(g, scans, o, job)
    BY <1>1, <2>2, <2>4 DEF Filled
  <2> QED
    BY <1>1, <2>1, <2>2, <2>5
<1> QED
    BY <1>7, <1>8

\* Behind station m, which is the next of those to do: what the loop knows of
\* all, if the limits of the cleanup and the stations to do are as they may be.
LEMMA LookedFacts ==
    ASSUME NEW s, Filled(fill, s, was.scans, job), fill.phase = "stations", fill.todo # << >>,
           NEW do \in SUBSET job.who, NEW beg \in 1..Len(was.scans),
           NEW end \in Nat, end <= Len(was.scans)
    PROVE  LET g == [Looked(Head(fill.todo)) EXCEPT !.beg = beg, !.end = end, !.do = do]
           IN  FillTypes(g, Len(was.scans), job.who) /\ Looping(g, was.scans, job)
               /\ g.phase = "stations"
<1> DEFINE o == was.scans
           f == fill
           m == Head(f.todo)
           g == [Looked(m) EXCEPT !.beg = beg, !.end = end, !.do = do]
<1>1. /\ FillTypes(f, Len(o), job.who) /\ f.at \in Nat \ {0} /\ f.todo \in Seq(Stations)
      /\ f.prev \in [Stations -> 0..Len(o)]
    BY FillFacts
<1>2. o \in Schedules /\ Looping(f, o, job)
    BY DEF Filled
<1>3. /\ Len(o) \in Nat \ {0} /\ DOMAIN o = 1..Len(o) /\ f.at \in DOMAIN o
      /\ IsInjective(f.todo) /\ ToSet(f.todo) \subseteq ToSet(o[f.at].sta)
      /\ job.window.st <= o[f.at].t
    BY <1>2, ScheduleFacts DEF Looping
<1>4. /\ m \in Stations /\ m \in ToSet(f.todo)
      /\ Tail(f.todo) \in Seq(Stations) /\ IsInjective(Tail(f.todo))
      /\ ToSet(Tail(f.todo)) = ToSet(f.todo) \ {m}
    BY <1>1, <1>3, MembersAt, TailOfInjective
<1>5. /\ FillTypes(g, Len(o), job.who)
      /\ g.phase = "stations" /\ g.at = f.at /\ g.end = end /\ g.todo = Tail(f.todo)
      /\ g.prev = [f.prev EXCEPT ![m] = f.at]
  <2> DEFINE t == Tail(f.todo)
             prev == [f.prev EXCEPT ![m] = f.at]
  <2>1. prev \in [Stations -> 0..Len(o)] /\ t \in Seq(Stations) /\ m \in Stations
    BY <1>1, <1>3, <1>4
  <2>2. g = [[f EXCEPT !.todo = t, !.istat = m, !.prev = prev]
               EXCEPT !.beg = beg, !.end = end, !.do = do]
    BY DEF Looked
  <2> HIDE DEF t, prev, m
  <2>3. g = [f EXCEPT !.todo = t, !.istat = m, !.prev = prev, !.beg = beg, !.end = end, !.do = do]
    BY <2>2
  <2>4. FillTypes(g, Len(o), job.who)
    BY <1>1, <2>1, <2>3 DEF FillTypes
  <2>5. /\ g.phase = "stations" /\ g.at = f.at /\ g.end = end /\ g.todo = t /\ g.prev = prev
    BY <1>1, <2>3 DEF FillTypes
  <2> QED
    BY <2>4, <2>5 DEF t, prev
<1> HIDE DEF g, m
<1>6. ASSUME NEW n \in Stations, g.prev[n] # 0
      PROVE  Seen(g, o, job, n, g.prev[n])
  <2>1. CASE n = m
    <3>1. g.prev[n] = f.at
      BY <1>1, <1>5, <2>1
    <3>2. Place(o, n, f.at) /\ n \notin ToSet(g.todo)
      BY <1>3, <1>4, <1>5, <2>1 DEF Place
    <3>3. \A k \in DOMAIN o : ~(f.at < k /\ k <= f.at)
      BY <1>3
    <3> QED
      BY <1>3, <1>5, <3>1, <3>2, <3>3 DEF Seen
  <2>2. CASE n # m
    <3>1. g.prev[n] = f.prev[n]
      BY <1>1, <1>5, <2>2
    <3>2. Seen(f, o, job, n, f.prev[n])
      BY <1>2, <1>6, <3>1 DEF Looping
    <3>3. n \in ToSet(g.todo) <=> n \in ToSet(f.todo)
      BY <1>4, <1>5, <2>2
    <3> QED
      BY <1>5, <3>1, <3>2, <3>3 DEF Seen
  <2> QED
    BY <2>1, <2>2
<1>7. Looping(g, o, job)
  <2>1. ToSet(g.todo) \subseteq ToSet(o[g.at].sta) /\ IsInjective(g.todo)
    BY <1>3, <1>4, <1>5
  <2> QED
    BY <1>2, <1>3, <1>5, <1>6, <2>1 DEF Looping
<1> QED
    BY <1>5, <1>7 DEF g, m

\* A station to which FILL adds nothing is in its scan last.
LEMMA PassStationStays ==
    ASSUME Filled(fill, scans, was.scans, job), PassStation
    PROVE  Filled(fill', scans', was.scans, job) /\ fill'.phase # "off"
<1> DEFINE o == was.scans
           m == Head(fill.todo)
           g == [Looked(m) EXCEPT !.beg = fill.beg, !.end = fill.end, !.do = fill.do]
<1>1. /\ fill.phase = "stations" /\ fill.todo # << >> /\ fill' = Looked(m) /\ scans' = scans
    BY DEF PassStation, table
<1>2. /\ FillTypes(fill, Len(o), job.who) /\ fill.do \in SUBSET job.who
      /\ fill.beg \in 1..Len(o) /\ fill.end \in Nat
    BY <1>1, FillFacts
<1>3. fill.end <= Len(o)
    BY <1>1 DEF Filled, Looping
<1>4. FillTypes(g, Len(o), job.who) /\ Looping(g, o, job) /\ g.phase = "stations"
    BY <1>1, <1>2, <1>3, LookedFacts
<1>5. g = fill'
    BY <1>1, <1>2 DEF FillTypes, Looked
<1> HIDE DEF g
<1>6. Filled(g, scans, o, job)
    BY <1>1, <1>4 DEF Filled
<1> QED
    BY <1>1, <1>4, <1>5, <1>6

\* A station made to stay longer is not late for the scan in hand, its next.
LEMMA StayStays ==
    ASSUME Filled(fill, scans, was.scans, job), Stay
    PROVE  Filled(fill', scans', was.scans, job) /\ fill'.phase # "off"
<1> DEFINE o == was.scans
           m == Head(fill.todo)
           p == fill.prev[m]
           n == fill.at
           beg == Min({fill.beg, p})
           end == Max({Min({fill.beg, p}), p})
<1>1. /\ fill.phase = "stations" /\ fill.todo # << >>
      /\ p # 0 /\ m \in fill.do /\ Room(m, p, n) > 0
    BY DEF Stay, Looks
<1>2. PICK more \in 0..Room(m, p, n), do \in {fill.do, fill.do \ {m}} :
        /\ scans' = [scans EXCEPT ![p].dur[m] = @ + more]
        /\ fill' = [Looked(m) EXCEPT !.beg = beg, !.end = end, !.do = do]
  <2>1. PICK more \in 0..Room(m, p, n) :
          /\ scans' = [scans EXCEPT ![p].dur[m] = @ + more]
          /\ \E over \in {0, IF more < Room(m, p, n) THEN 1 ELSE 0} :
                LET ready == Ready(scans[p].t, scans[p].dur[m] + more + over,
                                   scans[p].src, scans[n].src)
                IN  fill' = [Looked(m) EXCEPT
                               !.beg = Min({@, p}),
                               !.end = Max({Min({fill.beg, p}), p}),
                               !.do  = IF ready >= job.window.en THEN @ \ {m} ELSE @]
    BY DEF Stay
  <2>2. Looked(m).beg = fill.beg /\ Looked(m).do = fill.do /\ FillTypes(fill, Len(o), job.who)
    <3>1. fill.phase \notin {"off", "end"}
      BY <1>1
    <3>2. FillTypes(fill, Len(o), job.who)
      BY <3>1, FillFacts
    <3>3. DOMAIN fill = {"phase", "do", "prev", "at", "todo", "beg", "end", "istat"}
      BY <3>2 DEF FillTypes
    <3> QED
      BY <3>2, <3>3 DEF Looked
  <2>3. Looked(m) = [fill EXCEPT !.todo = Tail(@), !.istat = m,
                                 !.prev = [@ EXCEPT ![m] = fill.at]]
    BY DEF Looked
  <2>4. DOMAIN Looked(m) = DOMAIN fill /\ "beg" \in DOMAIN fill /\ "do" \in DOMAIN fill
    BY <2>2, <2>3 DEF FillTypes
  <2>5. PICK do \in {fill.do, fill.do \ {m}} :
          fill' = [Looked(m) EXCEPT !.beg = beg, !.end = end, !.do = do]
    BY <2>1, <2>2, <2>4
  <2> QED
    BY <2>1, <2>5
<1>3. /\ FillTypes(fill, Len(o), job.who) /\ n \in Nat \ {0} /\ fill.todo \in Seq(Stations)
      /\ fill.prev \in [Stations -> 0..Len(o)] /\ fill.do \in SUBSET job.who
      /\ job.who \in SUBSET Stations /\ fill.beg \in 1..Len(o)
    BY <1>1, FillFacts
<1>4. o \in Schedules /\ Longer(scans, o, job.who) /\ Looping(fill, o, job)
    BY <1>1 DEF Filled
<1>5. /\ Len(o) \in Nat \ {0} /\ DOMAIN o = 1..Len(o) /\ n \in DOMAIN o
      /\ \A i \in DOMAIN o : o[i].t \in Nat /\ o[i].src \in Sources
    BY <1>1, <1>4, ScheduleFacts DEF Looping
<1>6. /\ m \in Stations /\ m \in ToSet(fill.todo) /\ Place(o, m, n)
    BY <1>1, <1>3, <1>4, MembersAt DEF Looping, Place
<1>7. /\ p \in DOMAIN o /\ Place(o, m, p) /\ p < n
      /\ \A k \in DOMAIN o : p < k /\ k <= n /\ Place(o, m, k) => k = n
  <2>1. Seen(fill, o, job, m, p)
    BY <1>1, <1>4, <1>6 DEF Looping
  <2>2. p <= n /\ p # n
    BY <1>6, <2>1 DEF Seen
  <2> QED
    BY <1>3, <1>5, <2>1, <2>2 DEF Seen
<1> HIDE DEF p, n, m
<1>8. scans[p].dur \in [Stations -> Nat] /\ scans[n].src = o[n].src /\ scans[p].src = o[p].src
      /\ scans[n].t = o[n].t /\ scans[p].t = o[p].t /\ Room(m, p, n) \in Int
  <2>1. scans[p].dur \in [Stations -> Nat] /\ scans[n].src = o[n].src /\ scans[p].src = o[p].src
        /\ scans[n].t = o[n].t /\ scans[p].t = o[p].t
    BY <1>4, <1>5, <1>7, LongerFacts DEF Longer
  <2>2. Slew \in Nat /\ scans[p].dur[m] \in Nat
    BY <1>6, <2>1, TableAssumption
  <2> QED
    BY <1>5, <1>7, <2>1, <2>2 DEF Room, Ready
<1>9. Fits(o, p, n, scans[p].dur[m] + more) /\ more \in Nat
  <2>1. Slew \in Nat /\ scans[p].dur[m] \in Nat /\ more \in Nat /\ more <= Room(m, p, n)
    BY <1>2, <1>6, <1>8, TableAssumption
  <2> DEFINE r == Ready(o[p].t, scans[p].dur[m], o[p].src, o[n].src)
  <2>2. r \in Int /\ Ready(o[p].t, scans[p].dur[m] + more, o[p].src, o[n].src) = r + more
    <3>1. PICK k \in Nat : \A t, d : Ready(t, d, o[p].src, o[n].src) = t + d + k
      BY ReadyIs
    <3>2. o[p].t \in Int /\ scans[p].dur[m] \in Int /\ scans[p].dur[m] + more \in Int
      BY <1>5, <1>7, <2>1
    <3>3. r = o[p].t + scans[p].dur[m] + k
          /\ Ready(o[p].t, scans[p].dur[m] + more, o[p].src, o[n].src)
                 = o[p].t + (scans[p].dur[m] + more) + k
      BY <3>1, <3>2
    <3> HIDE DEF r
    <3> QED
      BY <2>1, <3>2, <3>3
  <2>3. Room(m, p, n) = o[n].t - r
    BY <1>8 DEF Room
  <2>4. o[n].t \in Int
    BY <1>5
  <2> HIDE DEF r
  <2> QED
    BY <2>1, <2>2, <2>3, <2>4 DEF Fits
<1> DEFINE dur == [scans[p].dur EXCEPT ![m] = @ + more]
           new == [scans EXCEPT ![p].dur = dur]
<1>10. dur \in [Stations -> Nat]
    BY <1>6, <1>8, <1>9
<1>11. dur[m] = scans[p].dur[m] + more /\ \A l \in Stations : l # m => dur[l] = scans[p].dur[l]
    BY <1>6, <1>8
<1>12. scans' = new
    BY <1>2
<1> HIDE DEF dur
<1>13. \A l \in Stations : dur[l] > o[p].dur[l] => l \in job.who
  <2>1. m \in job.who
    BY <1>1, <1>3 DEF m, p, n
  <2>2. \A l \in Stations : scans[p].dur[l] > o[p].dur[l] => l \in job.who
    BY <1>4, <1>7 DEF Longer
  <2> QED
    BY <1>11, <2>1, <2>2
<1>14. /\ Longer(new, o, job.who) /\ new[p].dur = dur
       /\ \A i \in DOMAIN o : i # p => new[i] = scans[i]
  <2>1. o \in Schedules /\ Longer(scans, o, job.who) /\ p \in DOMAIN o
    BY <1>4, <1>7
  <2> HIDE DEF o
  <2> QED
    BY <1>10, <1>13, <2>1, LongerStill
<1> HIDE DEF new
<1>15. ASSUME OnTime(o)
       PROVE  OnTime(new)
  <2>1. OnTime(scans)
    BY <1>1, <1>15 DEF Filled
  <2>2. ASSUME NEW l \in Stations, NEW i \in DOMAIN o, NEW j \in DOMAIN o, Follows(o, l, i, j)
        PROVE  Fits(o, i, j, new[i].dur[l])
    <3>1. Fits(o, i, j, scans[i].dur[l])
      BY <1>4, <2>1, <2>2, OnTimeFits
    <3>2. CASE i = p /\ l = m
      <4>1. j = n
        <5>1. p < j /\ Place(o, m, j) /\ \A k \in (p + 1)..(j - 1) : ~Place(o, m, k)
          BY <2>2, <3>2 DEF Follows
        <5>2. CASE j <= n
          BY <1>7, <5>1, <5>2
        <5>3. CASE n < j
          <6>1. n \in (p + 1)..(j - 1)
            BY <1>5, <1>7, <5>3
          <6> QED
            BY <1>6, <5>1, <6>1 DEF m, p, n
        <5> QED
          BY <1>5, <5>2, <5>3
      <4> QED
        BY <1>9, <1>11, <1>14, <3>2, <4>1
    <3>3. CASE ~(i = p /\ l = m)
      <4>1. new[i].dur[l] = scans[i].dur[l]
        BY <1>11, <1>14, <3>3
      <4> QED
        BY <3>1, <4>1
    <3> QED
      BY <3>2, <3>3
  <2> QED
    BY <1>4, <1>14, <2>2, OnTimeFits
<1>16. beg \in 1..Len(o) /\ end \in Nat /\ end <= Len(o)
  <2>1. fill.beg \in Int /\ p \in Int
    BY <1>3, <1>5, <1>7
  <2>2. beg \in {fill.beg, p}
    BY <2>1, MinOfTwo
  <2>3. end \in {beg, p}
    BY <2>1, <2>2, MaxOfTwo
  <2> HIDE DEF beg, end
  <2> QED
    BY <1>3, <1>5, <1>7, <2>2, <2>3
<1>17. do \in SUBSET job.who
    BY <1>2, <1>3
<1> HIDE DEF beg, end
<1>18. /\ FillTypes(fill', Len(o), job.who) /\ Looping(fill', o, job) /\ fill'.phase = "stations"
    BY <1>1, <1>2, <1>16, <1>17, LookedFacts DEF m
<1>19. Filled(fill', new, o, job)
    BY <1>1, <1>14, <1>15, <1>18 DEF Filled
<1> QED
    BY <1>12, <1>18, <1>19

\* All stations of a scan looked at, or the scan is not in the window.
LEMMA NextScanStays ==
    ASSUME Filled(fill, scans, was.scans, job), NextScan
    PROVE  Filled(fill', scans', was.scans, job) /\ fill'.phase # "off"
<1> DEFINE o == was.scans
           f == fill
<1>1. f.phase = "stations" /\ f.todo = << >> /\ scans' = scans
    BY DEF NextScan, table
<1>2. /\ FillTypes(f, Len(o), job.who) /\ f.at \in Nat \ {0} /\ f.prev \in [Stations -> 0..Len(o)]
      /\ Len(scans) = Len(o) /\ f.end \in Nat /\ job.window.en \in Nat
    BY <1>1, FillFacts
<1>3. o \in Schedules /\ Longer(scans, o, job.who) /\ Looping(f, o, job)
    BY <1>1 DEF Filled
<1>4. /\ Len(o) \in Nat \ {0} /\ DOMAIN o = 1..Len(o) /\ f.at \in DOMAIN o
      /\ \A i, j \in DOMAIN o : i <= j => o[i].t <= o[j].t
      /\ \A i \in DOMAIN o : o[i].t \in Nat
      /\ scans[f.at].t = o[f.at].t
    BY <1>1, <1>3, ScheduleFacts DEF Looping, Longer
<1>5. \A m \in Stations : m \notin ToSet(f.todo)
    BY <1>1 DEF ToSet
<1>6. \A m \in Stations : f.prev[m] # 0 => Seen(f, o, job, m, f.prev[m])
    BY <1>3 DEF Looping
<1>7. CASE scans[f.at].t > job.window.en
  <2> DEFINE g == [f EXCEPT !.phase = "rest", !.end = f.at, !.at = 1]
  <2>1. fill' = g
    BY <1>7 DEF NextScan
  <2>2. g.phase = "rest" /\ g.prev = f.prev /\ g.end = f.at /\ FillTypes(g, Len(o), job.who)
    <3> DEFINE a == f.at
               b == 1
    <3>1. a \in Nat /\ b \in Nat \ {0} /\ g = [f EXCEPT !.phase = "rest", !.end = a, !.at = b]
      BY <1>2
    <3> HIDE DEF a, b
    <3>2. g.phase = "rest" /\ g.prev = f.prev /\ g.end = a /\ FillTypes(g, Len(o), job.who)
      BY <1>2, <3>1 DEF FillTypes
    <3> QED
      BY <3>2 DEF a
  <2> HIDE DEF g
  <2>3. Rest(g, o, job)
    <3> SUFFICES ASSUME NEW m \in Stations, f.prev[m] # 0
                 PROVE  /\ f.prev[m] \in DOMAIN o
                        /\ \A j \in DOMAIN o : f.prev[m] < j /\ Place(o, m, j) =>
                               o[j - 1].t > job.window.en
      BY <2>2 DEF Rest
    <3>1. Seen(f, o, job, m, f.prev[m])
      BY <1>6
    <3>2. ASSUME NEW j \in DOMAIN o, f.prev[m] < j, Place(o, m, j)
          PROVE  o[j - 1].t > job.window.en
      <4>1. ~(j <= f.at)
        BY <1>1, <1>5, <3>1, <3>2 DEF Seen
      <4>2. j - 1 \in DOMAIN o /\ f.at <= j - 1
        BY <1>4, <4>1
      <4>3. o[f.at].t <= o[j - 1].t /\ o[f.at].t > job.window.en
        BY <1>4, <1>7, <4>2
      <4> QED
        BY <1>2, <1>4, <4>2, <4>3
    <3> QED
      BY <3>1, <3>2 DEF Seen
  <2>4. LeftOnTime(scans, o, job)
    <3> SUFFICES ASSUME OnTime(o), NEW m \in Stations, NEW i \in DOMAIN o, NEW j \in DOMAIN o,
                        Follows(o, m, i, j)
                 PROVE  /\ Fits(o, i, j, scans[i].dur[m])
                        /\ o[i].t + scans[i].dur[m] <= o[j].t
      BY DEF LeftOnTime
    <3>1. Fits(o, i, j, scans[i].dur[m])
      BY <1>1, <1>3, OnTimeFits DEF Filled
    <3>2. scans[i].dur[m] \in Nat /\ Slew \in Nat /\ o[i].t \in Nat /\ o[j].t \in Nat
      BY <1>3, <1>4, LongerFacts, TableAssumption
    <3> QED
      BY <3>1, <3>2 DEF Fits, Ready
  <2>5. Limited(g, o, job)
    BY <1>4, <2>2 DEF Limited
  <2>6. Filled(g, scans, o, job)
    BY <1>1, <2>2, <2>3, <2>4, <2>5 DEF Filled
  <2> QED
    BY <1>1, <2>1, <2>2, <2>6
<1>8. CASE ~(scans[f.at].t > job.window.en)
  <2> DEFINE a == f.at + 1
             g == [f EXCEPT !.phase = "scans", !.at = a]
  <2>1. fill' = g
    BY <1>8 DEF NextScan
  <2>2. a \in Nat \ {0} /\ a \in 1..(Len(o) + 1)
    BY <1>2, <1>4
  <2> HIDE DEF a
  <2>3. /\ g.phase = "scans" /\ g.prev = f.prev /\ g.end = f.end /\ g.at = a
        /\ FillTypes(g, Len(o), job.who)
    BY <1>2, <2>2 DEF FillTypes
  <2> HIDE DEF g
  <2>4. \A m \in Stations : g.prev[m] # 0 => Seen(g, o, job, m, g.prev[m])
    <3> SUFFICES ASSUME NEW m \in Stations, f.prev[m] # 0
                 PROVE  Seen(g, o, job, m, f.prev[m])
      BY <2>3
    <3>1. Seen(f, o, job, m, f.prev[m])
      BY <1>6
    <3>2. f.prev[m] <= f.at /\ f.prev[m] \in Int
      BY <1>2, <3>1 DEF Seen
    <3>3. \A k \in DOMAIN o : f.prev[m] < k /\ k <= a /\ Place(o, m, k) => k = a
      <4>1. \A k \in DOMAIN o : k <= a => k <= f.at \/ k = a
        BY <1>2, <1>4 DEF a
      <4>2. \A k \in DOMAIN o : ~(f.prev[m] < k /\ k <= f.at /\ Place(o, m, k))
        BY <1>1, <1>5, <3>1 DEF Seen
      <4> QED
        BY <4>1, <4>2
    <3>4. f.prev[m] < a /\ f.prev[m] <= a /\ f.prev[m] # a
      BY <1>2, <3>2 DEF a
    <3> QED
      BY <2>3, <3>1, <3>3, <3>4 DEF Seen
  <2>5. \A k \in DOMAIN o : k < a /\ job.window.st <= o[k].t => o[k].t <= job.window.en
    <3>1. \A k \in DOMAIN o : k < a => k < f.at \/ k = f.at
      BY <1>2, <1>4 DEF a
    <3>2. o[f.at].t <= job.window.en
      BY <1>2, <1>4, <1>8
    <3> QED
      BY <1>3, <3>1, <3>2 DEF Looping
  <2>6. Looping(g, o, job)
    BY <1>3, <2>2, <2>3, <2>4, <2>5 DEF Looping
  <2>7. Filled(g, scans, o, job)
    BY <1>1, <2>3, <2>6 DEF Filled
  <2> QED
    BY <1>1, <2>1, <2>3, <2>7
<1> QED
    BY <1>7, <1>8

\* The first loop has read all scans.
LEMMA NoMoreScansStays ==
    ASSUME Filled(fill, scans, was.scans, job), NoMoreScans
    PROVE  Filled(fill', scans', was.scans, job) /\ fill'.phase # "off"
<1> DEFINE o == was.scans
           f == fill
           g == [f EXCEPT !.phase = "rest", !.end = f.at, !.at = 1]
<1>1. f.phase = "scans" /\ f.at > Len(scans) /\ fill' = g /\ scans' = scans
    BY DEF NoMoreScans, table, nobs
<1>2. /\ FillTypes(f, Len(o), job.who) /\ f.at \in Nat \ {0} /\ f.prev \in [Stations -> 0..Len(o)]
      /\ Len(scans) = Len(o) /\ job.window.en \in Nat
    BY <1>1, FillFacts
<1>3. o \in Schedules /\ Longer(scans, o, job.who) /\ Looping(f, o, job)
    BY <1>1 DEF Filled
<1>4. /\ Len(o) \in Nat \ {0} /\ DOMAIN o = 1..Len(o)
      /\ \A i \in DOMAIN o : o[i].t \in Nat
    BY <1>3, ScheduleFacts
<1>5. g.phase = "rest" /\ g.prev = f.prev /\ FillTypes(g, Len(o), job.who)
  <2> DEFINE a == f.at
             b == 1
  <2>1. a \in Nat /\ b \in Nat \ {0} /\ g = [f EXCEPT !.phase = "rest", !.end = a, !.at = b]
    BY <1>2
  <2> HIDE DEF a, b
  <2> QED
    BY <1>2, <2>1 DEF FillTypes
<1> HIDE DEF g
<1>6. Rest(g, o, job)
  <2> SUFFICES ASSUME NEW m \in Stations, f.prev[m] # 0
               PROVE  /\ f.prev[m] \in DOMAIN o
                      /\ \A j \in DOMAIN o : ~(f.prev[m] < j /\ Place(o, m, j))
    BY <1>5 DEF Rest
  <2>1. Seen(f, o, job, m, f.prev[m])
    BY <1>3 DEF Looping
  <2>2. \A j \in DOMAIN o : j <= f.at /\ j # f.at
    BY <1>1, <1>2, <1>4
  <2> QED
    BY <2>1, <2>2 DEF Seen
<1>7. LeftOnTime(scans, o, job)
  <2> SUFFICES ASSUME OnTime(o), NEW m \in Stations, NEW i \in DOMAIN o, NEW j \in DOMAIN o,
                      Follows(o, m, i, j)
               PROVE  /\ Fits(o, i, j, scans[i].dur[m])
                      /\ o[i].t + scans[i].dur[m] <= o[j].t
    BY DEF LeftOnTime
  <2>1. Fits(o, i, j, scans[i].dur[m])
    BY <1>1, <1>3, OnTimeFits DEF Filled
  <2>2. scans[i].dur[m] \in Nat /\ Slew \in Nat /\ o[i].t \in Nat /\ o[j].t \in Nat
    BY <1>3, <1>4, LongerFacts, TableAssumption
  <2> QED
    BY <2>1, <2>2 DEF Fits, Ready
<1>8. Limited(g, o, job)
  <2>1. Len(o) \in DOMAIN o /\ Len(o) < f.at
    BY <1>1, <1>2, <1>4
  <2> QED
    BY <1>3, <2>1 DEF Looping, Limited
<1>9. Filled(g, scans, o, job)
    BY <1>1, <1>5, <1>6, <1>7, <1>8 DEF Filled
<1> QED
    BY <1>1, <1>5, <1>9

-----------------------------------------------------------------------------
(* The second loop, and the third. *)

\* The second loop passes over a station that is in no scan of the window.
LEMMA SkipStationStays ==
    ASSUME Filled(fill, scans, was.scans, job), SkipStation
    PROVE  Filled(fill', scans', was.scans, job) /\ fill'.phase # "off"
<1> DEFINE o == was.scans
           a == fill.at + 1
<1>1. fill.phase = "rest" /\ scans' = scans
    BY DEF SkipStation, table
<1>2. FillTypes(fill, Len(o), job.who) /\ fill.at \in Nat \ {0}
    BY <1>1, FillFacts
<1>3. a \in Nat \ {0}
    BY <1>2
<1>4. PICK do \in SUBSET job.who : fill' = [fill EXCEPT !.at = a, !.do = do]
  <2>1. fill.do \in SUBSET job.who
    BY <1>1, FillFacts
  <2>2. CASE fill' = [fill EXCEPT !.at = @ + 1]
    <3>1. fill' = [fill EXCEPT !.at = a, !.do = fill.do]
      BY <1>2, <2>2 DEF FillTypes
    <3> QED
      BY <2>1, <3>1
  <2>3. CASE fill' = [fill EXCEPT !.at = @ + 1, !.do = @ \ {fill.istat}]
    <3>1. fill' = [fill EXCEPT !.at = a, !.do = fill.do \ {fill.istat}]
      BY <2>3
    <3> QED
      BY <2>1, <3>1
  <2> QED
    BY <2>2, <2>3 DEF SkipStation
<1> HIDE DEF a
<1>5. /\ fill'.phase = "rest" /\ fill'.prev = fill.prev /\ fill'.end = fill.end
      /\ FillTypes(fill', Len(o), job.who)
    BY <1>1, <1>2, <1>3, <1>4 DEF FillTypes
<1>6. Rest(fill', o, job) /\ Limited(fill', o, job)
    BY <1>1, <1>5 DEF Filled, Rest, Limited
<1> QED
    BY <1>1, <1>5, <1>6 DEF Filled

\* Whoever stays on until the window ends is still in time for a scan behind it.
LEMMA UntilFits ==
    ASSUME NEW x \in ScanFields, x.sta # << >>, NEW m \in Stations, job.window.en \in Nat
    PROVE  /\ Until(x, m) \in Nat /\ x.dur[m] <= Until(x, m)
           /\ Until(x, m) > x.dur[m] => x.t + Until(x, m) <= job.window.en
<1>1. x.t \in Nat /\ x.dur \in [Stations -> Nat] /\ x.dur[m] \in Nat /\ x.sta \in Seq(Stations)
    BY DEF ScanFields
<1>2. Longest(x.dur, ToSet(x.sta)) \in Nat
  <2>1. ToSet(x.sta) \in SUBSET Stations /\ ToSet(x.sta) # {}
    BY <1>1, MembersAt
  <2> QED
    BY <1>1, <2>1, LongestIs
<1> DEFINE long == Longest(x.dur, ToSet(x.sta))
           rest == job.window.en - x.t
           short == Min({rest, long})
           d == x.dur[m]
           until == Max({d, short})
<1>3. rest \in Int /\ long \in Int /\ x.t + rest = job.window.en
    BY <1>1, <1>2
<1> HIDE DEF rest, long
<1>4. short \in Int /\ short <= rest
    BY <1>3, MinOfTwo
<1> HIDE DEF short
<1>5. until \in {d, short} /\ d <= until
  <2>1. d \in Int
    BY <1>1
  <2> HIDE DEF d
  <2> QED
    BY <1>4, <2>1, MaxOfTwo
<1>6. until = Until(x, m)
    BY DEF until, short, rest, long, Until
<1> HIDE DEF until
<1>7. until \in Nat /\ (until > x.dur[m] => x.t + until <= job.window.en)
    BY <1>1, <1>3, <1>4, <1>5
<1> QED
    BY <1>5, <1>6, <1>7

\* A station left is made to stay where its next scan starts behind the
\* window.
LEMMA FillLastScanStays ==
    ASSUME Filled(fill, scans, was.scans, job), FillLastScan
    PROVE  Filled(fill', scans', was.scans, job) /\ fill'.phase # "off"
<1> DEFINE o == was.scans
           p == fill.prev[fill.at]
           x == scans[p]
           us == {m \in ToSet(x.sta) : m \in fill.do /\ fill.prev[m] = p}
           a == fill.at + 1
           beg == Min({fill.beg, p})
           end == Max({Min({fill.beg, p}), p})
           do == fill.do \ {m \in ToSet(x.sta) : fill.prev[m] = p}
           last == Last(x.sta)
<1>1. fill.phase = "rest" /\ fill.at <= NStatn /\ p # 0
    BY DEF FillLastScan
<1>2. PICK stay \in [us -> 0..Longest(x.dur, ToSet(x.sta))] :
          /\ \A m \in us : x.dur[m] <= stay[m] /\ stay[m] <= Until(x, m)
          /\ scans' = [scans EXCEPT ![p].dur =
               [m \in Stations |-> IF m \in us THEN stay[m] ELSE @[m]]]
    BY DEF FillLastScan, LastScan
<1>3. fill' = [fill EXCEPT !.at = a, !.istat = last, !.do = do, !.beg = beg, !.end = end]
    BY DEF FillLastScan
<1>4. /\ FillTypes(fill, Len(o), job.who) /\ fill.at \in Nat \ {0}
      /\ fill.prev \in [Stations -> 0..Len(o)] /\ fill.do \in SUBSET job.who
      /\ job.who \in SUBSET Stations /\ fill.beg \in 1..Len(o) /\ job.window.en \in Nat
    BY <1>1, FillFacts
<1>5. /\ o \in Schedules /\ Longer(scans, o, job.who)
      /\ Rest(fill, o, job) /\ Limited(fill, o, job) /\ LeftOnTime(scans, o, job)
    BY <1>1 DEF Filled
<1>6. /\ Len(o) \in Nat \ {0} /\ DOMAIN o = 1..Len(o)
      /\ \A i \in DOMAIN o : o[i].t \in Nat
      /\ \A i, j \in DOMAIN o : i <= j => o[i].t <= o[j].t
    BY <1>5, ScheduleFacts
<1>7. fill.at \in Stations /\ p \in DOMAIN o
  <2>1. fill.at \in Stations
    BY <1>1, <1>4, TableAssumption DEF Stations
  <2> QED
    BY <1>1, <1>5, <2>1 DEF Rest
<1>8. /\ x \in ScanFields /\ x.dur \in [Stations -> Nat] /\ x.sta = o[p].sta /\ x.t = o[p].t
      /\ x.sta # << >> /\ last \in Stations
  <2>1. x \in ScanFields /\ x.dur \in [Stations -> Nat] /\ x.sta = o[p].sta /\ x.t = o[p].t
    BY <1>5, <1>7, LongerFacts DEF Longer
  <2>2. o[p].sta # << >> /\ o[p].sta \in Seq(Stations)
    BY <1>5, <1>7, TwoStations, ScheduleFacts
  <2>3. Last(o[p].sta) \in Stations
    <3> DEFINE list == o[p].sta
    <3>1. list # << >> /\ list \in Seq(Stations)
      BY <2>2
    <3> HIDE DEF list
    <3>2. Len(list) \in 1..Len(list)
      BY <3>1, EmptySeq
    <3>3. list[Len(list)] \in Stations
      BY <3>1, <3>2, ElementOfSeq
    <3> QED
      BY <3>3 DEF Last, list
  <2> QED
    BY <2>1, <2>2, <2>3
<1> DEFINE dur == [m \in Stations |-> IF m \in us THEN stay[m] ELSE x.dur[m]]
           new == [scans EXCEPT ![p].dur = dur]
<1>9. scans' = new
    BY <1>2
<1>10. /\ dur \in [Stations -> Nat]
       /\ \A m \in Stations : x.dur[m] <= dur[m]
       /\ \A m \in Stations : dur[m] > x.dur[m] =>
             m \in us /\ x.t + dur[m] <= job.window.en
  <2> SUFFICES ASSUME NEW m \in Stations
               PROVE  /\ dur[m] \in Nat /\ x.dur[m] <= dur[m]
                      /\ dur[m] > x.dur[m] => m \in us /\ x.t + dur[m] <= job.window.en
    OBVIOUS
  <2>1. dur[m] = IF m \in us THEN stay[m] ELSE x.dur[m]
    OBVIOUS
  <2>2. x.dur[m] \in Nat
    BY <1>8
  <2>3. /\ Until(x, m) \in Nat /\ x.dur[m] <= Until(x, m)
        /\ Until(x, m) > x.dur[m] => x.t + Until(x, m) <= job.window.en
    BY <1>4, <1>8, UntilFits
  <2>6. m \in us => stay[m] \in 0..Longest(x.dur, ToSet(x.sta))
    OBVIOUS
  <2>7. m \in us => x.dur[m] <= stay[m] /\ stay[m] <= Until(x, m)
    BY <1>2
  <2> DEFINE long == Longest(x.dur, ToSet(x.sta))
  <2>8. x.t \in Nat /\ job.window.en \in Nat
    BY <1>4, <1>8 DEF ScanFields
  <2> HIDE DEF dur, us, x, long
  <2>4. CASE m \in us
    <3>1. stay[m] \in Nat
      BY <2>2, <2>4, <2>6, <2>7
    <3> QED
      BY <2>1, <2>2, <2>3, <2>4, <2>7, <2>8, <3>1
  <2>5. CASE m \notin us
    BY <2>1, <2>2, <2>5
  <2> QED
    BY <2>4, <2>5
<1>11. \A m \in us : m \in Stations /\ m \in job.who /\ fill.prev[m] = p
    BY <1>4
<1> HIDE DEF dur, us
<1>12. \A m \in Stations : dur[m] > o[p].dur[m] => m \in job.who
  <2> SUFFICES ASSUME NEW m \in Stations, dur[m] > o[p].dur[m], m \notin job.who
               PROVE  FALSE
    OBVIOUS
  <2>1. ~(dur[m] > x.dur[m]) /\ ~(x.dur[m] > o[p].dur[m])
    BY <1>5, <1>7, <1>10, <1>11 DEF Longer
  <2>2. dur[m] \in Nat /\ x.dur[m] \in Nat
    BY <1>8, <1>10
  <2>3. o[p].dur[m] \in Nat
    BY <1>5, <1>7, ScheduleFacts
  <2> HIDE DEF x, p, o
  <2> QED
    BY <2>1, <2>2, <2>3
<1>13. /\ Longer(new, o, job.who) /\ new[p].dur = dur
       /\ \A i \in DOMAIN o : i # p => new[i] = scans[i]
  <2>1. o \in Schedules /\ Longer(scans, o, job.who) /\ p \in DOMAIN o
    BY <1>5, <1>7
  <2> HIDE DEF o, p
  <2> QED
    BY <1>10, <1>12, <2>1, LongerStill
<1> HIDE DEF new
<1>14. LeftOnTime(new, o, job)
  <2> SUFFICES ASSUME OnTime(o), NEW m \in Stations, NEW i \in DOMAIN o, NEW j \in DOMAIN o,
                      Follows(o, m, i, j)
               PROVE  IF o[j - 1].t <= job.window.en
                        THEN Fits(o, i, j, new[i].dur[m])
                        ELSE o[i].t + new[i].dur[m] <= o[j].t
    BY DEF LeftOnTime
  <2>1. IF o[j - 1].t <= job.window.en
          THEN Fits(o, i, j, scans[i].dur[m])
          ELSE o[i].t + scans[i].dur[m] <= o[j].t
    BY <1>5 DEF LeftOnTime
  <2>2. CASE new[i].dur[m] = scans[i].dur[m]
    BY <2>1, <2>2
  <2>3. CASE new[i].dur[m] # scans[i].dur[m]
    <3>1. i = p
      BY <1>13, <2>3
    <3>2. dur[m] > x.dur[m]
      <4>1. dur[m] \in Nat /\ x.dur[m] \in Nat /\ x.dur[m] <= dur[m] /\ dur[m] # x.dur[m]
        BY <1>8, <1>10, <1>13, <2>3, <3>1
      <4> QED
        BY <4>1
    <3>3. fill.prev[m] = p /\ o[p].t + dur[m] <= job.window.en
      BY <1>8, <1>10, <1>11, <3>2
    <3>4. o[j - 1].t > job.window.en
      BY <1>1, <1>5, <2>2, <3>1, <3>3 DEF Rest, Follows
    <3>5. j - 1 \in DOMAIN o /\ j - 1 <= j
      BY <1>6, <1>7, <3>1 DEF Follows
    <3>6. o[j - 1].t <= o[j].t /\ o[j].t \in Nat /\ o[j - 1].t \in Nat
      BY <1>6, <3>5
    <3>7. dur[m] \in Nat /\ o[p].t \in Nat
      BY <1>6, <1>7, <1>10
    <3>8. o[i].t + new[i].dur[m] <= o[j].t
      <4>1. new[i].dur[m] = dur[m]
        BY <1>13, <3>1
      <4>2. o[i].t = o[p].t
        BY <3>1
      <4> HIDE DEF o, p
      <4> QED
        BY <1>4, <3>3, <3>4, <3>6, <3>7, <4>1, <4>2
    <3> QED
      BY <1>4, <3>4, <3>6, <3>8
  <2> QED
    BY <2>2, <2>3
<1>15. beg \in 1..Len(o) /\ end \in Nat /\ end <= Len(o)
  <2>1. fill.beg \in Int /\ p \in Int
    BY <1>4, <1>6, <1>7
  <2> HIDE DEF p
  <2>2. beg \in {fill.beg, p}
    BY <2>1, MinOfTwo
  <2>3. end \in {beg, p}
    BY <2>1, <2>2, MaxOfTwo
  <2> HIDE DEF beg, end
  <2> QED
    BY <1>4, <1>6, <1>7, <2>2, <2>3
<1>16. do \in SUBSET job.who /\ a \in Nat \ {0}
    BY <1>4
<1> HIDE DEF a, do, beg, end, last
<1>17. /\ fill'.phase = "rest" /\ fill'.prev = fill.prev /\ fill'.end = end
       /\ FillTypes(fill', Len(o), job.who)
    BY <1>1, <1>3, <1>4, <1>8, <1>15, <1>16 DEF FillTypes
<1>18. Rest(fill', o, job) /\ Limited(fill', o, job)
    BY <1>5, <1>15, <1>17 DEF Rest, Limited
<1>19. Filled(fill', new, o, job)
    BY <1>13, <1>14, <1>17, <1>18 DEF Filled
<1> QED
    BY <1>9, <1>17, <1>19

\* The second loop is over.
LEMMA NoMoreStationsStays ==
    ASSUME Filled(fill, scans, was.scans, job), NoMoreStations
    PROVE  Filled(fill', scans', was.scans, job) /\ fill'.phase # "off"
<1> DEFINE o == was.scans
           a == fill.beg
<1>1. /\ fill.phase = "rest" /\ scans' = scans
      /\ fill' = [fill EXCEPT !.phase = "clean", !.at = a]
    BY DEF NoMoreStations, table
<1>2. FillTypes(fill, Len(o), job.who) /\ fill.beg \in 1..Len(o)
    BY <1>1, FillFacts
<1>3. a \in Nat \ {0}
    BY <1>2
<1> HIDE DEF a
<1>4. fill'.phase = "clean" /\ fill'.end = fill.end /\ FillTypes(fill', Len(o), job.who)
    BY <1>1, <1>2, <1>3 DEF FillTypes
<1>5. Limited(fill', o, job)
    BY <1>1, <1>4 DEF Filled, Limited
<1> QED
    BY <1>1, <1>4, <1>5 DEF Filled

\* The third loop makes nobody stay longer.
LEMMA TrimmedIsShorter ==
    ASSUME NEW x \in ScanFields, \A m \in Stations : ToSet(x.sta) \ {m} # {}
    PROVE  \E dur \in [Stations -> Nat] :
              /\ Trimmed(x) = [x EXCEPT !.dur = dur]
              /\ \A m \in Stations : dur[m] <= x.dur[m]
<1> DEFINE us == ToSet(x.sta)
           dur == [m \in Stations |->
                     IF m \in us /\ \A n \in us \ {m} : x.dur[n] < x.dur[m]
                       THEN Longest(x.dur, us \ {m}) ELSE x.dur[m]]
<1>1. Trimmed(x) = [x EXCEPT !.dur = dur]
    BY DEF Trimmed
<1>2. x.dur \in [Stations -> Nat] /\ us \subseteq Stations
  <2>1. x.dur \in [Stations -> Nat] /\ x.sta \in Seq(Stations)
    BY DEF ScanFields
  <2> QED
    BY <2>1, MembersAt
<1>3. ASSUME NEW m \in Stations
      PROVE  dur[m] \in Nat /\ dur[m] <= x.dur[m]
  <2>1. x.dur[m] \in Nat /\ us \ {m} \in SUBSET Stations /\ us \ {m} # {}
    BY <1>2
  <2>2. Longest(x.dur, us \ {m}) \in Nat
        /\ \E n \in us \ {m} : x.dur[n] = Longest(x.dur, us \ {m})
    BY <1>2, <2>1, LongestIs
  <2> HIDE DEF us
  <2>3. CASE m \in us /\ \A n \in us \ {m} : x.dur[n] < x.dur[m]
    <3>1. dur[m] = Longest(x.dur, us \ {m})
      BY <2>3
    <3>2. Longest(x.dur, us \ {m}) < x.dur[m]
      BY <2>2, <2>3
    <3> HIDE DEF dur
    <3> QED
      BY <2>1, <2>2, <3>1, <3>2
  <2>4. CASE ~(m \in us /\ \A n \in us \ {m} : x.dur[n] < x.dur[m])
    <3>1. dur[m] = x.dur[m]
      BY <2>4
    <3> HIDE DEF dur
    <3> QED
      BY <2>1, <3>1
  <2> QED
    BY <2>3, <2>4
<1>4. dur = [m \in Stations |-> dur[m]]
    OBVIOUS
<1> HIDE DEF dur
<1>5. dur \in [Stations -> Nat]
    BY <1>3, <1>4
<1> QED
    BY <1>1, <1>3, <1>5

\* The third loop makes a duration shorter and nobody late.
LEMMA TrimStays ==
    ASSUME Filled(fill, scans, was.scans, job), Trim
    PROVE  Filled(fill', scans', was.scans, job) /\ fill'.phase # "off"
<1> DEFINE o == was.scans
           p == fill.at
           x == scans[p]
           a == fill.at + 1
<1>1. /\ fill.phase = "clean" /\ p <= Len(scans)
      /\ scans' = [scans EXCEPT ![p] = Trimmed(x)] /\ fill' = [fill EXCEPT !.at = a]
    BY DEF Trim, nobs
<1>2. FillTypes(fill, Len(o), job.who) /\ p \in Nat \ {0} /\ Len(scans) = Len(o)
    BY <1>1, FillFacts
<1>3. /\ o \in Schedules /\ Longer(scans, o, job.who)
      /\ Limited(fill, o, job) /\ LeftOnTime(scans, o, job)
    BY <1>1 DEF Filled
<1>4. p \in DOMAIN o /\ \A i \in DOMAIN o : o[i].t \in Nat
    BY <1>1, <1>2, <1>3, ScheduleFacts
<1>5. x \in ScanFields /\ x.dur \in [Stations -> Nat] /\ \A m \in Stations : ToSet(x.sta) \ {m} # {}
  <2>1. x \in ScanFields /\ x.dur \in [Stations -> Nat] /\ x.sta = o[p].sta
    BY <1>3, <1>4, LongerFacts DEF Longer
  <2> QED
    BY <1>3, <1>4, <2>1, TwoStations
<1>6. PICK dur \in [Stations -> Nat] :
          /\ Trimmed(x) = [x EXCEPT !.dur = dur]
          /\ \A m \in Stations : dur[m] <= x.dur[m]
  <2> HIDE DEF x
  <2> QED
    BY <1>5, TrimmedIsShorter
<1> DEFINE new == [scans EXCEPT ![p].dur = dur]
<1>7. scans' = new
    BY <1>1, <1>6
<1>8. \A m \in Stations : dur[m] > o[p].dur[m] => m \in job.who
  <2> SUFFICES ASSUME NEW m \in Stations, dur[m] > o[p].dur[m]
               PROVE  x.dur[m] > o[p].dur[m]
    BY <1>3, <1>4 DEF Longer
  <2>1. dur[m] \in Nat /\ x.dur[m] \in Nat /\ o[p].dur[m] \in Nat
    BY <1>3, <1>4, <1>5, ScheduleFacts
  <2> QED
    BY <1>6, <2>1
<1>9. /\ Longer(new, o, job.who) /\ new[p].dur = dur
      /\ \A i \in DOMAIN o : i # p => new[i] = scans[i]
  <2>1. o \in Schedules /\ Longer(scans, o, job.who) /\ p \in DOMAIN o
    BY <1>3, <1>4
  <2> HIDE DEF o, p
  <2> QED
    BY <1>8, <2>1, LongerStill
<1> HIDE DEF new
<1>10. LeftOnTime(new, o, job)
  <2> SUFFICES ASSUME OnTime(o), NEW m \in Stations, NEW i \in DOMAIN o, NEW j \in DOMAIN o,
                      Follows(o, m, i, j)
               PROVE  IF o[j - 1].t <= job.window.en
                        THEN Fits(o, i, j, new[i].dur[m])
                        ELSE o[i].t + new[i].dur[m] <= o[j].t
    BY DEF LeftOnTime
  <2>1. IF o[j - 1].t <= job.window.en
          THEN Fits(o, i, j, scans[i].dur[m])
          ELSE o[i].t + scans[i].dur[m] <= o[j].t
    BY <1>3 DEF LeftOnTime
  <2>2. new[i].dur[m] \in Nat /\ scans[i].dur[m] \in Nat /\ o[i].t \in Nat /\ o[j].t \in Nat
    BY <1>3, <1>4, <1>9, LongerFacts
  <2>3. new[i].dur[m] <= scans[i].dur[m]
    <3>1. CASE i = p
      BY <1>6, <1>9, <3>1
    <3>2. CASE i # p
      BY <1>9, <2>2, <3>2
    <3> QED
      BY <3>1, <3>2
  <2>4. PICK k \in Nat : \A t, d : Ready(t, d, o[i].src, o[j].src) = t + d + k
    BY ReadyIs
  <2>5. Fits(o, i, j, scans[i].dur[m]) => Fits(o, i, j, new[i].dur[m])
    BY <2>2, <2>3, <2>4 DEF Fits
  <2>6. o[i].t + scans[i].dur[m] <= o[j].t => o[i].t + new[i].dur[m] <= o[j].t
    BY <2>2, <2>3
  <2> QED
    BY <2>1, <2>5, <2>6
<1>11. a \in Nat \ {0}
    BY <1>2
<1> HIDE DEF a
<1>12. fill'.phase = "clean" /\ fill'.end = fill.end /\ FillTypes(fill', Len(o), job.who)
    BY <1>1, <1>2, <1>11 DEF FillTypes
<1>13. Limited(fill', o, job)
    BY <1>3, <1>12 DEF Limited
<1> QED
    BY <1>7, <1>9, <1>10, <1>12, <1>13 DEF Filled

\* The third loop leaves the index only behind a window that reaches so far.
LEMMA TrimBeyondStays ==
    ASSUME Filled(fill, scans, was.scans, job), TrimBeyond
    PROVE  /\ Filled(fill', scans', was.scans, job) /\ fill'.phase # "off"
           /\ was.scans[Len(was.scans)].t <= job.window.en
<1> DEFINE o == was.scans
           a == fill.at + 1
<1>1. /\ fill.phase = "clean" /\ fill.at <= fill.end /\ fill.at > Len(scans)
      /\ scans' = scans /\ fill' = [fill EXCEPT !.at = a]
    BY DEF TrimBeyond, nobs
<1>2. /\ FillTypes(fill, Len(o), job.who) /\ fill.at \in Nat \ {0} /\ Len(scans) = Len(o)
      /\ fill.end \in Nat
    BY <1>1, FillFacts
<1>3. Limited(fill, o, job) /\ o \in Schedules
    BY <1>1 DEF Filled
<1>4. Len(o) \in Nat /\ ~(fill.end <= Len(o))
    BY <1>1, <1>2, <1>3, ScheduleFacts
<1>5. o[Len(o)].t <= job.window.en
    BY <1>3, <1>4 DEF Limited
<1>6. a \in Nat \ {0}
    BY <1>2
<1> HIDE DEF a
<1>7. fill'.phase = "clean" /\ fill'.end = fill.end /\ FillTypes(fill', Len(o), job.who)
    BY <1>1, <1>2, <1>6 DEF FillTypes
<1>8. Limited(fill', o, job)
    BY <1>3, <1>7 DEF Limited
<1> QED
    BY <1>1, <1>5, <1>7, <1>8 DEF Filled

\* FILL ends with what its third loop left.
LEMMA EndFillStays ==
    ASSUME Filled(fill, scans, was.scans, job), EndFill
    PROVE  Filled(fill', scans', was.scans, job) /\ fill'.phase = "off"
<1>1. fill' = Off /\ scans' = scans /\ fill.phase \in {"end", "clean"}
    BY DEF EndFill, Idle, Off, table
<1>2. fill'.phase = "off"
    BY <1>1 DEF Off
<1> QED
    BY <1>1, <1>2 DEF Filled

-----------------------------------------------------------------------------
(* Before the command, and FILL as a whole. *)

Waiting ==
    /\ job.cmd = "NONE" /\ ~busy /\ status = "ok" /\ irecgo = 0
    /\ was.scans \in Schedules /\ scans = was.scans /\ ircur \in DOMAIN scans
    /\ fill = Off /\ thin = Off /\ walk = Off
    /\ \E read \in DOMAIN scans, source \in {NoSource, Unread} :
          /\ cur = UnpakAll(Blank(source), scans, 1..read)
          /\ was.synced <=> read = ircur

\* FILL begins with the schedule as it is, or finds nothing to do.
LEMMA FillBegins == ASSUME Waiting, FillCommand PROVE Filling'
<1> DEFINE o == was.scans
<1>1. /\ o \in Schedules /\ scans = o /\ ircur \in DOMAIN o /\ thin = Off /\ walk = Off
      /\ status = "ok"
    BY DEF Waiting
<1>2. thin' = thin /\ walk' = walk
    BY DEF FillCommand
<1>3. PICK window \in Windows :
          \/ \E sources \in SourceLists, stations \in Subnets :
                BeginFill(window, sources, stations)
          \/ RefuseFill(window)
    BY DEF FillCommand
<1>4. window \in [st : Nat, en : Nat]
    BY TableAssumption
<1>5. Len(o) \in Nat \ {0} /\ o \in Seq(ScanFields) /\ \A i \in 1..Len(o) : o[i].t \in Nat
    BY <1>1, ScheduleFacts
<1>6. CASE \E sources \in SourceLists, stations \in Subnets :
              BeginFill(window, sources, stations)
  <2>1. PICK sources \in SourceLists, stations \in Subnets :
            BeginFill(window, sources, stations)
    BY <1>6
  <2> DEFINE c == [cmd |-> "FILL", window |-> window, sources |-> sources, who |-> stations]
             f == [phase |-> "scans", do |-> stations, prev |-> [m \in Stations |-> 0],
                   at |-> 1, todo |-> << >>, beg |-> Len(o), end |-> 1, istat |-> 0]
  <2>2. /\ job' = c /\ fill' = f /\ scans' = scans /\ ircur' = ircur /\ status' = status
        /\ was' = was /\ busy' = TRUE
        /\ window.st <= o[Len(o)].t
    BY <1>1, <2>1 DEF BeginFill, Begin, place, nobs
  <2>3. c \in FillJobs /\ c.who = stations /\ c.window = window
    BY <1>4, EditsAssumption DEF FillJobs
  <2>4. FillTypes(f, Len(o), stations) /\ f.phase = "scans"
    <3> DEFINE prev == [m \in Stations |-> 0]
               n == Len(o)
               one == 1
               none == << >>
    <3>1. /\ prev \in [Stations -> 0..n] /\ n \in 1..n /\ none \in Seq(Stations)
          /\ one \in Nat \ {0} /\ one \in Nat
      BY <1>5
    <3>2. f = [phase |-> "scans", do |-> stations, prev |-> prev, at |-> one, todo |-> none,
               beg |-> n, end |-> one, istat |-> 0]
      OBVIOUS
    <3> HIDE DEF prev, n, one, none, f
    <3>3. FillTypes(f, n, stations) /\ f.phase = "scans"
      BY <3>1, <3>2 DEF FillTypes
    <3> QED
      BY <3>3 DEF n
  <2> HIDE DEF c
  <2>5. Looping(f, o, c)
    <3>1. \A m \in Stations : f.prev[m] = 0
      OBVIOUS
    <3>2. \A k \in DOMAIN o : ~(k < f.at)
      BY <1>5
    <3>3. f.at \in 1..(Len(o) + 1) /\ f.end <= Len(o)
      BY <1>5
    <3> HIDE DEF f
    <3> QED
      BY <2>2, <2>3, <2>4, <3>1, <3>2, <3>3 DEF Looping
  <2> HIDE DEF f
  <2>6. Filled(f, o, o, c)
    BY <1>1, <2>3, <2>4, <2>5, SameIsLonger DEF Filled
  <2> QED
    BY <1>1, <1>2, <2>2, <2>6 DEF Filling
<1>7. CASE RefuseFill(window)
  <2> DEFINE c == [cmd |-> "FILL", window |-> window, sources |-> {}, who |-> {}]
             f == [phase |-> "end"]
  <2>1. /\ job' = c /\ fill' = f /\ scans' = scans /\ ircur' = ircur /\ status' = status
        /\ was' = was /\ busy' = TRUE
    BY <1>1, <1>7 DEF RefuseFill, Begin, place
  <2>2. c \in FillJobs
    BY <1>4 DEF FillJobs
  <2>3. f.phase = "end"
    OBVIOUS
  <2>4. LeftOnTime(o, o, c)
    <3> SUFFICES ASSUME OnTime(o), NEW m \in Stations, NEW i \in DOMAIN o, NEW j \in DOMAIN o,
                        Follows(o, m, i, j)
                 PROVE  Fits(o, i, j, o[i].dur[m]) /\ o[i].t + o[i].dur[m] <= o[j].t
      BY DEF LeftOnTime
    <3>1. Fits(o, i, j, o[i].dur[m])
      BY <1>1, SameIsLonger, OnTimeFits
    <3>2. o[i].dur[m] \in Nat /\ o[i].t \in Nat /\ o[j].t \in Nat
      BY <1>1, ScheduleFacts
    <3>3. PICK k \in Nat : \A t, d : Ready(t, d, o[i].src, o[j].src) = t + d + k
      BY ReadyIs
    <3> QED
      BY <3>1, <3>2, <3>3 DEF Fits
  <2> HIDE DEF c, f
  <2>5. Filled(f, o, o, c)
    BY <1>1, <2>2, <2>3, <2>4, SameIsLonger DEF Filled
  <2> QED
    BY <1>1, <1>2, <2>1, <2>5 DEF Filling
<1> QED
    BY <1>3, <1>6, <1>7

\* In a FILL no other command has anything to do.
LEMMA FillingGoesOn ==
    ASSUME Filling, Next
    PROVE  /\ (FillStep /\ busy' = busy) \/ EndFill
           /\ busy /\ status = "ok" /\ job' = job /\ was' = was
           /\ thin' = thin /\ walk' = walk
<1>1. thin = Off /\ walk = Off /\ job.cmd = "FILL"
    BY DEF Filling, Filled, FillJobs
<1>2. ~Command
  <2>1. job.cmd # "NONE"
    BY <1>1
  <2> QED
    BY <2>1 DEF Command, FillCommand, ThinCommand, WalkCommand, BeginFill, RefuseFill,
                BeginThin, BeginWalk, Begin
<1>3. thin.phase = "off" /\ walk.phase = "off"
    BY <1>1 DEF Off
<1>4. ~Turn /\ ~EndThin
    BY <1>3 DEF Turn, EndThin
<1>5. ~WalkStep /\ ~EndWalk
  <2>1. ~Look /\ ~Rewrite /\ ~Tag /\ ~NoTag
    BY <1>3 DEF Look, Rewrite, Tag, NoTag
  <2>2. ~AddOn /\ ~TakeOff /\ ~UntagFirst /\ ~Untag
    BY <1>3 DEF AddOn, TakeOff, UntagFirst, Untag
  <2>3. ~GetNext /\ ~EndWalk
    BY <1>3 DEF GetNext, EndWalk
  <2> QED
    BY <2>1, <2>2, <2>3 DEF WalkStep
<1>6. Step
    BY <1>2 DEF Next
<1> QED
    BY <1>4, <1>5, <1>6 DEF Step, Running, given

\* Every step of FILL keeps what is known of it.
LEMMA FillingStays == ASSUME Filling, Next PROVE Filling'
<1> DEFINE o == was.scans
           Ends == o[Len(o)].t <= job.window.en
<1>1. /\ Filled(fill, scans, o, job) /\ ircur \in DOMAIN o
      /\ thin = Off /\ walk = Off
    BY DEF Filling
<1>2. /\ (FillStep /\ busy' = busy) \/ EndFill
      /\ busy /\ status = "ok" /\ job' = job /\ was' = was
      /\ thin' = thin /\ walk' = walk
    BY FillingGoesOn
<1>3. CASE EndFill
  <2>1. Filled(fill', scans', o, job) /\ fill'.phase = "off"
    BY <1>1, <1>3, EndFillStays
  <2>2. ircur' = ircur /\ status' = status
    BY <1>3 DEF EndFill, table
  <2> QED
    BY <1>1, <1>2, <2>1, <2>2 DEF Filling
<1>4. CASE FillStep /\ busy' = busy
  <2>1. /\ Filled(fill', scans', o, job) /\ fill'.phase # "off"
        /\ ircur' = ircur /\ (status' = status \/ Ends)
    <3>1. CASE ReadScan
      BY <1>1, <3>1, ReadScanStays DEF ReadScan, place
    <3>2. CASE PassStation
      BY <1>1, <3>2, PassStationStays DEF PassStation, table
    <3>3. CASE Stay
      BY <1>1, <3>3, StayStays DEF Stay, place
    <3>4. CASE NextScan
      BY <1>1, <3>4, NextScanStays DEF NextScan, table
    <3>5. CASE NoMoreScans
      BY <1>1, <3>5, NoMoreScansStays DEF NoMoreScans, table
    <3>6. CASE SkipStation
      BY <1>1, <3>6, SkipStationStays DEF SkipStation, table
    <3>7. CASE FillLastScan
      BY <1>1, <3>7, FillLastScanStays DEF FillLastScan, place
    <3>8. CASE NoMoreStations
      BY <1>1, <3>8, NoMoreStationsStays DEF NoMoreStations, table
    <3>9. CASE Trim
      BY <1>1, <3>9, TrimStays DEF Trim, place
    <3>10. CASE TrimBeyond
      BY <1>1, <3>10, TrimBeyondStays DEF TrimBeyond, place
    <3> QED
      BY <1>4, <3>1, <3>2, <3>3, <3>4, <3>5, <3>6, <3>7, <3>8, <3>9, <3>10 DEF FillStep
  <2>2. Filled(fill', scans', was'.scans, job')
    BY <1>2, <2>1
  <2> QED
    BY <1>1, <1>2, <1>4, <2>1, <2>2 DEF Filling
<1> QED
    BY <1>2, <1>3, <1>4

\* What the properties want of a FILL.
LEMMA FillingMeans ==
    ASSUME Filling
    PROVE  FillOnTime /\ DoesAsAsked /\ WalkLeavesInTime /\ StaysInside
<1> DEFINE o == was.scans
<1>1. /\ Filled(fill, scans, o, job) /\ o \in Schedules /\ job \in FillJobs
      /\ Longer(scans, o, job.who) /\ ircur \in DOMAIN o
      /\ busy \/ fill.phase = "off"
      /\ status = "failed" => o[Len(o)].t <= job.window.en
    BY DEF Filling, Filled
<1>2. job.cmd = "FILL" /\ job.cmd \notin Walks /\ job.cmd # "THIN"
    BY <1>1 DEF FillJobs, Walks
<1>3. /\ DOMAIN scans = DOMAIN o /\ Len(scans) = Len(o) /\ DOMAIN o = 1..Len(o)
      /\ Len(o) \in Nat \ {0}
    BY <1>1, LongerFacts, ScheduleFacts DEF Longer
<1>4. FillOnTime
  <2> SUFFICES ASSUME ~busy, OnTime(o), NEW m \in Stations,
                      NEW i \in DOMAIN scans, NEW j \in DOMAIN scans, Follows(scans, m, i, j)
               PROVE  IF scans[j - 1].t <= job.window.en
                        THEN InTime(scans, m, i, j)
                        ELSE scans[i].t + scans[i].dur[m] <= scans[j].t
    BY DEF FillOnTime, Ended
  <2>1. i \in DOMAIN o /\ j \in DOMAIN o /\ j - 1 \in DOMAIN o
    BY <1>3 DEF Follows
  <2>2. /\ scans[j - 1].t = o[j - 1].t /\ scans[i].t = o[i].t /\ scans[j].t = o[j].t
        /\ Follows(o, m, i, j)
        /\ InTime(scans, m, i, j) <=> Fits(o, i, j, scans[i].dur[m])
    BY <1>1, <2>1, LongerFacts DEF Longer
  <2>3. LeftOnTime(scans, o, job)
    BY <1>1 DEF Filled
  <2>4. IF o[j - 1].t <= job.window.en
          THEN Fits(o, i, j, scans[i].dur[m])
          ELSE o[i].t + scans[i].dur[m] <= o[j].t
    BY <2>1, <2>2, <2>3 DEF LeftOnTime
  <2> QED
    BY <2>2, <2>4
<1>5. DoesAsAsked
  <2>1. ASSUME NEW i \in DOMAIN o
        PROVE  Asked(scans[i], o[i]) /\ Len(scans[i].sta) >= 2
    <3>1. scans[i] \in ScanFields /\ o[i] \in ScanFields /\ Len(o[i].sta) >= 2
      BY <1>1, ScheduleFacts, LongerFacts
    <3>2. /\ scans[i].t = o[i].t /\ scans[i].src = o[i].src /\ scans[i].sta = o[i].sta
          /\ \A m \in Stations : scans[i].dur[m] > o[i].dur[m] => m \in job.who
      BY <1>1 DEF Longer
    <3>3. [scans[i] EXCEPT !.dur = o[i].dur] = o[i]
      BY <3>1, <3>2 DEF ScanFields
    <3> QED
      BY <1>2, <3>1, <3>2, <3>3 DEF Asked
  <2>2. \E from \in [DOMAIN scans -> DOMAIN o] :
              /\ \A i, j \in DOMAIN scans : i < j => from[i] < from[j]
              /\ \A i \in DOMAIN scans : Asked(scans[i], o[from[i]])
    <3> DEFINE from == [i \in DOMAIN scans |-> i]
    <3>1. from \in [DOMAIN scans -> DOMAIN o]
      BY <1>3
    <3>2. \A i \in DOMAIN scans : Asked(scans[i], o[from[i]])
      BY <1>3, <2>1
    <3> QED
      BY <3>1, <3>2
  <2> QED
    BY <1>2, <1>3, <2>1, <2>2 DEF DoesAsAsked, nobs
<1>6. WalkLeavesInTime
    BY <1>2 DEF WalkLeavesInTime, Ended
<1>7. StaysInside
  <2>1. scans[nobs].t = o[Len(o)].t
    BY <1>1, <1>3 DEF Longer, nobs
  <2> QED
    BY <1>1, <1>2, <1>3, <2>1 DEF StaysInside
<1> QED
    BY <1>4, <1>5, <1>6, <1>7

-----------------------------------------------------------------------------
(* THIN: m is gone from the scans o[i] with i in out.                      *)

ThinJobs ==
    [cmd : {"THIN"}, window : [st : Nat, en : Nat], who : {{m} : m \in Stations}, number : Nat]

Gone(x, m) == [x EXCEPT !.sta = Without(x.sta, {m}), !.dur[m] = 0]

Thinned(s, o, m, out) ==
    /\ s \in Seq(ScanFields) /\ Len(s) = Len(o)
    /\ \A i \in DOMAIN o : s[i] = IF i \in out THEN Gone(o[i], m) ELSE o[i]

\* The scans of m that THIN looks at.
InReach(o, c, m) ==
    {i \in DOMAIN o : /\ c.window.st <= o[i].t
                      /\ \A j \in 1..(i - 1) : o[j].t < c.window.en
                      /\ m \in ToSet(o[i].sta)}

\* A scan without the station has all else.
LEMMA GoneFacts ==
    ASSUME NEW x \in ScanFields, NEW m \in Stations
    PROVE  /\ Gone(x, m) \in ScanFields
           /\ Gone(x, m).t = x.t /\ Gone(x, m).src = x.src
           /\ Gone(x, m).sta = Without(x.sta, {m})
           /\ m \notin ToSet(Gone(x, m).sta)
           /\ SameBut({m}, Gone(x, m), x)
           /\ Len(Gone(x, m).sta) <= Len(x.sta)
<1> DEFINE dur == [x.dur EXCEPT ![m] = 0]
           sta == Without(x.sta, {m})
<1>1. x.sta \in Seq(Stations) /\ x.dur \in [Stations -> Nat]
    BY DEF ScanFields
<1>2. /\ dur \in [Stations -> Nat]
      /\ \A n \in Stations \ {m} : dur[n] = x.dur[n]
    BY <1>1
<1>3. /\ sta \in Seq(Stations) /\ Len(sta) <= Len(x.sta) /\ m \notin ToSet(sta)
      /\ Without(sta, {m}) = Without(x.sta, {m})
    BY <1>1, WithoutFacts, WithoutTwice
<1>4. Gone(x, m) = [x EXCEPT !.sta = sta, !.dur = dur]
    BY DEF Gone
<1> HIDE DEF dur, sta
<1>5. /\ Gone(x, m) \in ScanFields
      /\ Gone(x, m).t = x.t /\ Gone(x, m).src = x.src
      /\ Gone(x, m).sta = sta /\ Gone(x, m).dur = dur
    BY <1>2, <1>3, <1>4 DEF ScanFields
<1> QED
    BY <1>2, <1>3, <1>5 DEF SameBut, sta

\* A scan that is left alone is the same but for any stations.
LEMMA SameIsSame == \A x, stations : SameBut(stations, x, x)
    BY DEF SameBut

\* One scan more without the station.
LEMMA ThinnedMore ==
    ASSUME NEW o \in Schedules, NEW s, NEW m \in Stations, NEW out, Thinned(s, o, m, out),
           NEW i \in DOMAIN o, i \notin out
    PROVE  Thinned([s EXCEPT ![i].sta = Without(@, {m}), ![i].dur[m] = 0], o, m, out \cup {i})
<1> DEFINE x == Gone(o[i], m)
           new == [s EXCEPT ![i] = x]
<1>1. o[i] \in ScanFields /\ DOMAIN o = 1..Len(o)
    BY ScheduleFacts
<1>2. s \in Seq(ScanFields) /\ Len(s) = Len(o) /\ s[i] = o[i] /\ DOMAIN s = DOMAIN o
    BY <1>1 DEF Thinned
<1>3. x \in ScanFields
    BY <1>1, GoneFacts
<1>4. [s EXCEPT ![i].sta = Without(@, {m}), ![i].dur[m] = 0] = new
  <2>1. [s EXCEPT ![i].sta = Without(@, {m}), ![i].dur[m] = 0]
            = [s EXCEPT ![i] = [s[i] EXCEPT !.sta = Without(s[i].sta, {m}), !.dur[m] = 0]]
    BY <1>2
  <2> QED
    BY <1>2, <2>1 DEF Gone
<1> HIDE DEF x
<1>5. /\ new \in Seq(ScanFields) /\ Len(new) = Len(s)
      /\ \A k \in 1..Len(s) : new[k] = IF k = i THEN x ELSE s[k]
    BY <1>1, <1>2, <1>3, ExceptSeq
<1> HIDE DEF new
<1>6. Thinned(new, o, m, out \cup {i})
  <2> SUFFICES ASSUME NEW k \in DOMAIN o
               PROVE  new[k] = IF k \in out \cup {i} THEN Gone(o[k], m) ELSE o[k]
    BY <1>2, <1>5 DEF Thinned
  <2>1. new[k] = IF k = i THEN x ELSE s[k]
    BY <1>1, <1>2, <1>5
  <2>2. s[k] = IF k \in out THEN Gone(o[k], m) ELSE o[k]
    BY DEF Thinned
  <2> QED
    BY <2>1, <2>2 DEF x
<1> QED
    BY <1>4, <1>6

\* What is listed are the scans of the station in reach.
LEMMA ListedAre ==
    ASSUME scans \in Schedules, NEW window \in [st : Nat, en : Nat], NEW m \in Stations,
           NEW c, c.window = window
    PROVE  Listed4Thin(window, m) = InReach(scans, c, m)
<1> DEFINE o == scans
           n == Len(o)
           W == {i \in DOMAIN o : o[i].t >= window.en} \cup {n}
           last == Last4Thin(window)
<1>1. /\ n \in Nat \ {0} /\ DOMAIN o = 1..n
      /\ \A i \in DOMAIN o : o[i].t \in Nat
      /\ \A i, j \in DOMAIN o : i <= j => o[i].t <= o[j].t
    BY ScheduleFacts
<1>2. window.st \in Nat /\ window.en \in Nat
    OBVIOUS
<1> HIDE DEF n
<1>3. W \in SUBSET Nat /\ W # {}
    BY <1>1
<1>4. last \in W /\ \A j \in W : last <= j
  <2>1. PICK i \in W : \A j \in W : i <= j
    BY <1>3, HasLeast
  <2>2. Min(W) = i
    BY <1>3, <2>1, MinIs
  <2>3. last = Min(W)
    BY DEF Last4Thin, nobs, n
  <2> HIDE DEF W, last
  <2> QED
    BY <2>1, <2>2, <2>3
<1> HIDE DEF last
<1>5. last \in DOMAIN o
    BY <1>1, <1>4
<1>6. ASSUME NEW i \in DOMAIN o
      PROVE  i <= last <=> \A j \in 1..(i - 1) : o[j].t < window.en
  <2>1. ASSUME i <= last, NEW j \in 1..(i - 1)
        PROVE  o[j].t < window.en
    <3>1. j \in DOMAIN o /\ ~(last <= j)
      BY <1>1, <1>5, <2>1
    <3>2. j \notin W
      BY <1>4, <3>1
    <3> QED
      BY <1>1, <1>2, <3>1, <3>2
  <2>2. ASSUME \A j \in 1..(i - 1) : o[j].t < window.en, ~(i <= last)
        PROVE  FALSE
    <3>1. last \in 1..(i - 1) /\ last # n
      BY <1>1, <1>5, <2>2
    <3>2. o[last].t >= window.en /\ o[last].t < window.en
      BY <1>4, <2>2, <3>1
    <3> QED
      BY <1>1, <1>2, <1>5, <3>2
  <2> QED
    BY <2>1, <2>2
<1>7. ASSUME NEW i \in DOMAIN o
      PROVE  (\E j \in 1..i : o[j].t >= window.st) <=> window.st <= o[i].t
  <2>1. \A j \in 1..i : j \in DOMAIN o /\ o[j].t <= o[i].t /\ o[j].t \in Nat /\ o[i].t \in Nat
    BY <1>1
  <2>2. i \in 1..i
    BY <1>1
  <2> QED
    BY <1>2, <2>1, <2>2
<1>8. \A i : i \in 1..last <=> i \in DOMAIN o /\ i <= last
    BY <1>1, <1>5
<1> QED
    BY <1>6, <1>7, <1>8 DEF Listed4Thin, InReach, last

\* What THIN is to leave.
ThinAsAsked(s, o, m, number) ==
    /\ \E from \in [DOMAIN s -> DOMAIN o] :
          /\ \A i, j \in DOMAIN s : i < j => from[i] < from[j]
          /\ \A i \in DOMAIN s :
                SameBut({m}, s[i], o[from[i]]) /\ Len(s[i].sta) <= Len(o[from[i]].sta)
    /\ \A i \in DOMAIN s : Len(s[i].sta) >= 2
    /\ Count(o, {m}) - Count(s, {m}) = number

\* Closing up the index: the scans that go have lost the station before.
LEMMA ClosedUp ==
    ASSUME NEW o \in Schedules, NEW s, NEW m \in Stations, NEW out, Thinned(s, o, m, out),
           \A i \in out : i \in DOMAIN o /\ m \in ToSet(o[i].sta)
    PROVE  ThinAsAsked(Kept(s, {i \in DOMAIN s : Len(s[i].sta) >= 2}), o, m, Cardinality(out))
<1> DEFINE n == Len(o)
           P == {i \in DOMAIN s : Len(s[i].sta) >= 2}
           kept == Kept(s, P)
           c == Cardinality(P)
           Had == {i \in DOMAIN o : {m} \cap ToSet(o[i].sta) # {}}
           Has == {i \in DOMAIN s : {m} \cap ToSet(s[i].sta) # {}}
           Keeps == {k \in DOMAIN kept : {m} \cap ToSet(kept[k].sta) # {}}
<1>1. /\ n \in Nat /\ DOMAIN o = 1..n /\ s \in Seq(ScanFields) /\ DOMAIN s = 1..n
      /\ \A i \in 1..n : /\ o[i] \in ScanFields /\ Len(o[i].sta) >= 2
                         /\ s[i] = IF i \in out THEN Gone(o[i], m) ELSE o[i]
    BY ScheduleFacts DEF Thinned
<1>2. /\ kept \in Seq(ScanFields) /\ Len(kept) = c /\ c \in Nat /\ DOMAIN kept = 1..c
      /\ \A k \in 1..c : Nth(P, k) \in P /\ kept[k] = s[Nth(P, k)]
      /\ \A i \in P : \E k \in 1..c : Nth(P, k) = i
      /\ \A k, l \in 1..c : k < l => Nth(P, k) < Nth(P, l)
  <2>1. P \in SUBSET (DOMAIN s)
    OBVIOUS
  <2> HIDE DEF P
  <2>2. /\ kept \in Seq(ScanFields) /\ Len(kept) = c /\ c \in Nat
        /\ \A k \in 1..c : Nth(P, k) \in P /\ kept[k] = s[Nth(P, k)]
        /\ \A i \in P : \E k \in 1..c : Nth(P, k) = i
        /\ \A k, l \in 1..c : k < l => Nth(P, k) < Nth(P, l)
    BY <1>1, <2>1, KeptFacts
  <2> HIDE DEF kept, c
  <2> QED
    BY <2>2
<1>3. \A i \in P : i \in 1..n /\ Len(s[i].sta) >= 2
    BY <1>1
<1> HIDE DEF kept, c
<1>4. ASSUME NEW i \in 1..n
      PROVE  SameBut({m}, s[i], o[i]) /\ Len(s[i].sta) <= Len(o[i].sta)
             /\ (i \in out => m \notin ToSet(s[i].sta)) /\ (i \notin out => s[i] = o[i])
  <2>1. CASE i \in out
    <3>1. s[i] = Gone(o[i], m)
      BY <1>1, <2>1
    <3> QED
      BY <1>1, <2>1, <3>1, GoneFacts
  <2>2. CASE i \notin out
    <3>1. s[i] = o[i] /\ Len(o[i].sta) \in Nat
      BY <1>1, <2>2 DEF ScanFields
    <3> QED
      BY <2>2, <3>1, SameIsSame
  <2> QED
    BY <2>1, <2>2
<1>5. \E from \in [DOMAIN kept -> DOMAIN o] :
          /\ \A i, j \in DOMAIN kept : i < j => from[i] < from[j]
          /\ \A i \in DOMAIN kept :
                SameBut({m}, kept[i], o[from[i]]) /\ Len(kept[i].sta) <= Len(o[from[i]].sta)
  <2> DEFINE from == [k \in 1..c |-> Nth(P, k)]
  <2>1. from \in [1..c -> 1..n] /\ \A k \in 1..c : from[k] = Nth(P, k)
    BY <1>2, <1>3
  <2> HIDE DEF from, P
  <2>2. \A i, j \in 1..c : i < j => from[i] < from[j]
    BY <1>2, <2>1
  <2>3. ASSUME NEW i \in 1..c
        PROVE  SameBut({m}, kept[i], o[from[i]]) /\ Len(kept[i].sta) <= Len(o[from[i]].sta)
    <3>1. from[i] \in 1..n /\ kept[i] = s[from[i]]
      BY <1>2, <2>1
    <3> QED
      BY <1>4, <3>1
  <2> QED
    BY <1>1, <1>2, <2>1, <2>2, <2>3
<1>6. \A k \in DOMAIN kept : Len(kept[k].sta) >= 2
    BY <1>2, <1>3
<1>7. Had = Has \cup out /\ Has \cap out = {}
    BY <1>1, <1>4
<1>8. IsFiniteSet(Had) /\ IsFiniteSet(Has) /\ IsFiniteSet(out)
  <2>1. IsFiniteSet(1..n)
    BY <1>1, FS_Interval
  <2>2. Had \in SUBSET (1..n) /\ Has \in SUBSET (1..n) /\ out \in SUBSET (1..n)
    BY <1>1
  <2> QED
    BY <2>1, <2>2, FS_Subset
<1>9. Cardinality(Has) = Cardinality(Keeps)
  <2> DEFINE f == [k \in Keeps |-> Nth(P, k)]
  <2>1. \A k \in Keeps : Nth(P, k) \in Has
    BY <1>1, <1>2, <1>3
  <2>2. ASSUME NEW i \in Has
        PROVE  \E k \in Keeps : Nth(P, k) = i
    <3>1. i \in 1..n /\ s[i] = o[i] /\ {m} \cap ToSet(s[i].sta) # {}
      BY <1>1, <1>4, <2>2
    <3>2. i \in P
      BY <1>1, <3>1
    <3>3. PICK k \in 1..c : Nth(P, k) = i
      BY <1>2, <3>2
    <3> QED
      BY <1>2, <3>1, <3>3
  <2>3. ASSUME NEW k \in Keeps, NEW l \in Keeps, Nth(P, k) = Nth(P, l)
        PROVE  k = l
    <3>1. k \in 1..c /\ l \in 1..c
      BY <1>2
    <3>2. Nth(P, k) \in Int /\ Nth(P, l) \in Int
      BY <1>2, <1>3, <3>1
    <3>3. ~(k < l) /\ ~(l < k)
      BY <1>2, <2>3, <3>1, <3>2
    <3> QED
      BY <3>1, <3>3
  <2> HIDE DEF P, Has, Keeps
  <2>4. f \in [Keeps -> Has]
    BY <2>1
  <2>5. f \in Surjection(Keeps, Has)
    BY <2>2, <2>4 DEF Surjection
  <2>6. f \in Injection(Keeps, Has)
    BY <2>3, <2>4 DEF Injection, IsInjective
  <2>7. Cardinality(Keeps) = Cardinality(Has)
    BY <1>8, <2>5, <2>6, FS_Injection
  <2> QED
    BY <2>7
<1>10. Count(o, {m}) = Cardinality(Had) /\ Count(kept, {m}) = Cardinality(Keeps)
    BY DEF Count
<1>11. Cardinality(Had) = Cardinality(Has) + Cardinality(out)
       /\ Cardinality(Has) \in Nat /\ Cardinality(out) \in Nat
  <2> HIDE DEF Had, Has
  <2>1. Cardinality(Has \cap out) = 0
    BY <1>7, FS_EmptySet
  <2>2. Cardinality(Has) \in Nat /\ Cardinality(out) \in Nat
    BY <1>8, FS_CardinalityType
  <2>3. Cardinality(Had) = Cardinality(Has) + Cardinality(out) - Cardinality(Has \cap out)
    BY <1>7, <1>8, FS_Union
  <2> QED
    BY <2>1, <2>2, <2>3
<1>12. Count(o, {m}) - Count(kept, {m}) = Cardinality(out)
  <2> HIDE DEF Had, Has, Keeps
  <2> QED
    BY <1>9, <1>10, <1>11
<1>13. ThinAsAsked(kept, o, m, Cardinality(out))
    BY <1>5, <1>6, <1>12 DEF ThinAsAsked
<1> QED
    BY <1>13 DEF kept

Turning(t, s, o, c, m) ==
    /\ t \in [phase : {"turns"}, listed : SUBSET InReach(o, c, m), left : Nat, pick : Nat]
    /\ Thinned(s, o, m, InReach(o, c, m) \ t.listed)
    /\ t.left + Cardinality(InReach(o, c, m) \ t.listed) = c.number

\* When THIN may leave its list.
Runs(o, c, m) ==
    \/ c.number >= Cardinality(InReach(o, c, m))
    \/ \E i \in DOMAIN o : o[i].t % Day = 0
    \/ Last(o).t - Head(o).t >= Day

Thinning ==
    /\ job \in ThinJobs /\ was.scans \in Schedules /\ fill = Off /\ walk = Off
    /\ \E m \in Stations :
          /\ job.who = {m}
          /\ busy => Turning(thin, scans, was.scans, job, m)
          /\ ~busy => ThinAsAsked(scans, was.scans, m, job.number)
          /\ status = "failed" => Runs(was.scans, job, m)

\* THIN has finitely many scans to choose from.
LEMMA InReachFinite ==
    ASSUME NEW o \in Schedules, NEW c, NEW m, NEW part \in SUBSET InReach(o, c, m)
    PROVE  /\ IsFiniteSet(part) /\ Cardinality(part) \in Nat /\ part \subseteq DOMAIN o
           /\ IsFiniteSet(InReach(o, c, m)) /\ Cardinality(InReach(o, c, m)) \in Nat
<1>1. IsFiniteSet(DOMAIN o)
  <2>1. Len(o) \in Nat /\ DOMAIN o = 1..Len(o)
    BY ScheduleFacts
  <2>2. \A n \in Nat : IsFiniteSet(1..n)
    BY FS_Interval
  <2> QED
    BY <2>1, <2>2
<1>2. InReach(o, c, m) \subseteq DOMAIN o
    BY DEF InReach
<1>3. IsFiniteSet(InReach(o, c, m)) /\ IsFiniteSet(part)
    BY <1>1, <1>2, FS_Subset
<1> QED
    BY <1>2, <1>3, FS_CardinalityType

\* One list less one place.
LEMMA StruckOut ==
    ASSUME NEW all, IsFiniteSet(all), NEW listed \in SUBSET all, NEW i \in listed
    PROVE  /\ all \ (listed \ {i}) = (all \ listed) \cup {i} /\ i \notin all \ listed
           /\ Cardinality(all \ listed) \in Nat
           /\ Cardinality(all \ (listed \ {i})) = Cardinality(all \ listed) + 1
<1>1. all \ (listed \ {i}) = (all \ listed) \cup {i} /\ i \notin all \ listed
    OBVIOUS
<1>2. IsFiniteSet(all \ listed)
    BY FS_Difference
<1>3. Cardinality(all \ listed) \in Nat
    BY <1>2, FS_CardinalityType
<1> DEFINE out == all \ listed
<1>4. IsFiniteSet(out) /\ i \notin out
    BY <1>1, <1>2
<1> HIDE DEF out
<1>5. Cardinality(out \cup {i}) = Cardinality(out) + 1
    BY <1>4, FS_AddElement
<1> QED
    BY <1>1, <1>3, <1>5 DEF out

\* THIN begins with all scans of its list.
LEMMA ThinBegins == ASSUME Waiting, ThinCommand PROVE Thinning'
<1> DEFINE o == was.scans
<1>1. o \in Schedules /\ scans = o /\ fill = Off /\ walk = Off /\ status = "ok"
    BY DEF Waiting
<1>2. PICK window \in Windows, m \in Stations, number \in Numbers :
          BeginThin(window, m, number)
    BY DEF ThinCommand
<1>3. fill' = fill /\ walk' = walk
    BY DEF ThinCommand
<1>4. window \in [st : Nat, en : Nat] /\ number \in Nat
    BY TableAssumption, EditsAssumption
<1> DEFINE c == [cmd |-> "THIN", window |-> window, who |-> {m}, number |-> number]
           t == [phase |-> "turns", listed |-> Listed4Thin(window, m), left |-> number, pick |-> 0]
<1>5. /\ job' = c /\ thin' = t /\ scans' = scans /\ status' = status
      /\ was' = was /\ busy' = TRUE
    BY <1>2 DEF BeginThin, Begin
<1>6. c \in ThinJobs /\ c.who = {m} /\ c.window = window /\ c.number = number
    BY <1>4 DEF ThinJobs
<1> HIDE DEF c
<1>7. Listed4Thin(window, m) = InReach(o, c, m)
    BY <1>1, <1>4, <1>6, ListedAre
<1>8. t \in [phase : {"turns"}, listed : SUBSET InReach(o, c, m), left : Nat, pick : Nat]
      /\ t.listed = InReach(o, c, m) /\ t.left = number
    BY <1>4, <1>7
<1> HIDE DEF t
<1>9. InReach(o, c, m) \ t.listed = {}
    BY <1>8
<1>10. Thinned(o, o, m, {})
    BY <1>1, ScheduleFacts DEF Thinned
<1>11. number + Cardinality({}) = number
    BY <1>4, FS_EmptySet
<1>12. Turning(t, o, o, c, m)
    BY <1>6, <1>8, <1>9, <1>10, <1>11 DEF Turning
<1>13. Turning(thin', scans', was'.scans, job', m)
    BY <1>1, <1>5, <1>12
<1> QED
    BY <1>1, <1>3, <1>5, <1>6, <1>13 DEF Thinning

\* THIN moves no scan.
LEMMA ThinnedTimes ==
    ASSUME NEW o \in Schedules, NEW s, NEW m \in Stations, NEW out, Thinned(s, o, m, out)
    PROVE  \A i \in DOMAIN o : s[i].t = o[i].t
<1> SUFFICES ASSUME NEW i \in DOMAIN o PROVE s[i].t = o[i].t
    OBVIOUS
<1>1. o[i] \in ScanFields /\ s[i] = IF i \in out THEN Gone(o[i], m) ELSE o[i]
    BY ScheduleFacts DEF Thinned
<1>2. Gone(o[i], m).t = o[i].t
    BY <1>1, GoneFacts
<1> QED
    BY <1>1, <1>2

\* If there is a gap to look at, the smallest belongs to a scan that is listed.
LEMMA ClosestIsListed ==
    ASSUME NEW m \in Stations, was.scans \in Schedules,
           Turning(thin, scans, was.scans, job, m), Gaps # {}
    PROVE  Closest \in thin.listed
<1> DEFINE o == was.scans
           W == {i \in Gaps : \A other \in Gaps : Gap(i) <= Gap(other)}
           Sizes == {Gap(i) : i \in Gaps}
<1>1. thin.listed \in SUBSET InReach(o, job, m)
    BY DEF Turning
<1>2. thin.listed \subseteq DOMAIN o /\ DOMAIN o = 1..Len(o) /\ Len(o) \in Nat
    BY <1>1, InReachFinite, ScheduleFacts
<1>3. /\ \A i \in DOMAIN o : scans[i].t = o[i].t /\ o[i].t \in Nat
      /\ \A i, j \in DOMAIN o : i <= j => o[i].t <= o[j].t
  <2>1. \A i \in DOMAIN o : scans[i].t = o[i].t
    BY ThinnedTimes DEF Turning
  <2> QED
    BY <2>1, ScheduleFacts
<1>4. ASSUME NEW i \in Gaps
      PROVE  i \in thin.listed /\ Gap(i) \in Nat
  <2>1. i \in thin.listed /\ Earlier(i) # {}
    BY DEF Gaps
  <2>2. Max(Earlier(i)) \in Earlier(i)
    <3>1. Earlier(i) \in SUBSET (1..Len(o))
      BY <1>2 DEF Earlier
    <3> QED
      BY <1>2, <2>1, <3>1, MaxOfPlaces
  <2>3. Max(Earlier(i)) \in DOMAIN o /\ Max(Earlier(i)) < i /\ i \in DOMAIN o
    BY <1>2, <2>1, <2>2 DEF Earlier
  <2> DEFINE j == Max(Earlier(i))
  <2>4. Gap(i) = o[i].t - o[j].t /\ j \in DOMAIN o /\ j < i
    BY <1>3, <2>3 DEF Gap
  <2> HIDE DEF j
  <2>5. o[j].t <= o[i].t /\ o[j].t \in Nat /\ o[i].t \in Nat
    BY <1>2, <1>3, <2>3, <2>4
  <2> QED
    BY <2>1, <2>4, <2>5
<1>5. Sizes \in SUBSET Nat /\ Sizes # {}
    BY <1>4
<1>6. PICK least \in Sizes : \A size \in Sizes : least <= size
    BY <1>5, HasLeast
<1>7. W # {}
    BY <1>6
<1>8. W \in SUBSET Nat
    BY <1>2, <1>4
<1>9. PICK i \in W : \A j \in W : i <= j
    BY <1>7, <1>8, HasLeast
<1>10. Min(W) = i
  <2> HIDE DEF W
  <2> QED
    BY <1>8, <1>9, MinIs
<1> QED
    BY <1>4, <1>9, <1>10 DEF Closest

\* A list with two places has a gap.
LEMMA NoGapIsOne ==
    ASSUME NEW m \in Stations, was.scans \in Schedules,
           Turning(thin, scans, was.scans, job, m), Gaps = {}, Day \in Nat,
           \A i \in DOMAIN was.scans : was.scans[i].t % Day # 0,
           Last(was.scans).t - Head(was.scans).t < Day
    PROVE  Cardinality(thin.listed) <= 1
<1> DEFINE o == was.scans
<1>1. thin.listed \in SUBSET InReach(o, job, m)
    BY DEF Turning
<1>2. thin.listed \subseteq DOMAIN o /\ DOMAIN o = 1..Len(o) /\ Len(o) \in Nat \ {0}
      /\ IsFiniteSet(thin.listed)
    BY <1>1, InReachFinite, ScheduleFacts
<1>3. /\ \A i \in DOMAIN o : scans[i].t = o[i].t /\ o[i].t \in Nat
      /\ \A i, j \in DOMAIN o : i <= j => o[i].t <= o[j].t
  <2>1. \A i \in DOMAIN o : scans[i].t = o[i].t
    BY ThinnedTimes DEF Turning
  <2> QED
    BY <2>1, ScheduleFacts
<1>4. \A i \in DOMAIN o : o[1].t <= o[i].t /\ o[i].t <= o[Len(o)].t
  <2>1. \A i \in DOMAIN o : 1 \in DOMAIN o /\ Len(o) \in DOMAIN o /\ 1 <= i /\ i <= Len(o)
    BY <1>2
  <2> QED
    BY <1>3, <2>1
<1>5. o[Len(o)].t - o[1].t < Day
  <2>1. Last(o) = o[Len(o)] /\ Head(o) = o[1]
    BY <1>2 DEF Last
  <2> QED
    BY <2>1
<1>6. ASSUME NEW i \in thin.listed, Earlier(i) # {}
      PROVE  FALSE
  <2> DEFINE j == Max(Earlier(i))
  <2>1. j \in Earlier(i)
    <3>1. Earlier(i) \in SUBSET (1..Len(o))
      BY <1>2 DEF Earlier
    <3> QED
      BY <1>2, <1>6, <3>1, MaxOfPlaces
  <2>2. j \in DOMAIN o /\ i \in DOMAIN o /\ scans[j].t % Day # 0
    BY <1>2, <1>3, <2>1 DEF Earlier
  <2>3. Gap(i) = scans[i].t - scans[j].t
    BY DEF Gap
  <2>4. i \notin Gaps
    OBVIOUS
  <2>5. ~(Gap(i) < Day)
    BY <1>6, <2>2, <2>4 DEF Gaps
  <2> HIDE DEF j
  <2>6. /\ o[1].t <= o[j].t /\ o[i].t <= o[Len(o)].t
        /\ o[1].t \in Nat /\ o[j].t \in Nat /\ o[i].t \in Nat /\ o[Len(o)].t \in Nat
    BY <1>2, <1>3, <1>4, <2>2
  <2>7. Gap(i) = o[i].t - o[j].t
    BY <1>3, <2>2, <2>3
  <2> QED
    BY <1>5, <2>5, <2>6, <2>7
<1>7. \A i, j \in thin.listed : i = j
  <2>1. \A i, j \in thin.listed : i \in Nat /\ j \in Nat /\ ~(j < i)
    BY <1>2, <1>6 DEF Earlier
  <2>2. \A i, j \in thin.listed : i \in Nat /\ j \in Nat /\ ~(j < i) /\ ~(i < j)
    BY <2>1
  <2> QED
    BY <2>2
<1>8. CASE thin.listed = {}
    BY <1>8, FS_EmptySet
<1>9. CASE thin.listed # {}
  <2>1. PICK i \in thin.listed : TRUE
    BY <1>9
  <2>2. thin.listed = {i}
    BY <1>7
  <2>3. Cardinality({i}) = 1
    BY FS_Singleton
  <2> QED
    BY <2>2, <2>3
<1> QED
    BY <1>8, <1>9

\* A turn takes the station out of one more scan, or leaves the list where it
\* may.
LEMMA TurnStays ==
    ASSUME NEW m \in Stations, was.scans \in Schedules, job \in ThinJobs, job.who = {m},
           Turning(thin, scans, was.scans, job, m), Turn
    PROVE  /\ Turning(thin', scans', was.scans, job, m)
           /\ status' = status \/ Runs(was.scans, job, m)
<1> DEFINE o == was.scans
           all == InReach(o, job, m)
           listed == thin.listed
           left == thin.left
<1>1. /\ thin \in [phase : {"turns"}, listed : SUBSET all, left : Nat, pick : Nat]
      /\ listed \in SUBSET all /\ left \in Nat
      /\ Thinned(scans, o, m, all \ listed)
      /\ left + Cardinality(all \ listed) = job.number
    BY DEF Turning
<1>2. left > 0
    BY DEF Turn
<1>3. IsFiniteSet(all) /\ all \subseteq DOMAIN o /\ DOMAIN o = 1..Len(o) /\ Len(o) \in Nat
  <2>1. all \in SUBSET InReach(o, job, m)
    OBVIOUS
  <2> HIDE DEF all
  <2> QED
    BY <2>1, InReachFinite, ScheduleFacts
<1>4. PICK i \in Picks :
         IF i \notin listed
           THEN status' = "failed" /\ UNCHANGED <<scans, cur, thin>>
           ELSE /\ scans' = TakenOut(i, m)
                /\ thin' = [thin EXCEPT !.listed = @ \ {i}, !.left = @ - 1, !.pick = i]
                /\ UNCHANGED status
    BY DEF Turn
<1>5. CASE i \in listed
  <2> DEFINE l == listed \ {i}
             n == left - 1
             new == TakenOut(i, m)
  <2>1. scans' = new /\ status' = status /\ thin' = [thin EXCEPT !.listed = l, !.left = n, !.pick = i]
    BY <1>4, <1>5
  <2>2. i \in all /\ i \in DOMAIN o /\ i \in Nat
    BY <1>1, <1>3, <1>5
  <2>3. /\ all \ l = (all \ listed) \cup {i} /\ i \notin all \ listed
        /\ Cardinality(all \ listed) \in Nat
        /\ Cardinality(all \ l) = Cardinality(all \ listed) + 1
    <3> HIDE DEF all, listed
    <3> QED
      BY <1>1, <1>3, <1>5, StruckOut
  <2>4. Thinned(new, o, m, all \ l)
    <3> DEFINE out == all \ listed
    <3>1. i \in DOMAIN o /\ i \notin out /\ Thinned(scans, o, m, out) /\ all \ l = out \cup {i}
      BY <1>1, <2>2, <2>3
    <3>2. new = [scans EXCEPT ![i].sta = Without(@, {m}), ![i].dur[m] = 0]
      BY DEF TakenOut
    <3> HIDE DEF out, l, all, listed, new
    <3>3. Thinned(new, o, m, out \cup {i})
      BY <3>1, <3>2, ThinnedMore
    <3> QED
      BY <3>1, <3>3
  <2>5. l \in SUBSET all /\ n \in Nat /\ n = left - 1
    BY <1>1, <1>2
  <2> HIDE DEF l, n, new, all
  <2>6. /\ thin' \in [phase : {"turns"}, listed : SUBSET all, left : Nat, pick : Nat]
        /\ thin'.listed = l /\ thin'.left = n
    BY <1>1, <2>1, <2>2, <2>5
  <2>7. n + Cardinality(all \ l) = job.number
    BY <1>1, <2>3, <2>5
  <2> QED
    BY <2>1, <2>4, <2>6, <2>7 DEF Turning, all
<1>6. CASE i \notin listed
  <2>1. scans' = scans /\ thin' = thin
    BY <1>4, <1>6
  <2>2. SUFFICES Runs(o, job, m)
    BY <2>1
  <2>3. Gaps = {}
    BY <1>6, ClosestIsListed DEF Picks
  <2>4. SUFFICES ASSUME \A k \in DOMAIN o : o[k].t % Day # 0, ~(Last(o).t - Head(o).t >= Day)
                 PROVE  job.number >= Cardinality(all)
    BY DEF Runs
  <2>5. Cardinality(listed) <= 1
    <3>1. /\ o \in Seq(ScanFields) /\ o # << >>
      BY TableAssumption
    <3>2. Last(o).t \in Int /\ Head(o).t \in Int /\ Day \in Nat
      <4>1. Len(o) \in 1..Len(o) /\ 1 \in 1..Len(o)
        BY <3>1
      <4>2. o[Len(o)] \in ScanFields /\ o[1] \in ScanFields
        BY <3>1, <4>1
      <4>3. Last(o) = o[Len(o)] /\ Head(o) = o[1]
        BY <3>1 DEF Last
      <4> QED
        BY <4>2, <4>3, ThinAssumption DEF ScanFields
    <3>3. Last(o).t - Head(o).t < Day
      BY <2>4, <3>2
    <3> QED
      BY <2>3, <2>4, <3>2, <3>3, NoGapIsOne
  <2> HIDE DEF all, listed
  <2>6. /\ IsFiniteSet(listed) /\ IsFiniteSet(all \ listed)
        /\ all = listed \cup (all \ listed) /\ listed \cap (all \ listed) = {}
    BY <1>1, <1>3, FS_Subset, FS_Difference
  <2> DEFINE out == all \ listed
  <2> HIDE DEF out
  <2>7. /\ Cardinality(listed \cup out)
               = Cardinality(listed) + Cardinality(out) - Cardinality(listed \cap out)
        /\ Cardinality(listed) \in Nat /\ Cardinality(out) \in Nat
    BY <2>6, FS_Union, FS_CardinalityType DEF out
  <2>8. Cardinality(listed \cap out) = 0
    BY <2>6, FS_EmptySet DEF out
  <2>9. Cardinality(all) = Cardinality(listed) + Cardinality(out)
    <3>1. all = listed \cup out
      BY <2>6 DEF out
    <3>2. Cardinality(all) = Cardinality(listed \cup out)
      BY <3>1
    <3> QED
      BY <2>7, <2>8, <3>2
  <2> HIDE DEF left
  <2>10. left + Cardinality(out) = job.number
    BY <1>1 DEF out
  <2> QED
    BY <1>1, <1>2, <2>5, <2>7, <2>9, <2>10
<1> QED
    BY <1>5, <1>6

\* Closing up the index leaves the scans that have two stations, in their
\* order.
LEMMA EndThinStays ==
    ASSUME NEW m \in Stations, was.scans \in Schedules,
           Turning(thin, scans, was.scans, job, m), EndThin
    PROVE  ThinAsAsked(scans', was.scans, m, job.number)
<1> DEFINE o == was.scans
           out == InReach(o, job, m) \ thin.listed
<1>1. scans' = Kept(scans, {i \in DOMAIN scans : Len(scans[i].sta) >= 2}) /\ thin.left = 0
    BY DEF EndThin
<1>2. Thinned(scans, o, m, out) /\ thin.left + Cardinality(out) = job.number
      /\ thin.listed \in SUBSET InReach(o, job, m)
    BY DEF Turning
<1>3. Cardinality(out) \in Nat
  <2>1. out \in SUBSET InReach(o, job, m)
    OBVIOUS
  <2> HIDE DEF out, o
  <2> QED
    BY <2>1, InReachFinite DEF o
<1>4. \A i \in out : i \in DOMAIN o /\ m \in ToSet(o[i].sta)
    BY DEF InReach
<1> HIDE DEF out
<1>5. Cardinality(out) = job.number
    BY <1>1, <1>2, <1>3
<1>6. ThinAsAsked(scans', o, m, Cardinality(out))
    BY <1>1, <1>2, <1>4, ClosedUp
<1> QED
    BY <1>5, <1>6

\* In a THIN no other command has anything to do.
LEMMA ThinningGoesOn ==
    ASSUME Thinning, Next
    PROVE  /\ (Turn /\ busy' = busy) \/ EndThin
           /\ busy /\ status = "ok" /\ job' = job /\ was' = was
           /\ fill' = fill /\ walk' = walk
<1>1. fill = Off /\ walk = Off /\ job.cmd = "THIN"
    BY DEF Thinning, ThinJobs
<1>2. ~Command
  <2>1. job.cmd # "NONE"
    BY <1>1
  <2> QED
    BY <2>1 DEF Command, FillCommand, ThinCommand, WalkCommand, BeginFill, RefuseFill,
                BeginThin, BeginWalk, Begin
<1>3. fill.phase = "off" /\ walk.phase = "off"
    BY <1>1 DEF Off
<1>4. ~FillStep /\ ~EndFill
  <2>1. ~ReadScan /\ ~PassStation /\ ~Stay /\ ~NextScan /\ ~NoMoreScans
    BY <1>3 DEF ReadScan, PassStation, Stay, NextScan, NoMoreScans
  <2>2. ~SkipStation /\ ~FillLastScan /\ ~NoMoreStations
    BY <1>3 DEF SkipStation, FillLastScan, NoMoreStations
  <2>3. ~Trim /\ ~TrimBeyond /\ ~EndFill
    BY <1>3 DEF Trim, TrimBeyond, EndFill
  <2> QED
    BY <2>1, <2>2, <2>3 DEF FillStep
<1>5. ~WalkStep /\ ~EndWalk
  <2>1. ~Look /\ ~Rewrite /\ ~Tag /\ ~NoTag
    BY <1>3 DEF Look, Rewrite, Tag, NoTag
  <2>2. ~AddOn /\ ~TakeOff /\ ~UntagFirst /\ ~Untag
    BY <1>3 DEF AddOn, TakeOff, UntagFirst, Untag
  <2>3. ~GetNext /\ ~EndWalk
    BY <1>3 DEF GetNext, EndWalk
  <2> QED
    BY <2>1, <2>2, <2>3 DEF WalkStep
<1>6. Step
    BY <1>2 DEF Next
<1> QED
    BY <1>4, <1>5, <1>6 DEF Step, Running, given

\* Every step of THIN keeps what is known of it.
LEMMA ThinningStays == ASSUME Thinning, Next PROVE Thinning'
<1>1. /\ job \in ThinJobs /\ was.scans \in Schedules /\ fill = Off /\ walk = Off
    BY DEF Thinning
<1>2. PICK m \in Stations :
          /\ job.who = {m}
          /\ busy => Turning(thin, scans, was.scans, job, m)
          /\ ~busy => ThinAsAsked(scans, was.scans, m, job.number)
          /\ status = "failed" => Runs(was.scans, job, m)
    BY DEF Thinning
<1>3. /\ (Turn /\ busy' = busy) \/ EndThin
      /\ busy /\ status = "ok" /\ job' = job /\ was' = was
      /\ fill' = fill /\ walk' = walk
    BY ThinningGoesOn
<1>4. CASE Turn /\ busy' = busy
  <2>1. /\ Turning(thin', scans', was.scans, job, m)
        /\ status' = status \/ Runs(was.scans, job, m)
    BY <1>1, <1>2, <1>3, <1>4, TurnStays
  <2>2. Turning(thin', scans', was'.scans, job', m)
    BY <1>3, <2>1
  <2> QED
    BY <1>1, <1>2, <1>3, <1>4, <2>1, <2>2 DEF Thinning
<1>5. CASE EndThin
  <2>1. ThinAsAsked(scans', was.scans, m, job.number)
    BY <1>1, <1>2, <1>3, <1>5, EndThinStays
  <2>2. status' = status /\ busy' = FALSE
    BY <1>5 DEF EndThin
  <2>3. ThinAsAsked(scans', was'.scans, m, job'.number)
    BY <1>3, <2>1
  <2> QED
    BY <1>1, <1>2, <1>3, <2>2, <2>3 DEF Thinning
<1> QED
    BY <1>3, <1>4, <1>5

\* What is known of THIN implies the properties.
LEMMA ThinningMeans ==
    ASSUME Thinning
    PROVE  FillOnTime /\ DoesAsAsked /\ WalkLeavesInTime /\ StaysInside
<1> DEFINE o == was.scans
<1>1. job.cmd = "THIN" /\ job.cmd \notin Walks /\ job.cmd # "FILL"
    BY DEF Thinning, ThinJobs, Walks
<1>2. PICK m \in Stations :
          /\ job.who = {m}
          /\ ~busy => ThinAsAsked(scans, o, m, job.number)
          /\ status = "failed" => Runs(o, job, m)
    BY DEF Thinning
<1>3. DoesAsAsked
  <2>1. SUFFICES ASSUME ~busy
                 PROVE  /\ \E from \in [DOMAIN scans -> DOMAIN o] :
                              /\ \A i, j \in DOMAIN scans : i < j => from[i] < from[j]
                              /\ \A i \in DOMAIN scans : Asked(scans[i], o[from[i]])
                        /\ \A i \in DOMAIN scans : Len(scans[i].sta) >= 2
                        /\ Count(o, job.who) - Count(scans, job.who) = job.number
    BY <1>1 DEF DoesAsAsked, Ended
  <2>2. \A x, y : SameBut({m}, x, y) /\ Len(x.sta) <= Len(y.sta) => Asked(x, y)
    BY <1>1, <1>2 DEF Asked
  <2>3. ThinAsAsked(scans, o, m, job.number)
    BY <1>2, <2>1
  <2> QED
    BY <1>2, <2>2, <2>3 DEF ThinAsAsked
<1>4. StaysInside
  <2>1. ~Ended({"FILL"} \cup Walks)
    BY <1>1 DEF Ended
  <2>2. InReach(o, job, m) =
            {i \in DOMAIN was.scans :
                      InWindow(i) /\ job.who \subseteq ToSet(was.scans[i].sta)}
    BY <1>2 DEF InReach, InWindow
  <2> QED
    BY <1>1, <1>2, <2>1, <2>2 DEF StaysInside, Runs
<1> QED
    BY <1>1, <1>3, <1>4 DEF FillOnTime, WalkLeavesInTime, Ended

-----------------------------------------------------------------------------
(* The loop of CHECK, SHIFT and the others. *)

AnySource == Sources \cup {NoSource, Unread}

Records == [t : Nat, src : AnySource, sta : Seq(Stations), dur : [Stations -> Nat]]

\* Those that are left out of a scan have no duration in it.
Whole(x) ==
    /\ x \in Records /\ Len(x.sta) >= 2
    /\ \A m \in Stations : m \notin ToSet(x.sta) => x.dur[m] = 0

Cursors ==
    [sta : Seq(Stations), t : [Stations -> Nat], src : [Stations -> AnySource],
     dur : [Stations -> Nat]]

Befores == [t : [Stations -> Nat], dur : [Stations -> Nat], src : [Stations -> AnySource]]

WalkJobs ==
    LET TimeRange == [st : Nat, en : Nat]
    IN  [cmd : {"CHECK", "REWRITE"}, window : TimeRange, who : {{}}]
        \cup [cmd : {"SHIFT", "UNTAG"}, window : TimeRange, who : {{}}, clear : BOOLEAN]
        \cup [cmd : {"ADD", "REMOVE", "TAGALONG"}, window : TimeRange,
              who : {{m} : m \in Stations}, to : SUBSET Stations]

\* Where the loop is.
Visiting ==
    /\ ircur <= nobs /\ nobs # 0
    /\ walk.entry <= ircur /\ Len(cur.sta) >= 2

Between ==
    /\ ircur <= nobs /\ walk.entry <= ircur + 1
    /\ ircur = 0 => scans = << >> \/ walk.entry = 0

Over ==
    \/ ircur \in DOMAIN scans
    \/ ircur = 0 /\ (scans = << >> \/ walk.entry = 0)
    \/ job.cmd = "UNTAG" /\ irecgo = 1

Loop ==
    /\ job \in WalkJobs /\ was.scans \in Schedules /\ fill = Off /\ thin = Off
    /\ scans \in Seq(Records) /\ \A i \in DOMAIN scans : Whole(scans[i])
    /\ cur \in Cursors /\ ircur \in Nat
    /\ walk \in [phase : {"visit", "next", "off"}, first : BOOLEAN, entry : Nat, pre : Befores]
    /\ busy <=> walk.phase # "off"
    /\ job.cmd # "UNTAG" => cur.sta # << >>
    /\ status = "failed" => cur.sta = << >> \/ walk.entry = 0
    /\ walk.phase = "visit" => Visiting
    /\ walk.phase = "next" => Between
    /\ walk.phase = "off" => Over

-----------------------------------------------------------------------------
(* If CUR was the scan at the cursor: the scans are those there were, and  *)
(* the ones behind place n have not been touched.                          *)
Does(c, x, y) ==
    CASE c.cmd \in {"CHECK", "REWRITE"} -> x = y
      [] c.cmd = "SHIFT" -> [x EXCEPT !.t = y.t] = y
      [] c.cmd \in {"ADD", "TAGALONG"} -> SameBut(c.who, x, y) /\ Len(x.sta) >= Len(y.sta)
      [] c.cmd = "REMOVE" -> SameBut(c.who, x, y) /\ Len(x.sta) <= Len(y.sta)
      [] c.cmd = "UNTAG" -> Fewer(x, y)

Traced(s, o, c, n) ==
    /\ \E from \in [DOMAIN s -> DOMAIN o] :
          /\ \A i, j \in DOMAIN s : i < j => from[i] < from[j]
          /\ \A i \in DOMAIN s : IF i <= n THEN Does(c, s[i], o[from[i]])
                                           ELSE s[i] = o[from[i]]
    /\ c.cmd \notin {"REMOVE", "UNTAG"} => Len(s) = Len(o)

Touched ==
    CASE walk.phase = "visit" -> IF job.cmd = "SHIFT" THEN ircur ELSE ircur - 1
      [] walk.phase = "next"  -> ircur
      [] OTHER                -> nobs

\* CUR is the scan x.
Holds(c, x) ==
    /\ c.sta = x.sta
    /\ \A m \in ToSet(x.sta) : c.t[m] = x.t /\ c.src[m] = x.src /\ c.dur[m] = x.dur[m]

Following ==
    /\ Traced(scans, was.scans, job, Touched)
    /\ walk.phase = "visit" /\ job.cmd # "SHIFT" => Holds(cur, scans[ircur])

-----------------------------------------------------------------------------
(* What PRE says of the stations, and what it has led to: n is the place   *)
(* of the last turn that has ended, a the first.                           *)
Done == IF walk.phase = "visit" THEN ircur - 1 ELSE ircur

LastAt(s, m, i, a, n) ==
    i \in a..n /\ Place(s, m, i) /\ \A k \in (i + 1)..n : ~Place(s, m, k)

\* TAGALONG: the station's last scan, unless it was too long ago.
Remembers(s, pre, m, a, n) ==
    \A i \in a..n : LastAt(s, m, i, a, n) =>
        \/ pre.t[m] = s[i].t /\ pre.dur[m] = s[i].dur[m] /\ pre.src[m] = s[i].src
        \/ pre.src[m] = NoSource /\ s[n].t - s[i].t > Forget

JoinsOnTime(s, o, m, a, n) ==
    \A j \in (a + 1)..n : \A i \in a..(j - 1) :
        Follows(s, m, i, j) /\ ~Place(o, m, j) =>
            InTime(s, m, i, j) \/ s[j].t - s[i].t > Forget

Tagged ==
    \A m \in job.who :
        /\ Remembers(scans, walk.pre, m, walk.entry, Done)
        /\ JoinsOnTime(scans, was.scans, m, walk.entry, Done)

\* UNTAG: the station was not ready earlier than PRE says.
Outlasts(s, pre, m, a, n) ==
    \A i \in a..n : LastAt(s, m, i, a, n) =>
        /\ pre.src[m] # NoSource
        /\ \A src \in Sources : Ready(s[i].t, s[i].dur[m], s[i].src, src)
                                    <= Ready(pre.t[m], pre.dur[m], pre.src[m], src)

AllOnTime(s, a, n) ==
    \A m \in Stations : \A j \in a..n : \A i \in a..(j - 1) :
        Follows(s, m, i, j) => InTime(s, m, i, j)

Untagged ==
    /\ walk.phase = "visit" =>
          IF walk.first THEN ircur = walk.entry ELSE walk.entry < ircur
    /\ walk.phase = "next" => ~walk.first /\ walk.entry <= ircur
    /\ job.clear =>
          /\ \A m \in Stations : Outlasts(scans, walk.pre, m, walk.entry + 1, Done)
          /\ AllOnTime(scans, walk.entry + 1, Done)

\* SHIFT: PRE has the time the scan was moved to, if station and scan were known.
KnownTo(s, a, m, i) == i = a \/ \E k \in a..(i - 1) : Place(s, m, k)

Moved(s, a, m, i) == KnownTo(s, a, m, i) /\ KnownTo(s, a, Head(s[i].sta), i)

Recalls(s, pre, m, a, n) ==
    \A i \in a..n : LastAt(s, m, i, a, n) =>
        /\ pre.dur[m] = s[i].dur[m] /\ pre.src[m] = s[i].src
        /\ Moved(s, a, m, i) => pre.t[m] = s[i].t

MovedOnTime(s, a, n) ==
    \A m \in Stations : \A j \in (a + 1)..n : \A i \in a..(j - 1) :
        Follows(s, m, i, j) /\ Moved(s, a, m, i) /\ KnownTo(s, a, Head(s[j].sta), j) =>
            InTime(s, m, i, j)

HoldsMoved(c, s, a, n) ==
    /\ c.sta = s[n].sta
    /\ \A m \in ToSet(c.sta) :
          /\ c.src[m] = s[n].src /\ c.dur[m] = s[n].dur[m]
          /\ Moved(s, a, m, n) => c.t[m] = s[n].t

ShiftedOn ==
    /\ walk.phase = "next" => walk.entry <= ircur
    /\ job.clear =>
          /\ walk.phase = "visit" => HoldsMoved(cur, scans, walk.entry, ircur)
          /\ \A m \in Stations : Recalls(scans, walk.pre, m, walk.entry, Done)
          /\ MovedOnTime(scans, walk.entry, ircur)

\* REMOVE: the station is gone, but for the scan after a deleted first one.
GoneUpto(s, o, m, a, n) ==
    \A i \in a..n : i \in DOMAIN s /\ Place(s, m, i) => i = 1 /\ a = 1 /\ Len(s) < Len(o)

Removed == \A m \in job.who : GoneUpto(scans, was.scans, m, walk.entry, Done)

Minding ==
    /\ job.cmd = "TAGALONG" => Tagged
    /\ job.cmd = "UNTAG" => Untagged
    /\ job.cmd = "SHIFT" => ShiftedOn
    /\ job.cmd = "REMOVE" => Removed

Walking ==
    /\ Loop
    /\ Synced =>
          /\ Following
          /\ walk.phase # "off" \/ irecgo = 0 => Minding

-----------------------------------------------------------------------------
(* Reading a scan, and putting one back. *)

\* After UNPAK the scan is in CUR.
LEMMA UnpakIs ==
    ASSUME NEW c \in Cursors, NEW x \in Records
    PROVE  Unpak(c, x) \in Cursors /\ Holds(Unpak(c, x), x)
<1> DEFINE in == ToSet(x.sta)
           t == [m \in Stations |-> IF m \in in THEN x.t ELSE c.t[m]]
           src == [m \in Stations |-> IF m \in in THEN x.src ELSE c.src[m]]
           dur == [m \in Stations |-> IF m \in in THEN x.dur[m] ELSE c.dur[m]]
<1>1. /\ x.t \in Nat /\ x.src \in AnySource /\ x.sta \in Seq(Stations) /\ x.dur \in [Stations -> Nat]
      /\ c.t \in [Stations -> Nat] /\ c.src \in [Stations -> AnySource]
      /\ c.dur \in [Stations -> Nat]
    BY DEF Records, Cursors
<1>2. t \in [Stations -> Nat] /\ src \in [Stations -> AnySource] /\ dur \in [Stations -> Nat]
    BY <1>1
<1>3. in \subseteq Stations
    BY <1>1, MembersAt
<1>4. \A m \in in : t[m] = x.t /\ src[m] = x.src /\ dur[m] = x.dur[m]
    BY <1>3
<1>5. Unpak(c, x) = [sta |-> x.sta, t |-> t, src |-> src, dur |-> dur]
    BY DEF Unpak
<1> HIDE DEF t, src, dur
<1> QED
    BY <1>1, <1>2, <1>4, <1>5 DEF Cursors, Holds

\* After several scans are read the last of them is in CUR.
LEMMA UnpakAllIs ==
    ASSUME NEW c \in Cursors, NEW s \in Seq(Records), NEW P \in SUBSET (DOMAIN s), P # {}
    PROVE  UnpakAll(c, s, P) \in Cursors /\ Holds(UnpakAll(c, s, P), s[Max(P)])
<1> DEFINE with(m) == {i \in P : m \in ToSet(s[i].sta)}
           seen(m) == s[Max(with(m))]
           t == [m \in Stations |-> IF with(m) = {} THEN c.t[m] ELSE seen(m).t]
           src == [m \in Stations |-> IF with(m) = {} THEN c.src[m] ELSE seen(m).src]
           dur == [m \in Stations |-> IF with(m) = {} THEN c.dur[m] ELSE seen(m).dur[m]]
           last == Max(P)
<1>1. /\ \A i \in DOMAIN s : /\ s[i].t \in Nat /\ s[i].src \in AnySource
                             /\ s[i].sta \in Seq(Stations) /\ s[i].dur \in [Stations -> Nat]
      /\ c.t \in [Stations -> Nat] /\ c.src \in [Stations -> AnySource]
      /\ c.dur \in [Stations -> Nat] /\ DOMAIN s = 1..Len(s) /\ Len(s) \in Nat
  <2>1. \A i \in DOMAIN s : s[i] \in Records
    OBVIOUS
  <2> QED
    BY <2>1 DEF Records, Cursors
<1>2. last \in P /\ \A i \in P : i <= last
    BY <1>1, MaxOfPlaces
<1>3. ASSUME NEW m \in Stations, with(m) # {}
      PROVE  Max(with(m)) \in DOMAIN s /\ Max(with(m)) \in with(m)
  <2>1. with(m) \in SUBSET (1..Len(s))
    BY <1>1
  <2> HIDE DEF with
  <2>2. Max(with(m)) \in with(m)
    BY <1>1, <1>3, <2>1, MaxOfPlaces
  <2> QED
    BY <1>1, <2>1, <2>2
<1>4. t \in [Stations -> Nat] /\ src \in [Stations -> AnySource] /\ dur \in [Stations -> Nat]
  <2> SUFFICES ASSUME NEW m \in Stations
               PROVE  /\ (IF with(m) = {} THEN c.t[m] ELSE seen(m).t) \in Nat
                      /\ (IF with(m) = {} THEN c.src[m] ELSE seen(m).src) \in AnySource
                      /\ (IF with(m) = {} THEN c.dur[m] ELSE seen(m).dur[m]) \in Nat
    OBVIOUS
  <2>1. CASE with(m) = {}
    BY <1>1, <2>1
  <2>2. CASE with(m) # {}
    <3>1. Max(with(m)) \in DOMAIN s
      BY <1>3, <2>2
    <3> DEFINE i == Max(with(m))
    <3>2. seen(m) = s[i]
      OBVIOUS
    <3> HIDE DEF with, seen, i
    <3>3. i \in DOMAIN s
      BY <3>1 DEF i
    <3> QED
      BY <1>1, <2>2, <3>2, <3>3
  <2> QED
    BY <2>1, <2>2
<1>5. ASSUME NEW m \in ToSet(s[last].sta)
      PROVE  t[m] = s[last].t /\ src[m] = s[last].src /\ dur[m] = s[last].dur[m]
  <2>1. s[last].sta \in Seq(Stations)
    BY <1>1, <1>2
  <2>2. m \in Stations
    BY <2>1, MembersAt
  <2>3. last \in with(m)
    BY <1>2
  <2>4. with(m) # {} /\ with(m) \in SUBSET Int /\ \A i \in with(m) : i <= last
    BY <1>1, <1>2, <2>3
  <2>5. Max(with(m)) = last
    <3> DEFINE W == with(m)
    <3>1. W \in SUBSET Int /\ last \in W /\ \A i \in W : i <= last
      BY <2>3, <2>4
    <3> HIDE DEF W, last
    <3>2. Max(W) = last
      BY <3>1, MaxIs
    <3> QED
      BY <3>2 DEF W
  <2>6. seen(m) = s[last]
    BY <2>5
  <2> HIDE DEF with, seen, last
  <2> QED
    BY <2>2, <2>4, <2>6
<1>6. UnpakAll(c, s, P) = [sta |-> s[last].sta, t |-> t, src |-> src, dur |-> dur]
    BY DEF UnpakAll
<1>7. s[last].sta \in Seq(Stations)
    BY <1>1, <1>2
<1> HIDE DEF t, src, dur
<1> QED
    BY <1>4, <1>5, <1>6, <1>7 DEF Cursors, Holds

\* PAKUP makes a scan of the stations in CUR, with time and source of the
\* first.
LEMMA PakupIs ==
    ASSUME NEW c \in Cursors, Len(c.sta) >= 2
    PROVE  /\ Whole(Pakup(c)) /\ Pakup(c).sta = c.sta
           /\ Pakup(c).t = Instant(c) /\ Pakup(c).src = Source(c)
           /\ \A m \in ToSet(c.sta) : Pakup(c).dur[m] = c.dur[m]
           /\ Head(c.sta) \in ToSet(c.sta) /\ ToSet(c.sta) \in SUBSET Stations
           /\ Instant(c) \in Nat /\ Source(c) \in AnySource
<1> DEFINE sta == c.sta
           dur == [m \in Stations |-> IF m \in ToSet(c.sta) THEN c.dur[m] ELSE 0]
<1>1. /\ sta \in Seq(Stations) /\ c.t \in [Stations -> Nat]
      /\ c.src \in [Stations -> AnySource] /\ c.dur \in [Stations -> Nat]
    BY DEF Cursors
<1>2. sta # << >>
    BY <1>1
<1>3. Head(c.sta) \in ToSet(c.sta) /\ ToSet(c.sta) \in SUBSET Stations
  <2> HIDE DEF sta
  <2>1. Head(sta) \in ToSet(sta) /\ ToSet(sta) \subseteq Stations
    BY <1>1, <1>2, MembersAt
  <2> QED
    BY <2>1 DEF sta
<1>4. /\ dur \in [Stations -> Nat]
      /\ \A m \in ToSet(c.sta) : dur[m] = c.dur[m]
      /\ \A m \in Stations : m \notin ToSet(c.sta) => dur[m] = 0
    BY <1>1, <1>3
<1>5. Pakup(c) = [t |-> Instant(c), src |-> Source(c), sta |-> c.sta, dur |-> dur]
    BY DEF Pakup, Instant, Source
<1>6. Instant(c) \in Nat /\ Source(c) \in AnySource
    BY <1>1, <1>3 DEF Instant, Source
<1> HIDE DEF dur
<1> QED
    BY <1>1, <1>3, <1>4, <1>5, <1>6 DEF Whole, Records

\* PAKUP gives back the scan that is in CUR.
LEMMA HeldIs ==
    ASSUME NEW c \in Cursors, NEW x, Whole(x), Holds(c, x)
    PROVE  /\ c.sta = x.sta /\ Instant(c) = x.t /\ Source(c) = x.src /\ Pakup(c) = x
           /\ Head(x.sta) \in ToSet(x.sta)
<1>1. /\ x \in Records /\ x.sta \in Seq(Stations) /\ x.dur \in [Stations -> Nat]
      /\ Len(x.sta) >= 2 /\ c.sta = x.sta
      /\ \A m \in Stations : m \notin ToSet(x.sta) => x.dur[m] = 0
    BY DEF Whole, Records, Holds
<1>2. Head(x.sta) \in ToSet(x.sta)
    BY <1>1, PakupIs
<1>3. Instant(c) = x.t /\ Source(c) = x.src
    BY <1>1, <1>2 DEF Instant, Source, Holds
<1> DEFINE dur == [m \in Stations |-> IF m \in ToSet(c.sta) THEN c.dur[m] ELSE 0]
<1>4. \A m \in Stations : dur[m] = x.dur[m]
    BY <1>1 DEF Holds
<1>5. dur = x.dur
  <2>1. dur = [m \in Stations |-> x.dur[m]]
    BY <1>4
  <2>2. x.dur = [m \in Stations |-> x.dur[m]]
    BY <1>1
  <2> QED
    BY <2>1, <2>2
<1>6. Pakup(c) = [t |-> Instant(c), src |-> Source(c), sta |-> c.sta, dur |-> dur]
    BY DEF Pakup, Instant, Source
<1> HIDE DEF dur
<1>7. Pakup(c) = [t |-> x.t, src |-> x.src, sta |-> x.sta, dur |-> x.dur]
    BY <1>1, <1>3, <1>5, <1>6
<1>8. x = [t |-> x.t, src |-> x.src, sta |-> x.sta, dur |-> x.dur]
    BY <1>1 DEF Records
<1> QED
    BY <1>1, <1>2, <1>3, <1>7, <1>8

\* PRE has of the stations in CUR what CUR has, and of the others what it
\* had.
LEMMA SavedIs ==
    ASSUME NEW pre \in Befores, NEW c \in Cursors
    PROVE  /\ Saved(pre, c) \in Befores
           /\ \A m \in Stations :
                /\ m \in ToSet(c.sta) => /\ Saved(pre, c).t[m] = c.t[m]
                                         /\ Saved(pre, c).dur[m] = c.dur[m]
                                         /\ Saved(pre, c).src[m] = c.src[m]
                /\ m \notin ToSet(c.sta) => /\ Saved(pre, c).t[m] = pre.t[m]
                                            /\ Saved(pre, c).dur[m] = pre.dur[m]
                                            /\ Saved(pre, c).src[m] = pre.src[m]
<1> DEFINE in == ToSet(c.sta)
           t == [m \in Stations |-> IF m \in in THEN c.t[m] ELSE pre.t[m]]
           dur == [m \in Stations |-> IF m \in in THEN c.dur[m] ELSE pre.dur[m]]
           src == [m \in Stations |-> IF m \in in THEN c.src[m] ELSE pre.src[m]]
<1>1. /\ pre.t \in [Stations -> Nat] /\ pre.src \in [Stations -> AnySource]
      /\ pre.dur \in [Stations -> Nat]
      /\ c.t \in [Stations -> Nat] /\ c.src \in [Stations -> AnySource]
      /\ c.dur \in [Stations -> Nat]
    BY DEF Befores, Cursors
<1>2. t \in [Stations -> Nat] /\ src \in [Stations -> AnySource] /\ dur \in [Stations -> Nat]
    BY <1>1
<1>3. Saved(pre, c) = [t |-> t, dur |-> dur, src |-> src]
    BY DEF Saved
<1>4. \A m \in Stations :
         /\ m \in in => t[m] = c.t[m] /\ dur[m] = c.dur[m] /\ src[m] = c.src[m]
         /\ m \notin in => t[m] = pre.t[m] /\ dur[m] = pre.dur[m] /\ src[m] = pre.src[m]
    OBVIOUS
<1> HIDE DEF t, dur, src
<1> QED
    BY <1>2, <1>3, <1>4 DEF Befores

\* A set of naturals that has members has a least.
LEMMA LeastOf ==
    ASSUME NEW W \in SUBSET Nat, W # {}
    PROVE  Min(W) \in W /\ \A j \in W : Min(W) <= j
<1>1. PICK i \in W : \A j \in W : i <= j
    BY HasLeast
<1>2. Min(W) = i
    BY <1>1, MinIs
<1> QED
    BY <1>1, <1>2

\* The scans a command begins with are whole.
LEMMA ScheduleIsWhole ==
    ASSUME NEW o \in Schedules
    PROVE  /\ o \in Seq(Records) /\ Len(o) \in Nat \ {0} /\ DOMAIN o = 1..Len(o)
           /\ \A i \in DOMAIN o : Whole(o[i]) /\ o[i].src \in Sources
<1>1. /\ o \in Seq(ScanFields) /\ Len(o) \in Nat \ {0} /\ DOMAIN o = 1..Len(o)
      /\ \A i \in DOMAIN o : /\ o[i] \in ScanFields /\ Len(o[i].sta) >= 2
                             /\ o[i].dur \in [Stations -> Nat] /\ o[i].src \in Sources
                             /\ \A m \in Stations : o[i].dur[m] > 0 <=> m \in ToSet(o[i].sta)
    BY ScheduleFacts
<1>2. ScanFields \subseteq Records
    BY DEF ScanFields, Records, AnySource
<1>3. \A i \in DOMAIN o : o[i] \in Records
    BY <1>1, <1>2
<1>4. o \in Seq(Records)
  <2>1. o = [i \in 1..Len(o) |-> o[i]]
    BY <1>1
  <2>2. [i \in 1..Len(o) |-> o[i]] \in Seq(Records)
    BY <1>1, <1>3, IsASeq
  <2> QED
    BY <2>1, <2>2
<1>5. ASSUME NEW i \in DOMAIN o, NEW m \in Stations, m \notin ToSet(o[i].sta)
      PROVE  o[i].dur[m] = 0
  <2>1. o[i].dur[m] \in Nat /\ ~(o[i].dur[m] > 0)
    BY <1>1, <1>5
  <2> QED
    BY <2>1
<1> QED
    BY <1>1, <1>3, <1>4, <1>5 DEF Whole

\* A command may do nothing to a scan.
LEMMA DoesNothing ==
    ASSUME NEW c \in WalkJobs, NEW x \in Records
    PROVE  Does(c, x, x)
<1>1. c.cmd \in {"CHECK", "REWRITE", "SHIFT", "UNTAG", "ADD", "REMOVE", "TAGALONG"}
    BY DEF WalkJobs
<1>2. [x EXCEPT !.t = x.t] = x /\ x.sta \in Seq(Stations) /\ Len(x.sta) \in Nat
    BY DEF Records
<1>3. Fewer(x, x)
  <2>1. Without(x.sta, {}) = x.sta
    BY <1>2, WithoutFacts
  <2> QED
    BY <2>1 DEF Fewer
<1>4. Len(x.sta) >= Len(x.sta) /\ Len(x.sta) <= Len(x.sta)
    BY <1>2
<1>5. SameBut(c.who, x, x)
    BY SameIsSame
<1> DEFINE cmd == c.cmd
<1> HIDE DEF cmd
<1>6. cmd \in {"CHECK", "REWRITE", "SHIFT", "UNTAG", "ADD", "REMOVE", "TAGALONG"}
    BY <1>1 DEF cmd
<1>7. CASE cmd \in {"CHECK", "REWRITE"}
    BY <1>7 DEF Does, cmd
<1>8. CASE cmd = "SHIFT"
    BY <1>2, <1>8 DEF Does, cmd
<1>9. CASE cmd \in {"ADD", "TAGALONG"}
    BY <1>4, <1>5, <1>9 DEF Does, cmd
<1>10. CASE cmd = "REMOVE"
    BY <1>4, <1>5, <1>10 DEF Does, cmd
<1>11. CASE cmd = "UNTAG"
    BY <1>3, <1>11 DEF Does, cmd
<1> QED
    BY <1>6, <1>7, <1>8, <1>9, <1>10, <1>11

\* CUR before anything is read has its types.
LEMMA BlankIs == \A source \in {NoSource, Unread} : Blank(source) \in Cursors
<1> SUFFICES ASSUME NEW source \in {NoSource, Unread} PROVE Blank(source) \in Cursors
    OBVIOUS
<1> DEFINE t == [m \in Stations |-> StartTime]
           src == [m \in Stations |-> source]
           dur == [m \in Stations |-> 0]
<1>1. t \in [Stations -> Nat] /\ src \in [Stations -> AnySource] /\ dur \in [Stations -> Nat]
    BY TableAssumption DEF AnySource
<1>2. Blank(source) = [sta |-> << >>, t |-> t, src |-> src, dur |-> dur]
    BY DEF Blank
<1>3. << >> \in Seq(Stations)
    OBVIOUS
<1> HIDE DEF t, src, dur
<1> QED
    BY <1>1, <1>2, <1>3 DEF Cursors

\* Where the loop begins, and what is in CUR then.
LEMMA GtStartIs ==
    ASSUME Waiting, NEW time \in Nat
    PROVE  /\ GtStart(time).at \in 0..nobs /\ GtStart(time).cur \in Cursors
           /\ Len(GtStart(time).cur.sta) >= 2
           /\ was.synced /\ GtStart(time).at # 0 =>
                 Holds(GtStart(time).cur, scans[GtStart(time).at])
<1> DEFINE back == time < Instant(cur)
           at   == IF back THEN 0 ELSE ircur
           c    == IF back THEN Rewound(cur) ELSE cur
           from == Min({at + 1, nobs})
           to   == Landing(from, time)
<1>1. /\ scans \in Seq(Records) /\ nobs \in Nat \ {0} /\ DOMAIN scans = 1..nobs
      /\ \A i \in DOMAIN scans : Whole(scans[i])
      /\ ircur \in 1..nobs
  <2>1. scans \in Schedules /\ ircur \in DOMAIN scans
    BY DEF Waiting
  <2> QED
    BY <2>1, ScheduleIsWhole DEF nobs
<1>2. cur \in Cursors /\ Len(cur.sta) >= 2 /\ (was.synced => Holds(cur, scans[ircur]))
  <2>1. PICK read \in DOMAIN scans, source \in {NoSource, Unread} :
          /\ cur = UnpakAll(Blank(source), scans, 1..read)
          /\ was.synced <=> read = ircur
    BY DEF Waiting
  <2> DEFINE P == 1..read
  <2>2. P \in SUBSET (DOMAIN scans) /\ P # {} /\ P \in SUBSET Int
        /\ read \in P /\ \A i \in P : i <= read
    BY <1>1, <2>1
  <2> HIDE DEF P
  <2>3. Max(P) = read
    BY <2>2, MaxIs
  <2>4. cur \in Cursors /\ Holds(cur, scans[Max(P)])
    BY <1>1, <2>1, <2>2, BlankIs, UnpakAllIs DEF P
  <2>5. Len(scans[read].sta) >= 2
    BY <1>1, <2>1 DEF Whole
  <2> QED
    BY <2>1, <2>3, <2>4, <2>5 DEF Holds
<1>3. c \in Cursors /\ c.sta = cur.sta
  <2> DEFINE t == Fresh.t
             src == Fresh.src
  <2>1. t \in [Stations -> Nat] /\ src \in [Stations -> AnySource]
    BY BlankIs DEF Fresh, Cursors
  <2>2. Rewound(cur) = [cur EXCEPT !.t = t, !.src = src]
    BY DEF Rewound
  <2> HIDE DEF t, src
  <2>3. Rewound(cur) \in Cursors /\ Rewound(cur).sta = cur.sta
    BY <1>2, <2>1, <2>2 DEF Cursors
  <2> QED
    BY <1>2, <2>3
<1>4. GtStart(time) = IF time = Instant(c) THEN [at |-> at, cur |-> c]
                      ELSE [at |-> to, cur |-> ReadOn(c, from, to)]
    BY DEF GtStart
<1>5. at \in 0..nobs /\ (at # 0 => c = cur /\ at = ircur)
    BY <1>1
<1> HIDE DEF c, at, back
<1>6. from \in 1..nobs
  <2>1. at + 1 \in Int /\ nobs \in Int
    BY <1>1, <1>5
  <2>2. from \in {at + 1, nobs} /\ from <= nobs
    BY <2>1, MinOfTwo
  <2> HIDE DEF from
  <2> QED
    BY <1>1, <1>5, <2>2
<1> HIDE DEF from
<1>7. to \in from..nobs
  <2> DEFINE W == {i \in from..nobs : scans[i].t > time} \cup {nobs}
  <2>1. W \in SUBSET Nat /\ W # {} /\ W \subseteq from..nobs
    BY <1>1, <1>6
  <2>2. to = Min(W)
    BY DEF Landing
  <2> HIDE DEF W, to
  <2>3. Min(W) \in W
    BY <2>1, LeastOf
  <2> QED
    BY <2>1, <2>2, <2>3
<1> HIDE DEF to
<1>8. /\ ReadOn(c, from, to) \in Cursors /\ Holds(ReadOn(c, from, to), scans[to])
      /\ Len(ReadOn(c, from, to).sta) >= 2
  <2> DEFINE P == from..to
  <2>1. P \in SUBSET (DOMAIN scans) /\ P # {} /\ P \in SUBSET Int
        /\ to \in P /\ \A i \in P : i <= to
    <3> DEFINE n == nobs
    <3>1. n \in Nat /\ DOMAIN scans = 1..n /\ from \in 1..n /\ to \in from..n
      BY <1>1, <1>6, <1>7
    <3> HIDE DEF n
    <3>2. to \in P /\ P \subseteq 1..n /\ \A i \in P : i \in Int /\ i <= to
      BY <3>1
    <3> QED
      BY <3>1, <3>2
  <2>2. ReadOn(c, from, to) = UnpakAll(c, scans, P)
    BY DEF ReadOn
  <2> HIDE DEF P
  <2>3. Max(P) = to
    BY <2>1, MaxIs
  <2>4. UnpakAll(c, scans, P) \in Cursors /\ Holds(UnpakAll(c, scans, P), scans[Max(P)])
    BY <1>1, <1>3, <2>1, UnpakAllIs
  <2>5. Len(scans[to].sta) >= 2
    BY <1>1, <2>1 DEF Whole
  <2> QED
    BY <2>2, <2>3, <2>4, <2>5 DEF Holds
<1>9. CASE time = Instant(c)
    BY <1>2, <1>3, <1>4, <1>5, <1>9
<1>10. CASE time # Instant(c)
  <2>1. GtStart(time).at = to /\ GtStart(time).cur = ReadOn(c, from, to)
    BY <1>4, <1>10
  <2> QED
    BY <1>1, <1>6, <1>7, <1>8, <2>1
<1> QED
    BY <1>9, <1>10

\* Before the first turn ends there is nothing to be said.
LEMMA NothingDone ==
    ASSUME NEW a \in Nat, NEW n \in Int, n < a, NEW s, NEW o, NEW pre, NEW m
    PROVE  /\ Remembers(s, pre, m, a, n) /\ JoinsOnTime(s, o, m, a, n)
           /\ Outlasts(s, pre, m, a + 1, n) /\ AllOnTime(s, a + 1, n)
           /\ AllOnTime(s, a + 1, n + 1)
           /\ Recalls(s, pre, m, a, n) /\ MovedOnTime(s, a, n) /\ MovedOnTime(s, a, a)
           /\ GoneUpto(s, o, m, a, n)
<1>1. \A i : i \notin a..n /\ i \notin (a + 1)..n /\ i \notin (a + 1)..a
             /\ i \notin (a + 1)..(n + 1)
    OBVIOUS
<1> QED
    BY <1>1 DEF Remembers, JoinsOnTime, Outlasts, AllOnTime, Recalls, MovedOnTime, GoneUpto

\* GTOBS brings the loop to a first scan: what it has done is right, for it
\* is nothing.
LEMMA WalkBegins == ASSUME Waiting, WalkCommand PROVE Walking'
<1> DEFINE o == was.scans
<1>1. /\ o \in Schedules /\ scans = o /\ fill = Off /\ thin = Off /\ status = "ok"
      /\ scans \in Seq(Records) /\ nobs \in Nat \ {0} /\ DOMAIN scans = 1..nobs
      /\ \A i \in DOMAIN scans : Whole(scans[i])
  <2>1. o \in Schedules /\ scans = o /\ fill = Off /\ thin = Off /\ status = "ok"
    BY DEF Waiting
  <2> QED
    BY <2>1, ScheduleIsWhole DEF nobs
<1>2. fill' = fill /\ thin' = thin
    BY DEF WalkCommand
<1>3. PICK c \in WalkJobs : BeginWalk(c)
  <2>1. PICK window \in Windows :
          \/ \E cmd \in {"CHECK", "REWRITE"} :
                BeginWalk([cmd |-> cmd, window |-> window, who |-> {}])
          \/ \E cmd \in {"SHIFT", "UNTAG"}, clear \in BOOLEAN :
                BeginWalk([cmd |-> cmd, window |-> window, who |-> {}, clear |-> clear])
          \/ \E cmd \in {"ADD", "REMOVE"}, m \in Stations :
                BeginWalk([cmd |-> cmd, window |-> window, who |-> {m}, to |-> {}])
          \/ \E m \in Stations : \E to \in {{}} \cup {{n} : n \in Stations \ {m}} :
                BeginWalk([cmd |-> "TAGALONG", window |-> window, who |-> {m}, to |-> to])
    BY DEF WalkCommand
  <2>2. window \in [st : Nat, en : Nat]
    BY TableAssumption
  <2>3. CASE \E cmd \in {"CHECK", "REWRITE"} :
                BeginWalk([cmd |-> cmd, window |-> window, who |-> {}])
    <3>1. PICK cmd \in {"CHECK", "REWRITE"} :
                BeginWalk([cmd |-> cmd, window |-> window, who |-> {}])
      BY <2>3
    <3>2. [cmd |-> cmd, window |-> window, who |-> {}] \in WalkJobs
      BY <2>2 DEF WalkJobs
    <3> QED
      BY <3>1, <3>2
  <2>4. CASE \E cmd \in {"SHIFT", "UNTAG"}, clear \in BOOLEAN :
                BeginWalk([cmd |-> cmd, window |-> window, who |-> {}, clear |-> clear])
    <3>1. PICK cmd \in {"SHIFT", "UNTAG"}, clear \in BOOLEAN :
                BeginWalk([cmd |-> cmd, window |-> window, who |-> {}, clear |-> clear])
      BY <2>4
    <3>2. [cmd |-> cmd, window |-> window, who |-> {}, clear |-> clear] \in WalkJobs
      BY <2>2 DEF WalkJobs
    <3> QED
      BY <3>1, <3>2
  <2>5. CASE \E cmd \in {"ADD", "REMOVE"}, m \in Stations :
                BeginWalk([cmd |-> cmd, window |-> window, who |-> {m}, to |-> {}])
    <3>1. PICK cmd \in {"ADD", "REMOVE"}, m \in Stations :
                BeginWalk([cmd |-> cmd, window |-> window, who |-> {m}, to |-> {}])
      BY <2>5
    <3>2. [cmd |-> cmd, window |-> window, who |-> {m}, to |-> {}] \in WalkJobs
      BY <2>2 DEF WalkJobs
    <3> QED
      BY <3>1, <3>2
  <2>6. CASE \E m \in Stations : \E to \in {{}} \cup {{n} : n \in Stations \ {m}} :
                BeginWalk([cmd |-> "TAGALONG", window |-> window, who |-> {m}, to |-> to])
    <3>1. PICK m \in Stations : \E to \in {{}} \cup {{n} : n \in Stations \ {m}} :
                BeginWalk([cmd |-> "TAGALONG", window |-> window, who |-> {m}, to |-> to])
      BY <2>6
    <3>2. PICK to \in SUBSET Stations :
                BeginWalk([cmd |-> "TAGALONG", window |-> window, who |-> {m}, to |-> to])
      BY <3>1
    <3>3. [cmd |-> "TAGALONG", window |-> window, who |-> {m}, to |-> to] \in WalkJobs
      BY <2>2 DEF WalkJobs
    <3> QED
      BY <3>2, <3>3
  <2> QED
    BY <2>1, <2>3, <2>4, <2>5, <2>6
<1>4. c.window.st \in Nat
    BY DEF WalkJobs
<1> DEFINE p == GtStart(c.window.st)
           at == p.at
           now == p.cur
           pre == [t |-> now.t, dur |-> now.dur, src |-> Fresh.src]
<1>5. /\ at \in 0..nobs /\ now \in Cursors /\ Len(now.sta) >= 2
      /\ was.synced /\ at # 0 => Holds(now, scans[at])
    BY <1>4, GtStartIs
<1>6. /\ job' = c /\ busy' = TRUE /\ was' = was /\ scans' = scans
      /\ ircur' = at /\ cur' = now
      /\ walk' = [phase |-> "visit", first |-> TRUE, entry |-> at, pre |-> pre]
      /\ status' \in IF at = 0 THEN {"ok", "failed"} ELSE {"ok"}
    BY <1>3 DEF BeginWalk, Begin
<1>7. pre \in Befores
  <2> DEFINE t == now.t
             dur == now.dur
             src == Fresh.src
  <2>1. t \in [Stations -> Nat] /\ dur \in [Stations -> Nat] /\ src \in [Stations -> AnySource]
    BY <1>5, BlankIs DEF Fresh, Cursors
  <2>2. pre = [t |-> t, dur |-> dur, src |-> src]
    OBVIOUS
  <2> HIDE DEF t, dur, src, pre
  <2> QED
    BY <2>1, <2>2 DEF Befores
<1> HIDE DEF p, pre, at, now
<1>8. /\ walk' \in [phase : {"visit", "next", "off"}, first : BOOLEAN, entry : Nat, pre : Befores]
      /\ walk'.phase = "visit" /\ walk'.first /\ walk'.entry = at /\ walk'.pre = pre
    BY <1>1, <1>5, <1>6, <1>7
<1>9. nobs' = nobs
    BY <1>6 DEF nobs
<1>10. Visiting'
    BY <1>1, <1>5, <1>6, <1>8, <1>9 DEF Visiting
<1>11. now.sta # << >>
  <2>1. now.sta \in Seq(Stations)
    BY <1>5 DEF Cursors
  <2> QED
    BY <1>5, <2>1
<1>12. Loop'
    BY <1>1, <1>2, <1>5, <1>6, <1>8, <1>10, <1>11 DEF Loop
<1>13. ASSUME was.synced, at # 0
       PROVE  Following' /\ Minding'
  <2>1. at \in DOMAIN scans /\ Holds(now, scans[at]) /\ at \in Nat
    BY <1>1, <1>5, <1>13
  <2>2. \A n : Traced(scans, o, c, n)
    <3> SUFFICES ASSUME NEW n PROVE Traced(scans, o, c, n)
      OBVIOUS
    <3> DEFINE from == [i \in DOMAIN scans |-> i]
    <3>1. from \in [DOMAIN scans -> DOMAIN o]
          /\ \A i, j \in DOMAIN scans : i < j => from[i] < from[j]
      BY <1>1
    <3>2. \A i \in DOMAIN scans : Does(c, scans[i], o[from[i]]) /\ scans[i] = o[from[i]]
      <4>1. \A i \in DOMAIN scans : scans[i] \in Records
        BY <1>1
      <4> QED
        BY <1>1, <4>1, DoesNothing
    <3> HIDE DEF from
    <3> QED
      BY <1>1, <3>1, <3>2 DEF Traced
  <2>3. Following'
    <3>1. Traced(scans', was'.scans, job', Touched')
      BY <1>6, <2>2
    <3>2. Holds(cur', scans'[ircur'])
      BY <1>6, <2>1
    <3> QED
      BY <3>1, <3>2 DEF Following
  <2>4. Done' = at - 1 /\ Done' \in Int /\ Done' < at
    BY <1>6, <1>8, <2>1 DEF Done
  <2>5. Minding'
    <3>1. Tagged'
      BY <1>6, <1>8, <2>1, <2>4, NothingDone DEF Tagged
    <3>2. Untagged'
      BY <1>6, <1>8, <2>1, <2>4, NothingDone DEF Untagged
    <3>3. HoldsMoved(now, scans, at, at)
      BY <2>1 DEF HoldsMoved, Holds
    <3>4. ShiftedOn'
      BY <1>6, <1>8, <2>1, <2>4, <3>3, NothingDone DEF ShiftedOn
    <3>5. Removed'
      BY <1>6, <1>8, <2>1, <2>4, NothingDone DEF Removed
    <3> QED
      BY <3>1, <3>2, <3>4, <3>5 DEF Minding
  <2> QED
    BY <2>3, <2>5
<1> QED
    BY <1>6, <1>8, <1>12, <1>13 DEF Walking, Synced

-----------------------------------------------------------------------------
(* The loop stays in its bounds. *)

\* Closing up the index moves the scans behind the place by one.
LEMMA RemovedIs ==
    ASSUME NEW S, NEW s \in Seq(S), NEW i \in 1..Len(s)
    PROVE  /\ RemoveAt(s, i) \in Seq(S) /\ Len(RemoveAt(s, i)) = Len(s) - 1
           /\ \A k \in 1..(Len(s) - 1) : RemoveAt(s, i)[k] = IF k < i THEN s[k] ELSE s[k + 1]
<1> DEFINE n == Len(s)
           a == SubSeq(s, 1, i - 1)
           b == SubSeq(s, i + 1, n)
<1>1. n \in Nat /\ i \in Nat /\ 1 <= i /\ i <= n
    OBVIOUS
<1>2. /\ a \in Seq(S) /\ Len(a) = i - 1
      /\ \A k \in 1..(i - 1) : a[k] = s[k]
    BY <1>1, SubSeqProperties
<1>3. /\ b \in Seq(S) /\ Len(b) = n - i
      /\ \A k \in 1..(n - i) : b[k] = s[k + i]
  <2>1. /\ b \in Seq(S) /\ Len(b) = n - i
        /\ \A k \in 1..(n - i) : b[k] = s[i + 1 + k - 1]
    BY <1>1, SubSeqProperties
  <2>2. \A k \in 1..(n - i) : i + 1 + k - 1 = k + i
    BY <1>1
  <2> QED
    BY <2>1, <2>2
<1>4. RemoveAt(s, i) = a \o b
    BY DEF RemoveAt
<1> HIDE DEF n, a, b
<1>5. /\ a \o b \in Seq(S) /\ Len(a \o b) = n - 1
      /\ \A k \in 1..(n - 1) : (a \o b)[k] = IF k < i THEN a[k] ELSE b[k - (i - 1)]
  <2>1. /\ a \o b \in Seq(S) /\ Len(a \o b) = Len(a) + Len(b)
        /\ \A k \in 1..(Len(a) + Len(b)) :
              (a \o b)[k] = IF k <= Len(a) THEN a[k] ELSE b[k - Len(a)]
    BY <1>2, <1>3, ConcatProperties
  <2>2. Len(a) + Len(b) = n - 1 /\ \A k \in 1..(n - 1) : k <= Len(a) <=> k < i
    BY <1>1, <1>2, <1>3
  <2> QED
    BY <1>2, <2>1, <2>2
<1>6. ASSUME NEW k \in 1..(n - 1)
      PROVE  (a \o b)[k] = IF k < i THEN s[k] ELSE s[k + 1]
  <2>1. CASE k < i
    <3>1. k \in 1..(i - 1)
      BY <1>1, <2>1
    <3> QED
      BY <1>2, <1>5, <2>1, <3>1
  <2>2. CASE ~(k < i)
    <3>1. k - (i - 1) \in 1..(n - i) /\ k - (i - 1) + i = k + 1
      BY <1>1, <2>2
    <3>2. b[k - (i - 1)] = s[k + 1]
      BY <1>3, <3>1
    <3> QED
      BY <1>5, <2>2, <3>2
  <2> QED
    BY <2>1, <2>2
<1> QED
    BY <1>4, <1>5, <1>6 DEF n

\* What does not change while a command runs.
GoingOn ==
    /\ busy /\ status = "ok" /\ job' = job /\ was' = was /\ fill' = fill /\ thin' = thin

\* While the loop runs nothing else does, and its job stays.
LEMMA LoopGoesOn ==
    ASSUME Loop, Next
    PROVE  ((WalkStep /\ busy' = busy) \/ EndWalk) /\ GoingOn
<1>1. fill = Off /\ thin = Off /\ job.cmd # "NONE"
    BY DEF Loop, WalkJobs
<1>2. ~Command
    BY <1>1 DEF Command, FillCommand, ThinCommand, WalkCommand, BeginFill, RefuseFill,
                BeginThin, BeginWalk, Begin
<1>3. fill.phase = "off" /\ thin.phase = "off"
    BY <1>1 DEF Off
<1>4. ~Turn /\ ~EndThin
    BY <1>3 DEF Turn, EndThin
<1>5. ~FillStep /\ ~EndFill
  <2>1. ~ReadScan /\ ~PassStation /\ ~Stay /\ ~NextScan /\ ~NoMoreScans
    BY <1>3 DEF ReadScan, PassStation, Stay, NextScan, NoMoreScans
  <2>2. ~SkipStation /\ ~FillLastScan /\ ~NoMoreStations
    BY <1>3 DEF SkipStation, FillLastScan, NoMoreStations
  <2>3. ~Trim /\ ~TrimBeyond /\ ~EndFill
    BY <1>3 DEF Trim, TrimBeyond, EndFill
  <2> QED
    BY <2>1, <2>2, <2>3 DEF FillStep
<1>6. Step
    BY <1>2 DEF Next
<1> QED
    BY <1>4, <1>5, <1>6 DEF Step, Running, given, GoingOn

\* The record of the loop after a turn, and after a step to the next scan.
LEMMA EndTurnIs ==
    ASSUME Loop, NEW pre \in Befores, NEW c \in Cursors, EndTurn(pre, c)
    PROVE  /\ walk' \in [phase : {"visit", "next", "off"}, first : BOOLEAN, entry : Nat,
                         pre : Befores]
           /\ walk'.phase = "next" /\ ~walk'.first /\ walk'.entry = walk.entry
           /\ walk'.pre = Saved(pre, c) /\ cur' = c
<1> DEFINE new == Saved(pre, c)
<1>1. new \in Befores
    BY SavedIs
<1>2. walk' = [walk EXCEPT !.phase = "next", !.first = FALSE, !.pre = new] /\ cur' = c
    BY DEF EndTurn
<1>3. walk \in [phase : {"visit", "next", "off"}, first : BOOLEAN, entry : Nat, pre : Befores]
    BY DEF Loop
<1> HIDE DEF new
<1>4. /\ walk'.phase = "next" /\ walk'.first = FALSE /\ walk'.entry = walk.entry
      /\ walk'.pre = new
    BY <1>2, <1>3
<1>5. walk' \in [phase : {"visit", "next", "off"}, first : BOOLEAN, entry : Nat, pre : Befores]
    BY <1>1, <1>2, <1>3
<1> QED
    BY <1>2, <1>4, <1>5 DEF new

\* A record put at a place of the schedule.
LEMMA PutAt ==
    ASSUME NEW s \in Seq(Records), \A i \in DOMAIN s : Whole(s[i]),
           NEW p \in DOMAIN s, NEW x, Whole(x)
    PROVE  LET new == [s EXCEPT ![p] = x]
           IN  /\ new \in Seq(Records) /\ Len(new) = Len(s) /\ DOMAIN new = DOMAIN s
               /\ \A i \in DOMAIN s : Whole(new[i]) /\ new[i] = IF i = p THEN x ELSE s[i]
<1> DEFINE new == [s EXCEPT ![p] = x]
<1>1. x \in Records /\ p \in 1..Len(s) /\ DOMAIN s = 1..Len(s)
    BY DEF Whole
<1>2. /\ new \in Seq(Records) /\ Len(new) = Len(s)
      /\ \A k \in 1..Len(s) : new[k] = IF k = p THEN x ELSE s[k]
    BY <1>1, ExceptSeq
<1> HIDE DEF new
<1>3. DOMAIN new = DOMAIN s
    BY <1>1, <1>2
<1>4. \A i \in DOMAIN s : Whole(new[i])
    BY <1>1, <1>2
<1> QED
    BY <1>1, <1>2, <1>3, <1>4 DEF new

\* What Delete does.
LEMMA DeleteIs ==
    ASSUME Loop, Visiting, Delete
    PROVE  LET at == IF ircur = 0 THEN nobs ELSE ircur
           IN  /\ at \in 1..nobs /\ nobs \in Nat
               /\ scans' = RemoveAt(scans, at)
               /\ scans' \in Seq(Records) /\ nobs' = nobs - 1
               /\ DOMAIN scans' = 1..(nobs - 1)
               /\ \A k \in 1..(nobs - 1) :
                     scans'[k] = IF k < at THEN scans[k] ELSE scans[k + 1]
               /\ \A i \in DOMAIN scans' : Whole(scans'[i])
<1> DEFINE at == IF ircur = 0 THEN nobs ELSE ircur
           n == nobs
           new == RemoveAt(scans, at)
<1>1. /\ scans \in Seq(Records) /\ \A i \in DOMAIN scans : Whole(scans[i])
      /\ ircur \in Nat /\ ircur <= n /\ n # 0 /\ n \in Nat /\ n = Len(scans)
      /\ DOMAIN scans = 1..n
    BY DEF Loop, Visiting, nobs
<1>2. scans' = new
    BY DEF Delete
<1> HIDE DEF n
<1>3. at \in 1..n
    BY <1>1 DEF n
<1> HIDE DEF at
<1>4. /\ new \in Seq(Records) /\ Len(new) = n - 1
      /\ \A k \in 1..(n - 1) : new[k] = IF k < at THEN scans[k] ELSE scans[k + 1]
    BY <1>1, <1>3, RemovedIs
<1> HIDE DEF new
<1>5. DOMAIN new = 1..(n - 1)
    BY <1>4
<1>6. ASSUME NEW k \in 1..(n - 1)
      PROVE  Whole(new[k])
  <2>1. n \in Nat
    BY <1>1
  <2>2. k \in 1..n /\ k + 1 \in 1..n
    BY <2>1
  <2> QED
    BY <1>1, <1>4, <2>2
<1>7. nobs' = n - 1
    BY <1>2, <1>4 DEF nobs
<1> QED
    BY <1>1, <1>2, <1>3, <1>4, <1>5, <1>6, <1>7 DEF at, n, new

\* A turn that stores, deletes or does nothing leaves scans, CUR and cursor
\* in their bounds.
LEMMA LoopTurns ==
    ASSUME Loop, GoingOn, busy' = busy, walk.phase = "visit",
           NEW pre \in Befores, NEW c \in Cursors, c.sta # << >> \/ job.cmd = "UNTAG",
           EndTurn(pre, c),
           Staying \/ (Replace(c) /\ Len(c.sta) >= 2) \/ Delete
    PROVE  Loop'
<1>1. /\ job' = job /\ was' = was /\ fill' = fill /\ thin' = thin /\ status = "ok"
    BY DEF GoingOn
<1>2. /\ walk' \in [phase : {"visit", "next", "off"}, first : BOOLEAN, entry : Nat,
                    pre : Befores]
      /\ walk'.phase = "next" /\ walk'.entry = walk.entry /\ cur' = c
    BY EndTurnIs
<1>3. /\ scans \in Seq(Records) /\ \A i \in DOMAIN scans : Whole(scans[i])
      /\ ircur \in Nat /\ nobs = Len(scans) /\ nobs \in Nat /\ walk.entry \in Nat
      /\ DOMAIN scans = 1..nobs /\ Visiting
    BY DEF Loop, nobs
<1>4. ircur <= nobs /\ nobs # 0 /\ walk.entry <= ircur
    BY <1>3 DEF Visiting
<1>5. SUFFICES /\ scans' \in Seq(Records) /\ \A i \in DOMAIN scans' : Whole(scans'[i])
               /\ ircur' \in Nat /\ Between'
               /\ status' = "failed" => walk.entry = 0
  <2>1. job' \in WalkJobs /\ was'.scans \in Schedules /\ fill' = Off /\ thin' = Off
    BY <1>1 DEF Loop
  <2>2. cur' \in Cursors /\ (job'.cmd # "UNTAG" => cur'.sta # << >>)
    BY <1>1, <1>2
  <2>3. busy' <=> walk'.phase # "off"
    BY <1>2 DEF Loop
  <2> QED
    BY <1>2, <2>1, <2>2, <2>3 DEF Loop
<1>6. CASE Staying
  <2>1. scans' = scans /\ ircur' = ircur /\ status' = status
    BY <1>6 DEF Staying, place
  <2>2. Between'
    <3>1. nobs' = nobs
      BY <2>1 DEF nobs
    <3> QED
      BY <1>2, <1>3, <1>4, <2>1, <3>1 DEF Between
  <2> QED
    BY <1>1, <1>3, <2>1, <2>2
<1>7. CASE Replace(c) /\ Len(c.sta) >= 2
  <2>1. /\ ircur' = ircur
        /\ ircur = 0 => scans' = scans
        /\ ircur # 0 => scans' = [scans EXCEPT ![ircur] = Pakup(c)] /\ status' = status
    BY <1>7 DEF Replace, place
  <2>2. Whole(Pakup(c))
    BY <1>7, PakupIs
  <2>3. /\ scans' \in Seq(Records) /\ Len(scans') = Len(scans)
        /\ \A i \in DOMAIN scans' : Whole(scans'[i])
    <3>1. CASE ircur = 0
      BY <1>3, <2>1, <3>1
    <3>2. CASE ircur # 0
      <4>1. ircur \in DOMAIN scans
        BY <1>3, <1>4, <3>2
      <4> DEFINE x == Pakup(c)
                 new == [scans EXCEPT ![ircur] = x]
      <4> HIDE DEF x
      <4>2. new \in Seq(Records) /\ Len(new) = Len(scans) /\ DOMAIN new = DOMAIN scans
            /\ \A i \in DOMAIN scans : Whole(new[i])
        BY <1>3, <2>2, <4>1, PutAt DEF x
      <4>3. scans' = new
        BY <2>1, <3>2 DEF x
      <4> HIDE DEF new
      <4> QED
        BY <4>2, <4>3
    <3> QED
      BY <3>1, <3>2
  <2>4. Between'
    <3>1. nobs' = nobs
      BY <2>3 DEF nobs
    <3> QED
      BY <1>2, <1>3, <1>4, <2>1, <3>1 DEF Between
  <2>5. status' = "failed" => walk.entry = 0
    BY <1>1, <1>3, <1>4, <2>1
  <2> QED
    BY <1>3, <2>1, <2>3, <2>4, <2>5
<1>8. CASE Delete
  <2>1. /\ scans' \in Seq(Records) /\ nobs' = nobs - 1
        /\ \A i \in DOMAIN scans' : Whole(scans'[i])
    BY <1>3, <1>8, DeleteIs
  <2>2. /\ ircur' = IF nobs = 1 THEN 0 ELSE IF ircur > 1 THEN ircur - 1 ELSE ircur
        /\ status' = status
    BY <1>8 DEF Delete
  <2>3. /\ ircur' \in Nat /\ ircur' <= nobs - 1 /\ walk.entry <= ircur' + 1
        /\ ircur' = 0 => nobs = 1 \/ walk.entry = 0
    <3> DEFINE n == nobs
               e == walk.entry
    <3>1. /\ n \in Nat /\ e \in Nat /\ ircur \in Nat /\ ircur <= n /\ n # 0 /\ e <= ircur
          /\ ircur' = IF n = 1 THEN 0 ELSE IF ircur > 1 THEN ircur - 1 ELSE ircur
      BY <1>3, <1>4, <2>2
    <3> HIDE DEF n, e
    <3>2. /\ ircur' \in Nat /\ ircur' <= n - 1 /\ e <= ircur' + 1
          /\ ircur' = 0 => n = 1 \/ e = 0
      BY <3>1
    <3> QED
      BY <3>2 DEF n, e
  <2>4. nobs = 1 => scans' = << >>
    <3>1. nobs' = Len(scans')
      BY DEF nobs
    <3> QED
      BY <2>1, <3>1, EmptySeq
  <2>5. Between'
    BY <1>2, <2>1, <2>3, <2>4 DEF Between
  <2> QED
    BY <1>1, <2>1, <2>2, <2>3, <2>5
<1> QED
    BY <1>6, <1>7, <1>8

-----------------------------------------------------------------------------
(* The scans stay those there were. *)

\* Who has touched scans up to n has touched no others than up to k, too.
LEMMA TracedMore ==
    ASSUME NEW o \in Schedules, NEW s, NEW c \in WalkJobs, NEW n \in Int, NEW k \in Int, n <= k,
           DOMAIN s \subseteq Int, Traced(s, o, c, n)
    PROVE  Traced(s, o, c, k)
<1>1. PICK from \in [DOMAIN s -> DOMAIN o] :
          /\ \A i, j \in DOMAIN s : i < j => from[i] < from[j]
          /\ \A i \in DOMAIN s : IF i <= n THEN Does(c, s[i], o[from[i]])
                                           ELSE s[i] = o[from[i]]
    BY DEF Traced
<1>2. \A i \in DOMAIN s : IF i <= k THEN Does(c, s[i], o[from[i]]) ELSE s[i] = o[from[i]]
  <2> SUFFICES ASSUME NEW i \in DOMAIN s
               PROVE  IF i <= k THEN Does(c, s[i], o[from[i]]) ELSE s[i] = o[from[i]]
    OBVIOUS
  <2>1. o[from[i]] \in Records
    BY ScheduleIsWhole DEF Whole
  <2>2. Does(c, o[from[i]], o[from[i]])
    BY <2>1, DoesNothing
  <2>3. i <= n => i <= k
    OBVIOUS
  <2> QED
    BY <1>1, <2>2, <2>3
<1>3. c.cmd \notin {"REMOVE", "UNTAG"} => Len(s) = Len(o)
    BY DEF Traced
<1> QED
    BY <1>1, <1>2, <1>3 DEF Traced

\* A scan put back as asked takes its own place.
LEMMA TracedPut ==
    ASSUME NEW o \in Schedules, NEW s \in Seq(Records), NEW c, NEW p \in DOMAIN s,
           Traced(s, o, c, p - 1), NEW t, Len(t) = Len(s), DOMAIN t = DOMAIN s,
           \A i \in DOMAIN s : i # p => t[i] = s[i], Does(c, t[p], s[p])
    PROVE  Traced(t, o, c, p)
<1>1. PICK from \in [DOMAIN s -> DOMAIN o] :
          /\ \A i, j \in DOMAIN s : i < j => from[i] < from[j]
          /\ \A i \in DOMAIN s : IF i <= p - 1 THEN Does(c, s[i], o[from[i]])
                                               ELSE s[i] = o[from[i]]
    BY DEF Traced
<1>2. \A i \in DOMAIN s : IF i <= p THEN Does(c, t[i], o[from[i]]) ELSE t[i] = o[from[i]]
  <2> SUFFICES ASSUME NEW i \in DOMAIN s
               PROVE  IF i <= p THEN Does(c, t[i], o[from[i]]) ELSE t[i] = o[from[i]]
    OBVIOUS
  <2>1. i \in Nat /\ p \in Nat
    OBVIOUS
  <2>2. CASE i = p
    <3>1. ~(i <= p - 1) /\ i <= p
      BY <2>1, <2>2
    <3>2. s[p] = o[from[p]]
      BY <1>1, <2>2, <3>1
    <3> QED
      BY <2>2, <3>1, <3>2
  <2>3. CASE i # p
    <3>1. i <= p <=> i <= p - 1
      BY <2>1, <2>3
    <3>2. t[i] = s[i]
      BY <2>3
    <3> QED
      BY <1>1, <3>1, <3>2
  <2> QED
    BY <2>2, <2>3
<1>3. c.cmd \notin {"REMOVE", "UNTAG"} => Len(s) = Len(o)
    BY DEF Traced
<1> QED
    BY <1>1, <1>2, <1>3 DEF Traced

\* Of n scans that at p is taken out.
WithoutPlace(t, s, p, n) ==
    /\ DOMAIN t = 1..(n - 1)
    /\ \A k \in 1..(n - 1) : t[k] = IF k < p THEN s[k] ELSE s[k + 1]

\* After a deletion the others are still those there were, in their order.
LEMMA TracedOff ==
    ASSUME NEW o \in Schedules, NEW s, NEW c, c.cmd \in {"REMOVE", "UNTAG"},
           NEW n \in Nat, DOMAIN s = 1..n, NEW p \in 1..n,
           NEW b, b = p - 1, Traced(s, o, c, b), NEW t, WithoutPlace(t, s, p, n)
    PROVE  Traced(t, o, c, b)
<1>1. PICK from \in [1..n -> DOMAIN o] :
          /\ \A i, j \in 1..n : i < j => from[i] < from[j]
          /\ \A i \in 1..n : IF i <= b THEN Does(c, s[i], o[from[i]])
                                           ELSE s[i] = o[from[i]]
    BY DEF Traced
<1> DEFINE old(k) == IF k < p THEN k ELSE k + 1
           new == [k \in 1..(n - 1) |-> from[old(k)]]
<1>2. ASSUME NEW k \in 1..(n - 1)
      PROVE  /\ old(k) \in 1..n /\ t[k] = s[old(k)]
             /\ old(k) <= b <=> k <= b
    BY DEF WithoutPlace
<1>3. \A i, j \in 1..(n - 1) : i < j => old(i) < old(j)
    OBVIOUS
<1> HIDE DEF old
<1>4. new \in [1..(n - 1) -> DOMAIN o] /\ \A k \in 1..(n - 1) : new[k] = from[old(k)]
    BY <1>1, <1>2
<1> HIDE DEF new
<1>5. \A i, j \in 1..(n - 1) : i < j => new[i] < new[j]
    BY <1>1, <1>2, <1>3, <1>4
<1>6. ASSUME NEW k \in 1..(n - 1)
      PROVE  IF k <= b THEN Does(c, t[k], o[new[k]]) ELSE t[k] = o[new[k]]
  <2>1. IF old(k) <= b THEN Does(c, s[old(k)], o[from[old(k)]])
                           ELSE s[old(k)] = o[from[old(k)]]
    BY <1>1, <1>2
  <2> QED
    BY <1>2, <1>4, <2>1
<1> QED
    BY <1>4, <1>5, <1>6 DEF Traced, WithoutPlace

\* What a turn may do to the scan at the cursor.
LEMMA TurnFollows ==
    ASSUME Loop, Synced, Following, GoingOn, walk.phase = "visit",
           NEW pre \in Befores, NEW c \in Cursors, EndTurn(pre, c),
           \/ Staying
           \/ /\ Replace(c) /\ Len(c.sta) >= 2 /\ job.cmd # "SHIFT"
              /\ Does(job, Pakup(c), scans[ircur])
           \/ Delete /\ job.cmd \in {"REMOVE", "UNTAG"}
    PROVE  Following'
<1> DEFINE o == was.scans
<1>1. /\ o \in Schedules /\ job \in WalkJobs /\ scans \in Seq(Records)
      /\ \A i \in DOMAIN scans : Whole(scans[i])
      /\ ircur \in Nat /\ nobs = Len(scans) /\ nobs \in Nat
      /\ DOMAIN scans = 1..nobs /\ Visiting /\ walk.entry \in Nat
    BY DEF Loop, nobs
<1>2. ircur \in 1..nobs
    BY <1>1 DEF Visiting, Synced
<1>3. Traced(scans, o, job, IF job.cmd = "SHIFT" THEN ircur ELSE ircur - 1)
    BY DEF Following, Touched
<1>4. walk'.phase = "next" /\ cur' = c /\ job' = job /\ was' = was
    BY EndTurnIs DEF GoingOn
<1>5. Touched' = ircur'
    BY <1>4 DEF Touched
<1>6. SUFFICES Traced(scans', o, job, ircur')
    BY <1>4, <1>5 DEF Following
<1>7. CASE Staying
  <2>1. scans' = scans /\ ircur' = ircur
    BY <1>7 DEF Staying, place
  <2>2. CASE job.cmd = "SHIFT"
    BY <1>3, <2>1, <2>2
  <2>3. CASE job.cmd # "SHIFT"
    <3>1. Traced(scans, o, job, ircur - 1) /\ DOMAIN scans \subseteq Int
      BY <1>1, <1>3, <2>3
    <3>2. ircur - 1 \in Int /\ ircur \in Int /\ ircur - 1 <= ircur
      BY <1>1
    <3>3. Traced(scans, o, job, ircur)
      BY <1>1, <3>1, <3>2, TracedMore
    <3> QED
      BY <2>1, <3>3
  <2> QED
    BY <2>2, <2>3
<1>8. CASE Replace(c) /\ Len(c.sta) >= 2 /\ job.cmd # "SHIFT" /\ Does(job, Pakup(c), scans[ircur])
  <2> DEFINE x == Pakup(c)
             new == [scans EXCEPT ![ircur] = x]
  <2>1. scans' = new /\ ircur' = ircur
    BY <1>2, <1>8 DEF Replace, place
  <2>2. Whole(x)
    BY <1>8, PakupIs
  <2>3. Traced(scans, o, job, ircur - 1)
    BY <1>3, <1>8
  <2>4. Does(job, x, scans[ircur])
    BY <1>8
  <2> HIDE DEF x
  <2>5. /\ Len(new) = Len(scans) /\ DOMAIN new = DOMAIN scans
        /\ \A i \in DOMAIN scans : new[i] = IF i = ircur THEN x ELSE scans[i]
    BY <1>1, <1>2, <2>2, PutAt
  <2> HIDE DEF new
  <2>6. ircur \in DOMAIN scans
    BY <1>1, <1>2
  <2>7. Does(job, new[ircur], scans[ircur]) /\ \A i \in DOMAIN scans : i # ircur => new[i] = scans[i]
    BY <2>4, <2>5, <2>6
  <2>8. Traced(new, o, job, ircur)
    BY <1>1, <2>3, <2>5, <2>6, <2>7, TracedPut
  <2> QED
    BY <2>1, <2>8
<1>9. CASE Delete /\ job.cmd \in {"REMOVE", "UNTAG"}
  <2>1. /\ DOMAIN scans' = 1..(nobs - 1)
        /\ \A k \in 1..(nobs - 1) :
              scans'[k] = IF k < ircur THEN scans[k] ELSE scans[k + 1]
    BY <1>1, <1>2, <1>9, DeleteIs
  <2>2. Traced(scans, o, job, ircur - 1)
    BY <1>3, <1>9
  <2> DEFINE t == scans'
             n == nobs
  <2>3. /\ n \in Nat /\ ircur \in 1..n /\ DOMAIN scans = 1..n /\ DOMAIN t = 1..(n - 1)
        /\ \A k \in 1..(n - 1) : t[k] = IF k < ircur THEN scans[k] ELSE scans[k + 1]
    BY <1>1, <1>2, <2>1
  <2>4. ircur' = IF n = 1 THEN 0 ELSE IF ircur > 1 THEN ircur - 1 ELSE ircur
    BY <1>9 DEF Delete
  <2> HIDE DEF t, n
  <2>5. Traced(t, o, job, ircur - 1)
    <3>1. o \in Schedules /\ job.cmd \in {"REMOVE", "UNTAG"}
      BY <1>1, <1>9
    <3> DEFINE b == ircur - 1
    <3>2. b = ircur - 1 /\ Traced(scans, o, job, b)
      BY <2>2
    <3> HIDE DEF o, b
    <3>3. WithoutPlace(t, scans, ircur, n)
      BY <2>3 DEF WithoutPlace
    <3>4. Traced(t, o, job, b)
      BY <2>3, <3>1, <3>2, <3>3, TracedOff
    <3> QED
      BY <3>2, <3>4
  <2>6. ircur - 1 \in Int /\ ircur' \in Int /\ ircur - 1 <= ircur' /\ DOMAIN t \subseteq Int
    BY <2>3, <2>4
  <2> DEFINE to == ircur'
  <2>7. to \in Int /\ ircur - 1 <= to
    BY <2>6
  <2> HIDE DEF to
  <2>8. Traced(t, o, job, to)
    BY <1>1, <2>5, <2>6, <2>7, TracedMore
  <2> QED
    BY <2>8 DEF t, to
<1> QED
    BY <1>7, <1>8, <1>9

\* SHIFT moves those it knows to when all are ready.
LEMMA ShiftedIs ==
    ASSUME walk.pre \in Befores, NEW c \in Cursors, Len(c.sta) >= 2
    PROVE  /\ Shifted(c) \in Cursors /\ Shifted(c).sta = c.sta
           /\ Shifted(c).src = c.src /\ Shifted(c).dur = c.dur
           /\ Latest(c) \in Nat
           /\ \A m \in ToSet(c.sta) : ReadyAt(m, walk.pre, c) <= Latest(c)
           /\ \A m \in Stations : Shifted(c).t[m] = IF m \in Moves(c) THEN Latest(c) ELSE c.t[m]
<1> DEFINE in == ToSet(c.sta)
           f == [m \in in |-> ReadyAt(m, walk.pre, c)]
           all == {ReadyAt(m, walk.pre, c) : m \in in}
           t == [m \in Stations |-> IF m \in Moves(c) THEN Latest(c) ELSE c.t[m]]
<1>1. /\ walk.pre.t \in [Stations -> Nat] /\ walk.pre.dur \in [Stations -> Nat]
      /\ c.t \in [Stations -> Nat]
    BY DEF Befores, Cursors
<1>2. in \in SUBSET Stations /\ Head(c.sta) \in in
    BY PakupIs
<1>3. ASSUME NEW m \in in
      PROVE  ReadyAt(m, walk.pre, c) \in Nat
  <2>1. PICK k \in Nat : \A a, d : Ready(a, d, walk.pre.src[m], Source(c)) = a + d + k
    BY ReadyIs
  <2>2. m \in Stations
    BY <1>2
  <2>3. walk.pre.t[m] \in Nat /\ walk.pre.dur[m] \in Nat
    BY <1>1, <2>2
  <2>4. ReadyAt(m, walk.pre, c) = walk.pre.t[m] + walk.pre.dur[m] + k
    BY <2>1 DEF ReadyAt
  <2> QED
    BY <2>3, <2>4
<1>4. IsFiniteSet(all) /\ all \in SUBSET Nat /\ all # {}
  <2>1. all \in SUBSET Nat /\ all # {}
    BY <1>2, <1>3
  <2>2. IsFiniteSet(in)
    <3>1. NStatn \in Nat
      BY TableAssumption
    <3>2. IsFiniteSet(1..NStatn)
      BY <3>1, FS_Interval
    <3> HIDE DEF in
    <3> QED
      BY <1>2, <3>2, FS_Subset DEF Stations
  <2>3. f \in Surjection(in, all)
    <3>1. f \in [in -> all]
      OBVIOUS
    <3>2. \A x \in all : \E m \in in : f[m] = x
      OBVIOUS
    <3> HIDE DEF f, all
    <3> QED
      BY <3>1, <3>2 DEF Surjection
  <2> HIDE DEF f, all, in
  <2>4. IsFiniteSet(all)
    BY <2>2, <2>3, FS_Surjection
  <2> QED
    BY <2>1, <2>4
<1>5. Latest(c) = Max(all)
    BY DEF Latest
<1>6. Max(all) \in all /\ \A x \in all : x <= Max(all)
  <2> HIDE DEF all
  <2> QED
    BY <1>4, MaxFinite
<1>7. Latest(c) \in Nat /\ \A m \in in : ReadyAt(m, walk.pre, c) <= Latest(c)
  <2>1. \A m \in in : ReadyAt(m, walk.pre, c) \in all
    OBVIOUS
  <2> HIDE DEF all, in
  <2> QED
    BY <1>4, <1>5, <1>6, <2>1
<1>8. t \in [Stations -> Nat]
    BY <1>1, <1>7
<1>9. Shifted(c) = [c EXCEPT !.t = t]
    BY DEF Shifted
<1>10. \A m \in Stations : t[m] = IF m \in Moves(c) THEN Latest(c) ELSE c.t[m]
    OBVIOUS
<1> HIDE DEF t
<1>11. Shifted(c) \in Cursors /\ Shifted(c).t = t /\ Shifted(c).sta = c.sta
       /\ Shifted(c).src = c.src /\ Shifted(c).dur = c.dur
    BY <1>8, <1>9 DEF Cursors
<1> QED
    BY <1>7, <1>10, <1>11

\* The step to the next scan.
LEMMA NextIs ==
    ASSUME Loop, GetNext
    PROVE  LET p == ircur + 1
               c == Unpak(cur, scans[p])
           IN  /\ walk.phase = "next" /\ p \in DOMAIN scans /\ ircur' = p /\ status' = status
               /\ walk'.phase = "visit" /\ walk'.first = walk.first
               /\ walk'.entry = walk.entry /\ walk'.pre = walk.pre
               /\ walk' \in [phase : {"visit", "next", "off"}, first : BOOLEAN, entry : Nat,
                             pre : Befores]
               /\ c \in Cursors /\ Holds(c, scans[p]) /\ Len(c.sta) >= 2
               /\ \/ /\ job.cmd = "SHIFT" /\ Moves(c) # {} /\ cur' = Shifted(c)
                     /\ scans' = [scans EXCEPT ![p] = Pakup(Shifted(c))]
                  \/ /\ job.cmd = "SHIFT" => Moves(c) = {} \/ ~job.clear
                     /\ cur' = c /\ scans' = scans
<1> DEFINE p == ircur + 1
           c == Unpak(cur, scans[p])
<1>1. walk.phase = "next" /\ ~Lost /\ ~NoNext /\ NextScanOf(c)
    BY DEF GetNext
<1>2. p \in DOMAIN scans
  <2>1. ircur \in Nat /\ DOMAIN scans = 1..nobs /\ nobs \in Nat /\ ~(ircur >= nobs)
    BY <1>1 DEF Loop, NoNext, nobs
  <2> QED
    BY <2>1
<1>3. /\ scans[p] \in Records /\ Len(scans[p].sta) >= 2 /\ cur \in Cursors
      /\ walk \in [phase : {"visit", "next", "off"}, first : BOOLEAN, entry : Nat, pre : Befores]
    BY <1>2 DEF Loop, Whole
<1>4. c \in Cursors /\ Holds(c, scans[p])
    BY <1>3, UnpakIs
<1>5. Len(c.sta) >= 2
    BY <1>3, <1>4 DEF Holds
<1> HIDE DEF c
<1>6. /\ ircur' = p /\ status' = status /\ walk' = [walk EXCEPT !.phase = "visit"]
      /\ \/ /\ job.cmd = "SHIFT" /\ Moves(c) # {} /\ cur' = Shifted(c)
            /\ scans' = [scans EXCEPT ![p] = Pakup(Shifted(c))]
         \/ /\ job.cmd = "SHIFT" => Moves(c) = {} \/ ~job.clear
            /\ cur' = c /\ scans' = scans
    BY <1>1 DEF NextScanOf, NextPlace
<1>7. /\ walk'.phase = "visit" /\ walk'.first = walk.first
      /\ walk'.entry = walk.entry /\ walk'.pre = walk.pre
      /\ walk' \in [phase : {"visit", "next", "off"}, first : BOOLEAN, entry : Nat,
                    pre : Befores]
    BY <1>3, <1>6
<1> QED
    BY <1>1, <1>2, <1>4, <1>5, <1>6, <1>7 DEF c

\* What becomes of the scan that SHIFT moves.
LEMMA ShiftedScan ==
    ASSUME walk.pre \in Befores, NEW x, Whole(x), NEW c \in Cursors, Holds(c, x)
    PROVE  LET y == Pakup(Shifted(c))
           IN  /\ Whole(y) /\ Shifted(c) \in Cursors /\ Len(Shifted(c).sta) >= 2
               /\ y.sta = x.sta /\ y.src = x.src /\ y.dur = x.dur
               /\ y.t = Shifted(c).t[Head(x.sta)]
               /\ [y EXCEPT !.t = x.t] = x
<1> DEFINE h == Shifted(c)
           y == Pakup(h)
<1>1. Len(c.sta) >= 2 /\ c.sta = x.sta /\ Pakup(c) = x
    BY HeldIs DEF Whole
<1>2. h \in Cursors /\ h.sta = c.sta /\ h.src = c.src /\ h.dur = c.dur
    BY <1>1, ShiftedIs
<1> HIDE DEF h
<1>3. /\ Whole(y) /\ y.sta = h.sta /\ y.t = Instant(h)
    BY <1>1, <1>2, PakupIs
<1>4. y.src = Pakup(c).src /\ y.dur = Pakup(c).dur
    BY <1>2 DEF Pakup
<1>5. y.t = h.t[Head(x.sta)]
    BY <1>1, <1>2, <1>3 DEF Instant
<1>6. x \in Records /\ y \in Records
    BY <1>3 DEF Whole
<1> HIDE DEF y
<1>7. [y EXCEPT !.t = x.t] = x
    BY <1>1, <1>2, <1>3, <1>4, <1>6 DEF Records
<1> QED
    BY <1>1, <1>2, <1>3, <1>4, <1>5, <1>7 DEF h, y

\* Reading the next scan keeps the loop in its bounds.
LEMMA LoopNext ==
    ASSUME Loop, GoingOn, busy' = busy, GetNext
    PROVE  Loop'
<1> DEFINE p == ircur + 1
           c == Unpak(cur, scans[p])
<1>1. /\ p \in DOMAIN scans /\ ircur' = p /\ status' = status
      /\ walk'.phase = "visit" /\ walk'.entry = walk.entry
      /\ walk' \in [phase : {"visit", "next", "off"}, first : BOOLEAN, entry : Nat,
                    pre : Befores]
      /\ c \in Cursors /\ Holds(c, scans[p]) /\ Len(c.sta) >= 2 /\ walk.phase = "next"
      /\ \/ /\ job.cmd = "SHIFT" /\ Moves(c) # {} /\ cur' = Shifted(c)
            /\ scans' = [scans EXCEPT ![p] = Pakup(Shifted(c))]
         \/ cur' = c /\ scans' = scans
    BY NextIs
<1> HIDE DEF c
<1>2. /\ scans \in Seq(Records) /\ \A i \in DOMAIN scans : Whole(scans[i])
      /\ ircur \in Nat /\ walk.pre \in Befores /\ walk.entry \in Nat /\ Between
      /\ DOMAIN scans = 1..nobs /\ nobs \in Nat
    BY <1>1 DEF Loop, nobs
<1>3. /\ scans' \in Seq(Records) /\ nobs' = nobs
      /\ \A i \in DOMAIN scans' : Whole(scans'[i])
      /\ cur' \in Cursors /\ Len(cur'.sta) >= 2
  <2>1. CASE cur' = c /\ scans' = scans
    BY <1>1, <1>2, <2>1 DEF nobs
  <2>2. CASE cur' = Shifted(c) /\ scans' = [scans EXCEPT ![p] = Pakup(Shifted(c))]
    <3> DEFINE y == Pakup(Shifted(c))
               new == [scans EXCEPT ![p] = y]
    <3>1. Whole(y) /\ Shifted(c) \in Cursors /\ Len(Shifted(c).sta) >= 2
      <4>1. Whole(scans[p])
        BY <1>1, <1>2
      <4> QED
        BY <1>1, <1>2, <4>1, ShiftedScan
    <3> HIDE DEF y
    <3>2. new \in Seq(Records) /\ Len(new) = Len(scans) /\ DOMAIN new = DOMAIN scans
          /\ \A i \in DOMAIN scans : Whole(new[i])
      BY <1>1, <1>2, <3>1, PutAt
    <3>3. scans' = new
      BY <2>2 DEF y
    <3> HIDE DEF new
    <3> QED
      BY <2>2, <3>1, <3>2, <3>3 DEF nobs
  <2> QED
    BY <1>1, <2>1, <2>2
<1>4. Visiting'
  <2>1. p <= nobs /\ nobs # 0 /\ walk.entry <= p
    BY <1>1, <1>2 DEF Between
  <2> QED
    BY <1>1, <1>3, <2>1 DEF Visiting
<1>5. cur'.sta # << >>
  <2>1. cur'.sta \in Seq(Stations)
    BY <1>3 DEF Cursors
  <2> QED
    BY <1>3, <2>1
<1>6. p \in Nat /\ status' # "failed"
    BY <1>1, <1>2 DEF GoingOn
<1>7. job' \in WalkJobs /\ was'.scans \in Schedules /\ fill' = Off /\ thin' = Off
    BY DEF Loop, GoingOn
<1>8. busy' <=> walk'.phase # "off"
    BY <1>1 DEF Loop
<1> QED
    BY <1>1, <1>3, <1>4, <1>5, <1>6, <1>7, <1>8 DEF Loop

\* Reading the next scan puts it in CUR; if SHIFT moves it, nothing but its
\* time changes.
LEMMA NextFollows ==
    ASSUME Loop, Synced, Following, GoingOn, GetNext
    PROVE  Following'
<1> DEFINE p == ircur + 1
           c == Unpak(cur, scans[p])
           o == was.scans
<1>1. /\ p \in DOMAIN scans /\ ircur' = p
      /\ walk.phase = "next" /\ walk'.phase = "visit"
      /\ c \in Cursors /\ Holds(c, scans[p]) /\ Len(c.sta) >= 2
      /\ \/ /\ job.cmd = "SHIFT" /\ Moves(c) # {} /\ cur' = Shifted(c)
            /\ scans' = [scans EXCEPT ![p] = Pakup(Shifted(c))]
         \/ cur' = c /\ scans' = scans
    BY NextIs
<1> HIDE DEF c
<1>2. /\ o \in Schedules /\ job \in WalkJobs /\ scans \in Seq(Records)
      /\ \A i \in DOMAIN scans : Whole(scans[i])
      /\ ircur \in Nat /\ walk.pre \in Befores
      /\ DOMAIN scans = 1..nobs /\ nobs \in Nat
    BY DEF Loop, nobs
<1>3. job' = job /\ was' = was
    BY DEF GoingOn
<1>4. Traced(scans, o, job, p - 1)
  <2>1. p - 1 = ircur
    BY <1>2
  <2> HIDE DEF p
  <2> QED
    BY <1>1, <2>1 DEF Following, Touched
<1>5. Touched' = IF job.cmd = "SHIFT" THEN p ELSE p - 1
    BY <1>1, <1>3 DEF Touched
<1>6. CASE cur' = c /\ scans' = scans
  <2>1. Traced(scans, o, job, p)
    <3>1. p - 1 \in Int /\ p \in Int /\ p - 1 <= p /\ DOMAIN scans \subseteq Int
      BY <1>1, <1>2
    <3> HIDE DEF p
    <3> DEFINE b == p - 1
    <3>2. b \in Int /\ b <= p /\ Traced(scans, o, job, b)
      BY <1>4, <3>1
    <3> HIDE DEF b, o
    <3> QED
      BY <1>2, <3>1, <3>2, TracedMore
  <2>2. Traced(scans', was'.scans, job', Touched')
    BY <1>3, <1>4, <1>5, <1>6, <2>1
  <2> QED
    BY <1>1, <1>3, <1>6, <2>2 DEF Following
<1>7. CASE job.cmd = "SHIFT" /\ cur' = Shifted(c)
           /\ scans' = [scans EXCEPT ![p] = Pakup(Shifted(c))]
  <2> DEFINE y == Pakup(Shifted(c))
             new == [scans EXCEPT ![p] = y]
  <2>1. Whole(y) /\ [y EXCEPT !.t = scans[p].t] = scans[p]
    <3>1. Whole(scans[p])
      BY <1>1, <1>2
    <3> QED
      BY <1>1, <1>2, <3>1, ShiftedScan
  <2>2. Does(job, y, scans[p])
    BY <1>7, <2>1 DEF Does
  <2> HIDE DEF y, p
  <2>3. Len(new) = Len(scans) /\ DOMAIN new = DOMAIN scans
        /\ \A i \in DOMAIN scans : new[i] = IF i = p THEN y ELSE scans[i]
    BY <1>1, <1>2, <2>1, PutAt
  <2>4. scans' = new
    BY <1>7 DEF y
  <2> HIDE DEF new
  <2>5. Does(job, new[p], scans[p]) /\ \A i \in DOMAIN scans : i # p => new[i] = scans[i]
    BY <1>1, <2>2, <2>3
  <2>6. Traced(new, o, job, p)
    BY <1>1, <1>2, <1>4, <2>3, <2>5, TracedPut
  <2>7. Traced(scans', was'.scans, job', Touched')
    BY <1>3, <1>5, <1>7, <2>4, <2>6
  <2> QED
    BY <1>3, <1>7, <2>7 DEF Following
<1> QED
    BY <1>1, <1>6, <1>7

\* The end of the loop.
LEMMA LoopEnds ==
    ASSUME Loop, GoingOn, EndWalk
    PROVE  /\ Loop' /\ walk'.phase = "off" /\ walk'.entry = walk.entry /\ walk'.pre = walk.pre
           /\ walk.phase = "next" /\ scans' = scans
           /\ ircur' = ircur \/ irecgo' = 1
<1>1. /\ walk.phase = "next" /\ walk' = [walk EXCEPT !.phase = "off"] /\ busy' = FALSE
      /\ scans' = scans /\ cur' = cur
      /\ \/ ~Lost /\ ircur' = ircur /\ status' = status
         \/ Lost /\ ircur' = MaxObs /\ irecgo' = 1
    BY DEF EndWalk, NoNext, place
<1>2. /\ walk \in [phase : {"visit", "next", "off"}, first : BOOLEAN, entry : Nat, pre : Befores]
      /\ scans \in Seq(Records) /\ ircur \in Nat /\ DOMAIN scans = 1..nobs /\ nobs \in Nat
      /\ Between /\ (job.cmd # "UNTAG" => cur.sta # << >>)
    BY <1>1 DEF Loop, nobs
<1>3. /\ walk' \in [phase : {"visit", "next", "off"}, first : BOOLEAN, entry : Nat, pre : Befores]
      /\ walk'.phase = "off" /\ walk'.entry = walk.entry /\ walk'.pre = walk.pre
    BY <1>1, <1>2
<1>4. /\ job' = job /\ was' = was /\ fill' = fill /\ thin' = thin /\ status = "ok"
    BY DEF GoingOn
<1>5. CASE ~Lost /\ ircur' = ircur /\ status' = status
  <2>1. Over'
    <3>1. ircur <= nobs /\ (ircur = 0 => scans = << >> \/ walk.entry = 0)
      BY <1>2 DEF Between
    <3>2. ircur # 0 => ircur \in DOMAIN scans
      BY <1>2, <3>1
    <3> QED
      BY <1>1, <1>3, <1>5, <3>1, <3>2 DEF Over
  <2>2. Loop'
    BY <1>1, <1>3, <1>4, <1>5, <2>1 DEF Loop
  <2> QED
    BY <1>1, <1>3, <1>5, <2>2
<1>6. CASE Lost /\ ircur' = MaxObs /\ irecgo' = 1
  <2>1. cur.sta = << >> /\ job.cmd = "UNTAG" /\ ircur' \in Nat
    BY <1>2, <1>6, WalkAssumption DEF Lost
  <2>2. Over'
    BY <1>4, <1>6, <2>1 DEF Over
  <2>3. Loop'
    BY <1>1, <1>3, <1>4, <1>6, <2>1, <2>2 DEF Loop
  <2> QED
    BY <1>1, <1>3, <1>6, <2>3
<1> QED
    BY <1>1, <1>5, <1>6

\* When the loop ends, what is behind the cursor counts as done: it was to
\* stay.
LEMMA EndFollows ==
    ASSUME Loop, Synced, Following, GoingOn, EndWalk
    PROVE  Following'
<1> DEFINE o == was.scans
<1>1. walk'.phase = "off" /\ walk.phase = "next" /\ scans' = scans
    BY LoopEnds
<1>2. /\ o \in Schedules /\ job \in WalkJobs /\ ircur \in Nat /\ ircur <= nobs
      /\ DOMAIN scans = 1..nobs /\ nobs \in Nat
    BY <1>1 DEF Loop, nobs, Between
<1>3. job' = job /\ was' = was
    BY DEF GoingOn
<1>4. Traced(scans, o, job, ircur)
    BY <1>1 DEF Following, Touched
<1>5. Traced(scans, o, job, nobs)
  <2>1. ircur \in Int /\ nobs \in Int /\ DOMAIN scans \subseteq Int
    BY <1>2
  <2> DEFINE n == nobs
  <2>2. n \in Int /\ ircur <= n
    BY <1>2
  <2> HIDE DEF n, o
  <2>3. Traced(scans, o, job, n)
    BY <1>2, <1>4, <2>1, <2>2, TracedMore
  <2> QED
    BY <2>3 DEF n
<1>6. Touched' = nobs
    BY <1>1 DEF Touched, nobs
<1> QED
    BY <1>1, <1>3, <1>5, <1>6 DEF Following

-----------------------------------------------------------------------------
(* What the commands make of the scan in CUR. *)

\* TAGALONG forgets where its station was only if that is long ago.
LEMMA ForgottenIs ==
    ASSUME walk.pre \in Befores, NEW m \in Stations
    PROVE  /\ Forgotten(m) \in Befores
           /\ Forgotten(m).t = walk.pre.t /\ Forgotten(m).dur = walk.pre.dur
           /\ \A k \in Stations : Forgotten(m).src[k] =
                 IF k = m /\ Instant(cur) - walk.pre.t[m] > Forget THEN NoSource
                 ELSE walk.pre.src[k]
<1> DEFINE src == [walk.pre.src EXCEPT ![m] = NoSource]
<1>1. /\ walk.pre.src \in [Stations -> AnySource]
    BY DEF Befores
<1>2. /\ src \in [Stations -> AnySource]
      /\ \A k \in Stations : src[k] = IF k = m THEN NoSource ELSE walk.pre.src[k]
    BY <1>1 DEF AnySource
<1>3. Forgotten(m) = IF Instant(cur) - walk.pre.t[m] > Forget
                       THEN [walk.pre EXCEPT !.src = src] ELSE walk.pre
    BY DEF Forgotten
<1> HIDE DEF src
<1>4. CASE Instant(cur) - walk.pre.t[m] > Forget
  <2>1. Forgotten(m) = [walk.pre EXCEPT !.src = src]
    BY <1>3, <1>4
  <2> QED
    BY <1>2, <1>4, <2>1 DEF Befores
<1>5. CASE ~(Instant(cur) - walk.pre.t[m] > Forget)
    BY <1>3, <1>5
<1> QED
    BY <1>4, <1>5

\* The station m comes to the scan.
WithOneMore(c, m) ==
    /\ c \in Cursors /\ c.sta = Append(cur.sta, m)
    /\ \A k \in Stations \ {m} :
          c.t[k] = cur.t[k] /\ c.src[k] = cur.src[k] /\ c.dur[k] = cur.dur[k]

\* TAGALONG and ADD give CUR one station more; TAGALONG gives it the time of
\* the scan.
LEMMA JoinedIs ==
    ASSUME cur \in Cursors, Len(cur.sta) >= 2, NEW m \in Stations, NEW long \in Nat
    PROVE  /\ WithOneMore(Joined(m, long), m) /\ WithOneMore(Timed(m, Joined(m, long)), m)
           /\ Timed(m, Joined(m, long)).t[m] = Instant(cur)
           /\ Timed(m, Joined(m, long)).dur[m] = long
           /\ Timed(m, Joined(m, long)).src[m] = Source(cur)
<1> DEFINE sta == Append(cur.sta, m)
           dur == [cur.dur EXCEPT ![m] = long]
           src == [cur.src EXCEPT ![m] = Source(cur)]
           t == [cur.t EXCEPT ![m] = Instant(cur)]
           c == Joined(m, long)
<1>1. /\ cur.sta \in Seq(Stations) /\ cur.t \in [Stations -> Nat]
      /\ cur.src \in [Stations -> AnySource] /\ cur.dur \in [Stations -> Nat]
    BY DEF Cursors
<1>2. Instant(cur) \in Nat /\ Source(cur) \in AnySource
    BY PakupIs
<1>3. /\ sta \in Seq(Stations) /\ dur \in [Stations -> Nat] /\ src \in [Stations -> AnySource]
      /\ t \in [Stations -> Nat]
      /\ \A k \in Stations \ {m} :
            t[k] = cur.t[k] /\ src[k] = cur.src[k] /\ dur[k] = cur.dur[k]
      /\ t[m] = Instant(cur) /\ src[m] = Source(cur) /\ dur[m] = long
    BY <1>1, <1>2
<1>4. c = [cur EXCEPT !.sta = sta, !.dur = dur, !.src = src]
    BY DEF Joined
<1> HIDE DEF sta, dur, src
<1>5. c \in Cursors /\ c.sta = sta /\ c.dur = dur /\ c.src = src /\ c.t = cur.t
    BY <1>3, <1>4 DEF Cursors
<1> HIDE DEF c
<1>6. Timed(m, c) = [c EXCEPT !.t = t]
    BY <1>5 DEF Timed
<1> HIDE DEF t
<1>7. /\ Timed(m, c) \in Cursors /\ Timed(m, c).sta = sta /\ Timed(m, c).dur = dur
      /\ Timed(m, c).src = src /\ Timed(m, c).t = t
    BY <1>3, <1>5, <1>6 DEF Cursors
<1>8. WithOneMore(c, m)
    BY <1>3, <1>5 DEF WithOneMore, sta
<1>9. WithOneMore(Timed(m, c), m)
    BY <1>3, <1>7 DEF WithOneMore, sta
<1> QED
    BY <1>3, <1>7, <1>8, <1>9 DEF c

\* What they store is the scan with that station.
LEMMA OneMoreIs ==
    ASSUME cur \in Cursors, NEW x, Whole(x), Holds(cur, x),
           NEW m \in Stations, m \notin ToSet(cur.sta), NEW c, WithOneMore(c, m)
    PROVE  /\ Len(c.sta) >= 2 /\ ToSet(c.sta) = ToSet(cur.sta) \cup {m}
           /\ Pakup(c).t = x.t /\ Pakup(c).src = x.src
           /\ SameBut({m}, Pakup(c), x) /\ Len(Pakup(c).sta) >= Len(x.sta)
<1>1. /\ x \in Records /\ Len(x.sta) >= 2 /\ x.sta \in Seq(Stations) /\ x.dur \in [Stations -> Nat]
      /\ \A k \in Stations : k \notin ToSet(x.sta) => x.dur[k] = 0
    BY DEF Whole, Records
<1>2. /\ cur.sta = x.sta /\ Instant(cur) = x.t /\ Source(cur) = x.src
      /\ Head(x.sta) \in ToSet(x.sta) /\ ToSet(x.sta) \subseteq Stations
      /\ \A k \in ToSet(x.sta) : cur.dur[k] = x.dur[k]
  <2>1. cur.sta = x.sta /\ Instant(cur) = x.t /\ Source(cur) = x.src
        /\ Head(x.sta) \in ToSet(x.sta)
    BY HeldIs
  <2>2. ToSet(x.sta) \subseteq Stations
    BY <1>1, MembersAt
  <2> QED
    BY <2>1, <2>2 DEF Holds
<1> DEFINE list == x.sta
           longer == Append(list, m)
<1>3. c \in Cursors /\ c.sta = longer
    BY <1>2 DEF WithOneMore
<1> HIDE DEF list
<1>4. list \in Seq(Stations) /\ Len(list) >= 2
    BY <1>1 DEF list
<1>5. /\ longer \in Seq(Stations) /\ Len(longer) = Len(list) + 1 /\ Head(longer) = Head(list)
      /\ ToSet(longer) = ToSet(list) \cup {m}
  <2>1. /\ longer \in Seq(Stations) /\ Len(longer) = Len(list) + 1
        /\ \A i \in 1..Len(list) : longer[i] = list[i]
        /\ longer[Len(list) + 1] = m
    BY <1>4, AppendProperties
  <2>2. Head(longer) = longer[1] /\ Head(list) = list[1] /\ 1 \in 1..Len(list)
    BY <1>4, <2>1
  <2>3. ASSUME NEW k
        PROVE  k \in ToSet(longer) <=> k \in ToSet(list) \/ k = m
    <3> DEFINE n == Len(list)
    <3>1. k \in ToSet(longer) <=> \E i \in 1..(n + 1) : longer[i] = k
      <4>1. longer \in Seq(Stations) /\ Len(longer) = n + 1
        BY <2>1
      <4> HIDE DEF longer, n
      <4>2. k \in ToSet(longer) <=> \E i \in 1..Len(longer) : longer[i] = k
        BY <4>1, MembersAt
      <4> QED
        BY <4>1, <4>2
    <3>2. k \in ToSet(list) <=> \E i \in 1..n : list[i] = k
      BY <1>4, MembersAt
    <3>3. n \in Nat
      BY <1>4
    <3>4. \A i : i \in 1..(n + 1) <=> i \in 1..n \/ i = n + 1
      BY <3>3
    <3> QED
      BY <2>1, <3>1, <3>2, <3>4
  <2> QED
    BY <2>1, <2>2, <2>3
<1>6. Without(longer, {m}) = Without(list, {m})
    BY <1>4, WithoutAppended
<1> HIDE DEF longer
<1>7. Len(c.sta) >= 2
    BY <1>3, <1>4, <1>5
<1>8. /\ Pakup(c).sta = longer /\ Pakup(c).t = Instant(c) /\ Pakup(c).src = Source(c)
      /\ Whole(Pakup(c)) /\ \A k \in ToSet(longer) : Pakup(c).dur[k] = c.dur[k]
    BY <1>3, <1>7, PakupIs
<1>9. Instant(c) = Instant(cur) /\ Source(c) = Source(cur)
  <2>1. Head(c.sta) = Head(cur.sta) /\ Head(cur.sta) \in Stations \ {m}
    BY <1>2, <1>3, <1>5 DEF list
  <2> QED
    BY <2>1 DEF Instant, Source, WithOneMore
<1>10. ASSUME NEW k \in Stations \ {m}
       PROVE  Pakup(c).dur[k] = x.dur[k]
  <2>1. CASE k \in ToSet(x.sta)
    BY <1>2, <1>5, <1>8, <2>1 DEF WithOneMore, list
  <2>2. CASE k \notin ToSet(x.sta)
    <3>1. k \notin ToSet(longer)
      BY <1>5, <2>2 DEF list
    <3> QED
      BY <1>1, <1>8, <2>2, <3>1 DEF Whole
  <2> QED
    BY <2>1, <2>2
<1>11. Len(Pakup(c).sta) >= Len(x.sta)
    BY <1>4, <1>5, <1>8 DEF list
<1>12. SameBut({m}, Pakup(c), x)
    BY <1>2, <1>6, <1>8, <1>9, <1>10 DEF SameBut, list
<1> QED
    BY <1>2, <1>3, <1>5, <1>7, <1>8, <1>9, <1>11, <1>12 DEF list

\* Some stations leave it.
LEMMA FewerIs ==
    ASSUME cur \in Cursors, NEW out
    PROVE  LET c == [cur EXCEPT !.sta = Without(@, out)]
           IN  /\ c \in Cursors /\ c.sta = Without(cur.sta, out)
               /\ c.t = cur.t /\ c.src = cur.src /\ c.dur = cur.dur
               /\ ToSet(c.sta) = ToSet(cur.sta) \ out
<1> DEFINE sta == Without(cur.sta, out)
           c == [cur EXCEPT !.sta = sta]
<1>1. cur.sta \in Seq(Stations)
    BY DEF Cursors
<1>2. sta \in Seq(Stations) /\ ToSet(sta) = ToSet(cur.sta) \ out
    BY <1>1, WithoutFacts
<1> HIDE DEF sta
<1>3. c \in Cursors /\ c.sta = sta /\ c.t = cur.t /\ c.src = cur.src /\ c.dur = cur.dur
    BY <1>2 DEF Cursors
<1> QED
    BY <1>2, <1>3 DEF sta

WithFewer(c, out) ==
    /\ c \in Cursors /\ c.sta = Without(cur.sta, out) /\ Len(c.sta) >= 2
    /\ c.t = cur.t /\ c.src = cur.src /\ c.dur = cur.dur

\* What REMOVE and UNTAG store is the scan without some stations.
LEMMA FewerLeft ==
    ASSUME cur \in Cursors, NEW x, Whole(x), Holds(cur, x), NEW out, NEW c, WithFewer(c, out)
    PROVE  LET y == Pakup(c)
           IN  /\ y.t = x.t /\ y.src = x.src /\ y.sta = Without(x.sta, out)
               /\ ToSet(y.sta) = ToSet(x.sta) \ out
               /\ Len(y.sta) <= Len(x.sta)
               /\ \A k \in ToSet(y.sta) : y.dur[k] = x.dur[k]
               /\ SameBut(out, y, x)
<1> DEFINE y == Pakup(c)
<1>0. /\ c \in Cursors /\ c.sta = Without(cur.sta, out) /\ Len(c.sta) >= 2
      /\ c.t = cur.t /\ c.src = cur.src /\ c.dur = cur.dur
    BY DEF WithFewer
<1>1. /\ x.sta \in Seq(Stations) /\ cur.sta = x.sta
      /\ \A k \in Stations : k \notin ToSet(x.sta) => x.dur[k] = 0
      /\ \A k \in ToSet(x.sta) : cur.t[k] = x.t /\ cur.src[k] = x.src /\ cur.dur[k] = x.dur[k]
    BY DEF Whole, Records, Holds
<1>2. /\ ToSet(c.sta) = ToSet(x.sta) \ out /\ Len(c.sta) <= Len(x.sta)
      /\ Without(c.sta, out) = Without(x.sta, out)
    BY <1>0, <1>1, WithoutFacts, WithoutTwice
<1>3. /\ Whole(y) /\ y.sta = c.sta /\ y.t = Instant(c) /\ y.src = Source(c)
      /\ \A k \in ToSet(c.sta) : y.dur[k] = c.dur[k]
      /\ Head(c.sta) \in ToSet(c.sta)
    BY <1>0, PakupIs
<1>4. y.t = x.t /\ y.src = x.src
    BY <1>0, <1>1, <1>2, <1>3 DEF Instant, Source
<1>5. \A k \in ToSet(y.sta) : y.dur[k] = x.dur[k]
    BY <1>0, <1>1, <1>2, <1>3
<1>6. \A k \in Stations \ out : y.dur[k] = x.dur[k]
    BY <1>1, <1>2, <1>3, <1>5 DEF Whole
<1>7. SameBut(out, y, x)
    BY <1>2, <1>3, <1>4, <1>6 DEF SameBut
<1> HIDE DEF y
<1> QED
    BY <1>0, <1>1, <1>2, <1>3, <1>4, <1>5, <1>7 DEF y

-----------------------------------------------------------------------------
(* A turn puts a scan back, takes it out, or leaves the schedule alone. *)

Turned(pre, c) ==
    /\ pre \in Befores /\ c \in Cursors /\ (c.sta # << >> \/ job.cmd = "UNTAG")
    /\ EndTurn(pre, c)
    /\ \/ Staying
       \/ /\ Replace(c) /\ Len(c.sta) >= 2 /\ job.cmd # "SHIFT"
          /\ \A x : Whole(x) /\ Holds(cur, x) => Does(job, Pakup(c), x)
       \/ Delete /\ job.cmd \in {"REMOVE", "UNTAG"}

\* The types in a turn.
LEMMA VisitIs ==
    ASSUME Loop, walk.phase = "visit"
    PROVE  /\ cur \in Cursors /\ Len(cur.sta) >= 2 /\ cur.sta # << >>
           /\ walk.pre \in Befores /\ job \in WalkJobs /\ cur.sta \in Seq(Stations)
           /\ ToSet(cur.sta) \subseteq Stations
           /\ job.cmd \in {"ADD", "REMOVE", "TAGALONG"} =>
                 \A m \in job.who : m \in Stations /\ job.who = {m}
<1>1. cur \in Cursors /\ Len(cur.sta) >= 2 /\ walk.pre \in Befores /\ job \in WalkJobs
    BY DEF Loop, Visiting
<1>2. cur.sta \in Seq(Stations)
    BY <1>1 DEF Cursors
<1>3. cur.sta # << >>
    BY <1>1, <1>2
<1>4. ToSet(cur.sta) \subseteq Stations
    BY <1>2, MembersAt
<1>5. job.cmd \in {"ADD", "REMOVE", "TAGALONG"} => job.who \in {{m} : m \in Stations}
    BY <1>1 DEF WalkJobs
<1> QED
    BY <1>1, <1>2, <1>3, <1>4, <1>5

\* CHECK and SHIFT store nothing in their turn.
LEMMA LookTurns == ASSUME Loop, Look PROVE Turned(walk.pre, cur)
    BY VisitIs DEF Look, Turned

\* REWRITE stores the scan as it is.
LEMMA RewriteTurns == ASSUME Loop, Rewrite PROVE Turned(walk.pre, cur)
<1>1. /\ walk.phase = "visit" /\ job.cmd = "REWRITE" /\ Replace(cur)
      /\ EndTurn(walk.pre, cur)
    BY DEF Rewrite
<1>2. cur \in Cursors /\ walk.pre \in Befores /\ Len(cur.sta) >= 2 /\ cur.sta # << >>
    BY <1>1, VisitIs
<1>3. \A x : Whole(x) /\ Holds(cur, x) => Does(job, Pakup(cur), x)
    BY <1>1, <1>2, HeldIs DEF Does
<1> QED
    BY <1>1, <1>2, <1>3 DEF Turned

\* TAGALONG and ADD.
LEMMA JoiningTurns ==
    ASSUME Loop, walk.phase = "visit", job.cmd \in {"TAGALONG", "ADD"}, NEW m \in job.who,
           CanJoin(m), NEW c, WithOneMore(c, m), Replace(c), NEW pre \in Befores, EndTurn(pre, c)
    PROVE  Turned(pre, c)
<1>1. cur \in Cursors /\ m \in Stations /\ job.who = {m} /\ m \notin ToSet(cur.sta)
    BY VisitIs DEF CanJoin
<1>2. ASSUME NEW x, Whole(x), Holds(cur, x)
      PROVE  Does(job, Pakup(c), x)
  <2>1. SameBut({m}, Pakup(c), x) /\ Len(Pakup(c).sta) >= Len(x.sta)
    BY <1>1, <1>2, OneMoreIs
  <2> DEFINE y == Pakup(c)
  <2> HIDE DEF y
  <2>2. SameBut(job.who, y, x) /\ Len(y.sta) >= Len(x.sta)
    BY <1>1, <2>1 DEF y
  <2> QED
    BY <2>2 DEF Does, y
<1>3. c \in Cursors /\ c.sta = Append(cur.sta, m)
    BY DEF WithOneMore
<1>4. Len(c.sta) >= 2 /\ c.sta # << >>
  <2>1. cur.sta \in Seq(Stations) /\ Len(cur.sta) >= 2
    BY VisitIs
  <2> DEFINE list == cur.sta
  <2>2. list \in Seq(Stations) /\ Len(list) >= 2 /\ c.sta = Append(list, m)
    BY <1>3, <2>1
  <2> HIDE DEF list
  <2>3. Len(Append(list, m)) = Len(list) + 1 /\ Append(list, m) # << >>
    BY <1>1, <2>2, AppendProperties
  <2> QED
    BY <2>2, <2>3
<1> QED
    BY <1>2, <1>3, <1>4 DEF Turned

\* TAGALONG stores the scan with its station if that arrives.
LEMMA TagTurns ==
    ASSUME Loop, Tag
    PROVE  \E m \in job.who, long \in Nat :
              LET c == Timed(m, Joined(m, long))
              IN  /\ CanJoin(m) /\ Arrives(m) /\ Replace(c)
                  /\ EndTurn(Forgotten(m), c) /\ Turned(Forgotten(m), c)
<1>1. PICK m \in job.who, long \in Lasting :
         LET c == Timed(m, Joined(m, long))
         IN  CanJoin(m) /\ Arrives(m) /\ Replace(c) /\ EndTurn(Forgotten(m), c)
    BY DEF Tag
<1>2. walk.phase = "visit" /\ job.cmd = "TAGALONG"
    BY DEF Tag
<1>3. cur \in Cursors /\ Len(cur.sta) >= 2 /\ m \in Stations /\ walk.pre \in Befores
    BY <1>2, VisitIs
<1>4. long \in Nat
    BY DEF Lasting
<1> DEFINE c == Timed(m, Joined(m, long))
<1>5. WithOneMore(c, m)
    BY <1>3, <1>4, JoinedIs
<1>6. Forgotten(m) \in Befores
    BY <1>3, ForgottenIs
<1> HIDE DEF c
<1>7. CanJoin(m) /\ Arrives(m) /\ Replace(c) /\ EndTurn(Forgotten(m), c)
    BY <1>1 DEF c
<1>8. Turned(Forgotten(m), c)
    BY <1>2, <1>5, <1>6, <1>7, JoiningTurns
<1> QED
    BY <1>4, <1>7, <1>8 DEF c

\* Or it stores nothing, and may forget where its station was.
LEMMA NoTagTurns ==
    ASSUME Loop, NoTag
    PROVE  /\ walk.phase = "visit" /\ Staying
           /\ \E m \in job.who :
                \/ Turned(walk.pre, cur)
                \/ /\ m \notin ToSet(cur.sta)
                   /\ Turned(Forgotten(m), cur)
<1>1. PICK m \in job.who :
         \/ EndTurn(walk.pre, cur)
         \/ CanJoin(m) /\ Arrives(m) /\ EndTurn(Forgotten(m), cur)
    BY DEF NoTag
<1>2. walk.phase = "visit" /\ job.cmd = "TAGALONG" /\ Staying
    BY DEF NoTag
<1>3. cur \in Cursors /\ cur.sta # << >> /\ m \in Stations /\ walk.pre \in Befores
    BY <1>2, VisitIs
<1>4. Forgotten(m) \in Befores
    BY <1>3, ForgottenIs
<1> QED
    BY <1>1, <1>2, <1>3, <1>4 DEF Turned, CanJoin

\* ADD stores the scan with its station, or nothing.
LEMMA AddOnTurns == ASSUME Loop, AddOn PROVE \E pre, c : Turned(pre, c)
<1>1. walk.phase = "visit" /\ job.cmd = "ADD"
    BY DEF AddOn
<1>2. PICK m \in job.who :
         \/ Staying /\ EndTurn(walk.pre, cur)
         \/ /\ CanJoin(m)
            /\ \E long \in Lasting :
                 LET c == Joined(m, long)
                 IN  \/ ~Arrives(m) /\ Replace(c) /\ EndTurn(walk.pre, c)
                     \/ /\ Arrives(m)
                        /\ Replace(Timed(m, c))
                        /\ EndTurn(Forgotten(m), Timed(m, c))
    BY DEF AddOn
<1>3. /\ cur \in Cursors /\ cur.sta # << >> /\ Len(cur.sta) >= 2 /\ m \in Stations
      /\ walk.pre \in Befores
    BY <1>1, VisitIs
<1>4. Forgotten(m) \in Befores
    BY <1>3, ForgottenIs
<1>5. CASE Staying /\ EndTurn(walk.pre, cur)
    BY <1>3, <1>5 DEF Turned
<1>6. CASE /\ CanJoin(m)
           /\ \E long \in Lasting :
                 LET c == Joined(m, long)
                 IN  \/ ~Arrives(m) /\ Replace(c) /\ EndTurn(walk.pre, c)
                     \/ /\ Arrives(m)
                        /\ Replace(Timed(m, c))
                        /\ EndTurn(Forgotten(m), Timed(m, c))
  <2>1. PICK long \in Lasting :
                 LET c == Joined(m, long)
                 IN  \/ ~Arrives(m) /\ Replace(c) /\ EndTurn(walk.pre, c)
                     \/ /\ Arrives(m)
                        /\ Replace(Timed(m, c))
                        /\ EndTurn(Forgotten(m), Timed(m, c))
    BY <1>6
  <2>2. long \in Nat
    BY DEF Lasting
  <2> DEFINE a == Joined(m, long)
             b == Timed(m, a)
  <2>3. WithOneMore(a, m) /\ WithOneMore(b, m)
    BY <1>3, <2>2, JoinedIs
  <2>4. \/ Replace(a) /\ EndTurn(walk.pre, a)
        \/ Replace(b) /\ EndTurn(Forgotten(m), b)
    BY <2>1
  <2> HIDE DEF a, b
  <2>5. CASE Replace(a) /\ EndTurn(walk.pre, a)
    <3>1. Turned(walk.pre, a)
      BY <1>1, <1>3, <1>6, <2>3, <2>5, JoiningTurns
    <3> QED
      BY <3>1
  <2>6. CASE Replace(b) /\ EndTurn(Forgotten(m), b)
    <3>1. Turned(Forgotten(m), b)
      BY <1>1, <1>4, <1>6, <2>3, <2>6, JoiningTurns
    <3> QED
      BY <3>1
  <2> QED
    BY <2>4, <2>5, <2>6
<1> QED
    BY <1>2, <1>5, <1>6

\* REMOVE stores the scan without its station, deletes it, or has nothing to
\* do.
LEMMA TakeOffTurns ==
    ASSUME Loop, TakeOff
    PROVE  \E m \in job.who :
             LET c == [cur EXCEPT !.sta = Without(@, {m})]
             IN  \/ m \notin ToSet(cur.sta) /\ Staying /\ Turned(walk.pre, cur)
                 \/ /\ Len(c.sta) >= 2 /\ c \in Cursors /\ c.sta = Without(cur.sta, {m})
                    /\ Replace(c) /\ Turned(walk.pre, c)
                 \/ Delete /\ \E one : Turned(walk.pre, one)
<1>1. walk.phase = "visit" /\ job.cmd = "REMOVE"
    BY DEF TakeOff
<1>2. PICK m \in job.who :
         LET c == [cur EXCEPT !.sta = Without(@, {m})]
         IN  \/ m \notin ToSet(cur.sta) /\ Staying /\ EndTurn(walk.pre, cur)
             \/ Len(c.sta) >= 2 /\ Replace(c) /\ EndTurn(walk.pre, c)
             \/ Delete /\ EndTurn(walk.pre, [cur EXCEPT !.sta = SubSeq(@, 1, 1)])
    BY DEF TakeOff
<1>3. /\ cur \in Cursors /\ cur.sta # << >> /\ Len(cur.sta) >= 2 /\ m \in Stations
      /\ walk.pre \in Befores /\ job.who = {m} /\ cur.sta \in Seq(Stations)
    BY <1>1, VisitIs
<1> DEFINE c == [cur EXCEPT !.sta = Without(@, {m})]
           list == cur.sta
           first == SubSeq(list, 1, 1)
           one == [cur EXCEPT !.sta = first]
<1>4. c \in Cursors /\ c.sta = Without(cur.sta, {m}) /\ c.t = cur.t /\ c.src = cur.src /\ c.dur = cur.dur
    BY <1>3, FewerIs
<1>5. first \in Seq(Stations) /\ first # << >>
  <2>1. list \in Seq(Stations) /\ Len(list) >= 2
    BY <1>3
  <2> HIDE DEF list
  <2>2. \A i \in 1..1 : list[i] \in Stations
    BY <2>1
  <2>3. first \in Seq(Stations) /\ Len(first) = 1
    <3>1. /\ first \in Seq(Stations)
          /\ Len(first) = IF 1 <= 1 THEN 1 - 1 + 1 ELSE 0
      BY <2>2, SubSeqProperties
    <3> QED
      BY <3>1
  <2> HIDE DEF first
  <2> QED
    BY <2>3
<1> HIDE DEF first
<1>6. one \in Cursors /\ one.sta # << >>
    BY <1>3, <1>5 DEF Cursors
<1>7. CASE m \notin ToSet(cur.sta) /\ Staying /\ EndTurn(walk.pre, cur)
  <2>1. Turned(walk.pre, cur)
    BY <1>3, <1>7 DEF Turned
  <2> QED
    BY <1>7, <2>1
<1> HIDE DEF c, one
<1>8. CASE Len(c.sta) >= 2 /\ Replace(c) /\ EndTurn(walk.pre, c)
  <2>1. c.sta # << >>
    <3>1. c.sta \in Seq(Stations)
      BY <1>4 DEF Cursors
    <3> QED
      BY <1>8, <3>1
  <2>2. ASSUME NEW x, Whole(x), Holds(cur, x)
        PROVE  Does(job, Pakup(c), x)
    <3>0. WithFewer(c, {m})
      BY <1>4, <1>8 DEF WithFewer
    <3>1. SameBut({m}, Pakup(c), x) /\ Len(Pakup(c).sta) <= Len(x.sta)
      BY <1>3, <2>2, <3>0, FewerLeft
    <3> DEFINE y == Pakup(c)
    <3> HIDE DEF y
    <3>2. SameBut(job.who, y, x) /\ Len(y.sta) <= Len(x.sta)
      BY <1>3, <3>1 DEF y
    <3> QED
      BY <1>1, <3>2 DEF Does, y
  <2>3. Turned(walk.pre, c)
    BY <1>1, <1>3, <1>4, <1>8, <2>1, <2>2 DEF Turned
  <2> QED
    BY <1>4, <1>8, <2>3 DEF c
<1>9. CASE Delete /\ EndTurn(walk.pre, one)
  <2>1. Turned(walk.pre, one)
    BY <1>1, <1>3, <1>6, <1>9 DEF Turned
  <2> QED
    BY <1>9, <2>1
<1>10. \/ m \notin ToSet(cur.sta) /\ Staying /\ EndTurn(walk.pre, cur)
       \/ Len(c.sta) >= 2 /\ Replace(c) /\ EndTurn(walk.pre, c)
       \/ Delete /\ EndTurn(walk.pre, one)
    BY <1>2 DEF c, one, first
<1> QED
    BY <1>7, <1>8, <1>9, <1>10

\* UNTAG stores nothing in its first turn.
LEMMA UntagFirstTurns ==
    ASSUME Loop, UntagFirst
    PROVE  walk.phase = "visit" /\ walk.first /\ Staying /\ \E c : Turned(walk.pre, c)
<1>1. walk.phase = "visit" /\ job.cmd = "UNTAG" /\ walk.first /\ Staying
    BY DEF UntagFirst
<1>2. PICK weak : EndTurn(walk.pre, [cur EXCEPT !.sta = Without(@, weak)])
    BY DEF UntagFirst
<1>3. cur \in Cursors /\ walk.pre \in Befores
    BY <1>1, VisitIs
<1> DEFINE c == [cur EXCEPT !.sta = Without(@, weak)]
<1>4. c \in Cursors
    BY <1>3, FewerIs
<1> HIDE DEF c
<1>5. EndTurn(walk.pre, c)
    BY <1>2 DEF c
<1>6. Turned(walk.pre, c)
    BY <1>1, <1>3, <1>4, <1>5 DEF Turned
<1> QED
    BY <1>1, <1>6

\* UNTAG stores the scan without all late stations, or deletes it.
LEMMA UntagTurns ==
    ASSUME Loop, Untag
    PROVE  /\ walk.phase = "visit" /\ ~walk.first
           /\ \E bad \in SUBSET ToSet(cur.sta) :
                LET c == [cur EXCEPT !.sta = Without(@, bad)]
                IN  /\ job.clear => \A m \in ToSet(cur.sta) : Late(m) => m \in bad
                    /\ c \in Cursors /\ c.sta = Without(cur.sta, bad)
                    /\ c.t = cur.t /\ c.src = cur.src /\ c.dur = cur.dur
                    /\ ToSet(c.sta) = ToSet(cur.sta) \ bad
                    /\ (Len(c.sta) >= 2 /\ Replace(c)) \/ Delete
                    /\ Turned(walk.pre, c)
<1>1. walk.phase = "visit" /\ job.cmd = "UNTAG" /\ ~walk.first
    BY DEF Untag
<1>2. PICK bad \in SUBSET ToSet(cur.sta) :
         /\ job.clear => \A m \in ToSet(cur.sta) : Late(m) => m \in bad
         /\ LET c == [cur EXCEPT !.sta = Without(@, bad)]
            IN  /\ (Len(c.sta) >= 2 /\ Replace(c)) \/ Delete
                /\ EndTurn(walk.pre, c)
  <2>1. PICK hidden \in SUBSET ToSet(cur.sta), broken \in {FALSE, ~job.clear} :
         LET bad == IF broken THEN {} ELSE {m \in ToSet(cur.sta) : m \in hidden \/ Late(m)}
             c   == [cur EXCEPT !.sta = Without(@, bad)]
         IN  /\ \/ Len(c.sta) >= 2 /\ Replace(c)
                \/ Len(c.sta) < 2 /\ Delete
             /\ EndTurn(walk.pre, c)
    BY DEF Untag
  <2> DEFINE bad == IF broken THEN {} ELSE {m \in ToSet(cur.sta) : m \in hidden \/ Late(m)}
  <2>2. bad \in SUBSET ToSet(cur.sta)
        /\ (job.clear => \A m \in ToSet(cur.sta) : Late(m) => m \in bad)
    OBVIOUS
  <2> HIDE DEF bad
  <2>3. LET c == [cur EXCEPT !.sta = Without(@, bad)]
        IN  /\ (Len(c.sta) >= 2 /\ Replace(c)) \/ Delete
            /\ EndTurn(walk.pre, c)
    BY <2>1 DEF bad
  <2> QED
    BY <2>2, <2>3
<1>3. cur \in Cursors /\ walk.pre \in Befores
    BY <1>1, VisitIs
<1> DEFINE c == [cur EXCEPT !.sta = Without(@, bad)]
<1>4. /\ c \in Cursors /\ c.sta = Without(cur.sta, bad) /\ c.t = cur.t /\ c.src = cur.src
      /\ c.dur = cur.dur /\ ToSet(c.sta) = ToSet(cur.sta) \ bad
    BY <1>3, FewerIs
<1> HIDE DEF c
<1>5. ((Len(c.sta) >= 2 /\ Replace(c)) \/ Delete) /\ EndTurn(walk.pre, c)
    BY <1>2 DEF c
<1>6. ASSUME NEW x, Whole(x), Holds(cur, x), Len(c.sta) >= 2
      PROVE  Does(job, Pakup(c), x)
  <2> DEFINE y == Pakup(c)
  <2>1. /\ y.t = x.t /\ y.src = x.src /\ y.sta = Without(x.sta, bad)
        /\ \A k \in ToSet(y.sta) : y.dur[k] = x.dur[k]
    <3>1. WithFewer(c, bad)
      BY <1>4, <1>6 DEF WithFewer
    <3> QED
      BY <1>3, <1>6, <3>1, FewerLeft
  <2>2. bad \in SUBSET Stations
    BY <1>1, VisitIs
  <2> HIDE DEF y
  <2>3. Fewer(y, x)
    BY <2>1, <2>2 DEF Fewer
  <2> QED
    BY <1>1, <2>3 DEF Does, y
<1>7. Turned(walk.pre, c)
    BY <1>1, <1>3, <1>4, <1>5, <1>6 DEF Turned
<1> QED
    BY <1>1, <1>2, <1>4, <1>5, <1>7 DEF c

-----------------------------------------------------------------------------
(* The loop and what it has done to the scans, whatever step is taken. *)

\* Whatever a turn did, the loop is in its bounds and the scans are those
\* there were.
LEMMA TurnedGoesOn ==
    ASSUME Loop, GoingOn, busy' = busy, walk.phase = "visit", NEW pre, NEW c, Turned(pre, c)
    PROVE  /\ Loop' /\ walk'.phase = "next" /\ walk'.entry = walk.entry /\ ~walk'.first
           /\ walk'.pre = Saved(pre, c) /\ cur' = c
           /\ Synced /\ Following => Following'
<1>1. /\ pre \in Befores /\ c \in Cursors /\ (c.sta # << >> \/ job.cmd = "UNTAG")
      /\ EndTurn(pre, c)
      /\ \/ Staying
         \/ /\ Replace(c) /\ Len(c.sta) >= 2 /\ job.cmd # "SHIFT"
            /\ \A x : Whole(x) /\ Holds(cur, x) => Does(job, Pakup(c), x)
         \/ Delete /\ job.cmd \in {"REMOVE", "UNTAG"}
    BY DEF Turned
<1>2. Loop'
    BY <1>1, LoopTurns
<1>3. walk'.phase = "next" /\ walk'.entry = walk.entry /\ ~walk'.first
      /\ walk'.pre = Saved(pre, c) /\ cur' = c
    BY <1>1, EndTurnIs
<1>4. ASSUME Synced, Following
      PROVE  Following'
  <2>1. CASE Staying
    BY <1>1, <1>4, <2>1, TurnFollows
  <2>2. CASE /\ Replace(c) /\ Len(c.sta) >= 2 /\ job.cmd # "SHIFT"
             /\ \A x : Whole(x) /\ Holds(cur, x) => Does(job, Pakup(c), x)
    <3>1. Holds(cur, scans[ircur])
      BY <1>4, <2>2 DEF Following
    <3>2. ircur \in DOMAIN scans
      <4>1. /\ ircur \in Nat /\ ircur <= nobs /\ walk.entry <= ircur /\ walk.entry # 0
            /\ DOMAIN scans = 1..nobs /\ nobs \in Nat /\ walk.entry \in Nat
        BY <1>4 DEF Loop, Visiting, Synced, nobs
      <4> QED
        BY <4>1
    <3>3. Whole(scans[ircur])
      BY <3>2 DEF Loop
    <3>4. Does(job, Pakup(c), scans[ircur])
      BY <2>2, <3>1, <3>3
    <3> QED
      BY <1>1, <1>4, <2>2, <3>4, TurnFollows
  <2>3. CASE Delete /\ job.cmd \in {"REMOVE", "UNTAG"}
    BY <1>1, <1>4, <2>3, TurnFollows
  <2> QED
    BY <1>1, <2>1, <2>2, <2>3
<1> QED
    BY <1>2, <1>3, <1>4

\* Every command's turn is such a turn.
LEMMA TurnIs ==
    ASSUME Loop, WalkStep, ~GetNext
    PROVE  walk.phase = "visit" /\ \E pre, c : Turned(pre, c)
<1>1. Look \/ Rewrite \/ Tag \/ NoTag \/ AddOn \/ TakeOff \/ UntagFirst \/ Untag
    BY DEF WalkStep
<1>2. CASE Look
    BY <1>2, LookTurns DEF Look
<1>3. CASE Rewrite
    BY <1>3, RewriteTurns DEF Rewrite
<1>4. CASE Tag
  <2>1. PICK m \in job.who, long \in Nat :
              LET c == Timed(m, Joined(m, long)) IN Turned(Forgotten(m), c)
    BY <1>4, TagTurns
  <2> QED
    BY <1>4, <2>1 DEF Tag
<1>5. CASE NoTag
    BY <1>5, NoTagTurns
<1>6. CASE AddOn
    BY <1>6, AddOnTurns DEF AddOn
<1>7. CASE TakeOff
  <2>1. \E c : Turned(walk.pre, c)
    BY <1>7, TakeOffTurns
  <2> QED
    BY <1>7, <2>1 DEF TakeOff
<1>8. CASE UntagFirst
    BY <1>8, UntagFirstTurns
<1>9. CASE Untag
  <2>1. \E c : Turned(walk.pre, c)
    BY <1>9, UntagTurns
  <2> QED
    BY <1>9, <2>1 DEF Untag
<1> QED
    BY <1>1, <1>2, <1>3, <1>4, <1>5, <1>6, <1>7, <1>8, <1>9

\* The loop stays in its bounds and the scans stay those there were.
LEMMA LoopStays ==
    ASSUME Loop, Next
    PROVE  /\ Loop' /\ walk'.entry = walk.entry /\ Synced' = Synced
           /\ Synced /\ Following => Following'
<1>1. ((WalkStep /\ busy' = busy) \/ EndWalk) /\ GoingOn
    BY LoopGoesOn
<1>2. was' = was
    BY <1>1 DEF GoingOn
<1>3. CASE EndWalk
    BY <1>1, <1>2, <1>3, LoopEnds, EndFollows DEF Synced
<1>4. CASE GetNext /\ busy' = busy
    BY <1>1, <1>2, <1>4, LoopNext, NextFollows, NextIs DEF Synced
<1>5. CASE WalkStep /\ busy' = busy /\ ~GetNext
  <2>1. PICK pre, c : Turned(pre, c)
    BY <1>5, TurnIs
  <2> QED
    BY <1>1, <1>2, <1>5, <2>1, TurnIs, TurnedGoesOn DEF Synced
<1> QED
    BY <1>1, <1>3, <1>4, <1>5

-----------------------------------------------------------------------------
(* What the commands have done so far, step by step. *)

\* Where a turn is: at a scan, behind the first of the loop.
LEMMA HereIs ==
    ASSUME Loop, Synced, walk.phase = "visit"
    PROVE  /\ scans \in Seq(Records) /\ nobs \in Nat /\ DOMAIN scans = 1..nobs
           /\ ircur \in 1..nobs /\ ircur \in DOMAIN scans /\ walk.entry \in Nat \ {0}
           /\ walk.entry <= ircur /\ Whole(scans[ircur]) /\ Done = ircur - 1
<1>1. /\ scans \in Seq(Records) /\ nobs \in Nat /\ DOMAIN scans = 1..nobs
      /\ walk.entry \in Nat \ {0} /\ ircur \in Nat
      /\ \A i \in DOMAIN scans : Whole(scans[i])
    BY DEF Loop, Synced, nobs
<1>2. ircur <= nobs /\ walk.entry <= ircur
    BY DEF Loop, Visiting
<1>3. ircur \in 1..nobs
    BY <1>1, <1>2
<1> QED
    BY <1>1, <1>2, <1>3 DEF Done

\* The scans keep their sources.
LEMMA SourcesKept ==
    ASSUME Loop, Following
    PROVE  \A i \in DOMAIN scans : scans[i].src \in Sources
<1> SUFFICES ASSUME NEW i \in DOMAIN scans PROVE scans[i].src \in Sources
    OBVIOUS
<1>1. PICK from \in [DOMAIN scans -> DOMAIN was.scans] :
         Does(job, scans[i], was.scans[from[i]]) \/ scans[i] = was.scans[from[i]]
    BY DEF Following, Traced
<1> DEFINE y == was.scans[from[i]]
           x == scans[i]
<1>2. y.src \in Sources
  <2>1. was.scans \in Schedules
    BY DEF Loop
  <2> QED
    BY <2>1, ScheduleIsWhole
<1>3. x.src = y.src
  <2>1. job.cmd \in {"CHECK", "REWRITE", "SHIFT", "UNTAG", "ADD", "REMOVE", "TAGALONG"}
    BY DEF Loop, WalkJobs
  <2>2. CASE x = y
    BY <2>2
  <2>3. CASE Does(job, x, y)
    <3>1. CASE job.cmd \in {"CHECK", "REWRITE"}
      BY <2>3, <3>1 DEF Does
    <3>2. CASE job.cmd = "SHIFT"
      <4>1. [x EXCEPT !.t = y.t] = y /\ x \in Records
        BY <2>3, <3>2 DEF Does, Loop
      <4> HIDE DEF x, y
      <4>2. [x EXCEPT !.t = y.t].src = x.src
        BY <4>1 DEF Records
      <4> QED
        BY <4>1, <4>2
    <3>3. CASE job.cmd \in {"ADD", "TAGALONG", "REMOVE"}
      <4>1. SameBut(job.who, x, y)
        BY <2>3, <3>3 DEF Does
      <4> QED
        BY <4>1 DEF SameBut
    <3>4. CASE job.cmd = "UNTAG"
      <4>1. Fewer(x, y)
        BY <2>3, <3>4 DEF Does
      <4> QED
        BY <4>1 DEF Fewer
    <3> QED
      BY <2>1, <3>1, <3>2, <3>3, <3>4
  <2> QED
    BY <1>1, <2>2, <2>3
<1> QED
    BY <1>2, <1>3

\* A scan for each of n places in a schedule of k, in order.
LEMMA Increasing ==
    ASSUME NEW n \in Nat, NEW k \in Nat, NEW from \in [1..n -> 1..k],
           \A i, j \in 1..n : i < j => from[i] < from[j]
    PROVE  /\ n <= k
           /\ n = k => \A i \in 1..n : from[i] = i
<1>1. \A i \in 1..n : from[i] \in 1..k
    OBVIOUS
<1>2. ASSUME NEW i \in 1..n, from[i] < i
      PROVE  FALSE
  <2> DEFINE W == {j \in 1..n : from[j] < j}
  <2>1. W \in SUBSET Nat /\ W # {}
    BY <1>2
  <2>2. PICK j \in W : \A l \in W : j <= l
    BY <2>1, HasLeast
  <2>3. j \in 1..n /\ from[j] < j /\ j # 1
    BY <1>1, <2>2
  <2> DEFINE l == j - 1
  <2>4. l \in 1..n /\ l < j /\ ~(j <= l) /\ j = l + 1
    BY <2>3
  <2> HIDE DEF l
  <2>5. ~(from[l] < l) /\ from[l] < from[j]
    BY <2>2, <2>3, <2>4
  <2>6. from[l] \in Nat /\ from[j] \in Nat
    BY <1>1, <2>3, <2>4
  <2> QED
    BY <2>3, <2>4, <2>5, <2>6
<1>3. n <= k
  <2>1. CASE n = 0
    BY <2>1
  <2>2. CASE n # 0
    <3>1. n \in 1..n
      BY <2>2
    <3>2. ~(from[n] < n) /\ from[n] \in 1..k
      BY <1>1, <1>2, <3>1
    <3> QED
      BY <3>1, <3>2
  <2> QED
    BY <2>1, <2>2
<1>4. ASSUME n = k, NEW i \in 1..n, from[i] > i
      PROVE  FALSE
  <2> DEFINE W == {j \in 1..n : from[j] > j}
             last == Max(W)
  <2>1. W \in SUBSET (1..n) /\ W # {}
    BY <1>4
  <2>2. last \in W /\ \A j \in W : j <= last
    <3> HIDE DEF W
    <3> QED
      BY <2>1, MaxOfPlaces
  <2> HIDE DEF last
  <2>3. last \in 1..n /\ from[last] > last /\ from[last] \in 1..n
    BY <1>1, <1>4, <2>2
  <2> DEFINE l == last + 1
  <2>4. l \in 1..n /\ last < l /\ ~(l <= last) /\ l = last + 1
    BY <2>3
  <2> HIDE DEF l
  <2>5. ~(from[l] > l) /\ from[last] < from[l]
    BY <2>2, <2>3, <2>4
  <2>6. from[l] \in 1..n
    BY <1>1, <1>4, <2>4
  <2> QED
    BY <2>3, <2>4, <2>5, <2>6
<1>5. n = k => \A i \in 1..n : from[i] = i
  <2> SUFFICES ASSUME n = k, NEW i \in 1..n PROVE from[i] = i
    OBVIOUS
  <2>1. from[i] \in Nat /\ i \in Nat /\ ~(from[i] < i) /\ ~(from[i] > i)
    BY <1>1, <1>2, <1>4
  <2> QED
    BY <2>1
<1> QED
    BY <1>3, <1>5

\* The loop adds no scan.
LEMMA NeverMore == ASSUME Loop, Following PROVE nobs <= Len(was.scans)
<1> DEFINE n == nobs
           o == was.scans
           k == Len(o)
<1>1. n \in Nat /\ DOMAIN scans = 1..n
    BY DEF Loop, nobs
<1>2. k \in Nat /\ DOMAIN o = 1..k
  <2>1. o \in Schedules
    BY DEF Loop
  <2> QED
    BY <2>1, ScheduleIsWhole
<1>3. PICK from \in [DOMAIN scans -> DOMAIN o] :
         \A i, j \in DOMAIN scans : i < j => from[i] < from[j]
    BY DEF Following, Traced
<1> HIDE DEF n, o, k
<1>4. from \in [1..n -> 1..k] /\ \A i, j \in 1..n : i < j => from[i] < from[j]
    BY <1>1, <1>2, <1>3
<1>5. n <= k
    BY <1>1, <1>2, <1>4, Increasing
<1> QED
    BY <1>5 DEF n, k, o

-----------------------------------------------------------------------------
(* REMOVE. *)

\* A turn of REMOVE leaves its station nowhere behind it, but for the place
\* after a deleted first scan.
LEMMA RemoveTurns ==
    ASSUME Loop, Synced, Following, Removed, GoingOn, TakeOff
    PROVE  Removed'
<1>1. walk.phase = "visit" /\ job.cmd = "REMOVE"
    BY DEF TakeOff
<1> DEFINE n == nobs
           o == was.scans
           s == scans
           t == scans'
           a == walk.entry
           b == ircur - 1
           x == s[ircur]
<1>2. /\ s \in Seq(Records) /\ n \in Nat /\ DOMAIN s = 1..n /\ ircur \in 1..n
      /\ a \in Nat \ {0} /\ a <= ircur /\ Whole(x) /\ Done = b
    BY <1>1, HereIs
<1>3. Holds(cur, x)
    BY <1>1 DEF Following
<1>4. PICK m \in job.who :
             LET c == [cur EXCEPT !.sta = Without(@, {m})]
             IN  \/ m \notin ToSet(cur.sta) /\ Staying /\ Turned(walk.pre, cur)
                 \/ /\ Len(c.sta) >= 2 /\ c \in Cursors /\ c.sta = Without(cur.sta, {m})
                    /\ Replace(c) /\ Turned(walk.pre, c)
                 \/ Delete /\ \E one : Turned(walk.pre, one)
    BY TakeOffTurns
<1>5. job.who = {m} /\ m \in Stations
    BY <1>1, VisitIs
<1>6. \E c : EndTurn(walk.pre, c) /\ c \in Cursors
    BY <1>4 DEF Turned
<1>7. /\ walk'.phase = "next" /\ walk'.entry = a /\ Done' = ircur' /\ job' = job /\ was' = was
  <2>1. walk.pre \in Befores
    BY <1>1, VisitIs
  <2>2. walk'.phase = "next" /\ walk'.entry = a
    BY <1>6, <2>1, EndTurnIs
  <2> QED
    BY <2>2 DEF Done, GoingOn
<1>8. \A i \in a..b : i \in DOMAIN s /\ Place(s, m, i) => i = 1 /\ a = 1 /\ n < Len(o)
    BY <1>2, <1>5 DEF Removed, GoneUpto, nobs
<1>9. SUFFICES GoneUpto(t, o, m, a, ircur')
    BY <1>5, <1>7 DEF Removed
<1>10. cur.sta = x.sta /\ cur.sta \in Seq(Stations)
    BY <1>1, <1>3, VisitIs DEF Holds
<1> HIDE DEF s, t, a, x, b, n
<1>11. b = ircur - 1
    BY DEF b
<1>12. ASSUME m \notin ToSet(cur.sta), Staying
       PROVE  GoneUpto(t, o, m, a, ircur')
  <2>1. t = s /\ ircur' = ircur
    BY <1>12 DEF Staying, place, s, t
  <2>2. ~Place(s, m, ircur)
    BY <1>10, <1>12 DEF Place, x
  <2>3. n = Len(t)
    BY <2>1 DEF n, nobs, s
  <2>4. ASSUME NEW i \in a..ircur, i \in DOMAIN t, Place(t, m, i)
        PROVE  i = 1 /\ a = 1 /\ n < Len(o)
    <3>1. i # ircur /\ Place(s, m, i) /\ i \in DOMAIN s
      BY <2>1, <2>2, <2>4
    <3>2. i \in a..b
      BY <1>2, <1>11, <2>4, <3>1
    <3> QED
      BY <1>8, <3>1, <3>2
  <2> QED
    BY <2>1, <2>3, <2>4 DEF GoneUpto
<1>13. ASSUME NEW c, Len(c.sta) >= 2, c \in Cursors, c.sta = Without(cur.sta, {m}), Replace(c)
       PROVE  GoneUpto(t, o, m, a, ircur')
  <2> DEFINE y == Pakup(c)
  <2>1. t = [s EXCEPT ![ircur] = y] /\ ircur' = ircur
    BY <1>2, <1>13 DEF Replace, place, s, t
  <2>2. Whole(y) /\ y.sta = c.sta
    BY <1>13, PakupIs
  <2>3. m \notin ToSet(y.sta)
    BY <1>10, <1>13, <2>2, WithoutFacts
  <2> HIDE DEF y
  <2>4. Len(t) = Len(s) /\ \A i \in DOMAIN s : t[i] = IF i = ircur THEN y ELSE s[i]
    <3>1. ircur \in DOMAIN s /\ \A i \in DOMAIN s : Whole(s[i])
      BY <1>2 DEF Loop, s
    <3> QED
      BY <1>2, <2>1, <2>2, <3>1, PutAt
  <2>5. DOMAIN t = DOMAIN s
    BY <2>1
  <2>6. n = Len(t)
    BY <2>4 DEF n, nobs, s
  <2>7. ASSUME NEW i \in a..ircur, i \in DOMAIN t, Place(t, m, i)
        PROVE  i = 1 /\ a = 1 /\ n < Len(o)
    <3>1. i # ircur
      BY <2>3, <2>4, <2>5, <2>7 DEF Place
    <3>2. Place(s, m, i) /\ i \in DOMAIN s
      BY <2>4, <2>5, <2>7, <3>1 DEF Place
    <3>3. i \in a..b
      BY <1>2, <1>11, <2>7, <3>1
    <3> QED
      BY <1>8, <3>2, <3>3
  <2> QED
    BY <2>1, <2>6, <2>7 DEF GoneUpto
<1>14. ASSUME Delete
       PROVE  GoneUpto(t, o, m, a, ircur')
  <2>1. /\ DOMAIN t = 1..(n - 1) /\ t \in Seq(Records)
        /\ \A k \in 1..(n - 1) : t[k] = IF k < ircur THEN s[k] ELSE s[k + 1]
    <3>1. Visiting
      BY <1>1 DEF Loop
    <3>2. /\ DOMAIN scans' = 1..(nobs - 1) /\ scans' \in Seq(Records)
          /\ \A k \in 1..(nobs - 1) : scans'[k] = IF k < ircur THEN scans[k] ELSE scans[k + 1]
      BY <1>2, <1>14, <3>1, DeleteIs
    <3> QED
      BY <3>2 DEF t, s, n
  <2>2. ircur' = IF n = 1 THEN 0 ELSE IF ircur > 1 THEN ircur - 1 ELSE ircur
    BY <1>14 DEF Delete, n
  <2>3. n <= Len(o) /\ Len(o) \in Nat
    <3>1. was.scans \in Schedules
      BY DEF Loop
    <3> QED
      BY <3>1, NeverMore, ScheduleIsWhole DEF n
  <2>4. Len(t) = n - 1
    BY <1>2, <2>1
  <2>5. ASSUME NEW i \in a..(ircur'), i \in DOMAIN t, Place(t, m, i)
        PROVE  i = 1 /\ a = 1
    <3>1. n # 1
      BY <2>1, <2>5
    <3>2. CASE ircur > 1
      <4>1. i \in a..b /\ i < ircur /\ i \in DOMAIN s
        BY <1>2, <1>11, <2>1, <2>2, <2>5, <3>1, <3>2
      <4>2. Place(s, m, i)
        BY <2>1, <2>5, <4>1 DEF Place
      <4> QED
        BY <1>8, <4>1, <4>2
    <3>3. CASE ~(ircur > 1)
      BY <1>2, <2>2, <2>5, <3>1, <3>3
    <3> QED
      BY <3>2, <3>3
  <2>6. Len(t) < Len(o)
    BY <1>2, <2>3, <2>4
  <2> QED
    BY <2>5, <2>6 DEF GoneUpto
<1> QED
    BY <1>4, <1>12, <1>13, <1>14

-----------------------------------------------------------------------------
(* TAGALONG. *)

SameUpto(s, t, a, b) == \A i \in a..b : t[i] = s[i]

\* A station's last scan before place n is its last up to b, and the one its
\* scan at n follows.
LEMMA LastStays ==
    ASSUME NEW a \in Nat, NEW n \in Nat, NEW b, b = n - 1, NEW s, NEW t, SameUpto(s, t, a, b),
           NEW m, NEW i \in a..n
    PROVE  /\ LastAt(t, m, i, a, n) /\ Place(t, m, n) => i = n
           /\ LastAt(t, m, i, a, n) /\ ~Place(t, m, n) => i # n /\ LastAt(s, m, i, a, b)
           /\ Follows(t, m, i, n) => i # n /\ LastAt(s, m, i, a, b)
<1>1. \A k : k \in a..b => t[k] = s[k] /\ (Place(t, m, k) <=> Place(s, m, k))
    BY DEF SameUpto, Place
<1>2. i \in Nat /\ b \in Int /\ a <= i /\ i <= n
    OBVIOUS
<1>3. LastAt(t, m, i, a, n) /\ Place(t, m, n) => i = n
  <2>1. i # n => n \in (i + 1)..n
    BY <1>2
  <2> QED
    BY <2>1 DEF LastAt
<1>4. ASSUME LastAt(t, m, i, a, n), ~Place(t, m, n)
      PROVE  i # n /\ LastAt(s, m, i, a, b)
  <2>1. i # n /\ Place(t, m, i) /\ \A k \in (i + 1)..n : ~Place(t, m, k)
    BY <1>4 DEF LastAt
  <2>2. i \in a..b /\ \A k \in (i + 1)..b : k \in a..b /\ k \in (i + 1)..n
    BY <1>2, <2>1
  <2> QED
    BY <1>1, <2>1, <2>2 DEF LastAt
<1>5. ASSUME Follows(t, m, i, n)
      PROVE  i # n /\ LastAt(s, m, i, a, b)
  <2>1. i < n /\ Place(t, m, i) /\ \A k \in (i + 1)..(n - 1) : ~Place(t, m, k)
    BY <1>5 DEF Follows
  <2>2. i \in a..b /\ \A k \in (i + 1)..b : k \in a..b /\ k \in (i + 1)..(n - 1)
    BY <1>2, <2>1
  <2> QED
    BY <1>1, <2>1, <2>2 DEF LastAt
<1> QED
    BY <1>3, <1>4, <1>5

\* Which scan is next for a station does not depend on the scans behind it.
LEMMA FollowsStays ==
    ASSUME NEW a \in Nat, NEW n \in Nat, NEW b, b = n - 1, NEW s, NEW t, SameUpto(s, t, a, b),
           NEW m, NEW i \in a..n, NEW j \in a..b, Follows(t, m, i, j)
    PROVE  Follows(s, m, i, j) /\ (InTime(t, m, i, j) <=> InTime(s, m, i, j))
<1>1. \A k : k \in a..b => t[k] = s[k] /\ (Place(t, m, k) <=> Place(s, m, k))
    BY DEF SameUpto, Place
<1>2. /\ i < j /\ Place(t, m, i) /\ Place(t, m, j)
      /\ \A k \in (i + 1)..(j - 1) : ~Place(t, m, k)
    BY DEF Follows
<1>3. i \in a..b /\ \A k \in (i + 1)..(j - 1) : k \in a..b
    BY <1>2
<1> QED
    BY <1>1, <1>2, <1>3 DEF Follows, InTime

\* What PRE says of the station after the turn at place n.
SavedOf(t, pre, q, m, n) ==
    IF Place(t, m, n)
      THEN q.t[m] = t[n].t /\ q.dur[m] = t[n].dur[m] /\ q.src[m] = t[n].src
      ELSE /\ q.t[m] = pre.t[m] /\ q.dur[m] = pre.dur[m]
           /\ \/ q.src[m] = pre.src[m]
              \/ q.src[m] = NoSource /\ t[n].t - pre.t[m] > Forget

InOrder(t, a, n) ==
    /\ \A i \in a..n : t[i].t \in Nat /\ t[i].src # NoSource
    /\ \A i, j \in a..n : i < j => t[i].t <= t[j].t

OnArrival(t, pre, m, n) ==
    pre.src[m] = NoSource \/ Ready(pre.t[m], pre.dur[m], pre.src[m], t[n].src) <= t[n].t

\* One scan more: PRE remembers it, and if the station joined there it came
\* in time.
LEMMA MoreTagged ==
    ASSUME NEW a \in Nat, NEW n \in Nat, a <= n, NEW b, b = n - 1,
           NEW s, NEW t, SameUpto(s, t, a, b), InOrder(t, a, n),
           NEW o, NEW m, NEW pre, NEW q,
           Remembers(s, pre, m, a, b), JoinsOnTime(s, o, m, a, b), SavedOf(t, pre, q, m, n),
           Place(t, m, n) /\ ~Place(o, m, n) => OnArrival(t, pre, m, n)
    PROVE  Remembers(t, q, m, a, n) /\ JoinsOnTime(t, o, m, a, n)
<1>1. /\ \A i \in a..n : t[i].t \in Nat /\ t[i].src # NoSource /\ t[i].t <= t[n].t
      /\ \A i \in a..b : i \in a..n /\ t[i] = s[i] /\ i < n /\ i <= b
      /\ b \in a..n => t[b].t <= t[n].t
      /\ n \in a..n /\ b \in Int
  <2>1. n \in a..n /\ b \in Int /\ \A i \in a..b : i \in a..n /\ i < n /\ i <= b
    OBVIOUS
  <2>2. \A i \in a..n : i = n \/ i < n
    OBVIOUS
  <2>3. \A i \in a..n : t[i].t <= t[n].t
    BY <2>1, <2>2 DEF InOrder
  <2> QED
    BY <2>1, <2>3 DEF InOrder, SameUpto
\* Of its last scan up to b.
<1>2. ASSUME NEW i \in a..n, i # n, LastAt(s, m, i, a, b)
      PROVE  /\ \/ pre.t[m] = t[i].t /\ pre.dur[m] = t[i].dur[m] /\ pre.src[m] = t[i].src
                \/ pre.src[m] = NoSource /\ t[n].t - t[i].t > Forget
  <2>1. i \in a..b /\ b \in a..n
    BY <1>2
  <2>2. \/ pre.t[m] = s[i].t /\ pre.dur[m] = s[i].dur[m] /\ pre.src[m] = s[i].src
        \/ pre.src[m] = NoSource /\ s[b].t - s[i].t > Forget
    BY <1>2, <2>1 DEF Remembers
  <2>3. s[i] = t[i] /\ s[b] = t[b]
    <3>1. b \in a..b
      BY <2>1
    <3> QED
      BY <1>1, <2>1, <3>1
  <2>4. t[b].t \in Nat /\ t[n].t \in Nat /\ t[i].t \in Nat /\ t[b].t <= t[n].t
    BY <1>1, <2>1
  <2>5. s[b].t - s[i].t > Forget => t[n].t - t[i].t > Forget
    <3> DEFINE x == t[b].t
               y == t[i].t
               z == t[n].t
    <3>1. x \in Nat /\ y \in Nat /\ z \in Nat /\ x <= z /\ Forget \in Nat
      BY <2>4, WalkAssumption
    <3> HIDE DEF x, y, z
    <3>2. x - y > Forget => z - y > Forget
      BY <3>1
    <3> QED
      BY <2>3, <3>2 DEF x, y, z
  <2> QED
    BY <2>2, <2>3, <2>5
<1>3. ASSUME NEW i \in a..n, LastAt(t, m, i, a, n)
      PROVE  \/ q.t[m] = t[i].t /\ q.dur[m] = t[i].dur[m] /\ q.src[m] = t[i].src
             \/ q.src[m] = NoSource /\ t[n].t - t[i].t > Forget
  <2>1. CASE Place(t, m, n)
    <3>1. i = n
      BY <1>3, <2>1, LastStays
    <3> QED
      BY <2>1, <3>1 DEF SavedOf
  <2>2. CASE ~Place(t, m, n)
    <3>1. i # n /\ LastAt(s, m, i, a, b)
      BY <1>3, <2>2, LastStays
    <3>2. \/ pre.t[m] = t[i].t /\ pre.dur[m] = t[i].dur[m] /\ pre.src[m] = t[i].src
          \/ pre.src[m] = NoSource /\ t[n].t - t[i].t > Forget
      BY <1>2, <3>1
    <3> QED
      BY <2>2, <3>2 DEF SavedOf
  <2> QED
    BY <2>1, <2>2
<1>4. ASSUME NEW j \in (a + 1)..n, NEW i \in a..(j - 1), Follows(t, m, i, j), ~Place(o, m, j)
      PROVE  InTime(t, m, i, j) \/ t[j].t - t[i].t > Forget
  <2>1. i \in a..n
    BY <1>4
  <2>2. CASE j # n
    <3>1. j \in a..b /\ j \in (a + 1)..b /\ i \in a..b
      BY <1>4, <2>2
    <3>2. Follows(s, m, i, j) /\ (InTime(t, m, i, j) <=> InTime(s, m, i, j))
      BY <1>4, <2>1, <3>1, FollowsStays
    <3>3. t[i] = s[i] /\ t[j] = s[j]
      BY <1>1, <3>1
    <3> QED
      BY <1>4, <3>1, <3>2, <3>3 DEF JoinsOnTime
  <2>3. CASE j = n
    <3>1. Follows(t, m, i, n)
      BY <1>4, <2>3
    <3>2. i # n /\ LastAt(s, m, i, a, b) /\ Place(t, m, n)
      BY <2>1, <3>1, LastStays DEF Follows
    <3>3. \/ pre.t[m] = t[i].t /\ pre.dur[m] = t[i].dur[m] /\ pre.src[m] = t[i].src
          \/ t[n].t - t[i].t > Forget
      BY <1>2, <2>1, <3>2
    <3>4. OnArrival(t, pre, m, n) /\ t[i].src # NoSource
      BY <1>1, <1>4, <2>1, <2>3, <3>2
    <3> QED
      BY <2>3, <3>3, <3>4 DEF OnArrival, InTime
  <2> QED
    BY <2>2, <2>3
<1> QED
    BY <1>3, <1>4 DEF Remembers, JoinsOnTime

\* TAGALONG finds the scans as they were, and leaves their times.
LEMMA TagFinds ==
    ASSUME Loop, Synced, Following, walk.phase = "visit", job.cmd = "TAGALONG"
    PROVE  /\ InOrder(scans, walk.entry, ircur) /\ scans[ircur] = was.scans[ircur]
<1> DEFINE n == nobs
           s == scans
           o == was.scans
           k == Len(o)
<1>1. /\ s \in Seq(Records) /\ n \in Nat /\ DOMAIN s = 1..n /\ ircur \in 1..n /\ n = Len(s)
      /\ walk.entry \in Nat \ {0} /\ Touched = ircur - 1
    BY HereIs DEF nobs, Touched
<1>2. o \in Schedules
    BY DEF Loop
<1>3. k \in Nat /\ DOMAIN o = 1..k /\ (\A i \in DOMAIN o : o[i].t \in Nat)
      /\ \A i, j \in DOMAIN o : i < j => o[i].t <= o[j].t
    BY <1>2, ScheduleFacts, TableAssumption
<1>4. /\ \E from \in [DOMAIN s -> DOMAIN o] :
          /\ \A i, j \in DOMAIN s : i < j => from[i] < from[j]
          /\ \A i \in DOMAIN s : IF i <= ircur - 1 THEN Does(job, s[i], o[from[i]])
                                                   ELSE s[i] = o[from[i]]
      /\ Len(s) = k
    BY <1>1 DEF Following, Traced
<1>5. PICK from \in [DOMAIN s -> DOMAIN o] :
          /\ \A i, j \in DOMAIN s : i < j => from[i] < from[j]
          /\ \A i \in DOMAIN s : IF i <= ircur - 1 THEN Does(job, s[i], o[from[i]])
                                                   ELSE s[i] = o[from[i]]
    BY <1>4
<1>6. \A i \in DOMAIN s : s[i].src \in Sources
    BY SourcesKept
<1> HIDE DEF n, s, o, k
<1>7. n = k /\ from \in [1..n -> 1..k] /\ \A i, j \in 1..n : i < j => from[i] < from[j]
    BY <1>1, <1>3, <1>4, <1>5
<1>8. \A i \in 1..n : from[i] = i
    BY <1>1, <1>3, <1>7, Increasing
<1>9. \A i \in 1..n : s[i].t = o[i].t
  <2> SUFFICES ASSUME NEW i \in 1..n PROVE s[i].t = o[i].t
    OBVIOUS
  <2>1. CASE s[i] = o[i]
    BY <2>1
  <2>2. CASE Does(job, s[i], o[i])
    <3>1. SameBut(job.who, s[i], o[i])
      BY <2>2 DEF Does
    <3> QED
      BY <3>1 DEF SameBut
  <2> QED
    BY <1>1, <1>5, <1>8, <2>1, <2>2
<1>10. s[ircur] = o[ircur]
  <2>1. ~(ircur <= ircur - 1)
    BY <1>1
  <2> QED
    BY <1>1, <1>5, <1>8, <2>1
<1>11. NoSource \notin Sources
  <2>1. \A x \in Sources : x \in Nat
    BY TableAssumption
  <2>2. NoSource \notin Nat
    BY DEF NoSource
  <2> QED
    BY <2>1, <2>2
<1>12. InOrder(s, walk.entry, ircur)
  <2>1. \A i \in walk.entry..ircur : i \in 1..n
    BY <1>1
  <2>2. \A i \in 1..n : s[i].t \in Nat /\ s[i].src # NoSource
    BY <1>1, <1>3, <1>6, <1>7, <1>9, <1>11
  <2>3. \A i, j \in 1..n : i < j => s[i].t <= s[j].t
    BY <1>3, <1>7, <1>9
  <2> QED
    BY <2>1, <2>2, <2>3 DEF InOrder
<1> QED
    BY <1>10, <1>12 DEF s, o

\* A turn in which TAGALONG takes its station in.
LEMMA TagTurnsOn ==
    ASSUME Loop, Synced, Following, Tagged, GoingOn, Tag
    PROVE  Tagged'
<1>1. walk.phase = "visit" /\ job.cmd = "TAGALONG"
    BY DEF Tag
<1> DEFINE o == was.scans
           s == scans
           t == scans'
           a == walk.entry
           n == ircur
           b == n - 1
           x == s[n]
           pre == walk.pre
<1>2. /\ s \in Seq(Records) /\ n \in DOMAIN s /\ n \in Nat \ {0} /\ a \in Nat /\ a <= n
      /\ a # 0 /\ Whole(x) /\ Done = b /\ DOMAIN s = 1..nobs /\ nobs \in Nat /\ n <= nobs
    BY <1>1, HereIs
<1>3. Holds(cur, x) /\ cur \in Cursors /\ pre \in Befores /\ Len(cur.sta) >= 2
    BY <1>1, VisitIs DEF Following
<1>4. PICK m \in job.who, long \in Nat :
              LET c == Timed(m, Joined(m, long))
              IN  /\ CanJoin(m) /\ Arrives(m) /\ Replace(c)
                  /\ EndTurn(Forgotten(m), c) /\ Turned(Forgotten(m), c)
    BY TagTurns
<1>5. job.who = {m} /\ m \in Stations
    BY <1>1, VisitIs
<1> DEFINE c == Timed(m, Joined(m, long))
           y == Pakup(c)
           q == Saved(Forgotten(m), c)
<1>6. /\ WithOneMore(c, m) /\ c.t[m] = Instant(cur) /\ c.dur[m] = long /\ c.src[m] = Source(cur)
    BY <1>3, <1>5, JoinedIs
<1> HIDE DEF c
<1>7. /\ CanJoin(m) /\ Arrives(m) /\ Replace(c) /\ EndTurn(Forgotten(m), c)
      /\ c \in Cursors /\ Forgotten(m) \in Befores
    BY <1>4 DEF c, Turned
<1>8. m \notin ToSet(cur.sta)
    BY <1>7 DEF CanJoin
<1>9. /\ Len(c.sta) >= 2 /\ m \in ToSet(c.sta) /\ y.t = x.t /\ y.src = x.src
  <2>1. cur \in Cursors /\ Whole(x) /\ Holds(cur, x) /\ m \notin ToSet(cur.sta)
        /\ WithOneMore(c, m)
    BY <1>2, <1>3, <1>6, <1>8
  <2> HIDE DEF x
  <2>2. /\ Len(c.sta) >= 2 /\ ToSet(c.sta) = ToSet(cur.sta) \cup {m}
        /\ Pakup(c).t = x.t /\ Pakup(c).src = x.src
    BY <1>5, <2>1, OneMoreIs
  <2> QED
    BY <2>2
<1>10. Whole(y) /\ y.sta = c.sta /\ y.dur[m] = c.dur[m]
    BY <1>7, <1>9, PakupIs
<1>11. Instant(cur) = x.t /\ Source(cur) = x.src
    BY <1>2, <1>3, HeldIs
<1>12. q.t[m] = y.t /\ q.dur[m] = y.dur[m] /\ q.src[m] = y.src
  <2>1. q.t[m] = c.t[m] /\ q.dur[m] = c.dur[m] /\ q.src[m] = c.src[m]
    BY <1>5, <1>7, <1>9, SavedIs
  <2> QED
    BY <2>1, <1>6, <1>9, <1>10, <1>11
<1>13. /\ walk'.entry = a /\ Done' = ircur' /\ walk'.pre = q /\ ircur' = n
       /\ t = [s EXCEPT ![n] = y] /\ job' = job /\ was' = was
  <2>1. walk'.phase = "next" /\ walk'.entry = a /\ walk'.pre = q
    BY <1>7, EndTurnIs
  <2>2. ircur' = n /\ t = [s EXCEPT ![n] = y]
    BY <1>2, <1>7 DEF Replace, place
  <2> QED
    BY <2>1, <2>2 DEF Done, GoingOn
<1> HIDE DEF y
<1>14. /\ DOMAIN t = DOMAIN s /\ \A i \in DOMAIN s : t[i] = IF i = n THEN y ELSE s[i]
  <2>1. \A i \in DOMAIN s : Whole(s[i])
    BY DEF Loop
  <2> QED
    BY <1>2, <1>10, <1>13, <2>1, PutAt
<1>15. InOrder(s, a, n) /\ Remembers(s, pre, m, a, b) /\ JoinsOnTime(s, o, m, a, b)
    BY <1>1, <1>2, <1>5, TagFinds DEF Tagged
<1>16. Arrives(m) => pre.src[m] = NoSource
              \/ Ready(pre.t[m], pre.dur[m], pre.src[m], x.src) <= x.t
    BY <1>11 DEF Arrives, ReadyAt
<1> HIDE DEF o, s, t, a, x, pre, q, n, b
<1>17. b = n - 1 /\ x = s[n]
    BY DEF b, x, s, n
<1>18. \A i \in a..n : i \in DOMAIN s
    BY <1>2
<1>19. InOrder(t, a, n)
  <2>1. \A i \in a..n : t[i].t = s[i].t /\ t[i].src = s[i].src
    BY <1>9, <1>14, <1>17, <1>18
  <2> QED
    BY <1>15, <2>1 DEF InOrder
<1>20. SameUpto(s, t, a, b)
  <2>1. \A i \in a..b : i \in a..n /\ i # n
    BY <1>2, <1>17
  <2> QED
    BY <1>14, <1>18, <2>1 DEF SameUpto
<1>21. t[n] = y
    BY <1>2, <1>14
<1>22. SavedOf(t, pre, q, m, n)
    BY <1>9, <1>10, <1>12, <1>21 DEF SavedOf, Place
<1>23. OnArrival(t, pre, m, n)
    BY <1>7, <1>9, <1>16, <1>21 DEF OnArrival
<1>24. Remembers(t, q, m, a, n) /\ JoinsOnTime(t, o, m, a, n)
    BY <1>2, <1>15, <1>17, <1>19, <1>20, <1>22, <1>23, MoreTagged
<1> QED
    BY <1>5, <1>13, <1>24 DEF Tagged, t, o

\* A turn in which it does not.
LEMMA NoTagTurnsOn ==
    ASSUME Loop, Synced, Following, Tagged, GoingOn, NoTag
    PROVE  Tagged'
<1>1. walk.phase = "visit" /\ job.cmd = "TAGALONG" /\ Staying
    BY DEF NoTag
<1> DEFINE o == was.scans
           s == scans
           a == walk.entry
           n == ircur
           b == n - 1
           x == s[n]
           pre == walk.pre
           q == walk'.pre
<1>2. /\ s \in Seq(Records) /\ n \in DOMAIN s /\ n \in Nat \ {0} /\ a \in Nat /\ a <= n
      /\ a # 0 /\ Whole(x) /\ Done = b
    BY <1>1, HereIs
<1>3. Holds(cur, x) /\ cur \in Cursors /\ pre \in Befores /\ Len(cur.sta) >= 2
    BY <1>1, VisitIs DEF Following
<1>4. PICK m \in job.who :
                \/ Turned(walk.pre, cur)
                \/ /\ m \notin ToSet(cur.sta)
                   /\ Turned(Forgotten(m), cur)
    BY NoTagTurns
<1>5. job.who = {m} /\ m \in Stations
    BY <1>1, VisitIs
<1>6. /\ Forgotten(m) \in Befores
      /\ Forgotten(m).t = walk.pre.t /\ Forgotten(m).dur = walk.pre.dur
      /\ Forgotten(m).src[m] =
            IF Instant(cur) - walk.pre.t[m] > Forget THEN NoSource ELSE walk.pre.src[m]
    BY <1>3, <1>5, ForgottenIs
<1>7. Instant(cur) = x.t /\ cur.sta = x.sta
    BY <1>2, <1>3, HeldIs
<1>8. /\ walk'.entry = a /\ Done' = ircur' /\ ircur' = n /\ scans' = s /\ job' = job
      /\ was' = was /\ \/ q = Saved(pre, cur)
                       \/ q = Saved(Forgotten(m), cur) /\ m \notin ToSet(cur.sta)
  <2>1. /\ walk'.phase = "next" /\ walk'.entry = a
        /\ \/ q = Saved(pre, cur)
           \/ q = Saved(Forgotten(m), cur) /\ m \notin ToSet(cur.sta)
    BY <1>3, <1>4, <1>6, EndTurnIs DEF Turned
  <2> QED
    BY <1>1, <2>1 DEF Done, Staying, place, GoingOn
<1>9. SavedOf(s, pre, q, m, n)
  <2>1. CASE q = Saved(pre, cur)
    <3>1. /\ m \in ToSet(cur.sta) => q.t[m] = cur.t[m] /\ q.dur[m] = cur.dur[m] /\ q.src[m] = cur.src[m]
          /\ m \notin ToSet(cur.sta) => q.t[m] = pre.t[m] /\ q.dur[m] = pre.dur[m] /\ q.src[m] = pre.src[m]
      BY <1>3, <1>5, <2>1, SavedIs
    <3> QED
      BY <1>3, <1>7, <3>1 DEF SavedOf, Place, Holds
  <2>2. CASE q = Saved(Forgotten(m), cur) /\ m \notin ToSet(cur.sta)
    <3> DEFINE f == Forgotten(m)
    <3>1. f \in Befores /\ q = Saved(f, cur)
      BY <1>6, <2>2
    <3>2. f.t = pre.t /\ f.dur = pre.dur
          /\ (f.src[m] = pre.src[m] \/ (f.src[m] = NoSource /\ x.t - pre.t[m] > Forget))
      BY <1>6, <1>7
    <3> HIDE DEF f, q
    <3>3. q.t[m] = f.t[m] /\ q.dur[m] = f.dur[m] /\ q.src[m] = f.src[m]
      BY <1>3, <1>5, <2>2, <3>1, SavedIs
    <3> QED
      BY <1>7, <2>2, <3>2, <3>3 DEF SavedOf, Place
  <2> QED
    BY <1>8, <2>1, <2>2
<1>10. InOrder(s, a, n) /\ x = o[n] /\ Remembers(s, pre, m, a, b) /\ JoinsOnTime(s, o, m, a, b)
    BY <1>1, <1>2, <1>5, TagFinds DEF Tagged
<1> HIDE DEF o, s, a, pre, q, n, b
<1>11. b = n - 1
    BY DEF b
<1>12. SameUpto(s, s, a, b)
    BY DEF SameUpto
<1>13. ~(Place(s, m, n) /\ ~Place(o, m, n))
    BY <1>10 DEF Place
<1>14. Remembers(s, q, m, a, n) /\ JoinsOnTime(s, o, m, a, n)
    BY <1>2, <1>9, <1>10, <1>11, <1>12, <1>13, MoreTagged
<1> QED
    BY <1>5, <1>8, <1>14 DEF Tagged, q, o

-----------------------------------------------------------------------------
(* UNTAG. *)

\* The time a station is ready is a time.
LEMMA ReadyType ==
    ASSUME NEW t \in Nat, NEW d \in Nat, NEW src, NEW next
    PROVE  Ready(t, d, src, next) \in Nat
<1>1. PICK k \in Nat : Ready(t, d, src, next) = t + d + k
    BY ReadyIs
<1> QED
    BY <1>1

\* No source has the number that stands for none.
LEMMA RealSources == NoSource \notin Sources
<1>1. \A x \in Sources : x \in Nat
    BY TableAssumption
<1>2. NoSource \notin Nat
    BY DEF NoSource
<1> QED
    BY <1>1, <1>2

\* Who is on time for a scan would be ready later after it than without it.
LEMMA Farther ==
    ASSUME NEW t \in Nat, NEW d \in Nat, NEW u \in Nat, NEW e \in Nat,
           NEW p \in Sources, NEW r \in Sources, Ready(t, d, p, r) <= u
    PROVE  \A src \in Sources : Ready(t, d, p, src) <= Ready(u, e, r, src)
<1> SUFFICES ASSUME NEW src \in Sources
             PROVE  Ready(t, d, p, src) <= Ready(u, e, r, src)
    OBVIOUS
<1>1. p # NoSource /\ r # NoSource /\ Slew \in Nat
    BY RealSources, TableAssumption
<1> DEFINE k(from, to) == IF from \in {NoSource, to} THEN 0 ELSE Slew
<1>2. /\ Ready(t, d, p, r) = t + d + k(p, r)
      /\ Ready(t, d, p, src) = t + d + k(p, src)
      /\ Ready(u, e, r, src) = u + e + k(r, src)
    BY DEF Ready
<1>3. /\ k(p, r) \in Nat /\ k(p, src) \in Nat /\ k(r, src) \in Nat
      /\ k(p, src) <= k(p, r) + k(r, src)
    BY <1>1
<1> HIDE DEF k
<1> QED
    BY <1>2, <1>3

Proper(s, a, n) ==
    \A i \in a..n : s[i].t \in Nat /\ s[i].src \in Sources /\ \A m \in Stations : s[i].dur[m] \in Nat

\* The last scan leaves time for one PRE allows.
LEMMA InTimeForThis ==
    ASSUME NEW a \in Nat, NEW b \in Int, NEW s, Proper(s, a, b), NEW m \in Stations,
           NEW pre \in Befores, Outlasts(s, pre, m, a, b), NEW i \in a..b, LastAt(s, m, i, a, b),
           NEW src \in Sources, NEW time \in Nat,
           pre.src[m] = NoSource \/ Ready(pre.t[m], pre.dur[m], pre.src[m], src) <= time
    PROVE  Ready(s[i].t, s[i].dur[m], s[i].src, src) <= time
<1>1. /\ pre.src[m] # NoSource
      /\ Ready(s[i].t, s[i].dur[m], s[i].src, src) <= Ready(pre.t[m], pre.dur[m], pre.src[m], src)
    BY DEF Outlasts
<1>2. pre.t[m] \in Nat /\ pre.dur[m] \in Nat /\ s[i].t \in Nat /\ s[i].dur[m] \in Nat
    BY DEF Befores, Proper
<1> DEFINE x == Ready(s[i].t, s[i].dur[m], s[i].src, src)
           y == Ready(pre.t[m], pre.dur[m], pre.src[m], src)
<1>3. x \in Nat /\ y \in Nat
    BY <1>2, ReadyType
<1>4. x <= y /\ y <= time
    BY <1>1
<1> HIDE DEF x, y
<1>5. x <= time
    BY <1>3, <1>4
<1> QED
    BY <1>5 DEF x

\* What PRE says of a station after the turn at place n, and whom it leaves there.
LeftAt(t, pre, q, m, n) ==
    IF Place(t, m, n)
      THEN /\ q.t[m] = t[n].t /\ q.dur[m] = t[n].dur[m] /\ q.src[m] = t[n].src
           /\ OnArrival(t, pre, m, n)
      ELSE q.t[m] = pre.t[m] /\ q.dur[m] = pre.dur[m] /\ q.src[m] = pre.src[m]

\* One scan more: PRE allows the station no less time than it needs, and who
\* is left came in time.
LEMMA MoreUntagged ==
    ASSUME NEW a \in Nat, NEW n \in Nat, a <= n, NEW b, b = n - 1,
           NEW s, NEW t, SameUpto(s, t, a, b), Proper(t, a, n),
           NEW pre \in Befores, NEW q,
           NEW m \in Stations, Outlasts(s, pre, m, a, b), LeftAt(t, pre, q, m, n),
           \A j \in a..b : \A i \in a..(j - 1) : Follows(s, m, i, j) => InTime(s, m, i, j)
    PROVE  /\ Outlasts(t, q, m, a, n)
           /\ \A j \in a..n : \A i \in a..(j - 1) : Follows(t, m, i, j) => InTime(t, m, i, j)
<1>1. /\ \A i \in a..b : i \in a..n /\ t[i] = s[i]
      /\ n \in a..n /\ b \in Int
    BY DEF SameUpto
<1>2. Proper(s, a, b)
    BY <1>1 DEF Proper
<1>3. t[n].t \in Nat /\ t[n].src \in Sources /\ t[n].dur[m] \in Nat
    BY <1>1 DEF Proper
<1>4. ASSUME NEW i \in a..n, LastAt(t, m, i, a, n)
      PROVE  /\ q.src[m] # NoSource
             /\ \A src \in Sources : Ready(t[i].t, t[i].dur[m], t[i].src, src)
                                         <= Ready(q.t[m], q.dur[m], q.src[m], src)
  <2>1. CASE Place(t, m, n)
    <3>1. i = n
      BY <1>4, <2>1, LastStays
    <3>2. q.t[m] = t[n].t /\ q.dur[m] = t[n].dur[m] /\ q.src[m] = t[n].src
      BY <2>1 DEF LeftAt
    <3>3. \A src \in Sources : Ready(t[n].t, t[n].dur[m], t[n].src, src) \in Nat
      BY <1>3, ReadyType
    <3>4. \A src \in Sources : Ready(t[n].t, t[n].dur[m], t[n].src, src)
                                   <= Ready(t[n].t, t[n].dur[m], t[n].src, src)
      BY <3>3
    <3> QED
      BY <1>3, <3>1, <3>2, <3>4, RealSources
  <2>2. CASE ~Place(t, m, n)
    <3>1. i # n /\ LastAt(s, m, i, a, b)
      BY <1>4, <2>2, LastStays
    <3>2. i \in a..b /\ t[i] = s[i]
      BY <1>1, <1>4, <3>1
    <3>3. /\ pre.src[m] # NoSource
          /\ \A src \in Sources : Ready(s[i].t, s[i].dur[m], s[i].src, src)
                                      <= Ready(pre.t[m], pre.dur[m], pre.src[m], src)
      BY <3>1, <3>2 DEF Outlasts
    <3> QED
      BY <2>2, <3>2, <3>3 DEF LeftAt
  <2> QED
    BY <2>1, <2>2
<1>5. ASSUME NEW j \in a..n, NEW i \in a..(j - 1), Follows(t, m, i, j)
      PROVE  InTime(t, m, i, j)
  <2>1. i \in a..n
    BY <1>5
  <2>2. CASE j # n
    <3>1. j \in a..b
      BY <1>5, <2>2
    <3>2. Follows(s, m, i, j) /\ (InTime(t, m, i, j) <=> InTime(s, m, i, j))
      BY <1>5, <2>1, <3>1, FollowsStays
    <3> QED
      BY <1>5, <3>1, <3>2
  <2>3. CASE j = n
    <3>1. i # n /\ LastAt(s, m, i, a, b) /\ Place(t, m, n)
      BY <1>5, <2>1, <2>3, LastStays DEF Follows
    <3>2. i \in a..b /\ t[i] = s[i]
      BY <1>1, <2>1, <3>1
    <3>3. pre.src[m] = NoSource \/ Ready(pre.t[m], pre.dur[m], pre.src[m], t[n].src) <= t[n].t
      BY <3>1 DEF LeftAt, OnArrival
    <3> DEFINE src == t[n].src
               time == t[n].t
    <3>4. src \in Sources /\ time \in Nat
          /\ (pre.src[m] = NoSource \/ Ready(pre.t[m], pre.dur[m], pre.src[m], src) <= time)
      BY <1>3, <3>3
    <3> HIDE DEF src, time
    <3>5. Ready(s[i].t, s[i].dur[m], s[i].src, src) <= time
      BY <1>1, <1>2, <3>1, <3>2, <3>4, InTimeForThis
    <3> QED
      BY <2>3, <3>2, <3>5 DEF InTime, src, time
  <2> QED
    BY <2>2, <2>3
<1> QED
    BY <1>4, <1>5 DEF Outlasts

\* The scan x at place n is deleted; PRE has what it would have had with it.
LEMMA UntaggedOff ==
    ASSUME NEW a \in Nat, NEW b \in Int, NEW s, NEW t, SameUpto(s, t, a, b), Proper(s, a, b),
           NEW pre \in Befores, NEW q, NEW m \in Stations, Outlasts(s, pre, m, a, b),
           NEW x, x.t \in Nat, x.src \in Sources, x.dur[m] \in Nat,
           \/ q.t[m] = pre.t[m] /\ q.dur[m] = pre.dur[m] /\ q.src[m] = pre.src[m]
           \/ /\ q.t[m] = x.t /\ q.dur[m] = x.dur[m] /\ q.src[m] = x.src
              /\ \/ pre.src[m] = NoSource
                 \/ Ready(pre.t[m], pre.dur[m], pre.src[m], x.src) <= x.t
    PROVE  Outlasts(t, q, m, a, b)
<1>1. ASSUME NEW i \in a..b, LastAt(t, m, i, a, b)
      PROVE  LastAt(s, m, i, a, b) /\ t[i] = s[i]
  <2>1. \A k \in (i + 1)..b : k \in a..b
    OBVIOUS
  <2> QED
    BY <1>1, <2>1 DEF LastAt, SameUpto, Place
<1>2. ASSUME NEW i \in a..b, LastAt(t, m, i, a, b)
      PROVE  /\ q.src[m] # NoSource
             /\ \A src \in Sources : Ready(t[i].t, t[i].dur[m], t[i].src, src)
                                         <= Ready(q.t[m], q.dur[m], q.src[m], src)
  <2>1. LastAt(s, m, i, a, b) /\ t[i] = s[i]
    BY <1>1, <1>2
  <2>2. CASE q.t[m] = pre.t[m] /\ q.dur[m] = pre.dur[m] /\ q.src[m] = pre.src[m]
    BY <2>1, <2>2 DEF Outlasts
  <2>3. CASE /\ q.t[m] = x.t /\ q.dur[m] = x.dur[m] /\ q.src[m] = x.src
             /\ \/ pre.src[m] = NoSource
                \/ Ready(pre.t[m], pre.dur[m], pre.src[m], x.src) <= x.t
    <3> DEFINE u == x.t
               e == x.dur[m]
               r == x.src
               from == s[i].t
               d == s[i].dur[m]
               p == s[i].src
    <3>1. /\ u \in Nat /\ e \in Nat /\ r \in Sources /\ from \in Nat /\ d \in Nat /\ p \in Sources
          /\ \/ pre.src[m] = NoSource
             \/ Ready(pre.t[m], pre.dur[m], pre.src[m], r) <= u
      BY <2>3 DEF Proper
    <3> HIDE DEF u, e, r
    <3>2. Ready(from, d, p, r) <= u
      BY <2>1, <3>1, InTimeForThis
    <3> HIDE DEF from, d, p
    <3>3. \A src \in Sources : Ready(from, d, p, src) <= Ready(u, e, r, src)
      BY <3>1, <3>2, Farther
    <3> QED
      BY <2>1, <2>3, <3>1, <3>3, RealSources DEF u, e, r, from, d, p
  <2> QED
    BY <2>2, <2>3
<1> QED
    BY <1>2 DEF Outlasts

\* Nothing is asked of the first scan.
LEMMA UntagFirstTurnsOn ==
    ASSUME Loop, Synced, Following, Untagged, GoingOn, UntagFirst
    PROVE  Untagged'
<1>1. /\ walk.phase = "visit" /\ walk.first /\ Staying /\ job.cmd = "UNTAG"
      /\ \E c : Turned(walk.pre, c)
    BY UntagFirstTurns DEF UntagFirst
<1>2. walk'.phase = "next" /\ ~walk'.first /\ walk'.entry = walk.entry
    BY <1>1, EndTurnIs DEF Turned
<1>3. ircur' = ircur /\ ircur = walk.entry /\ ircur \in Nat /\ Done' = ircur'
    BY <1>1, <1>2, HereIs DEF Untagged, Staying, place, Done
<1>4. \A m : Outlasts(scans', walk'.pre, m, walk.entry + 1, ircur)
      /\ AllOnTime(scans', walk.entry + 1, ircur)
  <2>1. \A i : i \notin (ircur + 1)..ircur
    BY <1>3
  <2> QED
    BY <1>3, <2>1 DEF Outlasts, AllOnTime
<1>5. walk'.entry <= ircur'
    BY <1>2, <1>3
<1> QED
    BY <1>2, <1>3, <1>4, <1>5 DEF Untagged

\* A turn of UNTAG.
LEMMA UntagTurnsOn ==
    ASSUME Loop, Synced, Following, Untagged, GoingOn, Untag
    PROVE  Untagged'
<1>1. walk.phase = "visit" /\ job.cmd = "UNTAG" /\ ~walk.first
    BY DEF Untag
<1> DEFINE s == scans
           t == scans'
           a == walk.entry + 1
           n == ircur
           b == n - 1
           x == s[n]
           pre == walk.pre
           q == walk'.pre
<1>2. /\ s \in Seq(Records) /\ n \in DOMAIN s /\ n \in 1..nobs /\ walk.entry \in Nat \ {0}
      /\ Whole(x) /\ Done = b /\ DOMAIN s = 1..nobs /\ nobs \in Nat
    BY <1>1, HereIs
<1>3. Holds(cur, x) /\ cur \in Cursors /\ pre \in Befores /\ Len(cur.sta) >= 2
    BY <1>1, VisitIs DEF Following
<1>4. walk.entry < n
    BY <1>1 DEF Untagged
<1>5. PICK bad \in SUBSET ToSet(cur.sta) :
                LET c == [cur EXCEPT !.sta = Without(@, bad)]
                IN  /\ job.clear => \A m \in ToSet(cur.sta) : Late(m) => m \in bad
                    /\ c \in Cursors /\ c.sta = Without(cur.sta, bad)
                    /\ c.t = cur.t /\ c.src = cur.src /\ c.dur = cur.dur
                    /\ ToSet(c.sta) = ToSet(cur.sta) \ bad
                    /\ (Len(c.sta) >= 2 /\ Replace(c)) \/ Delete
                    /\ Turned(walk.pre, c)
    BY UntagTurns
<1> DEFINE c == [cur EXCEPT !.sta = Without(@, bad)]
<1>6. /\ job.clear => \A m \in ToSet(cur.sta) : Late(m) => m \in bad
      /\ c \in Cursors /\ c.sta = Without(cur.sta, bad)
      /\ c.t = cur.t /\ c.src = cur.src /\ c.dur = cur.dur
      /\ ToSet(c.sta) = ToSet(cur.sta) \ bad
      /\ (Len(c.sta) >= 2 /\ Replace(c)) \/ Delete
      /\ EndTurn(pre, c)
    BY <1>5 DEF Turned
<1> HIDE DEF c
<1>7. /\ walk'.phase = "next" /\ ~walk'.first /\ walk'.entry = walk.entry
      /\ q = Saved(pre, c) /\ job' = job
  <2>1. walk.pre \in Befores
    BY <1>3
  <2> QED
    BY <1>6, <2>1, EndTurnIs DEF GoingOn
<1>8. ircur' = IF Delete THEN b ELSE n
  <2>1. CASE Delete
    <3>1. ircur' = IF nobs = 1 THEN 0 ELSE IF ircur > 1 THEN ircur - 1 ELSE ircur
      BY <2>1 DEF Delete
    <3>2. nobs # 1 /\ n > 1
      BY <1>2, <1>4
    <3> QED
      BY <2>1, <3>1, <3>2
  <2>2. CASE ~Delete
    BY <1>6, <2>2 DEF Replace, place
  <2> QED
    BY <2>1, <2>2
<1>9. walk.entry <= ircur' /\ Done' = ircur'
    BY <1>2, <1>4, <1>7, <1>8 DEF Done
\* Those who stay have come in time.
<1>10. x.t \in Nat /\ x.src \in Sources /\ x.dur \in [Stations -> Nat] /\ x.sta \in Seq(Stations)
  <2>1. x.src \in Sources
    BY <1>2, SourcesKept
  <2> QED
    BY <1>2, <2>1 DEF Whole, Records
<1>11. Source(cur) = x.src /\ cur.sta = x.sta
    BY <1>2, <1>3, HeldIs
<1>12. ASSUME job.clear, NEW m \in Stations
       PROVE  IF m \in ToSet(c.sta)
                THEN /\ q.t[m] = x.t /\ q.dur[m] = x.dur[m] /\ q.src[m] = x.src
                     /\ \/ pre.src[m] = NoSource
                        \/ Ready(pre.t[m], pre.dur[m], pre.src[m], x.src) <= x.t
                ELSE q.t[m] = pre.t[m] /\ q.dur[m] = pre.dur[m] /\ q.src[m] = pre.src[m]
  <2>1. /\ m \in ToSet(c.sta) => q.t[m] = c.t[m] /\ q.dur[m] = c.dur[m] /\ q.src[m] = c.src[m]
        /\ m \notin ToSet(c.sta) => q.t[m] = pre.t[m] /\ q.dur[m] = pre.dur[m] /\ q.src[m] = pre.src[m]
    BY <1>3, <1>6, <1>7, SavedIs
  <2>2. ASSUME m \in ToSet(c.sta)
        PROVE  /\ q.t[m] = x.t /\ q.dur[m] = x.dur[m] /\ q.src[m] = x.src
               /\ \/ pre.src[m] = NoSource
                  \/ Ready(pre.t[m], pre.dur[m], pre.src[m], x.src) <= x.t
    <3>1. m \in ToSet(cur.sta) /\ m \notin bad
      BY <1>6, <2>2
    <3>2. cur.t[m] = x.t /\ cur.src[m] = x.src /\ cur.dur[m] = x.dur[m]
      BY <1>3, <1>11, <3>1 DEF Holds
    <3>3. ~Late(m)
      BY <1>6, <1>12, <3>1
    <3> DEFINE r == Ready(pre.t[m], pre.dur[m], pre.src[m], x.src)
               u == x.t
    <3>4. pre.src[m] = NoSource \/ ~(r > u)
      BY <1>11, <3>2, <3>3 DEF Late, ReadyAt
    <3>5. r \in Nat /\ u \in Nat
      BY <1>3, <1>10, ReadyType DEF Befores
    <3> HIDE DEF r, u
    <3>6. pre.src[m] = NoSource \/ r <= u
      BY <3>4, <3>5
    <3> QED
      BY <1>6, <2>1, <2>2, <3>2, <3>6 DEF r, u
  <2> QED
    BY <2>1, <2>2
<1>13. job.clear => (\A m \in Stations : Outlasts(s, pre, m, a, b)) /\ AllOnTime(s, a, b)
    BY <1>2 DEF Untagged
<1>14. \A i \in a..n : i \in DOMAIN s
    BY <1>2
<1>15. Proper(s, a, n)
  <2>1. \A i \in DOMAIN s : s[i].src \in Sources
    BY SourcesKept
  <2>2. \A i \in DOMAIN s : s[i] \in Records
    BY <1>2
  <2> QED
    BY <1>14, <2>1, <2>2 DEF Proper, Records
<1>16. a \in Nat /\ a <= n /\ n \in Nat /\ b = n - 1 /\ b \in Int /\ a = walk.entry + 1
       /\ \A i \in a..b : i \in a..n /\ i # n /\ i < n /\ i \in DOMAIN s
    BY <1>2, <1>4
<1>17. /\ ~Delete => /\ Len(c.sta) >= 2 /\ t = [s EXCEPT ![n] = Pakup(c)]
       /\ Delete => SameUpto(s, t, a, b)
  <2>1. ~Delete => Len(c.sta) >= 2 /\ t = [s EXCEPT ![n] = Pakup(c)]
    BY <1>2, <1>6 DEF Replace
  <2>2. ASSUME Delete
        PROVE  SameUpto(s, t, a, b)
    <3>1. Visiting
      BY <1>1 DEF Loop
    <3>2. \A k \in 1..(nobs - 1) : t[k] = IF k < n THEN s[k] ELSE s[k + 1]
      BY <1>2, <2>2, <3>1, DeleteIs
    <3>3. \A i \in a..b : i \in 1..(nobs - 1)
      BY <1>2, <1>16
    <3> QED
      BY <1>16, <3>2, <3>3 DEF SameUpto
  <2> QED
    BY <2>1, <2>2
<1> HIDE DEF s, t, a, n, b, x, pre, q
<1>18. ASSUME job.clear, Delete
       PROVE  (\A m \in Stations : Outlasts(t, q, m, a, b)) /\ AllOnTime(t, a, b)
  <2>1. Proper(s, a, b)
    BY <1>15, <1>16 DEF Proper
  <2>2. ASSUME NEW m \in Stations
        PROVE  Outlasts(t, q, m, a, b)
    <3>1. /\ x.t \in Nat /\ x.src \in Sources /\ x.dur[m] \in Nat
          /\ SameUpto(s, t, a, b) /\ Outlasts(s, pre, m, a, b) /\ pre \in Befores
      BY <1>3, <1>10, <1>13, <1>17, <1>18
    <3>2. \/ q.t[m] = pre.t[m] /\ q.dur[m] = pre.dur[m] /\ q.src[m] = pre.src[m]
          \/ /\ q.t[m] = x.t /\ q.dur[m] = x.dur[m] /\ q.src[m] = x.src
             /\ \/ pre.src[m] = NoSource
                \/ Ready(pre.t[m], pre.dur[m], pre.src[m], x.src) <= x.t
      BY <1>12, <1>18
    <3> QED
      BY <1>16, <2>1, <3>1, <3>2, UntaggedOff
  <2>3. AllOnTime(t, a, b)
    <3> SUFFICES ASSUME NEW m \in Stations, NEW j \in a..b, NEW i \in a..(j - 1),
                        Follows(t, m, i, j)
                 PROVE  InTime(t, m, i, j)
      BY DEF AllOnTime
    <3>1. i \in a..n
      BY <1>16
    <3>2. Follows(s, m, i, j) /\ (InTime(t, m, i, j) <=> InTime(s, m, i, j))
      BY <1>16, <1>17, <1>18, <3>1, FollowsStays
    <3> QED
      BY <1>13, <1>18, <3>2 DEF AllOnTime
  <2> QED
    BY <2>2, <2>3
<1>19. ASSUME job.clear, ~Delete
       PROVE  (\A m \in Stations : Outlasts(t, q, m, a, n)) /\ AllOnTime(t, a, n)
  <2> DEFINE y == Pakup(c)
  <2>1. /\ y.t = x.t /\ y.src = x.src /\ y.sta = c.sta
        /\ \A k \in ToSet(y.sta) : y.dur[k] = x.dur[k]
    <3>1. WithFewer(c, bad) /\ c \in Cursors /\ Len(c.sta) >= 2
      BY <1>6, <1>17, <1>19 DEF WithFewer
    <3>2. y.t = x.t /\ y.src = x.src /\ \A k \in ToSet(y.sta) : y.dur[k] = x.dur[k]
      BY <1>2, <1>3, <3>1, FewerLeft
    <3>3. y.sta = c.sta
      BY <3>1, PakupIs
    <3> QED
      BY <3>2, <3>3
  <2>2. Whole(y)
    BY <1>6, <1>17, <1>19, PakupIs
  <2> HIDE DEF y
  <2>3. \A i \in DOMAIN s : t[i] = IF i = n THEN y ELSE s[i]
    BY <1>17, <1>19 DEF y
  <2>4. t[n] = y
    BY <1>2, <2>3
  <2>5. SameUpto(s, t, a, b)
    BY <1>16, <2>3 DEF SameUpto
  <2>6. Proper(t, a, n)
    <3> SUFFICES ASSUME NEW i \in a..n
                 PROVE  /\ t[i].t \in Nat /\ t[i].src \in Sources
                        /\ \A m \in Stations : t[i].dur[m] \in Nat
      BY DEF Proper
    <3>1. CASE i = n
      BY <1>10, <2>1, <2>2, <2>4, <3>1 DEF Whole, Records
    <3>2. CASE i # n
      <4>1. t[i] = s[i]
        BY <1>14, <2>3, <3>2
      <4> QED
        BY <1>15, <4>1 DEF Proper
    <3> QED
      BY <3>1, <3>2
  <2>7. ASSUME NEW m \in Stations
        PROVE  /\ Outlasts(t, q, m, a, n)
               /\ \A j \in a..n : \A i \in a..(j - 1) : Follows(t, m, i, j) => InTime(t, m, i, j)
    <3>1. LeftAt(t, pre, q, m, n)
      BY <1>12, <1>19, <2>1, <2>4 DEF LeftAt, Place, OnArrival
    <3>2. \A j \in a..b : \A i \in a..(j - 1) : Follows(s, m, i, j) => InTime(s, m, i, j)
      BY <1>13, <1>19 DEF AllOnTime
    <3>3. Outlasts(s, pre, m, a, b)
      BY <1>13, <1>19
    <3> QED
      BY <1>3, <1>16, <2>5, <2>6, <3>1, <3>2, <3>3, MoreUntagged
  <2> QED
    BY <2>7 DEF AllOnTime
<1>20. job.clear => (\A m \in Stations : Outlasts(t, q, m, a, ircur')) /\ AllOnTime(t, a, ircur')
    BY <1>8, <1>18, <1>19
<1> QED
    BY <1>7, <1>9, <1>16, <1>20 DEF Untagged, t, q

-----------------------------------------------------------------------------
(* SHIFT. *)

\* A station that has been met has a last scan.
LEMMA MetLast ==
    ASSUME NEW a \in Nat, NEW n \in Nat, NEW s, NEW m, NEW k \in a..n, Place(s, m, k)
    PROVE  \E i \in a..n : LastAt(s, m, i, a, n)
<1> DEFINE W == {i \in a..n : Place(s, m, i) /\ i # 0}
<1>1. CASE k = 0 /\ W = {}
  <2>1. \A i \in (k + 1)..n : ~Place(s, m, i)
    BY <1>1
  <2> QED
    BY <2>1 DEF LastAt
<1>2. CASE W # {}
  <2>1. W \in SUBSET (1..n)
    OBVIOUS
  <2> DEFINE i == Max(W)
  <2>2. i \in W /\ \A j \in W : j <= i
    <3> HIDE DEF W
    <3> QED
      BY <1>2, <2>1, MaxOfPlaces
  <2> HIDE DEF i
  <2>3. \A j \in (i + 1)..n : ~Place(s, m, j)
    <3> SUFFICES ASSUME NEW j \in (i + 1)..n, Place(s, m, j) PROVE FALSE
      OBVIOUS
    <3>1. i \in Nat /\ i \in a..n
      BY <2>2
    <3>2. j \in a..n /\ j # 0 /\ ~(j <= i)
      BY <3>1
    <3> QED
      BY <2>2, <3>2
  <2> QED
    BY <2>2, <2>3 DEF LastAt
<1>3. k = 0 \/ W # {}
    OBVIOUS
<1> QED
    BY <1>1, <1>2, <1>3

\* Who is known depends on the scans before.
LEMMA KnownStays ==
    ASSUME NEW a \in Nat, NEW n \in Int, NEW s, NEW t, SameUpto(s, t, a, n)
    PROVE  /\ \A m : \A i \in a..(n + 1) : KnownTo(t, a, m, i) <=> KnownTo(s, a, m, i)
           /\ \A m : \A i \in a..n : Moved(t, a, m, i) <=> Moved(s, a, m, i)
<1>1. \A m : \A i \in a..(n + 1) : KnownTo(t, a, m, i) <=> KnownTo(s, a, m, i)
  <2> SUFFICES ASSUME NEW m, NEW i \in a..(n + 1)
               PROVE  KnownTo(t, a, m, i) <=> KnownTo(s, a, m, i)
    OBVIOUS
  <2>1. \A k \in a..(i - 1) : t[k] = s[k]
    BY DEF SameUpto
  <2> QED
    BY <2>1 DEF KnownTo, Place
<1>2. \A m : \A i \in a..n : Moved(t, a, m, i) <=> Moved(s, a, m, i)
  <2> SUFFICES ASSUME NEW m, NEW i \in a..n
               PROVE  Moved(t, a, m, i) <=> Moved(s, a, m, i)
    OBVIOUS
  <2>1. t[i] = s[i] /\ i \in a..(n + 1)
    BY DEF SameUpto
  <2> QED
    BY <1>1, <2>1 DEF Moved
<1> QED
    BY <1>1, <1>2

\* One scan moved: all the stations PRE knows have the time from their scan
\* before.
LEMMA MoreMoved ==
    ASSUME NEW a \in Nat, NEW p \in Nat, NEW n, n = p - 1, a <= n,
           NEW s, NEW t, SameUpto(s, t, a, n), Proper(s, a, n),
           NEW pre \in Befores, NEW latest,
           \A m \in Stations : Recalls(s, pre, m, a, n), MovedOnTime(s, a, n),
           \A m \in Stations : Place(t, m, p) =>
              Ready(pre.t[m], pre.dur[m], pre.src[m], t[p].src) <= latest,
           Head(t[p].sta) \in Stations,
           pre.src[Head(t[p].sta)] # NoSource => t[p].t = latest
    PROVE  /\ MovedOnTime(t, a, p)
           /\ \A m \in Stations : Recalls(t, pre, m, a, n)
           /\ \A m \in Stations : KnownTo(t, a, m, p) => pre.src[m] # NoSource
<1>1. /\ \A i \in a..n : i \in a..p /\ t[i] = s[i] /\ i # p /\ i \in a..(n + 1)
      /\ n \in Nat /\ p = n + 1 /\ p \in a..(n + 1) /\ a # p /\ n = p - 1
    BY DEF SameUpto
<1>2. /\ \A m : \A i \in a..(n + 1) : KnownTo(t, a, m, i) <=> KnownTo(s, a, m, i)
      /\ \A m : \A i \in a..n : Moved(t, a, m, i) <=> Moved(s, a, m, i)
    BY <1>1, KnownStays
<1>3. ASSUME NEW m \in Stations, NEW i \in a..n
      PROVE  LastAt(t, m, i, a, n) <=> LastAt(s, m, i, a, n)
  <2>1. \A k \in (i + 1)..n : k \in a..n
    OBVIOUS
  <2> QED
    BY <1>1, <2>1 DEF LastAt, Place
<1>4. \A m \in Stations : Recalls(t, pre, m, a, n)
    BY <1>1, <1>2, <1>3 DEF Recalls
<1>5. ASSUME NEW m \in Stations, KnownTo(t, a, m, p)
      PROVE  pre.src[m] # NoSource
  <2>1. KnownTo(s, a, m, p)
    BY <1>1, <1>2, <1>5
  <2>2. PICK k \in a..n : Place(s, m, k)
    BY <1>1, <2>1 DEF KnownTo
  <2>3. PICK i \in a..n : LastAt(s, m, i, a, n)
    BY <1>1, <2>2, MetLast
  <2>4. pre.src[m] = s[i].src /\ s[i].src \in Sources
    BY <2>3 DEF Recalls, Proper
  <2> QED
    BY <2>4, RealSources
<1>6. MovedOnTime(t, a, p)
  <2> SUFFICES ASSUME NEW m \in Stations, NEW j \in (a + 1)..p, NEW i \in a..(j - 1),
                      Follows(t, m, i, j), Moved(t, a, m, i), KnownTo(t, a, Head(t[j].sta), j)
               PROVE  InTime(t, m, i, j)
    BY DEF MovedOnTime
  <2>1. i \in a..p /\ i \in a..n
    BY <1>1
  <2>2. CASE j # p
    <3>1. j \in a..n /\ j \in (a + 1)..n
      BY <1>1, <2>2
    <3>2. Follows(s, m, i, j) /\ (InTime(t, m, i, j) <=> InTime(s, m, i, j))
      BY <1>1, <2>1, <3>1, FollowsStays
    <3>3. Moved(s, a, m, i) /\ KnownTo(s, a, Head(s[j].sta), j)
      BY <1>1, <1>2, <2>1, <3>1
    <3> QED
      BY <3>1, <3>2, <3>3 DEF MovedOnTime
  <2>3. CASE j = p
    <3>1. Follows(t, m, i, p) /\ Place(t, m, p) /\ pre.src[Head(t[p].sta)] # NoSource
      BY <1>5, <2>3 DEF Follows
    <3>2. LastAt(s, m, i, a, n)
      BY <1>1, <2>1, <3>1, LastStays
    <3>3. pre.dur[m] = s[i].dur[m] /\ pre.src[m] = s[i].src /\ pre.t[m] = s[i].t
      BY <1>2, <2>1, <3>2 DEF Recalls
    <3>4. Ready(pre.t[m], pre.dur[m], pre.src[m], t[p].src) <= latest /\ t[p].t = latest
      BY <3>1
    <3>5. t[i] = s[i]
      BY <1>1, <2>1
    <3> QED
      BY <2>3, <3>3, <3>4, <3>5 DEF InTime
  <2> QED
    BY <2>2, <2>3
<1> QED
    BY <1>4, <1>5, <1>6

\* A turn of SHIFT: PRE gets the times the scan was moved to.
LEMMA LookTurnsOn ==
    ASSUME Loop, Synced, Following, ShiftedOn, GoingOn, Look, job.cmd = "SHIFT"
    PROVE  ShiftedOn'
<1> DEFINE s == scans
           a == walk.entry
           n == ircur
           b == n - 1
           pre == walk.pre
           q == walk'.pre
<1>1. walk.phase = "visit" /\ Staying /\ EndTurn(pre, cur)
    BY DEF Look
<1>2. /\ n \in Nat /\ a \in Nat /\ a <= n /\ Done = b
    BY <1>1, HereIs
<1>3. cur \in Cursors /\ pre \in Befores
    BY <1>1, VisitIs
<1>4. /\ walk'.phase = "next" /\ walk'.entry = a /\ q = Saved(pre, cur) /\ scans' = s
      /\ ircur' = n /\ job' = job /\ Done' = n
  <2>1. walk'.phase = "next" /\ walk'.entry = a /\ q = Saved(pre, cur)
    BY <1>1, <1>3, EndTurnIs
  <2> QED
    BY <1>1, <2>1 DEF Done, Staying, place, GoingOn
<1>5. job.clear => /\ HoldsMoved(cur, s, a, n) /\ MovedOnTime(s, a, n)
                   /\ \A m \in Stations : Recalls(s, pre, m, a, b)
    BY <1>1, <1>2 DEF ShiftedOn
<1>6. ASSUME NEW m \in Stations
      PROVE  /\ m \in ToSet(cur.sta) => /\ q.t[m] = cur.t[m] /\ q.dur[m] = cur.dur[m]
                                        /\ q.src[m] = cur.src[m]
             /\ m \notin ToSet(cur.sta) => /\ q.t[m] = pre.t[m] /\ q.dur[m] = pre.dur[m]
                                           /\ q.src[m] = pre.src[m]
    BY <1>3, <1>4, SavedIs
<1> HIDE DEF s, a, n, b, pre, q
<1>7. b = n - 1 /\ SameUpto(s, s, a, b)
    BY DEF b, SameUpto
<1>8. ASSUME job.clear, NEW m \in Stations, NEW i \in a..n, LastAt(s, m, i, a, n)
      PROVE  /\ q.dur[m] = s[i].dur[m] /\ q.src[m] = s[i].src
             /\ Moved(s, a, m, i) => q.t[m] = s[i].t
  <2>1. CASE Place(s, m, n)
    <3>1. i = n
      BY <1>2, <1>7, <1>8, <2>1, LastStays
    <3>2. m \in ToSet(cur.sta)
      BY <1>5, <1>8, <2>1 DEF HoldsMoved, Place
    <3> QED
      BY <1>5, <1>6, <1>8, <3>1, <3>2 DEF HoldsMoved
  <2>2. CASE ~Place(s, m, n)
    <3>1. i # n /\ LastAt(s, m, i, a, b)
      BY <1>2, <1>7, <1>8, <2>2, LastStays
    <3>2. i \in a..b
      BY <1>2, <1>7, <3>1
    <3>3. m \notin ToSet(cur.sta)
      BY <1>5, <1>8, <2>2 DEF HoldsMoved, Place
    <3> QED
      BY <1>5, <1>6, <1>8, <3>1, <3>2, <3>3 DEF Recalls
  <2> QED
    BY <2>1, <2>2
<1>9. job.clear => \A m \in Stations : Recalls(s, q, m, a, n)
    BY <1>8 DEF Recalls
<1> QED
    BY <1>2, <1>4, <1>5, <1>9 DEF ShiftedOn, q

\* Reading the next scan, SHIFT moves it behind the latest of the stations
\* PRE knows.
LEMMA NextShiftsOn ==
    ASSUME Loop, Synced, Following, ShiftedOn, GoingOn, GetNext, job.cmd = "SHIFT"
    PROVE  ShiftedOn'
<1> DEFINE s == scans
           t == scans'
           a == walk.entry
           n == ircur
           p == n + 1
           x == s[p]
           c == Unpak(cur, x)
           h == cur'
           pre == walk.pre
<1>1. /\ walk.phase = "next" /\ p \in DOMAIN s /\ ircur' = p
      /\ walk'.phase = "visit" /\ walk'.entry = a /\ walk'.pre = pre
      /\ c \in Cursors /\ Holds(c, x) /\ Len(c.sta) >= 2
      /\ \/ /\ Moves(c) # {} /\ h = Shifted(c)
            /\ t = [s EXCEPT ![p] = Pakup(Shifted(c))]
         \/ /\ Moves(c) = {} \/ ~job.clear
            /\ h = c /\ t = s
    BY NextIs
<1>2. job' = job /\ Done' = n /\ Done = n
  <2>1. n \in Nat
    BY DEF Loop
  <2> QED
    BY <1>1, <2>1 DEF GoingOn, Done
<1>3. CASE ~job.clear
    BY <1>1, <1>2, <1>3 DEF ShiftedOn
<1>4. CASE job.clear
  <2>1. /\ s \in Seq(Records) /\ n \in Nat /\ a \in Nat /\ a <= n /\ pre \in Befores
        /\ a # 0 /\ p \in Nat /\ n = p - 1 /\ DOMAIN s = 1..nobs /\ nobs \in Nat
        /\ \A i \in DOMAIN s : Whole(s[i])
    BY <1>1 DEF Loop, Synced, ShiftedOn, nobs
  <2>2. \A m \in Stations : Recalls(s, pre, m, a, n)
    BY <1>2, <1>4 DEF ShiftedOn
  <2>3. MovedOnTime(s, a, n)
    BY <1>4 DEF ShiftedOn
  <2>4. Whole(x)
    BY <1>1, <2>1
  <2> DEFINE latest == Latest(c)
             head == Head(x.sta)
  <2>5. /\ latest \in Nat /\ \A m \in ToSet(c.sta) : ReadyAt(m, pre, c) <= latest
        /\ \A m \in Stations : Shifted(c).t[m] = IF m \in Moves(c) THEN latest ELSE c.t[m]
        /\ Shifted(c).sta = c.sta /\ Shifted(c).src = c.src /\ Shifted(c).dur = c.dur
    BY <1>1, <2>1, ShiftedIs
  <2>6. c.sta = x.sta /\ Source(c) = x.src /\ head \in ToSet(x.sta)
        /\ \A m \in ToSet(x.sta) : c.t[m] = x.t /\ c.src[m] = x.src /\ c.dur[m] = x.dur[m]
    BY <1>1, <2>4, HeldIs DEF Holds
  <2>7. ToSet(x.sta) \subseteq Stations
    BY <2>4, MembersAt DEF Whole, Records
  <2> HIDE DEF c
\* The stations known are moved to the time when all are ready.
  <2>8. ASSUME NEW m \in ToSet(x.sta), pre.src[m] # NoSource
        PROVE  h.t[m] = latest
    <3>1. m \in Moves(c) \/ c.t[m] = latest
      BY <2>6, <2>8 DEF Moves
    <3>2. m \in Stations
      BY <2>7
    <3> QED
      BY <1>1, <1>4, <2>5, <3>1, <3>2
  <2>9. /\ DOMAIN t = DOMAIN s /\ \A i \in DOMAIN s : i # p => t[i] = s[i]
        /\ t[p].sta = x.sta /\ t[p].src = x.src /\ t[p].dur = x.dur
        /\ t[p].t = h.t[head]
    <3>1. CASE h = Shifted(c) /\ t = [s EXCEPT ![p] = Pakup(Shifted(c))]
      <4> DEFINE y == Pakup(Shifted(c))
      <4>1. /\ y.sta = x.sta /\ y.src = x.src /\ y.dur = x.dur
            /\ y.t = h.t[head]
        BY <1>1, <2>1, <2>4, <3>1, ShiftedScan
      <4> HIDE DEF y
      <4>2. t = [s EXCEPT ![p] = y]
        BY <3>1 DEF y
      <4>3. t[p] = y
        BY <1>1, <4>2
      <4> QED
        BY <4>1, <4>2, <4>3
    <3>2. CASE h = c /\ t = s
      BY <2>6, <3>2
    <3> QED
      BY <1>1, <3>1, <3>2
  <2>10. h.sta = x.sta /\ h.src = c.src /\ h.dur = c.dur
    BY <1>1, <2>5, <2>6
  <2> HIDE DEF h, x, latest, head
  <2>11. \A i \in DOMAIN s : s[i].src \in Sources
    BY SourcesKept
  <2>12. \A i \in a..n : i \in DOMAIN s /\ i # p
    BY <1>1, <2>1
  <2>13. SameUpto(s, t, a, n)
    BY <2>9, <2>12 DEF SameUpto
  <2>14. Proper(s, a, n)
    <3>1. \A i \in DOMAIN s : s[i] \in Records
      BY <2>1
    <3> QED
      BY <2>11, <2>12, <3>1 DEF Proper, Records
  <2> HIDE DEF s, t, a, n, p, pre
  <2>15. \A m \in Stations : Place(t, m, p) =>
              Ready(pre.t[m], pre.dur[m], pre.src[m], t[p].src) <= latest
    BY <2>5, <2>6, <2>9 DEF Place, ReadyAt
  <2>16. head = Head(t[p].sta)
    BY <2>9 DEF head
  <2>17. Head(t[p].sta) \in Stations /\ (pre.src[Head(t[p].sta)] # NoSource => t[p].t = latest)
    BY <2>6, <2>7, <2>8, <2>9, <2>16
  <2>18. /\ MovedOnTime(t, a, p) /\ \A m \in Stations : Recalls(t, pre, m, a, n)
         /\ \A m \in Stations : KnownTo(t, a, m, p) => pre.src[m] # NoSource
    BY <2>1, <2>2, <2>3, <2>13, <2>14, <2>15, <2>17, MoreMoved
  <2>19. HoldsMoved(h, t, a, p)
    <3> SUFFICES ASSUME NEW m \in ToSet(x.sta)
                 PROVE  /\ h.src[m] = t[p].src /\ h.dur[m] = t[p].dur[m]
                        /\ Moved(t, a, m, p) => h.t[m] = t[p].t
      BY <2>9, <2>10 DEF HoldsMoved
    <3>1. h.src[m] = t[p].src /\ h.dur[m] = t[p].dur[m]
      BY <2>6, <2>9, <2>10
    <3>2. ASSUME Moved(t, a, m, p)
          PROVE  h.t[m] = t[p].t
      <4>1. KnownTo(t, a, m, p) /\ KnownTo(t, a, head, p) /\ m \in Stations /\ head \in Stations
        BY <2>6, <2>7, <2>16, <3>2 DEF Moved
      <4>2. pre.src[m] # NoSource /\ pre.src[head] # NoSource
        BY <2>18, <4>1
      <4>3. h.t[m] = latest /\ h.t[head] = latest
        BY <2>6, <2>8, <4>2
      <4> QED
        BY <2>9, <4>3
    <3> QED
      BY <3>1, <3>2
  <2> QED
    BY <1>1, <1>2, <2>18, <2>19 DEF ShiftedOn, h, t
<1> QED
    BY <1>3, <1>4

-----------------------------------------------------------------------------
(* The loop as a whole. *)

\* The other commands have done no more when the next scan is read.
LEMMA NextKeeps ==
    ASSUME Loop, Minding, GoingOn, GetNext, job.cmd # "SHIFT"
    PROVE  Minding'
<1>1. /\ walk.phase = "next" /\ ircur' = ircur + 1 /\ walk'.phase = "visit"
      /\ walk'.first = walk.first /\ walk'.entry = walk.entry /\ walk'.pre = walk.pre
      /\ scans' = scans
    BY NextIs
<1>2. ircur \in Nat /\ walk.entry \in Nat /\ job' = job /\ was' = was
    BY DEF Loop, GoingOn
<1>3. Done' = ircur /\ Done = ircur
    BY <1>1, <1>2 DEF Done
<1>4. Tagged => Tagged'
    BY <1>1, <1>2, <1>3 DEF Tagged
<1>5. Removed => Removed'
    BY <1>1, <1>2, <1>3 DEF Removed
<1>6. Untagged => Untagged'
  <2>1. walk.entry <= ircur => walk.entry < ircur'
    BY <1>1, <1>2
  <2> QED
    BY <1>1, <1>2, <1>3, <2>1 DEF Untagged
<1> QED
    BY <1>2, <1>4, <1>5, <1>6 DEF Minding

\* Nor has any when the loop ends with the cursor on its last scan.
LEMMA EndKeeps ==
    ASSUME Loop, Minding, GoingOn, EndWalk, irecgo' = 0
    PROVE  Minding'
<1>1. /\ walk.phase = "next" /\ ircur' = ircur /\ walk'.phase = "off"
      /\ walk'.entry = walk.entry /\ walk'.pre = walk.pre /\ scans' = scans
    BY LoopEnds
<1>2. job' = job /\ was' = was
    BY DEF GoingOn
<1>3. Done' = ircur /\ Done = ircur
    BY <1>1 DEF Done
<1>4. Tagged => Tagged'
    BY <1>1, <1>2, <1>3 DEF Tagged
<1>5. Removed => Removed'
    BY <1>1, <1>2, <1>3 DEF Removed
<1>6. Untagged => Untagged'
    BY <1>1, <1>2, <1>3 DEF Untagged
<1>7. ShiftedOn => ShiftedOn'
    BY <1>1, <1>2, <1>3 DEF ShiftedOn
<1> QED
    BY <1>2, <1>4, <1>5, <1>6, <1>7 DEF Minding

\* A turn of any command keeps what is known of it.
LEMMA TurnKeeps ==
    ASSUME Loop, Synced, Following, Minding, GoingOn, WalkStep, ~GetNext
    PROVE  Minding'
<1>1. Look \/ Rewrite \/ Tag \/ NoTag \/ AddOn \/ TakeOff \/ UntagFirst \/ Untag
    BY DEF WalkStep
<1>2. job' = job
    BY DEF GoingOn
<1>3. CASE job.cmd = "TAGALONG"
  <2>1. Tag \/ NoTag
    BY <1>1, <1>3 DEF Look, Rewrite, AddOn, TakeOff, UntagFirst, Untag
  <2>2. Tagged'
    BY <1>3, <2>1, TagTurnsOn, NoTagTurnsOn DEF Minding
  <2> QED
    BY <1>2, <1>3, <2>2 DEF Minding
<1>4. CASE job.cmd = "UNTAG"
  <2>1. UntagFirst \/ Untag
    BY <1>1, <1>4 DEF Look, Rewrite, AddOn, TakeOff, Tag, NoTag
  <2>2. Untagged'
    BY <1>4, <2>1, UntagFirstTurnsOn, UntagTurnsOn DEF Minding
  <2> QED
    BY <1>2, <1>4, <2>2 DEF Minding
<1>5. CASE job.cmd = "SHIFT"
  <2>1. Look
    BY <1>1, <1>5 DEF Rewrite, AddOn, TakeOff, Tag, NoTag, UntagFirst, Untag
  <2>2. ShiftedOn'
    BY <1>5, <2>1, LookTurnsOn DEF Minding
  <2> QED
    BY <1>2, <1>5, <2>2 DEF Minding
<1>6. CASE job.cmd = "REMOVE"
  <2>1. TakeOff
    BY <1>1, <1>6 DEF Look, Rewrite, AddOn, Tag, NoTag, UntagFirst, Untag
  <2>2. Removed'
    BY <1>6, <2>1, RemoveTurns DEF Minding
  <2> QED
    BY <1>2, <1>6, <2>2 DEF Minding
<1> QED
    BY <1>2, <1>3, <1>4, <1>5, <1>6 DEF Minding

\* Every step of the loop keeps what is known of it.
LEMMA WalkingStays == ASSUME Walking, Next PROVE Walking'
<1>1. /\ Loop
      /\ Synced => Following /\ (walk.phase # "off" \/ irecgo = 0 => Minding)
    BY DEF Walking
<1>2. ((WalkStep /\ busy' = busy) \/ EndWalk) /\ GoingOn
    BY <1>1, LoopGoesOn
<1>3. Loop' /\ Synced' = Synced /\ (Synced /\ Following => Following')
    BY <1>1, LoopStays
<1>4. walk.phase # "off"
    BY <1>1, <1>2 DEF Loop, GoingOn
<1>5. ASSUME Synced, walk'.phase # "off" \/ irecgo' = 0
      PROVE  Minding'
  <2>1. Following /\ Minding
    BY <1>1, <1>4, <1>5
  <2>2. CASE EndWalk
    <3>1. walk'.phase = "off"
      BY <1>1, <1>2, <2>2, LoopEnds
    <3> QED
      BY <1>1, <1>2, <1>5, <2>1, <2>2, <3>1, EndKeeps
  <2>3. CASE GetNext
    <3>1. CASE job.cmd = "SHIFT"
      <4>1. ShiftedOn'
        BY <1>1, <1>2, <1>5, <2>1, <2>3, <3>1, NextShiftsOn DEF Minding
      <4> QED
        BY <1>2, <3>1, <4>1 DEF Minding, GoingOn
    <3>2. CASE job.cmd # "SHIFT"
      BY <1>1, <1>2, <2>1, <2>3, <3>2, NextKeeps
    <3> QED
      BY <3>1, <3>2
  <2>4. CASE WalkStep /\ ~GetNext
    BY <1>1, <1>2, <1>5, <2>1, <2>4, TurnKeeps
  <2> QED
    BY <1>2, <2>2, <2>3, <2>4
<1> QED
    BY <1>1, <1>3, <1>5 DEF Walking

\* What is known of the loop implies the properties.
LEMMA WalkingMeans ==
    ASSUME Walking
    PROVE  FillOnTime /\ DoesAsAsked /\ WalkLeavesInTime /\ StaysInside
<1> DEFINE o == was.scans
           a == walk.entry
           n == ircur
<1>1. /\ Loop
      /\ Synced => Following /\ (walk.phase # "off" \/ irecgo = 0 => Minding)
    BY DEF Walking
<1>2. /\ job.cmd \in Walks /\ job.cmd # "FILL" /\ job.cmd # "THIN"
      /\ scans \in Seq(Records) /\ DOMAIN scans = 1..nobs /\ nobs \in Nat /\ n \in Nat
      /\ a \in Nat /\ (busy <=> walk.phase # "off")
      /\ \A i \in DOMAIN scans : Whole(scans[i])
    BY <1>1 DEF Loop, WalkJobs, Walks, nobs
<1>3. FillOnTime
    BY <1>2 DEF FillOnTime, Ended
<1>4. StaysInside
  <2>1. status = "failed" => \/ job.cmd = "UNTAG" /\ cur.sta = << >>
                             \/ job.cmd \in Walks /\ walk.entry = 0
    BY <1>1, <1>2 DEF Loop
  <2>2. Ended({"FILL"} \cup Walks) => Over
    BY <1>1, <1>2 DEF Loop, Ended
  <2> QED
    BY <2>1, <2>2 DEF StaysInside, Over
<1>5. DoesAsAsked
  <2> SUFFICES ASSUME ~busy, Synced
               PROVE  /\ \E from \in [DOMAIN scans -> DOMAIN o] :
                            /\ \A i, j \in DOMAIN scans : i < j => from[i] < from[j]
                            /\ \A i \in DOMAIN scans : Asked(scans[i], o[from[i]])
                      /\ \A i \in DOMAIN scans : Len(scans[i].sta) >= 2
                      /\ job.cmd \notin {"REMOVE", "THIN", "UNTAG"} => nobs = Len(o)
    BY <1>2 DEF DoesAsAsked, Ended
  <2>1. Touched = nobs
    BY <1>2 DEF Touched
  <2>2. Traced(scans, o, job, nobs)
    BY <1>1, <2>1 DEF Following
  <2>3. PICK from \in [DOMAIN scans -> DOMAIN o] :
          /\ \A i, j \in DOMAIN scans : i < j => from[i] < from[j]
          /\ \A i \in DOMAIN scans : IF i <= nobs THEN Does(job, scans[i], o[from[i]])
                                           ELSE scans[i] = o[from[i]]
    BY <2>2 DEF Traced
  <2>4. \A i \in DOMAIN scans : Does(job, scans[i], o[from[i]])
    BY <1>2, <2>3
  <2>5. \A x, y : Does(job, x, y) => Asked(x, y)
    BY <1>2 DEF Does, Asked, Walks
  <2>6. job.cmd \notin {"REMOVE", "UNTAG"} => nobs = Len(o)
    BY <2>2 DEF Traced, nobs
  <2> QED
    BY <1>2, <2>3, <2>4, <2>5, <2>6 DEF Whole
<1>6. WalkLeavesInTime
  <2> SUFFICES ASSUME ~busy, Synced, irecgo = 0
               PROVE  WalkLeavesInTime
    BY DEF WalkLeavesInTime, Ended
  <2>1. Minding /\ Done = n /\ a # 0
    BY <1>1, <1>2 DEF Done, Synced
  <2>2. \A j \in Turns : j \in (a + 1)..n /\ \A i \in a..(j - 1) : i \in Turns => i \in (a + 1)..(j - 1)
    BY <1>2 DEF Turns
  <2>3. ASSUME job.cmd = "UNTAG", job.clear, NEW m \in Stations, NEW j \in Turns,
               NEW i \in walk.entry..(j - 1), Follows(scans, m, i, j), i \in Turns
        PROVE  InTime(scans, m, i, j)
    <3>1. AllOnTime(scans, a + 1, n)
      BY <2>1, <2>3 DEF Minding, Untagged
    <3> QED
      BY <2>2, <2>3, <3>1 DEF AllOnTime
  <2>4. ASSUME job.cmd = "SHIFT", job.clear, NEW m \in Stations, NEW j \in Turns,
               NEW i \in walk.entry..(j - 1), Follows(scans, m, i, j),
               Known(m, i), HeadKnown(i), HeadKnown(j)
        PROVE  InTime(scans, m, i, j)
    <3>1. MovedOnTime(scans, a, n)
      BY <2>1, <2>4 DEF Minding, ShiftedOn
    <3>2. Moved(scans, a, m, i) /\ KnownTo(scans, a, Head(scans[j].sta), j)
      BY <2>4 DEF Moved, KnownTo, HeadKnown, Known
    <3> QED
      BY <2>2, <2>4, <3>1, <3>2 DEF MovedOnTime
  <2>5. ASSUME job.cmd = "TAGALONG", NEW m \in job.who, NEW j \in Turns,
               NEW i \in walk.entry..(j - 1), Follows(scans, m, i, j), ~Place(o, m, j)
        PROVE  InTime(scans, m, i, j) \/ scans[j].t - scans[i].t > Forget
    <3>1. JoinsOnTime(scans, o, m, a, n)
      BY <2>1, <2>5 DEF Minding, Tagged
    <3> QED
      BY <2>2, <2>5, <3>1 DEF JoinsOnTime
  <2>6. ASSUME job.cmd = "REMOVE", NEW m \in job.who, NEW i \in walk.entry..Min({ircur, nobs}),
               Place(scans, m, i)
        PROVE  i = 1 /\ walk.entry = 1 /\ nobs < Len(o)
    <3>1. GoneUpto(scans, o, m, a, n)
      BY <2>1, <2>6 DEF Minding, Removed
    <3> DEFINE least == Min({n, nobs})
    <3>2. least \in Nat /\ least <= n /\ least <= nobs
      <4>1. {n, nobs} \in SUBSET Nat /\ {n, nobs} # {}
        BY <1>2
      <4>2. least \in {n, nobs} /\ \A j \in {n, nobs} : least <= j
        BY <4>1, LeastOf
      <4> QED
        BY <1>2, <4>2
    <3>3. i \in a..least
      BY <2>6
    <3> HIDE DEF least, n, a
    <3>4. i \in a..n /\ i \in 1..nobs
      <4>1. a \in Nat /\ a # 0 /\ n \in Nat /\ nobs \in Nat
        BY <1>2, <2>1 DEF a, n
      <4> QED
        BY <3>2, <3>3, <4>1
    <3> QED
      BY <1>2, <2>6, <3>1, <3>4 DEF GoneUpto, nobs, a
  <2> QED
    BY <2>3, <2>4, <2>5, <2>6 DEF WalkLeavesInTime
<1> QED
    BY <1>3, <1>4, <1>5, <1>6

-----------------------------------------------------------------------------
(* Every behaviour: a schedule waits for its command, and the command runs. *)

Inv == Waiting \/ Filling \/ Thinning \/ Walking

\* In the beginning the program waits for its command.
LEMMA InitWaits == Init => Waiting
<1> SUFFICES ASSUME Init PROVE Waiting
    OBVIOUS
<1>1. TableInit /\ fill = Off /\ thin = Off /\ walk = Off
    BY DEF Init, FillInit, ThinInit, WalkInit, Off, Idle
<1>2. PICK read \in DOMAIN scans, source \in {NoSource, Unread} :
          /\ cur = UnpakAll(Blank(source), scans, 1..read)
          /\ was = [scans |-> scans, synced |-> read = ircur]
    BY <1>1 DEF TableInit
<1>3. was.scans = scans /\ (was.synced <=> read = ircur)
    BY <1>2
<1> QED
    BY <1>1, <1>2, <1>3 DEF TableInit, Waiting

\* Every step keeps the invariant.
LEMMA InvStays == Inv /\ [Next]_vars => Inv'
<1> SUFFICES ASSUME Inv, [Next]_vars PROVE Inv'
    OBVIOUS
<1>1. CASE UNCHANGED vars
  <2>1. /\ scans' = scans /\ ircur' = ircur /\ irecgo' = irecgo /\ cur' = cur
        /\ status' = status /\ job' = job /\ busy' = busy /\ was' = was /\ fill' = fill
        /\ thin' = thin /\ walk' = walk
    BY <1>1 DEF vars
  <2>2. Waiting => Waiting'
    BY <2>1 DEF Waiting
  <2>3. Filling => Filling'
    BY <2>1 DEF Filling
  <2>4. Thinning => Thinning'
    BY <2>1 DEF Thinning
  <2>5. Loop => Loop'
    BY <2>1 DEF Loop, Visiting, Between, Over, nobs
  <2>6. Following => Following'
    BY <2>1 DEF Following, Touched, nobs
  <2>7. Minding => Minding'
    BY <2>1 DEF Minding, Tagged, Untagged, ShiftedOn, Removed, Done
  <2>8. Walking => Walking'
    BY <2>1, <2>5, <2>6, <2>7 DEF Walking, Synced
  <2> QED
    BY <2>2, <2>3, <2>4, <2>8 DEF Inv
<1>2. CASE Next /\ Waiting
  <2>1. Command
    BY <1>2 DEF Next, Step, Running, Waiting
  <2> QED
    BY <1>2, <2>1, FillBegins, ThinBegins, WalkBegins DEF Command, Inv
<1>3. CASE Next /\ Filling
    BY <1>3, FillingStays DEF Inv
<1>4. CASE Next /\ Thinning
    BY <1>4, ThinningStays DEF Inv
<1>5. CASE Next /\ Walking
    BY <1>5, WalkingStays DEF Inv
<1> QED
    BY <1>1, <1>2, <1>3, <1>4, <1>5 DEF Inv

\* The invariant implies the properties.
LEMMA InvMeans == Inv => FillOnTime /\ DoesAsAsked /\ WalkLeavesInTime /\ StaysInside
<1> SUFFICES ASSUME Inv
             PROVE  FillOnTime /\ DoesAsAsked /\ WalkLeavesInTime /\ StaysInside
    OBVIOUS
<1>1. CASE Waiting
    BY <1>1 DEF Waiting, Ended, Walks, FillOnTime, DoesAsAsked, WalkLeavesInTime, StaysInside
<1> QED
    BY <1>1, FillingMeans, ThinningMeans, WalkingMeans DEF Inv

\* The invariant holds throughout.
LEMMA InvHolds == Spec => []Inv
<1>1. Init => Inv
    BY InitWaits DEF Inv
<1> QED
    BY <1>1, InvStays, PTL DEF Spec

(* FILL makes no station late for a scan up to the end of its window, and  *)
(* leaves nobody observing when their next scan starts, though its last    *)
(* loops (fillcmd.f 484-582) look at scans in another order than its first.*)
THEOREM FilledOnTime == Spec => []FillOnTime
<1>1. Inv => FillOnTime
    BY InvMeans
<1> QED
    BY <1>1, InvHolds, PTL

(* A command changes what it is asked to and no more: whatever CHCMD takes *)
(* out, puts back (PTOBS) and deletes on the way, each scan left is one    *)
(* that was there, and the others keep their order (chcmd.f 276-646,       *)
(* fillcmd.f 298-585, thin_cmd.f 157-221).                                 *)
THEOREM AsAsked == Spec => []DoesAsAsked
<1>1. Inv => DoesAsAsked
    BY InvMeans
<1> QED
    BY <1>1, InvHolds, PTL

(* Whom the loop of chcmd.f lets pass is on time in the schedule as it is  *)
(* stored in the end, though it only looks at PRE, one turn at a time: for *)
(* UNTAG, SHIFT (auchk.f 180-316) and TAGALONG (chcmd.f 282-494).  REMOVE  *)
(* leaves its station nowhere (chcmd.f 532-563).                           *)
THEOREM LeftInTime == Spec => []WalkLeavesInTime
<1>1. Inv => WalkLeavesInTime
    BY InvMeans
<1> QED
    BY <1>1, InvHolds, PTL

(* Only the cases named leave an array (fillcmd.f 550, thin_cmd.f 158,     *)
(* chcmd.f 498-530, gtobs.f 160); otherwise FILL and the loop leave the    *)
(* cursor on a scan, also when REMOVE and UNTAG delete under it (ptobs.f   *)
(* 89-107).                                                                *)
THEOREM InsideBounds == Spec => []StaysInside
<1>1. Inv => StaysInside
    BY InvMeans
<1> QED
    BY <1>1, InvHolds, PTL
=============================================================================
