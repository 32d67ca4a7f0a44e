---------------------------- MODULE ListLemmas -------------------------------
(***************************************************************************)
(* Lemmas that several proofs need: sets of natural numbers have least     *)
(* elements (the searches for the next scan, the next downtime and the     *)
(* next line are modelled by them); what is left of a list from a place    *)
(* on; and lists that are joined one after the other, as the lines of one  *)
(* statement are.                                                          *)
(***************************************************************************)
EXTENDS Integers, SequencesExt, TLAPS, FiniteSetTheorems, SequenceTheorems, WellFoundedInduction

\* A set of naturals that has members has a least one: of the parts of S up to
\* one of its members, which are finite, take one that has no smaller.
THEOREM HasLeast ==
    ASSUME NEW S \in SUBSET Nat, S # {}
    PROVE  \E x \in S : \A j \in S : x <= j
<1>1. PICK top \in S : TRUE
    OBVIOUS
<1> DEFINE UpTo(i) == {j \in S : j <= i}
           Cuts == {UpTo(i) : i \in UpTo(top)}
<1>2. Cuts \subseteq FiniteSubsetsOf(Nat) /\ Cuts # {}
  <2>1. ASSUME NEW i \in UpTo(top)
        PROVE  UpTo(i) \in FiniteSubsetsOf(Nat)
    BY <2>1, FS_BoundedSetOfNaturals DEF FiniteSubsetsOf
  <2>2. top \in UpTo(top)
    BY <1>1
  <2> HIDE DEF UpTo
  <2> QED
    BY <2>1, <2>2
<1>3. PICK cut \in Cuts : \A other \in Cuts : <<other, cut>> \notin StrictSubsetOrdering(Nat)
    BY <1>2, FS_StrictSubsetOrderingWellFounded, WFMin
<1>4. PICK i \in UpTo(top) : cut = UpTo(i)
    BY <1>3
<1>5. ASSUME NEW j \in S, j < i
      PROVE  FALSE
    <2>1. j \in UpTo(top)
      BY <1>5, <1>4
    <2>2. i \in Nat /\ j \in Nat /\ i \in S
      BY <1>4
    <2>3. UpTo(j) \subseteq UpTo(i)
      <3>1. \A k \in S : k \in Nat
        OBVIOUS
      <3>2. \A k \in S : k <= j => k <= i
        BY <1>5, <2>2, <3>1
      <3> QED
        BY <3>2
    <2>4. i \in UpTo(i) /\ i \notin UpTo(j)
      BY <1>5, <2>2
    <2> HIDE DEF UpTo
    <2>5. UpTo(j) \in Cuts
      BY <2>1
    <2>6. <<UpTo(j), cut>> \in StrictSubsetOrdering(Nat)
      BY <2>3, <2>4, <2>5, <1>3, <1>4, <1>2 DEF StrictSubsetOrdering, FiniteSubsetsOf
    <2> QED
      BY <1>3, <2>5, <2>6
<1> QED
    BY <1>4, <1>5

\* The least of a set of places.
LEMMA MinIs ==
    ASSUME NEW W \in SUBSET Nat, NEW i \in W, \A j \in W : i <= j
    PROVE  Min(W) = i
<1>1. \E x \in W : \A y \in W : x <= y
    OBVIOUS
<1>2. Min(W) \in W /\ \A y \in W : Min(W) <= y
    BY <1>1 DEF Min
<1>3. Min(W) <= i /\ i <= Min(W) /\ i \in Nat /\ Min(W) \in Nat
    BY <1>2
<1> QED
    BY <1>3

\* A search stops at the first place that is wanted, or behind the last.
LEMMA FirstWanted ==
    ASSUME NEW len \in Nat, NEW W \in SUBSET (1 .. len)
    PROVE  \E i \in 1 .. len + 1 :
              (i <= len => i \in W) /\ \A j \in 1 .. i - 1 : j \notin W
<1>1. CASE W = {}
    BY <1>1
<1>2. CASE W # {}
  <2>1. PICK i \in W : \A j \in W : i <= j
    BY <1>2, HasLeast
  <2> QED
    BY <2>1
<1> QED
    BY <1>1, <1>2

-----------------------------------------------------------------------------
(* The rest of a list. *)

\* What is left of a list is a list of the same lines.
LEMMA RestOf ==
    ASSUME NEW S, NEW list \in Seq(S), NEW i \in 1 .. Len(list) + 1
    PROVE  LET rest == SubSeq(list, i, Len(list))
           IN  /\ rest \in Seq(S)
               /\ rest # << >> => /\ i <= Len(list) /\ Head(rest) = list[i]
                                  /\ Head(rest) \in S /\ Tail(rest) \in Seq(S)
<1> DEFINE rest == SubSeq(list, i, Len(list))
<1>1. Len(list) \in Nat
    OBVIOUS
<1>2. /\ rest \in Seq(S)
      /\ Len(rest) = IF i <= Len(list) THEN Len(list) - i + 1 ELSE 0
      /\ \A k \in 1 .. Len(list) - i + 1 : rest[k] = list[i + k - 1]
    BY <1>1, SubSeqProperties
<1> HIDE DEF rest
<1>3. ASSUME rest # << >>
      PROVE  /\ i <= Len(list) /\ Head(rest) = list[i]
             /\ Head(rest) \in S /\ Tail(rest) \in Seq(S)
  <2>1. Len(rest) > 0
    BY <1>2, <1>3, EmptySeq
  <2>2. i <= Len(list)
    BY <1>1, <1>2, <2>1
  <2>3. Head(rest) = rest[1] /\ rest[1] = list[i]
    BY <1>1, <1>2, <1>3, <2>2
  <2>4. list[i] \in S
    BY <1>1, <2>2, ElementOfSeq
  <2>5. Tail(rest) \in Seq(S)
    BY <1>2, <1>3, HeadTailProperties
  <2> QED
    BY <2>2, <2>3, <2>4, <2>5
<1> QED
    BY <1>2, <1>3 DEF rest

\* What is left from a place of a list begins there.
LEMMA HeadFrom ==
    ASSUME NEW S, NEW list \in Seq(S), NEW i \in 1 .. Len(list)
    PROVE  LET here == SubSeq(list, i, Len(list))
           IN  /\ here # << >> /\ Head(here) = list[i]
               /\ Tail(here) = SubSeq(list, i + 1, Len(list))
<1>1. Len(list) \in i .. Len(list) /\ Len(list) \in Nat
    OBVIOUS
<1>2. Head(SubSeq(list, i, Len(list))) = list[i]
      /\ Tail(SubSeq(list, i, Len(list))) = SubSeq(list, i + 1, Len(list))
    BY <1>1, HeadTailOfSubSeq
<1>3. Len(SubSeq(list, i, Len(list))) # 0
  <2>1. Len(SubSeq(list, i, Len(list))) = Len(list) - i + 1
    BY <1>1, ElementOfSeq, SubSeqProperties
  <2> QED
    BY <1>1, <2>1
<1>4. SubSeq(list, i, Len(list)) # << >>
    BY <1>3, EmptySeq
<1> QED
    BY <1>2, <1>4

\* A list that begins with one line.
LEMMA HeadTailOfOne ==
    ASSUME NEW S, NEW x \in S, NEW list \in Seq(S)
    PROVE  LET all == <<x>> \o list
           IN  all \in Seq(S) /\ all # << >> /\ Head(all) = x /\ Tail(all) = list
<1> DEFINE all == <<x>> \o list
           n == Len(list)
<1>1. n \in Nat /\ <<x>> \in Seq(S) /\ Len(<<x>>) = 1 /\ <<x>>[1] = x
    OBVIOUS
<1>2. /\ all \in Seq(S) /\ Len(all) = n + 1 /\ all[1] = x
      /\ \A i \in 2 .. n + 1 : all[i] = list[i - 1]
    BY <1>1, ConcatProperties
<1> HIDE DEF all
<1>3. all # << >>
    BY <1>1, <1>2
<1>4. /\ Head(all) = x /\ Tail(all) \in Seq(S) /\ Len(Tail(all)) = n
      /\ \A i \in 1 .. n : Tail(all)[i] = all[i + 1]
    BY <1>1, <1>2, <1>3, HeadTailProperties
<1>5. \A i \in 1 .. n : Tail(all)[i] = list[i]
    BY <1>1, <1>2, <1>4
<1> DEFINE tail == Tail(all)
<1>6. tail \in Seq(S) /\ Len(tail) = Len(list) /\ \A i \in 1 .. Len(tail) : tail[i] = list[i]
    BY <1>4, <1>5
<1> HIDE DEF tail
<1>7. tail = list
    BY <1>6, SeqEqual
<1> QED
    BY <1>2, <1>3, <1>4, <1>7 DEF all, tail

\* A list is its first line before the others.
LEMMA HeadBeforeTail ==
    ASSUME NEW S, NEW a \in Seq(S), a # << >>
    PROVE  a = <<Head(a)>> \o Tail(a)
<1> DEFINE x == Head(a)
           t == Tail(a)
           c == <<x>> \o t
<1>1. x \in S /\ t \in Seq(S)
    BY HeadTailProperties
<1>2. c # << >> /\ Head(c) = x /\ Tail(c) = t /\ c \in Seq(S)
    BY <1>1, HeadTailOfOne
<1> HIDE DEF c
<1>3. \A s \in {a, c} : /\ Len(Tail(s)) = Len(s) - 1 /\ Len(s) \in Nat \ {0}
                        /\ s[1] = Head(s)
                        /\ \A i \in 1 .. Len(Tail(s)) : Tail(s)[i] = s[i + 1]
    BY <1>2, HeadTailProperties, EmptySeq
<1>4. Len(a) = Len(c)
    BY <1>2, <1>3
<1>5. ASSUME NEW i \in 1 .. Len(a)
      PROVE  a[i] = c[i]
  <2>1. CASE i = 1
    BY <1>2, <1>3, <2>1
  <2>2. CASE i # 1
    <3>1. i - 1 \in 1 .. Len(Tail(a)) /\ (i - 1) + 1 = i
      BY <1>3, <2>2
    <3> QED
      BY <1>2, <1>3, <3>1
  <2> QED
    BY <2>1, <2>2
<1>6. a = c
    BY <1>2, <1>4, <1>5, SeqEqual
<1> QED
    BY <1>6 DEF c

\* A list before another gives the first line and leaves its rest before it.
LEMMA HeadTailOfConcat ==
    ASSUME NEW S, NEW a \in Seq(S), NEW b \in Seq(S), a # << >>
    PROVE  a \o b # << >> /\ Head(a \o b) = Head(a) /\ Tail(a \o b) = Tail(a) \o b
<1> DEFINE x == Head(a)
           t == Tail(a)
           rest == t \o b
<1>1. x \in S /\ t \in Seq(S)
    BY HeadTailProperties
<1>2. a = <<x>> \o t
    BY HeadBeforeTail
<1> HIDE DEF x, t
<1>3. <<x>> \in Seq(S) /\ rest \in Seq(S)
    BY <1>1, ConcatProperties
<1> DEFINE c == <<x>>
<1>4. (c \o t) \o b = c \o (t \o b)
  <2> HIDE DEF c
  <2> QED
    BY <1>1, <1>3, ConcatAssociative DEF c
<1>5. a \o b = <<x>> \o rest
    BY <1>2, <1>4
<1> HIDE DEF rest
<1>6. <<x>> \o rest # << >> /\ Head(<<x>> \o rest) = x /\ Tail(<<x>> \o rest) = rest
    BY <1>1, <1>3, HeadTailOfOne
<1> QED
    BY <1>5, <1>6 DEF x, t, rest

\* A list is a prefix of what it begins.
LEMMA PrefixOfConcat ==
    ASSUME NEW S, NEW s \in Seq(S), NEW t \in Seq(S)
    PROVE  IsPrefix(s, s \o t)
<1> DEFINE n == Len(s)
           all == s \o t
<1>1. n \in Nat /\ Len(t) \in Nat /\ all \in Seq(S) /\ Len(all) = n + Len(t)
    BY ConcatProperties
<1>2. SubSeq(s, 1, n) = SubSeq(all, 1, n)
  <2>1. CASE n = 0
    BY <2>1, SubSeqEmpty
  <2>2. CASE n # 0
    <3>1. 1 \in 1 .. n /\ n \in 1 .. n
      BY <1>1, <2>2
    <3> QED
      BY <3>1, SubSeqOfConcat1
  <2> QED
    BY <2>1, <2>2
<1> HIDE DEF all
<1>3. n <= Len(all)
    BY <1>1
<1> QED
    BY <1>2, <1>3 DEF IsPrefix, all

\* What is made of the lines of the rest of a list is the rest of what is made
\* of those of the list.
LEMMA MapRest ==
    ASSUME NEW S, NEW T, NEW f \in [S -> T], NEW list \in Seq(S),
           NEW i \in 1 .. Len(list) + 1
    PROVE  LET Made(l) == [j \in DOMAIN l |-> f[l[j]]]
           IN  /\ Made(list) \in Seq(T) /\ Len(Made(list)) = Len(list)
               /\ SubSeq(Made(list), i, Len(list)) = Made(SubSeq(list, i, Len(list)))
<1> DEFINE Made(l) == [j \in DOMAIN l |-> f[l[j]]]
           n == Len(list)
           made == Made(list)
           rest == SubSeq(list, i, n)
           left == Made(rest)
           tail == SubSeq(made, i, n)
           m == n - i + 1
<1>1. n \in Nat /\ m \in Nat /\ DOMAIN list = 1 .. n /\ \A j \in 1 .. n : list[j] \in S
    BY ElementOfSeq
<1>2. /\ made \in Seq(T) /\ Len(made) = n /\ \A j \in 1 .. n : made[j] = f[list[j]]
    BY <1>1
<1>3. /\ rest \in Seq(S) /\ Len(rest) = m /\ DOMAIN rest = 1 .. m
      /\ \A j \in 1 .. m : rest[j] = list[i + j - 1] /\ rest[j] \in S
  <2>1. /\ rest \in Seq(S) /\ \A j \in 1 .. n - i + 1 : rest[j] = list[i + j - 1]
        /\ Len(rest) = IF i <= n THEN n - i + 1 ELSE 0
    BY <1>1, SubSeqProperties
  <2>2. Len(rest) = m
    BY <1>1, <2>1
  <2> HIDE DEF rest, n
  <2> QED
    BY <2>1, <2>2, LenProperties, ElementOfSeq
<1>4. /\ tail \in Seq(T) /\ Len(tail) = m
      /\ \A j \in 1 .. m : tail[j] = made[i + j - 1]
  <2>1. /\ tail \in Seq(T) /\ \A j \in 1 .. n - i + 1 : tail[j] = made[i + j - 1]
        /\ Len(tail) = IF i <= n THEN n - i + 1 ELSE 0
    <3>1. \A j \in i .. n : made[j] \in T
      BY <1>1, <1>2, ElementOfSeq
    <3> HIDE DEF made
    <3> QED
      BY <1>1, <3>1, SubSeqProperties
  <2>2. Len(tail) = m
    BY <1>1, <2>1
  <2> QED
    BY <2>1, <2>2
<1>5. /\ left \in Seq(T) /\ Len(left) = m /\ \A j \in 1 .. m : left[j] = f[rest[j]]
  <2> HIDE DEF m, rest
  <2>1. left = [j \in 1 .. m |-> f[rest[j]]]
    BY <1>3
  <2>2. left \in [1 .. m -> T]
    BY <1>3, <2>1
  <2> HIDE DEF left
  <2> QED
    BY <1>1, <2>1, <2>2
<1>6. \A j \in 1 .. m : tail[j] = left[j]
  <2> SUFFICES ASSUME NEW j \in 1 .. m
               PROVE  tail[j] = left[j]
    OBVIOUS
  <2>1. i + j - 1 \in 1 .. n
    BY <1>1
  <2> HIDE DEF tail, left, made, rest, m, n
  <2> QED
    BY <1>2, <1>3, <1>4, <1>5, <2>1
<1> HIDE DEF left, tail, m
<1>7. tail = left
    BY <1>4, <1>5, <1>6, SeqEqual
<1> HIDE DEF rest, made
<1> QED
    BY <1>2, <1>7 DEF rest, made, n, tail, left

-----------------------------------------------------------------------------
(* Lists joined one after the other, as FlattenSeq joins them. *)

(* A partial concatenation of the first m lists. *)
Joins(f, m, seqs, S) ==
    /\ f \in [1 .. m -> Seq(S)]
    /\ f[1] = seqs[1]
    /\ \A i \in 2 .. m : f[i] = f[i - 1] \o seqs[i]

\* The lists can be joined one after the other.
LEMMA JoinsExist ==
    ASSUME NEW S, NEW seqs \in Seq(Seq(S)), NEW n \in 1 .. Len(seqs)
    PROVE  \E f : Joins(f, n, seqs, S)
<1> DEFINE Bad == {m \in 1 .. n : ~\E f : Joins(f, m, seqs, S)}
<1>1. Len(seqs) \in Nat /\ n \in Nat /\ \A i \in 1 .. n : seqs[i] \in Seq(S)
    BY ElementOfSeq
<1>2. ASSUME Bad # {}
      PROVE  FALSE
  <2>1. Bad \in SUBSET Nat
    BY <1>1
  <2>2. PICK m \in Bad : \A j \in Bad : m <= j
    BY <1>2, <2>1, HasLeast
  <2>3. m \in 1 .. n /\ ~\E f : Joins(f, m, seqs, S)
    BY <2>2
  <2>4. CASE m = 1
    <3>1. Joins([i \in 1 .. 1 |-> seqs[1]], 1, seqs, S)
      BY <1>1, <2>3, <2>4 DEF Joins
    <3> QED
      BY <2>3, <2>4, <3>1
  <2>5. CASE m # 1
    <3>1. m - 1 \in 1 .. n /\ ~(m <= m - 1)
      BY <1>1, <2>3, <2>5
    <3>2. PICK f : Joins(f, m - 1, seqs, S)
      BY <2>2, <3>1
    <3> DEFINE g == [i \in 1 .. m |-> IF i = m THEN f[m - 1] \o seqs[m] ELSE f[i]]
    <3>3. f[m - 1] \in Seq(S) /\ seqs[m] \in Seq(S)
      BY <1>1, <2>3, <2>5, <3>2 DEF Joins
    <3>4. f[m - 1] \o seqs[m] \in Seq(S)
      BY <3>3, ConcatProperties
    <3>5. g \in [1 .. m -> Seq(S)]
      <4>1. \A i \in 1 .. m : i # m => f[i] \in Seq(S)
        BY <2>3, <3>2 DEF Joins
      <4> QED
        BY <3>4, <4>1
    <3>6. g[1] = seqs[1]
      BY <2>3, <2>5, <3>2 DEF Joins
    <3>7. ASSUME NEW i \in 2 .. m
          PROVE  g[i] = g[i - 1] \o seqs[i]
      <4>1. CASE i = m
        <5>1. m \in 1 .. m /\ m - 1 \in 1 .. m /\ m - 1 # m
          BY <1>1, <2>3, <2>5
        <5>2. g[m] = f[m - 1] \o seqs[m] /\ g[m - 1] = f[m - 1]
          BY <5>1
        <5> QED
          BY <4>1, <5>2
      <4>2. CASE i # m
        <5>1. i \in 2 .. m - 1
          BY <2>3, <4>2
        <5>2. f[i] = f[i - 1] \o seqs[i]
          BY <3>2, <5>1 DEF Joins
        <5>3. g[i] = f[i] /\ g[i - 1] = f[i - 1]
          BY <2>3, <5>1
        <5> QED
          BY <5>2, <5>3
      <4> QED
        BY <4>1, <4>2
    <3> HIDE DEF g
    <3>8. Joins(g, m, seqs, S)
      BY <3>5, <3>6, <3>7 DEF Joins
    <3> QED
      BY <2>3, <3>8
  <2> QED
    BY <2>4, <2>5
<1>3. n \in 1 .. n
    BY <1>1
<1> QED
    BY <1>2, <1>3

\* FlattenSeq is the last of the joined lists.
LEMMA FlattenJoins ==
    ASSUME NEW S, NEW seqs \in Seq(Seq(S)), Len(seqs) > 0
    PROVE  \E f : Joins(f, Len(seqs), seqs, S) /\ FlattenSeq(seqs) = f[Len(seqs)]
<1> DEFINE n == Len(seqs)
           Rec(f) == [i \in 1 .. n |-> IF i = 1 THEN seqs[i] ELSE f[i - 1] \o seqs[i]]
           F == CHOOSE f : f = Rec(f)
<1>1. n \in Nat /\ n \in 1 .. n /\ \A i \in 1 .. n : seqs[i] \in Seq(S)
    BY ElementOfSeq
<1> HIDE DEF n
<1>2. PICK h : Joins(h, n, seqs, S)
    BY <1>1, JoinsExist DEF n
<1>3. h = Rec(h)
  <2>1. ASSUME NEW i \in 1 .. n
        PROVE  h[i] = Rec(h)[i]
    <3>1. Rec(h)[i] = IF i = 1 THEN seqs[i] ELSE h[i - 1] \o seqs[i]
      OBVIOUS
    <3>2. i # 1 => i \in 2 .. n
      BY <1>1
    <3> QED
      BY <1>2, <3>1, <3>2 DEF Joins
  <2>2. h \in [1 .. n -> Seq(S)]
    BY <1>2 DEF Joins
  <2> QED
    BY <2>1, <2>2
<1>4. F = Rec(F)
    BY <1>3
<1>5. FlattenSeq(seqs) = F[n]
    BY <1>1 DEF FlattenSeq, n
<1> HIDE DEF F
<1>6. /\ F = [i \in 1 .. n |-> F[i]]
      /\ F[1] = seqs[1] /\ \A i \in 2 .. n : F[i] = F[i - 1] \o seqs[i]
  <2>1. \A i \in 1 .. n : F[i] = IF i = 1 THEN seqs[i] ELSE F[i - 1] \o seqs[i]
    BY <1>4
  <2>2. F = [i \in 1 .. n |-> F[i]]
    BY <1>4
  <2>3. F[1] = seqs[1]
    BY <1>1, <2>1
  <2>4. ASSUME NEW i \in 2 .. n
        PROVE  F[i] = F[i - 1] \o seqs[i]
    <3>1. i \in 1 .. n /\ i # 1
      BY <1>1
    <3> QED
      BY <2>1, <3>1
  <2> QED
    BY <2>2, <2>3, <2>4
<1>7. ASSUME NEW i \in 1 .. n
      PROVE  F[i] \in Seq(S)
  <2> DEFINE Bad == {m \in 1 .. n : F[m] \notin Seq(S)}
  <2>1. ASSUME Bad # {}
        PROVE  FALSE
    <3>1. Bad \in SUBSET Nat
      BY <1>1
    <3>2. PICK m \in Bad : \A j \in Bad : m <= j
      BY <2>1, <3>1, HasLeast
    <3>3. m # 1
      BY <1>1, <1>6, <3>2
    <3>4. m - 1 \in 1 .. n /\ m \in 2 .. n /\ ~(m <= m - 1)
      BY <1>1, <3>2, <3>3
    <3>5. F[m - 1] \in Seq(S) /\ seqs[m] \in Seq(S) /\ F[m] = F[m - 1] \o seqs[m]
      BY <1>1, <1>6, <3>2, <3>4
    <3>6. F[m] \in Seq(S)
      BY <3>5, ConcatProperties
    <3> QED
      BY <3>2, <3>6
  <2> QED
    BY <2>1
<1>8. Joins(F, n, seqs, S)
    BY <1>6, <1>7 DEF Joins
<1> QED
    BY <1>5, <1>8 DEF n

\* Joining lists gives a list, none if there are none.
LEMMA FlattenType ==
    ASSUME NEW S, NEW seqs \in Seq(Seq(S))
    PROVE  FlattenSeq(seqs) \in Seq(S) /\ (seqs = << >> => FlattenSeq(seqs) = << >>)
<1>1. CASE seqs = << >>
    BY <1>1 DEF FlattenSeq
<1>2. CASE seqs # << >>
  <2>1. Len(seqs) \in Nat \ {0}
    BY <1>2, EmptySeq
  <2>2. PICK f : Joins(f, Len(seqs), seqs, S) /\ FlattenSeq(seqs) = f[Len(seqs)]
    BY <2>1, FlattenJoins
  <2> QED
    BY <1>2, <2>1, <2>2 DEF Joins
<1> QED
    BY <1>1, <1>2

\* The first list comes first.
LEMMA FlattenCons ==
    ASSUME NEW S, NEW seqs \in Seq(Seq(S)), seqs # << >>
    PROVE  FlattenSeq(seqs) = seqs[1] \o FlattenSeq(Tail(seqs))
<1> DEFINE n == Len(seqs)
           rest == Tail(seqs)
<1>1. /\ n \in Nat \ {0} /\ rest \in Seq(Seq(S)) /\ Len(rest) = n - 1
      /\ \A i \in 1 .. n - 1 : rest[i] = seqs[i + 1]
      /\ \A i \in 1 .. n : seqs[i] \in Seq(S)
    BY EmptySeq, HeadTailProperties, ElementOfSeq
<1>2. PICK f : Joins(f, n, seqs, S) /\ FlattenSeq(seqs) = f[n]
    BY <1>1, FlattenJoins
<1> HIDE DEF n, rest
<1>3. CASE n = 1
  <2>1. rest = << >>
    BY <1>1, <1>3, EmptySeq
  <2>2. FlattenSeq(rest) = << >>
    BY <1>1, <2>1, FlattenType
  <2>3. f[n] = seqs[1] /\ seqs[1] \in Seq(S)
    BY <1>1, <1>2, <1>3 DEF Joins
  <2> QED
    BY <1>2, <2>2, <2>3, ConcatEmptySeq DEF rest
<1>4. CASE n # 1
  <2>1. PICK g : Joins(g, n - 1, rest, S) /\ FlattenSeq(rest) = g[n - 1]
    <3>1. Len(rest) > 0
      BY <1>1, <1>4
    <3>2. \E g : Joins(g, Len(rest), rest, S) /\ FlattenSeq(rest) = g[Len(rest)]
      BY <1>1, <3>1, FlattenJoins
    <3> QED
      BY <1>1, <3>2
  <2> DEFINE Bad == {m \in 1 .. n - 1 : f[m + 1] # seqs[1] \o g[m]}
  <2>2. ASSUME Bad # {}
        PROVE  FALSE
    <3>1. Bad \in SUBSET Nat
      <4>1. 1 .. n - 1 \subseteq Nat
        BY <1>1
      <4> QED
        BY <4>1
    <3>2. PICK m \in Bad : \A j \in Bad : m <= j
      BY <2>2, <3>1, HasLeast
    <3>3. m \in 1 .. n - 1 /\ f[m + 1] # seqs[1] \o g[m]
      BY <3>2
    <3>4. f[m + 1] = f[m] \o seqs[m + 1] /\ rest[m] = seqs[m + 1] /\ rest[m] \in Seq(S)
      <4>1. m + 1 \in 2 .. n /\ m + 1 \in 1 .. n /\ (m + 1) - 1 = m
        BY <1>1, <3>3
      <4>2. f[m + 1] = f[(m + 1) - 1] \o seqs[m + 1]
        BY <1>2, <4>1 DEF Joins
      <4> QED
        BY <1>1, <3>3, <4>1, <4>2
    <3>5. CASE m = 1
      <4>1. f[1] = seqs[1] /\ g[1] = rest[1]
        BY <1>2, <2>1 DEF Joins
      <4> QED
        BY <3>3, <3>4, <3>5, <4>1
    <3>6. CASE m # 1
      <4>1. m - 1 \in 1 .. n - 1 /\ ~(m <= m - 1) /\ m \in 2 .. n - 1 /\ (m - 1) + 1 = m
        BY <1>1, <3>3, <3>6
      <4>2. f[(m - 1) + 1] = seqs[1] \o g[m - 1]
        BY <3>2, <4>1
      <4>3. g[m] = g[m - 1] \o rest[m] /\ g[m - 1] \in Seq(S)
        BY <2>1, <4>1 DEF Joins
      <4>4. seqs[1] \in Seq(S)
        BY <1>1
      <4>5. f[m + 1] = (seqs[1] \o g[m - 1]) \o rest[m]
        BY <3>4, <4>1, <4>2
      <4>6. (seqs[1] \o g[m - 1]) \o rest[m] = seqs[1] \o (g[m - 1] \o rest[m])
        <5> DEFINE a == seqs[1]
                   b == g[m - 1]
                   c == rest[m]
        <5>1. a \in Seq(S) /\ b \in Seq(S) /\ c \in Seq(S)
          BY <3>4, <4>3, <4>4
        <5> HIDE DEF a, b, c
        <5>2. (a \o b) \o c = a \o (b \o c)
          BY <5>1, ConcatAssociative
        <5> QED
          BY <5>2 DEF a, b, c
      <4> QED
        BY <3>3, <4>3, <4>5, <4>6
    <3> QED
      BY <3>5, <3>6
  <2>3. n - 1 \in 1 .. n - 1
    BY <1>1, <1>4
  <2>4. f[(n - 1) + 1] = seqs[1] \o g[n - 1]
    BY <2>2, <2>3
  <2>5. (n - 1) + 1 = n
    BY <1>1
  <2> QED
    BY <1>2, <2>1, <2>4, <2>5 DEF rest
<1> QED
    BY <1>3, <1>4

\* Empty lists leave nothing.
LEMMA FlattenFrom ==
    ASSUME NEW S, NEW seqs \in Seq(Seq(S)), NEW i \in 1 .. Len(seqs) + 1,
           \A j \in 1 .. i - 1 : seqs[j] = << >>
    PROVE  FlattenSeq(seqs) = FlattenSeq(SubSeq(seqs, i, Len(seqs)))
<1> DEFINE n == Len(seqs)
           Bad == {m \in 1 .. i : FlattenSeq(seqs) # FlattenSeq(SubSeq(seqs, m, n))}
<1>1. n \in Nat
    OBVIOUS
<1>2. ASSUME Bad # {}
      PROVE  FALSE
  <2>1. Bad \in SUBSET Nat
    BY <1>1
  <2>2. PICK m \in Bad : \A j \in Bad : m <= j
    BY <1>2, <2>1, HasLeast
  <2>3. m # 1
    BY <2>2, SubSeqFull
  <2>4. m - 1 \in 1 .. i /\ m - 1 \notin Bad /\ m - 1 \in 1 .. n
    BY <1>1, <2>2, <2>3
  <2> DEFINE rest == SubSeq(seqs, m - 1, n)
  <2>5. FlattenSeq(seqs) = FlattenSeq(rest)
    BY <2>4
  <2>6. /\ rest \in Seq(Seq(S)) /\ rest # << >> /\ Tail(rest) = SubSeq(seqs, m, n)
        /\ rest[1] = seqs[m - 1]
    <3>1. n \in m - 1 .. n
      BY <1>1, <2>4
    <3>2. Len(rest) = n - (m - 1) + 1 /\ rest \in Seq(Seq(S)) /\ rest[1] = seqs[m - 1]
      BY <1>1, <2>4, <3>1, ElementOfSeq, SubSeqProperties
    <3>3. Tail(rest) = SubSeq(seqs, (m - 1) + 1, n)
      BY <2>4, <3>1, HeadTailOfSubSeq
    <3>4. rest # << >>
      <4>1. Len(rest) > 0
        BY <1>1, <2>4, <3>2
      <4> HIDE DEF rest
      <4> QED
        BY <3>2, <4>1
    <3>5. (m - 1) + 1 = m
      BY <2>2
    <3> QED
      BY <3>2, <3>3, <3>4, <3>5
  <2> HIDE DEF rest, n
  <2>7. FlattenSeq(rest) = rest[1] \o FlattenSeq(Tail(rest))
    BY <2>6, FlattenCons
  <2>8. rest[1] = << >>
    BY <2>2, <2>3, <2>4, <2>6 DEF n
  <2>9. FlattenSeq(Tail(rest)) \in Seq(S)
    BY <2>6, FlattenType, HeadTailProperties
  <2>10. FlattenSeq(rest) = FlattenSeq(SubSeq(seqs, m, n))
    BY <2>6, <2>7, <2>8, <2>9, ConcatEmptySeq
  <2> QED
    BY <2>2, <2>5, <2>10
<1>3. i \in 1 .. i
    BY <1>1
<1> QED
    BY <1>2, <1>3

\* What comes of a list and what comes of the lists after it.
LEMMA FlattenAt ==
    ASSUME NEW S, NEW seqs \in Seq(Seq(S)), NEW i \in 1 .. Len(seqs),
           \A j \in 1 .. i - 1 : seqs[j] = << >>
    PROVE  FlattenSeq(seqs) = seqs[i] \o FlattenSeq(SubSeq(seqs, i + 1, Len(seqs)))
<1> DEFINE n == Len(seqs)
           rest == SubSeq(seqs, i, n)
<1>1. n \in Nat /\ n \in i .. n /\ i \in 1 .. n + 1
    OBVIOUS
<1>2. FlattenSeq(seqs) = FlattenSeq(rest)
    BY <1>1, FlattenFrom
<1>3. Len(rest) = n - i + 1 /\ rest \in Seq(Seq(S)) /\ rest[1] = seqs[i]
    BY <1>1, ElementOfSeq, SubSeqProperties
<1>4. Tail(rest) = SubSeq(seqs, i + 1, n)
    BY <1>1, HeadTailOfSubSeq
<1>5. rest # << >>
  <2>1. Len(rest) > 0
    BY <1>1, <1>3
  <2> HIDE DEF rest
  <2> QED
    BY <1>3, <2>1
<1> HIDE DEF rest
<1>6. FlattenSeq(rest) = rest[1] \o FlattenSeq(Tail(rest))
    BY <1>3, <1>5, FlattenCons
<1> QED
    BY <1>2, <1>3, <1>4, <1>6

(* The lines of a statement, one list for each line. *)
PicksOf(list, statement) ==
    [i \in DOMAIN list |-> IF list[i].statement = statement THEN <<list[i]>> ELSE << >>]

\* Those of the rest of a list are the rest of those of the list.
LEMMA PicksOfRest ==
    ASSUME NEW S, NEW list \in Seq(S), NEW statement, NEW i \in 1 .. Len(list) + 1
    PROVE  /\ PicksOf(list, statement) \in Seq(Seq(S))
           /\ Len(PicksOf(list, statement)) = Len(list)
           /\ SubSeq(PicksOf(list, statement), i, Len(list))
                = PicksOf(SubSeq(list, i, Len(list)), statement)
<1> DEFINE f == [x \in S |-> IF x.statement = statement THEN <<x>> ELSE << >>]
           Made(l) == [j \in DOMAIN l |-> f[l[j]]]
           rest == SubSeq(list, i, Len(list))
<1>1. f \in [S -> Seq(S)]
  <2>1. \A x \in S : <<x>> \in Seq(S) /\ << >> \in Seq(S)
    OBVIOUS
  <2> QED
    BY <2>1
<1>2. ASSUME NEW l \in Seq(S)
      PROVE  PicksOf(l, statement) = Made(l)
  <2>1. \A j \in DOMAIN l : l[j] \in S
    BY ElementOfSeq
  <2> QED
    BY <2>1 DEF PicksOf
<1>3. rest \in Seq(S)
    BY RestOf
<1> HIDE DEF f
<1>4. /\ Made(list) \in Seq(Seq(S)) /\ Len(Made(list)) = Len(list)
      /\ SubSeq(Made(list), i, Len(list)) = Made(rest)
  <2> DEFINE T == Seq(S)
  <2>1. f \in [S -> T]
    BY <1>1
  <2> HIDE DEF T
  <2>2. /\ Made(list) \in Seq(T) /\ Len(Made(list)) = Len(list)
        /\ SubSeq(Made(list), i, Len(list)) = Made(rest)
    BY <2>1, MapRest
  <2> QED
    BY <2>2 DEF T
<1> HIDE DEF Made
<1> QED
    BY <1>2, <1>3, <1>4

\* Those of a list: the first, and those behind it.
LEMMA PicksOfFound ==
    ASSUME NEW S, NEW list \in Seq(S), NEW statement, NEW i \in 1 .. Len(list) + 1,
           i <= Len(list) => list[i].statement = statement,
           \A j \in 1 .. i - 1 : list[j].statement # statement
    PROVE  LET here == SubSeq(list, i, Len(list))
               all  == FlattenSeq(PicksOf(list, statement))
           IN  /\ all \in Seq(S)
               /\ here = << >> => all = << >>
               /\ here # << >> =>
                     all = <<Head(here)>> \o FlattenSeq(PicksOf(Tail(here), statement))
<1> DEFINE n == Len(list)
           pick == PicksOf(list, statement)
<1>1. n \in Nat /\ DOMAIN list = 1 .. n
    OBVIOUS
<1>2. pick \in Seq(Seq(S)) /\ Len(pick) = n
  <2>1. 1 \in 1 .. n + 1
    BY <1>1
  <2> QED
    BY <2>1, PicksOfRest
<1>3. \A j \in 1 .. i - 1 : pick[j] = << >>
    BY <1>1 DEF PicksOf
<1>4. FlattenSeq(pick) \in Seq(S)
    BY <1>2, FlattenType
<1>5. CASE i = n + 1
  <2>1. SubSeq(list, i, n) = << >> /\ SubSeq(pick, i, n) = << >>
    BY <1>1, <1>5, SubSeqEmpty
  <2>2. FlattenSeq(pick) = FlattenSeq(SubSeq(pick, i, n))
    BY <1>2, <1>3, FlattenFrom
  <2>3. FlattenSeq(<< >>) = << >>
    BY DEF FlattenSeq
  <2> QED
    BY <1>4, <2>1, <2>2, <2>3
<1>6. CASE i # n + 1
  <2>1. i \in 1 .. n /\ i + 1 \in 1 .. n + 1
    BY <1>1, <1>6
  <2>2. /\ SubSeq(list, i, n) # << >> /\ Head(SubSeq(list, i, n)) = list[i]
        /\ Tail(SubSeq(list, i, n)) = SubSeq(list, i + 1, n)
    BY <2>1, HeadFrom
  <2>3. pick[i] = <<list[i]>>
    BY <1>1, <2>1 DEF PicksOf
  <2>4. FlattenSeq(pick) = pick[i] \o FlattenSeq(SubSeq(pick, i + 1, n))
    BY <1>2, <1>3, <2>1, FlattenAt
  <2>5. SubSeq(pick, i + 1, n) = PicksOf(SubSeq(list, i + 1, n), statement)
    BY <2>1, PicksOfRest
  <2> QED
    BY <1>4, <2>2, <2>3, <2>4, <2>5
<1> QED
    BY <1>5, <1>6
=============================================================================
