-------------------------- MODULE StoredDocumentProofs --------------------------
(***************************************************************************)
(* What is written to a file reads back.  Under the limits it was written  *)
(* with, every valid document that the encoder takes comes back from its   *)
(* rows as it was, but for the selected author: the layers by their kinds  *)
(* and the version, the frames from the keyframes of their layers, and the *)
(* totals of the reader are those of the writer.  A commit writes over the *)
(* rows of the document before it and leaves those of the document after.  *)
(* From that follow that a bound file always reads back, and that an       *)
(* upgrade keeps the content of the files it turns into current ones.      *)
(***************************************************************************)
EXTENDS StoredDocument, IiscUpgrade, DocumentEditorProofs

(* What holds of 0 and of the next of every number of which it holds.        *)
LEMMA NumbersAreReached ==
    ASSUME NEW T, 0 \in T, \A n \in Nat : n \in T => n + 1 \in T
    PROVE  \A n \in Nat : n \in T
  <1> DEFINE rest == {n \in Nat : n \notin T}
  <1>1. SUFFICES ASSUME rest # {} PROVE FALSE
    OBVIOUS
  <1>2. PICK n \in rest : \A m \in rest : n <= m
    <2>1. rest \in SUBSET Nat
      OBVIOUS
    <2> HIDE DEF rest
    <2> QED
      BY <1>1, <2>1, LeastNumber
  <1>3. n \in Nat /\ n # 0 /\ n - 1 \in Nat /\ n - 1 \notin rest
    BY <1>2
  <1>4. (n - 1) + 1 \in T
    BY <1>3
  <1> QED
    BY <1>2, <1>3, <1>4

-----------------------------------------------------------------------------
(* Sums                                                                      *)

(* The sums of the first numbers.                                            *)
SumBefore(numbers, sums, n) == IF n = 0 THEN 0 ELSE sums[n - 1] + numbers[n]
AreSums(numbers, m, sums) == sums = [n \in 0 .. m |-> SumBefore(numbers, sums, n)]

LEMMA SumsExist ==
    ASSUME NEW numbers, NEW m \in Nat PROVE \E sums : AreSums(numbers, m, sums)
  <1> DEFINE T == {n \in Nat : \E sums : AreSums(numbers, n, sums)}
  <1>1. 0 \in T
    <2> DEFINE first == [k \in 0 .. 0 |-> 0]
    <2>1. \A k \in 0 .. 0 : k = 0
      OBVIOUS
    <2>2. first = [k \in 0 .. 0 |-> SumBefore(numbers, first, k)]
      BY <2>1 DEF SumBefore
    <2> QED
      BY <2>2 DEF AreSums
  <1>2. ASSUME NEW n \in Nat, n \in T PROVE n + 1 \in T
    <2>1. PICK before : AreSums(numbers, n, before)
      BY <1>2
    <2> DEFINE after == [k \in 0 .. n + 1 |-> SumBefore(numbers, before, k)]
    <2>2. \A k \in 0 .. n : before[k] = SumBefore(numbers, before, k)
      BY <2>1 DEF AreSums
    <2>3. \A k \in 0 .. n : after[k] = before[k]
      BY <2>2
    <2>4. ASSUME NEW k \in 0 .. n + 1
          PROVE  SumBefore(numbers, before, k) = SumBefore(numbers, after, k)
      <3>1. k # 0 => k - 1 \in 0 .. n
        OBVIOUS
      <3> HIDE DEF after
      <3> QED
        BY <2>3, <3>1 DEF SumBefore
    <2>5. after = [k \in 0 .. n + 1 |-> SumBefore(numbers, after, k)]
      BY <2>4
    <2>6. AreSums(numbers, n + 1, after)
      BY <2>5 DEF AreSums
    <2> QED
      BY <2>6
  <1> HIDE DEF T
  <1>3. m \in T
    BY <1>1, <1>2, NumbersAreReached
  <1> QED
    BY <1>3 DEF T

(* A total is the last of the sums, each of which adds a number.             *)
LEMMA TotalIs ==
    ASSUME NEW S, NEW numbers \in Seq(S)
    PROVE  \E sums : /\ Total(numbers) = sums[Len(numbers)] /\ sums[0] = 0
                     /\ \A n \in DOMAIN numbers : sums[n] = sums[n - 1] + numbers[n]
  <1> DEFINE m == Len(numbers)
             sums == CHOOSE sums : AreSums(numbers, m, sums)
  <1>1. m \in Nat /\ DOMAIN numbers = 1 .. m
    BY LenProperties
  <1>2. AreSums(numbers, m, sums)
    <2> HIDE DEF m
    <2> QED
      BY <1>1, SumsExist
  <1>3. Total(numbers) = sums[m]
    BY Zenon DEF Total, AreSums, SumBefore
  <1> HIDE DEF sums, m
  <1>4. sums[0] = 0
    BY <1>1, <1>2 DEF AreSums, SumBefore
  <1>5. \A n \in 1 .. m : sums[n] = sums[n - 1] + numbers[n]
    BY <1>1, <1>2 DEF AreSums, SumBefore
  <1> QED
    BY <1>1, <1>3, <1>4, <1>5 DEF m

(* Totals add up number by number.                                           *)
LEMMA TotalsAdd ==
    ASSUME NEW s \in Seq(Int), NEW t \in Seq(Int), NEW u \in Seq(Int),
           Len(s) = Len(u), Len(t) = Len(u), \A n \in DOMAIN u : u[n] = s[n] + t[n]
    PROVE  /\ Total(s) \in Int /\ Total(t) \in Int
           /\ Total(u) = Total(s) + Total(t)
  <1> DEFINE m == Len(u)
  <1>1. /\ m \in Nat /\ DOMAIN s = 1 .. m /\ DOMAIN t = 1 .. m /\ DOMAIN u = 1 .. m
        /\ \A n \in 1 .. m : s[n] \in Int /\ t[n] \in Int
    BY LenProperties, ElementOfSeq
  <1>2. PICK a : /\ Total(s) = a[m] /\ a[0] = 0
                 /\ \A n \in 1 .. m : a[n] = a[n - 1] + s[n]
    <2>1. \E a : /\ Total(s) = a[Len(s)] /\ a[0] = 0
                 /\ \A n \in DOMAIN s : a[n] = a[n - 1] + s[n]
      BY TotalIs
    <2> QED
      BY <1>1, <2>1
  <1>3. PICK b : /\ Total(t) = b[m] /\ b[0] = 0
                 /\ \A n \in 1 .. m : b[n] = b[n - 1] + t[n]
    <2>1. \E b : /\ Total(t) = b[Len(t)] /\ b[0] = 0
                 /\ \A n \in DOMAIN t : b[n] = b[n - 1] + t[n]
      BY TotalIs
    <2> QED
      BY <1>1, <2>1
  <1>4. PICK c : /\ Total(u) = c[m] /\ c[0] = 0
                 /\ \A n \in 1 .. m : c[n] = c[n - 1] + u[n]
    <2>1. \E c : /\ Total(u) = c[Len(u)] /\ c[0] = 0
                 /\ \A n \in DOMAIN u : c[n] = c[n - 1] + u[n]
      BY TotalIs
    <2> QED
      BY <1>1, <2>1
  <1> HIDE DEF m
  <1> DEFINE T == {n \in Nat : n <= m => a[n] \in Int /\ b[n] \in Int /\ c[n] = a[n] + b[n]}
  <1>5. 0 \in T
    BY <1>2, <1>3, <1>4
  <1>6. ASSUME NEW n \in Nat, n \in T PROVE n + 1 \in T
    <2>1. CASE n + 1 <= m
      <3>1. n + 1 \in 1 .. m /\ (n + 1) - 1 = n
        BY <1>1, <2>1
      <3>2. a[n] \in Int /\ b[n] \in Int /\ c[n] = a[n] + b[n]
        BY <1>1, <1>6, <2>1
      <3>3. s[n + 1] \in Int /\ t[n + 1] \in Int /\ u[n + 1] = s[n + 1] + t[n + 1]
        BY <1>1, <3>1
      <3>4. /\ a[n + 1] = a[n] + s[n + 1] /\ b[n + 1] = b[n] + t[n + 1]
            /\ c[n + 1] = c[n] + u[n + 1]
        BY <1>2, <1>3, <1>4, <3>1
      <3> DEFINE p == a[n]
                 q == b[n]
                 x == s[n + 1]
                 y == t[n + 1]
                 r == c[n + 1]
      <3>5. p \in Int /\ q \in Int /\ x \in Int /\ y \in Int /\ r = (p + q) + (x + y)
        BY <3>2, <3>3, <3>4, Zenon
      <3> HIDE DEF p, q, x, y, r
      <3>6. p + x \in Int /\ q + y \in Int /\ r = (p + x) + (q + y)
        BY <3>5
      <3>7. a[n + 1] = p + x /\ b[n + 1] = q + y /\ c[n + 1] = r
        BY <3>4, Zenon DEF p, q, x, y, r
      <3> QED
        BY <3>6, <3>7
    <2> QED
      BY <2>1
  <1> HIDE DEF T
  <1>7. m \in T
    BY <1>1, <1>5, <1>6, NumbersAreReached
  <1> QED
    BY <1>1, <1>2, <1>3, <1>4, <1>7 DEF T

(* The total of no number, of one, and of as many twos.                      *)
LEMMA TotalOfFew ==
    /\ Total(<<>>) = 0
    /\ \A x \in Int : Total(<<x>>) = x
  <1>1. <<>> \in Seq(Int) /\ Len(<<>>) = 0
    OBVIOUS
  <1>2. ASSUME NEW x \in Int PROVE Total(<<x>>) = x
    <2>1. <<x>> \in Seq(Int) /\ Len(<<x>>) = 1 /\ 1 \in DOMAIN <<x>> /\ <<x>>[1] = x
      OBVIOUS
    <2>2. PICK sums : /\ Total(<<x>>) = sums[Len(<<x>>)] /\ sums[0] = 0
                      /\ \A n \in DOMAIN <<x>> : sums[n] = sums[n - 1] + <<x>>[n]
      BY <2>1, TotalIs
    <2>3. sums[1] = sums[1 - 1] + x
      BY <2>1, <2>2
    <2> QED
      BY <2>1, <2>2, <2>3
  <1> QED
    BY <1>1, <1>2, TotalIs

LEMMA TotalOfTwos ==
    ASSUME NEW s \in Seq(Int), \A n \in DOMAIN s : s[n] = 2
    PROVE  Total(s) = 2 * Len(s)
  <1> DEFINE m == Len(s)
  <1>1. m \in Nat /\ DOMAIN s = 1 .. m
    BY LenProperties
  <1>2. PICK a : /\ Total(s) = a[m] /\ a[0] = 0
                 /\ \A n \in 1 .. m : a[n] = a[n - 1] + s[n]
    BY <1>1, TotalIs
  <1> HIDE DEF m
  <1> DEFINE T == {n \in Nat : n <= m => a[n] = 2 * n}
  <1>3. 0 \in T
    BY <1>2
  <1>4. ASSUME NEW n \in Nat, n \in T PROVE n + 1 \in T
    <2>1. CASE n + 1 <= m
      <3>1. n + 1 \in 1 .. m /\ (n + 1) - 1 = n
        BY <1>1, <2>1
      <3>2. a[n] = 2 * n
        BY <1>1, <1>4, <2>1
      <3>3. a[n + 1] = a[n] + s[n + 1] /\ s[n + 1] = 2
        BY <1>1, <1>2, <3>1
      <3> QED
        BY <3>2, <3>3
    <2> QED
      BY <2>1
  <1> HIDE DEF T
  <1>5. m \in T
    BY <1>1, <1>3, <1>4, NumbersAreReached
  <1> QED
    BY <1>1, <1>2, <1>5 DEF T, m

LEMMA CountingOn ==
    /\ IsFiniteSet({}) /\ Cardinality({}) = 0
    /\ \A k \in Nat : IsFiniteSet(1 .. k) /\ Cardinality(1 .. k) = k
  <1>1. IsFiniteSet({}) /\ Cardinality({}) = 0
    BY FS_EmptySet
  <1>2. ASSUME NEW k \in Nat PROVE IsFiniteSet(1 .. k) /\ Cardinality(1 .. k) = k
    <2>1. 1 \in Int /\ k \in Int
      OBVIOUS
    <2>2. /\ IsFiniteSet(1 .. k)
          /\ Cardinality(1 .. k) = IF 1 > k THEN 0 ELSE k - 1 + 1
      BY <2>1, FS_Interval
    <2>3. (IF 1 > k THEN 0 ELSE k - 1 + 1) = k
      OBVIOUS
    <2> QED
      BY <2>2, <2>3
  <1> QED
    BY <1>1, <1>2

(* Sets with nothing in common.                                              *)
LEMMA CountsAdd ==
    ASSUME NEW S, IsFiniteSet(S), NEW T, IsFiniteSet(T), S \intersect T = {}
    PROVE  /\ IsFiniteSet(S \union T) /\ Cardinality(S) \in Nat /\ Cardinality(T) \in Nat
           /\ Cardinality(S \union T) = Cardinality(S) + Cardinality(T)
  <1>1. /\ IsFiniteSet(S \union T)
        /\ Cardinality(S \union T) = Cardinality(S) + Cardinality(T) - Cardinality(S \intersect T)
    BY FS_Union
  <1>2. Cardinality(S) \in Nat /\ Cardinality(T) \in Nat
    BY FS_CardinalityType
  <1>3. Cardinality(S \intersect T) = 0
    BY CountingOn
  <1>4. \A a, b \in Nat : a + b - 0 = a + b
    OBVIOUS
  <1> QED
    BY <1>1, <1>2, <1>3, <1>4

(* A total of numbers counts pairs: of a place and one of what is there.     *)
PairsUpTo(s, n) == {pair \in (1 .. n) \X Nat : 1 <= pair[2] /\ pair[2] <= s[pair[1]]}
Pairs(s) == PairsUpTo(s, Len(s))

LEMMA TotalCounts ==
    ASSUME NEW s \in Seq(Nat)
    PROVE  /\ IsFiniteSet(Pairs(s)) /\ Total(s) \in Nat
           /\ Total(s) = Cardinality(Pairs(s))
  <1> DEFINE m == Len(s)
  <1>1. m \in Nat /\ DOMAIN s = 1 .. m /\ \A n \in 1 .. m : s[n] \in Nat
    BY LenProperties, ElementOfSeq
  <1>2. PICK a : /\ Total(s) = a[m] /\ a[0] = 0
                 /\ \A n \in 1 .. m : a[n] = a[n - 1] + s[n]
    BY <1>1, TotalIs
  <1> HIDE DEF m
  <1> DEFINE T == {n \in Nat : n <= m => /\ IsFiniteSet(PairsUpTo(s, n)) /\ a[n] \in Nat
                                         /\ a[n] = Cardinality(PairsUpTo(s, n))}
  <1>3. 0 \in T
    <2>1. PairsUpTo(s, 0) = {}
      BY DEF PairsUpTo
    <2>2. IsFiniteSet(PairsUpTo(s, 0)) /\ Cardinality(PairsUpTo(s, 0)) = 0 /\ a[0] = 0
      BY <1>2, <2>1, CountingOn
    <2> QED
      BY <2>2
  <1>4. ASSUME NEW n \in Nat, n \in T PROVE n + 1 \in T
    <2> SUFFICES ASSUME n + 1 <= m
                 PROVE  /\ IsFiniteSet(PairsUpTo(s, n + 1)) /\ a[n + 1] \in Nat
                        /\ a[n + 1] = Cardinality(PairsUpTo(s, n + 1))
      OBVIOUS
    <2> DEFINE k == s[n + 1]
               new == {n + 1} \X (1 .. k)
               old == PairsUpTo(s, n)
    <2>1. n + 1 \in 1 .. m /\ (n + 1) - 1 = n /\ n <= m
      BY <1>1
    <2>2. IsFiniteSet(old) /\ a[n] \in Nat /\ a[n] = Cardinality(old)
      BY <1>4, <2>1
    <2>3. k \in Nat /\ a[n + 1] = a[n] + k
      BY <1>1, <1>2, <2>1
    <2> HIDE DEF T
    <2>4. PairsUpTo(s, n + 1) = old \union new
      <3>1. ASSUME NEW pair \in old PROVE pair \in PairsUpTo(s, n + 1)
        BY DEF PairsUpTo
      <3>2. ASSUME NEW pair \in new PROVE pair \in PairsUpTo(s, n + 1)
        BY <2>1, <2>3 DEF PairsUpTo
      <3>3. ASSUME NEW pair \in PairsUpTo(s, n + 1) PROVE pair \in old \union new
        <4>1. /\ pair \in (1 .. n + 1) \X Nat /\ 1 <= pair[2] /\ pair[2] <= s[pair[1]]
              /\ pair = <<pair[1], pair[2]>>
          BY DEF PairsUpTo
        <4>2. CASE pair[1] = n + 1
          BY <2>3, <4>1, <4>2
        <4>3. CASE pair[1] # n + 1
          <5>1. pair[1] \in 1 .. n
            BY <4>1, <4>3
          <5>2. pair \in (1 .. n) \X Nat
            BY <4>1, <5>1
          <5> QED
            BY <4>1, <5>2 DEF PairsUpTo
        <4> QED
          BY <4>2, <4>3
      <3> QED
        BY <3>1, <3>2, <3>3
    <2>5. IsFiniteSet(new) /\ Cardinality(new) = k
      <3>1. IsFiniteSet({n + 1}) /\ Cardinality({n + 1}) = 1
        BY FS_Singleton
      <3>2. IsFiniteSet(1 .. k) /\ Cardinality(1 .. k) = k
        BY <2>3, CountingOn
      <3>3. IsFiniteSet(new) /\ Cardinality(new) = 1 * Cardinality(1 .. k)
        BY <3>1, <3>2, FS_Product
      <3> QED
        BY <2>3, <3>2, <3>3
    <2>6. old \intersect new = {}
      BY DEF PairsUpTo
    <2> HIDE DEF old, new, k
    <2>7. /\ IsFiniteSet(old \union new)
          /\ Cardinality(old \union new) = a[n] + k
      BY <2>2, <2>5, <2>6, CountsAdd
    <2>8. a[n] + k \in Nat
      BY <2>2, <2>3
    <2> QED
      BY <2>3, <2>4, <2>7, <2>8
  <1> HIDE DEF T
  <1>5. m \in T
    BY <1>1, <1>3, <1>4, NumbersAreReached
  <1> QED
    BY <1>1, <1>2, <1>5 DEF T, m, Pairs

-----------------------------------------------------------------------------
(* What is put in order                                                      *)

(* Places of which none has what another has count what they have.           *)
Enumerates(t, k, S) ==
    /\ \A i \in 1 .. k : t[i] \in S
    /\ \A e \in S : \E i \in 1 .. k : t[i] = e
    /\ \A i, j \in 1 .. k : t[i] = t[j] => i = j

LEMMA PlacesCount ==
    ASSUME NEW t, NEW k \in Nat, NEW S, Enumerates(t, k, S)
    PROVE  IsFiniteSet(S) /\ Cardinality(S) = k
  <1> DEFINE g == [i \in 1 .. k |-> t[i]]
  <1>1. g \in Bijection(1 .. k, S)
    BY DEF Bijection, Injection, Surjection, IsInjective, Enumerates
  <1>2. ExistsBijection(1 .. k, S)
    BY <1>1 DEF ExistsBijection
  <1>3. IsFiniteSet(1 .. k) /\ Cardinality(1 .. k) = k
    BY CountingOn
  <1> QED
    BY <1>2, <1>3, FS_Bijection

(* Putting the elements of a sequence in order by numbers that ascend in it  *)
(* gives the sequence.                                                       *)
LEMMA OrderedIs ==
    ASSUME NEW S, NEW t \in Seq(S), NEW number, \A i \in DOMAIN t : number[t[i]] \in Int,
           \A i, j \in DOMAIN t : i < j => number[t[i]] < number[t[j]]
    PROVE  Ordered(ToSet(t), number) = t
  <1> DEFINE m == Len(t)
             E == ToSet(t)
             Upto(e) == {o \in E : number[o] <= number[e]}
  <1>1. m \in Nat /\ DOMAIN t = 1 .. m /\ t = [n \in 1 .. m |-> t[n]]
    BY LenProperties
  <1>2. \A i, j \in 1 .. m : /\ i < j => number[t[i]] < number[t[j]]
                             /\ number[t[i]] \in Int
    BY <1>1
  <1>3. ASSUME NEW i \in 1 .. m, NEW j \in 1 .. m
        PROVE  /\ number[t[i]] <= number[t[j]] <=> i <= j
               /\ t[i] = t[j] => i = j
    <2>1. CASE i < j
      BY <1>2, <2>1
    <2>2. CASE j < i
      BY <1>2, <2>2
    <2>3. CASE i = j
      BY <1>2, <2>3
    <2> QED
      BY <2>1, <2>2, <2>3
  <1>4. E = {t[i] : i \in 1 .. m}
    BY <1>1 DEF ToSet
  <1> HIDE DEF E, m
  <1>5. Cardinality(E) = m
    <2>1. Enumerates(t, m, E)
      BY <1>3, <1>4 DEF Enumerates
    <2> QED
      BY <1>1, <2>1, PlacesCount
  <1>6. ASSUME NEW j \in 1 .. m PROVE Cardinality(Upto(t[j])) = j
    <2>1. Upto(t[j]) = {t[i] : i \in 1 .. j}
      <3>1. ASSUME NEW e \in Upto(t[j]) PROVE e \in {t[i] : i \in 1 .. j}
        <4>1. PICK i \in 1 .. m : e = t[i]
          BY <1>4
        <4>2. number[t[i]] <= number[t[j]]
          BY <4>1
        <4>3. i \in 1 .. j
          BY <1>1, <1>3, <4>2
        <4> QED
          BY <4>1, <4>3
      <3>2. ASSUME NEW i \in 1 .. j PROVE t[i] \in Upto(t[j])
        <4>1. i \in 1 .. m /\ i <= j
          BY <1>1
        <4> QED
          BY <1>3, <1>4, <4>1
      <3> QED
        BY <3>1, <3>2
    <2>2. j \in Nat /\ \A i, k \in 1 .. j : i \in 1 .. m /\ k \in 1 .. m
      BY <1>1
    <2>3. Enumerates(t, j, Upto(t[j]))
      BY <1>3, <2>1, <2>2 DEF Enumerates
    <2> HIDE DEF Upto
    <2> QED
      BY <2>2, <2>3, PlacesCount
  <1>7. ASSUME NEW n \in 1 .. m
        PROVE  (CHOOSE e \in E : Cardinality(Upto(e)) = n) = t[n]
    <2>1. t[n] \in E /\ Cardinality(Upto(t[n])) = n
      BY <1>4, <1>6
    <2>2. ASSUME NEW e \in E, Cardinality(Upto(e)) = n PROVE e = t[n]
      <3>1. PICK i \in 1 .. m : e = t[i]
        BY <1>4
      <3>2. Cardinality(Upto(t[i])) = i
        BY <1>6
      <3> QED
        BY <2>2, <3>1, <3>2
    <2> HIDE DEF Upto
    <2> QED
      BY <2>1, <2>2
  <1>8. Ordered(E, number) = [n \in 1 .. m |-> CHOOSE e \in E : Cardinality(Upto(e)) = n]
    BY <1>5 DEF Ordered
  <1> HIDE DEF Upto
  <1>9. Ordered(E, number) = [n \in 1 .. m |-> t[n]]
    BY <1>7, <1>8
  <1> QED
    BY <1>1, <1>9 DEF E

-----------------------------------------------------------------------------
(* The table of a document                                                   *)

(* The data of its layers, and what its rows hold: at most one row of each   *)
(* of some kinds, and of each of the others one for every item of a list.    *)
LayersData(d) == [i \in DOMAIN d.layers |-> LayerData(d, d.layers[i])]

OnesOf(d) ==
    [Header |-> <<HeaderData(d)>>, LayerCount |-> <<Len(d.layers)>>,
     Metadata |-> <<Since(d, 2, d.prompt)>>,
     AudioAssetCount |-> Since(d, 4, Len(d.audio)), AudioTrackCount |-> Since(d, 4, Len(d.tracks)),
     Authorship |-> Since(d, 5, "ledger"), ArtboardCount |-> Since(d, 18, Len(d.boards)),
     PublicationMetadata |-> Since(d, 22, PublicationData(d))]
ListsOf(d) ==
    [Asset |-> d.assets, Layer |-> LayersData(d), AudioAsset |-> d.audio,
     AudioTrack |-> d.tracks, Artboard |-> d.boards]

OneRow(kind, one) == {Row(kind, 0, 0, one[i]) : i \in DOMAIN one}
ListRows(kind, items) == {Row(kind, items[i].id, i - 1, items[i]) : i \in DOMAIN items}

Table(ones, lists) ==
    (UNION {OneRow(kind, ones[kind]) : kind \in Singletons})
      \union (UNION {ListRows(kind, lists[kind]) : kind \in Lists})

IsTable(ones, lists) ==
    /\ \A kind \in Singletons : ones[kind] = <<>> \/ \E x : ones[kind] = <<x>>
    /\ \A kind \in Lists : (\E S : lists[kind] \in Seq(S)) /\ Distinct(lists[kind])

TableOf(d) == Table(OnesOf(d), ListsOf(d))

LEMMA KindsDiffer == Singletons \intersect Lists = {}
  BY DEF Singletons, Lists

LEMMA KindsOfTable ==
    ASSUME NEW ones, NEW lists
    PROVE  /\ \A kind \in Singletons : OfKind(Table(ones, lists), kind) = OneRow(kind, ones[kind])
           /\ \A kind \in Lists : OfKind(Table(ones, lists), kind) = ListRows(kind, lists[kind])
  <1>1. \A kind, one : \A row \in OneRow(kind, one) : row.kind = kind
    BY DEF OneRow, Row
  <1>2. \A kind, items : \A row \in ListRows(kind, items) : row.kind = kind
    BY DEF ListRows, Row
  <1>3. \A kind \in Singletons : kind \notin Lists
    BY KindsDiffer
  <1> QED
    BY <1>1, <1>2, <1>3 DEF OfKind, Table

(* The one row of a kind.                                                    *)
LEMMA OneRowIs ==
    ASSUME NEW kind, NEW one, one = <<>> \/ \E x : one = <<x>>
    PROVE  /\ one = <<>> => OneRow(kind, one) = {}
           /\ one # <<>> => OneRow(kind, one) = {Row(kind, 0, 0, one[1])}
           /\ one = <<>> => Cardinality(OneRow(kind, one)) = 0
           /\ one # <<>> => Cardinality(OneRow(kind, one)) = 1
  <1>1. one = <<>> => OneRow(kind, one) = {}
    BY DEF OneRow
  <1>2. one # <<>> => OneRow(kind, one) = {Row(kind, 0, 0, one[1])}
    <2> SUFFICES ASSUME NEW x, one = <<x>> PROVE OneRow(kind, one) = {Row(kind, 0, 0, one[1])}
      OBVIOUS
    <2>1. DOMAIN one = {1}
      OBVIOUS
    <2> QED
      BY <2>1 DEF OneRow
  <1> QED
    BY <1>1, <1>2, FS_Singleton, CountingOn

RowAt(S, position) == CHOOSE row \in S : row.position = position

(* The rows of a list are as many as its items, one at each position.        *)
LEMMA ListRowsAre ==
    ASSUME NEW kind, NEW S, NEW items \in Seq(S)
    PROVE  /\ Cardinality(ListRows(kind, items)) = Len(items)
           /\ {row.position : row \in ListRows(kind, items)} = 0 .. Len(items) - 1
           /\ ListRows(kind, items) = {} <=> items = <<>>
           /\ \A i \in DOMAIN items :
                    RowAt(ListRows(kind, items), i - 1) = Row(kind, items[i].id, i - 1, items[i])
  <1> DEFINE m == Len(items)
             R == ListRows(kind, items)
             at == [i \in 1 .. m |-> Row(kind, items[i].id, i - 1, items[i])]
  <1>1. m \in Nat /\ DOMAIN items = 1 .. m /\ (items = <<>> <=> m = 0)
    BY LenProperties, EmptySeq
  <1> HIDE DEF m
  <1>2. \A i \in 1 .. m : at[i].position = i - 1 /\ at[i] = Row(kind, items[i].id, i - 1, items[i])
    BY DEF Row
  <1>3. R = {at[i] : i \in 1 .. m}
    BY <1>1 DEF ListRows
  <1> HIDE DEF at, R
  <1>4. Enumerates(at, m, R)
    <2>1. \A i, j \in 1 .. m : i - 1 = j - 1 => i = j
      BY <1>1
    <2> QED
      BY <1>2, <1>3, <2>1 DEF Enumerates
  <1>5. Cardinality(R) = m
    BY <1>1, <1>4, PlacesCount
  <1>6. {row.position : row \in R} = 0 .. m - 1
    <2>1. \A row \in R : row.position \in 0 .. m - 1
      BY <1>1, <1>2, <1>3
    <2>2. ASSUME NEW n \in 0 .. m - 1 PROVE \E row \in R : row.position = n
      <3>1. n + 1 \in 1 .. m /\ (n + 1) - 1 = n
        BY <1>1
      <3> QED
        BY <1>2, <1>3, <3>1
    <2> QED
      BY <2>1, <2>2
  <1>7. R = {} <=> m = 0
    <2>1. CASE m = 0
      BY <1>3, <2>1
    <2>2. CASE m # 0
      <3>1. 1 \in 1 .. m
        BY <1>1, <2>2
      <3> QED
        BY <1>3, <2>2, <3>1
    <2> QED
      BY <2>1, <2>2
  <1>8. ASSUME NEW i \in 1 .. m PROVE RowAt(R, i - 1) = at[i]
    <2>1. at[i] \in R /\ at[i].position = i - 1
      BY <1>2, <1>3
    <2>2. ASSUME NEW row \in R, row.position = i - 1 PROVE row = at[i]
      <3>1. PICK j \in 1 .. m : row = at[j]
        BY <1>3
      <3>2. j - 1 = i - 1
        BY <1>2, <2>2, <3>1
      <3>3. j = i
        BY <1>1, <3>2
      <3> QED
        BY <3>1, <3>3
    <2> QED
      BY <2>1, <2>2 DEF RowAt
  <1> QED
    BY <1>1, <1>2, <1>5, <1>6, <1>7, <1>8 DEF m, R

(* What a table is read for.                                                 *)
LEMMA OnesRead ==
    ASSUME NEW ones, NEW lists, IsTable(ones, lists), NEW kind \in Singletons
    PROVE  /\ Occurs(Table(ones, lists), kind) <=> ones[kind] # <<>>
           /\ \A x : ones[kind] = <<x>> => Only(Table(ones, lists), kind) = x
           /\ Count(Table(ones, lists), kind) = Stored(ones[kind], 0)
  <1> DEFINE R == Table(ones, lists)
  <1>1. OfKind(R, kind) = OneRow(kind, ones[kind])
    BY KindsOfTable
  <1>2. ones[kind] = <<>> \/ \E x : ones[kind] = <<x>>
    BY DEF IsTable
  <1> HIDE DEF R
  <1>3. Occurs(R, kind) <=> ones[kind] # <<>>
    <2>1. Occurs(R, kind) <=> OneRow(kind, ones[kind]) # {}
      BY <1>1, Zenon DEF Occurs
    <2>2. CASE ones[kind] = <<>>
      BY <2>1, <2>2, OneRowIs
    <2>3. CASE \E x : ones[kind] = <<x>>
      <3>1. OneRow(kind, ones[kind]) # {} /\ ones[kind] # <<>>
        BY <2>3, OneRowIs
      <3> QED
        BY <2>1, <3>1, Zenon
    <2> QED
      BY <1>2, <2>2, <2>3, Zenon
  <1>4. ASSUME NEW x, ones[kind] = <<x>> PROVE Only(R, kind) = x
    <2>1. OfKind(R, kind) = {Row(kind, 0, 0, x)}
      <3>1. ones[kind] # <<>> /\ ones[kind][1] = x
        BY <1>4
      <3>2. OneRow(kind, ones[kind]) = {Row(kind, 0, 0, ones[kind][1])}
        BY <1>2, <3>1, OneRowIs, Zenon
      <3> QED
        BY <1>1, <3>1, <3>2, Zenon
    <2>2. PICK row \in R : row.kind = kind
      BY <2>1 DEF OfKind
    <2>3. (CHOOSE r \in R : r.kind = kind) \in OfKind(R, kind)
      BY <2>2 DEF OfKind
    <2>4. Only(R, kind) = Row(kind, 0, 0, x).data
      BY <2>1, <2>3 DEF Only
    <2> QED
      BY <2>4 DEF Row
  <1>5. Count(R, kind) = Stored(ones[kind], 0)
    <2>1. CASE ones[kind] = <<>>
      BY <1>3, <2>1 DEF Count, Stored
    <2>2. ASSUME NEW x, ones[kind] = <<x>> PROVE Count(R, kind) = Stored(ones[kind], 0)
      <3>1. ones[kind] # <<>> /\ ones[kind][1] = x
        BY <2>2
      <3> QED
        BY <1>3, <1>4, <2>2, <3>1 DEF Count, Stored
    <2> QED
      BY <1>2, <2>1, <2>2
  <1> QED
    BY <1>3, <1>4, <1>5 DEF R

LEMMA ListsRead ==
    ASSUME NEW ones, NEW lists, IsTable(ones, lists), NEW kind \in Lists
    PROVE  /\ Occurs(Table(ones, lists), kind) <=> lists[kind] # <<>>
           /\ Cardinality(OfKind(Table(ones, lists), kind)) = Len(lists[kind])
           /\ ReadRecords(Table(ones, lists), kind) = lists[kind]
  <1> DEFINE R == Table(ones, lists)
             items == lists[kind]
  <1>1. OfKind(R, kind) = ListRows(kind, items)
    BY KindsOfTable
  <1>2. PICK S : items \in Seq(S)
    BY DEF IsTable
  <1> HIDE DEF R, items
  <1>3. /\ Cardinality(ListRows(kind, items)) = Len(items)
        /\ ListRows(kind, items) = {} <=> items = <<>>
        /\ \A i \in DOMAIN items :
                RowAt(ListRows(kind, items), i - 1) = Row(kind, items[i].id, i - 1, items[i])
    BY <1>2, ListRowsAre
  <1>4. DOMAIN items = 1 .. Len(items) /\ items = [i \in 1 .. Len(items) |-> items[i]]
    BY <1>2, LenProperties
  <1>5. ReadRecords(R, kind) =
            [i \in 1 .. Len(items) |-> RowAt(ListRows(kind, items), i - 1).data]
    BY <1>1, <1>3 DEF ReadRecords, RowAt
  <1>6. \A i \in 1 .. Len(items) : RowAt(ListRows(kind, items), i - 1).data = items[i]
    <2>1. \A k, id, position, data : Row(k, id, position, data).data = data
      BY DEF Row
    <2> QED
      BY <1>3, <1>4, <2>1
  <1>7. ReadRecords(R, kind) = items
    BY <1>4, <1>5, <1>6
  <1> QED
    BY <1>1, <1>3, <1>7 DEF Occurs, R, items

LEMMA TableIsCanonical ==
    ASSUME NEW ones, NEW lists, IsTable(ones, lists),
           \A kind \in {"Header", "LayerCount", "Metadata"} : ones[kind] # <<>>,
           lists["AudioAsset"] # <<>> => ones["AudioAssetCount"] # <<>>,
           lists["AudioTrack"] # <<>> => ones["AudioTrackCount"] # <<>>,
           lists["Artboard"] # <<>> => ones["ArtboardCount"] # <<>>
    PROVE  CanonicalLayout(Table(ones, lists))
  <1> DEFINE R == Table(ones, lists)
  <1>1. ASSUME NEW kind \in Singletons
        PROVE  /\ \A row \in OfKind(R, kind) : row.id = 0
               /\ Cardinality(OfKind(R, kind)) <= 1
               /\ {row.position : row \in OfKind(R, kind)} = 0 .. Cardinality(OfKind(R, kind)) - 1
    <2>1. OfKind(R, kind) = OneRow(kind, ones[kind])
      BY KindsOfTable
    <2>2. ones[kind] = <<>> \/ \E x : ones[kind] = <<x>>
      BY DEF IsTable
    <2> HIDE DEF R
    <2>3. CASE ones[kind] = <<>>
      <3>1. OfKind(R, kind) = {} /\ Cardinality(OfKind(R, kind)) = 0
        BY <2>1, <2>2, <2>3, OneRowIs
      <3> QED
        BY <3>1
    <2>4. CASE ones[kind] # <<>>
      <3>1. /\ OfKind(R, kind) = {Row(kind, 0, 0, ones[kind][1])}
            /\ Cardinality(OfKind(R, kind)) = 1
        BY <2>1, <2>2, <2>4, OneRowIs
      <3>2. 0 .. 1 - 1 = {0} /\ 1 <= 1
        OBVIOUS
      <3>3. \A k, x : Row(k, 0, 0, x).id = 0 /\ Row(k, 0, 0, x).position = 0
        BY DEF Row
      <3>4. {row.position : row \in OfKind(R, kind)} = {0}
        BY <3>1, <3>3
      <3>5. \A row \in OfKind(R, kind) : row.id = 0
        BY <3>1, <3>3
      <3> QED
        BY <3>1, <3>2, <3>4, <3>5
    <2> QED
      BY <2>3, <2>4
  <1>2. ASSUME NEW kind \in Lists
        PROVE  {row.position : row \in OfKind(R, kind)} = 0 .. Cardinality(OfKind(R, kind)) - 1
    <2>1. OfKind(R, kind) = ListRows(kind, lists[kind])
      BY KindsOfTable
    <2>2. PICK S : lists[kind] \in Seq(S)
      BY DEF IsTable
    <2> HIDE DEF R
    <2> QED
      BY <2>1, <2>2, ListRowsAre
  <1>3. /\ \A kind \in {"Header", "LayerCount", "Metadata"} : kind \in Singletons
        /\ {"AudioAssetCount", "AudioTrackCount", "ArtboardCount"} \subseteq Singletons
        /\ {"AudioAsset", "AudioTrack", "Artboard"} \subseteq Lists
    BY DEF Singletons, Lists
  <1>4. /\ \A kind \in {"Header", "LayerCount", "Metadata"} : Occurs(R, kind)
        /\ Occurs(R, "AudioAsset") => Occurs(R, "AudioAssetCount")
        /\ Occurs(R, "AudioTrack") => Occurs(R, "AudioTrackCount")
        /\ Occurs(R, "Artboard") => Occurs(R, "ArtboardCount")
    BY <1>3, OnesRead, ListsRead
  <1> HIDE DEF R
  <1>5. CanonicalLayout(R)
    BY <1>1, <1>2, <1>4 DEF CanonicalLayout
  <1> QED
    BY <1>5 DEF R

-----------------------------------------------------------------------------
(* Writing                                                                   *)

IsSequence(s) == \E S : s \in Seq(S)

(* What becomes of one record.                                               *)
Written(table, record) ==
    IF record.data = <<>> THEN [RowOf(table, record) EXCEPT !.position = record.position]
    ELSE [record EXCEPT !.data = record.data[1]]

LEMMA WrittenRecords ==
    ASSUME NEW table, NEW s
    PROVE  WriteRecords(table, s) = {Written(table, record) : record \in ToSet(s)}
  BY DEF WriteRecords, Written

LEMMA WrittenOneByOne ==
    ASSUME NEW table, NEW s, IsSequence(s), NEW t, IsSequence(t)
    PROVE  /\ IsSequence(s \o t)
           /\ WriteRecords(table, s \o t) = WriteRecords(table, s) \union WriteRecords(table, t)
  <1>1. PICK S, T : s \in Seq(S) /\ t \in Seq(T)
    BY DEF IsSequence
  <1>2. s \in Seq(S \union T) /\ t \in Seq(S \union T)
    BY <1>1, SeqMonotonic
  <1>3. /\ s \o t \in Seq(S \union T) /\ Len(s \o t) = Len(s) + Len(t)
        /\ \A i \in 1 .. Len(s) + Len(t) :
                (s \o t)[i] = IF i <= Len(s) THEN s[i] ELSE t[i - Len(s)]
    BY <1>2, ConcatProperties
  <1>4. /\ Len(s) \in Nat /\ DOMAIN s = 1 .. Len(s)
        /\ Len(t) \in Nat /\ DOMAIN t = 1 .. Len(t)
        /\ DOMAIN (s \o t) = 1 .. Len(s) + Len(t)
    BY <1>2, <1>3, LenProperties
  <1>5. ToSet(s \o t) = ToSet(s) \union ToSet(t)
    <2>1. ASSUME NEW i \in DOMAIN (s \o t) PROVE (s \o t)[i] \in ToSet(s) \union ToSet(t)
      <3>1. CASE i <= Len(s)
        BY <1>3, <1>4, <3>1 DEF ToSet
      <3>2. CASE ~(i <= Len(s))
        <4>1. i - Len(s) \in DOMAIN t /\ (s \o t)[i] = t[i - Len(s)]
          BY <1>3, <1>4, <3>2
        <4> QED
          BY <4>1 DEF ToSet
      <3> QED
        BY <3>1, <3>2
    <2>2. ASSUME NEW i \in DOMAIN s PROVE s[i] \in ToSet(s \o t)
      <3>1. i \in DOMAIN (s \o t) /\ (s \o t)[i] = s[i]
        BY <1>3, <1>4
      <3> QED
        BY <3>1 DEF ToSet
    <2>3. ASSUME NEW i \in DOMAIN t PROVE t[i] \in ToSet(s \o t)
      <3>1. /\ Len(s) + i \in DOMAIN (s \o t) /\ ~(Len(s) + i <= Len(s))
            /\ (Len(s) + i) - Len(s) = i
        BY <1>4
      <3>2. (s \o t)[Len(s) + i] = t[i]
        BY <1>3, <1>4, <3>1
      <3> QED
        BY <3>1, <3>2 DEF ToSet
    <2> QED
      BY <2>1, <2>2, <2>3 DEF ToSet
  <1>6. IsSequence(s \o t)
    BY <1>3 DEF IsSequence
  <1> QED
    BY <1>5, <1>6, WrittenRecords

LEMMA WrittenSingleton ==
    ASSUME NEW table, NEW kind, NEW data
    PROVE  /\ IsSequence(Singleton(kind, data))
           /\ WriteRecords(table, Singleton(kind, data)) = OneRow(kind, <<data>>)
  <1> DEFINE record == Row(kind, 0, 0, <<data>>)
  <1>1. Singleton(kind, data) = <<record>>
    BY DEF Singleton
  <1>2. record.data = <<data>> /\ Written(table, record) = Row(kind, 0, 0, data)
    BY DEF Written, Row
  <1> HIDE DEF record
  <1>3. ToSet(<<record>>) = {record} /\ <<record>> \in Seq({record})
    BY DEF ToSet
  <1>4. OneRow(kind, <<data>>) = {Row(kind, 0, 0, data)}
    BY DEF OneRow
  <1> QED
    BY <1>1, <1>2, <1>3, <1>4, WrittenRecords DEF IsSequence

LEMMA WrittenWhen ==
    ASSUME NEW table, NEW s, IsSequence(s), NEW condition
    PROVE  /\ IsSequence(When(condition, s))
           /\ WriteRecords(table, When(condition, s)) =
                    IF condition THEN WriteRecords(table, s) ELSE {}
  <1>1. IsSequence(<<>>) /\ ToSet(<<>>) = {}
    <2>1. <<>> \in Seq({})
      OBVIOUS
    <2> QED
      BY <2>1 DEF IsSequence, ToSet
  <1> QED
    BY <1>1, WrittenRecords DEF When

(* Records of a list whose rows come out as they should.                     *)
LEMMA WrittenList ==
    ASSUME NEW table, NEW kind, NEW S, NEW items \in Seq(S), NEW records,
           DOMAIN records = DOMAIN items, records = [i \in DOMAIN items |-> records[i]],
           \A i \in DOMAIN items :
                Written(table, records[i]) = Row(kind, items[i].id, i - 1, items[i])
    PROVE  /\ IsSequence(records)
           /\ WriteRecords(table, records) = ListRows(kind, items)
  <1>1. DOMAIN records = 1 .. Len(items) /\ Len(items) \in Nat
    BY LenProperties
  <1>2. records \in Seq(ToSet(records))
    <2>1. \A i \in 1 .. Len(items) : records[i] \in ToSet(records)
      BY <1>1 DEF ToSet
    <2> QED
      BY <1>1, <2>1, IsASeq
  <1>3. ListRows(kind, items) = {Written(table, records[i]) : i \in DOMAIN items}
    BY DEF ListRows
  <1> QED
    BY <1>2, <1>3, WrittenRecords DEF IsSequence, ToSet

(* The row a list has for an item.                                           *)
LEMMA RowOfTable ==
    ASSUME NEW ones, NEW lists, IsTable(ones, lists), NEW kind \in Lists,
           NEW i \in DOMAIN lists[kind], NEW record,
           record.kind = kind, record.id = lists[kind][i].id
    PROVE  RowOf(Table(ones, lists), record) = Row(kind, record.id, i - 1, lists[kind][i])
  <1> DEFINE R == Table(ones, lists)
             items == lists[kind]
             row == Row(kind, record.id, i - 1, items[i])
  <1>1. OfKind(R, kind) = ListRows(kind, items)
    BY KindsOfTable
  <1>2. Distinct(items)
    BY DEF IsTable
  <1> HIDE DEF R, items
  <1>3. row \in OfKind(R, kind) /\ row.kind = kind /\ row.id = record.id
    BY <1>1 DEF ListRows, Row, items
  <1>4. ASSUME NEW other \in R, other.kind = kind, other.id = record.id PROVE other = row
    <2>1. other \in ListRows(kind, items)
      BY <1>1, <1>4 DEF OfKind
    <2>2. PICK j \in DOMAIN items : other = Row(kind, items[j].id, j - 1, items[j])
      BY <2>1 DEF ListRows
    <2>3. items[j].id = items[i].id
      BY <1>4, <2>2 DEF Row, items
    <2>4. j = i
      BY <1>2, <2>3 DEF Distinct, items
    <2> QED
      BY <2>2, <2>4 DEF items
  <1>5. row \in R
    BY <1>3 DEF OfKind
  <1> HIDE DEF row
  <1>6. RowOf(R, record) = row
    BY <1>3, <1>4, <1>5 DEF RowOf
  <1> QED
    BY <1>6 DEF R, row, items

LEMMA TableParts ==
    ASSUME NEW ones, NEW lists
    PROVE  Table(ones, lists) =
              OneRow("Header", ones["Header"]) \union ListRows("Asset", lists["Asset"])
                \union OneRow("LayerCount", ones["LayerCount"]) \union ListRows("Layer", lists["Layer"])
                \union OneRow("Metadata", ones["Metadata"])
                \union (OneRow("AudioAssetCount", ones["AudioAssetCount"])
                          \union ListRows("AudioAsset", lists["AudioAsset"])
                          \union OneRow("AudioTrackCount", ones["AudioTrackCount"])
                          \union ListRows("AudioTrack", lists["AudioTrack"]))
                \union OneRow("Authorship", ones["Authorship"])
                \union (OneRow("ArtboardCount", ones["ArtboardCount"])
                          \union ListRows("Artboard", lists["Artboard"]))
                \union OneRow("PublicationMetadata", ones["PublicationMetadata"])
  BY DEF Table, Singletons, Lists

(* What makes the rows of a document a table.                                *)
LEMMA LayersDataIs ==
    ASSUME NEW d \in CanvasDocument
    PROVE  /\ \E S : LayersData(d) \in Seq(S)
           /\ DOMAIN LayersData(d) = DOMAIN d.layers /\ Len(LayersData(d)) = Len(d.layers)
           /\ \A i \in DOMAIN d.layers : /\ LayersData(d)[i] = LayerData(d, d.layers[i])
                                         /\ LayersData(d)[i].id = d.layers[i].id
  <1> DEFINE data == LayersData(d)
             m == Len(d.layers)
  <1>1. m \in Nat /\ DOMAIN d.layers = 1 .. m
    BY FieldTypes, LenProperties
  <1>2. data = [i \in 1 .. m |-> LayerData(d, d.layers[i])]
    BY <1>1 DEF LayersData
  <1>3. \A layer : LayerData(d, layer).id = layer.id
    BY DEF LayerData
  <1> HIDE DEF data, m
  <1>4. data \in Seq({data[i] : i \in 1 .. m}) /\ Len(data) = m
    BY <1>1, <1>2
  <1> QED
    BY <1>1, <1>2, <1>3, <1>4 DEF data, m

LEMMA DocumentHasTable ==
    ASSUME NEW d \in CanvasDocument, Valid(d) PROVE IsTable(OnesOf(d), ListsOf(d))
  <1>1. \A n, x : Since(d, n, x) = <<>> \/ \E y : Since(d, n, x) = <<y>>
    BY DEF Since
  <1>2. \A kind \in Singletons : OnesOf(d)[kind] = <<>> \/ \E x : OnesOf(d)[kind] = <<x>>
    BY <1>1 DEF Singletons, OnesOf
  <1>3. /\ Distinct(d.assets) /\ Distinct(d.layers) /\ Distinct(d.audio)
        /\ Distinct(d.tracks) /\ Distinct(d.boards)
    BY DEF Valid, ValidAssets, ValidLayers, ValidAudio, ValidArtboards
  <1>4. Distinct(LayersData(d))
    BY <1>3, LayersDataIs DEF Distinct
  <1>5. /\ ListsOf(d)["Asset"] = d.assets /\ ListsOf(d)["Layer"] = LayersData(d)
        /\ ListsOf(d)["AudioAsset"] = d.audio /\ ListsOf(d)["AudioTrack"] = d.tracks
        /\ ListsOf(d)["Artboard"] = d.boards
    BY DEF ListsOf
  <1>6. /\ \E S : d.assets \in Seq(S)
        /\ \E S : LayersData(d) \in Seq(S)
        /\ \E S : d.audio \in Seq(S)
        /\ \E S : d.tracks \in Seq(S)
        /\ \E S : d.boards \in Seq(S)
    BY FieldTypes, LayersDataIs
  <1>7. \A kind \in Lists : (\E S : ListsOf(d)[kind] \in Seq(S)) /\ Distinct(ListsOf(d)[kind])
    BY <1>3, <1>4, <1>5, <1>6 DEF Lists
  <1> QED
    BY <1>2, <1>7 DEF IsTable

(* An asset that did not change is where it was.                             *)
IsFrom(table, previous) ==
    \A old \in ToSet(previous) : old \in CanvasDocument /\ Valid(old) /\ table = TableOf(old)

LEMMA UnchangedAssetStays ==
    ASSUME NEW table, NEW previous, IsFrom(table, previous), NEW asset \in VisualAsset,
           UnchangedAsset(asset, previous), NEW position
    PROVE  Written(table, Row("Asset", asset.id, position, <<>>)) =
                Row("Asset", asset.id, position, asset)
  <1> DEFINE record == Row("Asset", asset.id, position, <<>>)
  <1>1. PICK old \in ToSet(previous) : /\ HasKind(old, asset.id, asset.kind)
                                       /\ Found(old.assets, asset.id).parts = asset.parts
    BY DEF UnchangedAsset
  <1>2. old \in CanvasDocument /\ Valid(old) /\ table = TableOf(old)
    BY DEF IsFrom
  <1> DEFINE i == Item(old.assets, asset.id)
  <1>3. /\ i \in DOMAIN old.assets /\ old.assets[i] \in VisualAsset
        /\ old.assets[i].id = asset.id /\ old.assets[i].kind = asset.kind
        /\ old.assets[i].parts = asset.parts
    BY <1>1, <1>2, FieldTypes, FoundType DEF HasKind, Found
  <1>4. old.assets[i] = asset
    <2> HIDE DEF i
    <2> QED
      BY <1>3 DEF VisualAsset
  <1>5. "Asset" \in Lists /\ ListsOf(old)["Asset"] = old.assets
    BY DEF Lists, ListsOf
  <1>6. record.kind = "Asset" /\ record.id = asset.id /\ record.data = <<>>
        /\ record.position = position
    BY DEF Row
  <1> HIDE DEF i, record
  <1>7. RowOf(table, record) = Row("Asset", asset.id, i - 1, asset)
    BY <1>2, <1>3, <1>4, <1>5, <1>6, DocumentHasTable, RowOfTable DEF TableOf
  <1>8. Written(table, record) = [Row("Asset", asset.id, i - 1, asset) EXCEPT !.position = position]
    BY <1>6, <1>7 DEF Written
  <1> QED
    BY <1>8 DEF Row, record

LEMMA UnchangedAudioStays ==
    ASSUME NEW table, NEW previous, IsFrom(table, previous), NEW asset \in AudioAsset,
           UnchangedAudio(asset, previous), NEW position
    PROVE  Written(table, Row("AudioAsset", asset.id, position, <<>>)) =
                Row("AudioAsset", asset.id, position, asset)
  <1> DEFINE record == Row("AudioAsset", asset.id, position, <<>>)
  <1>1. PICK old \in ToSet(previous) : Has(old.audio, asset.id) /\ Found(old.audio, asset.id) = asset
    BY DEF UnchangedAudio
  <1>2. old \in CanvasDocument /\ Valid(old) /\ table = TableOf(old)
    BY DEF IsFrom
  <1> DEFINE i == Item(old.audio, asset.id)
  <1>3. i \in DOMAIN old.audio /\ old.audio[i] = asset
    BY <1>1, ItemProperties DEF Found
  <1>4. "AudioAsset" \in Lists /\ ListsOf(old)["AudioAsset"] = old.audio
    BY DEF Lists, ListsOf
  <1>5. record.kind = "AudioAsset" /\ record.id = asset.id /\ record.data = <<>>
        /\ record.position = position
    BY DEF Row
  <1> HIDE DEF i, record
  <1>6. RowOf(table, record) = Row("AudioAsset", asset.id, i - 1, asset)
    BY <1>2, <1>3, <1>4, <1>5, DocumentHasTable, RowOfTable DEF TableOf
  <1>7. Written(table, record) = [Row("AudioAsset", asset.id, i - 1, asset) EXCEPT !.position = position]
    BY <1>5, <1>6 DEF Written
  <1> QED
    BY <1>7 DEF Row, record

LEMMA WrittenAsGiven ==
    ASSUME NEW table, NEW kind, NEW id, NEW position, NEW x
    PROVE  Written(table, Row(kind, id, position, <<x>>)) = Row(kind, id, position, x)
  BY DEF Written, Row

(* The lists of a document, each as its rows.                                *)
LEMMA WrittenLists ==
    ASSUME NEW d \in CanvasDocument, NEW table, NEW previous, IsFrom(table, previous)
    PROVE  LET assetRows == Listed("Asset", d.assets,
                    LAMBDA asset : IF UnchangedAsset(asset, previous) THEN <<>> ELSE <<asset>>)
               layers == Listed("Layer", d.layers, LAMBDA layer : <<LayerData(d, layer)>>)
               audio == Listed("AudioAsset", d.audio,
                    LAMBDA asset : IF UnchangedAudio(asset, previous) THEN <<>> ELSE <<asset>>)
               tracks == Listed("AudioTrack", d.tracks, LAMBDA track : <<track>>)
               boards == Listed("Artboard", d.boards, LAMBDA board : <<board>>)
           IN  /\ IsSequence(assetRows) /\ WriteRecords(table, assetRows) = ListRows("Asset", d.assets)
               /\ IsSequence(layers) /\ WriteRecords(table, layers) = ListRows("Layer", LayersData(d))
               /\ IsSequence(audio) /\ WriteRecords(table, audio) = ListRows("AudioAsset", d.audio)
               /\ IsSequence(tracks) /\ WriteRecords(table, tracks) = ListRows("AudioTrack", d.tracks)
               /\ IsSequence(boards) /\ WriteRecords(table, boards) = ListRows("Artboard", d.boards)
  <1> DEFINE assetRows == [i \in DOMAIN d.assets |->
                    Row("Asset", d.assets[i].id, i - 1,
                        IF UnchangedAsset(d.assets[i], previous) THEN <<>> ELSE <<d.assets[i]>>)]
             layers == [i \in DOMAIN d.layers |->
                    Row("Layer", d.layers[i].id, i - 1, <<LayerData(d, d.layers[i])>>)]
             audio == [i \in DOMAIN d.audio |->
                    Row("AudioAsset", d.audio[i].id, i - 1,
                        IF UnchangedAudio(d.audio[i], previous) THEN <<>> ELSE <<d.audio[i]>>)]
             tracks == [i \in DOMAIN d.tracks |->
                    Row("AudioTrack", d.tracks[i].id, i - 1, <<d.tracks[i]>>)]
             boards == [i \in DOMAIN d.boards |->
                    Row("Artboard", d.boards[i].id, i - 1, <<d.boards[i]>>)]
  <1>1. /\ d.assets \in Seq(VisualAsset) /\ d.audio \in Seq(AudioAsset)
        /\ d.tracks \in Seq(AudioTrack) /\ d.boards \in Seq(Artboard)
    BY FieldTypes
  <1>2. IsSequence(assetRows) /\ WriteRecords(table, assetRows) = ListRows("Asset", d.assets)
    <2>1. ASSUME NEW i \in DOMAIN d.assets
          PROVE  Written(table, assetRows[i]) = Row("Asset", d.assets[i].id, i - 1, d.assets[i])
      <3>1. d.assets[i] \in VisualAsset
        BY <1>1, LenProperties, ElementOfSeq
      <3>2. CASE UnchangedAsset(d.assets[i], previous)
        BY <3>1, <3>2, UnchangedAssetStays
      <3>3. CASE ~UnchangedAsset(d.assets[i], previous)
        BY <3>3, WrittenAsGiven
      <3> QED
        BY <3>2, <3>3
    <2>2. DOMAIN assetRows = DOMAIN d.assets /\ assetRows = [i \in DOMAIN d.assets |-> assetRows[i]]
      OBVIOUS
    <2> HIDE DEF assetRows
    <2> QED
      BY <1>1, <2>1, <2>2, WrittenList, ZenonT(30)
  <1>3. IsSequence(audio) /\ WriteRecords(table, audio) = ListRows("AudioAsset", d.audio)
    <2>1. ASSUME NEW i \in DOMAIN d.audio
          PROVE  Written(table, audio[i]) = Row("AudioAsset", d.audio[i].id, i - 1, d.audio[i])
      <3>1. d.audio[i] \in AudioAsset
        BY <1>1, LenProperties, ElementOfSeq
      <3>2. CASE UnchangedAudio(d.audio[i], previous)
        BY <3>1, <3>2, UnchangedAudioStays
      <3>3. CASE ~UnchangedAudio(d.audio[i], previous)
        BY <3>3, WrittenAsGiven
      <3> QED
        BY <3>2, <3>3
    <2>2. DOMAIN audio = DOMAIN d.audio /\ audio = [i \in DOMAIN d.audio |-> audio[i]]
      OBVIOUS
    <2> HIDE DEF audio
    <2> QED
      BY <1>1, <2>1, <2>2, WrittenList, ZenonT(30)
  <1>4. IsSequence(layers) /\ WriteRecords(table, layers) = ListRows("Layer", LayersData(d))
    <2>1. PICK S : LayersData(d) \in Seq(S)
      BY LayersDataIs
    <2>2. DOMAIN LayersData(d) = DOMAIN d.layers
      BY LayersDataIs
    <2>3. ASSUME NEW i \in DOMAIN d.layers
          PROVE  Written(table, layers[i]) =
                    Row("Layer", LayersData(d)[i].id, i - 1, LayersData(d)[i])
      BY LayersDataIs, WrittenAsGiven
    <2>4. DOMAIN layers = DOMAIN d.layers /\ layers = [i \in DOMAIN d.layers |-> layers[i]]
      OBVIOUS
    <2> HIDE DEF layers
    <2> QED
      BY <2>1, <2>2, <2>3, <2>4, WrittenList, ZenonT(30)
  <1>5. IsSequence(tracks) /\ WriteRecords(table, tracks) = ListRows("AudioTrack", d.tracks)
    <2>1. \A i \in DOMAIN d.tracks :
                Written(table, tracks[i]) = Row("AudioTrack", d.tracks[i].id, i - 1, d.tracks[i])
      BY WrittenAsGiven
    <2>2. DOMAIN tracks = DOMAIN d.tracks /\ tracks = [i \in DOMAIN d.tracks |-> tracks[i]]
      OBVIOUS
    <2> HIDE DEF tracks
    <2> QED
      BY <1>1, <2>1, <2>2, WrittenList, ZenonT(30)
  <1>6. IsSequence(boards) /\ WriteRecords(table, boards) = ListRows("Artboard", d.boards)
    <2>1. \A i \in DOMAIN d.boards :
                Written(table, boards[i]) = Row("Artboard", d.boards[i].id, i - 1, d.boards[i])
      BY WrittenAsGiven
    <2>2. DOMAIN boards = DOMAIN d.boards /\ boards = [i \in DOMAIN d.boards |-> boards[i]]
      OBVIOUS
    <2> HIDE DEF boards
    <2> QED
      BY <1>1, <2>1, <2>2, WrittenList, ZenonT(30)
  <1> QED
    BY <1>2, <1>3, <1>4, <1>5, <1>6 DEF Listed

(* What a version does not store is not there.                               *)
LEMMA NotStored ==
    ASSUME NEW d \in CanvasDocument, Valid(d)
    PROVE  /\ d.minor < 4 => d.audio = <<>> /\ d.tracks = <<>>
           /\ d.minor < 18 => d.boards = <<>>
           /\ d.minor < 22 => ~d.published
           /\ d.minor < 2 => d.prompt = "none"
           /\ d.minor \in Nat /\ d.minor <= 22
  <1>1. d.minor \in Nat
    BY FieldTypes
  <1> QED
    BY <1>1 DEF Valid, ValidAssets, ValidArtboards, ValidPublication, ValidMetadata, CurrentFormatMinor

(* Over the rows of a document, or over none, what is written are the rows   *)
(* of the document.                                                          *)
LEMMA WrittenPayload ==
    ASSUME NEW d \in CanvasDocument, Valid(d), NEW table, NEW previous, IsFrom(table, previous)
    PROVE  WriteRecords(table, WritePayload(d, previous)) = TableOf(d)
  <1> DEFINE W(s) == WriteRecords(table, s)
             assetRows == Listed("Asset", d.assets,
                    LAMBDA asset : IF UnchangedAsset(asset, previous) THEN <<>> ELSE <<asset>>)
             layers == Listed("Layer", d.layers, LAMBDA layer : <<LayerData(d, layer)>>)
             audio == Listed("AudioAsset", d.audio,
                    LAMBDA asset : IF UnchangedAudio(asset, previous) THEN <<>> ELSE <<asset>>)
             tracks == Listed("AudioTrack", d.tracks, LAMBDA track : <<track>>)
             boards == Listed("Artboard", d.boards, LAMBDA board : <<board>>)
             header == Singleton("Header", HeaderData(d))
             layerCount == Singleton("LayerCount", Len(d.layers))
             metadata == Singleton("Metadata", Since(d, 2, d.prompt))
             audioCount == Singleton("AudioAssetCount", Len(d.audio))
             trackCount == Singleton("AudioTrackCount", Len(d.tracks))
             authors == Singleton("Authorship", "ledger")
             boardCount == Singleton("ArtboardCount", Len(d.boards))
             publication == Singleton("PublicationMetadata", PublicationData(d))
             sound == audioCount \o audio \o trackCount \o tracks
             rooms == boardCount \o boards
  <1>1. /\ IsSequence(assetRows) /\ W(assetRows) = ListRows("Asset", d.assets)
        /\ IsSequence(layers) /\ W(layers) = ListRows("Layer", LayersData(d))
        /\ IsSequence(audio) /\ W(audio) = ListRows("AudioAsset", d.audio)
        /\ IsSequence(tracks) /\ W(tracks) = ListRows("AudioTrack", d.tracks)
        /\ IsSequence(boards) /\ W(boards) = ListRows("Artboard", d.boards)
    BY WrittenLists
  <1>2. /\ IsSequence(header) /\ W(header) = OneRow("Header", <<HeaderData(d)>>)
        /\ IsSequence(layerCount) /\ W(layerCount) = OneRow("LayerCount", <<Len(d.layers)>>)
        /\ IsSequence(metadata) /\ W(metadata) = OneRow("Metadata", <<Since(d, 2, d.prompt)>>)
        /\ IsSequence(audioCount) /\ W(audioCount) = OneRow("AudioAssetCount", <<Len(d.audio)>>)
        /\ IsSequence(trackCount) /\ W(trackCount) = OneRow("AudioTrackCount", <<Len(d.tracks)>>)
        /\ IsSequence(authors) /\ W(authors) = OneRow("Authorship", <<"ledger">>)
        /\ IsSequence(boardCount) /\ W(boardCount) = OneRow("ArtboardCount", <<Len(d.boards)>>)
        /\ IsSequence(publication)
        /\ W(publication) = OneRow("PublicationMetadata", <<PublicationData(d)>>)
    BY WrittenSingleton
  <1>3. WritePayload(d, previous) =
            header \o assetRows \o layerCount \o layers \o metadata
              \o When(d.minor >= 4, sound) \o When(d.minor >= 5, authors)
              \o When(d.minor >= 18, rooms) \o When(d.minor >= 22, publication)
    BY Zenon DEF WritePayload, AudioRecords
  <1> HIDE DEF assetRows, layers, audio, tracks, boards, header, layerCount, metadata, audioCount,
               trackCount, authors, boardCount, publication
  <1>4. /\ \A s, t : IsSequence(s) /\ IsSequence(t) =>
                        IsSequence(s \o t) /\ W(s \o t) = W(s) \union W(t)
        /\ \A s, condition : IsSequence(s) =>
                /\ IsSequence(When(condition, s))
                /\ W(When(condition, s)) = IF condition THEN W(s) ELSE {}
    BY WrittenOneByOne, WrittenWhen
  <1>5. /\ IsSequence(sound)
        /\ W(sound) = W(audioCount) \union W(audio) \union W(trackCount) \union W(tracks)
        /\ IsSequence(rooms) /\ W(rooms) = W(boardCount) \union W(boards)
    <2> HIDE DEF W
    <2>1. IsSequence(audioCount \o audio) /\ W(audioCount \o audio) = W(audioCount) \union W(audio)
      BY <1>1, <1>2, <1>4
    <2>2. /\ IsSequence(audioCount \o audio \o trackCount)
          /\ W(audioCount \o audio \o trackCount) = W(audioCount \o audio) \union W(trackCount)
      BY <1>2, <1>4, <2>1
    <2>3. IsSequence(sound) /\ W(sound) = W(audioCount \o audio \o trackCount) \union W(tracks)
      BY <1>1, <1>4, <2>2
    <2>4. IsSequence(rooms) /\ W(rooms) = W(boardCount) \union W(boards)
      BY <1>1, <1>2, <1>4
    <2> QED
      BY <2>1, <2>2, <2>3, <2>4
  <1> HIDE DEF W, sound, rooms
  <1> DEFINE sounds == When(d.minor >= 4, sound)
             signed == When(d.minor >= 5, authors)
             spaces == When(d.minor >= 18, rooms)
             published == When(d.minor >= 22, publication)
             soundRows == IF d.minor >= 4 THEN W(sound) ELSE {}
             signedRows == IF d.minor >= 5 THEN W(authors) ELSE {}
             spaceRows == IF d.minor >= 18 THEN W(rooms) ELSE {}
             publishedRows == IF d.minor >= 22 THEN W(publication) ELSE {}
  <1>6. /\ IsSequence(sounds) /\ W(sounds) = soundRows
         /\ IsSequence(signed) /\ W(signed) = signedRows
         /\ IsSequence(spaces) /\ W(spaces) = spaceRows
         /\ IsSequence(published) /\ W(published) = publishedRows
    BY <1>2, <1>4, <1>5, Zenon
  <1> HIDE DEF sounds, signed, spaces, published, soundRows, signedRows, spaceRows, publishedRows
  <1> DEFINE a == header \o assetRows
             b == a \o layerCount
             c == b \o layers
             e == c \o metadata
             f == e \o sounds
             g == f \o signed
             h == g \o spaces
  <1>7. WritePayload(d, previous) = h \o published
    BY <1>3, Zenon DEF sounds, signed, spaces, published
  <1>8. IsSequence(a) /\ W(a) = W(header) \union W(assetRows)
    BY <1>1, <1>2, <1>4
  <1> HIDE DEF a
  <1>9. IsSequence(b) /\ W(b) = W(a) \union W(layerCount)
    BY <1>2, <1>4, <1>8
  <1> HIDE DEF b
  <1>10. IsSequence(c) /\ W(c) = W(b) \union W(layers)
    BY <1>1, <1>4, <1>9
  <1> HIDE DEF c
  <1>11. IsSequence(e) /\ W(e) = W(c) \union W(metadata)
    BY <1>2, <1>4, <1>10
  <1> HIDE DEF e
  <1>12. IsSequence(f) /\ W(f) = W(e) \union soundRows
    BY <1>4, <1>11, <1>6
  <1> HIDE DEF f
  <1>13. IsSequence(g) /\ W(g) = W(f) \union signedRows
    BY <1>4, <1>12, <1>6
  <1> HIDE DEF g
  <1>14. IsSequence(h) /\ W(h) = W(g) \union spaceRows
    BY <1>4, <1>13, <1>6
  <1> HIDE DEF h
  <1>15. W(WritePayload(d, previous)) = W(h) \union publishedRows
    BY <1>4, <1>7, <1>14, <1>6
  <1>16. /\ \A kind : OneRow(kind, <<>>) = {} /\ ListRows(kind, <<>>) = {}
         /\ d.minor < 4 => d.audio = <<>> /\ d.tracks = <<>>
         /\ d.minor < 18 => d.boards = <<>>
         /\ d.minor \in Nat
    BY NotStored DEF OneRow, ListRows
  <1>17. \A n \in Nat : \A kind, x :
            OneRow(kind, Since(d, n, x)) = IF d.minor >= n THEN OneRow(kind, <<x>>) ELSE {}
    BY <1>16 DEF Since
  <1>18. soundRows =
            OneRow("AudioAssetCount", Since(d, 4, Len(d.audio))) \union ListRows("AudioAsset", d.audio)
              \union OneRow("AudioTrackCount", Since(d, 4, Len(d.tracks)))
              \union ListRows("AudioTrack", d.tracks)
    <2>1. CASE d.minor >= 4
      <3>1. soundRows = W(sound)
        BY <2>1, Zenon DEF soundRows
      <3>2. /\ OneRow("AudioAssetCount", Since(d, 4, Len(d.audio))) = W(audioCount)
            /\ OneRow("AudioTrackCount", Since(d, 4, Len(d.tracks))) = W(trackCount)
        BY <1>2, <1>17, <2>1
      <3> QED
        BY <1>1, <1>5, <3>1, <3>2, Zenon
    <2>2. CASE ~(d.minor >= 4)
      <3>1. soundRows = {}
        BY <2>2, Zenon DEF soundRows
      <3>2. d.audio = <<>> /\ d.tracks = <<>>
        BY <1>16, <2>2
      <3>3. /\ OneRow("AudioAssetCount", Since(d, 4, Len(d.audio))) = {}
            /\ OneRow("AudioTrackCount", Since(d, 4, Len(d.tracks))) = {}
        BY <1>17, <2>2
      <3> QED
        BY <1>16, <3>1, <3>2, <3>3
    <2> QED
      BY <2>1, <2>2
  <1>19. spaceRows =
            OneRow("ArtboardCount", Since(d, 18, Len(d.boards))) \union ListRows("Artboard", d.boards)
    <2>1. CASE d.minor >= 18
      <3>1. spaceRows = W(rooms)
        BY <2>1, Zenon DEF spaceRows
      <3>2. OneRow("ArtboardCount", Since(d, 18, Len(d.boards))) = W(boardCount)
        BY <1>2, <1>17, <2>1
      <3> QED
        BY <1>1, <1>5, <3>1, <3>2, Zenon
    <2>2. CASE ~(d.minor >= 18)
      <3>1. spaceRows = {}
        BY <2>2, Zenon DEF spaceRows
      <3>2. d.boards = <<>>
        BY <1>16, <2>2
      <3>3. OneRow("ArtboardCount", Since(d, 18, Len(d.boards))) = {}
        BY <1>17, <2>2
      <3> QED
        BY <1>16, <3>1, <3>2, <3>3
    <2> QED
      BY <2>1, <2>2
  <1>20. /\ signedRows = OneRow("Authorship", Since(d, 5, "ledger"))
         /\ publishedRows =
                OneRow("PublicationMetadata", Since(d, 22, PublicationData(d)))
    BY <1>2, <1>17 DEF signedRows, publishedRows
  <1> DEFINE ones == OnesOf(d)
             lists == ListsOf(d)
  <1>21. /\ lists["Asset"] = d.assets /\ lists["Layer"] = LayersData(d)
         /\ lists["AudioAsset"] = d.audio /\ lists["AudioTrack"] = d.tracks
         /\ lists["Artboard"] = d.boards
         /\ ones["Header"] = <<HeaderData(d)>> /\ ones["LayerCount"] = <<Len(d.layers)>>
         /\ ones["Metadata"] = <<Since(d, 2, d.prompt)>>
         /\ ones["AudioAssetCount"] = Since(d, 4, Len(d.audio))
         /\ ones["AudioTrackCount"] = Since(d, 4, Len(d.tracks))
         /\ ones["Authorship"] = Since(d, 5, "ledger")
         /\ ones["ArtboardCount"] = Since(d, 18, Len(d.boards))
         /\ ones["PublicationMetadata"] = Since(d, 22, PublicationData(d))
    BY DEF OnesOf, ListsOf
  <1> HIDE DEF ones, lists
  <1>22. Table(ones, lists) =
            OneRow("Header", <<HeaderData(d)>>) \union ListRows("Asset", d.assets)
              \union OneRow("LayerCount", <<Len(d.layers)>>) \union ListRows("Layer", LayersData(d))
              \union OneRow("Metadata", <<Since(d, 2, d.prompt)>>)
              \union soundRows
              \union signedRows
              \union spaceRows
              \union publishedRows
    BY <1>18, <1>19, <1>20, <1>21, TableParts
  <1>23. W(h) = OneRow("Header", <<HeaderData(d)>>) \union ListRows("Asset", d.assets)
              \union OneRow("LayerCount", <<Len(d.layers)>>) \union ListRows("Layer", LayersData(d))
              \union OneRow("Metadata", <<Since(d, 2, d.prompt)>>)
              \union soundRows
              \union signedRows
              \union spaceRows
    BY <1>1, <1>2, <1>8, <1>9, <1>10, <1>11, <1>12, <1>13, <1>14
  <1>24. W(WritePayload(d, previous)) = Table(ones, lists)
    BY <1>15, <1>22, <1>23
  <1> QED
    BY <1>24 DEF W, ones, lists, TableOf

-----------------------------------------------------------------------------
(* Reading the layers                                                        *)

LEMMA KindsOfControl ==
    /\ \A kind \in ControlKind : ControlFormat[kind] \in Nat /\ ControlFormat[kind] >= 8
    /\ {"Raster", "Vector", "Video", "Bitmap", "SemanticSegment", "Chunked"} \intersect ControlKind = {}
  <1>1. ControlKind = {"Pose", "Depth", "LineArt", "Canny", "Scribble", "Mlsd", "NormalMap",
                       "Shuffle", "Tile", "Reference", "IpAdapter"}
    BY DEF ControlKind, ControlFormat
  <1>2. \A kind \in ControlKind : ControlFormat[kind] \in Nat /\ ControlFormat[kind] >= 8
    BY <1>1 DEF ControlFormat
  <1> QED
    BY <1>1, <1>2

(* A field that has its default where the version does not store it.         *)
LEMMA StoredSince ==
    ASSUME NEW d, NEW n, NEW x, NEW default, d.minor >= n \/ x = default
    PROVE  Stored(Since(d, n, x), default) = x
  BY DEF Stored, Since

(* What validation says of one layer.                                        *)
ValidLayer(d, layer) ==
    /\ layer \in CanvasLayer
    /\ layer.appearance # PlainAppearance \/ layer.blend > 4 => d.minor >= 20
    /\ layer.board # 0 => d.minor >= 18
    /\ layer.range # <<>> => d.minor >= 3
    /\ layer.motion # <<>> => d.minor >= 6
    /\ layer.kind \in ControlKind => d.minor >= ControlFormat[layer.kind]
    /\ layer.kind = "SemanticSegment" => d.minor >= 7
    /\ layer.kind = "Video" => d.minor >= 6 /\ ~layer.keyed
    /\ layer.keyed => Ascending(layer.index) /\ layer.index = OwnedFrames(d.frames, layer.id)
    /\ ~layer.keyed => ReferenceIsValid(d, layer.asset, LayerContent(layer))

LEMMA LayersAreValid ==
    ASSUME NEW d \in CanvasDocument, Valid(d), NEW i \in DOMAIN d.layers
    PROVE  ValidLayer(d, d.layers[i])
  <1>1. /\ ValidAppearance(d, i) /\ ValidProperties(d, d.layers[i])
        /\ ValidControl(d, d.layers[i]) /\ ValidPlayback(d, d.layers[i])
        /\ ValidSource(d, d.layers[i])
        /\ d.layers[i].keyed => d.layers[i].index = OwnedFrames(d.frames, d.layers[i].id)
    BY DEF Valid, ValidLayers, IndexMatchesFrames
  <1>2. d.layers[i] \in CanvasLayer
    BY FieldTypes, LenProperties, ElementOfSeq
  <1>3. /\ d.layers[i].appearance # PlainAppearance \/ d.layers[i].blend > 4 => d.minor >= 20
    BY <1>1 DEF ValidAppearance
  <1>4. /\ d.layers[i].board # 0 => d.minor >= 18
        /\ d.layers[i].range # <<>> => d.minor >= 3
        /\ d.layers[i].motion # <<>> => d.minor >= 6
    BY <1>1 DEF ValidProperties
  <1>5. /\ d.layers[i].kind \in ControlKind => d.minor >= ControlFormat[d.layers[i].kind]
        /\ d.layers[i].kind = "SemanticSegment" => d.minor >= 7
        /\ d.layers[i].kind = "Video" => d.minor >= 6 /\ ~d.layers[i].keyed
    BY <1>1 DEF ValidControl, ValidPlayback
  <1>6. /\ d.layers[i].keyed => Ascending(d.layers[i].index)
        /\ ~d.layers[i].keyed => ReferenceIsValid(d, d.layers[i].asset, LayerContent(d.layers[i]))
    BY <1>1 DEF ValidSource
  <1> QED
    BY <1>1, <1>2, <1>3, <1>4, <1>5, <1>6 DEF ValidLayer

(* The content and the role of a layer.                                      *)
LEMMA ContentReads ==
    ASSUME NEW d \in CanvasDocument, NEW layer, ValidLayer(d, layer)
    PROVE  /\ ReadContentKind(d.assets, LayerData(d, layer)) = LayerContent(layer)
           /\ layer.keyed => LayerData(d, layer).source.content = LayerContent(layer)
  <1> DEFINE data == LayerData(d, layer)
  <1>1. data.source = SourceData(d, layer)
    BY DEF LayerData
  <1>2. CASE layer.keyed
    <2>1. data.source.keyed = TRUE /\ data.source.content = ContentTag(layer)
      BY <1>1, <1>2 DEF SourceData
    <2>2. layer.kind # "Video" /\ layer.kind \in LayerKind
      BY <1>2, LayerFieldTypes DEF ValidLayer
    <2>3. ContentTag(layer) = LayerContent(layer)
      BY <2>2 DEF ContentTag, LayerContent, LayerKind
    <2> HIDE DEF data
    <2> QED
      BY <1>2, <2>1, <2>3 DEF ReadContentKind, data
  <1>3. CASE ~layer.keyed
    <2>1. data.source.keyed = FALSE /\ data.source.asset = layer.asset
      BY <1>1, <1>3 DEF SourceData
    <2>2. AssetContent(Found(d.assets, layer.asset)) = LayerContent(layer)
      BY <1>3 DEF ValidLayer, ReferenceIsValid
    <2> HIDE DEF data
    <2> QED
      BY <1>3, <2>1, <2>2 DEF ReadContentKind, data
  <1> QED
    BY <1>2, <1>3

LEMMA RoleReads ==
    ASSUME NEW d \in CanvasDocument, NEW layer, ValidLayer(d, layer)
    PROVE  /\ ReadRole(LayerData(d, layer)) = RoleData(layer)
           /\ ReadLayerKind(d.assets, LayerData(d, layer)) = layer.kind
           /\ ReadSetup(LayerData(d, layer)) = layer.setup
           /\ (IF ReadRole(LayerData(d, layer)) = <<>> THEN NoControl
               ELSE ReadRole(LayerData(d, layer))[1].control) = layer.control
  <1> DEFINE data == LayerData(d, layer)
             content == ReadContentKind(d.assets, data)
  <1>1. /\ layer.kind \in LayerKind /\ IsVariant(layer) /\ d.minor \in Nat
    BY LayerIs, LayerFieldTypes, FieldTypes DEF ValidLayer
  <1>2. data.role = Since(d, 7, RoleData(layer))
    BY DEF LayerData
  <1>3. HasRole(layer.kind) => d.minor >= 7
    <2>1. CASE layer.kind \in ControlKind
      <3>1. d.minor >= ControlFormat[layer.kind] /\ ControlFormat[layer.kind] \in Nat
            /\ ControlFormat[layer.kind] >= 8
        BY <2>1, KindsOfControl DEF ValidLayer
      <3> QED
        BY <1>1, <3>1
    <2>2. CASE layer.kind = "SemanticSegment"
      BY <2>2 DEF ValidLayer
    <2> QED
      BY <2>1, <2>2 DEF HasRole
  <1>4. d.minor >= 7 \/ RoleData(layer) = <<>>
    BY <1>3 DEF RoleData
  <1>5. ReadRole(data) = RoleData(layer)
    BY <1>2, <1>4, StoredSince DEF ReadRole
  <1>6. content = LayerContent(layer)
    BY ContentReads
  <1> HIDE DEF data, content
  <1>7. CASE HasRole(layer.kind)
    <2>1. /\ RoleData(layer) # <<>> /\ RoleData(layer)[1].kind = layer.kind
          /\ RoleData(layer)[1].control = layer.control
          /\ RoleData(layer)[1].setup = IF HasSetup(layer.kind) THEN layer.setup ELSE NoSetup
      BY <1>7 DEF RoleData
    <2>2. RoleData(layer)[1].setup = layer.setup
      BY <1>1, <2>1 DEF IsVariant
    <2> QED
      BY <1>5, <2>1, <2>2 DEF ReadLayerKind, ReadSetup, data
  <1>8. CASE ~HasRole(layer.kind)
    <2>1. RoleData(layer) = <<>> /\ layer.control = NoControl /\ layer.setup = NoSetup
      <3>1. ~HasSetup(layer.kind)
        BY <1>8, ControlKinds DEF HasRole, HasSetup
      <3> QED
        BY <1>1, <1>8, <3>1 DEF IsVariant, RoleData
    <2>2. layer.kind \in {"Bitmap", "Vector", "Video"}
      BY <1>1, <1>8 DEF HasRole, LayerKind
    <2>3. /\ layer.kind = "Bitmap" <=> LayerContent(layer) = "Raster"
          /\ layer.kind # "Bitmap" => LayerContent(layer) = layer.kind
      BY <2>2 DEF LayerContent
    <2>4. ReadLayerKind(d.assets, data) = layer.kind
      BY <1>5, <1>6, <2>1, <2>3 DEF ReadLayerKind, content
    <2> QED
      BY <1>5, <2>1, <2>4 DEF ReadSetup, data
  <1> QED
    BY <1>5, <1>7, <1>8 DEF data

(* The source of a layer, and the times of its keyframes.                    *)
LEMMA SourceReads ==
    ASSUME NEW d \in CanvasDocument, NEW layer, ValidLayer(d, layer)
    PROVE  LET source == LayerData(d, layer).source
           IN  /\ source.keyed = layer.keyed
               /\ layer.keyed => Times(source.keys) = layer.index /\ layer.asset = 0
               /\ ~layer.keyed => source.asset = layer.asset /\ layer.index = <<>>
               /\ layer.keyed => source.keys = ProjectedKeyframes(d, layer)
  <1> DEFINE source == LayerData(d, layer).source
             owners == OwnedFrames(d.frames, layer.id)
             keys == ProjectedKeyframes(d, layer)
  <1>1. source = SourceData(d, layer)
    BY DEF LayerData
  <1>2. IsVariant(layer) /\ layer.keyed \in BOOLEAN
    BY LayerIs, LayerFieldTypes DEF ValidLayer
  <1>3. owners \in Seq(Nat)
    BY FieldTypes, OwnedFramesType
  <1>4. keys = [i \in DOMAIN owners |->
                    [at |-> owners[i], asset |-> KeyAsset(d, layer.id, owners[i])]]
    BY DEF ProjectedKeyframes
  <1> HIDE DEF source, owners, keys
  <1>5. Times(keys) = owners
    <2>1. DOMAIN keys = DOMAIN owners /\ \A i \in DOMAIN owners : keys[i].at = owners[i]
      BY <1>4
    <2>2. owners = [i \in DOMAIN owners |-> owners[i]]
      BY <1>3, LenProperties
    <2> QED
      BY <2>1, <2>2 DEF Times
  <1>6. CASE layer.keyed
    <2>1. source.keyed = TRUE /\ source.keys = keys
      BY <1>1, <1>6 DEF SourceData, keys
    <2>2. layer.index = owners /\ layer.asset = 0
      BY <1>2, <1>6 DEF ValidLayer, owners, IsVariant
    <2> QED
      BY <1>2, <1>5, <1>6, <2>1, <2>2 DEF source, keys
  <1>7. CASE ~layer.keyed
    <2>1. source.keyed = FALSE /\ source.asset = layer.asset
      BY <1>1, <1>7 DEF SourceData
    <2>2. layer.index = <<>>
      BY <1>2, <1>7 DEF IsVariant
    <2> QED
      BY <1>2, <1>7, <2>1, <2>2 DEF source
  <1> QED
    BY <1>6, <1>7

(* A layer is the record of its fields.                                      *)
LEMMA LayerOfFields ==
    ASSUME NEW l \in CanvasLayer, NEW r,
           r = [id |-> l.id, name |-> l.name, visible |-> l.visible,
                opacity |-> l.opacity, x |-> l.x, blend |-> l.blend, kind |-> l.kind,
                board |-> l.board, appearance |-> l.appearance, keyed |-> l.keyed,
                asset |-> l.asset, index |-> l.index, range |-> l.range, motion |-> l.motion,
                control |-> l.control, setup |-> l.setup, playback |-> l.playback]
    PROVE  r = l
  <1>1. l \in LayerOf(Nat, Int)
    BY LayerIs
  <1> QED
    BY <1>1 DEF LayerOf

LEMMA LayerReads ==
    ASSUME NEW d \in CanvasDocument, NEW layer, ValidLayer(d, layer)
    PROVE  ReadLayer(d.assets, LayerData(d, layer)) = layer
  <1> DEFINE data == LayerData(d, layer)
  <1>1. layer \in CanvasLayer /\ IsVariant(layer)
    BY LayerIs DEF ValidLayer
  <1>2. /\ data.id = layer.id /\ data.name = layer.name /\ data.visible = layer.visible
        /\ data.opacity = layer.opacity /\ data.x = layer.x /\ data.blend = layer.blend
        /\ data.board = Since(d, 18, layer.board)
        /\ data.appearance = Since(d, 20, layer.appearance)
        /\ data.range = Since(d, 3, layer.range) /\ data.motion = Since(d, 6, layer.motion)
        /\ data.playback = IF layer.kind = "Video" THEN Since(d, 6, layer.playback) ELSE <<>>
    BY DEF LayerData
  <1>3. /\ data.source.keyed = layer.keyed
        /\ layer.keyed => Times(data.source.keys) = layer.index /\ layer.asset = 0
        /\ ~layer.keyed => data.source.asset = layer.asset /\ layer.index = <<>>
    BY SourceReads
  <1>4. /\ ReadLayerKind(d.assets, data) = layer.kind /\ ReadSetup(data) = layer.setup
        /\ (IF ReadRole(data) = <<>> THEN NoControl ELSE ReadRole(data)[1].control) = layer.control
    BY RoleReads
  <1> HIDE DEF data
  <1>5. Stored(data.board, 0) = layer.board
    BY <1>2, StoredSince DEF ValidLayer
  <1>6. ReadAppearance(data) = layer.appearance
    BY <1>2, StoredSince DEF ValidLayer, ReadAppearance
  <1>7. Stored(data.range, <<>>) = layer.range
    BY <1>2, StoredSince DEF ValidLayer
  <1>8. Stored(data.motion, <<>>) = layer.motion
    BY <1>2, StoredSince DEF ValidLayer
  <1>9. Stored(data.playback, NoPlayback) = layer.playback
    <2>1. CASE layer.kind = "Video"
      BY <1>2, <2>1, StoredSince DEF ValidLayer
    <2>2. CASE layer.kind # "Video"
      <3>1. data.playback = <<>> /\ layer.playback = NoPlayback
        BY <1>1, <1>2, <2>2 DEF IsVariant
      <3> QED
        BY <3>1 DEF Stored
    <2> QED
      BY <2>1, <2>2
  <1>10. /\ (IF data.source.keyed THEN 0 ELSE data.source.asset) = layer.asset
         /\ (IF data.source.keyed THEN Times(data.source.keys) ELSE <<>>) = layer.index
    BY <1>3
  <1>11. ReadLayer(d.assets, data) =
            [id |-> layer.id, name |-> layer.name, visible |-> layer.visible,
             opacity |-> layer.opacity, x |-> layer.x, blend |-> layer.blend, kind |-> layer.kind,
             board |-> layer.board, appearance |-> layer.appearance, keyed |-> layer.keyed,
             asset |-> layer.asset, index |-> layer.index, range |-> layer.range,
             motion |-> layer.motion, control |-> layer.control, setup |-> layer.setup,
             playback |-> layer.playback]
    BY <1>2, <1>3, <1>4, <1>5, <1>6, <1>7, <1>8, <1>9, <1>10, Zenon DEF ReadLayer
  <1>12. ReadLayer(d.assets, data) = layer
    BY <1>1, <1>11, LayerOfFields
  <1> QED
    BY <1>12 DEF data

LEMMA LayerReadable ==
    ASSUME NEW d \in CanvasDocument, NEW layer, ValidLayer(d, layer)
    PROVE  LayerIsReadable(d.minor, d.assets, LayerData(d, layer))
  <1> DEFINE data == LayerData(d, layer)
             content == ReadContentKind(d.assets, data)
  <1>1. layer.kind \in LayerKind /\ layer.keyed \in BOOLEAN
    BY LayerFieldTypes DEF ValidLayer
  <1>2. /\ data.blend = layer.blend /\ data.kind = Since(d, 19, layer.kind)
    BY DEF LayerData
  <1>3. /\ data.source.keyed = layer.keyed
        /\ layer.keyed => Times(data.source.keys) = layer.index
        /\ ~layer.keyed => data.source.asset = layer.asset
    BY SourceReads
  <1>4. ReadLayerKind(d.assets, data) = layer.kind /\ ReadRole(data) = RoleData(layer)
    BY RoleReads
  <1>5. content = LayerContent(layer) /\ (layer.keyed => data.source.content = LayerContent(layer))
    BY ContentReads
  <1> HIDE DEF data, content
  <1>6. BlendIsReadable(d.minor, data)
    BY <1>2 DEF BlendIsReadable, ValidLayer
  <1>7. LayerContent(layer) \in ControlKind =>
            layer.kind = LayerContent(layer) /\ d.minor >= ControlFormat[LayerContent(layer)]
    BY KindsOfControl DEF LayerContent, ValidLayer
  <1>8. SourceIsReadable(d.minor, d.assets, data.source)
    <2>1. CASE layer.keyed
      BY <1>3, <1>5, <1>7, <2>1 DEF SourceIsReadable, ContentIsReadable, ValidLayer
    <2>2. CASE ~layer.keyed
      BY <1>3, <2>2 DEF SourceIsReadable, ValidLayer, ReferenceIsValid
    <2> QED
      BY <2>1, <2>2
  <1>9. RoleIsReadable(d.minor, content, ReadRole(data))
    <2>1. CASE ~HasRole(layer.kind)
      <3>1. RoleData(layer) = <<>> /\ layer.kind \notin ControlKind
        BY <2>1 DEF RoleData, HasRole
      <3>2. content \notin ControlKind
        BY <1>5, <1>7, <3>1
      <3> QED
        BY <1>4, <3>1, <3>2 DEF RoleIsReadable
    <2>2. CASE HasRole(layer.kind)
      <3>1. RoleData(layer) # <<>> /\ RoleData(layer)[1].kind = layer.kind
        BY <2>2 DEF RoleData
      <3>2. CASE layer.kind = "SemanticSegment"
        BY <1>4, <1>5, <3>1, <3>2 DEF RoleIsReadable, LayerContent, ValidLayer
      <3>3. CASE layer.kind # "SemanticSegment"
        <4>1. layer.kind \in ControlKind
          BY <2>2, <3>3 DEF HasRole
        <4>2. LayerContent(layer) = layer.kind
          BY <4>1, KindsOfControl DEF LayerContent
        <4> QED
          BY <1>4, <1>5, <3>1, <3>3, <4>1, <4>2 DEF RoleIsReadable, ValidLayer
      <3> QED
        BY <3>2, <3>3
    <2> QED
      BY <2>1, <2>2
  <1>10. Stored(data.kind, ReadLayerKind(d.assets, data)) = ReadLayerKind(d.assets, data)
    BY <1>2, <1>4, StoredSince DEF Stored, Since
  <1> QED
    BY <1>6, <1>8, <1>9, <1>10 DEF LayerIsReadable, content, data

-----------------------------------------------------------------------------
(* Reading the frames                                                        *)

KeyIn(frame, k) ==
    [at |-> frame.at, layer |-> frame.keys[k].layer, asset |-> frame.keys[k].asset]
KeysIn(frame) == {KeyIn(frame, k) : k \in DOMAIN frame.keys}
AllKeys(frames) == UNION {KeysIn(frames[i]) : i \in DOMAIN frames}

LEMMA LayerSources ==
    ASSUME NEW d \in CanvasDocument, Valid(d), NEW i \in DOMAIN d.layers,
           NEW data, data = LayersData(d)[i]
    PROVE  /\ data.id = d.layers[i].id /\ data.source.keyed = d.layers[i].keyed
           /\ d.layers[i].keyed => data.source.keys = ProjectedKeyframes(d, d.layers[i])
  <1>1. data = LayerData(d, d.layers[i]) /\ data.id = d.layers[i].id
    BY LayersDataIs
  <1>2. ValidLayer(d, d.layers[i])
    BY LayersAreValid
  <1> QED
    BY <1>1, <1>2, SourceReads

(* The keyframes that wait for their frames are those of the frames.         *)
LEMMA PendingIs ==
    ASSUME NEW d \in CanvasDocument, Valid(d)
    PROVE  Pending(LayersData(d)) = AllKeys(d.frames)
  <1> DEFINE frames == d.frames
  <1>1. /\ frames \in Seq(CanvasFrame) /\ FramesInOrder(frames)
        /\ \A i \in DOMAIN frames : \A k \in DOMAIN frames[i].keys :
                ValidKeyframe(d, frames[i].keys[k])
    BY FramesAreValid
  <1>2. \A i \in DOMAIN d.layers :
            /\ LayersData(d)[i].id = d.layers[i].id
            /\ LayersData(d)[i].source.keyed = d.layers[i].keyed
            /\ d.layers[i].keyed =>
                    LayersData(d)[i].source.keys = ProjectedKeyframes(d, d.layers[i])
    BY LayerSources
  <1>3. ASSUME NEW e \in Pending(LayersData(d)) PROVE e \in AllKeys(frames)
    <2>1. PICK data \in ToSet(LayersData(d)) : data.source.keyed /\ \E key \in ToSet(data.source.keys) :
                e = [at |-> key.at, layer |-> data.id, asset |-> key.asset]
      BY <1>3 DEF Pending
    <2>2. PICK i \in DOMAIN d.layers : data = LayersData(d)[i]
      BY LayersDataIs DEF ToSet
    <2> DEFINE layer == d.layers[i]
               owners == OwnedFrames(frames, layer.id)
    <2>3. PICK key \in ToSet(ProjectedKeyframes(d, layer)) :
                e = [at |-> key.at, layer |-> layer.id, asset |-> key.asset]
      BY <1>2, <2>1, <2>2
    <2>4. PICK n \in DOMAIN owners :
                key = [at |-> owners[n], asset |-> KeyAsset(d, layer.id, owners[n])]
      BY DEF ToSet, ProjectedKeyframes
    <2> HIDE DEF layer, owners, frames
    <2>5. PICK j \in DOMAIN frames : OwnsKey(frames[j], layer.id) /\ owners[n] = frames[j].at
      BY <1>1, OwnedFramesProperties DEF ListsOwners, owners
    <2>6. PICK k \in DOMAIN frames[j].keys : frames[j].keys[k].layer = layer.id
      BY <2>5 DEF OwnsKey
    <2>7. KeyAsset(d, layer.id, owners[n]) = frames[j].keys[k].asset
      BY <1>1, <2>5, <2>6, KeyIsFound DEF frames
    <2>8. e = KeyIn(frames[j], k)
      BY <2>3, <2>4, <2>5, <2>6, <2>7 DEF KeyIn
    <2> QED
      BY <2>8 DEF AllKeys, KeysIn
  <1>4. ASSUME NEW e \in AllKeys(frames) PROVE e \in Pending(LayersData(d))
    <2>1. PICK j \in DOMAIN frames : e \in KeysIn(frames[j])
      BY <1>4 DEF AllKeys
    <2>2. PICK k \in DOMAIN frames[j].keys : e = KeyIn(frames[j], k)
      BY <2>1 DEF KeysIn
    <2> DEFINE id == frames[j].keys[k].layer
               i == Item(d.layers, id)
               layer == d.layers[i]
               owners == OwnedFrames(frames, layer.id)
               data == LayersData(d)[i]
    <2>3. i \in DOMAIN d.layers /\ layer.id = id /\ layer.keyed
      <3>1. Has(d.layers, id) /\ Found(d.layers, id).keyed
        BY <1>1 DEF ValidKeyframe
      <3> QED
        BY <3>1, ItemProperties DEF Found
    <2>4. /\ data \in ToSet(LayersData(d)) /\ data.id = id /\ data.source.keyed
          /\ data.source.keys = ProjectedKeyframes(d, layer)
      BY <1>2, <2>3, LayersDataIs DEF ToSet
    <2> HIDE DEF layer, owners, frames, data, i
    <2>5. OwnsKey(frames[j], layer.id)
      BY <2>3 DEF OwnsKey
    <2>10. ListsOwners(owners, frames, layer.id)
      BY <1>1, OwnedFramesProperties DEF owners
    <2>6. PICK n \in DOMAIN owners : owners[n] = frames[j].at
      BY <2>5, <2>10 DEF ListsOwners
    <2>7. KeyAsset(d, layer.id, owners[n]) = frames[j].keys[k].asset
      BY <1>1, <2>3, <2>6, KeyIsFound DEF frames
    <2> DEFINE key == [at |-> owners[n], asset |-> KeyAsset(d, layer.id, owners[n])]
    <2>8. key \in ToSet(ProjectedKeyframes(d, layer))
      BY DEF ToSet, ProjectedKeyframes, owners, frames
    <2>9. e = [at |-> key.at, layer |-> data.id, asset |-> key.asset]
      BY <2>2, <2>4, <2>6, <2>7 DEF KeyIn
    <2> HIDE DEF key, id
    <2> QED
      BY <2>4, <2>8, <2>9 DEF Pending
  <1> QED
    BY <1>3, <1>4

TimesOf(frames) == [i \in DOMAIN frames |-> frames[i].at]

LEMMA TimesAre ==
    ASSUME NEW d \in CanvasDocument, Valid(d)
    PROVE  /\ TimesOf(d.frames) \in Seq(Nat)
           /\ DOMAIN TimesOf(d.frames) = DOMAIN d.frames
           /\ Len(TimesOf(d.frames)) = Len(d.frames)
           /\ \A i \in DOMAIN d.frames : TimesOf(d.frames)[i] = d.frames[i].at
           /\ {key.at : key \in AllKeys(d.frames)} = ToSet(TimesOf(d.frames))
  <1> DEFINE frames == d.frames
             times == TimesOf(frames)
  <1>1. /\ frames \in Seq(CanvasFrame) /\ DOMAIN frames = 1 .. Len(frames) /\ Len(frames) \in Nat
        /\ \A i \in DOMAIN frames : frames[i].keys # <<>> /\ frames[i].at \in Nat
    BY FramesAreValid, FrameTypes, LenProperties
  <1>2. /\ DOMAIN times = DOMAIN frames /\ \A i \in DOMAIN frames : times[i] = frames[i].at
    BY DEF TimesOf
  <1>3. times = [i \in 1 .. Len(frames) |-> frames[i].at]
    BY <1>1 DEF TimesOf
  <1>4. times \in Seq(Nat) /\ Len(times) = Len(frames)
    BY <1>1, <1>3
  <1> HIDE DEF times
  <1>5. ASSUME NEW e \in AllKeys(frames) PROVE e.at \in ToSet(times)
    <2>1. PICK i \in DOMAIN frames : e \in KeysIn(frames[i])
      BY <1>5 DEF AllKeys
    <2>2. e.at = times[i]
      BY <1>2, <2>1 DEF KeysIn, KeyIn
    <2> QED
      BY <1>2, <2>2 DEF ToSet
  <1>6. ASSUME NEW at \in ToSet(times) PROVE \E e \in AllKeys(frames) : e.at = at
    <2>1. PICK i \in DOMAIN frames : at = frames[i].at
      BY <1>2, <1>6 DEF ToSet
    <2>2. 1 \in DOMAIN frames[i].keys
      <3>1. frames[i].keys \in Seq(FrameKeyframe)
        BY <1>1, FrameTypes
      <3> QED
        BY <1>1, <3>1, EmptySeq, LenProperties
    <2>3. KeyIn(frames[i], 1) \in AllKeys(frames)
      BY <2>2 DEF AllKeys, KeysIn
    <2> QED
      BY <2>1, <2>3 DEF KeyIn
  <1>7. {key.at : key \in AllKeys(frames)} = ToSet(times)
    BY <1>5, <1>6
  <1> QED
    BY <1>2, <1>4, <1>7 DEF times

LEMMA SeqOfItsElements == ASSUME NEW S, NEW s \in Seq(S) PROVE s \in Seq(ToSet(s))
  <1>1. DOMAIN s = 1 .. Len(s) /\ Len(s) \in Nat /\ s = [i \in 1 .. Len(s) |-> s[i]]
    BY LenProperties
  <1>2. \A i \in 1 .. Len(s) : s[i] \in ToSet(s)
    BY <1>1 DEF ToSet
  <1> QED
    BY <1>1, <1>2

(* The keyframes of a frame are put back as they were.                       *)
LEMMA KeysRead ==
    ASSUME NEW d \in CanvasDocument, Valid(d), NEW i \in DOMAIN d.frames
    PROVE  KeysAt(AllKeys(d.frames), d.frames[i].at) = d.frames[i].keys
  <1> DEFINE frames == d.frames
             at == frames[i].at
             keys == frames[i].keys
             found == {[layer |-> key.layer, asset |-> key.asset] :
                         key \in {k \in AllKeys(frames) : k.at = at}}
             number == [key \in found |-> key.layer]
  <1>1. /\ frames \in Seq(CanvasFrame) /\ DOMAIN frames = 1 .. Len(frames) /\ FramesInOrder(frames)
        /\ \A j \in DOMAIN frames : frames[j].at \in Nat
        /\ keys \in Seq(FrameKeyframe) /\ \A k \in DOMAIN keys : keys[k] \in FrameKeyframe
    BY FramesAreValid, FrameTypes, LenProperties
  <1>2. \A k \in DOMAIN keys : /\ keys[k] = [layer |-> keys[k].layer, asset |-> keys[k].asset]
                               /\ keys[k].layer \in Nat
    BY <1>1 DEF FrameKeyframe
  <1>3. \A j \in DOMAIN frames : frames[j].at = at => j = i
    <2> SUFFICES ASSUME NEW j \in DOMAIN frames, frames[j].at = at, j # i PROVE FALSE
      OBVIOUS
    <2>1. j < i \/ i < j
      BY <1>1
    <2> QED
      BY <1>1, <2>1 DEF FramesInOrder
  <1>4. KeysAt(AllKeys(frames), at) = Ordered(found, number)
    BY DEF KeysAt
  <1> HIDE DEF frames, at, keys, found, number
  <1>5. ASSUME NEW e \in found PROVE e \in ToSet(keys)
    <2>1. PICK key \in AllKeys(frames) : key.at = at /\ e = [layer |-> key.layer, asset |-> key.asset]
      BY <1>5 DEF found
    <2>2. PICK j \in DOMAIN frames : key \in KeysIn(frames[j])
      BY <2>1 DEF AllKeys
    <2>3. PICK k \in DOMAIN frames[j].keys : key = KeyIn(frames[j], k)
      BY <2>2 DEF KeysIn
    <2>4. j = i
      BY <1>3, <2>1, <2>3 DEF KeyIn
    <2>5. k \in DOMAIN keys /\ e = [layer |-> keys[k].layer, asset |-> keys[k].asset]
      BY <2>1, <2>3, <2>4 DEF KeyIn, keys
    <2>6. e = keys[k]
      BY <1>2, <2>5, Zenon
    <2> QED
      BY <2>5, <2>6 DEF ToSet
  <1>6. ASSUME NEW e \in ToSet(keys) PROVE e \in found
    <2>1. PICK k \in DOMAIN keys : e = keys[k]
      BY <1>6 DEF ToSet
    <2> DEFINE key == KeyIn(frames[i], k)
    <2>2. key \in AllKeys(frames)
      BY <2>1 DEF AllKeys, KeysIn, keys, frames
    <2>3. key.at = at /\ key.layer = keys[k].layer /\ key.asset = keys[k].asset
      BY DEF KeyIn, keys, at
    <2>4. e = [layer |-> key.layer, asset |-> key.asset]
      BY <1>2, <2>1, <2>3
    <2> HIDE DEF key
    <2> QED
      BY <2>2, <2>3, <2>4 DEF found
  <1>7. found = ToSet(keys)
    BY <1>5, <1>6
  <1>8. keys \in Seq(found)
    BY <1>1, <1>7, SeqOfItsElements
  <1>9. \A k \in DOMAIN keys : number[keys[k]] = keys[k].layer
    BY <1>7 DEF number, ToSet
  <1>10. \A k, l \in DOMAIN keys : k < l => keys[k].layer < keys[l].layer
    BY <1>1 DEF FramesInOrder, KeysAscend, keys, frames
  <1>11. Ordered(ToSet(keys), number) = keys
    <2>1. \A k \in DOMAIN keys : number[keys[k]] \in Int
      BY <1>2, <1>9
    <2>2. \A k, l \in DOMAIN keys : k < l => number[keys[k]] < number[keys[l]]
      BY <1>9, <1>10
    <2> QED
      BY <1>8, <2>1, <2>2, OrderedIs
  <1> QED
    BY <1>4, <1>7, <1>11 DEF frames, keys, at

LEMMA FramesRead ==
    ASSUME NEW d \in CanvasDocument, Valid(d)
    PROVE  ReadFrames(AllKeys(d.frames)) = d.frames
  <1> DEFINE frames == d.frames
             times == TimesOf(frames)
             set == {key.at : key \in AllKeys(frames)}
             number == [at \in set |-> at]
             ats == Ordered(set, number)
  <1>1. /\ frames \in Seq(CanvasFrame) /\ FramesInOrder(frames)
        /\ \A i \in DOMAIN frames : frames[i] \in CanvasFrame
    BY FramesAreValid, FrameTypes
  <1>2. /\ times \in Seq(Nat) /\ DOMAIN times = DOMAIN frames
        /\ \A i \in DOMAIN frames : times[i] = frames[i].at
        /\ set = ToSet(times)
    BY TimesAre
  <1>3. ReadFrames(AllKeys(frames)) =
            [i \in DOMAIN ats |-> [at |-> ats[i], keys |-> KeysAt(AllKeys(frames), ats[i])]]
    BY DEF ReadFrames
  <1>4. \A i \in DOMAIN frames : KeysAt(AllKeys(frames), frames[i].at) = frames[i].keys
    BY KeysRead
  <1>5. \A i \in DOMAIN frames : frames[i] = [at |-> frames[i].at, keys |-> frames[i].keys]
    BY <1>1 DEF CanvasFrame
  <1>6. frames = [i \in DOMAIN frames |-> frames[i]]
    BY <1>1, LenProperties
  <1>7. \A i, j \in DOMAIN frames : i < j => frames[i].at < frames[j].at
    BY <1>1 DEF FramesInOrder
  <1> HIDE DEF times, set, ats, frames
  <1>8. \A at \in ToSet(times) : number[at] = at
    BY <1>2
  <1> HIDE DEF number
  <1>9. \A i \in DOMAIN times : number[times[i]] = times[i] /\ times[i] \in Nat
    BY <1>2, <1>8, LenProperties, ElementOfSeq DEF ToSet
  <1>10. Ordered(ToSet(times), number) = times
    <2>1. times \in Seq(ToSet(times))
      BY <1>2, SeqOfItsElements
    <2>2. \A i \in DOMAIN times : number[times[i]] \in Int
      BY <1>9
    <2>3. \A i, j \in DOMAIN times : i < j => number[times[i]] < number[times[j]]
      BY <1>2, <1>7, <1>9
    <2> QED
      BY <2>1, <2>2, <2>3, OrderedIs
  <1>11. ats = times
    BY <1>2, <1>10 DEF ats
  <1>12. ReadFrames(AllKeys(frames)) =
            [i \in DOMAIN frames |-> [at |-> frames[i].at, keys |-> frames[i].keys]]
    BY <1>2, <1>3, <1>4, <1>11
  <1>13. ReadFrames(AllKeys(frames)) = [i \in DOMAIN frames |-> frames[i]]
    BY <1>5, <1>12
  <1> QED
    BY <1>6, <1>13 DEF frames

-----------------------------------------------------------------------------
(* Reading the table of a document                                           *)

LEMMA TableIsRead ==
    ASSUME NEW d \in CanvasDocument, Valid(d), NEW table, table = TableOf(d)
    PROVE  /\ Header(table) = HeaderData(d)
           /\ Only(table, "LayerCount") = Len(d.layers)
           /\ Only(table, "Metadata") = Since(d, 2, d.prompt)
           /\ Count(table, "AudioAssetCount") = Len(d.audio)
           /\ Count(table, "AudioTrackCount") = Len(d.tracks)
           /\ Count(table, "ArtboardCount") = Len(d.boards)
           /\ ReadPublication(table) = PublicationData(d)
           /\ Occurs(table, "AudioAssetCount") <=> d.minor >= 4
           /\ Occurs(table, "AudioTrackCount") <=> d.minor >= 4
           /\ Occurs(table, "Authorship") <=> d.minor >= 5
           /\ Occurs(table, "ArtboardCount") <=> d.minor >= 18
           /\ Occurs(table, "PublicationMetadata") <=> d.minor >= 22
  <1> DEFINE ones == OnesOf(d)
             lists == ListsOf(d)
  <1>1. IsTable(ones, lists) /\ table = Table(ones, lists)
    BY DocumentHasTable DEF TableOf
  <1>2. /\ d.minor < 4 => d.audio = <<>> /\ d.tracks = <<>>
        /\ d.minor < 18 => d.boards = <<>>
        /\ d.minor < 22 => ~d.published
        /\ d.minor \in Nat /\ d.minor <= 22
    BY NotStored
  <1>3. /\ ones["Header"] = <<HeaderData(d)>> /\ ones["LayerCount"] = <<Len(d.layers)>>
        /\ ones["Metadata"] = <<Since(d, 2, d.prompt)>>
        /\ ones["AudioAssetCount"] = Since(d, 4, Len(d.audio))
        /\ ones["AudioTrackCount"] = Since(d, 4, Len(d.tracks))
        /\ ones["Authorship"] = Since(d, 5, "ledger")
        /\ ones["ArtboardCount"] = Since(d, 18, Len(d.boards))
        /\ ones["PublicationMetadata"] = Since(d, 22, PublicationData(d))
    BY DEF OnesOf
  <1> HIDE DEF ones, lists
  <1>4. \A kind \in Singletons :
            /\ Occurs(table, kind) <=> ones[kind] # <<>>
            /\ \A x : ones[kind] = <<x>> => Only(table, kind) = x
            /\ Count(table, kind) = Stored(ones[kind], 0)
    BY <1>1, OnesRead
  <1>5. {"Header", "LayerCount", "Metadata", "AudioAssetCount", "AudioTrackCount",
         "Authorship", "ArtboardCount", "PublicationMetadata"} \subseteq Singletons
    BY DEF Singletons
  <1>6. /\ Header(table) = HeaderData(d)
        /\ Only(table, "LayerCount") = Len(d.layers)
        /\ Only(table, "Metadata") = Since(d, 2, d.prompt)
    BY <1>3, <1>4, <1>5 DEF Header
  <1>7. Len(d.audio) = 0 \/ d.minor >= 4
    BY <1>2
  <1>8. Len(d.tracks) = 0 \/ d.minor >= 4
    BY <1>2
  <1>9. Len(d.boards) = 0 \/ d.minor >= 18
    BY <1>2
  <1>10. /\ Count(table, "AudioAssetCount") = Len(d.audio)
         /\ Count(table, "AudioTrackCount") = Len(d.tracks)
         /\ Count(table, "ArtboardCount") = Len(d.boards)
    BY <1>3, <1>4, <1>5, <1>7, <1>8, <1>9, StoredSince
  <1>11. \A n, x : Since(d, n, x) # <<>> <=> d.minor >= n
    BY DEF Since
  <1>12. /\ Occurs(table, "AudioAssetCount") <=> d.minor >= 4
         /\ Occurs(table, "AudioTrackCount") <=> d.minor >= 4
         /\ Occurs(table, "Authorship") <=> d.minor >= 5
         /\ Occurs(table, "ArtboardCount") <=> d.minor >= 18
         /\ Occurs(table, "PublicationMetadata") <=> d.minor >= 22
    BY <1>3, <1>4, <1>5, <1>11
  <1>13. ReadPublication(table) = PublicationData(d)
    <2>1. CASE d.minor >= 22
      <3>1. ones["PublicationMetadata"] = <<PublicationData(d)>>
        BY <1>3, <2>1 DEF Since
      <3> QED
        BY <1>4, <1>5, <1>12, <2>1, <3>1 DEF ReadPublication
    <2>2. CASE ~(d.minor >= 22)
      BY <1>2, <1>12, <2>2 DEF ReadPublication, PublicationData
    <2> QED
      BY <2>1, <2>2
  <1> QED
    BY <1>6, <1>10, <1>12, <1>13

LEMMA TableListsAreRead ==
    ASSUME NEW d \in CanvasDocument, Valid(d), NEW table, table = TableOf(d)
    PROVE  /\ ReadRecords(table, "Asset") = d.assets
           /\ ReadRecords(table, "Layer") = LayersData(d)
           /\ ReadRecords(table, "AudioAsset") = d.audio
           /\ ReadRecords(table, "AudioTrack") = d.tracks
           /\ ReadRecords(table, "Artboard") = d.boards
           /\ Cardinality(OfKind(table, "Asset")) = Len(d.assets)
           /\ Cardinality(OfKind(table, "Layer")) = Len(d.layers)
           /\ Cardinality(OfKind(table, "AudioAsset")) = Len(d.audio)
           /\ Cardinality(OfKind(table, "AudioTrack")) = Len(d.tracks)
           /\ Cardinality(OfKind(table, "Artboard")) = Len(d.boards)
  <1> DEFINE ones == OnesOf(d)
             lists == ListsOf(d)
  <1>1. IsTable(ones, lists) /\ table = Table(ones, lists)
    BY DocumentHasTable DEF TableOf
  <1>2. /\ lists["Asset"] = d.assets /\ lists["Layer"] = LayersData(d)
        /\ lists["AudioAsset"] = d.audio /\ lists["AudioTrack"] = d.tracks
        /\ lists["Artboard"] = d.boards
    BY DEF ListsOf
  <1> HIDE DEF ones, lists
  <1>3. \A kind \in Lists : /\ Cardinality(OfKind(table, kind)) = Len(lists[kind])
                            /\ ReadRecords(table, kind) = lists[kind]
    BY <1>1, ListsRead
  <1>4. {"Asset", "Layer", "AudioAsset", "AudioTrack", "Artboard"} \subseteq Lists
    BY DEF Lists
  <1>5. Len(LayersData(d)) = Len(d.layers)
    BY LayersDataIs
  <1> QED
    BY <1>2, <1>3, <1>4, <1>5

(* A document is the record of its fields.                                   *)
LEMMA DocumentOfFields ==
    ASSUME NEW d \in CanvasDocument, NEW r,
           r = [minor |-> d.minor, width |-> d.width, chunkSize |-> d.chunkSize,
                infinite |-> d.infinite, origin |-> d.origin, rate |-> d.rate,
                frameCount |-> d.frameCount, assets |-> d.assets, layers |-> d.layers,
                frames |-> d.frames, prompt |-> d.prompt, audio |-> d.audio,
                tracks |-> d.tracks, author |-> 0, boards |-> d.boards,
                published |-> d.published, canvases |-> d.canvases, cover |-> d.cover]
    PROVE  r = [d EXCEPT !.author = 0]
  <1>1. d \in DocumentOf(Nat, Int, Extent)
    BY DocumentIs
  <1>2. d = [minor |-> d.minor, width |-> d.width, chunkSize |-> d.chunkSize,
             infinite |-> d.infinite, origin |-> d.origin, rate |-> d.rate,
             frameCount |-> d.frameCount, assets |-> d.assets, layers |-> d.layers,
             frames |-> d.frames, prompt |-> d.prompt, audio |-> d.audio,
             tracks |-> d.tracks, author |-> d.author, boards |-> d.boards,
             published |-> d.published, canvases |-> d.canvases, cover |-> d.cover]
    BY <1>1 DEF DocumentOf
  <1> QED
    BY <1>2

LEMMA DocumentReads ==
    ASSUME NEW d \in CanvasDocument, Valid(d)
    PROVE  ReadDocument(TableOf(d)) = [d EXCEPT !.author = 0]
  <1> DEFINE table == TableOf(d)
             header == Header(table)
             canvas == Stored(header.canvas, <<>>)
             layers == ReadRecords(table, "Layer")
             published == ReadPublication(table)
             shown == [i \in DOMAIN layers |-> ReadLayer(ReadRecords(table, "Asset"), layers[i])]
  <1>1. /\ header = HeaderData(d) /\ Only(table, "Metadata") = Since(d, 2, d.prompt)
        /\ published = PublicationData(d)
    BY TableIsRead
  <1>2. /\ ReadRecords(table, "Asset") = d.assets /\ layers = LayersData(d)
        /\ ReadRecords(table, "AudioAsset") = d.audio /\ ReadRecords(table, "AudioTrack") = d.tracks
        /\ ReadRecords(table, "Artboard") = d.boards
    BY TableListsAreRead
  <1>3. /\ header.minor = d.minor /\ header.width = d.width /\ header.chunkSize = d.chunkSize
        /\ header.rate = d.rate /\ header.frameCount = d.frameCount
        /\ header.canvas = Since(d, 1, IF d.infinite THEN <<d.origin, d.chunkSize>> ELSE <<>>)
    BY <1>1 DEF HeaderData
  <1>4. canvas = IF d.infinite THEN <<d.origin, d.chunkSize>> ELSE <<>>
    <2>1. d.minor >= 1 \/ ~d.infinite
      BY DEF Valid, ValidCanvas
    <2> QED
      BY <1>3, <2>1, StoredSince
  <1>5. (canvas # <<>>) = d.infinite /\ (IF canvas = <<>> THEN 0 ELSE canvas[1]) = d.origin
    <2>1. d.infinite \in BOOLEAN /\ (~d.infinite => d.origin = 0)
      BY FieldTypes DEF Valid, ValidCanvas
    <2> HIDE DEF canvas
    <2>2. CASE d.infinite
      <3>1. canvas = <<d.origin, d.chunkSize>>
        BY <1>4, <2>2
      <3> QED
        BY <2>1, <2>2, <3>1
    <2>3. CASE ~d.infinite
      BY <1>4, <2>1, <2>3
    <2> QED
      BY <2>2, <2>3
  <1>6. /\ (published # <<>>) = d.published
        /\ (IF published = <<>> THEN <<>> ELSE published[1].canvases) = d.canvases
        /\ (IF published = <<>> THEN 0 ELSE published[1].cover) = d.cover
    <2>1. d.published \in BOOLEAN /\ (d.published \/ (d.canvases = <<>> /\ d.cover = 0))
      BY DEF CanvasDocument
    <2>2. CASE d.published
      <3>1. published = <<[canvases |-> d.canvases, cover |-> d.cover]>>
        BY <1>1, <2>2 DEF PublicationData
      <3> HIDE DEF published
      <3> QED
        BY <2>1, <2>2, <3>1
    <2>3. CASE ~d.published
      <3>1. published = <<>>
        BY <1>1, <2>3 DEF PublicationData
      <3> HIDE DEF published
      <3> QED
        BY <2>1, <2>3, <3>1
    <2> QED
      BY <2>2, <2>3
  <1>7. shown = d.layers
    <2>1. DOMAIN LayersData(d) = DOMAIN d.layers
      BY LayersDataIs
    <2>2. \A i \in DOMAIN d.layers : ReadLayer(d.assets, LayersData(d)[i]) = d.layers[i]
      BY LayersAreValid, LayersDataIs, LayerReads
    <2>3. d.layers = [i \in DOMAIN d.layers |-> d.layers[i]]
      BY FieldTypes, LenProperties
    <2>4. shown = [i \in DOMAIN d.layers |-> ReadLayer(d.assets, LayersData(d)[i])]
      BY <1>2, <2>1
    <2>5. shown = [i \in DOMAIN d.layers |-> d.layers[i]]
      BY <2>2, <2>4
    <2> QED
      BY <2>3, <2>5
  <1>8. ReadFrames(Pending(layers)) = d.frames
    BY <1>2, PendingIs, FramesRead
  <1>9. Stored(Only(table, "Metadata"), "none") = d.prompt
    <2>1. d.minor >= 2 \/ d.prompt = "none"
      BY NotStored
    <2> QED
      BY <1>1, <2>1, StoredSince
  <1>10. ReadDocument(table) =
           [minor |-> header.minor, width |-> header.width, chunkSize |-> header.chunkSize,
            infinite |-> canvas # <<>>, origin |-> IF canvas = <<>> THEN 0 ELSE canvas[1],
            rate |-> header.rate, frameCount |-> header.frameCount,
            assets |-> ReadRecords(table, "Asset"), layers |-> shown,
            frames |-> ReadFrames(Pending(layers)),
            prompt |-> Stored(Only(table, "Metadata"), "none"),
            audio |-> ReadRecords(table, "AudioAsset"), tracks |-> ReadRecords(table, "AudioTrack"),
            author |-> 0, boards |-> ReadRecords(table, "Artboard"),
            published |-> published # <<>>,
            canvases |-> IF published = <<>> THEN <<>> ELSE published[1].canvases,
            cover |-> IF published = <<>> THEN 0 ELSE published[1].cover]
    BY DEF ReadDocument
  <1> HIDE DEF table, header, canvas, layers, published, shown
  <1>11. ReadDocument(table) =
           [minor |-> d.minor, width |-> d.width, chunkSize |-> d.chunkSize,
            infinite |-> d.infinite, origin |-> d.origin, rate |-> d.rate,
            frameCount |-> d.frameCount, assets |-> d.assets, layers |-> d.layers,
            frames |-> d.frames, prompt |-> d.prompt, audio |-> d.audio,
            tracks |-> d.tracks, author |-> 0, boards |-> d.boards,
            published |-> d.published, canvases |-> d.canvases, cover |-> d.cover]
    BY <1>2, <1>3, <1>5, <1>6, <1>7, <1>8, <1>9, <1>10, Zenon
  <1>12. ReadDocument(table) = [d EXCEPT !.author = 0]
    BY <1>11, DocumentOfFields
  <1> QED
    BY <1>12 DEF table

(* The documents that differ in the author only.                             *)
OnlyAuthorDiffers(d, e) ==
    /\ e.minor = d.minor /\ e.width = d.width /\ e.chunkSize = d.chunkSize
    /\ e.infinite = d.infinite /\ e.origin = d.origin /\ e.rate = d.rate
    /\ e.frameCount = d.frameCount /\ e.assets = d.assets /\ e.layers = d.layers
    /\ e.frames = d.frames /\ e.prompt = d.prompt /\ e.audio = d.audio
    /\ e.tracks = d.tracks /\ e.boards = d.boards
    /\ e.published = d.published /\ e.canvases = d.canvases /\ e.cover = d.cover

(* A document is valid whoever is selected as its author.                    *)
LEMMA ValidWithoutAuthor ==
    ASSUME NEW d, Valid(d), NEW e, OnlyAuthorDiffers(d, e), e.author = 0
    PROVE  Valid(e)
  <1>1. ValidCanvas(e)
    BY DEF Valid, ValidCanvas, OnlyAuthorDiffers
  <1>2. ValidArtboards(e)
    <2>1. ViewFits(d) => ViewFits(e)
      BY DEF ViewFits, OnlyAuthorDiffers
    <2> QED
      BY <2>1 DEF Valid, ValidArtboards, OnlyAuthorDiffers
  <1>3. ValidMetadata(e) /\ ValidPublication(e)
    BY DEF Valid, ValidMetadata, ValidPublication, OnlyAuthorDiffers
  <1>4. ValidAssets(e)
    <2>1. \A asset : ValidAsset(d, asset) => ValidAsset(e, asset)
      BY DEF ValidAsset, OnlyAuthorDiffers
    <2> QED
      BY <2>1 DEF Valid, ValidAssets, OnlyAuthorDiffers
  <1>5. \A id, kind : HasKind(e, id, kind) <=> HasKind(d, id, kind)
    BY DEF HasKind, OnlyAuthorDiffers
  <1>6. \A id, kind : ReferenceIsValid(e, id, kind) <=> ReferenceIsValid(d, id, kind)
    BY DEF ReferenceIsValid, OnlyAuthorDiffers
  <1>7. ValidLayers(e)
    <2>1. \A i : ValidAppearance(d, i) => ValidAppearance(e, i)
      <3>1. \A i : HasClipBase(d, i) => HasClipBase(e, i)
        BY DEF HasClipBase, OnlyAuthorDiffers
      <3>2. \A id, kind : ValidMask(d, id, kind) => ValidMask(e, id, kind)
        BY <1>5 DEF ValidMask
      <3> QED
        BY <3>1, <3>2 DEF ValidAppearance, OnlyAuthorDiffers
    <2>2. \A layer : ValidProperties(d, layer) => ValidProperties(e, layer)
      BY DEF ValidProperties, OnlyAuthorDiffers
    <2>3. \A layer : ValidControl(d, layer) => ValidControl(e, layer)
      <3>1. \A id, f : HasKey(e, id, f) <=> HasKey(d, id, f)
        BY DEF HasKey, OnlyAuthorDiffers
      <3>2. \A id, f : KeyAsset(e, id, f) = KeyAsset(d, id, f)
        BY DEF KeyAsset, OnlyAuthorDiffers
      <3>3. \A layer : SourceAssets(e, layer) = SourceAssets(d, layer)
        BY <3>1, <3>2 DEF SourceAssets
      <3>4. \A layer : ValidAdapter(d, layer) => ValidAdapter(e, layer)
        BY <1>5, <3>3 DEF ValidAdapter, OnlyAuthorDiffers
      <3> QED
        BY <3>4 DEF ValidControl, OnlyAuthorDiffers
    <2>4. \A layer : ValidPlayback(d, layer) => ValidPlayback(e, layer)
      BY DEF ValidPlayback, OnlyAuthorDiffers
    <2>5. \A layer : ValidSource(d, layer) => ValidSource(e, layer)
      BY <1>6 DEF ValidSource, OnlyAuthorDiffers
    <2> QED
      BY <2>1, <2>2, <2>3, <2>4, <2>5 DEF Valid, ValidLayers, OnlyAuthorDiffers
  <1>8. ValidAudio(e)
    <2>1. \A clip : ClipFits(d, clip) => ClipFits(e, clip)
      BY DEF ClipFits, OnlyAuthorDiffers
    <2>2. \A track : ValidTrack(d, track) => ValidTrack(e, track)
      BY <2>1 DEF ValidTrack, OnlyAuthorDiffers
    <2> QED
      BY <2>2 DEF Valid, ValidAudio, OnlyAuthorDiffers
  <1>9. ValidFrames(e)
    <2>1. \A key : ValidKeyframe(d, key) => ValidKeyframe(e, key)
      BY <1>6 DEF ValidKeyframe, OnlyAuthorDiffers
    <2> QED
      BY <2>1 DEF Valid, ValidFrames, OnlyAuthorDiffers
  <1>10. IndexMatchesFrames(e) /\ e.minor <= CurrentFormatMinor
    BY DEF Valid, IndexMatchesFrames, OnlyAuthorDiffers
  <1> QED
    BY <1>1, <1>2, <1>3, <1>4, <1>7, <1>8, <1>9, <1>10 DEF Valid

LEMMA WithoutAuthor ==
    ASSUME NEW d \in CanvasDocument
    PROVE  OnlyAuthorDiffers(d, [d EXCEPT !.author = 0]) /\ [d EXCEPT !.author = 0].author = 0
  <1>1. d \in DocumentOf(Nat, Int, Extent)
    BY DocumentIs
  <1> QED
    BY <1>1 DEF DocumentOf, OnlyAuthorDiffers

(* The rows of a valid document are those of its version, as many as it      *)
(* says, and what they hold can be read.                                     *)
LEMMA TableIsReadable ==
    ASSUME NEW d \in CanvasDocument, Valid(d)
    PROVE  /\ CanonicalLayout(TableOf(d)) /\ MatchesVersion(TableOf(d))
           /\ MatchesCounts(TableOf(d)) /\ IsReadable(TableOf(d))
  <1> DEFINE table == TableOf(d)
             ones == OnesOf(d)
             lists == ListsOf(d)
  <1>1. IsTable(ones, lists) /\ table = Table(ones, lists)
    BY DocumentHasTable DEF TableOf
  <1>2. /\ d.minor < 4 => d.audio = <<>> /\ d.tracks = <<>>
        /\ d.minor < 18 => d.boards = <<>>
        /\ d.minor \in Nat /\ d.minor <= 22
    BY NotStored
  <1>3. CanonicalLayout(table)
    <2>1. /\ ones["Header"] = <<HeaderData(d)>> /\ ones["LayerCount"] = <<Len(d.layers)>>
          /\ ones["Metadata"] = <<Since(d, 2, d.prompt)>>
          /\ ones["AudioAssetCount"] = Since(d, 4, Len(d.audio))
          /\ ones["AudioTrackCount"] = Since(d, 4, Len(d.tracks))
          /\ ones["ArtboardCount"] = Since(d, 18, Len(d.boards))
      BY DEF OnesOf
    <2>2. /\ lists["AudioAsset"] = d.audio /\ lists["AudioTrack"] = d.tracks
          /\ lists["Artboard"] = d.boards
      BY DEF ListsOf
    <2>3. \A n, x : d.minor >= n => Since(d, n, x) # <<>>
      BY DEF Since
    <2> HIDE DEF ones, lists, table
    <2>4. /\ lists["AudioAsset"] # <<>> => ones["AudioAssetCount"] # <<>>
          /\ lists["AudioTrack"] # <<>> => ones["AudioTrackCount"] # <<>>
          /\ lists["Artboard"] # <<>> => ones["ArtboardCount"] # <<>>
      BY <1>2, <2>1, <2>2, <2>3
    <2>5. /\ ones["Header"] # <<>> /\ ones["LayerCount"] # <<>> /\ ones["Metadata"] # <<>>
      <3>1. \A x : <<x>> # <<>>
        OBVIOUS
      <3> QED
        BY <2>1, <3>1, Zenon
    <2> QED
      BY <1>1, <2>4, <2>5, TableIsCanonical
  <1> DEFINE header == Header(table)
  <1>4. /\ header = HeaderData(d) /\ header.minor = d.minor /\ header.assets = Len(d.assets)
        /\ header.chunkSize = d.chunkSize
        /\ header.canvas = Since(d, 1, IF d.infinite THEN <<d.origin, d.chunkSize>> ELSE <<>>)
    BY TableIsRead DEF HeaderData
  <1> HIDE DEF table, header, ones, lists
  <1>5. MatchesVersion(table)
    <2>1. /\ Occurs(table, "AudioAssetCount") <=> d.minor >= 4
          /\ Occurs(table, "AudioTrackCount") <=> d.minor >= 4
          /\ Occurs(table, "Authorship") <=> d.minor >= 5
          /\ Occurs(table, "ArtboardCount") <=> d.minor >= 18
          /\ Occurs(table, "PublicationMetadata") <=> d.minor >= 22
      BY TableIsRead DEF table
    <2>2. Header(table).minor = d.minor
      BY <1>4 DEF header
    <2> QED
      BY <1>2, <2>1, <2>2 DEF MatchesVersion, CurrentFormatMinor, Occurs
  <1>6. MatchesCounts(table)
    <2>1. /\ Only(table, "LayerCount") = Len(d.layers)
          /\ Count(table, "AudioAssetCount") = Len(d.audio)
          /\ Count(table, "AudioTrackCount") = Len(d.tracks)
          /\ Count(table, "ArtboardCount") = Len(d.boards)
      BY TableIsRead DEF table
    <2>2. /\ Cardinality(OfKind(table, "Asset")) = Len(d.assets)
          /\ Cardinality(OfKind(table, "Layer")) = Len(d.layers)
          /\ Cardinality(OfKind(table, "AudioAsset")) = Len(d.audio)
          /\ Cardinality(OfKind(table, "AudioTrack")) = Len(d.tracks)
          /\ Cardinality(OfKind(table, "Artboard")) = Len(d.boards)
      BY TableListsAreRead DEF table
    <2>3. \A kind \in Lists : OfKind(table, kind) = ListRows(kind, lists[kind])
      BY <1>1, KindsOfTable
    <2>4. ASSUME NEW kind \in Lists, NEW row \in OfKind(table, kind)
          PROVE  row.id = row.data.id
      <3>1. PICK i \in DOMAIN lists[kind] : row = Row(kind, lists[kind][i].id, i - 1, lists[kind][i])
        BY <2>3, <2>4 DEF ListRows
      <3> QED
        BY <3>1 DEF Row
    <2> QED
      BY <1>4, <2>1, <2>2, <2>4, Zenon DEF MatchesCounts, header
  <1>7. IsReadable(table)
    <2>1. ReadRecords(table, "Asset") = d.assets /\ ReadRecords(table, "Layer") = LayersData(d)
      BY TableListsAreRead DEF table
    <2>2. ASSUME NEW i \in DOMAIN d.assets PROVE AssetIsReadable(d.minor, d.assets[i])
      <3>1. ValidAsset(d, d.assets[i])
        BY DEF Valid, ValidAssets
      <3>2. d.infinite => d.minor >= 1
        BY DEF Valid, ValidCanvas
      <3> QED
        BY <3>1, <3>2 DEF AssetIsReadable, ValidAsset
    <2>3. ASSUME NEW data \in ToSet(LayersData(d)) PROVE LayerIsReadable(d.minor, d.assets, data)
      <3>1. PICK i \in DOMAIN d.layers : data = LayerData(d, d.layers[i])
        BY LayersDataIs DEF ToSet
      <3>2. ValidLayer(d, d.layers[i])
        BY LayersAreValid
      <3> QED
        BY <3>1, <3>2, LayerReadable
    <2>4. ASSUME NEW canvas \in ToSet(header.canvas), canvas # <<>>
          PROVE  canvas[2] = header.chunkSize
      <3> DEFINE x == IF d.infinite THEN <<d.origin, d.chunkSize>> ELSE <<>>
      <3>1. canvas = x
        <4> HIDE DEF x
        <4>1. header.canvas = IF d.minor >= 1 THEN <<x>> ELSE <<>>
          BY <1>4 DEF Since, x
        <4> QED
          BY <4>1 DEF ToSet
      <3>2. canvas = <<d.origin, d.chunkSize>>
        BY <2>4, <3>1
      <3> QED
        BY <1>4, <3>2
    <2> QED
      BY <1>4, <2>1, <2>2, <2>3, <2>4, Zenon DEF IsReadable, header
  <1> QED
    BY <1>3, <1>5, <1>6, <1>7 DEF table

-----------------------------------------------------------------------------
(* What the reader adds up                                                   *)

LEMMA CountsMatch ==
    ASSUME NEW S, IsFiniteSet(S), NEW T, NEW f, \A x \in S : f[x] \in T,
           \A x, y \in S : f[x] = f[y] => x = y, \A z \in T : \E x \in S : f[x] = z
    PROVE  IsFiniteSet(T) /\ Cardinality(T) = Cardinality(S)
  <1> DEFINE g == [x \in S |-> f[x]]
  <1>1. g \in Bijection(S, T)
    BY DEF Bijection, Injection, Surjection, IsInjective
  <1>2. ExistsBijection(S, T)
    BY <1>1 DEF ExistsBijection
  <1> QED
    BY <1>2, FS_Bijection

LEMMA PairsAre ==
    ASSUME NEW s \in Seq(Nat)
    PROVE  /\ \A pair \in Pairs(s) : /\ pair[1] \in DOMAIN s /\ pair[2] \in 1 .. s[pair[1]]
                                     /\ pair = <<pair[1], pair[2]>>
           /\ \A i \in DOMAIN s : \A n \in 1 .. s[i] : <<i, n>> \in Pairs(s)
  <1>1. DOMAIN s = 1 .. Len(s) /\ Len(s) \in Nat /\ \A i \in DOMAIN s : s[i] \in Nat
    BY LenProperties, ElementOfSeq
  <1> QED
    BY <1>1 DEF Pairs, PairsUpTo

(* The keyframes of the frames.                                              *)
LEMMA FramesCountKeys ==
    ASSUME NEW d \in CanvasDocument, Valid(d), NEW s,
           s = [i \in DOMAIN d.frames |-> Len(d.frames[i].keys)]
    PROVE  s \in Seq(Nat) /\ Total(s) = Cardinality(AllKeys(d.frames))
  <1> DEFINE frames == d.frames
             f == [pair \in Pairs(s) |-> KeyIn(frames[pair[1]], pair[2])]
  <1>1. /\ frames \in Seq(CanvasFrame) /\ DOMAIN frames = 1 .. Len(frames) /\ Len(frames) \in Nat
        /\ FramesInOrder(frames)
        /\ \A i \in DOMAIN frames : /\ frames[i].at \in Nat
                                    /\ frames[i].keys \in Seq(FrameKeyframe)
    BY FramesAreValid, FrameTypes, LenProperties
  <1>2. \A i \in DOMAIN frames : /\ Len(frames[i].keys) \in Nat
                                 /\ DOMAIN frames[i].keys = 1 .. Len(frames[i].keys)
                                 /\ \A k \in DOMAIN frames[i].keys : frames[i].keys[k].layer \in Nat
    BY <1>1, FrameTypes, KeyTypes, LenProperties
  <1>3. /\ s \in Seq(Nat) /\ DOMAIN s = DOMAIN frames
        /\ \A i \in DOMAIN s : s[i] = Len(frames[i].keys)
    BY <1>1, <1>2
  <1>4. \A pair \in Pairs(s) : /\ pair[1] \in DOMAIN frames /\ pair[2] \in DOMAIN frames[pair[1]].keys
                               /\ pair = <<pair[1], pair[2]>>
    BY <1>2, <1>3, PairsAre
  <1>5. \A i \in DOMAIN frames : \A k \in DOMAIN frames[i].keys : <<i, k>> \in Pairs(s)
    BY <1>2, <1>3, PairsAre
  <1>6. IsFiniteSet(Pairs(s)) /\ Total(s) = Cardinality(Pairs(s))
    BY <1>3, TotalCounts
  <1> DEFINE T == Pairs(s)
  <1> HIDE DEF frames, T
  <1>7. \A pair \in T : f[pair] = KeyIn(frames[pair[1]], pair[2])
    BY DEF T
  <1> HIDE DEF f
  <1>8. \A pair \in T : f[pair] \in AllKeys(frames)
    BY <1>4, <1>7 DEF AllKeys, KeysIn, T
  <1>9. ASSUME NEW p \in T, NEW q \in T, f[p] = f[q] PROVE p = q
    <2> DEFINE i == p[1]
               j == q[1]
               k == p[2]
               l == q[2]
    <2>1. /\ i \in DOMAIN frames /\ k \in DOMAIN frames[i].keys /\ p = <<i, k>>
          /\ j \in DOMAIN frames /\ l \in DOMAIN frames[j].keys /\ q = <<j, l>>
      BY <1>4 DEF T
    <2>5. KeyIn(frames[i], k) = KeyIn(frames[j], l)
      BY <1>7, <1>9
    <2> HIDE DEF i, j, k, l
    <2>2. frames[i].at = frames[j].at /\ frames[i].keys[k].layer = frames[j].keys[l].layer
      BY <2>5 DEF KeyIn
    <2>3. i = j
      <3> SUFFICES ASSUME i # j PROVE FALSE
        OBVIOUS
      <3>1. i < j \/ j < i
        BY <1>1, <2>1
      <3> QED
        BY <1>1, <2>1, <2>2, <3>1 DEF FramesInOrder
    <2>4. k = l
      <3> SUFFICES ASSUME k # l PROVE FALSE
        OBVIOUS
      <3>1. k < l \/ l < k
        BY <1>2, <2>1, <2>3
      <3>2. KeysAscend(frames[i].keys)
        BY <1>1, <2>1 DEF FramesInOrder
      <3> QED
        BY <1>2, <2>1, <2>2, <2>3, <3>1, <3>2 DEF KeysAscend
    <2> QED
      BY <2>1, <2>3, <2>4
  <1>10. ASSUME NEW e \in AllKeys(frames) PROVE \E pair \in T : f[pair] = e
    <2>1. PICK i \in DOMAIN frames : e \in KeysIn(frames[i])
      BY <1>10 DEF AllKeys
    <2>2. PICK k \in DOMAIN frames[i].keys : e = KeyIn(frames[i], k)
      BY <2>1 DEF KeysIn
    <2>3. <<i, k>> \in T
      BY <1>5 DEF T
    <2>4. f[<<i, k>>] = e
      BY <1>7, <2>2, <2>3
    <2> QED
      BY <2>3, <2>4
  <1>11. Cardinality(AllKeys(frames)) = Cardinality(T)
    BY <1>6, <1>8, <1>9, <1>10, CountsMatch DEF T
  <1> QED
    BY <1>3, <1>6, <1>11 DEF frames, T

(* How many keyframes the reader meets in a layer.                           *)
KeysOf(data) == IF data.source.keyed THEN Len(data.source.keys) ELSE 0

KeysAtFrames(keys, owners) ==
    /\ Len(keys) \in Nat /\ DOMAIN keys = 1 .. Len(keys) /\ DOMAIN owners = DOMAIN keys
    /\ \A n \in DOMAIN keys : keys[n].at = owners[n] /\ owners[n] \in Int
    /\ Ascending(owners)

LEMMA ProjectedAre ==
    ASSUME NEW d \in CanvasDocument, Valid(d), NEW layer, NEW keys, NEW owners,
           keys = ProjectedKeyframes(d, layer), owners = OwnedFrames(d.frames, layer.id)
    PROVE  KeysAtFrames(keys, owners)
  <1>1. owners \in Seq(Int) /\ Ascending(owners)
    <2>1. ListsOwners(owners, d.frames, layer.id)
      BY FramesAreValid, OwnedFramesProperties
    <2> QED
      BY <2>1 DEF ListsOwners
  <1>2. keys = [i \in DOMAIN owners |->
                    [at |-> owners[i], asset |-> KeyAsset(d, layer.id, owners[i])]]
    BY DEF ProjectedKeyframes
  <1>3. DOMAIN owners = 1 .. Len(owners) /\ Len(owners) \in Nat
        /\ \A i \in DOMAIN owners : owners[i] \in Int
    BY <1>1, LenProperties, ElementOfSeq
  <1>4. DOMAIN keys = 1 .. Len(owners) /\ Len(keys) = Len(owners)
    <2> DEFINE K(i) == [at |-> owners[i], asset |-> KeyAsset(d, layer.id, owners[i])]
    <2>1. keys = [i \in 1 .. Len(owners) |-> K(i)]
      BY <1>2, <1>3
    <2> HIDE DEF K
    <2> QED
      BY <1>3, <2>1
  <1> QED
    BY <1>1, <1>2, <1>3, <1>4 DEF KeysAtFrames

LEMMA LayersCountKeys ==
    ASSUME NEW d \in CanvasDocument, Valid(d), NEW s,
           s = [i \in DOMAIN LayersData(d) |-> KeysOf(LayersData(d)[i])]
    PROVE  s \in Seq(Nat) /\ Total(s) = Cardinality(AllKeys(d.frames))
  <1> DEFINE layers == LayersData(d)
             places == DOMAIN d.layers
             Keys(i) == ProjectedKeyframes(d, d.layers[i])
             KeyAt(i, n) == [at |-> Keys(i)[n].at, layer |-> d.layers[i].id,
                             asset |-> Keys(i)[n].asset]
             f == [pair \in Pairs(s) |-> KeyAt(pair[1], pair[2])]
  <1>1. /\ places = 1 .. Len(d.layers) /\ Len(d.layers) \in Nat /\ DOMAIN layers = places
        /\ \A i \in places : /\ d.layers[i].id \in Nat /\ d.layers[i].keyed \in BOOLEAN
                             /\ layers[i].id = d.layers[i].id
                             /\ layers[i].source.keyed = d.layers[i].keyed
                             /\ d.layers[i].keyed => layers[i].source.keys = Keys(i)
    BY LayersDataIs, LayerSources, FieldTypes, LayerFieldTypes, LenProperties, ElementOfSeq
  <1>2. ASSUME NEW i \in places PROVE Len(Keys(i)) \in Nat /\ DOMAIN Keys(i) = 1 .. Len(Keys(i))
    <2> DEFINE layer == d.layers[i]
               keys == Keys(i)
               owners == OwnedFrames(d.frames, layer.id)
    <2>1. keys = ProjectedKeyframes(d, layer) /\ owners = OwnedFrames(d.frames, layer.id)
      OBVIOUS
    <2> HIDE DEF layer, keys, owners
    <2>2. Len(keys) \in Nat /\ DOMAIN keys = 1 .. Len(keys)
      BY <2>1, ProjectedAre DEF KeysAtFrames
    <2> QED
      BY <2>2 DEF keys
  <1>3. \A i, j \in places : d.layers[i].id = d.layers[j].id => i = j
    BY DEF Valid, ValidLayers, Distinct
  <1>4. ASSUME NEW i \in places, NEW n \in DOMAIN Keys(i), NEW m \in DOMAIN Keys(i),
               Keys(i)[n].at = Keys(i)[m].at
        PROVE  n = m
    <2> DEFINE layer == d.layers[i]
               owners == OwnedFrames(d.frames, layer.id)
               keys == Keys(i)
    <2>2. n \in DOMAIN keys /\ m \in DOMAIN keys /\ keys[n].at = keys[m].at
      BY <1>4
    <2>4. keys = ProjectedKeyframes(d, layer) /\ owners = OwnedFrames(d.frames, layer.id)
      OBVIOUS
    <2> HIDE DEF layer, owners, keys
    <2>1. KeysAtFrames(keys, owners)
      BY <2>4, ProjectedAre
    <2> SUFFICES ASSUME n # m PROVE FALSE
      OBVIOUS
    <2>3. n < m \/ m < n
      BY <2>1, <2>2 DEF KeysAtFrames
    <2> QED
      BY <2>1, <2>2, <2>3 DEF KeysAtFrames, Ascending
  <1>5. AllKeys(d.frames) = Pending(layers)
    BY PendingIs
  <1> HIDE DEF layers, places, Keys
  <1>6. /\ DOMAIN s = places
        /\ \A i \in places : s[i] = IF d.layers[i].keyed THEN Len(Keys(i)) ELSE 0
    BY <1>1 DEF KeysOf, layers
  <1>7. s \in Seq(Nat)
    <2>1. s = [i \in 1 .. Len(d.layers) |-> s[i]]
      BY <1>1 DEF layers
    <2>2. \A i \in 1 .. Len(d.layers) : s[i] \in Nat
      BY <1>1, <1>2, <1>6
    <2> QED
      BY <1>1, <2>1, <2>2
  <1> DEFINE T == Pairs(s)
  <1>8. \A pair \in T : /\ pair[1] \in places /\ d.layers[pair[1]].keyed
                        /\ pair[2] \in DOMAIN Keys(pair[1]) /\ pair = <<pair[1], pair[2]>>
    <2>1. \A pair \in T : /\ pair[1] \in places /\ pair[2] \in 1 .. s[pair[1]]
                          /\ pair = <<pair[1], pair[2]>>
      BY <1>6, <1>7, PairsAre
    <2> HIDE DEF T
    <2> SUFFICES ASSUME NEW pair \in T
                 PROVE  d.layers[pair[1]].keyed /\ pair[2] \in DOMAIN Keys(pair[1])
      BY <2>1
    <2> DEFINE i == pair[1]
               n == pair[2]
    <2>2. i \in places /\ n \in 1 .. s[i]
      BY <2>1
    <2> HIDE DEF i, n
    <2>3. d.layers[i].keyed
      <3> SUFFICES ASSUME ~d.layers[i].keyed PROVE FALSE
        OBVIOUS
      <3>1. s[i] = 0
        BY <1>6, <2>2
      <3> QED
        BY <2>2, <3>1
    <2>4. n \in DOMAIN Keys(i)
      BY <1>2, <1>6, <2>2, <2>3
    <2> QED
      BY <2>3, <2>4 DEF i, n
  <1>9. \A i \in places : d.layers[i].keyed => \A n \in DOMAIN Keys(i) : <<i, n>> \in T
    BY <1>2, <1>6, <1>7, PairsAre
  <1>10. IsFiniteSet(T) /\ Total(s) = Cardinality(T)
    BY <1>7, TotalCounts
  <1>11. \A pair \in T : f[pair] = KeyAt(pair[1], pair[2])
    OBVIOUS
  <1> HIDE DEF T, f, KeyAt
  <1>12. ASSUME NEW pair \in T PROVE f[pair] \in Pending(layers)
    <2> DEFINE i == pair[1]
               n == pair[2]
    <2>1. i \in places /\ d.layers[i].keyed /\ n \in DOMAIN Keys(i) /\ f[pair] = KeyAt(i, n)
      BY <1>8, <1>11
    <2> HIDE DEF i, n
    <2>2. /\ layers[i] \in ToSet(layers) /\ layers[i].source.keyed
          /\ Keys(i)[n] \in ToSet(layers[i].source.keys)
      BY <1>1, <2>1 DEF ToSet
    <2>3. f[pair] = [at |-> Keys(i)[n].at, layer |-> layers[i].id, asset |-> Keys(i)[n].asset]
      BY <1>1, <2>1 DEF KeyAt
    <2> QED
      BY <2>2, <2>3 DEF Pending
  <1>13. ASSUME NEW p \in T, NEW q \in T, f[p] = f[q] PROVE p = q
    <2> DEFINE i == p[1]
               j == q[1]
               n == p[2]
               m == q[2]
    <2>1. /\ i \in places /\ n \in DOMAIN Keys(i) /\ p = <<i, n>> /\ f[p] = KeyAt(i, n)
          /\ j \in places /\ m \in DOMAIN Keys(j) /\ q = <<j, m>> /\ f[q] = KeyAt(j, m)
      BY <1>8, <1>11
    <2> HIDE DEF i, j, n, m
    <2>2. KeyAt(i, n) = KeyAt(j, m)
      BY <1>13, <2>1
    <2>3. d.layers[i].id = d.layers[j].id /\ Keys(i)[n].at = Keys(j)[m].at
      BY <2>2 DEF KeyAt
    <2>4. i = j
      BY <1>3, <2>1, <2>3
    <2>5. n = m
      BY <1>4, <2>1, <2>3, <2>4
    <2> QED
      BY <2>1, <2>4, <2>5
  <1>14. ASSUME NEW e \in Pending(layers) PROVE \E pair \in T : f[pair] = e
    <2>1. PICK data \in ToSet(layers) : data.source.keyed /\ \E key \in ToSet(data.source.keys) :
                e = [at |-> key.at, layer |-> data.id, asset |-> key.asset]
      BY <1>14 DEF Pending
    <2>2. PICK i \in places : data = layers[i]
      BY <1>1, <2>1 DEF ToSet
    <2>3. d.layers[i].keyed /\ data.source.keys = Keys(i) /\ data.id = d.layers[i].id
      BY <1>1, <2>1, <2>2
    <2>4. PICK n \in DOMAIN Keys(i) : e = KeyAt(i, n)
      BY <2>1, <2>3 DEF ToSet, KeyAt
    <2>5. <<i, n>> \in T
      BY <1>9, <2>3
    <2>6. f[<<i, n>>] = e
      BY <1>11, <2>4, <2>5
    <2> QED
      BY <2>5, <2>6
  <1>15. Cardinality(Pending(layers)) = Cardinality(T)
    BY <1>10, <1>12, <1>13, <1>14, CountsMatch
  <1> QED
    BY <1>5, <1>7, <1>10, <1>15

LEMMA SeqOfNumbers ==
    ASSUME NEW m \in Nat, NEW s, s = [i \in 1 .. m |-> s[i]], \A i \in 1 .. m : s[i] \in Int
    PROVE  s \in Seq(Int) /\ Len(s) = m
  OBVIOUS

LEMMA TotalOfDoubles ==
    ASSUME NEW s \in Seq(Nat), NEW t, DOMAIN t = DOMAIN s, t = [n \in DOMAIN s |-> t[n]],
           \A n \in DOMAIN s : t[n] = 2 * s[n]
    PROVE  t \in Seq(Int) /\ Total(t) = 2 * Total(s) /\ Total(s) \in Nat
  <1>1. DOMAIN s = 1 .. Len(s) /\ Len(s) \in Nat /\ \A n \in DOMAIN s : s[n] \in Nat
    BY LenProperties, ElementOfSeq
  <1>2. \A n \in DOMAIN s : t[n] \in Int /\ t[n] = s[n] + s[n]
    BY <1>1
  <1>3. t \in Seq(Int) /\ Len(t) = Len(s)
    BY <1>1, <1>2
  <1>4. s \in Seq(Int)
    BY <1>1
  <1>5. Total(t) = Total(s) + Total(s) /\ Total(s) \in Int
    BY <1>2, <1>3, <1>4, TotalsAdd
  <1> QED
    BY <1>3, <1>5, TotalCounts

LEMMA TextsAreNumbers ==
    /\ \A id : Text(id) \in Nat
    /\ \A condition, n : n \in Nat => Texts(condition, n) \in Nat
    /\ \A a : MaskTexts(a) \in Nat
  BY DEF Text, Texts, MaskTexts

(* What a layer counts for when it is written, and when it is read.          *)
WrittenTexts(layer) ==
    2 + Text(layer.board) + MaskTexts(layer.appearance)
      + Texts(HasRole(layer.kind), 2) + Texts(~layer.keyed, 1)

LEMMA LayerTextsRead ==
    ASSUME NEW d \in CanvasDocument, NEW layer, ValidLayer(d, layer),
           NEW data, data = LayerData(d, layer), KeysOf(data) \in Nat
    PROVE  /\ WrittenTexts(layer) \in Nat
           /\ LayerTexts(data) = WrittenTexts(layer) + 2 * KeysOf(data)
  <1>1. /\ data.board = Since(d, 18, layer.board)
        /\ data.appearance = Since(d, 20, layer.appearance)
    BY DEF LayerData
  <1>2. Stored(data.board, 0) = layer.board /\ ReadAppearance(data) = layer.appearance
    BY <1>1, StoredSince DEF ValidLayer, ReadAppearance
  <1>3. ReadRole(data) = RoleData(layer)
    BY RoleReads
  <1>4. ReadRole(data) # <<>> <=> HasRole(layer.kind)
    BY <1>3 DEF RoleData
  <1>5. data.source.keyed = layer.keyed
    BY SourceReads
  <1>6. Texts(ReadRole(data) # <<>>, 2) = Texts(HasRole(layer.kind), 2)
    BY <1>4 DEF Texts
  <1>7. (IF data.source.keyed THEN 2 * Len(data.source.keys) ELSE 1) =
            Texts(~layer.keyed, 1) + 2 * KeysOf(data)
    <2>1. CASE layer.keyed
      <3>1. Texts(~layer.keyed, 1) = 0 /\ KeysOf(data) = Len(data.source.keys)
        BY <1>5, <2>1 DEF Texts, KeysOf
      <3> QED
        BY <1>5, <2>1, <3>1
    <2>2. CASE ~layer.keyed
      <3>1. Texts(~layer.keyed, 1) = 1 /\ KeysOf(data) = 0
        BY <1>5, <2>2 DEF Texts, KeysOf
      <3> QED
        BY <1>5, <2>2, <3>1
    <2> QED
      BY <2>1, <2>2
  <1> DEFINE board == Text(layer.board)
             masks == MaskTexts(layer.appearance)
             role == Texts(HasRole(layer.kind), 2)
             source == Texts(~layer.keyed, 1)
             keys == KeysOf(data)
  <1>8. board \in Nat /\ masks \in Nat /\ role \in Nat /\ source \in Nat /\ keys \in Nat
    BY TextsAreNumbers
  <1>9. LayerTexts(data) = 2 + board + masks + role
                             + (IF data.source.keyed THEN 2 * Len(data.source.keys) ELSE 1)
    BY <1>2, <1>6, Zenon DEF LayerTexts
  <1>10. LayerTexts(data) = 2 + board + masks + role + (source + 2 * keys)
    BY <1>7, <1>9, Zenon
  <1>11. WrittenTexts(layer) = 2 + board + masks + role + source
    BY Zenon DEF WrittenTexts
  <1> HIDE DEF board, masks, role, source, keys
  <1>12. WrittenTexts(layer) \in Nat /\ LayerTexts(data) = WrittenTexts(layer) + 2 * keys
    BY <1>8, <1>10, <1>11
  <1> QED
    BY <1>12 DEF keys

(* The texts in the layers: those of the keyframes are counted with the      *)
(* frames when a document is written, with the layers when it is read.       *)
LEMMA TextsOfLayers ==
    ASSUME NEW d \in CanvasDocument, Valid(d)
    PROVE  LET written == Total([i \in DOMAIN d.layers |-> WrittenTexts(d.layers[i])])
               framed == Total([i \in DOMAIN d.frames |-> 2 * Len(d.frames[i].keys)])
               read == Total([i \in DOMAIN LayersData(d) |-> LayerTexts(LayersData(d)[i])])
           IN  /\ written \in Int /\ framed \in Int
               /\ read = written + framed
  <1> DEFINE layers == LayersData(d)
             w == [i \in DOMAIN d.layers |-> WrittenTexts(d.layers[i])]
             k == [i \in DOMAIN layers |-> KeysOf(layers[i])]
             k2 == [i \in DOMAIN layers |-> 2 * KeysOf(layers[i])]
             r == [i \in DOMAIN layers |-> LayerTexts(layers[i])]
             l == [i \in DOMAIN d.frames |-> Len(d.frames[i].keys)]
             l2 == [i \in DOMAIN d.frames |-> 2 * Len(d.frames[i].keys)]
  <1>1. /\ DOMAIN layers = DOMAIN d.layers /\ DOMAIN d.layers = 1 .. Len(d.layers)
        /\ Len(d.layers) \in Nat
        /\ \A i \in DOMAIN d.layers : layers[i] = LayerData(d, d.layers[i])
                                      /\ ValidLayer(d, d.layers[i])
    BY LayersDataIs, LayersAreValid, FieldTypes, LenProperties
  <1>2. k \in Seq(Nat) /\ Total(k) = Cardinality(AllKeys(d.frames))
    BY LayersCountKeys
  <1>3. l \in Seq(Nat) /\ Total(l) = Cardinality(AllKeys(d.frames))
    BY FramesCountKeys
  <1>4. k2 \in Seq(Int) /\ Total(k2) = 2 * Total(k)
    <2>1. /\ DOMAIN k = DOMAIN layers /\ DOMAIN k2 = DOMAIN k
          /\ \A i \in DOMAIN k : k2[i] = 2 * k[i]
          /\ k2 = [i \in DOMAIN k |-> k2[i]]
      OBVIOUS
    <2> HIDE DEF k, k2
    <2> QED
      BY <1>2, <2>1, TotalOfDoubles
  <1>5. l2 \in Seq(Int) /\ Total(l2) = 2 * Total(l) /\ Total(l) \in Nat
    <2>1. /\ DOMAIN l2 = DOMAIN l
          /\ \A i \in DOMAIN l : l2[i] = 2 * l[i]
          /\ l2 = [i \in DOMAIN l |-> l2[i]]
      OBVIOUS
    <2> HIDE DEF l, l2
    <2> QED
      BY <1>3, <2>1, TotalOfDoubles
  <1>6. \A i \in DOMAIN layers : KeysOf(layers[i]) \in Nat
    <2>1. \A i \in DOMAIN layers : k[i] = KeysOf(layers[i])
      OBVIOUS
    <2>2. DOMAIN k = DOMAIN layers
      OBVIOUS
    <2> HIDE DEF k
    <2> QED
      BY <1>2, <2>1, <2>2, LenProperties, ElementOfSeq
  <1>7. \A i \in DOMAIN d.layers : /\ WrittenTexts(d.layers[i]) \in Nat
                                   /\ LayerTexts(layers[i]) = WrittenTexts(d.layers[i])
                                                                + 2 * KeysOf(layers[i])
    BY <1>1, <1>6, LayerTextsRead
  <1>8. /\ w \in Seq(Int) /\ r \in Seq(Int)
        /\ Len(w) = Len(r) /\ Len(k2) = Len(r)
        /\ \A i \in DOMAIN r : r[i] = w[i] + k2[i]
    <2>1. /\ DOMAIN w = 1 .. Len(d.layers) /\ DOMAIN r = 1 .. Len(d.layers)
          /\ DOMAIN k2 = 1 .. Len(d.layers)
          /\ \A i \in 1 .. Len(d.layers) :
                /\ w[i] = WrittenTexts(d.layers[i]) /\ r[i] = LayerTexts(layers[i])
                /\ k2[i] = 2 * KeysOf(layers[i])
          /\ w = [i \in 1 .. Len(d.layers) |-> w[i]]
          /\ r = [i \in 1 .. Len(d.layers) |-> r[i]]
          /\ k2 = [i \in 1 .. Len(d.layers) |-> k2[i]]
      BY <1>1, Zenon
    <2> HIDE DEF w, r, k2, layers
    <2>2. ASSUME NEW i \in 1 .. Len(d.layers)
          PROVE  w[i] \in Int /\ r[i] \in Int /\ k2[i] \in Int /\ r[i] = w[i] + k2[i]
      <3> DEFINE x == WrittenTexts(d.layers[i])
                 y == KeysOf(layers[i])
                 z == LayerTexts(layers[i])
      <3>1. x \in Nat /\ y \in Nat /\ z = x + 2 * y
        BY <1>1, <1>6, <1>7
      <3>2. w[i] = x /\ r[i] = z /\ k2[i] = 2 * y
        BY <2>1, Zenon
      <3> HIDE DEF x, y, z
      <3> QED
        BY <3>1, <3>2
    <2>3. /\ w \in Seq(Int) /\ Len(w) = Len(d.layers) /\ r \in Seq(Int) /\ Len(r) = Len(d.layers)
          /\ k2 \in Seq(Int) /\ Len(k2) = Len(d.layers)
      BY <1>1, <2>1, <2>2, SeqOfNumbers
    <2> QED
      BY <2>1, <2>2, <2>3
  <1> HIDE DEF w, r, k, k2, l, l2
  <1>9. Total(r) = Total(w) + Total(k2) /\ Total(w) \in Int
    BY <1>4, <1>8, TotalsAdd
  <1>10. Total(k2) = Total(l2) /\ Total(l2) \in Int
    BY <1>2, <1>3, <1>4, <1>5
  <1>11. Total(w) \in Int /\ Total(l2) \in Int /\ Total(r) = Total(w) + Total(l2)
    BY <1>9, <1>10
  <1> QED
    BY <1>11 DEF w, l2, r

LEMMA TotalOfNumbers ==
    ASSUME NEW S, NEW items \in Seq(S), NEW s, s = [i \in DOMAIN items |-> s[i]],
           \A i \in DOMAIN items : s[i] \in Nat
    PROVE  s \in Seq(Nat) /\ Total(s) \in Nat
  <1>1. DOMAIN items = 1 .. Len(items) /\ Len(items) \in Nat
    BY LenProperties
  <1>2. s \in Seq(Nat)
    BY <1>1
  <1> QED
    BY <1>2, TotalCounts

(* The sums over the lists of a document are numbers.                        *)
LEMMA SumsAreNumbers ==
    ASSUME NEW d \in CanvasDocument
    PROVE  /\ SumOver(d.tracks, LAMBDA track : 2 + 3 * Len(track.clips)) \in Nat
           /\ SumOver(d.assets, TextsIn) \in Nat
           /\ SumOver(d.canvases, Text) \in Nat
           /\ SumOver(d.boards, LAMBDA board : 2) = 2 * Len(d.boards)
  <1>1. SumOver(d.tracks, LAMBDA track : 2 + 3 * Len(track.clips)) \in Nat
    <2> DEFINE s == [i \in DOMAIN d.tracks |-> 2 + 3 * Len(d.tracks[i].clips)]
    <2>1. d.tracks \in Seq(AudioTrack)
      BY FieldTypes
    <2>2. ASSUME NEW i \in DOMAIN d.tracks PROVE 2 + 3 * Len(d.tracks[i].clips) \in Nat
      <3>1. d.tracks[i] \in AudioTrack
        BY <2>1, LenProperties, ElementOfSeq
      <3>2. d.tracks[i].clips \in Seq(AudioClip)
        BY <3>1 DEF AudioTrack
      <3>3. Len(d.tracks[i].clips) \in Nat
        BY <3>2, LenProperties
      <3> QED
        BY <3>3
    <2>3. s = [i \in DOMAIN d.tracks |-> s[i]] /\ \A i \in DOMAIN d.tracks : s[i] \in Nat
      BY <2>2
    <2>4. SumOver(d.tracks, LAMBDA track : 2 + 3 * Len(track.clips)) = Total(s)
      BY DEF SumOver
    <2> HIDE DEF s
    <2> QED
      BY <2>1, <2>3, <2>4, TotalOfNumbers
  <1>2. SumOver(d.assets, TextsIn) \in Nat
    <2> DEFINE s == [i \in DOMAIN d.assets |-> TextsIn(d.assets[i])]
    <2>1. d.assets \in Seq(VisualAsset)
      BY FieldTypes
    <2>2. ASSUME NEW i \in DOMAIN d.assets PROVE TextsIn(d.assets[i]) \in Nat
      <3>1. d.assets[i] \in VisualAsset
        BY <2>1, LenProperties, ElementOfSeq
      <3>2. d.assets[i].parts \in Seq(STRING)
        BY <3>1 DEF VisualAsset
      <3>3. Len(d.assets[i].parts) \in Nat
        BY <3>2, LenProperties
      <3> QED
        BY <3>3 DEF TextsIn
    <2>3. s = [i \in DOMAIN d.assets |-> s[i]] /\ \A i \in DOMAIN d.assets : s[i] \in Nat
      BY <2>2
    <2>4. SumOver(d.assets, TextsIn) = Total(s)
      BY DEF SumOver
    <2> HIDE DEF s
    <2> QED
      BY <2>1, <2>3, <2>4, TotalOfNumbers
  <1>3. SumOver(d.canvases, Text) \in Nat
    <2> DEFINE s == [i \in DOMAIN d.canvases |-> Text(d.canvases[i])]
    <2>1. s = [i \in DOMAIN d.canvases |-> s[i]] /\ \A i \in DOMAIN d.canvases : s[i] \in Nat
      BY TextsAreNumbers
    <2>2. SumOver(d.canvases, Text) = Total(s)
      BY DEF SumOver
    <2> HIDE DEF s
    <2> QED
      BY <2>1, <2>2, FieldTypes, TotalOfNumbers
  <1>4. SumOver(d.boards, LAMBDA board : 2) = 2 * Len(d.boards)
    <2> DEFINE s == [i \in DOMAIN d.boards |-> 2]
    <2>1. DOMAIN d.boards = 1 .. Len(d.boards) /\ Len(d.boards) \in Nat
      BY FieldTypes, LenProperties
    <2>2. s \in Seq(Int) /\ Len(s) = Len(d.boards) /\ \A i \in DOMAIN s : s[i] = 2
      BY <2>1
    <2>3. SumOver(d.boards, LAMBDA board : 2) = Total(s)
      BY DEF SumOver
    <2> HIDE DEF s
    <2> QED
      BY <2>2, <2>3, TotalOfTwos
  <1> QED
    BY <1>1, <1>2, <1>3, <1>4

LEMMA TextsMatch ==
    ASSUME NEW d \in CanvasDocument, Valid(d)
    PROVE  DecodedTexts(TableOf(d)) = EncodedTexts(d)
  <1> DEFINE table == TableOf(d)
             ofAssets == SumOver(d.assets, TextsIn)
             ofTracks == SumOver(d.tracks, LAMBDA track : 2 + 3 * Len(track.clips))
             written == SumOver(d.layers, LAMBDA layer :
                             2 + Text(layer.board) + MaskTexts(layer.appearance)
                               + Texts(HasRole(layer.kind), 2) + Texts(~layer.keyed, 1))
             framed == SumOver(d.frames, LAMBDA frame : 2 * Len(frame.keys))
             read == SumOver(LayersData(d), LayerTexts)
             ofCanvases == SumOver(d.canvases, Text)
             ofBoards == SumOver(d.boards, LAMBDA board : 2)
             ofPublication == Text(d.cover) + ofCanvases
             prompt == Texts(d.prompt # "none", 1)
             ledger == Texts(d.minor >= 5, 1)
             publication == Texts(d.published, ofPublication)
             audio == Len(d.audio)
             boards == Len(d.boards)
  <1>1. /\ ofAssets \in Nat /\ ofTracks \in Nat /\ ofPublication \in Nat
        /\ ofBoards = 2 * boards
    <2>1. ofTracks \in Nat /\ ofAssets \in Nat /\ ofCanvases \in Nat /\ ofBoards = 2 * boards
      BY SumsAreNumbers, Zenon
    <2>2. Text(d.cover) \in Nat
      BY TextsAreNumbers
    <2> HIDE DEF ofTracks, ofAssets, ofCanvases, ofBoards, boards
    <2> QED
      BY <2>1, <2>2
  <1>2. written \in Int /\ framed \in Int /\ read = written + framed
    <2>1. /\ written = Total([i \in DOMAIN d.layers |-> WrittenTexts(d.layers[i])])
          /\ framed = Total([i \in DOMAIN d.frames |-> 2 * Len(d.frames[i].keys)])
          /\ read = Total([i \in DOMAIN LayersData(d) |-> LayerTexts(LayersData(d)[i])])
      BY DEF SumOver, WrittenTexts
    <2> HIDE DEF written, framed, read
    <2> QED
      BY <2>1, TextsOfLayers
  <1>3. audio \in Nat /\ boards \in Nat
    BY FieldTypes, LenProperties
  <1>4. prompt \in Nat /\ ledger \in Nat /\ publication \in Nat
    BY <1>1, TextsAreNumbers
  <1>5. PublicationTexts(PublicationData(d)) = publication
    <2>1. CASE d.published
      <3> DEFINE m == [canvases |-> d.canvases, cover |-> d.cover]
                 F(z) == Text(z.cover) + SumOver(z.canvases, Text)
      <3>1. PublicationData(d) = <<m>>
        BY <2>1 DEF PublicationData
      <3>2. m.cover = d.cover /\ m.canvases = d.canvases
        OBVIOUS
      <3> HIDE DEF m
      <3>3. PublicationTexts(<<m>>) = Total([i \in DOMAIN <<m>> |-> F(<<m>>[i])])
        BY DEF PublicationTexts, SumOver
      <3>4. F(m) = ofPublication
        BY <3>2, Zenon
      <3> HIDE DEF F, ofPublication
      <3>5. [i \in DOMAIN <<m>> |-> F(<<m>>[i])] = <<ofPublication>>
        BY <3>4
      <3>8. ofPublication \in Nat
        BY <1>1, Zenon
      <3>6. Total(<<ofPublication>>) = ofPublication
        BY <3>8, TotalOfFew
      <3>7. PublicationTexts(<<m>>) = ofPublication
        BY <3>3, <3>5, <3>6, Zenon
      <3> QED
        BY <2>1, <3>1, <3>7 DEF Texts
    <2>2. CASE ~d.published
      <3>1. PublicationData(d) = <<>>
        BY <2>2 DEF PublicationData
      <3>2. PublicationTexts(<<>>) = Total(<<>>)
        BY DEF PublicationTexts, SumOver
      <3> QED
        BY <2>2, <3>1, <3>2, TotalOfFew DEF Texts
    <2> QED
      BY <2>1, <2>2
  <1>6. /\ ReadRecords(table, "Asset") = d.assets /\ ReadRecords(table, "Layer") = LayersData(d)
        /\ Cardinality(OfKind(table, "AudioAsset")) = audio
        /\ ReadRecords(table, "AudioTrack") = d.tracks
        /\ Cardinality(OfKind(table, "Artboard")) = boards
    BY TableListsAreRead
  <1>7. Texts(Stored(Only(table, "Metadata"), "none") # "none", 1) = prompt
    <2>1. Only(table, "Metadata") = Since(d, 2, d.prompt)
      BY TableIsRead
    <2>2. d.minor >= 2 \/ d.prompt = "none"
      BY NotStored
    <2> QED
      BY <2>1, <2>2, StoredSince
  <1>8. Texts(Occurs(table, "Authorship"), 1) = ledger
    <2>1. Occurs(table, "Authorship") <=> d.minor >= 5
      BY TableIsRead
    <2> QED
      BY <2>1 DEF Texts
  <1>9. ReadPublication(table) = PublicationData(d)
    BY TableIsRead
  <1>10. DecodedTexts(table) = ofAssets + read + prompt + audio + ofTracks + ledger + 2 * boards
                                 + publication
    BY <1>5, <1>6, <1>7, <1>8, <1>9, Zenon DEF DecodedTexts
  <1>11. EncodedTexts(d) = ofBoards + written + ledger + audio + ofTracks + ofAssets + framed
                             + prompt + publication
    BY Zenon DEF EncodedTexts
  <1> HIDE DEF table, ofAssets, ofTracks, written, framed, read, prompt, ledger, publication,
               audio, boards, ofBoards, ofPublication
  <1>12. DecodedTexts(table) = EncodedTexts(d)
    BY <1>1, <1>2, <1>3, <1>4, <1>10, <1>11
  <1> QED
    BY <1>12 DEF table

(* What the reader adds up is what the writer did.                           *)
LEMMA TotalsMatch ==
    ASSUME NEW d \in CanvasDocument, Valid(d)
    PROVE  DecodedTotals(TableOf(d)) = EncodedTotals(d)
  <1> DEFINE table == TableOf(d)
             layers == LayersData(d)
             Motion(data) == Len(Stored(data.motion, <<>>))
             Keys(data) == IF data.source.keyed THEN Len(data.source.keys) ELSE 0
             keyframes == SumOver(d.frames, LAMBDA frame : Len(frame.keys))
             motion == SumOver(d.layers, LAMBDA layer : Len(layer.motion))
             clips == SumOver(d.tracks, LAMBDA track : Len(track.clips))
             samples == SumOver(d.audio, LAMBDA asset : asset.length)
             entries == Texts(d.published, Len(d.canvases))
             parts == PartsPerKind(d.assets)
             readFrames == Cardinality({key.at : key \in Pending(layers)})
             readKeys == SumOver(layers, Keys)
             readMotion == SumOver(layers, LAMBDA data : Len(Stored(data.motion, <<>>)))
             readEntries == SumOver(PublicationData(d), LAMBDA m : Len(m.canvases))
  <1>1. readFrames = Len(d.frames)
    <2> DEFINE times == TimesOf(d.frames)
               S == ToSet(times)
    <2>1. /\ times \in Seq(Nat) /\ DOMAIN times = DOMAIN d.frames /\ Len(times) = Len(d.frames)
          /\ \A i \in DOMAIN d.frames : times[i] = d.frames[i].at
          /\ {key.at : key \in AllKeys(d.frames)} = S
      BY TimesAre
    <2>2. FramesInOrder(d.frames)
      BY FramesAreValid
    <2>3. DOMAIN times = 1 .. Len(times) /\ Len(times) \in Nat /\ \A i \in DOMAIN times : times[i] \in Nat
      BY <2>1, LenProperties, ElementOfSeq
    <2>4. \A i, j \in DOMAIN times : i < j => times[i] < times[j]
      BY <2>1, <2>2 DEF FramesInOrder
    <2> HIDE DEF times
    <2>5. Enumerates(times, Len(times), S)
      BY <2>3, <2>4 DEF Enumerates, ToSet
    <2> HIDE DEF S
    <2>6. Cardinality(S) = Len(times)
      BY <2>3, <2>5, PlacesCount
    <2>7. Pending(layers) = AllKeys(d.frames)
      BY PendingIs
    <2> QED
      BY <2>1, <2>6, <2>7
  <1>2. readKeys = keyframes
    <2>1. Total([i \in DOMAIN layers |-> KeysOf(layers[i])]) = Cardinality(AllKeys(d.frames))
      BY LayersCountKeys
    <2>2. Total([i \in DOMAIN d.frames |-> Len(d.frames[i].keys)]) = Cardinality(AllKeys(d.frames))
      BY FramesCountKeys
    <2>3. readKeys = Total([i \in DOMAIN layers |-> KeysOf(layers[i])])
      BY DEF SumOver, KeysOf
    <2>4. keyframes = Total([i \in DOMAIN d.frames |-> Len(d.frames[i].keys)])
      BY DEF SumOver
    <2> QED
      BY <2>1, <2>2, <2>3, <2>4, Zenon
  <1>3. readMotion = motion
    <2> DEFINE r == [i \in DOMAIN layers |-> Len(Stored(layers[i].motion, <<>>))]
               w == [i \in DOMAIN d.layers |-> Len(d.layers[i].motion)]
    <2>1. /\ DOMAIN layers = DOMAIN d.layers
          /\ \A i \in DOMAIN d.layers : layers[i] = LayerData(d, d.layers[i])
      BY LayersDataIs
    <2>2. ASSUME NEW i \in DOMAIN d.layers
          PROVE  Stored(layers[i].motion, <<>>) = d.layers[i].motion
      <3> DEFINE layer == d.layers[i]
      <3>1. ValidLayer(d, layer)
        BY LayersAreValid
      <3>4. LayerData(d, layer).motion = Since(d, 6, layer.motion)
        BY DEF LayerData
      <3>2. layers[i].motion = Since(d, 6, layer.motion)
        BY <2>1, <3>4, Zenon
      <3>3. d.minor >= 6 \/ layer.motion = <<>>
        BY <3>1 DEF ValidLayer
      <3> HIDE DEF layer, layers
      <3>5. Stored(layers[i].motion, <<>>) = layer.motion
        BY <3>2, <3>3, StoredSince
      <3> QED
        BY <3>5 DEF layer
    <2>3. r = w
      <3> HIDE DEF layers
      <3> QED
        BY <2>1, <2>2
    <2>4. readMotion = Total(r) /\ motion = Total(w)
      BY DEF SumOver
    <2> QED
      BY <2>3, <2>4, Zenon
  <1>4. readEntries = entries
    <2>1. CASE d.published
      <3> DEFINE m == [canvases |-> d.canvases, cover |-> d.cover]
                 n == Len(d.canvases)
                 F(z) == Len(z.canvases)
      <3>1. PublicationData(d) = <<m>>
        BY <2>1 DEF PublicationData
      <3>2. F(m) = n /\ n \in Nat
        BY FieldTypes, LenProperties
      <3> HIDE DEF m
      <3>3. SumOver(<<m>>, LAMBDA z : Len(z.canvases)) = Total([i \in DOMAIN <<m>> |-> F(<<m>>[i])])
        BY DEF SumOver
      <3> HIDE DEF F, n
      <3>4. [i \in DOMAIN <<m>> |-> F(<<m>>[i])] = <<n>>
        BY <3>2
      <3>5. Total(<<n>>) = n
        BY <3>2, TotalOfFew
      <3>6. readEntries = n
        BY <3>1, <3>3, <3>4, <3>5, Zenon
      <3>7. entries = n
        BY <2>1 DEF Texts, n
      <3> QED
        BY <3>6, <3>7, Zenon
    <2>2. CASE ~d.published
      <3>1. PublicationData(d) = <<>>
        BY <2>2 DEF PublicationData
      <3>2. SumOver(<<>>, LAMBDA m : Len(m.canvases)) = Total(<<>>)
        BY DEF SumOver
      <3>3. entries = 0
        BY <2>2 DEF Texts
      <3> QED
        BY <3>1, <3>2, <3>3, TotalOfFew, Zenon
    <2> QED
      BY <2>1, <2>2
  <1>5. /\ ReadRecords(table, "Asset") = d.assets /\ ReadRecords(table, "Layer") = layers
        /\ ReadRecords(table, "AudioAsset") = d.audio /\ ReadRecords(table, "AudioTrack") = d.tracks
    BY TableListsAreRead
  <1>6. /\ Header(table).assets = Len(d.assets) /\ Only(table, "LayerCount") = Len(d.layers)
        /\ Count(table, "ArtboardCount") = Len(d.boards)
        /\ Count(table, "AudioAssetCount") = Len(d.audio)
        /\ Count(table, "AudioTrackCount") = Len(d.tracks)
        /\ ReadPublication(table) = PublicationData(d)
    <2>1. HeaderData(d).assets = Len(d.assets)
      BY DEF HeaderData
    <2>2. Header(table) = HeaderData(d)
      BY TableIsRead, Zenon
    <2> QED
      BY <2>1, <2>2, TableIsRead, Zenon
  <1>7. DecodedTexts(table) = EncodedTexts(d)
    BY TextsMatch
  <1>8. DecodedParts(table) = parts
    BY <1>5, Zenon DEF DecodedParts
  <1>9. DecodedTotals(table) =
          [assets |-> Len(d.assets), layers |-> Len(d.layers),
           boards |-> Len(d.boards), audio |-> Len(d.audio), tracks |-> Len(d.tracks),
           frames |-> readFrames, keyframes |-> readKeys, motion |-> readMotion,
           clips |-> clips, samples |-> samples, entries |-> readEntries,
           pixels |-> Pixels(parts), parts |-> parts, texts |-> EncodedTexts(d)]
    BY <1>5, <1>6, <1>7, <1>8, Zenon DEF DecodedTotals
  <1>10. EncodedTotals(d) =
          [assets |-> Len(d.assets), layers |-> Len(d.layers), boards |-> Len(d.boards),
           frames |-> Len(d.frames), audio |-> Len(d.audio), tracks |-> Len(d.tracks),
           keyframes |-> keyframes, motion |-> motion, clips |-> clips, samples |-> samples,
           entries |-> entries, pixels |-> Pixels(parts), parts |-> parts,
           texts |-> EncodedTexts(d)]
    BY Zenon DEF EncodedTotals
  <1> HIDE DEF table, layers, keyframes, motion, clips, samples, entries, parts,
               readFrames, readKeys, readMotion, readEntries
  <1>11. DecodedTotals(table) = EncodedTotals(d)
    BY <1>1, <1>2, <1>3, <1>4, <1>9, <1>10
  <1> QED
    BY <1>11 DEF table

(* What is written reads back: every valid document that the encoder takes   *)
(* under some limits comes back under these from the rows it is written as.  *)
(* Only the selected author is not part of the file.                         *)
THEOREM ReadsBack ==
    ASSUME NEW d \in CanvasDocument, NEW limits, CanEncode(d, limits)
    PROVE  Decoded(TableOf(d), limits) = <<[d EXCEPT !.author = 0]>>
  <1> DEFINE table == TableOf(d)
             e == [d EXCEPT !.author = 0]
  <1>1. Valid(d) /\ Within(EncodedTotals(d), limits)
    BY DEF CanEncode
  <1>2. ReadDocument(table) = e
    BY <1>1, DocumentReads
  <1>3. Valid(e)
    BY <1>1, WithoutAuthor, ValidWithoutAuthor
  <1>4. /\ CanonicalLayout(table) /\ MatchesVersion(table) /\ MatchesCounts(table)
        /\ IsReadable(table)
    BY <1>1, TableIsReadable
  <1>5. DecodedTotals(table) = EncodedTotals(d)
    BY <1>1, TotalsMatch
  <1>6. Within(DecodedTotals(table), limits)
    BY <1>1, <1>5, Zenon
  <1> HIDE DEF table, e
  <1>7. Decoded(table, limits) = <<e>>
    BY <1>2, <1>3, <1>4, <1>6, Zenon DEF Decoded
  <1> QED
    BY <1>7 DEF table, e

-----------------------------------------------------------------------------
(* The bound file                                                            *)

(* The rows of a bound file are those of the document the editor shows, and  *)
(* that document is one the encoder takes.                                   *)
FileHoldsDocument ==
    binding = "file" => CanEncode(doc, SerializationLimits) /\ rows = TableOf(doc)

LEMMA CreatedRows ==
    ASSUME NEW d \in CanvasDocument, CanEncode(d, SerializationLimits)
    PROVE  WriteRecords({}, EncodeDocumentRecords(d, <<>>)) = TableOf(d)
  <1>1. IsFrom({}, <<>>)
    BY DEF IsFrom, ToSet
  <1> QED
    BY <1>1, WrittenPayload DEF EncodeDocumentRecords, CanEncode

LEMMA CommittedRows ==
    ASSUME NEW d \in CanvasDocument, CanEncode(d, SerializationLimits),
           NEW old \in CanvasDocument, CanEncode(old, SerializationLimits)
    PROVE  WriteRecords(TableOf(old), EncodeDocumentRecords(d, <<old>>)) = TableOf(d)
  <1>1. IsFrom(TableOf(old), <<old>>)
    BY DEF IsFrom, ToSet, CanEncode
  <1> QED
    BY <1>1, WrittenPayload DEF EncodeDocumentRecords, CanEncode

LEMMA FileStep ==
    ASSUME DocumentCallsAssumption, DocumentTypeOK, FileHoldsDocument, [StoredNext]_storedVars
    PROVE  FileHoldsDocument'
  <1>1. CASE UNCHANGED storedVars
    BY <1>1 DEF storedVars, vars, FileHoldsDocument
  <1>2. CASE StoredNext
    <2>1. [Next]_vars /\ (CreateFile \/ CommitEdit \/ LeaveFile)
      BY <1>2 DEF StoredNext
    <2>2. DocumentKept
      BY <2>1, DocumentStep
    <2>3. doc \in CanvasDocument /\ doc' \in CanvasDocument /\ (countVars' = countVars => doc' = doc)
      <3>1. countVars' = countVars => revision' # revision + 1 /\ unreported' # unreported + 1
        BY DEF countVars, DocumentTypeOK
      <3> QED
        BY <2>2, <3>1 DEF DocumentKept, DocumentTypeOK
    <2>4. CASE CreateFile
      BY <2>3, <2>4, CreatedRows DEF CreateFile, FileHoldsDocument
    <2>5. CASE CommitEdit
      <3> DEFINE written == WriteRecords(rows, EncodeDocumentRecords(doc', <<doc>>))
      <3>1. binding = "file" /\ CanEncode(doc', SerializationLimits) /\ rows' = written
        <4>1. binding = "file" /\ rows' \in {written} /\ CanEncode(doc', SerializationLimits)
          BY <2>5 DEF CommitEdit
        <4> QED
          BY <4>1
      <3>2. CanEncode(doc, SerializationLimits) /\ rows = TableOf(doc)
        BY <3>1 DEF FileHoldsDocument
      <3>3. rows' = TableOf(doc')
        BY <2>3, <3>1, <3>2, CommittedRows
      <3> QED
        BY <3>1, <3>3 DEF FileHoldsDocument
    <2>6. CASE LeaveFile
      BY <2>3, <2>6 DEF LeaveFile, FileHoldsDocument
    <2> QED
      BY <2>1, <2>4, <2>5, <2>6
  <1> QED
    BY <1>1, <1>2

(* Whatever is called, with values of the types of the interface, and        *)
(* whichever limits the file has: a bound file, read again, gives the        *)
(* document the editor shows.  Creating it wrote all of it; every commit     *)
(* wrote what it says is new, moved what has another place and deleted what  *)
(* is gone, over the rows of the commit before (DocumentFile::create() and   *)
(* commit(), IiscCodec.cpp's writePayload() and DocumentReader).             *)
THEOREM FileReadsBackCorrect ==
    DocumentCallsAssumption => (StoredSpec => []FileReadsBack)
  <1> SUFFICES ASSUME DocumentCallsAssumption PROVE StoredSpec => []FileReadsBack
    OBVIOUS
  <1> DEFINE Inv == DocumentTypeOK /\ FileHoldsDocument
  <1>1. StoredInit => Inv
    BY DEF StoredInit, Init, DocumentTypeOK, DocumentCallsAssumption, FileHoldsDocument
  <1>2. Inv /\ [StoredNext]_storedVars => Inv'
    <2>1. [StoredNext]_storedVars => [Next]_vars
      BY DEF StoredNext, storedVars, vars
    <2> QED
      BY <2>1, DocumentStep, FileStep DEF DocumentKept
  <1>3. Inv => FileReadsBack
    BY ReadsBack DEF DocumentTypeOK, FileHoldsDocument, FileReadsBack
  <1> HIDE DEF Inv
  <1> QED
    BY <1>1, <1>2, <1>3, PTL DEF StoredSpec

-----------------------------------------------------------------------------
(* The upgrade of a file                                                     *)

(* What a file can be read as.                                               *)
Readable(d) ==
    d \in CanvasDocument /\ d.author = 0 /\ CanEncode(d, SerializationLimits)

FileHolds(file) ==
    /\ file = [kind |-> file.kind, rows |-> file.rows,
               revision |-> file.revision, identity |-> file.identity]
    /\ file.revision \in Nat /\ file.identity \in Nat
    /\ IsWritten(file)

LEMMA RowsRead ==
    ASSUME NEW d, Readable(d) PROVE Decoded(TableOf(d), SerializationLimits) = <<d>>
  <1>1. [d EXCEPT !.author = 0] = d
    <2>1. d \in DocumentOf(Nat, Int, Extent) /\ d.author = 0
      BY DocumentIs DEF Readable
    <2> QED
      BY <2>1 DEF DocumentOf
  <1>2. d \in CanvasDocument /\ CanEncode(d, SerializationLimits)
    BY DEF Readable
  <1>3. Decoded(TableOf(d), SerializationLimits) = <<[d EXCEPT !.author = 0]>>
    BY <1>2, ReadsBack
  <1> QED
    BY <1>1, <1>3, Zenon

LEMMA WhatIsRead ==
    ASSUME NEW file, FileHolds(file), Reads(file) # <<>>
    PROVE  LET d == Reads(file)[1]
           IN  /\ Reads(file) = <<d>> /\ Readable(d) /\ file.rows = TableOf(d)
               /\ file.kind = "snapshot" /\ ~d.infinite => d.chunkSize = DefaultChunkSize
  <1> DEFINE d == Reads(file)[1]
  <1>1. /\ d \in CanvasDocument /\ CanEncode(d, SerializationLimits)
        /\ file.rows = EncodeWorkingFile(d)
        /\ file.kind = "snapshot" /\ ~d.infinite => d.chunkSize = DefaultChunkSize
    BY DEF FileHolds, IsWritten
  <1>2. file.rows = TableOf(d)
    BY <1>1, CreatedRows DEF EncodeWorkingFile
  <1>3. Reads(file) = <<ReadDocument(file.rows)>>
    BY Zenon DEF Reads, Decoded
  <1>4. Reads(file) = <<d>> /\ d = ReadDocument(file.rows)
    BY <1>3
  <1>5. d.author = 0
    BY <1>4 DEF ReadDocument
  <1> QED
    BY <1>1, <1>2, <1>4, <1>5 DEF Readable

(* A file is what is written to it.                                          *)
LEMMA WrittenHolds ==
    ASSUME NEW d, Readable(d), NEW file, file.rows = TableOf(d),
           file = [kind |-> file.kind, rows |-> file.rows,
                   revision |-> file.revision, identity |-> file.identity],
           file.revision \in Nat, file.identity \in Nat,
           file.kind = "snapshot" /\ ~d.infinite => d.chunkSize = DefaultChunkSize
    PROVE  FileHolds(file) /\ Reads(file) = <<d>>
  <1>1. Reads(file) = <<d>>
    BY RowsRead DEF Reads
  <1>2. file.rows = EncodeWorkingFile(d)
    BY CreatedRows DEF EncodeWorkingFile, Readable
  <1>3. IsWritten(file)
    BY <1>1, <1>2 DEF IsWritten, Readable
  <1> QED
    BY <1>1, <1>3, Zenon DEF FileHolds

LEMMA UpgradedIsReadable ==
    ASSUME NEW d, Readable(d), CanEncode(Upgraded(d), SerializationLimits)
    PROVE  /\ Readable(Upgraded(d)) /\ IsCurrent(Upgraded(d))
           /\ Upgraded(d).infinite = d.infinite /\ Upgraded(d).chunkSize = d.chunkSize
  <1>1. d \in DocumentOf(Nat, Int, Extent) /\ IsWhole(d) /\ d.author = 0
    BY DocumentIs DEF Readable
  <1>2. Upgraded(d) = [d EXCEPT !.minor = CurrentFormatMinor] /\ CurrentFormatMinor \in Nat
    BY DEF Upgraded, CurrentFormatMinor
  <1>3. Upgraded(d) \in DocumentOf(Nat, Int, Extent)
    <2>1. 0 \in Int
      OBVIOUS
    <2>2. [d EXCEPT !.minor = CurrentFormatMinor] \in DocumentOf(Nat, Int, Extent)
      BY <1>1, <1>2, <2>1, FieldsOf, Zenon
    <2> QED
      BY <1>2, <2>2, Zenon
  <1>4. /\ Upgraded(d).minor = CurrentFormatMinor /\ Upgraded(d).author = 0
        /\ Upgraded(d).infinite = d.infinite /\ Upgraded(d).chunkSize = d.chunkSize
        /\ Upgraded(d).published = d.published /\ Upgraded(d).canvases = d.canvases
        /\ Upgraded(d).cover = d.cover
    BY <1>1, <1>2 DEF DocumentOf
  <1>5. Upgraded(d) \in CanvasDocument
    BY <1>1, <1>3, <1>4, DocumentIs DEF IsWhole
  <1> QED
    BY <1>4, <1>5 DEF Readable, IsCurrent

(* What a snapshot is written as: the default chunk size of a finite canvas  *)
(* is what it had.                                                           *)
LEMMA SnapshotRows ==
    ASSUME NEW d, Readable(d), ~d.infinite => d.chunkSize = DefaultChunkSize
    PROVE  EncodeIisc(d) = TableOf(d)
  <1>1. (IF d.infinite THEN d ELSE [d EXCEPT !.chunkSize = DefaultChunkSize]) = d
    <2>1. CASE d.infinite
      BY <2>1
    <2>2. CASE ~d.infinite
      <3>1. d \in DocumentOf(Nat, Int, Extent) /\ d.chunkSize = DefaultChunkSize
        BY <2>2, DocumentIs DEF Readable
      <3>2. [d EXCEPT !.chunkSize = DefaultChunkSize] = d
        BY <3>1 DEF DocumentOf
      <3> QED
        BY <2>2, <3>2
    <2> QED
      BY <2>1, <2>2
  <1>2. EncodeIisc(d) = WriteRecords({}, EncodeDocumentRecords(d, <<>>))
    BY <1>1, Zenon DEF EncodeIisc
  <1> QED
    BY <1>2, CreatedRows DEF Readable

LEMMA EditedIsReadable ==
    ASSUME NEW old, Readable(old), NEW minor \in Nat, NEW new,
           new = [old EXCEPT !.minor = minor, !.frameCount = @ + 1],
           CanEncode(new, SerializationLimits)
    PROVE  Readable(new)
  <1>1. old \in DocumentOf(Nat, Int, Extent) /\ IsWhole(old) /\ old.author = 0 /\ old.frameCount + 1 \in Int
    BY DocumentIs DEF Readable, DocumentOf
  <1> DEFINE raised == [old EXCEPT !.minor = minor]
  <1>2. raised \in DocumentOf(Nat, Int, Extent) /\ raised.author = 0 /\ raised.frameCount = old.frameCount
        /\ raised.published = old.published /\ raised.canvases = old.canvases
        /\ raised.cover = old.cover
    <2>1. raised \in DocumentOf(Nat, Int, Extent)
      BY <1>1, FieldsOf, Zenon
    <2> QED
      BY <1>1, <2>1 DEF DocumentOf
  <1>3. new = [raised EXCEPT !.frameCount = old.frameCount + 1]
    BY <1>1 DEF DocumentOf
  <1> HIDE DEF raised
  <1>4. new \in DocumentOf(Nat, Int, Extent)
    <2>1. 0 \in Nat
      OBVIOUS
    <2>2. [raised EXCEPT !.frameCount = old.frameCount + 1] \in DocumentOf(Nat, Int, Extent)
      BY <1>1, <1>2, <2>1, FieldsOf, Zenon
    <2> QED
      BY <1>3, <2>2, Zenon
  <1>5. /\ new.author = 0 /\ new.published = old.published /\ new.canvases = old.canvases
        /\ new.cover = old.cover
    BY <1>2, <1>3 DEF DocumentOf
  <1>6. new \in CanvasDocument
    BY <1>1, <1>4, <1>5, DocumentIs DEF IsWhole
  <1> QED
    BY <1>5, <1>6 DEF Readable

(* What the caller holds is, phase by phase, what it was before: the         *)
(* document it saw is one the input was during the call, the rows it is      *)
(* about to write are those of the current version of that document, or, for *)
(* a snapshot in place, those the input had.                                 *)
SeesInput == {"stage", "open", "edit", "commit", "publish", "replace", "create"}

CallHolds ==
    /\ call = [phase |-> call.phase, inPlace |-> call.inPlace, seen |-> call.seen,
               rows |-> call.rows, revision |-> call.revision, identity |-> call.identity,
               result |-> call.result]
    /\ ~At("idle") => call.result = "none"
    /\ call.phase \in SeesInput =>
            call.seen = <<call.seen[1]>> /\ Readable(call.seen[1]) /\ call.seen \in held
    /\ call.phase \in {"stage", "publish", "create"} => ~call.inPlace
    /\ call.phase \in {"commit", "publish"} =>
            /\ CanEncode(Upgraded(call.seen[1]), SerializationLimits)
            /\ call.rows = TableOf(Upgraded(call.seen[1]))
    /\ call.phase \in {"replace", "create"} =>
            /\ CanEncode(Upgraded(call.seen[1]), SerializationLimits)
            /\ ~call.seen[1].infinite => call.seen[1].chunkSize = DefaultChunkSize
    /\ At("replace") => Decoded(call.rows, SerializationLimits) = call.seen

(* A file that lies where it was opened is what was seen, or has been        *)
(* committed to since; not under the transaction.                            *)
SessionIsKept ==
    call.phase \in {"edit", "commit"} =>
        /\ call.revision \in Nat /\ call.identity \in Nat /\ call.identity <= others
        /\ ~Moved => /\ call.revision <= input.revision
                     /\ call.revision = input.revision => Reads(input) = call.seen
                     /\ At("commit") => call.revision = input.revision

InputHolds == FileHolds(input) /\ others \in Nat /\ input.identity <= others

UpgradeHolds == InputHolds /\ CallHolds /\ SessionIsKept

(* What the property says of a step.                                         *)
KeepsContent ==
    call' # call =>
        /\ input' # input =>
               /\ input'.kind = input.kind
               /\ Reads(input') = <<Upgraded(Reads(input)[1])>>
        /\ output' # output =>
               /\ output.kind = "absent"
               /\ \E d \in held : d # <<>> /\ Reads(output') = <<Upgraded(d[1])>>
        /\ call.inPlace /\ call'.result \in {"changed", "unchanged"} =>
               \/ At("commit") /\ Moved
               \/ Reads(input') # <<>> /\ IsCurrent(Reads(input')[1])

(* The history holds what the input is, and what it was.                     *)
HeldGrows ==
    held' = IF call'.phase = "idle" THEN {} ELSE held \union {Reads(input')}

(* A call that returns holds nothing any more.                               *)
LEMMA ReturnHolds ==
    ASSUME NEW result, Returns(result)
    PROVE  CallHolds' /\ SessionIsKept' /\ call'.result = result /\ call'.phase = "idle"
  <1>1. call' = [phase |-> "idle", inPlace |-> FALSE, seen |-> <<>>, rows |-> {},
                 revision |-> 0, identity |-> 0, result |-> result]
    BY DEF Returns, Idle
  <1>2. call'.phase = "idle" /\ call'.result = result
    BY <1>1
  <1>3. call' = [phase |-> call'.phase, inPlace |-> call'.inPlace, seen |-> call'.seen,
                 rows |-> call'.rows, revision |-> call'.revision, identity |-> call'.identity,
                 result |-> call'.result]
    BY <1>1
  <1>4. "idle" \notin SeesInput /\ "idle" \notin {"edit", "commit"}
    BY DEF SeesInput
  <1> QED
    BY <1>2, <1>3, <1>4 DEF CallHolds, SessionIsKept, At

(* Steps of the call that leave both files alone.                            *)
LEMMA BeginKeeps ==
    ASSUME UpgradeHolds, NEW inPlace \in BOOLEAN, Begin(inPlace), UNCHANGED others, HeldGrows
    PROVE  UpgradeHolds' /\ KeepsContent
  <1>1. InputHolds' /\ input' = input /\ output' = output
    BY DEF UpgradeHolds, InputHolds, Begin
  <1> DEFINE phase == IF input.kind = "working" THEN "load" ELSE "read"
  <1>2. call' = [phase |-> phase, inPlace |-> inPlace, seen |-> <<>>, rows |-> {},
                 revision |-> 0, identity |-> 0, result |-> "none"]
    BY DEF Begin, Idle
  <1>3. phase \in {"load", "read"}
    OBVIOUS
  <1> HIDE DEF phase
  <1>4. call'.phase \in {"load", "read"} /\ call'.result = "none"
    BY <1>2, <1>3
  <1>5. call' = [phase |-> call'.phase, inPlace |-> call'.inPlace, seen |-> call'.seen,
                 rows |-> call'.rows, revision |-> call'.revision, identity |-> call'.identity,
                 result |-> call'.result]
    BY <1>2
  <1>6. CallHolds' /\ SessionIsKept'
    BY <1>4, <1>5 DEF CallHolds, SessionIsKept, At, SeesInput
  <1> QED
    BY <1>1, <1>4, <1>6 DEF UpgradeHolds, KeepsContent

(* Both files stay as they are, and the call has no result yet.               *)
LEMMA QuietKeeps ==
    ASSUME input' = input, output' = output, call'.result = "none"
    PROVE  KeepsContent
  BY DEF KeepsContent

LEMMA InputStays ==
    ASSUME UpgradeHolds, input' = input, UNCHANGED others PROVE InputHolds'
  BY DEF UpgradeHolds, InputHolds

LEMMA LoadKeeps ==
    ASSUME UpgradeHolds, Load, UNCHANGED others, HeldGrows
    PROVE  UpgradeHolds' /\ KeepsContent
  <1> DEFINE source == Reads(input)[1]
  <1>1. /\ input' = input /\ output' = output /\ InputHolds' /\ CallHolds
        /\ At("load") /\ ~At("idle")
    BY InputStays DEF Load, UpgradeHolds, At
  <1>2. Reads(input) = <<source>> /\ Readable(source)
    <2>1. FileHolds(input) /\ Reads(input) # <<>>
      BY DEF Load, UpgradeHolds, InputHolds
    <2> QED
      BY <2>1, WhatIsRead
  <1>3. ASSUME Returns("unchanged"), call.inPlace, IsCurrent(source)
        PROVE  UpgradeHolds' /\ KeepsContent
    <2>1. Reads(input') # <<>> /\ IsCurrent(Reads(input')[1])
      BY <1>1, <1>2, <1>3
    <2>2. CallHolds' /\ SessionIsKept'
      BY <1>3, ReturnHolds
    <2> QED
      BY <1>1, <2>1, <2>2 DEF UpgradeHolds, KeepsContent
  <1>4. ASSUME NEW phase \in {"stage", "open"}, GoesWith(phase, source),
               phase = "stage" => ~call.inPlace
        PROVE  UpgradeHolds' /\ KeepsContent
    <2>1. call' = [phase |-> phase, inPlace |-> call.inPlace, seen |-> <<source>>,
                   rows |-> call.rows, revision |-> call.revision,
                   identity |-> call.identity, result |-> "none"]
      BY <1>1, <1>4 DEF GoesWith, CallHolds
    <2>2. phase # "idle"
      BY <1>4
    <2>3. /\ call' = [phase |-> call'.phase, inPlace |-> call'.inPlace, seen |-> call'.seen,
                      rows |-> call'.rows, revision |-> call'.revision,
                      identity |-> call'.identity, result |-> call'.result]
          /\ call'.phase = phase /\ call'.inPlace = call.inPlace /\ call'.seen = <<source>>
          /\ call'.result = "none"
      BY <2>1
    <2>4. call'.seen \in held'
      BY <1>1, <1>2, <2>2, <2>3 DEF HeldGrows
    <2>5. CallHolds'
      BY <1>2, <1>4, <2>3, <2>4 DEF CallHolds, At
    <2>6. SessionIsKept'
      BY <1>4, <2>3 DEF SessionIsKept
    <2> QED
      BY <1>1, <2>3, <2>5, <2>6, QuietKeeps DEF UpgradeHolds
  <1> QED
    BY <1>3, <1>4 DEF Load

LEMMA FailsKeeps ==
    ASSUME UpgradeHolds, Fails, UNCHANGED others, HeldGrows
    PROVE  UpgradeHolds' /\ KeepsContent
  <1>1. input' = input /\ output' = output /\ InputHolds' /\ Returns("failed")
    BY InputStays DEF Fails
  <1>2. CallHolds' /\ SessionIsKept' /\ call'.result = "failed"
    BY <1>1, ReturnHolds
  <1> QED
    BY <1>1, <1>2 DEF UpgradeHolds, KeepsContent

LEMMA OpenKeeps ==
    ASSUME UpgradeHolds, Open, UNCHANGED others, HeldGrows
    PROVE  UpgradeHolds' /\ KeepsContent
  <1> DEFINE source == Reads(input)[1]
  <1>1. /\ input' = input /\ output' = output /\ InputHolds' /\ CallHolds
        /\ At("open") /\ ~At("idle") /\ InputHolds
    BY InputStays DEF Open, UpgradeHolds, At
  <1>2. Reads(input) = <<source>> /\ Readable(source)
    <2>1. FileHolds(input) /\ Reads(input) # <<>>
      BY DEF Open, UpgradeHolds, InputHolds
    <2> QED
      BY <2>1, WhatIsRead
  <1>3. call' = [phase |-> "edit", inPlace |-> call.inPlace, seen |-> Reads(input),
                 rows |-> call.rows, revision |-> input.revision,
                 identity |-> input.identity, result |-> "none"]
    BY <1>1 DEF Open, CallHolds
  <1>4. /\ call' = [phase |-> call'.phase, inPlace |-> call'.inPlace, seen |-> call'.seen,
                    rows |-> call'.rows, revision |-> call'.revision,
                    identity |-> call'.identity, result |-> call'.result]
        /\ call'.phase = "edit" /\ call'.seen = Reads(input) /\ call'.result = "none"
        /\ call'.revision = input.revision /\ call'.identity = input.identity
    BY <1>3
  <1>5. call'.seen \in held'
    BY <1>1, <1>4 DEF HeldGrows
  <1>6. CallHolds'
    BY <1>2, <1>4, <1>5 DEF CallHolds, At
  <1>7. SessionIsKept'
    BY <1>1, <1>4 DEF SessionIsKept, InputHolds, FileHolds, At
  <1> QED
    BY <1>1, <1>4, <1>6, <1>7, QuietKeeps DEF UpgradeHolds

(* The rows under the transaction are those of the document that was seen, so *)
(* what is written over them is the current version of that document.         *)
LEMMA UpgradeFormatKeeps ==
    ASSUME UpgradeHolds, UpgradeFormat, UNCHANGED others, HeldGrows
    PROVE  UpgradeHolds' /\ KeepsContent
  <1> DEFINE source == call.seen[1]
             upgraded == Upgraded(source)
  <1>1. /\ input' = input /\ output' = output /\ InputHolds' /\ CallHolds /\ SessionIsKept
        /\ At("edit") /\ ~At("idle") /\ InputHolds /\ SessionHolds
        /\ CanEncode(upgraded, SerializationLimits)
    BY InputStays DEF UpgradeFormat, UpgradeHolds, At
  <1>2. call.seen = <<source>> /\ Readable(source) /\ call.seen \in held
    BY <1>1 DEF CallHolds, SeesInput, At
  <1>3. Reads(input) = <<source>> /\ input.rows = TableOf(source)
    <2>1. Reads(input) = call.seen
      BY <1>1 DEF SessionIsKept, SessionHolds, At
    <2>2. FileHolds(input) /\ Reads(input) # <<>> /\ Reads(input)[1] = source
      BY <1>1, <1>2, <2>1 DEF InputHolds
    <2> QED
      BY <1>2, <2>1, <2>2, WhatIsRead
  <1>4. WriteRecords(input.rows, EncodeDocumentRecords(upgraded, call.seen)) = TableOf(upgraded)
    <2>1. Readable(upgraded)
      BY <1>1, <1>2, UpgradedIsReadable
    <2>2. WriteRecords(TableOf(source), EncodeDocumentRecords(upgraded, <<source>>))
            = TableOf(upgraded)
      BY <1>2, <2>1, CommittedRows, Zenon DEF Readable
    <2> QED
      BY <1>2, <1>3, <2>2, Zenon
  <1>5. call' = [phase |-> "commit", inPlace |-> call.inPlace, seen |-> call.seen,
                 rows |-> TableOf(upgraded), revision |-> call.revision,
                 identity |-> call.identity, result |-> "none"]
    BY <1>1, <1>4 DEF UpgradeFormat, CallHolds
  <1>6. /\ call' = [phase |-> call'.phase, inPlace |-> call'.inPlace, seen |-> call'.seen,
                    rows |-> call'.rows, revision |-> call'.revision,
                    identity |-> call'.identity, result |-> call'.result]
        /\ call'.phase = "commit" /\ call'.seen = call.seen /\ call'.result = "none"
        /\ call'.rows = TableOf(upgraded)
        /\ call'.revision = call.revision /\ call'.identity = call.identity
    BY <1>5
  <1>7. call'.seen \in held'
    BY <1>2, <1>6 DEF HeldGrows
  <1>8. CallHolds'
    BY <1>1, <1>2, <1>6, <1>7 DEF CallHolds, At
  <1>9. SessionIsKept'
    BY <1>1, <1>6 DEF SessionIsKept, SessionHolds, Moved, At
  <1> QED
    BY <1>1, <1>6, <1>8, <1>9, QuietKeeps DEF UpgradeHolds

LEMMA StageKeeps ==
    ASSUME UpgradeHolds, Stage, UNCHANGED others, HeldGrows
    PROVE  UpgradeHolds' /\ KeepsContent
  <1> DEFINE source == call.seen[1]
             upgraded == Upgraded(source)
  <1>1. /\ input' = input /\ output' = output /\ InputHolds' /\ CallHolds
        /\ At("stage") /\ ~At("idle")
        /\ CanEncode(upgraded, SerializationLimits)
    BY InputStays DEF Stage, UpgradeHolds, At
  <1>2. call.seen = <<source>> /\ Readable(source) /\ call.seen \in held /\ ~call.inPlace
    BY <1>1 DEF CallHolds, SeesInput, At
  <1>3. EncodeWorkingFile(upgraded) = TableOf(upgraded)
    <2>1. Readable(upgraded)
      BY <1>1, <1>2, UpgradedIsReadable
    <2> QED
      BY <2>1, CreatedRows, Zenon DEF Readable, EncodeWorkingFile
  <1>4. call' = [phase |-> "publish", inPlace |-> call.inPlace, seen |-> call.seen,
                 rows |-> TableOf(upgraded), revision |-> call.revision,
                 identity |-> call.identity, result |-> "none"]
    BY <1>1, <1>3 DEF Stage, CallHolds
  <1>5. /\ call' = [phase |-> call'.phase, inPlace |-> call'.inPlace, seen |-> call'.seen,
                    rows |-> call'.rows, revision |-> call'.revision,
                    identity |-> call'.identity, result |-> call'.result]
        /\ call'.phase = "publish" /\ call'.seen = call.seen /\ call'.result = "none"
        /\ call'.rows = TableOf(upgraded) /\ call'.inPlace = call.inPlace
    BY <1>4
  <1>6. call'.seen \in held'
    BY <1>2, <1>5 DEF HeldGrows
  <1>7. CallHolds'
    BY <1>1, <1>2, <1>5, <1>6 DEF CallHolds, At
  <1>8. SessionIsKept'
    BY <1>5 DEF SessionIsKept
  <1> QED
    BY <1>1, <1>5, <1>7, <1>8, QuietKeeps DEF UpgradeHolds

LEMMA ReadKeeps ==
    ASSUME UpgradeHolds, Read, UNCHANGED others, HeldGrows
    PROVE  UpgradeHolds' /\ KeepsContent
  <1> DEFINE source == Reads(input)[1]
  <1>1. /\ input' = input /\ output' = output /\ InputHolds' /\ CallHolds
        /\ At("read") /\ ~At("idle") /\ input.kind = "snapshot"
    BY InputStays DEF Read, UpgradeHolds, At
  <1>2. /\ Reads(input) = <<source>> /\ Readable(source)
        /\ ~source.infinite => source.chunkSize = DefaultChunkSize
    <2>1. FileHolds(input) /\ Reads(input) # <<>>
      BY DEF Read, UpgradeHolds, InputHolds
    <2> QED
      BY <1>1, <2>1, WhatIsRead
  <1>3. ASSUME Returns("unchanged"), IsCurrent(source) PROVE UpgradeHolds' /\ KeepsContent
    <2>1. Reads(input') # <<>> /\ IsCurrent(Reads(input')[1])
      BY <1>1, <1>2, <1>3
    <2>2. CallHolds' /\ SessionIsKept'
      BY <1>3, ReturnHolds
    <2> QED
      BY <1>1, <2>1, <2>2 DEF UpgradeHolds, KeepsContent
  <1>4. ASSUME NEW phase \in {"replace", "create"}, phase = "create" => ~call.inPlace,
               CanEncode(Upgraded(source), SerializationLimits),
               call' = [call EXCEPT !.phase = phase, !.seen = <<source>>, !.rows = input.rows]
        PROVE  UpgradeHolds' /\ KeepsContent
    <2>1. call' = [phase |-> phase, inPlace |-> call.inPlace, seen |-> <<source>>,
                   rows |-> input.rows, revision |-> call.revision,
                   identity |-> call.identity, result |-> "none"]
      BY <1>1, <1>4 DEF CallHolds
    <2>2. /\ call' = [phase |-> call'.phase, inPlace |-> call'.inPlace, seen |-> call'.seen,
                      rows |-> call'.rows, revision |-> call'.revision,
                      identity |-> call'.identity, result |-> call'.result]
          /\ call'.phase = phase /\ call'.inPlace = call.inPlace /\ call'.seen = <<source>>
          /\ call'.rows = input.rows /\ call'.result = "none"
      BY <2>1
    <2>3. call'.seen \in held'
      BY <1>1, <1>2, <1>4, <2>2 DEF HeldGrows
    <2>4. Decoded(call'.rows, SerializationLimits) = call'.seen
      BY <1>2, <2>2 DEF Reads
    <2>5. CallHolds'
      BY <1>2, <1>4, <2>2, <2>3, <2>4 DEF CallHolds, At
    <2>6. SessionIsKept'
      BY <1>4, <2>2 DEF SessionIsKept
    <2> QED
      BY <1>1, <2>2, <2>5, <2>6, QuietKeeps DEF UpgradeHolds
  <1> QED
    <2> DEFINE phase == IF call.inPlace THEN "replace" ELSE "create"
    <2>1. phase \in {"replace", "create"} /\ (phase = "create" => ~call.inPlace)
      OBVIOUS
    <2>2. \/ Returns("unchanged") /\ IsCurrent(source)
          \/ /\ CanEncode(Upgraded(source), SerializationLimits)
             /\ call' = [call EXCEPT !.phase = phase, !.seen = <<source>>, !.rows = input.rows]
      BY Zenon DEF Read
    <2> HIDE DEF phase, source
    <2> QED
      BY <1>3, <1>4, <2>1, <2>2

(* Steps of the call that write.  The input becomes the current version of    *)
(* what it is at this moment.                                                 *)
LEMMA InputIsUpgraded ==
    ASSUME UpgradeHolds, NEW source, Readable(source), Reads(input) = <<source>>,
           CanEncode(Upgraded(source), SerializationLimits),
           input.kind = "snapshot" /\ ~source.infinite => source.chunkSize = DefaultChunkSize,
           NEW revised \in Nat,
           input' = [input EXCEPT !.rows = TableOf(Upgraded(source)), !.revision = revised],
           output' = output, UNCHANGED others, NEW result, Returns(result)
    PROVE  UpgradeHolds' /\ KeepsContent
  <1> DEFINE upgraded == Upgraded(source)
  <1>1. /\ Readable(upgraded) /\ IsCurrent(upgraded)
        /\ upgraded.infinite = source.infinite /\ upgraded.chunkSize = source.chunkSize
    BY UpgradedIsReadable
  <1> HIDE DEF upgraded
  <1>2. input' = [kind |-> input.kind, rows |-> TableOf(upgraded), revision |-> revised,
                  identity |-> input.identity]
    BY DEF UpgradeHolds, InputHolds, FileHolds, upgraded
  <1>3. /\ input'.kind = input.kind /\ input'.rows = TableOf(upgraded)
        /\ input'.revision \in Nat /\ input'.identity = input.identity
        /\ input' = [kind |-> input'.kind, rows |-> input'.rows,
                     revision |-> input'.revision, identity |-> input'.identity]
    <2>1. /\ input'.kind = input.kind /\ input'.rows = TableOf(upgraded)
          /\ input'.revision = revised /\ input'.identity = input.identity
      BY ONLY <1>2
    <2> QED
      BY <1>2, <2>1, Zenon
  <1>4. FileHolds(input') /\ Reads(input') = <<upgraded>>
    <2>1. input'.identity \in Nat
      BY <1>3 DEF UpgradeHolds, InputHolds, FileHolds
    <2>2. input'.kind = "snapshot" /\ ~upgraded.infinite => upgraded.chunkSize = DefaultChunkSize
      BY <1>1, <1>3
    <2> QED
      BY <1>1, <1>3, <2>1, <2>2, WrittenHolds
  <1>5. InputHolds'
    BY <1>3, <1>4 DEF UpgradeHolds, InputHolds
  <1>6. CallHolds' /\ SessionIsKept'
    BY ReturnHolds
  <1>7. Reads(input') = <<Upgraded(Reads(input)[1])>>
    BY <1>4 DEF upgraded
  <1>8. Reads(input') # <<>> /\ IsCurrent(Reads(input')[1])
    BY <1>1, <1>4
  <1> QED
    BY <1>3, <1>5, <1>6, <1>7, <1>8 DEF UpgradeHolds, KeepsContent

LEMMA ReplaceKeeps ==
    ASSUME UpgradeHolds, Replace, UNCHANGED others, HeldGrows
    PROVE  UpgradeHolds' /\ KeepsContent
  <1> DEFINE source == call.seen[1]
             upgraded == Upgraded(source)
  <1>1. /\ output' = output /\ CallHolds /\ InputHolds
        /\ At("replace") /\ ~At("idle") /\ SnapshotHolds /\ Returns("changed")
        /\ input' = [input EXCEPT !.rows = EncodeIisc(upgraded)]
    BY DEF Replace, UpgradeHolds, At
  <1>2. /\ call.seen = <<source>> /\ Readable(source)
        /\ CanEncode(upgraded, SerializationLimits)
        /\ ~source.infinite => source.chunkSize = DefaultChunkSize
    BY <1>1 DEF CallHolds, SeesInput, At
  <1>3. Reads(input) = <<source>>
    BY <1>1, <1>2 DEF CallHolds, SnapshotHolds, Reads
  <1>4. EncodeIisc(upgraded) = TableOf(upgraded)
    <2>1. /\ Readable(upgraded)
          /\ ~upgraded.infinite => upgraded.chunkSize = DefaultChunkSize
      BY <1>2, UpgradedIsReadable
    <2> QED
      BY <2>1, SnapshotRows
  <1>5. /\ input.revision \in Nat
        /\ input' = [input EXCEPT !.rows = TableOf(upgraded), !.revision = input.revision]
    BY <1>1, <1>4 DEF InputHolds, FileHolds
  <1> QED
    BY <1>1, <1>2, <1>3, <1>5, InputIsUpgraded

LEMMA CommitKeeps ==
    ASSUME UpgradeHolds, Commit, UNCHANGED others, HeldGrows
    PROVE  UpgradeHolds' /\ KeepsContent
  <1> DEFINE source == call.seen[1]
             upgraded == Upgraded(source)
             result == IF IsCurrent(source) THEN "unchanged" ELSE "changed"
  <1>1. /\ output' = output /\ CallHolds /\ SessionIsKept /\ InputHolds
        /\ At("commit") /\ ~At("idle") /\ Returns(result)
        /\ input' = IF Moved \/ IsCurrent(source) THEN input
                    ELSE [input EXCEPT !.rows = call.rows, !.revision = @ + 1]
    BY DEF Commit, UpgradeHolds, At
  <1>2. /\ call.seen = <<source>> /\ Readable(source)
        /\ CanEncode(upgraded, SerializationLimits)
        /\ call.rows = TableOf(upgraded)
    BY <1>1 DEF CallHolds, SeesInput, At
  <1>3. ~Moved => Reads(input) = <<source>> /\ input.kind = "working"
    BY <1>1, <1>2 DEF SessionIsKept, Moved, At
  <1>4. CASE Moved \/ IsCurrent(source)
    <2>1. input' = input /\ InputHolds'
      BY <1>1, <1>4, InputStays
    <2>2. CallHolds' /\ SessionIsKept'
      BY <1>1, ReturnHolds
    <2>3. Moved \/ (Reads(input') # <<>> /\ IsCurrent(Reads(input')[1]))
      BY <1>3, <1>4, <2>1
    <2> QED
      BY <1>1, <2>1, <2>2, <2>3 DEF UpgradeHolds, KeepsContent
  <1>5. CASE ~Moved /\ ~IsCurrent(source)
    <2>1. /\ input.revision + 1 \in Nat
          /\ input' = [input EXCEPT !.rows = TableOf(upgraded), !.revision = input.revision + 1]
      BY <1>1, <1>2, <1>5 DEF InputHolds, FileHolds
    <2>2. input.kind # "snapshot"
      BY <1>3, <1>5
    <2> QED
      BY <1>1, <1>2, <1>3, <1>5, <2>1, <2>2, InputIsUpgraded
  <1> QED
    BY <1>4, <1>5

(* A new output is the current version of what was seen.                      *)
LEMMA OutputIsUpgraded ==
    ASSUME UpgradeHolds, call.phase \in {"publish", "create"}, UNCHANGED others,
           NEW file, Creates(file), Reads(file) = <<Upgraded(call.seen[1])>>
    PROVE  UpgradeHolds' /\ KeepsContent
  <1>1. /\ input' = input /\ output.kind = "absent" /\ output' = file /\ Returns("changed")
        /\ CallHolds
    BY DEF Creates, UpgradeHolds
  <1>2. InputHolds'
    BY <1>1, InputStays
  <1>3. CallHolds' /\ SessionIsKept'
    BY <1>1, ReturnHolds
  <1>4. call.seen \in held /\ call.seen # <<>> /\ ~call.inPlace
    BY <1>1 DEF CallHolds, SeesInput
  <1>5. \E d \in held : d # <<>> /\ Reads(output') = <<Upgraded(d[1])>>
    BY <1>1, <1>4
  <1> QED
    BY <1>1, <1>2, <1>3, <1>4, <1>5 DEF UpgradeHolds, KeepsContent

LEMMA PublishKeeps ==
    ASSUME UpgradeHolds, Publish, UNCHANGED others, HeldGrows
    PROVE  UpgradeHolds' /\ KeepsContent
  <1> DEFINE file == File("working", call.rows, 0)
  <1>1. Creates(file) /\ call.phase = "publish" /\ CallHolds
    BY DEF Publish, UpgradeHolds, At
  <1>2. /\ Readable(call.seen[1]) /\ call.rows = TableOf(Upgraded(call.seen[1]))
        /\ CanEncode(Upgraded(call.seen[1]), SerializationLimits)
    BY <1>1 DEF CallHolds, SeesInput
  <1>3. Decoded(call.rows, SerializationLimits) = <<Upgraded(call.seen[1])>>
    <2>1. Readable(Upgraded(call.seen[1]))
      BY <1>2, UpgradedIsReadable
    <2> QED
      BY <1>2, <2>1, RowsRead
  <1>4. Reads(file) = <<Upgraded(call.seen[1])>>
    BY <1>3 DEF Reads, File
  <1> HIDE DEF file
  <1> QED
    BY <1>1, <1>4, OutputIsUpgraded

LEMMA CreateKeeps ==
    ASSUME UpgradeHolds, Create, UNCHANGED others, HeldGrows
    PROVE  UpgradeHolds' /\ KeepsContent
  <1> DEFINE file == Snapshot(Upgraded(call.seen[1]))
  <1>1. Creates(file) /\ call.phase = "create" /\ CallHolds
    BY DEF Create, UpgradeHolds, At
  <1>2. /\ Readable(call.seen[1])
        /\ CanEncode(Upgraded(call.seen[1]), SerializationLimits)
        /\ ~call.seen[1].infinite => call.seen[1].chunkSize = DefaultChunkSize
    BY <1>1 DEF CallHolds, SeesInput
  <1>3. EncodeIisc(Upgraded(call.seen[1])) = TableOf(Upgraded(call.seen[1]))
        /\ Readable(Upgraded(call.seen[1]))
    BY <1>2, UpgradedIsReadable, SnapshotRows
  <1>4. Decoded(EncodeIisc(Upgraded(call.seen[1])), SerializationLimits)
            = <<Upgraded(call.seen[1])>>
    BY <1>3, RowsRead
  <1>5. Reads(file) = <<Upgraded(call.seen[1])>>
    BY <1>4 DEF Reads, Snapshot, File
  <1> HIDE DEF file
  <1> QED
    BY <1>1, <1>5, OutputIsUpgraded

(* Steps of other programs: the call holds what it held.                      *)
LEMMA CallWaits ==
    ASSUME CallHolds, call' = call, HeldGrows PROVE CallHolds'
  <1>1. call.phase \in SeesInput => call'.seen \in held'
    <2>1. "idle" \notin SeesInput
      BY DEF SeesInput
    <2> QED
      BY <2>1 DEF CallHolds, HeldGrows
  <1> QED
    BY <1>1 DEF CallHolds, At

LEMMA NothingIsRead ==
    FileHolds(Absent) /\ Absent.kind = "absent" /\ Absent.identity = 0
  <1>1. Absent = [kind |-> "absent", rows |-> {}, revision |-> 0, identity |-> 0]
    BY DEF Absent, File
  <1>2. Reads(Absent) = <<>>
    <2>1. ~CanonicalLayout({})
      BY DEF CanonicalLayout, Occurs, OfKind
    <2>2. Absent.rows = {}
      BY <1>1
    <2> QED
      BY <2>1, <2>2, Zenon DEF Reads, Decoded, Readable
  <1> QED
    BY <1>1, <1>2 DEF FileHolds, IsWritten

LEMMA CommitOtherKeeps ==
    ASSUME UpgradeHolds, CommitOther, call' = call, others' = others + 1, HeldGrows
    PROVE  UpgradeHolds'
  <1> DEFINE old == Reads(input)[1]
  <1>1. /\ CallHolds /\ SessionIsKept /\ InputHolds /\ FileHolds(input)
        /\ input.kind = "working" /\ ~At("commit")
    BY DEF CommitOther, UpgradeHolds, InputHolds
  <1>2. Reads(input) = <<old>> /\ Readable(old) /\ input.rows = TableOf(old)
    BY <1>1, WhatIsRead DEF CommitOther
  <1>3. PICK minor \in {old.minor, CurrentFormatMinor} :
          LET new == [old EXCEPT !.minor = minor, !.frameCount = @ + 1]
          IN  /\ CanEncode(new, SerializationLimits)
              /\ input' = [input EXCEPT
                             !.rows = WriteRecords(@, EncodeDocumentRecords(new, <<old>>)),
                             !.revision = @ + 1]
    BY Zenon DEF CommitOther
  <1> DEFINE new == [old EXCEPT !.minor = minor, !.frameCount = @ + 1]
  <1>4. minor \in Nat
    <2>1. old.minor \in Nat
      BY <1>2, DocumentIs, Zenon DEF Readable, DocumentOf
    <2>2. minor \in {old.minor, CurrentFormatMinor}
      BY <1>3, Zenon
    <2> QED
      BY <2>1, <2>2 DEF CurrentFormatMinor
  <1>5. CanEncode(new, SerializationLimits)
    BY <1>3, Zenon
  <1>6. Readable(new)
    BY <1>2, <1>4, <1>5, EditedIsReadable, Zenon
  <1>7. WriteRecords(input.rows, EncodeDocumentRecords(new, <<old>>)) = TableOf(new)
    BY <1>2, <1>6, CommittedRows, Zenon DEF Readable
  <1>8. input' = [input EXCEPT !.rows = WriteRecords(input.rows, EncodeDocumentRecords(new, <<old>>)),
                               !.revision = input.revision + 1]
    BY <1>3, Zenon
  <1> HIDE DEF new, old
  <1>9. input' = [kind |-> "working", rows |-> TableOf(new), revision |-> input.revision + 1,
                  identity |-> input.identity]
    BY <1>1, <1>7, <1>8 DEF FileHolds
  <1>10. /\ input'.kind = "working" /\ input'.rows = TableOf(new)
         /\ input'.revision = input.revision + 1 /\ input'.identity = input.identity
    BY ONLY <1>9
  <1>11. input' = [kind |-> input'.kind, rows |-> input'.rows,
                   revision |-> input'.revision, identity |-> input'.identity]
    BY <1>9, <1>10, Zenon
  <1>12. InputHolds'
    <2>1. input'.revision \in Nat /\ input'.identity \in Nat /\ input'.kind # "snapshot"
      BY ONLY <1>1, <1>10 DEF FileHolds
    <2>2. FileHolds(input')
      BY <1>6, <1>10, <1>11, <2>1, WrittenHolds
    <2>3. others' \in Nat /\ input'.identity <= others'
      BY ONLY <1>1, <1>10, others' = others + 1 DEF InputHolds, FileHolds
    <2> QED
      BY <2>2, <2>3 DEF InputHolds
  <1>13. SessionIsKept'
    <2>1. ASSUME call.phase = "edit" PROVE SessionIsKept'
      <3>1. /\ call.revision \in Nat /\ call.identity \in Nat /\ call.identity <= others'
            /\ ~Moved => call.revision <= input.revision
        BY ONLY <1>1, <2>1, others' = others + 1 DEF SessionIsKept, InputHolds
      <3>2. ~Moved' => call.revision < input'.revision
        BY ONLY <1>1, <1>10, <3>1, call' = call DEF Moved, FileHolds
      <3>3. input'.revision \in Nat /\ call' = call
        BY ONLY <1>1, <1>10, call' = call DEF FileHolds
      <3> QED
        BY ONLY <2>1, <3>1, <3>2, <3>3 DEF SessionIsKept, At
    <2>2. call.phase # "commit"
      BY <1>1 DEF At
    <2> QED
      BY ONLY <2>1, <2>2, call' = call DEF SessionIsKept
  <1> QED
    BY <1>1, <1>12, <1>13, CallWaits DEF UpgradeHolds

LEMMA InputIsReplaced ==
    ASSUME UpgradeHolds, call' = call, others' = others + 1, HeldGrows,
           FileHolds(input'), input'.kind # "working" \/ input'.identity = others',
           input'.identity <= others'
    PROVE  UpgradeHolds'
  <1>1. InputHolds'
    BY DEF UpgradeHolds, InputHolds
  <1>2. SessionIsKept'
    BY DEF UpgradeHolds, SessionIsKept, InputHolds, Moved
  <1> QED
    BY <1>1, <1>2, CallWaits DEF UpgradeHolds

LEMMA OtherKeeps ==
    ASSUME UpgradeFilesAssumption, UpgradeHolds, Other, HeldGrows
    PROVE  UpgradeHolds' /\ KeepsContent
  <1>1. call' = call /\ others' = others + 1 /\ KeepsContent
    BY DEF Other, KeepsContent
  <1>2. CASE input' = input
    <2>1. InputHolds'
      <3>1. others \in Nat /\ input.identity \in Nat /\ input.identity <= others
        BY DEF UpgradeHolds, InputHolds, FileHolds
      <3>2. others' \in Nat /\ input.identity <= others'
        BY ONLY <1>1, <3>1
      <3> QED
        BY <1>2, <3>2 DEF UpgradeHolds, InputHolds
    <2>2. SessionIsKept'
      <3>1. Moved' = Moved /\ At("commit")' = At("commit")
        BY <1>1, <1>2 DEF Moved, At
      <3>2. call.phase \in {"edit", "commit"} => call.identity <= others'
        BY <1>1 DEF UpgradeHolds, InputHolds, SessionIsKept
      <3> QED
        BY <1>1, <1>2, <3>1, <3>2 DEF UpgradeHolds, SessionIsKept
    <2> QED
      BY <1>1, <2>1, <2>2, CallWaits DEF UpgradeHolds
  <1>3. CASE ReplaceOther
    <2>1. PICK file \in Replacements : input' = [file EXCEPT !.identity = others + 1]
      BY <1>3 DEF ReplaceOther
    <2>2. file = [kind |-> file.kind, rows |-> file.rows, revision |-> 0, identity |-> 0]
          /\ IsWritten(file)
      BY DEF UpgradeFilesAssumption, File
    <2>3. input' = [kind |-> file.kind, rows |-> file.rows, revision |-> 0,
                    identity |-> others + 1]
      BY <2>1, <2>2
    <2>4. /\ input'.kind = file.kind /\ input'.rows = file.rows
          /\ input'.revision = 0 /\ input'.identity = others + 1
      BY ONLY <2>3
    <2>5. IsWritten(input')
      BY <2>2, <2>4 DEF IsWritten, Reads
    <2>6. FileHolds(input')
      <3>1. input' = [kind |-> input'.kind, rows |-> input'.rows,
                      revision |-> input'.revision, identity |-> input'.identity]
        BY <2>3, <2>4, Zenon
      <3>2. input'.revision \in Nat /\ input'.identity \in Nat
        BY <2>4 DEF UpgradeHolds, InputHolds
      <3> QED
        BY <2>5, <3>1, <3>2, Zenon DEF FileHolds
    <2>7. input'.identity = others' /\ input'.identity <= others'
      BY <1>1, <2>4 DEF UpgradeHolds, InputHolds
    <2> QED
      BY <1>1, <2>6, <2>7, InputIsReplaced
  <1>4. CASE input' = Absent
    <2>1. FileHolds(input') /\ input'.kind # "working" /\ input'.identity <= others'
      BY <1>1, <1>4, NothingIsRead DEF UpgradeHolds, InputHolds
    <2> QED
      BY <1>1, <2>1, InputIsReplaced
  <1>5. CASE CommitOther
    BY <1>1, <1>5, CommitOtherKeeps
  <1> QED
    BY <1>2, <1>3, <1>4, <1>5, Zenon DEF Other, CreateOther, RemoveOther

LEMMA UpgradeStep ==
    ASSUME UpgradeFilesAssumption, UpgradeHolds, UpgradeNext
    PROVE  UpgradeHolds' /\ KeepsContent
  <1>1. HeldGrows
    BY DEF UpgradeNext, HeldGrows
  <1>2. CASE Other
    BY <1>1, <1>2, OtherKeeps
  <1>3. CASE Step /\ UNCHANGED others
    <2>1. ASSUME NEW inPlace \in BOOLEAN, Begin(inPlace) PROVE UpgradeHolds' /\ KeepsContent
      BY <1>1, <1>3, <2>1, BeginKeeps
    <2>2. CASE Load
      BY <1>1, <1>3, <2>2, LoadKeeps
    <2>3. CASE Open
      BY <1>1, <1>3, <2>3, OpenKeeps
    <2>4. CASE UpgradeFormat
      BY <1>1, <1>3, <2>4, UpgradeFormatKeeps
    <2>5. CASE Commit
      BY <1>1, <1>3, <2>5, CommitKeeps
    <2>6. CASE Stage
      BY <1>1, <1>3, <2>6, StageKeeps
    <2>7. CASE Publish
      BY <1>1, <1>3, <2>7, PublishKeeps
    <2>8. CASE Read
      BY <1>1, <1>3, <2>8, ReadKeeps
    <2>9. CASE Replace
      BY <1>1, <1>3, <2>9, ReplaceKeeps
    <2>10. CASE Create
      BY <1>1, <1>3, <2>10, CreateKeeps
    <2>11. CASE Fails
      BY <1>1, <1>3, <2>11, FailsKeeps
    <2> QED
      BY <1>3, <2>1, <2>2, <2>3, <2>4, <2>5, <2>6, <2>7, <2>8, <2>9, <2>10, <2>11 DEF Step
  <1> QED
    BY <1>2, <1>3 DEF UpgradeNext

(* Whichever files lie at the paths, as long as the program wrote those that  *)
(* can be read, whatever the limits are and whatever other programs do        *)
(* meanwhile: an upgrade changes the version of a file and nothing else       *)
(* (upgradeIiscFile()).  The call holds a document the input was, the rows it *)
(* writes are those of that document in its current version, and what it      *)
(* asks of the input before it writes (the identity and the revision of a     *)
(* working file, the bytes of a snapshot) leaves the input no other document. *)
THEOREM UpgradesKeepContentCorrect ==
    UpgradeFilesAssumption => (UpgradeSpec => UpgradesKeepContent)
  <1> SUFFICES ASSUME UpgradeFilesAssumption PROVE UpgradeSpec => UpgradesKeepContent
    OBVIOUS
  <1>1. UpgradeInit => UpgradeHolds
    <2> SUFFICES ASSUME UpgradeInit PROVE UpgradeHolds
      OBVIOUS
    <2>1. input = [kind |-> input.kind, rows |-> input.rows, revision |-> 0, identity |-> 0]
          /\ IsWritten(input)
      BY DEF UpgradeInit, UpgradeFilesAssumption, File
    <2>2. input.revision = 0 /\ input.identity = 0
      BY <2>1
    <2>3. InputHolds
      BY <2>1, <2>2 DEF InputHolds, FileHolds, UpgradeInit
    <2>4. /\ call.phase = "idle"
          /\ call = [phase |-> call.phase, inPlace |-> call.inPlace, seen |-> call.seen,
                     rows |-> call.rows, revision |-> call.revision,
                     identity |-> call.identity, result |-> call.result]
      BY DEF UpgradeInit, Idle
    <2>5. CallHolds /\ SessionIsKept
      BY <2>4 DEF CallHolds, SessionIsKept, SeesInput, At
    <2> QED
      BY <2>3, <2>5 DEF UpgradeHolds
  <1>2. UpgradeHolds /\ [UpgradeNext]_upgradeVars => UpgradeHolds' /\ [KeepsContent]_upgradeVars
    <2>1. ASSUME UpgradeHolds, UNCHANGED upgradeVars PROVE UpgradeHolds'
      BY <2>1 DEF upgradeVars, UpgradeHolds, InputHolds, CallHolds, SessionIsKept, Moved, At
    <2> QED
      BY <2>1, UpgradeStep
  <1> QED
    BY <1>1, <1>2, PTL DEF UpgradeSpec, UpgradesKeepContent, KeepsContent
===============================================================================
