--------------------------------- MODULE Items ---------------------------------
(***************************************************************************)
(* Ordered collections of things that have an id, as the document and the   *)
(* timeline keep them.  A 0 in place of an id is the empty string.          *)
(***************************************************************************)
EXTENDS Integers, Sequences, SequencesExt, FiniteSets

Item(s, id) == CHOOSE i \in DOMAIN s : s[i].id = id
Has(s, id) == \E i \in DOMAIN s : s[i].id = id
Found(s, id) == s[Item(s, id)]
Distinct(s) == \A i, j \in DOMAIN s : s[i].id = s[j].id => i = j

(* Positions count from 0; this one stands for the end.                      *)
AppendIndex == -1

InsertionIndex(at, s) == IF at = AppendIndex THEN Len(s) ELSE at
IsOutside(at, s) == InsertionIndex(at, s) > Len(s)
Inserted(s, at, e) == InsertAt(s, InsertionIndex(at, s) + 1, e)

(* The elements of s in the order of the ranks their positions have.         *)
Arranged(s, rank) ==
    [n \in 1 .. Cardinality(DOMAIN rank) |-> s[CHOOSE i \in DOMAIN rank : rank[i] = n]]

(* Those at some positions, in the order they have.                          *)
Kept(s, places) == Arranged(s, [i \in places |-> Cardinality({j \in places : j <= i})])

(* std::stable_sort by a number that each element has.                       *)
SortedBy(s, number) ==
    Arranged(s, [i \in DOMAIN s |->
        Cardinality({j \in DOMAIN s : \/ number[j] < number[i]
                                      \/ number[j] = number[i] /\ j <= i})])

MoveElement(s, from, to) == InsertAt(RemoveAt(s, from), to + 1, s[from])
===============================================================================
