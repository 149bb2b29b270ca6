------------------------------- MODULE Lists -------------------------------
(* Filtering and sorting, as Array.prototype.filter and sort do it. These are *)
(* SelectSeq and SetToSortSeq with a set for the test and a relation for the  *)
(* order, written without recursion so that they can be proved about.         *)
EXTENDS Naturals, Sequences, FiniteSets

\* The elements of a list that are in a set, in their order.
Only(list, S) ==
    LET kept[i \in 0 .. Len(list)] ==
            IF i = 0 THEN <<>>
            ELSE IF list[i] \in S THEN Append(kept[i - 1], list[i]) ELSE kept[i - 1]
    IN  kept[Len(list)]

\* The elements of a finite set in an order that is total on it.
InOrder(S, R) ==
    CHOOSE s \in [1 .. Cardinality(S) -> S] : \A i, j \in DOMAIN s : i < j => <<s[i], s[j]>> \in R
=============================================================================
