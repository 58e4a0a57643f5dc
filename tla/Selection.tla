-------------------------------- MODULE Selection --------------------------------
(* The queries over rows in a given order: WHERE, ORDER BY, LIMIT and OFFSET,   *)
(* and a list that is read page by page.  The order is always total: where the  *)
(* key does not tell, the place of a row does.                                  *)
EXTENDS Integers, Sequences, FiniteSets

Precedes(key, i, j) == key[i] < key[j] \/ (key[i] = key[j] /\ i < j)

\* Of the chosen places, the one that n - 1 others precede.
Place(chosen, key, n) == CHOOSE i \in chosen : Cardinality({j \in chosen : Precedes(key, j, i)}) = n - 1

Selected(rows, chosen, key) == [n \in 1..Cardinality(chosen) |-> rows[Place(chosen, key, n)]]

\* WHERE: the order of the rows stays.
Where(rows, Keep(_)) == Selected(rows, {n \in DOMAIN rows : Keep(rows[n])}, [n \in DOMAIN rows |-> 0])

\* ORDER BY key.
SortedBy(rows, Key(_)) == Selected(rows, DOMAIN rows, [n \in DOMAIN rows |-> Key(rows[n])])

\* LIMIT limit OFFSET offset.
Window(rows, limit, offset) ==
    SubSeq(rows, offset + 1, IF offset + limit > Len(rows) THEN Len(rows) ELSE offset + limit)
===============================================================================
