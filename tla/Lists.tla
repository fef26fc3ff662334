--------------------------------- MODULE Lists ---------------------------------
(***************************************************************************)
(* Array.prototype.filter, as the code uses it to take one element off a   *)
(* list.  It numbers the places that stay, so that it can be reasoned      *)
(* about without recursion.                                                *)
(***************************************************************************)
EXTENDS Naturals, Sequences, FiniteSets

\* The places of a list that hold another element than e.
PlacesBut(list, e) == {i \in DOMAIN list : list[i] # e}

Increasing(f) == \A i, j \in DOMAIN f : i < j => f[i] < f[j]

\* The list without element e, in its order.
Without(list, e) ==
    LET kept == PlacesBut(list, e)
        place == CHOOSE f \in [1..Cardinality(kept) -> kept] : Increasing(f)
    IN  [i \in 1..Cardinality(kept) |-> list[place[i]]]
===============================================================================
