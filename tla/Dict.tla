-------------------------------- MODULE Dict --------------------------------
(***************************************************************************)
(* What the users of a kfxx::HashMap get: a finite map in which the first  *)
(* insertion of a key wins.  A call that fails changes nothing, except     *)
(* that inserting a key that is there may cost the map one element.        *)
(***************************************************************************)
EXTENDS Functions

CONSTANTS Key, Value

VARIABLES map,  \* key -> value
          ok    \* what the last insertion returned

Without(m, k) == Restrict(m, DOMAIN m \ {k})
With(m, k, v) == [x \in DOMAIN m \cup {k} |-> IF x = k THEN v ELSE m[x]]

Init == map = << >> /\ ok = TRUE

Insert(k, v) == /\ k \notin DOMAIN map
                /\ \/ map' = With(map, k, v) /\ ok' = TRUE
                   \/ map' = map /\ ok' = FALSE

InsertAgain(k) == /\ k \in DOMAIN map
                  /\ \/ map' = map /\ ok' = TRUE
                     \/ \E x \in DOMAIN map : map' = Without(map, x) /\ ok' = FALSE

Remove(k) == map' = Without(map, k) /\ ok' = ok

Clear == map' = << >> /\ ok' = ok

Next == \/ \E k \in Key, v \in Value : Insert(k, v)
        \/ \E k \in Key : InsertAgain(k) \/ Remove(k)
        \/ Clear

Spec == Init /\ [][Next]_<<map, ok>>
=============================================================================
