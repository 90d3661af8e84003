---------------------------- MODULE BoundedCache ----------------------------
(***************************************************************************)
(* What mln::cache (utility/cache.h) promises to those who use it: a map   *)
(* that holds at most PurgeLimit elements, because adding an absent key to *)
(* a full one drops PurgeCount of the others first.  Which ones, and how   *)
(* often an element was asked for, is FrequencyCache's business.           *)
(***************************************************************************)
EXTENDS Naturals, FiniteSets

CONSTANTS Keys, Values, PurgeLimit, PurgeCount

VARIABLE elements

Smaller(a, b) == IF a <= b THEN a ELSE b

\* The sets of count elements, or of all if there are fewer.
Victims(count) ==
  {lost \in SUBSET DOMAIN elements :
     Cardinality(lost) = Smaller(count, Cardinality(DOMAIN elements))}

Without(lost) == [k \in (DOMAIN elements) \ lost |-> elements[k]]

Init == elements = [k \in {} |-> k]

Replace(k, v) ==
  /\ k \in DOMAIN elements
  /\ elements' = [elements EXCEPT ![k] = v]

Insert(k, v) ==
  /\ k \notin DOMAIN elements
  /\ \E lost \in Victims(IF Cardinality(DOMAIN elements) >= PurgeLimit THEN PurgeCount ELSE 0) :
       elements' = [j \in DOMAIN Without(lost) \cup {k} |->
                      IF j = k THEN v ELSE elements[j]]

Add(k, v) == Replace(k, v) \/ Insert(k, v)

Remove(k) ==
  /\ k \in DOMAIN elements
  /\ elements' = Without({k})

Purge(count) == \E lost \in Victims(count) : elements' = Without(lost)

Clear == elements' = Without(DOMAIN elements)

Next ==
  \/ \E k \in Keys, v \in Values : Add(k, v)
  \/ \E k \in Keys : Remove(k)
  \/ \E count \in 0 .. PurgeLimit : Purge(count)
  \/ Clear

Spec == Init /\ [][Next]_elements
=============================================================================
