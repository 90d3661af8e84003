-------------------------- MODULE MCStatementStore --------------------------
(* A small instance of StatementStore for TLC: three owners of one or two  *)
(* statements each are enough for a freed key to be rotated through the    *)
(* queue, reused, and freed again by its second owner.                     *)
EXTENDS StatementStore

CONSTANTS o1, o2, o3, o4

FourOwners == {o1, o2, o3, o4}

\* o1 and o2 are texts of two statements (a partial save), o3 and o4 of one.
Lengths == [o \in FourOwners |-> IF o \in {o1, o2} THEN 2 ELSE 1]
=============================================================================
