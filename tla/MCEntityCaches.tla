--------------------------- MODULE MCEntityCaches ---------------------------
(* Small instances of EntityCaches for TLC: one role besides the one of    *)
(* all, one of another guild, and the flag of the administrator beside an  *)
(* ordinary one.                                                           *)
EXTENDS EntityCaches, TLC

CONSTANTS h1, guild, channel, member, somebody, everyone, r1, o1, admin, send

TwoFlags == {admin, send}

Overwriting(d, a) == [deny |-> d, allow |-> a]

\* The role of all is denied to send, the role allowed, the member denied.
TheChannel ==
  [x \in {everyone, r1, member} |->
     IF x = r1 THEN Overwriting({}, {send}) ELSE Overwriting({send}, {})]

SmallContents ==
  [k \in Entities \cup OtherRoles |->
     CASE k = guild -> {member, somebody}
       [] k = channel -> {TheChannel}
       [] k = member -> {{}, {r1}}
       [] k = everyone -> {{send}}
       [] k = r1 -> {{}, {admin}}
       [] OTHER -> {{}}]
=============================================================================
