----------------------------- MODULE MCListings -----------------------------
(* A small instance of Listings for TLC: two handlers, a user and an       *)
(* administrator, five names of records, two teams; and the commands that  *)
(* come together.                                                          *)
EXTENDS Listings, TLC

CONSTANTS ann, adm, n1, n2, n3, n4, n5, t1, t2, h1, h2, none, short, long

TwoHandlers == {h1, h2}
AllInteractions == TwoHandlers \X {"command", "second"}
AnnThenAdm == <<ann, adm>>
BothUsers == {ann, adm}
FiveNames == {n1, n2, n3, n4, n5}
TwoTeams == <<t1, t2>>

\* Of two descriptions one makes a text that no page can hold.
TwoDescriptions == {short, long}
Sizes == [d \in {none, short, long} |-> CASE d = none -> 2 [] d = short -> 4 [] OTHER -> 10]
ListSizes == [k \in {"show", "show_cooldowns"} |-> IF k = "show" THEN 2 ELSE 4]

\* As the program starts, there are two pages of ann's records, and another
\* description may make them three; the administrator's cannot be displayed.
StoredAtStart ==
  <<[name |-> n1, user |-> ann, desc |-> none],
    [name |-> n2, user |-> ann, desc |-> short],
    [name |-> n3, user |-> ann, desc |-> short],
    [name |-> n4, user |-> ann, desc |-> none],
    [name |-> n5, user |-> adm, desc |-> long]>>

Record(kind, user, owner, name, desc) ==
  [kind |-> kind, user |-> user, owner |-> owner, name |-> name, description |-> desc]

OfTeam(kind, user, name, minutes, seconds) ==
  [kind |-> kind, user |-> user, name |-> name, minutes |-> minutes,
   seconds |-> seconds]

FirstAndSecond(a, b) == [h \in TwoHandlers |-> IF h = h1 THEN a ELSE b]

ShowAllRecords == {Record("show_all", ann, ann, n1, none)}
ShowRecords(user) == {Record("show_user", adm, user, n1, none)}

\* A record gets a description, or none, by its owner or by the administrator.
Describing ==
  {Record("description", adm, ann, n1, short), Record("description", ann, ann, n1, none)}

\* ann deletes a record and inserts it again, with a form or with a file.
Deleting == {Record("delete", ann, ann, n1, none)}
ByForm == {Record("text", ann, ann, n1, short)}
ByFile == {Record("file", ann, ann, n1, none)}

TeamShows ==
  {OfTeam("show", ann, NoTeam, 0, 0), OfTeam("show_cooldowns", ann, NoTeam, 0, 0)}

\* Cooldowns at the ends of the ranges and beyond them.
Cooldowns ==
  {OfTeam("cooldown", ann, NoTeam, 5, 59), OfTeam("cooldown", ann, t1, 0, 1)}

WrongCooldowns ==
  {OfTeam("cooldown", adm, t1, 5, 60), OfTeam("cooldown", adm, t2, 6, 0),
   OfTeam("cooldown", adm, NoTeam, 0, 59)}

AllRecordCommands ==
  ShowAllRecords \cup ShowRecords(ann) \cup ShowRecords(adm) \cup Describing \cup Deleting
    \cup ByForm \cup ByFile
AllTeamCommands == TeamShows \cup Cooldowns \cup WrongCooldowns
AllWorkloads ==
  {FirstAndSecond(ShowAllRecords \cup ShowRecords(ann), Describing),
   FirstAndSecond(ShowAllRecords, Deleting), FirstAndSecond(ShowRecords(adm), {}),
   FirstAndSecond(Deleting \cup ByFile, ByForm), FirstAndSecond(TeamShows, {}),
   FirstAndSecond(Cooldowns, WrongCooldowns)}
=============================================================================
