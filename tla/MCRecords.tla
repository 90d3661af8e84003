----------------------------- MODULE MCRecords -----------------------------
(* Small instances of Records for TLC: one guild with an nsfw channel and  *)
(* another one, two users, and the commands each run is about.             *)
EXTENDS Records, TLC

CONSTANTS ann, bob, g1, g2, n1, n2, safe, adult, h1, h2

TwoHandlers == {h1, h2}
TwoUsers == {ann, bob}
TwoGuilds == {g1, g2}
TwoNames == {n1, n2}
TwoChannels == {safe, adult}
AdultChannel == {adult}
ThreeIds == 1 .. 3

Ask(kind, user, name, owner) ==
  [kind |-> kind, user |-> user, guild |-> g1, channel |-> safe, name |-> name,
   owner |-> owner, nsfw |-> FALSE, dump |-> adult]

\* Both users insert under one name; bob deletes his record of that name, or all.
InsertsAndDeletes ==
  {Ask("text", ann, n1, ann), Ask("file", bob, n1, bob),
   Ask("single", bob, n1, bob), Ask("guild", bob, n1, bob)}

\* ann's records in both guilds, three in one channel and one in another; she
\* deletes them, or bob does where he is an administrator.
ManyRecords ==
  {Ask("url", ann, n1, ann), Ask("url", ann, n2, ann),
   [Ask("url", ann, n1, ann) EXCEPT !.guild = g2],
   [Ask("url", ann, n2, ann) EXCEPT !.guild = g2, !.channel = adult],
   Ask("user", bob, n1, ann), Ask("self", ann, n1, ann)}

Configured == {Ask("config", bob, n1, bob)}

\* A record is tagged while somebody reads it.
TaggedRecord ==
  {Ask("url", ann, n1, ann), [Ask("nsfw", ann, n1, ann) EXCEPT !.nsfw = TRUE],
   Ask("select", bob, n1, bob)}

AllRequests == InsertsAndDeletes \cup ManyRecords \cup TaggedRecord \cup Configured

OfBoth(commands) ==
  [commands |-> [h \in TwoHandlers |-> commands], ids |-> {1, 2}]

OfOne(commands) ==
  [commands |-> [h \in TwoHandlers |-> IF h = h1 THEN commands ELSE {}],
   ids |-> ThreeIds]

RacesAndCleanup ==
  {OfBoth(InsertsAndDeletes), OfOne(ManyRecords), OfOne(TaggedRecord \cup Configured)}
TaggedWhileRead == {OfBoth(TaggedRecord)}
=============================================================================
