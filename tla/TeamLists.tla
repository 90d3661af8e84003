----------------------------- MODULE TeamLists -----------------------------
(***************************************************************************)
(* The /mog commands about cooldowns and lists: arma cooldown and arma     *)
(* show_cooldowns (commands/slash/mog/arma.cpp) and team show              *)
(* (commands/slash/mog/team.cpp).  They use the map teams_data_cache, that *)
(* the other commands change (see MogTeams, whose steps on the map are     *)
(* repeated here), and which alone knows the cooldowns: a restart forgets  *)
(* them.  A cooldown is the time it lasts from when the command was given. *)
(***************************************************************************)
EXTENDS Commands, FiniteSetsExt

CONSTANTS
  Members,           \* the users
  TeamOrder,         \* the names of teams, as the map is iterated
  NoTeam,            \* the parameter name is left out
  HeadSize,          \* the size of a team's text: what precedes the members,
  MemberSize,        \* and each member, by the kind of list
  ReplyLimit,        \* get_max_characters_reply_msg: 2000
  TeamRequests       \* the /mog commands that are given

Teams == ToSet(TeamOrder)
Lists == {"show", "show_cooldowns"}

TeamRequest ==
  [kind : Lists \cup {"cooldown"}, user : Members, name : Teams \cup {NoTeam},
   minutes : Int, seconds : Int]

ASSUME TeamListsAssumption ==
  /\ TeamOrder \in Seq(Teams)
  /\ NoTeam \notin Teams /\ IsFiniteSet(Teams)
  /\ HeadSize \in Nat
  /\ MemberSize \in [Lists -> Nat]
  /\ ReplyLimit \in Nat
  /\ TeamRequests \subseteq TeamRequest

VARIABLE
  teams              \* teams_data_cache: from teams to members to cooldowns

Bound(min, max) == [min |-> min, max |-> max]
arma_cd_minutes == Bound(0, 5)
arma_cd_seconds == Bound(0, 59)
Within(n, b) == n >= b.min /\ n <= b.max

NoCooldown == 0
Uncooled(users) == [u \in users |-> NoCooldown]

TeamsOf(u) == {t \in DOMAIN teams : u \in DOMAIN teams[t]}

TeamsInit == teams = [t \in {} |-> {}]

\* Discord keeps to the ranges that the options were registered with.
OptionsAllow(r) ==
  r.kind = "cooldown" =>
    Within(r.minutes, arma_cd_minutes) /\ Within(r.seconds, arma_cd_seconds)

-----------------------------------------------------------------------------
(* team show and arma show_cooldowns                                       *)

\* get_teams, or get_team if a name is given.
Asked(r) == Selection(TeamOrder, {t \in DOMAIN teams : r.name \in {NoTeam, t}})

\* to_string, to_string_no_cd.
TeamText(r, t) ==
  [of |-> [team |-> t, members |-> teams[t]],
   size |-> HeadSize + Cardinality(DOMAIN teams[t]) * MemberSize[r.kind]]

TotalSize(texts) == Total([n \in DOMAIN texts |-> texts[n].size])

\* One message holds the texts, or there is a list.
ShowTeams(h) ==
  LET r == run[h].req
      asked == Asked(r)
      texts == [n \in DOMAIN asked |-> TeamText(r, asked[n])]
  IN /\ At(h, "ready", Lists)
     /\ IF TotalSize(texts) > ReplyLimit
          THEN Do(h, [run[h] EXCEPT !.step = "many", !.rows = texts])
          ELSE Close(h, "command")
     /\ UNCHANGED <<teams, replies, list>>

\* "Proceeding with pagination..."
PaginateTeams(h) ==
  /\ At(h, "many", Lists)
  /\ Respond(Command(h), Text)
  /\ StartList(h, run[h].rows)
  /\ Do(h, Idle)
  /\ UNCHANGED teams

-----------------------------------------------------------------------------
(* arma cooldown                                                           *)

\* Mutant: a user of several teams need not name one.
AnyTeam(r) == IF r.name = NoTeam THEN TeamsOf(r.user) ELSE {r.name} \cap DOMAIN teams

\* teams_with_user, is_user_in_team, get_team: the teams that the command may
\* mean.  A name is needed from the second team on.
MeantTeams(r) ==
  LET mine == TeamsOf(r.user)
  IN IF Cardinality(mine) > 1 /\ r.name \notin mine THEN {}
     ELSE IF mine = {} \/ r.name = NoTeam THEN mine
     ELSE {r.name} \cap DOMAIN teams

\* Both checks look at the minutes.
TimesAccepted(r) ==
  Within(r.minutes, arma_cd_minutes) /\ Within(r.minutes, arma_cd_seconds)

\* set_user_cooldown.
WithCooldown(t, u, cd) == [teams EXCEPT ![t][u] = cd]

\* Refuse is the command's other end.
SetCooldown(h) ==
  LET r == run[h].req
  IN /\ At(h, "ready", {"cooldown"})
     /\ TimesAccepted(r)
     /\ \E t \in MeantTeams(r) :
          /\ r.user \in DOMAIN teams[t]
          /\ teams' = WithCooldown(t, r.user, r.seconds + r.minutes * 60)
     /\ Close(h, "command")
     /\ UNCHANGED <<replies, list>>

TeamCommandContinues(h) == ShowTeams(h) \/ PaginateTeams(h) \/ SetCooldown(h)

-----------------------------------------------------------------------------
(* What other commands do to the map, and the load of a new process.       *)

CreateTeam ==
  \E t \in Teams \ DOMAIN teams :
    teams' = [s \in (DOMAIN teams) \cup {t} |-> IF s = t THEN Uncooled({}) ELSE teams[s]]

DeleteTeam ==
  \E t \in DOMAIN teams : teams' = [s \in (DOMAIN teams) \ {t} |-> teams[s]]

WithMembers(t, users) ==
  [teams EXCEPT ![t] =
     [u \in users |-> IF u \in DOMAIN teams[t] THEN teams[t][u] ELSE NoCooldown]]

AddUser ==
  \E t \in DOMAIN teams, u \in Members :
    /\ u \notin DOMAIN teams[t]
    /\ teams' = WithMembers(t, (DOMAIN teams[t]) \cup {u})

RemoveUser ==
  \E t \in DOMAIN teams, u \in Members :
    /\ u \in DOMAIN teams[t]
    /\ teams' = WithMembers(t, (DOMAIN teams[t]) \ {u})

ChangeTeams == CreateTeam \/ DeleteTeam \/ AddUser \/ RemoveUser

RestartTeams == teams' = [t \in DOMAIN teams |-> Uncooled(DOMAIN teams[t])]
=============================================================================
