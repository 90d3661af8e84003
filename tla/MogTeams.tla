------------------------------ MODULE MogTeams ------------------------------
(***************************************************************************)
(* The /mog team commands (commands/slash/mog/team.cpp): the teams of a    *)
(* guild and their members are kept twice, in the tables mog_team and      *)
(* mog_team_member and in the map teams_data_cache, which the commands     *)
(* consult and change beside the tables.                                   *)
(*                                                                         *)
(* A command is a coroutine.  It waits for Discord before its body (the    *)
(* "thinking" answer) and, in leave_and_join, once more between leaving    *)
(* and joining; between two waits it has a thread of the library.  How     *)
(* many threads resume coroutines at the same time is the library's        *)
(* business: the constant Threads.  teams_mutex makes each access to the   *)
(* map one step; binding the parameters of a shared prepared statement and *)
(* executing it are separate calls.                                        *)
(*                                                                         *)
(* One guild is modelled; channel, role and cooldown of the records are    *)
(* left out, and so is show, which changes nothing.                        *)
(***************************************************************************)
EXTENDS Naturals, FiniteSets

CONSTANTS
  Handlers,          \* the commands that may be in progress together
  Teams,             \* valid names of teams
  NoTeam,            \* an empty or over-long name, a parameter left out
  Users,
  Requests,          \* the commands that are given
  Threads,           \* how many threads of the library resume coroutines
  LoadMayFail        \* whether the SELECTs of load_teams may fail

Operations == {"create", "del", "join", "leave"}
Kinds == Operations \cup {"leave_and_join"}

\* name: the parameter name, for leave_and_join team_to_join; left: the
\* parameter team_to_leave; entitled: the caller is an administrator, or acts
\* for himself where that is enough.
Request ==
  {r \in [kind : Kinds, name : Teams \cup {NoTeam}, left : Teams \cup {NoTeam},
          user : Users, entitled : BOOLEAN] :
     r.kind # "leave_and_join" => r.left = NoTeam}

ASSUME TeamsAssumption ==
  /\ IsFiniteSet(Handlers)
  /\ NoTeam \notin Teams
  /\ Requests \subseteq Request
  /\ Threads \in Nat \ {0}
  /\ LoadMayFail \in BOOLEAN

VARIABLES
  mog_team,          \* the rows of the table of the same name
  mog_team_member,   \* the rows <<team, user>> of the other table
  teams_data_cache,  \* from names to the set of users_id_cd
  bound,             \* what is bound to the statement of each operation
  loaded,            \* load_teams read every row
  pc,                \* where each command is
  op,                \* the operation it is in
  request            \* its parameters

tables == <<mog_team, mog_team_member>>
vars == <<mog_team, mog_team_member, teams_data_cache, bound, loaded, pc, op,
          request>>

NoRequest ==
  [kind |-> "none", name |-> NoTeam, left |-> NoTeam, user |-> "none",
   entitled |-> FALSE]

\* A prepared statement starts with NULL for every parameter.
Unbound == [o \in Operations |-> [name |-> NoTeam, user |-> "none"]]

\* The name the operation at hand works on.
Name(h) ==
  IF op[h] = "leave" /\ request[h].kind = "leave_and_join"
    THEN request[h].left
    ELSE request[h].name

User(h) == request[h].user

OnThread(h) == pc[h] \notin {"idle", "waiting"}

\* Between its waits a command has a thread to itself.
Quiet == \A h \in Handlers : ~ OnThread(h)

CachedMembers == {m \in (DOMAIN teams_data_cache) \X Users :
                    m[2] \in teams_data_cache[m[1]]}

Init ==
  /\ mog_team = {}
  /\ mog_team_member = {}
  /\ teams_data_cache = [t \in {} |-> {}]
  /\ bound = Unbound
  /\ loaded = TRUE
  /\ pc = [h \in Handlers |-> "idle"]
  /\ op = [h \in Handlers |-> "none"]
  /\ request = [h \in Handlers |-> NoRequest]

-----------------------------------------------------------------------------
Goto(h, place) ==
  /\ pc' = [pc EXCEPT ![h] = place]
  /\ UNCHANGED <<op, request>>

\* co_respond and the end of the command.
Finish(h) ==
  /\ pc' = [pc EXCEPT ![h] = "idle"]
  /\ op' = [op EXCEPT ![h] = "none"]
  /\ request' = [request EXCEPT ![h] = NoRequest]

\* mog::command: the checks of the event, then co_think.
Receive(h) ==
  /\ pc[h] = "idle"
  /\ \E r \in Requests :
       /\ request' = [request EXCEPT ![h] = r]
       /\ op' = [op EXCEPT ![h] = r.kind]
  /\ pc' = [pc EXCEPT ![h] = "waiting"]
  /\ UNCHANGED <<tables, teams_data_cache, bound, loaded>>

\* What was awaited has arrived: the command goes on or, when it was an error,
\* ends.  A join after a leave goes on in either case.
Resume(h) ==
  /\ pc[h] = "waiting"
  /\ Cardinality({g \in Handlers : OnThread(g)}) < Threads
  /\ \/ Goto(h, "check")
     \/ op[h] = request[h].kind /\ Finish(h)
  /\ UNCHANGED <<tables, teams_data_cache, bound, loaded>>

-----------------------------------------------------------------------------
(* The checks before the database is touched.                              *)

\* leave_and_join: a user of no team only joins.
ChooseLeaveOrJoin(h) ==
  /\ pc[h] = "check"
  /\ op[h] = "leave_and_join"
  /\ LET r == request[h]
         member == \E t \in DOMAIN teams_data_cache : r.user \in teams_data_cache[t]
     IN IF r.entitled /\ ~ (member /\ r.name = r.left)
          THEN /\ op' = [op EXCEPT ![h] = IF member THEN "leave" ELSE "join"]
               /\ UNCHANGED <<pc, request>>
          ELSE Finish(h)
  /\ UNCHANGED <<tables, teams_data_cache, bound, loaded>>

CheckCreateOrDel(h) ==
  /\ pc[h] = "check"
  /\ op[h] \in {"create", "del"}
  /\ IF request[h].entitled /\ Name(h) # NoTeam
       THEN Goto(h, "bind_name")
       ELSE Finish(h)
  /\ UNCHANGED <<tables, teams_data_cache, bound, loaded>>

\* is_team_present.
CheckTeam(h) ==
  /\ pc[h] = "check"
  /\ op[h] \in {"join", "leave"}
  /\ IF request[h].entitled /\ Name(h) \in DOMAIN teams_data_cache
       THEN Goto(h, "check_user")
       ELSE Finish(h)
  /\ UNCHANGED <<tables, teams_data_cache, bound, loaded>>

\* is_user_in_team.
CheckUser(h) ==
  /\ pc[h] = "check_user"
  /\ LET member == /\ Name(h) \in DOMAIN teams_data_cache
                   /\ User(h) \in teams_data_cache[Name(h)]
     IN IF member <=> op[h] = "leave"
          THEN Goto(h, "bind_name")
          ELSE Finish(h)
  /\ UNCHANGED <<tables, teams_data_cache, bound, loaded>>

-----------------------------------------------------------------------------
(* bind_parameter, exec, and the same change made to the map.              *)

BindName(h) ==
  /\ pc[h] = "bind_name"
  /\ bound' = [bound EXCEPT ![op[h]].name = Name(h)]
  /\ Goto(h, IF op[h] \in {"join", "leave"} THEN "bind_user" ELSE "exec")
  /\ UNCHANGED <<tables, teams_data_cache, loaded>>

\* Mutant: the user is bound the first time only.
BindUserOnce(h) ==
  /\ pc[h] = "bind_user"
  /\ bound' = IF bound[op[h]].user \in Users
                THEN bound
                ELSE [bound EXCEPT ![op[h]].user = User(h)]
  /\ Goto(h, "exec")
  /\ UNCHANGED <<tables, teams_data_cache, loaded>>

BindUser(h) ==
  /\ pc[h] = "bind_user"
  /\ bound' = [bound EXCEPT ![op[h]].user = User(h)]
  /\ Goto(h, "exec")
  /\ UNCHANGED <<tables, teams_data_cache, loaded>>

\* What the four statements do with the values bound to them; each returns a
\* row exactly when it changed one.  mog_team_member refers to mog_team and
\* loses its rows with the team (ON DELETE CASCADE).
InsertTeam(b) ==
  /\ b.name \in Teams \ mog_team
  /\ mog_team' = mog_team \cup {b.name}
  /\ UNCHANGED mog_team_member

\* Mutant: without PRAGMA foreign_keys.
DeleteTeamOnly(b) ==
  /\ b.name \in mog_team
  /\ mog_team' = mog_team \ {b.name}
  /\ UNCHANGED mog_team_member

DeleteTeam(b) ==
  /\ b.name \in mog_team
  /\ mog_team' = mog_team \ {b.name}
  /\ mog_team_member' = {m \in mog_team_member : m[1] # b.name}

InsertMember(b) ==
  /\ b.name \in mog_team
  /\ b.user \in Users
  /\ <<b.name, b.user>> \notin mog_team_member
  /\ mog_team_member' = mog_team_member \cup {<<b.name, b.user>>}
  /\ UNCHANGED mog_team

DeleteMember(b) ==
  /\ <<b.name, b.user>> \in mog_team_member
  /\ mog_team_member' = mog_team_member \ {<<b.name, b.user>>}
  /\ UNCHANGED mog_team

\* Mutant: the result of exec is not looked at.
ExecUnchecked(h) ==
  /\ pc[h] = "exec"
  /\ LET b == bound[op[h]]
     IN \/ op[h] = "create" /\ InsertTeam(b)
        \/ op[h] = "del" /\ DeleteTeam(b)
        \/ op[h] = "join" /\ InsertMember(b)
        \/ op[h] = "leave" /\ DeleteMember(b)
        \/ UNCHANGED tables
  /\ Goto(h, "apply")
  /\ UNCHANGED <<teams_data_cache, bound, loaded>>

\* exec may also fail, as a bind may, and change nothing: the command ends.
Exec(h) ==
  /\ pc[h] = "exec"
  /\ LET b == bound[op[h]]
     IN \/ op[h] = "create" /\ InsertTeam(b) /\ Goto(h, "apply")
        \/ op[h] = "del" /\ DeleteTeam(b) /\ Goto(h, "apply")
        \/ op[h] = "join" /\ InsertMember(b) /\ Goto(h, "apply")
        \/ op[h] = "leave" /\ DeleteMember(b) /\ Goto(h, "apply")
        \/ UNCHANGED tables /\ Finish(h)
  /\ UNCHANGED <<teams_data_cache, bound, loaded>>

\* set_team, delete_team, add_user_to_team, remove_user_from_team.
SetTeam(n) ==
  [t \in (DOMAIN teams_data_cache) \cup {n} |->
     IF t = n THEN {} ELSE teams_data_cache[t]]

CacheWithoutTeam(n) ==
  [t \in (DOMAIN teams_data_cache) \ {n} |-> teams_data_cache[t]]

\* A team that is not in the map is left alone.
WithUsers(n, users) ==
  [t \in DOMAIN teams_data_cache |-> IF t = n THEN users ELSE teams_data_cache[t]]

AppliedCache(h) ==
  LET n == Name(h)
      users == IF n \in DOMAIN teams_data_cache THEN teams_data_cache[n] ELSE {}
  IN CASE op[h] = "create" -> SetTeam(n)
       [] op[h] = "del"    -> CacheWithoutTeam(n)
       [] op[h] = "join"   -> WithUsers(n, users \cup {User(h)})
       [] op[h] = "leave"  -> WithUsers(n, users \ {User(h)})

\* The map follows; a successful leave of leave_and_join answers Discord,
\* waits, and goes on as a join.
Apply(h) ==
  /\ pc[h] = "apply"
  /\ teams_data_cache' = AppliedCache(h)
  /\ IF op[h] = "leave" /\ request[h].kind = "leave_and_join"
       THEN /\ pc' = [pc EXCEPT ![h] = "waiting"]
            /\ op' = [op EXCEPT ![h] = "join"]
            /\ UNCHANGED request
       ELSE Finish(h)
  /\ UNCHANGED <<tables, bound, loaded>>

-----------------------------------------------------------------------------
(* The process ends at any moment and starts again: the constructor of     *)
(* mog::team prepares the statements and load_teams fills the map.  When a *)
(* SELECT fails, the rows read until then are used all the same.           *)

\* Mutant: load_teams forgets the members.
LoadTeamsOnly(teams, members) == [t \in teams |-> {}]

LoadTeams(teams, members) == [t \in teams |-> {u \in Users : <<t, u>> \in members}]

Restart ==
  /\ \E teams \in SUBSET mog_team, members \in SUBSET mog_team_member :
       /\ teams # mog_team => members = {}
       /\ LoadMayFail \/ <<teams, members>> = tables
       /\ teams_data_cache' = LoadTeams(teams, members)
       /\ loaded' = (<<teams, members>> = tables)
  /\ bound' = Unbound
  /\ pc' = [h \in Handlers |-> "idle"]
  /\ op' = [h \in Handlers |-> "none"]
  /\ request' = [h \in Handlers |-> NoRequest]
  /\ UNCHANGED tables

Step(h) ==
  \/ Receive(h) \/ Resume(h) \/ ChooseLeaveOrJoin(h) \/ CheckCreateOrDel(h)
  \/ CheckTeam(h) \/ CheckUser(h) \/ BindName(h) \/ BindUser(h) \/ Exec(h)
  \/ Apply(h)

Next == Restart \/ \E h \in Handlers : Step(h)

Spec == Init /\ [][Next]_vars

-----------------------------------------------------------------------------
\* The tables hold rows, the map maps names to users, the commands are somewhere.
TypeOK ==
  /\ mog_team \subseteq Teams
  /\ mog_team_member \subseteq mog_team \X Users
  /\ DOMAIN teams_data_cache \subseteq Teams
  /\ teams_data_cache \in [DOMAIN teams_data_cache -> SUBSET Users]
  /\ bound \in [Operations -> [name : Teams \cup {NoTeam}, user : Users \cup {"none"}]]
  /\ loaded \in BOOLEAN
  /\ pc \in [Handlers -> {"idle", "waiting", "check", "check_user", "bind_name",
                          "bind_user", "exec", "apply"}]
  /\ op \in [Handlers -> Kinds \cup {"none"}]
  /\ request \in [Handlers -> Requests \cup {NoRequest}]

\* "Team data will be stored in the bot's database for persistence": while no
\* command is between two of its waits, every team and every member the
\* commands find in the map is a row of the tables, also after failed
\* statements, restarts and loads that failed halfway.
CacheIsPersisted ==
  Quiet => /\ DOMAIN teams_data_cache \subseteq mog_team
           /\ CachedMembers \subseteq mog_team_member

\* The other direction: unless load_teams failed, nothing that the tables hold
\* is hidden from the commands, so that no team exists that cannot be joined
\* although its name is taken.
CacheIsComplete ==
  Quiet /\ loaded => /\ mog_team \subseteq DOMAIN teams_data_cache
                     /\ mog_team_member \subseteq CachedMembers

\* Nobody loses a membership but by a leave of that user from that team, or
\* with the team itself: the values bound to the shared statement are still
\* those of the command that executes it.
OnlyAskedRemovals ==
  [][\A m \in mog_team_member \ mog_team_member' :
       \E h \in Handlers :
         /\ pc[h] = "exec"
         /\ \/ op[h] = "del" /\ Name(h) = m[1]
            \/ op[h] = "leave" /\ Name(h) = m[1] /\ User(h) = m[2]]_vars
=============================================================================
