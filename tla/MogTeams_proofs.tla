--------------------------- MODULE MogTeams_proofs ---------------------------
(***************************************************************************)
(* Proofs about MogTeams, for any number of commands, teams and users.     *)
(*                                                                         *)
(* The types are kept whatever the library's threads do.  That the map     *)
(* agrees with the tables, and that a statement removes only what its      *)
(* command asked for, needs Threads = 1: the values bound to a shared      *)
(* statement are then those of the one command that is between two waits.  *)
(***************************************************************************)
EXTENDS MogTeams, FiniteSetTheorems, TLAPS

Members(c) == {m \in (DOMAIN c) \X Users : m[2] \in c[m[1]]}

\* A map that shows nothing but these teams and members, and all of them if it was
\* loaded.
Shows(c, teams, members, complete) ==
  /\ DOMAIN c \subseteq teams
  /\ Members(c) \subseteq members
  /\ complete => teams \subseteq DOMAIN c /\ members \subseteq Members(c)

Agrees(c) == Shows(c, mog_team, mog_team_member, loaded)

\* What each place says about the operation and its parameters.
PlaceOK(h) ==
  /\ pc[h] \in {"check_user", "bind_user"} => op[h] \in {"join", "leave"}
  /\ pc[h] \in {"check_user", "bind_name", "bind_user", "exec", "apply"} =>
       op[h] \in Operations /\ Name(h) \in Teams /\ User(h) \in Users
  /\ pc[h] # "idle" => request[h] \in Requests

\* What is bound when a command executes its statement.
BoundOK(h) ==
  /\ pc[h] \in {"bind_user", "exec"} => bound[op[h]].name = Name(h)
  /\ pc[h] = "exec" /\ op[h] \in {"join", "leave"} => bound[op[h]].user = User(h)

Alone == \A g, h \in Handlers : OnThread(g) /\ OnThread(h) => g = h

\* The map, or the map as the command that executed its statement leaves it.
MapOK ==
  /\ \A h \in Handlers : pc[h] = "apply" => Agrees(AppliedCache(h))
  /\ (\A h \in Handlers : pc[h] # "apply") => Agrees(teams_data_cache)

Types == TypeOK /\ \A h \in Handlers : PlaceOK(h)

Inv == Types /\ Alone /\ MapOK /\ \A h \in Handlers : BoundOK(h)

-----------------------------------------------------------------------------
(* The types.                                                              *)

LEMMA OthersStay ==
  ASSUME TypeOK, NEW h \in Handlers, Step(h), NEW g \in Handlers, g # h
  PROVE  pc'[g] = pc[g] /\ op'[g] = op[g] /\ request'[g] = request[g]
BY DEF TypeOK, Step, Receive, Resume, ChooseLeaveOrJoin, CheckCreateOrDel, CheckTeam,
   CheckUser, BindName, BindUser, Exec, Apply, Goto, Finish

LEMMA RequestFields ==
  ASSUME NEW r \in Requests
  PROVE  /\ r.kind \in Kinds /\ r.name \in Teams \cup {NoTeam}
         /\ r.left \in Teams \cup {NoTeam} /\ r.user \in Users
BY TeamsAssumption DEF Request

LEMMA MembersOfTeams ==
  ASSUME Types, NEW h \in Handlers, pc[h] # "idle"
  PROVE  /\ request[h] \in Requests /\ Name(h) \in Teams \cup {NoTeam} /\ User(h) \in Users
BY RequestFields DEF Types, PlaceOK, Name, User

LEMMA TypesInit == Init => Types
<1> SUFFICES ASSUME Init PROVE Types
  OBVIOUS
<1>1. teams_data_cache \in [DOMAIN teams_data_cache -> SUBSET Users]
        /\ DOMAIN teams_data_cache = {}
  BY DEF Init
<1>2. TypeOK
  BY <1>1 DEF Init, TypeOK, Unbound
<1> QED BY <1>2 DEF Init, Types, PlaceOK

\* What the statements leave in the tables.
LEMMA TablesTyped ==
  ASSUME TypeOK, NEW o \in Operations,
         \/ InsertTeam(bound[o]) \/ DeleteTeam(bound[o])
         \/ InsertMember(bound[o]) \/ DeleteMember(bound[o])
  PROVE  mog_team' \subseteq Teams /\ mog_team_member' \subseteq mog_team' \X Users
BY DEF TypeOK, InsertTeam, DeleteTeam, InsertMember, DeleteMember

\* What the commands leave in the map.
LEMMA AppliedTyped ==
  ASSUME Types, NEW h \in Handlers, pc[h] = "apply"
  PROVE  /\ DOMAIN AppliedCache(h) \subseteq Teams
         /\ AppliedCache(h) \in [DOMAIN AppliedCache(h) -> SUBSET Users]
<1> DEFINE n == Name(h)
           users == IF n \in DOMAIN teams_data_cache THEN teams_data_cache[n] ELSE {}
<1>1. op[h] \in Operations /\ n \in Teams /\ User(h) \in Users
  BY DEF Types, PlaceOK
<1>2. /\ teams_data_cache \in [DOMAIN teams_data_cache -> SUBSET Users]
      /\ DOMAIN teams_data_cache \subseteq Teams
  BY DEF Types, TypeOK
<1>3. users \in SUBSET Users
  BY <1>2
<1>4. AppliedCache(h) = CASE op[h] = "create" -> SetTeam(n)
                          [] op[h] = "del"    -> CacheWithoutTeam(n)
                          [] op[h] = "join"   -> WithUsers(n, users \cup {User(h)})
                          [] op[h] = "leave"  -> WithUsers(n, users \ {User(h)})
  BY DEF AppliedCache
<1> HIDE DEF n, users
<1>5. CASE op[h] = "create"
  BY <1>1, <1>2, <1>4, <1>5 DEF SetTeam
<1>6. CASE op[h] = "del"
  BY <1>1, <1>2, <1>4, <1>6 DEF CacheWithoutTeam
<1>7. CASE op[h] = "join"
  BY <1>1, <1>2, <1>3, <1>4, <1>7 DEF WithUsers
<1>8. CASE op[h] = "leave"
  BY <1>1, <1>2, <1>3, <1>4, <1>8 DEF WithUsers
<1> QED BY <1>1, <1>5, <1>6, <1>7, <1>8 DEF Operations

LEMMA ControlTyped ==
  ASSUME Types, NEW h \in Handlers, Step(h)
  PROVE  /\ pc' \in [Handlers -> {"idle", "waiting", "check", "check_user", "bind_name",
                                 "bind_user", "exec", "apply"}]
         /\ op' \in [Handlers -> Kinds \cup {"none"}]
         /\ request' \in [Handlers -> Requests \cup {NoRequest}]
<1> USE DEF Types, TypeOK
<1>1. CASE Receive(h)
  <2>1. PICK r \in Requests : /\ request' = [request EXCEPT ![h] = r]
                              /\ op' = [op EXCEPT ![h] = r.kind]
    BY <1>1 DEF Receive
  <2>2. r.kind \in Kinds
    BY RequestFields
  <2> QED BY <1>1, <2>1, <2>2 DEF Receive
<1>2. CASE Resume(h) \/ CheckCreateOrDel(h) \/ CheckTeam(h) \/ CheckUser(h)
  BY <1>2 DEF Resume, CheckCreateOrDel, CheckTeam, CheckUser, Goto, Finish
<1>3. CASE BindName(h) \/ BindUser(h)
  BY <1>3 DEF BindName, BindUser, Goto
<1>4. CASE Exec(h)
  BY <1>4 DEF Exec, Goto, Finish
<1>5. CASE ChooseLeaveOrJoin(h)
  <2>1. \/ /\ op' = [op EXCEPT ![h] = "leave"] \/ op' = [op EXCEPT ![h] = "join"]
           /\ UNCHANGED <<pc, request>>
        \/ Finish(h)
    BY <1>5 DEF ChooseLeaveOrJoin
  <2>2. {"leave", "join"} \subseteq Kinds
    BY DEF Kinds, Operations
  <2> QED BY <2>1, <2>2 DEF Finish
<1>6. CASE Apply(h)
  <2>1. "join" \in Kinds
    BY DEF Kinds, Operations
  <2> QED BY <1>6, <2>1 DEF Apply, Finish
<1> QED BY <1>1, <1>2, <1>3, <1>4, <1>5, <1>6 DEF Step

LEMMA TypeOKStep ==
  ASSUME Types, NEW h \in Handlers, Step(h)
  PROVE  TypeOK'
<1> USE DEF Types, TypeOK
<1>1. CASE Receive(h) \/ Resume(h) \/ ChooseLeaveOrJoin(h) \/ CheckCreateOrDel(h)
             \/ CheckTeam(h) \/ CheckUser(h)
  <2>1. UNCHANGED <<tables, teams_data_cache, bound, loaded>>
    BY <1>1 DEF Receive, Resume, ChooseLeaveOrJoin, CheckCreateOrDel, CheckTeam, CheckUser
  <2> QED BY <2>1, ControlTyped DEF tables
<1>2. CASE BindName(h) \/ BindUser(h)
  <2>1. Name(h) \in Teams \cup {NoTeam} /\ User(h) \in Users
    BY <1>2, MembersOfTeams DEF BindName, BindUser
  <2>2. bound' \in [Operations -> [name : Teams \cup {NoTeam}, user : Users \cup {"none"}]]
    BY <1>2, <2>1 DEF BindName, BindUser
  <2>3. UNCHANGED <<tables, teams_data_cache, loaded>>
    BY <1>2 DEF BindName, BindUser
  <2> QED BY <2>2, <2>3, ControlTyped DEF tables
<1>3. CASE Exec(h)
  <2>1. op[h] \in Operations /\ UNCHANGED <<teams_data_cache, bound, loaded>>
    BY <1>3 DEF Exec, PlaceOK
  <2>2. \/ InsertTeam(bound[op[h]]) \/ DeleteTeam(bound[op[h]])
        \/ InsertMember(bound[op[h]]) \/ DeleteMember(bound[op[h]])
        \/ UNCHANGED tables
    BY <1>3 DEF Exec
  <2>3. mog_team' \subseteq Teams /\ mog_team_member' \subseteq mog_team' \X Users
    BY <2>1, <2>2, TablesTyped DEF tables
  <2> QED BY <2>1, <2>3, ControlTyped
<1>4. CASE Apply(h)
  <2>1. pc[h] = "apply" /\ teams_data_cache' = AppliedCache(h) /\ UNCHANGED <<tables, bound, loaded>>
    BY <1>4 DEF Apply
  <2> QED BY <2>1, AppliedTyped, ControlTyped DEF tables
<1> QED BY <1>1, <1>2, <1>3, <1>4 DEF Step

LEMMA PlaceStep ==
  ASSUME Types, NEW h \in Handlers, Step(h)
  PROVE  PlaceOK(h)'
<1> USE DEF Types, TypeOK
<1>1. CASE Receive(h)
  <2>1. pc'[h] = "waiting" /\ request'[h] \in Requests
    BY <1>1 DEF Receive
  <2> QED BY <2>1 DEF PlaceOK
<1>2. CASE Resume(h)
  <2>1. pc'[h] = "idle" \/ (pc'[h] = "check" /\ request'[h] = request[h] /\ pc[h] = "waiting")
    BY <1>2 DEF Resume, Goto, Finish
  <2> QED BY <2>1 DEF PlaceOK
<1>3. CASE ChooseLeaveOrJoin(h)
  <2>1. \/ pc'[h] = "idle"
        \/ pc'[h] = pc[h] /\ pc[h] = "check" /\ request'[h] = request[h]
    BY <1>3 DEF ChooseLeaveOrJoin, Finish
  <2> QED BY <2>1 DEF PlaceOK
<1>4. CASE CheckCreateOrDel(h)
  <2>1. CASE Finish(h)
    BY <2>1 DEF Finish, PlaceOK
  <2>2. CASE Goto(h, "bind_name") /\ Name(h) # NoTeam
    <3>1. /\ pc'[h] = "bind_name" /\ UNCHANGED <<op, request>>
          /\ op[h] \in Operations /\ Name(h) \in Teams /\ User(h) \in Users
          /\ request[h] \in Requests
      BY <1>4, <2>2, MembersOfTeams DEF CheckCreateOrDel, Goto, Operations
    <3> QED BY <3>1 DEF PlaceOK, Name, User
  <2> QED BY <1>4, <2>1, <2>2 DEF CheckCreateOrDel
<1>5. CASE CheckTeam(h)
  <2>1. CASE Finish(h)
    BY <2>1 DEF Finish, PlaceOK
  <2>2. CASE Goto(h, "check_user") /\ Name(h) \in DOMAIN teams_data_cache
    <3>1. /\ pc'[h] = "check_user" /\ UNCHANGED <<op, request>>
          /\ op[h] \in {"join", "leave"} /\ Name(h) \in Teams /\ User(h) \in Users
          /\ request[h] \in Requests
      BY <1>5, <2>2, MembersOfTeams DEF CheckTeam, Goto
    <3> QED BY <3>1 DEF PlaceOK, Name, User, Operations
  <2> QED BY <1>5, <2>1, <2>2 DEF CheckTeam
<1>6. CASE Finish(h)
  BY <1>6 DEF Finish, PlaceOK
<1>7. CASE CheckUser(h) /\ Goto(h, "bind_name")
  <2>1. pc[h] = "check_user" /\ pc'[h] = "bind_name" /\ UNCHANGED <<op, request>>
    BY <1>7 DEF CheckUser, Goto
  <2> QED BY <2>1 DEF PlaceOK, Name, User
<1>8. CASE BindName(h)
  <2>1. /\ pc[h] = "bind_name" /\ UNCHANGED <<op, request>>
        /\ pc'[h] = IF op[h] \in {"join", "leave"} THEN "bind_user" ELSE "exec"
    BY <1>8 DEF BindName, Goto
  <2> QED BY <2>1 DEF PlaceOK, Name, User
<1>9. CASE BindUser(h)
  <2>1. pc[h] = "bind_user" /\ pc'[h] = "exec" /\ UNCHANGED <<op, request>>
    BY <1>9 DEF BindUser, Goto
  <2> QED BY <2>1 DEF PlaceOK, Name, User
<1>10. CASE Exec(h) /\ Goto(h, "apply")
  <2>1. pc[h] = "exec" /\ pc'[h] = "apply" /\ UNCHANGED <<op, request>>
    BY <1>10 DEF Exec, Goto
  <2> QED BY <2>1 DEF PlaceOK, Name, User
<1>11. CASE Apply(h)
  <2>1. \/ pc'[h] = "idle"
        \/ pc'[h] = "waiting" /\ pc[h] = "apply" /\ request'[h] = request[h]
    BY <1>11 DEF Apply, Finish
  <2> QED BY <2>1 DEF PlaceOK
<1>12. CheckUser(h) => Goto(h, "bind_name") \/ Finish(h)
  BY DEF CheckUser
<1>13. Exec(h) => Goto(h, "apply") \/ Finish(h)
  BY DEF Exec
<1> QED BY <1>1, <1>2, <1>3, <1>4, <1>5, <1>6, <1>7, <1>8, <1>9, <1>10, <1>11, <1>12, <1>13
        DEF Step

LEMMA RestartTypes ==
  ASSUME Types, Restart
  PROVE  Types'
<1> USE DEF Types, TypeOK
<1>1. PICK teams \in SUBSET mog_team, members \in SUBSET mog_team_member :
        /\ teams_data_cache' = LoadTeams(teams, members)
        /\ loaded' = (<<teams, members>> = tables)
  BY DEF Restart
<1>2. /\ teams_data_cache' \in [DOMAIN teams_data_cache' -> SUBSET Users]
      /\ DOMAIN teams_data_cache' \subseteq Teams
  BY <1>1 DEF LoadTeams
<1>3. loaded' \in BOOLEAN
  BY <1>1, Zenon
<1>4. bound' \in [Operations -> [name : Teams \cup {NoTeam}, user : Users \cup {"none"}]]
  BY DEF Restart, Unbound
<1>5. /\ pc' = [h \in Handlers |-> "idle"] /\ op' = [h \in Handlers |-> "none"]
      /\ request' = [h \in Handlers |-> NoRequest] /\ UNCHANGED tables
  BY DEF Restart
<1>6. TypeOK'
  BY <1>2, <1>3, <1>4, <1>5 DEF tables
<1> QED BY <1>5, <1>6 DEF PlaceOK

LEMMA TypesStep == Types /\ [Next]_vars => Types'
<1> SUFFICES ASSUME Types, [Next]_vars PROVE Types'
  OBVIOUS
<1>1. ASSUME NEW h \in Handlers, Step(h) PROVE Types'
  <2>1. ASSUME NEW g \in Handlers PROVE PlaceOK(g)'
    <3>1. CASE g = h
      BY <1>1, <3>1, PlaceStep
    <3>2. CASE g # h
      <4>1. pc'[g] = pc[g] /\ op'[g] = op[g] /\ request'[g] = request[g]
        BY <1>1, <3>2, OthersStay DEF Types
      <4> QED BY <4>1 DEF Types, PlaceOK, Name, User
    <3> QED BY <3>1, <3>2
  <2> QED BY <1>1, <2>1, TypeOKStep DEF Types
<1>2. CASE UNCHANGED vars
  BY <1>2 DEF vars, Types, TypeOK, PlaceOK, Name, User, tables
<1> QED BY <1>1, <1>2, RestartTypes DEF Next

LEMMA TypesInductive == Spec => []Types
BY TypesInit, TypesStep, PTL DEF Spec

\* Tables, map, bound values and commands keep their types, on any number of
\* threads.
THEOREM TypeCorrect == Spec => []TypeOK
<1>1. Types => TypeOK
  BY DEF Types
<1> QED BY TypesInductive, <1>1, PTL

-----------------------------------------------------------------------------
(* One thread: one command at a time is between two of its waits.          *)

LEMMA ResumesAlone ==
  ASSUME Threads = 1, NEW h \in Handlers, Resume(h)
  PROVE  Quiet
<1> DEFINE S == {g \in Handlers : OnThread(g)}
<1>1. IsFiniteSet(S) /\ Cardinality(S) \in Nat
  BY TeamsAssumption, FS_Subset, FS_CardinalityType
<1>2. Cardinality(S) < 1
  BY DEF Resume
<1>3. Cardinality(S) = 0
  <2> HIDE DEF S
  <2> QED BY <1>1, <1>2
<1>4. S = {}
  BY <1>1, <1>3, FS_EmptySet
<1> QED BY <1>4 DEF Quiet

\* A command that is on a thread stays there until it waits or ends, and only
\* Resume brings one there.
LEMMA AloneStep ==
  ASSUME Threads = 1, Types, Alone, NEW h \in Handlers, Step(h)
  PROVE  /\ Alone'
         /\ \A g \in Handlers : g # h /\ ~ Receive(h) => ~ OnThread(g)
<1> USE DEF Types, TypeOK
<1>1. \A g \in Handlers : g # h => (OnThread(g)' <=> OnThread(g))
  BY OthersStay DEF OnThread
<1>2. CASE Receive(h)
  <2>1. ~ OnThread(h)'
    BY <1>2 DEF Receive, OnThread
  <2> QED BY <1>1, <1>2, <2>1 DEF Alone
<1>3. CASE Resume(h)
  <2>1. \A g \in Handlers : ~ OnThread(g)
    BY <1>3, ResumesAlone DEF Quiet
  <2> QED BY <1>1, <2>1 DEF Alone
<1>4. CASE ~ Receive(h) /\ ~ Resume(h)
  <2>1. OnThread(h)
    BY <1>4 DEF OnThread, Step, ChooseLeaveOrJoin, CheckCreateOrDel, CheckTeam, CheckUser,
       BindName, BindUser, Exec, Apply
  <2> QED BY <1>1, <2>1 DEF Alone
<1> QED BY <1>2, <1>3, <1>4

\* Nobody else can bind another value before the statement is executed.
LEMMA BoundStep ==
  ASSUME Threads = 1, Inv, NEW h \in Handlers, Step(h)
  PROVE  \A g \in Handlers : BoundOK(g)'
<1> USE DEF Inv, Types, TypeOK
<1>1. ASSUME NEW g \in Handlers, g # h PROVE BoundOK(g)'
  <2>1. pc'[g] = pc[g] /\ op'[g] = op[g] /\ request'[g] = request[g]
    BY <1>1, OthersStay
  <2>2. CASE Receive(h)
    BY <2>1, <2>2 DEF Receive, BoundOK, Name, User
  <2>3. CASE ~ Receive(h)
    <3>1. ~ OnThread(g)
      BY <1>1, <2>3, AloneStep
    <3>2. pc'[g] \in {"idle", "waiting"}
      BY <2>1, <3>1 DEF OnThread
    <3> QED BY <3>2 DEF BoundOK
  <2> QED BY <2>2, <2>3
<1>2. BoundOK(h)'
  <2>1. CASE BindName(h)
    <3>1. /\ op[h] \in Operations /\ UNCHANGED <<op, request>>
          /\ bound' = [bound EXCEPT ![op[h]].name = Name(h)]
          /\ pc'[h] = IF op[h] \in {"join", "leave"} THEN "bind_user" ELSE "exec"
      BY <2>1 DEF BindName, Goto, PlaceOK
    <3>2. bound'[op[h]].name = Name(h)
      BY <3>1
    <3> QED BY <3>1, <3>2 DEF BoundOK, Name, User
  <2>2. CASE BindUser(h)
    <3>1. /\ op[h] \in Operations /\ UNCHANGED <<op, request>> /\ pc'[h] = "exec"
          /\ bound' = [bound EXCEPT ![op[h]].user = User(h)]
          /\ bound[op[h]].name = Name(h)
      BY <2>2 DEF BindUser, Goto, PlaceOK, BoundOK
    <3>2. bound'[op[h]].user = User(h) /\ bound'[op[h]].name = Name(h)
      BY <3>1
    <3> QED BY <3>1, <3>2 DEF BoundOK, Name, User
  <2>3. CASE ~ BindName(h) /\ ~ BindUser(h)
    <3>1. pc'[h] \notin {"bind_user", "exec"}
      BY <2>3 DEF Step, Receive, Resume, ChooseLeaveOrJoin, CheckCreateOrDel, CheckTeam,
         CheckUser, Exec, Apply, Goto, Finish
    <3> QED BY <3>1 DEF BoundOK
  <2> QED BY <2>1, <2>2, <2>3
<1> QED BY <1>1, <1>2

-----------------------------------------------------------------------------
(* The map follows the tables.                                             *)

-----------------------------------------------------------------------------
(* The map follows the tables: what each statement does to the rows, the   *)
(* change that belongs to it does to the map.                              *)

Created(c, n) == [t \in (DOMAIN c) \cup {n} |-> IF t = n THEN {} ELSE c[t]]
Deleted(c, n) == [t \in (DOMAIN c) \ {n} |-> c[t]]
Joined(c, n, u) == [t \in DOMAIN c |-> IF t = n THEN c[n] \cup {u} ELSE c[t]]
Left(c, n, u) == [t \in DOMAIN c |-> IF t = n THEN c[n] \ {u} ELSE c[t]]

LEMMA CreateShows ==
  ASSUME NEW c, NEW T, NEW M, NEW all, NEW n, Shows(c, T, M, all),
         M \subseteq T \X Users, n \notin T
  PROVE  Shows(Created(c, n), T \cup {n}, M, all)
<1> DEFINE d == Created(c, n)
<1>1. n \notin DOMAIN c
  BY DEF Shows
<1>2. Members(d) = Members(c)
  BY <1>1 DEF Members, Created
<1>3. DOMAIN d = (DOMAIN c) \cup {n}
  BY DEF Created
<1> HIDE DEF d
<1>4. Shows(d, T \cup {n}, M, all)
  BY <1>2, <1>3 DEF Shows
<1> QED BY <1>4 DEF d

LEMMA DelShows ==
  ASSUME NEW c, NEW T, NEW M, NEW all, NEW n, Shows(c, T, M, all)
  PROVE  Shows(Deleted(c, n), T \ {n}, {m \in M : m[1] # n}, all)
<1> DEFINE d == Deleted(c, n)
<1>1. Members(d) = {m \in Members(c) : m[1] # n}
  BY DEF Members, Deleted
<1>2. DOMAIN d = (DOMAIN c) \ {n}
  BY DEF Deleted
<1> HIDE DEF d
<1>3. Shows(d, T \ {n}, {m \in M : m[1] # n}, all)
  BY <1>1, <1>2 DEF Shows
<1> QED BY <1>3 DEF d

LEMMA JoinShows ==
  ASSUME NEW c, NEW T, NEW M, NEW all, NEW n \in T, NEW u \in Users, Shows(c, T, M, all)
  PROVE  Shows(Joined(c, n, u),
               T, M \cup {<<n, u>>}, all)
<1> DEFINE d == Joined(c, n, u)
<1>1. DOMAIN d = DOMAIN c
  BY DEF Joined
<1>2. Members(d) \subseteq Members(c) \cup {<<n, u>>} /\ Members(c) \subseteq Members(d)
  BY DEF Members, Joined
<1>3. n \in DOMAIN c => <<n, u>> \in Members(d)
  BY DEF Members, Joined
<1> HIDE DEF d
<1>4. Shows(d, T, M \cup {<<n, u>>}, all)
  BY <1>1, <1>2, <1>3 DEF Shows
<1> QED BY <1>4 DEF d

LEMMA LeaveShows ==
  ASSUME NEW c, NEW T, NEW M, NEW all, NEW n, NEW u \in Users, Shows(c, T, M, all)
  PROVE  Shows(Left(c, n, u),
               T, M \ {<<n, u>>}, all)
<1> DEFINE d == Left(c, n, u)
<1>1. DOMAIN d = DOMAIN c
  BY DEF Left
<1>2. Members(d) = Members(c) \ {<<n, u>>}
  BY DEF Members, Left
<1> HIDE DEF d
<1>3. Shows(d, T, M \ {<<n, u>>}, all)
  BY <1>1, <1>2 DEF Shows
<1> QED BY <1>3 DEF d

LEMMA AppliedIs ==
  ASSUME NEW h \in Handlers
  PROVE  /\ op[h] = "create" => AppliedCache(h) = Created(teams_data_cache, Name(h))
         /\ op[h] = "del" => AppliedCache(h) = Deleted(teams_data_cache, Name(h))
         /\ op[h] = "join" => AppliedCache(h) = Joined(teams_data_cache, Name(h), User(h))
         /\ op[h] = "leave" => AppliedCache(h) = Left(teams_data_cache, Name(h), User(h))
<1> DEFINE c == teams_data_cache
           n == Name(h)
           users == IF n \in DOMAIN c THEN c[n] ELSE {}
<1>1. AppliedCache(h) = CASE op[h] = "create" -> SetTeam(n)
                          [] op[h] = "del"    -> CacheWithoutTeam(n)
                          [] op[h] = "join"   -> WithUsers(n, users \cup {User(h)})
                          [] op[h] = "leave"  -> WithUsers(n, users \ {User(h)})
  BY DEF AppliedCache
<1> HIDE DEF n
<1>2. WithUsers(n, users \cup {User(h)}) = Joined(c, n, User(h))
        /\ WithUsers(n, users \ {User(h)}) = Left(c, n, User(h))
  BY DEF WithUsers, Joined, Left
<1>3. SetTeam(n) = Created(c, n) /\ CacheWithoutTeam(n) = Deleted(c, n)
  BY DEF SetTeam, CacheWithoutTeam, Created, Deleted
<1> HIDE DEF users
<1>4. /\ op[h] = "create" => AppliedCache(h) = SetTeam(n)
      /\ op[h] = "del" => AppliedCache(h) = CacheWithoutTeam(n)
      /\ op[h] = "join" => AppliedCache(h) = WithUsers(n, users \cup {User(h)})
      /\ op[h] = "leave" => AppliedCache(h) = WithUsers(n, users \ {User(h)})
  BY <1>1
<1> QED BY <1>2, <1>3, <1>4 DEF n

LEMMA AppliedStays ==
  ASSUME NEW h \in Handlers, op'[h] = op[h], request'[h] = request[h],
         UNCHANGED teams_data_cache
  PROVE  AppliedCache(h)' = AppliedCache(h)
<1>1. Name(h)' = Name(h) /\ User(h)' = User(h)
  BY DEF Name, User
<1> QED BY <1>1 DEF AppliedCache, SetTeam, CacheWithoutTeam, WithUsers

LEMMA ExecShows ==
  ASSUME Inv, NEW h \in Handlers, pc[h] = "exec", Agrees(teams_data_cache),
         LET b == bound[op[h]]
         IN \/ op[h] = "create" /\ InsertTeam(b)
            \/ op[h] = "del" /\ DeleteTeam(b)
            \/ op[h] = "join" /\ InsertMember(b)
            \/ op[h] = "leave" /\ DeleteMember(b)
  PROVE  Shows(AppliedCache(h), mog_team', mog_team_member', loaded)
<1> DEFINE c == teams_data_cache
           b == bound[op[h]]
<1>1. /\ TypeOK /\ b.name = Name(h) /\ User(h) \in Users
      /\ op[h] \in {"join", "leave"} => b.user = User(h)
  BY DEF Inv, Types, PlaceOK, BoundOK
<1>2. Shows(c, mog_team, mog_team_member, loaded) /\ mog_team_member \subseteq mog_team \X Users
  BY <1>1 DEF Agrees, TypeOK
<1>3. CASE op[h] = "create" /\ InsertTeam(b)
  <2>1. Name(h) \notin mog_team /\ mog_team' = mog_team \cup {Name(h)}
          /\ mog_team_member' = mog_team_member
    BY <1>1, <1>3 DEF InsertTeam
  <2> QED BY <1>1, <1>2, <1>3, <2>1, AppliedIs, CreateShows
<1>4. CASE op[h] = "del" /\ DeleteTeam(b)
  <2>1. mog_team' = mog_team \ {Name(h)}
          /\ mog_team_member' = {m \in mog_team_member : m[1] # Name(h)}
    BY <1>1, <1>4 DEF DeleteTeam
  <2> QED BY <1>1, <1>2, <1>4, <2>1, AppliedIs, DelShows
<1>5. CASE op[h] = "join" /\ InsertMember(b)
  <2>1. Name(h) \in mog_team /\ mog_team' = mog_team
          /\ mog_team_member' = mog_team_member \cup {<<Name(h), User(h)>>}
    BY <1>1, <1>5 DEF InsertMember
  <2> QED BY <1>1, <1>2, <1>5, <2>1, AppliedIs, JoinShows
<1>6. CASE op[h] = "leave" /\ DeleteMember(b)
  <2>1. mog_team' = mog_team
          /\ mog_team_member' = mog_team_member \ {<<Name(h), User(h)>>}
    BY <1>1, <1>6 DEF DeleteMember
  <2> QED BY <1>1, <1>2, <1>6, <2>1, AppliedIs, LeaveShows
<1> QED BY <1>3, <1>4, <1>5, <1>6

LEMMA MapStep ==
  ASSUME Threads = 1, Inv, NEW h \in Handlers, Step(h)
  PROVE  MapOK'
<1> USE DEF Inv, Types, TypeOK
<1>0. \A g \in Handlers : g # h =>
        pc'[g] = pc[g] /\ op'[g] = op[g] /\ request'[g] = request[g]
  BY OthersStay
<1>1. CASE /\ UNCHANGED <<tables, teams_data_cache, loaded>>
           /\ pc[h] # "apply" /\ pc'[h] # "apply"
  <2>1. \A c : Agrees(c)' <=> Agrees(c)
    BY <1>1 DEF Agrees, tables
  <2>2. \A g \in Handlers : g # h => AppliedCache(g)' = AppliedCache(g)
    BY <1>0, <1>1, AppliedStays
  <2>3. ASSUME NEW g \in Handlers, pc'[g] = "apply" PROVE Agrees(AppliedCache(g))'
    <3>1. g # h /\ pc[g] = "apply"
      BY <1>0, <1>1, <2>3
    <3>2. Agrees(AppliedCache(g)) /\ AppliedCache(g)' = AppliedCache(g)
      BY <2>2, <3>1 DEF MapOK
    <3> QED BY <1>1, <3>2 DEF Agrees, tables
  <2>4. ASSUME \A g \in Handlers : pc'[g] # "apply" PROVE Agrees(teams_data_cache)'
    <3>1. \A g \in Handlers : pc[g] # "apply"
      BY <1>0, <1>1, <2>4
    <3> QED BY <1>1, <3>1 DEF MapOK, Agrees, tables
  <2> QED BY <2>3, <2>4 DEF MapOK
<1>2. CASE Exec(h) /\ Goto(h, "apply") /\ tables' # tables
  <2>1. \A g \in Handlers : g # h => pc[g] # "apply"
    <3>1. ~ Receive(h)
      BY <1>2 DEF Exec, Receive
    <3> QED BY <3>1, AloneStep DEF OnThread
  <2>2. pc[h] = "exec" /\ UNCHANGED <<teams_data_cache, loaded, op, request>> /\ pc'[h] = "apply"
    BY <1>2 DEF Exec, Goto
  <2>3. Agrees(teams_data_cache)
    BY <2>1, <2>2 DEF MapOK
  <2>4. LET b == bound[op[h]]
        IN \/ op[h] = "create" /\ InsertTeam(b)
           \/ op[h] = "del" /\ DeleteTeam(b)
           \/ op[h] = "join" /\ InsertMember(b)
           \/ op[h] = "leave" /\ DeleteMember(b)
    BY <1>2 DEF Exec
  <2>5. Shows(AppliedCache(h), mog_team', mog_team_member', loaded)
    BY <2>2, <2>3, <2>4, ExecShows
  <2>6. AppliedCache(h)' = AppliedCache(h)
    BY <2>2, AppliedStays
  <2>7. Agrees(AppliedCache(h))'
    BY <2>2, <2>5, <2>6 DEF Agrees
  <2>8. \A g \in Handlers : pc'[g] = "apply" => g = h
    BY <1>0, <2>1
  <2> QED BY <2>2, <2>7, <2>8 DEF MapOK
<1>3. CASE Apply(h)
  <2>1. /\ pc[h] = "apply" /\ pc'[h] # "apply" /\ teams_data_cache' = AppliedCache(h)
        /\ UNCHANGED <<tables, loaded>>
    BY <1>3 DEF Apply, Finish
  <2>2. \A g \in Handlers : pc'[g] # "apply"
    <3>1. ~ Receive(h)
      BY <2>1 DEF Receive
    <3> QED BY <1>0, <2>1, <3>1, AloneStep DEF OnThread
  <2>3. Agrees(AppliedCache(h))
    BY <2>1 DEF MapOK
  <2> QED BY <2>1, <2>2, <2>3 DEF MapOK, Agrees, tables
<1>4. CASE Exec(h) /\ ~ (Goto(h, "apply") /\ tables' # tables)
  <2>1. pc[h] = "exec" /\ UNCHANGED <<teams_data_cache, loaded>>
    BY <1>4 DEF Exec
  <2>2. UNCHANGED tables /\ Finish(h)
    BY <1>4 DEF Exec, InsertTeam, DeleteTeam, InsertMember, DeleteMember, tables
  <2>3. pc'[h] = "idle"
    BY <2>2 DEF Finish
  <2> QED BY <1>1, <2>1, <2>2, <2>3
<1>5. CASE ~ Exec(h) /\ ~ Apply(h)
  <2>1. UNCHANGED <<tables, teams_data_cache, loaded>> /\ pc[h] # "apply" /\ pc'[h] # "apply"
    BY <1>5 DEF Step, Receive, Resume, ChooseLeaveOrJoin, CheckCreateOrDel, CheckTeam,
       CheckUser, BindName, BindUser, Goto, Finish
  <2> QED BY <1>1, <2>1
<1> QED BY <1>2, <1>3, <1>4, <1>5

LEMMA RestartShows ==
  ASSUME Types, Restart
  PROVE  (Alone /\ MapOK /\ \A h \in Handlers : BoundOK(h))'
<1>1. PICK teams \in SUBSET mog_team, members \in SUBSET mog_team_member :
        /\ teams_data_cache' = LoadTeams(teams, members)
        /\ loaded' = (<<teams, members>> = tables)
  BY DEF Restart
<1>2. pc' = [h \in Handlers |-> "idle"] /\ UNCHANGED tables
  BY DEF Restart
<1> DEFINE c == LoadTeams(teams, members)
<1>3. DOMAIN c = teams /\ Members(c) = {m \in members : m[1] \in teams /\ m[2] \in Users}
  <2>1. members \subseteq mog_team \X Users
    BY DEF Types, TypeOK
  <2> QED BY <2>1 DEF LoadTeams, Members
<1>4. mog_team_member \subseteq mog_team \X Users
  BY DEF Types, TypeOK
<1>5. CASE <<teams, members>> = tables
  <2>1. teams = mog_team /\ members = mog_team_member
    BY <1>5 DEF tables
  <2>2. Shows(c, mog_team, mog_team_member, TRUE)
    <3> HIDE DEF c
    <3> QED BY <1>3, <1>4, <2>1 DEF Shows
  <2> QED BY <1>1, <1>2, <2>2 DEF MapOK, Agrees, Shows, Alone, OnThread, BoundOK, tables
<1>6. CASE <<teams, members>> # tables
  <2>1. Shows(c, mog_team, mog_team_member, FALSE)
    <3> HIDE DEF c
    <3> QED BY <1>3 DEF Shows
  <2>2. ~ loaded'
    BY <1>1, <1>6
  <2> QED BY <1>1, <1>2, <2>1, <2>2 DEF MapOK, Agrees, Shows, Alone, OnThread, BoundOK, tables
<1> QED BY <1>5, <1>6

LEMMA InitInv == Init => Inv
<1> SUFFICES ASSUME Init PROVE Inv
  OBVIOUS
<1>1. DOMAIN teams_data_cache = {} /\ Members(teams_data_cache) = {}
  BY DEF Init, Members
<1>2. Agrees(teams_data_cache)
  BY <1>1 DEF Init, Agrees, Shows
<1> QED BY <1>2, TypesInit DEF Init, Inv, Alone, OnThread, MapOK, BoundOK

LEMMA InvStep ==
  ASSUME Threads = 1, Inv, [Next]_vars
  PROVE  Inv'
<1>1. Types'
  BY TypesStep DEF Inv
<1>2. ASSUME NEW h \in Handlers, Step(h) PROVE Inv'
  BY <1>1, <1>2, AloneStep, BoundStep, MapStep DEF Inv
<1>3. CASE Restart
  BY <1>1, <1>3, RestartShows DEF Inv
<1>4. CASE UNCHANGED vars
  <2>1. Alone' /\ \A h \in Handlers : BoundOK(h)'
    BY <1>4 DEF Inv, vars, Alone, OnThread, BoundOK, Name, User
  <2>2. MapOK'
    <3>1. /\ UNCHANGED <<mog_team, mog_team_member, teams_data_cache, loaded, pc>>
          /\ \A h \in Handlers : op'[h] = op[h] /\ request'[h] = request[h]
      BY <1>4 DEF vars
    <3>2. \A h \in Handlers : AppliedCache(h)' = AppliedCache(h)
      BY <3>1, AppliedStays
    <3> QED BY <3>1, <3>2 DEF Inv, MapOK, Agrees
  <2> QED BY <1>1, <2>1, <2>2 DEF Inv
<1> QED BY <1>2, <1>3, <1>4 DEF Next

\* When coroutines resume on one thread, as with D++ 10.0, the map never shows a
\* team or a member that the tables do not hold, between any two commands.
THEOREM MapIsPersisted ==
  ASSUME Threads = 1
  PROVE  Spec => []CacheIsPersisted
<1>1. Inv => CacheIsPersisted
  BY DEF Inv, MapOK, Agrees, Shows, Members, CacheIsPersisted, CachedMembers, Quiet, OnThread
<1>2. Inv /\ [Next]_vars => Inv'
  BY InvStep
<1> QED BY InitInv, <1>1, <1>2, PTL DEF Spec

\* Then the map also shows everything the tables hold, unless load_teams failed.
THEOREM MapIsComplete ==
  ASSUME Threads = 1
  PROVE  Spec => []CacheIsComplete
<1>1. Inv => CacheIsComplete
  BY DEF Inv, MapOK, Agrees, Shows, Members, CacheIsComplete, CachedMembers, Quiet, OnThread
<1>2. Inv /\ [Next]_vars => Inv'
  BY InvStep
<1> QED BY InitInv, <1>1, <1>2, PTL DEF Spec

\* And a statement removes the member that its command named, or the members of
\* the team that it named, for any interleaving of commands.
THEOREM OnlyNamedMembersGo ==
  ASSUME Threads = 1
  PROVE  Spec => OnlyAskedRemovals
<1>1. ASSUME Inv, [Next]_vars, NEW m \in mog_team_member \ mog_team_member'
      PROVE  \E h \in Handlers :
               /\ pc[h] = "exec"
               /\ \/ op[h] = "del" /\ Name(h) = m[1]
                  \/ op[h] = "leave" /\ Name(h) = m[1] /\ User(h) = m[2]
  <2>1. mog_team_member' # mog_team_member
    BY <1>1
  <2>2. PICK h \in Handlers : Exec(h)
    BY <1>1, <2>1 DEF Next, vars, Restart, Step, Receive, Resume, ChooseLeaveOrJoin,
       CheckCreateOrDel, CheckTeam, CheckUser, BindName, BindUser, Apply, tables
  <2> DEFINE b == bound[op[h]]
  <2>3. /\ pc[h] = "exec" /\ b.name = Name(h)
        /\ op[h] \in {"join", "leave"} => b.user = User(h)
    BY <1>1, <2>2 DEF Exec, Inv, BoundOK
  <2>4. \/ op[h] = "del" /\ DeleteTeam(b)
        \/ op[h] = "leave" /\ DeleteMember(b)
    BY <1>1, <2>2 DEF Exec, InsertTeam, InsertMember, tables
  <2>5. CASE op[h] = "del" /\ DeleteTeam(b)
    BY <1>1, <2>3, <2>5 DEF DeleteTeam
  <2>6. CASE op[h] = "leave" /\ DeleteMember(b)
    BY <1>1, <2>3, <2>6 DEF DeleteMember
  <2> QED BY <2>4, <2>5, <2>6
<1>2. Inv /\ [Next]_vars =>
        [\A m \in mog_team_member \ mog_team_member' :
           \E h \in Handlers :
             /\ pc[h] = "exec"
             /\ \/ op[h] = "del" /\ Name(h) = m[1]
                \/ op[h] = "leave" /\ Name(h) = m[1] /\ User(h) = m[2]]_vars
  BY <1>1
<1>3. Inv /\ [Next]_vars => Inv'
  BY InvStep
<1> QED BY InitInv, <1>2, <1>3, PTL DEF Spec, OnlyAskedRemovals
=============================================================================
