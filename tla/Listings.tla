------------------------------ MODULE Listings ------------------------------
(***************************************************************************)
(* The /db and /mog commands that talk with their users, side by side:     *)
(* one command and its list per handler, over the records, the teams and   *)
(* what Discord shows.                                                     *)
(***************************************************************************)
EXTENDS RecordLists, TeamLists

CONSTANT
  Workloads          \* bound: the commands that come together, by handler

ASSUME ListingsAssumption ==
  \A w \in Workloads :
    \A h \in Handlers : w[h] \subseteq RecordRequests \cup TeamRequests

VARIABLE
  workload           \* the commands of this behaviour

vars == <<workload, is_first_reply, response, failed, list, run, storage, bound,
          show_all_cache, show_user_cache, teams>>

TeamWorkload == \A h \in Handlers : workload[h] \subseteq TeamRequests

Init ==
  /\ workload \in Workloads
  /\ RepliesInit
  /\ list = [h \in Handlers |-> NoList]
  /\ run = [h \in Handlers |-> Idle]
  /\ RecordsInit
  /\ TeamsInit

\* A user gives a command.
Receive(h) ==
  /\ \E r \in workload[h] : (r \in TeamRequests => OptionsAllow(r)) /\ Begin(h, r)
  /\ UNCHANGED <<records, teams, workload>>

RecordCommand(h) ==
  RecordCommandStep(h) /\ UNCHANGED <<teams, workload>>

TeamCommand(h) ==
  TeamCommandContinues(h) /\ UNCHANGED <<records, workload>>

AnyCommand(h) ==
  CommandStep(h) /\ UNCHANGED <<records, teams, workload>>

AnyList(h) ==
  ListStep(h) /\ UNCHANGED <<run, records, teams, workload>>

\* Other /mog commands.
TeamsChange ==
  /\ TeamWorkload
  /\ ChangeTeams
  /\ UNCHANGED <<replies, list, run, records, workload>>

\* The process ends and starts again: what was in progress is never answered.
Restart ==
  /\ \E h \in Handlers : Busy(h)
  /\ run' = [h \in Handlers |-> Idle]
  /\ list' = [h \in Handlers |-> NoList]
  /\ failed' = failed \cup {i \in Interactions : \E h \in Handlers :
                              Busy(h) /\ i \in {Command(h), Second(h)}}
  /\ RestartRecords
  /\ RestartTeams
  /\ UNCHANGED <<is_first_reply, response, workload>>

Next ==
  \/ \E h \in Handlers :
       Receive(h) \/ RecordCommand(h) \/ TeamCommand(h) \/ AnyCommand(h) \/ AnyList(h)
  \/ TeamsChange
  \/ Restart

Spec == Init /\ [][Next]_vars

\* What goes on without the users: Discord answers each call, timers fire.
Continues(h) ==
  \/ RecordCommandContinues(h) /\ UNCHANGED <<teams, workload>>
  \/ TeamCommand(h)
  \/ AnyCommand(h)
  \/ ListContinues(h) /\ UNCHANGED <<run, records, teams, workload>>

FairSpec == Spec /\ \A h \in Handlers : WF_vars(Continues(h))

-----------------------------------------------------------------------------
\* Replies, lists, commands, records and teams have their types.
TypeOK ==
  /\ RepliesTypeOK
  /\ ListTypeOK
  /\ \A h \in Handlers :
       /\ run[h].step \in RunSteps
       /\ run[h].step # "idle" => run[h].req \in workload[h]
       /\ run[h].answer \in {"command", "second"}
       /\ run[h].step # "idle" => list[h] = NoList
  /\ storage \in Seq(Row)
  /\ bound \in [{"insert", "update"} -> MaybeDescription]
  /\ show_all_cache \in Seq(Row)
  /\ show_user_cache \in [Users -> Seq(Row)]
  /\ DOMAIN teams \subseteq Teams
  /\ \A t \in DOMAIN teams : DOMAIN teams[t] \subseteq Members

\* The interaction that the end of a command, or of the list it started, answers.
ToAnswer(h) == IF run[h].step = "idle" THEN Command(h) ELSE <<h, run[h].answer>>

\* As a command or the list it started ends, neither of its two interactions is left
\* at "thinking", but for these: the one that was to be answered, when the call
\* that would have answered it failed; what a restart cut off; and a submitted
\* form, when the end of insert text answers the command instead.
AnsweredInTheEnd ==
  [][\A h \in Handlers : Busy(h) /\ ~ Busy(h)' =>
       \A i \in {Command(h), Second(h)} : response'[i] = Thinking =>
         \/ i \in failed' /\ (i = ToAnswer(h) \/ Restart)
         \/ At(h, "close", {"text"}) /\ run[h].answer = "command" /\ i = Second(h)]_vars

\* A record is described as its insert or update said, and by nobody else, also
\* when the description was left out and an earlier command had given one.
DescribedAsAsked ==
  [][\A i \in DOMAIN storage' :
       (\A j \in DOMAIN storage : storage[j] # storage'[i]) =>
         \E h \in Handlers :
           /\ run[h].step \in {"ready", "filled"} /\ run'[h].step = "close"
           /\ run[h].req.name = storage'[i].name
           /\ run[h].req.description = storage'[i].desc]_vars

\* "If the user is part of only one MOG team, the optional parameter name can be
\* ignored.  Otherwise, it MUST be set": a cooldown is set for the user who gave
\* the command, on the team named or the only one there is; and it is in the
\* ranges the user was told, though the program itself never looks at the seconds.
\* Else it stays, or is forgotten.
CooldownAsAsked ==
  [][\A t \in (DOMAIN teams) \cap DOMAIN teams' :
       \A u \in (DOMAIN teams[t]) \cap DOMAIN teams'[t] :
         teams'[t][u] \in {teams[t][u], NoCooldown}
           \/ \E h \in Handlers :
                /\ At(h, "ready", {"cooldown"}) /\ run'[h].step = "close"
                /\ run[h].req.user = u
                /\ \/ run[h].req.name = t
                   \/ run[h].req.name = NoTeam /\ TeamsOf(u) = {t}
                /\ \E m \in 0 .. 5, s \in 0 .. 59 : teams'[t][u] = m * 60 + s]_vars

\* "a paginated list of all current (at the time this command was invoked)
\* records": what a show reads, it reads from the database and not from a cached
\* list, which the update of an administrator and the lists that wait for the
\* names of owners leave out of date; and this is what it lists.
ListsAreCurrent ==
  [][\A h \in Handlers :
       LET r == run[h].req
           listed == {text.of : text \in ToSet(list'[h].texts)}
       IN /\ At(h, "ready", {"show_user"}) /\ list'[h].step = "processing" =>
               listed = {row \in ToSet(storage) : row.user = r.owner}
          /\ At(h, "ready", {"show_all"}) /\ run'[h].step = "naming" =>
               ToSet(run'[h].rows) = ToSet(storage)
          /\ At(h, "naming", {"show_all"}) /\ list'[h].step = "processing" =>
               listed = ToSet(run[h].rows)]_vars

\* Every command, and the list it started, comes to an end, if only because
\* nobody presses a button any more.
EveryListEnds == \A h \in Handlers : Busy(h) ~> ~ Busy(h)

-----------------------------------------------------------------------------
(* A statement of the repository that the code does not keep.              *)

\* "Errors are handled by execute_query" (db_insert.cpp): the user who submitted
\* a form hears what became of it.
FormIsAnswered ==
  [][\A h \in Handlers :
       run[h].step = "close" /\ run[h].req.kind = "text" /\ run'[h].step = "idle"
         => response'[Second(h)] # Thinking \/ Second(h) \in failed']_vars
=============================================================================
