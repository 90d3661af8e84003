------------------------------ MODULE Records ------------------------------
(***************************************************************************)
(* The /db commands (commands/slash/db): a record is a row of the table    *)
(* storage that points to a message of the bot in a dump channel.  Rows    *)
(* and messages live in two places, the database and Discord, that no      *)
(* transaction spans: insert creates the message, then the row; delete     *)
(* removes the rows, then the messages; and each command is a coroutine    *)
(* that lets others run at every call to Discord.                          *)
(*                                                                         *)
(* One thread resumes the coroutines (see the README), so that binding a   *)
(* statement and executing it are one step.  A message is lost only by a   *)
(* command: people who delete the bot's messages are not modelled, nor is  *)
(* the description of a record, which nothing here depends on.             *)
(***************************************************************************)
EXTENDS Naturals, FiniteSets

CONSTANTS
  Handlers,          \* the commands that may be in progress together
  Users,
  Guilds,
  Names,
  Channels,
  NsfwChannels,
  NoChannel,         \* the dump channel of a guild that has set none
  Ids,               \* of messages
  NoMessage,
  Requests,          \* the commands that are given
  Workloads,         \* bound: which of them come together, and how many messages
  BulkMax            \* get_max_msg_bulk_delete: 100

\* insert text, file and url; delete single, user, guild and self.
Inserts == {"text", "file", "url"}
Deletes == {"single", "user", "guild", "self"}
Kinds == Inserts \cup Deletes \cup {"nsfw", "select", "config"}

\* user gives the command in channel of guild; owner is the parameter owner or
\* user, nsfw the tag of an insert or an update, dump the parameter of config.
Request ==
  [kind : Kinds, user : Users, guild : Guilds, channel : Channels, name : Names,
   owner : Users, nsfw : BOOLEAN, dump : Channels \cup {NoChannel}]

Message == [id : Ids, channel : Channels]

ASSUME RecordsAssumption ==
  /\ NsfwChannels \subseteq Channels
  /\ NoChannel \notin Channels
  /\ Ids \subseteq Nat
  /\ IsFiniteSet(Message)
  /\ NoMessage \notin Message
  /\ Requests \subseteq Request /\ Requests # {}
  /\ \A w \in Workloads :
       /\ w.ids \subseteq Ids
       /\ \A h \in Handlers : w.commands[h] \subseteq Requests
  /\ BulkMax \in Nat \ {0, 1}

VARIABLES
  workload,          \* the commands of this behaviour, by handler, and the ids
  storage,           \* the table: from <<guild, name>> to a row
  guild_profile,     \* the table: from guilds to dedicated_channel_id
  channel,           \* Discord: the bot's messages in the channels
  admins,            \* Discord: who has the administrator permission
  cmd,               \* the commands in progress
  excused            \* history: messages given up with a reason

vars == <<workload, storage, guild_profile, channel, admins, cmd, excused>>

\* get_min_msg_bulk_delete.
BulkMin == 2

Row == [url : Message, user : Users, nsfw : BOOLEAN]
Steps == {"idle", "init", "ready", "created", "undo", "asked", "confirmed",
          "lookup", "deleting", "reading", "fetched", "shown"}

\* admin and dump are what the command read when it did; msg is the message an
\* insert created or a select reads; a delete has the urls of the rows it
\* removed, the channels it has looked up, the messages to delete, the batch it
\* deletes one by one and the number of failures.
Idle ==
  [step |-> "idle", req |-> CHOOSE r \in Requests : TRUE, admin |-> FALSE,
   dump |-> NoChannel, msg |-> NoMessage, urls |-> {}, visited |-> {},
   lists |-> {}, singly |-> {}, failed_deletes |-> 0]

Lesser(a, b) == IF a <= b THEN a ELSE b

Urls == {storage[k].url : k \in DOMAIN storage}

\* The messages a command is answerable for.
Held(c) ==
  {m \in {c.msg} : c.step \in {"created", "undo"}}
    \cup {m \in c.urls : c.step = "lookup" /\ m.channel \notin c.visited}
    \cup c.lists \cup c.singly

\* A message nothing refers to any more: its place is free for a new one.
Fresh(m) ==
  /\ m.id \in workload.ids
  /\ m \notin channel \cup Urls \cup excused
  /\ \A h \in Handlers : m # cmd[h].msg /\ m \notin cmd[h].urls

Do(h, c) == cmd' = [cmd EXCEPT ![h] = c]
Goto(h, s) == Do(h, [cmd[h] EXCEPT !.step = s])
End(h) == Do(h, Idle)
At(h, s, kinds) == cmd[h].step = s /\ cmd[h].req.kind \in kinds

Init ==
  /\ workload \in Workloads
  /\ storage = [k \in {} |-> NoMessage]
  /\ guild_profile = [g \in Guilds |-> NoChannel]
  /\ channel = {}
  /\ admins \in SUBSET Users
  /\ cmd = [h \in Handlers |-> Idle]
  /\ excused = {}

-----------------------------------------------------------------------------
(* Every command: db::command looks up guild, channel, member and          *)
(* permissions.                                                            *)

Begin(h, r) ==
  /\ cmd[h].step = "idle"
  /\ Do(h, [Idle EXCEPT !.step = "init", !.req = r, !.admin = r.user \in admins])
  /\ UNCHANGED <<workload, storage, guild_profile, channel, admins, excused>>

\* A command that ends before it changed anything.
EndUnchanged(h) ==
  /\ End(h)
  /\ UNCHANGED <<workload, storage, guild_profile, channel, admins, excused>>

\* A lookup fails, or a parameter or the user is refused.
LookupFails(h) == cmd[h].step = "init" /\ EndUnchanged(h)

\* A user may act on another's record with administrator permission, as it was
\* when the command began.
MayActFor(c) == c.req.owner = c.req.user \/ c.admin

-----------------------------------------------------------------------------
(* insert                                                                  *)

\* The dump channel defaults to the channel of the command.
FindDump(h) ==
  LET r == cmd[h].req
      dump == IF guild_profile[r.guild] = NoChannel THEN r.channel
                                                    ELSE guild_profile[r.guild]
  IN /\ At(h, "init", Inserts)
     /\ IF r.nsfw /\ dump \notin NsfwChannels
          THEN End(h)
          ELSE Do(h, [cmd[h] EXCEPT !.step = "ready", !.dump = dump])
     /\ UNCHANGED <<workload, storage, guild_profile, channel, admins, excused>>

\* insert text: the dialog cannot be opened, is not sent within five minutes, or
\* comes back empty.
DialogFails(h) == At(h, "ready", {"text"}) /\ EndUnchanged(h)

\* insert file and url: an attachment cannot be downloaded, the message of the
\* url not be read, or the bot lacks a permission that it needs for it.
SourceFails(h) == At(h, "ready", {"file", "url"}) /\ EndUnchanged(h)

CreateFails(h) == At(h, "ready", Inserts) /\ EndUnchanged(h)

\* The answer has the message, or there is an error, with or without a message
\* in the channel: without its id the command can only give it up.  Bound: the
\* least id that is free; which one it is does not matter to anybody.
CreateMessage(h) ==
  /\ At(h, "ready", Inserts)
  /\ \E m \in Message :
       /\ m.channel = cmd[h].dump
       /\ Fresh(m)
       /\ \A n \in Message : n.channel = m.channel /\ Fresh(n) => m.id <= n.id
       /\ channel' = channel \cup {m}
       /\ \/ Do(h, [cmd[h] EXCEPT !.step = "created", !.msg = m]) /\ UNCHANGED excused
          \/ End(h) /\ excused' = excused \cup {m}
  /\ UNCHANGED <<workload, storage, guild_profile, admins>>

Key(c) == <<c.req.guild, c.req.name>>

\* Mutant: the url of the answer is empty, as the code's note says of get_url.
WithEmptyUrl(c) ==
  [k \in (DOMAIN storage) \cup {Key(c)} |->
     IF k = Key(c)
       THEN [url |-> NoMessage, user |-> c.req.user, nsfw |-> c.req.nsfw]
       ELSE storage[k]]

WithRow(c) ==
  [k \in (DOMAIN storage) \cup {Key(c)} |->
     IF k = Key(c)
       THEN [url |-> c.msg, user |-> c.req.user, nsfw |-> c.req.nsfw]
       ELSE storage[k]]

\* Mutant: a failed statement ends the command.
InsertWithoutUndo(h) ==
  /\ At(h, "created", Inserts)
  /\ \/ /\ Key(cmd[h]) \notin DOMAIN storage
        /\ storage' = WithRow(cmd[h])
     \/ UNCHANGED storage
  /\ End(h)
  /\ UNCHANGED <<workload, guild_profile, channel, admins, excused>>

\* Mutant: the row that RETURNING gives back is not recognised as success.
InsertThenUndo(h) ==
  /\ At(h, "created", Inserts)
  /\ \/ /\ Key(cmd[h]) \notin DOMAIN storage
        /\ storage' = WithRow(cmd[h])
     \/ UNCHANGED storage
  /\ Goto(h, "undo")
  /\ UNCHANGED <<workload, guild_profile, channel, admins, excused>>

\* execute_query: a taken name, a parameter or the database may refuse the row.
ExecuteQuery(h) ==
  /\ At(h, "created", Inserts)
  /\ \/ /\ Key(cmd[h]) \notin DOMAIN storage
        /\ storage' = WithRow(cmd[h])
        /\ End(h)
     \/ Goto(h, "undo") /\ UNCHANGED storage
  /\ UNCHANGED <<workload, guild_profile, channel, admins, excused>>

\* The created message is deleted, or the call fails and nobody tries again.
DeleteCreated(h) ==
  /\ At(h, "undo", Inserts)
  /\ \/ channel' = channel \ {cmd[h].msg} /\ UNCHANGED excused
     \/ excused' = excused \cup {cmd[h].msg} /\ UNCHANGED channel
  /\ End(h)
  /\ UNCHANGED <<workload, storage, guild_profile, admins>>

-----------------------------------------------------------------------------
(* delete                                                                  *)

\* The administrator permission is missing, a parameter refused, no row found,
\* or the statement fails.
DeleteRefused(h) == At(h, "confirmed", Deletes) /\ EndUnchanged(h)

\* The user is asked to press a button.
Prompt(h) ==
  /\ At(h, "init", Deletes)
  /\ Goto(h, "asked")
  /\ UNCHANGED <<workload, storage, guild_profile, channel, admins, excused>>

Confirm(h) ==
  /\ At(h, "asked", Deletes)
  /\ Goto(h, "confirmed")
  /\ UNCHANGED <<workload, storage, guild_profile, channel, admins, excused>>

\* Mutant: there is no timer.
WaitForButton(h) == FALSE

\* The other button, or a minute without either.
Decline(h) ==
  /\ At(h, "asked", Deletes)
  /\ End(h)
  /\ UNCHANGED <<workload, storage, guild_profile, channel, admins, excused>>

\* Mutant: single leaves out "AND user_id = :UUU".
SelectedByName(r) ==
  {k \in DOMAIN storage :
     CASE r.kind = "single" -> k = <<r.guild, r.name>>
       [] r.kind = "user"   -> k[1] = r.guild /\ storage[k].user = r.owner
       [] r.kind = "guild"  -> k[1] = r.guild
       [] OTHER             -> storage[k].user = r.user}

\* The rows that the WHERE clause of each statement selects.
Selected(r) ==
  {k \in DOMAIN storage :
     CASE r.kind = "single" -> k = <<r.guild, r.name>> /\ storage[k].user = r.owner
       [] r.kind = "user"   -> k[1] = r.guild /\ storage[k].user = r.owner
       [] r.kind = "guild"  -> k[1] = r.guild
       [] OTHER             -> storage[k].user = r.user}

\* single, user, guild and self up to the end of the statement in exec; see
\* DeleteRefused for what ends them before.
ExecDelete(h) ==
  LET rows == Selected(cmd[h].req)
  IN /\ At(h, "confirmed", Deletes)
     /\ cmd[h].req.kind \in {"single", "user"} => MayActFor(cmd[h])
     /\ cmd[h].req.kind = "guild" => cmd[h].admin
     /\ rows # {}
     /\ storage' = [k \in (DOMAIN storage) \ rows |-> storage[k]]
     /\ Do(h, [cmd[h] EXCEPT !.step = "lookup", !.urls = {storage[k].url : k \in rows}])
     /\ UNCHANGED <<workload, guild_profile, channel, admins, excused>>

\* Mutant: messages_per_channel_map keeps the lists of one channel only.
LookedUpAlone(c, ch, skipped) ==
  [c EXCEPT !.visited = @ \cup {ch},
            !.lists = {m \in c.urls : m.channel = ch} \ skipped,
            !.failed_deletes = @ + Cardinality(skipped)]

\* The messages of channel ch go into its lists, except the skipped ones.
LookedUp(c, ch, skipped) ==
  [c EXCEPT !.visited = @ \cup {ch},
            !.lists = @ \cup ({m \in c.urls : m.channel = ch} \ skipped),
            !.failed_deletes = @ + Cardinality(skipped)]

\* The first url of each channel has guild, channel, member and permission
\* looked up.  Without permission only that url is skipped; a failing lookup
\* ends the command, and every message stays.
LookupChannel(h) ==
  /\ At(h, "lookup", Deletes)
  /\ \/ \E first \in {m \in cmd[h].urls : m.channel \notin cmd[h].visited} :
          \E skipped \in {{}, {first}} :
            LET next == LookedUp(cmd[h], first.channel, skipped)
            IN /\ Do(h, IF \A m \in next.urls : m.channel \in next.visited
                          THEN [next EXCEPT !.step = "deleting"]
                          ELSE next)
               /\ excused' = excused \cup skipped
     \/ End(h) /\ excused' = excused \cup Held(cmd[h])
  /\ UNCHANGED <<workload, storage, guild_profile, channel, admins>>

\* One list: as many messages of a channel as go into a bulk deletion, which
\* succeeds, is refused because a message is too old, or fails otherwise (before
\* or after it took effect).  A list of one is deleted by itself.
DeleteList(h) ==
  /\ At(h, "deleting", Deletes)
  /\ cmd[h].singly = {}
  /\ \E list \in SUBSET cmd[h].lists :
       /\ list # {}
       /\ \A m, n \in list : m.channel = n.channel
       /\ Cardinality(list) =
            Lesser(BulkMax, Cardinality({m \in cmd[h].lists :
                                           \E n \in list : m.channel = n.channel}))
       /\ LET rest == [cmd[h] EXCEPT !.lists = @ \ list]
              Failed(n) == [rest EXCEPT !.failed_deletes = @ + n]
          IN \/ /\ Do(h, rest)
                /\ channel' = channel \ list
                /\ UNCHANGED excused
             \/ /\ Cardinality(list) >= BulkMin
                /\ Do(h, [rest EXCEPT !.singly = list])
                /\ UNCHANGED <<channel, excused>>
             \/ /\ Do(h, Failed(Cardinality(list)))
                /\ channel' \in {channel, channel \ list}
                /\ excused' = excused \cup (list \cap channel')
  /\ UNCHANGED <<workload, storage, guild_profile, admins>>

\* Mutant: the failures of single deletions are not counted.
DeleteSinglyUncounted(h) ==
  /\ At(h, "deleting", Deletes)
  /\ \E m \in cmd[h].singly :
       /\ Do(h, [cmd[h] EXCEPT !.singly = @ \ {m}])
       /\ \/ channel' = channel \ {m} /\ UNCHANGED excused
          \/ excused' = excused \cup {m} /\ UNCHANGED channel
  /\ UNCHANGED <<workload, storage, guild_profile, admins>>

\* The messages of a list that was too old for a bulk deletion.
DeleteSingly(h) ==
  /\ At(h, "deleting", Deletes)
  /\ \E m \in cmd[h].singly :
       \/ /\ Do(h, [cmd[h] EXCEPT !.singly = @ \ {m}])
          /\ channel' = channel \ {m}
          /\ UNCHANGED excused
       \/ /\ Do(h, [cmd[h] EXCEPT !.singly = @ \ {m}, !.failed_deletes = @ + 1])
          /\ excused' = excused \cup {m}
          /\ UNCHANGED channel
  /\ UNCHANGED <<workload, storage, guild_profile, admins>>

\* The answer says how many messages could not be deleted.
Report(h) ==
  /\ At(h, "deleting", Deletes)
  /\ cmd[h].lists = {} /\ cmd[h].singly = {}
  /\ End(h)
  /\ UNCHANGED <<workload, storage, guild_profile, channel, admins, excused>>

-----------------------------------------------------------------------------
(* update nsfw, select single, config update_dump_channel                  *)

UpdateNsfw(h) ==
  /\ At(h, "init", {"nsfw"})
  /\ MayActFor(cmd[h])
  /\ Key(cmd[h]) \in DOMAIN storage
  /\ storage[Key(cmd[h])].user = cmd[h].req.owner
  /\ storage' = [storage EXCEPT ![Key(cmd[h])].nsfw = cmd[h].req.nsfw]
  /\ End(h)
  /\ UNCHANGED <<workload, guild_profile, channel, admins, excused>>

\* The tag is compared with the channel here, and not again.
ReadRow(h) ==
  /\ At(h, "init", {"select"})
  /\ Key(cmd[h]) \in DOMAIN storage
  /\ storage[Key(cmd[h])].nsfw => cmd[h].req.channel \in NsfwChannels
  /\ Do(h, [cmd[h] EXCEPT !.step = "reading", !.msg = storage[Key(cmd[h])].url])
  /\ UNCHANGED <<workload, storage, guild_profile, channel, admins, excused>>

\* The channel, the message or one of its attachments cannot be read, or not be
\* sent to the channel of the command.
SelectFails(h) ==
  /\ cmd[h].step \in {"reading", "fetched"}
  /\ EndUnchanged(h)

FetchMessage(h) ==
  /\ At(h, "reading", {"select"})
  /\ cmd[h].msg \in channel
  /\ Goto(h, "fetched")
  /\ UNCHANGED <<workload, storage, guild_profile, channel, admins, excused>>

\* The message goes to the channel of the command, or to its user there.
Show(h) ==
  /\ At(h, "fetched", {"select"})
  /\ Goto(h, "shown")
  /\ UNCHANGED <<workload, storage, guild_profile, channel, admins, excused>>

Finish(h) ==
  /\ At(h, "shown", {"select"})
  /\ End(h)
  /\ UNCHANGED <<workload, storage, guild_profile, channel, admins, excused>>

UpdateDump(h) ==
  /\ At(h, "init", {"config"})
  /\ cmd[h].admin
  /\ guild_profile' = [guild_profile EXCEPT ![cmd[h].req.guild] = cmd[h].req.dump]
  /\ End(h)
  /\ UNCHANGED <<workload, storage, channel, admins, excused>>

-----------------------------------------------------------------------------
(* Around the commands.                                                    *)

\* Somebody changes a user's roles.
ChangeRoles ==
  /\ \E u \in Users : admins' \in {admins \cup {u}, admins \ {u}}
  /\ admins' # admins
  /\ UNCHANGED <<workload, storage, guild_profile, channel, cmd, excused>>

\* The process ends and starts again: the commands are forgotten.
Restart ==
  /\ \E h \in Handlers : cmd[h].step # "idle"
  /\ cmd' = [h \in Handlers |-> Idle]
  /\ excused' = excused \cup UNION {Held(cmd[h]) : h \in Handlers}
  /\ UNCHANGED <<workload, storage, guild_profile, channel, admins>>

\* What goes on without the user: Discord answers, timers fire.
Continue(h) ==
  \/ LookupFails(h) \/ DialogFails(h) \/ SourceFails(h) \/ CreateFails(h)
  \/ DeleteRefused(h) \/ SelectFails(h)
  \/ FindDump(h) \/ CreateMessage(h) \/ ExecuteQuery(h) \/ DeleteCreated(h)
  \/ Prompt(h) \/ Decline(h) \/ ExecDelete(h) \/ LookupChannel(h)
  \/ DeleteList(h) \/ DeleteSingly(h) \/ Report(h)
  \/ UpdateNsfw(h) \/ ReadRow(h) \/ FetchMessage(h) \/ Show(h)
  \/ Finish(h) \/ UpdateDump(h)

Next ==
  \/ \E h \in Handlers :
       Continue(h) \/ Confirm(h) \/ \E r \in workload.commands[h] : Begin(h, r)
  \/ ChangeRoles
  \/ Restart

Spec == Init /\ [][Next]_vars
FairSpec == Spec /\ \A h \in Handlers : WF_vars(Continue(h))

-----------------------------------------------------------------------------
\* Rows, messages and commands have their types.
TypeOK ==
  /\ workload \in Workloads
  /\ DOMAIN storage \subseteq Guilds \X Names
  /\ storage \in [DOMAIN storage -> Row]
  /\ guild_profile \in [Guilds -> Channels \cup {NoChannel}]
  /\ channel \subseteq Message
  /\ admins \subseteq Users
  /\ cmd \in [Handlers ->
       [step : Steps, req : Requests, admin : BOOLEAN,
        dump : Channels \cup {NoChannel}, msg : Message \cup {NoMessage},
        urls : SUBSET Message, visited : SUBSET Channels, lists : SUBSET Message,
        singly : SUBSET Message, failed_deletes : Nat]]
  /\ excused \subseteq Message

\* A record can be read: the message of every row is in its channel, whatever
\* inserts undo and deletes clean up beside it, and after any restart.
RowHasMessage == Urls \subseteq channel

\* No message is left behind in silence: every one belongs to a row, or a
\* command still answers for it, or it was given up for a reason (an unusable
\* answer, a failed deletion, a failed lookup, a missing permission, a restart).
NoOrphan ==
  channel \subseteq Urls \cup excused \cup UNION {Held(cmd[h]) : h \in Handlers}

\* Rows disappear only in a delete that its user confirmed, and they are his own,
\* or of his own guild when he was an administrator as the command began.
DeletesAreConfirmed ==
  [][\A k \in (DOMAIN storage) \ DOMAIN storage' :
       \E h \in Handlers :
         /\ At(h, "confirmed", Deletes)
         /\ cmd'[h].step = "lookup"
         /\ \/ storage[k].user = cmd[h].req.user
            \/ /\ cmd[h].admin
               /\ k[1] = cmd[h].req.guild
               /\ cmd[h].req.kind = "guild" \/ storage[k].user = cmd[h].req.owner]_vars

\* "The user will be notified if one or more messages could not be deleted":
\* the number a finished delete reports covers the messages it left.
ReportCoversLeftovers ==
  [][\A h \in Handlers :
       Report(h) => Cardinality(cmd[h].urls \cap channel) <= cmd[h].failed_deletes]_vars

\* Every command comes to an end, also when nobody presses a button.
EveryCommandEnds ==
  \A h \in Handlers : cmd[h].step # "idle" ~> cmd[h].step = "idle"

\* "Records tagged with nsfw = True can only be displayed in age-restricted
\* channels": when a select shows a message, no row tags it for other channels.
NsfwStaysInNsfwChannels ==
  [][\A h \in Handlers :
       Show(h) =>
         \A k \in DOMAIN storage :
           storage[k].url = cmd[h].msg /\ storage[k].nsfw =>
             cmd[h].req.channel \in NsfwChannels]_vars
=============================================================================
