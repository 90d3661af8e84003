# Delta_DBot: models, checks and proofs

Delta_DBot is a Discord bot in C++20 on the D++ library with an SQLite database. This
directory holds TLA+ modules of its parts that keep state, the TLC configurations that check
them on small instances, and theorems about them that TLAPS proves for every instance.
`PROJECT.json` lists the components, the runs, the source lines behind each definition, the
hazards and the findings. Paths below are relative to `src/`.

Run, in this directory:

    tlc -config JobsRunner_check.cfg MCJobsRunner.tla
    tlapm JobsRunner_proofs.tla

## 1. The system

| part | state it keeps | operations | how it meets the others |
|---|---|---|---|
| process and lifecycle (`main.cpp`, `bot_delta.cpp`, `events/cmd_runner.cpp`) | the `bot_delta` on the main thread, its runners, which statements were saved | `run_app`, `start`, `setup_db`, `close`, destructors, `shutdown_environment` | calls everything below; restarts after an exception |
| jobs runner (`threads/jobs_runner.cpp`) | a queue, two flags, two counters, one thread | `start`, `stop`, `add_job`, `run_jobs`, getters | event handlers add jobs, which execute statements on the worker |
| database handler (`database/database_handler.cpp`) | the connection, a map of prepared statements, a queue of freed keys | open, close, save, delete, bind, exec | every command holds keys of statements it saved |
| caches (`utility/caches.cpp`, `utility/cache.h`) | one bounded cache per kind of entity, and one for dump channels | add, update, get, remove, purge, decay; `init`, `cleanup`, event callbacks | commands look entities up; Discord's events update them |
| `/db` commands (`commands/slash/db`) | rows of `storage`, messages in dump channels, the channel in `guild_profile` | insert, delete, update, select, show, config | rows point to messages; deletions ask for permissions and a confirmation |
| `/mog` commands (`commands/slash/mog`) | `mog_team`, `mog_team_member` and the map `teams_data_cache` beside them | create, del, join, leave, leave_and_join; cooldowns; lists | four prepared statements shared by all commands; only the map has the cooldowns |
| responses (`utility/response.cpp`) | per interaction, whether the first reply was sent | think, reply or edit, dialog | every command answers through it |
| pagination (`utility/utility.cpp`) | the pages of a list and which of them is shown | fill pages, show, turn, expire | a coroutine that goes on when the command that started it has ended |
| permissions (`utility/perms.cpp`) | none | the permissions of a member, from cached roles and overwrites | used by the commands |
| registration (`commands/ready/register_commands.cpp`) | what Discord has registered, across processes | compare, replace all | started by the first ready event |
| simple commands, texts | none, or one id | one or two REST calls | |

**Concurrency.** Three kinds of threads: the main thread (waits for `q`), the worker of the
jobs runner, and the threads of D++, on which events arrive and coroutines are resumed. The
build settings name D++ 10.0, whose REST completions come on one thread; the code guards its
own data (`teams_mutex`, the mutex of each cache) as if there were several. Every command is
a coroutine: whenever it awaits Discord, other commands run.

**What is hard.** Locks and a condition variable in the runner; keys that tie a command to a
statement only by convention, across partial failures and restarts of `start`; tables and a
map, or rows and Discord messages, that change in separate steps; permissions, tags and
teams that were checked before an await and are used after it; a process that may end
anywhere; a cache of two containers that must agree. `hazards` in `PROJECT.json` has each
at its line.

**What makes each part correct.**

* Runner: every job runs once, in order, unless stop comes first; stop ends the worker.
* Statement store: a free key is really free; an owner always finds its own statement.
* Lifecycle: no thread, destructor or static uses a statement, connection or bot that is gone.
* Teams: the map shows exactly what the tables hold, also after failed queries and restarts.
* Registration: after a successful registration Discord has this version's commands, no others.
* Records: every row has its message, every message has a row or a reason, and only who may
  delete a row deletes it, after confirming.
* Frequency cache: the two containers agree, the bound holds, the least wanted go first; to
  its users it is a bounded map.
* Entity caches and permissions: what is cached is what Discord has, and what a member is
  found to be allowed is what Discord allows.
* Responses: nobody is left with "thinking" unless the answer itself was lost or cut off; a reply is
  a call that Discord takes at that moment.
* Lists: pages hold all texts and are not too long; the page the list believes to show is the
  one the user sees; what is listed is what the database had; every list ends.
* Descriptions and cooldowns: what is written is what that user's own command said.

## 2. The modules

| module | what it is | MC module and configurations |
|---|---|---|
| `JobQueue` | abstract: a FIFO queue with one job in hand | checked as `ImplementsQueue` |
| `JobsRunner` | the runner, one step per access to shared state | `MCJobsRunner`: `_check`, `_hang` |
| `StatementStore` | the map and its keys, with owners that use it properly | `MCStatementStore`: `_keys` |
| `Registration` | the registration of the commands with Discord | in `BotLifecycle` |
| `BotLifecycle` | main, start, close, the destructors and the optimize timer over the store's variables | `MCBotLifecycle`: `_check`, `_caches` |
| `MogTeams` | the team commands, the tables and the map | `MCMogTeams`: `_check` |
| `Records` | the `/db` commands, the table and the messages | `MCRecords`: `_check`, `_nsfw` |
| `BoundedCache` | abstract: a map that drops elements when it is full | checked as `ImplementsBoundedCache` |
| `FrequencyCache` | `cache` and `cache_primitive` | `MCFrequencyCache`: `_shared` |
| `Permissions` | what a member may do, as the code computes it and as Discord's rule says | in `EntityCaches` |
| `EntityCaches` | the caches of guilds, channels, members and roles, and the commands that look things up in them | `MCEntityCaches`: `_check` |
| `Replies` | how an interaction is answered | in `Listings` |
| `Pagination` | lists with pages and buttons, over `Replies` | in `Listings` |
| `Commands` | what every command does, over `Pagination` | in `Listings` |
| `RecordLists`, `TeamLists` | the `/db` and the `/mog` commands that talk with their users, over `Commands` | in `Listings` |
| `Listings` | the composition of the five | `MCListings`: `_check`, `_form` |
| `JobsRunner_proofs`, `StatementStore_proofs`, `BotLifecycle_proofs`, `MogTeams_proofs`, `Records_proofs`, `FrequencyCache_proofs`, `EntityCaches_proofs`, `Listings_proofs` | theorems about the module each is named after | |

Definitions carry the names of the code. A definition whose comment begins with *Mutant* is
not part of the specification: it is a plausible mistake, which the property named with it
in `PROJECT.json` must catch when it takes the place of the right definition.

### JobsRunner

State: `jobs`, `stop_thread`, `is_running`, the two counters, and a program counter each for
the worker (`run_jobs`), the controller (`start`, `stop`: only `bot_delta` calls them, from
the main thread) and one producer per job (`add_job`). A step is one access to shared state,
so the worker's test of the predicate (`LockAndTestJobs`, `TestStop`) and its wait (`Block`)
are separate, and so are the push, the notification and the counting of `add_job`. `pushed`,
`executed` and `late` are history variables. A job is an opaque value: what it does is in
`BotLifecycle`. The counters wrap at `CounterModulus`. The refinement to `JobQueue` maps the
queue, the job in the worker's hands and the executed jobs.

Jobs still queued when `stop` comes stay in the queue, and run after the next `start`, if any.

### StatementStore and BotLifecycle

`StatementStore` has the map `saved`, the queue `removed`, and the key each owner keeps. A
text may hold several SQL statements, of which a later one may fail (`SaveInPart`): its key
then goes back to the queue although the owner has a copy. The owners there delete only what
is theirs. The code's destructors are less careful (`~team` deletes whatever its seven keys
say), so `BotLifecycle` uses the store's variables with the code's own calls and checks, as
`UsesStoreProperly`, that the result is still a behaviour of `StatementStore`.

`BotLifecycle` is main's loop as a program: construct, open, save the setup statements,
`caches::init`, attach the commands, start, run, `q`, and then the destructors in order, with an
exception possible wherever the code throws. Beside it run the worker, which executes one
owner's statement, and the library thread that builds the static `/db` commands.
While the library's threads run, `Registration` goes on beside it, and the optimize timer
executes a statement of its own (`TimerBegin`, `TimerEnd`). `Registration` compares the
commands of this version, which may contain one twice, with what an earlier version, or
nobody, has left registered; a definition stands for everything that `is_same_cmd` compares.
Abstractions: `sqlite3_shutdown` succeeds; the branch of `caches::init` for caches that are
already initialised is never taken, because it follows a cleanup. That the static commands
are built while a job executes is a data race on the `std::map`: the model lets both happen,
the outcome of the race itself is not a value it could name.

### MogTeams

One action per part of a command between two waits; binding and executing a prepared
statement are two. What a statement has bound is part of the state, shared by the commands.
Failed binding is merged with failed execution; one guild; channel, role, cooldown and
`show` are left out; a row may also be refused because the guild is unknown. `Threads = 1`
is D++ 10.0; `Threads = 2` is what `teams_mutex` is there for, and with it `CacheIsPersisted`
fails: two commands bind one statement before either executes it. `load_teams` may fail after
some rows and then leaves a map that is a part of the tables.

### Records

A record is a row that points to a message. `insert` creates the message, then the row, and
deletes the message when the row is refused; `delete` asks for confirmation, deletes the
rows, looks up each channel, deletes messages in lists of at most `BulkMax`, falls back to
single deletions, and reports how many failed. A behaviour is about one of the `Workloads`,
the commands that come together and the number of messages. `update nsfw`, `select single` and `config
update_dump_channel` are there because they change or use what the others rely on.
`excused` is a history variable: the messages given up for a reason the code knows of (no
usable answer, a failed deletion or lookup, a missing permission, a restart). One thread, so
binding and executing are one step. Not modelled: people who delete
the bot's messages, the cache in front of `guild_profile` (same thread, changed in the same
step as the table). Descriptions, and the dialogs and buttons with which `insert text` and
`delete` ask their users, are in `RecordLists`.

### FrequencyCache

Every operation holds the cache's mutex from beginning to end and is one action. The
multimap is the sequence in which it is iterated. A failed `find_if` is modelled as it is:
it compares the end of the range with the end of the container and would erase the next
entry. `cache` and `cache_primitive` differ in `UpdateCounts`. The decay is a table, any
monotone function that does not leave the range. `BoundedCache` is what remains of the cache
for those who use it: which elements a purge takes depends on numbers they do not see, so it
takes any set of the right size. The refinement maps `mapped_storage` to the elements.

### Permissions and EntityCaches

`Permissions` has the computation of `perms.cpp` on sets of flags, and beside it `Granted`,
Discord's rule stated for one flag: the most particular overwrite that mentions it decides.

`EntityCaches` follows one guild. `real` is what Discord has, `gateway` the events on their
way. D++ calls the handlers of a shard's events on one thread and in their order, so
`Deliver` takes the first; a command is an event like an update. What comes with a command
(`carried`, `resolved`) is as it was when the command was given. A look-up is several steps,
`Hit` or `Miss`, then `TakeFromEvent` or `Answer` and `TakeAnswer`, because other look-ups
and the updates run between them; `Answer` is the moment at which Discord reads, `TakeAnswer`
the one at which the bot has it. The role of all is looked up by adding all roles of the
guild, one by one, and asking the cache again: a full cache may by then have purged it, and the
command ends with "Failed to retrieve perms data!" although Discord had given it the role (`FindAdded`). The role cache is a `BoundedCache`; that one of the
other caches drops an element is a step of `OtherGuild`. Each kind of entity has its own
cache, so that the role of all has the id of its guild does no harm, and the model gives them
different names. `steady` and `late` are history variables: whether anything has changed since
the command was given, and the entities of which an update was taken while a look-up had older
data in its hands.

A deleted role is exempt from `CacheIsFresh` because the code does not listen to deletions;
`steady` asks that nothing is deleted. Users are looked up as guilds are and not shown. The
getters that are no tasks, and the counters of misses, are left out.

### Replies, Pagination, Commands, RecordLists, TeamLists, Listings

`Replies` has, per interaction, the flag `is_first_reply` of the code and what Discord shows.
The flag decides whether a reply creates the response or edits it, and Discord refuses a call
out of place: to create what exists, or to edit what does not exist or is a dialog. A dialog is
opened past the flag. Every call may fail, with or without effect on Discord; `failed` is a
history variable: the interactions whose last call failed. (An answer of Discord that
arrives after the next call on the same interaction was made is not modelled: each call is
awaited.)

`Pagination` is the coroutine `manage_paginated_embed`: the filling of the pages with the
sizes that count, the four buttons, the timer, and that it looks neither at the outcome of
showing a page nor at clicks that come while it is not waiting. `MaxClicks` bounds how often the
buttons are heard. The texts are records whose size is what counts; their layout is left out.

`Commands` has what `db::command` and `mog::command` have in common: think first, refuse,
answer in the end, or leave that to a list. In `RecordLists` are `show all`, `show user` with
the two caches in front of them, `update description`, and what `insert` and `delete single` say
and wait for; the rows have a name, an owner and a description, and `bound` is what the two
shared statements have bound for the description. In `TeamLists` are `arma cooldown`, `arma
show_cooldowns` and `team show`, over the map of teams, which the other commands change in
between as in `MogTeams`. A cooldown is the time it lasts from when the command was given.

`Listings` composes them: one command and its list per handler, and restarts.

## 3. The runs

| run | what it shows | instance |
|---|---|---|
| `runner` | FIFO without loss or repetition, no pop of an empty queue, at most one job after stop, a stopped runner has no worker, the counters' difference is the queue's length once everybody has counted; an added job runs unless stop is requested; the runner implements `JobQueue` | 3 jobs, 2 starts, counters mod 3; 54 thousand states |
| `runner_stop_returns` (violated) | `stop` can lose its notification and wait for ever | 2 jobs |
| `statement_keys` | keys are free when handed out, partitioned, isolated, never leaked | 4 owners, texts of 1 and 2 statements |
| `lifecycle` | no job, timer or destructor uses a statement that is not its own; shutdown finds nothing open; the process implements `StatementStore`; a successful registration is exact | 3 sessions, every failing step, 4 versions of the commands |
| `lifecycle_caches` (violated) | after a failed start the caches point to a destroyed bot | the same |
| `teams` | map and tables agree, also after failed statements, loads and restarts; only the named member goes | 2 commands at a time, 2 users, 2 teams; 1.9 million states |
| `records` | rows have messages, messages have rows or reasons, deletions are confirmed and entitled and keep to their guild, reports cover what was left; every command ends | 2 commands of 2 users under one name; or deletions of 3 messages in 2 channels and 2 guilds; or a tag, a select and a config |
| `records_nsfw` (violated) | a tag set while a message is fetched is not seen | 2 commands |
| `cache` | the containers agree, purges drop the least wanted; the cache implements `BoundedCache`, which keeps to its limit and spares the newcomer | 5 keys, limit 4, purge 2, numbers up to 4 |
| `entity_caches` | what a cache holds is Discord's, but for an update on its way, an update that overtook older data, and a deleted role; a permission computed while nothing changes is the one Discord grants | 1 command, 2 changes, 1 role and 1 of another guild, 2 places in the role cache; 2.3 million states |
| `listings` | who may be left with "thinking": only where the answer failed, a restart came, or insert text reports to the command instead of the form; pages hold the texts and the page shown is the one the list believes to show; lists are current; descriptions and cooldowns are what was asked for; every list ends | 2 handlers, 5 records on up to 3 pages, 2 clicks, 2 teams, 6 combinations of commands; 102 thousand states |
| `listings_form` (violated) | a submitted form stays at "thinking" when the insert fails | the same |

**Bounds, and why they are enough.** `MaxStarts = 2`: a second start meets everything the
first can leave behind. Three jobs: one executed, one in hand, one queued. `CounterModulus`
3 makes the counters wrap within the run. `MaxSessions = 3`: a failed session, one after it,
and one that inherits from both. The versions of the program: a command more, one that differs,
and one listed twice. Two commands: each hazard listed is between two. `Ids`: how
many messages exist at a time; three, with `BulkMax = 2` for the code's 100, give a list that
is full, one that is not, and two channels. `MaxFrequency = 4` with five keys for four places
gives ties, distinct numbers and purges of both; a decay of 0.7 merges some.
In `entity_caches` two changes are what it takes for an older
answer to be overtaken by one update and followed by another; other commands act through
`OtherGuild`, which fills and empties the caches at any time, and the proofs cover any number of
commands of the same guild. In `listings`, `TextLimit = 12` for the code's 2000, with texts
of size 2, 4 and 10 and an overhead of 3, makes pages that are exactly full, pages with room
that is not enough, and a text for which no page is long enough; three pages and two clicks reach
every page from both sides; the cooldowns are at the ends of their ranges and beyond them.
`Requests`, `RecordRequests`, `TeamRequests` and the `Workloads` are the commands a run is about:
same name, same user, other's records; commands that touch nothing in common do not come together.
Symmetry is used for jobs, keys, handlers, teams and users where a run has no temporal
property beyond action properties.

`CHECK_DEADLOCK FALSE` is in the runs whose program ends: the runner's when its bounded
starts are used up, and the lifecycle's when the process exits.

**Fairness.** `JobsRunner!Fairness` is weak fairness of every thread that can go on: the
scheduler runs a runnable thread. Nothing obliges the controller to call `start` or `stop`,
a producer to add a job, or a wait to end without cause. `Records!FairSpec` is weak fairness
of what goes on without a user: D++ answers or fails every REST call (it has a timeout), and
timers fire. Confirming, giving commands, changing roles and restarts are not fair.
`Listings!FairSpec` is the same per handler: each call to Discord is answered or fails, and the
timers of dialogs, buttons and lists fire; submitting a form and pressing buttons are not fair.

## 4. The proofs

The proofs assume only the `ASSUME` of the modules they extend: the sets of jobs, handlers,
messages, roles and teams are finite where something is counted; the modulus is positive; a text has
at least one statement; the limit of a cache is positive, a purge takes at least one element and
no more than the limit, the decay keeps the order; markers such as `NoTeam` and
`NoMessage` are no teams and messages; sizes are natural numbers; the rows stored at first, and the
users and teams in the order in which they are listed, are sequences; the names of entities differ,
and the roles of a member are roles of the guild; the owners that `attach_event` constructs are not
among those of the static commands. Two theorems about the map of `MogTeams`, and
`OnlyNamedMembersGo`, have `Threads = 1` as an assumption of their own: without it they are wrong.
D++ 10.0 resumes the coroutines that wait for Discord on one thread, so the assumption is what the
program runs with, and two commands binding one statement is not among its hazards.

`JobsRunner_proofs`: `TypeCorrect`, `PopIsSafe`, `OneLateJob`, `StoppedIsQuiet`,
`JobsInOrder`, `IsJobQueue` and `CountIsExact`. The inductive invariant is `TypeOK /\
ControllerInv /\ WorkerInv`. The
properties alone are not inductive: that the worker finds a job when it pops needs that it
passed the re-check under the lock (`pcW = "pop" => jobs # <<>>`), that at most one job is
late needs that a worker past the re-check has not taken one since the request, and that a
stopped runner is quiet needs what each place of the controller says about the worker.
`FifoStep` then shows that a push appends to the sequence *executed, in hand, waiting* and
that every other step only moves the boundary in it, which gives the order of the jobs and that
each step is one of `JobQueue` or none. `CountersInv` says that the two unsigned counters are
the remainders of true counts, whose difference is the number of jobs queued and in hand, but
for producers that have pushed and not counted; so the unsigned difference is right,
modulo the width, once everybody has counted.

`StatementStore_proofs`: `TypeCorrect`, `KeysArePartitioned`, `KeysAreFresh`,
`OwnersAreIsolated`, `NothingIsLeaked`. The inductive invariant is `TypeOK /\ KeysPartition
/\ OwnerIsolation /\ NoOrphan`. The one step that is not obvious is that the size of the map
plus one is free when the queue is empty: used and freed keys are together `1 .. minted`
without repetition, so an empty queue means the used keys are exactly those
(`AvailableKeyIsFresh`). `ElementsAppend`, `ElementsTail` and `AppendFresh` are the facts
about sequences without repetition that it needs.

`FrequencyCache_proofs`: `TypeCorrect`, `ContainersAgree`, `LimitHolds`, `LeastWantedGo`,
`NewcomerStays` and `IsBoundedCache`. The inductive invariant is `Good`, that the index has
exactly one entry for every stored key, at the number the storage has, and is in order, and
with it the limit. Without it a failed search would erase another key's entry, and then the
purge would drop a key that is not stored. That a purge takes the least wanted follows from
the order of the index, that it spares the newcomer from its coming before the insertion; and
`StepImplements` shows that what every operation does to the elements is a step of
`BoundedCache`, or none.

`BotLifecycle_proofs`: `TypeCorrect`, `StoreIsUsedProperly`, `FlagsAreTrue`, `JobsHaveStatements`,
`ShutdownFindsNothing`, `StaticsStayCurrent` and `RegisteredCommands`. The invariant `LInv` has
four parts. `Control` says which threads run beside which place of the main thread, and that
nothing follows the session of a quit: that is why a static command never meets a second bot.
`Statements` says who has a statement when: the owners of `setup_db` one after another, the
others when their flags say so. The last is the invariant of the store, used as it is proved in
`StatementStore_proofs`: each step of the process is a step of the store or leaves it alone,
which is also the refinement. That destructors delete by key without asking is harmless because
of `Statements`: at the places where they run, the key is the owner's own, or nothing of the
session is left to be hit.

`MogTeams_proofs`: `TypeCorrect`, `MapIsPersisted`, `MapIsComplete` and `OnlyNamedMembersGo`.
Tables and map differ while a command is between them, so the invariant says that the map agrees
with the tables when nobody is at `apply`, and otherwise that the map which that command is about
to leave does (`AppliedCache`). With one thread nobody else is between two waits (`Alone`), so what
is bound is what the command that executes has bound (`BoundOK`).

`Records_proofs`: `TypeCorrect`, `RowsHaveMessages`, `MessagesHaveReasons`, `ReportsAreHonest` and
`OnlyConfirmedDeletes`. The properties are not inductive because a deletion of one command might
take the message of another's row. The invariant excludes that: no two rows share a message
(`UrlsDiffer`), and a message belongs to rows or to commands (`HeldAreNotRows`), and to one
command (`HeldByOne`). For the report it counts: the
failures are never fewer than the messages of the command that exist and that it no longer holds.

`EntityCaches_proofs`: `TypeCorrect`, `OverwritesDecide`, `CachesAreFresh` and
`PermissionIsGranted`. The second is about operators
alone: merging the roles' overwrites and applying everyone's, the roles' and the member's in
this order gives, flag by flag, the rule `Granted`. The third needs more than what it
says. What a command has in its hands it may put into a cache later, so the invariant
`IInv` says of it what `CacheIsFresh` says of a cached element (`GoodCall`); and that
an update makes a cached element right needs that the last update on its way for an entity
says what the entity is (`LastIsTrue`). The lemmas follow Discord's steps, the delivery of an
event (`DeliverGood`) and each step of a command. Other look-ups, purges and the
order of updates can then not break it. For the fourth, `CInv` adds that a command under which
nothing has changed runs while all is calm (no update on its way, none overtaken, nothing
deleted), so that all it has found, carried and been answered is Discord's (`Truthful`); what
it computes is then the rule, by `OverwritesDecide`.

`Listings_proofs` has two invariants. The first gives `WhoIsLeftThinking`, `DescriptionsAreAsked`
and `CooldownsAreAsked`. That somebody is left with "thinking" takes several steps of two
interactions, so the invariant `Quiet` says, for each place of a command, which of its two
interactions may still show it: only the one that is going to be answered, and, when insert text
reports to the command, the form. `RepliesOK` says that "thinking" is never what a
first reply will meet, so that the answer is an edit, which Discord takes. Each step of a command or
list then *serves* its user (`Serves`): it keeps this, touches no other command's interactions, and,
if it is the last, leaves an answer, or a failure of the very call that answers. What the theorem
excepts by name is a restart and the form, whose refused insert is the violated `listings_form`.

The second, `ListInv`, stands on the first and gives `TypesHold`, `TextsAreOnPages`,
`ShownPageIsSeen` and `ListsShowWhatIsStored`. None of the four is inductive. That a waiting list
shows the page its user sees needs that its next reply is an edit Discord accepts, from when the
command has thought until its list ends (`ToBeEdited`, `Editable`), which is where the first
invariant comes in; that it can be turned needs the number of pages and the place it is at
(`Placed`), and that its pages hold the texts needs that they are `Pages` of these texts, which are
there (`Listable`) because of what the command has read (`HasRead`). Each step of a command or list
*keeps* this for its own handler and leaves the others aside (`Keeps`, `Aside`).

What `Pages`, `Selection`, `Total` and `FlattenSeq` compute, for sequences of any length, is proved by
induction. An induction theorem that takes an operator is out of the prover's reach, so induction is
stated over sets (`Induction`, `InductionUpTo`, from the smallest element that `WFMin` of the library
gives) and used for the set of the places up to which a loop has done what it should; `Recursion`
gives the function that a `LET` defines. `Fits` is the invariant of the loop that fills the
pages: its size is that of the last page, no page is too long, and none was begun while
there was room for its first text on the page before (`FitsNew`, `FitsSame`).

Only model-checked: liveness (`JobEventuallyRuns`, `EveryCommandEnds`, `EveryListEnds`), which is
out of the prover's reach. Every other property of a passing run is stated by a theorem.
No module has a recursive operator.

## 5. Where code and words disagree

The violated runs above, each with its quotation in `findings` of `PROJECT.json`: `stop` may
hang; the caches outlive the bot they point to; a tag can arrive too late; a submitted form is left
at "thinking".

Read in the code and not shown by a run: a job is counted as added after the worker was
notified, so it may be completed first, and the number of queued jobs is then 2^64 - 1 for a
moment (`runner` checks that the difference is right once everybody has counted); the worker
waits when its queue is empty, although the comment of `run_jobs` says that it terminates; with
several threads on which coroutines resume, which D++ 10.0 does not have, two team commands could bind one statement before either
executes it (`MogTeams` with `Threads = 2`); after a confirmation the permissions are not
asked for again; the help of `leave_and_join` calls `team_to_leave` ignorable, which the code does not
let it be (`commands/slash/mog/team.cpp:608`); the check of the seconds of a cooldown looks at the
minutes (`arma.cpp:96`), so that only Discord's own ranges keep the seconds in theirs; what `show`
puts into its caches is never displayed, which hides that an update by an administrator leaves the
owner's cached list as it was.

## 6. Not modelled

* The row loop, transactions and text conversion of `exec` (`database_handler.cpp`,
  `db_result.h`): the callers see rows, or a failure, which is what the modules have.
* `check_permissions` and `get_additional_perms_required_task` (`perms.cpp`): comparisons of the
  computed permissions with those a message needs, without state.
* The getters of `caches.cpp` that are not tasks, which no command here calls; the counters of requests and
  misses; the cache of dump channels, which changes in the same step as its table.
* What is left of a cooldown when it is shown (`time.cpp`): arithmetic on the clock.
* `/db help`, privacy, the simple commands and the other event runners: each reads its
  parameters, makes one or two calls and answers; only report keeps anything, the id of a channel.
* Tables of texts, constants and formatting: no state.
* The data race of the static commands' statements with the worker (`database_handler.cpp:376`): that
  the two happen together is in `BotLifecycle`; its outcome is not a value of the program.
