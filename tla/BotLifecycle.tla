---------------------------- MODULE BotLifecycle ----------------------------
(***************************************************************************)
(* The life of the process, as main.cpp and bot_delta.cpp run it: main     *)
(* builds a bot_delta, start() opens the database and saves the statements *)
(* of every part, the bot runs until somebody presses q, close() and the   *)
(* destructor take it down.  An exception thrown by start() unwinds the    *)
(* bot_delta; main then cleans up and builds a new one.                    *)
(*                                                                         *)
(* The main thread is the program below (pc, step).  Beside it there are   *)
(* the jobs runner's worker, which executes a statement, and, from         *)
(* bot.start to bot.shutdown, the library's threads, on which the first    *)
(* /db command constructs the function-local static db commands, the first *)
(* ready event registers the commands, and a timer executes a statement.   *)
(*                                                                         *)
(* The variables of StatementStore are used here by the code's own calls,  *)
(* which delete by key without asking whose it is; the last part shows     *)
(* that they remain behaviours of StatementStore.                          *)
(***************************************************************************)
EXTENDS Naturals, Sequences, FiniteSets, Registration

CONSTANTS
  Setup,             \* the owners setup_db saves for, in order: all required
  Caches,            \* the owner caches::init saves for: required
  Attach,            \* the owners constructed by attach_event, in order
  Unguarded,         \* those whose destructor deletes whatever key they hold
  Guarded,           \* those that delete only after a successful save
  Optimize,          \* the owner whose statement the timer executes
  JobOwner,          \* the owner whose statement the jobs execute
  Lazy,              \* the owners constructed by the first /db command
  Length,            \* statements in each text, as in StatementStore
  MaxSessions        \* bound: how many bot_delta objects are built

Owners == SeqSet(Setup) \cup {Caches} \cup SeqSet(Attach) \cup SeqSet(Lazy)

ASSUME LifecycleAssumption ==
  /\ \A s \in {Setup, Attach, Lazy} : s \in Seq(SeqSet(s))
  /\ SeqSet(Attach) \cap SeqSet(Lazy) = {}
  /\ Unguarded \cup Guarded \subseteq SeqSet(Attach)
  /\ Unguarded \cap Guarded = {}
  /\ Optimize \in SeqSet(Setup)
  /\ JobOwner \in Guarded
  /\ Length \in [Owners -> Nat \ {0}]
  /\ MaxSessions \in Nat

VARIABLES
  connected, saved, removed, id, claimed, minted,   \* see StatementStore
  pc,                \* where the main thread is
  step,              \* index into Setup or Attach, while one is worked through
  session,           \* which bot_delta this is, counted from 1
  live,              \* a bot_delta exists
  valid,             \* the owners whose flag valid_... / valid_stmt is set
  cachesOf,          \* the session s_cluster and s_db refer to; 0: nullptr
  staticsOf,         \* the session of the static db commands; 0: not built
  lazyStep,          \* index into Lazy while they are being constructed
  quit,              \* is_error = false: somebody pressed q
  worker,            \* jobs runner: "off", "idle" or "busy" with a statement
  running,           \* the flag of the bot_delta: bot.start was called
  optimizing         \* the timer's callback executes its statement

storeVars == <<connected, saved, removed, id, claimed, minted>>
threads == <<lazyStep, worker, running, optimizing>>
vars == <<registrationVars, connected, saved, removed, id, claimed, minted,
          pc, step, session, live, valid, cachesOf, staticsOf, lazyStep, quit,
          worker, running, optimizing>>

Store == INSTANCE StatementStore

Init ==
  /\ RegistrationInit
  /\ Store!Init
  /\ pc = "boot"
  /\ step = 0
  /\ session = 0
  /\ live = FALSE
  /\ valid = {}
  /\ cachesOf = 0
  /\ staticsOf = 0
  /\ lazyStep = 0
  /\ quit = FALSE
  /\ worker = "off"
  /\ running = FALSE
  /\ optimizing = FALSE

-----------------------------------------------------------------------------
(* The calls into the store.                                               *)

\* save_statement for owner o, with its three outcomes.
SaveOk(o) == Store!Save(o)
SaveFailed(o) == Store!SaveInPart(o) \/ UNCHANGED storeVars

\* delete_statement(k), called on behalf of o: a key that is not in the map is
\* an error result that every caller ignores.
DeleteStatement(o, k) ==
  /\ IF k \in DOMAIN saved
       THEN /\ saved' = Store!Without(k)
            /\ removed' = Append(removed, k)
       ELSE UNCHANGED <<saved, removed>>
  /\ claimed' = claimed \ {o}
  /\ UNCHANGED <<connected, minted>>

\* close_connection, successful; without a connection it has no effect.
CloseDatabase ==
  /\ saved' = <<>>
  /\ removed' = <<>>
  /\ claimed' = {}
  /\ minted' = 0
  /\ connected' = FALSE
  /\ UNCHANGED id

-----------------------------------------------------------------------------
(* bot_delta::initialize_environment and bot_delta::start.                 *)

Throw(next) == pc' = next /\ step' = 0

InitializeEnvironment ==
  /\ pc = "boot"
  /\ session < MaxSessions
  /\ \/ pc' = "construct" \/ pc' = "shutdown"
  /\ UNCHANGED <<registrationVars, storeVars, step, session, quit, live, valid,
                 cachesOf, staticsOf, threads>>

\* The members start value-initialised; start() starts the jobs runner first.
Construct ==
  /\ pc = "construct"
  /\ session' = session + 1
  /\ live' = TRUE
  /\ valid' = valid \cap SeqSet(Lazy)
  /\ running' = FALSE
  /\ worker' = "idle"
  /\ id' = [o \in Owners |-> IF o \in SeqSet(Setup) \cup SeqSet(Attach)
                               THEN 0 ELSE id[o]]
  /\ pc' = "open"
  /\ UNCHANGED <<registrationVars, quit, connected, saved, removed, claimed,
                 minted, step, cachesOf, staticsOf, lazyStep, optimizing>>

\* open_connection may fail; so may the pragmas and the creation of tables.
OpenDatabase ==
  /\ pc = "open"
  /\ \/ Store!OpenConnection /\ pc' = "setup" /\ step' = 1
     \/ Store!OpenConnection /\ Throw("unwind")
     \/ UNCHANGED storeVars /\ Throw("unwind")
  /\ UNCHANGED <<registrationVars, session, quit, live, valid, cachesOf,
                 staticsOf, threads>>

SaveSetup ==
  /\ pc = "setup"
  /\ step <= Len(Setup)
  /\ \/ SaveOk(Setup[step]) /\ step' = step + 1 /\ UNCHANGED pc
     \/ SaveFailed(Setup[step]) /\ Throw("unwind")
  /\ UNCHANGED <<registrationVars, session, quit, live, valid, cachesOf,
                 staticsOf, threads>>

\* caches::init sets s_cluster and s_db before the save that may throw.
InitCaches ==
  /\ pc = "setup"
  /\ step = Len(Setup) + 1
  /\ cachesOf' = session
  /\ \/ SaveOk(Caches) /\ pc' = "attach" /\ step' = 1
     \/ SaveFailed(Caches) /\ Throw("unwind")
  /\ UNCHANGED <<registrationVars, session, quit, live, valid, staticsOf,
                 threads>>

AttachEvent ==
  /\ pc = "attach"
  /\ step <= Len(Attach)
  /\ \/ SaveOk(Attach[step]) /\ valid' = valid \cup {Attach[step]}
     \/ SaveFailed(Attach[step]) /\ UNCHANGED valid
  /\ step' = step + 1
  /\ UNCHANGED <<registrationVars, pc, session, quit, live, cachesOf, staticsOf,
                 threads>>

\* bot.start(st_return): the library throws when it cannot reach the gateway.
StartBot ==
  /\ pc = "attach"
  /\ step = Len(Attach) + 1
  /\ running' = TRUE
  /\ \/ pc' = "running" \/ pc' = "unwind"
  /\ UNCHANGED <<registrationVars, storeVars, step, session, quit, live, valid,
                 cachesOf, staticsOf, lazyStep, worker, optimizing>>

-----------------------------------------------------------------------------
(* The other threads, between bot.start and bot.shutdown.                  *)

LibraryRuns == running /\ pc \in {"running", "close", "close_bot"}

\* The first /db command constructs the static db commands one after another.
LazySave ==
  /\ LibraryRuns
  /\ lazyStep < Len(Lazy)
  /\ LET o == Lazy[lazyStep + 1]
     IN \/ SaveOk(o) /\ valid' = valid \cup {o}
        \/ SaveFailed(o) /\ UNCHANGED valid
  /\ lazyStep' = lazyStep + 1
  /\ staticsOf' = session
  /\ UNCHANGED <<registrationVars, pc, step, session, quit, live, cachesOf,
                 worker, running, optimizing>>

\* A ready event: the coroutine of register_commands, which ends with the bot.
RegisterCommands ==
  /\ LibraryRuns
  /\ Register
  /\ UNCHANGED <<storeVars, pc, step, session, quit, live, valid, cachesOf, staticsOf,
                 threads>>

\* A guild_create event gave the worker a job: it binds and executes.
JobBegin ==
  /\ pc \in {"running", "close"}
  /\ worker = "idle"
  /\ JobOwner \in valid
  /\ worker' = "busy"
  /\ UNCHANGED <<registrationVars, storeVars, pc, step, session, quit, live,
                 valid, cachesOf, staticsOf, lazyStep, running, optimizing>>

JobEnd ==
  /\ worker = "busy"
  /\ worker' = "idle"
  /\ UNCHANGED <<registrationVars, storeVars, pc, step, session, quit, live,
                 valid, cachesOf, staticsOf, lazyStep, running, optimizing>>

\* The optimize timer, once a day: exec binds nothing and executes.
TimerBegin ==
  /\ LibraryRuns
  /\ ~ optimizing
  /\ optimizing' = TRUE
  /\ UNCHANGED <<registrationVars, storeVars, pc, step, session, quit, live,
                 valid, cachesOf, staticsOf, lazyStep, worker, running>>

TimerEnd ==
  /\ optimizing
  /\ optimizing' = FALSE
  /\ UNCHANGED <<registrationVars, storeVars, pc, step, session, quit, live,
                 valid, cachesOf, staticsOf, lazyStep, worker, running>>

-----------------------------------------------------------------------------
(* bot_delta::close, repeated by main until it succeeds.                   *)

PressQ ==
  /\ pc = "running"
  /\ pc' = "close"
  /\ quit' = TRUE
  /\ UNCHANGED <<registrationVars, storeVars, step, session, live, valid,
                 cachesOf, staticsOf, threads>>

\* Mutant: the worker is not joined.
StopWithoutJoin ==
  /\ pc = "close"
  /\ pc' = "close_bot"
  /\ UNCHANGED <<registrationVars, storeVars, step, session, quit, live, valid,
                 cachesOf, staticsOf, threads>>

\* j_runner.stop() joins the worker.
StopRunner ==
  /\ pc = "close"
  /\ worker # "busy"
  /\ worker' = "off"
  /\ pc' = "close_bot"
  /\ UNCHANGED <<registrationVars, storeVars, step, session, quit, live, valid,
                 cachesOf, staticsOf, lazyStep, running, optimizing>>

\* Mutant: the callback of the timer is not waited for.
StopTimerOnly ==
  /\ pc = "close_bot"
  /\ running' = FALSE
  /\ pc' = "cleanup"
  /\ UNCHANGED <<registrationVars, storeVars, step, session, quit, live, valid,
                 cachesOf, staticsOf, lazyStep, worker, optimizing>>

\* stop_timer and bot.shutdown(), which joins the library's threads, unless an
\* earlier close did.
StopBot ==
  /\ pc = "close_bot"
  /\ ~ optimizing
  /\ running' = FALSE
  /\ pc' = "cleanup"
  /\ UNCHANGED <<registrationVars, storeVars, step, session, quit, live, valid,
                 cachesOf, staticsOf, lazyStep, worker, optimizing>>

\* caches::cleanup while the bot is alive: the statement is deleted and the
\* key forgotten.
CleanupCaches ==
  /\ pc = "cleanup"
  /\ IF cachesOf # 0
       THEN DeleteStatement(Caches, id[Caches]) /\ id' = [id EXCEPT ![Caches] = 0]
       ELSE UNCHANGED storeVars
  /\ cachesOf' = 0
  /\ pc' = "close_db"
  /\ UNCHANGED <<registrationVars, step, session, quit, live, valid, staticsOf,
                 threads>>

\* sqlite3_close may answer busy: close() returns false and is called again,
\* with every statement already finalized.
CloseConnection ==
  /\ pc = "close_db"
  /\ \/ CloseDatabase /\ pc' = "unwind"
     \/ /\ saved' = <<>> /\ removed' = <<>> /\ claimed' = {} /\ minted' = 0
        /\ UNCHANGED <<connected, id>>
        /\ pc' = "close"
  /\ UNCHANGED <<registrationVars, step, quit, session, live, valid, cachesOf,
                 staticsOf, threads>>

-----------------------------------------------------------------------------
(* ~bot_delta: the body stops the runner and closes the connection, then   *)
(* the members go, and with them the owners, last constructed first.       *)

\* Mutant: the destructor leaves the connection to ~database_handler, which
\* runs after the owners are gone.
UnwindWithoutClose ==
  /\ pc = "unwind"
  /\ worker # "busy"
  /\ worker' = "off"
  /\ pc' = "destroy"
  /\ UNCHANGED <<registrationVars, storeVars, step, session, quit, live, valid,
                 cachesOf, staticsOf, lazyStep, running, optimizing>>

Unwind ==
  /\ pc = "unwind"
  /\ worker # "busy"
  /\ worker' = "off"
  /\ CloseDatabase
  /\ pc' = "destroy"
  /\ UNCHANGED <<registrationVars, step, session, quit, live, valid, cachesOf,
                 staticsOf, lazyStep, running, optimizing>>

DestroyOwner ==
  /\ pc = "destroy"
  /\ step > 1
  /\ LET o == Attach[step - 1]
     IN IF o \in Unguarded \/ o \in Guarded \cap valid
          THEN DeleteStatement(o, id[o]) /\ UNCHANGED id
          ELSE UNCHANGED storeVars
  /\ step' = step - 1
  /\ UNCHANGED <<registrationVars, pc, session, quit, live, valid, cachesOf,
                 staticsOf, threads>>

DestroyBot ==
  /\ pc = "destroy"
  /\ step <= 1
  /\ live' = FALSE
  /\ step' = 0
  /\ pc' = "shutdown"
  /\ UNCHANGED <<registrationVars, storeVars, session, quit, valid, cachesOf,
                 staticsOf, threads>>

-----------------------------------------------------------------------------
(* shutdown_environment, called by run_app after a quit and by main after  *)
(* an exception: sqlite3_shutdown, then caches::cleanup.  When the caches  *)
(* still hold the pointers of a bot_delta that is gone, cleanup detaches   *)
(* handlers from a destroyed cluster and deletes from a destroyed          *)
(* database_handler: the process dies, or nothing happens.                 *)

Shutdown ==
  /\ pc = "shutdown"
  /\ LET next == IF quit THEN "end" ELSE "boot"
     IN IF cachesOf = 0
          THEN pc' = next /\ UNCHANGED id
          ELSE /\ pc' \in {next, "crashed"}
               /\ id' = [id EXCEPT ![Caches] = 0]
  /\ cachesOf' = 0
  /\ UNCHANGED <<registrationVars, connected, saved, removed, claimed, minted,
                 step, session, quit, live, valid, staticsOf, threads>>

MainThread ==
  \/ InitializeEnvironment \/ Construct \/ OpenDatabase \/ SaveSetup
  \/ InitCaches \/ AttachEvent \/ StartBot \/ PressQ \/ StopRunner
  \/ StopBot \/ CleanupCaches \/ CloseConnection \/ Unwind \/ DestroyOwner \/ DestroyBot
  \/ Shutdown

Next ==
  \/ MainThread \/ LazySave \/ RegisterCommands \/ JobBegin \/ JobEnd
  \/ TimerBegin \/ TimerEnd

Spec == Init /\ [][Next]_vars

-----------------------------------------------------------------------------
\* The process's own variables, beside those of StatementStore and
\* Registration, have their type.
TypeOK ==
  /\ RegistrationTypeOK
  /\ Store!TypeOK
  /\ pc \in {"boot", "construct", "open", "setup", "attach", "running", "close",
             "close_bot", "cleanup", "close_db", "unwind", "destroy", "shutdown", "end", "crashed"}
  /\ step \in Nat
  /\ session \in 0 .. MaxSessions
  /\ live \in BOOLEAN
  /\ valid \subseteq Owners
  /\ cachesOf \in 0 .. session
  /\ staticsOf \in 0 .. session
  /\ lazyStep \in 0 .. Len(Lazy)
  /\ quit \in BOOLEAN
  /\ worker \in {"off", "idle", "busy"}
  /\ running \in BOOLEAN
  /\ optimizing \in BOOLEAN

\* Whatever start() managed to save before it failed, and although the
\* destructor of mog::team deletes seven keys without asking whether they were
\* ever given to it, every statement is saved, found and deleted by its owner
\* alone: the connection is closed before the owners go.
UsesStoreProperly == Store!Spec

OwnsStatement(o) == id[o] \in DOMAIN saved /\ saved[id[o]] = o

\* While commands can run, an owner whose flag says that its statement is valid
\* finds its own statement under its key, also after an earlier owner's text
\* was saved in part and its key given away again.
CommandsOwnStatements ==
  pc \in {"attach", "running"} =>
    \A o \in SeqSet(Setup) \cup {Caches} \cup valid :
      OwnsStatement(o)

\* Neither the worker nor the timer executes a statement that was finalized or
\* deleted under it, or is another's: close() joins the worker and the library's
\* threads before the statements go, and so does ~bot_delta.
JobHasStatement ==
  /\ worker = "busy" => OwnsStatement(JobOwner)
  /\ optimizing => OwnsStatement(Optimize)

\* sqlite3_shutdown is called only when no connection is open, no statement is
\* left and no worker runs, on the path of an exception too.
ShutdownIsClean ==
  pc = "shutdown" => ~ connected /\ saved = <<>> /\ ~ live /\ worker = "off"

\* The static db commands keep the references of the session they were built
\* in for the rest of the process: the bot never runs again after them.
StaticsAreCurrent ==
  pc \in {"running", "attach", "open", "setup"} => staticsOf \in {0, session}

-----------------------------------------------------------------------------
(* A statement of the repository that the code does not keep.              *)

\* caches::is_initialized() stands for valid references: the callbacks throw
\* "either the cluster or the database are not valid references!" otherwise.
CachesReferencesValid == cachesOf # 0 => live /\ cachesOf = session
=============================================================================
