---------------------------- MODULE Registration ----------------------------
(***************************************************************************)
(* The registration of the bot's commands with Discord                     *)
(* (commands/ready/register_commands.cpp), which the ready_runner starts   *)
(* with every ready event, of which the library sends one per shard and    *)
(* connection; only the first of a process does anything.                  *)
(*                                                                         *)
(* What Discord has registered outlives the process: it is what an earlier *)
(* version of the bot, or the same one, left there.  A definition is a     *)
(* command with all that is_same_cmd compares: its options, the ranges of  *)
(* their values and the choices among them.                                *)
(***************************************************************************)
EXTENDS Sequences, FiniteSets

CONSTANTS
  Definitions,       \* of commands
  Versions           \* the lists of definitions a program may have

ASSUME RegistrationAssumption == Versions \subseteq Seq(Definitions)

VARIABLES
  cmds,              \* the definitions of the slash and the context commands
  registered,        \* Discord: the global commands, each a definition
  registration       \* where the one registration of the process is

registrationVars == <<cmds, registered, registration>>

RegistrationSteps == {"not_yet", "asked", "creating", "skipped", "created",
                      "duplicate", "failed"}

SeqSet(s) == {s[i] : i \in DOMAIN s}
Local == SeqSet(cmds)

RegistrationInit ==
  /\ cmds \in Versions
  /\ registered \in {{}} \cup {SeqSet(version) : version \in Versions}
  /\ registration = "not_yet"

Goes(step) == registration' = step /\ UNCHANGED cmds

\* is_same_cmd: equal in all that is compared.
IsSame(first, second) == first = second

HasDuplicate == \E i, j \in DOMAIN cmds : i # j /\ IsSame(cmds[i], cmds[j])

\* run_once, the search for duplicates, and the call that asks for the global
\* commands.
OnReady ==
  /\ registration = "not_yet"
  /\ Goes(IF HasDuplicate THEN "duplicate" ELSE "asked")
  /\ UNCHANGED registered

\* Each of the commands is found (as a mutant: the numbers are not compared).
AllFound == \A i \in DOMAIN cmds : \E cmd \in registered : IsSame(cmds[i], cmd)

\* The numbers are equal, too.
NoMismatch ==
  /\ Cardinality(registered) = Len(cmds)
  /\ AllFound

\* The answer, or none, which is taken for a mismatch.
OnCommands ==
  /\ registration = "asked"
  /\ \/ NoMismatch /\ Goes("skipped")
     \/ Goes("creating")
  /\ UNCHANGED registered

\* co_global_bulk_command_create replaces them all.  If it fails, or only its
\* answer does, an exception ends the coroutine, and nobody tries again.
BulkCreate ==
  /\ registration = "creating"
  /\ \/ registered' = Local /\ Goes("created")
     \/ registered' \in {registered, Local} /\ Goes("failed")

Register == OnReady \/ OnCommands \/ BulkCreate

-----------------------------------------------------------------------------
RegistrationTypeOK ==
  /\ cmds \in Versions
  /\ registered \subseteq Definitions
  /\ registration \in RegistrationSteps

\* Users find this program's commands and no others once the registration has
\* succeeded or was found to be unnecessary, whatever an earlier version had
\* left: of pairwise different commands as many as are registered, all of which
\* are, none is missing and none is left over.
CommandsAreRegistered ==
  registration \in {"skipped", "created"} => registered = Local
=============================================================================
