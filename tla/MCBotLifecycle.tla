--------------------------- MODULE MCBotLifecycle ---------------------------
(* A small instance of BotLifecycle for TLC.  Two statements of setup_db,  *)
(* the second a text of several; of the attached owners, team stands with  *)
(* two statements (the first a text of two, so that a partial save can     *)
(* hand its key on), insert_guild_db with one; one static db command.      *)
(* Versions of the program have two commands, one of them with a new or an *)
(* old definition, or one command, or the same command twice.              *)
EXTENDS BotLifecycle

CONSTANTS optimize, select_all, dump_channel, show_team, show_all, insert_guild, db_insert,
          db, team, old_team

SetupSeq == <<select_all, optimize>>
AttachSeq == <<show_team, show_all, insert_guild>>
LazySeq == <<db_insert>>

TeamOwners == {show_team, show_all}
GuardedOwners == {insert_guild}

Lengths == [o \in {optimize, select_all, dump_channel, show_team, show_all,
                   insert_guild, db_insert} |->
              IF o \in {select_all, show_team} THEN 2 ELSE 1]

AllDefinitions == {db, team, old_team}
AllVersions == {<<db, team>>, <<db, old_team>>, <<db>>, <<db, db>>}
=============================================================================
