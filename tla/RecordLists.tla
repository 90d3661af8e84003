---------------------------- MODULE RecordLists ----------------------------
(***************************************************************************)
(* What the /db commands say to their users: show all and show user        *)
(* (commands/slash/db/db_show.cpp), which list the records of a guild;     *)
(* the commands that change what they list, insert, update description and *)
(* delete single; and the copies of the lists in show_all_cache and        *)
(* show_user_cache.  Where the records' messages live is the business of   *)
(* Records; here a record has a name, an owner and a description.          *)
(*                                                                         *)
(* A command is a coroutine that lets others run at every call to Discord. *)
(* insert text and delete wait for a second interaction, the form or the   *)
(* button that they asked for, and answer that one in the end.             *)
(***************************************************************************)
EXTENDS Commands

CONSTANTS
  UserOrder,         \* the users, by ascending id
  Names,
  Descriptions,
  NoDescription,     \* NULL
  RecordSize,        \* the size of a record's text, by its description
  StoredRows,        \* the rows that the program finds as it starts
  RecordRequests     \* the /db commands that are given

Users == ToSet(UserOrder)
MaybeDescription == Descriptions \cup {NoDescription}

Shows == {"show_all", "show_user"}
Inserts == {"text", "file"}
RecordKinds == Shows \cup Inserts \cup {"description", "delete"}

\* user gives the command; owner is the parameter user of show user, the owner
\* of the others; description may be left out.
RecordRequest ==
  [kind : RecordKinds, user : Users, owner : Users, name : Names,
   description : MaybeDescription]

Row == [name : Names, user : Users, desc : MaybeDescription]

ASSUME RecordListsAssumption ==
  /\ UserOrder \in Seq(Users)
  /\ NoDescription \notin Descriptions
  /\ RecordSize \in [MaybeDescription -> Nat]
  /\ StoredRows \in Seq(Row)
  /\ RecordRequests \subseteq RecordRequest

VARIABLES
  storage,           \* the rows, in the order of creation_time
  bound,             \* what is bound for the description of either statement
  show_all_cache,    \* the cached list of the guild
  show_user_cache    \* the cached list of each user

records == <<storage, bound, show_all_cache, show_user_cache>>

\* Nothing is cached for the key: no list that is cached is empty.
NotCached == <<>>

RecordsInit ==
  /\ storage = StoredRows
  /\ bound = [s \in {"insert", "update"} |-> NoDescription]
  /\ show_all_cache = NotCached
  /\ show_user_cache = [u \in Users |-> NotCached]

-----------------------------------------------------------------------------
(* show                                                                    *)

RowsOf(u) == Selection(storage, {row \in ToSet(storage) : row.user = u})

\* What the SELECT of the show gives: ORDER BY user_id, creation_time.
Selected(r) ==
  IF r.kind = "show_all"
    THEN FlattenSeq([n \in DOMAIN UserOrder |-> RowsOf(UserOrder[n])])
    ELSE RowsOf(r.owner)

TextOf(row) == [of |-> row, size |-> RecordSize[row.desc]]
TextsOf(rows) == [n \in DOMAIN rows |-> TextOf(rows[n])]

\* Mutant: what is cached is displayed without a query.
SelectedOrCached(r) ==
  LET cached == IF r.kind = "show_all" THEN show_all_cache
                                       ELSE show_user_cache[r.owner]
  IN IF cached = NotCached THEN Selected(r) ELSE cached

\* get_show_all and get_show_user look into the caches but never give what they
\* find, so that the query is executed each time.
Shown(r) == Selected(r)

\* The list of a user is cached and displayed at once.
ShowUser(h) ==
  LET rows == Shown(run[h].req)
  IN /\ At(h, "ready", {"show_user"})
     /\ IF rows = <<>>
          THEN /\ Close(h, "command")
               /\ UNCHANGED <<show_user_cache, list>>
          ELSE /\ show_user_cache' = [show_user_cache EXCEPT ![run[h].req.owner] = rows]
               /\ StartList(h, TextsOf(rows))
               /\ Do(h, Idle)
     /\ UNCHANGED <<storage, bound, show_all_cache, replies>>

\* For the list of the guild the owners' names are asked for first.
ReadAll(h) ==
  LET rows == Shown(run[h].req)
  IN /\ At(h, "ready", {"show_all"})
     /\ IF rows = <<>>
          THEN Close(h, "command")
          ELSE Do(h, [run[h] EXCEPT !.step = "naming", !.rows = rows])
     /\ UNCHANGED <<records, replies, list>>

ShowAll(h) ==
  /\ At(h, "naming", {"show_all"})
  /\ show_all_cache' = run[h].rows
  /\ StartList(h, TextsOf(run[h].rows))
  /\ Do(h, Idle)
  /\ UNCHANGED <<storage, bound, show_user_cache, replies>>

\* get_user_task fails for one of the owners, and says so.
NamingFails(h) ==
  /\ At(h, "naming", {"show_all"})
  /\ Close(h, "command")
  /\ UNCHANGED <<records, replies, list>>

-----------------------------------------------------------------------------
(* What the other commands do to the records and the caches.               *)

\* remove_element of both caches.
Invalidate(u) ==
  /\ show_all_cache' = NotCached
  /\ show_user_cache' = [show_user_cache EXCEPT ![u] = NotCached]

\* Mutant: nothing is bound for a description that is left out.
BindGiven(s, d) == IF d = NoDescription THEN bound ELSE [bound EXCEPT ![s] = d]

\* bind_parameter with a text or, for a description that is left out, with NULL.
Bind(s, d) == [bound EXCEPT ![s] = d]

Taken(n) == \E i \in DOMAIN storage : storage[i].name = n

\* execute_query up to the invalidation: a new row, with what is bound.
InsertRow(r) ==
  /\ ~ Taken(r.name)
  /\ bound' = Bind("insert", r.description)
  /\ storage' = Append(storage, [name |-> r.name, user |-> r.user,
                                 desc |-> bound'["insert"]])
  /\ Invalidate(r.user)

\* The name is taken, or the statement fails.
InsertFails(r) ==
  /\ bound' = Bind("insert", r.description)
  /\ UNCHANGED <<storage, show_all_cache, show_user_cache>>

\* update description: an administrator may name another owner, whose list
\* stays in show_user_cache: the list of the administrator goes.
DescribeRow(r) ==
  /\ \E i \in DOMAIN storage :
       /\ storage[i].name = r.name /\ storage[i].user = r.owner
       /\ bound' = Bind("update", r.description)
       /\ storage' = [storage EXCEPT ![i].desc = bound'["update"]]
  /\ Invalidate(r.user)

\* delete single: the row, and the lists it was on.
DeleteRow(r) ==
  /\ \E i \in DOMAIN storage :
       /\ storage[i].name = r.name /\ storage[i].user = r.owner
       /\ storage' = RemoveAt(storage, i)
  /\ Invalidate(r.owner)
  /\ UNCHANGED bound

\* insert file and url, once the message is made.
InsertFile(h) ==
  /\ At(h, "ready", {"file"})
  /\ InsertRow(run[h].req) \/ InsertFails(run[h].req)
  /\ Close(h, "command")
  /\ UNCHANGED <<replies, list>>

Describe(h) ==
  /\ At(h, "ready", {"description"})
  /\ DescribeRow(run[h].req)
  /\ Close(h, "command")
  /\ UNCHANGED <<replies, list>>

-----------------------------------------------------------------------------
(* insert text: a dialog                                                   *)

OpenDialog(h) ==
  /\ At(h, "ready", {"text"})
  /\ \/ DialogOk(Command(h)) /\ Goto(h, "opened")
     \/ DialogError(Command(h)) /\ Close(h, "command")
  /\ UNCHANGED <<records, list>>

\* "Dialog menu opened, waiting for the user's input!", which is_first_reply
\* takes for the first reply.
SayOpened(h) ==
  /\ At(h, "opened", {"text"})
  /\ Respond(Command(h), Text)
  /\ Goto(h, "waiting")
  /\ UNCHANGED <<records, list>>

\* Five minutes for the dialog, one for the button of delete; or an exception.
StopWaiting(h) ==
  /\ run[h].step = "waiting"
  /\ Close(h, "command")
  /\ UNCHANGED <<records, replies, list>>

Submit(h) ==
  /\ At(h, "waiting", {"text"})
  /\ Goto(h, "submitted")
  /\ UNCHANGED <<records, replies, list>>

\* co_think for the form, whose outcome is not asked for.
ThinkOfForm(h) ==
  /\ At(h, "submitted", {"text"})
  /\ Think(Second(h))
  /\ Goto(h, "filled")
  /\ UNCHANGED <<records, list>>

\* The form is empty, or the message cannot be created.
FormRefused(h) ==
  /\ run[h].step \in {"submitted", "filled"} /\ run[h].req.kind = "text"
  /\ Close(h, "second")
  /\ UNCHANGED <<records, replies, list>>

\* execute_query reports a failure to the command, whatever it is called with.
InsertText(h) ==
  /\ At(h, "filled", {"text"})
  /\ \/ InsertRow(run[h].req) /\ Close(h, "second")
     \/ InsertFails(run[h].req) /\ Close(h, "command")
  /\ UNCHANGED <<replies, list>>

-----------------------------------------------------------------------------
(* delete single: a button                                                 *)

PromptForButton(h) ==
  /\ At(h, "ready", {"delete"})
  /\ \/ RespondOk(Command(h), Prompt) /\ Goto(h, "waiting")
     \/ RespondError(Command(h), Prompt) /\ Close(h, "command")
  /\ UNCHANGED <<records, list>>

\* The user presses one of the buttons; the bot thinks about it.
PressButton(h) ==
  /\ At(h, "waiting", {"delete"})
  /\ response[Command(h)] = Prompt
  /\ Goto(h, "submitted")
  /\ UNCHANGED <<records, replies, list>>

ThinkOfButton(h) ==
  /\ At(h, "submitted", {"delete"})
  /\ Think(Second(h))
  /\ Goto(h, "confirmed") \/ Goto(h, "refused")
  /\ UNCHANGED <<records, list>>

\* The prompt is replaced, whichever button it was.
CloseButton(h) ==
  /\ At(h, "refused", {"delete"})
  /\ Respond(Command(h), Text)
  /\ Close(h, "second")
  /\ UNCHANGED <<records, list>>

Proceed(h) ==
  /\ At(h, "confirmed", {"delete"})
  /\ Respond(Command(h), Text)
  /\ Goto(h, "filled")
  /\ UNCHANGED <<records, list>>

Delete(h) ==
  /\ At(h, "filled", {"delete"})
  /\ DeleteRow(run[h].req) \/ UNCHANGED records
  /\ Close(h, "second")
  /\ UNCHANGED <<replies, list>>

-----------------------------------------------------------------------------
\* What a /db command does without its user.
RecordCommandContinues(h) ==
  \/ ShowUser(h) \/ ReadAll(h) \/ ShowAll(h) \/ NamingFails(h)
  \/ InsertFile(h) \/ Describe(h)
  \/ OpenDialog(h) \/ SayOpened(h) \/ StopWaiting(h) \/ ThinkOfForm(h)
  \/ FormRefused(h) \/ InsertText(h)
  \/ PromptForButton(h) \/ ThinkOfButton(h) \/ CloseButton(h) \/ Proceed(h)
  \/ Delete(h)

RecordCommandStep(h) == RecordCommandContinues(h) \/ Submit(h) \/ PressButton(h)

\* The caches go with the process, and so does what is bound.
RestartRecords ==
  /\ bound' = [s \in {"insert", "update"} |-> NoDescription]
  /\ show_all_cache' = NotCached
  /\ show_user_cache' = [u \in Users |-> NotCached]
  /\ UNCHANGED storage
=============================================================================
