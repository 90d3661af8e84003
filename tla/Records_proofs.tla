--------------------------- MODULE Records_proofs ---------------------------
(***************************************************************************)
(* Proofs about Records, for any number of commands, records and messages. *)
(*                                                                         *)
(* The invariant says who answers for which message: a message belongs to  *)
(* one row, or to one command, and to no two of them.  That is what makes  *)
(* the deletions of one command harmless to the records of everybody else. *)
(***************************************************************************)
EXTENDS Records, FiniteSetTheorems, TLAPS

Command ==
  [step : Steps, req : Requests, admin : BOOLEAN,
   dump : Channels \cup {NoChannel}, msg : Message \cup {NoMessage},
   urls : SUBSET Message, visited : SUBSET Channels, lists : SUBSET Message,
   singly : SUBSET Message, failed_deletes : Nat]

\* A command that has begun no deletion and answers for no message.
Bare(c) ==
  /\ c.step \notin {"created", "undo", "lookup", "deleting"}
  /\ c.urls = {} /\ c.visited = {} /\ c.lists = {} /\ c.singly = {}

\* What a command in progress knows of its messages; ch is what Discord has.
CommandOK(c, ch) ==
  /\ c.step \notin {"lookup", "deleting"} =>
       c.urls = {} /\ c.visited = {} /\ c.lists = {} /\ c.singly = {}
  /\ c.step \in {"created", "undo"} => c.msg \in ch
  /\ c.lists \subseteq c.urls /\ c.singly \subseteq c.urls

CommandsOK == \A h \in Handlers : CommandOK(cmd[h], channel)

UrlsDiffer ==
  \A k, l \in DOMAIN storage : storage[k].url = storage[l].url => k = l

HeldAreNotRows == \A h \in Handlers : Held(cmd[h]) \cap Urls = {}

HeldByOne ==
  \A g, h \in Handlers : g # h => Held(cmd[g]) \cap Held(cmd[h]) = {}

Inv ==
  /\ TypeOK /\ CommandsOK /\ UrlsDiffer /\ HeldAreNotRows /\ HeldByOne
  /\ RowHasMessage /\ NoOrphan

SameUrls ==
  /\ DOMAIN storage' = DOMAIN storage
  /\ \A k \in DOMAIN storage : storage'[k].url = storage[k].url

-----------------------------------------------------------------------------
LEMMA IdleCommand == Idle \in Command /\ Bare(Idle) /\ Idle.step = "idle"
<1>1. (CHOOSE r \in Requests : TRUE) \in Requests
  BY RecordsAssumption
<1> QED BY <1>1 DEF Idle, Command, Bare, Steps

LEMMA TypeIsCommand == TypeOK => cmd \in [Handlers -> Command]
BY DEF TypeOK, Command

LEMMA BareHoldsNothing ==
  ASSUME NEW c, Bare(c)
  PROVE  Held(c) = {} /\ \A ch : CommandOK(c, ch)
BY DEF Bare, Held, CommandOK

\* What a command answers for is what it created or what it is to delete.
LEMMA HeldParts ==
  ASSUME NEW c \in Command, NEW ch, CommandOK(c, ch), ch \subseteq Message
  PROVE  /\ Held(c) \subseteq Message
         /\ \A m \in Held(c) : m = c.msg \/ m \in c.urls
         /\ c.step \in {"created", "undo"} => Held(c) = {c.msg}
BY DEF Command, CommandOK, Held

\* Most steps move one command on, leave the urls of the rows alone, delete at
\* most messages the command answered for, and account for what they drop.
LEMMA MovesOn ==
  ASSUME Inv, NEW h \in Handlers, NEW c,
         cmd' = [cmd EXCEPT ![h] = c], TypeOK', SameUrls,
         channel' \subseteq channel, channel \ channel' \subseteq Held(cmd[h]),
         Held(c) \subseteq Held(cmd[h]),
         Held(cmd[h]) \cap channel' \subseteq Held(c) \cup excused',
         excused \subseteq excused', CommandOK(c, channel')
  PROVE  Inv'
<1>0. cmd \in [Handlers -> Command] /\ channel \subseteq Message
  BY TypeIsCommand DEF Inv, TypeOK
<1>1. cmd'[h] = c /\ \A g \in Handlers : g # h => cmd'[g] = cmd[g]
  BY <1>0
<1>2. Urls' = Urls
  BY DEF SameUrls, Urls
<1>3. HeldAreNotRows' /\ HeldByOne'
  <2>1. \A g \in Handlers : Held(cmd'[g]) \subseteq Held(cmd[g])
    BY <1>1
  <2>2. HeldAreNotRows'
    BY <1>2, <2>1 DEF HeldAreNotRows, Inv
  <2>3. HeldByOne'
    BY <2>1 DEF HeldByOne, Inv
  <2> QED BY <2>2, <2>3
<1>4. CommandsOK'
  <2> SUFFICES ASSUME NEW g \in Handlers PROVE CommandOK(cmd'[g], channel')
    BY DEF CommandsOK
  <2>1. CASE g = h
    BY <1>1, <2>1
  <2>2. CASE g # h
    <3>1. CommandOK(cmd[g], channel) /\ cmd'[g] = cmd[g] /\ cmd[g] \in Command
      BY <1>0, <1>1, <2>2 DEF Inv, CommandsOK
    <3>2. cmd[g].step \in {"created", "undo"} => cmd[g].msg \in channel'
      <4>1. SUFFICES ASSUME cmd[g].step \in {"created", "undo"}
                     PROVE  cmd[g].msg \in channel'
        OBVIOUS
      <4>2. cmd[g].msg \in channel /\ cmd[g].msg \in Held(cmd[g])
        BY <3>1, <4>1 DEF CommandOK, Held
      <4>3. cmd[g].msg \notin Held(cmd[h])
        BY <2>2, <4>2 DEF Inv, HeldByOne
      <4> QED BY <4>2, <4>3
    <3> QED BY <3>1, <3>2 DEF CommandOK
  <2> QED BY <2>1, <2>2
<1>5. UrlsDiffer'
  BY DEF UrlsDiffer, SameUrls, Inv
<1>6. RowHasMessage'
  <2>1. Urls \subseteq channel /\ Urls \cap Held(cmd[h]) = {}
    BY DEF Inv, RowHasMessage, HeldAreNotRows
  <2> QED BY <1>2, <2>1 DEF RowHasMessage
<1>7. NoOrphan'
  <2> SUFFICES ASSUME NEW m \in channel', m \notin Urls, m \notin excused'
               PROVE  \E g \in Handlers : m \in Held(cmd'[g])
    BY <1>2 DEF NoOrphan
  <2>1. PICK g \in Handlers : m \in Held(cmd[g])
    BY DEF Inv, NoOrphan
  <2>2. CASE g = h
    BY <1>1, <2>1, <2>2
  <2>3. CASE g # h
    BY <1>1, <2>1, <2>3
  <2> QED BY <2>2, <2>3
<1> QED BY <1>3, <1>4, <1>5, <1>6, <1>7 DEF Inv

-----------------------------------------------------------------------------
(* The steps.                                                              *)

LEMMA InitInv == Init => Inv
<1> SUFFICES ASSUME Init PROVE Inv
  OBVIOUS
<1>1. Idle \in Command /\ \A h \in Handlers : cmd[h] = Idle
  BY IdleCommand DEF Init
<1>2. DOMAIN storage = {} /\ Urls = {}
  BY DEF Init, Urls
<1>3. TypeOK
  <2>1. cmd \in [Handlers -> Command]
    BY <1>1 DEF Init
  <2>2. storage \in [DOMAIN storage -> Row]
    BY <1>2 DEF Init
  <2> QED BY <1>2, <2>1, <2>2 DEF Init, TypeOK, Command
<1>4. CommandsOK /\ HeldAreNotRows /\ HeldByOne
  BY <1>1, <1>2, IdleCommand, BareHoldsNothing DEF CommandsOK, HeldAreNotRows, HeldByOne
<1>5. UrlsDiffer /\ RowHasMessage /\ NoOrphan
  BY <1>2 DEF UrlsDiffer, RowHasMessage, NoOrphan, Init
<1> QED BY <1>3, <1>4, <1>5 DEF Inv

\* A step of a command that answers for nothing before and after it.
LEMMA QuietStep ==
  ASSUME Inv, NEW h \in Handlers, NEW c \in Command, Do(h, c),
         Held(cmd[h]) = {}, Bare(c), SameUrls, TypeOK',
         UNCHANGED <<channel, excused>>
  PROVE  Inv'
<1>1. Held(c) = {} /\ CommandOK(c, channel')
  BY BareHoldsNothing
<1>2. cmd' = [cmd EXCEPT ![h] = c]
  BY DEF Do
<1> QED BY <1>1, <1>2, MovesOn, Zenon

LEMMA CommandTyped ==
  ASSUME Inv, NEW h \in Handlers
  PROVE  /\ cmd \in [Handlers -> Command] /\ cmd[h] \in Command
         /\ CommandOK(cmd[h], channel) /\ channel \subseteq Message
         /\ cmd[h].req \in Requests /\ cmd[h].req \in Request
BY TypeIsCommand, RecordsAssumption DEF Inv, TypeOK, CommandsOK, Command

LEMMA SameType ==
  ASSUME Inv, NEW h \in Handlers, NEW c \in Command, Do(h, c),
         UNCHANGED <<workload, storage, guild_profile, channel, admins, excused>>
  PROVE  TypeOK' /\ SameUrls
<1>1. cmd' \in [Handlers -> Command]
  BY CommandTyped DEF Do
<1> QED BY <1>1 DEF Inv, TypeOK, Command, SameUrls

\* The places at which a command answers for nothing.
Bystander == {"idle", "init", "ready", "asked", "confirmed", "reading", "fetched", "shown"}

LEMMA BystanderIsBare ==
  ASSUME Inv, NEW h \in Handlers, cmd[h].step \in Bystander
  PROVE  Bare(cmd[h]) /\ Held(cmd[h]) = {}
<1>1. Bare(cmd[h])
  BY CommandTyped DEF Bystander, Bare, CommandOK
<1> QED BY <1>1, BareHoldsNothing

\* The steps that change nothing but what the command itself remembers.
LEMMA BystandersStep ==
  ASSUME Inv, NEW h \in Handlers, cmd[h].step \in Bystander,
         NEW c \in Command, Bare(c), Do(h, c),
         UNCHANGED <<workload, storage, guild_profile, channel, admins, excused>>
  PROVE  Inv'
<1>1. Held(cmd[h]) = {}
  BY BystanderIsBare
<1>2. TypeOK' /\ SameUrls
  BY SameType
<1> QED BY <1>1, <1>2, QuietStep

LEMMA BeginStep ==
  ASSUME Inv, NEW h \in Handlers, NEW r \in workload.commands[h], Begin(h, r)
  PROVE  Inv'
<1> DEFINE admin == r.user \in admins
           c == [Idle EXCEPT !.step = "init", !.req = r, !.admin = admin]
<1>1. r \in Requests /\ admin \in BOOLEAN
  BY RecordsAssumption DEF Inv, TypeOK
<1>2. c \in Command /\ Bare(c)
  <2> HIDE DEF admin
  <2> QED BY <1>1, IdleCommand DEF Command, Bare, Steps
<1>3. Do(h, c) /\ cmd[h].step \in Bystander
  BY DEF Begin, Bystander
<1> HIDE DEF c
<1> QED BY <1>2, <1>3, BystandersStep DEF Begin

LEMMA EndsStep ==
  ASSUME Inv, NEW h \in Handlers, cmd[h].step \in Bystander, EndUnchanged(h)
  PROVE  Inv'
<1>1. Idle \in Command /\ Bare(Idle) /\ Do(h, Idle)
  BY IdleCommand DEF EndUnchanged, End
<1> QED BY <1>1, BystandersStep DEF EndUnchanged

LEMMA GotoStep ==
  ASSUME Inv, NEW h \in Handlers, cmd[h].step \in Bystander, NEW s \in Bystander,
         Goto(h, s),
         UNCHANGED <<workload, storage, guild_profile, channel, admins, excused>>
  PROVE  Inv'
<1> DEFINE c == [cmd[h] EXCEPT !.step = s]
<1>1. c \in Command /\ Bare(c)
  BY CommandTyped, BystanderIsBare DEF Command, Bare, Bystander, Steps
<1>2. Do(h, c)
  BY DEF Goto
<1> HIDE DEF c
<1> QED BY <1>1, <1>2, BystandersStep

\* Everything that ends a command which changed nothing.
LEMMA FailuresStep ==
  ASSUME Inv, NEW h \in Handlers,
         \/ LookupFails(h) \/ DialogFails(h) \/ SourceFails(h) \/ CreateFails(h)
         \/ DeleteRefused(h) \/ SelectFails(h)
  PROVE  Inv'
<1>1. cmd[h].step \in Bystander /\ EndUnchanged(h)
  BY DEF LookupFails, DialogFails, SourceFails, CreateFails, DeleteRefused, SelectFails,
     At, Bystander
<1> QED BY <1>1, EndsStep

LEMMA AskingStep ==
  ASSUME Inv, NEW h \in Handlers,
         \/ Prompt(h) \/ Confirm(h) \/ Decline(h) \/ FetchMessage(h) \/ Show(h) \/ Finish(h)
  PROVE  Inv'
<1>1. cmd[h].step \in Bystander
  BY DEF Prompt, Confirm, Decline, FetchMessage, Show, Finish, At, Bystander
<1>2. UNCHANGED <<workload, storage, guild_profile, channel, admins, excused>>
  BY DEF Prompt, Confirm, Decline, FetchMessage, Show, Finish
<1>3. EndUnchanged(h) \/ \E s \in Bystander : Goto(h, s)
  BY <1>2 DEF Prompt, Confirm, Decline, FetchMessage, Show, Finish, Bystander, EndUnchanged
<1> QED BY <1>1, <1>2, <1>3, EndsStep, GotoStep

LEMMA FindDumpStep ==
  ASSUME Inv, NEW h \in Handlers, FindDump(h)
  PROVE  Inv'
<1> DEFINE r == cmd[h].req
           dump == IF guild_profile[r.guild] = NoChannel THEN r.channel
                                                         ELSE guild_profile[r.guild]
           c == [cmd[h] EXCEPT !.step = "ready", !.dump = dump]
<1>1. cmd[h].step \in Bystander
  BY DEF FindDump, At, Bystander
<1>2. r \in Request /\ guild_profile[r.guild] \in Channels \cup {NoChannel}
  BY CommandTyped DEF Inv, TypeOK, Request
<1>3. dump \in Channels \cup {NoChannel}
  BY <1>2 DEF Request
<1>4. c \in Command /\ Bare(c)
  <2> HIDE DEF dump
  <2> QED BY <1>1, <1>3, CommandTyped, BystanderIsBare DEF Command, Bare, Steps
<1>5. EndUnchanged(h) \/ Do(h, c)
  BY DEF FindDump, EndUnchanged
<1>6. UNCHANGED <<workload, storage, guild_profile, channel, admins, excused>>
  BY DEF FindDump
<1> HIDE DEF c
<1> QED BY <1>1, <1>4, <1>5, <1>6, EndsStep, BystandersStep

LEMMA ReadRowStep ==
  ASSUME Inv, NEW h \in Handlers, ReadRow(h)
  PROVE  Inv'
<1> DEFINE c == [cmd[h] EXCEPT !.step = "reading", !.msg = storage[Key(cmd[h])].url]
<1>1. cmd[h].step \in Bystander
  BY DEF ReadRow, At, Bystander
<1>2. storage[Key(cmd[h])].url \in Message
  BY DEF ReadRow, Inv, TypeOK, Row
<1>3. c \in Command /\ Bare(c)
  BY <1>1, <1>2, CommandTyped, BystanderIsBare DEF Command, Bare, Steps
<1>4. Do(h, c)
  BY DEF ReadRow
<1> HIDE DEF c
<1> QED BY <1>1, <1>3, <1>4, BystandersStep DEF ReadRow

LEMMA UpdateNsfwStep ==
  ASSUME Inv, NEW h \in Handlers, UpdateNsfw(h)
  PROVE  Inv'
<1> DEFINE k == Key(cmd[h])
<1>1. Held(cmd[h]) = {}
  BY BystanderIsBare DEF UpdateNsfw, At, Bystander
<1>2. Idle \in Command /\ Bare(Idle) /\ Do(h, Idle)
  BY IdleCommand DEF UpdateNsfw, End
<1>3. k \in DOMAIN storage /\ storage \in [DOMAIN storage -> Row]
        /\ cmd[h].req.nsfw \in BOOLEAN
  BY CommandTyped DEF UpdateNsfw, Inv, TypeOK, Request
<1>4. storage' = [storage EXCEPT ![k].nsfw = cmd[h].req.nsfw]
  BY DEF UpdateNsfw
<1>5. SameUrls /\ storage' \in [DOMAIN storage' -> Row]
  <2> HIDE DEF k
  <2> QED BY <1>3, <1>4 DEF SameUrls, Row
<1>6. TypeOK'
  <2>1. cmd' \in [Handlers -> Command]
    BY <1>2, CommandTyped DEF Do
  <2> QED BY <1>5, <2>1 DEF UpdateNsfw, Inv, TypeOK, Command, SameUrls
<1> QED BY <1>1, <1>2, <1>5, <1>6, QuietStep DEF UpdateNsfw

LEMMA UpdateDumpStep ==
  ASSUME Inv, NEW h \in Handlers, UpdateDump(h)
  PROVE  Inv'
<1>1. Held(cmd[h]) = {}
  BY BystanderIsBare DEF UpdateDump, At, Bystander
<1>2. Idle \in Command /\ Bare(Idle) /\ Do(h, Idle)
  BY IdleCommand DEF UpdateDump, End
<1>3. SameUrls
  BY DEF SameUrls, UpdateDump
<1>4. TypeOK'
  <2>1. cmd' \in [Handlers -> Command]
    BY <1>2, CommandTyped DEF Do
  <2>2. guild_profile' \in [Guilds -> Channels \cup {NoChannel}]
    BY CommandTyped DEF UpdateDump, Inv, TypeOK, Request
  <2> QED BY <2>1, <2>2 DEF UpdateDump, Inv, TypeOK, Command
<1> QED BY <1>1, <1>2, <1>3, <1>4, QuietStep DEF UpdateDump

-----------------------------------------------------------------------------
(* insert.                                                                 *)

\* The one step that adds a message: it is nobody's yet.
LEMMA CreateMessageStep ==
  ASSUME Inv, NEW h \in Handlers, CreateMessage(h)
  PROVE  Inv'
<1>1. PICK m \in Message :
        /\ Fresh(m) /\ channel' = channel \cup {m}
        /\ \/ Do(h, [cmd[h] EXCEPT !.step = "created", !.msg = m]) /\ UNCHANGED excused
           \/ End(h) /\ excused' = excused \cup {m}
  BY DEF CreateMessage
<1>2. UNCHANGED <<workload, storage, guild_profile, admins>> /\ Urls' = Urls
  BY DEF CreateMessage, Urls
<1>3. cmd[h] \in Command /\ Bare(cmd[h]) /\ Held(cmd[h]) = {}
  BY CommandTyped, BystanderIsBare DEF CreateMessage, At, Bystander
<1>4. m \notin channel /\ m \notin Urls /\ \A g \in Handlers : m \notin Held(cmd[g])
  <2>1. \A g \in Handlers : cmd[g] \in Command /\ CommandOK(cmd[g], channel)
                            /\ channel \subseteq Message
    BY CommandTyped
  <2> QED BY <1>1, <2>1, HeldParts DEF Fresh
<1>5. PICK c \in Command :
        /\ Do(h, c) /\ CommandOK(c, channel') /\ Held(c) \subseteq {m}
        /\ {m} \subseteq Held(c) \cup excused' /\ excused \subseteq excused'
        /\ excused' \subseteq Message
  <2>0. excused \subseteq Message
    BY DEF Inv, TypeOK
  <2>1. CASE Do(h, [cmd[h] EXCEPT !.step = "created", !.msg = m]) /\ UNCHANGED excused
    <3> DEFINE c == [cmd[h] EXCEPT !.step = "created", !.msg = m]
    <3>1. c \in Command /\ c.step = "created" /\ c.msg = m
            /\ c.urls = {} /\ c.visited = {} /\ c.lists = {} /\ c.singly = {}
      BY <1>3 DEF Command, Steps, Bare
    <3> HIDE DEF c
    <3>2. CommandOK(c, channel') /\ Held(c) = {m}
      BY <1>1, <3>1 DEF CommandOK, Held
    <3> QED BY <2>0, <2>1, <3>1, <3>2 DEF c
  <2>2. CASE End(h) /\ excused' = excused \cup {m}
    BY <2>0, <2>2, IdleCommand, BareHoldsNothing DEF End
  <2> QED BY <1>1, <2>1, <2>2
<1>6. cmd'[h] = c /\ \A g \in Handlers : g # h => cmd'[g] = cmd[g]
  BY <1>5, CommandTyped DEF Do
<1>7. TypeOK'
  <2>1. cmd' \in [Handlers -> Command] /\ channel' \subseteq Message
    BY <1>1, <1>5, CommandTyped DEF Do
  <2> QED BY <1>2, <1>5, <2>1 DEF Inv, TypeOK, Command
<1>8. CommandsOK'
  <2>1. \A g \in Handlers : g # h => CommandOK(cmd[g], channel')
    BY <1>1 DEF Inv, CommandsOK, CommandOK
  <2> QED BY <1>5, <1>6, <2>1 DEF CommandsOK
<1>9. HeldAreNotRows' /\ HeldByOne'
  <2>1. \A g \in Handlers : Held(cmd'[g]) \cap Urls = {}
    BY <1>4, <1>5, <1>6 DEF Inv, HeldAreNotRows
  <2>2. ASSUME NEW f \in Handlers, NEW g \in Handlers, f # g
        PROVE  Held(cmd'[f]) \cap Held(cmd'[g]) = {}
    BY <1>4, <1>5, <1>6, <2>2 DEF Inv, HeldByOne
  <2> QED BY <1>2, <2>1, <2>2 DEF HeldAreNotRows, HeldByOne
<1>10. UrlsDiffer' /\ RowHasMessage'
  BY <1>1, <1>2 DEF Inv, UrlsDiffer, RowHasMessage
<1>11. NoOrphan'
  <2> SUFFICES ASSUME NEW n \in channel', n \notin Urls, n \notin excused'
               PROVE  \E g \in Handlers : n \in Held(cmd'[g])
    BY <1>2 DEF NoOrphan
  <2>1. CASE n = m
    BY <1>5, <1>6, <2>1
  <2>2. CASE n # m
    <3>1. n \in channel /\ n \notin excused
      BY <1>1, <1>5, <2>2
    <3>2. PICK g \in Handlers : n \in Held(cmd[g])
      BY <3>1 DEF Inv, NoOrphan
    <3> QED BY <1>3, <1>6, <3>2
  <2> QED BY <2>1, <2>2
<1> QED BY <1>7, <1>8, <1>9, <1>10, <1>11 DEF Inv

\* The created message becomes the message of a row, or is to be deleted.
LEMMA ExecuteQueryStep ==
  ASSUME Inv, NEW h \in Handlers, ExecuteQuery(h)
  PROVE  Inv'
<1>0. /\ cmd[h] \in Command /\ cmd \in [Handlers -> Command]
      /\ CommandOK(cmd[h], channel) /\ cmd[h].step = "created"
      /\ channel \subseteq Message
  BY CommandTyped DEF ExecuteQuery, At
<1>1. cmd[h].msg \in channel /\ Held(cmd[h]) = {cmd[h].msg}
  BY <1>0, HeldParts DEF CommandOK
<1>2. UNCHANGED <<workload, guild_profile, channel, admins, excused>>
  BY DEF ExecuteQuery
<1>3. CASE Goto(h, "undo") /\ UNCHANGED storage
  <2> DEFINE c == [cmd[h] EXCEPT !.step = "undo"]
  <2>1. /\ c \in Command /\ c.step = "undo" /\ c.msg = cmd[h].msg
        /\ c.urls = cmd[h].urls /\ c.lists = cmd[h].lists /\ c.singly = cmd[h].singly
        /\ c.visited = cmd[h].visited
    BY <1>0 DEF Command, Steps
  <2>2. Do(h, c)
    BY <1>3 DEF Goto
  <2> HIDE DEF c
  <2>3. CommandOK(c, channel) /\ Held(c) = {cmd[h].msg}
    BY <1>0, <1>1, <2>1 DEF CommandOK, Held
  <2>4. TypeOK' /\ SameUrls
    BY <1>2, <1>3, <2>1, <2>2, SameType
  <2>5. cmd' = [cmd EXCEPT ![h] = c] /\ channel' = channel /\ excused' = excused
    BY <1>2, <2>2 DEF Do
  <2> QED BY <1>1, <2>3, <2>4, <2>5, MovesOn
<1>4. CASE /\ Key(cmd[h]) \notin DOMAIN storage
           /\ storage' = WithRow(cmd[h])
           /\ End(h)
  <2> DEFINE new == Key(cmd[h])
             m == cmd[h].msg
  <2>1. /\ new \in Guilds \X Names /\ m \in Message
        /\ [url |-> m, user |-> cmd[h].req.user, nsfw |-> cmd[h].req.nsfw] \in Row
    BY <1>0, <1>1, CommandTyped DEF Key, Request, Row
  <2>2. /\ DOMAIN storage' = (DOMAIN storage) \cup {new}
        /\ storage' \in [DOMAIN storage' -> Row]
        /\ storage'[new].url = m
        /\ \A k \in DOMAIN storage : storage'[k] = storage[k]
    BY <1>4, <2>1 DEF WithRow, Inv, TypeOK, Row
  <2>3. Urls' = Urls \cup {m}
    BY <1>4, <2>2 DEF Urls
  <2>4. cmd'[h] = Idle /\ \A g \in Handlers : g # h => cmd'[g] = cmd[g]
    BY <1>0, <1>4 DEF End, Do
  <2>5. Held(Idle) = {} /\ CommandOK(Idle, channel)
    BY IdleCommand, BareHoldsNothing
  <2>6. TypeOK'
    <3>1. cmd' \in [Handlers -> Command]
      BY <1>0, <1>4, IdleCommand DEF End, Do
    <3>2. DOMAIN storage' \subseteq Guilds \X Names
      BY <2>1, <2>2 DEF Inv, TypeOK
    <3> QED BY <1>2, <2>2, <3>1, <3>2 DEF Inv, TypeOK, Command
  <2>7. CommandsOK'
    BY <1>2, <2>4, <2>5 DEF Inv, CommandsOK
  <2>8. HeldAreNotRows' /\ HeldByOne'
    <3>1. \A g \in Handlers : g # h => m \notin Held(cmd[g])
      BY <1>1 DEF Inv, HeldByOne
    <3>2. HeldAreNotRows'
      BY <2>3, <2>4, <2>5, <3>1 DEF Inv, HeldAreNotRows
    <3>3. HeldByOne'
      BY <2>4, <2>5 DEF Inv, HeldByOne
    <3> QED BY <3>2, <3>3
  <2>9. UrlsDiffer'
    <3>1. m \notin Urls
      BY <1>1 DEF Inv, HeldAreNotRows
    <3>2. \A k \in DOMAIN storage : storage[k].url # m
      BY <3>1 DEF Urls
    <3> QED BY <2>2, <3>2 DEF Inv, UrlsDiffer
  <2>10. RowHasMessage'
    BY <1>1, <1>2, <2>3 DEF Inv, RowHasMessage
  <2>11. NoOrphan'
    <3> SUFFICES ASSUME NEW n \in channel, n \notin Urls \cup {m}, n \notin excused
                 PROVE  \E g \in Handlers : n \in Held(cmd'[g])
      BY <1>2, <2>3 DEF NoOrphan
    <3>1. PICK g \in Handlers : n \in Held(cmd[g])
      BY DEF Inv, NoOrphan
    <3>2. g # h
      BY <1>1, <3>1
    <3> QED BY <2>4, <3>1, <3>2
  <2> QED BY <2>6, <2>7, <2>8, <2>9, <2>10, <2>11 DEF Inv
<1> QED BY <1>3, <1>4 DEF ExecuteQuery

LEMMA DeleteCreatedStep ==
  ASSUME Inv, NEW h \in Handlers, DeleteCreated(h)
  PROVE  Inv'
<1>1. /\ cmd[h] \in Command /\ cmd \in [Handlers -> Command]
      /\ Held(cmd[h]) = {cmd[h].msg} /\ cmd[h].msg \in channel /\ channel \subseteq Message
  BY CommandTyped, HeldParts DEF DeleteCreated, At, CommandOK
<1>2. cmd' = [cmd EXCEPT ![h] = Idle] /\ SameUrls
  BY DEF DeleteCreated, End, Do, SameUrls
<1>3. /\ channel' \subseteq channel /\ channel \ channel' \subseteq Held(cmd[h])
      /\ Held(cmd[h]) \cap channel' \subseteq excused' /\ excused \subseteq excused'
  BY <1>1 DEF DeleteCreated
<1>4. TypeOK'
  <2>1. cmd' \in [Handlers -> Command]
    BY <1>1, <1>2, IdleCommand
  <2>2. channel' \subseteq Message /\ excused' \subseteq Message
    BY <1>1 DEF DeleteCreated, Inv, TypeOK
  <2> QED BY <2>1, <2>2 DEF DeleteCreated, Inv, TypeOK, Command
<1>5. Held(Idle) = {} /\ CommandOK(Idle, channel')
  BY IdleCommand, BareHoldsNothing
<1> QED BY <1>2, <1>3, <1>4, <1>5, MovesOn

-----------------------------------------------------------------------------
(* delete.                                                                 *)

\* The rows go, and their messages pass into the hands of the command.
LEMMA ExecDeleteStep ==
  ASSUME Inv, NEW h \in Handlers, ExecDelete(h)
  PROVE  Inv'
<1> DEFINE rows == Selected(cmd[h].req)
           urls == {storage[k].url : k \in rows}
           c == [cmd[h] EXCEPT !.step = "lookup", !.urls = urls]
<1>0. /\ cmd[h] \in Command /\ cmd \in [Handlers -> Command]
      /\ Bare(cmd[h]) /\ Held(cmd[h]) = {} /\ rows \subseteq DOMAIN storage
  BY CommandTyped, BystanderIsBare DEF ExecDelete, At, Bystander, Selected
<1>1. /\ Do(h, c) /\ storage' = [k \in (DOMAIN storage) \ rows |-> storage[k]]
      /\ UNCHANGED <<workload, guild_profile, channel, admins, excused>>
  BY DEF ExecDelete
<1> HIDE DEF rows
<1>2. urls \subseteq Urls /\ urls \subseteq Message
  BY <1>0 DEF Urls, Inv, TypeOK, Row
<1>3. /\ DOMAIN storage' \subseteq DOMAIN storage
      /\ \A k \in DOMAIN storage' : storage'[k] = storage[k] /\ k \notin rows
      /\ Urls \subseteq Urls' \cup urls /\ Urls' \subseteq Urls
      /\ storage' \in [DOMAIN storage' -> Row]
  BY <1>1 DEF Urls, Inv, TypeOK
<1>4. Urls' \cap urls = {}
  BY <1>0, <1>3 DEF Inv, UrlsDiffer, Urls
<1> HIDE DEF urls
<1>5. /\ c \in Command /\ c.step = "lookup" /\ c.urls = urls /\ c.visited = {}
      /\ c.lists = {} /\ c.singly = {}
  BY <1>0, <1>2 DEF Command, Steps, Bare
<1> HIDE DEF c
<1>6. Held(c) = urls /\ CommandOK(c, channel)
  BY <1>5 DEF Held, CommandOK
<1>7. cmd'[h] = c /\ \A g \in Handlers : g # h => cmd'[g] = cmd[g]
  BY <1>0, <1>1 DEF Do
<1>8. TypeOK'
  <2>1. cmd' \in [Handlers -> Command]
    BY <1>0, <1>1, <1>5 DEF Do
  <2> QED BY <1>1, <1>3, <2>1 DEF Inv, TypeOK, Command
<1>9. CommandsOK'
  BY <1>1, <1>6, <1>7 DEF Inv, CommandsOK
<1>10. HeldAreNotRows'
  BY <1>3, <1>4, <1>6, <1>7 DEF Inv, HeldAreNotRows
<1>11. HeldByOne'
  <2>1. \A g \in Handlers : Held(cmd[g]) \cap urls = {}
    BY <1>2 DEF Inv, HeldAreNotRows
  <2> QED BY <1>6, <1>7, <2>1 DEF Inv, HeldByOne
<1>12. UrlsDiffer' /\ RowHasMessage'
  BY <1>1, <1>3 DEF Inv, UrlsDiffer, RowHasMessage
<1>13. NoOrphan'
  <2> SUFFICES ASSUME NEW n \in channel, n \notin Urls', n \notin excused
               PROVE  \E g \in Handlers : n \in Held(cmd'[g])
    BY <1>1 DEF NoOrphan
  <2>1. CASE n \in Urls
    BY <1>3, <1>6, <1>7, <2>1
  <2>2. CASE n \notin Urls
    <3>1. PICK g \in Handlers : n \in Held(cmd[g])
      BY <2>2 DEF Inv, NoOrphan
    <3> QED BY <1>0, <1>7, <3>1
  <2> QED BY <2>1, <2>2
<1> QED BY <1>8, <1>9, <1>10, <1>11, <1>12, <1>13 DEF Inv

\* What a step of a command that is deleting does: only messages that it answered
\* for are deleted or dropped, and the ones it drops, lost, have a reason and are
\* counted.
Accounts(h, c, lost) ==
  /\ cmd' = [cmd EXCEPT ![h] = c]
  /\ UNCHANGED <<workload, storage, guild_profile, admins>>
  /\ channel' \subseteq channel
  /\ channel \ channel' \subseteq Held(cmd[h])
  /\ Held(c) \subseteq Held(cmd[h])
  /\ Held(cmd[h]) \cap channel' \subseteq Held(c) \cup lost
  /\ lost \subseteq excused'
  /\ excused \subseteq excused' /\ excused' \subseteq excused \cup Held(cmd[h])
  /\ CommandOK(c, channel')
  /\ c.step \in {"lookup", "deleting"} =>
       /\ cmd[h].step \in {"lookup", "deleting"}
       /\ c.urls = cmd[h].urls
       /\ cmd[h].failed_deletes + Cardinality(lost) <= c.failed_deletes

LEMMA AccountingStep ==
  ASSUME Inv, NEW h \in Handlers, NEW c \in Command, NEW lost \in SUBSET Message,
         Accounts(h, c, lost)
  PROVE  Inv'
<1>1. cmd' = [cmd EXCEPT ![h] = c] /\ SameUrls
  BY DEF Accounts, SameUrls
<1>2. Held(cmd[h]) \subseteq Message
  BY CommandTyped, HeldParts
<1>3. cmd' \in [Handlers -> Command] /\ channel' \subseteq Message /\ excused' \subseteq Message
  BY <1>1, <1>2, CommandTyped DEF Accounts, Inv, TypeOK
<1>4. TypeOK'
  BY <1>3 DEF Accounts, Inv, TypeOK, Command
<1> QED BY <1>1, <1>4, MovesOn DEF Accounts

LEMMA NothingLost == {} \in SUBSET Message /\ Cardinality({}) = 0
BY FS_EmptySet

LEMMA MessagesFinite ==
  ASSUME NEW S \in SUBSET Message
  PROVE  IsFiniteSet(S) /\ Cardinality(S) \in Nat
BY RecordsAssumption, FS_Subset, FS_CardinalityType

LEMMA LookupChannelAccounts ==
  ASSUME Inv, NEW h \in Handlers, LookupChannel(h)
  PROVE  \E c \in Command, lost \in SUBSET Message : Accounts(h, c, lost)
<1>0. /\ cmd[h] \in Command /\ CommandOK(cmd[h], channel) /\ cmd[h].step = "lookup"
      /\ UNCHANGED <<workload, storage, guild_profile, channel, admins>>
  BY CommandTyped DEF LookupChannel, At
<1>1. CASE End(h) /\ excused' = excused \cup Held(cmd[h])
  <2>1. Do(h, Idle) /\ Idle \in Command /\ Held(Idle) = {} /\ CommandOK(Idle, channel')
          /\ Idle.step = "idle"
    BY <1>1, IdleCommand, BareHoldsNothing DEF End
  <2>2. Held(cmd[h]) \in SUBSET Message
    BY CommandTyped, HeldParts
  <2>3. Accounts(h, Idle, Held(cmd[h]))
    BY <1>0, <1>1, <2>1 DEF Accounts, Do
  <2> QED BY <2>1, <2>2, <2>3
<1>2. ASSUME NEW first \in {m \in cmd[h].urls : m.channel \notin cmd[h].visited},
             NEW skipped \in {{}, {first}},
             Do(h, IF \A m \in LookedUp(cmd[h], first.channel, skipped).urls :
                        m.channel \in LookedUp(cmd[h], first.channel, skipped).visited
                     THEN [LookedUp(cmd[h], first.channel, skipped) EXCEPT !.step = "deleting"]
                     ELSE LookedUp(cmd[h], first.channel, skipped)),
             excused' = excused \cup skipped
      PROVE  \E c \in Command, lost \in SUBSET Message : Accounts(h, c, lost)
  <2> DEFINE ch == first.channel
             l == LookedUp(cmd[h], ch, skipped)
             c == IF \A m \in l.urls : m.channel \in l.visited
                    THEN [l EXCEPT !.step = "deleting"] ELSE l
  <2>1. first \in Message /\ ch \in Channels /\ Cardinality(skipped) \in Nat
    <3>1. first \in Message
      BY <1>0 DEF Command
    <3>2. ch \in Channels
      BY <3>1 DEF Message
    <3>3. Cardinality(skipped) \in Nat
      BY FS_EmptySet, FS_Singleton
    <3> QED BY <3>1, <3>2, <3>3
  <2> HIDE DEF ch
  <2>2. /\ l \in Command /\ l.step = "lookup" /\ l.urls = cmd[h].urls
        /\ l.visited = cmd[h].visited \cup {ch} /\ l.singly = cmd[h].singly
        /\ l.lists = cmd[h].lists \cup ({m \in cmd[h].urls : m.channel = ch} \ skipped)
        /\ l.failed_deletes = cmd[h].failed_deletes + Cardinality(skipped)
    <3> DEFINE visited == cmd[h].visited \cup {ch}
               lists == cmd[h].lists \cup ({m \in cmd[h].urls : m.channel = ch} \ skipped)
               failed == cmd[h].failed_deletes + Cardinality(skipped)
    <3>1. visited \in SUBSET Channels /\ lists \in SUBSET Message /\ failed \in Nat
      BY <1>0, <2>1 DEF Command
    <3>2. l = [cmd[h] EXCEPT !.visited = visited, !.lists = lists, !.failed_deletes = failed]
      BY DEF LookedUp
    <3> HIDE DEF visited, lists, failed, l
    <3>3. /\ l \in Command /\ l.step = "lookup" /\ l.urls = cmd[h].urls
          /\ l.visited = visited /\ l.singly = cmd[h].singly /\ l.lists = lists
          /\ l.failed_deletes = failed
      BY <1>0, <3>1, <3>2 DEF Command
    <3> QED BY <3>3 DEF visited, lists, failed
  <2> HIDE DEF l
  <2>3. /\ c \in Command /\ c.urls = l.urls /\ c.visited = l.visited
        /\ c.singly = l.singly /\ c.lists = l.lists /\ c.failed_deletes = l.failed_deletes
        /\ \/ c.step = "lookup"
           \/ c.step = "deleting" /\ \A m \in l.urls : m.channel \in l.visited
    BY <2>2 DEF Command, Steps
  <2> HIDE DEF c
  <2>4. /\ Held(cmd[h]) = {m \in cmd[h].urls : m.channel \notin cmd[h].visited}
                            \cup cmd[h].lists \cup cmd[h].singly
        /\ Held(c) = {m \in c.urls : m.channel \notin c.visited} \cup c.lists \cup c.singly
    <3>1. Held(cmd[h]) = {m \in cmd[h].urls : m.channel \notin cmd[h].visited}
                            \cup cmd[h].lists \cup cmd[h].singly
      BY <1>0 DEF Held
    <3>2. Held(c) = {m \in c.urls : m.channel \notin c.visited} \cup c.lists \cup c.singly
      BY <2>2, <2>3 DEF Held
    <3> QED BY <3>1, <3>2
  <2>5. ch = first.channel
    BY DEF ch
  <2>6. Held(c) \subseteq Held(cmd[h]) /\ skipped \subseteq Held(cmd[h])
          /\ Held(cmd[h]) \subseteq Held(c) \cup skipped
    BY <2>2, <2>3, <2>4, <2>5
  <2>7. CommandOK(c, channel)
    BY <1>0, <2>2, <2>3 DEF CommandOK
  <2>8. Do(h, c)
    BY <1>2 DEF c, l, ch
  <2>9. skipped \in SUBSET Message /\ cmd[h].failed_deletes \in Nat
    BY <1>0, <2>1 DEF Command
  <2>10. excused' = excused \cup skipped /\ excused' \subseteq excused \cup Held(cmd[h])
    BY <1>2, <2>6
  <2>11. /\ cmd[h].step \in {"lookup", "deleting"} /\ c.urls = cmd[h].urls
        /\ cmd[h].failed_deletes + Cardinality(skipped) <= c.failed_deletes
    BY <1>0, <2>1, <2>2, <2>3, <2>9
  <2>12. Accounts(h, c, skipped)
    <3>1. channel' = channel /\ UNCHANGED <<workload, storage, guild_profile, admins>>
      BY <1>0
    <3>2. Held(cmd[h]) \cap channel' \subseteq Held(c) \cup skipped
      BY <2>6
    <3>3. CommandOK(c, channel')
      BY <2>7, <3>1
    <3> QED BY <2>6, <2>8, <2>10, <2>11, <3>1, <3>2, <3>3 DEF Accounts, Do
  <2> QED BY <2>3, <2>9, <2>12
<1>3. \/ End(h) /\ excused' = excused \cup Held(cmd[h])
      \/ \E first \in {m \in cmd[h].urls : m.channel \notin cmd[h].visited} :
           \E skipped \in {{}, {first}} :
             /\ Do(h, IF \A m \in LookedUp(cmd[h], first.channel, skipped).urls :
                           m.channel \in LookedUp(cmd[h], first.channel, skipped).visited
                        THEN [LookedUp(cmd[h], first.channel, skipped) EXCEPT !.step = "deleting"]
                        ELSE LookedUp(cmd[h], first.channel, skipped))
             /\ excused' = excused \cup skipped
  BY DEF LookupChannel
<1> QED BY <1>1, <1>2, <1>3

LEMMA DeleteListAccounts ==
  ASSUME Inv, NEW h \in Handlers, DeleteList(h)
  PROVE  \E c \in Command, lost \in SUBSET Message : Accounts(h, c, lost)
<1>0. /\ cmd[h] \in Command /\ CommandOK(cmd[h], channel) /\ cmd[h].step = "deleting"
      /\ UNCHANGED <<workload, storage, guild_profile, admins>>
      /\ cmd[h].singly = {}
  BY CommandTyped DEF DeleteList, At
<1>1. PICK list \in SUBSET cmd[h].lists :
        LET rest == [cmd[h] EXCEPT !.lists = @ \ list]
            Failed(n) == [rest EXCEPT !.failed_deletes = @ + n]
        IN \/ /\ Do(h, rest)
              /\ channel' = channel \ list
              /\ UNCHANGED excused
           \/ /\ Do(h, [rest EXCEPT !.singly = list])
              /\ UNCHANGED <<channel, excused>>
           \/ /\ Do(h, Failed(Cardinality(list)))
              /\ channel' \in {channel, channel \ list}
              /\ excused' = excused \cup (list \cap channel')
  BY DEF DeleteList
<1>2. list \subseteq cmd[h].urls /\ list \in SUBSET Message /\ Cardinality(list) \in Nat
  <2>1. list \subseteq cmd[h].urls /\ list \in SUBSET Message
    BY <1>0 DEF CommandOK, Command
  <2> QED BY <2>1, MessagesFinite
<1>2a. cmd[h].failed_deletes \in Nat
  BY <1>0 DEF Command
<1>3. Held(cmd[h]) = cmd[h].lists
  BY <1>0 DEF Held
<1> DEFINE rest == [cmd[h] EXCEPT !.lists = @ \ list]
<1>4. /\ rest \in Command /\ rest.step = "deleting" /\ rest.urls = cmd[h].urls
      /\ rest.lists = cmd[h].lists \ list /\ rest.singly = {}
      /\ rest.failed_deletes = cmd[h].failed_deletes
  BY <1>0 DEF Command
<1> DEFINE failed == [rest EXCEPT !.failed_deletes = @ + Cardinality(list)]
           single == [rest EXCEPT !.singly = list]
<1>5. \/ Do(h, rest) /\ channel' = channel \ list /\ UNCHANGED excused
      \/ Do(h, single) /\ UNCHANGED <<channel, excused>>
      \/ Do(h, failed) /\ channel' \in {channel, channel \ list}
         /\ excused' = excused \cup (list \cap channel')
  BY <1>1
<1> HIDE DEF rest
<1>6. /\ single \in Command /\ single.step = "deleting" /\ single.urls = cmd[h].urls
      /\ single.lists = cmd[h].lists \ list /\ single.singly = list
      /\ single.failed_deletes = cmd[h].failed_deletes
  BY <1>2, <1>4 DEF Command
<1>7. /\ failed \in Command /\ failed.step = "deleting" /\ failed.urls = cmd[h].urls
      /\ failed.lists = cmd[h].lists \ list /\ failed.singly = {}
      /\ failed.failed_deletes = cmd[h].failed_deletes + Cardinality(list)
  BY <1>2, <1>4 DEF Command
<1> HIDE DEF failed, single
<1>8. /\ Held(rest) = cmd[h].lists \ list /\ Held(failed) = cmd[h].lists \ list
      /\ Held(single) = cmd[h].lists
  BY <1>4, <1>6, <1>7 DEF Held
<1>9. \A ch : CommandOK(rest, ch) /\ CommandOK(single, ch) /\ CommandOK(failed, ch)
  BY <1>0, <1>2, <1>4, <1>6, <1>7 DEF CommandOK
<1>10. CASE Do(h, rest) /\ channel' = channel \ list /\ UNCHANGED excused
  <2>1. Accounts(h, rest, {})
    BY <1>0, <1>2, <1>2a, <1>3, <1>4, <1>8, <1>9, <1>10, NothingLost DEF Accounts, Do
  <2> QED BY <1>4, <2>1, NothingLost
<1>11. CASE Do(h, single) /\ UNCHANGED <<channel, excused>>
  <2>1. Accounts(h, single, {})
    BY <1>0, <1>2, <1>2a, <1>3, <1>6, <1>8, <1>9, <1>11, NothingLost DEF Accounts, Do
  <2> QED BY <1>6, <2>1, NothingLost
<1>12. CASE Do(h, failed) /\ channel' \in {channel, channel \ list}
              /\ excused' = excused \cup (list \cap channel')
  <2> DEFINE lost == list \cap channel'
  <2>1. lost \in SUBSET Message /\ Cardinality(lost) \in Nat
          /\ Cardinality(lost) <= Cardinality(list)
    BY <1>2, MessagesFinite, FS_Subset
  <2>2. lost \subseteq list /\ list \cap channel' \subseteq lost
    OBVIOUS
  <2>3. excused' = excused \cup lost
    BY <1>12
  <2> HIDE DEF lost
  <2>4. Accounts(h, failed, lost)
    BY <1>0, <1>2, <1>2a, <1>3, <1>7, <1>8, <1>9, <1>12, <2>1, <2>2, <2>3 DEF Accounts, Do
  <2> QED BY <1>7, <2>1, <2>4
<1> QED BY <1>5, <1>10, <1>11, <1>12

LEMMA DeleteSinglyAccounts ==
  ASSUME Inv, NEW h \in Handlers, DeleteSingly(h)
  PROVE  \E c \in Command, lost \in SUBSET Message : Accounts(h, c, lost)
<1>0. /\ cmd[h] \in Command /\ CommandOK(cmd[h], channel) /\ cmd[h].step = "deleting"
      /\ UNCHANGED <<workload, storage, guild_profile, admins>>
  BY CommandTyped DEF DeleteSingly, At
<1>1. PICK m \in cmd[h].singly :
        \/ /\ Do(h, [cmd[h] EXCEPT !.singly = @ \ {m}])
           /\ channel' = channel \ {m}
           /\ UNCHANGED excused
        \/ /\ Do(h, [cmd[h] EXCEPT !.singly = @ \ {m}, !.failed_deletes = @ + 1])
           /\ excused' = excused \cup {m}
           /\ UNCHANGED channel
  BY DEF DeleteSingly
<1>2. PICK c \in Command :
        /\ Do(h, c) /\ c.step = "deleting" /\ c.urls = cmd[h].urls
        /\ c.lists = cmd[h].lists /\ c.singly = cmd[h].singly \ {m}
        /\ \/ /\ channel' = channel \ {m} /\ UNCHANGED excused
              /\ c.failed_deletes = cmd[h].failed_deletes
           \/ /\ excused' = excused \cup {m} /\ UNCHANGED channel
              /\ c.failed_deletes = cmd[h].failed_deletes + 1
  <2> DEFINE a == [cmd[h] EXCEPT !.singly = @ \ {m}]
             b == [cmd[h] EXCEPT !.singly = @ \ {m}, !.failed_deletes = @ + 1]
  <2>1. a \in Command /\ a.step = "deleting" /\ a.urls = cmd[h].urls
          /\ a.lists = cmd[h].lists /\ a.singly = cmd[h].singly \ {m}
          /\ a.failed_deletes = cmd[h].failed_deletes
    BY <1>0 DEF Command
  <2>2. b \in Command /\ b.step = "deleting" /\ b.urls = cmd[h].urls
          /\ b.lists = cmd[h].lists /\ b.singly = cmd[h].singly \ {m}
          /\ b.failed_deletes = cmd[h].failed_deletes + 1
    <3>1. b = [a EXCEPT !.failed_deletes = @ + 1] /\ a.failed_deletes \in Nat
      BY <1>0 DEF Command
    <3> HIDE DEF a, b
    <3> QED BY <2>1, <3>1 DEF Command
  <2>3. \/ Do(h, a) /\ channel' = channel \ {m} /\ UNCHANGED excused
        \/ Do(h, b) /\ excused' = excused \cup {m} /\ UNCHANGED channel
    BY <1>1
  <2> HIDE DEF a, b
  <2> QED BY <2>1, <2>2, <2>3
<1>3. /\ Held(cmd[h]) = cmd[h].lists \cup cmd[h].singly
      /\ Held(c) = cmd[h].lists \cup (cmd[h].singly \ {m})
  <2>1. Held(cmd[h]) = cmd[h].lists \cup cmd[h].singly
    BY <1>0 DEF Held
  <2>2. Held(c) = c.lists \cup c.singly
    BY <1>2 DEF Held
  <2> QED BY <1>2, <2>1, <2>2
<1>4. CommandOK(c, channel')
  BY <1>0, <1>2 DEF CommandOK
<1>5. {m} \in SUBSET Message /\ Cardinality({m}) = 1 /\ cmd[h].failed_deletes \in Nat
  BY <1>0, FS_Singleton DEF Command
<1>6. CASE /\ channel' = channel \ {m} /\ UNCHANGED excused
           /\ c.failed_deletes = cmd[h].failed_deletes
  <2>1. Held(cmd[h]) \cap channel' \subseteq Held(c) /\ {m} \subseteq Held(cmd[h])
    BY <1>3, <1>6
  <2>2. Accounts(h, c, {})
    BY <1>0, <1>2, <1>3, <1>4, <1>5, <1>6, <2>1, NothingLost DEF Accounts, Do
  <2> QED BY <2>2, NothingLost
<1>7. CASE /\ excused' = excused \cup {m} /\ UNCHANGED channel
           /\ c.failed_deletes = cmd[h].failed_deletes + 1
  <2>1. Held(cmd[h]) \subseteq Held(c) \cup {m} /\ {m} \subseteq Held(cmd[h])
    BY <1>3
  <2>2. Accounts(h, c, {m})
    BY <1>0, <1>2, <1>3, <1>4, <1>5, <1>7, <2>1 DEF Accounts, Do
  <2> QED BY <1>5, <2>2
<1> QED BY <1>2, <1>6, <1>7

\* LookupChannel, DeleteList and DeleteSingly.
LEMMA DeletingStep ==
  ASSUME Inv, NEW h \in Handlers, LookupChannel(h) \/ DeleteList(h) \/ DeleteSingly(h)
  PROVE  Inv'
<1>1. PICK c \in Command, lost \in SUBSET Message : Accounts(h, c, lost)
  BY LookupChannelAccounts, DeleteListAccounts, DeleteSinglyAccounts
<1> QED BY <1>1, AccountingStep

LEMMA ReportStep ==
  ASSUME Inv, NEW h \in Handlers, Report(h)
  PROVE  Inv'
<1>1. Held(cmd[h]) = {}
  BY DEF Report, At, Held
<1>2. Idle \in Command /\ Bare(Idle) /\ Do(h, Idle)
  BY IdleCommand DEF Report, End
<1>3. UNCHANGED <<workload, storage, guild_profile, channel, admins, excused>>
  BY DEF Report
<1>4. TypeOK' /\ SameUrls
  BY <1>2, <1>3, SameType
<1> QED BY <1>1, <1>2, <1>3, <1>4, QuietStep

-----------------------------------------------------------------------------
LEMMA ChangeRolesStep == Inv /\ ChangeRoles => Inv'
<1> SUFFICES ASSUME Inv, ChangeRoles PROVE Inv'
  OBVIOUS
<1>1. admins' \subseteq Users
  BY DEF ChangeRoles, Inv, TypeOK
<1>2. UNCHANGED <<workload, storage, guild_profile, channel, cmd, excused>>
  BY DEF ChangeRoles
<1>3. TypeOK'
  BY <1>1, <1>2 DEF Inv, TypeOK
<1>4. Urls' = Urls
  BY <1>2 DEF Urls
<1>5. CommandsOK' /\ HeldAreNotRows' /\ HeldByOne'
  BY <1>2, <1>4 DEF Inv, CommandsOK, HeldAreNotRows, HeldByOne
<1>6. UrlsDiffer' /\ RowHasMessage' /\ NoOrphan'
  BY <1>2, <1>4 DEF Inv, UrlsDiffer, RowHasMessage, NoOrphan
<1> QED BY <1>3, <1>5, <1>6 DEF Inv

LEMMA RestartStep == Inv /\ Restart => Inv'
<1> SUFFICES ASSUME Inv, Restart PROVE Inv'
  OBVIOUS
<1>1. /\ cmd' = [h \in Handlers |-> Idle]
      /\ excused' = excused \cup UNION {Held(cmd[h]) : h \in Handlers}
      /\ UNCHANGED <<workload, storage, guild_profile, channel, admins>>
  BY DEF Restart
<1>2. \A h \in Handlers : cmd'[h] = Idle /\ Held(Idle) = {} /\ CommandOK(Idle, channel)
  BY <1>1, IdleCommand, BareHoldsNothing
<1>3. \A h \in Handlers : Held(cmd[h]) \subseteq Message
  BY CommandTyped, HeldParts
<1>4. TypeOK'
  <2>1. cmd' \in [Handlers -> Command] /\ excused' \subseteq Message
    BY <1>1, <1>3, IdleCommand DEF Inv, TypeOK
  <2> QED BY <1>1, <2>1 DEF Inv, TypeOK, Command
<1>5. Urls' = Urls
  BY <1>1 DEF Urls
<1>6. CommandsOK' /\ HeldAreNotRows' /\ HeldByOne'
  BY <1>1, <1>2 DEF CommandsOK, HeldAreNotRows, HeldByOne
<1>7. UrlsDiffer' /\ RowHasMessage'
  BY <1>1, <1>5 DEF Inv, UrlsDiffer, RowHasMessage
<1>8. NoOrphan'
  BY <1>1, <1>5 DEF Inv, NoOrphan
<1> QED BY <1>4, <1>6, <1>7, <1>8 DEF Inv

LEMMA ContinueStep ==
  ASSUME Inv, NEW h \in Handlers, Continue(h)
  PROVE  Inv'
BY FailuresStep, AskingStep, FindDumpStep, CreateMessageStep, ExecuteQueryStep,
   DeleteCreatedStep, ExecDeleteStep, DeletingStep, ReportStep, UpdateNsfwStep, ReadRowStep, UpdateDumpStep, Zenon DEF Continue

LEMMA Step == Inv /\ [Next]_vars => Inv'
<1> SUFFICES ASSUME Inv, [Next]_vars PROVE Inv'
  OBVIOUS
<1>1. CASE UNCHANGED vars
  BY <1>1 DEF vars, Inv, TypeOK, CommandsOK, UrlsDiffer, HeldAreNotRows, HeldByOne,
     RowHasMessage, NoOrphan, Urls
<1>2. CASE Next
  BY <1>2, ContinueStep, AskingStep, BeginStep, ChangeRolesStep, RestartStep, Zenon DEF Next
<1> QED BY <1>1, <1>2

LEMMA Inductive == Spec => []Inv
BY InitInv, Step, PTL DEF Spec

-----------------------------------------------------------------------------
(* The theorems.                                                           *)

\* Rows, messages and commands keep their types.
THEOREM TypeCorrect == Spec => []TypeOK
<1>1. Inv => TypeOK
  BY DEF Inv
<1> QED BY Inductive, <1>1, PTL

\* However many inserts and deletes run beside each other, fail halfway and are
\* cut off by a restart, a row never outlives its message.
THEOREM RowsHaveMessages == Spec => []RowHasMessage
<1>1. Inv => RowHasMessage
  BY DEF Inv
<1> QED BY Inductive, <1>1, PTL

\* No message is left in a dump channel without a row, a command that is still to
\* delete it, or a reason.
THEOREM MessagesHaveReasons == Spec => []NoOrphan
<1>1. Inv => NoOrphan
  BY DEF Inv
<1> QED BY Inductive, <1>1, PTL

-----------------------------------------------------------------------------
(* What a delete reports.                                                  *)

\* The messages that a deleting command has dropped and that are still there are
\* among the failures it has counted.
Counted(c, ch) ==
  c.step \in {"lookup", "deleting"} =>
    Cardinality((c.urls \cap ch) \ Held(c)) <= c.failed_deletes

AllCounted == \A h \in Handlers : Counted(cmd[h], channel)

LEMMA MessagesCompared ==
  ASSUME NEW S \in SUBSET Message, NEW T \in SUBSET Message, NEW U \in SUBSET Message,
         S \subseteq T \cup U
  PROVE  Cardinality(S) <= Cardinality(T) + Cardinality(U)
<1>1. /\ IsFiniteSet(T \cup U) /\ Cardinality(T) \in Nat /\ Cardinality(U) \in Nat
      /\ Cardinality(S) \in Nat /\ Cardinality(T \cup U) \in Nat
      /\ Cardinality(T \cap U) \in Nat /\ IsFiniteSet(T) /\ IsFiniteSet(U)
  BY MessagesFinite
<1>2. Cardinality(T \cup U) = Cardinality(T) + Cardinality(U) - Cardinality(T \cap U)
  BY <1>1, FS_Union
<1>3. Cardinality(S) <= Cardinality(T \cup U)
  BY <1>1, FS_Subset
<1> QED BY <1>1, <1>2, <1>3

\* Nobody else makes a message of this command appear again.
LEMMA OthersCounted ==
  ASSUME NEW c \in Command, Counted(c, channel), channel \subseteq Message,
         c.urls \cap channel' \subseteq channel
  PROVE  Counted(c, channel')
<1> DEFINE S == (c.urls \cap channel') \ Held(c)
           T == (c.urls \cap channel) \ Held(c)
<1>1. S \in SUBSET T /\ T \in SUBSET Message /\ S \in SUBSET Message
  BY DEF Command
<1>2. Cardinality(S) <= Cardinality(T) /\ Cardinality(S) \in Nat /\ Cardinality(T) \in Nat
  BY <1>1, MessagesFinite, FS_Subset
<1>3. c.failed_deletes \in Nat
  BY DEF Command
<1> HIDE DEF S, T
<1>4. Cardinality(T) <= c.failed_deletes => Cardinality(S) <= c.failed_deletes
  BY <1>2, <1>3
<1> QED BY <1>4 DEF Counted, S, T

LEMMA AccountingCounted ==
  ASSUME Inv, NEW h \in Handlers, NEW c \in Command, NEW lost \in SUBSET Message,
         Accounts(h, c, lost), Counted(cmd[h], channel)
  PROVE  Counted(c, channel')
<1> SUFFICES ASSUME c.step \in {"lookup", "deleting"}
             PROVE  Cardinality((c.urls \cap channel') \ Held(c)) <= c.failed_deletes
  BY DEF Counted
<1> DEFINE S == (c.urls \cap channel') \ Held(c)
           T == (cmd[h].urls \cap channel) \ Held(cmd[h])
<1>1. /\ cmd[h] \in Command /\ cmd[h].step \in {"lookup", "deleting"}
      /\ c.urls = cmd[h].urls /\ channel \subseteq Message /\ channel' \subseteq channel
      /\ cmd[h].failed_deletes + Cardinality(lost) <= c.failed_deletes
      /\ Held(cmd[h]) \cap channel' \subseteq Held(c) \cup lost
  BY CommandTyped DEF Accounts
<1>2. S \subseteq T \cup lost /\ S \in SUBSET Message /\ T \in SUBSET Message
  BY <1>1
<1>3. Cardinality(T) <= cmd[h].failed_deletes
  BY <1>1 DEF Counted
<1> HIDE DEF S, T
<1>4. Cardinality(S) <= Cardinality(T) + Cardinality(lost)
  BY <1>2, MessagesCompared
<1>5. /\ Cardinality(S) \in Nat /\ Cardinality(T) \in Nat /\ Cardinality(lost) \in Nat
      /\ cmd[h].failed_deletes \in Nat /\ c.failed_deletes \in Nat
  BY <1>1, <1>2, MessagesFinite DEF Command
<1>6. Cardinality(S) <= c.failed_deletes
  BY <1>1, <1>3, <1>4, <1>5
<1> QED BY <1>6 DEF S

\* What a step does to the messages of the commands that do not take it, and to
\* the command that does.
LEMMA CountedStep ==
  ASSUME Inv, AllCounted, NEW h \in Handlers, NEW c, cmd' = [cmd EXCEPT ![h] = c],
         Counted(c, channel'),
         \A g \in Handlers : cmd[g].urls \cap channel' \subseteq channel
  PROVE  AllCounted'
<1> SUFFICES ASSUME NEW g \in Handlers PROVE Counted(cmd'[g], channel')
  BY DEF AllCounted
<1>1. cmd[g] \in Command /\ channel \subseteq Message /\ cmd \in [Handlers -> Command]
  BY CommandTyped
<1>2. CASE g = h
  BY <1>1, <1>2
<1>3. CASE g # h
  <2>1. Counted(cmd[g], channel')
    BY <1>1, OthersCounted DEF AllCounted
  <2> QED BY <1>1, <1>3, <2>1
<1> QED BY <1>2, <1>3

\* Only ExecDelete begins a deletion, and then nothing has been dropped.
LEMMA ExecDeleteCounted ==
  ASSUME Inv, AllCounted, NEW h \in Handlers, ExecDelete(h)
  PROVE  AllCounted'
<1> DEFINE urls == {storage[k].url : k \in Selected(cmd[h].req)}
           c == [cmd[h] EXCEPT !.step = "lookup", !.urls = urls]
<1>0. cmd[h] \in Command /\ Bare(cmd[h])
  BY CommandTyped, BystanderIsBare DEF ExecDelete, At, Bystander
<1>1. cmd' = [cmd EXCEPT ![h] = c] /\ channel' = channel
  BY DEF ExecDelete, Do
<1> HIDE DEF urls
<1>2. /\ c.step = "lookup" /\ c.urls = urls /\ c.visited = {}
      /\ c.failed_deletes \in Nat
  BY <1>0 DEF Command, Bare
<1> HIDE DEF c
<1>3. (c.urls \cap channel') \ Held(c) = {}
  BY <1>2 DEF Held
<1>4. Counted(c, channel')
  BY <1>2, <1>3, FS_EmptySet DEF Counted
<1> QED BY <1>1, <1>4, CountedStep

LEMMA DeletingCounted ==
  ASSUME Inv, AllCounted, NEW h \in Handlers,
         LookupChannel(h) \/ DeleteList(h) \/ DeleteSingly(h)
  PROVE  AllCounted'
<1>1. PICK c \in Command, lost \in SUBSET Message : Accounts(h, c, lost)
  BY LookupChannelAccounts, DeleteListAccounts, DeleteSinglyAccounts
<1>2. Counted(c, channel')
  BY <1>1, AccountingCounted DEF AllCounted
<1> QED BY <1>1, <1>2, CountedStep DEF Accounts

\* Every other step of a command leaves it outside of a deletion, and the message
\* it may create is new to everybody.
LEMMA ElsewhereCounted ==
  ASSUME Inv, AllCounted, NEW h \in Handlers,
         \/ LookupFails(h) \/ DialogFails(h) \/ SourceFails(h) \/ CreateFails(h)
         \/ DeleteRefused(h) \/ SelectFails(h) \/ FindDump(h) \/ CreateMessage(h)
         \/ ExecuteQuery(h) \/ DeleteCreated(h) \/ Prompt(h) \/ Confirm(h) \/ Decline(h)
         \/ Report(h) \/ UpdateNsfw(h) \/ ReadRow(h) \/ FetchMessage(h) \/ Show(h)
         \/ Finish(h) \/ UpdateDump(h) \/ \E r \in workload.commands[h] : Begin(h, r)
  PROVE  AllCounted'
<1>1. cmd[h] \in Command /\ Idle \in Command /\ Idle.step = "idle"
  BY CommandTyped, IdleCommand
<1>2. PICK c : /\ cmd' = [cmd EXCEPT ![h] = c]
               /\ c.step \in Bystander \cup {"created", "undo"}
  <2>1. Idle.step \in Bystander
    BY <1>1 DEF Bystander
  <2>2. CASE \/ LookupFails(h) \/ DialogFails(h) \/ SourceFails(h) \/ CreateFails(h)
             \/ DeleteRefused(h) \/ SelectFails(h) \/ DeleteCreated(h) \/ Decline(h)
             \/ Report(h) \/ UpdateNsfw(h) \/ Finish(h) \/ UpdateDump(h)
    BY <2>1, <2>2 DEF LookupFails, DialogFails, SourceFails, CreateFails, DeleteRefused,
       SelectFails, DeleteCreated, Decline, Report, UpdateNsfw, Finish, UpdateDump,
       EndUnchanged, End, Do
  <2>3. ASSUME NEW r \in workload.commands[h], Begin(h, r)
        PROVE  \E c : /\ cmd' = [cmd EXCEPT ![h] = c]
                      /\ c.step \in Bystander \cup {"created", "undo"}
    <3> DEFINE c == [Idle EXCEPT !.step = "init", !.req = r, !.admin = r.user \in admins]
    <3>1. c.step = "init"
      BY <1>1 DEF Command
    <3>2. cmd' = [cmd EXCEPT ![h] = c]
      BY <2>3 DEF Begin, Do
    <3> QED BY <3>1, <3>2 DEF Bystander
  <2>4. CASE Prompt(h) \/ Confirm(h) \/ FetchMessage(h) \/ Show(h)
    <3>1. PICK s \in Bystander : Goto(h, s)
      BY <2>4 DEF Prompt, Confirm, FetchMessage, Show, Bystander
    <3>2. [cmd[h] EXCEPT !.step = s].step = s
      BY <1>1 DEF Command
    <3> QED BY <3>1, <3>2 DEF Goto, Do
  <2>5. CASE FindDump(h)
    <3> DEFINE r == cmd[h].req
               dump == IF guild_profile[r.guild] = NoChannel THEN r.channel
                                                             ELSE guild_profile[r.guild]
               c == [cmd[h] EXCEPT !.step = "ready", !.dump = dump]
    <3>1. c.step = "ready"
      BY <1>1 DEF Command
    <3>2. cmd' = [cmd EXCEPT ![h] = Idle] \/ cmd' = [cmd EXCEPT ![h] = c]
      BY <2>5 DEF FindDump, End, Do
    <3> HIDE DEF c
    <3> QED BY <2>1, <3>1, <3>2 DEF Bystander
  <2>6. CASE CreateMessage(h)
    <3>1. PICK m \in Message :
            \/ Do(h, [cmd[h] EXCEPT !.step = "created", !.msg = m])
            \/ End(h)
      BY <2>6 DEF CreateMessage
    <3>2. [cmd[h] EXCEPT !.step = "created", !.msg = m].step = "created"
      BY <1>1 DEF Command
    <3> QED BY <2>1, <3>1, <3>2 DEF End, Do
  <2>7. CASE ExecuteQuery(h)
    <3>1. [cmd[h] EXCEPT !.step = "undo"].step = "undo"
      BY <1>1 DEF Command
    <3> QED BY <2>1, <2>7, <3>1 DEF ExecuteQuery, End, Goto, Do
  <2>8. CASE ReadRow(h)
    <3> DEFINE url == storage[Key(cmd[h])].url
    <3>1. [cmd[h] EXCEPT !.step = "reading", !.msg = url].step = "reading"
      BY <1>1 DEF Command
    <3>2. cmd' = [cmd EXCEPT ![h] = [cmd[h] EXCEPT !.step = "reading", !.msg = url]]
      BY <2>8 DEF ReadRow, Do
    <3> QED BY <3>1, <3>2 DEF Bystander
  <2> QED BY <2>2, <2>3, <2>4, <2>5, <2>6, <2>7, <2>8
<1>3. Counted(c, channel')
  BY <1>2 DEF Counted, Bystander
<1>4. \A g \in Handlers : cmd[g].urls \cap channel' \subseteq channel
  <2>1. CASE CreateMessage(h)
    <3>1. PICK m \in Message : Fresh(m) /\ channel' = channel \cup {m}
      BY <2>1 DEF CreateMessage
    <3> QED BY <3>1 DEF Fresh
  <2>2. CASE ~ CreateMessage(h)
    <3>1. channel' \subseteq channel
      BY <2>2 DEF LookupFails, DialogFails, SourceFails, CreateFails, DeleteRefused,
         SelectFails, FindDump, ExecuteQuery, DeleteCreated, Prompt, Confirm, Decline,
         Report, UpdateNsfw, ReadRow, FetchMessage, Show, Finish, UpdateDump, Begin,
         EndUnchanged
    <3> QED BY <3>1
  <2> QED BY <2>1, <2>2
<1> QED BY <1>2, <1>3, <1>4, CountedStep

LEMMA AllCountedStep == Inv /\ AllCounted /\ [Next]_vars => AllCounted'
<1> SUFFICES ASSUME Inv, AllCounted, [Next]_vars PROVE AllCounted'
  OBVIOUS
<1>1. ASSUME NEW h \in Handlers,
             Continue(h) \/ Confirm(h) \/ \E r \in workload.commands[h] : Begin(h, r)
      PROVE  AllCounted'
  BY <1>1, ExecDeleteCounted, DeletingCounted, ElsewhereCounted, Zenon DEF Continue
<1>2. CASE ChangeRoles \/ UNCHANGED vars
  BY <1>2 DEF ChangeRoles, vars, AllCounted
<1>3. CASE Restart
  BY <1>3, IdleCommand DEF Restart, AllCounted, Counted
<1> QED BY <1>1, <1>2, <1>3 DEF Next

\* The number of failures that a delete reports is never smaller than the number
\* of its messages that are still there, whatever failed on the way and in which
\* order, and whatever the other commands created and deleted meanwhile.
THEOREM ReportsAreHonest == Spec => ReportCoversLeftovers
<1>1. Init => AllCounted
  BY IdleCommand DEF Init, AllCounted, Counted
<1>2. Inv /\ AllCounted /\ [Next]_vars => AllCounted'
  BY AllCountedStep
<1>3. ASSUME Inv, AllCounted, NEW h \in Handlers, Report(h)
      PROVE  Cardinality(cmd[h].urls \cap channel) <= cmd[h].failed_deletes
  <2>1. Held(cmd[h]) = {} /\ cmd[h].step = "deleting"
    BY <1>3 DEF Report, At, Held
  <2>2. (cmd[h].urls \cap channel) \ Held(cmd[h]) = cmd[h].urls \cap channel
    BY <2>1
  <2>3. Counted(cmd[h], channel)
    BY <1>3 DEF AllCounted
  <2> QED BY <2>1, <2>2, <2>3 DEF Counted
<1>4. Inv /\ AllCounted => [\A h \in Handlers :
         Report(h) => Cardinality(cmd[h].urls \cap channel) <= cmd[h].failed_deletes]_vars
  BY <1>3
<1> QED BY Inductive, <1>1, <1>2, <1>4, PTL DEF Spec, ReportCoversLeftovers

-----------------------------------------------------------------------------
(* Who deletes rows.                                                       *)

LEMMA RowsStay ==
  ASSUME Inv, NEW h \in Handlers, Continue(h), ~ ExecDelete(h)
  PROVE  DOMAIN storage \subseteq DOMAIN storage'
<1>1. CASE ExecuteQuery(h)
  BY <1>1 DEF ExecuteQuery, WithRow
<1>2. CASE UpdateNsfw(h)
  BY <1>2 DEF UpdateNsfw, Inv, TypeOK
<1>3. CASE ~ ExecuteQuery(h) /\ ~ UpdateNsfw(h)
  BY <1>3 DEF Continue, LookupFails, DialogFails, SourceFails, CreateFails, DeleteRefused,
     SelectFails, FindDump, CreateMessage, DeleteCreated, Prompt, Decline, LookupChannel,
     DeleteList, DeleteSingly, Report, ReadRow, FetchMessage, Show, Finish, UpdateDump,
     EndUnchanged
<1> QED BY <1>1, <1>2, <1>3

LEMMA ExecDeleteConfirmed ==
  ASSUME Inv, NEW h \in Handlers, ExecDelete(h),
         NEW k \in (DOMAIN storage) \ DOMAIN storage'
  PROVE  /\ At(h, "confirmed", Deletes)
         /\ cmd'[h].step = "lookup"
         /\ \/ storage[k].user = cmd[h].req.user
            \/ /\ cmd[h].admin
               /\ k[1] = cmd[h].req.guild
               /\ cmd[h].req.kind = "guild" \/ storage[k].user = cmd[h].req.owner
<1> DEFINE urls == {storage[l].url : l \in Selected(cmd[h].req)}
<1>1. cmd[h] \in Command /\ cmd \in [Handlers -> Command]
  BY CommandTyped
<1>2. cmd' = [cmd EXCEPT ![h] = [cmd[h] EXCEPT !.step = "lookup", !.urls = urls]]
  BY DEF ExecDelete, Do
<1>3. cmd'[h].step = "lookup"
  <2> HIDE DEF urls
  <2> QED BY <1>1, <1>2 DEF Command
<1>4. k \in Selected(cmd[h].req)
  BY DEF ExecDelete
<1>5. /\ At(h, "confirmed", Deletes)
      /\ cmd[h].req.kind \in {"single", "user"} => MayActFor(cmd[h])
      /\ cmd[h].req.kind = "guild" => cmd[h].admin
  BY DEF ExecDelete
<1>6. CASE cmd[h].req.kind = "single"
  <2>1. k[1] = cmd[h].req.guild /\ storage[k].user = cmd[h].req.owner
    BY <1>4, <1>6 DEF Selected
  <2> QED BY <1>3, <1>5, <1>6, <2>1 DEF MayActFor
<1>7. CASE cmd[h].req.kind = "user"
  <2>1. k[1] = cmd[h].req.guild /\ storage[k].user = cmd[h].req.owner
    BY <1>4, <1>7 DEF Selected
  <2> QED BY <1>3, <1>5, <1>7, <2>1 DEF MayActFor
<1>8. CASE cmd[h].req.kind = "guild"
  <2>1. k[1] = cmd[h].req.guild
    BY <1>4, <1>8 DEF Selected
  <2> QED BY <1>3, <1>5, <1>8, <2>1
<1>9. CASE cmd[h].req.kind = "self"
  <2>1. storage[k].user = cmd[h].req.user
    BY <1>4, <1>9 DEF Selected
  <2> QED BY <1>3, <1>5, <2>1
<1> QED BY <1>5, <1>6, <1>7, <1>8, <1>9 DEF At, Deletes

\* A row disappears only in a deletion that was confirmed, for its owner or for an
\* administrator of its guild, for any users, guilds and commands.
THEOREM OnlyConfirmedDeletes == Spec => DeletesAreConfirmed
<1>1. ASSUME Inv, [Next]_vars, NEW k \in (DOMAIN storage) \ DOMAIN storage'
      PROVE  \E h \in Handlers :
               /\ At(h, "confirmed", Deletes)
               /\ cmd'[h].step = "lookup"
               /\ \/ storage[k].user = cmd[h].req.user
                  \/ /\ cmd[h].admin
                     /\ k[1] = cmd[h].req.guild
                     /\ cmd[h].req.kind = "guild" \/ storage[k].user = cmd[h].req.owner
  <2>1. PICK h \in Handlers : ExecDelete(h)
    <3>1. storage' # storage
      BY <1>1
    <3>2. PICK h \in Handlers : Continue(h)
      BY <1>1, <3>1 DEF Next, vars, Confirm, Begin, ChangeRoles, Restart
    <3> QED BY <1>1, <3>2, RowsStay
  <2> QED BY <1>1, <2>1, ExecDeleteConfirmed
<1>2. Inv /\ [Next]_vars =>
        [\A k \in (DOMAIN storage) \ DOMAIN storage' :
           \E h \in Handlers :
             /\ At(h, "confirmed", Deletes)
             /\ cmd'[h].step = "lookup"
             /\ \/ storage[k].user = cmd[h].req.user
                \/ /\ cmd[h].admin
                   /\ k[1] = cmd[h].req.guild
                   /\ cmd[h].req.kind = "guild" \/ storage[k].user = cmd[h].req.owner]_vars
  BY <1>1
<1> QED BY Inductive, <1>2, PTL DEF Spec, DeletesAreConfirmed
=============================================================================
