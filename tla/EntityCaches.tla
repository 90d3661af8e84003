---------------------------- MODULE EntityCaches ----------------------------
(***************************************************************************)
(* The caches of Discord's entities (utility/caches.cpp) as the commands   *)
(* use them: before it does anything, a command looks up its guild, its    *)
(* channel, a member and, to know what that member may do (utility/        *)
(* perms.cpp), the roles of the member.  A look-up asks the cache, then    *)
(* the data that came with the command, then Discord; what it finds enters *)
(* the cache.  Discord's updates change what is cached, and only that.     *)
(*                                                                         *)
(* Several commands run at a time, and the updates arrive on a thread of   *)
(* their own: a step is one access to a cache.  One guild is followed;     *)
(* other guilds fill the caches.  The role cache may be full, so it is a   *)
(* BoundedCache; that the others drop an element is a step of its own.     *)
(***************************************************************************)
EXTENDS Permissions, Naturals, Sequences, FiniteSets

CONSTANTS
  Handlers,          \* the commands that can run at a time
  Guild, Channel,
  Member,            \* the member whose permission is computed
  Everyone,          \* the role all members have
  Roles,             \* the other roles of the guild
  OtherRoles,        \* roles of other guilds
  Contents,          \* what an entity can be, of each
  RoleLimit,         \* purge_limit and purge_count of role_cache
  RolePurge,
  MaxChanges,        \* bound: how often anything changes on Discord
  None

GuildRoles == {Everyone} \cup Roles
Entities == {Guild, Channel, Member} \cup GuildRoles
CachedRoles == GuildRoles \cup OtherRoles

ASSUME EntityAssumption ==
  /\ IsFiniteSet(Roles) /\ IsFiniteSet(OtherRoles)
  /\ RoleLimit \in Nat \ {0} /\ RolePurge \in 1 .. RoleLimit
  /\ MaxChanges \in Nat
  /\ Guild # Channel /\ Member \notin {Guild, Channel}
  /\ {Guild, Channel, Member} \cap CachedRoles = {} /\ OtherRoles \cap GuildRoles = {}
  /\ Contents[Member] \subseteq SUBSET Roles
  /\ \A c \in Contents[Channel] : \A id \in DOMAIN c : c[id] \in Overwrite
  /\ \A k \in Entities \cup OtherRoles : None \notin Contents[k]
  /\ \A r \in GuildRoles \cup OtherRoles : Contents[r] \subseteq Permission

VARIABLES
  real,              \* Discord's entities; None: deleted
  gateway,           \* the events on their way, in their order
  cached,            \* guild_cache, channel_cache and member_cache
  role_cache,
  calls,             \* the commands
  changes,           \* counts the changes, up to the bound
  late               \* history: what an update overtook while it was fetched

vars == <<real, gateway, cached, role_cache, calls, changes, late>>

RoleCache == INSTANCE BoundedCache
  WITH elements <- role_cache, Keys <- CachedRoles, Values <- Permission,
       PurgeLimit <- RoleLimit, PurgeCount <- RolePurge

Nothing == [k \in {} |-> None]
With(f, k, v) == [j \in DOMAIN f \cup {k} |-> IF j = k THEN v ELSE f[j]]
Existing(S) == {k \in S : real[k] # None}
Snapshot(S) == [k \in Existing(S) |-> real[k]]

-----------------------------------------------------------------------------
(* The commands.                                                           *)

Idle ==
  [pc |-> "idle", key |-> None, carried |-> Nothing, resolved |-> Nothing,
   answer |-> Nothing, found |-> Nothing, result |-> None, steady |-> FALSE]

Running(c) == c.pc \notin {"idle", "ended"}

\* What is looked up next: the guild, the channel, the member; then, unless the
\* member owns the guild, the role of all and the roles of the member.
Wanted(found) ==
  LET first == {k \in {Guild, Channel, Member} \ DOMAIN found :
                  /\ k = Channel => Guild \in DOMAIN found
                  /\ k = Member => {Guild, Channel} \subseteq DOMAIN found}
  IN IF first # {} THEN first
     ELSE IF found[Guild] = Member THEN {}
     ELSE IF Everyone \notin DOMAIN found THEN {Everyone}
     ELSE found[Member] \ DOMAIN found

BaseOf(content, has) ==
  BasePermission(content[Guild] = Member, content[Everyone], {content[r] : r \in has})

\* get_computed_permission_task once it has found all it needs.
ComputedFrom(found, resolved) ==
  LET base == IF found[Guild] = Member THEN Flags ELSE BaseOf(found, found[Member])
  IN OverwritePermission(base, found[Channel], Everyone, found[Member], Member, resolved)

\* What the member may do by Discord's rule.
RealPermission ==
  LET has == Existing(real[Member])
  IN {f \in Flags :
        Granted(BaseOf(real, has), real[Channel], Everyone, has, Member, f)}

Set(h, c) == calls' = [calls EXCEPT ![h] = c]

Find(h, k, v) ==
  Set(h, [calls[h] EXCEPT !.pc = "ready", !.key = None, !.answer = Nothing,
                          !.found = With(calls[h].found, k, v)])

End(h, result) ==
  Set(h, [Idle EXCEPT !.pc = "ended", !.result = result, !.steady = calls[h].steady])

-----------------------------------------------------------------------------
(* Discord.                                                                *)

Init ==
  /\ \E g \in Contents[Guild], c \in Contents[Channel], m \in Contents[Member],
        p \in [GuildRoles -> Permission] :
       /\ \A r \in GuildRoles : p[r] \in Contents[r]
       /\ real = [k \in Entities |-> CASE k = Guild -> g [] k = Channel -> c
                                       [] k = Member -> m [] OTHER -> p[k]]
  /\ gateway = <<>>
  /\ cached = Nothing
  /\ RoleCache!Init
  /\ calls = [h \in Handlers |-> Idle]
  /\ changes = 0
  /\ late = {}

Updates == {i \in DOMAIN gateway : gateway[i].kind = "update"}
Unsteady == [h \in Handlers |-> [calls[h] EXCEPT !.steady = FALSE]]

\* A user gives a command.  It carries the channel and the member that gives
\* it, and the roles and the permissions of the member if it names them.
GiveCommand(h) ==
  /\ ~Running(calls[h])
  /\ \E named \in SUBSET Roles, asMember, isGiver \in BOOLEAN :
       Set(h, [Idle EXCEPT
         !.pc = "sent",
         !.carried = Snapshot({Channel} \cup named \cup (IF isGiver THEN {Member} ELSE {})),
         !.resolved = IF asMember THEN [m \in {Member} |-> RealPermission] ELSE Nothing,
         !.steady = /\ Updates = {} /\ late = {}
                    /\ \A k \in Entities : real[k] # None])
  /\ gateway' = Append(gateway, [kind |-> "command", from |-> h])
  /\ UNCHANGED <<real, cached, role_cache, changes, late>>

ChangeEntity(k) ==
  /\ changes < MaxChanges
  /\ real[k] # None
  /\ \E v \in Contents[k] \ {real[k]} :
       /\ real' = [real EXCEPT ![k] = v]
       /\ gateway' = Append(gateway, [kind |-> "update", key |-> k, content |-> v])
  /\ calls' = Unsteady
  /\ changes' = changes + 1
  /\ UNCHANGED <<cached, role_cache, late>>

\* Mutant: a deletion is handled like an update.
DeleteRoleAsUpdate(r) ==
  /\ changes < MaxChanges
  /\ real[r] # None
  /\ real' = [real EXCEPT ![r] = None]
  /\ gateway' = Append(gateway, [kind |-> "update", key |-> r, content |-> None])
  /\ calls' = Unsteady
  /\ changes' = changes + 1
  /\ UNCHANGED <<cached, role_cache, late>>

\* Nobody listens to on_guild_role_delete: what is cached stays.
DeleteRole(r) ==
  /\ changes < MaxChanges
  /\ real[r] # None
  /\ real' = [real EXCEPT ![r] = None]
  /\ calls' = Unsteady
  /\ changes' = changes + 1
  /\ UNCHANGED <<gateway, cached, role_cache, late>>

\* Commands of other guilds: a role of theirs is looked up, or one of the other
\* caches is full and drops the entity of this guild.
OtherGuild ==
  /\ \/ /\ \E r \in OtherRoles : \E v \in Contents[r] : RoleCache!Insert(r, v)
        /\ UNCHANGED cached
     \/ /\ \E k \in DOMAIN cached :
             cached' = [j \in (DOMAIN cached) \ {k} |-> cached[j]]
        /\ UNCHANGED role_cache
  /\ UNCHANGED <<real, gateway, calls, changes, late>>

-----------------------------------------------------------------------------
(* The caches.                                                             *)

Held == [k \in DOMAIN cached \cup DOMAIN role_cache |->
           IF k \in DOMAIN cached THEN cached[k] ELSE role_cache[k]]

\* add_element of the cache the entity belongs to.
AddElement(k, v) ==
  IF k \in CachedRoles
    THEN RoleCache!Add(k, v) /\ UNCHANGED cached
    ELSE cached' = With(cached, k, v) /\ UNCHANGED role_cache

\* A command holds k as it was, and may still put it into the cache.
Carries(c, k, v) ==
  \/ Running(c) /\ k \in DOMAIN c.carried \ DOMAIN c.found /\ c.carried[k] = v
  \/ c.pc = "answered" /\ k \in DOMAIN c.answer /\ c.answer[k] = v

Overtakes(k, v) ==
  \E h \in Handlers : \E w \in Contents[k] \ {v} : Carries(calls[h], k, w)

\* Mutant: the members' updates are not listened to.
UpdateAllButMembers(k, v) ==
  CASE k = Member -> UNCHANGED <<cached, role_cache>>
    [] k \in DOMAIN role_cache -> RoleCache!Replace(k, v) /\ UNCHANGED cached
    [] k \in DOMAIN cached \ {Member} -> cached' = With(cached, k, v) /\ UNCHANGED role_cache
    [] OTHER -> UNCHANGED <<cached, role_cache>>

\* The callbacks that caches::init attaches: update_element, so an entity that
\* is not cached is not added.
UpdateElement(k, v) ==
  CASE k \in DOMAIN role_cache -> RoleCache!Replace(k, v) /\ UNCHANGED cached
    [] k \in DOMAIN cached -> cached' = With(cached, k, v) /\ UNCHANGED role_cache
    [] OTHER -> UNCHANGED <<cached, role_cache>>

Deliver ==
  /\ gateway # <<>>
  /\ gateway' = Tail(gateway)
  /\ LET event == Head(gateway) IN
       \/ /\ event.kind = "command"
          /\ Set(event.from, [calls[event.from] EXCEPT !.pc = "ready"])
          /\ UNCHANGED <<cached, role_cache, late>>
       \/ /\ event.kind = "update"
          /\ UpdateElement(event.key, event.content)
          /\ late' = IF Overtakes(event.key, event.content)
                       THEN late \cup {event.key} ELSE late \ {event.key}
          /\ UNCHANGED calls
  /\ UNCHANGED <<real, changes>>

-----------------------------------------------------------------------------
(* A look-up.                                                              *)

\* get_element finds it.
Hit(h) ==
  /\ calls[h].pc = "ready"
  /\ \E k \in Wanted(calls[h].found) \cap DOMAIN Held : Find(h, k, Held[k])
  /\ UNCHANGED <<real, gateway, cached, role_cache, changes, late>>

Miss(h) ==
  /\ calls[h].pc = "ready"
  /\ \E k \in Wanted(calls[h].found) \ DOMAIN Held :
       Set(h, [calls[h] EXCEPT !.pc = "missed", !.key = k])
  /\ UNCHANGED <<real, gateway, cached, role_cache, changes, late>>

\* The interaction's own channel or member, or the resolved entities.
TakeFromEvent(h) ==
  LET c == calls[h] IN
  /\ c.pc = "missed" /\ c.key \in DOMAIN c.carried
  /\ AddElement(c.key, c.carried[c.key])
  /\ Find(h, c.key, c.carried[c.key])
  /\ UNCHANGED <<real, gateway, changes, late>>

\* Discord's answer, as it was when it left: all the roles if one is wanted.
Answer(h) ==
  LET c == calls[h] IN
  /\ c.pc = "missed" /\ c.key \notin DOMAIN c.carried
  /\ real[c.key] # None \/ c.key \in GuildRoles
  /\ Set(h, [c EXCEPT !.pc = "answered",
                      !.answer = Snapshot(IF c.key \in GuildRoles THEN GuildRoles ELSE {c.key})])
  /\ UNCHANGED <<real, gateway, cached, role_cache, changes, late>>

\* An error, or an answer of another kind: an error text is sent, and nothing
\* is found; so the permission is not known and the command ends.
NoAnswer(h) ==
  /\ calls[h].pc = "missed" /\ calls[h].key \notin DOMAIN calls[h].carried
  /\ End(h, None)
  /\ UNCHANGED <<real, gateway, cached, role_cache, changes, late>>

\* Everything but the role of all: only what was asked for enters the cache.
TakeAnswer(h) ==
  LET c == calls[h] IN
  /\ c.pc = "answered" /\ c.key # Everyone /\ c.key \in DOMAIN c.answer
  /\ AddElement(c.key, c.answer[c.key])
  /\ Find(h, c.key, c.answer[c.key])
  /\ UNCHANGED <<real, gateway, changes, late>>

MissingRole(h) ==
  LET c == calls[h] IN
  /\ c.pc = "answered" /\ c.key # Everyone /\ c.key \notin DOMAIN c.answer
  /\ End(h, None)
  /\ UNCHANGED <<real, gateway, cached, role_cache, changes, late>>

\* The role of all is looked up with add_all_guild_roles: the roles enter the
\* cache one after the other, in the order of an unordered_map.
AddRole(h) ==
  LET c == calls[h] IN
  /\ c.pc = "answered" /\ c.key = Everyone
  /\ \E r \in DOMAIN c.answer :
       /\ AddElement(r, c.answer[r])
       /\ Set(h, [c EXCEPT
            !.answer = [q \in (DOMAIN c.answer) \ {r} |-> c.answer[q]],
            !.pc = IF DOMAIN c.answer = {r} THEN "added" ELSE "answered"])
  /\ UNCHANGED <<real, gateway, changes, late>>

\* ... and the role of all is looked up again, in the cache only.
FindAdded(h) ==
  /\ calls[h].pc = "added"
  /\ \/ Everyone \in DOMAIN role_cache /\ Find(h, Everyone, role_cache[Everyone])
     \/ Everyone \notin DOMAIN role_cache /\ End(h, None)
  /\ UNCHANGED <<real, gateway, cached, role_cache, changes, late>>

Compute(h) ==
  /\ calls[h].pc = "ready" /\ Wanted(calls[h].found) = {}
  /\ End(h, ComputedFrom(calls[h].found, calls[h].resolved))
  /\ UNCHANGED <<real, gateway, cached, role_cache, changes, late>>

Step(h) ==
  \/ Hit(h) \/ Miss(h) \/ TakeFromEvent(h)
  \/ Answer(h) \/ NoAnswer(h) \/ TakeAnswer(h) \/ MissingRole(h)
  \/ AddRole(h) \/ FindAdded(h) \/ Compute(h)

Next ==
  \/ \E h \in Handlers : GiveCommand(h) \/ Step(h)
  \/ \E k \in Entities : ChangeEntity(k)
  \/ \E r \in Roles : DeleteRole(r)
  \/ OtherGuild
  \/ Deliver

Spec == Init /\ [][Next]_vars

-----------------------------------------------------------------------------
\* The caches hold entities of their kind, never one that was deleted, and the
\* role cache keeps to its limit; a command ends with a permission or nothing.
TypeOK ==
  /\ \A k \in Entities : real[k] \in Contents[k] \cup {None}
  /\ DOMAIN cached \subseteq {Guild, Channel, Member}
  /\ DOMAIN role_cache \subseteq CachedRoles
  /\ Cardinality(DOMAIN role_cache) <= RoleLimit
  /\ \A k \in DOMAIN Held : Held[k] \in Contents[k]
  /\ \A h \in Handlers :
       /\ DOMAIN calls[h].found \subseteq Entities
       /\ calls[h].result = None \/ calls[h].result \in Permission
  /\ late \subseteq Entities

\* A cached entity is Discord's, with three exceptions only: its update is still
\* on the way; a role was deleted, of which nobody is told; or the update came
\* while an older answer, or the data of an older command, was in the hands of
\* a look-up, which then put it into the cache.
CacheIsFresh ==
  \A k \in DOMAIN Held \cap Entities :
    \/ real[k] \in {Held[k], None}
    \/ \E i \in Updates : gateway[i].key = k
    \/ k \in late

\* If nothing changes from the moment a command is given to its end, and the
\* caches were right, then what is computed is what Discord grants: whichever
\* of the entities came from the caches, from the command or from Discord, and
\* whatever the other commands added and dropped meanwhile.
ComputedIsGranted ==
  \A h \in Handlers :
    calls[h].pc = "ended" /\ calls[h].steady /\ calls[h].result # None =>
      calls[h].result = RealPermission
=============================================================================
