----------------------------- MODULE Permissions -----------------------------
(***************************************************************************)
(* The bits of utility/perms.cpp.  A dpp::permission is the set of its     *)
(* flags; ~0 is the set of all.  The overwrites of a channel are a         *)
(* function from the roles and members that have one: Discord keeps one    *)
(* for each, and the loops that stop at the first find that one.           *)
(***************************************************************************)
CONSTANTS
  Flags,
  Administrator      \* p_administrator

ASSUME PermissionsAssumption == Administrator \in Flags

Permission == SUBSET Flags
Overwrite == [deny : Permission, allow : Permission]

NoOverwrite == [deny |-> {}, allow |-> {}]
OverwriteOf(channel, id) == IF id \in DOMAIN channel THEN channel[id] ELSE NoOverwrite

Applied(permission, overwrite) == (permission \ overwrite.deny) \cup overwrite.allow

Merged(overwrites) ==
  [deny |-> UNION {o.deny : o \in overwrites}, allow |-> UNION {o.allow : o \in overwrites}]

\* get_base_permission: an owner may do all, and so may who has the flag.
BasePermission(owner, everyone, granted) ==
  LET total == everyone \cup UNION granted
  IN IF owner \/ Administrator \in total THEN Flags ELSE total

\* Mutant: the overwrite of the member is applied before those of its roles.
OverwriteMemberFirst(base, channel, everyone, roles, member, resolved) ==
  LET named == {channel[r] : r \in (roles \ {everyone}) \cap DOMAIN channel}
      general == Applied(base, OverwriteOf(channel, everyone))
      ofMember == Applied(general, OverwriteOf(channel, member))
  IN IF Administrator \in base
       THEN Flags
       ELSE IF member \in DOMAIN resolved
              THEN resolved[member]
              ELSE Applied(ofMember, Merged(named))

\* get_overwrite_permission; resolved holds what Discord sent along, for the
\* members a command names.
OverwritePermission(base, channel, everyone, roles, member, resolved) ==
  LET named == {channel[r] : r \in (roles \ {everyone}) \cap DOMAIN channel}
      general == Applied(base, OverwriteOf(channel, everyone))
      ofRoles == Applied(general, Merged(named))
  IN IF Administrator \in base
       THEN Flags
       ELSE IF member \in DOMAIN resolved
              THEN resolved[member]
              ELSE Applied(ofRoles, OverwriteOf(channel, member))

-----------------------------------------------------------------------------
(* The rule, flag by flag: the most particular overwrite that mentions a   *)
(* flag decides, and if none does, the roles do.  Where one overwrite, or  *)
(* the roles among them, both allow and deny, allowing wins.               *)

Allows(overwrites, f) == \E o \in overwrites : f \in o.allow
Denies(overwrites, f) == \E o \in overwrites : f \in o.deny

Decided(overwrites, f, otherwise) ==
  Allows(overwrites, f) \/ (otherwise /\ ~Denies(overwrites, f))

OverwritesOf(channel, ids) == {channel[id] : id \in ids \cap DOMAIN channel}

Granted(base, channel, everyone, roles, member, f) ==
  \/ Administrator \in base
  \/ Decided(OverwritesOf(channel, {member}), f,
       Decided(OverwritesOf(channel, roles \ {everyone}), f,
         Decided(OverwritesOf(channel, {everyone}), f, f \in base)))
=============================================================================
