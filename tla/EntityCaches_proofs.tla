------------------------ MODULE EntityCaches_proofs ------------------------
(***************************************************************************)
(* Proofs about EntityCaches and Permissions.  What                        *)
(* get_overwrite_permission computes is the rule stated flag by flag.  And *)
(* what the caches hold is Discord's, with the exceptions that             *)
(* CacheIsFresh names, for any number of commands, roles and changes: the  *)
(* invariant says the same of what each command has in its hands, because  *)
(* it may put it into a cache, and that the last update on its way for an  *)
(* entity tells the truth.  While nothing changes, what a command computes *)
(* from them is what Discord grants.                                       *)
(***************************************************************************)
EXTENDS EntityCaches, FiniteSetTheorems, TLAPS

\* get_overwrite_permission decides each flag by the most particular overwrite
\* that mentions it, for every set of flags, roles and overwrites.
THEOREM OverwritesDecide ==
  ASSUME NEW base \in Permission, NEW everyone, NEW roles, NEW member,
         NEW channel, \A id \in DOMAIN channel : channel[id] \in Overwrite,
         NEW resolved, member \notin DOMAIN resolved,
         NEW f \in Flags
  PROVE  f \in OverwritePermission(base, channel, everyone, roles, member, resolved)
           <=> Granted(base, channel, everyone, roles, member, f)
<1> DEFINE named == {channel[r] : r \in (roles \ {everyone}) \cap DOMAIN channel}
           general == Applied(base, OverwriteOf(channel, everyone))
           ofRoles == Applied(general, Merged(named))
           total == Applied(ofRoles, OverwriteOf(channel, member))
<1>1. ASSUME NEW permission, NEW id
      PROVE  f \in Applied(permission, OverwriteOf(channel, id))
               <=> Decided(OverwritesOf(channel, {id}), f, f \in permission)
  <2>1. CASE id \in DOMAIN channel
    <3>1. OverwriteOf(channel, id) = channel[id] /\ OverwritesOf(channel, {id}) = {channel[id]}
      BY <2>1 DEF OverwriteOf, OverwritesOf
    <3> QED BY <3>1 DEF Applied, Decided, Allows, Denies
  <2>2. CASE id \notin DOMAIN channel
    <3>1. OverwriteOf(channel, id) = NoOverwrite /\ OverwritesOf(channel, {id}) = {}
      BY <2>2 DEF OverwriteOf, OverwritesOf
    <3> QED BY <3>1 DEF NoOverwrite, Applied, Decided, Allows, Denies
  <2> QED BY <2>1, <2>2
<1>2. f \in ofRoles <=> Decided(OverwritesOf(channel, roles \ {everyone}), f, f \in general)
  <2>1. OverwritesOf(channel, roles \ {everyone}) = named
    BY DEF OverwritesOf
  <2> HIDE DEF named, general
  <2> QED BY <2>1 DEF Merged, Applied, Decided, Allows, Denies
<1>3. f \in total <=>
        Decided(OverwritesOf(channel, {member}), f,
          Decided(OverwritesOf(channel, roles \ {everyone}), f,
            Decided(OverwritesOf(channel, {everyone}), f, f \in base)))
  <2>1. f \in general <=> Decided(OverwritesOf(channel, {everyone}), f, f \in base)
    BY <1>1
  <2>2. f \in total <=> Decided(OverwritesOf(channel, {member}), f, f \in ofRoles)
    BY <1>1
  <2> HIDE DEF general, ofRoles, total
  <2> QED BY <1>2, <2>1, <2>2 DEF Decided
<1>4. OverwritePermission(base, channel, everyone, roles, member, resolved)
        = IF Administrator \in base THEN Flags ELSE total
  BY DEF OverwritePermission
<1> HIDE DEF total
<1> QED BY <1>3, <1>4 DEF Granted

-----------------------------------------------------------------------------
(* What is Discord's.                                                      *)

\* An update of k is among the events g.
Pending(k, g) == \E i \in DOMAIN g : g[i].kind = "update" /\ g[i].key = k

\* v is what k is in r, or k falls under one of the exceptions.
Settled(k, v, r, g, l) ==
  /\ v \in Contents[k]
  /\ r[k] \in {v, None} \/ Pending(k, g) \/ k \in l

\* The step from r and g to s and after: no update is lost, and what has changed
\* is deleted or has an update on its way.
Follows(r, g, s, after) ==
  /\ \A k : Pending(k, g) => Pending(k, after)
  /\ \A k \in Entities : s[k] \in {r[k], None} \/ Pending(k, after)

\* The step from g to after takes the event e: if it was the last update of its
\* entity, it is true.
Leaves(r, g, after, e) ==
  /\ e.kind = "update" => Pending(e.key, after) \/ r[e.key] \in {e.content, None}
  /\ \A k : Pending(k, g) => Pending(k, after) \/ (e.kind = "update" /\ e.key = k)

\* The last update of an entity says what the entity is, unless it is deleted.
LastIsTrue(r, g) ==
  \A i \in DOMAIN g :
    /\ g[i].kind = "update"
    /\ \A j \in DOMAIN g : g[j].kind = "update" /\ g[j].key = g[i].key => j <= i
    => r[g[i].key] \in {g[i].content, None}

Event == [kind : {"command"}, from : Handlers]
           \cup UNION {[kind : {"update"}, key : {k}, content : Contents[k]] : k \in Entities}

\* What a command has in its hands, by each of the places it can be in.
IsCall(c) ==
  \E pc, key, carried, resolved, answer, found, result, steady :
    c = [pc |-> pc, key |-> key, carried |-> carried, resolved |-> resolved,
         answer |-> answer, found |-> found, result |-> result, steady |-> steady]

\* A command that has found something, one that misses k, one with an answer, one
\* that ends and one that is given.
Found(c, f) == [c EXCEPT !.pc = "ready", !.key = None, !.answer = Nothing, !.found = f]

Missed(c, k) == [c EXCEPT !.pc = "missed", !.key = k]

Holding(c, place, a) == [c EXCEPT !.pc = place, !.answer = a]

HoldingLess(c, place, a) == [c EXCEPT !.answer = a, !.pc = place]

Ended(result, steady) == [Idle EXCEPT !.pc = "ended", !.result = result, !.steady = steady]

Sent(carried, resolved, steady) ==
  [Idle EXCEPT !.pc = "sent", !.carried = carried, !.resolved = resolved, !.steady = steady]

GoodCall(c, r, g, l) ==
  /\ IsCall(c)
  /\ ~Running(c) => DOMAIN c.carried = {}
  /\ c.pc = "missed" => c.key \in Entities \ DOMAIN c.found
  /\ Member \in DOMAIN c.found => c.found[Member] \subseteq Roles
  /\ \A k, v : Carries(c, k, v) => k \in Entities /\ Settled(k, v, r, g, l)

GoodCaches(r, g, l, others, roles) ==
  /\ DOMAIN others \subseteq {Guild, Channel, Member}
  /\ DOMAIN roles \subseteq CachedRoles
  /\ \A k \in DOMAIN others : Settled(k, others[k], r, g, l)
  /\ \A k \in (DOMAIN roles) \cap Entities : Settled(k, roles[k], r, g, l)

GoodDiscord(r, g) ==
  /\ r = [k \in Entities |-> r[k]]
  /\ \A k \in Entities : r[k] \in Contents[k] \cup {None}
  /\ g \in Seq(Event)
  /\ LastIsTrue(r, g)

GoodCalls(cs, r, g, l) ==
  /\ cs = [h \in Handlers |-> cs[h]]
  /\ \A h \in Handlers : GoodCall(cs[h], r, g, l)

IInv ==
  /\ GoodDiscord(real, gateway)
  /\ GoodCaches(real, gateway, late, cached, role_cache)
  /\ GoodCalls(calls, real, gateway, late)

\* What a step of a look-up leaves as it was.
SameOutcome(c, d) ==
  d.resolved = c.resolved /\ d.result = c.result /\ d.steady = c.steady

LEMMA Distinct ==
  /\ Guild \in Entities /\ Channel \in Entities /\ Member \in Entities
  /\ GuildRoles \subseteq Entities /\ GuildRoles \subseteq CachedRoles
  /\ Everyone \in GuildRoles
  /\ {Guild, Channel, Member} \cap CachedRoles = {}
  /\ \A k \in Entities : k \in CachedRoles <=> k \notin {Guild, Channel, Member}
  /\ \A k \in OtherRoles : k \notin Entities /\ k \in CachedRoles
BY EntityAssumption DEF Entities, GuildRoles, CachedRoles

\* An element is added: nothing else appears, and nothing else changes.
LEMMA RoleAdded ==
  ASSUME NEW k, NEW v, RoleCache!Add(k, v)
  PROVE  /\ DOMAIN role_cache' \subseteq DOMAIN role_cache \cup {k}
         /\ \A j \in DOMAIN role_cache' :
              role_cache'[j] = IF j = k THEN v ELSE role_cache[j]
<1>1. CASE RoleCache!Replace(k, v)
  BY <1>1 DEF RoleCache!Replace
<1>2. CASE RoleCache!Insert(k, v)
  <2>1. PICK lost \in SUBSET DOMAIN role_cache :
          role_cache' = [j \in DOMAIN RoleCache!Without(lost) \cup {k} |->
                           IF j = k THEN v ELSE role_cache[j]]
    BY <1>2 DEF RoleCache!Insert, RoleCache!Victims
  <2>2. DOMAIN RoleCache!Without(lost) \subseteq DOMAIN role_cache
    BY DEF RoleCache!Without
  <2> QED BY <2>1, <2>2
<1> QED BY <1>1, <1>2 DEF RoleCache!Add

\* What a command adds is settled, and so the caches stay as they should be.
LEMMA ElementAdded ==
  ASSUME NEW k \in Entities, NEW v, NEW r, NEW g, NEW l,
         GoodCaches(r, g, l, cached, role_cache), Settled(k, v, r, g, l), AddElement(k, v)
  PROVE  GoodCaches(r, g, l, cached', role_cache')
<1>1. CASE k \in CachedRoles
  <2>1. RoleCache!Add(k, v) /\ cached' = cached
    BY <1>1 DEF AddElement
  <2> QED BY <1>1, <2>1, RoleAdded DEF GoodCaches
<1>2. CASE k \notin CachedRoles
  <2>1. cached' = With(cached, k, v) /\ role_cache' = role_cache
    BY <1>2 DEF AddElement
  <2>2. k \in {Guild, Channel, Member}
    BY <1>2, Distinct
  <2> QED BY <2>1, <2>2 DEF GoodCaches, With
<1> QED BY <1>1, <1>2

\* A command goes on with nothing in its hands that it had not, or that is
\* not settled.
LEMMA CallGoesOn ==
  ASSUME NEW r, NEW g, NEW l, GoodCalls(calls, r, g, l), NEW h \in Handlers,
         NEW c, Set(h, c), IsCall(c),
         ~Running(c) => DOMAIN c.carried = {},
         c.pc = "missed" => c.key \in Entities \ DOMAIN c.found,
         Member \in DOMAIN c.found => c.found[Member] \subseteq Roles,
         \A k, v : Carries(c, k, v) =>
           Carries(calls[h], k, v) \/ (k \in Entities /\ Settled(k, v, r, g, l))
  PROVE  GoodCalls(calls', r, g, l)
<1>1. GoodCall(c, r, g, l)
  BY DEF GoodCalls, GoodCall
<1>2. calls' = [i \in Handlers |-> IF i = h THEN c ELSE calls[i]]
  BY DEF Set, GoodCalls
<1> QED BY <1>1, <1>2 DEF GoodCalls

\* A command has to look for something.
LEMMA Missing ==
  ASSUME NEW c, IsCall(c), NEW k, NEW d, d = Missed(c, k)
  PROVE  /\ IsCall(d) /\ d.pc = "missed" /\ d.key = k
         /\ d.carried = c.carried /\ d.found = c.found
         /\ d.answer = c.answer /\ SameOutcome(c, d)
<1>1. PICK pc, key, carried, resolved, answer, found, result, steady :
        c = [pc |-> pc, key |-> key, carried |-> carried, resolved |-> resolved,
             answer |-> answer, found |-> found, result |-> result, steady |-> steady]
  BY Zenon DEF IsCall
<1>2. d = [pc |-> "missed", key |-> k, carried |-> carried, resolved |-> resolved,
           answer |-> answer, found |-> found, result |-> result, steady |-> steady]
  BY <1>1 DEF Missed
<1>3. IsCall(d)
  BY <1>2, Zenon DEF IsCall
<1>4. /\ d.pc = "missed" /\ d.key = k
      /\ d.carried = c.carried /\ d.found = c.found
      /\ d.answer = c.answer /\ SameOutcome(c, d)
  BY <1>1, <1>2 DEF SameOutcome
<1> QED BY <1>3, <1>4

\* An answer is in the hands of a command.
LEMMA Answered ==
  ASSUME NEW c, IsCall(c), NEW place, NEW a, NEW d, d = Holding(c, place, a)
  PROVE  /\ IsCall(d) /\ d.pc = place /\ d.answer = a
         /\ d.carried = c.carried /\ d.found = c.found
         /\ SameOutcome(c, d)
<1>1. PICK pc, key, carried, resolved, answer, found, result, steady :
        c = [pc |-> pc, key |-> key, carried |-> carried, resolved |-> resolved,
             answer |-> answer, found |-> found, result |-> result, steady |-> steady]
  BY Zenon DEF IsCall
<1>2. d = [pc |-> place, key |-> key, carried |-> carried, resolved |-> resolved,
           answer |-> a, found |-> found, result |-> result, steady |-> steady]
  BY <1>1 DEF Holding
<1>3. IsCall(d)
  BY <1>2, Zenon DEF IsCall
<1>4. /\ d.pc = place /\ d.answer = a
      /\ d.carried = c.carried /\ d.found = c.found /\ SameOutcome(c, d)
  BY <1>1, <1>2 DEF SameOutcome
<1> QED BY <1>3, <1>4

\* A part of the answer is in the cache.
LEMMA Lessening ==
  ASSUME NEW c, IsCall(c), NEW place, NEW a, NEW d, d = HoldingLess(c, place, a)
  PROVE  /\ IsCall(d) /\ d.pc = place /\ d.answer = a
         /\ d.carried = c.carried /\ d.found = c.found
         /\ SameOutcome(c, d)
<1>1. PICK pc, key, carried, resolved, answer, found, result, steady :
        c = [pc |-> pc, key |-> key, carried |-> carried, resolved |-> resolved,
             answer |-> answer, found |-> found, result |-> result, steady |-> steady]
  BY Zenon DEF IsCall
<1>2. d = [pc |-> place, key |-> key, carried |-> carried, resolved |-> resolved,
           answer |-> a, found |-> found, result |-> result, steady |-> steady]
  BY <1>1 DEF HoldingLess
<1>3. IsCall(d)
  BY <1>2, Zenon DEF IsCall
<1>4. /\ d.pc = place /\ d.answer = a
      /\ d.carried = c.carried /\ d.found = c.found /\ SameOutcome(c, d)
  BY <1>1, <1>2 DEF SameOutcome
<1> QED BY <1>3, <1>4

\* A command has found something.
LEMMA Finding ==
  ASSUME NEW c, IsCall(c), NEW f, NEW d, d = Found(c, f)
  PROVE  /\ IsCall(d) /\ d.pc = "ready" /\ d.carried = c.carried /\ d.found = f
         /\ d.answer = Nothing /\ SameOutcome(c, d)
<1>1. PICK pc, key, carried, resolved, answer, found, result, steady :
        c = [pc |-> pc, key |-> key, carried |-> carried, resolved |-> resolved,
             answer |-> answer, found |-> found, result |-> result, steady |-> steady]
  BY Zenon DEF IsCall
<1>2. d = [pc |-> "ready", key |-> None, carried |-> carried, resolved |-> resolved,
           answer |-> Nothing, found |-> f, result |-> result, steady |-> steady]
  BY <1>1 DEF Found
<1>3. IsCall(d)
  BY <1>2, Zenon DEF IsCall
<1>4. /\ d.pc = "ready" /\ d.carried = c.carried /\ d.found = f
      /\ d.answer = Nothing /\ SameOutcome(c, d)
  BY <1>1, <1>2 DEF SameOutcome
<1> QED BY <1>3, <1>4

\* A command moves on to another place, with what it had.
LEMMA Moving ==
  ASSUME NEW c, IsCall(c), NEW place, NEW d, d = [c EXCEPT !.pc = place]
  PROVE  /\ IsCall(d) /\ d.pc = place /\ d.key = c.key /\ d.carried = c.carried
         /\ d.answer = c.answer /\ d.found = c.found /\ SameOutcome(c, d)
<1>1. PICK pc, key, carried, resolved, answer, found, result, steady :
        c = [pc |-> pc, key |-> key, carried |-> carried, resolved |-> resolved,
             answer |-> answer, found |-> found, result |-> result, steady |-> steady]
  BY Zenon DEF IsCall
<1>2. d = [pc |-> place, key |-> key, carried |-> carried, resolved |-> resolved,
           answer |-> answer, found |-> found, result |-> result, steady |-> steady]
  BY <1>1
<1>3. IsCall(d)
  BY <1>2, Zenon DEF IsCall
<1> QED BY <1>1, <1>2, <1>3 DEF SameOutcome

\* A command's event neither is an update nor hides one.
LEMMA CommandAppended ==
  ASSUME NEW r, NEW g, GoodDiscord(r, g), NEW h \in Handlers,
         NEW after, after = Append(g, [kind |-> "command", from |-> h])
  PROVE  GoodDiscord(r, after) /\ Follows(r, g, r, after)
<1> DEFINE e == [kind |-> "command", from |-> h]
<1>1. e \in Event /\ e.kind # "update"
  BY DEF Event
<1>2. g \in Seq(Event)
  BY DEF GoodDiscord
<1> HIDE DEF e
<1>3. /\ after \in Seq(Event) /\ DOMAIN after = DOMAIN g \cup {Len(g) + 1}
      /\ \A i \in DOMAIN g : after[i] = g[i]
      /\ after[Len(g) + 1] = e
  BY <1>1, <1>2 DEF e
<1>4. \A i \in DOMAIN after : after[i].kind = "update" => i \in DOMAIN g /\ after[i] = g[i]
  BY <1>1, <1>3
<1>5. Follows(r, g, r, after)
  BY <1>3, <1>4 DEF Pending, Follows
<1>6. LastIsTrue(r, after)
  <2>1. LastIsTrue(r, g)
    BY DEF GoodDiscord
  <2> QED BY <1>3, <1>4, <2>1 DEF LastIsTrue
<1> QED BY <1>3, <1>5, <1>6 DEF GoodDiscord

\* A change puts its update behind all others.
LEMMA UpdateAppended ==
  ASSUME NEW r, NEW g, GoodDiscord(r, g), NEW k \in Entities, NEW v \in Contents[k],
         NEW after, after = Append(g, [kind |-> "update", key |-> k, content |-> v]),
         NEW s, s = [r EXCEPT ![k] = v]
  PROVE  GoodDiscord(s, after) /\ Follows(r, g, s, after)
<1> DEFINE e == [kind |-> "update", key |-> k, content |-> v]
<1>1. e \in Event /\ e.kind = "update" /\ e.key = k /\ e.content = v
  BY DEF Event
<1>2. g \in Seq(Event) /\ Len(g) \in Nat /\ DOMAIN g = 1 .. Len(g)
  BY DEF GoodDiscord
<1> HIDE DEF e
<1>3. /\ after \in Seq(Event) /\ DOMAIN after = DOMAIN g \cup {Len(g) + 1}
      /\ \A i \in DOMAIN g : after[i] = g[i]
      /\ after[Len(g) + 1] = e
  BY <1>1, <1>2 DEF e
<1>4. Pending(k, after) /\ \A j : Pending(j, g) => Pending(j, after)
  BY <1>1, <1>3 DEF Pending
<1>5. /\ s = [j \in Entities |-> s[j]] /\ s[k] = v
      /\ \A j \in Entities \ {k} : s[j] = r[j]
  BY DEF GoodDiscord
<1>6. \A j \in Entities : s[j] \in Contents[j] \cup {None}
  BY <1>5 DEF GoodDiscord
<1>7. LastIsTrue(s, after)
  <2> SUFFICES ASSUME NEW i \in DOMAIN after, after[i].kind = "update",
                      \A j \in DOMAIN after :
                        after[j].kind = "update" /\ after[j].key = after[i].key => j <= i
               PROVE  s[after[i].key] \in {after[i].content, None}
    BY DEF LastIsTrue
  <2>1. CASE i = Len(g) + 1
    BY <1>1, <1>3, <1>5, <2>1
  <2>2. CASE i # Len(g) + 1
    <3>1. i \in DOMAIN g /\ after[i] = g[i] /\ i < Len(g) + 1
      BY <1>2, <1>3, <2>2
    <3>2. after[i].key # k
      <4>1. Len(g) + 1 \in DOMAIN after /\ ~(Len(g) + 1 <= i)
        BY <1>2, <1>3, <3>1
      <4> QED BY <1>1, <1>3, <4>1
    <3>3. r[g[i].key] \in {g[i].content, None}
      BY <1>3, <3>1 DEF GoodDiscord, LastIsTrue
    <3>4. g[i].key \in Entities
      BY <1>2, <3>1 DEF Event
    <3> QED BY <1>5, <3>1, <3>2, <3>3, <3>4
  <2> QED BY <2>1, <2>2
<1>8. Follows(r, g, s, after)
  BY <1>4, <1>5 DEF Follows
<1> QED BY <1>3, <1>5, <1>6, <1>7, <1>8 DEF GoodDiscord

\* The first event leaves.
LEMMA EventTaken ==
  ASSUME NEW r, NEW g, GoodDiscord(r, g), g # <<>>,
         NEW after, after = Tail(g), NEW e, e = Head(g)
  PROVE  /\ e \in Event
         /\ GoodDiscord(r, after)
         /\ Leaves(r, g, after, e)
<1>1. g \in Seq(Event) /\ Len(g) \in Nat \ {0} /\ DOMAIN g = 1 .. Len(g)
  BY DEF GoodDiscord
<1>2. /\ after \in Seq(Event) /\ DOMAIN after = 1 .. Len(g) - 1
      /\ \A i \in DOMAIN after : i + 1 \in DOMAIN g /\ after[i] = g[i + 1]
      /\ e = g[1] /\ e \in Event
  BY <1>1
<1>3. \A i \in DOMAIN g : i = 1 \/ (i - 1 \in DOMAIN after /\ after[i - 1] = g[i])
  BY <1>1, <1>2
<1>4. LastIsTrue(r, after)
  <2> SUFFICES ASSUME NEW i \in DOMAIN after, after[i].kind = "update",
                      \A j \in DOMAIN after :
                        after[j].kind = "update" /\ after[j].key = after[i].key => j <= i
               PROVE  r[after[i].key] \in {after[i].content, None}
    BY DEF LastIsTrue
  <2>1. i + 1 \in DOMAIN g /\ g[i + 1] = after[i]
    BY <1>2
  <2>2. ASSUME NEW j \in DOMAIN g, g[j].kind = "update", g[j].key = g[i + 1].key
        PROVE  j <= i + 1
    <3>1. CASE j = 1
      BY <1>2, <3>1
    <3>2. CASE j # 1
      <4>1. j - 1 \in DOMAIN after /\ after[j - 1] = g[j]
        BY <1>3, <3>2
      <4>2. j - 1 <= i
        BY <2>1, <2>2, <4>1
      <4> QED BY <1>1, <1>2, <4>2
    <3> QED BY <3>1, <3>2
  <2> QED BY <2>1, <2>2 DEF GoodDiscord, LastIsTrue
<1>5. ASSUME NEW k, Pending(k, g), ~Pending(k, after)
      PROVE  e.kind = "update" /\ e.key = k /\ r[k] \in {e.content, None}
  <2>1. \A i \in DOMAIN g : g[i].kind = "update" /\ g[i].key = k => i = 1
    BY <1>3, <1>5 DEF Pending
  <2>2. e.kind = "update" /\ e.key = k
    BY <1>2, <1>5, <2>1 DEF Pending
  <2>3. 1 \in DOMAIN g /\ \A j \in DOMAIN g :
          g[j].kind = "update" /\ g[j].key = g[1].key => j <= 1
    BY <1>1, <1>2, <2>1, <2>2
  <2> QED BY <1>2, <2>2, <2>3 DEF GoodDiscord, LastIsTrue
<1>6. e.kind = "update" => Pending(e.key, g)
  BY <1>1, <1>2 DEF Pending
<1> QED BY <1>2, <1>4, <1>5, <1>6 DEF GoodDiscord, Leaves

-----------------------------------------------------------------------------
(* The steps.                                                              *)

\* What was settled stays so when nothing but updates is added to the events.
LEMMA MoreEvents ==
  ASSUME NEW r, NEW s, NEW g, NEW after, NEW l,
         Follows(r, g, s, after)
  PROVE  /\ \A k \in Entities : \A v : Settled(k, v, r, g, l) => Settled(k, v, s, after, l)
         /\ GoodCaches(r, g, l, cached, role_cache) =>
              GoodCaches(s, after, l, cached, role_cache)
         /\ \A c : GoodCall(c, r, g, l) => GoodCall(c, s, after, l)
<1>1. \A k \in Entities : \A v : Settled(k, v, r, g, l) => Settled(k, v, s, after, l)
  BY DEF Settled, Follows
<1>2. GoodCaches(r, g, l, cached, role_cache) => GoodCaches(s, after, l, cached, role_cache)
  BY <1>1, Distinct DEF GoodCaches
<1>3. \A c : GoodCall(c, r, g, l) => GoodCall(c, s, after, l)
  BY <1>1 DEF GoodCall
<1> QED BY <1>1, <1>2, <1>3

\* Forgetting that nothing changed leaves a command as good as it was.
LEMMA Forgetting ==
  ASSUME NEW c, IsCall(c), NEW no, NEW d, d = [c EXCEPT !.steady = no]
  PROVE  /\ IsCall(d) /\ d.pc = c.pc /\ d.key = c.key /\ d.carried = c.carried
         /\ d.answer = c.answer /\ d.found = c.found
         /\ d.resolved = c.resolved /\ d.result = c.result /\ d.steady = no
<1>1. PICK pc, key, carried, resolved, answer, found, result, steady :
        c = [pc |-> pc, key |-> key, carried |-> carried, resolved |-> resolved,
             answer |-> answer, found |-> found, result |-> result, steady |-> steady]
  BY Zenon DEF IsCall
<1>2. d = [pc |-> pc, key |-> key, carried |-> carried, resolved |-> resolved,
           answer |-> answer, found |-> found, result |-> result, steady |-> no]
  BY <1>1
<1>3. IsCall(d)
  BY <1>2, Zenon DEF IsCall
<1> QED BY <1>1, <1>2, <1>3

LEMMA UnsteadyGood ==
  ASSUME NEW r, NEW g, NEW l, \A h \in Handlers : GoodCall(calls[h], r, g, l)
  PROVE  GoodCalls(Unsteady, r, g, l)
<1>1. ASSUME NEW h \in Handlers
      PROVE  GoodCall([calls[h] EXCEPT !.steady = FALSE], r, g, l)
  <2> DEFINE c == calls[h]
             d == [c EXCEPT !.steady = FALSE]
  <2>1. GoodCall(c, r, g, l)
    OBVIOUS
  <2> HIDE DEF c
  <2>2. d = [c EXCEPT !.steady = FALSE]
    OBVIOUS
  <2> HIDE DEF d
  <2>3. /\ IsCall(d) /\ d.pc = c.pc /\ d.key = c.key /\ d.carried = c.carried
        /\ d.answer = c.answer /\ d.found = c.found
    BY <2>1, <2>2, Forgetting DEF GoodCall
  <2>4. GoodCall(d, r, g, l)
    BY <2>1, <2>3 DEF GoodCall, Running, Carries
  <2> QED BY <2>4 DEF d, c
<1> QED BY <1>1 DEF GoodCalls, Unsteady

\* A new command, with what Discord sent along.
LEMMA SentCall ==
  ASSUME NEW carried, NEW resolved, NEW steady,
         NEW c, c = Sent(carried, resolved, steady)
  PROVE  /\ IsCall(c) /\ c.pc = "sent" /\ Running(c)
         /\ c.carried = carried /\ c.found = Nothing /\ c.answer = Nothing
         /\ c.resolved = resolved /\ c.result = None /\ c.steady = steady
<1>1. c = [pc |-> "sent", key |-> None, carried |-> carried, resolved |-> resolved,
           answer |-> Nothing, found |-> Nothing, result |-> None, steady |-> steady]
  BY DEF Idle, Sent
<1>2. IsCall(c)
  BY <1>1, Zenon DEF IsCall
<1>3. /\ c.pc = "sent" /\ c.carried = carried /\ c.found = Nothing /\ c.answer = Nothing
      /\ c.resolved = resolved /\ c.result = None /\ c.steady = steady
  BY <1>1
<1> QED BY <1>2, <1>3 DEF Running

\* What Discord sends is what is.
LEMMA SnapshotIsReal ==
  ASSUME NEW S, S \subseteq Entities, NEW g, GoodDiscord(real, g)
  PROVE  \A k \in DOMAIN Snapshot(S) : \A l :
           k \in Entities /\ Settled(k, Snapshot(S)[k], real, g, l)
BY DEF Snapshot, Existing, Settled, GoodDiscord

LEMMA GiveGood ==
  ASSUME IInv, NEW h \in Handlers, GiveCommand(h)
  PROVE  IInv'
<1>1. PICK named \in SUBSET Roles, asMember \in BOOLEAN, isGiver \in BOOLEAN :
        Set(h, [Idle EXCEPT
          !.pc = "sent",
          !.carried = Snapshot({Channel} \cup named \cup (IF isGiver THEN {Member} ELSE {})),
          !.resolved = IF asMember THEN [m \in {Member} |-> RealPermission] ELSE Nothing,
          !.steady = /\ Updates = {} /\ late = {}
                     /\ \A k \in Entities : real[k] # None])
  BY DEF GiveCommand
<1> DEFINE S == {Channel} \cup named \cup (IF isGiver THEN {Member} ELSE {})
           resolved == IF asMember THEN [m \in {Member} |-> RealPermission] ELSE Nothing
           steady == /\ Updates = {} /\ late = {}
                     /\ \A k \in Entities : real[k] # None
           c == Sent(Snapshot(S), resolved, steady)
<1>2. /\ gateway' = Append(gateway, [kind |-> "command", from |-> h])
      /\ UNCHANGED <<real, cached, role_cache, late>>
  BY DEF GiveCommand
<1>3. S \subseteq Entities
  BY Distinct DEF GuildRoles
<1> HIDE DEF S, resolved, steady
<1>5. /\ IsCall(c) /\ c.pc = "sent" /\ Running(c)
      /\ c.carried = Snapshot(S) /\ c.found = Nothing
  BY SentCall
<1> HIDE DEF c
<1>4. GoodDiscord(real, gateway') /\ Follows(real, gateway, real, gateway')
  BY <1>2, CommandAppended DEF IInv
<1>6. ASSUME NEW k, NEW v, Carries(c, k, v)
      PROVE  k \in Entities /\ Settled(k, v, real, gateway, late)
  <2>1. k \in DOMAIN Snapshot(S) /\ Snapshot(S)[k] = v
    BY <1>5, <1>6 DEF Carries
  <2> QED BY <1>3, <2>1, SnapshotIsReal DEF IInv
<1>7. GoodCalls(calls', real, gateway, late)
  <2>1. Set(h, c)
    BY <1>1 DEF c, S, resolved, steady, Sent
  <2>2. DOMAIN c.found = {}
    BY <1>5 DEF Nothing
  <2> QED BY <1>5, <1>6, <2>1, <2>2, CallGoesOn DEF IInv
<1>9. /\ GoodCaches(real, gateway', late, cached, role_cache)
      /\ \A d : GoodCall(d, real, gateway, late) => GoodCall(d, real, gateway', late)
  BY <1>4, MoreEvents DEF IInv
<1> QED BY <1>2, <1>4, <1>7, <1>9 DEF IInv, GoodCalls

LEMMA ChangeGood ==
  ASSUME IInv, NEW k \in Entities, ChangeEntity(k)
  PROVE  IInv'
<1>1. PICK v \in Contents[k] :
        /\ real' = [real EXCEPT ![k] = v]
        /\ gateway' = Append(gateway, [kind |-> "update", key |-> k, content |-> v])
  BY DEF ChangeEntity
<1>2. calls' = Unsteady /\ UNCHANGED <<cached, role_cache, late>>
  BY DEF ChangeEntity
<1>3. GoodDiscord(real', gateway') /\ Follows(real, gateway, real', gateway')
  BY <1>1, UpdateAppended DEF IInv
<1>5. /\ GoodCaches(real', gateway', late, cached, role_cache)
      /\ \A c : GoodCall(c, real, gateway, late) => GoodCall(c, real', gateway', late)
  BY <1>3, MoreEvents DEF IInv
<1>6. GoodCalls(calls', real', gateway', late)
  <2>1. \A h \in Handlers : GoodCall(calls[h], real', gateway', late)
    BY <1>5 DEF IInv, GoodCalls
  <2> QED BY <1>2, <2>1, UnsteadyGood
<1> QED BY <1>2, <1>3, <1>5, <1>6 DEF IInv

LEMMA DeleteGood ==
  ASSUME IInv, NEW k \in Roles, DeleteRole(k)
  PROVE  IInv'
<1>1. /\ real' = [real EXCEPT ![k] = None] /\ calls' = Unsteady
      /\ UNCHANGED <<gateway, cached, role_cache, late>>
  BY DEF DeleteRole
<1>2. /\ real' = [j \in Entities |-> real'[j]]
      /\ \A j \in Entities : real'[j] \in {real[j], None}
  BY <1>1 DEF IInv, GoodDiscord
<1>3. GoodDiscord(real', gateway')
  <2>1. \A j \in Entities : real'[j] \in Contents[j] \cup {None}
    BY <1>2 DEF IInv, GoodDiscord
  <2>2. ASSUME NEW i \in DOMAIN gateway, gateway[i].kind = "update"
        PROVE  gateway[i].key \in Entities
    <3>1. gateway[i] \in Event
      BY DEF IInv, GoodDiscord
    <3> QED BY <2>2, <3>1 DEF Event
  <2>3. LastIsTrue(real', gateway)
    BY <1>2, <2>2 DEF IInv, GoodDiscord, LastIsTrue
  <2> QED BY <1>1, <1>2, <2>1, <2>3 DEF IInv, GoodDiscord
<1>4. /\ GoodCaches(real', gateway, late, cached, role_cache)
      /\ \A c : GoodCall(c, real, gateway, late) => GoodCall(c, real', gateway, late)
  <2>1. Follows(real, gateway, real', gateway)
    BY <1>2 DEF Follows
  <2> QED BY <2>1, MoreEvents DEF IInv
<1>5. GoodCalls(calls', real', gateway, late)
  <2>1. \A h \in Handlers : GoodCall(calls[h], real', gateway, late)
    BY <1>4 DEF IInv, GoodCalls
  <2> QED BY <1>1, <2>1, UnsteadyGood
<1> QED BY <1>1, <1>3, <1>4, <1>5 DEF IInv

LEMMA OtherGood ==
  ASSUME IInv, OtherGuild
  PROVE  IInv'
<1>1. UNCHANGED <<real, gateway, calls, late>>
  BY DEF OtherGuild
<1>2. ASSUME NEW k \in OtherRoles, NEW v, RoleCache!Insert(k, v), UNCHANGED cached
      PROVE  GoodCaches(real, gateway, late, cached', role_cache')
  <2>1. RoleCache!Add(k, v)
    BY <1>2 DEF RoleCache!Add
  <2>2. k \notin Entities /\ k \in CachedRoles
    BY Distinct
  <2> QED BY <1>2, <2>1, <2>2, RoleAdded DEF IInv, GoodCaches
<1>3. ASSUME NEW k \in DOMAIN cached,
             cached' = [j \in (DOMAIN cached) \ {k} |-> cached[j]], UNCHANGED role_cache
      PROVE  GoodCaches(real, gateway, late, cached', role_cache')
  BY <1>3 DEF IInv, GoodCaches
<1>4. GoodCaches(real, gateway, late, cached', role_cache')
  BY <1>2, <1>3 DEF OtherGuild
<1> QED BY <1>1, <1>4 DEF IInv

\* What an event does when it is taken: what was settled stays so.
LEMMA DeliverGood ==
  ASSUME IInv, Deliver
  PROVE  IInv'
<1> DEFINE e == Head(gateway)
<1>1. gateway # <<>> /\ gateway' = Tail(gateway) /\ real' = real
  BY DEF Deliver
<1>2. GoodDiscord(real, gateway)
  BY DEF IInv
<1>3. e = Head(gateway)
  OBVIOUS
<1> HIDE DEF e
<1>4. e \in Event /\ GoodDiscord(real, gateway') /\ Leaves(real, gateway, gateway', e)
  BY <1>1, <1>2, <1>3, EventTaken
<1>5. CASE /\ e.kind = "command"
           /\ Set(e.from, [calls[e.from] EXCEPT !.pc = "ready"])
           /\ UNCHANGED <<cached, role_cache, late>>
  <2>1. e.from \in Handlers
    BY <1>4, <1>5 DEF Event
  <2>2. Follows(real, gateway, real, gateway')
    BY <1>4, <1>5 DEF Leaves, Follows
  <2>3. /\ GoodCaches(real, gateway', late, cached, role_cache)
        /\ \A d : GoodCall(d, real, gateway, late) => GoodCall(d, real, gateway', late)
    BY <2>2, MoreEvents DEF IInv
  <2>4. GoodCalls(calls, real, gateway', late)
    BY <2>3 DEF IInv, GoodCalls
  <2> DEFINE c == calls[e.from]
             d == [c EXCEPT !.pc = "ready"]
  <2>5. GoodCall(c, real, gateway', late) /\ d = [c EXCEPT !.pc = "ready"]
    BY <2>1, <2>4 DEF GoodCalls
  <2>6. Set(e.from, d)
    BY <1>5
  <2> HIDE DEF d
  <2>7. /\ IsCall(d) /\ d.pc = "ready" /\ d.carried = c.carried /\ d.found = c.found
    BY <2>5, Moving DEF GoodCall
  <2>8. ASSUME NEW k, NEW v, Carries(d, k, v)
        PROVE  Carries(c, k, v)
    <3>1. k \in (DOMAIN c.carried) \ DOMAIN c.found /\ c.carried[k] = v
      BY <2>7, <2>8 DEF Carries
    <3>2. Running(c)
      BY <2>5, <3>1 DEF GoodCall
    <3> QED BY <3>1, <3>2 DEF Carries
  <2>9. Member \in DOMAIN d.found => d.found[Member] \subseteq Roles
    BY <2>5, <2>7 DEF GoodCall
  <2>10. Running(d) /\ d.pc # "missed"
    BY <2>7 DEF Running
  <2>11. GoodCalls(calls', real, gateway', late)
    BY <2>1, <2>4, <2>6, <2>7, <2>8, <2>9, <2>10, CallGoesOn
  <2> QED BY <1>1, <1>4, <1>5, <2>3, <2>11 DEF IInv
<1>6. CASE /\ e.kind = "update"
           /\ UpdateElement(e.key, e.content)
           /\ late' = IF Overtakes(e.key, e.content) THEN late \cup {e.key} ELSE late \ {e.key}
           /\ UNCHANGED calls
  <2>1. e.key \in Entities /\ e.content \in Contents[e.key]
    BY <1>4, <1>6 DEF Event
  <2>2. ASSUME NEW k \in Entities, NEW v, Settled(k, v, real, gateway, late),
               k = e.key => v = e.content \/ Overtakes(e.key, e.content)
        PROVE  Settled(k, v, real, gateway', late')
    <3>1. CASE k = e.key
      BY <1>4, <1>6, <2>2, <3>1 DEF Settled, Leaves
    <3>2. CASE k # e.key
      BY <1>4, <1>6, <2>2, <3>2 DEF Settled, Leaves
    <3> QED BY <3>1, <3>2
  <2>3. GoodCaches(real, gateway', late', cached', role_cache')
    <3>0. /\ GoodCaches(real, gateway, late, cached, role_cache)
          /\ Settled(e.key, e.content, real, gateway', late')
      BY <1>4, <1>6, <2>1 DEF IInv, Leaves, Settled
    <3>1. CASE e.key \in DOMAIN role_cache
      <4>1. e.key \notin DOMAIN cached
        BY <3>0, <3>1, Distinct DEF GoodCaches
      <4>2. role_cache' = [role_cache EXCEPT ![e.key] = e.content] /\ cached' = cached
        BY <1>6, <3>1, <4>1 DEF UpdateElement, RoleCache!Replace
      <4> QED BY <2>1, <2>2, <3>0, <4>1, <4>2, Distinct DEF GoodCaches
    <3>2. CASE e.key \notin DOMAIN role_cache /\ e.key \in DOMAIN cached
      <4>1. cached' = [j \in DOMAIN cached |-> IF j = e.key THEN e.content ELSE cached[j]]
        BY <1>6, <3>2 DEF UpdateElement, With
      <4>2. role_cache' = role_cache
        BY <1>6, <3>2 DEF UpdateElement
      <4> QED BY <2>1, <2>2, <3>0, <3>2, <4>1, <4>2, Distinct DEF GoodCaches
    <3>3. CASE e.key \notin DOMAIN role_cache /\ e.key \notin DOMAIN cached
      <4>1. UNCHANGED <<cached, role_cache>>
        BY <1>6, <3>3 DEF UpdateElement
      <4> QED BY <2>2, <3>0, <3>3, <4>1, Distinct DEF GoodCaches
    <3> QED BY <3>1, <3>2, <3>3
  <2>4. ASSUME NEW h \in Handlers
        PROVE  GoodCall(calls[h], real, gateway', late')
    <3>1. GoodCall(calls[h], real, gateway, late)
      BY DEF IInv, GoodCalls
    <3>2. ASSUME NEW k, NEW v, Carries(calls[h], k, v)
          PROVE  k \in Entities /\ Settled(k, v, real, gateway', late')
      <4>1. k \in Entities /\ Settled(k, v, real, gateway, late) /\ v \in Contents[k]
        BY <3>1, <3>2 DEF GoodCall, Settled
      <4>2. k = e.key => v = e.content \/ Overtakes(e.key, e.content)
        BY <3>2, <4>1 DEF Overtakes
      <4> QED BY <2>2, <4>1, <4>2
    <3> QED BY <3>1, <3>2 DEF GoodCall
  <2> QED BY <1>1, <1>4, <1>6, <2>3, <2>4 DEF IInv, GoodCalls
<1> QED BY <1>5, <1>6, <1>3 DEF Deliver

\* A command takes a step of its own: Discord is not touched.
LEMMA StepGood ==
  ASSUME IInv, NEW h \in Handlers, NEW c, Set(h, c), IsCall(c),
         UNCHANGED <<real, gateway, late>>,
         GoodCaches(real, gateway, late, cached', role_cache'),
         ~Running(c) => DOMAIN c.carried = {},
         c.pc = "missed" => c.key \in Entities \ DOMAIN c.found,
         Member \in DOMAIN c.found => c.found[Member] \subseteq Roles,
         \A k, v : Carries(c, k, v) =>
           Carries(calls[h], k, v) \/ (k \in Entities /\ Settled(k, v, real, gateway, late))
  PROVE  IInv'
<1>1. GoodCalls(calls, real, gateway, late)
  BY DEF IInv
<1>2. GoodCalls(calls', real, gateway, late)
  BY <1>1, CallGoesOn
<1> QED BY <1>2 DEF IInv

\* A command has found v for k.
LEMMA FindGood ==
  ASSUME IInv, NEW h \in Handlers, NEW k, NEW v, Running(calls[h]), Find(h, k, v),
         UNCHANGED <<real, gateway, late>>,
         GoodCaches(real, gateway, late, cached', role_cache'),
         k = Member => v \subseteq Roles
  PROVE  IInv'
<1> DEFINE c == calls[h]
           f == With(c.found, k, v)
           d == Found(c, f)
<1>1. GoodCall(c, real, gateway, late)
  BY DEF IInv, GoodCalls
<1>2. Set(h, d)
  BY DEF Find, Found
<1>3. DOMAIN c.found \subseteq DOMAIN f /\ (Member \in DOMAIN f => f[Member] \subseteq Roles)
  BY <1>1 DEF With, GoodCall
<1>4. d = Found(c, f)
  OBVIOUS
<1>8. IsCall(c) /\ Running(c)
  BY <1>1 DEF GoodCall
<1>9. \A j, w : Carries(c, j, w) <=> Carries(calls[h], j, w)
  OBVIOUS
<1> HIDE DEF f, c
<1> HIDE DEF d
<1>5. IsCall(d) /\ d.pc = "ready" /\ d.carried = c.carried /\ d.found = f
  BY <1>4, <1>8, Finding
<1>6. ASSUME NEW j, NEW w, Carries(d, j, w)
      PROVE  Carries(calls[h], j, w)
  <2>1. d.pc # "answered"
    BY <1>5
  <2>2. j \in (DOMAIN c.carried) \ DOMAIN c.found /\ c.carried[j] = w
    BY <1>3, <1>5, <1>6, <2>1 DEF Carries
  <2>3. Carries(c, j, w)
    BY <1>8, <2>2 DEF Carries
  <2> QED BY <1>9, <2>3
<1>7. Running(d) /\ d.pc # "missed"
  BY <1>5 DEF Running
<1> QED BY <1>2, <1>3, <1>5, <1>6, <1>7, StepGood

LEMMA EndedCall ==
  ASSUME NEW result, NEW steady,
         NEW d, d = Ended(result, steady)
  PROVE  /\ IsCall(d) /\ d.pc = "ended" /\ d.carried = Nothing /\ d.found = Nothing
         /\ d.answer = Nothing /\ d.resolved = Nothing
         /\ d.result = result /\ d.steady = steady
<1>1. d = [pc |-> "ended", key |-> None, carried |-> Nothing, resolved |-> Nothing,
           answer |-> Nothing, found |-> Nothing, result |-> result, steady |-> steady]
  BY DEF Idle, Ended
<1>2. IsCall(d)
  BY <1>1, Zenon DEF IsCall
<1>3. /\ d.pc = "ended" /\ d.carried = Nothing /\ d.found = Nothing
      /\ d.answer = Nothing /\ d.resolved = Nothing
      /\ d.result = result /\ d.steady = steady
  BY <1>1
<1> QED BY <1>2, <1>3

\* A command ends with nothing in its hands.
LEMMA EndGood ==
  ASSUME IInv, NEW h \in Handlers, NEW result, End(h, result),
         UNCHANGED <<real, gateway, cached, role_cache, late>>
  PROVE  IInv'
<1> DEFINE steady == calls[h].steady
           d == Ended(result, steady)
<1>1. Set(h, d)
  BY DEF End, Ended
<1> HIDE DEF steady
<1>2. d = Ended(result, steady)
  OBVIOUS
<1> HIDE DEF d
<1>3. IsCall(d) /\ d.pc = "ended" /\ d.carried = Nothing /\ d.found = Nothing
  BY <1>2, EndedCall
<1>5. DOMAIN d.carried = {} /\ DOMAIN d.found = {} /\ ~Running(d)
  BY <1>3 DEF Nothing, Running
<1>6. \A k, v : ~Carries(d, k, v)
  BY <1>3, <1>5 DEF Carries
<1>7. GoodCaches(real, gateway, late, cached', role_cache')
  BY DEF IInv
<1> QED BY <1>1, <1>3, <1>5, <1>6, <1>7, StepGood

\* What is cached or carried of the member names roles of the guild.
LEMMA MembersRoles ==
  ASSUME NEW k, NEW v, NEW r, NEW g, NEW l, Settled(k, v, r, g, l)
  PROVE  k = Member => v \subseteq Roles
BY EntityAssumption DEF Settled

LEMMA WantedIsNew ==
  ASSUME NEW found, Member \in DOMAIN found => found[Member] \subseteq Roles
  PROVE  Wanted(found) \subseteq Entities \ DOMAIN found
<1> DEFINE first == {k \in {Guild, Channel, Member} \ DOMAIN found :
                       /\ k = Channel => Guild \in DOMAIN found
                       /\ k = Member => {Guild, Channel} \subseteq DOMAIN found}
<1>1. first \subseteq Entities \ DOMAIN found
  BY Distinct
<1>2. CASE first # {}
  BY <1>1, <1>2 DEF Wanted
<1>3. CASE first = {}
  <2>1. Member \in DOMAIN found
    <3>1. Guild \in DOMAIN found
      BY <1>3, EntityAssumption, Distinct
    <3>2. Channel \in DOMAIN found
      BY <1>3, <3>1, EntityAssumption
    <3> QED BY <1>3, <3>1, <3>2
  <2>2. found[Member] \subseteq Entities /\ Everyone \in Entities
    BY <2>1, Distinct DEF GuildRoles
  <2>3. Wanted(found) \subseteq {Everyone} \cup found[Member]
    BY <1>3 DEF Wanted
  <2>4. \A k \in Wanted(found) : k \notin DOMAIN found
    BY <1>3 DEF Wanted
  <2> QED BY <2>2, <2>3, <2>4
<1> QED BY <1>2, <1>3

LEMMA HitGood ==
  ASSUME IInv, NEW h \in Handlers, Hit(h)
  PROVE  IInv'
<1>1. PICK k \in Wanted(calls[h].found) \cap DOMAIN Held : Find(h, k, Held[k])
  BY DEF Hit
<1>2. UNCHANGED <<real, gateway, late, cached, role_cache>> /\ Running(calls[h])
  BY DEF Hit, Running
<1>3. GoodCaches(real, gateway, late, cached, role_cache)
  BY DEF IInv
<1>4. k = Member => Held[k] \subseteq Roles
  <2> SUFFICES ASSUME k = Member
               PROVE  Held[k] \subseteq Roles
    OBVIOUS
  <2>1. k \in DOMAIN cached /\ Held[k] = cached[k]
    BY <1>3, Distinct DEF Held, GoodCaches
  <2> QED BY <1>3, <2>1, MembersRoles DEF GoodCaches
<1> QED BY <1>1, <1>2, <1>3, <1>4, FindGood

LEMMA MissGood ==
  ASSUME IInv, NEW h \in Handlers, Miss(h)
  PROVE  IInv'
<1> DEFINE c == calls[h]
<1>1. c.pc = "ready" /\ GoodCall(c, real, gateway, late) /\ IsCall(c)
  BY DEF Miss, IInv, GoodCalls, GoodCall
<1>2. PICK k \in Wanted(c.found) : Set(h, Missed(c, k))
  BY DEF Miss, Missed
<1>3. UNCHANGED <<real, gateway, late, cached, role_cache>>
  BY DEF Miss
<1> DEFINE d == Missed(c, k)
<1>4. Set(h, d) /\ d = Missed(c, k)
  BY <1>2
<1>5. \A j, w : Carries(c, j, w) <=> Carries(calls[h], j, w)
  OBVIOUS
<1> HIDE DEF c, d
<1>6. /\ IsCall(d) /\ d.pc = "missed" /\ d.key = k
      /\ d.carried = c.carried /\ d.found = c.found
  BY <1>1, <1>4, Missing
<1>7. Member \in DOMAIN c.found => c.found[Member] \subseteq Roles
  BY <1>1 DEF GoodCall
<1>8. k \in Entities \ DOMAIN c.found
  BY <1>2, <1>7, WantedIsNew
<1>9. ASSUME NEW j, NEW w, Carries(d, j, w)
      PROVE  Carries(calls[h], j, w)
  <2>1. j \in (DOMAIN c.carried) \ DOMAIN c.found /\ c.carried[j] = w
    BY <1>6, <1>9 DEF Carries
  <2>2. Carries(c, j, w)
    BY <1>1, <2>1 DEF Carries, Running
  <2> QED BY <1>5, <2>2
<1>10. GoodCaches(real, gateway, late, cached', role_cache') /\ Running(d)
  BY <1>3, <1>6 DEF IInv, Running
<1> QED BY <1>3, <1>4, <1>6, <1>7, <1>8, <1>9, <1>10, StepGood

\* What is carried, or answered, is what a command adds.
LEMMA TakeGood ==
  ASSUME IInv, NEW h \in Handlers, NEW k, NEW v, Running(calls[h]), Carries(calls[h], k, v),
         AddElement(k, v), Find(h, k, v), UNCHANGED <<real, gateway, late>>
  PROVE  IInv'
<1>1. /\ GoodCall(calls[h], real, gateway, late)
      /\ GoodCaches(real, gateway, late, cached, role_cache)
  BY DEF IInv, GoodCalls
<1>2. k \in Entities /\ Settled(k, v, real, gateway, late)
  BY <1>1 DEF GoodCall
<1>3. GoodCaches(real, gateway, late, cached', role_cache')
  BY <1>1, <1>2, ElementAdded
<1>4. k = Member => v \subseteq Roles
  BY <1>2, MembersRoles
<1> QED BY <1>3, <1>4, FindGood

LEMMA TakeFromEventGood ==
  ASSUME IInv, NEW h \in Handlers, TakeFromEvent(h)
  PROVE  IInv'
<1> DEFINE c == calls[h]
           v == c.carried[c.key]
<1>1. /\ c.pc = "missed" /\ c.key \in DOMAIN c.carried
      /\ AddElement(c.key, v) /\ Find(h, c.key, v) /\ UNCHANGED <<real, gateway, late>>
  BY DEF TakeFromEvent
<1>2. c.key \notin DOMAIN c.found
  BY <1>1 DEF IInv, GoodCalls, GoodCall
<1>3. Running(c) /\ Carries(c, c.key, v)
  BY <1>1, <1>2 DEF Running, Carries
<1> QED BY <1>1, <1>3, TakeGood

LEMMA TakeAnswerGood ==
  ASSUME IInv, NEW h \in Handlers, TakeAnswer(h)
  PROVE  IInv'
<1> DEFINE c == calls[h]
           v == c.answer[c.key]
<1>1. /\ c.pc = "answered" /\ c.key \in DOMAIN c.answer
      /\ AddElement(c.key, v) /\ Find(h, c.key, v) /\ UNCHANGED <<real, gateway, late>>
  BY DEF TakeAnswer
<1>2. Running(c) /\ Carries(c, c.key, v)
  BY <1>1 DEF Running, Carries
<1> QED BY <1>1, <1>2, TakeGood

LEMMA AnswerGood ==
  ASSUME IInv, NEW h \in Handlers, Answer(h)
  PROVE  IInv'
<1> DEFINE c == calls[h]
           S == IF c.key \in GuildRoles THEN GuildRoles ELSE {c.key}
           d == Holding(c, "answered", Snapshot(S))
<1>1. c.pc = "missed" /\ GoodCall(c, real, gateway, late) /\ IsCall(c)
  BY DEF Answer, IInv, GoodCalls, GoodCall
<1>2. Set(h, d) /\ UNCHANGED <<real, gateway, late, cached, role_cache>>
  BY DEF Answer, Holding
<1>3. S \subseteq Entities
  BY <1>1, Distinct DEF GoodCall
<1>4. d = Holding(c, "answered", Snapshot(S))
  OBVIOUS
<1>5. \A j, w : Carries(c, j, w) <=> Carries(calls[h], j, w)
  OBVIOUS
<1> HIDE DEF c, d, S
<1>6. /\ IsCall(d) /\ d.pc = "answered" /\ d.answer = Snapshot(S)
      /\ d.carried = c.carried /\ d.found = c.found
  BY <1>1, <1>4, Answered
<1>7. ASSUME NEW j, NEW w, Carries(d, j, w)
      PROVE  Carries(calls[h], j, w) \/ (j \in Entities /\ Settled(j, w, real, gateway, late))
  <2>1. CASE j \in (DOMAIN c.carried) \ DOMAIN c.found /\ c.carried[j] = w
    <3>1. Carries(c, j, w)
      BY <1>1, <2>1 DEF Carries, Running
    <3> QED BY <1>5, <3>1
  <2>2. CASE j \in DOMAIN Snapshot(S) /\ Snapshot(S)[j] = w
    BY <1>3, <2>2, SnapshotIsReal DEF IInv
  <2> QED BY <1>6, <1>7, <2>1, <2>2 DEF Carries
<1>8. /\ GoodCaches(real, gateway, late, cached', role_cache') /\ Running(d)
      /\ Member \in DOMAIN d.found => d.found[Member] \subseteq Roles
  BY <1>1, <1>2, <1>6 DEF IInv, Running, GoodCall
<1> QED BY <1>2, <1>6, <1>7, <1>8, StepGood

LEMMA AddRoleGood ==
  ASSUME IInv, NEW h \in Handlers, AddRole(h)
  PROVE  IInv'
<1> DEFINE c == calls[h]
<1>1. c.pc = "answered" /\ GoodCall(c, real, gateway, late) /\ IsCall(c)
  BY DEF AddRole, IInv, GoodCalls, GoodCall
<1>2. PICK r \in DOMAIN c.answer :
        /\ AddElement(r, c.answer[r])
        /\ Set(h, [c EXCEPT
             !.answer = [q \in (DOMAIN c.answer) \ {r} |-> c.answer[q]],
             !.pc = IF DOMAIN c.answer = {r} THEN "added" ELSE "answered"])
  BY DEF AddRole
<1>3. UNCHANGED <<real, gateway, late>>
  BY DEF AddRole
<1> DEFINE a == [q \in (DOMAIN c.answer) \ {r} |-> c.answer[q]]
           place == IF DOMAIN c.answer = {r} THEN "added" ELSE "answered"
           d == HoldingLess(c, place, a)
<1>4. Set(h, d) /\ d = HoldingLess(c, place, a)
  BY <1>2 DEF HoldingLess
<1>5. \A j, w : Carries(c, j, w) <=> Carries(calls[h], j, w)
  OBVIOUS
<1>6. /\ DOMAIN a \subseteq DOMAIN c.answer /\ \A q \in DOMAIN a : a[q] = c.answer[q]
      /\ place \in {"added", "answered"}
  OBVIOUS
<1>7. GoodCaches(real, gateway, late, cached', role_cache')
  <2>1. r \in Entities /\ Settled(r, c.answer[r], real, gateway, late)
    BY <1>1 DEF GoodCall, Carries
  <2>2. GoodCaches(real, gateway, late, cached, role_cache)
    BY DEF IInv
  <2> QED BY <1>2, <2>1, <2>2, ElementAdded
<1> HIDE DEF c, d, a, place
<1>8. /\ IsCall(d) /\ d.pc = place /\ d.answer = a
      /\ d.carried = c.carried /\ d.found = c.found
  BY <1>1, <1>4, Lessening
<1>9. ASSUME NEW j, NEW w, Carries(d, j, w)
      PROVE  Carries(calls[h], j, w)
  <2>1. \/ j \in (DOMAIN c.carried) \ DOMAIN c.found /\ c.carried[j] = w
        \/ j \in DOMAIN c.answer /\ c.answer[j] = w
    BY <1>6, <1>8, <1>9 DEF Carries
  <2>2. Carries(c, j, w)
    BY <1>1, <2>1 DEF Carries, Running
  <2> QED BY <1>5, <2>2
<1>10. /\ Running(d) /\ d.pc # "missed"
       /\ Member \in DOMAIN d.found => d.found[Member] \subseteq Roles
  BY <1>1, <1>6, <1>8 DEF Running, GoodCall
<1> QED BY <1>3, <1>4, <1>7, <1>8, <1>9, <1>10, StepGood

LEMMA FindAddedGood ==
  ASSUME IInv, NEW h \in Handlers, FindAdded(h)
  PROVE  IInv'
<1>1. UNCHANGED <<real, gateway, cached, role_cache, late>> /\ Running(calls[h])
  BY DEF FindAdded, Running
<1>2. CASE Find(h, Everyone, role_cache[Everyone])
  <2>1. Everyone # Member
    BY Distinct
  <2>2. GoodCaches(real, gateway, late, cached', role_cache')
    BY <1>1 DEF IInv
  <2> QED BY <1>1, <1>2, <2>1, <2>2, FindGood
<1>3. CASE End(h, None)
  BY <1>1, <1>3, EndGood
<1> QED BY <1>2, <1>3 DEF FindAdded

\* Whatever one command does.
LEMMA CommandGood ==
  ASSUME IInv, NEW h \in Handlers, Step(h)
  PROVE  IInv'
<1>1. CASE NoAnswer(h)
  BY <1>1, EndGood DEF NoAnswer
<1>2. CASE MissingRole(h)
  BY <1>2, EndGood DEF MissingRole
<1>3. CASE Compute(h)
  BY <1>3, EndGood DEF Compute
<1> QED BY <1>1, <1>2, <1>3, HitGood, MissGood, TakeFromEventGood, AnswerGood,
           TakeAnswerGood, AddRoleGood, FindAddedGood DEF Step

-----------------------------------------------------------------------------
(* The invariant.                                                          *)

LEMMA InitGood == Init => IInv
<1> SUFFICES ASSUME Init
             PROVE  IInv
  OBVIOUS
<1>1. /\ gateway = <<>> /\ cached = Nothing /\ late = {} /\ RoleCache!Init
      /\ calls = [h \in Handlers |-> Idle]
  BY DEF Init
<1>2. /\ real = [k \in Entities |-> real[k]]
      /\ \A k \in Entities : real[k] \in Contents[k]
  <2>1. PICK g \in Contents[Guild], c \in Contents[Channel], m \in Contents[Member],
             p \in [GuildRoles -> Permission] :
          /\ \A r \in GuildRoles : p[r] \in Contents[r]
          /\ real = [k \in Entities |-> CASE k = Guild -> g [] k = Channel -> c
                                          [] k = Member -> m [] OTHER -> p[k]]
    BY DEF Init
  <2>2. \A k \in Entities : k \in {Guild, Channel, Member} \/ k \in GuildRoles
    BY DEF Entities
  <2> QED BY <2>1, <2>2, Distinct, EntityAssumption
<1>3. GoodDiscord(real, gateway)
  BY <1>1, <1>2 DEF GoodDiscord, LastIsTrue
<1>4. GoodCaches(real, gateway, late, cached, role_cache)
  BY <1>1 DEF GoodCaches, Nothing, RoleCache!Init
<1>5. IsCall(Idle)
  BY Zenon DEF IsCall, Idle
<1>6. /\ Idle.pc = "idle" /\ Idle.carried = Nothing /\ Idle.found = Nothing
  BY DEF Idle
<1>7. GoodCall(Idle, real, gateway, late)
  BY <1>5, <1>6 DEF GoodCall, Carries, Running, Nothing
<1> QED BY <1>1, <1>3, <1>4, <1>7 DEF IInv, GoodCalls

LEMMA NextGood == IInv /\ [Next]_vars => IInv'
<1> SUFFICES ASSUME IInv, [Next]_vars
             PROVE  IInv'
  OBVIOUS
<1>1. CASE \E h \in Handlers : GiveCommand(h) \/ Step(h)
  BY <1>1, GiveGood, CommandGood
<1>2. CASE \E k \in Entities : ChangeEntity(k)
  BY <1>2, ChangeGood
<1>3. CASE \E r \in Roles : DeleteRole(r)
  BY <1>3, DeleteGood
<1>4. CASE OtherGuild
  BY <1>4, OtherGood
<1>5. CASE Deliver
  BY <1>5, DeliverGood
<1>6. CASE UNCHANGED vars
  BY <1>6 DEF vars, IInv, GoodDiscord, GoodCaches, GoodCalls, GoodCall, LastIsTrue,
              Settled, Pending, Carries, Running
<1> QED BY <1>1, <1>2, <1>3, <1>4, <1>5, <1>6 DEF Next

\* In every reachable state a cached entity is Discord's, or its update is on its
\* way, or the update overtook an older answer, or the role was deleted: for any
\* number of commands, roles and changes, and any limit of the role cache.
THEOREM CachesAreFresh == Spec => []CacheIsFresh
<1>1. IInv => CacheIsFresh
  <2> SUFFICES ASSUME IInv, NEW k \in DOMAIN Held \cap Entities
               PROVE  \/ real[k] \in {Held[k], None}
                      \/ \E i \in Updates : gateway[i].key = k
                      \/ k \in late
    BY DEF CacheIsFresh
  <2>1. Settled(k, Held[k], real, gateway, late)
    BY DEF IInv, GoodCaches, Held
  <2> QED BY <2>1 DEF Settled, Pending, Updates
<1> QED BY <1>1, InitGood, NextGood, PTL DEF Spec

-----------------------------------------------------------------------------
(* What is computed.                                                       *)

Agrees(f, r) == \A k \in DOMAIN f : f[k] = r[k]

\* What a command has found, and what it ends with.
Typed(c) ==
  /\ DOMAIN c.found \subseteq Entities
  /\ \A k \in DOMAIN c.found : c.found[k] \in Contents[k]
  /\ \A m \in DOMAIN c.resolved : c.resolved[m] \in Permission
  /\ c.result = None \/ c.result \in Permission

\* A command under which nothing changes has nothing but Discord's, and ends with
\* the permission p that Discord grants.
Truthful(c, r, p) ==
  c.steady =>
    /\ Agrees(c.found, r) /\ Agrees(c.carried, r) /\ Agrees(c.answer, r)
    /\ Member \in DOMAIN c.resolved => c.resolved[Member] = p
    /\ c.result = None \/ c.result = p

Calm(r, g, l) ==
  /\ \A k : ~Pending(k, g)
  /\ l = {}
  /\ \A k \in Entities : r[k] # None

RolesFit(roles) ==
  /\ Cardinality(DOMAIN roles) <= RoleLimit
  /\ \A k \in DOMAIN roles : roles[k] \in Contents[k]

FitCalls(cs, r, g, l, p) ==
  \A h \in Handlers :
    Typed(cs[h]) /\ Truthful(cs[h], r, p) /\ (cs[h].steady => Calm(r, g, l))

CInv ==
  /\ IInv
  /\ late \subseteq Entities
  /\ RolesFit(role_cache)
  /\ FitCalls(calls, real, gateway, late, RealPermission)

\* While all is calm, what is settled is what is.
LEMMA SettledIsReal ==
  ASSUME NEW r, NEW g, NEW l, Calm(r, g, l), NEW k \in Entities, NEW v,
         Settled(k, v, r, g, l)
  PROVE  v = r[k]
BY DEF Calm, Settled

LEMMA RealStays ==
  ASSUME UNCHANGED real
  PROVE  RealPermission' = RealPermission
BY DEF RealPermission, Existing, BaseOf

\* The role cache keeps to its limit.
LEMMA RoleFits ==
  ASSUME RolesFit(role_cache), DOMAIN role_cache \subseteq CachedRoles,
         NEW k, NEW v \in Contents[k], RoleCache!Add(k, v)
  PROVE  RolesFit(role_cache')
<1> DEFINE D == DOMAIN role_cache
<1>1. IsFiniteSet(D) /\ Cardinality(D) \in Nat
  <2>1. IsFiniteSet(Roles \cup {Everyone}) /\ IsFiniteSet(OtherRoles)
    BY EntityAssumption, FS_AddElement
  <2>2. IsFiniteSet((Roles \cup {Everyone}) \cup OtherRoles)
    BY <2>1, FS_Union
  <2>3. D \in SUBSET ((Roles \cup {Everyone}) \cup OtherRoles)
    BY DEF CachedRoles, GuildRoles
  <2> QED BY <2>2, <2>3, FS_Subset, FS_CardinalityType
<1>2. \A j \in DOMAIN role_cache' : role_cache'[j] \in Contents[j]
  BY RoleAdded DEF RolesFit
<1>3. CASE RoleCache!Replace(k, v)
  <2>1. DOMAIN role_cache' = D
    BY <1>3 DEF RoleCache!Replace
  <2> QED BY <1>2, <2>1 DEF RolesFit
<1>4. CASE RoleCache!Insert(k, v)
  <2> DEFINE full == Cardinality(D) >= RoleLimit
             count == IF full THEN RolePurge ELSE 0
  <2>0. \A S : RoleCache!Cardinality(S) = Cardinality(S)
    BY DEF RoleCache!Cardinality, Cardinality
  <2>1. PICK lost \in RoleCache!Victims(count) :
          role_cache' = [j \in DOMAIN RoleCache!Without(lost) \cup {k} |->
                           IF j = k THEN v ELSE role_cache[j]]
    BY <1>4, <2>0 DEF RoleCache!Insert
  <2>2. lost \in SUBSET D /\ Cardinality(lost) = RoleCache!Smaller(count, Cardinality(D))
    BY <2>0, <2>1 DEF RoleCache!Victims
  <2>3. DOMAIN role_cache' = (D \ lost) \cup {k} /\ k \notin D
    BY <1>4, <2>1 DEF RoleCache!Without, RoleCache!Insert
  <2>4. IsFiniteSet(D \ lost) /\ Cardinality(D \ lost) = Cardinality(D) - Cardinality(lost)
    <3>1. D \cap lost = lost
      BY <2>2
    <3> QED BY <1>1, <3>1, FS_Difference
  <2>5. Cardinality(D) <= RoleLimit /\ RoleLimit \in Nat /\ RolePurge \in 1 .. RoleLimit
    BY EntityAssumption DEF RolesFit
  <2>6. Cardinality(D \ lost) + 1 <= RoleLimit
    <3>1. CASE full
      <4>1. Cardinality(lost) = RolePurge
        BY <1>1, <2>2, <2>5, <3>1 DEF RoleCache!Smaller
      <4> HIDE DEF D
      <4> QED BY <1>1, <2>4, <2>5, <3>1, <4>1
    <3>2. CASE ~full
      <4>1. Cardinality(lost) = 0
        BY <1>1, <2>2, <3>2 DEF RoleCache!Smaller
      <4> HIDE DEF D
      <4> QED BY <1>1, <2>4, <2>5, <3>2, <4>1
    <3> QED BY <3>1, <3>2
  <2>7. Cardinality((D \ lost) \cup {k}) = Cardinality(D \ lost) + 1
    BY <2>3, <2>4, FS_AddElement
  <2> QED BY <1>2, <2>3, <2>6, <2>7 DEF RolesFit
<1> QED BY <1>3, <1>4 DEF RoleCache!Add

LEMMA ElementFits ==
  ASSUME CInv, NEW k \in Entities, NEW v \in Contents[k], AddElement(k, v)
  PROVE  RolesFit(role_cache')
<1>1. RolesFit(role_cache) /\ DOMAIN role_cache \subseteq CachedRoles
  BY DEF CInv, IInv, GoodCaches
<1>2. CASE k \in CachedRoles
  <2>1. RoleCache!Add(k, v)
    BY <1>2 DEF AddElement
  <2> QED BY <1>1, <2>1, RoleFits
<1>3. CASE k \notin CachedRoles
  <2>1. role_cache' = role_cache
    BY <1>3 DEF AddElement
  <2> QED BY <1>1, <2>1
<1> QED BY <1>2, <1>3

\* A command takes a step of its own.
LEMMA StepFits ==
  ASSUME CInv, IInv', UNCHANGED <<real, gateway, late>>, RolesFit(role_cache'),
         NEW h \in Handlers, NEW d, Set(h, d), d.steady = calls[h].steady,
         Typed(d), Truthful(d, real, RealPermission)
  PROVE  CInv'
<1>1. calls' = [i \in Handlers |-> IF i = h THEN d ELSE calls[i]]
  BY DEF Set, CInv, IInv, GoodCalls
<1>2. RealPermission' = RealPermission
  BY RealStays
<1>3. FitCalls(calls, real, gateway, late, RealPermission)
  BY DEF CInv
<1> DEFINE p == RealPermission
<1>4. FitCalls(calls', real, gateway, late, p)
  <2> HIDE DEF p
  <2>1. FitCalls(calls, real, gateway, late, p) /\ Truthful(d, real, p)
    BY <1>3 DEF p
  <2> QED BY <1>1, <2>1 DEF FitCalls
<1> QED BY <1>2, <1>4 DEF CInv

\* A command has found v for k.
LEMMA FindFits ==
  ASSUME CInv, IInv', UNCHANGED <<real, gateway, late>>, RolesFit(role_cache'),
         NEW h \in Handlers, NEW k \in Entities, NEW v,
         Settled(k, v, real, gateway, late), Find(h, k, v)
  PROVE  CInv'
<1> DEFINE c == calls[h]
           f == With(c.found, k, v)
           d == Found(c, f)
           p == RealPermission
<1>1. IsCall(c) /\ Typed(c) /\ Truthful(c, real, p) /\ (c.steady => Calm(real, gateway, late))
  BY DEF CInv, IInv, GoodCalls, GoodCall, FitCalls
<1>2. Set(h, d) /\ d = Found(c, f)
  BY DEF Find, Found
<1>3. DOMAIN f = DOMAIN c.found \cup {k}
      /\ \A j \in DOMAIN f : f[j] = IF j = k THEN v ELSE c.found[j]
  BY DEF With
<1>4. v \in Contents[k]
  BY DEF Settled
<1>5. c.steady => v = real[k]
  BY <1>1, SettledIsReal
<1>6. c = calls[h]
  OBVIOUS
<1> HIDE DEF c, f, d, p
<1>7. /\ d.carried = c.carried /\ d.found = f /\ d.answer = Nothing /\ SameOutcome(c, d)
  BY <1>1, <1>2, Finding
<1>8. Typed(d)
  BY <1>1, <1>3, <1>4, <1>7 DEF Typed, SameOutcome
<1>9. Truthful(d, real, p)
  BY <1>1, <1>3, <1>5, <1>7 DEF Truthful, Agrees, SameOutcome, Nothing
<1>10. d.steady = calls[h].steady /\ Truthful(d, real, RealPermission)
  BY <1>6, <1>7, <1>9 DEF SameOutcome, p
<1> QED BY <1>2, <1>8, <1>10, StepFits

\* A command ends.
LEMMA EndFits ==
  ASSUME CInv, IInv', UNCHANGED <<real, gateway, role_cache, late>>,
         NEW h \in Handlers, NEW result, End(h, result),
         \/ result = None
         \/ result \in Permission /\ (calls[h].steady => result = RealPermission)
  PROVE  CInv'
<1> DEFINE steady == calls[h].steady
           d == Ended(result, steady)
           p == RealPermission
<1>1. Set(h, d)
  BY DEF End, Ended
<1>2. /\ \/ result = None
         \/ result \in Permission /\ (steady => result = p)
      /\ d = Ended(result, steady)
  OBVIOUS
<1> HIDE DEF d, steady, p
<1>3. /\ d.carried = Nothing /\ d.found = Nothing /\ d.answer = Nothing
      /\ d.resolved = Nothing /\ d.result = result /\ d.steady = steady
  BY <1>2, EndedCall
<1>4. Typed(d)
  BY <1>2, <1>3 DEF Typed, Nothing
<1>5. Truthful(d, real, p)
  BY <1>2, <1>3 DEF Truthful, Agrees, Nothing
<1>6. d.steady = calls[h].steady /\ Truthful(d, real, RealPermission) /\ RolesFit(role_cache')
  BY <1>3, <1>5 DEF steady, p, CInv
<1> QED BY <1>1, <1>4, <1>6, StepFits

\* What is wanted when nothing is: the member and its roles are found.
LEMMA AllFound ==
  ASSUME NEW found, Wanted(found) = {}
  PROVE  /\ {Guild, Channel, Member} \subseteq DOMAIN found
         /\ found[Guild] # Member => {Everyone} \cup found[Member] \subseteq DOMAIN found
<1> DEFINE first == {k \in {Guild, Channel, Member} \ DOMAIN found :
                       /\ k = Channel => Guild \in DOMAIN found
                       /\ k = Member => {Guild, Channel} \subseteq DOMAIN found}
<1>1. first = {}
  BY DEF Wanted
<1>2. Guild \in DOMAIN found
  BY <1>1, EntityAssumption
<1>3. Channel \in DOMAIN found
  BY <1>1, <1>2, EntityAssumption
<1>4. Member \in DOMAIN found
  BY <1>1, <1>2, <1>3
<1>5. found[Guild] # Member => Everyone \in DOMAIN found /\ found[Member] \ DOMAIN found = {}
  BY <1>1 DEF Wanted
<1> QED BY <1>2, <1>3, <1>4, <1>5

\* The permission is one, and for a command under which nothing changes it is the
\* one that Discord grants.
LEMMA ComputedFits ==
  ASSUME CInv, NEW h \in Handlers, Wanted(calls[h].found) = {}
  PROVE  LET permission == ComputedFrom(calls[h].found, calls[h].resolved)
         IN /\ permission \in Permission
            /\ calls[h].steady => permission = RealPermission
<1> DEFINE found == calls[h].found
           resolved == calls[h].resolved
           base == IF found[Guild] = Member THEN Flags ELSE BaseOf(found, found[Member])
           permission == OverwritePermission(base, found[Channel], Everyone, found[Member],
                                             Member, resolved)
<1>1. /\ {Guild, Channel, Member} \subseteq DOMAIN found
      /\ found[Guild] # Member => {Everyone} \cup found[Member] \subseteq DOMAIN found
  BY AllFound
<1>2. /\ DOMAIN found \subseteq Entities
      /\ \A k \in DOMAIN found : found[k] \in Contents[k]
      /\ Member \in DOMAIN resolved => resolved[Member] \in Permission
      /\ found[Member] \subseteq Roles
  BY <1>1 DEF CInv, FitCalls, Typed, IInv, GoodCalls, GoodCall
<1>3. \A id \in DOMAIN found[Channel] : found[Channel][id] \in Overwrite
  BY <1>1, <1>2, EntityAssumption
<1>4. \A r \in GuildRoles \cap DOMAIN found : found[r] \in Permission
  BY <1>2, EntityAssumption
<1>5. base \in Permission
  <2>1. CASE found[Guild] = Member
    BY <2>1 DEF Permission
  <2>2. CASE found[Guild] # Member
    <3>1. found[Everyone] \in Permission /\ \A r \in found[Member] : found[r] \in Permission
      BY <1>1, <1>2, <1>4, <2>2 DEF GuildRoles
    <3> QED BY <2>2, <3>1 DEF BaseOf, BasePermission, Permission
  <2> QED BY <2>1, <2>2
<1>6. ComputedFrom(found, resolved) = permission
  BY DEF ComputedFrom
<1>7. permission \in Permission
  <2>1. \A id : OverwriteOf(found[Channel], id) \in Overwrite
    BY <1>3 DEF OverwriteOf, NoOverwrite, Overwrite, Permission
  <2> DEFINE named == {found[Channel][r] : r \in (found[Member] \ {Everyone}) \cap DOMAIN found[Channel]}
  <2>2. Merged(named) \in Overwrite
    <3>1. \A o \in named : o.deny \in Permission /\ o.allow \in Permission
      BY <1>3 DEF Overwrite
    <3> HIDE DEF named
    <3> QED BY <3>1 DEF Merged, Overwrite, Permission
  <2>3. \A q \in Permission, o \in Overwrite : Applied(q, o) \in Permission
    BY DEF Applied, Overwrite, Permission
  <2> DEFINE general == Applied(base, OverwriteOf(found[Channel], Everyone))
             ofRoles == Applied(general, Merged(named))
             total == Applied(ofRoles, OverwriteOf(found[Channel], Member))
  <2>4. permission = IF Administrator \in base THEN Flags
                     ELSE IF Member \in DOMAIN resolved THEN resolved[Member] ELSE total
    BY DEF OverwritePermission
  <2>5. total \in Permission
    <3> HIDE DEF base, named
    <3> QED BY <1>5, <2>1, <2>2, <2>3
  <2>6. Flags \in Permission
    BY DEF Permission
  <2> HIDE DEF total, base, resolved, permission
  <2> QED BY <1>2, <2>4, <2>5, <2>6
<1>8. ASSUME calls[h].steady
      PROVE  permission = RealPermission
  <2>1. Agrees(found, real) /\ Calm(real, gateway, late)
        /\ (Member \in DOMAIN resolved => resolved[Member] = RealPermission)
    BY <1>8 DEF CInv, FitCalls, Truthful
  <2>2. \A k \in DOMAIN found : found[k] = real[k]
    BY <2>1 DEF Agrees
  <2> DEFINE has == Existing(real[Member])
             granted == BaseOf(real, has)
  <2>3. has = found[Member] /\ found[Member] = real[Member]
        /\ found[Channel] = real[Channel] /\ found[Guild] = real[Guild]
    <3>1. found[Member] = real[Member] /\ found[Channel] = real[Channel]
          /\ found[Guild] = real[Guild]
      BY <1>1, <2>2
    <3>2. \A r \in found[Member] : real[r] # None
      BY <1>2, <2>1, Distinct DEF Calm, GuildRoles
    <3> QED BY <3>1, <3>2 DEF Existing
  <2>4. granted = base
    <3>1. CASE found[Guild] = Member
      BY <2>3, <3>1 DEF BaseOf, BasePermission
    <3>2. CASE found[Guild] # Member
      <4>1. found[Everyone] = real[Everyone] /\ \A r \in found[Member] : found[r] = real[r]
        BY <1>1, <2>2, <3>2
      <4>2. {found[r] : r \in found[Member]} = {real[r] : r \in has}
        BY <2>3, <4>1
      <4> QED BY <2>3, <3>2, <4>1, <4>2 DEF BaseOf
    <3> QED BY <3>1, <3>2
  <2>5. RealPermission =
          {f \in Flags : Granted(base, found[Channel], Everyone, found[Member], Member, f)}
    BY <2>3, <2>4 DEF RealPermission
  <2>6. CASE Member \in DOMAIN resolved
    <3>1. CASE Administrator \in base
      <4>1. RealPermission = Flags
        BY <2>5, <3>1 DEF Granted
      <4>2. permission = Flags
        BY <3>1 DEF OverwritePermission
      <4> QED BY <4>1, <4>2
    <3>2. CASE Administrator \notin base
      BY <2>1, <2>6, <3>2 DEF OverwritePermission
    <3> QED BY <3>1, <3>2
  <2>7. CASE Member \notin DOMAIN resolved
    <3>1. ASSUME NEW f \in Flags
          PROVE  f \in permission
                   <=> Granted(base, found[Channel], Everyone, found[Member], Member, f)
      <4> HIDE DEF base, found, resolved
      <4> QED BY <1>3, <1>5, <2>7, OverwritesDecide
    <3>2. permission \subseteq Flags
      BY <1>7 DEF Permission
    <3> HIDE DEF base, permission
    <3> QED BY <2>5, <3>1, <3>2
  <2> QED BY <2>6, <2>7
<1> QED BY <1>6, <1>7, <1>8

\* What is in a cache, and of what kind.
LEMMA HeldIsSettled ==
  ASSUME IInv, NEW k \in Entities \cap DOMAIN Held
  PROVE  Settled(k, Held[k], real, gateway, late)
BY DEF IInv, GoodCaches, Held

LEMMA CallFits ==
  ASSUME CInv, NEW h \in Handlers
  PROVE  /\ IsCall(calls[h]) /\ GoodCall(calls[h], real, gateway, late)
         /\ Typed(calls[h]) /\ Truthful(calls[h], real, RealPermission)
         /\ calls[h].steady => Calm(real, gateway, late)
BY DEF CInv, IInv, GoodCalls, GoodCall, FitCalls

LEMMA HitFits ==
  ASSUME CInv, IInv', NEW h \in Handlers, Hit(h)
  PROVE  CInv'
<1>1. PICK k \in Wanted(calls[h].found) \cap DOMAIN Held : Find(h, k, Held[k])
  BY DEF Hit
<1>2. UNCHANGED <<real, gateway, late>> /\ RolesFit(role_cache')
  BY DEF Hit, CInv
<1>3. k \in Entities
  BY CallFits, WantedIsNew DEF GoodCall
<1>4. Settled(k, Held[k], real, gateway, late)
  BY <1>1, <1>3, HeldIsSettled DEF CInv
<1> QED BY <1>1, <1>2, <1>3, <1>4, FindFits

\* A step that leaves what was found, and holds only what was held or what is.
LEMMA HoldFits ==
  ASSUME CInv, IInv', UNCHANGED <<real, gateway, late>>, RolesFit(role_cache'),
         NEW h \in Handlers, NEW c, c = calls[h], NEW d, Set(h, d), SameOutcome(c, d),
         d.found = c.found, d.carried = c.carried,
         c.steady => Agrees(d.answer, real)
  PROVE  CInv'
<1> DEFINE p == RealPermission
<1>1. Typed(c) /\ Truthful(c, real, p)
  BY CallFits
<1> HIDE DEF p
<1>2. Typed(d)
  BY <1>1 DEF Typed, SameOutcome
<1>3. Truthful(d, real, p)
  BY <1>1 DEF Truthful, SameOutcome
<1>4. d.steady = calls[h].steady /\ Truthful(d, real, RealPermission)
  BY <1>3 DEF SameOutcome, p
<1> QED BY <1>2, <1>4, StepFits

LEMMA MissFits ==
  ASSUME CInv, IInv', NEW h \in Handlers, Miss(h)
  PROVE  CInv'
<1> DEFINE c == calls[h]
<1>1. PICK k \in Wanted(c.found) : Set(h, Missed(c, k))
  BY DEF Miss, Missed
<1>2. UNCHANGED <<real, gateway, late>> /\ RolesFit(role_cache')
  BY DEF Miss, CInv
<1> DEFINE d == Missed(c, k)
<1>3. IsCall(c) /\ (c.steady => Agrees(c.answer, real))
  BY CallFits DEF Truthful
<1>4. Set(h, d) /\ d = Missed(c, k) /\ c = calls[h]
  BY <1>1
<1> HIDE DEF c, d
<1>5. /\ d.carried = c.carried /\ d.found = c.found /\ d.answer = c.answer
      /\ SameOutcome(c, d)
  BY <1>3, <1>4, Missing
<1>6. c.steady => Agrees(d.answer, real)
  BY <1>3, <1>5
<1> QED BY <1>2, <1>4, <1>5, <1>6, HoldFits

LEMMA TakeFits ==
  ASSUME CInv, IInv', NEW h \in Handlers, NEW k, NEW v, Carries(calls[h], k, v),
         AddElement(k, v), Find(h, k, v), UNCHANGED <<real, gateway, late>>
  PROVE  CInv'
<1>1. k \in Entities /\ Settled(k, v, real, gateway, late)
  BY CallFits DEF GoodCall
<1>2. RolesFit(role_cache')
  BY <1>1, ElementFits DEF Settled
<1> QED BY <1>1, <1>2, FindFits

LEMMA TakeFromEventFits ==
  ASSUME CInv, IInv', NEW h \in Handlers, TakeFromEvent(h)
  PROVE  CInv'
<1> DEFINE c == calls[h]
           v == c.carried[c.key]
<1>1. /\ c.pc = "missed" /\ c.key \in DOMAIN c.carried
      /\ AddElement(c.key, v) /\ Find(h, c.key, v) /\ UNCHANGED <<real, gateway, late>>
  BY DEF TakeFromEvent
<1>2. c.key \notin DOMAIN c.found
  BY <1>1, CallFits DEF GoodCall
<1>3. Carries(c, c.key, v)
  BY <1>1, <1>2 DEF Running, Carries
<1> QED BY <1>1, <1>3, TakeFits

LEMMA TakeAnswerFits ==
  ASSUME CInv, IInv', NEW h \in Handlers, TakeAnswer(h)
  PROVE  CInv'
<1> DEFINE c == calls[h]
           v == c.answer[c.key]
<1>1. /\ c.pc = "answered" /\ c.key \in DOMAIN c.answer
      /\ AddElement(c.key, v) /\ Find(h, c.key, v) /\ UNCHANGED <<real, gateway, late>>
  BY DEF TakeAnswer
<1>2. Carries(c, c.key, v)
  BY <1>1 DEF Carries
<1> QED BY <1>1, <1>2, TakeFits

LEMMA AnswerFits ==
  ASSUME CInv, IInv', NEW h \in Handlers, Answer(h)
  PROVE  CInv'
<1> DEFINE c == calls[h]
           S == IF c.key \in GuildRoles THEN GuildRoles ELSE {c.key}
           d == Holding(c, "answered", Snapshot(S))
<1>1. Set(h, d) /\ UNCHANGED <<real, gateway, late>> /\ RolesFit(role_cache')
  BY DEF Answer, Holding, CInv
<1>2. IsCall(c)
  BY CallFits
<1>3. d = Holding(c, "answered", Snapshot(S)) /\ c = calls[h]
  OBVIOUS
<1> HIDE DEF c, d, S
<1>4. /\ d.answer = Snapshot(S) /\ d.carried = c.carried /\ d.found = c.found
      /\ SameOutcome(c, d)
  BY <1>2, <1>3, Answered
<1>5. Agrees(d.answer, real)
  BY <1>4 DEF Agrees, Snapshot
<1> QED BY <1>1, <1>3, <1>4, <1>5, HoldFits

LEMMA AddRoleFits ==
  ASSUME CInv, IInv', NEW h \in Handlers, AddRole(h)
  PROVE  CInv'
<1> DEFINE c == calls[h]
<1>1. c.pc = "answered" /\ IsCall(c) /\ GoodCall(c, real, gateway, late)
      /\ (c.steady => Agrees(c.answer, real))
  BY CallFits DEF AddRole, Truthful
<1>2. PICK r \in DOMAIN c.answer :
        /\ AddElement(r, c.answer[r])
        /\ Set(h, [c EXCEPT
             !.answer = [q \in (DOMAIN c.answer) \ {r} |-> c.answer[q]],
             !.pc = IF DOMAIN c.answer = {r} THEN "added" ELSE "answered"])
  BY DEF AddRole
<1>3. UNCHANGED <<real, gateway, late>>
  BY DEF AddRole
<1> DEFINE a == [q \in (DOMAIN c.answer) \ {r} |-> c.answer[q]]
           place == IF DOMAIN c.answer = {r} THEN "added" ELSE "answered"
           d == HoldingLess(c, place, a)
<1>4. Set(h, d) /\ d = HoldingLess(c, place, a) /\ c = calls[h]
  BY <1>2 DEF HoldingLess
<1>5. c.steady => Agrees(a, real)
  BY <1>1 DEF Agrees
<1>6. r \in Entities /\ c.answer[r] \in Contents[r]
  BY <1>1 DEF GoodCall, Carries, Settled
<1>7. RolesFit(role_cache')
  BY <1>2, <1>6, ElementFits
<1> HIDE DEF c, d, a, place
<1>8. /\ d.answer = a /\ d.carried = c.carried /\ d.found = c.found /\ SameOutcome(c, d)
  BY <1>1, <1>4, Lessening
<1>9. c.steady => Agrees(d.answer, real)
  BY <1>5, <1>8
<1> QED BY <1>3, <1>4, <1>7, <1>8, <1>9, HoldFits

LEMMA FindAddedFits ==
  ASSUME CInv, IInv', NEW h \in Handlers, FindAdded(h)
  PROVE  CInv'
<1>1. UNCHANGED <<real, gateway, role_cache, late>> /\ RolesFit(role_cache')
  BY DEF FindAdded, CInv
<1>2. CASE Everyone \in DOMAIN role_cache /\ Find(h, Everyone, role_cache[Everyone])
  <2>1. Everyone \in Entities
    BY Distinct
  <2>2. Settled(Everyone, role_cache[Everyone], real, gateway, late)
    BY <1>2, <2>1 DEF CInv, IInv, GoodCaches
  <2> QED BY <1>1, <1>2, <2>1, <2>2, FindFits
<1>3. CASE End(h, None)
  BY <1>1, <1>3, EndFits
<1> QED BY <1>2, <1>3 DEF FindAdded

LEMMA ComputeFits ==
  ASSUME CInv, IInv', NEW h \in Handlers, Compute(h)
  PROVE  CInv'
<1> DEFINE permission == ComputedFrom(calls[h].found, calls[h].resolved)
<1>1. /\ permission \in Permission
      /\ calls[h].steady => permission = RealPermission
  BY ComputedFits DEF Compute
<1>2. End(h, permission) /\ UNCHANGED <<real, gateway, role_cache, late>>
  BY DEF Compute
<1> HIDE DEF permission
<1> QED BY <1>1, <1>2, EndFits

LEMMA CommandFits ==
  ASSUME CInv, IInv', NEW h \in Handlers, Step(h)
  PROVE  CInv'
<1>1. CASE NoAnswer(h)
  BY <1>1, EndFits DEF NoAnswer
<1>2. CASE MissingRole(h)
  BY <1>2, EndFits DEF MissingRole
<1> QED BY <1>1, <1>2, HitFits, MissFits, TakeFromEventFits, AnswerFits, TakeAnswerFits,
           AddRoleFits, FindAddedFits, ComputeFits DEF Step

LEMMA GiveFits ==
  ASSUME CInv, IInv', NEW h \in Handlers, GiveCommand(h)
  PROVE  CInv'
<1>1. PICK named \in SUBSET Roles, asMember \in BOOLEAN, isGiver \in BOOLEAN :
        Set(h, [Idle EXCEPT
          !.pc = "sent",
          !.carried = Snapshot({Channel} \cup named \cup (IF isGiver THEN {Member} ELSE {})),
          !.resolved = IF asMember THEN [m \in {Member} |-> RealPermission] ELSE Nothing,
          !.steady = /\ Updates = {} /\ late = {}
                     /\ \A k \in Entities : real[k] # None])
  BY DEF GiveCommand
<1> DEFINE S == {Channel} \cup named \cup (IF isGiver THEN {Member} ELSE {})
           p == RealPermission
           resolved == IF asMember THEN [m \in {Member} |-> p] ELSE Nothing
           steady == /\ Updates = {} /\ late = {}
                     /\ \A k \in Entities : real[k] # None
           c == Sent(Snapshot(S), resolved, steady)
<1>2. UNCHANGED <<real, role_cache, late>>
      /\ gateway' = Append(gateway, [kind |-> "command", from |-> h])
  BY DEF GiveCommand
<1>3. Set(h, c) /\ c = Sent(Snapshot(S), resolved, steady)
  BY <1>1 DEF Sent
<1>4. p \in Permission /\ Agrees(Snapshot(S), real)
  BY DEF RealPermission, Permission, Agrees, Snapshot
<1>5. \A m \in DOMAIN resolved : m = Member /\ resolved[m] = p
  BY DEF Nothing
<1>6. steady => Calm(real, gateway, late)
  BY DEF Updates, Calm, Pending
<1> HIDE DEF S, p, resolved, steady, c
<1>7. /\ c.carried = Snapshot(S) /\ c.found = Nothing /\ c.answer = Nothing
      /\ c.resolved = resolved /\ c.result = None /\ c.steady = steady
  BY <1>3, SentCall
<1>8. Typed(c)
  BY <1>4, <1>5, <1>7 DEF Typed, Nothing
<1>9. Truthful(c, real, p)
  BY <1>4, <1>5, <1>7 DEF Truthful, Agrees, Nothing
<1>10. \A k : Pending(k, gateway') => Pending(k, gateway)
  <2>1. gateway \in Seq(Event)
    BY DEF CInv, IInv, GoodDiscord
  <2> DEFINE e == [kind |-> "command", from |-> h]
  <2>2. e \in Event /\ e.kind # "update" /\ gateway' = Append(gateway, e)
    BY <1>2 DEF Event
  <2> HIDE DEF e
  <2>3. /\ DOMAIN gateway' = DOMAIN gateway \cup {Len(gateway) + 1}
        /\ \A i \in DOMAIN gateway : gateway'[i] = gateway[i]
        /\ gateway'[Len(gateway) + 1] = e
    BY <2>1, <2>2
  <2> QED BY <2>2, <2>3 DEF Pending
<1>11. calls' = [i \in Handlers |-> IF i = h THEN c ELSE calls[i]]
  BY <1>3 DEF Set, CInv, IInv, GoodCalls
<1>12. FitCalls(calls, real, gateway, late, p) /\ RealPermission' = p
  BY <1>2, RealStays DEF CInv, p
<1>13. Calm(real, gateway, late) => Calm(real, gateway', late)
  BY <1>10 DEF Calm
<1>14. FitCalls(calls', real, gateway', late, p)
  BY <1>6, <1>7, <1>8, <1>9, <1>11, <1>12, <1>13 DEF FitCalls
<1> QED BY <1>2, <1>12, <1>14 DEF CInv

\* Nobody can be sure of anything any more.
LEMMA UnsteadyFits ==
  ASSUME CInv, calls' = Unsteady, NEW r, NEW g, NEW l, NEW p
  PROVE  FitCalls(calls', r, g, l, p)
<1>1. ASSUME NEW h \in Handlers
      PROVE  Typed(calls'[h]) /\ calls'[h].steady = FALSE
  <2> DEFINE c == calls[h]
             d == [c EXCEPT !.steady = FALSE]
  <2>1. IsCall(c) /\ Typed(c)
    BY CallFits
  <2>2. calls'[h] = d /\ d = [c EXCEPT !.steady = FALSE]
    BY DEF Unsteady
  <2> HIDE DEF c, d
  <2>3. /\ d.found = c.found /\ d.resolved = c.resolved /\ d.result = c.result
        /\ d.steady = FALSE
    BY <2>1, <2>2, Forgetting
  <2> QED BY <2>1, <2>2, <2>3 DEF Typed
<1> QED BY <1>1 DEF FitCalls, Truthful

LEMMA DeliverFits ==
  ASSUME CInv, IInv', Deliver
  PROVE  CInv'
<1> DEFINE e == Head(gateway)
           p == RealPermission
<1>1. gateway # <<>> /\ gateway' = Tail(gateway) /\ real' = real
  BY DEF Deliver
<1>2. GoodDiscord(real, gateway) /\ e = Head(gateway)
  BY DEF CInv, IInv
<1>3. FitCalls(calls, real, gateway, late, p) /\ RealPermission' = p
  BY <1>1, RealStays DEF CInv
<1>4. gateway \in Seq(Event) /\ e \in Event
  BY <1>1, <1>2 DEF GoodDiscord
<1> HIDE DEF e, p
<1>5. \A k : Pending(k, gateway') => Pending(k, gateway)
  <2>1. \A i \in DOMAIN gateway' : i + 1 \in DOMAIN gateway /\ gateway'[i] = gateway[i + 1]
    BY <1>1, <1>4
  <2> QED BY <2>1 DEF Pending
<1>6. CASE /\ e.kind = "command"
           /\ Set(e.from, [calls[e.from] EXCEPT !.pc = "ready"])
           /\ UNCHANGED <<cached, role_cache, late>>
  <2>1. e.from \in Handlers
    BY <1>4, <1>6 DEF Event
  <2> DEFINE c == calls[e.from]
             d == [c EXCEPT !.pc = "ready"]
  <2>2. IsCall(c) /\ Typed(c) /\ Truthful(c, real, p) /\ (c.steady => Calm(real, gateway, late))
    BY <1>3, <2>1, CallFits DEF FitCalls
  <2>3. calls' = [i \in Handlers |-> IF i = e.from THEN d ELSE calls[i]]
    BY <1>6 DEF Set, CInv, IInv, GoodCalls
  <2>4. d = [c EXCEPT !.pc = "ready"]
    OBVIOUS
  <2> HIDE DEF c, d
  <2>5. /\ d.carried = c.carried /\ d.answer = c.answer /\ d.found = c.found
        /\ SameOutcome(c, d)
    BY <2>2, <2>4, Moving
  <2>6. Typed(d) /\ Truthful(d, real, p) /\ (d.steady => Calm(real, gateway, late))
    BY <2>2, <2>5 DEF Typed, Truthful, SameOutcome
  <2>7. Calm(real, gateway, late) => Calm(real, gateway', late)
    BY <1>5 DEF Calm
  <2>8. FitCalls(calls', real, gateway', late, p)
    BY <1>3, <2>3, <2>6, <2>7 DEF FitCalls
  <2> QED BY <1>1, <1>3, <1>6, <2>8 DEF CInv
<1>7. CASE /\ e.kind = "update"
           /\ UpdateElement(e.key, e.content)
           /\ late' = IF Overtakes(e.key, e.content) THEN late \cup {e.key} ELSE late \ {e.key}
           /\ UNCHANGED calls
  <2>1. e.key \in Entities /\ e.content \in Contents[e.key]
    BY <1>4, <1>7 DEF Event
  <2>2. late' \subseteq Entities
    BY <1>7, <2>1 DEF CInv
  <2>3. ~Calm(real, gateway, late)
    <3>1. gateway[1] = e /\ 1 \in DOMAIN gateway
      BY <1>1, <1>2, <1>4
    <3>2. Pending(e.key, gateway)
      BY <1>7, <3>1 DEF Pending
    <3> QED BY <3>2 DEF Calm
  <2>4. FitCalls(calls', real, gateway', late', p)
    BY <1>3, <1>7, <2>3 DEF FitCalls, Truthful
  <2>5. RolesFit(role_cache')
    <3>1. CASE e.key \in DOMAIN role_cache
      <4>1. RoleCache!Add(e.key, e.content)
        <5>1. e.key \notin DOMAIN cached
          BY <3>1, Distinct DEF CInv, IInv, GoodCaches
        <5> QED BY <1>7, <3>1, <5>1 DEF UpdateElement, RoleCache!Add
      <4> QED BY <2>1, <4>1, RoleFits DEF CInv, IInv, GoodCaches
    <3>2. CASE e.key \notin DOMAIN role_cache
      BY <1>7, <3>2 DEF UpdateElement, CInv
    <3> QED BY <3>1, <3>2
  <2> QED BY <1>1, <1>3, <2>2, <2>4, <2>5 DEF CInv
<1> QED BY <1>6, <1>7, <1>2 DEF Deliver

LEMMA NextFits == CInv /\ [Next]_vars => CInv'
<1> SUFFICES ASSUME CInv, [Next]_vars
             PROVE  CInv'
  OBVIOUS
<1>1. IInv'
  BY NextGood DEF CInv
<1>2. CASE \E h \in Handlers : GiveCommand(h) \/ Step(h)
  BY <1>1, <1>2, GiveFits, CommandFits
<1>3. CASE \E k \in Entities : ChangeEntity(k)
  <2>1. calls' = Unsteady /\ UNCHANGED <<role_cache, late>>
    BY <1>3 DEF ChangeEntity
  <2>2. FitCalls(calls', real', gateway', late', RealPermission')
    BY <2>1, UnsteadyFits
  <2> QED BY <1>1, <2>1, <2>2 DEF CInv
<1>4. CASE \E r \in Roles : DeleteRole(r)
  <2>1. calls' = Unsteady /\ UNCHANGED <<role_cache, late>>
    BY <1>4 DEF DeleteRole
  <2>2. FitCalls(calls', real', gateway', late', RealPermission')
    BY <2>1, UnsteadyFits
  <2> QED BY <1>1, <2>1, <2>2 DEF CInv
<1>5. CASE OtherGuild
  <2>1. UNCHANGED <<real, gateway, calls, late>>
    BY <1>5 DEF OtherGuild
  <2>2. RolesFit(role_cache')
    <3>1. ASSUME NEW k \in OtherRoles, NEW v \in Contents[k], RoleCache!Insert(k, v)
          PROVE  RolesFit(role_cache')
      <4>1. RoleCache!Add(k, v)
        BY <3>1 DEF RoleCache!Add
      <4> QED BY <4>1, RoleFits DEF CInv, IInv, GoodCaches
    <3>2. ASSUME UNCHANGED role_cache
          PROVE  RolesFit(role_cache')
      BY <3>2 DEF CInv
    <3> QED BY <1>5, <3>1, <3>2 DEF OtherGuild
  <2>3. RealPermission' = RealPermission
    BY <2>1, RealStays
  <2> QED BY <1>1, <2>1, <2>2, <2>3 DEF CInv
<1>6. CASE Deliver
  BY <1>1, <1>6, DeliverFits
<1>7. CASE UNCHANGED vars
  <2>1. UNCHANGED <<real, gateway, role_cache, calls, late>>
    BY <1>7 DEF vars
  <2>2. RealPermission' = RealPermission
    BY <2>1, RealStays
  <2> QED BY <1>1, <2>1, <2>2 DEF CInv
<1> QED BY <1>2, <1>3, <1>4, <1>5, <1>6, <1>7 DEF Next

LEMMA InitFits == Init => CInv
<1> SUFFICES ASSUME Init
             PROVE  CInv
  OBVIOUS
<1>1. /\ late = {} /\ RoleCache!Init /\ calls = [h \in Handlers |-> Idle]
  BY DEF Init
<1>2. RolesFit(role_cache)
  <2>1. DOMAIN role_cache = {}
    BY <1>1 DEF RoleCache!Init
  <2>2. Cardinality(DOMAIN role_cache) = 0
    BY <2>1, FS_EmptySet
  <2> QED BY <2>1, <2>2, EntityAssumption DEF RolesFit
<1>3. /\ Idle.found = Nothing /\ Idle.resolved = Nothing /\ Idle.result = None
      /\ Idle.steady = FALSE
  BY DEF Idle
<1>4. Typed(Idle)
  BY <1>3 DEF Typed, Nothing
<1>5. FitCalls(calls, real, gateway, late, RealPermission)
  <2> DEFINE p == RealPermission
  <2> HIDE DEF p
  <2>1. FitCalls(calls, real, gateway, late, p)
    BY <1>1, <1>3, <1>4 DEF FitCalls, Truthful
  <2> QED BY <2>1 DEF p
<1> QED BY <1>1, <1>2, <1>5, InitGood DEF CInv

\* Discord's entities, the caches and what each command has found keep their kinds,
\* and the role cache keeps to its limit.
THEOREM TypeCorrect == Spec => []TypeOK
<1>1. CInv => TypeOK
  <2> SUFFICES ASSUME CInv
               PROVE  TypeOK
    OBVIOUS
  <2>1. \A k \in Entities : real[k] \in Contents[k] \cup {None}
    BY DEF CInv, IInv, GoodDiscord
  <2>2. /\ DOMAIN cached \subseteq {Guild, Channel, Member}
        /\ DOMAIN role_cache \subseteq CachedRoles
        /\ Cardinality(DOMAIN role_cache) <= RoleLimit
    BY DEF CInv, IInv, GoodCaches, RolesFit
  <2>3. ASSUME NEW k \in DOMAIN Held
        PROVE  Held[k] \in Contents[k]
    <3>1. CASE k \in DOMAIN cached
      <4>1. k \in Entities
        BY <2>2, <3>1, Distinct
      <4> QED BY <4>1, HeldIsSettled DEF CInv, Settled
    <3>2. CASE k \notin DOMAIN cached
      <4>1. k \in DOMAIN role_cache /\ Held[k] = role_cache[k]
        BY <3>2 DEF Held
      <4> QED BY <4>1 DEF CInv, RolesFit
    <3> QED BY <3>1, <3>2
  <2>4. \A h \in Handlers :
          /\ DOMAIN calls[h].found \subseteq Entities
          /\ calls[h].result = None \/ calls[h].result \in Permission
    BY CallFits DEF Typed
  <2> QED BY <2>1, <2>2, <2>3, <2>4 DEF TypeOK, CInv
<1> QED BY <1>1, InitFits, NextFits, PTL DEF Spec

\* A command during which nothing changes ends with the permission that Discord
\* grants, whether the entities came from the caches, with the command or from
\* Discord, for any number of roles, flags, overwrites and other commands.
THEOREM PermissionIsGranted == Spec => []ComputedIsGranted
<1>1. CInv => ComputedIsGranted
  <2> SUFFICES ASSUME CInv, NEW h \in Handlers, calls[h].steady, calls[h].result # None
               PROVE  calls[h].result = RealPermission
    BY DEF ComputedIsGranted
  <2> QED BY CallFits DEF Truthful
<1> QED BY <1>1, InitFits, NextFits, PTL DEF Spec
=============================================================================
