--------------------------------- MODULE Access ---------------------------------
(***************************************************************************)
(* Who may do what in a guild, and for how long after Discord said no.      *)
(*                                                                          *)
(* A check (Service.IsMember, IsAdmin, CanConfigure) resolves the member's  *)
(* standing - owner, roles, which of them carry Administrator - from two    *)
(* caches filled by slow calls to Discord (discord/resolver.go), and for    *)
(* IsAdmin reads the configured roles from the database.  /setup replaces   *)
(* those roles and then empties the caches, while other checks are on their *)
(* way.  One guild; the locks of the caches make each access one step.      *)
(***************************************************************************)
EXTENDS Naturals, Integers, FiniteSets

CONSTANTS
    User,        \* Discord users
    Role,        \* the guild's roles
    Everyone,    \* the role every member has; not one of member.Roles
    NoUser,      \* nobody
    Request,     \* calls of the service in progress
    GuildTTL,    \* guildCacheTTL
    MemberTTL,   \* memberCacheTTL
    SweepAbove,  \* the member cache is swept when it is larger (4096)
    MaxNow,      \* bound: the clock stops here
    MaxChanges   \* bound: changes made in Discord

ASSUME AccessAssumption ==
    /\ {GuildTTL, MemberTTL} \subseteq Nat \ {0}
    /\ {SweepAbove, MaxNow, MaxChanges} \subseteq Nat
    /\ Everyone \notin Role /\ NoUser \notin User

VARIABLES
    now,         \* unix time
    guild,       \* Discord: the guild's owner and its Administrator roles
    roles,       \* Discord: the roles of each user, none for strangers
    configured,  \* admin_roles
    guildCache, memberCache,
    req,         \* what each call is doing
    ownedAt, heldAt, grantedAt,   \* history: when a user last was the owner, held
                                  \* a role, when a role last carried Administrator
    changes      \* changes made in Discord

discord == <<guild, roles, ownedAt, heldAt, grantedAt, changes>>
vars == <<now, discord, configured, guildCache, memberCache, req>>

Time == 0 .. MaxNow
Never == -1
Kind == {"member", "admin", "setup"}

\* A stranger has no role, not even the one of every member.
Roles == {held \in SUBSET (Role \cup {Everyone}) : held # {} => Everyone \in held}

\* What Discord says of a guild, and authz.Member.
GuildInfo == [owner : User \cup {NoUser}, admins : SUBSET Role]
Member == [isGuildOwner : BOOLEAN, roles : SUBSET Role, administrator : SUBSET Role]

None == [found |-> FALSE]
CachedGuild == [found : {TRUE}, info : GuildInfo, expires : Nat]
CachedMember == [found : {TRUE}, member : Member, expires : Nat]

Idle == [pc |-> "idle"]
Call == [pc : {"idle"}]
   \cup [pc : {"findGuild"}, user : User, start : Time]
   \cup [pc : {"askGuild"}, user : User, start : Time, asked : Time]
   \cup [pc : {"keepGuild"}, user : User, start : Time, asked : Time, info : GuildInfo]
   \cup [pc : {"askMember"}, user : User, start : Time, info : GuildInfo]
   \cup [pc : {"keepMember", "decide"}, user : User, start : Time, member : Member]
   \cup [pc : {"configure", "invalidate"}]

--------------------------------------------------------------------------------
\* authz.IsBingoAdmin and authz.RequireDiscordAdministrator
RequireDiscordAdministrator(m) == m.isGuildOwner \/ m.administrator # {}
IsBingoAdmin(m, adminRoles) ==
    RequireDiscordAdministrator(m) \/ m.roles \cap adminRoles # {}

\* Mutant: an entry counts while it is there.
FreshForEver(entry) == entry.found

\* An entry counts until it expires.
Fresh(entry) == IF entry.found THEN entry.expires > now ELSE FALSE

\* Mutant: the role of every member counts like the others.
StandingOfEveryone(u, info, held) ==
    [isGuildOwner |-> u = info.owner, roles |-> held, administrator |-> held \cap info.admins]

\* The standing computed from the guild's roles and the member's.
Standing(u, info, held) ==
    [isGuildOwner |-> u = info.owner,
     roles |-> held \cap Role,
     administrator |-> held \cap info.admins]

Init ==
    /\ now = 0
    /\ guild \in GuildInfo
    /\ roles \in [User -> Roles]
    /\ configured = {}
    /\ guildCache = None
    /\ memberCache = [u \in User |-> None]
    /\ req = [q \in Request |-> Idle]
    /\ ownedAt = [u \in User |-> Never]
    /\ heldAt = [u \in User |-> [r \in Role \cup {Everyone} |-> Never]]
    /\ grantedAt = [r \in Role |-> Never]
    /\ changes = 0

--------------------------------------------------------------------------------
(* Discord and the clock. *)

LastOwned(u) == IF guild.owner = u THEN now ELSE ownedAt[u]
LastHeld(u, r) == IF r \in roles[u] THEN now ELSE heldAt[u][r]
LastGranted(r) == IF r \in guild.admins THEN now ELSE grantedAt[r]

\* Ownership is handed on, roles gain and lose the Administrator permission.
GuildChanges(info) ==
    /\ changes < MaxChanges /\ info # guild
    /\ guild' = info
    /\ ownedAt' = [u \in User |-> LastOwned(u)]
    /\ grantedAt' = [r \in Role |-> LastGranted(r)]
    /\ changes' = changes + 1
    /\ UNCHANGED <<now, roles, heldAt, configured, guildCache, memberCache, req>>

\* A user joins, leaves, is given roles or loses them.
MemberChanges(u, held) ==
    /\ changes < MaxChanges /\ held # roles[u]
    /\ roles' = [roles EXCEPT ![u] = held]
    /\ heldAt' = [heldAt EXCEPT ![u] = [r \in Role \cup {Everyone} |-> LastHeld(u, r)]]
    /\ changes' = changes + 1
    /\ UNCHANGED <<now, guild, ownedAt, grantedAt, configured, guildCache, memberCache, req>>

Tick ==
    /\ now < MaxNow
    /\ now' = now + 1
    /\ UNCHANGED <<discord, configured, guildCache, memberCache, req>>

--------------------------------------------------------------------------------
(* resolver.Resolve and guildInfo. *)

Becomes(q, call) == req' = [req EXCEPT ![q] = call]

\* A call of the service starts and Resolve looks for the member in its cache ...
Begin(q, u) ==
    /\ req[q].pc = "idle"
    /\ Becomes(q,
         IF Fresh(memberCache[u])
         THEN [pc |-> "decide", user |-> u, start |-> now, member |-> memberCache[u].member]
         ELSE [pc |-> "findGuild", user |-> u, start |-> now])
    /\ UNCHANGED <<now, discord, configured, guildCache, memberCache>>

\* ... and guildInfo for the guild in the other one, by a clock of its own.
FindGuild(q) ==
    /\ req[q].pc = "findGuild"
    /\ Becomes(q,
         IF Fresh(guildCache)
         THEN [pc |-> "askMember", user |-> req[q].user, start |-> req[q].start,
               info |-> guildCache.info]
         ELSE [pc |-> "askGuild", user |-> req[q].user, start |-> req[q].start, asked |-> now])
    /\ UNCHANGED <<now, discord, configured, guildCache, memberCache>>

\* Discord answers session.Guild.
AskGuild(q) ==
    /\ req[q].pc = "askGuild"
    /\ Becomes(q, [pc |-> "keepGuild", user |-> req[q].user, start |-> req[q].start,
                   asked |-> req[q].asked, info |-> guild])
    /\ UNCHANGED <<now, discord, configured, guildCache, memberCache>>

\* The answer is cached, for a TTL from before the call.
KeepGuild(q) ==
    /\ req[q].pc = "keepGuild"
    /\ guildCache' = [found |-> TRUE, info |-> req[q].info,
                      expires |-> req[q].asked + GuildTTL]
    /\ Becomes(q, [pc |-> "askMember", user |-> req[q].user, start |-> req[q].start,
                   info |-> req[q].info])
    /\ UNCHANGED <<now, discord, configured, memberCache>>

\* Discord answers session.GuildMember: strangers are an error (CallFails).
AskMember(q) ==
    /\ req[q].pc = "askMember"
    /\ Everyone \in roles[req[q].user]
    /\ Becomes(q, [pc |-> "keepMember", user |-> req[q].user, start |-> req[q].start,
                   member |-> Standing(req[q].user, req[q].info, roles[req[q].user])])
    /\ UNCHANGED <<now, discord, configured, guildCache, memberCache>>

\* The sweep of expired entries once the cache is large.
Sweep(cache, time) ==
    IF Cardinality({u \in User : cache[u].found}) > SweepAbove
    THEN [u \in User |-> IF cache[u].found /\ cache[u].expires <= time THEN None ELSE cache[u]]
    ELSE cache

\* Mutant: the TTL runs from the end of a look-up.
KeepMemberFromNow(q) ==
    /\ req[q].pc = "keepMember"
    /\ memberCache' = [memberCache EXCEPT ![req[q].user] =
            [found |-> TRUE, member |-> req[q].member, expires |-> now + MemberTTL]]
    /\ Becomes(q, [req[q] EXCEPT !.pc = "decide"])
    /\ UNCHANGED <<now, discord, configured, guildCache>>

\* The standing is cached, for a TTL from the start of the look-up, whatever has
\* happened to the cache in the meantime.
KeepMember(q) ==
    /\ req[q].pc = "keepMember"
    /\ memberCache' = Sweep([memberCache EXCEPT ![req[q].user] =
            [found |-> TRUE, member |-> req[q].member, expires |-> req[q].start + MemberTTL]],
         req[q].start)
    /\ Becomes(q, [req[q] EXCEPT !.pc = "decide"])
    /\ UNCHANGED <<now, discord, configured, guildCache>>

\* A call to Discord fails, and with it the check; or the statement of /setup does.
CallFails(q) ==
    /\ req[q].pc \in {"askGuild", "askMember", "configure"}
    /\ Becomes(q, Idle)
    /\ UNCHANGED <<now, discord, configured, guildCache, memberCache>>

--------------------------------------------------------------------------------
(* service.go and discord/setup.go. *)

\* What a check asks of a standing; the configured roles are read at this moment.
Qualifies(kind, m, adminRoles) ==
    CASE kind = "member" -> TRUE
      [] kind = "admin" -> IsBingoAdmin(m, adminRoles)
      [] kind = "setup" -> RequireDiscordAdministrator(m)

\* The answer.  The store operation a positive one is for follows at once, or as
\* late as the connection is free, and does not look again; the one that matters
\* here is /setup's, which replaces the configured roles.
Decide(q, k) ==
    /\ req[q].pc = "decide"
    /\ Becomes(q, IF k = "setup" /\ Qualifies(k, req[q].member, configured)
                  THEN [pc |-> "configure"] ELSE Idle)
    /\ UNCHANGED <<now, discord, configured, guildCache, memberCache>>

\* handleSetupRoles: SetAdminRoles replaces the set in a transaction ...
SetAdminRoles(q, chosen) ==
    /\ req[q].pc = "configure"
    /\ configured' = chosen
    /\ Becomes(q, [pc |-> "invalidate"])
    /\ UNCHANGED <<now, discord, guildCache, memberCache>>

\* ... and the caches of the guild are emptied.
Invalidate(q) ==
    /\ req[q].pc = "invalidate"
    /\ guildCache' = None
    /\ memberCache' = [u \in User |-> None]
    /\ Becomes(q, Idle)
    /\ UNCHANGED <<now, discord, configured>>

--------------------------------------------------------------------------------
RequestStep(q) ==
    \/ \E u \in User : Begin(q, u)
    \/ FindGuild(q) \/ AskGuild(q) \/ KeepGuild(q) \/ AskMember(q) \/ KeepMember(q)
    \/ CallFails(q)
    \/ \E k \in Kind : Decide(q, k)
    \/ \E chosen \in SUBSET Role : SetAdminRoles(q, chosen)
    \/ Invalidate(q)

Next ==
    \/ \E q \in Request : RequestStep(q)
    \/ \E info \in GuildInfo : GuildChanges(info)
    \/ \E u \in User, held \in Roles : MemberChanges(u, held)
    \/ Tick

Spec == Init /\ [][Next]_vars

--------------------------------------------------------------------------------
Past == Time \cup {Never}
TypeOK ==
    /\ now \in Time
    /\ guild \in GuildInfo
    /\ roles \in [User -> Roles]
    /\ configured \in SUBSET Role
    /\ guildCache \in {None} \cup CachedGuild
    /\ memberCache \in [User -> {None} \cup CachedMember]
    /\ req \in [Request -> Call]
    /\ ownedAt \in [User -> Past]
    /\ heldAt \in [User -> [Role \cup {Everyone} -> Past]]
    /\ grantedAt \in [Role -> Past]
    /\ changes \in 0 .. MaxChanges

\* What Discord said of a user less than memberCacheTTL before a moment, and of the
\* guild less than both TTLs before it.
WasMember(u, when) == LastHeld(u, Everyone) > when - MemberTTL
WasOwner(u, when) == LastOwned(u) > when - GuildTTL - MemberTTL
WasHeld(u, r, when) == LastHeld(u, r) > when - MemberTTL
WasGranted(r, when) == LastGranted(r) > when - GuildTTL - MemberTTL

\* A member in the cache that still counts is one Discord would have described so
\* within those times - also when a slow look-up writes over a newer entry, or
\* fills the cache again after /setup has emptied it (resolver.Resolve).
CacheIsRecent ==
    \A u \in User : Fresh(memberCache[u]) =>
        LET m == memberCache[u].member IN
        /\ WasMember(u, now)
        /\ m.isGuildOwner => WasOwner(u, now)
        /\ \A r \in m.roles : WasHeld(u, r, now)
        /\ \A r \in m.administrator : WasHeld(u, r, now) /\ WasGranted(r, now)

\* The grounds on which a check that starts then may say yes.
Grounds(k, u, start) ==
    /\ WasMember(u, start)
    /\ \/ k = "member"
       \/ WasOwner(u, start)
       \/ \E r \in Role : WasHeld(u, r, start) /\ WasGranted(r, start)
       \/ k = "admin" /\ \E r \in configured : WasHeld(u, r, start)

\* Nobody is let through on a standing lost longer ago than that when the check
\* started, and a role taken out by /setup stops counting at once, cached or not
\* (Service.IsMember, IsAdmin, CanConfigure).
AllowedOnRecentGrounds ==
    [][\A q \in Request, k \in Kind :
         Decide(q, k) /\ Qualifies(k, req[q].member, configured)
            => Grounds(k, req[q].user, req[q].start)]_vars
================================================================================
