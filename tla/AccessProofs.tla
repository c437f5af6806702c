------------------------------ MODULE AccessProofs ------------------------------
(***************************************************************************)
(* How long a lost standing lets a user through, for every set of users,    *)
(* roles and concurrent calls and for all TTLs.                             *)
(*                                                                          *)
(* The argument: what Discord last said only grows younger with time, so a  *)
(* fact "held since then" survives every step.  Each call carries such a    *)
(* fact from where it read it, with the time its look-up started, to the    *)
(* caches, whose expiry is that time plus a TTL.                            *)
(***************************************************************************)
EXTENDS Access, TLAPS

--------------------------------------------------------------------------------
(* Shapes of calls and cache entries. *)

LEMMA CallShape ==
    ASSUME NEW c \in Call
    PROVE  /\ c.pc \in {"findGuild", "askGuild", "keepGuild", "askMember"}
                => c.user \in User /\ c.start \in Time
           /\ c.pc \in {"askGuild", "keepGuild"} => c.asked \in Time
           /\ c.pc \in {"keepGuild", "askMember"} => c.info \in GuildInfo
           /\ c.pc \in {"keepMember", "decide"}
                => /\ c \in [pc : {"keepMember", "decide"}, user : User, start : Time,
                             member : Member]
                   /\ c.user \in User /\ c.start \in Time /\ c.member \in Member
  BY DEF Call, Idle

LEMMA CachedShape ==
    /\ \A e \in {None} \cup CachedMember :
         e.found => e \in CachedMember /\ e.member \in Member /\ e.expires \in Nat
    /\ \A e \in {None} \cup CachedGuild :
         e.found => e \in CachedGuild /\ e.info \in GuildInfo /\ e.expires \in Nat
  <1>1. None.found = FALSE
    BY DEF None
  <1>2. \A e \in CachedMember : e.member \in Member /\ e.expires \in Nat
    BY DEF CachedMember
  <1>3. \A e \in CachedGuild : e.info \in GuildInfo /\ e.expires \in Nat
    BY DEF CachedGuild
  <1> QED BY <1>1, <1>2, <1>3

\* A call that moves on keeps the rest.
LEMMA MovedOn ==
    ASSUME NEW c \in Call
    PROVE  c.pc = "keepMember" =>
             [c EXCEPT !.pc = "decide"] =
               [pc |-> "decide", user |-> c.user, start |-> c.start, member |-> c.member]
  <1>1. ASSUME NEW d \in [pc : {"keepMember", "decide"}, user : User, start : Time,
                          member : Member]
        PROVE  [d EXCEPT !.pc = "decide"] =
                 [pc |-> "decide", user |-> d.user, start |-> d.start, member |-> d.member]
    OBVIOUS
  <1> QED BY <1>1, CallShape

LEMMA StandingIsMember ==
    ASSUME NEW u \in User, NEW info \in GuildInfo, NEW held \in Roles
    PROVE  Standing(u, info, held) \in Member
  BY DEF Standing, Member, GuildInfo, Roles

\* The sweep only forgets.
LEMMA SweepForgets ==
    ASSUME NEW cache \in [User -> {None} \cup CachedMember], NEW time \in Time
    PROVE  /\ Sweep(cache, time) \in [User -> {None} \cup CachedMember]
           /\ \A u \in User : Sweep(cache, time)[u] \in {None, cache[u]}
  BY DEF Sweep, None

LEMMA TypeOKInit == Init => TypeOK
  <1> SUFFICES ASSUME Init
               PROVE  TypeOK
    OBVIOUS
  <1>1. 0 \in Time /\ Never \in Past /\ Idle \in Call /\ {} \in SUBSET Role
        /\ 0 \in 0 .. MaxChanges
    BY AccessAssumption DEF Time, Past, Call, Idle
  <1> QED BY <1>1 DEF Init, TypeOK

LEMMA LastIsPast ==
    ASSUME TypeOK
    PROVE  /\ \A u \in User : LastOwned(u) \in Past
           /\ \A u \in User, r \in Role \cup {Everyone} : LastHeld(u, r) \in Past
           /\ \A r \in Role : LastGranted(r) \in Past
  BY DEF TypeOK, LastOwned, LastHeld, LastGranted, Past

LEMMA TypeOKNext == TypeOK /\ [Next]_vars => TypeOK'
  <1> SUFFICES ASSUME TypeOK, [Next]_vars
               PROVE  TypeOK'
    OBVIOUS
  <1> USE DEF TypeOK
  <1>1. ASSUME NEW q \in Request, RequestStep(q)
        PROVE  TypeOK'
    <2>0. Idle \in Call /\ req[q] \in Call
      BY DEF Call, Idle
    <2>1. ASSUME NEW u \in User, Begin(q, u)
          PROVE  TypeOK'
      <3> DEFINE c == req'[q]
      <3>1. c \in Call
        <4>1. CASE Fresh(memberCache[u])
          <5>1. c = [pc |-> "decide", user |-> u, start |-> now,
                     member |-> memberCache[u].member]
            BY <2>1, <4>1 DEF Begin, Becomes
          <5>2. memberCache[u].member \in Member
            BY <4>1, CachedShape DEF Fresh
          <5> QED BY <5>1, <5>2 DEF Call
        <4>2. CASE ~Fresh(memberCache[u])
          <5>1. c = [pc |-> "findGuild", user |-> u, start |-> now]
            BY <2>1, <4>2 DEF Begin, Becomes
          <5> QED BY <5>1 DEF Call
        <4> QED BY <4>1, <4>2
      <3>2. req' = [req EXCEPT ![q] = c]
        BY <2>1 DEF Begin, Becomes
      <3>3. req' \in [Request -> Call]
        <4> HIDE DEF c
        <4> QED BY <3>1, <3>2
      <3> QED BY <2>1, <3>3 DEF Begin, discord
    <2>10. CASE FindGuild(q)
      <3>0. req[q].user \in User /\ req[q].start \in Time
        BY <2>0, <2>10, CallShape DEF FindGuild
      <3>1. CASE Fresh(guildCache)
        <4>1. guildCache.info \in GuildInfo
          BY <3>1, CachedShape DEF Fresh
        <4>2. [pc |-> "askMember", user |-> req[q].user, start |-> req[q].start,
               info |-> guildCache.info] \in Call
          BY <3>0, <4>1 DEF Call
        <4> QED BY <2>10, <3>1, <4>2 DEF FindGuild, Becomes, discord
      <3>2. CASE ~Fresh(guildCache)
        <4>1. [pc |-> "askGuild", user |-> req[q].user, start |-> req[q].start,
               asked |-> now] \in Call
          BY <3>0 DEF Call
        <4> QED BY <2>10, <3>2, <4>1 DEF FindGuild, Becomes, discord
      <3> QED BY <3>1, <3>2
    <2>2. CASE AskGuild(q)
      <3>0. req[q].user \in User /\ req[q].start \in Time /\ req[q].asked \in Time
        BY <2>0, <2>2, CallShape DEF AskGuild
      <3>1. [pc |-> "keepGuild", user |-> req[q].user, start |-> req[q].start,
             asked |-> req[q].asked, info |-> guild] \in Call
        BY <3>0 DEF Call
      <3> QED BY <2>2, <3>1 DEF AskGuild, Becomes, discord
    <2>3. CASE KeepGuild(q)
      <3>0. /\ req[q].user \in User /\ req[q].start \in Time
            /\ req[q].asked \in Time /\ req[q].info \in GuildInfo
        BY <2>0, <2>3, CallShape DEF KeepGuild
      <3>1. [pc |-> "askMember", user |-> req[q].user, start |-> req[q].start,
             info |-> req[q].info] \in Call
        BY <3>0 DEF Call
      <3>2. guildCache' \in {None} \cup CachedGuild
        <4>1. req[q].asked + GuildTTL \in Nat
          BY <3>0, AccessAssumption DEF Time
        <4> QED BY <2>3, <3>0, <4>1 DEF KeepGuild, CachedGuild
      <3> QED BY <2>3, <3>1, <3>2 DEF KeepGuild, Becomes, discord
    <2>4. CASE AskMember(q)
      <3>1. req[q].user \in User /\ req[q].start \in Time /\ req[q].info \in GuildInfo
        BY <2>0, <2>4, CallShape DEF AskMember
      <3>2. Standing(req[q].user, req[q].info, roles[req[q].user]) \in Member
        BY <3>1, StandingIsMember
      <3>3. [pc |-> "keepMember", user |-> req[q].user, start |-> req[q].start,
             member |-> Standing(req[q].user, req[q].info, roles[req[q].user])] \in Call
        BY <3>1, <3>2 DEF Call
      <3> QED BY <2>4, <3>3 DEF AskMember, Becomes, discord
    <2>5. CASE KeepMember(q)
      <3>1. req[q].user \in User /\ req[q].start \in Time /\ req[q].member \in Member
        BY <2>0, <2>5, CallShape DEF KeepMember
      <3>2. [req[q] EXCEPT !.pc = "decide"] \in Call
        BY <2>0, <2>5, CallShape DEF KeepMember, Call
      <3> DEFINE e == [found |-> TRUE, member |-> req[q].member,
                       expires |-> req[q].start + MemberTTL]
      <3>3. e \in CachedMember
        BY <3>1, AccessAssumption DEF CachedMember, Time
      <3>4. [memberCache EXCEPT ![req[q].user] = e] \in [User -> {None} \cup CachedMember]
        <4> HIDE DEF e
        <4> QED BY <3>3
      <3>5. memberCache' \in [User -> {None} \cup CachedMember]
        BY <2>5, <3>1, <3>4, SweepForgets DEF KeepMember
      <3> QED BY <2>5, <3>2, <3>5 DEF KeepMember, Becomes, discord
    <2>6. CASE CallFails(q)
      BY <2>0, <2>6 DEF CallFails, Becomes, discord
    <2>7. ASSUME NEW k \in Kind, Decide(q, k)
          PROVE  TypeOK'
      <3>1. [pc |-> "configure"] \in Call
        BY DEF Call
      <3> QED BY <2>0, <2>7, <3>1 DEF Decide, Becomes, discord
    <2>8. ASSUME NEW chosen \in SUBSET Role, SetAdminRoles(q, chosen)
          PROVE  TypeOK'
      <3>1. [pc |-> "invalidate"] \in Call
        BY DEF Call
      <3> QED BY <2>8, <3>1 DEF SetAdminRoles, Becomes, discord
    <2>9. CASE Invalidate(q)
      BY <2>0, <2>9 DEF Invalidate, Becomes, discord
    <2> QED BY <1>1, <2>1, <2>2, <2>3, <2>4, <2>5, <2>6, <2>7, <2>8, <2>9, <2>10
           DEF RequestStep
  <1>2. ASSUME NEW info \in GuildInfo, GuildChanges(info)
        PROVE  TypeOK'
    <2>1. changes' \in 0 .. MaxChanges
      BY <1>2, AccessAssumption DEF GuildChanges
    <2>2. [u \in User |-> LastOwned(u)] \in [User -> Past]
      BY LastIsPast
    <2>3. [r \in Role |-> LastGranted(r)] \in [Role -> Past]
      BY LastIsPast
    <2> QED BY <1>2, <2>1, <2>2, <2>3 DEF GuildChanges
  <1>3. ASSUME NEW u \in User, NEW held \in Roles, MemberChanges(u, held)
        PROVE  TypeOK'
    <2>1. changes' \in 0 .. MaxChanges
      BY <1>3, AccessAssumption DEF MemberChanges
    <2>2. [r \in Role \cup {Everyone} |-> LastHeld(u, r)] \in [Role \cup {Everyone} -> Past]
      BY LastIsPast
    <2> QED BY <1>3, <2>1, <2>2 DEF MemberChanges
  <1>4. CASE Tick
    <2>1. now' \in Time
      BY <1>4, AccessAssumption DEF Tick, Time
    <2> QED BY <1>4, <2>1 DEF Tick, discord
  <1>5. CASE UNCHANGED vars
    BY <1>5 DEF vars, discord
  <1> QED BY <1>1, <1>2, <1>3, <1>4, <1>5 DEF Next

\* Every table holds what it should, whatever the number of users and calls.
THEOREM TypeCorrect == Spec => []TypeOK
  BY TypeOKInit, TypeOKNext, PTL DEF Spec

--------------------------------------------------------------------------------
(* When each user last owned the guild and held a role, and when each role  *)
(* last carried Administrator.                                              *)

Owned == [u \in User |-> LastOwned(u)]
Held == [u \in User |-> [r \in Role \cup {Everyone} |-> LastHeld(u, r)]]
Granted == [r \in Role |-> LastGranted(r)]

OwnedType == [User -> Int]
HeldType == [User -> [Role \cup {Everyone} -> Int]]
GrantedType == [Role -> Int]

\* What a look-up may know of the guild, and of a user with it: it was so at the
\* given time or later.
InfoSince(info, t, owned, granted) ==
    /\ info.owner \in User => owned[info.owner] >= t
    /\ \A r \in info.admins : granted[r] >= t
MemberSince(u, m, t, tGuild, owned, held, granted) ==
    /\ held[u][Everyone] >= t
    /\ m.isGuildOwner => owned[u] >= tGuild
    /\ \A r \in m.roles : held[u][r] >= t
    /\ \A r \in m.administrator : held[u][r] >= t /\ granted[r] >= tGuild

\* The history is in the past.
Ordered ==
    /\ \A u \in User : ownedAt[u] <= now
    /\ \A u \in User, r \in Role \cup {Everyone} : heldAt[u][r] <= now
    /\ \A r \in Role : grantedAt[r] <= now

CachesHold ==
    /\ guildCache.found =>
         InfoSince(guildCache.info, guildCache.expires - GuildTTL, Owned, Granted)
    /\ \A u \in User : memberCache[u].found =>
         MemberSince(u, memberCache[u].member, memberCache[u].expires - MemberTTL,
                     memberCache[u].expires - MemberTTL - GuildTTL + 1, Owned, Held, Granted)

CallHolds(c, owned, held, granted) ==
    /\ c.pc = "keepGuild" => InfoSince(c.info, c.asked, owned, granted)
    /\ c.pc = "askMember" => InfoSince(c.info, c.start - GuildTTL + 1, owned, granted)
    /\ c.pc = "keepMember" => MemberSince(c.user, c.member, c.start, c.start - GuildTTL + 1,
                                          owned, held, granted)
    /\ c.pc = "decide" => MemberSince(c.user, c.member, c.start - MemberTTL + 1,
                                      c.start - MemberTTL - GuildTTL + 2, owned, held, granted)

Started(c, time) ==
    /\ c.pc \in {"findGuild", "askGuild", "keepGuild", "askMember", "keepMember", "decide"}
         => c.start <= time
    /\ c.pc \in {"askGuild", "keepGuild"} => c.start <= c.asked /\ c.asked <= time

CallsHold == \A q \in Request : Started(req[q], now) /\ CallHolds(req[q], Owned, Held, Granted)

IInv == TypeOK /\ Ordered /\ CachesHold /\ CallsHold

LEMMA KnownTypes ==
    ASSUME TypeOK
    PROVE  Owned \in OwnedType /\ Held \in HeldType /\ Granted \in GrantedType
  <1>1. Past \subseteq Int
    BY AccessAssumption DEF Past, Time, Never
  <1>2. /\ \A u \in User : LastOwned(u) \in Int
        /\ \A u \in User, r \in Role \cup {Everyone} : LastHeld(u, r) \in Int
        /\ \A r \in Role : LastGranted(r) \in Int
    BY <1>1, LastIsPast
  <1> QED BY <1>2 DEF Owned, Held, Granted, OwnedType, HeldType, GrantedType

\* Being so earlier follows from being so later, and later knowledge keeps it.
LEMMA InfoStays ==
    ASSUME NEW info \in GuildInfo, NEW t \in Int, NEW early \in Int, early <= t,
           NEW o1 \in OwnedType, NEW o2 \in OwnedType, \A u \in User : o1[u] <= o2[u],
           NEW g1 \in GrantedType, NEW g2 \in GrantedType, \A r \in Role : g1[r] <= g2[r],
           InfoSince(info, t, o1, g1)
    PROVE  InfoSince(info, early, o2, g2)
  BY DEF InfoSince, GuildInfo, OwnedType, GrantedType

LEMMA MemberStays ==
    ASSUME NEW u \in User, NEW m \in Member,
           NEW t \in Int, NEW early \in Int, early <= t,
           NEW tGuild \in Int, NEW earlyGuild \in Int, earlyGuild <= tGuild,
           NEW o1 \in OwnedType, NEW o2 \in OwnedType, \A v \in User : o1[v] <= o2[v],
           NEW h1 \in HeldType, NEW h2 \in HeldType,
           \A v \in User, r \in Role \cup {Everyone} : h1[v][r] <= h2[v][r],
           NEW g1 \in GrantedType, NEW g2 \in GrantedType, \A r \in Role : g1[r] <= g2[r],
           MemberSince(u, m, t, tGuild, o1, h1, g1)
    PROVE  MemberSince(u, m, early, earlyGuild, o2, h2, g2)
  <1>1. /\ o1[u] \in Int /\ o2[u] \in Int
        /\ \A r \in Role \cup {Everyone} : h1[u][r] \in Int /\ h2[u][r] \in Int
        /\ \A r \in Role : g1[r] \in Int /\ g2[r] \in Int
    BY DEF OwnedType, HeldType, GrantedType
  <1>2. m.roles \subseteq Role /\ m.administrator \subseteq Role
    BY DEF Member
  <1> QED BY <1>1, <1>2 DEF MemberSince

\* What was last so lies further back with no step, and never in the future.
LEMMA OnlyYounger ==
    ASSUME TypeOK, TypeOK', Ordered, [Next]_vars
    PROVE  /\ Ordered' /\ now <= now'
           /\ \A u \in User : Owned[u] <= Owned'[u]
           /\ \A u \in User, r \in Role \cup {Everyone} : Held[u][r] <= Held'[u][r]
           /\ \A r \in Role : Granted[r] <= Granted'[r]
  <1>0. /\ now \in Int /\ \A u \in User : ownedAt[u] \in Int
        /\ \A u \in User, r \in Role \cup {Everyone} : heldAt[u][r] \in Int
        /\ \A r \in Role : grantedAt[r] \in Int
    BY AccessAssumption DEF TypeOK, Past, Time, Never
  <1>1. CASE UNCHANGED <<now, discord>>
    <2>1. /\ now' = now /\ guild' = guild /\ roles' = roles /\ ownedAt' = ownedAt
          /\ heldAt' = heldAt /\ grantedAt' = grantedAt
      BY <1>1 DEF discord
    <2> QED BY <1>0, <2>1 DEF Ordered, Owned, Held, Granted, LastOwned, LastHeld, LastGranted
  <1>2. ASSUME NEW info \in GuildInfo, GuildChanges(info)
        PROVE  /\ Ordered' /\ now <= now'
               /\ \A u \in User : Owned[u] <= Owned'[u]
               /\ \A u \in User, r \in Role \cup {Everyone} : Held[u][r] <= Held'[u][r]
               /\ \A r \in Role : Granted[r] <= Granted'[r]
    <2>1. /\ now' = now /\ roles' = roles /\ heldAt' = heldAt
          /\ \A u \in User : ownedAt'[u] = LastOwned(u)
          /\ \A r \in Role : grantedAt'[r] = LastGranted(r)
      BY <1>2 DEF GuildChanges
    <2> QED BY <1>0, <2>1 DEF Ordered, Owned, Held, Granted, LastOwned, LastHeld, LastGranted
  <1>3. ASSUME NEW v \in User, NEW held \in Roles, MemberChanges(v, held)
        PROVE  /\ Ordered' /\ now <= now'
               /\ \A u \in User : Owned[u] <= Owned'[u]
               /\ \A u \in User, r \in Role \cup {Everyone} : Held[u][r] <= Held'[u][r]
               /\ \A r \in Role : Granted[r] <= Granted'[r]
    <2>1. /\ now' = now /\ guild' = guild /\ ownedAt' = ownedAt /\ grantedAt' = grantedAt
          /\ \A r \in Role \cup {Everyone} : heldAt'[v][r] = LastHeld(v, r)
          /\ \A u \in User \ {v} : heldAt'[u] = heldAt[u] /\ roles'[u] = roles[u]
      BY <1>3 DEF MemberChanges, TypeOK
    <2> QED BY <1>0, <2>1 DEF Ordered, Owned, Held, Granted, LastOwned, LastHeld, LastGranted
  <1>4. CASE Tick
    <2>1. /\ now' = now + 1 /\ guild' = guild /\ roles' = roles /\ ownedAt' = ownedAt
          /\ heldAt' = heldAt /\ grantedAt' = grantedAt
      BY <1>4 DEF Tick, discord
    <2> QED BY <1>0, <2>1 DEF Ordered, Owned, Held, Granted, LastOwned, LastHeld, LastGranted
  <1>5. ASSUME NEW q \in Request, RequestStep(q)
        PROVE  UNCHANGED <<now, discord>>
    BY <1>5 DEF RequestStep, Begin, FindGuild, AskGuild, KeepGuild, AskMember, KeepMember, CallFails,
                Decide, SetAdminRoles, Invalidate
  <1> QED BY <1>1, <1>2, <1>3, <1>4, <1>5 DEF Next, vars

LEMMA IInvInit == Init => IInv
  <1> SUFFICES ASSUME Init
               PROVE  IInv
    OBVIOUS
  <1>1. TypeOK
    BY TypeOKInit
  <1>2. Ordered
    BY DEF Init, Ordered, Never
  <1>3. CachesHold
    BY DEF Init, CachesHold, None
  <1>4. CallsHold
    BY DEF Init, CallsHold, Started, CallHolds, Idle
  <1> QED BY <1>1, <1>2, <1>3, <1>4 DEF IInv

\* What is known before a step is known after it.
LEMMA KnownStays ==
    ASSUME TypeOK, TypeOK', Ordered, [Next]_vars
    PROVE  /\ \A info \in GuildInfo, t \in Int :
                InfoSince(info, t, Owned, Granted) => InfoSince(info, t, Owned', Granted')
           /\ \A u \in User, m \in Member, t \in Int, tGuild \in Int :
                MemberSince(u, m, t, tGuild, Owned, Held, Granted)
                  => MemberSince(u, m, t, tGuild, Owned', Held', Granted')
  <1>1. Owned \in OwnedType /\ Held \in HeldType /\ Granted \in GrantedType
    BY KnownTypes
  <1>2. (Owned \in OwnedType /\ Held \in HeldType /\ Granted \in GrantedType)'
    BY KnownTypes, PTL
  <1>3. /\ \A u \in User : Owned[u] <= Owned'[u]
        /\ \A u \in User, r \in Role \cup {Everyone} : Held[u][r] <= Held'[u][r]
        /\ \A r \in Role : Granted[r] <= Granted'[r]
    BY OnlyYounger
  <1>4. ASSUME NEW info \in GuildInfo, NEW t \in Int, InfoSince(info, t, Owned, Granted)
        PROVE  InfoSince(info, t, Owned', Granted')
    <2>1. t <= t
      OBVIOUS
    <2> QED BY <1>1, <1>2, <1>3, <1>4, <2>1, InfoStays
  <1>5. ASSUME NEW u \in User, NEW m \in Member, NEW t \in Int, NEW tGuild \in Int,
               MemberSince(u, m, t, tGuild, Owned, Held, Granted)
        PROVE  MemberSince(u, m, t, tGuild, Owned', Held', Granted')
    <2>1. t <= t /\ tGuild <= tGuild
      OBVIOUS
    <2> QED BY <1>1, <1>2, <1>3, <1>5, <2>1, MemberStays
  <1> QED BY <1>4, <1>5

\* What a cache has kept remains true.
LEMMA CachesStay ==
    ASSUME TypeOK, TypeOK', Ordered, CachesHold, [Next]_vars
    PROVE  /\ (guildCache' \in {guildCache, None} /\ guildCache'.found) =>
                InfoSince(guildCache'.info, guildCache'.expires - GuildTTL, Owned', Granted')
           /\ \A u \in User :
                (memberCache'[u] \in {memberCache[u], None} /\ memberCache'[u].found) =>
                MemberSince(u, memberCache'[u].member, memberCache'[u].expires - MemberTTL,
                            memberCache'[u].expires - MemberTTL - GuildTTL + 1,
                            Owned', Held', Granted')
  <1>1. None.found = FALSE
    BY DEF None
  <1>2. ASSUME guildCache.found
        PROVE  InfoSince(guildCache.info, guildCache.expires - GuildTTL, Owned', Granted')
    <2>1. guildCache.info \in GuildInfo /\ guildCache.expires \in Nat
      BY <1>2, CachedShape DEF TypeOK
    <2>2. InfoSince(guildCache.info, guildCache.expires - GuildTTL, Owned, Granted)
      BY <1>2 DEF CachesHold
    <2>3. guildCache.expires - GuildTTL \in Int
      BY <2>1, AccessAssumption
    <2> QED BY <2>1, <2>2, <2>3, KnownStays
  <1>3. ASSUME NEW u \in User, memberCache[u].found
        PROVE  MemberSince(u, memberCache[u].member, memberCache[u].expires - MemberTTL,
                           memberCache[u].expires - MemberTTL - GuildTTL + 1,
                           Owned', Held', Granted')
    <2>1. memberCache[u].member \in Member /\ memberCache[u].expires \in Nat
      BY <1>3, CachedShape DEF TypeOK
    <2>2. MemberSince(u, memberCache[u].member, memberCache[u].expires - MemberTTL,
                      memberCache[u].expires - MemberTTL - GuildTTL + 1, Owned, Held, Granted)
      BY <1>3 DEF CachesHold
    <2>3. /\ memberCache[u].expires - MemberTTL \in Int
          /\ memberCache[u].expires - MemberTTL - GuildTTL + 1 \in Int
      BY <2>1, AccessAssumption
    <2> QED BY <2>1, <2>2, <2>3, KnownStays
  <1> QED BY <1>1, <1>2, <1>3

\* A call that does not move keeps what it knows.
LEMMA CallStays ==
    ASSUME TypeOK, TypeOK', Ordered, [Next]_vars, NEW q \in Request,
           Started(req[q], now), CallHolds(req[q], Owned, Held, Granted)
    PROVE  Started(req[q], now') /\ CallHolds(req[q], Owned', Held', Granted')
  <1> DEFINE c == req[q]
  <1>1. c \in Call /\ now \in Int /\ now' \in Int /\ now <= now'
    <2>1. c \in Call /\ now \in Time /\ now' \in Time
      BY DEF TypeOK
    <2> QED BY <2>1, OnlyYounger, AccessAssumption DEF Time
  <1>2. GuildTTL \in Int /\ MemberTTL \in Int
    BY AccessAssumption
  <1>3. Started(c, now')
    <2>1. /\ c.pc \in {"findGuild", "askGuild", "keepGuild", "askMember", "keepMember", "decide"}
               => c.start \in Time
          /\ c.pc \in {"askGuild", "keepGuild"} => c.asked \in Time
      BY <1>1, CallShape
    <2> QED BY <1>1, <2>1 DEF Started, Time
  <1>4. c.pc = "keepGuild" => InfoSince(c.info, c.asked, Owned', Granted')
    <2> SUFFICES ASSUME c.pc = "keepGuild"
                 PROVE  InfoSince(c.info, c.asked, Owned', Granted')
      OBVIOUS
    <2>1. c.info \in GuildInfo /\ c.asked \in Int /\ InfoSince(c.info, c.asked, Owned, Granted)
      BY <1>1, CallShape DEF CallHolds, Time
    <2> QED BY <2>1, KnownStays
  <1>5. c.pc = "askMember" => InfoSince(c.info, c.start - GuildTTL + 1, Owned', Granted')
    <2> SUFFICES ASSUME c.pc = "askMember"
                 PROVE  InfoSince(c.info, c.start - GuildTTL + 1, Owned', Granted')
      OBVIOUS
    <2>1. /\ c.info \in GuildInfo /\ c.start \in Int
          /\ InfoSince(c.info, c.start - GuildTTL + 1, Owned, Granted)
      BY <1>1, CallShape DEF CallHolds, Time
    <2>2. c.start - GuildTTL + 1 \in Int
      BY <1>2, <2>1
    <2> QED BY <2>1, <2>2, KnownStays
  <1>6. c.pc = "keepMember" => MemberSince(c.user, c.member, c.start, c.start - GuildTTL + 1,
                                           Owned', Held', Granted')
    <2> SUFFICES ASSUME c.pc = "keepMember"
                 PROVE  MemberSince(c.user, c.member, c.start, c.start - GuildTTL + 1,
                                    Owned', Held', Granted')
      OBVIOUS
    <2>1. /\ c.user \in User /\ c.member \in Member /\ c.start \in Int
          /\ MemberSince(c.user, c.member, c.start, c.start - GuildTTL + 1,
                         Owned, Held, Granted)
      BY <1>1, CallShape DEF CallHolds, Time
    <2>2. c.start - GuildTTL + 1 \in Int
      BY <1>2, <2>1
    <2> QED BY <2>1, <2>2, KnownStays
  <1>7. c.pc = "decide" => MemberSince(c.user, c.member, c.start - MemberTTL + 1,
                                       c.start - MemberTTL - GuildTTL + 2,
                                       Owned', Held', Granted')
    <2> SUFFICES ASSUME c.pc = "decide"
                 PROVE  MemberSince(c.user, c.member, c.start - MemberTTL + 1,
                                    c.start - MemberTTL - GuildTTL + 2,
                                    Owned', Held', Granted')
      OBVIOUS
    <2>1. /\ c.user \in User /\ c.member \in Member /\ c.start \in Int
          /\ MemberSince(c.user, c.member, c.start - MemberTTL + 1,
                         c.start - MemberTTL - GuildTTL + 2, Owned, Held, Granted)
      BY <1>1, CallShape DEF CallHolds, Time
    <2>2. c.start - MemberTTL + 1 \in Int /\ c.start - MemberTTL - GuildTTL + 2 \in Int
      BY <1>2, <2>1
    <2> QED BY <2>1, <2>2, KnownStays
  <1> QED BY <1>3, <1>4, <1>5, <1>6, <1>7 DEF CallHolds

\* A request that knows something of the guild knows it of a member, then.
LEMMA StandingSince ==
    ASSUME TypeOK, Ordered, NEW u \in User, Everyone \in roles[u],
           NEW info \in GuildInfo, NEW t \in Int, t <= now, NEW tGuild \in Int,
           InfoSince(info, tGuild, Owned, Granted)
    PROVE  MemberSince(u, Standing(u, info, roles[u]), t, tGuild, Owned, Held, Granted)
  <1>1. \A r \in roles[u] : r \in Role \cup {Everyone} /\ Held[u][r] = now
    BY DEF TypeOK, Roles, Held, LastHeld
  <1>2. now \in Int
    BY AccessAssumption DEF TypeOK, Time
  <1> QED BY <1>1, <1>2 DEF MemberSince, Standing, InfoSince, GuildInfo

\* Knowing it until later is knowing it until earlier.
LEMMA Earlier ==
    ASSUME TypeOK
    PROVE  /\ \A info \in GuildInfo, t, early \in Int :
                early <= t /\ InfoSince(info, t, Owned, Granted)
                  => InfoSince(info, early, Owned, Granted)
           /\ \A u \in User, m \in Member, t, early, tGuild, earlyGuild \in Int :
                /\ early <= t /\ earlyGuild <= tGuild
                /\ MemberSince(u, m, t, tGuild, Owned, Held, Granted)
                => MemberSince(u, m, early, earlyGuild, Owned, Held, Granted)
  <1>1. Owned \in OwnedType /\ Held \in HeldType /\ Granted \in GrantedType
    BY KnownTypes
  <1>2. /\ \A u \in User : Owned[u] <= Owned[u]
        /\ \A u \in User, r \in Role \cup {Everyone} : Held[u][r] <= Held[u][r]
        /\ \A r \in Role : Granted[r] <= Granted[r]
    BY <1>1 DEF OwnedType, HeldType, GrantedType
  <1>3. ASSUME NEW info \in GuildInfo, NEW t \in Int, NEW early \in Int, early <= t,
               InfoSince(info, t, Owned, Granted)
        PROVE  InfoSince(info, early, Owned, Granted)
    BY <1>1, <1>2, <1>3, InfoStays
  <1>4. ASSUME NEW u \in User, NEW m \in Member, NEW t \in Int, NEW early \in Int,
               NEW tGuild \in Int, NEW earlyGuild \in Int, early <= t, earlyGuild <= tGuild,
               MemberSince(u, m, t, tGuild, Owned, Held, Granted)
        PROVE  MemberSince(u, m, early, earlyGuild, Owned, Held, Granted)
    BY <1>1, <1>2, <1>4, MemberStays
  <1> QED BY <1>3, <1>4

\* Where a call stands after its own step.
LEMMA StepHolds ==
    ASSUME IInv, NEW q \in Request, RequestStep(q)
    PROVE  Started(req'[q], now) /\ CallHolds(req'[q], Owned, Held, Granted)
  <1> DEFINE c == req[q]
             d == req'[q]
  <1>0. /\ c \in Call /\ now \in Time /\ now \in Int
        /\ Started(c, now) /\ CallHolds(c, Owned, Held, Granted)
        /\ GuildTTL \in Int /\ MemberTTL \in Int /\ GuildTTL >= 1 /\ MemberTTL >= 1
        /\ TypeOK /\ Ordered
    <2>1. TypeOK /\ Ordered /\ Started(c, now) /\ CallHolds(c, Owned, Held, Granted)
      BY DEF IInv, CallsHold
    <2>2. c \in Call /\ now \in Time
      BY <2>1 DEF TypeOK
    <2>3. now \in Int /\ GuildTTL \in Int /\ MemberTTL \in Int /\ GuildTTL >= 1 /\ MemberTTL >= 1
      BY <2>2, AccessAssumption DEF Time
    <2> QED BY <2>1, <2>2, <2>3
  <1>1. ASSUME NEW u \in User, Begin(q, u)
        PROVE  Started(d, now) /\ CallHolds(d, Owned, Held, Granted)
    <2>1. CASE Fresh(memberCache[u])
      <3> DEFINE e == memberCache[u]
      <3>1. d = [pc |-> "decide", user |-> u, start |-> now, member |-> e.member]
        BY <1>0, <1>1, <2>1 DEF Begin, Becomes, TypeOK
      <3>2. e.found /\ e.expires > now /\ e.member \in Member /\ e.expires \in Int
        BY <1>0, <2>1, CachedShape DEF Fresh, TypeOK
      <3>3. MemberSince(u, e.member, e.expires - MemberTTL,
                        e.expires - MemberTTL - GuildTTL + 1, Owned, Held, Granted)
        BY <3>2 DEF IInv, CachesHold
      <3>4. /\ e.expires - MemberTTL \in Int /\ now - MemberTTL + 1 \in Int
            /\ e.expires - MemberTTL - GuildTTL + 1 \in Int
            /\ now - MemberTTL - GuildTTL + 2 \in Int
            /\ now - MemberTTL + 1 <= e.expires - MemberTTL
            /\ now - MemberTTL - GuildTTL + 2 <= e.expires - MemberTTL - GuildTTL + 1
        BY <1>0, <3>2
      <3>5. MemberSince(u, e.member, now - MemberTTL + 1, now - MemberTTL - GuildTTL + 2,
                        Owned, Held, Granted)
        BY <1>0, <3>2, <3>3, <3>4, Earlier
      <3>6. /\ d.pc = "decide" /\ d.user = u /\ d.member = e.member /\ d.start = now
        BY <3>1
      <3> QED BY <1>0, <3>5, <3>6 DEF Started, CallHolds
    <2>2. CASE ~Fresh(memberCache[u])
      <3>1. d = [pc |-> "findGuild", user |-> u, start |-> now]
        BY <1>0, <1>1, <2>2 DEF Begin, Becomes, TypeOK
      <3> QED BY <1>0, <3>1 DEF Started, CallHolds
    <2> QED BY <2>1, <2>2
  <1>11. CASE FindGuild(q)
    <2>0. c.start \in Int /\ c.start <= now
      BY <1>0, <1>11, CallShape DEF FindGuild, Started, Time
    <2>1. CASE Fresh(guildCache)
      <3> DEFINE e == guildCache
      <3>1. d = [pc |-> "askMember", user |-> c.user, start |-> c.start, info |-> e.info]
        BY <1>0, <1>11, <2>1 DEF FindGuild, Becomes, TypeOK
      <3>2. e.found /\ e.expires > now /\ e.info \in GuildInfo /\ e.expires \in Int
        BY <1>0, <2>1, CachedShape DEF Fresh, TypeOK
      <3>3. InfoSince(e.info, e.expires - GuildTTL, Owned, Granted)
        BY <3>2 DEF IInv, CachesHold
      <3>4. /\ e.expires - GuildTTL \in Int /\ c.start - GuildTTL + 1 \in Int
            /\ c.start - GuildTTL + 1 <= e.expires - GuildTTL
        BY <1>0, <2>0, <3>2
      <3>5. InfoSince(e.info, c.start - GuildTTL + 1, Owned, Granted)
        BY <1>0, <3>2, <3>3, <3>4, Earlier
      <3>6. d.pc = "askMember" /\ d.start = c.start /\ d.info = e.info
        BY <3>1
      <3> QED BY <2>0, <3>5, <3>6 DEF Started, CallHolds
    <2>2. CASE ~Fresh(guildCache)
      <3>1. d = [pc |-> "askGuild", user |-> c.user, start |-> c.start, asked |-> now]
        BY <1>0, <1>11, <2>2 DEF FindGuild, Becomes, TypeOK
      <3>2. d.pc = "askGuild" /\ d.start = c.start /\ d.asked = now
        BY <3>1
      <3> QED BY <1>0, <2>0, <3>2 DEF Started, CallHolds
    <2> QED BY <2>1, <2>2
  <1>2. CASE AskGuild(q)
    <2>1. /\ d = [pc |-> "keepGuild", user |-> c.user, start |-> c.start, asked |-> c.asked,
                  info |-> guild]
          /\ c.pc = "askGuild"
      BY <1>0, <1>2 DEF AskGuild, Becomes, TypeOK
    <2>2. d.pc = "keepGuild" /\ d.start = c.start /\ d.asked = c.asked /\ d.info = guild
      BY <2>1
    <2>3. c.start <= now /\ c.start <= c.asked /\ c.asked \in Int /\ c.asked <= now
      BY <1>0, <2>1, CallShape DEF Started, Time
    <2>4. InfoSince(guild, c.asked, Owned, Granted)
      BY <1>0, <2>3 DEF InfoSince, Owned, Granted, LastOwned, LastGranted, TypeOK, GuildInfo
    <2> QED BY <2>2, <2>3, <2>4 DEF Started, CallHolds
  <1>3. CASE KeepGuild(q)
    <2>1. /\ d = [pc |-> "askMember", user |-> c.user, start |-> c.start, info |-> c.info]
          /\ c.pc = "keepGuild"
      BY <1>0, <1>3 DEF KeepGuild, Becomes, TypeOK
    <2>2. /\ c.start \in Int /\ c.start <= now /\ c.info \in GuildInfo
          /\ c.asked \in Int /\ c.start <= c.asked
      BY <1>0, <2>1, CallShape DEF Started, Time
    <2>3. d.pc = "askMember" /\ d.start = c.start /\ d.info = c.info
      BY <2>1
    <2>4. InfoSince(c.info, c.asked, Owned, Granted)
      BY <1>0, <2>1 DEF CallHolds
    <2>5. c.start - GuildTTL + 1 \in Int /\ c.start - GuildTTL + 1 <= c.asked
      BY <1>0, <2>2
    <2>6. InfoSince(c.info, c.start - GuildTTL + 1, Owned, Granted)
      BY <1>0, <2>2, <2>4, <2>5, Earlier
    <2> QED BY <2>2, <2>3, <2>6 DEF Started, CallHolds
  <1>4. CASE AskMember(q)
    <2> DEFINE m == Standing(c.user, c.info, roles[c.user])
    <2>1. /\ d = [pc |-> "keepMember", user |-> c.user, start |-> c.start, member |-> m]
          /\ c.pc = "askMember" /\ Everyone \in roles[c.user]
      BY <1>0, <1>4 DEF AskMember, Becomes, TypeOK
    <2>2. c.start \in Int /\ c.start <= now /\ c.info \in GuildInfo /\ c.user \in User
      BY <1>0, <2>1, CallShape DEF Started, Time
    <2>3. d.pc = "keepMember" /\ d.start = c.start /\ d.user = c.user /\ d.member = m
      BY <2>1
    <2>4. InfoSince(c.info, c.start - GuildTTL + 1, Owned, Granted)
      BY <1>0, <2>1 DEF CallHolds
    <2>5. c.start - GuildTTL + 1 \in Int
      BY <1>0, <2>2
    <2>6. MemberSince(c.user, m, c.start, c.start - GuildTTL + 1, Owned, Held, Granted)
      <3> HIDE DEF c
      <3> QED BY <1>0, <2>1, <2>2, <2>4, <2>5, StandingSince
    <2> HIDE DEF m
    <2> QED BY <2>2, <2>3, <2>6 DEF Started, CallHolds
  <1>5. CASE KeepMember(q)
    <2>1. /\ d = [pc |-> "decide", user |-> c.user, start |-> c.start, member |-> c.member]
          /\ c.pc = "keepMember"
      BY <1>0, <1>5, MovedOn DEF KeepMember, Becomes, TypeOK
    <2>2. c.start \in Int /\ c.start <= now /\ c.member \in Member /\ c.user \in User
      BY <1>0, <2>1, CallShape DEF Started, Time
    <2>3. d.pc = "decide" /\ d.start = c.start /\ d.user = c.user /\ d.member = c.member
      BY <2>1
    <2>4. MemberSince(c.user, c.member, c.start, c.start - GuildTTL + 1, Owned, Held, Granted)
      BY <1>0, <2>1 DEF CallHolds
    <2>5. /\ c.start - GuildTTL + 1 \in Int /\ c.start - MemberTTL + 1 \in Int
          /\ c.start - MemberTTL - GuildTTL + 2 \in Int
          /\ c.start - MemberTTL + 1 <= c.start
          /\ c.start - MemberTTL - GuildTTL + 2 <= c.start - GuildTTL + 1
      BY <1>0, <2>2
    <2>6. MemberSince(c.user, c.member, c.start - MemberTTL + 1,
                      c.start - MemberTTL - GuildTTL + 2, Owned, Held, Granted)
      <3> HIDE DEF c
      <3> QED BY <1>0, <2>2, <2>4, <2>5, Earlier
    <2> QED BY <2>2, <2>3, <2>6 DEF Started, CallHolds
  <1>6. ASSUME d.pc \in {"idle", "configure", "invalidate"}
        PROVE  Started(d, now) /\ CallHolds(d, Owned, Held, Granted)
    BY <1>6 DEF Started, CallHolds
  <1>7. CASE CallFails(q)
    BY <1>0, <1>6, <1>7 DEF CallFails, Becomes, Idle, TypeOK
  <1>8. ASSUME NEW k \in Kind, Decide(q, k)
        PROVE  Started(d, now) /\ CallHolds(d, Owned, Held, Granted)
    BY <1>0, <1>6, <1>8 DEF Decide, Becomes, Idle, TypeOK
  <1>9. ASSUME NEW chosen \in SUBSET Role, SetAdminRoles(q, chosen)
        PROVE  Started(d, now) /\ CallHolds(d, Owned, Held, Granted)
    BY <1>0, <1>6, <1>9 DEF SetAdminRoles, Becomes, TypeOK
  <1>10. CASE Invalidate(q)
    BY <1>0, <1>6, <1>10 DEF Invalidate, Becomes, Idle, TypeOK
  <1> QED BY <1>1, <1>2, <1>3, <1>4, <1>5, <1>7, <1>8, <1>9, <1>10, <1>11
         DEF RequestStep

\* What a step has put into a cache is as old as its expiry says.
LEMMA StepKeeps ==
    ASSUME IInv, NEW q \in Request, RequestStep(q)
    PROVE  CachesHold'
  <1> DEFINE c == req[q]
  <1>0. /\ c \in Call /\ TypeOK /\ TypeOK' /\ Ordered /\ [Next]_vars /\ CachesHold
        /\ CallHolds(c, Owned, Held, Granted)
        /\ GuildTTL \in Int /\ MemberTTL \in Int
    <2>1. /\ TypeOK /\ Ordered /\ CachesHold /\ CallHolds(c, Owned, Held, Granted)
          /\ [Next]_vars
      BY DEF IInv, CallsHold, Next
    <2>2. TypeOK' /\ c \in Call
      BY <2>1, TypeOKNext DEF TypeOK
    <2> QED BY <2>1, <2>2, AccessAssumption
  <1>1. CASE KeepGuild(q)
    <2>1. /\ guildCache' = [found |-> TRUE, info |-> c.info, expires |-> c.asked + GuildTTL]
          /\ memberCache' = memberCache /\ c.pc = "keepGuild"
      BY <1>1 DEF KeepGuild
    <2>2. c.info \in GuildInfo /\ c.asked \in Int
      BY <1>0, <2>1, CallShape DEF Time
    <2>3. guildCache'.info = c.info /\ guildCache'.expires - GuildTTL = c.asked
      BY <1>0, <2>1, <2>2
    <2>4. InfoSince(c.info, c.asked, Owned', Granted')
      BY <1>0, <2>1, <2>2, KnownStays DEF CallHolds
    <2> QED BY <1>0, <2>1, <2>3, <2>4, CachesStay DEF CachesHold
  <1>2. CASE KeepMember(q)
    <2> DEFINE e == [found |-> TRUE, member |-> c.member, expires |-> c.start + MemberTTL]
               cache == [memberCache EXCEPT ![c.user] = e]
    <2>1. /\ guildCache' = guildCache /\ c.pc = "keepMember"
          /\ memberCache' = Sweep(cache, c.start)
      BY <1>2 DEF KeepMember
    <2>2. c.member \in Member /\ c.start \in Time /\ c.start \in Int /\ c.user \in User
      BY <1>0, <2>1, CallShape DEF Time
    <2>3. e \in CachedMember
      BY <2>2, AccessAssumption DEF CachedMember, Time
    <2>4. /\ cache \in [User -> {None} \cup CachedMember]
          /\ cache[c.user] = e /\ \A u \in User \ {c.user} : cache[u] = memberCache[u]
      <3> HIDE DEF e, c
      <3> QED BY <1>0, <2>2, <2>3 DEF TypeOK
    <2>5. \A u \in User : memberCache'[u] \in {None, cache[u]}
      <3> HIDE DEF cache
      <3> QED BY <2>1, <2>2, <2>4, SweepForgets
    <2>6. /\ e.found /\ e.member = c.member /\ e.expires - MemberTTL = c.start
          /\ e.expires - MemberTTL - GuildTTL + 1 = c.start - GuildTTL + 1
      BY <1>0, <2>2
    <2>7. MemberSince(c.user, c.member, c.start, c.start - GuildTTL + 1, Owned', Held', Granted')
      <3>1. c.start - GuildTTL + 1 \in Int
        BY <1>0, <2>2
      <3> QED BY <1>0, <2>1, <2>2, <3>1, KnownStays DEF CallHolds
    <2>8. None.found = FALSE
      BY DEF None
    <2>9. ASSUME NEW u \in User, memberCache'[u].found
          PROVE  MemberSince(u, memberCache'[u].member, memberCache'[u].expires - MemberTTL,
                             memberCache'[u].expires - MemberTTL - GuildTTL + 1,
                             Owned', Held', Granted')
      <3>1. memberCache'[u] = cache[u]
        BY <2>5, <2>8, <2>9
      <3>2. CASE u = c.user
        BY <2>4, <2>6, <2>7, <3>1, <3>2
      <3>3. CASE u # c.user
        BY <1>0, <2>4, <2>9, <3>1, <3>3, CachesStay
      <3> QED BY <3>2, <3>3
    <2>10. guildCache'.found =>
             InfoSince(guildCache'.info, guildCache'.expires - GuildTTL, Owned', Granted')
      BY <1>0, <2>1, CachesStay
    <2> QED BY <2>9, <2>10 DEF CachesHold
  <1>3. CASE Invalidate(q)
    BY <1>3 DEF Invalidate, CachesHold, None
  <1>4. CASE UNCHANGED <<guildCache, memberCache>>
    BY <1>0, <1>4, CachesStay DEF CachesHold
  <1>5. KeepGuild(q) \/ KeepMember(q) \/ Invalidate(q) \/ UNCHANGED <<guildCache, memberCache>>
    BY DEF RequestStep, Begin, FindGuild, AskGuild, AskMember, CallFails, Decide, SetAdminRoles
  <1> QED BY <1>1, <1>2, <1>3, <1>4, <1>5

LEMMA IInvNext == IInv /\ [Next]_vars => IInv'
  <1> SUFFICES ASSUME IInv, [Next]_vars
               PROVE  IInv'
    OBVIOUS
  <1>1. TypeOK /\ Ordered /\ CachesHold /\ CallsHold
    BY DEF IInv
  <1>2. TypeOK'
    BY <1>1, TypeOKNext
  <1>3. Ordered'
    BY <1>1, <1>2, OnlyYounger
  <1>4. \A p \in Request : Started(req[p], now') /\ CallHolds(req[p], Owned', Held', Granted')
    BY <1>1, <1>2, CallStays DEF CallsHold
  <1>5. ASSUME NEW q \in Request, RequestStep(q)
        PROVE  CachesHold' /\ CallsHold'
    <2>1. UNCHANGED <<now, discord>> /\ \A p \in Request \ {q} : req'[p] = req[p]
      BY <1>1, <1>5 DEF TypeOK, RequestStep, Begin, FindGuild, AskGuild, KeepGuild, AskMember, KeepMember,
                        CallFails, Decide, SetAdminRoles, Invalidate, Becomes
    <2>2. Owned' = Owned /\ Held' = Held /\ Granted' = Granted /\ now' = now
      BY <2>1 DEF discord, Owned, Held, Granted, LastOwned, LastHeld, LastGranted
    <2>3. Started(req'[q], now') /\ CallHolds(req'[q], Owned', Held', Granted')
      BY <1>5, <2>2, StepHolds
    <2>4. CallsHold'
      BY <1>4, <2>1, <2>3 DEF CallsHold
    <2>5. CachesHold'
      BY <1>5, StepKeeps
    <2> QED BY <2>4, <2>5
  <1>6. ASSUME UNCHANGED <<guildCache, memberCache, req>>
        PROVE  CachesHold' /\ CallsHold'
    <2>1. CachesHold'
      BY <1>1, <1>2, <1>6, CachesStay DEF CachesHold
    <2>2. CallsHold'
      BY <1>4, <1>6 DEF CallsHold
    <2> QED BY <2>1, <2>2
  <1>7. (\E q \in Request : RequestStep(q)) \/ UNCHANGED <<guildCache, memberCache, req>>
    BY DEF Next, vars, GuildChanges, MemberChanges, Tick
  <1>8. CachesHold' /\ CallsHold'
    BY <1>5, <1>6, <1>7
  <1> QED BY <1>2, <1>3, <1>8 DEF IInv

LEMMA IInvAlways == Spec => []IInv
  BY IInvInit, IInvNext, PTL DEF Spec

--------------------------------------------------------------------------------
\* A cached member that still counts was so in Discord within the TTLs, whatever
\* look-ups and invalidations have come between.
THEOREM CacheAlwaysRecent == Spec => []CacheIsRecent
  <1>1. IInv => CacheIsRecent
    <2> SUFFICES ASSUME IInv, NEW u \in User, Fresh(memberCache[u])
                 PROVE  LET m == memberCache[u].member
                        IN  /\ WasMember(u, now)
                            /\ m.isGuildOwner => WasOwner(u, now)
                            /\ \A r \in m.roles : WasHeld(u, r, now)
                            /\ \A r \in m.administrator : WasHeld(u, r, now) /\ WasGranted(r, now)
      BY DEF CacheIsRecent
    <2> DEFINE e == memberCache[u]
    <2>1. TypeOK /\ CachesHold
      BY DEF IInv
    <2>2. /\ e.found /\ e.expires > now /\ e.member \in Member /\ e.expires \in Int
          /\ now \in Int /\ GuildTTL \in Int /\ MemberTTL \in Int
      BY <2>1, CachedShape, AccessAssumption DEF Fresh, TypeOK, Time
    <2>3. MemberSince(u, e.member, e.expires - MemberTTL,
                      e.expires - MemberTTL - GuildTTL + 1, Owned, Held, Granted)
      BY <2>1, <2>2 DEF CachesHold
    <2>4. /\ Owned \in OwnedType /\ Held \in HeldType /\ Granted \in GrantedType
          /\ e.member.roles \subseteq Role /\ e.member.administrator \subseteq Role
      BY <2>1, <2>2, KnownTypes DEF Member
    <2>5. /\ Owned[u] = LastOwned(u)
          /\ \A r \in Role \cup {Everyone} : Held[u][r] = LastHeld(u, r)
          /\ \A r \in Role : Granted[r] = LastGranted(r)
      BY DEF Owned, Held, Granted
    <2>6. /\ LastOwned(u) \in Int /\ \A r \in Role \cup {Everyone} : LastHeld(u, r) \in Int
          /\ \A r \in Role : LastGranted(r) \in Int
      BY <2>4, <2>5 DEF OwnedType, HeldType, GrantedType
    <2> HIDE DEF e
    <2>7. /\ WasMember(u, now)
          /\ e.member.isGuildOwner => WasOwner(u, now)
          /\ \A r \in e.member.roles : WasHeld(u, r, now)
          /\ \A r \in e.member.administrator : WasHeld(u, r, now) /\ WasGranted(r, now)
      BY <2>2, <2>3, <2>4, <2>5, <2>6 DEF MemberSince, WasMember, WasOwner, WasHeld, WasGranted
    <2> QED BY <2>7 DEF e
  <1> QED BY <1>1, IInvAlways, PTL

\* Nobody is let through on a standing lost longer than the TTLs before the check
\* started; a role taken out by /setup stops counting at once.
THEOREM NobodyOnOldGrounds == Spec => AllowedOnRecentGrounds
  <1>1. ASSUME IInv, NEW q \in Request, NEW k \in Kind,
               Decide(q, k), Qualifies(k, req[q].member, configured)
        PROVE  Grounds(k, req[q].user, req[q].start)
    <2> DEFINE c == req[q]
               m == req[q].member
               u == req[q].user
    <2>1. TypeOK /\ CallHolds(c, Owned, Held, Granted) /\ c.pc = "decide" /\ c \in Call
      BY <1>1 DEF IInv, CallsHold, Decide, TypeOK
    <2>2. /\ u \in User /\ m \in Member /\ c.start \in Int
          /\ GuildTTL \in Int /\ MemberTTL \in Int
      BY <2>1, CallShape, AccessAssumption DEF Time
    <2>3. MemberSince(u, m, c.start - MemberTTL + 1, c.start - MemberTTL - GuildTTL + 2,
                      Owned, Held, Granted)
      BY <2>1 DEF CallHolds
    <2>4. /\ Owned \in OwnedType /\ Held \in HeldType /\ Granted \in GrantedType
          /\ m.roles \subseteq Role /\ m.administrator \subseteq Role
      BY <2>1, <2>2, KnownTypes DEF Member
    <2>5. /\ Owned[u] = LastOwned(u)
          /\ \A r \in Role \cup {Everyone} : Held[u][r] = LastHeld(u, r)
          /\ \A r \in Role : Granted[r] = LastGranted(r)
      BY <2>2 DEF Owned, Held, Granted
    <2>6. /\ LastOwned(u) \in Int /\ \A r \in Role \cup {Everyone} : LastHeld(u, r) \in Int
          /\ \A r \in Role : LastGranted(r) \in Int
      BY <2>2, <2>4, <2>5 DEF OwnedType, HeldType, GrantedType
    <2>7. Qualifies(k, m, configured)
      BY <1>1
    <2> HIDE DEF c, m, u
    <2>8. /\ WasMember(u, c.start)
          /\ m.isGuildOwner => WasOwner(u, c.start)
          /\ \A r \in m.roles : WasHeld(u, r, c.start)
          /\ \A r \in m.administrator : WasHeld(u, r, c.start) /\ WasGranted(r, c.start)
      BY <2>2, <2>3, <2>4, <2>5, <2>6 DEF MemberSince, WasMember, WasOwner, WasHeld, WasGranted
    <2>9. Grounds(k, u, c.start)
      BY <2>4, <2>7, <2>8 DEF Grounds, Qualifies, Kind, IsBingoAdmin,
                              RequireDiscordAdministrator
    <2> QED BY <2>9 DEF c, u
  <1>2. IInv => \A q \in Request, k \in Kind :
                  Decide(q, k) /\ Qualifies(k, req[q].member, configured)
                    => Grounds(k, req[q].user, req[q].start)
    BY <1>1
  <1> QED BY <1>2, IInvAlways, PTL DEF AllowedOnRecentGrounds
================================================================================
