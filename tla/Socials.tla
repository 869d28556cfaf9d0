------------------------------- MODULE Socials -------------------------------
(***************************************************************************)
(* The connections of creators to social platforms, the columns of users   *)
(* that repeat their followers, and the tier that follows from them.  A    *)
(* request writes the connection first, then reads all connections of the  *)
(* user and writes columns and tier from what it read; requests of one     *)
(* user and Meta's callbacks run side by side, and two endpoints that are  *)
(* older than the connections write the columns directly.                  *)
(***************************************************************************)
EXTENDS Integers, FiniteSetsExt

CONSTANTS
    Users,          \* users of the application
    Platforms,      \* the platforms that are used
    Handles,        \* accounts at each platform
    Counts,         \* follower counts that a platform may report
    Calls,          \* requests handled at one time
    MaxRequests,    \* bound: requests
    MaxCuts         \* bound: requests whose process is killed

SocialPlatform == {"instagram", "tiktok", "youtube", "twitter", "facebook"}
Meta == {"instagram", "facebook"}

ASSUME SocialsConstants ==
    /\ Platforms \subseteq SocialPlatform /\ Counts \subseteq Nat
    /\ MaxRequests \in Nat /\ MaxCuts \in Nat

VARIABLES
    conns,      \* social_connections: of each user and platform the row, its handle
                \* and followers, NoConn if there is none
    columns,    \* users.<platform>Followers
    tier,       \* users.assignedTier, 0 before the first
    identity,   \* the Meta account with which the user signs in, if any
    minimum,    \* social_platform_settings: followers needed to connect
    request,    \* each request: the step it is about to take, and its locals
    synced,     \* history: users whose columns were written last by a request that
                \* had no other of the user beside it
    begun, cuts

socialBounds == <<begun, cuts>>
socialVars == <<conns, columns, tier, identity, minimum, request, synced, socialBounds>>

NoConn == [row |-> 0, handle |-> "none", count |-> 0]
NoHandle == "none"
NoCall == [at |-> "idle", kind |-> "none", user |-> "none", platform |-> "none",
           conn |-> NoConn, count |-> 0, read |-> [p \in Platforms |-> NoConn], alone |-> TRUE]

\* The ladder of the tiers, numbered from Nano.
ComputeTier(followers) ==
    CHOOSE t \in 1..4 : /\ t > 1 => followers >= <<0, 10000, 200000, 1000000>>[t]
                        /\ t < 4 => followers < <<10000, 200000, 1000000>>[t]

MaxFollowers(f) == Max({f[p] : p \in DOMAIN f} \cup {0})

InitSocials ==
    /\ conns = [u \in Users |-> [p \in Platforms |-> NoConn]]
    /\ columns = [u \in Users |-> [p \in Platforms |-> 0]]
    /\ tier = [u \in Users |-> 0]
    /\ \E u \in Users, h \in Handles :
         identity \in {[w \in Users |-> NoHandle], [w \in Users |-> IF w = u THEN h ELSE NoHandle]}
    /\ minimum \in Counts
    /\ request = [c \in Calls |-> NoCall]
    /\ synced = {} /\ begun = 0 /\ cuts = 0

Under(u) == {c \in Calls : request[c].at # "idle" /\ request[c].user = u}

\* A request of a user is alone if no other of that user overlaps it.
Begin(c, locals) ==
    /\ request[c].at = "idle" /\ begun < MaxRequests /\ begun' = begun + 1
    /\ request' = [d \in Calls |->
         IF d = c THEN [locals EXCEPT !.alone = Under(locals.user) = {}]
         ELSE IF d \in Under(locals.user) THEN [request[d] EXCEPT !.alone = FALSE] ELSE request[d]]
    /\ synced' = synced \ {locals.user}
    /\ UNCHANGED <<conns, columns, tier, identity, minimum, cuts>>

GoOn(c, at) == request' = [request EXCEPT ![c].at = at]
Done(c) == request' = [request EXCEPT ![c] = NoCall]

Owners(p, h) == {u \in Users : conns[u][p].handle = h}

\* The process is killed, or the database or a platform fails.
Cut(c) ==
    /\ request[c].at # "idle" /\ cuts < MaxCuts /\ cuts' = cuts + 1 /\ Done(c)
    /\ UNCHANGED <<conns, columns, tier, identity, minimum, synced, begun>>

-----------------------------------------------------------------------------
(* Connect, refresh and disconnect.                                        *)

\* The account at the platform is nobody else's and has the followers.
Connect(c, u, p) ==
    \E h \in Handles, n \in Counts :
        /\ Owners(p, h) \subseteq {u} /\ n >= minimum
        /\ Begin(c, [NoCall EXCEPT !.at = "upsert", !.kind = "connect", !.user = u, !.platform = p,
                                   !.conn = [row |-> begun + 1, handle |-> h, count |-> n]])

\* The row is made, or the one that is there is updated; the unique index refuses an
\* account that another user has connected meanwhile.
Upsert(c) ==
    LET me == request[c]
        old == conns[me.user][me.platform]
        new == IF old = NoConn THEN me.conn ELSE [me.conn EXCEPT !.row = old.row]
    IN  /\ me.at = "upsert"
        /\ \/ /\ Owners(me.platform, me.conn.handle) \subseteq {me.user}
              /\ conns' = [conns EXCEPT ![me.user][me.platform] = new] /\ GoOn(c, "read")
           \/ /\ ~(Owners(me.platform, me.conn.handle) \subseteq {me.user})
              /\ Done(c) /\ UNCHANGED conns
        /\ UNCHANGED <<columns, tier, identity, minimum, synced, socialBounds>>

\* A connection is read, and its account is asked for its followers.
Refresh(c, u, p) ==
    \E n \in Counts :
        /\ conns[u][p] # NoConn
        /\ Begin(c, [NoCall EXCEPT !.at = "restat", !.kind = "refresh", !.user = u,
                                   !.platform = p, !.conn = conns[u][p], !.count = n])

\* What differs from what was read is written to that row, if it is still there.
UpdateStats(c) ==
    LET me == request[c]
        same == conns[me.user][me.platform].row = me.conn.row /\ me.count # me.conn.count
    IN  /\ me.at = "restat" /\ GoOn(c, "read")
        /\ conns' = IF same THEN [conns EXCEPT ![me.user][me.platform].count = me.count] ELSE conns
        /\ UNCHANGED <<columns, tier, identity, minimum, synced, socialBounds>>

Disconnect(c, u, p, kind) ==
    Begin(c, [NoCall EXCEPT !.at = "remove", !.kind = kind, !.user = u, !.platform = p])

RemoveByUserAndPlatform(c) ==
    LET me == request[c]
    IN  /\ me.at = "remove" /\ GoOn(c, "read")
        /\ conns' = [conns EXCEPT ![me.user][me.platform] = NoConn]
        /\ UNCHANGED <<columns, tier, identity, minimum, synced, socialBounds>>

-----------------------------------------------------------------------------
(* syncUserAndTier.                                                        *)

ReadConnections(c) ==
    /\ request[c].at = "read"
    /\ request' = [request EXCEPT ![c].at = "write", ![c].read = conns[request[c].user]]
    /\ UNCHANGED <<conns, columns, tier, identity, minimum, synced, socialBounds>>

\* Mutant of SyncUserAndTier: the tier is that of the platform at hand.
SyncAndTierOfOne(c) ==
    LET me == request[c]
    IN  /\ me.at = "write" /\ me.kind # "deletion" /\ Done(c)
        /\ columns' = [columns EXCEPT ![me.user] = [p \in Platforms |-> me.read[p].count]]
        /\ tier' = [tier EXCEPT ![me.user] = ComputeTier(me.read[me.platform].count)]
        /\ synced' = IF me.alone THEN synced \cup {me.user} ELSE synced
        /\ UNCHANGED <<conns, identity, minimum, socialBounds>>

SyncUserAndTier(c) ==
    LET me == request[c]
        followers == [p \in Platforms |-> me.read[p].count]
    IN  /\ me.at = "write"
        /\ columns' = [columns EXCEPT ![me.user] = followers]
        /\ tier' = [tier EXCEPT ![me.user] = ComputeTier(MaxFollowers(followers))]
        /\ synced' = IF me.alone THEN synced \cup {me.user} ELSE synced
        /\ IF me.kind = "deletion" THEN GoOn(c, "erase") ELSE Done(c)
        /\ UNCHANGED <<conns, identity, minimum, socialBounds>>

-----------------------------------------------------------------------------
(* Meta's callbacks, and the older endpoints.                              *)

\* The user who has connected the account, else the one who signs in with it.
FindUserOf(p, h) ==
    IF Owners(p, h) # {} THEN Owners(p, h) ELSE {u \in Users : identity[u] = h}

HandleDeauthorize(c, p) ==
    \E h \in Handles : \E u \in FindUserOf(p, h) : Disconnect(c, u, p, "deauthorize")

HandleDataDeletion(c, p) ==
    \E h \in Handles : \E u \in FindUserOf(p, h) : Disconnect(c, u, p, "deletion")

\* After the disconnection the identity goes, and the column once more.
EraseLogin(c) ==
    LET me == request[c]
    IN  /\ me.at = "erase" /\ Done(c)
        /\ identity' = [identity EXCEPT ![me.user] = NoHandle]
        /\ columns' = [columns EXCEPT ![me.user][me.platform] = 0]
        /\ UNCHANGED <<conns, tier, minimum, synced, socialBounds>>

\* The columns of all platforms but Facebook are taken from the user, and the tier from
\* those columns; the connections are not looked at.
SelfReported == Platforms \ {"facebook"}

WriteColumns(u, read, p, n) ==
    LET written == [read EXCEPT ![p] = n]
    IN  /\ begun < MaxRequests /\ begun' = begun + 1
        /\ columns' = [columns EXCEPT ![u][p] = n]
        /\ tier' = [tier EXCEPT ![u] =
                      ComputeTier(MaxFollowers([q \in SelfReported |-> written[q]]))]
        /\ synced' = synced \ {u}
        /\ UNCHANGED <<conns, identity, minimum, request, cuts>>

\* A user name that is given, or left out where one is connected, comes with followers;
\* one that is emptied takes them away.
UpdateSocials(u) ==
    \E p \in SelfReported, n \in Counts \cup {0} : WriteColumns(u, columns[u], p, n)

NextSocials ==
    \/ \E c \in Calls :
         \/ \E u \in Users, p \in Platforms :
              \/ Connect(c, u, p) \/ Refresh(c, u, p)
              \/ conns[u][p] # NoConn /\ Disconnect(c, u, p, "disconnect")
         \/ \E p \in Platforms \cap Meta : HandleDeauthorize(c, p) \/ HandleDataDeletion(c, p)
         \/ Upsert(c) \/ UpdateStats(c) \/ RemoveByUserAndPlatform(c)
         \/ ReadConnections(c) \/ SyncUserAndTier(c) \/ EraseLogin(c) \/ Cut(c)
    \/ \E u \in Users : UpdateSocials(u)

SpecSocials == InitSocials /\ [][NextSocials]_socialVars

-----------------------------------------------------------------------------
(* Properties.                                                             *)

\* Columns and tier repeat the connections, and "a user's tier can never differ by
\* endpoint" (social-platforms.ts:60-64), once a request that no other of the user
\* overlapped has synchronised them and until the next one begins.  Neither endpoint of
\* the older kind keeps to it.
TierFollows ==
    \A u \in synced :
        /\ \A p \in Platforms : columns[u][p] = conns[u][p].count
        /\ tier[u] = ComputeTier(MaxFollowers(columns[u]))

=============================================================================
