------------------------------ MODULE Channels ------------------------------
(***************************************************************************)
(* Channels and who is in them: channels.service.ts (create, addMember,    *)
(* removeMember, archive), the member cache of channel-members.service.ts  *)
(* and the Socket.IO channel rooms that socket.service.ts and              *)
(* socket.gateway.ts fill and empty.                                       *)
(*                                                                         *)
(* Three copies of "u is in c" exist: the membership row, the Redis set    *)
(* zevra:channel:members:{c}, and u's socket being in room channel:{c}.    *)
(* A handler changes the row first and repairs the copies in later steps.  *)
(* A Request is one handler being served; each `await' ends a step, a      *)
(* Redis MULTI and a commit are one step.  A user has at most one socket.  *)
(* Users are active throughout (no code clears isActive); the counter that *)
(* removeMember resets is the one of ReadMarks.                            *)
(***************************************************************************)
EXTENDS Integers, FiniteSets, Sequences

CONSTANTS
    User,
    Client,          \* the users who connect a socket
    Channel,         \* ids new channels get
    Request,         \* handlers served at once
    MaxParticipants, \* MAX_CHANNEL_PARTICIPANTS
    MaxGroups,       \* bound: group channels
    MaxOps,          \* bound: requests served in all
    Faults,          \* TRUE: Redis may fail (swallowed), and addMember's UPDATE
    None

ASSUME ChannelsAssumption ==
    /\ None \notin User \cup Channel \cup Request
    /\ IsFiniteSet(User) /\ IsFiniteSet(Request) /\ Request # {}
    /\ Client \subseteq User
    /\ MaxParticipants \in Nat \ {0}
    /\ {MaxGroups, MaxOps} \subseteq Nat
    /\ Faults \in BOOLEAN

VARIABLES
    kind,       \* channels.type, "none" before the insert
    role,       \* memberships.role, "none" without a row
    later,      \* members added after the creation, by joinedAt
    archived,   \* channels.isArchived
    chanLock,   \* the row lock of SELECT ... FOR UPDATE on channels
    pairLock,   \* advisory lock zevra:dm:{a}:{b}: pair -> request
    cache,      \* zevra:channel:members:{c}; {} is no key
    sock,       \* a user's socket and the channel list its connect read
    room,       \* users whose socket is in room channel:{c}
    req,        \* requests in flight
    ops,        \* requests so far
    stale,      \* history: <<c, u>> of which the cached set may be wrong
    adrift      \* history: <<c, u>> of which the room may be wrong

vars == <<kind, role, later, archived, chanLock, pairLock, cache, sock, room,
          req, ops, stale, adrift>>

history == <<stale, adrift>>

rows == <<kind, role, later, archived>>

locks == <<chanLock, pairLock>>

NoSocket == [st |-> "off", list |-> {}]

\* by: the caller; who: the member concerned; set: the user ids the handler
\* holds (members of a new channel, a snapshot for the cache, the promoted one).
Idle == [op |-> "idle", pc |-> "idle", ch |-> None, by |-> None, who |-> None,
         set |-> {}]

Pair == {{a, b} : a, b \in User} \ {{u} : u \in User}

Members(c) == {u \in User : role[c][u] # "none"}

Admins(c) == {u \in User : role[c][u] = "ADMIN"}

\* A group at rest: founded by u, the others added since in some order and
\* with some role.
Founded(c, u, added) ==
    /\ kind = [d \in Channel |-> IF d = c THEN "GROUP" ELSE "none"]
    /\ \E as \in [{added[i] : i \in DOMAIN added} -> {"MEMBER", "ADMIN"}] :
          role = [d \in Channel |-> [v \in User |->
                     IF d # c THEN "none"
                     ELSE CASE v = u -> "ADMIN" [] v \in DOMAIN as -> as[v] [] OTHER -> "none"]]
    /\ later = [d \in Channel |-> IF d = c THEN added ELSE <<>>]

Empty ==
    /\ kind = [c \in Channel |-> "none"]
    /\ role = [c \in Channel |-> [u \in User |-> "none"]]
    /\ later = [c \in Channel |-> <<>>]

Init ==
    /\ \/ Empty
       \/ \E c \in Channel, u \in User, n \in 1 .. MaxParticipants :
             \E added \in [1 .. n -> User \ {u}] :
                /\ \A i, j \in 1 .. n : added[i] = added[j] => i = j
                /\ Founded(c, u, added)
    /\ archived = [c \in Channel |-> FALSE]
    /\ chanLock = [c \in Channel |-> None]
    /\ pairLock = [p \in Pair |-> None]
    /\ cache \in {[c \in Channel |-> {}], [c \in Channel |-> Members(c)]}
    /\ sock = [u \in User |-> NoSocket]
    /\ room = [c \in Channel |-> {}]
    /\ req = [r \in Request |-> Idle]
    /\ ops = 0
    /\ stale = {}
    /\ adrift = {}

Step(r, pc) == req' = [req EXCEPT ![r].pc = pc]

Done(r) == req' = [req EXCEPT ![r] = Idle]

Begin(r, v) ==
    /\ req[r] = Idle
    /\ ops < MaxOps
    /\ ops' = ops + 1
    /\ req' = [req EXCEPT ![r] = v]

-----------------------------------------------------------------------------
\* The row of (c, u) changes under handlers that read it before.

\* q is about to write a snapshot of c's members to the cached set.
Fills(q, c) == req[q].ch = c /\ req[q].pc = "cache"

\* q is about to join u's socket to the room of c or to make it leave.
Steers(q, c, u) ==
    /\ req[q].ch = c
    /\ \/ req[q].pc = "cache" /\ req[q].op \in {"group", "direct"} /\ u \in req[q].set
       \/ req[q].pc = "cache" /\ req[q].op \in {"enter", "exit"} /\ u = req[q].who
       \/ req[q].pc = "join" /\ u \in req[q].set
       \/ req[q].pc \in {"touch", "invalidate", "enter", "exit", "leave"} /\ u = req[q].who

Overlap(r, c, u) ==
    /\ stale' = IF \E q \in Request \ {r} : Fills(q, c) THEN stale \cup {<<c, u>>} ELSE stale
    /\ adrift' = IF sock[u].st = "joining" \/ \E q \in Request \ {r} : Steers(q, c, u)
                 THEN adrift \cup {<<c, u>>} ELSE adrift

\* The cached set of c goes: it is right again when it is next filled, unless a
\* snapshot is still on its way.
Renewed(c) == IF \E q \in Request : Fills(q, c) THEN stale ELSE {p \in stale : p[1] # c}

-----------------------------------------------------------------------------
\* create.

\* insertChannel: the channel, the creator as ADMIN, the others as MEMBER.
InsertChannel(c, u, others, type) ==
    /\ kind[c] = "none"
    /\ kind' = [kind EXCEPT ![c] = type]
    /\ role' = [role EXCEPT ![c] = [v \in User |->
                  CASE v = u -> "ADMIN" [] v \in others -> "MEMBER" [] OTHER -> "none"]]
    /\ UNCHANGED <<later, archived>>

CreateGroup(r, c, u, others) ==
    /\ Cardinality(others) \in 1 .. MaxParticipants
    /\ u \notin others
    /\ Cardinality({d \in Channel : kind[d] = "GROUP"}) < MaxGroups
    /\ InsertChannel(c, u, others, "GROUP")
    /\ Begin(r, [op |-> "group", pc |-> "cache", ch |-> c, by |-> u, who |-> None,
                 set |-> others \cup {u}])
    /\ adrift' = adrift \cup {<<c, v>> : v \in {w \in others \cup {u} : sock[w].st = "joining"}}
    /\ UNCHANGED <<locks, cache, sock, room, stale>>

\* Mutant: no advisory lock.
CreateUnlocked(r, u, v) ==
    /\ u # v
    /\ Begin(r, [op |-> "direct", pc |-> "find", ch |-> None, by |-> u, who |-> v,
                 set |-> {u, v}])
    /\ UNCHANGED <<rows, locks, cache, sock, room, history>>

\* createDirect's transaction begins: the advisory lock of the sorted pair.
CreateDirect(r, u, v) ==
    /\ u # v
    /\ pairLock[{u, v}] = None
    /\ pairLock' = [pairLock EXCEPT ![{u, v}] = r]
    /\ Begin(r, [op |-> "direct", pc |-> "find", ch |-> None, by |-> u, who |-> v,
                 set |-> {u, v}])
    /\ UNCHANGED <<rows, chanLock, cache, sock, room, history>>

Direct(c, pair) == kind[c] = "DIRECT" /\ pair \subseteq Members(c)

\* An existing channel of the pair: the caller's socket joins it again.
DirectFind(r) ==
    /\ req[r].pc = "find"
    /\ IF \E c \in Channel : Direct(c, req[r].set)
       THEN \E c \in {d \in Channel : Direct(d, req[r].set)} :
               /\ req' = [req EXCEPT ![r] = [@ EXCEPT !.pc = "join", !.ch = c,
                                                     !.set = {req[r].by}]]
               /\ pairLock' = [pairLock EXCEPT ![req[r].set] = None]
       ELSE Step(r, "insert") /\ UNCHANGED pairLock
    /\ UNCHANGED <<rows, chanLock, cache, sock, room, ops, history>>

DirectInsert(r, c) ==
    /\ req[r].pc = "insert"
    /\ InsertChannel(c, req[r].by, {req[r].who}, "DIRECT")
    /\ pairLock' = [pairLock EXCEPT ![req[r].set] = None]
    /\ req' = [req EXCEPT ![r] = [@ EXCEPT !.pc = "cache", !.ch = c, !.who = None]]
    /\ adrift' = adrift \cup {<<c, v>> : v \in {w \in req[r].set : sock[w].st = "joining"}}
    /\ UNCHANGED <<chanLock, cache, sock, room, ops, stale>>

\* setMembers; after it create goes on to the rooms, join-channel and
\* leave-channel act on the answer, a plain fill is over.
SetMembers(r) ==
    /\ req[r].pc = "cache"
    /\ \/ cache' = [cache EXCEPT ![req[r].ch] = IF req[r].set = {} THEN @ ELSE req[r].set]
       \/ Faults /\ UNCHANGED cache
    /\ CASE req[r].op \in {"group", "direct"} -> Step(r, "join")
         [] req[r].op \in {"enter", "exit"} /\ req[r].who \in req[r].set -> Step(r, req[r].op)
         [] OTHER -> Done(r)
    /\ UNCHANGED <<rows, locks, sock, room, ops, history>>

\* create-or-join, create's socket event: the caller's socket joins once more.
CreateOrJoin(r) ==
    /\ req[r].op \in {"group", "direct"}
    /\ sock[req[r].by].st = "on"
    /\ req' = [req EXCEPT ![r] = [@ EXCEPT !.pc = "enter", !.who = req[r].by]]

\* joinUsersToChannel: every live socket of these users joins the room.
JoinRooms(r) ==
    /\ req[r].pc = "join"
    /\ room' = [room EXCEPT ![req[r].ch] = @ \cup {u \in req[r].set : sock[u].st = "on"}]
    /\ Done(r) \/ CreateOrJoin(r)
    /\ UNCHANGED <<rows, locks, cache, sock, ops, history>>

-----------------------------------------------------------------------------
\* addMember and removeMember.

\* The caller is an admin (getRole) of a group; other calls are refused here.
AddMember(r, c, u, v) ==
    /\ role[c][u] = "ADMIN"
    /\ kind[c] = "GROUP"
    /\ Begin(r, [op |-> "add", pc |-> "count", ch |-> c, by |-> u, who |-> v, set |-> {v}])
    /\ UNCHANGED <<rows, locks, cache, sock, room, history>>

\* Mutant: one more fits.
CountOneMore(r) ==
    /\ req[r].pc = "count"
    /\ IF Cardinality(Members(req[r].ch)) > MaxParticipants + 1
       THEN Done(r)
       ELSE Step(r, "add")
    /\ UNCHANGED <<rows, locks, cache, sock, room, ops, history>>

AddCount(r) ==
    /\ req[r].pc = "count"
    /\ IF Cardinality(Members(req[r].ch)) >= MaxParticipants + 1
       THEN Done(r)
       ELSE Step(r, "add")
    /\ UNCHANGED <<rows, locks, cache, sock, room, ops, history>>

\* INSERT ... ON CONFLICT DO NOTHING; the foreign key waits for chanLock.
AddInsert(r, as) ==
    LET c == req[r].ch u == req[r].who
    IN  /\ req[r].pc = "add"
        /\ chanLock[c] = None
        /\ IF role[c][u] # "none"
           THEN Done(r) /\ UNCHANGED <<rows, history>>
           ELSE /\ role' = [role EXCEPT ![c][u] = as]
                /\ later' = [later EXCEPT ![c] = Append(@, u)]
                /\ Step(r, "touch")
                /\ Overlap(r, c, u)
                /\ UNCHANGED <<kind, archived>>
        /\ UNCHANGED <<locks, cache, sock, room, ops>>

\* The UPDATE of the channel's updatedAt.  When it fails, the row is in and the
\* request is over: nobody drops the cached set or joins the new member.
AddTouch(r) ==
    LET c == req[r].ch u == req[r].who
    IN  /\ req[r].pc = "touch"
        /\ \/ chanLock[c] = None /\ Step(r, "invalidate") /\ UNCHANGED history
           \/ /\ Faults
              /\ Done(r)
              /\ stale' = stale \cup {<<c, u>>}
              /\ adrift' = adrift \cup {<<c, u>>}
        /\ UNCHANGED <<rows, locks, cache, sock, room, ops>>

\* One leaves, or an admin (getRole) removes another.
RemoveMember(r, c, u, v) ==
    /\ kind[c] # "none"
    /\ u = v \/ role[c][u] = "ADMIN"
    /\ Begin(r, [op |-> "remove", pc |-> "lock row", ch |-> c, by |-> u, who |-> v,
                 set |-> {}])
    /\ UNCHANGED <<rows, locks, cache, sock, room, history>>

\* Mutant: the channel row is not locked.
RemoveUnlocked(r) ==
    /\ req[r].pc = "lock row"
    /\ Step(r, "delete")
    /\ UNCHANGED <<rows, locks, cache, sock, room, ops, history>>

RemoveLock(r) ==
    /\ req[r].pc = "lock row"
    /\ chanLock[req[r].ch] = None
    /\ chanLock' = [chanLock EXCEPT ![req[r].ch] = r]
    /\ Step(r, "delete")
    /\ UNCHANGED <<rows, pairLock, cache, sock, room, ops, history>>

\* The longest-standing of these members, by joinedAt.
Oldest(c, S) ==
    LET added == later[c]
        founders == {u \in S : \A i \in DOMAIN added : added[i] # u}
    IN  IF founders # {} THEN founders
        ELSE {u \in S : \E i \in DOMAIN added :
                 added[i] = u /\ \A j \in 1 .. i - 1 : added[j] \notin S}

\* Whom the deletion of u promotes: nobody, or the oldest of the rest.
Promote(c, u) ==
    IF role[c][u] = "ADMIN" /\ Admins(c) \ {u} = {} /\ Members(c) # {u}
    THEN {{v} : v \in Oldest(c, Members(c) \ {u})}
    ELSE {{}}

\* DELETE ... RETURNING role and the search for the one to promote.
RemoveDelete(r) ==
    LET c == req[r].ch u == req[r].who
    IN  /\ req[r].pc = "delete"
        /\ IF role[c][u] = "none"
           THEN /\ Done(r)
                /\ chanLock' = [chanLock EXCEPT ![c] = None]
           ELSE /\ \E p \in Promote(c, u) :
                      req' = [req EXCEPT ![r] = [@ EXCEPT !.pc = "commit", !.set = p]]
                /\ UNCHANGED chanLock
        /\ UNCHANGED <<rows, pairLock, cache, sock, room, ops, history>>

RemoveCommit(r) ==
    LET c == req[r].ch u == req[r].who
    IN  /\ req[r].pc = "commit"
        /\ role' = [role EXCEPT ![c] = [v \in User |->
                      CASE v = u -> "none" [] v \in req[r].set -> "ADMIN" [] OTHER -> @[v]]]
        /\ later' = [later EXCEPT ![c] = SelectSeq(@, LAMBDA v : v # u)]
        /\ chanLock' = [chanLock EXCEPT ![c] = None]
        /\ Step(r, "invalidate")
        /\ Overlap(r, c, u)
        /\ UNCHANGED <<kind, archived, pairLock, cache, sock, room, ops>>

\* Mutant: a change of membership leaves the cached set alone.
KeepCache(r) ==
    /\ req[r].pc = "invalidate"
    /\ Step(r, IF req[r].op = "add" THEN "join" ELSE "leave")
    /\ UNCHANGED <<rows, locks, cache, sock, room, ops, history>>

\* invalidate, then addMember joins the new member's sockets, removeMember
\* makes the old one's leave.  A DEL that fails is logged and forgotten.
Invalidate(r) ==
    LET c == req[r].ch
    IN  /\ req[r].pc = "invalidate"
        /\ Step(r, IF req[r].op = "add" THEN "join" ELSE "leave")
        /\ \/ cache' = [cache EXCEPT ![c] = {}] /\ stale' = Renewed(c)
           \/ Faults /\ stale' = stale \cup {<<c, req[r].who>>} /\ UNCHANGED cache
        /\ UNCHANGED <<rows, locks, sock, room, ops, adrift>>

\* Mutant: the removed member's sockets stay.
StayInRoom(r) ==
    /\ req[r].pc = "leave"
    /\ Done(r)
    /\ UNCHANGED <<rows, locks, cache, sock, room, ops, history>>

\* removeUserFromChannel.
LeaveRoom(r) ==
    /\ req[r].pc = "leave"
    /\ room' = [room EXCEPT ![req[r].ch] = @ \ {req[r].who}]
    /\ Done(r)
    /\ UNCHANGED <<rows, locks, cache, sock, ops, history>>

-----------------------------------------------------------------------------
\* archive: reads the flag and writes its negation.

Archive(r, c, u) ==
    /\ role[c][u] = "ADMIN"
    /\ Begin(r, [op |-> "archive", pc |-> "flag", ch |-> c, by |-> u, who |-> None,
                 set |-> {}])
    /\ UNCHANGED <<rows, locks, cache, sock, room, history>>

ArchiveRead(r) ==
    /\ req[r].pc = "flag"
    /\ Step(r, IF archived[req[r].ch] THEN "unarchive" ELSE "archive")
    /\ UNCHANGED <<rows, locks, cache, sock, room, ops, history>>

ArchiveWrite(r) ==
    /\ req[r].pc \in {"archive", "unarchive"}
    /\ chanLock[req[r].ch] = None
    /\ archived' = [archived EXCEPT ![req[r].ch] = (req[r].pc = "archive")]
    /\ Done(r)
    /\ UNCHANGED <<kind, role, later, locks, cache, sock, room, ops, history>>

-----------------------------------------------------------------------------
\* getMembers and isMember on the cached set.

\* A reader finds no key; the set is read from the database and written back.
FillBegin(r, c) ==
    /\ kind[c] # "none"
    /\ cache[c] = {}
    /\ Begin(r, [op |-> "fill", pc |-> "read rows", ch |-> c, by |-> None, who |-> None,
                 set |-> {}])
    /\ UNCHANGED <<rows, locks, cache, sock, room, history>>

FillRead(r) ==
    /\ req[r].pc = "read rows"
    /\ req' = [req EXCEPT ![r] = [@ EXCEPT !.pc = "cache", !.set = Members(req[r].ch)]]
    /\ UNCHANGED <<rows, locks, cache, sock, room, ops, history>>

\* The key's TTL; a read does not renew it.
CacheExpire(c) ==
    /\ cache[c] # {}
    /\ cache' = [cache EXCEPT ![c] = {}]
    /\ stale' = Renewed(c)
    /\ UNCHANGED <<rows, locks, sock, room, req, ops, adrift>>

\* requireMember (isMember) of join-channel and leave-channel: a present key
\* answers, without one the rows are read and the set is filled on the way.
AskMember(r, c, u, op) ==
    /\ kind[c] # "none"
    /\ sock[u].st = "on"
    /\ cache[c] # {} => u \in cache[c]
    /\ Begin(r, [op |-> op, pc |-> IF cache[c] # {} THEN op ELSE "read rows", ch |-> c,
                 by |-> u, who |-> u, set |-> {}])
    /\ adrift' = IF op = "exit" \/ (cache[c] # {} /\ u \notin Members(c))
                 THEN adrift \cup {<<c, u>>} ELSE adrift
    /\ UNCHANGED <<rows, locks, cache, sock, room, stale>>

EnterRoom(r) ==
    /\ req[r].pc = "enter"
    /\ room' = [room EXCEPT ![req[r].ch] = IF sock[req[r].who].st = "on"
                                           THEN @ \cup {req[r].who} ELSE @]
    /\ Done(r)
    /\ UNCHANGED <<rows, locks, cache, sock, ops, history>>

ExitRoom(r) ==
    /\ req[r].pc = "exit"
    /\ room' = [room EXCEPT ![req[r].ch] = @ \ {req[r].who}]
    /\ Done(r)
    /\ UNCHANGED <<rows, locks, cache, sock, ops, history>>

-----------------------------------------------------------------------------
\* A socket connects: its channel list is read, then it joins those rooms and
\* its user room, which is how joinUsersToChannel finds it.
ConnectRead(u) ==
    /\ sock[u].st = "off"
    /\ sock' = [sock EXCEPT ![u] = [st |-> "joining",
                                    list |-> {c \in Channel : u \in Members(c)}]]
    /\ UNCHANGED <<rows, locks, cache, room, req, ops, history>>

ConnectJoin(u) ==
    /\ sock[u].st = "joining"
    /\ room' = [c \in Channel |-> IF c \in sock[u].list THEN room[c] \cup {u} ELSE room[c]]
    /\ sock' = [sock EXCEPT ![u] = [st |-> "on", list |-> {}]]
    /\ UNCHANGED <<rows, locks, cache, req, ops, history>>

\* The next socket joins the rooms of the rows it reads, unless a handler is
\* still about to move u.
Disconnect(u) ==
    /\ sock[u].st # "off"
    /\ sock' = [sock EXCEPT ![u] = NoSocket]
    /\ room' = [c \in Channel |-> room[c] \ {u}]
    /\ adrift' = {p \in adrift : p[2] = u =>
                    \E q \in Request : Steers(q, p[1], u) \/ (req[q].op = "exit" /\ req[q].who = u)}
    /\ UNCHANGED <<rows, locks, cache, req, ops, stale>>

-----------------------------------------------------------------------------
Start(r) ==
    \/ \E c \in Channel, u \in User, others \in SUBSET User : CreateGroup(r, c, u, others)
    \/ \E u, v \in User : CreateDirect(r, u, v)
    \/ \E c \in Channel, u, v \in User : AddMember(r, c, u, v) \/ RemoveMember(r, c, u, v)
    \/ \E c \in Channel, u \in User : Archive(r, c, u)
    \/ \E c \in Channel : FillBegin(r, c)
    \/ \E c \in Channel, u \in User, op \in {"enter", "exit"} : AskMember(r, c, u, op)

Continue(r) ==
    \/ DirectFind(r) \/ (\E c \in Channel : DirectInsert(r, c))
    \/ SetMembers(r) \/ JoinRooms(r)
    \/ AddCount(r) \/ (\E as \in {"ADMIN", "MEMBER"} : AddInsert(r, as)) \/ AddTouch(r)
    \/ RemoveLock(r) \/ RemoveDelete(r) \/ RemoveCommit(r)
    \/ Invalidate(r) \/ LeaveRoom(r)
    \/ ArchiveRead(r) \/ ArchiveWrite(r)
    \/ FillRead(r) \/ EnterRoom(r) \/ ExitRoom(r)

Next ==
    \/ \E r \in Request : Start(r) \/ Continue(r)
    \/ \E u \in Client : ConnectRead(u) \/ ConnectJoin(u) \/ Disconnect(u)
    \/ \E c \in Channel : CacheExpire(c)

Spec == Init /\ [][Next]_vars

-----------------------------------------------------------------------------
TypeOK ==
    /\ kind \in [Channel -> {"none", "DIRECT", "GROUP"}]
    /\ role \in [Channel -> [User -> {"none", "MEMBER", "ADMIN"}]]
    /\ \A c \in Channel : {later[c][i] : i \in DOMAIN later[c]} \subseteq Members(c)
    /\ archived \in [Channel -> BOOLEAN]
    /\ chanLock \in [Channel -> Request \cup {None}]
    /\ pairLock \in [Pair -> Request \cup {None}]
    /\ cache \in [Channel -> SUBSET User]
    /\ room \in [Channel -> SUBSET User]
    /\ stale \subseteq Channel \X User
    /\ adrift \subseteq Channel \X User

\* addMember or removeMember has yet to drop the cached set after changing (c, u).
CacheDue(c, u) ==
    \E r \in Request : req[r].ch = c /\ req[r].pc \in {"touch", "invalidate"} /\ req[r].who = u

\* create, addMember or removeMember has yet to move u's socket.
RoomDue(c, u) ==
    \E r \in Request :
        /\ req[r].ch = c
        /\ \/ req[r].pc = "cache" /\ req[r].op \in {"group", "direct"} /\ u \in req[r].set
           \/ req[r].pc = "join" /\ u \in req[r].set
           \/ req[r].pc \in {"touch", "invalidate", "leave"} /\ req[r].who = u

\* Once the handlers that changed u's membership of c have dropped the cached
\* set, a present one tells the truth about u.  Only three things can leave it
\* wrong, until it is next dropped or expires: a snapshot read before the change
\* and written after it, a DEL that failed, and an addMember whose UPDATE failed
\* after its insert.
CacheFollowsRows ==
    \A c \in Channel, u \in User :
        ~CacheDue(c, u) /\ <<c, u>> \notin stale /\ cache[c] # {}
            => (u \in cache[c] <=> u \in Members(c))

\* ... and once they have moved u's socket, it is in room channel:{c} exactly when
\* u is a member, so u misses no broadcast and a removed member gets none.  Until
\* the socket reconnects it can be wrong if the change came between a connect's
\* getUserChannelIds and its join or while another handler was about to join u or
\* to make u leave, if addMember's UPDATE failed, if join-channel was let in by a
\* cached set that was out of date, or if the client asked to leave the room.
RoomFollowsRows ==
    \A c \in Channel, u \in User :
        ~RoomDue(c, u) /\ <<c, u>> \notin adrift /\ sock[u].st = "on"
            => (u \in room[c] <=> u \in Members(c))

\* removeMember: while a channel has members it keeps an admin, whoever leaves
\* or is removed at the same time.
AdminIsKept ==
    [][\A c \in Channel : Admins(c) # {} => Admins(c)' # {} \/ Members(c)' = {}]_vars

\* createDirect: two users never share two DIRECT channels at one time, however
\* their requests overlap and whoever of them leaves a channel.
OneDirectPerPair ==
    \A p \in Pair : Cardinality({c \in Channel : Direct(c, p)}) <= 1

\* addMember counts before it inserts, with nothing held between: the cap can be
\* passed, but by no more than one member for each other request in flight.
CapOverrun ==
    \A c \in Channel :
        LET adding == {r \in Request : req[r].pc = "add" /\ req[r].ch = c}
        IN  Cardinality(Members(c)) + Cardinality(adding)
                <= MaxParticipants + Cardinality(Request)
=============================================================================
