---------------------------- MODULE ChannelsProofs ----------------------------
(***************************************************************************)
(* Proofs about channels, for any users, channels and requests in flight:  *)
(* removeMember leaves no group without an admin, createDirect makes one   *)
(* channel for a pair of users, addMember overruns the cap by a bounded    *)
(* number, and the cached member sets and the rooms follow the rows.       *)
(***************************************************************************)
EXTENDS Channels, TLAPS

Reqs == [op : {"idle", "group", "direct", "add", "remove", "archive", "fill", "enter", "exit"},
         pc : {"idle", "find", "insert", "cache", "join", "enter", "exit", "count", "add",
               "touch", "lock row", "delete", "commit", "invalidate", "leave", "flag",
               "archive", "unarchive", "read rows"},
         ch : Channel \cup {None}, by : User \cup {None}, who : User \cup {None},
         set : SUBSET User]

ChannelsType ==
    /\ kind \in [Channel -> {"none", "DIRECT", "GROUP"}]
    /\ role \in [Channel -> [User -> {"none", "MEMBER", "ADMIN"}]]
    /\ DOMAIN later = Channel
    /\ chanLock \in [Channel -> Request \cup {None}]
    /\ pairLock \in [Pair -> Request \cup {None}]
    /\ req \in [Request -> Reqs]

\* What a request in flight holds and knows: a removal has the channel's row
\* lock from its DELETE to its commit, so the member it promotes is still the
\* right one; a createDirect has the pair's lock, so what it did not find is
\* still not there.
ReqOK(r) ==
    LET q == req[r]
    IN  /\ q.pc \notin {"idle", "find", "insert"} => q.ch \in Channel
        /\ q.pc \in {"count", "add"} => kind[q.ch] = "GROUP" /\ q.who \in User
        /\ q.pc \in {"lock row", "delete", "commit"} => kind[q.ch] # "none" /\ q.who \in User
        /\ q.pc \in {"delete", "commit"} => chanLock[q.ch] = r
        /\ q.pc = "commit" => q.set \in Promote(q.ch, q.who)
        /\ q.pc \in {"find", "insert"} =>
              /\ q.set \in Pair /\ pairLock[q.set] = r
              /\ q.by \in User /\ q.who \in User /\ q.set = {q.by, q.who}
        /\ q.pc = "insert" => \A c \in Channel : ~Direct(c, q.set)

\* Two DIRECT channels of one pair are one.
DirectsOK ==
    \A c, d \in Channel, p \in Pair : Direct(c, p) /\ Direct(d, p) => c = d

ChannelsInv == ChannelsType /\ DirectsOK /\ \A r \in Request : ReqOK(r)
-----------------------------------------------------------------------------
\* At rest nothing is in flight and there is at most one channel, a group.
LEMMA ChannelsInit == Init => ChannelsInv
<1> SUFFICES ASSUME Init PROVE ChannelsInv
  BY Zenon
<1>1. /\ req = [r \in Request |-> Idle] /\ chanLock = [c \in Channel |-> None]
      /\ pairLock = [p \in Pair |-> None]
  BY Zenon DEF Init
<1>2. Idle \in Reqs /\ Idle.pc = "idle"
  BY Zenon DEF Idle, Reqs
<1>3. /\ kind \in [Channel -> {"none", "GROUP"}]
      /\ role \in [Channel -> [User -> {"none", "MEMBER", "ADMIN"}]]
      /\ DOMAIN later = Channel
  <2>1. CASE Empty
    BY Zenon, <2>1 DEF Empty
  <2>2. ASSUME NEW c \in Channel, NEW u \in User, NEW added, Founded(c, u, added)
        PROVE  /\ kind \in [Channel -> {"none", "GROUP"}]
               /\ role \in [Channel -> [User -> {"none", "MEMBER", "ADMIN"}]]
               /\ DOMAIN later = Channel
    <3>1. PICK as \in [{added[i] : i \in DOMAIN added} -> {"MEMBER", "ADMIN"}] :
             role = [d \in Channel |-> [v \in User |->
                       IF d # c THEN "none" ELSE CASE v = u -> "ADMIN" [] v \in DOMAIN as -> as[v] [] OTHER -> "none"]]
      BY Zenon, <2>2 DEF Founded
    <3>2. \A v \in DOMAIN as : as[v] \in {"none", "MEMBER", "ADMIN"}
      BY Zenon
    <3>3. \A d \in Channel, v \in User :
            (IF d # c THEN "none" ELSE CASE v = u -> "ADMIN" [] v \in DOMAIN as -> as[v] [] OTHER -> "none") \in {"none", "MEMBER", "ADMIN"}
      <4>1. SUFFICES ASSUME NEW d \in Channel, NEW v \in User
                     PROVE  (IF d # c THEN "none" ELSE CASE v = u -> "ADMIN" [] v \in DOMAIN as -> as[v] [] OTHER -> "none")
                              \in {"none", "MEMBER", "ADMIN"}
        BY Zenon
      <4>2. QED
        BY Zenon, <3>2
    <3>4. role \in [Channel -> [User -> {"none", "MEMBER", "ADMIN"}]]
      BY Zenon, <3>1, <3>3
    <3>5. kind \in [Channel -> {"none", "GROUP"}] /\ DOMAIN later = Channel
      BY Zenon, <2>2 DEF Founded
    <3>6. QED
      BY Zenon, <3>4, <3>5
  <2>3. QED
    BY Zenon, <2>1, <2>2 DEF Init
<1>4. ChannelsType
  BY Zenon, <1>1, <1>2, <1>3 DEF ChannelsType
<1>5. DirectsOK
  BY Zenon, <1>3 DEF DirectsOK, Direct
<1>6. \A r \in Request : ReqOK(r)
  BY Zenon, <1>1, <1>2 DEF ReqOK
<1>7. QED
  BY Zenon, <1>4, <1>5, <1>6 DEF ChannelsInv

\* A request that does not move keeps what it holds and knows, while nobody
\* takes its locks, changes the rows under its lock or makes a channel of its
\* pair.
LEMMA OthersKeep ==
    ASSUME ChannelsInv, NEW q \in Request, req'[q] = req[q],
           \A c \in Channel : kind[c] # "none" => kind'[c] = kind[c],
           \A c \in Channel : chanLock[c] = q => chanLock'[c] = q,
           \A c \in Channel : chanLock[c] = q /\ kind[c] # "none" =>
               role'[c] = role[c] /\ later'[c] = later[c],
           \A p \in Pair : pairLock[p] = q => pairLock'[p] = q,
           \A p \in Pair : pairLock[p] = q => \A c \in Channel : Direct(c, p)' => Direct(c, p)
    PROVE  ReqOK(q)'
<1>1. ReqOK(q)
  BY Zenon DEF ChannelsInv
<1>2. req[q] \in Reqs
  BY Zenon DEF ChannelsInv, ChannelsType
<1>3. PICK k \in Reqs : k = req[q]
  BY Zenon, <1>2
<1>4. ASSUME k.pc = "commit" PROVE Promote(k.ch, k.who)' = Promote(k.ch, k.who)
  <2>1. k.ch \in Channel /\ role'[k.ch] = role[k.ch] /\ later'[k.ch] = later[k.ch]
    BY Zenon, <1>1, <1>3, <1>4 DEF ReqOK
  <2>2. QED
    BY <2>1 DEF Promote, Admins, Members, Oldest
<1>5. ASSUME k.pc \in {"find", "insert"}
      PROVE  k.set \in Pair /\ pairLock'[k.set] = q
  BY Zenon, <1>1, <1>3, <1>5 DEF ReqOK
<1>6. ASSUME k.pc = "insert", NEW c \in Channel PROVE ~Direct(c, k.set)'
  <2>1. k.set \in Pair /\ pairLock[k.set] = q /\ ~Direct(c, k.set)
    BY Zenon, <1>1, <1>3, <1>6 DEF ReqOK
  <2>2. QED
    BY Zenon, <2>1
<1>7. /\ k.pc \notin {"idle", "find", "insert"} => k.ch \in Channel
      /\ k.pc \in {"count", "add"} => kind'[k.ch] = "GROUP" /\ k.who \in User
      /\ k.pc \in {"lock row", "delete", "commit"} => kind'[k.ch] # "none" /\ k.who \in User
      /\ k.pc \in {"delete", "commit"} => chanLock'[k.ch] = q
      /\ k.pc = "commit" => k.set \in Promote(k.ch, k.who)'
      /\ k.pc \in {"find", "insert"} =>
            /\ k.set \in Pair /\ pairLock'[k.set] = q
            /\ k.by \in User /\ k.who \in User /\ k.set = {k.by, k.who}
      /\ k.pc = "insert" => \A c \in Channel : ~Direct(c, k.set)'
  BY Zenon, <1>1, <1>3, <1>4, <1>5, <1>6 DEF ReqOK
<1>8. k = req'[q]
  BY Zenon, <1>3
<1>9. Promote(req[q].ch, req[q].who)' = Promote(k.ch, k.who)'
  BY <1>8 DEF Promote, Admins, Members, Oldest
<1>10. \A c \in Channel : Direct(c, req[q].set)' <=> Direct(c, k.set)'
  BY Zenon, <1>8 DEF Direct, Members
<1>11. QED
  BY Zenon, <1>7, <1>8, <1>9, <1>10 DEF ReqOK

\* A step that touches neither rows nor locks and moves request r to v.
LEMMA MovesOn ==
    ASSUME ChannelsInv, NEW r \in Request, NEW v \in Reqs, req' = [req EXCEPT ![r] = v],
           UNCHANGED <<kind, role, later, chanLock, pairLock>>,
           v.pc \notin {"find", "insert", "delete", "commit"},
           v.pc # "idle" => v.ch \in Channel,
           v.pc \in {"count", "add"} => kind[v.ch] = "GROUP" /\ v.who \in User,
           v.pc = "lock row" => kind[v.ch] # "none" /\ v.who \in User
    PROVE  ChannelsInv'
<1>1. /\ req' \in [Request -> Reqs] /\ req'[r] = v
      /\ \A q \in Request \ {r} : req'[q] = req[q]
  BY Zenon DEF ChannelsInv, ChannelsType
<1>2. ChannelsType'
  BY Zenon, <1>1 DEF ChannelsInv, ChannelsType
<1>3. \A c \in Channel, p \in Pair : Direct(c, p)' <=> Direct(c, p)
  BY Zenon DEF Direct, Members
<1>4. DirectsOK'
  BY Zenon, <1>3 DEF ChannelsInv, DirectsOK
<1>5. ReqOK(r)'
  BY Zenon, <1>1 DEF ReqOK
<1>6. ASSUME NEW q \in Request \ {r} PROVE ReqOK(q)'
  BY Zenon, <1>1, <1>3, OthersKeep
<1>7. QED
  BY Zenon, <1>2, <1>4, <1>5, <1>6 DEF ChannelsInv

\* A request that is past its checks goes on.
LEMMA StepsOn ==
    ASSUME ChannelsInv, NEW r \in Request,
           NEW p \in {"join", "enter", "exit", "add", "invalidate", "leave", "archive", "unarchive"},
           Step(r, p), UNCHANGED <<kind, role, later, chanLock, pairLock>>,
           req[r].pc \notin {"idle", "find", "insert"},
           p = "add" => req[r].pc = "count"
    PROVE  ChannelsInv'
<1> DEFINE v == [req[r] EXCEPT !.pc = p]
<1>1. req[r] \in Reqs /\ ReqOK(r)
  BY Zenon DEF ChannelsInv, ChannelsType
<1>2. v \in Reqs /\ v.pc = p /\ v.ch = req[r].ch /\ v.who = req[r].who
  BY ZenonT(30), <1>1 DEF Reqs
<1>3. req' = [req EXCEPT ![r] = v]
  BY Zenon DEF Step
<1> HIDE DEF v
<1>4. v.ch \in Channel /\ (v.pc = "add" => kind[v.ch] = "GROUP" /\ v.who \in User)
  BY Zenon, <1>1, <1>2 DEF ReqOK
<1>5. QED
  BY Zenon, <1>2, <1>3, <1>4, MovesOn

\* A request is answered.
LEMMA IsDone ==
    ASSUME ChannelsInv, NEW r \in Request, Done(r),
           UNCHANGED <<kind, role, later, chanLock, pairLock>>
    PROVE  ChannelsInv'
<1>1. Idle \in Reqs /\ Idle.pc = "idle"
  BY Zenon DEF Idle, Reqs
<1>2. QED
  BY Zenon, <1>1, MovesOn DEF Done

\* Steps that leave rows, locks and requests alone.
LEMMA NothingMoves ==
    ASSUME ChannelsInv, UNCHANGED <<kind, role, later, chanLock, pairLock, req>>
    PROVE  ChannelsInv'
<1>1. ChannelsType'
  BY Zenon DEF ChannelsInv, ChannelsType
<1>2. \A c \in Channel, p \in Pair : Direct(c, p)' <=> Direct(c, p)
  BY Zenon DEF Direct, Members
<1>3. DirectsOK'
  BY Zenon, <1>2 DEF ChannelsInv, DirectsOK
<1>4. ASSUME NEW q \in Request PROVE ReqOK(q)'
  BY Zenon, <1>2, OthersKeep
<1>5. QED
  BY Zenon, <1>1, <1>3, <1>4 DEF ChannelsInv

\* The steps of the caches, the rooms and the checks.
LEMMA PlainSteps ==
    ASSUME ChannelsInv, NEW r \in Request,
           \/ SetMembers(r) \/ JoinRooms(r) \/ AddCount(r) \/ AddTouch(r) \/ Invalidate(r)
           \/ LeaveRoom(r) \/ ArchiveRead(r) \/ ArchiveWrite(r) \/ FillRead(r) \/ EnterRoom(r) \/ ExitRoom(r)
    PROVE  ChannelsInv'
<1>1. UNCHANGED <<kind, role, later, chanLock, pairLock>>
  BY Zenon DEF SetMembers, JoinRooms, AddCount, AddTouch, Invalidate, LeaveRoom, ArchiveRead,
         ArchiveWrite, FillRead, EnterRoom, ExitRoom, rows, locks
<1>2. req[r] \in Reqs /\ ReqOK(r)
  BY Zenon DEF ChannelsInv, ChannelsType
<1>3. CASE SetMembers(r)
  <2>1. req[r].pc = "cache"
    BY Zenon, <1>3 DEF SetMembers
  <2>2. \/ Step(r, "join") \/ Step(r, "enter") \/ Step(r, "exit") \/ Done(r)
    BY Zenon, <1>3 DEF SetMembers
  <2>3. QED
    BY Zenon, <1>1, <2>1, <2>2, StepsOn, IsDone
<1>4. CASE JoinRooms(r)
  <2>1. req[r].pc = "join" /\ (Done(r) \/ CreateOrJoin(r))
    BY Zenon, <1>4 DEF JoinRooms
  <2>2. CASE CreateOrJoin(r)
    <3> DEFINE v == [req[r] EXCEPT !.pc = "enter", !.who = req[r].by]
    <3>1. v \in Reqs /\ v.pc = "enter" /\ v.ch = req[r].ch
      BY Zenon, <1>2 DEF Reqs
    <3>2. req' = [req EXCEPT ![r] = v]
      BY Zenon, <2>2 DEF CreateOrJoin
    <3> HIDE DEF v
    <3>3. v.ch \in Channel
      BY Zenon, <1>2, <2>1, <3>1 DEF ReqOK
    <3>4. QED
      BY Zenon, <1>1, <3>1, <3>2, <3>3, MovesOn
  <2>3. QED
    BY Zenon, <1>1, <2>1, <2>2, IsDone
<1>5. CASE AddCount(r)
  BY Zenon, <1>1, <1>5, StepsOn, IsDone DEF AddCount
<1>6. CASE Invalidate(r)
  BY Zenon, <1>1, <1>6, StepsOn DEF Invalidate
<1>7. CASE ArchiveRead(r)
  BY Zenon, <1>1, <1>7, StepsOn DEF ArchiveRead
<1>8. CASE FillRead(r)
  <2> DEFINE v == [req[r] EXCEPT !.pc = "cache", !.set = Members(req[r].ch)]
  <2>1. Members(req[r].ch) \subseteq User
    BY Zenon DEF Members
  <2>2. v \in Reqs /\ v.pc = "cache" /\ v.ch = req[r].ch
    BY Zenon, <1>2, <2>1 DEF Reqs
  <2>3. req' = [req EXCEPT ![r] = v] /\ req[r].pc = "read rows"
    BY Zenon, <1>8 DEF FillRead
  <2> HIDE DEF v
  <2>4. v.ch \in Channel
    BY Zenon, <1>2, <2>2, <2>3 DEF ReqOK
  <2>5. QED
    BY Zenon, <1>1, <2>2, <2>3, <2>4, MovesOn
<1>9. CASE LeaveRoom(r) \/ ArchiveWrite(r) \/ EnterRoom(r) \/ ExitRoom(r)
  BY Zenon, <1>1, <1>9, IsDone DEF LeaveRoom, ArchiveWrite, EnterRoom, ExitRoom
<1>10. CASE AddTouch(r)
  BY Zenon, <1>1, <1>10, StepsOn, IsDone DEF AddTouch
<1>11. QED
  BY Zenon, <1>3, <1>4, <1>5, <1>6, <1>7, <1>8, <1>9, <1>10

\* The beginnings that take no lock.
LEMMA PlainStarts ==
    ASSUME ChannelsInv, NEW r \in Request, NEW c \in Channel,
           \/ \E u, v \in User : AddMember(r, c, u, v) \/ RemoveMember(r, c, u, v)
           \/ \E u \in User : Archive(r, c, u)
           \/ FillBegin(r, c)
           \/ \E u \in User, op \in {"enter", "exit"} : AskMember(r, c, u, op)
    PROVE  ChannelsInv'
<1>1. UNCHANGED <<kind, role, later, chanLock, pairLock>>
  BY Zenon DEF AddMember, RemoveMember, Archive, FillBegin, AskMember, rows, locks
<1>2. ASSUME NEW u \in User, NEW v \in User, AddMember(r, c, u, v) PROVE ChannelsInv'
  <2> DEFINE k == [op |-> "add", pc |-> "count", ch |-> c, by |-> u, who |-> v, set |-> {v}]
  <2>1. k \in Reqs /\ k.pc = "count" /\ k.ch = c /\ k.who = v
    BY Zenon DEF Reqs
  <2>2. req' = [req EXCEPT ![r] = k] /\ kind[c] = "GROUP"
    BY Zenon, <1>2 DEF AddMember, Begin
  <2> HIDE DEF k
  <2>3. QED
    BY Zenon, <1>1, <2>1, <2>2, MovesOn
<1>3. ASSUME NEW u \in User, NEW v \in User, RemoveMember(r, c, u, v) PROVE ChannelsInv'
  <2> DEFINE k == [op |-> "remove", pc |-> "lock row", ch |-> c, by |-> u, who |-> v, set |-> {}]
  <2>1. k \in Reqs /\ k.pc = "lock row" /\ k.ch = c /\ k.who = v
    BY Zenon DEF Reqs
  <2>2. req' = [req EXCEPT ![r] = k] /\ kind[c] # "none"
    BY Zenon, <1>3 DEF RemoveMember, Begin
  <2> HIDE DEF k
  <2>3. QED
    BY Zenon, <1>1, <2>1, <2>2, MovesOn
<1>4. ASSUME NEW u \in User, Archive(r, c, u) PROVE ChannelsInv'
  <2> DEFINE k == [op |-> "archive", pc |-> "flag", ch |-> c, by |-> u, who |-> None, set |-> {}]
  <2>1. k \in Reqs /\ k.pc = "flag" /\ k.ch = c
    BY Zenon DEF Reqs
  <2>2. req' = [req EXCEPT ![r] = k]
    BY Zenon, <1>4 DEF Archive, Begin
  <2> HIDE DEF k
  <2>3. QED
    BY Zenon, <1>1, <2>1, <2>2, MovesOn
<1>5. CASE FillBegin(r, c)
  <2> DEFINE k == [op |-> "fill", pc |-> "read rows", ch |-> c, by |-> None, who |-> None,
                   set |-> {}]
  <2>1. k \in Reqs /\ k.pc = "read rows" /\ k.ch = c
    BY Zenon DEF Reqs
  <2>2. req' = [req EXCEPT ![r] = k]
    BY Zenon, <1>5 DEF FillBegin, Begin
  <2> HIDE DEF k
  <2>3. QED
    BY Zenon, <1>1, <2>1, <2>2, MovesOn
<1>6. ASSUME NEW u \in User, NEW op \in {"enter", "exit"}, AskMember(r, c, u, op)
      PROVE  ChannelsInv'
  <2> DEFINE p == IF cache[c] # {} THEN op ELSE "read rows"
             k == [op |-> op, pc |-> p, ch |-> c, by |-> u, who |-> u, set |-> {}]
  <2>1. req' = [req EXCEPT ![r] = k]
    BY Zenon, <1>6 DEF AskMember, Begin
  <2>2. p \in {"enter", "exit", "read rows"}
    BY Zenon
  <2> HIDE DEF p
  <2>3. k \in Reqs /\ k.pc = p /\ k.ch = c
    BY Zenon, <2>2 DEF Reqs
  <2> HIDE DEF k
  <2>4. QED
    BY Zenon, <1>1, <2>1, <2>2, <2>3, MovesOn
<1>7. QED
  BY Zenon, <1>2, <1>3, <1>4, <1>5, <1>6

\* A step of request r that respects the locks of the others keeps what they
\* hold and know.
LEMMA MovesWith ==
    ASSUME ChannelsInv, NEW r \in Request, NEW v \in Reqs, req' = [req EXCEPT ![r] = v],
           kind' \in [Channel -> {"none", "DIRECT", "GROUP"}],
           role' \in [Channel -> [User -> {"none", "MEMBER", "ADMIN"}]],
           DOMAIN later' = Channel,
           chanLock' \in [Channel -> Request \cup {None}],
           pairLock' \in [Pair -> Request \cup {None}],
           \A c \in Channel : kind[c] # "none" => kind'[c] = kind[c],
           \A c \in Channel : chanLock[c] \in Request \ {r} =>
               /\ chanLock'[c] = chanLock[c]
               /\ kind[c] # "none" => role'[c] = role[c] /\ later'[c] = later[c],
           \A p \in Pair : pairLock[p] \in Request \ {r} =>
               /\ pairLock'[p] = pairLock[p]
               /\ \A c \in Channel : Direct(c, p)' => Direct(c, p),
           DirectsOK', ReqOK(r)'
    PROVE  ChannelsInv'
<1>1. /\ req' \in [Request -> Reqs]
      /\ \A q \in Request \ {r} : req'[q] = req[q]
  BY Zenon DEF ChannelsInv, ChannelsType
<1>2. ChannelsType'
  BY Zenon, <1>1 DEF ChannelsType
<1>3. ASSUME NEW q \in Request \ {r} PROVE ReqOK(q)'
  <2>1. req'[q] = req[q]
    BY Zenon, <1>1
  <2>2. QED
    BY Zenon, <2>1, OthersKeep
<1>4. QED
  BY Zenon, <1>2, <1>3 DEF ChannelsInv

\* createDirect takes a lock that is free.
LEMMA CreateDirectKeeps ==
    ASSUME ChannelsInv, NEW r \in Request, NEW u \in User, NEW w \in User, CreateDirect(r, u, w)
    PROVE  ChannelsInv'
<1> DEFINE v == [op |-> "direct", pc |-> "find", ch |-> None, by |-> u, who |-> w,
                 set |-> {u, w}]
<1>1. v \in Reqs /\ v.pc = "find" /\ v.by = u /\ v.who = w /\ v.set = {u, w}
  BY Zenon DEF Reqs
<1>2. req' = [req EXCEPT ![r] = v]
  BY Zenon DEF CreateDirect, Begin
<1> HIDE DEF v
<1>3. UNCHANGED <<kind, role, later, chanLock>>
  BY Zenon DEF CreateDirect, rows
<1>4. ChannelsType
  BY Zenon DEF ChannelsInv
<1>5. {u, w} \in Pair
  BY DEF CreateDirect, Pair
<1>6. /\ pairLock[{u, w}] = None
      /\ pairLock' = [pairLock EXCEPT ![{u, w}] = r]
  BY Zenon DEF CreateDirect
<1>7. /\ pairLock' \in [Pair -> Request \cup {None}] /\ pairLock'[{u, w}] = r
      /\ \A p \in Pair : p # {u, w} => pairLock'[p] = pairLock[p]
  BY Zenon, <1>4, <1>5, <1>6 DEF ChannelsType
<1>8. None \notin Request
  BY Zenon, ChannelsAssumption
<1>9. \A p \in Pair : pairLock[p] \in Request \ {r} => pairLock'[p] = pairLock[p]
  BY Zenon, <1>6, <1>7, <1>8
<1>10. \A c \in Channel, p \in Pair : Direct(c, p)' <=> Direct(c, p)
  BY Zenon, <1>3 DEF Direct, Members
<1>11. DirectsOK'
  BY Zenon, <1>10 DEF ChannelsInv, DirectsOK
<1>12. req'[r] = v
  BY Zenon, <1>2, <1>4 DEF ChannelsType
<1>13. ReqOK(r)'
  BY Zenon, <1>1, <1>5, <1>7, <1>12 DEF ReqOK
<1>14. QED
  BY Zenon, <1>1, <1>2, <1>3, <1>4, <1>9, <1>7, <1>10, <1>11, <1>13, MovesWith DEF ChannelsType

\* Giving a pair's lock back takes it from nobody else.
LEMMA PairFreed ==
    ASSUME ChannelsInv, NEW r \in Request, NEW s \in Pair, pairLock[s] = r,
           pairLock' = [pairLock EXCEPT ![s] = None]
    PROVE  /\ pairLock' \in [Pair -> Request \cup {None}]
           /\ \A p \in Pair : pairLock[p] \in Request \ {r} => p # s /\ pairLock'[p] = pairLock[p]
BY Zenon DEF ChannelsInv, ChannelsType

\* createDirect's SELECT.
LEMMA DirectFindKeeps ==
    ASSUME ChannelsInv, NEW r \in Request, DirectFind(r)
    PROVE  ChannelsInv'
<1>1. ChannelsType /\ ReqOK(r) /\ req[r] \in Reqs /\ req[r].pc = "find"
  BY Zenon DEF ChannelsInv, ChannelsType, DirectFind
<1>2. /\ req[r].set \in Pair /\ pairLock[req[r].set] = r /\ req[r].by \in User
      /\ req[r].who \in User /\ req[r].set = {req[r].by, req[r].who}
  BY Zenon, <1>1 DEF ReqOK
<1>3. UNCHANGED <<kind, role, later, chanLock>>
  BY Zenon DEF DirectFind, rows
<1>4. \A c \in Channel, p \in Pair : Direct(c, p)' <=> Direct(c, p)
  BY Zenon, <1>3 DEF Direct, Members
<1>5. DirectsOK'
  BY Zenon, <1>4 DEF ChannelsInv, DirectsOK
<1>6. ASSUME NEW c \in Channel,
             req' = [req EXCEPT ![r] = [@ EXCEPT !.pc = "join", !.ch = c, !.set = {req[r].by}]],
             pairLock' = [pairLock EXCEPT ![req[r].set] = None]
      PROVE  ChannelsInv'
  <2> DEFINE v == [req[r] EXCEPT !.pc = "join", !.ch = c, !.set = {req[r].by}]
  <2>1. v \in Reqs /\ v.pc = "join" /\ v.ch = c
    BY Zenon, <1>1, <1>2 DEF Reqs
  <2>2. req' = [req EXCEPT ![r] = v]
    BY Zenon, <1>6
  <2> HIDE DEF v
  <2>3. /\ pairLock' \in [Pair -> Request \cup {None}]
        /\ \A p \in Pair : pairLock[p] \in Request \ {r} => pairLock'[p] = pairLock[p]
    BY Zenon, <1>2, <1>6, PairFreed
  <2>4. req'[r] = v
    BY Zenon, <1>1, <2>2 DEF ChannelsType
  <2>5. ReqOK(r)'
    BY Zenon, <2>1, <2>4 DEF ReqOK
  <2>6. QED
    BY Zenon, <1>1, <1>3, <1>4, <1>5, <2>1, <2>2, <2>3, <2>5, MovesWith DEF ChannelsType
<1>7. ASSUME ~\E c \in Channel : Direct(c, req[r].set), Step(r, "insert"), UNCHANGED pairLock
      PROVE  ChannelsInv'
  <2> DEFINE v == [req[r] EXCEPT !.pc = "insert"]
  <2>1. /\ v \in Reqs /\ v.pc = "insert" /\ v.set = req[r].set /\ v.by = req[r].by
        /\ v.who = req[r].who
    BY Zenon, <1>1 DEF Reqs
  <2>2. req' = [req EXCEPT ![r] = v]
    BY Zenon, <1>7 DEF Step
  <2> HIDE DEF v
  <2>3. req'[r] = v
    BY Zenon, <1>1, <2>2 DEF ChannelsType
  <2>4. PICK s \in Pair : s = req[r].set
    BY Zenon, <1>2
  <2>5. \A c \in Channel : ~Direct(c, s)'
    BY Zenon, <1>4, <1>7, <2>4
  <2>6. req'[r].set = s /\ req'[r].pc = "insert"
    BY Zenon, <2>1, <2>3, <2>4
  <2>7. /\ req'[r].pc = "insert" /\ req'[r].set = s /\ pairLock'[s] = r
        /\ req'[r].by \in User /\ req'[r].who \in User
        /\ s = {req'[r].by, req'[r].who}
    BY Zenon, <1>2, <1>7, <2>1, <2>3, <2>4
  <2>8. ReqOK(r)'
    BY Zenon, <2>5, <2>7 DEF ReqOK
  <2>9. QED
    BY Zenon, <1>1, <1>3, <1>4, <1>5, <1>7, <2>1, <2>2, <2>8, MovesWith DEF ChannelsType
<1>8. QED
  BY Zenon, <1>6, <1>7 DEF DirectFind

\* insertChannel makes rows of a channel that had none.
LEMMA Inserted ==
    ASSUME ChannelsInv, NEW c \in Channel, NEW u \in User, NEW others \in SUBSET User,
           NEW t \in {"DIRECT", "GROUP"}, u \notin others, InsertChannel(c, u, others, t)
    PROVE  /\ kind[c] = "none" /\ kind'[c] = t
           /\ kind' \in [Channel -> {"none", "DIRECT", "GROUP"}]
           /\ role' \in [Channel -> [User -> {"none", "MEMBER", "ADMIN"}]]
           /\ DOMAIN later' = Channel /\ later' = later
           /\ \A d \in Channel : kind[d] # "none" => kind'[d] = kind[d] /\ role'[d] = role[d]
           /\ \A d \in Channel \ {c} : kind'[d] = kind[d] /\ role'[d] = role[d]
           /\ Members(c)' = others \cup {u}
           /\ u \in Admins(c)'
<1>1. ChannelsType
  BY Zenon DEF ChannelsInv
<1> DEFINE f == [v \in User |->
                   CASE v = u -> "ADMIN" [] v \in others -> "MEMBER" [] OTHER -> "none"]
<1>2. f \in [User -> {"none", "MEMBER", "ADMIN"}]
  BY Zenon
<1>3. \A v \in User : f[v] # "none" <=> v \in others \cup {u}
  BY Zenon
<1>4. f[u] = "ADMIN"
  BY Zenon
<1>5. role' = [role EXCEPT ![c] = f]
  BY Zenon DEF InsertChannel
<1> HIDE DEF f
<1>6. role'[c] = f /\ \A d \in Channel \ {c} : role'[d] = role[d]
  BY Zenon, <1>1, <1>5 DEF ChannelsType
<1>7. role' \in [Channel -> [User -> {"none", "MEMBER", "ADMIN"}]]
  BY Zenon, <1>1, <1>2, <1>5 DEF ChannelsType
<1>8. /\ kind[c] = "none" /\ kind'[c] = t
      /\ kind' \in [Channel -> {"none", "DIRECT", "GROUP"}]
      /\ \A d \in Channel \ {c} : kind'[d] = kind[d]
      /\ DOMAIN later' = Channel /\ later' = later
  BY Zenon, <1>1 DEF InsertChannel, ChannelsType
<1>9. Members(c)' = others \cup {u}
  BY Zenon, <1>3, <1>6 DEF Members
<1>10. u \in Admins(c)'
  BY Zenon, <1>4, <1>6 DEF Admins
<1>11. QED
  BY Zenon, <1>6, <1>7, <1>8, <1>9, <1>10

\* createDirect's INSERT: what it did not find is still not there.
LEMMA DirectInsertKeeps ==
    ASSUME ChannelsInv, NEW r \in Request, NEW c \in Channel, DirectInsert(r, c)
    PROVE  ChannelsInv'
<1>1. ChannelsType /\ ReqOK(r) /\ req[r] \in Reqs /\ req[r].pc = "insert"
  BY Zenon DEF ChannelsInv, ChannelsType, DirectInsert
<1>2. PICK u \in User, w \in User, s \in Pair :
         /\ u = req[r].by /\ w = req[r].who /\ s = req[r].set /\ s = {u, w}
         /\ pairLock[s] = r /\ \A d \in Channel : ~Direct(d, s)
  BY Zenon, <1>1 DEF ReqOK
<1>3. u # w
  BY <1>2 DEF Pair
<1>4. InsertChannel(c, u, {w}, "DIRECT") /\ pairLock' = [pairLock EXCEPT ![s] = None]
  BY Zenon, <1>2 DEF DirectInsert
<1>5. u \notin {w} /\ {w} \in SUBSET User
  BY Zenon, <1>3
<1>6. /\ kind[c] = "none" /\ kind'[c] = "DIRECT"
      /\ kind' \in [Channel -> {"none", "DIRECT", "GROUP"}]
      /\ role' \in [Channel -> [User -> {"none", "MEMBER", "ADMIN"}]]
      /\ DOMAIN later' = Channel /\ later' = later
      /\ \A d \in Channel : kind[d] # "none" => kind'[d] = kind[d] /\ role'[d] = role[d]
      /\ \A d \in Channel \ {c} : kind'[d] = kind[d] /\ role'[d] = role[d]
      /\ Members(c)' = {w} \cup {u}
  BY Zenon, <1>4, <1>5, Inserted
<1>7. /\ pairLock' \in [Pair -> Request \cup {None}]
      /\ \A p \in Pair : pairLock[p] \in Request \ {r} => p # s /\ pairLock'[p] = pairLock[p]
  BY Zenon, <1>2, <1>4, PairFreed
<1>8. \A d \in Channel \ {c}, p \in Pair : Direct(d, p)' <=> Direct(d, p)
  BY <1>6 DEF Direct, Members
<1>9. ASSUME NEW p \in Pair, Direct(c, p)' PROVE p = s
  <2>1. p \subseteq {u, w}
    BY Zenon, <1>6, <1>9 DEF Direct
  <2>2. PICK a \in User, b \in User : p = {a, b} /\ a # b
    BY DEF Pair
  <2>3. a \in {u, w} /\ b \in {u, w}
    BY Zenon, <2>1, <2>2
  <2>4. {a, b} = {u, w}
    BY <2>2, <2>3
  <2>5. QED
    BY Zenon, <1>2, <2>2, <2>4
<1>10. DirectsOK'
  <2>1. SUFFICES ASSUME NEW d \in Channel, NEW e \in Channel, NEW p \in Pair,
                        Direct(d, p)', Direct(e, p)'
                 PROVE  d = e
    BY Zenon DEF DirectsOK
  <2>2. CASE d = c \/ e = c
    <3>1. p = s
      BY Zenon, <1>9, <2>1, <2>2
    <3>2. QED
      BY Zenon, <1>2, <1>8, <2>1, <2>2, <3>1
  <2>3. CASE d # c /\ e # c
    BY Zenon, <1>8, <2>1, <2>3 DEF ChannelsInv, DirectsOK
  <2>4. QED
    BY Zenon, <2>2, <2>3
<1> DEFINE v == [req[r] EXCEPT !.pc = "cache", !.ch = c, !.who = None]
<1>11. v \in Reqs /\ v.pc = "cache" /\ v.ch = c
  BY Zenon, <1>1 DEF Reqs
<1>12. req' = [req EXCEPT ![r] = v]
  BY Zenon DEF DirectInsert
<1> HIDE DEF v
<1>13. req'[r] = v
  BY Zenon, <1>1, <1>12 DEF ChannelsType
<1>14. ReqOK(r)'
  BY Zenon, <1>11, <1>13 DEF ReqOK
<1>15. chanLock' = chanLock
  BY Zenon DEF DirectInsert
<1>16. \A p \in Pair : pairLock[p] \in Request \ {r} =>
          \A d \in Channel : Direct(d, p)' => Direct(d, p)
  BY Zenon, <1>7, <1>8, <1>9
<1>17. QED
  BY Zenon, <1>1, <1>6, <1>7, <1>10, <1>11, <1>12, <1>14, <1>15, <1>16, MovesWith DEF ChannelsType

\* A new group is no DIRECT channel.
LEMMA CreateGroupKeeps ==
    ASSUME ChannelsInv, NEW r \in Request, NEW c \in Channel, NEW u \in User,
           NEW others \in SUBSET User, CreateGroup(r, c, u, others)
    PROVE  ChannelsInv'
<1>1. ChannelsType
  BY Zenon DEF ChannelsInv
<1>2. u \notin others /\ InsertChannel(c, u, others, "GROUP")
  BY Zenon DEF CreateGroup
<1>3. /\ kind[c] = "none" /\ kind'[c] = "GROUP"
      /\ kind' \in [Channel -> {"none", "DIRECT", "GROUP"}]
      /\ role' \in [Channel -> [User -> {"none", "MEMBER", "ADMIN"}]]
      /\ DOMAIN later' = Channel /\ later' = later
      /\ \A d \in Channel : kind[d] # "none" => kind'[d] = kind[d] /\ role'[d] = role[d]
      /\ \A d \in Channel \ {c} : kind'[d] = kind[d] /\ role'[d] = role[d]
  BY Zenon, <1>2, Inserted
<1>4. ASSUME NEW d \in Channel, NEW p \in Pair PROVE Direct(d, p)' <=> Direct(d, p)
  <2>1. CASE d = c
    BY Zenon, <1>3, <2>1 DEF Direct
  <2>2. CASE d # c
    <3>1. kind'[d] = kind[d] /\ role'[d] = role[d]
      BY Zenon, <1>3, <2>2
    <3>2. Members(d)' = Members(d)
      BY Zenon, <3>1 DEF Members
    <3>3. QED
      BY Zenon, <3>1, <3>2 DEF Direct
  <2>3. QED
    BY Zenon, <2>1, <2>2
<1>5. DirectsOK'
  BY Zenon, <1>4 DEF ChannelsInv, DirectsOK
<1> DEFINE v == [op |-> "group", pc |-> "cache", ch |-> c, by |-> u, who |-> None,
                 set |-> others \cup {u}]
<1>6. v \in Reqs /\ v.pc = "cache" /\ v.ch = c
  BY Zenon DEF Reqs
<1>7. req' = [req EXCEPT ![r] = v]
  BY Zenon DEF CreateGroup, Begin
<1> HIDE DEF v
<1>8. req'[r] = v
  BY Zenon, <1>1, <1>7 DEF ChannelsType
<1>9. ReqOK(r)'
  BY Zenon, <1>6, <1>8 DEF ReqOK
<1>10. chanLock' = chanLock /\ pairLock' = pairLock
  BY Zenon DEF CreateGroup, locks
<1>11. QED
  BY Zenon, <1>1, <1>3, <1>4, <1>5, <1>6, <1>7, <1>9, <1>10, MovesWith DEF ChannelsType

\* addMember's INSERT waits for the row lock and concerns a group.
LEMMA AddInsertKeeps ==
    ASSUME ChannelsInv, NEW r \in Request, NEW as \in {"ADMIN", "MEMBER"}, AddInsert(r, as)
    PROVE  ChannelsInv'
<1>1. ChannelsType /\ ReqOK(r) /\ req[r] \in Reqs /\ req[r].pc = "add"
  BY Zenon DEF ChannelsInv, ChannelsType, AddInsert
<1>2. PICK c \in Channel, u \in User : c = req[r].ch /\ u = req[r].who /\ kind[c] = "GROUP"
  BY Zenon, <1>1 DEF ReqOK
<1>3. UNCHANGED <<kind, chanLock, pairLock>> /\ chanLock[c] = None
  BY Zenon, <1>2 DEF AddInsert, locks, rows
<1>4. CASE role[c][u] # "none"
  BY Zenon, <1>2, <1>3, <1>4, IsDone DEF AddInsert, rows
<1>5. CASE role[c][u] = "none"
  <2>1. /\ role' = [role EXCEPT ![c][u] = as] /\ later' = [later EXCEPT ![c] = Append(@, u)]
        /\ Step(r, "touch")
    BY Zenon, <1>2, <1>5 DEF AddInsert
  <2>2. /\ role' \in [Channel -> [User -> {"none", "MEMBER", "ADMIN"}]] /\ DOMAIN later' = Channel
        /\ \A d \in Channel \ {c} : role'[d] = role[d] /\ later'[d] = later[d]
    BY Zenon, <1>1, <2>1 DEF ChannelsType
  <2>3. ASSUME NEW d \in Channel, NEW p \in Pair PROVE Direct(d, p)' <=> Direct(d, p)
    <3>1. CASE d = c
      BY Zenon, <1>2, <1>3, <3>1 DEF Direct
    <3>2. CASE d # c
      <4>1. role'[d] = role[d]
        BY Zenon, <2>2, <3>2
      <4>2. Members(d)' = Members(d)
        BY Zenon, <4>1 DEF Members
      <4>3. QED
        BY Zenon, <1>3, <4>2 DEF Direct
    <3>3. QED
      BY Zenon, <3>1, <3>2
  <2>4. DirectsOK'
    BY Zenon, <2>3 DEF ChannelsInv, DirectsOK
  <2> DEFINE v == [req[r] EXCEPT !.pc = "touch"]
  <2>5. v \in Reqs /\ v.pc = "touch" /\ v.ch = c
    BY Zenon, <1>1, <1>2 DEF Reqs
  <2>6. req' = [req EXCEPT ![r] = v]
    BY Zenon, <2>1 DEF Step
  <2> HIDE DEF v
  <2>7. req'[r] = v
    BY Zenon, <1>1, <2>6 DEF ChannelsType
  <2>8. ReqOK(r)'
    BY Zenon, <2>5, <2>7 DEF ReqOK
  <2>9. None \notin Request
    BY Zenon, ChannelsAssumption
  <2>10. \A d \in Channel : chanLock[d] \in Request \ {r} => d # c
    BY Zenon, <1>3, <2>9
  <2>11. QED
    BY Zenon, <1>1, <1>3, <2>2, <2>3, <2>4, <2>5, <2>6, <2>8, <2>10, MovesWith DEF ChannelsType
<1>6. QED
  BY Zenon, <1>4, <1>5

\* removeMember takes a row lock that is free.
LEMMA RemoveLockKeeps ==
    ASSUME ChannelsInv, NEW r \in Request, RemoveLock(r)
    PROVE  ChannelsInv'
<1>1. ChannelsType /\ ReqOK(r) /\ req[r] \in Reqs /\ req[r].pc = "lock row"
  BY Zenon DEF ChannelsInv, ChannelsType, RemoveLock
<1>2. PICK c \in Channel, u \in User : c = req[r].ch /\ u = req[r].who /\ kind[c] # "none"
  BY Zenon, <1>1 DEF ReqOK
<1>3. /\ UNCHANGED <<kind, role, later, pairLock>> /\ chanLock[c] = None
      /\ chanLock' = [chanLock EXCEPT ![c] = r] /\ Step(r, "delete")
  BY Zenon, <1>2 DEF RemoveLock, rows
<1>4. \A d \in Channel, p \in Pair : Direct(d, p)' <=> Direct(d, p)
  BY Zenon, <1>3 DEF Direct, Members
<1>5. DirectsOK'
  BY Zenon, <1>4 DEF ChannelsInv, DirectsOK
<1>6. /\ chanLock' \in [Channel -> Request \cup {None}] /\ chanLock'[c] = r
      /\ \A d \in Channel \ {c} : chanLock'[d] = chanLock[d]
  BY Zenon, <1>1, <1>3 DEF ChannelsType
<1> DEFINE v == [req[r] EXCEPT !.pc = "delete"]
<1>7. v \in Reqs /\ v.pc = "delete" /\ v.ch = c /\ v.who = u
  BY Zenon, <1>1, <1>2 DEF Reqs
<1>8. req' = [req EXCEPT ![r] = v]
  BY Zenon, <1>3 DEF Step
<1> HIDE DEF v
<1>9. req'[r] = v
  BY Zenon, <1>1, <1>8 DEF ChannelsType
<1>10. ReqOK(r)'
  BY Zenon, <1>2, <1>3, <1>6, <1>7, <1>9 DEF ReqOK
<1>11. None \notin Request
  BY Zenon, ChannelsAssumption
<1>12. \A d \in Channel : chanLock[d] \in Request \ {r} => chanLock'[d] = chanLock[d]
  BY Zenon, <1>3, <1>6, <1>11
<1>13. QED
  BY Zenon, <1>1, <1>3, <1>4, <1>5, <1>6, <1>7, <1>8, <1>10, <1>12, MovesWith DEF ChannelsType

\* Giving a row lock back takes it from nobody else.
LEMMA RowFreed ==
    ASSUME ChannelsInv, NEW r \in Request, NEW c \in Channel, chanLock[c] = r,
           chanLock' = [chanLock EXCEPT ![c] = None]
    PROVE  /\ chanLock' \in [Channel -> Request \cup {None}]
           /\ \A d \in Channel : chanLock[d] \in Request \ {r} =>
                 d # c /\ chanLock'[d] = chanLock[d]
BY Zenon DEF ChannelsInv, ChannelsType

\* removeMember's DELETE and its search for the one to promote.
LEMMA RemoveDeleteKeeps ==
    ASSUME ChannelsInv, NEW r \in Request, RemoveDelete(r)
    PROVE  ChannelsInv'
<1>1. ChannelsType /\ ReqOK(r) /\ req[r] \in Reqs /\ req[r].pc = "delete"
  BY Zenon DEF ChannelsInv, ChannelsType, RemoveDelete
<1>2. PICK c \in Channel, u \in User :
         c = req[r].ch /\ u = req[r].who /\ kind[c] # "none" /\ chanLock[c] = r
  BY Zenon, <1>1 DEF ReqOK
<1>3. UNCHANGED <<kind, role, later, pairLock>>
  BY Zenon DEF RemoveDelete, rows
<1>4. \A d \in Channel, p \in Pair : Direct(d, p)' <=> Direct(d, p)
  BY Zenon, <1>3 DEF Direct, Members
<1>5. DirectsOK'
  BY Zenon, <1>4 DEF ChannelsInv, DirectsOK
<1>6. ASSUME Done(r), chanLock' = [chanLock EXCEPT ![c] = None] PROVE ChannelsInv'
  <2>1. Idle \in Reqs /\ Idle.pc = "idle"
    BY Zenon DEF Idle, Reqs
  <2>2. req' = [req EXCEPT ![r] = Idle] /\ req'[r] = Idle
    BY Zenon, <1>1, <1>6 DEF Done, ChannelsType
  <2>3. ReqOK(r)'
    BY Zenon, <2>1, <2>2 DEF ReqOK
  <2>4. /\ chanLock' \in [Channel -> Request \cup {None}]
        /\ \A d \in Channel : chanLock[d] \in Request \ {r} => chanLock'[d] = chanLock[d]
    BY Zenon, <1>2, <1>6, RowFreed
  <2>5. QED
    BY Zenon, <1>1, <1>3, <1>4, <1>5, <2>1, <2>2, <2>3, <2>4, MovesWith DEF ChannelsType
<1>7. ASSUME NEW p \in Promote(c, u), UNCHANGED chanLock,
             req' = [req EXCEPT ![r] = [@ EXCEPT !.pc = "commit", !.set = p]]
      PROVE  ChannelsInv'
  <2>1. p \subseteq User
    BY <1>7 DEF Promote, Oldest, Members
  <2> DEFINE v == [req[r] EXCEPT !.pc = "commit", !.set = p]
  <2>2. v \in Reqs /\ v.pc = "commit" /\ v.ch = c /\ v.who = u /\ v.set = p
    BY Zenon, <1>1, <1>2, <2>1 DEF Reqs
  <2>3. req' = [req EXCEPT ![r] = v]
    BY Zenon, <1>7
  <2> HIDE DEF v
  <2>4. req'[r] = v
    BY Zenon, <1>1, <2>3 DEF ChannelsType
  <2>5. Promote(c, u)' = Promote(c, u)
    <3>1. Members(c)' = Members(c) /\ Admins(c)' = Admins(c)
      BY Zenon, <1>3 DEF Members, Admins
    <3>2. PICK S \in SUBSET User : S = Members(c) \ {u}
      BY Zenon DEF Members
    <3>3. later' = later
      BY Zenon, <1>3
    <3>4. Oldest(c, S)' = Oldest(c, S)
      BY Zenon, <3>3 DEF Oldest
    <3>5. S = Members(c)' \ {u} /\ role' = role
      BY Zenon, <1>3, <3>1, <3>2
    <3>6. QED
      BY Zenon, <3>1, <3>2, <3>4, <3>5 DEF Promote
  <2>6. p \in Promote(c, u)'
    BY Zenon, <1>7, <2>5
  <2>7. /\ req'[r].pc = "commit" /\ req'[r].ch = c /\ req'[r].who = u /\ req'[r].set = p
        /\ kind'[c] # "none" /\ chanLock'[c] = r
    BY Zenon, <1>2, <1>3, <1>7, <2>2, <2>4
  <2>8. ReqOK(r)'
    BY Zenon, <2>6, <2>7 DEF ReqOK
  <2>9. QED
    BY Zenon, <1>1, <1>3, <1>4, <1>5, <1>7, <2>2, <2>3, <2>8, MovesWith DEF ChannelsType
<1>8. QED
  BY Zenon, <1>2, <1>6, <1>7 DEF RemoveDelete

\* The one promoted is another member, and there is one if no admin stays.
LEMMA Promoted ==
    ASSUME NEW c \in Channel, NEW u \in User, NEW s \in Promote(c, u)
    PROVE  /\ s \subseteq Members(c) \ {u}
           /\ role[c][u] = "ADMIN" /\ Admins(c) \ {u} = {} /\ Members(c) # {u} => s # {}
<1>1. \A S : Oldest(c, S) \subseteq S
  BY Zenon DEF Oldest
<1>2. QED
  BY <1>1 DEF Promote

\* What removeMember's commit does to the rows.
LEMMA Committed ==
    ASSUME ChannelsInv, NEW r \in Request, RemoveCommit(r)
    PROVE  \E c \in Channel, u \in User, s \in SUBSET User :
              /\ s \in Promote(c, u) /\ c = req[r].ch /\ chanLock[c] = r
              /\ role' \in [Channel -> [User -> {"none", "MEMBER", "ADMIN"}]]
              /\ \A d \in Channel \ {c} : role'[d] = role[d]
              /\ role'[c][u] = "none"
              /\ \A v \in s : role'[c][v] = "ADMIN"
              /\ \A v \in User : v # u /\ v \notin s => role'[c][v] = role[c][v]
<1>1. ChannelsType /\ ReqOK(r) /\ req[r].pc = "commit" /\ req[r].set \in SUBSET User
  BY Zenon DEF ChannelsInv, ChannelsType, Reqs, RemoveCommit
<1>2. PICK c \in Channel, u \in User, s \in SUBSET User :
         s \in Promote(c, u) /\ c = req[r].ch /\ u = req[r].who /\ s = req[r].set /\ chanLock[c] = r
  BY Zenon, <1>1 DEF ReqOK
<1> DEFINE f == [v \in User |->
                   CASE v = u -> "none" [] v \in s -> "ADMIN" [] OTHER -> role[c][v]]
<1>3. role' = [role EXCEPT ![c] = f]
  BY <1>2 DEF RemoveCommit
<1>4. s \subseteq Members(c) \ {u}
  BY SMTT(20), <1>2, Promoted
<1>5. role[c] \in [User -> {"none", "MEMBER", "ADMIN"}]
  BY Zenon, <1>1 DEF ChannelsType
<1>6. f \in [User -> {"none", "MEMBER", "ADMIN"}]
  BY Zenon, <1>5
<1>7. f[u] = "none" /\ (\A v \in s : f[v] = "ADMIN")
      /\ \A v \in User : v # u /\ v \notin s => f[v] = role[c][v]
  <2>1. u \notin s
    BY Zenon, <1>4
  <2>2. QED
    BY Zenon, <2>1
<1> HIDE DEF f
<1>8. /\ role' \in [Channel -> [User -> {"none", "MEMBER", "ADMIN"}]]
      /\ role'[c] = f /\ \A d \in Channel \ {c} : role'[d] = role[d]
  BY Zenon, <1>1, <1>3, <1>6 DEF ChannelsType
<1>9. /\ role'[c][u] = "none"
      /\ \A v \in s : role'[c][v] = "ADMIN"
      /\ \A v \in User : v # u /\ v \notin s => role'[c][v] = role[c][v]
  BY Zenon, <1>7, <1>8
<1>10. WITNESS c \in Channel, u \in User, s \in SUBSET User
<1>11. QED
  BY Zenon, <1>2, <1>8, <1>9

\* removeMember's commit: membership only shrinks.
LEMMA RemoveCommitKeeps ==
    ASSUME ChannelsInv, NEW r \in Request, RemoveCommit(r)
    PROVE  ChannelsInv'
<1>1. ChannelsType /\ req[r] \in Reqs
  BY Zenon DEF ChannelsInv, ChannelsType
<1>2. PICK c \in Channel, u \in User, s \in SUBSET User :
              /\ s \in Promote(c, u) /\ c = req[r].ch /\ chanLock[c] = r
              /\ role' \in [Channel -> [User -> {"none", "MEMBER", "ADMIN"}]]
              /\ \A d \in Channel \ {c} : role'[d] = role[d]
              /\ role'[c][u] = "none"
              /\ \A v \in s : role'[c][v] = "ADMIN"
              /\ \A v \in User : v # u /\ v \notin s => role'[c][v] = role[c][v]
  BY Zenon, Committed
<1>3. /\ UNCHANGED <<kind, pairLock>> /\ Step(r, "invalidate")
      /\ chanLock' = [chanLock EXCEPT ![c] = None]
      /\ DOMAIN later' = Channel /\ \A d \in Channel \ {c} : later'[d] = later[d]
  BY Zenon, <1>1, <1>2 DEF RemoveCommit, ChannelsType
<1>4. s \subseteq Members(c) \ {u}
  BY Zenon, <1>2, Promoted
<1>5. \A v \in User : role'[c][v] # "none" => role[c][v] # "none"
  BY Zenon, <1>2, <1>4 DEF Members
<1>6. ASSUME NEW d \in Channel, NEW p \in Pair, Direct(d, p)' PROVE Direct(d, p)
  <2>1. Members(d)' \subseteq Members(d)
    <3>1. CASE d = c
      BY Zenon, <1>5, <3>1 DEF Members
    <3>2. CASE d # c
      BY Zenon, <1>2, <3>2 DEF Members
    <3>3. QED
      BY Zenon, <3>1, <3>2
  <2>2. QED
    BY Zenon, <1>3, <1>6, <2>1 DEF Direct
<1>7. DirectsOK'
  BY Zenon, <1>6 DEF ChannelsInv, DirectsOK
<1>8. /\ chanLock' \in [Channel -> Request \cup {None}]
      /\ \A d \in Channel : chanLock[d] \in Request \ {r} =>
            d # c /\ chanLock'[d] = chanLock[d]
  BY Zenon, <1>2, <1>3, RowFreed
<1> DEFINE v == [req[r] EXCEPT !.pc = "invalidate"]
<1>9. v \in Reqs /\ v.pc = "invalidate" /\ v.ch = c
  BY Zenon, <1>1, <1>2 DEF Reqs
<1>10. req' = [req EXCEPT ![r] = v]
  BY Zenon, <1>3 DEF Step
<1> HIDE DEF v
<1>11. req'[r] = v
  BY Zenon, <1>1, <1>10 DEF ChannelsType
<1>12. ReqOK(r)'
  BY Zenon, <1>9, <1>11 DEF ReqOK
<1>13. QED
  BY Zenon, <1>1, <1>2, <1>3, <1>6, <1>7, <1>8, <1>9, <1>10, <1>12, MovesWith DEF ChannelsType
-----------------------------------------------------------------------------
\* Every step keeps the invariant.
LEMMA ChannelsStep == ChannelsInv /\ [Next]_vars => ChannelsInv'
<1> SUFFICES ASSUME ChannelsInv, [Next]_vars PROVE ChannelsInv'
  BY Zenon
<1>1. CASE UNCHANGED vars
  BY Zenon, <1>1, NothingMoves DEF vars
<1>2. ASSUME NEW r \in Request, Start(r) PROVE ChannelsInv'
  BY Zenon, <1>2, CreateGroupKeeps, CreateDirectKeeps, PlainStarts DEF Start
<1>3. ASSUME NEW r \in Request, Continue(r) PROVE ChannelsInv'
  BY Zenon, <1>3, DirectFindKeeps, DirectInsertKeeps, AddInsertKeeps, RemoveLockKeeps,
     RemoveDeleteKeeps, RemoveCommitKeeps, PlainSteps DEF Continue
<1>4. ASSUME NEW u \in Client, ConnectRead(u) \/ ConnectJoin(u) \/ Disconnect(u)
      PROVE  ChannelsInv'
  BY Zenon, <1>4, NothingMoves DEF ConnectRead, ConnectJoin, Disconnect, rows, locks
<1>5. ASSUME NEW c \in Channel, CacheExpire(c) PROVE ChannelsInv'
  BY Zenon, <1>5, NothingMoves DEF CacheExpire, rows, locks
<1>6. QED
  BY Zenon, <1>1, <1>2, <1>3, <1>4, <1>5 DEF Next

\* A step that changes the roles of a channel makes the channel, adds a member
\* or commits a removal.
LEMMA RoleSteps ==
    ASSUME [Next]_vars
    PROVE  \/ UNCHANGED role
           \/ \E r \in Request, c \in Channel, u \in User, others \in SUBSET User :
                 CreateGroup(r, c, u, others)
           \/ \E r \in Request, c \in Channel : DirectInsert(r, c)
           \/ \E r \in Request, as \in {"ADMIN", "MEMBER"} : AddInsert(r, as)
           \/ \E r \in Request : RemoveCommit(r)
<1>1. CASE UNCHANGED vars
  BY Zenon, <1>1 DEF vars
<1>2. ASSUME NEW r \in Request, NEW c \in Channel,
             \/ \E u, v \in User : AddMember(r, c, u, v) \/ RemoveMember(r, c, u, v)
             \/ \E u \in User : Archive(r, c, u)
             \/ FillBegin(r, c)
             \/ \E u \in User, op \in {"enter", "exit"} : AskMember(r, c, u, op)
      PROVE  UNCHANGED role
  BY Zenon, <1>2 DEF AddMember, RemoveMember, Archive, FillBegin, AskMember, rows
<1>3. ASSUME NEW r \in Request, NEW u \in User, NEW v \in User, CreateDirect(r, u, v)
      PROVE  UNCHANGED role
  BY Zenon, <1>3 DEF CreateDirect, rows
<1>4. ASSUME NEW r \in Request,
             \/ DirectFind(r) \/ SetMembers(r) \/ JoinRooms(r) \/ AddCount(r) \/ AddTouch(r)
             \/ RemoveLock(r) \/ RemoveDelete(r) \/ Invalidate(r) \/ LeaveRoom(r)
             \/ ArchiveRead(r) \/ ArchiveWrite(r) \/ FillRead(r) \/ EnterRoom(r) \/ ExitRoom(r)
      PROVE  UNCHANGED role
  BY Zenon, <1>4 DEF DirectFind, SetMembers, JoinRooms, AddCount, AddTouch, RemoveLock, RemoveDelete,
              Invalidate, LeaveRoom, ArchiveRead, ArchiveWrite, FillRead, EnterRoom,
              ExitRoom, rows
<1>5. ASSUME NEW u \in Client, ConnectRead(u) \/ ConnectJoin(u) \/ Disconnect(u)
      PROVE  UNCHANGED role
  BY Zenon, <1>5 DEF ConnectRead, ConnectJoin, Disconnect, rows
<1>6. ASSUME NEW c \in Channel, CacheExpire(c) PROVE UNCHANGED role
  BY Zenon, <1>6 DEF CacheExpire, rows
<1>7. QED
  BY Zenon, <1>1, <1>2, <1>3, <1>4, <1>5, <1>6 DEF Next, Start, Continue

\* An insert leaves the roles of the channels there are alone, addMember keeps
\* every role, and a commit promotes when it takes the last admin away.
LEMMA AdminStep ==
    ASSUME ChannelsInv, [Next]_vars, NEW c \in Channel, Admins(c) # {}
    PROVE  Admins(c)' # {} \/ Members(c)' = {}
<1>1. PICK a \in User : role[c][a] = "ADMIN"
  BY Zenon DEF Admins
<1>2. ChannelsType
  BY Zenon DEF ChannelsInv
<1>3. ASSUME role'[c] = role[c] PROVE Admins(c)' # {}
  BY Zenon, <1>1, <1>3 DEF Admins
<1>4. ASSUME NEW r \in Request, NEW d \in Channel, NEW u \in User, NEW others \in SUBSET User,
             CreateGroup(r, d, u, others)
      PROVE  Admins(c)' # {}
  <2>1. u \notin others /\ InsertChannel(d, u, others, "GROUP")
    BY Zenon, <1>4 DEF CreateGroup
  <2>2. u \in Admins(d)' /\ \A e \in Channel \ {d} : role'[e] = role[e]
    BY Zenon, <2>1, Inserted
  <2>3. QED
    BY Zenon, <1>3, <2>2
<1>5. ASSUME NEW r \in Request, NEW d \in Channel, DirectInsert(r, d)
      PROVE  Admins(c)' # {}
  <2>1. ReqOK(r) /\ req[r].pc = "insert"
    BY Zenon, <1>5 DEF ChannelsInv, DirectInsert
  <2>2. PICK u \in User, w \in User : u = req[r].by /\ w = req[r].who /\ {u, w} \in Pair
    BY Zenon, <2>1 DEF ReqOK
  <2>3. u \notin {w} /\ {w} \in SUBSET User
    BY <2>2 DEF Pair
  <2>4. InsertChannel(d, u, {w}, "DIRECT")
    BY Zenon, <1>5, <2>2 DEF DirectInsert
  <2>5. u \in Admins(d)' /\ \A e \in Channel \ {d} : role'[e] = role[e]
    BY Zenon, <2>3, <2>4, Inserted
  <2>6. QED
    BY Zenon, <1>3, <2>5
<1>6. ASSUME NEW r \in Request, NEW as \in {"ADMIN", "MEMBER"}, AddInsert(r, as)
      PROVE  Admins(c)' # {}
  <2>1. ReqOK(r) /\ req[r].pc = "add"
    BY Zenon, <1>6 DEF ChannelsInv, AddInsert
  <2>2. PICK d \in Channel, u \in User : d = req[r].ch /\ u = req[r].who
    BY Zenon, <2>1 DEF ReqOK
  <2>3. UNCHANGED role \/ (role[d][u] = "none" /\ role' = [role EXCEPT ![d][u] = as])
    BY Zenon, <1>6, <2>2 DEF AddInsert, rows
  <2>4. CASE UNCHANGED role
    BY Zenon, <1>3, <2>4
  <2>5. CASE role[d][u] = "none" /\ role' = [role EXCEPT ![d][u] = as]
    <3>1. /\ \A e \in Channel \ {d} : role'[e] = role[e]
          /\ role'[d] = [role[d] EXCEPT ![u] = as]
      BY Zenon, <1>2, <2>5 DEF ChannelsType
    <3>2. CASE c # d
      BY Zenon, <1>3, <3>1, <3>2
    <3>3. CASE c = d
      <4>1. role[c] \in [User -> {"none", "MEMBER", "ADMIN"}] /\ a # u
        BY Zenon, <1>1, <1>2, <2>5, <3>3 DEF ChannelsType
      <4>2. role'[c][a] = "ADMIN"
        BY Zenon, <1>1, <3>1, <3>3, <4>1
      <4>3. QED
        BY Zenon, <4>2 DEF Admins
    <3>4. QED
      BY Zenon, <3>2, <3>3
  <2>6. QED
    BY Zenon, <2>3, <2>4, <2>5
<1>7. ASSUME NEW r \in Request, RemoveCommit(r)
      PROVE  Admins(c)' # {} \/ Members(c)' = {}
  <2>1. PICK d \in Channel, u \in User, s \in SUBSET User :
              /\ s \in Promote(d, u) /\ d = req[r].ch /\ chanLock[d] = r
              /\ role' \in [Channel -> [User -> {"none", "MEMBER", "ADMIN"}]]
              /\ \A e \in Channel \ {d} : role'[e] = role[e]
              /\ role'[d][u] = "none"
              /\ \A v \in s : role'[d][v] = "ADMIN"
              /\ \A v \in User : v # u /\ v \notin s => role'[d][v] = role[d][v]
    BY Zenon, <1>7, Committed
  <2>2. CASE c # d
    BY Zenon, <1>3, <2>1, <2>2
  <2>3. CASE c = d /\ s # {}
    BY Zenon, <2>1, <2>3 DEF Admins
  <2>4. CASE c = d /\ s = {}
    <3>1. ~(role[c][u] = "ADMIN" /\ Admins(c) \ {u} = {} /\ Members(c) # {u})
      BY Zenon, <2>1, <2>4, Promoted
    <3>2. CASE a # u
      <4>1. role'[c][a] = "ADMIN"
        BY Zenon, <1>1, <2>1, <2>4, <3>2
      <4>2. QED
        BY Zenon, <4>1 DEF Admins
    <3>3. CASE a = u /\ Admins(c) \ {u} # {}
      <4>1. PICK b \in User : b # u /\ role[c][b] = "ADMIN"
        BY Zenon, <3>3 DEF Admins
      <4>2. role'[c][b] = "ADMIN"
        BY Zenon, <2>1, <2>4, <4>1
      <4>3. QED
        BY Zenon, <4>2 DEF Admins
    <3>4. CASE Members(c) = {u}
      <4>1. \A v \in User : role'[c][v] = "none"
        BY Zenon, <2>1, <2>4, <3>4 DEF Members
      <4>2. QED
        BY Zenon, <4>1 DEF Members
    <3>5. QED
      BY Zenon, <1>1, <3>1, <3>2, <3>3, <3>4
  <2>5. QED
    BY Zenon, <2>2, <2>3, <2>4
<1>8. QED
  BY Zenon, <1>3, <1>4, <1>5, <1>6, <1>7, RoleSteps

\* What requests in flight hold and know is always as ReqOK says, and no pair
\* has two DIRECT channels.
THEOREM ChannelsInvTheorem == Spec => []ChannelsInv
BY ChannelsInit, ChannelsStep, PTL DEF Spec

\* removeMember: whoever leaves or is removed at the same time, a channel with
\* an admin keeps one as long as it has members.
THEOREM AdminTheorem == Spec => AdminIsKept
<1> DEFINE Kept == \A c \in Channel : Admins(c) # {} => Admins(c)' # {} \/ Members(c)' = {}
<1>1. ASSUME ChannelsInv, [Next]_vars PROVE Kept
  <2>1. SUFFICES ASSUME NEW c \in Channel, Admins(c) # {}
                 PROVE  Admins(c)' # {} \/ Members(c)' = {}
    BY Zenon
  <2>2. QED
    BY Zenon, <1>1, <2>1, AdminStep
<1>2. ChannelsInv /\ [Next]_vars => [Kept]_vars
  BY Zenon, <1>1
<1>3. QED
  BY <1>2, ChannelsInvTheorem, PTL DEF Spec, AdminIsKept

-----------------------------------------------------------------------------
\* The copies of a membership: the cached sets, the rooms and what a connecting
\* socket read.
Sockets == [st : {"off", "joining", "on"}, list : SUBSET Channel]

CopyType ==
    /\ cache \in [Channel -> SUBSET User]
    /\ room \in [Channel -> SUBSET User]
    /\ sock \in [User -> Sockets]

\* The row of u in c.
In(c, u) == role[c][u] # "none"

\* Which handler a request is, by where it stands.
Shape(q) ==
    /\ q.pc \notin {"idle", "find", "insert"} => kind[q.ch] # "none"
    /\ q.pc \in {"find", "insert"} => q.op = "direct"
    /\ q.pc \in {"count", "add"} => q.op = "add" /\ q.set = {q.who}
    /\ q.pc \in {"lock row", "delete", "commit"} => q.op = "remove"
    /\ q.pc = "read rows" => q.op \in {"fill", "enter", "exit"}
    /\ q.op \in {"enter", "exit"} => q.who \in User
    /\ q.op = "exit" => <<q.ch, q.who>> \in adrift
    /\ q.pc = "exit" => q.op = "exit"
    /\ q.pc = "cache" => q.op \in {"group", "direct", "fill", "enter", "exit"}
    /\ q.pc \in {"cache", "join"} /\ q.op \in {"group", "direct"} => q.by \in q.set
    /\ q.pc = "join" => q.op \in {"group", "direct"} \/ (q.op = "add" /\ q.set = {q.who})
    /\ q.pc = "touch" => q.op = "add" /\ q.set = {q.who}
    /\ q.pc = "invalidate" => (q.op = "add" /\ q.set = {q.who}) \/ q.op = "remove"
    /\ q.pc \in {"touch", "invalidate", "leave", "enter"} => q.who \in User

\* Fills and Steers, of what a request holds.
Fill(q, c) == q.ch = c /\ q.pc = "cache"

Steer(q, c, u) ==
    /\ q.ch = c
    /\ \/ q.pc = "cache" /\ q.op \in {"group", "direct"} /\ u \in q.set
       \/ q.pc = "cache" /\ q.op \in {"enter", "exit"} /\ u = q.who
       \/ q.pc = "join" /\ u \in q.set
       \/ q.pc \in {"touch", "invalidate", "enter", "exit", "leave"} /\ u = q.who

\* q is on its way to join u's socket, or to make it leave.
Ins(q, u) ==
    \/ q.pc = "cache" /\ q.op \in {"group", "direct"} /\ u \in q.set
    \/ q.pc = "cache" /\ q.op \in {"enter", "exit"} /\ u = q.who /\ u \in q.set
    \/ q.pc = "join" /\ u \in q.set
    \/ q.pc = "enter" /\ u = q.who
    \/ q.pc \in {"touch", "invalidate"} /\ q.op = "add" /\ u = q.who

Outs(q, u) ==
    \/ q.pc = "invalidate" /\ q.op = "remove" /\ u = q.who
    \/ q.pc = "leave" /\ u = q.who

\* What it is about to write is still true of the rows, of every user the
\* history does not name.
Facts(q) ==
    \A u \in User :
        /\ q.pc = "cache" /\ <<q.ch, u>> \notin stale => (u \in q.set <=> In(q.ch, u))
        /\ <<q.ch, u>> \notin adrift => (Ins(q, u) => In(q.ch, u)) /\ (Outs(q, u) => ~In(q.ch, u))

\* Who repairs which copy: the cached set by a DEL, a room joined, a room left.
Invals(q, c, u) == q.ch = c /\ q.pc \in {"touch", "invalidate"} /\ q.who = u

Joins(q, c, u) ==
    /\ q.ch = c
    /\ \/ q.pc = "join" /\ u \in q.set
       \/ q.pc \in {"touch", "invalidate"} /\ q.op = "add" /\ q.who = u
       \/ q.pc = "cache" /\ q.op \in {"group", "direct"} /\ u \in q.set

Leaves(q, c, u) ==
    /\ q.ch = c /\ q.who = u
    /\ q.pc = "leave" \/ (q.pc = "invalidate" /\ q.op = "remove")

\* A copy that differs from the row has a request on its way to repair it.
CacheOK(c, u) ==
    <<c, u>> \notin stale /\ cache[c] # {} =>
        (u \in cache[c] <=> In(c, u)) \/ \E q \in Request : Invals(req[q], c, u)

RoomOK(c, u) ==
    <<c, u>> \notin adrift =>
        /\ sock[u].st = "on" /\ In(c, u) /\ u \notin room[c] => \E q \in Request : Joins(req[q], c, u)
        /\ sock[u].st = "on" /\ ~In(c, u) /\ u \in room[c] => \E q \in Request : Leaves(req[q], c, u)
        /\ sock[u].st = "joining" => (c \in sock[u].list <=> In(c, u))

\* Only a connected socket is in a room; a channel not yet made has no copies.
RestOK == \A c \in Channel, u \in User : sock[u].st # "on" => u \notin room[c]

BlankOK == \A c \in Channel : kind[c] = "none" => cache[c] = {} /\ \A u \in User : ~In(c, u)

\* The invariant behind CacheFollowsRows and RoomFollowsRows.
CopiesInv ==
    /\ CopyType /\ RestOK /\ BlankOK
    /\ \A r \in Request : Shape(req[r]) /\ Facts(req[r])
    /\ \A c \in Channel, u \in User : CacheOK(c, u) /\ RoomOK(c, u)

\* What is pending is what CacheDue and RoomDue say.
LEMMA CopiesFollow ==
    ASSUME CopiesInv
    PROVE  CacheFollowsRows /\ RoomFollowsRows
<1>1. ASSUME NEW c \in Channel, NEW u \in User
      PROVE  (u \in Members(c) <=> In(c, u)) /\ CacheOK(c, u) /\ RoomOK(c, u)
  BY Zenon DEF Members, In, CopiesInv
<1>2. ASSUME NEW c \in Channel, NEW u \in User, ~CacheDue(c, u), <<c, u>> \notin stale, cache[c] # {}
      PROVE  u \in cache[c] <=> u \in Members(c)
  <2>1. \A r \in Request : ~Invals(req[r], c, u)
    BY Zenon, <1>2 DEF CacheDue, Invals
  <2>2. QED
    BY Zenon, <1>1, <1>2, <2>1 DEF CacheOK
<1>3. ASSUME NEW c \in Channel, NEW u \in User, ~RoomDue(c, u), <<c, u>> \notin adrift, sock[u].st = "on"
      PROVE  u \in room[c] <=> u \in Members(c)
  <2>1. \A r \in Request : ~Joins(req[r], c, u) /\ ~Leaves(req[r], c, u)
    BY Zenon, <1>3 DEF RoomDue, Joins, Leaves
  <2>2. QED
    BY Zenon, <1>1, <1>3, <2>1 DEF RoomOK
<1>4. QED
  BY Zenon, <1>2, <1>3 DEF CacheFollowsRows, RoomFollowsRows

\* At rest the cached set is right or absent, and no socket is connected.
LEMMA CopiesInit == Init => CopiesInv
<1> SUFFICES ASSUME Init PROVE CopiesInv
  BY Zenon
<1>1. /\ req = [r \in Request |-> Idle] /\ sock = [u \in User |-> NoSocket] /\ room = [c \in Channel |-> {}]
      /\ cache \in {[c \in Channel |-> {}], [c \in Channel |-> Members(c)]}
  BY Zenon DEF Init
<1>2. CopyType /\ RestOK
  BY Zenon, <1>1 DEF CopyType, RestOK, NoSocket, Sockets, Members
<1>3. \A c \in Channel : kind[c] = "none" => \A u \in User : ~In(c, u)
  <2>1. CASE Empty
    BY Zenon, <2>1 DEF Empty, In
  <2>2. ASSUME NEW d \in Channel, NEW u \in User, NEW added, Founded(d, u, added),
               NEW c \in Channel, kind[c] = "none", NEW w \in User
        PROVE  ~In(c, w)
    <3>1. c # d
      BY Zenon, <2>2 DEF Founded
    <3>2. PICK as \in [{added[i] : i \in DOMAIN added} -> {"MEMBER", "ADMIN"}] :
             role = [e \in Channel |-> [v \in User |->
                     IF e # d THEN "none" ELSE CASE v = u -> "ADMIN" [] v \in DOMAIN as -> as[v] [] OTHER -> "none"]]
      BY Zenon, <2>2 DEF Founded
    <3>3. role[c][w] = IF c # d THEN "none" ELSE CASE w = u -> "ADMIN" [] w \in DOMAIN as -> as[w] [] OTHER -> "none"
      BY Zenon, <3>2
    <3>4. role[c][w] = "none"
      BY Zenon, <3>1, <3>3
    <3>5. QED
      BY Zenon, <3>4 DEF In
  <2>3. QED
    BY Zenon, <2>1, <2>2 DEF Init
<1>4. \A c \in Channel : cache[c] = {} \/ \A u \in User : u \in cache[c] <=> In(c, u)
  BY Zenon, <1>1 DEF Members, In
<1>5. BlankOK
  BY Zenon, <1>2, <1>3, <1>4 DEF BlankOK, CopyType
<1>6. \A r \in Request : req[r] = Idle
  BY Zenon, <1>1
<1>7. Shape(Idle) /\ Facts(Idle)
  BY Zenon DEF Idle, Shape, Facts, Ins, Outs
<1>8. ASSUME NEW c \in Channel, NEW u \in User PROVE CacheOK(c, u) /\ RoomOK(c, u)
  BY Zenon, <1>1, <1>4 DEF CacheOK, RoomOK, NoSocket
<1>9. QED
  BY Zenon, <1>2, <1>5, <1>6, <1>7, <1>8 DEF CopiesInv

\* A request that does not move still tells the truth when the history names
\* every change of a row it is about, and forgets none.
LEMMA FactsKept ==
    ASSUME ChannelsInv, CopiesInv, NEW r \in Request, req'[r] = req[r],
           \A c \in Channel : kind[c] # "none" => kind'[c] = kind[c],
           \A c \in Channel, u \in User : Fill(req[r], c) =>
               /\ (In(c, u)' <=> In(c, u)) \/ <<c, u>> \in stale'
               /\ <<c, u>> \in stale => <<c, u>> \in stale',
           \A c \in Channel, u \in User : Steer(req[r], c, u) =>
               /\ (In(c, u)' <=> In(c, u)) \/ <<c, u>> \in adrift'
               /\ <<c, u>> \in adrift => <<c, u>> \in adrift',
           req[r].op = "exit" /\ <<req[r].ch, req[r].who>> \in adrift =>
               <<req[r].ch, req[r].who>> \in adrift'
    PROVE  Shape(req[r])' /\ Facts(req[r])'
<1>1. Shape(req[r]) /\ Facts(req[r]) /\ ReqOK(r)
  BY Zenon DEF CopiesInv, ChannelsInv
<1>2. PICK q \in Reqs : q = req[r]
  BY Zenon DEF ChannelsInv, ChannelsType
<1>3. q.pc \notin {"idle", "find", "insert"} => q.ch \in Channel
  BY Zenon, <1>1, <1>2 DEF ReqOK
<1>4. Shape(q) /\ Facts(q)
  BY Zenon, <1>1, <1>2
<1>5. q.op = "exit" => <<q.ch, q.who>> \in adrift'
  BY Zenon, <1>2, <1>4 DEF Shape
<1>6. Shape(q)'
  BY Zenon, <1>3, <1>4, <1>5 DEF Shape
<1>7. ASSUME NEW u \in User, q.pc = "cache", <<q.ch, u>> \notin stale'
      PROVE  u \in q.set <=> In(q.ch, u)'
  <2>1. q.ch \in Channel /\ Fill(q, q.ch)
    BY Zenon, <1>3, <1>7 DEF Fill
  <2>2. <<q.ch, u>> \notin stale /\ (In(q.ch, u)' <=> In(q.ch, u))
    BY Zenon, <1>2, <1>7, <2>1
  <2>3. QED
    BY Zenon, <1>4, <1>7, <2>2 DEF Facts
<1>8. ASSUME NEW u \in User, <<q.ch, u>> \notin adrift', Ins(q, u) \/ Outs(q, u)
      PROVE  (Ins(q, u) => In(q.ch, u)') /\ (Outs(q, u) => ~In(q.ch, u)')
  <2>1. q.ch \in Channel /\ Steer(q, q.ch, u)
    BY Zenon, <1>3, <1>8 DEF Ins, Outs, Steer
  <2>2. <<q.ch, u>> \notin adrift /\ (In(q.ch, u)' <=> In(q.ch, u))
    BY Zenon, <1>2, <1>8, <2>1
  <2>3. QED
    BY Zenon, <1>4, <2>2 DEF Facts
<1>9. Facts(q)'
  BY Zenon, <1>7, <1>8 DEF Facts, Ins, Outs
<1>10. req'[r] = q
  BY Zenon, <1>2
<1>11. QED
  BY Zenon, <1>6, <1>9, <1>10 DEF Shape, Facts, Ins, Outs

\* A pair whose row does not change keeps a repairer for each copy that differs;
\* the history forgets a cached set that is gone and a socket that is.
LEMMA CacheKept ==
    ASSUME CopiesInv, NEW c \in Channel, NEW u \in User,
           <<c, u>> \in stale => <<c, u>> \in stale' \/ cache'[c] = {},
           In(c, u)' <=> In(c, u),
           \A q \in Request : Invals(req[q], c, u) =>
               Invals(req[q], c, u)' \/ cache'[c] = {} \/ <<c, u>> \in stale',
           cache'[c] \in {cache[c], {}} \/ (<<c, u>> \notin stale' => (u \in cache'[c] <=> In(c, u)))
    PROVE  CacheOK(c, u)'
<1>1. CacheOK(c, u)
  BY Zenon DEF CopiesInv
<1>2. QED
  BY Zenon, <1>1 DEF CacheOK

\* ... and so for the rooms.
LEMMA RoomKept ==
    ASSUME CopiesInv, NEW c \in Channel, NEW u \in User,
           <<c, u>> \in adrift => <<c, u>> \in adrift' \/ sock'[u].st = "off",
           In(c, u)' <=> In(c, u),
           \A q \in Request : Joins(req[q], c, u) =>
               Joins(req[q], c, u)' \/ <<c, u>> \in adrift' \/ u \in room'[c] \/ sock'[u].st # "on",
           \A q \in Request : Leaves(req[q], c, u) =>
               Leaves(req[q], c, u)' \/ <<c, u>> \in adrift' \/ u \notin room'[c],
           <<c, u>> \notin adrift' =>
               \/ sock'[u] = sock[u] /\ (u \in room'[c] <=> u \in room[c])
               \/ sock'[u].st = "on" /\ (u \in room'[c] <=> In(c, u))
               \/ sock'[u].st = "joining" /\ (c \in sock'[u].list <=> In(c, u))
               \/ sock'[u].st = "off"
    PROVE  RoomOK(c, u)'
<1> SUFFICES ASSUME <<c, u>> \notin adrift', sock'[u].st # "off"
             PROVE  /\ sock'[u].st = "on" /\ In(c, u)' /\ u \notin room'[c] => \E q \in Request : Joins(req[q], c, u)'
                    /\ sock'[u].st = "on" /\ ~In(c, u)' /\ u \in room'[c] => \E q \in Request : Leaves(req[q], c, u)'
                    /\ sock'[u].st = "joining" => (c \in sock'[u].list <=> In(c, u)')
  BY Zenon DEF RoomOK
<1>1. RoomOK(c, u) /\ <<c, u>> \notin adrift
  BY Zenon DEF CopiesInv
<1>2. /\ sock[u].st = "on" /\ In(c, u) /\ u \notin room[c] => \E q \in Request : Joins(req[q], c, u)
      /\ sock[u].st = "on" /\ ~In(c, u) /\ u \in room[c] => \E q \in Request : Leaves(req[q], c, u)
      /\ sock[u].st = "joining" => (c \in sock[u].list <=> In(c, u))
  BY Zenon, <1>1 DEF RoomOK
<1>3. CASE sock'[u] = sock[u] /\ (u \in room'[c] <=> u \in room[c])
  <2>1. sock'[u].st = sock[u].st /\ sock'[u].list = sock[u].list
    BY Zenon, <1>3
  <2>2. ASSUME sock'[u].st = "on", In(c, u)', u \notin room'[c] PROVE \E q \in Request : Joins(req[q], c, u)'
    BY Zenon, <1>2, <1>3, <2>1, <2>2
  <2>3. ASSUME sock'[u].st = "on", ~In(c, u)', u \in room'[c] PROVE \E q \in Request : Leaves(req[q], c, u)'
    BY Zenon, <1>2, <1>3, <2>1, <2>3
  <2>4. sock'[u].st = "joining" => (c \in sock'[u].list <=> In(c, u)')
    BY Zenon, <1>2, <2>1
  <2>5. QED
    BY Zenon, <2>2, <2>3, <2>4
<1>4. CASE sock'[u].st = "on" /\ (u \in room'[c] <=> In(c, u))
  BY Zenon, <1>4
<1>5. CASE sock'[u].st = "joining" /\ (c \in sock'[u].list <=> In(c, u))
  BY Zenon, <1>5
<1>6. QED
  BY Zenon, <1>3, <1>4, <1>5

\* Request r moves to v; the history names the rows it changes where others are
\* about them.
LEMMA CopiesMove ==
    ASSUME ChannelsInv, CopiesInv, NEW r \in Request, NEW v \in Reqs, req' = [req EXCEPT ![r] = v],
           adrift \subseteq adrift',
           \A c \in Channel : kind[c] # "none" => kind'[c] = kind[c],
           \A q \in Request \ {r}, c \in Channel, u \in User : Fill(req[q], c) =>
               /\ (In(c, u)' <=> In(c, u)) \/ <<c, u>> \in stale'
               /\ <<c, u>> \in stale => <<c, u>> \in stale',
           \A q \in Request \ {r}, c \in Channel, u \in User : Steer(req[q], c, u) =>
               (In(c, u)' <=> In(c, u)) \/ <<c, u>> \in adrift',
           CopyType', RestOK', BlankOK', Shape(v)', Facts(v)',
           \A c \in Channel, u \in User : CacheOK(c, u)' /\ RoomOK(c, u)'
    PROVE  CopiesInv'
<1>1. req'[r] = v /\ \A q \in Request \ {r} : req'[q] = req[q]
  BY Zenon DEF ChannelsInv, ChannelsType
<1>2. ASSUME NEW q \in Request \ {r} PROVE Shape(req[q])' /\ Facts(req[q])'
  BY Zenon, <1>1, FactsKept
<1>3. Shape(req[r])' /\ Facts(req[r])'
  BY Zenon, <1>1 DEF Shape, Facts, In, Ins, Outs
<1>4. QED
  BY Zenon, <1>2, <1>3 DEF CopiesInv

\* A request that repairs nothing moves, and no row or copy changes.
LEMMA QuietMove ==
    ASSUME ChannelsInv, CopiesInv, NEW r \in Request, NEW v \in Reqs, req' = [req EXCEPT ![r] = v],
           req[r].pc \notin {"cache", "join", "touch", "invalidate", "leave"},
           stale \subseteq stale', adrift \subseteq adrift',
           UNCHANGED <<kind, role, cache, sock, room>>, Shape(v)', Facts(v)'
    PROVE  CopiesInv'
<1>1. req'[r] = v /\ \A q \in Request \ {r} : req'[q] = req[q]
  BY Zenon DEF ChannelsInv, ChannelsType
<1>2. CopyType' /\ RestOK' /\ BlankOK' /\ \A c \in Channel, u \in User : In(c, u)' <=> In(c, u)
  BY Zenon DEF CopiesInv, CopyType, RestOK, BlankOK, In
<1>3. ASSUME NEW c \in Channel, NEW u \in User PROVE CacheOK(c, u)' /\ RoomOK(c, u)'
  <2>1. \A q \in Request : /\ Invals(req[q], c, u) => Invals(req[q], c, u)'
                           /\ Joins(req[q], c, u) => Joins(req[q], c, u)'
                           /\ Leaves(req[q], c, u) => Leaves(req[q], c, u)'
    BY Zenon, <1>1 DEF Invals, Joins, Leaves
  <2>2. CacheOK(c, u)'
    BY Zenon, <1>2, <2>1, CacheKept
  <2>3. RoomOK(c, u)'
    BY Zenon, <1>2, <2>1, RoomKept
  <2>4. QED
    BY Zenon, <2>2, <2>3
<1>4. QED
  BY Zenon, <1>2, <1>3, CopiesMove

\* Handlers that begin, check, lock or read, and change no row and no copy.
LEMMA CopiesBegin ==
    ASSUME ChannelsInv, CopiesInv, NEW r \in Request, NEW v \in Reqs, Begin(r, v),
           stale \subseteq stale', adrift \subseteq adrift',
           UNCHANGED <<kind, role, cache, sock, room>>, Shape(v)', Facts(v)'
    PROVE  CopiesInv'
<1>1. req[r].pc = "idle" /\ req' = [req EXCEPT ![r] = v]
  BY DEF Begin, Idle
<1>2. QED
  BY Zenon, <1>1, QuietMove

\* The handlers of a channel, after the membership check.
LEMMA CopiesStarts ==
    ASSUME ChannelsInv, CopiesInv, NEW r \in Request, NEW c \in Channel,
           \/ \E u, v \in User : AddMember(r, c, u, v) \/ RemoveMember(r, c, u, v)
           \/ \E u \in User : Archive(r, c, u)
           \/ FillBegin(r, c)
    PROVE  CopiesInv'
<1>1. UNCHANGED <<kind, role, cache, sock, room, stale, adrift>>
  BY Zenon DEF AddMember, RemoveMember, Archive, FillBegin, rows, history
<1>2. ASSUME NEW v \in Reqs, Begin(r, v), v.ch = c, kind[c] # "none",
             \/ v.pc = "count" /\ v.op = "add" /\ v.set = {v.who}
             \/ v.pc = "lock row" /\ v.op = "remove"
             \/ v.pc = "flag" /\ v.op = "archive"
             \/ v.pc = "read rows" /\ v.op = "fill"
      PROVE  CopiesInv'
  <2>1. Shape(v)' /\ Facts(v)'
    BY Zenon, <1>1, <1>2 DEF Shape, Facts, Ins, Outs
  <2>2. QED
    BY Zenon, <1>1, <1>2, <2>1, CopiesBegin
<1>3. ASSUME NEW u \in User, NEW w \in User, AddMember(r, c, u, w) PROVE CopiesInv'
  <2> DEFINE v == [op |-> "add", pc |-> "count", ch |-> c, by |-> u, who |-> w, set |-> {w}]
  <2>1. v \in Reqs /\ v.pc = "count" /\ v.ch = c /\ v.op = "add" /\ v.set = {v.who}
    BY Zenon DEF Reqs
  <2>2. Begin(r, v) /\ kind[c] # "none"
    BY Zenon, <1>3 DEF AddMember
  <2> HIDE DEF v
  <2>3. QED
    BY Zenon, <1>2, <2>1, <2>2
<1>4. ASSUME NEW u \in User, NEW w \in User, RemoveMember(r, c, u, w) PROVE CopiesInv'
  <2> DEFINE v == [op |-> "remove", pc |-> "lock row", ch |-> c, by |-> u, who |-> w, set |-> {}]
  <2>1. v \in Reqs /\ v.pc = "lock row" /\ v.ch = c /\ v.op = "remove"
    BY Zenon DEF Reqs
  <2>2. Begin(r, v) /\ kind[c] # "none"
    BY Zenon, <1>4 DEF RemoveMember
  <2> HIDE DEF v
  <2>3. QED
    BY Zenon, <1>2, <2>1, <2>2
<1>5. ASSUME NEW u \in User, Archive(r, c, u) PROVE CopiesInv'
  <2> DEFINE v == [op |-> "archive", pc |-> "flag", ch |-> c, by |-> u, who |-> None, set |-> {}]
  <2>1. v \in Reqs /\ v.pc = "flag" /\ v.ch = c /\ v.op = "archive"
    BY Zenon DEF Reqs
  <2>2. Begin(r, v) /\ role[c][u] = "ADMIN"
    BY Zenon, <1>5 DEF Archive
  <2> HIDE DEF v
  <2>3. kind[c] # "none"
    BY Zenon, <2>2 DEF CopiesInv, BlankOK, In
  <2>4. QED
    BY Zenon, <1>2, <2>1, <2>2, <2>3
<1>6. ASSUME FillBegin(r, c) PROVE CopiesInv'
  <2> DEFINE v == [op |-> "fill", pc |-> "read rows", ch |-> c, by |-> None, who |-> None, set |-> {}]
  <2>1. v \in Reqs /\ v.pc = "read rows" /\ v.ch = c /\ v.op = "fill"
    BY Zenon DEF Reqs
  <2>2. Begin(r, v) /\ kind[c] # "none"
    BY Zenon, <1>6 DEF FillBegin
  <2> HIDE DEF v
  <2>3. QED
    BY Zenon, <1>2, <2>1, <2>2
<1>7. QED
  BY Zenon, <1>3, <1>4, <1>5, <1>6

\* requireMember: the history names who is let in by a cached set that is out of
\* date.
LEMMA CopiesAsk ==
    ASSUME ChannelsInv, CopiesInv, NEW r \in Request, NEW c \in Channel, NEW u \in User, NEW op \in {"enter", "exit"},
           AskMember(r, c, u, op)
    PROVE  CopiesInv'
<1>1. PICK p \in {op, "read rows"} : p = (IF cache[c] # {} THEN op ELSE "read rows")
  BY Zenon
<1> DEFINE v == [op |-> op, pc |-> p, ch |-> c, by |-> u, who |-> u, set |-> {}]
<1>2. Begin(r, v)
  BY Zenon, <1>1 DEF AskMember
<1>3. v \in Reqs /\ v.op = op /\ v.pc = p /\ v.ch = c /\ v.who = u
  BY Zenon, <1>1 DEF Reqs
<1> HIDE DEF v
<1>4. UNCHANGED <<kind, role, cache, sock, room>> /\ kind[c] # "none"
  BY Zenon DEF AskMember, rows
<1>5. /\ stale' = stale /\ adrift \subseteq adrift' /\ (op = "exit" => <<c, u>> \in adrift')
      /\ cache[c] # {} /\ ~In(c, u) => <<c, u>> \in adrift'
  BY Zenon DEF AskMember, Members, In
<1>6. Shape(v)'
  BY Zenon, <1>1, <1>3, <1>4, <1>5 DEF Shape
<1>7. Facts(v)'
  BY Zenon, <1>1, <1>3, <1>4, <1>5 DEF Facts, In, Ins, Outs
<1>8. QED
  BY Zenon, <1>2, <1>3, <1>4, <1>5, <1>6, <1>7, CopiesBegin

\* createDirect takes its lock and looks for the channel: who is joined to a
\* channel that is there is a member of it.
LEMMA CopiesDirect ==
    ASSUME ChannelsInv, CopiesInv, NEW r \in Request,
           DirectFind(r) \/ \E u, w \in User : CreateDirect(r, u, w)
    PROVE  CopiesInv'
<1>1. UNCHANGED <<kind, role, cache, sock, room, stale, adrift>>
  BY Zenon DEF DirectFind, CreateDirect, rows, history
<1>2. ASSUME NEW u \in User, NEW w \in User, CreateDirect(r, u, w) PROVE CopiesInv'
  <2> DEFINE v == [op |-> "direct", pc |-> "find", ch |-> None, by |-> u, who |-> w, set |-> {u, w}]
  <2>1. v \in Reqs /\ v.pc = "find" /\ v.op = "direct"
    BY Zenon DEF Reqs
  <2>2. Begin(r, v)
    BY Zenon, <1>2 DEF CreateDirect
  <2> HIDE DEF v
  <2>3. Shape(v)' /\ Facts(v)'
    BY Zenon, <2>1 DEF Shape, Facts, Ins, Outs
  <2>4. QED
    BY Zenon, <1>1, <2>1, <2>2, <2>3, CopiesBegin
<1>3. PICK q \in Reqs : q = req[r] /\ ReqOK(r) /\ Shape(q)
  BY Zenon DEF ChannelsInv, ChannelsType, CopiesInv
<1>4. ASSUME NEW c \in Channel, q.pc = "find", Direct(c, q.set),
             req' = [req EXCEPT ![r] = [@ EXCEPT !.pc = "join", !.ch = c, !.set = {q.by}]]
      PROVE  CopiesInv'
  <2>1. q.by \in User /\ q.by \in q.set
    BY Zenon, <1>3, <1>4 DEF ReqOK
  <2> DEFINE v == [q EXCEPT !.pc = "join", !.ch = c, !.set = {q.by}]
  <2>2. v \in Reqs /\ v.pc = "join" /\ v.ch = c /\ v.set = {q.by} /\ v.op = q.op /\ v.by = q.by /\ v.who = q.who
    BY Zenon, <2>1 DEF Reqs
  <2>3. req' = [req EXCEPT ![r] = v]
    BY Zenon, <1>3, <1>4
  <2> HIDE DEF v
  <2>4. kind[c] # "none" /\ In(c, q.by)
    BY Zenon, <1>4, <2>1 DEF Direct, Members, In
  <2>5. Shape(v)'
    BY Zenon, <1>1, <1>3, <1>4, <2>1, <2>2, <2>4 DEF Shape
  <2>6. Facts(v)'
    BY Zenon, <1>1, <2>2, <2>4 DEF Facts, In, Ins, Outs
  <2>7. QED
    BY Zenon, <1>1, <1>3, <1>4, <2>2, <2>3, <2>5, <2>6, QuietMove
<1>5. ASSUME q.pc = "find", Step(r, "insert") PROVE CopiesInv'
  <2> DEFINE v == [q EXCEPT !.pc = "insert"]
  <2>1. v \in Reqs /\ v.pc = "insert" /\ v.op = q.op
    BY Zenon DEF Reqs
  <2>2. req' = [req EXCEPT ![r] = v]
    BY Zenon, <1>3, <1>5 DEF Step
  <2> HIDE DEF v
  <2>3. Shape(v)' /\ Facts(v)'
    BY Zenon, <1>3, <1>5, <2>1 DEF Shape, Facts, Ins, Outs
  <2>4. QED
    BY Zenon, <1>1, <1>3, <1>5, <2>1, <2>2, <2>3, QuietMove
<1>6. QED
  BY Zenon, <1>2, <1>3, <1>4, <1>5 DEF DirectFind

\* A request that repairs nothing goes on or is answered.
LEMMA CopiesQuiet ==
    ASSUME ChannelsInv, CopiesInv, NEW r \in Request,
           AddCount(r) \/ RemoveLock(r) \/ RemoveDelete(r) \/ ArchiveRead(r) \/ ArchiveWrite(r) \/ FillRead(r)
    PROVE  CopiesInv'
<1>1. UNCHANGED <<kind, role, cache, sock, room, stale, adrift>>
  BY Zenon DEF AddCount, RemoveLock, RemoveDelete, ArchiveRead, ArchiveWrite, FillRead, rows, history
<1>2. PICK q \in Reqs : q = req[r] /\ ReqOK(r) /\ Shape(q)
  BY Zenon DEF ChannelsInv, ChannelsType, CopiesInv
<1>3. q.pc \in {"count", "lock row", "delete", "flag", "archive", "unarchive", "read rows"}
  BY Zenon, <1>2 DEF AddCount, RemoveLock, RemoveDelete, ArchiveRead, ArchiveWrite, FillRead
<1>4. CASE Done(r)
  <2>1. Idle \in Reqs /\ Shape(Idle)' /\ Facts(Idle)'
    BY Zenon DEF Idle, Reqs, Shape, Facts, Ins, Outs
  <2>2. QED
    BY Zenon, <1>1, <1>2, <1>3, <1>4, <2>1, QuietMove DEF Done
<1>5. ASSUME NEW p \in {"add", "delete", "archive", "unarchive"}, Step(r, p),
             p = "add" => q.pc = "count", p = "delete" => q.pc = "lock row"
      PROVE  CopiesInv'
  <2> DEFINE v == [q EXCEPT !.pc = p]
  <2>1. v \in Reqs /\ v.pc = p /\ v.op = q.op /\ v.ch = q.ch /\ v.set = q.set /\ v.who = q.who
    BY Zenon DEF Reqs
  <2>2. req' = [req EXCEPT ![r] = v]
    BY Zenon, <1>2, <1>5 DEF Step
  <2> HIDE DEF v
  <2>3. Shape(v)' /\ Facts(v)'
    BY Zenon, <1>1, <1>2, <1>3, <1>5, <2>1 DEF Shape, Facts, Ins, Outs
  <2>4. QED
    BY Zenon, <1>1, <1>2, <1>3, <2>1, <2>2, <2>3, QuietMove
<1>6. ASSUME NEW p \in SUBSET User, q.pc = "delete",
             req' = [req EXCEPT ![r] = [@ EXCEPT !.pc = "commit", !.set = p]]
      PROVE  CopiesInv'
  <2> DEFINE v == [q EXCEPT !.pc = "commit", !.set = p]
  <2>1. v \in Reqs /\ v.pc = "commit" /\ v.op = q.op /\ v.ch = q.ch /\ v.who = q.who
    BY Zenon DEF Reqs
  <2>2. req' = [req EXCEPT ![r] = v]
    BY Zenon, <1>2, <1>6
  <2> HIDE DEF v
  <2>3. Shape(v)' /\ Facts(v)'
    BY Zenon, <1>1, <1>2, <1>6, <2>1 DEF Shape, Facts, Ins, Outs
  <2>4. QED
    BY Zenon, <1>1, <1>2, <1>3, <2>1, <2>2, <2>3, QuietMove
<1>7. CASE AddCount(r) \/ RemoveLock(r) \/ ArchiveRead(r) \/ ArchiveWrite(r)
  BY Zenon, <1>2, <1>4, <1>5, <1>7 DEF AddCount, RemoveLock, ArchiveRead, ArchiveWrite
<1>8. CASE RemoveDelete(r)
  <2>1. q.ch \in Channel /\ \A p \in Promote(q.ch, q.who) : p \in SUBSET User
    <3>1. q.ch \in Channel /\ q.who \in User
      BY Zenon, <1>2, <1>8 DEF ReqOK, RemoveDelete
    <3>2. \A p \in Promote(q.ch, q.who) : p \subseteq Members(q.ch)
      BY Zenon, <3>1, Promoted
    <3>3. QED
      BY Zenon, <3>1, <3>2 DEF Members
  <2>2. q.pc = "delete" /\ (Done(r) \/ \E p \in Promote(q.ch, q.who) :
                                req' = [req EXCEPT ![r] = [@ EXCEPT !.pc = "commit", !.set = p]])
    BY Zenon, <1>2, <1>8 DEF RemoveDelete
  <2>3. QED
    BY Zenon, <1>4, <1>6, <2>1, <2>2
<1>9. CASE FillRead(r)
  <2>1. PICK S \in SUBSET User : S = Members(q.ch)
    BY Zenon DEF Members
  <2> DEFINE v == [q EXCEPT !.pc = "cache", !.set = S]
  <2>2. v \in Reqs /\ v.pc = "cache" /\ v.op = q.op /\ v.ch = q.ch /\ v.who = q.who /\ v.set = S
    BY Zenon DEF Reqs
  <2>3. req' = [req EXCEPT ![r] = v] /\ q.pc = "read rows"
    BY Zenon, <1>2, <1>9, <2>1 DEF FillRead
  <2> HIDE DEF v
  <2>4. Shape(v)'
    BY Zenon, <1>1, <1>2, <2>2, <2>3 DEF Shape
  <2>5. Facts(v)'
    BY Zenon, <1>1, <2>1, <2>2 DEF Facts, In, Members, Ins, Outs
  <2>6. QED
    BY Zenon, <1>1, <1>2, <1>3, <2>2, <2>3, <2>4, <2>5, QuietMove
<1>10. QED
  BY Zenon, <1>7, <1>8, <1>9

\* insertChannel: nobody was about a channel that did not exist, and its members
\* are on their way into its room.
LEMMA CopiesInsert ==
    ASSUME ChannelsInv, CopiesInv, NEW r \in Request, NEW c \in Channel, NEW u \in User,
           NEW others \in SUBSET User, NEW t \in {"DIRECT", "GROUP"}, u \notin others,
           InsertChannel(c, u, others, t),
           NEW v \in Reqs, req' = [req EXCEPT ![r] = v], req[r].pc \in {"idle", "insert"},
           v.pc = "cache", v.op \in {"group", "direct"}, v.ch = c, v.by = u, v.set = others \cup {u},
           adrift' = adrift \cup {<<c, w>> : w \in {x \in others \cup {u} : sock[x].st = "joining"}},
           UNCHANGED <<cache, sock, room, stale>>
    PROVE  CopiesInv'
<1>1. /\ kind[c] = "none" /\ kind'[c] = t
      /\ \A d \in Channel : kind[d] # "none" => kind'[d] = kind[d]
      /\ \A d \in Channel \ {c} : kind'[d] = kind[d] /\ role'[d] = role[d]
      /\ Members(c)' = others \cup {u}
  BY SMTT(20), Inserted
<1>2. \A w \in User : In(c, w)' <=> w \in others \cup {u}
  BY Zenon, <1>1 DEF Members, In
<1>3. \A d \in Channel \ {c}, w \in User : In(d, w)' <=> In(d, w)
  BY Zenon, <1>1 DEF In
<1>4. cache[c] = {} /\ \A w \in User : ~In(c, w)
  BY Zenon, <1>1 DEF CopiesInv, BlankOK
<1>5. adrift \subseteq adrift' /\ \A w \in others \cup {u} : sock[w].st = "joining" => <<c, w>> \in adrift'
  BY Zenon
<1>6. \A q \in Request : req[q].pc \in {"idle", "find", "insert"} \/ req[q].ch # c
  BY Zenon, <1>1 DEF CopiesInv, Shape
<1>7. \A q \in Request, w \in User : ~Fill(req[q], c) /\ ~Steer(req[q], c, w) /\ ~Leaves(req[q], c, w)
  BY Zenon, <1>6 DEF Fill, Steer, Leaves
<1>8. req'[r] = v /\ \A q \in Request \ {r} : req'[q] = req[q]
  BY Zenon DEF ChannelsInv, ChannelsType
<1>9. CopyType' /\ RestOK'
  BY Zenon DEF CopiesInv, CopyType, RestOK
<1>10. BlankOK'
  BY Zenon, <1>1, <1>3 DEF CopiesInv, BlankOK
<1>11. Shape(v)' /\ Facts(v)'
  BY Zenon, <1>1, <1>2 DEF Shape, Facts, Ins, Outs
<1>12. ASSUME NEW w \in User PROVE CacheOK(c, w)' /\ RoomOK(c, w)'
  <2>1. RoomOK(c, w)
    BY Zenon DEF CopiesInv
  <2>2. In(c, w)' => Joins(req[r], c, w)'
    BY Zenon, <1>2, <1>8 DEF Joins
  <2>3. <<c, w>> \notin adrift' /\ sock[w].st = "on" => w \notin room[c]
    BY Zenon, <1>4, <1>5, <1>7, <2>1 DEF RoomOK
  <2>4. <<c, w>> \notin adrift' /\ sock[w].st = "joining" => c \notin sock[w].list /\ ~In(c, w)'
    BY Zenon, <1>2, <1>4, <1>5, <2>1 DEF RoomOK
  <2>5. CacheOK(c, w)'
    BY Zenon, <1>4 DEF CacheOK
  <2>6. RoomOK(c, w)'
    BY Zenon, <2>2, <2>3, <2>4 DEF RoomOK
  <2>7. QED
    BY Zenon, <2>5, <2>6
<1>13. ASSUME NEW d \in Channel \ {c}, NEW w \in User PROVE CacheOK(d, w)' /\ RoomOK(d, w)'
  <2>1. \A q \in Request : /\ Invals(req[q], d, w) => Invals(req[q], d, w)'
                           /\ Joins(req[q], d, w) => Joins(req[q], d, w)'
                           /\ Leaves(req[q], d, w) => Leaves(req[q], d, w)'
    BY Zenon, <1>8 DEF Invals, Joins, Leaves
  <2>2. CacheOK(d, w)'
    BY Zenon, <1>3, <2>1, CacheKept
  <2>3. RoomOK(d, w)'
    BY Zenon, <1>3, <1>5, <2>1, RoomKept
  <2>4. QED
    BY Zenon, <2>2, <2>3
<1>14. \A d \in Channel, w \in User : CacheOK(d, w)' /\ RoomOK(d, w)'
  BY Zenon, <1>12, <1>13
<1>15. /\ \A q \in Request \ {r}, d \in Channel, w \in User :
              Fill(req[q], d) => (In(d, w)' <=> In(d, w))
       /\ \A q \in Request \ {r}, d \in Channel, w \in User :
              Steer(req[q], d, w) => (In(d, w)' <=> In(d, w))
  BY SMTT(20), <1>3, <1>7
<1>16. QED
  BY Zenon, <1>1, <1>5, <1>9, <1>10, <1>11, <1>14, <1>15, CopiesMove

\* createGroup and createDirect.
LEMMA CopiesCreate ==
    ASSUME ChannelsInv, CopiesInv, NEW r \in Request, NEW c \in Channel,
           DirectInsert(r, c) \/ \E u \in User, others \in SUBSET User : CreateGroup(r, c, u, others)
    PROVE  CopiesInv'
<1>1. ASSUME NEW u \in User, NEW others \in SUBSET User, CreateGroup(r, c, u, others) PROVE CopiesInv'
  <2> DEFINE v == [op |-> "group", pc |-> "cache", ch |-> c, by |-> u, who |-> None, set |-> others \cup {u}]
  <2>1. v \in Reqs /\ v.pc = "cache" /\ v.op = "group" /\ v.ch = c /\ v.by = u /\ v.set = others \cup {u}
    BY Zenon DEF Reqs
  <2>2. req' = [req EXCEPT ![r] = v] /\ req[r].pc = "idle"
    <3>1. Begin(r, v)
      BY Zenon, <1>1 DEF CreateGroup
    <3> HIDE DEF v
    <3>2. QED
      BY <3>1 DEF Begin, Idle
  <2> HIDE DEF v
  <2>3. /\ u \notin others /\ InsertChannel(c, u, others, "GROUP") /\ UNCHANGED <<cache, sock, room, stale>>
        /\ adrift' = adrift \cup {<<c, w>> : w \in {x \in others \cup {u} : sock[x].st = "joining"}}
    BY Zenon, <1>1 DEF CreateGroup
  <2>4. QED
    BY ZenonT(30), <2>1, <2>2, <2>3, CopiesInsert
<1>2. ASSUME DirectInsert(r, c) PROVE CopiesInv'
  <2>1. PICK q \in Reqs : q = req[r] /\ q.pc = "insert" /\ ReqOK(r) /\ Shape(q)
    BY Zenon, <1>2 DEF ChannelsInv, ChannelsType, CopiesInv, DirectInsert
  <2>2. PICK u \in User, w \in User : u = q.by /\ w = q.who /\ q.set = {u, w} /\ q.set \in Pair
    BY Zenon, <2>1 DEF ReqOK
  <2>3. u # w /\ q.op = "direct"
    BY SMTT(20), <2>1, <2>2 DEF Pair, Shape
  <2> DEFINE v == [q EXCEPT !.pc = "cache", !.ch = c, !.who = None]
  <2>4. v \in Reqs /\ v.pc = "cache" /\ v.op = "direct" /\ v.ch = c /\ v.by = u /\ v.set = {w} \cup {u}
    BY Zenon, <2>2, <2>3 DEF Reqs
  <2>5. req' = [req EXCEPT ![r] = v]
    BY Zenon, <1>2, <2>1 DEF DirectInsert
  <2> HIDE DEF v
  <2>6. {w} \cup {u} = q.set /\ {w} \in SUBSET User /\ u \notin {w}
    BY Zenon, <2>2, <2>3
  <2>7. /\ InsertChannel(c, u, {w}, "DIRECT") /\ UNCHANGED <<cache, sock, room, stale>>
        /\ adrift' = adrift \cup {<<c, y>> : y \in {x \in q.set : sock[x].st = "joining"}}
    BY Zenon, <1>2, <2>1, <2>2 DEF DirectInsert
  <2>8. QED
    BY ZenonT(30), <2>1, <2>4, <2>5, <2>6, <2>7, CopiesInsert
<1>3. QED
  BY Zenon, <1>1, <1>2

\* The row of (c, u) changes: r is on its way to repair the copies, and every
\* other request about (c, u) makes the history name the pair.
LEMMA CopiesRow ==
    ASSUME ChannelsInv, CopiesInv, NEW r \in Request, NEW c \in Channel, NEW u \in User,
           NEW q \in Reqs, q = req[r], q.pc \in {"add", "commit"}, q.ch = c, q.who = u,
           NEW k \in {"touch", "invalidate"}, k = "touch" <=> q.op = "add",
           Step(r, k), Overlap(r, c, u), UNCHANGED <<kind, cache, sock, room>>,
           \A d \in Channel, w \in User : d # c \/ w # u => (In(d, w)' <=> In(d, w)),
           In(c, u)' <=> q.op = "add"
    PROVE  CopiesInv'
<1> DEFINE v == [q EXCEPT !.pc = k]
<1>1. v \in Reqs /\ v.pc = k /\ v.op = q.op /\ v.ch = c /\ v.who = u /\ v.set = q.set
  BY Zenon DEF Reqs
<1>2. req' = [req EXCEPT ![r] = v]
  BY Zenon DEF Step
<1> HIDE DEF v
<1>3. req'[r] = v /\ \A p \in Request \ {r} : req'[p] = req[p]
  BY Zenon, <1>2 DEF ChannelsInv, ChannelsType
<1>4. /\ stale \subseteq stale' /\ adrift \subseteq adrift'
      /\ sock[u].st = "joining" => <<c, u>> \in adrift'
      /\ \A p \in Request \ {r} : Fill(req[p], c) => <<c, u>> \in stale'
      /\ \A p \in Request \ {r} : Steer(req[p], c, u) => <<c, u>> \in adrift'
  BY Zenon DEF Overlap, Fills, Steers, Fill, Steer
<1>5. Shape(q) /\ kind[c] # "none"
  BY Zenon DEF CopiesInv, Shape
<1>6. q.op \in {"add", "remove"}
  BY Zenon, <1>5 DEF Shape
<1>7. CopyType' /\ RestOK'
  BY Zenon DEF CopiesInv, CopyType, RestOK
<1>8. BlankOK'
  BY Zenon, <1>5 DEF CopiesInv, BlankOK
<1>9. Shape(v)' /\ Facts(v)'
  BY Zenon, <1>1, <1>5 DEF Shape, Facts, Ins, Outs
<1>10. CacheOK(c, u)' /\ RoomOK(c, u)'
  <2>1. Invals(req[r], c, u)'
    BY Zenon, <1>1, <1>3 DEF Invals
  <2>2. In(c, u)' => Joins(req[r], c, u)'
    BY Zenon, <1>1, <1>3 DEF Joins
  <2>3. ~In(c, u)' => Leaves(req[r], c, u)'
    BY Zenon, <1>1, <1>3, <1>6 DEF Leaves
  <2>4. QED
    BY Zenon, <1>4, <2>1, <2>2, <2>3 DEF CacheOK, RoomOK
<1>11. ASSUME NEW d \in Channel, NEW w \in User, d # c \/ w # u PROVE CacheOK(d, w)' /\ RoomOK(d, w)'
  <2>1. \A p \in Request : /\ Invals(req[p], d, w) => Invals(req[p], d, w)'
                           /\ Joins(req[p], d, w) => Joins(req[p], d, w)'
                           /\ Leaves(req[p], d, w) => Leaves(req[p], d, w)'
    BY Zenon, <1>3 DEF Invals, Joins, Leaves
  <2>2. In(d, w)' <=> In(d, w)
    BY Zenon, <1>11
  <2>3. CacheOK(d, w)'
    BY Zenon, <1>4, <2>1, <2>2, CacheKept
  <2>4. RoomOK(d, w)'
    BY Zenon, <1>4, <2>1, <2>2, RoomKept
  <2>5. QED
    BY Zenon, <2>3, <2>4
<1>12. \A d \in Channel, w \in User : CacheOK(d, w)' /\ RoomOK(d, w)'
  BY Zenon, <1>10, <1>11
<1>13. /\ \A p \in Request \ {r}, d \in Channel, w \in User :
              Fill(req[p], d) => (In(d, w)' <=> In(d, w)) \/ <<d, w>> \in stale'
       /\ \A p \in Request \ {r}, d \in Channel, w \in User :
              Steer(req[p], d, w) => (In(d, w)' <=> In(d, w)) \/ <<d, w>> \in adrift'
  BY Zenon, <1>4
<1>14. QED
  BY Zenon, <1>1, <1>2, <1>4, <1>7, <1>8, <1>9, <1>12, <1>13, CopiesMove

\* A request that repairs nothing is answered.
LEMMA CopiesRefused ==
    ASSUME ChannelsInv, CopiesInv, NEW r \in Request, Done(r),
           req[r].pc \notin {"cache", "join", "touch", "invalidate", "leave"},
           UNCHANGED <<kind, role, cache, sock, room, stale, adrift>>
    PROVE  CopiesInv'
<1>1. Idle \in Reqs /\ Shape(Idle)' /\ Facts(Idle)'
  BY Zenon DEF Idle, Reqs, Shape, Facts, Ins, Outs
<1>2. QED
  BY Zenon, <1>1, QuietMove DEF Done

\* addMember's INSERT and removeMember's commit.
LEMMA CopiesRows ==
    ASSUME ChannelsInv, CopiesInv, NEW r \in Request,
           RemoveCommit(r) \/ \E as \in {"ADMIN", "MEMBER"} : AddInsert(r, as)
    PROVE  CopiesInv'
<1>1. PICK q \in Reqs : q = req[r] /\ ReqOK(r) /\ Shape(q)
  BY Zenon DEF ChannelsInv, ChannelsType, CopiesInv
<1>2. ASSUME NEW as \in {"ADMIN", "MEMBER"}, AddInsert(r, as) PROVE CopiesInv'
  <2>1. PICK c \in Channel, u \in User : c = q.ch /\ u = q.who /\ q.pc = "add" /\ q.op = "add"
    BY Zenon, <1>1, <1>2 DEF ReqOK, Shape, AddInsert
  <2>2. UNCHANGED <<kind, cache, sock, room>>
    BY Zenon, <1>2 DEF AddInsert, rows
  <2>3. CASE Done(r) /\ UNCHANGED <<rows, history>>
    BY Zenon, <1>1, <2>1, <2>2, <2>3, CopiesRefused DEF rows, history
  <2>4. CASE role' = [role EXCEPT ![c][u] = as] /\ Step(r, "touch") /\ Overlap(r, c, u)
    <3>1. role \in [Channel -> [User -> {"none", "MEMBER", "ADMIN"}]]
      BY Zenon DEF ChannelsInv, ChannelsType
    <3>2. role'[c][u] = as /\ \A d \in Channel, w \in User : d # c \/ w # u => role'[d][w] = role[d][w]
      BY Zenon, <2>4, <3>1
    <3>3. In(c, u)' /\ \A d \in Channel, w \in User : d # c \/ w # u => (In(d, w)' <=> In(d, w))
      BY Zenon, <3>2 DEF In
    <3>4. QED
      BY <1>1, <2>1, <2>2, <2>4, <3>3, CopiesRow
  <2>5. QED
    BY Zenon, <1>1, <1>2, <2>1, <2>3, <2>4 DEF AddInsert
<1>3. ASSUME RemoveCommit(r) PROVE CopiesInv'
  <2>1. PICK c \in Channel, u \in User :
           c = q.ch /\ u = q.who /\ q.pc = "commit" /\ q.op = "remove" /\ q.set \in Promote(c, u)
    BY Zenon, <1>1, <1>3 DEF ReqOK, Shape, RemoveCommit
  <2>2. UNCHANGED <<kind, cache, sock, room>> /\ Step(r, "invalidate") /\ Overlap(r, c, u)
    BY Zenon, <1>1, <1>3, <2>1 DEF RemoveCommit
  <2> DEFINE f == [w \in User |-> CASE w = u -> "none" [] w \in q.set -> "ADMIN" [] OTHER -> role[c][w]]
  <2>3. role' = [role EXCEPT ![c] = f]
    BY <1>1, <1>3, <2>1 DEF RemoveCommit
  <2>4. q.set \subseteq Members(c) \ {u}
    BY SMTT(20), <2>1, Promoted
  <2>5. f[u] = "none" /\ \A w \in User \ {u} : f[w] # "none" <=> In(c, w)
    BY Zenon, <2>4 DEF In, Members
  <2> HIDE DEF f
  <2>6. role'[c] = f /\ \A d \in Channel \ {c} : role'[d] = role[d]
    BY Zenon, <2>3 DEF ChannelsInv, ChannelsType
  <2>7. ~In(c, u)' /\ \A d \in Channel, w \in User : d # c \/ w # u => (In(d, w)' <=> In(d, w))
    BY Zenon, <2>5, <2>6 DEF In
  <2>8. QED
    BY SMTT(20), <1>1, <2>1, <2>2, <2>7, CopiesRow
<1>4. QED
  BY Zenon, <1>2, <1>3

\* setMembers: what is written is true of the rows, and the creator's members
\* go on into the room.
LEMMA CopiesSet ==
    ASSUME ChannelsInv, CopiesInv, NEW r \in Request, SetMembers(r)
    PROVE  CopiesInv'
<1>1. PICK q \in Reqs : q = req[r] /\ ReqOK(r) /\ Shape(q) /\ Facts(q)
  BY Zenon DEF ChannelsInv, ChannelsType, CopiesInv
<1>2. PICK c \in Channel : c = q.ch /\ q.pc = "cache" /\ kind[c] # "none"
  BY Zenon, <1>1 DEF ReqOK, Shape, SetMembers
<1>3. UNCHANGED <<kind, role, sock, room, stale, adrift>>
  BY Zenon DEF SetMembers, rows, history
<1>4. /\ cache' \in [Channel -> SUBSET User] /\ cache'[c] \in {cache[c], q.set}
      /\ \A d \in Channel \ {c} : cache'[d] = cache[d]
  <2>1. UNCHANGED cache \/ cache' = [cache EXCEPT ![c] = IF q.set = {} THEN @ ELSE q.set]
    BY Zenon, <1>1, <1>2 DEF SetMembers
  <2>2. cache \in [Channel -> SUBSET User] /\ q.set \in SUBSET User
    BY Zenon DEF CopiesInv, CopyType, Reqs
  <2>3. QED
    BY Zenon, <2>1, <2>2
<1>5. \A d \in Channel, w \in User : In(d, w)' <=> In(d, w)
  BY Zenon, <1>3 DEF In
<1>6. CopyType' /\ RestOK' /\ BlankOK'
  BY Zenon, <1>2, <1>3, <1>4, <1>5 DEF CopiesInv, CopyType, RestOK, BlankOK
<1>7. ASSUME NEW v \in Reqs, req' = [req EXCEPT ![r] = v], Shape(v)', Facts(v)',
             q.op \in {"group", "direct"} => v.pc = "join" /\ v.ch = c /\ v.set = q.set
      PROVE  CopiesInv'
  <2>1. req'[r] = v /\ \A p \in Request \ {r} : req'[p] = req[p]
    BY Zenon, <1>7 DEF ChannelsInv, ChannelsType
  <2>2. ASSUME NEW d \in Channel, NEW w \in User PROVE CacheOK(d, w)' /\ RoomOK(d, w)'
    <3>1. \A p \in Request : /\ Invals(req[p], d, w) => Invals(req[p], d, w)'
                             /\ Leaves(req[p], d, w) => Leaves(req[p], d, w)'
      BY Zenon, <1>1, <1>2, <2>1 DEF Invals, Leaves
    <3>2. \A p \in Request : Joins(req[p], d, w) => Joins(req[p], d, w)'
      BY Zenon, <1>1, <1>2, <1>7, <2>1 DEF Joins
    <3>3. cache'[d] = cache[d] \/ (<<d, w>> \notin stale' => (w \in cache'[d] <=> In(d, w)))
      BY Zenon, <1>1, <1>2, <1>3, <1>4 DEF Facts
    <3>4. CacheOK(d, w)'
      BY Zenon, <1>3, <1>5, <3>1, <3>3, CacheKept
    <3>5. RoomOK(d, w)'
      BY Zenon, <1>3, <1>5, <3>1, <3>2, RoomKept
    <3>6. QED
      BY Zenon, <3>4, <3>5
  <2>3. QED
    BY Zenon, <1>3, <1>5, <1>6, <1>7, <2>2, CopiesMove
<1>8. ASSUME NEW p \in {"join", "enter", "exit"}, Step(r, p),
             IF q.op \in {"group", "direct"} THEN p = "join" ELSE q.op = p /\ q.who \in q.set
      PROVE  CopiesInv'
  <2> DEFINE v == [q EXCEPT !.pc = p]
  <2>1. v \in Reqs /\ v.pc = p /\ v.op = q.op /\ v.ch = c /\ v.set = q.set /\ v.who = q.who /\ v.by = q.by
    BY Zenon, <1>2 DEF Reqs
  <2>2. req' = [req EXCEPT ![r] = v]
    BY Zenon, <1>1, <1>8 DEF Step
  <2> HIDE DEF v
  <2>3. Shape(v)'
    BY Zenon, <1>1, <1>2, <1>3, <1>8, <2>1 DEF Shape
  <2>4. Facts(v)'
    <3>1. ASSUME NEW w \in User PROVE (Ins(v, w) => Ins(q, w)) /\ ~Outs(v, w)
      <4>1. CASE p = "join"
        <5>1. q.op \in {"group", "direct"}
          BY Zenon, <1>1, <1>2, <1>8, <4>1 DEF Shape
        <5>2. QED
          BY Zenon, <1>2, <2>1, <4>1, <5>1 DEF Ins, Outs
      <4>2. CASE p = "enter"
        BY Zenon, <1>2, <1>8, <2>1, <4>2 DEF Ins, Outs
      <4>3. CASE p = "exit"
        BY Zenon, <2>1, <4>3 DEF Ins, Outs
      <4>4. QED
        BY Zenon, <4>1, <4>2, <4>3
    <3>2. ASSUME NEW w \in User, <<c, w>> \notin adrift, Ins(q, w) PROVE In(c, w)'
      BY Zenon, <1>1, <1>2, <1>5, <3>2 DEF Facts
    <3>3. v.pc # "cache" /\ v.ch = c /\ adrift' = adrift
      BY Zenon, <1>3, <2>1
    <3>4. QED
      BY Zenon, <3>1, <3>2, <3>3 DEF Facts, Ins, Outs
  <2>5. QED
    BY Zenon, <1>7, <1>8, <2>1, <2>2, <2>3, <2>4
<1>9. ASSUME Done(r), q.op \notin {"group", "direct"} PROVE CopiesInv'
  <2>1. Idle \in Reqs /\ Shape(Idle)' /\ Facts(Idle)'
    BY Zenon DEF Idle, Reqs, Shape, Facts, Ins, Outs
  <2>2. QED
    BY Zenon, <1>7, <1>9, <2>1 DEF Done
<1>10. \/ q.op \in {"group", "direct"} /\ Step(r, "join")
       \/ q.op = "enter" /\ q.who \in q.set /\ Step(r, "enter")
       \/ q.op = "exit" /\ q.who \in q.set /\ Step(r, "exit")
       \/ q.op \notin {"group", "direct"} /\ Done(r)
  BY Zenon, <1>1 DEF SetMembers
<1>11. QED
  BY Zenon, <1>8, <1>9, <1>10

\* A step of request r on the room of c: no row, no cached set and no socket
\* changes.
LEMMA CopiesRoom ==
    ASSUME ChannelsInv, CopiesInv, NEW r \in Request, NEW v \in Reqs, req' = [req EXCEPT ![r] = v],
           UNCHANGED <<kind, role, cache, sock, stale, adrift>>, room' \in [Channel -> SUBSET User],
           req[r].pc \in {"join", "leave", "enter", "exit"}, Shape(v)', Facts(v)',
           \A d \in Channel, w \in User : <<d, w>> \notin adrift =>
               \/ (w \in room'[d] <=> w \in room[d]) /\ (sock[w].st = "on" => ~Steer(req[r], d, w))
               \/ sock[w].st = "on" /\ (w \in room'[d] <=> In(d, w)),
           \A d \in Channel, w \in User : w \in room'[d] => w \in room[d] \/ sock[w].st = "on",
           \A d \in Channel, w \in User : sock[w].st # "on" => (w \in room'[d] <=> w \in room[d])
    PROVE  CopiesInv'
<1>1. req'[r] = v /\ \A p \in Request \ {r} : req'[p] = req[p]
  BY Zenon DEF ChannelsInv, ChannelsType
<1>2. \A d \in Channel, w \in User : In(d, w)' <=> In(d, w)
  BY Zenon DEF In
<1>3. CopyType' /\ RestOK' /\ BlankOK'
  BY Zenon, <1>2 DEF CopiesInv, CopyType, RestOK, BlankOK
<1>4. ASSUME NEW d \in Channel, NEW w \in User PROVE CacheOK(d, w)'
  <2>1. \A p \in Request : Invals(req[p], d, w) => Invals(req[p], d, w)'
    BY Zenon, <1>1 DEF Invals
  <2>2. QED
    BY Zenon, <1>2, <2>1, CacheKept
<1>5. ASSUME NEW d \in Channel, NEW w \in User, <<d, w>> \notin adrift' PROVE RoomOK(d, w)'
  <2>1. RoomOK(d, w)
    BY Zenon DEF CopiesInv
  <2>2. CASE sock[w].st # "on"
    BY Zenon, <1>2, <2>1, <2>2 DEF RoomOK
  <2>3. CASE sock[w].st = "on" /\ (w \in room'[d] <=> In(d, w))
    BY Zenon, <1>2, <2>1, <2>3 DEF RoomOK
  <2>4. CASE sock[w].st = "on" /\ (w \in room'[d] <=> w \in room[d]) /\ ~Steer(req[r], d, w)
    <3>1. ~Joins(req[r], d, w) /\ ~Leaves(req[r], d, w)
      BY Zenon, <2>4 DEF Steer, Joins, Leaves
    <3>2. \A p \in Request : /\ Joins(req[p], d, w) => Joins(req[p], d, w)'
                             /\ Leaves(req[p], d, w) => Leaves(req[p], d, w)'
      BY Zenon, <1>1, <3>1 DEF Joins, Leaves
    <3>3. QED
      BY Zenon, <1>2, <2>1, <2>4, <3>2 DEF RoomOK
  <2>5. QED
    BY Zenon, <1>5, <2>2, <2>3, <2>4
<1>6. \A d \in Channel, w \in User : CacheOK(d, w)' /\ RoomOK(d, w)'
  BY Zenon, <1>4, <1>5 DEF RoomOK
<1>7. QED
  BY Zenon, <1>2, <1>3, <1>6, CopiesMove

\* joinUsersToChannel, the creator's create-or-join, removeUserFromChannel,
\* join-channel and leave-channel.
LEMMA CopiesRooms ==
    ASSUME ChannelsInv, CopiesInv, NEW r \in Request, JoinRooms(r) \/ LeaveRoom(r) \/ EnterRoom(r) \/ ExitRoom(r)
    PROVE  CopiesInv'
<1>1. PICK q \in Reqs : q = req[r] /\ ReqOK(r) /\ Shape(q) /\ Facts(q)
  BY Zenon DEF ChannelsInv, ChannelsType, CopiesInv
<1>2. UNCHANGED <<kind, role, cache, sock, stale, adrift>>
  BY Zenon DEF JoinRooms, LeaveRoom, EnterRoom, ExitRoom, rows, history
<1>3. q.pc \in {"join", "leave", "enter", "exit"}
  BY Zenon, <1>1 DEF JoinRooms, LeaveRoom, EnterRoom, ExitRoom
<1>4. PICK c \in Channel : c = q.ch /\ kind[c] # "none"
  BY Zenon, <1>1, <1>3 DEF ReqOK, Shape
<1>5. Idle \in Reqs /\ Shape(Idle)' /\ Facts(Idle)'
  BY Zenon DEF Idle, Reqs, Shape, Facts, Ins, Outs
<1>6. room \in [Channel -> SUBSET User] /\ q.set \in SUBSET User
      /\ \A d \in Channel, w \in User : sock[w].st # "on" => w \notin room[d]
  BY Zenon DEF CopiesInv, CopyType, RestOK, Reqs
<1>7. ASSUME JoinRooms(r) PROVE CopiesInv'
  <2>1. q.pc = "join" /\ room' = [room EXCEPT ![c] = @ \cup {u \in q.set : sock[u].st = "on"}]
    BY Zenon, <1>1, <1>4, <1>7 DEF JoinRooms
  <2>2. /\ room' \in [Channel -> SUBSET User] /\ \A d \in Channel \ {c} : room'[d] = room[d]
        /\ \A w \in User : w \in room'[c] <=> w \in room[c] \/ (w \in q.set /\ sock[w].st = "on")
    BY Zenon, <1>6, <2>1
  <2>3. ASSUME NEW d \in Channel, NEW w \in User, <<d, w>> \notin adrift
        PROVE  \/ (w \in room'[d] <=> w \in room[d]) /\ (sock[w].st = "on" => ~Steer(req[r], d, w))
               \/ sock[w].st = "on" /\ (w \in room'[d] <=> In(d, w))
    BY Zenon, <1>1, <1>4, <2>1, <2>2, <2>3 DEF Facts, Steer, Ins, Outs
  <2>4. /\ \A d \in Channel, w \in User : w \in room'[d] => w \in room[d] \/ sock[w].st = "on"
        /\ \A d \in Channel, w \in User : sock[w].st # "on" => (w \in room'[d] <=> w \in room[d])
    BY Zenon, <2>2
  <2>5. CASE Done(r)
    BY Zenon, <1>1, <1>2, <1>3, <1>5, <2>2, <2>3, <2>4, <2>5, CopiesRoom DEF Done
  <2>6. CASE CreateOrJoin(r)
    <3>1. q.op \in {"group", "direct"} /\ q.by \in q.set /\ q.by \in User
      BY Zenon, <1>1, <1>6, <2>1, <2>6 DEF CreateOrJoin, Shape
    <3> DEFINE v == [q EXCEPT !.pc = "enter", !.who = q.by]
    <3>2. v \in Reqs /\ v.pc = "enter" /\ v.op = q.op /\ v.ch = c /\ v.who = q.by
      BY Zenon, <1>4, <3>1 DEF Reqs
    <3>3. req' = [req EXCEPT ![r] = v]
      BY Zenon, <1>1, <2>6 DEF CreateOrJoin
    <3> HIDE DEF v
    <3>4. Shape(v)'
      BY Zenon, <1>2, <1>4, <3>1, <3>2 DEF Shape
    <3>5. Facts(v)'
      BY Zenon, <1>1, <1>2, <1>4, <2>1, <3>1, <3>2 DEF Facts, In, Ins, Outs
    <3>6. QED
      BY Zenon, <1>1, <1>2, <1>3, <2>2, <2>3, <2>4, <3>2, <3>3, <3>4, <3>5, CopiesRoom
  <2>7. QED
    BY Zenon, <1>7, <2>5, <2>6 DEF JoinRooms
<1>8. ASSUME LeaveRoom(r) \/ ExitRoom(r) PROVE CopiesInv'
  <2>1. q.pc \in {"leave", "exit"} /\ room' = [room EXCEPT ![c] = @ \ {q.who}] /\ Done(r)
    BY Zenon, <1>1, <1>4, <1>8 DEF LeaveRoom, ExitRoom
  <2>2. /\ room' \in [Channel -> SUBSET User] /\ \A d \in Channel \ {c} : room'[d] = room[d]
        /\ \A w \in User : w \in room'[c] <=> w \in room[c] /\ w # q.who
    BY Zenon, <1>6, <2>1
  <2>3. q.who \in User /\ (q.pc = "exit" => <<c, q.who>> \in adrift)
    BY Zenon, <1>1, <1>4, <2>1 DEF Shape
  <2>4. ASSUME NEW d \in Channel, NEW w \in User, <<d, w>> \notin adrift
        PROVE  \/ (w \in room'[d] <=> w \in room[d]) /\ (sock[w].st = "on" => ~Steer(req[r], d, w))
               \/ sock[w].st = "on" /\ (w \in room'[d] <=> In(d, w))
    BY ZenonT(30), <1>1, <1>4, <1>6, <2>1, <2>2, <2>3, <2>4 DEF Facts, Steer, Ins, Outs
  <2>5. /\ \A d \in Channel, w \in User : w \in room'[d] => w \in room[d] \/ sock[w].st = "on"
        /\ \A d \in Channel, w \in User : sock[w].st # "on" => (w \in room'[d] <=> w \in room[d])
    BY Zenon, <1>6, <2>2
  <2>6. QED
    BY Zenon, <1>1, <1>2, <1>3, <1>5, <2>1, <2>2, <2>4, <2>5, CopiesRoom DEF Done
<1>9. ASSUME EnterRoom(r) PROVE CopiesInv'
  <2>1. /\ q.pc = "enter" /\ Done(r)
        /\ room' = [room EXCEPT ![c] = IF sock[q.who].st = "on" THEN @ \cup {q.who} ELSE @]
    BY Zenon, <1>1, <1>4, <1>9 DEF EnterRoom
  <2>2. q.who \in User
    BY Zenon, <1>1, <2>1 DEF Shape
  <2>3. /\ room' \in [Channel -> SUBSET User] /\ \A d \in Channel \ {c} : room'[d] = room[d]
        /\ \A w \in User : w \in room'[c] <=> w \in room[c] \/ (w = q.who /\ sock[w].st = "on")
    BY Zenon, <1>6, <2>1, <2>2
  <2>4. ASSUME NEW d \in Channel, NEW w \in User, <<d, w>> \notin adrift
        PROVE  \/ (w \in room'[d] <=> w \in room[d]) /\ (sock[w].st = "on" => ~Steer(req[r], d, w))
               \/ sock[w].st = "on" /\ (w \in room'[d] <=> In(d, w))
    BY <1>1, <1>4, <2>1, <2>2, <2>3, <2>4 DEF Facts, Steer, Ins, Outs
  <2>5. /\ \A d \in Channel, w \in User : w \in room'[d] => w \in room[d] \/ sock[w].st = "on"
        /\ \A d \in Channel, w \in User : sock[w].st # "on" => (w \in room'[d] <=> w \in room[d])
    BY Zenon, <2>3
  <2>6. QED
    BY Zenon, <1>1, <1>2, <1>3, <1>5, <2>1, <2>3, <2>4, <2>5, CopiesRoom DEF Done
<1>10. QED
  BY Zenon, <1>7, <1>8, <1>9

\* When a cached set goes, the history forgets pairs of its channel only, and
\* only while nobody is about to fill it.
LEMMA RenewedKeeps ==
    ASSUME NEW c, stale' = Renewed(c), NEW d, NEW u, <<d, u>> \in stale, <<d, u>> \notin stale'
    PROVE  d = c /\ \A q \in Request : ~Fill(req[q], c)
BY DEF Renewed, Fills, Fill

\* addMember's UPDATE: the repairs are one step nearer, or the history names the
\* pair that nobody repairs.
LEMMA CopiesTouch ==
    ASSUME ChannelsInv, CopiesInv, NEW r \in Request, AddTouch(r)
    PROVE  CopiesInv'
<1>1. PICK q \in Reqs : q = req[r] /\ ReqOK(r) /\ Shape(q) /\ Facts(q)
  BY Zenon DEF ChannelsInv, ChannelsType, CopiesInv
<1>2. PICK c \in Channel, u \in User :
         c = q.ch /\ u = q.who /\ q.pc = "touch" /\ q.op = "add" /\ q.set = {u} /\ kind[c] # "none"
  BY Zenon, <1>1 DEF ReqOK, Shape, AddTouch
<1>3. UNCHANGED <<kind, role, cache, sock, room>>
  BY Zenon DEF AddTouch, rows
<1>4. CopyType' /\ RestOK' /\ BlankOK' /\ \A d \in Channel, w \in User : In(d, w)' <=> In(d, w)
  BY Zenon, <1>3 DEF CopiesInv, CopyType, RestOK, BlankOK, In
<1>5. ASSUME NEW v \in Reqs, req' = [req EXCEPT ![r] = v], Shape(v)', Facts(v)',
             stale \subseteq stale', adrift \subseteq adrift',
             \/ v.pc = "invalidate" /\ v.op = "add" /\ v.ch = c /\ v.who = u
             \/ <<c, u>> \in stale' /\ <<c, u>> \in adrift'
      PROVE  CopiesInv'
  <2>1. req'[r] = v /\ \A k \in Request \ {r} : req'[k] = req[k]
    BY Zenon, <1>5 DEF ChannelsInv, ChannelsType
  <2>2. ASSUME NEW d \in Channel, NEW w \in User PROVE CacheOK(d, w)' /\ RoomOK(d, w)'
    <3>1. \A k \in Request : Invals(req[k], d, w) => Invals(req[k], d, w)' \/ <<d, w>> \in stale'
      BY Zenon, <1>1, <1>2, <1>5, <2>1 DEF Invals
    <3>2. \A k \in Request : Joins(req[k], d, w) => Joins(req[k], d, w)' \/ <<d, w>> \in adrift'
      BY Zenon, <1>1, <1>2, <1>5, <2>1 DEF Joins
    <3>3. \A k \in Request : Leaves(req[k], d, w) => Leaves(req[k], d, w)'
      BY Zenon, <1>1, <1>2, <2>1 DEF Leaves
    <3>4. CacheOK(d, w)'
      BY Zenon, <1>3, <1>4, <1>5, <3>1, CacheKept
    <3>5. RoomOK(d, w)'
      BY Zenon, <1>3, <1>4, <1>5, <3>2, <3>3, RoomKept
    <3>6. QED
      BY Zenon, <3>4, <3>5
  <2>3. QED
    BY Zenon, <1>3, <1>4, <1>5, <2>2, CopiesMove
<1>6. CASE Step(r, "invalidate") /\ UNCHANGED <<stale, adrift>>
  <2> DEFINE v == [q EXCEPT !.pc = "invalidate"]
  <2>1. v \in Reqs /\ v.pc = "invalidate" /\ v.op = "add" /\ v.ch = c /\ v.set = {u} /\ v.who = u
    BY Zenon, <1>2 DEF Reqs
  <2>2. req' = [req EXCEPT ![r] = v]
    BY Zenon, <1>1, <1>6 DEF Step
  <2> HIDE DEF v
  <2>3. Shape(v)'
    BY Zenon, <1>2, <1>3, <2>1 DEF Shape
  <2>4. Facts(v)'
    BY Zenon, <1>1, <1>2, <1>4, <1>6, <2>1 DEF Facts, Ins, Outs
  <2>5. QED
    BY Zenon, <1>5, <1>6, <2>1, <2>2, <2>3, <2>4
<1>7. CASE Done(r) /\ stale' = stale \cup {<<c, u>>} /\ adrift' = adrift \cup {<<c, u>>}
  <2>1. Idle \in Reqs /\ Shape(Idle)' /\ Facts(Idle)'
    BY Zenon DEF Idle, Reqs, Shape, Facts, Ins, Outs
  <2>2. QED
    BY Zenon, <1>5, <1>7, <2>1 DEF Done
<1>8. QED
  BY Zenon, <1>1, <1>2, <1>6, <1>7 DEF AddTouch, history

\* invalidate: the cached set goes, or the history names the pair; the room is
\* next.
LEMMA CopiesInvalidate ==
    ASSUME ChannelsInv, CopiesInv, NEW r \in Request, Invalidate(r)
    PROVE  CopiesInv'
<1>1. PICK q \in Reqs : q = req[r] /\ ReqOK(r) /\ Shape(q) /\ Facts(q)
  BY Zenon DEF ChannelsInv, ChannelsType, CopiesInv
<1>2. PICK c \in Channel : c = q.ch /\ q.pc = "invalidate" /\ kind[c] # "none"
  BY Zenon, <1>1 DEF ReqOK, Shape, Invalidate
<1>3. UNCHANGED <<kind, role, sock, room, adrift>>
  BY Zenon DEF Invalidate, rows
<1>4. PICK p \in {"join", "leave"} : Step(r, p) /\ p = (IF q.op = "add" THEN "join" ELSE "leave")
  BY Zenon, <1>1 DEF Invalidate
<1> DEFINE v == [q EXCEPT !.pc = p]
<1>5. v \in Reqs /\ v.pc = p /\ v.op = q.op /\ v.ch = c /\ v.set = q.set /\ v.who = q.who /\ v.by = q.by
  BY Zenon, <1>2 DEF Reqs
<1>6. req' = [req EXCEPT ![r] = v]
  BY Zenon, <1>1, <1>4 DEF Step
<1> HIDE DEF v
<1>7. req'[r] = v /\ \A k \in Request \ {r} : req'[k] = req[k]
  BY Zenon, <1>6 DEF ChannelsInv, ChannelsType
<1>8. \/ cache' = [cache EXCEPT ![c] = {}] /\ stale' = Renewed(c)
      \/ stale' = stale \cup {<<c, q.who>>} /\ UNCHANGED cache
  BY Zenon, <1>1, <1>2 DEF Invalidate
<1>9. /\ cache' \in [Channel -> SUBSET User]
      /\ \A d \in Channel : cache'[d] \in {cache[d], {}}
      /\ cache'[c] = {} \/ (stale \subseteq stale' /\ <<c, q.who>> \in stale')
  <2>1. cache \in [Channel -> SUBSET User]
    BY Zenon DEF CopiesInv, CopyType
  <2>2. QED
    BY Zenon, <1>8, <2>1
<1>10. ASSUME NEW d \in Channel, NEW w \in User, <<d, w>> \in stale, <<d, w>> \notin stale'
       PROVE  cache'[d] = {} /\ \A k \in Request : ~Fill(req[k], d)
  <2>1. cache' = [cache EXCEPT ![c] = {}] /\ stale' = Renewed(c)
    BY Zenon, <1>8, <1>10
  <2>2. d = c /\ \A k \in Request : ~Fill(req[k], c)
    BY Zenon, <1>10, <2>1, RenewedKeeps
  <2>3. cache'[c] = {}
    BY Zenon, <2>1 DEF CopiesInv, CopyType
  <2>4. QED
    BY Zenon, <2>2, <2>3
<1>11. \A d \in Channel, w \in User : In(d, w)' <=> In(d, w)
  BY Zenon, <1>3 DEF In
<1>12. CopyType' /\ RestOK' /\ BlankOK'
  BY Zenon, <1>3, <1>9, <1>11 DEF CopiesInv, CopyType, RestOK, BlankOK
<1>13. q.who \in User /\ (q.op = "add" => q.set = {q.who}) /\ q.op \in {"add", "remove"}
  BY Zenon, <1>1, <1>2 DEF Shape
<1>14. Shape(v)'
  BY Zenon, <1>2, <1>3, <1>4, <1>5, <1>13 DEF Shape
<1>15. Facts(v)'
  BY <1>1, <1>2, <1>3, <1>4, <1>5, <1>11, <1>13 DEF Facts, Ins, Outs
<1>16. ASSUME NEW d \in Channel, NEW w \in User PROVE CacheOK(d, w)' /\ RoomOK(d, w)'
  <2>1. \A k \in Request : Invals(req[k], d, w) =>
           Invals(req[k], d, w)' \/ cache'[d] = {} \/ <<d, w>> \in stale'
    BY Zenon, <1>1, <1>2, <1>7, <1>9 DEF Invals
  <2>2. \A k \in Request : Joins(req[k], d, w) => Joins(req[k], d, w)'
    BY SMTT(20), <1>1, <1>2, <1>4, <1>5, <1>7, <1>13 DEF Joins
  <2>3. \A k \in Request : Leaves(req[k], d, w) => Leaves(req[k], d, w)'
    BY SMTT(20), <1>1, <1>2, <1>4, <1>5, <1>7, <1>13 DEF Leaves
  <2>4. CacheOK(d, w)'
    BY Zenon, <1>11, <1>9, <1>10, <2>1, CacheKept
  <2>5. RoomOK(d, w)'
    BY Zenon, <1>3, <1>11, <2>2, <2>3, RoomKept
  <2>6. QED
    BY Zenon, <2>4, <2>5
<1>17. \A k \in Request \ {r}, d \in Channel, w \in User :
          Fill(req[k], d) /\ <<d, w>> \in stale => <<d, w>> \in stale'
  BY Zenon, <1>10
<1>18. QED
  BY Zenon, <1>3, <1>5, <1>6, <1>11, <1>12, <1>14, <1>15, <1>16, <1>17, CopiesMove

\* No request moves and no row changes; the history forgets a cached set that is
\* gone with nobody about to fill it, and a socket that is with nobody about it.
LEMMA CopiesStill ==
    ASSUME ChannelsInv, CopiesInv, UNCHANGED <<kind, role, req>>, CopyType', RestOK',
           \A c \in Channel : cache'[c] \in {cache[c], {}},
           \A c, u : <<c, u>> \in stale =>
               <<c, u>> \in stale' \/ (cache'[c] = {} /\ \A q \in Request : ~Fill(req[q], c)),
           \A c, u : <<c, u>> \in adrift =>
               \/ <<c, u>> \in adrift'
               \/ /\ sock'[u].st = "off"
                  /\ \A q \in Request : ~Steer(req[q], c, u) /\ ~(req[q].op = "exit" /\ req[q].who = u),
           \A c \in Channel, u \in User : <<c, u>> \notin adrift =>
               \/ sock'[u] = sock[u] /\ (u \in room'[c] <=> u \in room[c])
               \/ sock'[u].st = "on" /\ (u \in room'[c] <=> In(c, u))
               \/ sock'[u].st = "joining" /\ (c \in sock'[u].list <=> In(c, u))
               \/ sock'[u].st = "off"
    PROVE  CopiesInv'
<1>1. \A c \in Channel, u \in User : In(c, u)' <=> In(c, u)
  BY Zenon DEF In
<1>2. BlankOK'
  BY Zenon, <1>1 DEF CopiesInv, BlankOK
<1>3. ASSUME NEW r \in Request PROVE Shape(req[r])' /\ Facts(req[r])'
  <2>1. req'[r] = req[r]
    BY Zenon
  <2>2. \A c \in Channel, u \in User : Fill(req[r], c) => (<<c, u>> \in stale => <<c, u>> \in stale')
    BY Zenon
  <2>3. \A c \in Channel, u \in User : Steer(req[r], c, u) => (<<c, u>> \in adrift => <<c, u>> \in adrift')
    BY Zenon
  <2>4. req[r].op = "exit" /\ <<req[r].ch, req[r].who>> \in adrift => <<req[r].ch, req[r].who>> \in adrift'
    BY Zenon
  <2>5. QED
    BY Zenon, <1>1, <2>1, <2>2, <2>3, <2>4, FactsKept
<1>4. ASSUME NEW c \in Channel, NEW u \in User PROVE CacheOK(c, u)' /\ RoomOK(c, u)'
  <2>1. \A q \in Request : /\ Invals(req[q], c, u) => Invals(req[q], c, u)'
                           /\ Joins(req[q], c, u) => Joins(req[q], c, u)'
                           /\ Leaves(req[q], c, u) => Leaves(req[q], c, u)'
    BY Zenon DEF Invals, Joins, Leaves
  <2>2. CacheOK(c, u)'
    BY Zenon, <1>1, <2>1, CacheKept
  <2>3. RoomOK(c, u)'
    BY Zenon, <1>1, <2>1, RoomKept
  <2>4. QED
    BY Zenon, <2>2, <2>3
<1>5. QED
  BY Zenon, <1>2, <1>3, <1>4 DEF CopiesInv

\* A socket connects, joins the rooms of its list, disconnects; a key expires.
LEMMA CopiesSockets ==
    ASSUME ChannelsInv, CopiesInv,
           \/ \E u \in Client : ConnectRead(u) \/ ConnectJoin(u) \/ Disconnect(u)
           \/ \E c \in Channel : CacheExpire(c)
           \/ UNCHANGED vars
    PROVE  CopiesInv'
<1>1. CopyType /\ RestOK /\ \A c \in Channel, u \in User : RoomOK(c, u)
  BY Zenon DEF CopiesInv
<1>2. ASSUME NEW u \in User, ConnectRead(u) PROVE CopiesInv'
  <2> DEFINE v == [st |-> "joining", list |-> {c \in Channel : u \in Members(c)}]
  <2>1. sock' = [sock EXCEPT ![u] = v] /\ UNCHANGED <<kind, role, req, stale, adrift, cache, room>> /\ sock[u].st = "off"
    BY Zenon, <1>2 DEF ConnectRead, rows, history
  <2>2. v \in Sockets /\ v.st = "joining" /\ \A c \in Channel : c \in v.list <=> In(c, u)
    BY Zenon DEF Sockets, Members, In
  <2> HIDE DEF v
  <2>3. sock' \in [User -> Sockets] /\ sock'[u] = v /\ \A w \in User \ {u} : sock'[w] = sock[w]
    BY Zenon, <1>1, <2>1, <2>2 DEF CopyType
  <2>4. CopyType' /\ RestOK'
    BY Zenon, <1>1, <2>1, <2>2, <2>3 DEF CopyType, RestOK
  <2>5. QED
    BY Zenon, <2>1, <2>2, <2>3, <2>4, CopiesStill
<1>3. ASSUME NEW u \in User, ConnectJoin(u) PROVE CopiesInv'
  <2> DEFINE v == [st |-> "on", list |-> {}]
  <2>1. /\ sock' = [sock EXCEPT ![u] = v] /\ UNCHANGED <<kind, role, req, stale, adrift, cache>> /\ sock[u].st = "joining"
        /\ room' = [c \in Channel |-> IF c \in sock[u].list THEN room[c] \cup {u} ELSE room[c]]
    BY Zenon, <1>3 DEF ConnectJoin, rows, history
  <2>2. v \in Sockets /\ v.st = "on"
    BY Zenon DEF Sockets
  <2> HIDE DEF v
  <2>3. sock' \in [User -> Sockets] /\ sock'[u] = v /\ \A w \in User \ {u} : sock'[w] = sock[w]
    BY Zenon, <1>1, <2>1, <2>2 DEF CopyType
  <2>4. /\ room' \in [Channel -> SUBSET User]
        /\ \A c \in Channel : u \in room'[c] <=> c \in sock[u].list
        /\ \A c \in Channel, w \in User \ {u} : w \in room'[c] <=> w \in room[c]
    BY Zenon, <1>1, <2>1 DEF CopyType, RestOK
  <2>5. CopyType' /\ RestOK'
    BY Zenon, <1>1, <2>1, <2>2, <2>3, <2>4 DEF CopyType, RestOK
  <2>6. \A c \in Channel : <<c, u>> \notin adrift => (u \in room'[c] <=> In(c, u))
    BY Zenon, <1>1, <2>1, <2>4 DEF RoomOK
  <2>7. ASSUME NEW c \in Channel, NEW w \in User, <<c, w>> \notin adrift
        PROVE  \/ sock'[w] = sock[w] /\ (w \in room'[c] <=> w \in room[c])
               \/ sock'[w].st = "on" /\ (w \in room'[c] <=> In(c, w))
    BY Zenon, <2>2, <2>3, <2>4, <2>6, <2>7
  <2>8. QED
    BY Zenon, <2>1, <2>5, <2>7, CopiesStill
<1>4. ASSUME NEW u \in User, Disconnect(u) PROVE CopiesInv'
  <2>1. /\ sock' = [sock EXCEPT ![u] = NoSocket] /\ UNCHANGED <<kind, role, req, stale, cache>>
        /\ room' = [c \in Channel |-> room[c] \ {u}]
    BY Zenon, <1>4 DEF Disconnect, rows
  <2>2. NoSocket \in Sockets /\ NoSocket.st = "off"
    BY Zenon DEF Sockets, NoSocket
  <2>3. sock' \in [User -> Sockets] /\ sock'[u] = NoSocket /\ \A w \in User \ {u} : sock'[w] = sock[w]
    BY Zenon, <1>1, <2>1, <2>2 DEF CopyType
  <2>4. /\ room' \in [Channel -> SUBSET User]
        /\ \A c \in Channel : u \notin room'[c]
        /\ \A c \in Channel, w \in User \ {u} : w \in room'[c] <=> w \in room[c]
    BY Zenon, <1>1, <2>1 DEF CopyType
  <2>5. CopyType' /\ RestOK'
    BY Zenon, <1>1, <2>1, <2>2, <2>3, <2>4 DEF CopyType, RestOK
  <2>6. \A c, w : <<c, w>> \in adrift =>
           \/ <<c, w>> \in adrift'
           \/ w = u /\ \A q \in Request : ~Steer(req[q], c, u) /\ ~(req[q].op = "exit" /\ req[q].who = u)
    BY <1>4 DEF Disconnect, Steers, Steer
  <2>7. \A c, w : <<c, w>> \in adrift =>
           \/ <<c, w>> \in adrift'
           \/ /\ sock'[w].st = "off"
              /\ \A q \in Request : ~Steer(req[q], c, w) /\ ~(req[q].op = "exit" /\ req[q].who = w)
    BY Zenon, <2>2, <2>3, <2>6
  <2>8. ASSUME NEW c \in Channel, NEW w \in User
        PROVE  (sock'[w] = sock[w] /\ (w \in room'[c] <=> w \in room[c])) \/ sock'[w].st = "off"
    BY Zenon, <2>2, <2>3, <2>4
  <2>9. QED
    BY Zenon, <2>1, <2>5, <2>7, <2>8, CopiesStill
<1>5. ASSUME NEW c \in Channel, CacheExpire(c) PROVE CopiesInv'
  <2>1. cache' = [cache EXCEPT ![c] = {}] /\ UNCHANGED <<kind, role, req, adrift, sock, room>> /\ stale' = Renewed(c)
    BY Zenon, <1>5 DEF CacheExpire, rows
  <2>2. cache' \in [Channel -> SUBSET User] /\ \A d \in Channel : cache'[d] \in {cache[d], {}}
    BY Zenon, <1>1, <2>1 DEF CopyType
  <2>3. CopyType' /\ RestOK'
    BY Zenon, <1>1, <2>1, <2>2 DEF CopyType, RestOK
  <2>4. \A d, u : <<d, u>> \in stale =>
           <<d, u>> \in stale' \/ (cache'[d] = {} /\ \A q \in Request : ~Fill(req[q], d))
    <3>1. SUFFICES ASSUME NEW d, NEW u, <<d, u>> \in stale, <<d, u>> \notin stale'
                   PROVE  cache'[d] = {} /\ \A q \in Request : ~Fill(req[q], d)
      BY Zenon
    <3>2. d = c /\ \A q \in Request : ~Fill(req[q], c)
      BY Zenon, <2>1, <3>1, RenewedKeeps
    <3>3. cache'[c] = {}
      BY Zenon, <1>1, <2>1 DEF CopyType
    <3>4. QED
      BY Zenon, <3>2, <3>3
  <2>5. QED
    BY Zenon, <2>1, <2>2, <2>3, <2>4, CopiesStill
<1>6. ASSUME UNCHANGED vars PROVE CopiesInv'
  BY Zenon, <1>1, <1>6, CopiesStill DEF vars, CopyType, RestOK
<1>7. Client \subseteq User
  BY Zenon, ChannelsAssumption
<1>8. QED
  BY Zenon, <1>2, <1>3, <1>4, <1>5, <1>6, <1>7

\* Every step keeps the copies as they should be.
LEMMA CopiesNext == ChannelsInv /\ CopiesInv /\ [Next]_vars => CopiesInv'
<1> SUFFICES ASSUME ChannelsInv, CopiesInv, [Next]_vars PROVE CopiesInv'
  BY Zenon
<1>1. ASSUME NEW r \in Request, Start(r) PROVE CopiesInv'
  BY Zenon, <1>1, CopiesCreate, CopiesDirect, CopiesStarts, CopiesAsk DEF Start
<1>2. ASSUME NEW r \in Request, Continue(r) PROVE CopiesInv'
  BY Zenon, <1>2, CopiesDirect, CopiesCreate, CopiesSet, CopiesRooms, CopiesQuiet, CopiesRows,
     CopiesTouch, CopiesInvalidate DEF Continue
<1>3. QED
  BY Zenon, <1>1, <1>2, CopiesSockets DEF Next

\* A copy of a membership that differs from the row is about to be repaired, or
\* the history names it.
THEOREM CopiesInvTheorem == Spec => []CopiesInv
<1>1. Init => CopiesInv
  BY Zenon, CopiesInit
<1>2. QED
  BY <1>1, CopiesNext, ChannelsInvTheorem, PTL DEF Spec

\* invalidate: once the handlers that changed a membership have dropped the cached
\* set, a present one tells the truth about the user, unless a snapshot overlapped
\* the change, the DEL failed or addMember's UPDATE failed.
THEOREM CacheTheorem == Spec => []CacheFollowsRows
<1>1. CopiesInv => CacheFollowsRows
  BY Zenon, CopiesFollow
<1>2. QED
  BY <1>1, CopiesInvTheorem, PTL

\* joinUsersToChannel, removeUserFromChannel and the connection's own joins: once
\* the handlers that changed a membership have moved the socket, a connected user
\* is in the room of every channel they are a member of and in no other, unless
\* the change overlapped a connect or another handler about to move the socket,
\* addMember's UPDATE failed, the cached set let them in wrongly or they asked to
\* leave.
THEOREM RoomTheorem == Spec => []RoomFollowsRows
<1>1. CopiesInv => RoomFollowsRows
  BY Zenon, CopiesFollow
<1>2. QED
  BY <1>1, CopiesInvTheorem, PTL
-----------------------------------------------------------------------------
(* What follows counts, with the library's facts about finite sets.        *)
INSTANCE FiniteSetTheorems

\* A set of channels without two different ones has at most one.
LEMMA DirectsCounted == DirectsOK => OneDirectPerPair
<1> SUFFICES ASSUME DirectsOK, NEW p \in Pair
             PROVE  Cardinality({c \in Channel : Direct(c, p)}) <= 1
  BY Zenon DEF OneDirectPerPair
<1> DEFINE S == {c \in Channel : Direct(c, p)}
<1>1. \A c, d \in S : c = d
  BY Zenon DEF DirectsOK
<1> HIDE DEF S
<1>2. S = {} \/ \E c : S = {c}
  BY <1>1
<1>3. Cardinality(S) \in {0, 1}
  <2>1. CASE S = {}
    BY Zenon, <2>1, FS_EmptySet
  <2>2. ASSUME NEW c, S = {c} PROVE Cardinality(S) = 1
    BY Zenon, <2>2, FS_Singleton
  <2>3. QED
    BY Zenon, <1>2, <2>1, <2>2
<1>4. QED
  BY <1>3 DEF S

\* createDirect: two users never share two DIRECT channels, however their
\* requests overlap.
THEOREM DirectTheorem == Spec => []OneDirectPerPair
<1>1. ChannelsInv => OneDirectPerPair
  BY Zenon, DirectsCounted DEF ChannelsInv
<1>2. QED
  BY <1>1, ChannelsInvTheorem, PTL
-----------------------------------------------------------------------------
\* The requests about to insert a member of c.
Adding(c) == {r \in Request : req[r].pc = "add" /\ req[r].ch = c}

\* Rows and requests are finitely many.
LEMMA CapCounts ==
    ASSUME NEW c \in Channel
    PROVE  /\ IsFiniteSet(Members(c)) /\ Cardinality(Members(c)) \in Nat
           /\ IsFiniteSet(Adding(c)) /\ Cardinality(Adding(c)) \in Nat
           /\ Cardinality(Request) \in Nat \ {0}
           /\ Cardinality(Adding(c)) <= Cardinality(Request)
<1>1. Members(c) \subseteq User /\ Adding(c) \subseteq Request
  BY Zenon DEF Members, Adding
<1>2. IsFiniteSet(User) /\ IsFiniteSet(Request) /\ Request # {}
  BY Zenon, ChannelsAssumption
<1>3. IsFiniteSet(Members(c)) /\ IsFiniteSet(Adding(c)) /\ Cardinality(Adding(c)) <= Cardinality(Request)
  BY Zenon, <1>1, <1>2, FS_Subset
<1>4. Cardinality(Request) # 0
  BY Zenon, <1>2, FS_EmptySet
<1>5. QED
  BY Zenon, <1>2, <1>3, <1>4, FS_CardinalityType

\* CapOverrun, of one channel.
CapOf(c) == Cardinality(Members(c)) + Cardinality(Adding(c)) <= MaxParticipants + Cardinality(Request)

\* Fewer members and fewer requests about to insert are within the same bound.
LEMMA CapShrinks ==
    ASSUME NEW c \in Channel, CapOf(c), Members(c)' \subseteq Members(c), Adding(c)' \subseteq Adding(c)
    PROVE  CapOf(c)'
<1>1. IsFiniteSet(Members(c)) /\ IsFiniteSet(Adding(c))
      /\ Cardinality(Members(c)) \in Nat /\ Cardinality(Adding(c)) \in Nat /\ Cardinality(Request) \in Nat
  BY Zenon, CapCounts
<1> DEFINE M == Members(c)' A == Adding(c)'
<1>2. M \subseteq Members(c) /\ A \subseteq Adding(c)
  BY Zenon
<1> HIDE DEF M, A
<1>3. IsFiniteSet(M) /\ Cardinality(M) <= Cardinality(Members(c))
      /\ IsFiniteSet(A) /\ Cardinality(A) <= Cardinality(Adding(c))
  BY Zenon, <1>1, <1>2, FS_Subset
<1>4. Cardinality(M) \in Nat /\ Cardinality(A) \in Nat
  BY Zenon, <1>3, FS_CardinalityType
<1>5. MaxParticipants \in Nat
  BY Zenon, ChannelsAssumption
<1>6. Cardinality(M) + Cardinality(A) <= MaxParticipants + Cardinality(Request)
  BY <1>1, <1>3, <1>4, <1>5 DEF CapOf
<1>7. QED
  BY Zenon, <1>6 DEF CapOf, M, A

\* A channel at rest has its founder and at most MaxParticipants others.
LEMMA CapInit == Init => \A c \in Channel : CapOf(c)
<1> SUFFICES ASSUME Init, NEW c \in Channel PROVE CapOf(c)
  BY Zenon
<1>1. Adding(c) = {}
  BY Zenon DEF Init, Idle, Adding
<1>2. Cardinality(Adding(c)) = 0
  BY Zenon, <1>1, FS_EmptySet
<1>3. MaxParticipants \in Nat /\ Cardinality(Request) \in Nat \ {0}
  BY Zenon, CapCounts, ChannelsAssumption
<1>4. ASSUME Members(c) = {} PROVE CapOf(c)
  BY <1>2, <1>3, <1>4, FS_EmptySet DEF CapOf
<1>5. CASE Empty
  BY Zenon, <1>4, <1>5 DEF Empty, Members
<1>6. ASSUME NEW d \in Channel, NEW u \in User, NEW n \in 1 .. MaxParticipants,
             NEW added \in [1 .. n -> User \ {u}], Founded(d, u, added)
      PROVE  CapOf(c)
  <2> DEFINE S == {added[i] : i \in 1 .. n}
  <2>1. PICK as \in [{added[i] : i \in DOMAIN added} -> {"MEMBER", "ADMIN"}] :
           role = [e \in Channel |-> [v \in User |->
                     IF e # d THEN "none" ELSE CASE v = u -> "ADMIN" [] v \in DOMAIN as -> as[v] [] OTHER -> "none"]]
    BY Zenon, <1>6 DEF Founded
  <2>2. DOMAIN as = S
    BY Zenon
  <2>3. Members(c) \subseteq S \cup {u}
    <3> SUFFICES ASSUME NEW v \in User, role[c][v] # "none", v # u PROVE v \in S
      BY Zenon DEF Members
    <3>1. role[c][v] = IF c # d THEN "none" ELSE CASE v = u -> "ADMIN" [] v \in DOMAIN as -> as[v] [] OTHER -> "none"
      BY Zenon, <2>1
    <3>2. QED
      BY Zenon, <2>2, <3>1
  <2>4. IsFiniteSet(1 .. n) /\ Cardinality(1 .. n) = n /\ n \in Nat
    BY <1>3, FS_Interval
  <2>5. IsFiniteSet(S) /\ Cardinality(S) <= n
    <3>1. added \in Surjection(1 .. n, S)
      BY Zenon DEF Surjection
    <3> HIDE DEF S
    <3>2. QED
      BY <2>4, <3>1, FS_Surjection
  <2> HIDE DEF S
  <2>6. IsFiniteSet(S \cup {u}) /\ Cardinality(S \cup {u}) <= n + 1
    <3>1. Cardinality(S) \in Nat
      BY Zenon, <2>5, FS_CardinalityType
    <3>2. IsFiniteSet(S \cup {u}) /\ Cardinality(S \cup {u}) \in {Cardinality(S), Cardinality(S) + 1}
      BY Zenon, <2>5, FS_AddElement
    <3>3. QED
      BY SMTT(20), <2>4, <2>5, <3>1, <3>2
  <2>7. Cardinality(Members(c)) <= Cardinality(S \cup {u})
    BY Zenon, <2>3, <2>6, FS_Subset
  <2>8. Cardinality(Members(c)) \in Nat /\ Cardinality(S \cup {u}) \in Nat
    BY Zenon, <2>6, CapCounts, FS_CardinalityType
  <2>9. QED
    BY SMTT(20), <1>2, <1>3, <2>4, <2>6, <2>7, <2>8 DEF CapOf
<1>7. QED
  BY Zenon, <1>5, <1>6 DEF Init

\* A new channel: its creator, at most MaxParticipants others, and nobody adding.
LEMMA CapInsert ==
    ASSUME ChannelsInv, NEW r \in Request, NEW c \in Channel, NEW u \in User, NEW others \in SUBSET User,
           NEW t \in {"DIRECT", "GROUP"}, u \notin others, InsertChannel(c, u, others, t),
           Cardinality(others) <= MaxParticipants,
           NEW v \in Reqs, v.pc = "cache", req' = [req EXCEPT ![r] = v],
           \A d \in Channel : CapOf(d)
    PROVE  \A d \in Channel : CapOf(d)'
<1>1. /\ kind[c] = "none" /\ \A d \in Channel \ {c} : role'[d] = role[d]
      /\ Members(c)' = others \cup {u}
  BY SMTT(20), Inserted
<1>2. req \in [Request -> Reqs] /\ \A q \in Request : ReqOK(q)
  BY Zenon DEF ChannelsInv, ChannelsType
<1>3. \A q \in Request : req'[q].pc = "add" => req'[q] = req[q]
  BY Zenon, <1>2
<1>4. ASSUME NEW d \in Channel \ {c} PROVE CapOf(d)'
  <2>1. Members(d)' = Members(d) /\ Adding(d)' \subseteq Adding(d)
    BY Zenon, <1>1, <1>3 DEF Members, Adding
  <2>2. QED
    BY Zenon, <2>1, CapShrinks
<1>5. Adding(c)' = {}
  BY Zenon, <1>1, <1>2, <1>3 DEF Adding, ReqOK
<1>6. Cardinality(others) \in Nat /\ Cardinality(Members(c)') <= Cardinality(others) + 1
  <2>1. IsFiniteSet(others)
    BY Zenon, FS_Subset, ChannelsAssumption
  <2>2. Cardinality(others) \in Nat
    BY Zenon, <2>1, FS_CardinalityType
  <2>3. Cardinality(others \cup {u}) = Cardinality(others) + 1
    BY Zenon, <2>1, FS_AddElement
  <2>4. QED
    BY SMTT(20), <1>1, <2>2, <2>3
<1>7. Cardinality(Adding(c)') = 0
  BY Zenon, <1>5, FS_EmptySet
<1>8. MaxParticipants \in Nat /\ Cardinality(Request) \in Nat \ {0}
  BY Zenon, CapCounts, ChannelsAssumption
<1>9. IsFiniteSet(Members(c)')
  <2>1. Members(c)' \subseteq User
    BY Zenon, <1>1
  <2>2. QED
    BY Zenon, <2>1, FS_Subset, ChannelsAssumption
<1>10. Cardinality(Members(c)') \in Nat
  BY Zenon, <1>9, FS_CardinalityType
<1>11. CapOf(c)'
  BY <1>6, <1>7, <1>8, <1>10 DEF CapOf
<1>12. QED
  BY Zenon, <1>4, <1>11
\* Only addMember's count brings a request to its insert.
LEMMA AddMoves ==
    ASSUME ChannelsInv, [Next]_vars, NEW q \in Request, req'[q].pc = "add", req'[q] # req[q]
    PROVE  AddCount(q)
<1>1. req \in [Request -> Reqs]
  BY Zenon DEF ChannelsInv, ChannelsType
<1>2. ASSUME NEW r \in Request, NEW v, req' = [req EXCEPT ![r] = v]
      PROVE  q = r /\ v.pc = "add"
  BY Zenon, <1>1, <1>2
<1>3. ASSUME NEW r \in Request, NEW p, Step(r, p)
      PROVE  q = r /\ p = "add"
  <2> DEFINE v == [req[r] EXCEPT !.pc = p]
  <2>1. req' = [req EXCEPT ![r] = v]
    BY Zenon, <1>3 DEF Step
  <2>2. v.pc = p
    BY Zenon, <1>1 DEF Reqs
  <2> HIDE DEF v
  <2>3. QED
    BY Zenon, <1>2, <2>1, <2>2
<1>4. ASSUME NEW r \in Request, Done(r) PROVE FALSE
  BY <1>2, <1>4 DEF Done, Idle
<1>5. ASSUME NEW r \in Request, NEW v, Begin(r, v) PROVE v.pc = "add"
  BY Zenon, <1>2, <1>5 DEF Begin
<1>6. ASSUME NEW r \in Request, NEW c \in Channel, NEW u \in User, NEW others \in SUBSET User,
             CreateGroup(r, c, u, others)
      PROVE  FALSE
  <2> DEFINE v == [op |-> "group", pc |-> "cache", ch |-> c, by |-> u, who |-> None,
                   set |-> others \cup {u}]
  <2>1. Begin(r, v) /\ v.pc = "cache"
    BY Zenon, <1>6 DEF CreateGroup
  <2> HIDE DEF v
  <2>2. QED
    BY Zenon, <1>5, <2>1
<1>7. ASSUME NEW r \in Request, NEW u \in User, NEW w \in User, CreateDirect(r, u, w)
      PROVE  FALSE
  <2> DEFINE v == [op |-> "direct", pc |-> "find", ch |-> None, by |-> u, who |-> w, set |-> {u, w}]
  <2>1. Begin(r, v) /\ v.pc = "find"
    BY Zenon, <1>7 DEF CreateDirect
  <2> HIDE DEF v
  <2>2. QED
    BY Zenon, <1>5, <2>1
<1>8. ASSUME NEW r \in Request, NEW c \in Channel, NEW u \in User, NEW w \in User,
             AddMember(r, c, u, w) \/ RemoveMember(r, c, u, w) \/ Archive(r, c, u)
      PROVE  FALSE
  <2>1. PICK v : Begin(r, v) /\ v.pc \in {"count", "lock row", "flag"}
    <3> DEFINE v1 == [op |-> "add", pc |-> "count", ch |-> c, by |-> u, who |-> w, set |-> {w}]
               v2 == [op |-> "remove", pc |-> "lock row", ch |-> c, by |-> u, who |-> w, set |-> {}]
               v3 == [op |-> "archive", pc |-> "flag", ch |-> c, by |-> u, who |-> None, set |-> {}]
    <3>1. Begin(r, v1) \/ Begin(r, v2) \/ Begin(r, v3)
      BY Zenon, <1>8 DEF AddMember, RemoveMember, Archive
    <3>2. v1.pc = "count" /\ v2.pc = "lock row" /\ v3.pc = "flag"
      BY Zenon
    <3> HIDE DEF v1, v2, v3
    <3>3. QED
      BY Zenon, <3>1, <3>2
  <2>2. QED
    BY Zenon, <1>5, <2>1
<1>9. ASSUME NEW r \in Request, NEW c \in Channel, NEW u \in User, NEW op \in {"enter", "exit"},
             AskMember(r, c, u, op)
      PROVE  FALSE
  <2> DEFINE p == IF cache[c] # {} THEN op ELSE "read rows"
             v == [op |-> op, pc |-> p, ch |-> c, by |-> u, who |-> u, set |-> {}]
  <2>1. Begin(r, v) /\ v.pc = p
    BY Zenon, <1>9 DEF AskMember
  <2>2. p # "add"
    BY Zenon
  <2> HIDE DEF v, p
  <2>3. QED
    BY Zenon, <1>5, <2>1, <2>2
<1>10. ASSUME NEW r \in Request, NEW v, req' = [req EXCEPT ![r] = v], v.pc # "add" PROVE FALSE
  BY Zenon, <1>2, <1>10
<1>11. ASSUME NEW r \in Request, DirectFind(r) PROVE FALSE
  <2>1. CASE Step(r, "insert")
    BY <1>3, <2>1
  <2>2. ASSUME NEW c \in Channel,
               req' = [req EXCEPT ![r] = [@ EXCEPT !.pc = "join", !.ch = c, !.set = {req[r].by}]]
        PROVE  FALSE
    <3> DEFINE v == [req[r] EXCEPT !.pc = "join", !.ch = c, !.set = {req[r].by}]
    <3>1. req' = [req EXCEPT ![r] = v]
      BY Zenon, <2>2
    <3>2. v.pc = "join"
      BY Zenon, <1>1 DEF Reqs
    <3> HIDE DEF v
    <3>3. QED
      BY Zenon, <1>10, <3>1, <3>2
  <2>3. QED
    BY Zenon, <1>11, <2>1, <2>2 DEF DirectFind
<1>12. ASSUME NEW r \in Request, NEW c \in Channel, DirectInsert(r, c) PROVE FALSE
  <2> DEFINE v == [req[r] EXCEPT !.pc = "cache", !.ch = c, !.who = None]
  <2>1. req' = [req EXCEPT ![r] = v]
    BY Zenon, <1>12 DEF DirectInsert
  <2>2. v.pc = "cache"
    BY Zenon, <1>1 DEF Reqs
  <2> HIDE DEF v
  <2>3. QED
    BY Zenon, <1>10, <2>1, <2>2
<1>13. ASSUME NEW r \in Request, JoinRooms(r) PROVE FALSE
  <2>1. CASE CreateOrJoin(r)
    <3> DEFINE v == [req[r] EXCEPT !.pc = "enter", !.who = req[r].by]
    <3>1. req' = [req EXCEPT ![r] = v]
      BY Zenon, <2>1 DEF CreateOrJoin
    <3>2. v.pc = "enter"
      BY Zenon, <1>1 DEF Reqs
    <3> HIDE DEF v
    <3>3. QED
      BY Zenon, <1>10, <3>1, <3>2
  <2>2. QED
    BY Zenon, <1>4, <1>13, <2>1 DEF JoinRooms
<1>14. ASSUME NEW r \in Request, RemoveDelete(r) PROVE FALSE
  <2>1. ASSUME NEW p, req' = [req EXCEPT ![r] = [@ EXCEPT !.pc = "commit", !.set = p]] PROVE FALSE
    <3> DEFINE v == [req[r] EXCEPT !.pc = "commit", !.set = p]
    <3>1. req' = [req EXCEPT ![r] = v]
      BY Zenon, <2>1
    <3>2. v.pc = "commit"
      BY Zenon, <1>1 DEF Reqs
    <3> HIDE DEF v
    <3>3. QED
      BY Zenon, <1>10, <3>1, <3>2
  <2>2. QED
    BY Zenon, <1>4, <1>14, <2>1 DEF RemoveDelete
<1>15. ASSUME NEW r \in Request, FillRead(r) PROVE FALSE
  <2> DEFINE v == [req[r] EXCEPT !.pc = "cache", !.set = Members(req[r].ch)]
  <2>1. req' = [req EXCEPT ![r] = v]
    BY Zenon, <1>15 DEF FillRead
  <2>2. v.pc = "cache"
    BY Zenon, <1>1 DEF Reqs
  <2> HIDE DEF v
  <2>3. QED
    BY Zenon, <1>10, <2>1, <2>2
<1>16. ASSUME NEW r \in Request, SetMembers(r) PROVE FALSE
  <2>1. \/ Step(r, "join") \/ Step(r, "enter") \/ Step(r, "exit") \/ Done(r)
    BY Zenon, <1>16 DEF SetMembers
  <2>2. QED
    BY <1>3, <1>4, <2>1
<1>17. ASSUME NEW r \in Request, (\E as \in {"ADMIN", "MEMBER"} : AddInsert(r, as)) \/ RemoveCommit(r) \/ RemoveLock(r)
       PROVE  FALSE
  <2>1. Step(r, "touch") \/ Step(r, "invalidate") \/ Done(r) \/ Step(r, "delete")
    BY Zenon, <1>17 DEF AddInsert, RemoveCommit, RemoveLock
  <2>2. QED
    BY <1>3, <1>4, <2>1
<1>18. ASSUME NEW r \in Request, AddTouch(r) \/ Invalidate(r) \/ ArchiveRead(r) PROVE FALSE
  <2>1. \/ Step(r, "invalidate") \/ Done(r) \/ Step(r, "join") \/ Step(r, "leave")
        \/ Step(r, "archive") \/ Step(r, "unarchive")
    BY Zenon, <1>18 DEF AddTouch, Invalidate, ArchiveRead
  <2>2. QED
    BY <1>3, <1>4, <2>1
<1>19. ASSUME NEW r \in Request, LeaveRoom(r) \/ ArchiveWrite(r) \/ EnterRoom(r) \/ ExitRoom(r) PROVE FALSE
  BY Zenon, <1>4, <1>19 DEF LeaveRoom, ArchiveWrite, EnterRoom, ExitRoom
<1>20. ASSUME NEW r \in Request, AddCount(r) PROVE AddCount(q)
  BY Zenon, <1>3, <1>4, <1>20 DEF AddCount
<1>21. UNCHANGED req => FALSE
  BY Zenon
<1>22. ASSUME NEW r \in Request, NEW c \in Channel, FillBegin(r, c) PROVE FALSE
  <2> DEFINE v == [op |-> "fill", pc |-> "read rows", ch |-> c, by |-> None, who |-> None, set |-> {}]
  <2>1. Begin(r, v) /\ v.pc = "read rows"
    BY Zenon, <1>22 DEF FillBegin
  <2> HIDE DEF v
  <2>2. QED
    BY Zenon, <1>5, <2>1
<1>23. ASSUME NEW r \in Request, Start(r) PROVE FALSE
  BY Zenon, <1>6, <1>7, <1>8, <1>9, <1>23, <1>22 DEF Start
<1>24. ASSUME NEW r \in Request, Continue(r) PROVE AddCount(q)
  BY Zenon, <1>11, <1>12, <1>13, <1>14, <1>15, <1>16, <1>17, <1>18, <1>19, <1>20, <1>24 DEF Continue
<1>25. ASSUME NEW u \in Client, ConnectRead(u) \/ ConnectJoin(u) \/ Disconnect(u) PROVE FALSE
  BY Zenon, <1>25, <1>21 DEF ConnectRead, ConnectJoin, Disconnect
<1>26. ASSUME NEW c \in Channel, CacheExpire(c) PROVE FALSE
  BY Zenon, <1>26, <1>21 DEF CacheExpire
<1>27. CASE UNCHANGED vars
  BY Zenon, <1>21, <1>27 DEF vars
<1>28. QED
  BY Zenon, <1>23, <1>24, <1>25, <1>26, <1>27 DEF Next

\* Every step keeps within the cap and one for each other request.
LEMMA CapStep ==
    ASSUME ChannelsInv, [Next]_vars, \A c \in Channel : CapOf(c)
    PROVE  \A c \in Channel : CapOf(c)'
<1>1. req \in [Request -> Reqs] /\ \A q \in Request : ReqOK(q)
  BY Zenon DEF ChannelsInv, ChannelsType
<1>2. MaxParticipants \in Nat \ {0}
  BY Zenon, ChannelsAssumption
<1>3. ASSUME NEW r \in Request, NEW c \in Channel, NEW u \in User, NEW others \in SUBSET User,
             CreateGroup(r, c, u, others)
      PROVE  \A d \in Channel : CapOf(d)'
  <2> DEFINE v == [op |-> "group", pc |-> "cache", ch |-> c, by |-> u, who |-> None,
                   set |-> others \cup {u}]
  <2>1. v \in Reqs /\ v.pc = "cache"
    BY Zenon DEF Reqs
  <2>2. /\ req' = [req EXCEPT ![r] = v] /\ u \notin others /\ InsertChannel(c, u, others, "GROUP")
        /\ Cardinality(others) <= MaxParticipants
    BY SMTT(20), <1>3 DEF CreateGroup, Begin
  <2> HIDE DEF v
  <2>3. QED
    BY Zenon, <2>1, <2>2, CapInsert
<1>4. ASSUME NEW r \in Request, NEW c \in Channel, DirectInsert(r, c)
      PROVE  \A d \in Channel : CapOf(d)'
  <2>1. req[r] \in Reqs /\ req[r].pc = "insert"
    BY Zenon, <1>1, <1>4 DEF DirectInsert
  <2> DEFINE v == [req[r] EXCEPT !.pc = "cache", !.ch = c, !.who = None]
  <2>2. v \in Reqs /\ v.pc = "cache"
    BY Zenon, <2>1 DEF Reqs
  <2>3. req' = [req EXCEPT ![r] = v]
    BY Zenon, <1>4 DEF DirectInsert
  <2> HIDE DEF v
  <2>4. PICK u \in User, w \in User : u = req[r].by /\ w = req[r].who /\ {u, w} \in Pair
    <3>1. ReqOK(r)
      BY Zenon, <1>1
    <3>2. QED
      BY Zenon, <2>1, <3>1 DEF ReqOK
  <2>5. u \notin {w} /\ {w} \in SUBSET User
    BY SMTT(20), <2>4 DEF Pair
  <2>6. InsertChannel(c, u, {w}, "DIRECT")
    BY Zenon, <1>4, <2>4 DEF DirectInsert
  <2>7. Cardinality({w}) <= MaxParticipants
    <3>1. Cardinality({w}) = 1
      BY Zenon, FS_Singleton
    <3>2. QED
      BY <1>2, <3>1
  <2>8. QED
    BY Zenon, <2>2, <2>3, <2>5, <2>6, <2>7, CapInsert
<1>5. ASSUME NEW r \in Request, NEW as \in {"ADMIN", "MEMBER"}, AddInsert(r, as)
      PROVE  \A d \in Channel : CapOf(d)'
  <2>1. req[r].pc = "add"
    BY Zenon, <1>5 DEF AddInsert
  <2>2. PICK c \in Channel, u \in User : c = req[r].ch /\ u = req[r].who
    BY Zenon, <1>1, <2>1 DEF ReqOK
  <2>3. req'[r].pc # "add" /\ \A q \in Request \ {r} : req'[q] = req[q]
    <3>1. Step(r, "touch") \/ Done(r)
      BY Zenon, <1>5 DEF AddInsert
    <3>2. CASE Step(r, "touch")
      BY Zenon, <1>1, <3>2 DEF Step, Reqs
    <3>3. CASE Done(r)
      BY Zenon, <1>1, <3>3 DEF Done, Idle
    <3>4. QED
      BY Zenon, <3>1, <3>2, <3>3
  <2>4. \A d \in Channel : Adding(d)' \subseteq Adding(d)
    BY Zenon, <2>3 DEF Adding
  <2>5. UNCHANGED role \/ (role[c][u] = "none" /\ role' = [role EXCEPT ![c][u] = as])
    BY Zenon, <1>5, <2>2 DEF AddInsert, rows
  <2>6. CASE UNCHANGED role
    <3>1. \A d \in Channel : Members(d)' = Members(d)
      BY Zenon, <2>6 DEF Members
    <3>2. QED
      BY Zenon, <2>4, <3>1, CapShrinks
  <2>7. CASE role[c][u] = "none" /\ role' = [role EXCEPT ![c][u] = as]
    <3>1. role \in [Channel -> [User -> {"none", "MEMBER", "ADMIN"}]]
      BY Zenon DEF ChannelsInv, ChannelsType
    <3>2. \A d \in Channel \ {c} : role'[d] = role[d]
      BY Zenon, <2>7, <3>1
    <3>3. role'[c][u] = as /\ \A v \in User \ {u} : role'[c][v] = role[c][v]
      BY Zenon, <2>7, <3>1
    <3>4. ASSUME NEW d \in Channel \ {c} PROVE CapOf(d)'
      <4>1. Members(d)' = Members(d)
        BY Zenon, <3>2 DEF Members
      <4>2. QED
        BY Zenon, <2>4, <4>1, CapShrinks
    <3>5. Members(c)' = Members(c) \cup {u} /\ u \notin Members(c)
      BY Zenon, <2>7, <3>3 DEF Members
    <3>6. r \in Adding(c) /\ Adding(c)' = Adding(c) \ {r}
      BY Zenon, <2>1, <2>2, <2>3 DEF Adding
    <3>7. /\ IsFiniteSet(Members(c)) /\ Cardinality(Members(c)) \in Nat
          /\ IsFiniteSet(Adding(c)) /\ Cardinality(Adding(c)) \in Nat
      BY Zenon, CapCounts
    <3>8. Cardinality(Members(c) \cup {u}) = Cardinality(Members(c)) + 1
      BY Zenon, <3>5, <3>7, FS_AddElement
    <3>9. Cardinality(Adding(c) \ {r}) = Cardinality(Adding(c)) - 1
      BY Zenon, <3>6, <3>7, FS_RemoveElement
    <3>10. Cardinality(Members(c)') + Cardinality(Adding(c)') = Cardinality(Members(c)) + Cardinality(Adding(c))
      BY <3>5, <3>6, <3>7, <3>8, <3>9
    <3>11. CapOf(c)'
      BY Zenon, <3>10 DEF CapOf
    <3>12. QED
      BY Zenon, <3>4, <3>11
  <2>8. QED
    BY Zenon, <2>5, <2>6, <2>7
<1>6. ASSUME NEW r \in Request, RemoveCommit(r)
      PROVE  \A d \in Channel : CapOf(d)'
  <2>1. PICK c \in Channel, u \in User, s \in SUBSET User :
              /\ s \in Promote(c, u) /\ c = req[r].ch /\ chanLock[c] = r
              /\ role' \in [Channel -> [User -> {"none", "MEMBER", "ADMIN"}]]
              /\ \A e \in Channel \ {c} : role'[e] = role[e]
              /\ role'[c][u] = "none"
              /\ \A v \in s : role'[c][v] = "ADMIN"
              /\ \A v \in User : v # u /\ v \notin s => role'[c][v] = role[c][v]
    BY Zenon, <1>6, Committed
  <2>2. s \subseteq Members(c)
    BY Zenon, <2>1, Promoted
  <2>3. Members(c)' \subseteq Members(c)
    BY Zenon, <2>1, <2>2 DEF Members
  <2>4. \A d \in Channel : Members(d)' \subseteq Members(d)
    BY Zenon, <2>1, <2>3 DEF Members
  <2>5. req'[r].pc # "add" /\ \A q \in Request \ {r} : req'[q] = req[q]
    BY Zenon, <1>1, <1>6 DEF RemoveCommit, Step, Reqs
  <2>6. \A d \in Channel : Adding(d)' \subseteq Adding(d)
    BY Zenon, <2>5 DEF Adding
  <2>7. QED
    BY Zenon, <2>4, <2>6, CapShrinks
<1>7. ASSUME UNCHANGED role, \A q \in Request : req'[q].pc = "add" => req'[q] = req[q]
      PROVE  \A d \in Channel : CapOf(d)'
  <2>1. \A d \in Channel : Members(d)' = Members(d)
    BY Zenon, <1>7 DEF Members
  <2>2. \A d \in Channel : Adding(d)' \subseteq Adding(d)
    BY Zenon, <1>7 DEF Adding
  <2>3. QED
    BY Zenon, <2>1, <2>2, CapShrinks
<1>8. ASSUME NEW r \in Request, AddCount(r)
      PROVE  \A d \in Channel : CapOf(d)'
  <2>1. UNCHANGED role /\ req[r].pc = "count"
    BY Zenon, <1>8 DEF AddCount, rows
  <2>2. PICK c \in Channel : c = req[r].ch
    BY Zenon, <1>1, <2>1 DEF ReqOK
  <2>3. CASE Done(r)
    BY Zenon, <1>1, <1>7, <2>1, <2>3 DEF Done, Idle
  <2>4. CASE ~(Cardinality(Members(c)) >= MaxParticipants + 1) /\ Step(r, "add")
    <3>1. req'[r].ch = c /\ \A q \in Request \ {r} : req'[q] = req[q]
      BY Zenon, <1>1, <2>2, <2>4 DEF Step, Reqs
    <3>2. \A d \in Channel : Members(d)' = Members(d)
      BY Zenon, <2>1 DEF Members
    <3>3. \A d \in Channel \ {c} : Adding(d)' \subseteq Adding(d)
      BY Zenon, <3>1 DEF Adding
    <3>4. \A d \in Channel \ {c} : CapOf(d)'
      BY Zenon, <3>2, <3>3, CapShrinks
    <3> DEFINE A == Adding(c)'
    <3>5. A \subseteq Request
      BY Zenon DEF Adding
    <3>6. Cardinality(A) <= Cardinality(Request) /\ IsFiniteSet(A)
      <4> HIDE DEF A
      <4>1. QED
        BY Zenon, <3>5, FS_Subset, ChannelsAssumption
    <3>7. Cardinality(A) \in Nat
      BY Zenon, <3>6, FS_CardinalityType
    <3>8. Cardinality(Members(c)) \in Nat /\ Cardinality(Request) \in Nat
      BY Zenon, CapCounts
    <3>9. Cardinality(Members(c)) + Cardinality(A) <= MaxParticipants + Cardinality(Request)
      BY <1>2, <2>4, <3>6, <3>7, <3>8
    <3>10. CapOf(c)'
      BY Zenon, <3>2, <3>9 DEF CapOf
    <3>11. QED
      BY Zenon, <3>4, <3>10
  <2>5. QED
    BY Zenon, <1>8, <2>2, <2>3, <2>4 DEF AddCount
<1>9. CASE \E r \in Request : AddCount(r)
  BY Zenon, <1>8, <1>9
<1>10. CASE UNCHANGED role /\ ~\E r \in Request : AddCount(r)
  BY Zenon, <1>7, <1>10, AddMoves
<1>11. QED
  BY Zenon, <1>3, <1>4, <1>5, <1>6, <1>9, <1>10, RoleSteps
\* The cap of addMember.
LEMMA CapIs == CapOverrun <=> \A c \in Channel : CapOf(c)
BY Zenon DEF CapOverrun, CapOf, Adding

\* addMember: however many requests count before any of them inserts, the cap is
\* passed by no more than one member for each other request.
THEOREM CapTheorem == Spec => []CapOverrun
<1>1. Init => CapOverrun
  BY Zenon, CapInit, CapIs
<1>2. ChannelsInv /\ CapOverrun /\ [Next]_vars => CapOverrun'
  <2> SUFFICES ASSUME ChannelsInv, CapOverrun, [Next]_vars PROVE CapOverrun'
    BY Zenon
  <2>1. \A c \in Channel : CapOf(c)'
    BY Zenon, CapIs, CapStep
  <2>2. QED
    BY Zenon, <2>1 DEF CapOverrun, CapOf, Adding
<1>3. QED
  BY <1>1, <1>2, ChannelsInvTheorem, PTL DEF Spec
===============================================================================
