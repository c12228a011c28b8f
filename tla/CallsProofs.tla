----------------------------- MODULE CallsProofs -----------------------------
(***************************************************************************)
(* Proofs about 1:1 calls, for any users, calls, requests in flight and    *)
(* Redis failures: signalling stays between the two parties, only accepted *)
(* calls are closed, and a live call is found under both users' keys.      *)
(* Then about the call logs of a LiveKit room (L), for any users, any      *)
(* number of handlers and webhooks in any order.                           *)
(***************************************************************************)
EXTENDS Calls, LiveLogs, Sequences, TLAPS

Req == [op : {"idle", "invite", "accept", "reject", "hangup", "relay", "disconnect"},
        pc : {"idle", "room", "target", "online", "log", "create", "connect",
              "completed", "reject", "end", "read", "delete"},
        user : User \cup {None}, peer : User \cup {None}, who : User \cup {None},
        arg : CallId \cup {None}, got : CallId \cup {None}, data : Room]

\* What a request knows, given the call log lg and the accepted calls acc.
Good(q, lg, acc) ==
    /\ q \in Req
    /\ q.pc \in {"room", "create", "connect", "completed", "reject", "end", "read", "delete"}
          => q.got \in CallId
    /\ q.op = "invite" => q.user \in User /\ q.peer \in User /\ q.who \in User
    /\ q.pc \in {"target", "online", "log", "create"} => q.op = "invite"
    /\ q.pc = "create" => lg[q.got].caller = q.user /\ lg[q.got].callee = q.peer
    /\ q.op = "relay" => /\ q.pc = "room"
                         /\ q.user \in User
                         /\ q.user \in {lg[q.got].caller, lg[q.got].callee}
    /\ q.pc = "end" => q.got \in acc
    /\ q.pc = "delete" /\ q.data.status = "connected" => q.got \in acc

RequestsOK == \A r \in Request : Good(req[r], log, accepted)

\* A room names the parties of its log; one without an initiator names nobody,
\* and a connected one was accepted.
RoomsOK ==
    \A k \in CallId :
        /\ IsCall(room[k]) => room[k].from = log[k].caller /\ room[k].to = log[k].callee
        /\ ~IsCall(room[k]) => room[k].to = None
        /\ room[k].status = "connected" => k \in accepted

\* A user's key names a call the user is a party of.
KeysOK == \A u \in User : key[u] # None => u \in {log[key[u]].caller, log[key[u]].callee}

CallsInv ==
    /\ TypeOK /\ RequestsOK /\ RoomsOK /\ KeysOK
    /\ EndedWasAccepted /\ KeyLivesWithCall

\* lg2 is lg with more calls logged: who the parties of a call are never changes.
SameParties(lg, lg2) ==
    \A k \in CallId : \/ lg2[k].caller = lg[k].caller /\ lg2[k].callee = lg[k].callee
                      \/ lg[k].caller = None /\ lg[k].callee = None
-----------------------------------------------------------------------------
\* A finished request knows nothing.
LEMMA GoodIdle == \A lg, acc : Good(Idle, lg, acc)
  BY Zenon DEF Good, Idle, Req, Room, Absent

\* What a request knows stays true as calls are logged and accepted.
LEMMA GoodKept ==
    ASSUME NEW q, NEW lg, NEW lg2, NEW acc, NEW acc2,
           Good(q, lg, acc), SameParties(lg, lg2), acc \subseteq acc2
    PROVE  Good(q, lg2, acc2)
  BY Zenon, CallsAssumption DEF Good, SameParties

\* getActiveCall's answer sends every request on with what it needs.
LEMMA GoodDecide ==
    ASSUME NEW q \in Req, NEW d \in Room, NEW lg, NEW acc,
           q.op = "invite" => q.user \in User /\ q.peer \in User /\ q.who \in User,
           IsCall(d) => q.got \in CallId,
           IsCall(d) /\ d.status = "connected" => q.got \in acc
    PROVE  Good(Decide(q, d), lg, acc)
<1> DEFINE own == IsCall(d) /\ q.got = q.arg
<1>1. CASE q.op = "invite" /\ ~IsCall(d)
  <2> DEFINE p == IF q.who = q.user THEN "target" ELSE "online"
             v == [q EXCEPT !.got = None, !.pc = p]
  <2>1. Decide(q, d) = v
    BY Zenon, <1>1 DEF Decide
  <2>2. p \in {"target", "online"}
    BY Zenon
  <2> HIDE DEF p
  <2>3. v \in Req
    BY Zenon, <2>2 DEF Req
  <2>4. v.pc = p /\ v.op = q.op /\ v.user = q.user /\ v.peer = q.peer /\ v.who = q.who
    BY Zenon DEF Req
  <2> HIDE DEF v
  <2>5. QED
    BY Zenon, <1>1, <2>1, <2>2, <2>3, <2>4 DEF Good
<1>2. ASSUME NEW pc \in {"connect", "reject", "end", "read"},
             q.op \in {"accept", "reject", "hangup"}, IsCall(d),
             pc = "end" => d.status = "connected"
      PROVE  Good(Go(q, pc), lg, acc)
  <2> DEFINE v == Go(q, pc)
  <2>1. v \in Req /\ v.pc = pc /\ v.op = q.op /\ v.got = q.got
    <3>1. Idle \in Req
      BY Zenon, GoodIdle DEF Good
    <3>2. v = [Idle EXCEPT !.op = q.op, !.pc = pc, !.got = q.got]
      BY Zenon DEF Go
    <3>3. q.op \in {"accept", "reject", "hangup"} /\ q.got \in CallId
      BY Zenon, <1>2
    <3> HIDE DEF v
    <3>4. QED
      BY Zenon, <3>1, <3>2, <3>3 DEF Req
  <2> HIDE DEF v
  <2>2. Good(v, lg, acc)
    BY Zenon, <1>2, <2>1 DEF Good
  <2>3. QED
    BY Zenon, <2>2 DEF v
<1>3. CASE q.op = "accept" /\ own /\ d.to = q.user
  <2>1. Decide(q, d) = Go(q, "connect")
    BY Zenon, <1>3 DEF Decide
  <2>2. QED
    BY Zenon, <1>2, <1>3, <2>1
<1>4. CASE q.op = "reject" /\ own
  <2>1. Decide(q, d) = Go(q, "reject")
    BY Zenon, <1>4 DEF Decide
  <2>2. QED
    BY Zenon, <1>2, <1>4, <2>1
<1>5. CASE q.op = "hangup" /\ own
  <2>1. Decide(q, d) = IF d.status = "connected" THEN Go(q, "end") ELSE Go(q, "read")
    BY Zenon, <1>5 DEF Decide
  <2>2. QED
    BY Zenon, <1>2, <1>5, <2>1
<1>6. CASE /\ ~(q.op = "invite" /\ ~IsCall(d))
           /\ ~(q.op = "accept" /\ own /\ d.to = q.user)
           /\ ~(q.op = "reject" /\ own)
           /\ ~(q.op = "hangup" /\ own)
  <2>1. Decide(q, d) = Idle
    BY Zenon, <1>6 DEF Decide
  <2>2. QED
    BY Zenon, <2>1, GoodIdle
<1>7. QED
  BY Zenon, <1>1, <1>3, <1>4, <1>5, <1>6
-----------------------------------------------------------------------------
\* Before the first event nothing is stored and nothing is in flight.
LEMMA CallsInit == Init => CallsInv
<1> SUFFICES ASSUME Init PROVE CallsInv
  BY Zenon
<1>1. TypeOK
  BY Zenon DEF Init, TypeOK, Room, Absent, NoLog, Idle
<1>2. RequestsOK
  BY Zenon, GoodIdle DEF Init, RequestsOK
<1>3. RoomsOK /\ KeysOK /\ EndedWasAccepted /\ KeyLivesWithCall
  BY Zenon DEF Init, RoomsOK, KeysOK, EndedWasAccepted, KeyLivesWithCall, IsCall, Parties, Absent, NoLog
<1>4. QED
  BY Zenon, <1>1, <1>2, <1>3 DEF CallsInv

\* A step of request r to v, while calls are only logged and accepted, leaves
\* every request with what it needs.
LEMMA RequestsKept ==
    ASSUME CallsInv, NEW r \in Request, NEW v, Set(r, v), Good(v, log', accepted'),
           SameParties(log, log'), accepted \subseteq accepted'
    PROVE  RequestsOK' /\ req' \in [Request -> Req]
<1>1. req \in [Request -> Req]
  BY Zenon DEF CallsInv, TypeOK, Req
<1>2. v \in Req
  BY Zenon DEF Good
<1>3. req' = [req EXCEPT ![r] = v]
  BY Zenon DEF Set
<1>4. ASSUME NEW s \in Request PROVE Good(req'[s], log', accepted')
  <2>1. CASE s = r
    BY Zenon, <1>1, <1>3, <2>1
  <2>2. CASE s # r
    <3>1. req'[s] = req[s] /\ Good(req[s], log, accepted)
      BY Zenon, <1>1, <1>3, <2>2 DEF CallsInv, RequestsOK
    <3>2. QED
      BY Zenon, <3>1, GoodKept
  <2>3. QED
    BY Zenon, <2>1, <2>2
<1>5. QED
  BY Zenon, <1>1, <1>2, <1>3, <1>4 DEF RequestsOK

\* A step that only moves a request on.
LEMMA RequestStep ==
    ASSUME CallsInv, NEW r \in Request, NEW v, Set(r, v), Good(v, log, accepted),
           UNCHANGED <<room, key, log, accepted, strayed>>
    PROVE  CallsInv'
<1>1. SameParties(log, log') /\ accepted \subseteq accepted' /\ Good(v, log', accepted')
  BY Zenon DEF SameParties
<1>2. RequestsOK' /\ req' \in [Request -> Req]
  BY Zenon, <1>1, RequestsKept
<1>3. TypeOK'
  BY Zenon, <1>2 DEF CallsInv, TypeOK, Req
<1>4. RoomsOK' /\ KeysOK' /\ EndedWasAccepted' /\ KeyLivesWithCall'
  BY Zenon DEF CallsInv, RoomsOK, KeysOK, EndedWasAccepted, KeyLivesWithCall
<1>5. QED
  BY Zenon, <1>2, <1>3, <1>4 DEF CallsInv

\* The GET of getActiveCall: the call it finds is one of the user asked about.
LEMMA LookupStep ==
    ASSUME CallsInv, NEW r \in Request, NEW q \in Req, Lookup(r, q),
           q.who \in User, q.pc \notin {"delete", "end", "create"},
           q.op \in {"invite", "accept", "reject", "hangup", "relay"},
           q.op = "invite" => q.user \in User /\ q.peer \in User,
           q.op = "relay" => q.user = q.who,
           UNCHANGED <<room, key, log, accepted, strayed>>
    PROVE  CallsInv'
<1>1. CASE Set(r, Decide([q EXCEPT !.got = None], Absent))
  <2> DEFINE p == [q EXCEPT !.got = None]
  <2>1. /\ p \in Req
        /\ p.op = q.op /\ p.user = q.user /\ p.peer = q.peer /\ p.who = q.who
    BY Zenon DEF Req
  <2>2. Absent \in Room /\ ~IsCall(Absent)
    BY Zenon DEF Absent, Room, IsCall
  <2> HIDE DEF p
  <2>3. Good(Decide(p, Absent), log, accepted)
    BY Zenon, <2>1, <2>2, GoodDecide
  <2>4. Set(r, Decide(p, Absent))
    BY Zenon, <1>1 DEF p
  <2>5. QED
    BY Zenon, <2>3, <2>4, RequestStep
<1>2. CASE key[q.who] # None /\ Set(r, [q EXCEPT !.got = key[q.who], !.pc = "room"])
  <2> DEFINE v == [q EXCEPT !.got = key[q.who], !.pc = "room"]
  <2>1. /\ key[q.who] \in CallId
        /\ q.who \in {log[key[q.who]].caller, log[key[q.who]].callee}
    BY Zenon, <1>2 DEF CallsInv, TypeOK, KeysOK
  <2>2. v \in Req
    BY Zenon, <2>1 DEF Req
  <2>3. /\ v.pc = "room" /\ v.got = key[q.who] /\ v.op = q.op
        /\ v.user = q.user /\ v.peer = q.peer /\ v.who = q.who
    BY Zenon DEF Req
  <2> HIDE DEF v
  <2>4. Good(v, log, accepted)
    BY Zenon, <2>1, <2>2, <2>3 DEF Good
  <2>5. Set(r, v)
    BY Zenon, <1>2 DEF v
  <2>6. QED
    BY Zenon, <2>4, <2>5, RequestStep
<1>3. QED
  BY Zenon, <1>1, <1>2 DEF Lookup

\* call:invite and call:initiate
LEMMA InviteStep ==
    ASSUME CallsInv, NEW r \in Request, NEW u \in User, NEW v \in User, Invite(r, u, v)
    PROVE  CallsInv'
<1> DEFINE q == [Idle EXCEPT !.op = "invite", !.user = u, !.peer = v, !.who = u]
<1>1. q \in Req /\ q.op = "invite" /\ q.user = u /\ q.peer = v /\ q.who = u /\ q.pc = "idle"
  BY Zenon DEF Idle, Req, Room, Absent
<1>2. Lookup(r, q) /\ UNCHANGED <<room, key, log, accepted, strayed>>
  BY Zenon DEF Invite
<1> HIDE DEF q
<1>3. QED
  BY Zenon, <1>1, <1>2, LookupStep

\* The busy check of the callee
LEMMA InviteTargetStep ==
    ASSUME CallsInv, NEW r \in Request, InviteTarget(r)
    PROVE  CallsInv'
<1> DEFINE q == [req[r] EXCEPT !.who = req[r].peer]
<1>1. Good(req[r], log, accepted) /\ req[r].pc = "target"
  BY Zenon DEF CallsInv, RequestsOK, InviteTarget
<1>2. req[r] \in Req /\ req[r].op = "invite" /\ req[r].user \in User /\ req[r].peer \in User
  BY Zenon, <1>1 DEF Good
<1>3. /\ q \in Req
      /\ q.op = "invite" /\ q.user = req[r].user /\ q.peer = req[r].peer
      /\ q.who = req[r].peer /\ q.pc = "target"
  BY Zenon, <1>1, <1>2 DEF Req
<1>4. Lookup(r, q) /\ UNCHANGED <<room, key, log, accepted, strayed>>
  BY Zenon DEF InviteTarget
<1> HIDE DEF q
<1>5. QED
  BY Zenon, <1>2, <1>3, <1>4, LookupStep

\* call:accept, call:reject, call:hangup and the relays
LEMMA AskStep ==
    ASSUME CallsInv, NEW r \in Request, NEW op \in {"accept", "reject", "hangup", "relay"},
           NEW u \in User, NEW k \in CallId, Ask(r, op, u, k)
    PROVE  CallsInv'
<1> DEFINE q == [Idle EXCEPT !.op = op, !.user = u, !.who = u, !.arg = k]
<1>1. q \in Req /\ q.op = op /\ q.user = u /\ q.who = u /\ q.pc = "idle"
  BY Zenon DEF Idle, Req, Room, Absent
<1>2. Lookup(r, q) /\ UNCHANGED <<room, key, log, accepted, strayed>>
  BY Zenon DEF Ask
<1> HIDE DEF q
<1>3. QED
  BY Zenon, <1>1, <1>2, LookupStep

\* The HGETALL of getActiveCall
LEMMA ReadRoomStep ==
    ASSUME CallsInv, NEW r \in Request, ReadRoom(r)
    PROVE  CallsInv'
<1>1. Good(req[r], log, accepted) /\ req[r].pc = "room"
  BY Zenon DEF CallsInv, RequestsOK, ReadRoom
<1>2. req[r] \in Req /\ req[r].got \in CallId
  BY Zenon, <1>1 DEF Good
<1>3. /\ room[req[r].got] \in Room
      /\ room[req[r].got].status = "connected" => req[r].got \in accepted
  BY Zenon, <1>2 DEF CallsInv, TypeOK, RoomsOK
<1>4. Absent \in Room /\ ~IsCall(Absent)
  BY Zenon DEF Absent, Room, IsCall
<1>5. /\ Good(Decide(req[r], room[req[r].got]), log, accepted)
      /\ Good(Decide(req[r], Absent), log, accepted)
  <2>1. req[r].op = "invite"
          => req[r].user \in User /\ req[r].peer \in User /\ req[r].who \in User
    BY Zenon, <1>1 DEF Good
  <2>2. QED
    BY Zenon, <1>2, <1>3, <1>4, <2>1, GoodDecide
<1>6. QED
  BY Zenon, <1>5, RequestStep DEF ReadRoom

\* The presence check of the callee
LEMMA InviteOnlineStep ==
    ASSUME CallsInv, NEW r \in Request, InviteOnline(r)
    PROVE  CallsInv'
<1> DEFINE v == [req[r] EXCEPT !.pc = "log"]
<1>1. Good(req[r], log, accepted) /\ req[r].pc = "online"
  BY Zenon DEF CallsInv, RequestsOK, InviteOnline
<1>2. req[r] \in Req /\ req[r].op = "invite"
  BY Zenon, <1>1 DEF Good
<1>3. /\ v \in Req /\ v.pc = "log" /\ v.op = "invite"
      /\ v.user = req[r].user /\ v.peer = req[r].peer /\ v.who = req[r].who
  BY Zenon, <1>2 DEF Req
<1>4. Set(r, Idle) \/ Set(r, v)
  BY Zenon DEF InviteOnline
<1> HIDE DEF v
<1>5. Good(v, log, accepted)
  BY Zenon, <1>1, <1>2, <1>3 DEF Good
<1>6. QED
  BY Zenon, <1>4, <1>5, GoodIdle, RequestStep DEF InviteOnline

\* cleanupUserCall of a user whose last socket is gone
LEMMA DisconnectStep ==
    ASSUME CallsInv, NEW r \in Request, NEW u \in User, Disconnect(r, u)
    PROVE  CallsInv'
<1> DEFINE v == [Idle EXCEPT !.op = "disconnect", !.pc = "read", !.got = key[u]]
<1>1. key[u] \in CallId
  BY Zenon DEF CallsInv, TypeOK, Disconnect
<1>2. v \in Req /\ v.op = "disconnect" /\ v.pc = "read" /\ v.got = key[u]
  BY Zenon, <1>1 DEF Idle, Req, Room, Absent
<1>3. Set(r, v)
  BY Zenon DEF Disconnect
<1> HIDE DEF v
<1>4. Good(v, log, accepted)
  BY Zenon, <1>1, <1>2 DEF Good
<1>5. QED
  BY Zenon, <1>3, <1>4, RequestStep DEF Disconnect

\* The HGETALL of cleanupCall
LEMMA CleanupReadStep ==
    ASSUME CallsInv, NEW r \in Request, CleanupRead(r)
    PROVE  CallsInv'
<1> DEFINE v == [req[r] EXCEPT !.pc = "delete", !.data = room[req[r].got]]
<1>1. Good(req[r], log, accepted) /\ req[r].pc = "read"
  BY Zenon DEF CallsInv, RequestsOK, CleanupRead
<1>2. req[r] \in Req /\ req[r].got \in CallId /\ req[r].op # "relay"
  BY Zenon, <1>1 DEF Good
<1>3. /\ room[req[r].got] \in Room
      /\ room[req[r].got].status = "connected" => req[r].got \in accepted
  BY Zenon, <1>2 DEF CallsInv, TypeOK, RoomsOK
<1>4. /\ v \in Req /\ v.pc = "delete" /\ v.op = req[r].op /\ v.got = req[r].got
      /\ v.user = req[r].user /\ v.peer = req[r].peer /\ v.who = req[r].who
      /\ v.data = room[req[r].got]
  BY Zenon, <1>2, <1>3 DEF Req
<1>5. Set(r, v) \/ Set(r, Idle)
  BY Zenon DEF CleanupRead
<1> HIDE DEF v
<1>6. Good(v, log, accepted)
  BY Zenon, <1>1, <1>2, <1>3, <1>4 DEF Good
<1>7. QED
  BY Zenon, <1>5, <1>6, GoodIdle, RequestStep DEF CleanupRead
-----------------------------------------------------------------------------
\* A step that writes the call log and moves a request on: the parties of a
\* call stay, and a call is closed only once accepted.
LEMMA LogStep ==
    ASSUME CallsInv, NEW r \in Request, NEW v, Set(r, v), Good(v, log', accepted),
           NEW k \in CallId, NEW e, log' = [log EXCEPT ![k] = e],
           e \in [caller : User \cup {None}, callee : User \cup {None},
                  status : {"none", "missed", "completed", "rejected"}, ended : BOOLEAN],
           \/ e.caller = log[k].caller /\ e.callee = log[k].callee
           \/ log[k] = NoLog,
           e.ended => log[k].ended \/ k \in accepted,
           UNCHANGED <<room, key, accepted, strayed>>
    PROVE  CallsInv'
<1>1. /\ log \in [CallId -> [caller : User \cup {None}, callee : User \cup {None},
                             status : {"none", "missed", "completed", "rejected"},
                             ended : BOOLEAN]]
      /\ log' \in [CallId -> [caller : User \cup {None}, callee : User \cup {None},
                              status : {"none", "missed", "completed", "rejected"},
                              ended : BOOLEAN]]
      /\ log'[k] = e
      /\ \A j \in CallId \ {k} : log'[j] = log[j]
  BY Zenon DEF CallsInv, TypeOK
<1>2. SameParties(log, log')
  <2>1. ASSUME NEW j \in CallId
        PROVE  \/ log'[j].caller = log[j].caller /\ log'[j].callee = log[j].callee
               \/ log[j].caller = None /\ log[j].callee = None
    BY <1>1 DEF NoLog
  <2>2. QED
    BY Zenon, <2>1 DEF SameParties
<1>3. RequestsOK' /\ req' \in [Request -> Req]
  <2>1. Good(v, log', accepted') /\ accepted \subseteq accepted'
    BY Zenon
  <2>2. QED
    BY Zenon, <1>2, <2>1, RequestsKept
<1>4. TypeOK'
  BY Zenon, <1>1, <1>3 DEF CallsInv, TypeOK, Req
<1>5. RoomsOK'
  <2>1. ASSUME NEW j \in CallId, IsCall(room[j])
        PROVE  room[j].from = log'[j].caller /\ room[j].to = log'[j].callee
    BY Zenon, <1>2, <2>1 DEF CallsInv, RoomsOK, SameParties, IsCall
  <2>2. QED
    BY Zenon, <2>1 DEF CallsInv, RoomsOK
<1>6. KeysOK'
  <2>1. ASSUME NEW u \in User, key[u] # None
        PROVE  u \in {log'[key[u]].caller, log'[key[u]].callee}
    <3>1. key[u] \in CallId /\ u \in {log[key[u]].caller, log[key[u]].callee} /\ u # None
      BY Zenon, <2>1, CallsAssumption DEF CallsInv, TypeOK, KeysOK
    <3>2. QED
      BY Zenon, <3>1, <1>2 DEF SameParties
  <2>2. QED
    BY Zenon, <2>1 DEF KeysOK
<1>7. EndedWasAccepted'
  BY Zenon, <1>1 DEF CallsInv, EndedWasAccepted
<1>8. KeyLivesWithCall'
  BY Zenon DEF CallsInv, KeyLivesWithCall
<1>9. QED
  BY Zenon, <1>3, <1>4, <1>5, <1>6, <1>7, <1>8 DEF CallsInv

\* createCallLog
LEMMA CreateLogStep ==
    ASSUME CallsInv, NEW r \in Request, NEW k \in CallId, CreateLog(r, k)
    PROVE  CallsInv'
<1> DEFINE v == [req[r] EXCEPT !.pc = "create", !.got = k]
           e == [caller |-> req[r].user, callee |-> req[r].peer,
                 status |-> "missed", ended |-> FALSE]
<1>1. Good(req[r], log, accepted) /\ req[r].pc = "log"
  BY Zenon DEF CallsInv, RequestsOK, CreateLog
<1>2. /\ req[r] \in Req /\ req[r].op = "invite"
      /\ req[r].user \in User /\ req[r].peer \in User /\ req[r].who \in User
  BY Zenon, <1>1 DEF Good
<1>3. /\ v \in Req /\ v.pc = "create" /\ v.op = "invite" /\ v.got = k
      /\ v.user = req[r].user /\ v.peer = req[r].peer /\ v.who = req[r].who
  BY Zenon, <1>2 DEF Req
<1>4. /\ e.caller = req[r].user /\ e.callee = req[r].peer /\ ~e.ended
      /\ e \in [caller : User \cup {None}, callee : User \cup {None},
                status : {"none", "missed", "completed", "rejected"}, ended : BOOLEAN]
  BY Zenon, <1>2
<1>5. /\ Set(r, v) /\ log' = [log EXCEPT ![k] = e] /\ log[k] = NoLog
      /\ UNCHANGED <<room, key, accepted, strayed>>
  BY Zenon DEF CreateLog
<1> HIDE DEF v, e
<1>6. log'[k] = e
  BY Zenon, <1>5 DEF CallsInv, TypeOK
<1>7. Good(v, log', accepted)
  BY Zenon, <1>2, <1>3, <1>4, <1>6 DEF Good
<1>8. QED
  BY Zenon, <1>4, <1>5, <1>7, LogStep

\* updateCallLogAccepted, updateCallLogRejected and finishConnectedCall: the
\* status changes, and a call is closed at pc "end" alone.
LEMMA LogUpdateStep ==
    ASSUME CallsInv, NEW r \in Request, LogAccepted(r) \/ LogRejected(r) \/ EndLog(r)
    PROVE  CallsInv'
<1> DEFINE k == req[r].got
           LogRow == [caller : User \cup {None}, callee : User \cup {None},
                      status : {"none", "missed", "completed", "rejected"}, ended : BOOLEAN]
           v == [req[r] EXCEPT !.pc = "read"]
<1>1. Good(req[r], log, accepted) /\ req[r].pc \in {"completed", "reject", "end"}
  BY Zenon DEF CallsInv, RequestsOK, LogAccepted, LogRejected, EndLog
<1>2. req[r] \in Req /\ k \in CallId /\ req[r].op # "relay"
  BY Zenon, <1>1 DEF Good
<1>3. log[k] \in LogRow
  BY Zenon, <1>2 DEF CallsInv, TypeOK
<1>4. /\ v \in Req /\ v.pc = "read" /\ v.op = req[r].op /\ v.got = k
      /\ v.user = req[r].user /\ v.peer = req[r].peer /\ v.who = req[r].who
  BY Zenon, <1>2 DEF Req
<1>5. Set(r, Idle) \/ Set(r, v)
  BY Zenon DEF LogAccepted, LogRejected, EndLog
<1>6. UNCHANGED <<room, key, accepted, strayed>>
  BY Zenon DEF LogAccepted, LogRejected, EndLog
<1>7. \E e \in LogRow : /\ log' = [log EXCEPT ![k] = e]
                        /\ e.caller = log[k].caller /\ e.callee = log[k].callee
                        /\ e.ended => log[k].ended \/ k \in accepted
  <2>1. CASE LogAccepted(r)
    <3> DEFINE e == [log[k] EXCEPT !.status = "completed"]
    <3>1. /\ e \in LogRow /\ e.caller = log[k].caller /\ e.callee = log[k].callee
          /\ e.ended = log[k].ended
      BY Zenon, <1>3
    <3>2. log' = [log EXCEPT ![k] = e]
      BY Zenon, <2>1 DEF LogAccepted
    <3> HIDE DEF e, LogRow
    <3>3. QED
      BY Zenon, <3>1, <3>2
  <2>2. CASE LogRejected(r)
    <3> DEFINE e == [log[k] EXCEPT !.status = "rejected"]
    <3>1. /\ e \in LogRow /\ e.caller = log[k].caller /\ e.callee = log[k].callee
          /\ e.ended = log[k].ended
      BY Zenon, <1>3
    <3>2. log' = [log EXCEPT ![k] = e]
      BY Zenon, <2>2 DEF LogRejected
    <3> HIDE DEF e, LogRow
    <3>3. QED
      BY Zenon, <3>1, <3>2
  <2>3. CASE EndLog(r)
    <3> DEFINE e == [log[k] EXCEPT !.status = "completed", !.ended = TRUE]
    <3>1. e \in LogRow /\ e.caller = log[k].caller /\ e.callee = log[k].callee
      BY Zenon, <1>3
    <3>2. log' = [log EXCEPT ![k] = e]
      BY Zenon, <1>2, <2>3 DEF EndLog, CallsInv, TypeOK
    <3>3. k \in accepted
      BY Zenon, <1>1, <2>3 DEF Good, EndLog
    <3> HIDE DEF e, LogRow
    <3>4. QED
      BY Zenon, <3>1, <3>2, <3>3
  <2>4. QED
    BY Zenon, <2>1, <2>2, <2>3
<1>8. PICK e \in LogRow : /\ log' = [log EXCEPT ![k] = e]
                          /\ e.caller = log[k].caller /\ e.callee = log[k].callee
                          /\ e.ended => log[k].ended \/ k \in accepted
  BY Zenon, <1>7
<1> HIDE DEF v
<1>9. Good(v, log', accepted)
  BY Zenon, <1>1, <1>2, <1>4 DEF Good
<1>10. QED
  <2>1. CASE Set(r, Idle)
    BY Zenon, <1>2, <1>6, <1>8, <2>1, GoodIdle, LogStep
  <2>2. CASE Set(r, v)
    BY Zenon, <1>2, <1>6, <1>8, <1>9, <2>2, LogStep
  <2>3. QED
    BY Zenon, <1>5, <2>1, <2>2
-----------------------------------------------------------------------------
\* A step that replaces room k by d, takes the keys of us for it (or frees
\* them), and leaves the log alone.
LEMMA RoomStep ==
    ASSUME CallsInv, NEW r \in Request, NEW v, Set(r, v), Good(v, log, accepted),
           NEW k \in CallId, NEW d \in Room, NEW us, NEW h \in {k, None},
           room' = [room EXCEPT ![k] = d],
           key' = [u \in User |-> IF u \in us THEN h ELSE key[u]],
           Take(k, us), us \subseteq User,
           \/ d = Absent
           \/ /\ d.from = log[k].caller /\ d.to = log[k].callee
              /\ d.from \in User /\ d.to \in User /\ d.status = "ringing"
              /\ us = {d.from, d.to} /\ h = k,
           h # None => \A u \in us : u \in {log[k].caller, log[k].callee},
           UNCHANGED <<log, accepted>>
    PROVE  CallsInv'
<1>1. /\ room \in [CallId -> Room] /\ key \in [User -> CallId \cup {None}]
      /\ room' \in [CallId -> Room] /\ key' \in [User -> CallId \cup {None}]
      /\ room'[k] = d
      /\ \A j \in CallId \ {k} : room'[j] = room[j]
  BY Zenon DEF CallsInv, TypeOK
<1>2. strayed' \subseteq CallId
  BY <1>1 DEF CallsInv, TypeOK, Take
<1>3. RequestsOK' /\ req' \in [Request -> Req]
  <2>1. SameParties(log, log') /\ accepted \subseteq accepted' /\ Good(v, log', accepted')
    BY Zenon DEF SameParties
  <2>2. QED
    BY Zenon, <2>1, RequestsKept
<1>4. TypeOK'
  BY Zenon, <1>1, <1>2, <1>3 DEF CallsInv, TypeOK, Req
<1>5. RoomsOK'
  <2>1. ASSUME NEW j \in CallId
        PROVE  /\ IsCall(room'[j]) => room'[j].from = log[j].caller /\ room'[j].to = log[j].callee
               /\ ~IsCall(room'[j]) => room'[j].to = None
               /\ room'[j].status = "connected" => j \in accepted
    <3>1. CASE j = k
      BY <1>1, <3>1, CallsAssumption DEF IsCall, Absent
    <3>2. CASE j # k
      BY Zenon, <1>1, <3>2 DEF CallsInv, RoomsOK
    <3>3. QED
      BY Zenon, <3>1, <3>2
  <2>2. QED
    BY Zenon, <2>1 DEF RoomsOK
<1>6. KeysOK'
  <2>1. ASSUME NEW u \in User, key'[u] # None
        PROVE  u \in {log[key'[u]].caller, log[key'[u]].callee}
    <3>1. CASE u \in us
      BY Zenon, <2>1, <3>1
    <3>2. CASE u \notin us
      <4>1. key'[u] = key[u]
        BY Zenon, <3>2
      <4>2. QED
        BY Zenon, <2>1, <4>1 DEF CallsInv, KeysOK
    <3>3. QED
      BY Zenon, <3>1, <3>2
  <2>2. QED
    BY Zenon, <2>1 DEF KeysOK
<1>7. EndedWasAccepted'
  BY Zenon DEF CallsInv, EndedWasAccepted
<1>8. KeyLivesWithCall'
  <2>1. ASSUME NEW j \in CallId, j \notin strayed', NEW u \in Parties(room'[j])
        PROVE  key'[u] = j
    <3>1. IsCall(room'[j])
      BY Zenon, <1>5, <2>1 DEF RoomsOK, Parties, IsCall
    <3>2. u \in User
      <4>1. room'[j] \in Room
        BY Zenon, <1>1, <2>1
      <4>2. room'[j].from \in User \cup {None} /\ room'[j].to \in User \cup {None}
        BY Zenon, <4>1 DEF Room
      <4>3. QED
        BY Zenon, <2>1, <4>2 DEF Parties
    <3>3. CASE j = k
      BY <1>1, <2>1, <3>1, <3>2, <3>3 DEF Parties, IsCall, Absent
    <3>4. CASE j # k
      <4>1. j \notin strayed /\ j \notin {key[w] : w \in us} \ {k, None}
        BY Zenon, <2>1, <3>1 DEF Take
      <4>2. u \in Parties(room[j])
        BY Zenon, <1>1, <2>1, <3>4
      <4>3. key[u] = j
        BY Zenon, <4>1, <4>2 DEF CallsInv, KeyLivesWithCall
      <4>4. u \notin us
        BY Zenon, <3>4, <4>1, <4>3, CallsAssumption
      <4>5. QED
        BY Zenon, <3>2, <4>3, <4>4
    <3>5. QED
      BY Zenon, <3>3, <3>4
  <2>2. QED
    BY Zenon, <2>1 DEF KeyLivesWithCall
<1>9. QED
  BY Zenon, <1>3, <1>4, <1>5, <1>6, <1>7, <1>8 DEF CallsInv

\* createCall
LEMMA CreateCallStep ==
    ASSUME CallsInv, NEW r \in Request, CreateCall(r)
    PROVE  CallsInv'
<1> DEFINE q == req[r]
           d == [from |-> q.user, to |-> q.peer, status |-> "ringing"]
<1>1. Good(q, log, accepted) /\ q.pc = "create"
  BY Zenon DEF CallsInv, RequestsOK, CreateCall
<1>2. /\ q.got \in CallId /\ q.user \in User /\ q.peer \in User
      /\ log[q.got].caller = q.user /\ log[q.got].callee = q.peer
  BY Zenon, <1>1 DEF Good
<1>3. d \in Room /\ d.from = q.user /\ d.to = q.peer /\ d.status = "ringing"
  BY Zenon, <1>2 DEF Room
<1>4. Set(r, Idle) /\ Good(Idle, log, accepted) /\ UNCHANGED <<log, accepted>>
  BY Zenon, GoodIdle DEF CreateCall
<1>5. CASE UNCHANGED <<room, key, strayed>>
  BY Zenon, <1>4, <1>5, RequestStep
<1>6. CASE /\ room' = [room EXCEPT ![q.got] = d]
           /\ key' = [key EXCEPT ![q.user] = q.got, ![q.peer] = q.got]
           /\ Take(q.got, {q.user, q.peer})
  <2>1. key' = [u \in User |-> IF u \in {q.user, q.peer} THEN q.got ELSE key[u]]
    BY Zenon, <1>2, <1>6 DEF CallsInv, TypeOK
  <2>2. {q.user, q.peer} \subseteq User /\ q.got \in {q.got, None}
    BY Zenon, <1>2
  <2> HIDE DEF d
  <2>3. QED
    BY Zenon, <1>2, <1>3, <1>4, <1>6, <2>1, <2>2, RoomStep
<1>7. QED
  BY Zenon, <1>5, <1>6 DEF CreateCall

\* The MULTI of cleanupCall
LEMMA CleanupDeleteStep ==
    ASSUME CallsInv, NEW r \in Request, CleanupDelete(r)
    PROVE  CallsInv'
<1> DEFINE q == req[r]
           closes == q.op = "disconnect" /\ IsCall(q.data) /\ q.data.status = "connected"
           v == IF closes THEN [q EXCEPT !.pc = "end"] ELSE Idle
<1>1. Good(q, log, accepted) /\ q.pc = "delete"
  BY Zenon DEF CallsInv, RequestsOK, CleanupDelete
<1>2. q \in Req /\ q.got \in CallId /\ (closes => q.got \in accepted)
  BY Zenon, <1>1 DEF Good
<1>3. Absent \in Room /\ Parties(q.data) \subseteq User
  BY Zenon, <1>2 DEF Req, Room, Absent, Parties
<1>4. Good(v, log, accepted)
  <2>1. CASE closes
    <3> DEFINE w == [q EXCEPT !.pc = "end"]
    <3>1. w \in Req /\ w.pc = "end" /\ w.op = "disconnect" /\ w.got = q.got
      BY Zenon, <1>2, <2>1 DEF Req
    <3> HIDE DEF w
    <3>2. Good(w, log, accepted)
      BY Zenon, <1>2, <2>1, <3>1 DEF Good
    <3>3. QED
      BY Zenon, <2>1, <3>2 DEF w
  <2>2. CASE ~closes
    BY Zenon, <2>2, GoodIdle
  <2>3. QED
    BY Zenon, <2>1, <2>2
<1>5. UNCHANGED <<log, accepted>>
  BY Zenon DEF CleanupDelete
<1>6. CASE Set(r, Idle) /\ UNCHANGED <<room, key, strayed>>
  BY Zenon, <1>5, <1>6, GoodIdle, RequestStep
<1>7. CASE /\ room' = [room EXCEPT ![q.got] = Absent]
           /\ key' = [u \in User |-> IF u \in Parties(q.data) THEN None ELSE key[u]]
           /\ Take(q.got, Parties(q.data))
           /\ Set(r, v)
  <2> HIDE DEF v
  <2>1. QED
    BY Zenon, <1>2, <1>3, <1>4, <1>5, <1>7, RoomStep
<1>8. QED
  BY Zenon, <1>6, <1>7 DEF CleanupDelete

\* acceptCall: the room becomes, or comes to be, connected.
LEMMA ConnectStep ==
    ASSUME CallsInv, NEW r \in Request, Connect(r)
    PROVE  CallsInv'
<1> DEFINE k == req[r].got
           v == [req[r] EXCEPT !.pc = "completed"]
<1>1. Good(req[r], log, accepted) /\ req[r].pc = "connect"
  BY Zenon DEF CallsInv, RequestsOK, Connect
<1>2. req[r] \in Req /\ k \in CallId /\ req[r].op # "relay"
  BY Zenon, <1>1 DEF Good
<1>3. /\ v \in Req /\ v.pc = "completed" /\ v.op = req[r].op /\ v.got = k
      /\ v.user = req[r].user /\ v.peer = req[r].peer /\ v.who = req[r].who
  BY Zenon, <1>2 DEF Req
<1>4. Set(r, v) /\ UNCHANGED <<key, log, strayed>>
  BY Zenon DEF Connect
<1> HIDE DEF v
<1>5. Good(v, log, accepted)
  BY Zenon, <1>1, <1>2, <1>3 DEF Good
<1>6. CASE UNCHANGED <<room, accepted>>
  BY Zenon, <1>4, <1>5, <1>6, RequestStep
<1>7. CASE /\ room' = [room EXCEPT ![k].status = "connected"]
           /\ accepted' = accepted \cup {k}
  <2>1. SameParties(log, log') /\ accepted \subseteq accepted'
    BY Zenon, <1>4, <1>7 DEF SameParties
  <2>2. RequestsOK' /\ req' \in [Request -> Req]
    <3>1. Good(v, log', accepted')
      BY Zenon, <1>5, <2>1, GoodKept
    <3>2. QED
      BY Zenon, <1>4, <2>1, <3>1, RequestsKept
  <2>3. /\ room' \in [CallId -> Room]
        /\ \A j \in CallId : /\ room'[j].from = room[j].from
                             /\ room'[j].to = room[j].to
                             /\ room'[j].status = "connected" =>
                                   j = k \/ room[j].status = "connected"
    <3>1. room \in [CallId -> Room] /\ room[k] \in Room
      BY Zenon, <1>2 DEF CallsInv, TypeOK
    <3> DEFINE e == [room[k] EXCEPT !.status = "connected"]
    <3>2. e \in Room /\ e.from = room[k].from /\ e.to = room[k].to
      BY Zenon, <3>1 DEF Room
    <3>3. room' = [room EXCEPT ![k] = e]
      BY Zenon, <1>7
    <3> HIDE DEF e
    <3>4. QED
      BY Zenon, <1>2, <3>1, <3>2, <3>3
  <2>4. TypeOK'
    BY Zenon, <1>2, <1>4, <1>7, <2>2, <2>3 DEF CallsInv, TypeOK, Req
  <2>5. RoomsOK'
    BY <1>4, <1>7, <2>3 DEF CallsInv, RoomsOK, IsCall
  <2>6. KeysOK' /\ EndedWasAccepted'
    BY Zenon, <1>4, <1>7 DEF CallsInv, KeysOK, EndedWasAccepted
  <2>7. KeyLivesWithCall'
    BY Zenon, <1>4, <2>3 DEF CallsInv, KeyLivesWithCall, Parties
  <2>8. QED
    BY Zenon, <2>2, <2>4, <2>5, <2>6, <2>7 DEF CallsInv
<1>8. QED
  BY Zenon, <1>6, <1>7 DEF Connect

\* A room's TTL ends.
LEMMA ExpireRoomStep ==
    ASSUME CallsInv, NEW k \in CallId, ExpireRoom(k)
    PROVE  CallsInv'
<1>1. /\ Absent \in Room /\ ~IsCall(Absent) /\ Parties(Absent) = {}
      /\ Absent.to = None /\ Absent.status # "connected"
  BY Zenon DEF Absent, Room, IsCall, Parties
<1>2. /\ room' \in [CallId -> Room] /\ room'[k] = Absent
      /\ \A j \in CallId \ {k} : room'[j] = room[j]
  BY Zenon, <1>1 DEF CallsInv, TypeOK, ExpireRoom
<1>3. UNCHANGED <<key, log, req, accepted>> /\ strayed' = strayed \ {k}
  BY Zenon DEF ExpireRoom
<1>4. TypeOK'
  BY Zenon, <1>2, <1>3 DEF CallsInv, TypeOK
<1>5. RequestsOK' /\ KeysOK' /\ EndedWasAccepted'
  BY Zenon, <1>3 DEF CallsInv, RequestsOK, KeysOK, EndedWasAccepted
<1>6. RoomsOK'
  BY Zenon, <1>1, <1>2, <1>3 DEF CallsInv, RoomsOK
<1>7. KeyLivesWithCall'
  BY Zenon, <1>1, <1>2, <1>3 DEF CallsInv, KeyLivesWithCall
<1>8. QED
  BY Zenon, <1>4, <1>5, <1>6, <1>7 DEF CallsInv

\* A key's TTL ends, no earlier than that of its room.
LEMMA ExpireKeyStep ==
    ASSUME CallsInv, NEW u \in User, ExpireKey(u)
    PROVE  CallsInv'
<1>1. /\ UNCHANGED <<room, log, req, accepted, strayed>>
      /\ key' \in [User -> CallId \cup {None}] /\ key'[u] = None
      /\ \A w \in User \ {u} : key'[w] = key[w]
      /\ Parties(room[key[u]]) = {}
  BY DEF CallsInv, TypeOK, ExpireKey, Parties, Absent
<1>2. TypeOK'
  BY Zenon, <1>1 DEF CallsInv, TypeOK
<1>3. RequestsOK' /\ RoomsOK' /\ EndedWasAccepted'
  BY Zenon, <1>1 DEF CallsInv, RequestsOK, RoomsOK, EndedWasAccepted
<1>4. KeysOK'
  BY Zenon, <1>1 DEF CallsInv, KeysOK
<1>5. KeyLivesWithCall'
  <2>1. ASSUME NEW k \in CallId \ strayed, NEW w \in Parties(room[k])
        PROVE  key'[w] = k
    <3>1. key[w] = k /\ w \in User
      <4>1. room[k].from \in User \cup {None} /\ room[k].to \in User \cup {None}
        BY Zenon DEF CallsInv, TypeOK, Room
      <4>2. w \in User
        BY Zenon, <4>1 DEF Parties
      <4>3. QED
        BY Zenon, <4>2 DEF CallsInv, KeyLivesWithCall
    <3>2. QED
      BY Zenon, <1>1, <2>1, <3>1
  <2>2. QED
    BY Zenon, <1>1, <2>1 DEF KeyLivesWithCall
<1>6. QED
  BY Zenon, <1>2, <1>3, <1>4, <1>5 DEF CallsInv
-----------------------------------------------------------------------------
\* Every step of every request, and every expiry, keeps the invariant.
LEMMA CallsNext == CallsInv /\ [Next]_vars => CallsInv'
<1> SUFFICES ASSUME CallsInv, [Next]_vars PROVE CallsInv'
  BY Zenon
<1>1. ASSUME NEW r \in Request, Start(r) PROVE CallsInv'
  BY Zenon, <1>1, InviteStep, AskStep, DisconnectStep DEF Start
<1>2. ASSUME NEW r \in Request, Inviting(r) PROVE CallsInv'
  BY Zenon, <1>2, InviteTargetStep, InviteOnlineStep, CreateLogStep, CreateCallStep DEF Inviting
<1>3. ASSUME NEW r \in Request, Serving(r) PROVE CallsInv'
  BY Zenon, <1>3, ReadRoomStep, ConnectStep, LogUpdateStep, CleanupReadStep, CleanupDeleteStep
  DEF Serving
<1>4. CASE UNCHANGED vars
  BY Zenon, <1>4 DEF vars, CallsInv, TypeOK, RequestsOK, RoomsOK, KeysOK, EndedWasAccepted,
              KeyLivesWithCall
<1>5. QED
  BY Zenon, <1>1, <1>2, <1>3, <1>4, ExpireRoomStep, ExpireKeyStep DEF Next

\* The invariant says what the runs check.
LEMMA CallsSafe == CallsInv => SignalsStayInCall
<1> SUFFICES ASSUME CallsInv, NEW r \in Request,
                    req[r].op = "relay", IsCall(room[req[r].got])
             PROVE  <<req[r].user, Other(room[req[r].got], req[r].user)>>
                      \in {<<log[req[r].got].caller, log[req[r].got].callee>>,
                           <<log[req[r].got].callee, log[req[r].got].caller>>}
  BY Zenon DEF SignalsStayInCall
<1>1. Good(req[r], log, accepted)
  BY Zenon DEF CallsInv, RequestsOK
<1>2. /\ req[r].got \in CallId
      /\ req[r].user \in {log[req[r].got].caller, log[req[r].got].callee}
  BY Zenon, <1>1 DEF Good
<1>3. /\ room[req[r].got].from = log[req[r].got].caller
      /\ room[req[r].got].to = log[req[r].got].callee
  BY Zenon, <1>2 DEF CallsInv, RoomsOK
<1>4. QED
  BY Zenon, <1>2, <1>3 DEF Other

\* The inductive invariant of the call service.
THEOREM CallsInvTheorem == Spec => []CallsInv
  BY CallsInit, CallsNext, PTL DEF Spec

\* Rooms, keys, logs and requests of the call service keep their types.
THEOREM CallsTypeTheorem == Spec => []TypeOK
<1>1. CallsInv => TypeOK
  BY Zenon DEF CallsInv
<1>2. QED
  BY <1>1, CallsInvTheorem, PTL

\* call:offer, call:answer and call:ice-candidate go from one party of a call to
\* the other, for any number of users, calls and requests in flight.
THEOREM SignalsTheorem == Spec => []SignalsStayInCall
  BY CallsInvTheorem, CallsSafe, PTL

\* finishConnectedCall closes the log of accepted calls only.
THEOREM EndedTheorem == Spec => []EndedWasAccepted
<1>1. CallsInv => EndedWasAccepted
  BY Zenon DEF CallsInv
<1>2. QED
  BY <1>1, CallsInvTheorem, PTL

\* While the room of a call exists, both parties' keys lead to it, unless the
\* call lost one to another.
THEOREM KeyTheorem == Spec => []KeyLivesWithCall
<1>1. CallsInv => KeyLivesWithCall
  BY Zenon DEF CallsInv
<1>2. QED
  BY <1>1, CallsInvTheorem, PTL

-----------------------------------------------------------------------------
(* LiveKit logs.                                                           *)

Hook == [kind : {"started", "finished", "joined", "left"}, user : Guest \cup {Nobody}, session : Nat]

Entering == {"joined", "join", "insert"}

Leaving == {"left", "leave", "leftAt"}

AtLog == {"join", "insert", "leave", "leftAt"}

Job == [pc : {"idle", "create", "started", "start", "finished", "finish"} \cup Entering \cup Leaving,
        user : Guest \cup {Nobody}, session : Nat, log : Nat]

Log == [by : {"call", "started", "finished"}, open : BOOLEAN, session : Nat,
        in : SUBSET Guest, out : SUBSET Guest, late : BOOLEAN, beside : SUBSET Nat]

LiveType ==
    /\ liveRoom \in [up : Nat, last : Nat, in : SUBSET Guest, enters : Nat]
    /\ sent \in Seq(Hook) /\ count \in Seq(Nat) /\ Len(count) = Len(sent)
    /\ logs \in Seq(Log)
    /\ liveReq \in [Worker -> Job]

HookOK(w) == w.user \in Guest <=> w.kind \in {"joined", "left"}

\* The log a handler has chosen is there; one about to insert a log saw none open.
JobOK(j, lg) ==
    /\ j.user \in Guest <=> j.pc \in Entering \cup Leaving
    /\ j.pc \in AtLog => j.log \in 1 .. Len(lg)
    /\ j.pc = "start" => j.log <= Len(lg) /\ \A i \in 1 .. Len(lg) : i <= j.log => ~lg[i].open

\* Of each user LiveKit sends joined and left in turn.
InTurn(s, n, in) ==
    \A u \in Guest, i \in 1 .. n : s[i].user = u /\ s[i].kind = "joined" =>
        /\ u \notin in => \E k \in 1 .. n : i < k /\ s[k].user = u /\ s[k].kind = "left"
        /\ \A j \in 1 .. n : i < j /\ s[j].user = u /\ s[j].kind = "joined" =>
              \E k \in 1 .. n : i < k /\ k < j /\ s[k].user = u /\ s[k].kind = "left"

\* The last webhook of u to arrive said joined.
LastJoined(s, c, u) ==
    \E i \in 1 .. Len(s) :
        /\ s[i].kind = "joined" /\ s[i].user = u /\ c[i] > 0
        /\ \A j \in 1 .. Len(s) : i < j /\ s[j].user = u => c[j] = 0

NotIn(u, lg) == \A i \in 1 .. Len(lg) : u \notin lg[i].in

\* A user whose webhooks are handled one by one and in order is in the latest log
\* only, and in none once the last webhook handled said left.
GuestOK(u, s, c, lg, jb) ==
    /\ \A r, q \in Worker : jb[r].user = u /\ jb[q].user = u => r = q
    /\ \A i, j \in 1 .. Len(s) : i < j /\ s[i].user = u /\ s[j].user = u /\ c[j] > 0 => c[i] > 0
    /\ \A i \in 1 .. Len(lg) : i # Len(lg) => u \notin lg[i].in
    /\ (\A r \in Worker : jb[r].user # u) /\ ~LastJoined(s, c, u) => NotIn(u, lg)
    /\ \A r \in Worker : jb[r].user = u =>
          /\ jb[r].pc \in Entering => LastJoined(s, c, u) /\ NotIn(u, lg)
          /\ jb[r].pc \in Leaving => ~LastJoined(s, c, u)
          /\ jb[r].pc \in AtLog => jb[r].log = Len(lg)

LiveInv ==
    /\ LiveType
    /\ \A i \in 1 .. Len(sent) : HookOK(sent[i])
    /\ InTurn(sent, Len(sent), liveRoom.in)
    /\ \A r \in Worker : JobOK(liveReq[r], logs)
    /\ StartedReuses
    /\ FinishedCloses
    /\ \A u \in Guest \ excused : GuestOK(u, sent, count, logs, liveReq)

\* A room that was never up.
LEMMA LiveInit == L!Init => LiveInv
<1> SUFFICES ASSUME L!Init PROVE LiveInv
  BY Zenon
<1>1. L!Idle \in Job /\ L!Idle.pc = "idle" /\ L!Idle.user = Nobody
  BY Zenon DEF L!Idle, Job
<1>2. sent = <<>> /\ count = <<>> /\ logs = <<>> /\ Len(sent) = 0 /\ Len(logs) = 0
  BY Zenon DEF L!Init
<1>3. LiveType
  BY <1>1, <1>2 DEF L!Init, LiveType
<1>4. \A r \in Worker : JobOK(liveReq[r], logs)
  BY Zenon, <1>1, LiveLogsAssumption DEF L!Init, JobOK, Entering, Leaving, AtLog
<1>5. StartedReuses /\ FinishedCloses
  BY <1>2 DEF StartedReuses, L!StartedReuses, FinishedCloses, L!FinishedCloses, L!Open
<1>6. (\A i \in 1 .. Len(sent) : HookOK(sent[i])) /\ InTurn(sent, Len(sent), liveRoom.in)
  BY <1>2 DEF InTurn
<1>7. \A u \in Guest : GuestOK(u, sent, count, logs, liveReq)
  BY SMTT(20), <1>1, <1>2, LiveLogsAssumption DEF L!Init, GuestOK, NotIn
<1>8. QED
  BY Zenon, <1>3, <1>4, <1>5, <1>6, <1>7 DEF LiveInv

\* A handler's step: handler r moves to v, and of the logs only the rows of its
\* own user change, and logs are closed.
LEMMA LiveMoves ==
    ASSUME LiveInv, NEW r \in Worker, NEW v \in Job, liveReq' = [liveReq EXCEPT ![r] = v],
           UNCHANGED <<liveRoom, sent, count, excused>>,
           logs' \in Seq(Log), Len(logs') = Len(logs),
           \A i \in 1 .. Len(logs) :
              /\ logs'[i].by = logs[i].by /\ logs'[i].beside = logs[i].beside
              /\ logs'[i].open => logs[i].open
              /\ \A u \in Guest : u # liveReq[r].user => (u \in logs'[i].in <=> u \in logs[i].in),
           JobOK(v, logs), FinishedCloses', v.user \in {liveReq[r].user, Nobody},
           liveReq[r].user \in Guest \ excused =>
              GuestOK(liveReq[r].user, sent, count, logs', liveReq')
    PROVE  LiveInv'
<1>1. /\ liveReq' \in [Worker -> Job] /\ liveReq'[r] = v
      /\ \A q \in Worker \ {r} : liveReq'[q] = liveReq[q]
      /\ logs \in Seq(Log)
  BY Zenon DEF LiveInv, LiveType
<1>2. LiveType'
  BY Zenon, <1>1 DEF LiveInv, LiveType
<1>3. \A q \in Worker : JobOK(liveReq'[q], logs')
  <2>1. ASSUME NEW j, JobOK(j, logs) PROVE JobOK(j, logs')
    BY Zenon, <2>1 DEF JobOK
  <2>2. QED
    BY Zenon, <1>1, <2>1 DEF LiveInv
<1>4. StartedReuses'
  BY SMTT(20), <1>1 DEF LiveInv, StartedReuses, L!StartedReuses
<1>5. ASSUME NEW u \in Guest \ excused
      PROVE  GuestOK(u, sent, count, logs', liveReq')
  <2>1. CASE u = liveReq[r].user
    BY Zenon, <2>1
  <2>2. CASE u # liveReq[r].user
    <3>1. GuestOK(u, sent, count, logs, liveReq)
      BY Zenon DEF LiveInv
    <3>2. NotIn(u, logs') <=> NotIn(u, logs)
      BY Zenon, <2>2 DEF NotIn
    <3>3. \A q \in Worker : (liveReq'[q].user = u <=> liveReq[q].user = u)
                            /\ (liveReq[q].user = u => liveReq'[q] = liveReq[q])
      BY Zenon, <1>1, <2>2, LiveLogsAssumption
    <3>4. \A i \in 1 .. Len(logs) : u \in logs'[i].in <=> u \in logs[i].in
      BY Zenon, <2>2
    <3>5. QED
      BY SMTT(20), <3>1, <3>2, <3>3, <3>4 DEF GuestOK
  <2>3. QED
    BY Zenon, <2>1, <2>2
<1>6. QED
  BY Zenon, <1>2, <1>3, <1>4, <1>5 DEF LiveInv

\* What handler r must see to about its own user.
LEMMA OwnGuest ==
    ASSUME LiveInv, NEW r \in Worker, NEW v \in Job, liveReq' = [liveReq EXCEPT ![r] = v],
           NEW u \in Guest \ excused, liveReq[r].user = u, v.user \in {u, Nobody},
           logs' \in Seq(Log), Len(logs') = Len(logs),
           \A i \in 1 .. Len(logs) : i # Len(logs) => logs'[i].in \subseteq logs[i].in,
           v.user # u /\ ~LastJoined(sent, count, u) => NotIn(u, logs'),
           v.user = u =>
              /\ v.pc \in Entering => LastJoined(sent, count, u) /\ NotIn(u, logs')
              /\ v.pc \in Leaving => ~LastJoined(sent, count, u)
              /\ v.pc \in AtLog => v.log = Len(logs)
    PROVE  GuestOK(u, sent, count, logs', liveReq')
<1>1. /\ liveReq'[r] = v
      /\ \A q \in Worker \ {r} : liveReq'[q] = liveReq[q]
      /\ logs \in Seq(Log)
      /\ GuestOK(u, sent, count, logs, liveReq)
  BY Zenon DEF LiveInv, LiveType
<1>2. \A q \in Worker \ {r} : liveReq'[q].user # u
  BY Zenon, <1>1 DEF GuestOK
<1>3. QED
  BY Zenon, <1>1, <1>2, LiveLogsAssumption DEF GuestOK

\* handleRoomStarted looks for an open log.
LEMMA LiveStarted ==
    ASSUME LiveInv, NEW r \in Worker, L!Started(r)
    PROVE  LiveInv'
<1>1. PICK q \in Job : q = liveReq[r]
  BY Zenon DEF LiveInv, LiveType
<1>2. q.pc = "started" /\ JobOK(q, logs) /\ logs \in Seq(Log) /\ q.user = Nobody
  BY Zenon, <1>1 DEF L!Started, LiveInv, LiveType, JobOK, Entering, Leaving, Job
<1>3. UNCHANGED <<liveRoom, sent, count, logs, ended, excused>>
  BY Zenon DEF L!Started
<1>4. FinishedCloses'
  BY Zenon, <1>3 DEF LiveInv, FinishedCloses, L!FinishedCloses, L!Open
<1>5. ASSUME NEW v \in Job, liveReq' = [liveReq EXCEPT ![r] = v], JobOK(v, logs), v.user = Nobody
      PROVE  LiveInv'
  BY Zenon, <1>1, <1>2, <1>3, <1>4, <1>5, LiveLogsAssumption, LiveMoves
<1>6. CASE L!Open # {}
  <2>1. liveReq' = [liveReq EXCEPT ![r] = L!Idle]
    BY Zenon, <1>6 DEF L!Started
  <2>2. L!Idle \in Job /\ L!Idle.user = Nobody /\ JobOK(L!Idle, logs)
    BY Zenon, LiveLogsAssumption DEF L!Idle, Job, JobOK, Entering, Leaving, AtLog
  <2>3. QED
    BY Zenon, <1>5, <2>1, <2>2
<1>7. CASE L!Open = {}
  <2>0. PICK n \in Nat : n = Len(logs)
    BY <1>2
  <2> DEFINE v == [q EXCEPT !.pc = "start", !.log = n]
  <2>1. liveReq' = [liveReq EXCEPT ![r] = v]
    BY Zenon, <1>1, <1>7, <2>0 DEF L!Started
  <2>2. v \in Job /\ v.pc = "start" /\ v.log = Len(logs) /\ v.user = Nobody
    BY Zenon, <1>2, <2>0 DEF Job
  <2> HIDE DEF v
  <2>3. \A i \in 1 .. Len(logs) : ~logs[i].open
    BY <1>2, <1>7 DEF L!Open
  <2>4. JobOK(v, logs)
    BY <1>2, <2>2, <2>3, LiveLogsAssumption DEF JobOK, Entering, Leaving, AtLog
  <2>5. QED
    BY Zenon, <1>5, <2>1, <2>2, <2>4
<1>8. QED
  BY Zenon, <1>6, <1>7

\* handleRoomFinished closes every open log.
LEMMA LiveFinished ==
    ASSUME LiveInv, NEW r \in Worker, L!Finished(r)
    PROVE  LiveInv'
<1>1. PICK q \in Job : q = liveReq[r]
  BY Zenon DEF LiveInv, LiveType
<1>2. q.pc = "finished" /\ JobOK(q, logs) /\ logs \in Seq(Log) /\ q.user = Nobody
  BY Zenon, <1>1 DEF L!Finished, LiveInv, LiveType, JobOK, Entering, Leaving, Job
<1>3. UNCHANGED <<liveRoom, sent, count, excused>>
  BY Zenon DEF L!Finished
<1>4. \A i \in 1 .. Len(logs) :
         LET l == [logs[i] EXCEPT !.open = FALSE]
         IN  l \in Log /\ l.open = FALSE /\ l.by = logs[i].by /\ l.beside = logs[i].beside /\ l.in = logs[i].in
  <2> TAKE i \in 1 .. Len(logs)
  <2>1. logs[i] \in Log
    BY <1>2
  <2>2. QED
    BY Zenon, <2>1 DEF Log
<1>5. logs' = [i \in 1 .. Len(logs) |-> [logs[i] EXCEPT !.open = FALSE]]
  BY <1>2 DEF L!Finished
<1>6. logs' \in Seq(Log) /\ Len(logs') = Len(logs)
  BY <1>2, <1>4, <1>5
<1>7. \A i \in 1 .. Len(logs) :
         logs'[i].open = FALSE /\ logs'[i].by = logs[i].by /\ logs'[i].beside = logs[i].beside /\ logs'[i].in = logs[i].in
  BY Zenon, <1>4, <1>5
<1>8. FinishedCloses'
  BY <1>6, <1>7 DEF FinishedCloses, L!FinishedCloses, L!Open
<1>9. ASSUME NEW v \in Job, liveReq' = [liveReq EXCEPT ![r] = v], JobOK(v, logs), v.user = Nobody
      PROVE  LiveInv'
  BY Zenon, <1>1, <1>2, <1>3, <1>6, <1>7, <1>8, <1>9, LiveLogsAssumption, LiveMoves
<1>10. CASE L!Open # {}
  <2>1. liveReq' = [liveReq EXCEPT ![r] = L!Idle]
    BY Zenon, <1>10 DEF L!Finished
  <2>2. L!Idle \in Job /\ L!Idle.user = Nobody /\ JobOK(L!Idle, logs)
    BY Zenon, LiveLogsAssumption DEF L!Idle, Job, JobOK, Entering, Leaving, AtLog
  <2>3. QED
    BY Zenon, <1>9, <2>1, <2>2
<1>11. CASE L!Open = {}
  <2> DEFINE v == [q EXCEPT !.pc = "finish"]
  <2>1. liveReq' = [liveReq EXCEPT ![r] = v]
    BY Zenon, <1>1, <1>11 DEF L!Finished
  <2>2. v \in Job /\ v.pc = "finish" /\ v.user = Nobody
    BY Zenon, <1>2 DEF Job
  <2> HIDE DEF v
  <2>3. JobOK(v, logs)
    BY Zenon, <2>2, LiveLogsAssumption DEF JobOK, Entering, Leaving, AtLog
  <2>4. QED
    BY Zenon, <1>9, <2>1, <2>2, <2>3
<1>12. QED
  BY Zenon, <1>10, <1>11

\* latestLogId for participant_joined and participant_left.
LEMMA LiveFindLog ==
    ASSUME LiveInv, NEW r \in Worker, L!FindLog(r)
    PROVE  LiveInv'
<1>1. PICK q \in Job : q = liveReq[r]
  BY Zenon DEF LiveInv, LiveType
<1>2. q.pc \in {"joined", "left"} /\ JobOK(q, logs) /\ logs \in Seq(Log) /\ q.user \in Guest
  BY Zenon, <1>1 DEF L!FindLog, LiveInv, LiveType, JobOK, Entering, Leaving, Job
<1>3. UNCHANGED <<liveRoom, sent, count, logs, ended, excused>>
  BY Zenon DEF L!FindLog
<1>4. FinishedCloses'
  BY Zenon, <1>3 DEF LiveInv, FinishedCloses, L!FinishedCloses, L!Open
<1>5. q.user \notin excused => GuestOK(q.user, sent, count, logs, liveReq)
  BY Zenon, <1>2 DEF LiveInv
<1>6. CASE Len(logs) = 0
  <2>1. liveReq' = [liveReq EXCEPT ![r] = L!Idle]
    BY Zenon, <1>6 DEF L!FindLog, L!LatestLogId
  <2>2. L!Idle \in Job /\ L!Idle.user = Nobody /\ JobOK(L!Idle, logs)
    BY Zenon, LiveLogsAssumption DEF L!Idle, Job, JobOK, Entering, Leaving, AtLog
  <2>3. NotIn(q.user, logs)
    BY <1>6 DEF NotIn
  <2>4. q.user \notin excused => GuestOK(q.user, sent, count, logs', liveReq')
    BY Zenon, <1>1, <1>2, <1>3, <2>1, <2>2, <2>3, LiveLogsAssumption, OwnGuest
  <2>5. QED
    BY Zenon, <1>1, <1>2, <1>3, <1>4, <2>1, <2>2, <2>4, LiveMoves
<1>7. CASE Len(logs) # 0
  <2>1. PICK pc \in {"join", "leave"} : pc = IF q.pc = "joined" THEN "join" ELSE "leave"
    BY Zenon
  <2>0. PICK n \in Nat : n = Len(logs)
    BY <1>2
  <2> DEFINE v == [q EXCEPT !.pc = pc, !.log = n]
  <2>2. liveReq' = [liveReq EXCEPT ![r] = v]
    BY Zenon, <1>1, <1>7, <2>0, <2>1 DEF L!FindLog, L!LatestLogId
  <2>3. v \in Job /\ v.pc = pc /\ v.log = Len(logs) /\ v.user = q.user
    BY Zenon, <1>2, <2>0 DEF Job, Entering, Leaving
  <2> HIDE DEF v
  <2>4. JobOK(v, logs)
    BY <1>2, <1>7, <2>3 DEF JobOK, Entering, Leaving, AtLog
  <2>5. (v.pc \in Entering => q.pc \in Entering) /\ (v.pc \in Leaving => q.pc \in Leaving)
    BY Zenon, <1>2, <2>1, <2>3 DEF Entering, Leaving
  <2>6. ASSUME q.user \notin excused PROVE GuestOK(q.user, sent, count, logs', liveReq')
    <3>1. /\ v.pc \in Entering => LastJoined(sent, count, q.user) /\ NotIn(q.user, logs)
          /\ v.pc \in Leaving => ~LastJoined(sent, count, q.user)
      BY Zenon, <1>1, <1>5, <2>5, <2>6 DEF GuestOK
    <3>2. QED
      BY Zenon, <1>1, <1>2, <1>3, <2>2, <2>3, <2>6, <3>1, OwnGuest
  <2>7. QED
    BY Zenon, <1>1, <1>2, <1>3, <1>4, <2>2, <2>3, <2>4, <2>6, LiveMoves
<1>8. QED
  BY Zenon, <1>6, <1>7

\* handleParticipantLeft looks for the row.
LEMMA LiveLeftRead ==
    ASSUME LiveInv, NEW r \in Worker, L!LeftRead(r)
    PROVE  LiveInv'
<1>1. PICK q \in Job : q = liveReq[r]
  BY Zenon DEF LiveInv, LiveType
<1>2. q.pc = "leave" /\ JobOK(q, logs) /\ logs \in Seq(Log) /\ q.user \in Guest /\ q.log \in 1 .. Len(logs)
  BY Zenon, <1>1 DEF L!LeftRead, LiveInv, LiveType, JobOK, Leaving, AtLog
<1>3. UNCHANGED <<liveRoom, sent, count, logs, ended, excused>>
  BY Zenon DEF L!LeftRead
<1>4. FinishedCloses'
  BY Zenon, <1>3 DEF LiveInv, FinishedCloses, L!FinishedCloses, L!Open
<1>5. q.user \notin excused =>
         /\ q.log = Len(logs) /\ ~LastJoined(sent, count, q.user)
         /\ \A i \in 1 .. Len(logs) : i # Len(logs) => q.user \notin logs[i].in
  BY Zenon, <1>1, <1>2 DEF LiveInv, GuestOK, AtLog, Leaving
<1>6. CASE q.user \in logs[q.log].in \cup logs[q.log].out
  <2> DEFINE v == [q EXCEPT !.pc = "leftAt"]
  <2>1. liveReq' = [liveReq EXCEPT ![r] = v]
    BY Zenon, <1>1, <1>6 DEF L!LeftRead
  <2>2. v \in Job /\ v.pc = "leftAt" /\ v.log = q.log /\ v.user = q.user
    BY Zenon DEF Job, Leaving
  <2> HIDE DEF v
  <2>3. JobOK(v, logs)
    BY Zenon, <1>2, <2>2 DEF JobOK, Entering, Leaving, AtLog
  <2>4. v.pc \notin Entering
    BY Zenon, <2>2 DEF Entering
  <2>5. q.user \notin excused => GuestOK(q.user, sent, count, logs', liveReq')
    BY Zenon, <1>1, <1>2, <1>3, <1>5, <2>1, <2>2, <2>4, OwnGuest
  <2>6. QED
    BY Zenon, <1>1, <1>2, <1>3, <1>4, <2>1, <2>2, <2>3, <2>5, LiveMoves
<1>7. CASE q.user \notin logs[q.log].in \cup logs[q.log].out
  <2>1. liveReq' = [liveReq EXCEPT ![r] = L!Idle]
    BY Zenon, <1>1, <1>7 DEF L!LeftRead
  <2>2. L!Idle \in Job /\ L!Idle.user = Nobody /\ JobOK(L!Idle, logs)
    BY Zenon, LiveLogsAssumption DEF L!Idle, Job, JobOK, Entering, Leaving, AtLog
  <2>3. q.user \notin excused => NotIn(q.user, logs)
    BY Zenon, <1>5, <1>7 DEF NotIn
  <2>4. q.user \notin excused => GuestOK(q.user, sent, count, logs', liveReq')
    BY Zenon, <1>1, <1>2, <1>3, <2>1, <2>2, <2>3, LiveLogsAssumption, OwnGuest
  <2>5. QED
    BY Zenon, <1>1, <1>2, <1>3, <1>4, <2>1, <2>2, <2>4, LiveMoves
<1>8. QED
  BY Zenon, <1>6, <1>7

\* A handler with a row to write: its log gets the participants in and out.
LEMMA LiveWrites ==
    ASSUME LiveInv, NEW r \in Worker, NEW q \in Job, q = liveReq[r], q.user \in Guest,
           q.pc \in AtLog, NEW in \in SUBSET Guest, NEW out \in SUBSET Guest,
           logs' = [logs EXCEPT ![q.log] = [logs[q.log] EXCEPT !.in = in, !.out = out]],
           \A u \in Guest : u # q.user => (u \in in <=> u \in logs[q.log].in),
           liveReq' = [liveReq EXCEPT ![r] = L!Idle],
           UNCHANGED <<liveRoom, sent, count, ended, excused>>,
           q.user \notin excused /\ ~LastJoined(sent, count, q.user) => q.user \notin in
    PROVE  LiveInv'
<1>1. JobOK(q, logs) /\ logs \in Seq(Log) /\ q.log \in 1 .. Len(logs)
  BY Zenon DEF LiveInv, LiveType, JobOK
<1> DEFINE l == [logs[q.log] EXCEPT !.in = in, !.out = out]
<1>2. l \in Log /\ l.open = logs[q.log].open /\ l.by = logs[q.log].by /\ l.beside = logs[q.log].beside
      /\ l.in = in /\ l.session = logs[q.log].session /\ l.late = logs[q.log].late
  <2>1. logs[q.log] \in Log
    BY <1>1
  <2>2. QED
    BY Zenon, <2>1 DEF Log
<1>3. logs' = [logs EXCEPT ![q.log] = l]
  BY Zenon
<1> HIDE DEF l
<1>4. logs' \in Seq(Log) /\ Len(logs') = Len(logs) /\ logs'[q.log] = l
      /\ \A i \in 1 .. Len(logs) : i # q.log => logs'[i] = logs[i]
  <2>1. logs' \in Seq(Log)
    BY <1>1, <1>2, <1>3
  <2>2. Len(logs') = Len(logs)
    BY <1>1, <1>2, <1>3
  <2>3. logs'[q.log] = l
    <3>1. q.log \in DOMAIN logs
      BY <1>1
    <3>2. QED
      BY <1>3, <3>1, Zenon
  <2>4. \A i \in 1 .. Len(logs) : i # q.log => logs'[i] = logs[i]
    BY <1>1, <1>2, <1>3
  <2>5. QED
    BY Zenon, <2>1, <2>2, <2>3, <2>4
<1>5. \A i \in 1 .. Len(logs) :
         /\ logs'[i].by = logs[i].by /\ logs'[i].beside = logs[i].beside /\ logs'[i].open = logs[i].open
         /\ logs'[i].session = logs[i].session /\ logs'[i].late = logs[i].late
         /\ \A u \in Guest : u # q.user => (u \in logs'[i].in <=> u \in logs[i].in)
  BY Zenon, <1>2, <1>4
<1>6. FinishedCloses'
  BY <1>1, <1>4, <1>5 DEF LiveInv, FinishedCloses, L!FinishedCloses, L!Open
<1>7. L!Idle \in Job /\ L!Idle.user = Nobody /\ JobOK(L!Idle, logs)
  BY Zenon, LiveLogsAssumption DEF L!Idle, Job, JobOK, Entering, Leaving, AtLog
<1>8. ASSUME q.user \notin excused PROVE GuestOK(q.user, sent, count, logs', liveReq')
  <2>1. GuestOK(q.user, sent, count, logs, liveReq) /\ q.log = Len(logs)
    BY Zenon, <1>8 DEF LiveInv, GuestOK
  <2>2. ~LastJoined(sent, count, q.user) => NotIn(q.user, logs')
    BY <1>2, <1>4, <1>8, <2>1 DEF GuestOK, NotIn
  <2>3. \A i \in 1 .. Len(logs) : i # Len(logs) => logs'[i].in \subseteq logs[i].in
    BY Zenon, <1>4, <2>1
  <2>4. QED
    BY Zenon, <1>4, <1>7, <1>8, <2>2, <2>3, LiveLogsAssumption, OwnGuest
<1>9. QED
  BY Zenon, <1>4, <1>5, <1>6, <1>7, <1>8, LiveMoves

\* handleParticipantJoined resets the row, or finds none.
LEMMA LiveJoined ==
    ASSUME LiveInv, NEW r \in Worker, L!Joined(r)
    PROVE  LiveInv'
<1>1. PICK q \in Job : q = liveReq[r]
  BY Zenon DEF LiveInv, LiveType
<1>2. /\ q.pc = "join" /\ JobOK(q, logs) /\ logs \in Seq(Log) /\ q.user \in Guest
      /\ q.log \in 1 .. Len(logs) /\ logs[q.log] \in Log
  BY <1>1 DEF L!Joined, LiveInv, LiveType, JobOK, Entering, AtLog
<1>3. UNCHANGED <<liveRoom, sent, count, ended, excused>>
  BY Zenon DEF L!Joined
<1>4. q.user \notin excused =>
         q.log = Len(logs) /\ LastJoined(sent, count, q.user) /\ NotIn(q.user, logs)
  BY Zenon, <1>1, <1>2 DEF LiveInv, GuestOK, AtLog, Entering
<1>5. CASE q.user \in logs[q.log].in \cup logs[q.log].out
  <2>1. PICK in \in SUBSET Guest, out \in SUBSET Guest :
           in = logs[q.log].in \cup {q.user} /\ out = logs[q.log].out \ {q.user}
    BY Zenon, <1>2 DEF Log
  <2>2. /\ logs' = [logs EXCEPT ![q.log] = [logs[q.log] EXCEPT !.in = in, !.out = out]]
        /\ liveReq' = [liveReq EXCEPT ![r] = L!Idle]
    BY Zenon, <1>1, <1>5, <2>1 DEF L!Joined
  <2>3. q.pc \in AtLog
    BY Zenon, <1>2 DEF AtLog
  <2>4. QED
    BY ZenonT(30), <1>1, <1>2, <1>3, <1>4, <2>1, <2>2, <2>3, LiveWrites
<1>6. CASE q.user \notin logs[q.log].in \cup logs[q.log].out
  <2> DEFINE v == [q EXCEPT !.pc = "insert"]
  <2>1. liveReq' = [liveReq EXCEPT ![r] = v] /\ UNCHANGED logs
    BY Zenon, <1>1, <1>6 DEF L!Joined
  <2>2. v \in Job /\ v.pc = "insert" /\ v.log = q.log /\ v.user = q.user
    BY Zenon DEF Job, Entering
  <2> HIDE DEF v
  <2>3. JobOK(v, logs) /\ v.pc \notin Leaving
    BY Zenon, <1>2, <2>2 DEF JobOK, Entering, Leaving, AtLog
  <2>4. q.user \notin excused => GuestOK(q.user, sent, count, logs', liveReq')
    BY Zenon, <1>1, <1>2, <1>3, <1>4, <2>1, <2>2, <2>3, OwnGuest
  <2>5. FinishedCloses'
    BY Zenon, <1>3, <2>1 DEF LiveInv, FinishedCloses, L!FinishedCloses, L!Open
  <2>6. QED
    BY Zenon, <1>1, <1>2, <1>3, <2>1, <2>2, <2>3, <2>4, <2>5, LiveMoves
<1>7. QED
  BY Zenon, <1>5, <1>6

\* handleParticipantJoined inserts the row.
LEMMA LiveJoinedInsert ==
    ASSUME LiveInv, NEW r \in Worker, L!JoinedInsert(r)
    PROVE  LiveInv'
<1>1. PICK q \in Job : q = liveReq[r]
  BY Zenon DEF LiveInv, LiveType
<1>2. /\ q.pc = "insert" /\ JobOK(q, logs) /\ logs \in Seq(Log) /\ q.user \in Guest
      /\ q.log \in 1 .. Len(logs) /\ logs[q.log] \in Log
  BY <1>1 DEF L!JoinedInsert, LiveInv, LiveType, JobOK, Entering, AtLog
<1>3. PICK in \in SUBSET Guest, out \in SUBSET Guest :
         in = logs[q.log].in \cup ({q.user} \ logs[q.log].out) /\ out = logs[q.log].out
  BY Zenon, <1>2 DEF Log
<1>4. /\ logs' = [logs EXCEPT ![q.log] = [logs[q.log] EXCEPT !.in = in]]
      /\ liveReq' = [liveReq EXCEPT ![r] = L!Idle] /\ UNCHANGED <<liveRoom, sent, count, ended, excused>>
  BY Zenon, <1>1, <1>3 DEF L!JoinedInsert
<1>5. [logs[q.log] EXCEPT !.in = in] = [logs[q.log] EXCEPT !.in = in, !.out = out]
  BY Zenon, <1>2, <1>3 DEF Log
<1>6. logs' = [logs EXCEPT ![q.log] = [logs[q.log] EXCEPT !.in = in, !.out = out]]
  BY Zenon, <1>4, <1>5
<1>7. q.pc \in AtLog /\ (q.user \notin excused => LastJoined(sent, count, q.user))
  BY Zenon, <1>1, <1>2 DEF AtLog, LiveInv, GuestOK, Entering
<1>8. \A u \in Guest : u # q.user => (u \in in <=> u \in logs[q.log].in)
  BY Zenon, <1>3
<1>9. QED
  BY Zenon, <1>1, <1>2, <1>4, <1>6, <1>7, <1>8, LiveWrites

\* handleParticipantLeft writes leftAt.
LEMMA LiveLeftWrite ==
    ASSUME LiveInv, NEW r \in Worker, L!LeftWrite(r)
    PROVE  LiveInv'
<1>1. PICK q \in Job : q = liveReq[r]
  BY Zenon DEF LiveInv, LiveType
<1>2. /\ q.pc = "leftAt" /\ JobOK(q, logs) /\ logs \in Seq(Log) /\ q.user \in Guest
      /\ q.log \in 1 .. Len(logs) /\ logs[q.log] \in Log
  BY <1>1 DEF L!LeftWrite, LiveInv, LiveType, JobOK, Leaving, AtLog
<1>3. PICK in \in SUBSET Guest, out \in SUBSET Guest :
         in = logs[q.log].in \ {q.user} /\ out = logs[q.log].out \cup {q.user}
  BY Zenon, <1>2 DEF Log
<1>4. /\ logs' = [logs EXCEPT ![q.log] = [logs[q.log] EXCEPT !.in = in, !.out = out]]
      /\ liveReq' = [liveReq EXCEPT ![r] = L!Idle] /\ UNCHANGED <<liveRoom, sent, count, ended, excused>>
  BY Zenon, <1>1, <1>3 DEF L!LeftWrite
<1>5. q.pc \in AtLog
  BY Zenon, <1>2 DEF AtLog
<1>6. q.user \notin in /\ \A u \in Guest : u # q.user => (u \in in <=> u \in logs[q.log].in)
  BY Zenon, <1>3
<1>7. QED
  BY Zenon, <1>1, <1>2, <1>4, <1>5, <1>6, LiveWrites

\* A log is inserted: by createCallLog, handleRoomStarted or handleRoomFinished.
LEMMA LiveInserts ==
    ASSUME LiveInv, NEW r \in Worker, NEW by \in {"call", "started", "finished"}, NEW open \in BOOLEAN,
           NEW seen \in Nat, L!InsertLog(by, open, liveReq[r].session, seen),
           by = "started" => \A i \in 1 .. Len(logs) : i <= seen => ~logs[i].open,
           liveReq[r].user = Nobody,
           liveReq' = [liveReq EXCEPT ![r] = L!Idle],
           UNCHANGED <<liveRoom, sent, count, ended>>
    PROVE  LiveInv'
<1>1. PICK s \in Nat : s = liveReq[r].session
  BY Zenon DEF LiveInv, LiveType, Job
<1>2. logs \in Seq(Log) /\ Len(logs) \in Nat /\ L!Idle \in Job /\ L!Idle.user = Nobody /\ L!Idle.pc = "idle"
  BY SMTT(20) DEF LiveInv, LiveType, L!Idle, Job
<1> DEFINE beside == L!Open \cap 1 .. seen
           over == s \in ended \cup {0}
           l == [by |-> by, open |-> open, session |-> s, in |-> {}, out |-> {}, late |-> over, beside |-> beside]
<1>3. beside \in SUBSET Nat /\ (by = "started" => beside = {})
  BY <1>2 DEF L!Open
<1>4. over \in BOOLEAN /\ (s \in ended => over)
  OBVIOUS
<1>6. logs' = Append(logs, l) /\ excused' = excused \cup {u \in Guest : L!Present(u)}
  BY Zenon, <1>1 DEF L!InsertLog
<1> HIDE DEF beside, over
<1>5. l \in Log /\ l.by = by /\ l.session = s /\ l.in = {} /\ l.late = over /\ l.beside = beside
  BY Zenon, <1>3, <1>4 DEF Log
<1> HIDE DEF l
<1>7. logs' \in Seq(Log) /\ Len(logs') = Len(logs) + 1 /\ logs'[Len(logs) + 1] = l
      /\ \A i \in 1 .. Len(logs) : logs'[i] = logs[i]
  BY SMTT(20), <1>2, <1>5, <1>6
<1>8. /\ liveReq' \in [Worker -> Job] /\ liveReq'[r] = L!Idle
      /\ \A q \in Worker \ {r} : liveReq'[q] = liveReq[q]
  BY Zenon, <1>2 DEF LiveInv, LiveType
<1>9. LiveType'
  BY Zenon, <1>7, <1>8 DEF LiveInv, LiveType
<1>10. \A q \in Worker : JobOK(liveReq'[q], logs')
  <2>1. JobOK(L!Idle, logs')
    BY Zenon, <1>2, LiveLogsAssumption DEF JobOK, Entering, Leaving, AtLog
  <2>2. ASSUME NEW q \in Worker \ {r} PROVE JobOK(liveReq[q], logs')
    <3>1. liveReq[q] \in Job /\ JobOK(liveReq[q], logs) /\ liveReq[q].log \in Nat
      BY Zenon DEF LiveInv, LiveType, Job
    <3>2. QED
      BY SMTT(20), <1>2, <1>7, <3>1 DEF JobOK
  <2>3. QED
    BY Zenon, <1>8, <2>1, <2>2
<1>11. StartedReuses'
  <2>2. \A i \in 1 .. Len(logs) : logs[i].by = "started" => logs[i].beside = {}
    BY <1>2 DEF LiveInv, StartedReuses, L!StartedReuses
  <2>3. \A i \in 1 .. Len(logs) + 1 : i \in 1 .. Len(logs) \/ i = Len(logs) + 1
    BY <1>2
  <2>4. \A i \in 1 .. Len(logs') : logs'[i].by = "started" => logs'[i].beside = {}
    BY Zenon, <1>3, <1>5, <1>7, <2>2, <2>3
  <2>5. QED
    <3>1. DOMAIN logs' = 1 .. Len(logs')
      BY <1>7
    <3>2. \A i \in DOMAIN logs' : logs'[i].by = "started" => logs'[i].beside = {}
      BY Zenon, <2>4, <3>1
    <3>3. QED
      BY Zenon, <3>2 DEF StartedReuses, L!StartedReuses
<1>12. FinishedCloses'
  <2>1. \A i \in 1 .. Len(logs) : logs[i].open /\ logs[i].session \in ended => logs[i].late
    BY <1>2 DEF LiveInv, FinishedCloses, L!FinishedCloses, L!Open
  <2>2. \A i \in 1 .. Len(logs) + 1 : i \in 1 .. Len(logs) \/ i = Len(logs) + 1
    BY <1>2
  <2>3. \A i \in 1 .. Len(logs') : logs'[i].open /\ logs'[i].session \in ended => logs'[i].late
    BY Zenon, <1>4, <1>5, <1>7, <2>1, <2>2
  <2>4. QED
    BY SMTT(20), <1>7, <2>3 DEF FinishedCloses, L!FinishedCloses, L!Open
<1>13. ASSUME NEW u \in Guest, u \notin excused' PROVE GuestOK(u, sent, count, logs', liveReq')
  <2>1. GuestOK(u, sent, count, logs, liveReq) /\ ~L!Present(u)
    BY Zenon, <1>6, <1>13 DEF LiveInv
  <2>2. (\A q \in Worker : liveReq[q].user # u) /\ ~LastJoined(sent, count, u)
    <3>1. \A q \in Worker : liveReq[q].user # u
      BY Zenon, <2>1 DEF L!Present
    <3>2. ASSUME NEW i \in 1 .. Len(sent), sent[i].kind = "joined", sent[i].user = u, count[i] > 0,
                 \A j \in 1 .. Len(sent) : i < j /\ sent[j].user = u => count[j] = 0
          PROVE  FALSE
      <4>1. sent \in Seq(Hook) /\ Len(sent) \in Nat
        BY DEF LiveInv, LiveType
      <4>2. i \in DOMAIN sent /\ \A j \in i + 1 .. Len(sent) : j \in 1 .. Len(sent) /\ i < j
        BY <4>1
      <4>3. QED
        BY Zenon, <2>1, <3>2, <4>2 DEF L!Present
    <3>3. QED
      BY Zenon, <3>1, <3>2 DEF LastJoined
  <2>3. NotIn(u, logs)
    BY Zenon, <2>1, <2>2 DEF GuestOK
  <2>4. \A i \in 1 .. Len(logs) + 1 : i \in 1 .. Len(logs) \/ i = Len(logs) + 1
    BY <1>2
  <2>5. NotIn(u, logs')
    BY Zenon, <1>5, <1>7, <2>3, <2>4 DEF NotIn
  <2>6. \A q \in Worker : liveReq'[q].user # u
    BY Zenon, <1>2, <1>8, <2>2, LiveLogsAssumption
  <2>7. QED
    BY Zenon, <2>1, <2>5, <2>6 DEF GuestOK, NotIn
<1>14. QED
  BY Zenon, <1>9, <1>10, <1>11, <1>12, <1>13 DEF LiveInv

\* createCallLog, and the inserts of handleRoomStarted and handleRoomFinished.
LEMMA LiveInsertSteps ==
    ASSUME LiveInv, NEW r \in Worker, L!CreateCallLog(r) \/ L!StartedInsert(r) \/ L!FinishedInsert(r)
    PROVE  LiveInv'
<1>1. PICK q \in Job : q = liveReq[r]
  BY Zenon DEF LiveInv, LiveType
<1>2. JobOK(q, logs) /\ q.log \in Nat /\ q.pc \in {"create", "start", "finish"} /\ q.user \in Guest \cup {Nobody}
  BY Zenon, <1>1 DEF LiveInv, Job, L!CreateCallLog, L!StartedInsert, L!FinishedInsert
<1>3. q.user = Nobody
  BY Zenon, <1>2 DEF JobOK, Entering, Leaving
<1>4. UNCHANGED <<liveRoom, sent, count, ended>> /\ liveReq' = [liveReq EXCEPT ![r] = L!Idle]
  BY Zenon DEF L!CreateCallLog, L!StartedInsert, L!FinishedInsert
<1>5. CASE L!CreateCallLog(r)
  <2>1. L!InsertLog("call", TRUE, liveReq[r].session, 0)
    BY Zenon, <1>5 DEF L!CreateCallLog
  <2>2. QED
    BY Zenon, <1>1, <1>3, <1>4, <2>1, LiveInserts
<1>6. CASE L!StartedInsert(r)
  <2>1. L!InsertLog("started", TRUE, liveReq[r].session, q.log) /\ q.pc = "start"
    BY Zenon, <1>1, <1>6 DEF L!StartedInsert
  <2>2. \A i \in 1 .. Len(logs) : i <= q.log => ~logs[i].open
    BY Zenon, <1>2, <2>1 DEF JobOK
  <2>3. QED
    BY Zenon, <1>1, <1>2, <1>3, <1>4, <2>1, <2>2, LiveInserts
<1>7. CASE L!FinishedInsert(r)
  <2>1. L!InsertLog("finished", FALSE, liveReq[r].session, 0)
    BY Zenon, <1>7 DEF L!FinishedInsert
  <2>2. QED
    BY Zenon, <1>1, <1>3, <1>4, <2>1, LiveInserts
<1>8. QED
  BY Zenon, <1>5, <1>6, <1>7

\* Webhook i of u arrives, after u's earlier ones and before u's later ones.
Arrival(s, n, i, u, c, d) ==
    /\ Len(s) = n /\ s[i].user = u
    /\ \A j \in 1 .. n : c[j] \in Nat
    /\ c[i] = 0 /\ d[i] = 1 /\ \A j \in 1 .. n : j # i => d[j] = c[j]
    /\ \A j \in 1 .. n : j < i /\ s[j].user = u => c[j] > 0
    /\ \A j, k \in 1 .. n : j < k /\ s[j].user = u /\ s[k].user = u /\ c[k] > 0 => c[j] > 0

\* The webhooks of u stay in order, and what the last one said follows from i.
LEMMA Arrives ==
    ASSUME NEW n \in Nat, NEW i \in 1 .. n, NEW s, NEW u, NEW c, NEW d, Arrival(s, n, i, u, c, d)
    PROVE  /\ \A j, k \in 1 .. n : j < k /\ s[j].user = u /\ s[k].user = u /\ d[k] > 0 => d[j] > 0
           /\ s[i].kind = "joined" => LastJoined(s, d, u)
           /\ s[i].kind = "left" => ~LastJoined(s, d, u)
           /\ s[i].kind = "joined" /\ LastJoined(s, c, u) =>
                 \E j \in 1 .. n : /\ j < i /\ s[j].kind = "joined" /\ s[j].user = u
                                  /\ \A k \in 1 .. n : j < k /\ k < i => s[k].user # u
<1> USE DEF Arrival
<1>1. \A j \in 1 .. n : i < j /\ s[j].user = u => c[j] = 0
  OBVIOUS
<1>2. ASSUME NEW j \in 1 .. n, NEW k \in 1 .. n, j < k, s[j].user = u, s[k].user = u, d[k] > 0
      PROVE  d[j] > 0
  <2>1. CASE k = i
    BY Zenon, <1>2, <2>1
  <2>2. CASE k # i
    BY <1>1, <1>2, <2>2
  <2>3. QED
    BY Zenon, <2>1, <2>2
<1>3. s[i].kind = "joined" => LastJoined(s, d, u)
  <2>1. \A j \in 1 .. n : i < j /\ s[j].user = u => d[j] = 0
    BY <1>1
  <2>2. QED
    BY SMTT(20), <2>1 DEF LastJoined
<1>4. s[i].kind = "left" => ~LastJoined(s, d, u)
  <2> SUFFICES ASSUME s[i].kind = "left", NEW j \in 1 .. n, s[j].kind = "joined", s[j].user = u, d[j] > 0,
                      \A k \in 1 .. n : j < k /\ s[k].user = u => d[k] = 0
               PROVE  FALSE
    BY Zenon DEF LastJoined
  <2>1. j # i /\ d[j] = c[j]
    BY Zenon
  <2>2. ~(j < i)
    OBVIOUS
  <2>3. ~(i < j)
    BY SMTT(20), <1>1, <2>1
  <2>4. QED
    BY SMTT(20), <2>1, <2>2, <2>3
<1>5. s[i].kind = "joined" /\ LastJoined(s, c, u) =>
         \E j \in 1 .. n : /\ j < i /\ s[j].kind = "joined" /\ s[j].user = u
                          /\ \A k \in 1 .. n : j < k /\ k < i => s[k].user # u
  <2> SUFFICES ASSUME NEW j \in 1 .. n, s[j].kind = "joined", s[j].user = u, c[j] > 0,
                      \A k \in 1 .. n : j < k /\ s[k].user = u => c[k] = 0
               PROVE  j < i /\ \A k \in 1 .. n : j < k /\ k < i => s[k].user # u
    BY SMTT(20) DEF LastJoined
  <2>1. j # i /\ ~(i < j)
    BY SMTT(20), <1>1
  <2>2. \A k \in 1 .. n : j < k /\ k < i => s[k].user # u
    BY SMTT(20)
  <2>3. QED
    BY SMTT(20), <2>1, <2>2
<1>6. QED
  BY Zenon, <1>2, <1>3, <1>4, <1>5

\* handleWebhook: a webhook arrives.
LEMMA LiveDeliver ==
    ASSUME LiveInv, NEW r \in Worker, NEW i \in DOMAIN sent, L!Deliver(r, i)
    PROVE  LiveInv'
<1>1. sent \in Seq(Hook) /\ count \in Seq(Nat) /\ Len(count) = Len(sent) /\ i \in 1 .. Len(sent)
      /\ Len(sent) \in Nat /\ logs \in Seq(Log)
  BY DEF LiveInv, LiveType
<1>2. PICK w \in Hook : w = sent[i]
  BY <1>1
<1>3. HookOK(w)
  BY Zenon, <1>1, <1>2 DEF LiveInv
<1> DEFINE v == [pc |-> w.kind, user |-> w.user, session |-> w.session, log |-> 0]
<1>4. v \in Job /\ v.pc = w.kind /\ v.user = w.user
  BY Zenon DEF Job, Hook, Entering, Leaving
<1>5. liveReq[r] = L!Idle /\ liveReq' = [liveReq EXCEPT ![r] = v]
  BY Zenon, <1>2 DEF L!Deliver
<1> HIDE DEF v
<1>6. /\ liveReq' \in [Worker -> Job] /\ liveReq'[r] = v
      /\ \A q \in Worker \ {r} : liveReq'[q] = liveReq[q]
  BY Zenon, <1>4, <1>5 DEF LiveInv, LiveType
<1>7. UNCHANGED <<liveRoom, sent, logs, ended>> /\ count' = [count EXCEPT ![i] = count[i] + 1]
  BY Zenon DEF L!Deliver
<1>8. count' \in Seq(Nat) /\ Len(count') = Len(count) /\ count'[i] = count[i] + 1
      /\ (\A j \in 1 .. Len(sent) : count[j] \in Nat)
      /\ \A j \in 1 .. Len(sent) : j # i => count'[j] = count[j]
  <2>1. i \in DOMAIN count /\ count[i] + 1 \in Nat
    BY <1>1
  <2>2. QED
    BY <1>1, <1>7, <2>1
<1>9. LiveType'
  BY Zenon, <1>6, <1>7, <1>8 DEF LiveInv, LiveType
<1>10. \A q \in Worker : JobOK(liveReq'[q], logs')
  <2>1. JobOK(v, logs)
    BY Zenon, <1>3, <1>4 DEF HookOK, JobOK, Hook, Entering, Leaving, AtLog
  <2>2. QED
    BY Zenon, <1>6, <1>7, <2>1 DEF LiveInv
<1>11. StartedReuses' /\ FinishedCloses'
  BY Zenon, <1>7 DEF LiveInv, StartedReuses, L!StartedReuses, FinishedCloses, L!FinishedCloses, L!Open
<1>12. ASSUME NEW u \in Guest, u \notin excused' PROVE GuestOK(u, sent, count', logs, liveReq')
  <2>1. u \notin excused /\ liveReq[r].user # u
    BY SMTT(20), <1>5, <1>12, LiveLogsAssumption DEF L!Deliver, L!Idle
  <2>2. GuestOK(u, sent, count, logs, liveReq)
    BY Zenon, <2>1 DEF LiveInv
  <2>3. CASE u # w.user
    <3>1. \A q \in Worker : (liveReq'[q].user = u <=> liveReq[q].user = u)
                            /\ (liveReq[q].user = u => liveReq'[q] = liveReq[q])
      BY Zenon, <1>4, <1>6, <2>1, <2>3
    <3>2. \A j \in 1 .. Len(sent) : sent[j].user = u => count'[j] = count[j]
      BY Zenon, <1>2, <1>8, <2>3
    <3>3. LastJoined(sent, count', u) <=> LastJoined(sent, count, u)
      BY Zenon, <3>2 DEF LastJoined
    <3>4. QED
      BY Zenon, <2>2, <3>1, <3>2, <3>3 DEF GuestOK
  <2>4. CASE u = w.user
    <3>1. /\ count[i] = 0
          /\ \A j \in 1 .. i - 1 : sent[j].user = u => count[j] # 0
          /\ \A q \in Worker : liveReq[q].user # u
      BY SMTT(20), <1>1, <1>2, <1>8, <1>12, <2>4 DEF L!Deliver
    <3>2. PICK n \in Nat : n = Len(sent) /\ i \in 1 .. n
      BY Zenon, <1>1
    <3>3. /\ \A j \in 1 .. n : count[j] \in Nat
          /\ count'[i] = 1 /\ \A j \in 1 .. n : j # i => count'[j] = count[j]
      BY SMTT(20), <1>8, <3>1, <3>2
    <3>4. \A j \in 1 .. n : j < i /\ sent[j].user = u => count[j] > 0
      <4> TAKE j \in 1 .. n
      <4> HAVE j < i /\ sent[j].user = u
      <4>1. j \in 1 .. i - 1
        BY <3>2
      <4>2. QED
        BY <3>1, <3>3, <4>1
    <3>5. w.kind \in {"joined", "left"} /\ v.pc \notin AtLog
      BY Zenon, <1>3, <1>4, <2>4 DEF HookOK, AtLog
    <3>6. v.pc \in Entering => w.kind = "joined"
      BY Zenon, <1>4, <3>5 DEF Entering
    <3>7. v.pc \in Leaving => w.kind = "left"
      BY Zenon, <1>4, <3>5 DEF Leaving
    <3>8. \A j, k \in 1 .. n : j < k /\ sent[j].user = u /\ sent[k].user = u /\ count[k] > 0 => count[j] > 0
      BY Zenon, <2>2, <3>2 DEF GuestOK
    <3>9. sent[i].user = u /\ sent[i].kind = w.kind /\ Len(sent) = n /\ count[i] = 0 /\ count'[i] = 1
      BY Zenon, <1>2, <2>4, <3>1, <3>2, <3>3
    <3>10. /\ \A j, k \in 1 .. n : j < k /\ sent[j].user = u /\ sent[k].user = u /\ count'[k] > 0 => count'[j] > 0
           /\ sent[i].kind = "joined" => LastJoined(sent, count', u)
           /\ sent[i].kind = "left" => ~LastJoined(sent, count', u)
           /\ sent[i].kind = "joined" /\ LastJoined(sent, count, u) =>
                 \E j \in 1 .. n : /\ j < i /\ sent[j].kind = "joined" /\ sent[j].user = u
                                  /\ \A k \in 1 .. n : j < k /\ k < i => sent[k].user # u
      <4>1. Arrival(sent, n, i, u, count, count')
        BY Zenon, <3>3, <3>4, <3>8, <3>9 DEF Arrival
      <4>2. n \in Nat /\ i \in 1 .. n
        BY Zenon, <3>2
      <4>3. QED
        BY ONLY SMTT(20), <4>1, <4>2, Arrives
    <3>11. w.kind = "joined" => ~LastJoined(sent, count, u)
      <4> SUFFICES ASSUME w.kind = "joined", NEW j \in 1 .. n, j < i, sent[j].kind = "joined", sent[j].user = u,
                          \A k \in 1 .. n : j < k /\ k < i => sent[k].user # u
                   PROVE  FALSE
        BY Zenon, <3>9, <3>10
      <4>1. \E k \in 1 .. n : j < k /\ k < i /\ sent[k].user = u
        <5>1. InTurn(sent, n, liveRoom.in)
          BY Zenon, <3>2 DEF LiveInv
        <5>2. QED
          BY <3>2, <3>9, <5>1 DEF InTurn
      <4>2. QED
        BY Zenon, <4>1
    <3>12. w.kind = "joined" => NotIn(u, logs)
      BY Zenon, <2>2, <3>1, <3>11 DEF GuestOK
    <3>13. \A q \in Worker : liveReq'[q].user = u <=> q = r
      BY Zenon, <1>4, <1>6, <2>4, <3>1
    <3>14. /\ v.pc \in Entering => LastJoined(sent, count', u) /\ NotIn(u, logs)
           /\ v.pc \in Leaving => ~LastJoined(sent, count', u)
           /\ v.pc \notin AtLog
      BY Zenon, <3>5, <3>6, <3>7, <3>9, <3>10, <3>12
    <3>15. \A i1, j1 \in 1 .. Len(sent) : i1 < j1 /\ sent[i1].user = u /\ sent[j1].user = u /\ count'[j1] > 0 => count'[i1] > 0
      BY Zenon, <3>2, <3>10
    <3>16. \A i1 \in 1 .. Len(logs) : i1 # Len(logs) => u \notin logs[i1].in
      BY Zenon, <2>2 DEF GuestOK
    <3>17. liveReq'[r] = v
      BY Zenon, <1>6
    <3>18. QED
      BY Zenon, <3>13, <3>14, <3>15, <3>16, <3>17 DEF GuestOK
  <2>5. QED
    BY Zenon, <2>3, <2>4
<1>13. QED
  BY Zenon, <1>7, <1>9, <1>10, <1>11, <1>12 DEF LiveInv

\* LiveKit sends a webhook: nothing has arrived yet.
LEMMA LiveSends ==
    ASSUME LiveInv, NEW w \in Hook, HookOK(w), L!Send(<<w>>),
           liveRoom' \in [up : Nat, last : Nat, in : SUBSET Guest, enters : Nat],
           \A u \in Guest : u # w.user => (u \in liveRoom'.in <=> u \in liveRoom.in),
           w.kind = "joined" => w.user \notin liveRoom.in /\ w.user \in liveRoom'.in,
           liveReq' \in [Worker -> Job],
           \A q \in Worker : JobOK(liveReq'[q], logs),
           \A q \in Worker, u \in Guest :
              /\ liveReq'[q].user = u <=> liveReq[q].user = u
              /\ liveReq[q].user = u => liveReq'[q] = liveReq[q],
           UNCHANGED <<logs, ended, excused>>
    PROVE  LiveInv'
<1>1. sent \in Seq(Hook) /\ count \in Seq(Nat) /\ Len(count) = Len(sent) /\ Len(sent) \in Nat
  <2>1. sent \in Seq(Hook) /\ count \in Seq(Nat) /\ Len(count) = Len(sent)
    BY Zenon DEF LiveInv, LiveType
  <2>2. QED
    BY <2>1
<1>2. PICK n \in Nat : n = Len(sent)
  BY Zenon, <1>1
<1>3. sent' \in Seq(Hook) /\ Len(sent') = n + 1 /\ sent'[n + 1] = w /\ \A i \in 1 .. n : sent'[i] = sent[i]
  BY SMTT(20), <1>1, <1>2 DEF L!Send
<1>4. count' \in Seq(Nat) /\ Len(count') = n + 1 /\ count'[n + 1] = 0 /\ \A i \in 1 .. n : count'[i] = count[i]
  <2>1. [i \in DOMAIN <<w>> |-> 0] = <<0>>
    BY SMTT(20)
  <2>2. count' = count \o <<0>>
    BY Zenon, <2>1 DEF L!Send
  <2>3. QED
    BY SMTT(20), <1>1, <1>2, <2>2
<1>5. \A i \in 1 .. n + 1 : i \in 1 .. n \/ i = n + 1
  BY SMTT(20)
<1>6. LiveType'
  BY Zenon, <1>3, <1>4 DEF LiveInv, LiveType
<1>7. \A i \in 1 .. Len(sent') : HookOK(sent'[i])
  BY Zenon, <1>2, <1>3, <1>5 DEF LiveInv
<1>8. InTurn(sent', n + 1, liveRoom'.in)
  <2> SUFFICES ASSUME NEW u \in Guest, NEW i \in 1 .. n + 1, sent'[i].user = u, sent'[i].kind = "joined"
               PROVE  /\ u \notin liveRoom'.in =>
                            \E k \in 1 .. n + 1 : i < k /\ sent'[k].user = u /\ sent'[k].kind = "left"
                      /\ \A j \in 1 .. n + 1 : i < j /\ sent'[j].user = u /\ sent'[j].kind = "joined" =>
                            \E k \in 1 .. n + 1 :
                               i < k /\ k < j /\ sent'[k].user = u /\ sent'[k].kind = "left"
    BY SMTT(20) DEF InTurn
  <2>1. CASE i = n + 1
    BY SMTT(20), <1>3, <2>1
  <2>2. CASE i \in 1 .. n
    <3>1. /\ u \notin liveRoom.in => \E k \in 1 .. n : i < k /\ sent[k].user = u /\ sent[k].kind = "left"
          /\ \A j \in 1 .. n : i < j /\ sent[j].user = u /\ sent[j].kind = "joined" =>
                \E k \in 1 .. n : i < k /\ k < j /\ sent[k].user = u /\ sent[k].kind = "left"
      <4>1. InTurn(sent, n, liveRoom.in)
        BY Zenon, <1>2 DEF LiveInv
      <4>2. sent[i].user = u /\ sent[i].kind = "joined"
        BY Zenon, <1>3, <2>2
      <4>3. QED
        BY <2>2, <4>1, <4>2 DEF InTurn
    <3>2. ASSUME u \notin liveRoom'.in
          PROVE  \E k \in 1 .. n + 1 : i < k /\ sent'[k].user = u /\ sent'[k].kind = "left"
      <4>1. CASE u = w.user
        <5>1. w.kind = "left"
          BY Zenon, <3>2, <4>1 DEF HookOK
        <5>2. i < n + 1 /\ n + 1 \in 1 .. n + 1
          BY SMTT(20), <2>2
        <5>3. QED
          BY Zenon, <1>3, <4>1, <5>1, <5>2
      <4>2. CASE u # w.user
        <5>1. PICK k \in 1 .. n : i < k /\ sent[k].user = u /\ sent[k].kind = "left"
          BY Zenon, <3>1, <3>2, <4>2
        <5>2. QED
          BY SMTT(20), <1>3, <5>1
      <4>3. QED
        BY Zenon, <4>1, <4>2
    <3>3. ASSUME NEW j \in 1 .. n + 1, i < j, sent'[j].user = u, sent'[j].kind = "joined"
          PROVE  \E k \in 1 .. n + 1 : i < k /\ k < j /\ sent'[k].user = u /\ sent'[k].kind = "left"
      <4>1. CASE j \in 1 .. n
        <5>1. PICK k \in 1 .. n : i < k /\ k < j /\ sent[k].user = u /\ sent[k].kind = "left"
          BY Zenon, <1>3, <3>1, <3>3, <4>1
        <5>2. QED
          BY SMTT(20), <1>3, <5>1
      <4>2. CASE j = n + 1
        <5>1. u \notin liveRoom.in
          BY Zenon, <1>3, <3>3, <4>2
        <5>2. PICK k \in 1 .. n : i < k /\ sent[k].user = u /\ sent[k].kind = "left"
          BY Zenon, <3>1, <5>1
        <5>3. QED
          BY SMTT(20), <1>3, <4>2, <5>2
      <4>3. QED
        BY Zenon, <1>5, <4>1, <4>2
    <3>4. QED
      BY Zenon, <3>2, <3>3
  <2>3. QED
    BY Zenon, <1>5, <2>1, <2>2
<1>9. StartedReuses' /\ FinishedCloses'
  BY Zenon DEF LiveInv, StartedReuses, L!StartedReuses, FinishedCloses, L!FinishedCloses, L!Open
<1>10. ASSUME NEW u \in Guest \ excused PROVE GuestOK(u, sent', count', logs, liveReq')
  <2>1. GuestOK(u, sent, count, logs, liveReq)
    BY Zenon DEF LiveInv
  <2>2. LastJoined(sent', count', u) => LastJoined(sent, count, u)
    <3> SUFFICES ASSUME NEW i \in 1 .. n + 1, sent'[i].kind = "joined", sent'[i].user = u, count'[i] > 0,
                        \A j \in 1 .. n + 1 : i < j /\ sent'[j].user = u => count'[j] = 0
                 PROVE  LastJoined(sent, count, u)
      BY Zenon, <1>3 DEF LastJoined
    <3>1. i # n + 1
      BY <1>4
    <3>2. i \in 1 .. n
      BY ONLY <1>5, i \in 1 .. n + 1, <3>1
    <3>3. \A j \in 1 .. n : i < j /\ sent[j].user = u => count[j] = 0
      BY SMTT(20), <1>3, <1>4
    <3>4. QED
      BY Zenon, <1>2, <1>3, <1>4, <3>2, <3>3 DEF LastJoined
  <2>3. LastJoined(sent, count, u) => LastJoined(sent', count', u)
    <3> SUFFICES ASSUME NEW i \in 1 .. n, sent[i].kind = "joined", sent[i].user = u, count[i] > 0,
                        \A j \in 1 .. n : i < j /\ sent[j].user = u => count[j] = 0
                 PROVE  LastJoined(sent', count', u)
      BY Zenon, <1>2 DEF LastJoined
    <3>1. \A j \in 1 .. n + 1 : i < j /\ sent'[j].user = u => count'[j] = 0
      BY Zenon, <1>3, <1>4, <1>5
    <3>2. QED
      BY SMTT(20), <1>3, <1>4, <3>1 DEF LastJoined
  <2>4. \A i, j \in 1 .. n + 1 : i < j /\ sent'[i].user = u /\ sent'[j].user = u /\ count'[j] > 0 => count'[i] > 0
    <3> TAKE i, j \in 1 .. n + 1
    <3> HAVE i < j /\ sent'[i].user = u /\ sent'[j].user = u /\ count'[j] > 0
    <3>1. j # n + 1
      BY <1>4
    <3>2. j \in 1 .. n /\ i \in 1 .. n
      BY ONLY n \in Nat, i \in 1 .. n + 1, j \in 1 .. n + 1, i < j, <3>1
    <3>3. QED
      BY Zenon, <1>2, <1>3, <1>4, <2>1, <3>2 DEF GuestOK
  <2>5. LastJoined(sent', count', u) <=> LastJoined(sent, count, u)
    BY Zenon, <2>2, <2>3
  <2>6. \A i, j \in 1 .. Len(sent') : i < j /\ sent'[i].user = u /\ sent'[j].user = u /\ count'[j] > 0 => count'[i] > 0
    BY Zenon, <1>3, <2>4
  <2>7. /\ \A r, q \in Worker : liveReq[r].user = u /\ liveReq[q].user = u => r = q
        /\ \A i \in 1 .. Len(logs) : i # Len(logs) => u \notin logs[i].in
        /\ (\A r \in Worker : liveReq[r].user # u) /\ ~LastJoined(sent', count', u) => NotIn(u, logs)
        /\ \A r \in Worker : liveReq[r].user = u =>
              /\ liveReq[r].pc \in Entering => LastJoined(sent', count', u) /\ NotIn(u, logs)
              /\ liveReq[r].pc \in Leaving => ~LastJoined(sent', count', u)
              /\ liveReq[r].pc \in AtLog => liveReq[r].log = Len(logs)
    BY ONLY <2>1, <2>5 DEF GuestOK
  <2>8. \A q \in Worker : /\ liveReq'[q].user = u <=> liveReq[q].user = u
                          /\ liveReq[q].user = u => liveReq'[q] = liveReq[q]
    BY Zenon
  <2>9. /\ \A r, q \in Worker : liveReq'[r].user = u /\ liveReq'[q].user = u => r = q
        /\ (\A r \in Worker : liveReq'[r].user # u) /\ ~LastJoined(sent', count', u) => NotIn(u, logs)
        /\ \A r \in Worker : liveReq'[r].user = u =>
              /\ liveReq'[r].pc \in Entering => LastJoined(sent', count', u) /\ NotIn(u, logs)
              /\ liveReq'[r].pc \in Leaving => ~LastJoined(sent', count', u)
              /\ liveReq'[r].pc \in AtLog => liveReq'[r].log = Len(logs)
    BY ONLY <2>7, <2>8
  <2>10. QED
    BY ONLY Zenon, <2>6, <2>7, <2>9 DEF GuestOK
<1>11. QED
  BY Zenon, <1>3, <1>6, <1>7, <1>8, <1>9, <1>10 DEF LiveInv

\* A user enters the LiveKit room or leaves it.
LEMMA LiveEnterExit ==
    ASSUME LiveInv, NEW u \in Guest, L!Enter(u) \/ L!Exit(u)
    PROVE  LiveInv'
<1>1. PICK n \in Nat, k \in Nat, in \in SUBSET Guest, e \in Nat :
         liveRoom = [up |-> n, last |-> k, in |-> in, enters |-> e]
  BY Zenon DEF LiveInv, LiveType
<1>2. liveRoom.up = n /\ liveRoom.in = in /\ liveRoom.enters = e
  BY Zenon, <1>1
<1>3. liveReq' = liveReq /\ UNCHANGED <<logs, ended, excused>> /\ liveReq \in [Worker -> Job]
      /\ \A q \in Worker : JobOK(liveReq[q], logs)
  BY Zenon DEF L!Enter, L!Exit, LiveInv, LiveType
<1>4. CASE L!Enter(u)
  <2> DEFINE w == [kind |-> "joined", user |-> u, session |-> n]
  <2>1. w \in Hook /\ HookOK(w) /\ w.kind = "joined" /\ w.user = u
    BY Zenon DEF Hook, HookOK
  <2>2. L!Send(<<w>>) /\ u \notin in
    BY Zenon, <1>2, <1>4 DEF L!Enter, L!Webhook
  <2> HIDE DEF w
  <2>3. liveRoom' = [up |-> n, last |-> k, in |-> in \cup {u}, enters |-> e + 1]
    BY Zenon, <1>1, <1>4 DEF L!Enter
  <2>4. liveRoom' \in [up : Nat, last : Nat, in : SUBSET Guest, enters : Nat] /\ liveRoom'.in = in \cup {u}
    BY SMTT(20), <2>3
  <2>5. QED
    BY Zenon, <1>2, <1>3, <2>1, <2>2, <2>4, LiveSends
<1>5. CASE L!Exit(u)
  <2> DEFINE w == [kind |-> "left", user |-> u, session |-> n]
  <2>1. w \in Hook /\ HookOK(w) /\ w.kind = "left" /\ w.user = u
    BY Zenon DEF Hook, HookOK
  <2>2. L!Send(<<w>>)
    BY Zenon, <1>2, <1>5 DEF L!Exit, L!Webhook
  <2> HIDE DEF w
  <2>3. liveRoom' = [up |-> n, last |-> k, in |-> in \ {u}, enters |-> e]
    BY Zenon, <1>1, <1>5 DEF L!Exit
  <2>4. liveRoom' \in [up : Nat, last : Nat, in : SUBSET Guest, enters : Nat] /\ liveRoom'.in = in \ {u}
    BY Zenon, <2>3
  <2>5. QED
    BY Zenon, <1>2, <1>3, <2>1, <2>2, <2>4, LiveSends
<1>6. QED
  BY Zenon, <1>4, <1>5

\* The room goes down when it is empty.
LEMMA LiveRoomDown ==
    ASSUME LiveInv, L!RoomDown
    PROVE  LiveInv'
<1>1. PICK n \in Nat, k \in Nat, in \in SUBSET Guest, e \in Nat :
         liveRoom = [up |-> n, last |-> k, in |-> in, enters |-> e]
  BY Zenon DEF LiveInv, LiveType
<1>2. liveRoom.up = n /\ liveRoom.in = in
  BY Zenon, <1>1
<1>3. liveReq' = liveReq /\ UNCHANGED <<logs, ended, excused>> /\ liveReq \in [Worker -> Job]
      /\ \A q \in Worker : JobOK(liveReq[q], logs)
  BY Zenon DEF L!RoomDown, LiveInv, LiveType
<1> DEFINE w == [kind |-> "finished", user |-> Nobody, session |-> n]
<1>4. w \in Hook /\ HookOK(w) /\ w.kind = "finished"
  BY Zenon, LiveLogsAssumption DEF Hook, HookOK
<1>5. L!Send(<<w>>)
  BY Zenon, <1>2 DEF L!RoomDown, L!Webhook
<1> HIDE DEF w
<1>6. liveRoom' = [up |-> 0, last |-> k, in |-> in, enters |-> e]
  BY Zenon, <1>1 DEF L!RoomDown
<1>7. liveRoom' \in [up : Nat, last : Nat, in : SUBSET Guest, enters : Nat] /\ liveRoom'.in = in
  BY Zenon, <1>6
<1>8. QED
  BY Zenon, <1>2, <1>3, <1>4, <1>5, <1>7, LiveSends

\* The room comes up for a client that connects.
LEMMA LiveOpenRoom ==
    ASSUME LiveInv, L!OpenRoom
    PROVE  LiveInv'
<1>1. PICK n \in Nat, k \in Nat, in \in SUBSET Guest, e \in Nat :
         liveRoom = [up |-> n, last |-> k, in |-> in, enters |-> e]
  BY Zenon DEF LiveInv, LiveType
<1>2. liveRoom.up = n /\ liveRoom.in = in /\ liveRoom.last = k
  BY Zenon, <1>1
<1>3. liveReq' = liveReq /\ UNCHANGED <<logs, ended, excused>> /\ liveReq \in [Worker -> Job]
      /\ \A q \in Worker : JobOK(liveReq[q], logs)
  BY Zenon DEF L!OpenRoom, LiveInv, LiveType
<1> DEFINE w == [kind |-> "started", user |-> Nobody, session |-> k + 1]
<1>4. w \in Hook /\ HookOK(w) /\ w.kind = "started"
  BY LiveLogsAssumption DEF Hook, HookOK
<1>5. L!Send(<<w>>)
  BY Zenon, <1>2 DEF L!OpenRoom, L!RoomUp, L!Webhook
<1> HIDE DEF w
<1>6. liveRoom' = [up |-> k + 1, last |-> k + 1, in |-> in, enters |-> e]
  BY Zenon, <1>1, <1>2 DEF L!OpenRoom, L!RoomUp
<1>7. liveRoom' \in [up : Nat, last : Nat, in : SUBSET Guest, enters : Nat] /\ liveRoom'.in = in
  BY SMTT(20), <1>6
<1>8. QED
  BY Zenon, <1>2, <1>3, <1>4, <1>5, <1>7, LiveSends

\* initiateLiveKitGroupCall and call:livekit-fallback create the room, or fail to.
LEMMA LiveStartCall ==
    ASSUME LiveInv, NEW r \in Worker, L!StartCall(r)
    PROVE  LiveInv'
<1>1. PICK n \in Nat, k \in Nat, in \in SUBSET Guest, e \in Nat :
         liveRoom = [up |-> n, last |-> k, in |-> in, enters |-> e]
  BY Zenon DEF LiveInv, LiveType
<1>2. liveRoom.up = n /\ liveRoom.in = in /\ liveRoom.last = k
  BY Zenon, <1>1
<1>3. UNCHANGED <<logs, ended, excused>> /\ logs \in Seq(Log) /\ liveReq[r] = L!Idle /\ L!Idle.user = Nobody
  BY Zenon DEF L!StartCall, LiveInv, LiveType, L!Idle
<1>4. L!RoomUp \/ UNCHANGED <<liveRoom, sent, count>>
  BY Zenon DEF L!StartCall
<1>5. liveRoom' \in [up : Nat, last : Nat, in : SUBSET Guest, enters : Nat] /\ liveRoom'.in = liveRoom.in
  <2>1. CASE UNCHANGED liveRoom
    BY Zenon, <2>1 DEF LiveInv, LiveType
  <2>2. CASE L!RoomUp /\ n = 0
    <3>1. liveRoom' = [up |-> k + 1, last |-> k + 1, in |-> in, enters |-> e]
      BY Zenon, <1>1, <1>2, <2>2 DEF L!RoomUp
    <3>2. QED
      BY SMTT(20), <1>2, <3>1
  <2>3. QED
    BY Zenon, <1>2, <1>4, <2>1, <2>2 DEF L!RoomUp
<1>6. PICK s \in Nat : s = liveRoom'.up
  BY Zenon, <1>5
<1>7. PICK v \in Job : v.pc = "create" /\ v.user = Nobody /\ liveReq' = [liveReq EXCEPT ![r] = v]
  <2>1. CASE liveReq' = [liveReq EXCEPT ![r] = [L!Idle EXCEPT !.pc = "create"]]
    <3> DEFINE v == [L!Idle EXCEPT !.pc = "create"]
    <3>1. v \in Job /\ v.pc = "create" /\ v.user = Nobody
      BY Zenon DEF L!Idle, Job
    <3>2. liveReq' = [liveReq EXCEPT ![r] = v]
      BY Zenon, <2>1
    <3> HIDE DEF v
    <3>3. QED
      BY Zenon, <3>1, <3>2
  <2>2. CASE liveReq' = [liveReq EXCEPT ![r] = [L!Idle EXCEPT !.pc = "create", !.session = s]]
    <3> DEFINE v == [L!Idle EXCEPT !.pc = "create", !.session = s]
    <3>1. v \in Job /\ v.pc = "create" /\ v.user = Nobody
      BY Zenon DEF L!Idle, Job
    <3>2. liveReq' = [liveReq EXCEPT ![r] = v]
      BY Zenon, <2>2
    <3> HIDE DEF v
    <3>3. QED
      BY Zenon, <3>1, <3>2
  <2>3. QED
    BY Zenon, <1>6, <2>1, <2>2 DEF L!StartCall
<1>8. liveReq' = [liveReq EXCEPT ![r] = v]
  BY Zenon, <1>7
<1>9. JobOK(v, logs)
  BY Zenon, <1>7, LiveLogsAssumption DEF JobOK, Entering, Leaving, AtLog
<1>10. CASE UNCHANGED <<liveRoom, sent, count>>
  <2>1. FinishedCloses'
    BY Zenon, <1>3 DEF LiveInv, FinishedCloses, L!FinishedCloses, L!Open
  <2>2. QED
    BY Zenon, <1>3, <1>7, <1>8, <1>9, <1>10, <2>1, LiveLogsAssumption, LiveMoves
<1>11. CASE L!RoomUp /\ n = 0
  <2> DEFINE w == [kind |-> "started", user |-> Nobody, session |-> k + 1]
  <2>1. w \in Hook /\ HookOK(w) /\ w.kind = "started"
    BY LiveLogsAssumption DEF Hook, HookOK
  <2>2. L!Send(<<w>>)
    BY Zenon, <1>2, <1>11 DEF L!RoomUp, L!Webhook
  <2> HIDE DEF w
  <2>3. /\ liveReq' \in [Worker -> Job] /\ liveReq'[r] = v
        /\ \A q \in Worker \ {r} : liveReq'[q] = liveReq[q]
    BY Zenon, <1>7, <1>8 DEF LiveInv, LiveType
  <2>4. \A q \in Worker : JobOK(liveReq'[q], logs)
    BY Zenon, <1>9, <2>3 DEF LiveInv
  <2>5. \A q \in Worker, u \in Guest :
           /\ liveReq'[q].user = u <=> liveReq[q].user = u
           /\ liveReq[q].user = u => liveReq'[q] = liveReq[q]
    BY Zenon, <1>3, <1>7, <2>3, LiveLogsAssumption
  <2>6. QED
    BY Zenon, <1>3, <1>5, <2>1, <2>2, <2>3, <2>4, <2>5, LiveSends
<1>12. QED
  BY Zenon, <1>2, <1>4, <1>10, <1>11 DEF L!RoomUp

\* LiveKit logs: every step keeps the invariant.
LEMMA LiveNext == LiveInv /\ [L!Next]_(L!vars) => LiveInv'
<1> SUFFICES ASSUME LiveInv, [L!Next]_(L!vars) PROVE LiveInv'
  BY Zenon
<1>1. CASE UNCHANGED L!vars
  BY Zenon, <1>1 DEF L!vars, LiveInv, LiveType, StartedReuses, L!StartedReuses, FinishedCloses, L!FinishedCloses, L!Open
<1>2. ASSUME NEW u \in Guest, L!Enter(u) \/ L!Exit(u)
      PROVE  LiveInv'
  BY Zenon, <1>2, LiveEnterExit
<1>3. CASE L!OpenRoom \/ L!RoomDown
  BY Zenon, <1>3, LiveOpenRoom, LiveRoomDown
<1>4. ASSUME NEW r \in Worker, NEW i \in DOMAIN sent, L!Deliver(r, i)
      PROVE  LiveInv'
  BY Zenon, <1>4, LiveDeliver
<1>5. ASSUME NEW r \in Worker,
             L!StartCall(r) \/ L!CreateCallLog(r) \/ L!StartedInsert(r) \/ L!FinishedInsert(r)
      PROVE  LiveInv'
  BY Zenon, <1>5, LiveStartCall, LiveInsertSteps
<1>6. ASSUME NEW r \in Worker,
             L!Started(r) \/ L!Finished(r) \/ L!FindLog(r) \/ L!Joined(r) \/ L!JoinedInsert(r)
               \/ L!LeftRead(r) \/ L!LeftWrite(r)
      PROVE  LiveInv'
  BY Zenon, <1>6, LiveStarted, LiveFinished, LiveFindLog, LiveJoined, LiveJoinedInsert, LiveLeftRead, LiveLeftWrite
<1>7. QED
  BY Zenon, <1>1, <1>2, <1>3, <1>4, <1>5, <1>6 DEF L!Next

\* LiveKit logs: what every handler has chosen and where every user is shown, in
\* every reachable state.
THEOREM LiveInvTheorem == L!Spec => []LiveInv
BY LiveInit, LiveNext, PTL DEF L!Spec

\* handleRoomStarted inserts no log beside one that was open when it looked.
THEOREM ReusesTheorem == L!Spec => []StartedReuses
<1>1. LiveInv => StartedReuses
  BY Zenon DEF LiveInv
<1>2. QED
  BY <1>1, LiveInvTheorem, PTL

\* handleRoomFinished leaves no log of its session open.
THEOREM ClosesTheorem == L!Spec => []FinishedCloses
<1>1. LiveInv => FinishedCloses
  BY Zenon DEF LiveInv
<1>2. QED
  BY <1>1, LiveInvTheorem, PTL

\* handleParticipantLeft: nobody who left is shown in a log.
THEOREM LeftBehindTheorem == L!Spec => []NobodyLeftBehind
<1>1. LiveInv => NobodyLeftBehind
  <2> SUFFICES ASSUME LiveInv, NEW u \in Guest, u \notin liveRoom.in, u \notin excused,
                      \A i \in DOMAIN sent : sent[i].user = u => count[i] > 0,
                      \A r \in Worker : liveReq[r].user # u
               PROVE  \A i \in DOMAIN logs : u \notin logs[i].in
    BY Zenon DEF NobodyLeftBehind, L!NobodyLeftBehind
  <2>1. sent \in Seq(Hook) /\ logs \in Seq(Log) /\ DOMAIN sent = 1 .. Len(sent)
    BY SMTT(20) DEF LiveInv, LiveType
  <2>2. ~LastJoined(sent, count, u)
    <3> SUFFICES ASSUME NEW i \in 1 .. Len(sent), sent[i].kind = "joined", sent[i].user = u,
                        \A j \in 1 .. Len(sent) : i < j /\ sent[j].user = u => count[j] = 0
                 PROVE  FALSE
      BY Zenon DEF LastJoined
    <3>1. PICK k \in 1 .. Len(sent) : i < k /\ sent[k].user = u
      BY SMTT(20) DEF LiveInv, InTurn
    <3>2. QED
      BY SMTT(20), <2>1, <3>1
  <2>3. NotIn(u, logs)
    BY Zenon, <2>2 DEF LiveInv, GuestOK
  <2>4. QED
    BY SMTT(20), <2>1, <2>3 DEF NotIn
<1>2. QED
  BY <1>1, LiveInvTheorem, PTL
=============================================================================
