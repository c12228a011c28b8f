-------------------------------- MODULE Calls --------------------------------
(***************************************************************************)
(* 1:1 WebRTC calls: calls.gateway.ts and calls.service.ts over two kinds  *)
(* of Redis keys (zevra:call:room:{callId}, zevra:call:user:{userId}) and  *)
(* the call log in Postgres.                                               *)
(*                                                                         *)
(* A Request is one socket event being served.  Each `await' ends a step;  *)
(* a Redis MULTI is one step.  call:invite and call:initiate of type DM    *)
(* take the same steps.  A call and its log share an identifier: the log   *)
(* is written first and its id goes into the room.                         *)
(***************************************************************************)
EXTENDS Integers, FiniteSets

CONSTANTS
    User,
    CallId,
    Request,    \* socket events being served at once
    MaxInvites, \* bound: invites being served at once
    Faults,     \* TRUE: a Redis command may fail
    None

ASSUME CallsAssumption ==
    /\ None \notin User \cup CallId
    /\ MaxInvites \in Nat
    /\ Faults \in BOOLEAN

VARIABLES
    room,       \* zevra:call:room:{callId}
    key,        \* zevra:call:user:{userId}
    log,        \* call_logs (and call_participants once ended)
    req,        \* requests in flight
    accepted,   \* history: calls the callee got connected
    strayed     \* history: calls in Redis that lost a key to another call

vars == <<room, key, log, req, accepted, strayed>>

Absent == [from |-> None, to |-> None, status |-> "absent"]

NoLog == [caller |-> None, callee |-> None, status |-> "none", ended |-> FALSE]

\* who: whose key is looked up; arg: the callId the client sent; got: the call
\* being worked on; data: the room as cleanupCall read it.
Idle == [op |-> "idle", pc |-> "idle", user |-> None, peer |-> None, who |-> None,
         arg |-> None, got |-> None, data |-> Absent]

Init ==
    /\ room = [k \in CallId |-> Absent]
    /\ key = [u \in User |-> None]
    /\ log = [k \in CallId |-> NoLog]
    /\ req = [r \in Request |-> Idle]
    /\ accepted = {}
    /\ strayed = {}

Set(r, v) == req' = [req EXCEPT ![r] = v]

\* toActiveCall: a hash without initiatorId is no call.
IsCall(d) == d.from # None

Parties(d) == {d.from, d.to} \ {None}

\* Call k sets or deletes the keys of us: another call loses what they held.
Take(k, us) ==
    strayed' = {c \in strayed \cup ({key[u] : u \in us} \ {k, None}) : IsCall(room'[c])}

\* Mutant: the callee is always the other one.
CalleeOther(d, u) == d.to

\* getOtherUserId: whom call:offer, call:answer, call:ice-candidate, and the
\* news of a rejection or hangup, go to
Other(d, u) == IF d.from = u THEN d.to ELSE d.from
-----------------------------------------------------------------------------
(* getActiveCall: GET the user's key, then HGETALL the room it names; any   *)
(* failure reads as "no call".                                             *)

\* From here on only the call matters.
Go(q, pc) == [Idle EXCEPT !.op = q.op, !.pc = pc, !.got = q.got]

\* What a request q does once it knows the room d of the call q.got.  A relay
\* emits to Other(d, q.user) and is done.
Decide(q, d) ==
    LET own == IsCall(d) /\ q.got = q.arg
    IN  CASE q.op = "invite" /\ ~IsCall(d) ->
                 [q EXCEPT !.got = None, !.pc = IF q.who = q.user THEN "target" ELSE "online"]
          [] q.op = "accept" /\ own /\ d.to = q.user -> Go(q, "connect")
          [] q.op = "reject" /\ own -> Go(q, "reject")
          [] q.op = "hangup" /\ own -> Go(q, IF d.status = "connected" THEN "end" ELSE "read")
          [] OTHER -> Idle

\* GET zevra:call:user:{q.who}
Lookup(r, q) ==
    \/ /\ Faults \/ key[q.who] = None
       /\ Set(r, Decide([q EXCEPT !.got = None], Absent))
    \/ /\ key[q.who] # None
       /\ Set(r, [q EXCEPT !.got = key[q.who], !.pc = "room"])

\* call:invite and call:initiate, the checks on the caller
Invite(r, u, v) ==
    /\ req[r] = Idle
    /\ u # v
    /\ Cardinality({s \in Request : req[s].op = "invite"}) < MaxInvites
    /\ Lookup(r, [Idle EXCEPT !.op = "invite", !.user = u, !.peer = v, !.who = u])
    /\ UNCHANGED <<room, key, log, accepted, strayed>>

\* ... and on the callee
InviteTarget(r) ==
    /\ req[r].pc = "target"
    /\ Lookup(r, [req[r] EXCEPT !.who = req[r].peer])
    /\ UNCHANGED <<room, key, log, accepted, strayed>>

\* call:accept, call:reject, call:hangup and the three relays, for a call the
\* client was told of
Ask(r, op, u, k) ==
    /\ req[r] = Idle
    /\ u \in {log[k].caller, log[k].callee}
    /\ Lookup(r, [Idle EXCEPT !.op = op, !.user = u, !.who = u, !.arg = k])
    /\ UNCHANGED <<room, key, log, accepted, strayed>>

ReadRoom(r) ==
    /\ req[r].pc = "room"
    /\ \/ Set(r, Decide(req[r], room[req[r].got]))
       \/ Faults /\ Set(r, Decide(req[r], Absent))
    /\ UNCHANGED <<room, key, log, accepted, strayed>>
-----------------------------------------------------------------------------
(* Inviting                                                                *)

\* isOnline(target): an offline target ends the request.
InviteOnline(r) ==
    /\ req[r].pc = "online"
    /\ Set(r, Idle) \/ Set(r, [req[r] EXCEPT !.pc = "log"])
    /\ UNCHANGED <<room, key, log, accepted, strayed>>

\* createCallLog
CreateLog(r, k) ==
    /\ req[r].pc = "log"
    /\ log[k] = NoLog
    /\ log' = [log EXCEPT ![k] = [caller |-> req[r].user, callee |-> req[r].peer,
                                  status |-> "missed", ended |-> FALSE]]
    /\ Set(r, [req[r] EXCEPT !.pc = "create", !.got = k])
    /\ UNCHANGED <<room, key, accepted, strayed>>

\* Mutant: the users' keys hold the other user, not the call.
PeerCreateCall(r) ==
    LET q == req[r]
    IN  /\ q.pc = "create"
        /\ room' = [room EXCEPT ![q.got] =
                      [from |-> q.user, to |-> q.peer, status |-> "ringing"]]
        /\ key' = [key EXCEPT ![q.user] = q.peer, ![q.peer] = q.user]
        /\ Set(r, Idle)
        /\ UNCHANGED <<log, accepted, strayed>>

\* Mutant: only the caller gets a key.
CallerCreateCall(r) ==
    LET q == req[r]
    IN  /\ q.pc = "create"
        /\ room' = [room EXCEPT ![q.got] =
                      [from |-> q.user, to |-> q.peer, status |-> "ringing"]]
        /\ key' = [key EXCEPT ![q.user] = q.got]
        /\ Take(q.got, {q.user})
        /\ Set(r, Idle)
        /\ UNCHANGED <<log, accepted>>

\* createCall: the room and both users' keys in one MULTI
CreateCall(r) ==
    LET q == req[r]
    IN  /\ q.pc = "create"
        /\ \/ /\ room' = [room EXCEPT ![q.got] =
                            [from |-> q.user, to |-> q.peer, status |-> "ringing"]]
              /\ key' = [key EXCEPT ![q.user] = q.got, ![q.peer] = q.got]
              /\ Take(q.got, {q.user, q.peer})
           \/ Faults /\ UNCHANGED <<room, key, strayed>>
        /\ Set(r, Idle)
        /\ UNCHANGED <<log, accepted>>
-----------------------------------------------------------------------------
(* Accepting, rejecting, signalling, hanging up, disconnecting             *)

\* acceptCall: HSET makes the hash when there is none.
Connect(r) ==
    LET k == req[r].got
    IN  /\ req[r].pc = "connect"
        /\ \/ /\ room' = [room EXCEPT ![k].status = "connected"]
              /\ accepted' = accepted \cup {k}
           \/ Faults /\ UNCHANGED <<room, accepted>>
        /\ Set(r, [req[r] EXCEPT !.pc = "completed"])
        /\ UNCHANGED <<key, log, strayed>>

\* updateCallLogAccepted
LogAccepted(r) ==
    /\ req[r].pc = "completed"
    /\ log' = [log EXCEPT ![req[r].got].status = "completed"]
    /\ Set(r, Idle)
    /\ UNCHANGED <<room, key, accepted, strayed>>

\* updateCallLogRejected
LogRejected(r) ==
    /\ req[r].pc = "reject"
    /\ log' = [log EXCEPT ![req[r].got].status = "rejected"]
    /\ Set(r, [req[r] EXCEPT !.pc = "read"])
    /\ UNCHANGED <<room, key, accepted, strayed>>

\* finishConnectedCall: endedAt, 'completed', and the participants, which
\* nobody else writes.  hangup cleans up afterwards, a disconnect did before.
EndLog(r) ==
    /\ req[r].pc = "end"
    /\ log' = [log EXCEPT ![req[r].got].status = "completed", ![req[r].got].ended = TRUE]
    /\ Set(r, IF req[r].op = "hangup" THEN [req[r] EXCEPT !.pc = "read"] ELSE Idle)
    /\ UNCHANGED <<room, key, accepted, strayed>>

\* cleanupUserCall of a user whose last socket is gone: GET
Disconnect(r, u) ==
    /\ req[r] = Idle
    /\ key[u] # None
    /\ Set(r, [Idle EXCEPT !.op = "disconnect", !.pc = "read", !.got = key[u]])
    /\ UNCHANGED <<room, key, log, accepted, strayed>>

\* cleanupCall: HGETALL ...
CleanupRead(r) ==
    /\ req[r].pc = "read"
    /\ \/ Set(r, [req[r] EXCEPT !.pc = "delete", !.data = room[req[r].got]])
       \/ Faults /\ Set(r, Idle)
    /\ UNCHANGED <<room, key, log, accepted, strayed>>

\* Mutant: a disconnect closes the log of a ringing call too.
RashCleanupDelete(r) ==
    LET q == req[r]
    IN  /\ q.pc = "delete"
        /\ room' = [room EXCEPT ![q.got] = Absent]
        /\ key' = [u \in User |-> IF u \in Parties(q.data) THEN None ELSE key[u]]
        /\ Set(r, IF q.op = "disconnect" /\ IsCall(q.data) THEN [q EXCEPT !.pc = "end"] ELSE Idle)
        /\ UNCHANGED <<log, accepted, strayed>>

\* ... and one MULTI that deletes the room and the keys of both parties it
\* named.  A disconnect then closes the log of a connected call.
CleanupDelete(r) ==
    LET q == req[r]
        closes == q.op = "disconnect" /\ IsCall(q.data) /\ q.data.status = "connected"
    IN  /\ q.pc = "delete"
        /\ \/ /\ room' = [room EXCEPT ![q.got] = Absent]
              /\ key' = [u \in User |-> IF u \in Parties(q.data) THEN None ELSE key[u]]
              /\ Take(q.got, Parties(q.data))
              /\ Set(r, IF closes THEN [q EXCEPT !.pc = "end"] ELSE Idle)
           \/ Faults /\ Set(r, Idle) /\ UNCHANGED <<room, key, strayed>>
        /\ UNCHANGED <<log, accepted>>
-----------------------------------------------------------------------------
(* Both writers of a room give it a TTL, and the keys of the same MULTI one *)
(* that ends no earlier.                                                   *)

ExpireRoom(k) ==
    /\ room[k] # Absent
    /\ room' = [room EXCEPT ![k] = Absent]
    /\ strayed' = strayed \ {k}
    /\ UNCHANGED <<key, log, req, accepted>>

ExpireKey(u) ==
    /\ key[u] # None
    /\ room[key[u]] = Absent
    /\ key' = [key EXCEPT ![u] = None]
    /\ UNCHANGED <<room, log, req, accepted, strayed>>

Inviting(r) ==
    \/ InviteTarget(r) \/ InviteOnline(r) \/ CreateCall(r)
    \/ \E k \in CallId : CreateLog(r, k)

Serving(r) ==
    \/ ReadRoom(r) \/ Connect(r) \/ LogAccepted(r) \/ LogRejected(r)
    \/ EndLog(r) \/ CleanupRead(r) \/ CleanupDelete(r)

Start(r) ==
    \/ \E u, v \in User : Invite(r, u, v)
    \/ \E op \in {"accept", "reject", "hangup", "relay"}, u \in User, k \in CallId :
          Ask(r, op, u, k)
    \/ \E u \in User : Disconnect(r, u)

Next ==
    \/ \E r \in Request : Start(r) \/ Inviting(r) \/ Serving(r)
    \/ \E k \in CallId : ExpireRoom(k)
    \/ \E u \in User : ExpireKey(u)

Spec == Init /\ [][Next]_vars
-----------------------------------------------------------------------------
Room == [from : User \cup {None}, to : User \cup {None},
         status : {"absent", "ringing", "connected"}]

TypeOK ==
    /\ room \in [CallId -> Room]
    /\ key \in [User -> CallId \cup {None}]
    /\ log \in [CallId -> [caller : User \cup {None}, callee : User \cup {None},
                           status : {"none", "missed", "completed", "rejected"},
                           ended : BOOLEAN]]
    /\ req \in [Request -> [op : {"idle", "invite", "accept", "reject", "hangup",
                                  "relay", "disconnect"},
                            pc : {"idle", "room", "target", "online", "log", "create",
                                  "connect", "completed", "reject", "end", "read",
                                  "delete"},
                            user : User \cup {None}, peer : User \cup {None},
                            who : User \cup {None}, arg : CallId \cup {None},
                            got : CallId \cup {None}, data : Room]]
    /\ accepted \subseteq CallId /\ strayed \subseteq CallId

\* Signalling goes from one party of a call to the other, as the log has them,
\* however calls start, end and replace each other between the two reads of
\* getActiveCall.
SignalsStayInCall ==
    \A r \in Request :
        LET q == req[r]
            d == room[q.got]
            k == log[q.got]
        IN  q.op = "relay" /\ IsCall(d) =>
               <<q.user, Other(d, q.user)>> \in {<<k.caller, k.callee>>, <<k.callee, k.caller>>}

\* A call log is closed (endedAt, duration, participants) only for a call the
\* callee accepted, whichever of hangup, disconnect and accept overtakes which.
EndedWasAccepted == \A k \in CallId : log[k].ended => k \in accepted

\* API.md:392 "`zevra:call:user:{userId}` ... same as the call": while the room
\* of a call exists, the keys of both parties lead to it, except of a call that
\* lost them to another: to an invite that passed the busy checks at the same
\* time, or to a cleanup that came late.
KeyLivesWithCall ==
    \A k \in CallId \ strayed : \A u \in Parties(room[k]) : key[u] = k
=============================================================================
