----------------------------- MODULE LivekitLogs -----------------------------
(***************************************************************************)
(* The call logs of one LiveKit room (a DM pair or a group keeps its room  *)
(* name for ever): livekit.webhook.ts and the handlers of calls.gateway.ts *)
(* that start a LiveKit call.                                              *)
(*                                                                         *)
(* LiveKit is external: a room comes up when it is created or when a client*)
(* connects to it, goes down when empty, and every change is reported by a *)
(* webhook.  Webhooks arrive in any order, may overlap, be repeated or     *)
(* never arrive.  A handler awaits between its statements.                 *)
(***************************************************************************)
EXTENDS Integers, Sequences, FiniteSets

CONSTANTS
    User,
    Request,      \* webhooks and calls being served at once
    MaxCalls,     \* bound: calls started
    MaxSessions,  \* bound: times the room comes up
    MaxEnters,    \* bound: times a user enters
    MaxRepeats,   \* bound: times a webhook is delivered again
    None

VARIABLES
    room,     \* LiveKit: the session that is up (0: none), sessions so far, users in
    sent,     \* webhooks LiveKit has to deliver, in order
    count,    \* deliveries of each
    logs,     \* call_logs and call_participants of the room, by startedAt
    req,      \* handlers in flight
    calls,    \* calls started
    ended,    \* history: sessions whose room_finished has updated the logs
    excused   \* history: users whose webhooks were not handled one by one, in order

vars == <<room, sent, count, logs, req, calls, ended, excused>>

Idle == [pc |-> "idle", user |-> None, session |-> 0, log |-> 0]

Init ==
    /\ room = [up |-> 0, last |-> 0, in |-> {}, enters |-> 0]
    /\ sent = <<>>
    /\ count = <<>>
    /\ logs = <<>>
    /\ req = [r \in Request |-> Idle]
    /\ calls = 0
    /\ ended = {}
    /\ excused = {}

-----------------------------------------------------------------------------
(* LiveKit                                                                 *)

Webhook(kind, u, s) == [kind |-> kind, user |-> u, session |-> s]

Send(ws) == sent' = sent \o ws /\ count' = count \o [i \in DOMAIN ws |-> 0]

\* CreateRoom of a room that is up does nothing.
RoomUp ==
    IF room.up # 0
    THEN UNCHANGED <<room, sent, count>>
    ELSE /\ room.last < MaxSessions
         /\ room' = [room EXCEPT !.up = room.last + 1, !.last = @ + 1]
         /\ Send(<<Webhook("started", None, room.last + 1)>>)

\* A client connects with a token (livekit.controller.ts signs one without a
\* createRoom): LiveKit opens the room before the client is in it.
OpenRoom ==
    /\ room.up = 0
    /\ RoomUp
    /\ UNCHANGED <<logs, req, calls, ended, excused>>

\* The client is in the room, or leaves it.
Enter(u) ==
    /\ room.up # 0 /\ u \notin room.in
    /\ room.enters < MaxEnters
    /\ room' = [room EXCEPT !.in = @ \cup {u}, !.enters = @ + 1]
    /\ Send(<<Webhook("joined", u, room.up)>>)
    /\ UNCHANGED <<logs, req, calls, ended, excused>>

Exit(u) ==
    /\ u \in room.in
    /\ room' = [room EXCEPT !.in = @ \ {u}]
    /\ Send(<<Webhook("left", u, room.up)>>)
    /\ UNCHANGED <<logs, req, calls, ended, excused>>

\* emptyTimeout
RoomDown ==
    /\ room.up # 0 /\ room.in = {}
    /\ room' = [room EXCEPT !.up = 0]
    /\ Send(<<Webhook("finished", None, room.up)>>)
    /\ UNCHANGED <<logs, req, calls, ended, excused>>

-----------------------------------------------------------------------------
(* The handlers                                                            *)

Open == {i \in DOMAIN logs : logs[i].open}

\* u's last webhook to arrive said joined, or one of u's is being handled.
Present(u) ==
    \/ \E r \in Request : req[r].user = u
    \/ \E i \in DOMAIN sent :
          /\ sent[i].kind = "joined" /\ sent[i].user = u /\ count[i] > 0
          /\ \A j \in i + 1 .. Len(sent) : sent[j].user = u => count[j] = 0

\* INSERT INTO call_logs for session s.  late: the session was over already.
\* beside: the logs open then that the handler could have seen.
InsertLog(by, open, s, seen) ==
    /\ logs' = Append(logs, [by |-> by, open |-> open, session |-> s, in |-> {}, out |-> {},
                             late |-> s \in ended \cup {0},
                             beside |-> Open \cap 1 .. seen])
    /\ excused' = excused \cup {u \in User : Present(u)}

\* initiateLiveKitGroupCall and call:livekit-fallback: createRoom, whose failure
\* is only logged, ...
StartCall(r) ==
    /\ req[r] = Idle
    /\ calls < MaxCalls
    /\ calls' = calls + 1
    /\ \/ /\ RoomUp
          /\ req' = [req EXCEPT ![r] = [Idle EXCEPT !.pc = "create", !.session = room'.up]]
       \/ /\ req' = [req EXCEPT ![r] = [Idle EXCEPT !.pc = "create"]]
          /\ UNCHANGED <<room, sent, count>>
    /\ UNCHANGED <<logs, ended, excused>>

\* ... then createCallLog.
CreateCallLog(r) ==
    /\ req[r].pc = "create"
    /\ InsertLog("call", TRUE, req[r].session, 0)
    /\ req' = [req EXCEPT ![r] = Idle]
    /\ UNCHANGED <<room, sent, count, calls, ended>>

\* handleWebhook: webhook i arrives at its handler.
Deliver(r, i) ==
    LET w == sent[i]
        astray == \/ count[i] > 0
                  \/ \E j \in 1 .. i - 1 : sent[j].user = w.user /\ count[j] = 0
                  \/ \E q \in Request : req[q].user = w.user
    IN  /\ req[r] = Idle
        /\ count[i] = 0 \/ \A j \in DOMAIN count : count[j] < 1 + MaxRepeats
        /\ count' = [count EXCEPT ![i] = @ + 1]
        /\ req' = [req EXCEPT ![r] = [pc |-> w.kind, user |-> w.user, session |-> w.session,
                                      log |-> 0]]
        /\ excused' = IF astray THEN excused \cup ({w.user} \cap User) ELSE excused
        /\ UNCHANGED <<room, sent, logs, calls, ended>>

\* Mutant: only the latest log is looked at.
StartedLatest(r) ==
    /\ req[r].pc = "started"
    /\ req' = [req EXCEPT ![r] = IF Len(logs) \in Open THEN Idle
                                 ELSE [@ EXCEPT !.pc = "start", !.log = Len(logs)]]
    /\ UNCHANGED <<room, sent, count, logs, calls, ended, excused>>

\* handleRoomStarted: an open log is reused ...
Started(r) ==
    /\ req[r].pc = "started"
    /\ req' = [req EXCEPT ![r] = IF Open # {} THEN Idle
                                 ELSE [@ EXCEPT !.pc = "start", !.log = Len(logs)]]
    /\ UNCHANGED <<room, sent, count, logs, calls, ended, excused>>

\* ... otherwise one is inserted.
StartedInsert(r) ==
    /\ req[r].pc = "start"
    /\ InsertLog("started", TRUE, req[r].session, req[r].log)
    /\ req' = [req EXCEPT ![r] = Idle]
    /\ UNCHANGED <<room, sent, count, calls, ended>>

\* Mutant: only the latest open log is closed.
FinishLatest(r) ==
    /\ req[r].pc = "finished"
    /\ ended' = ended \cup {req[r].session}
    /\ logs' = [i \in DOMAIN logs |-> [logs[i] EXCEPT !.open = @ /\ \E j \in Open : j > i]]
    /\ req' = [req EXCEPT ![r] = IF Open # {} THEN Idle ELSE [@ EXCEPT !.pc = "finish"]]
    /\ UNCHANGED <<room, sent, count, calls, excused>>

\* handleRoomFinished: every open log of the room is closed; if there is none, a
\* closed one is inserted.
Finished(r) ==
    /\ req[r].pc = "finished"
    /\ ended' = ended \cup {req[r].session}
    /\ logs' = [i \in DOMAIN logs |-> [logs[i] EXCEPT !.open = FALSE]]
    /\ req' = [req EXCEPT ![r] = IF Open # {} THEN Idle ELSE [@ EXCEPT !.pc = "finish"]]
    /\ UNCHANGED <<room, sent, count, calls, excused>>

FinishedInsert(r) ==
    /\ req[r].pc = "finish"
    /\ InsertLog("finished", FALSE, req[r].session, 0)
    /\ req' = [req EXCEPT ![r] = Idle]
    /\ UNCHANGED <<room, sent, count, calls, ended>>

\* Mutant: an ended call has no log.
LatestOpen == IF Len(logs) \in Open THEN Len(logs) ELSE 0

\* latestLogId: the latest log, open or not; 0 when the room has none.
LatestLogId == Len(logs)

\* handleParticipantJoined and handleParticipantLeft: no log, nothing to do.
FindLog(r) ==
    /\ req[r].pc \in {"joined", "left"}
    /\ req' = [req EXCEPT ![r] =
          IF LatestLogId = 0 THEN Idle
          ELSE [@ EXCEPT !.pc = IF req[r].pc = "joined" THEN "join" ELSE "leave", !.log = LatestLogId]]
    /\ UNCHANGED <<room, sent, count, logs, calls, ended, excused>>

\* A row that is there is reset: no leftAt ...
Joined(r) ==
    LET u == req[r].user
        l == logs[req[r].log]
    IN  /\ req[r].pc = "join"
        /\ IF u \in l.in \cup l.out
           THEN /\ logs' = [logs EXCEPT ![req[r].log] = [l EXCEPT !.in = l.in \cup {u}, !.out = l.out \ {u}]]
                /\ req' = [req EXCEPT ![r] = Idle]
           ELSE req' = [req EXCEPT ![r].pc = "insert"] /\ UNCHANGED logs
        /\ UNCHANGED <<room, sent, count, calls, ended, excused>>

\* ... otherwise it is inserted, unless another webhook just did.
JoinedInsert(r) ==
    /\ req[r].pc = "insert"
    /\ logs' = [logs EXCEPT ![req[r].log].in = @ \cup ({req[r].user} \ logs[req[r].log].out)]
    /\ req' = [req EXCEPT ![r] = Idle]
    /\ UNCHANGED <<room, sent, count, calls, ended, excused>>

\* The row, if it is there, gets leftAt and its duration.
LeftRead(r) ==
    /\ req[r].pc = "leave"
    /\ req' = [req EXCEPT ![r] = IF req[r].user \in logs[req[r].log].in \cup logs[req[r].log].out
                                 THEN [@ EXCEPT !.pc = "leftAt"] ELSE Idle]
    /\ UNCHANGED <<room, sent, count, logs, calls, ended, excused>>

LeftWrite(r) ==
    LET u == req[r].user
        l == logs[req[r].log]
    IN  /\ req[r].pc = "leftAt"
        /\ logs' = [logs EXCEPT ![req[r].log] = [l EXCEPT !.in = l.in \ {u}, !.out = l.out \cup {u}]]
        /\ req' = [req EXCEPT ![r] = Idle]
        /\ UNCHANGED <<room, sent, count, calls, ended, excused>>

-----------------------------------------------------------------------------
Next ==
    \/ \E u \in User : Enter(u) \/ Exit(u)
    \/ OpenRoom \/ RoomDown
    \/ \E r \in Request :
          \/ StartCall(r) \/ CreateCallLog(r)
          \/ \E i \in DOMAIN sent : Deliver(r, i)
          \/ Started(r) \/ StartedInsert(r) \/ Finished(r) \/ FinishedInsert(r)
          \/ FindLog(r) \/ Joined(r) \/ JoinedInsert(r) \/ LeftRead(r) \/ LeftWrite(r)

Spec == Init /\ [][Next]_vars

-----------------------------------------------------------------------------
TypeOK ==
    /\ Len(count) = Len(sent)
    /\ \A i \in DOMAIN logs : logs[i].in \cup logs[i].out \subseteq User
    /\ \A r \in Request : req[r].pc \in {"join", "insert", "leave", "leftAt"} => req[r].log \in DOMAIN logs

\* handleRoomStarted reuses an open log "to avoid a duplicate row per room
\* session": the logs open beside one it inserted all appeared after it looked.
StartedReuses ==
    \A i \in DOMAIN logs : logs[i].by = "started" => logs[i].beside = {}

\* handleRoomFinished leaves no log of its session open, however many calls and
\* webhooks made one; only a log inserted once the session was over stays open.
FinishedCloses ==
    \A i \in Open : logs[i].session \in ended => logs[i].late

\* handleParticipantLeft: a user who is out of the room, and whose webhooks have
\* all been handled, is shown as left in every log, although room_finished or
\* another user's webhooks may come first, unless the user's own webhooks went
\* astray or a log was inserted while they were in.
NobodyLeftBehind ==
    \A u \in User \ (room.in \cup excused) :
        /\ \A i \in DOMAIN sent : sent[i].user = u => count[i] > 0
        /\ ~\E r \in Request : req[r].user = u
        => \A i \in DOMAIN logs : u \notin logs[i].in
=============================================================================
