------------------------------ MODULE Delivery ------------------------------
(***************************************************************************)
(* Getting a stored message to the other members of its channel:           *)
(* dispatchNewMessage, the message-delivery job, the offline queue         *)
(* zevra:pending:{userId} and get-pending.                                 *)
(*                                                                         *)
(* The store is the append-only log Messages implements (MessageLog); a    *)
(* message is its position.  Every User is a member; whether one of a      *)
(* user's sockets is in the channel room is all that matters of sockets.   *)
(* Unread counters are in module ReadMarks.                                *)
(***************************************************************************)
EXTENDS Integers, Sequences, FiniteSets

CONSTANTS
    User,
    Call,       \* get-pending calls that may be in flight at once
    MaxMsg,     \* bound: sends in a behaviour
    Batch,      \* PENDING_BATCH_SIZE
    Faults      \* which things go wrong, a subset of FaultKind

\* fetch:   fetchSockets rejects, so nobody counts as connected
\* enqueue: queue.add rejects, before or after BullMQ has stored the job
\* stall:   BullMQ hands a job to a second worker
\* redis:   a MULTI of the offline queue rejects and the error is swallowed
\* crash:   the server dies in the middle of a handler
FaultKind == {"fetch", "enqueue", "stall", "redis", "crash"}

ASSUME DeliveryAssumption ==
    /\ MaxMsg \in Nat /\ Batch \in Nat \ {0}
    /\ Faults \subseteq FaultKind

VARIABLES
    online,     \* users with a live socket in the channel room
    log,        \* stored messages: sender, and created_at
    clock,      \* transactions begun so far, the source of created_at
    send,       \* a user's send in flight
    jobs,       \* delivery jobs not yet acknowledged
    seen,       \* messages a user's sockets were sent as message:new
    pending,    \* zevra:pending:{userId}
    pop,        \* get-pending calls in flight
    queued,     \* history: everything ever put into pending
    taken,      \* history: everything a get-pending removed and returned
    lost        \* history: which message never reached whom, and why

vars == <<online, log, clock, send, jobs, seen, pending, pop, queued, taken, lost>>

NoSend == [pc |-> "idle", at |-> 0, msg |-> 0, offline |-> {}]

NoPop == [pc |-> "idle"]

Init ==
    /\ online = {}
    /\ log = <<>>
    /\ clock = 0
    /\ send = [u \in User |-> NoSend]
    /\ jobs = {}
    /\ seen = [u \in User |-> {}]
    /\ pending = [u \in User |-> {}]
    /\ pop = [c \in Call |-> NoPop]
    /\ queued = [u \in User |-> {}]
    /\ taken = [u \in User |-> {}]
    /\ lost = {}

Recipients(u) == User \ {u}

\* why: "gone", the last socket dropped between fetchSockets and the broadcast;
\* "unqueued", addPendingMessage failed or the server died before it ran;
\* "unread", it left the offline queue and no client got it: the TTL of the key,
\* or ZREM ran and the answer of get-pending did not arrive.
Lost(M, U, why) == {[msg |-> m, user |-> u, why |-> why] : m \in M, u \in U}
-----------------------------------------------------------------------------
(* Sockets                                                                 *)

Connect(u) ==
    /\ u \notin online
    /\ online' = online \cup {u}
    /\ UNCHANGED <<log, clock, send, jobs, seen, pending, pop, queued, taken, lost>>

\* The get-pending calls of these sockets run on with nobody to answer.
Disconnect(u) ==
    /\ u \in online
    /\ online' = online \ {u}
    /\ pop' = [c \in Call |-> IF pop[c].pc = "rem" /\ pop[c].user = u
                              THEN [pop[c] EXCEPT !.pc = "cut"] ELSE pop[c]]
    /\ UNCHANGED <<log, clock, send, jobs, seen, pending, queued, taken, lost>>
-----------------------------------------------------------------------------
(* send                                                                    *)

\* BEGIN: created_at defaults to now(), the start of the transaction, ...
SendBegin(u) ==
    /\ send[u].pc = "idle"
    /\ clock < MaxMsg
    /\ clock' = clock + 1
    /\ send' = [send EXCEPT ![u] = [NoSend EXCEPT !.pc = "store", !.at = clock']]
    /\ UNCHANGED <<online, log, jobs, seen, pending, pop, queued, taken, lost>>

\* ... and the sequence number comes with the channel lock, at the commit.
SendStore(u) ==
    /\ send[u].pc = "store"
    /\ log' = Append(log, [from |-> u, at |-> send[u].at])
    /\ send' = [send EXCEPT ![u].pc = "look", ![u].msg = Len(log')]
    /\ UNCHANGED <<online, clock, jobs, seen, pending, pop, queued, taken, lost>>

\* getMembers and getConnectedUserIds
SendLook(u) ==
    /\ send[u].pc = "look"
    /\ \E connected \in {online} \cup IF "fetch" \in Faults THEN {{}} ELSE {} :
          send' = [send EXCEPT ![u].pc = "emit",
                               ![u].offline = Recipients(u) \ connected]
    /\ UNCHANGED <<online, log, clock, jobs, seen, pending, pop, queued, taken, lost>>

\* emitToChannel reaches the sockets that are in the room now.
SendEmit(u) ==
    LET m == send[u].msg
    IN  /\ send[u].pc = "emit"
        /\ seen' = [v \in User |-> IF v \in online \ {u} THEN seen[v] \cup {m} ELSE seen[v]]
        /\ lost' = lost \cup Lost({m}, Recipients(u) \ (online \cup send[u].offline), "gone")
        /\ send' = IF Recipients(u) = {} THEN [send EXCEPT ![u] = NoSend]
                                         ELSE [send EXCEPT ![u].pc = "enqueue"]
        /\ UNCHANGED <<online, log, clock, jobs, pending, pop, queued, taken>>

\* Mutant: the filter for offlineUserIds is inverted.
InvertedJob(u, via) ==
    [msg |-> send[u].msg, offline |-> Recipients(u) \ send[u].offline, via |-> via]

Job(u, via) == [msg |-> send[u].msg, offline |-> send[u].offline, via |-> via]

\* Mutant: no inline delivery when the queue rejects.
BestEffortSendEnqueue(u) ==
    /\ send[u].pc = "enqueue"
    /\ \/ jobs' = jobs \cup {Job(u, "queue")}
       \/ "enqueue" \in Faults /\ UNCHANGED jobs
    /\ send' = [send EXCEPT ![u] = NoSend]
    /\ UNCHANGED <<online, log, clock, seen, pending, pop, queued, taken, lost>>

\* queue.add, or runMessageDelivery inline when it rejects.
SendEnqueue(u) ==
    /\ send[u].pc = "enqueue"
    /\ \/ jobs' = jobs \cup {Job(u, "queue")}
       \/ "enqueue" \in Faults /\ jobs' = jobs \cup {Job(u, "inline")}
       \/ "enqueue" \in Faults /\ jobs' = jobs \cup {Job(u, "queue"), Job(u, "inline")}
    /\ send' = [send EXCEPT ![u] = NoSend]
    /\ UNCHANGED <<online, log, clock, seen, pending, pop, queued, taken, lost>>

\* Before the commit nothing has happened; after it the message is stored and
\* whoever it has not reached yet only finds it in the history.
SendCrash(u) ==
    LET waiting == CASE send[u].pc \in {"look", "emit"} -> Recipients(u)
                     [] send[u].pc = "enqueue" -> send[u].offline
                     [] OTHER -> {}
    IN  /\ "crash" \in Faults
        /\ send[u].pc # "idle"
        /\ lost' = lost \cup Lost({send[u].msg}, waiting, "unqueued")
        /\ send' = [send EXCEPT ![u] = NoSend]
        /\ UNCHANGED <<online, log, clock, jobs, seen, pending, pop, queued, taken>>
-----------------------------------------------------------------------------
(* message-delivery worker                                                 *)

\* addPendingMessage: one MULTI of ZADDs, each with the EXPIRE of its key (see
\* PendingExpire).  A member already there stays once.
AddPending(j) ==
    LET add(f) == [u \in User |-> IF u \in j.offline THEN f[u] \cup {j.msg} ELSE f[u]]
    IN  pending' = add(pending) /\ queued' = add(queued)

\* The job ends whether or not Redis took the entries; a stalled job is run
\* by one worker and stays for another; an inline one dies with its server.
RunJob(j) ==
    /\ j \in jobs
    /\ \/ AddPending(j) /\ jobs' = jobs \ {j} /\ UNCHANGED lost
       \/ /\ "redis" \in Faults \/ ("crash" \in Faults /\ j.via = "inline")
          /\ jobs' = jobs \ {j}
          /\ lost' = lost \cup Lost({j.msg}, j.offline, "unqueued")
          /\ UNCHANGED <<pending, queued>>
       \/ "stall" \in Faults /\ j.via = "queue" /\ AddPending(j) /\ UNCHANGED <<jobs, lost>>
    /\ UNCHANGED <<online, log, clock, send, seen, pop, taken>>

\* The TTL of zevra:pending:{u}, counted from the last entry queued.
PendingExpire(u) ==
    /\ pending[u] # {}
    /\ lost' = lost \cup Lost(pending[u], {u}, "unread")
    /\ pending' = [pending EXCEPT ![u] = {}]
    /\ UNCHANGED <<online, log, clock, send, jobs, seen, pop, queued, taken>>
-----------------------------------------------------------------------------
(* get-pending                                                             *)

\* ZRANGE 0 k-1 of the sorted set: its k entries with the smallest scores.
\* The score of a message is its created_at.
ZRange(S, k) == {m \in S : Cardinality({l \in S : log[l].at < log[m].at}) < k}

\* ZRANGE; an empty answer ends the call.
PopRead(c, u) ==
    /\ pop[c].pc = "idle"
    /\ u \in online
    /\ pending[u] # {}
    /\ pop' = [pop EXCEPT ![c] =
                 [pc |-> "rem", user |-> u, batch |-> ZRange(pending[u], Batch)]]
    /\ UNCHANGED <<online, log, clock, send, jobs, seen, pending, queued, taken, lost>>

\* Mutant: ZREMRANGEBYRANK for ZREM.
RankPopRemove(c) ==
    LET u == pop[c].user
    IN  /\ pop[c].pc = "rem"
        /\ pending' = [pending EXCEPT ![u] = @ \ ZRange(@, Cardinality(pop[c].batch))]
        /\ taken' = [taken EXCEPT ![u] = @ \cup pop[c].batch]
        /\ pop' = [pop EXCEPT ![c] = NoPop]
        /\ UNCHANGED <<online, log, clock, send, jobs, seen, queued, lost>>

\* ZREM of exactly these members, ZCARD, and the answer to the asking socket.
\* The answer does not arrive when that socket is gone (another of the user's
\* may still be there), when exec rejects after Redis ran ZREM (the catch
\* answers an empty list) or when the server dies.  When exec rejects and Redis
\* ran nothing, the entries stay.
PopRemove(c) ==
    LET u == pop[c].user b == pop[c].batch
    IN  /\ pop[c].pc \in {"rem", "cut"}
        /\ \/ /\ pop[c].pc = "rem"
              /\ pending' = [pending EXCEPT ![u] = @ \ b]
              /\ taken' = [taken EXCEPT ![u] = @ \cup b]
              /\ UNCHANGED lost
           \/ /\ pending' = [pending EXCEPT ![u] = @ \ b]
              /\ lost' = lost \cup Lost(pending[u] \cap b, {u}, "unread")
              /\ UNCHANGED taken
           \/ "redis" \in Faults /\ UNCHANGED <<pending, taken, lost>>
        /\ pop' = [pop EXCEPT ![c] = NoPop]
        /\ UNCHANGED <<online, log, clock, send, jobs, seen, queued>>
-----------------------------------------------------------------------------
Sending(u) == SendStore(u) \/ SendLook(u) \/ SendEmit(u) \/ SendEnqueue(u)

Next ==
    \/ \E u \in User : Connect(u) \/ Disconnect(u)
    \/ \E u \in User : SendBegin(u) \/ Sending(u) \/ SendCrash(u)
    \/ \E j \in jobs : RunJob(j)
    \/ \E u \in User : PendingExpire(u)
    \/ \E c \in Call : PopRemove(c) \/ \E u \in User : PopRead(c, u)

Spec == Init /\ [][Next]_vars

\* Started handlers run on, and BullMQ's workers take every job.
Fairness ==
    /\ \A u \in User : WF_vars(Sending(u))
    /\ WF_vars(\E j \in jobs : RunJob(j))

FairSpec == Spec /\ Fairness
-----------------------------------------------------------------------------
Position == 1 .. Len(log)

TypeOK ==
    /\ online \subseteq User
    /\ log \in Seq([from : User, at : 1 .. MaxMsg])
    /\ clock \in 0 .. MaxMsg
    /\ send \in [User -> [pc : {"idle", "store", "look", "emit", "enqueue"},
                          at : 0 .. MaxMsg, msg : 0 .. MaxMsg, offline : SUBSET User]]
    /\ jobs \subseteq [msg : Position, offline : SUBSET User, via : {"queue", "inline"}]
    /\ {seen, pending, queued, taken} \subseteq [User -> SUBSET Position]
    /\ pop \in [Call -> {NoPop} \cup [pc : {"rem", "cut"}, user : User, batch : SUBSET Position]]
    /\ lost \subseteq [msg : Position, user : User,
                       why : {"gone", "unqueued", "unread"}]

IsLost(m, v) == \E x \in lost : x.msg = m /\ x.user = v

\* Every recipient of a message that is no longer being dispatched has been
\* sent it, finds it in the offline queue or got it from there, unless the socket
\* dropped under the broadcast, addPendingMessage failed or the server died before
\* it, the queue's TTL fired, or ZREM ran and the answer did not arrive ("lost").
\* So a failed fetchSockets, a queue that rejects, a stalled worker and
\* overlapping get-pending calls lose nothing.
NothingElseIsLost ==
    \A m \in Position : \A v \in Recipients(log[m].from) :
        \/ m \in seen[v] \cup pending[v] \cup taken[v]
        \/ IsLost(m, v)
        \/ send[log[m].from].msg = m
        \/ \E j \in jobs : j.msg = m /\ v \in j.offline

\* redis-session.service.ts:161 "removes exactly those entries (by member), so
\* anything queued concurrently is kept": what was queued is still queued, was
\* in an answer that arrived, or went with the key's TTL or with an answer that
\* did not arrive.
QueuedIsKept ==
    \A u \in User : \A m \in queued[u] :
        \/ m \in pending[u] \cup taken[u]
        \/ \E x \in lost : x.msg = m /\ x.user = u /\ x.why = "unread"

\* Without crashes, every member other than the sender is eventually sent a
\* stored message or has it queued, unless the socket dropped under the
\* broadcast.
DeliveryEnds ==
    \A m \in 1 .. MaxMsg, v \in User :
        (m \in Position /\ v # log[m].from) ~> (m \in seen[v] \cup queued[v] \/ IsLost(m, v))

\* message-delivery.job.ts:10 "Recipients with no live socket in the channel
\* room at broadcast time": a recipient the broadcast cannot reach is in the
\* job's offlineUserIds.
OfflineAtBroadcastIsQueued == \A x \in lost : x.why # "gone"
=============================================================================
