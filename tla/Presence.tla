------------------------------ MODULE Presence ------------------------------
(***************************************************************************)
(* The sockets of one user: connect, disconnect and heartbeat in           *)
(* socket.gateway.ts, with login and logout, over the registry and         *)
(* presence keys of redis-session.service.ts (zevra:sockets:{u},           *)
(* zevra:presence:{u}), and what the user's DM peers are told.             *)
(*                                                                         *)
(* Time goes in heartbeat periods of 30 s: a registry entry is dead in its *)
(* 4th period (95 s), the presence key lives 3 (90 s).  A handler takes    *)
(* less than a period, and a socket beats once at a time.  A Redis command *)
(* takes effect when it is issued (a node's commands share a connection    *)
(* that keeps their order) or fails, which every caller survives; ok tells *)
(* which.                                                                  *)
(***************************************************************************)
EXTENDS Integers, FiniteSets

CONSTANTS
    Socket,        \* connections, each made once
    Dead,          \* socketStaleMs, in periods
    PresenceTtl,   \* presenceSeconds, in periods
    MaxMissed,     \* bound: beats in a row that Redis loses
    MaxLogins      \* bound: logins

ASSUME PresenceAssumption ==
    /\ IsFiniteSet(Socket)
    /\ {Dead, PresenceTtl} \subseteq Nat \ {0}
    /\ {MaxMissed, MaxLogins} \subseteq Nat
    /\ MaxMissed + 1 < Dead     \* an entry outlives the beats that are lost

VARIABLES
    open,      \* client.connected
    pc,        \* handleConnection: idle, auth, join, online, check, peers, done
    bye,       \* handleDisconnect: idle, remove, offline, left
    first,     \* addSocket answered 1
    timer,     \* the heartbeat interval is set
    beat,      \* this period's: due, online or half (refreshSocket failed), done
    missed,    \* history: beats in a row with a failed command
    unseen,    \* history: sockets whose connect had one fail, until a whole beat
    reg,       \* zevra:sockets:{u}: periods until the entry is dead, 0 gone
    online,    \* zevra:presence:{u}: periods it still lives, 0 gone
    told,      \* what peers heard last, joined or left; unsure (history) once an
               \* announcement did not follow the registry
    hidden,    \* history: presence deleted after another socket registered
    logins     \* logins so far

link == <<open, pc, bye, first, timer, beat, missed, unseen>>

redis == <<reg, online>>

peers == <<told, hidden>>

vars == <<link, redis, peers, logins>>

Init ==
    /\ open = [s \in Socket |-> FALSE]
    /\ pc = [s \in Socket |-> "idle"]
    /\ bye = [s \in Socket |-> "idle"]
    /\ first = [s \in Socket |-> FALSE]
    /\ timer = [s \in Socket |-> FALSE]
    /\ beat = [s \in Socket |-> "done"]
    /\ missed = [s \in Socket |-> 0]
    /\ unseen = {}
    /\ reg = [s \in Socket |-> 0]
    /\ online = 0
    /\ told = "left"
    /\ hidden = FALSE
    /\ logins = 0

\* zCard after zRemRangeByScore.
Count(registry) == Cardinality({s \in Socket : registry[s] > 0})

\* The peers hear word, or may be wrong from now on.
Tell(word, right) ==
    told' = IF right /\ told # "unsure" THEN word ELSE "unsure"

Live == {s \in Socket : open[s] /\ timer[s]}

-----------------------------------------------------------------------------
\* handleConnection.

Connect(s) ==
    /\ pc[s] = "idle"
    /\ open' = [open EXCEPT ![s] = TRUE]
    /\ pc' = [pc EXCEPT ![s] = "auth"]
    /\ UNCHANGED <<bye, first, timer, beat, missed, unseen, redis, peers, logins>>

\* The rate limit, the token and the user; a refusal disconnects.
Authenticate(s, ok) ==
    /\ pc[s] = "auth"
    /\ pc' = [pc EXCEPT ![s] = IF ok THEN "join" ELSE "done"]
    /\ open' = [open EXCEPT ![s] = @ /\ ok]
    /\ UNCHANGED <<bye, first, timer, beat, missed, unseen, redis, peers, logins>>

\* The rooms are joined; a socket closed meanwhile (or by a failing database)
\* ends here.
Abandon(s) ==
    /\ pc[s] = "join"
    /\ ~open[s]
    /\ pc' = [pc EXCEPT ![s] = "done"]
    /\ UNCHANGED <<open, bye, first, timer, beat, missed, unseen, redis, peers, logins>>

\* addSocket.  A failed command answers null: not the first socket.
Register(s, ok) ==
    /\ pc[s] = "join"
    /\ open[s]
    /\ reg' = [reg EXCEPT ![s] = IF ok THEN Dead ELSE @]
    /\ first' = [first EXCEPT ![s] = ok /\ Count(reg') = 1]
    /\ unseen' = IF ok THEN unseen ELSE unseen \cup {s}
    /\ Tell(told, ok)
    /\ pc' = [pc EXCEPT ![s] = "online"]
    /\ UNCHANGED <<open, bye, timer, beat, missed, online, hidden, logins>>

\* setOnline.
ConnectOnline(s, ok) ==
    /\ pc[s] = "online"
    /\ online' = IF ok THEN PresenceTtl ELSE online
    /\ hidden' = (hidden /\ ~ok)
    /\ unseen' = IF ok THEN unseen ELSE unseen \cup {s}
    /\ pc' = [pc EXCEPT ![s] = "check"]
    /\ UNCHANGED <<open, bye, first, timer, beat, missed, reg, told, logins>>

\* Still connected: the heartbeat starts and pushPresence follows.
Settle(s) ==
    /\ pc[s] = "check"
    /\ open[s]
    /\ timer' = [timer EXCEPT ![s] = TRUE]
    /\ pc' = [pc EXCEPT ![s] = "peers"]
    /\ UNCHANGED <<open, bye, first, beat, missed, unseen, redis, peers, logins>>

\* Closed meanwhile: the entry is removed again, the presence key is left to its
\* TTL.
Withdraw(s, ok) ==
    /\ pc[s] = "check"
    /\ ~open[s]
    /\ reg' = [reg EXCEPT ![s] = IF ok THEN 0 ELSE @]
    /\ Tell(told, ok /\ ~first[s])
    /\ first' = [first EXCEPT ![s] = FALSE]
    /\ unseen' = unseen \ {s}
    /\ pc' = [pc EXCEPT ![s] = "done"]
    /\ UNCHANGED <<open, bye, timer, beat, missed, online, hidden, logins>>

\* pushPresence: user:joined for the first socket only; the query of the peers
\* may fail.
Announce(s, ok) ==
    /\ pc[s] = "peers"
    /\ IF first[s] THEN Tell("joined", ok /\ open[s]) ELSE UNCHANGED told
    /\ first' = [first EXCEPT ![s] = FALSE]
    /\ pc' = [pc EXCEPT ![s] = "done"]
    /\ UNCHANGED <<open, bye, timer, beat, missed, unseen, redis, hidden, logins>>

-----------------------------------------------------------------------------
\* handleDisconnect: also after rejectConnection, when a beat finds the token
\* expired.  Before the user is known there is nothing to remove.
Close(s) ==
    /\ open[s]
    /\ open' = [open EXCEPT ![s] = FALSE]
    /\ timer' = [timer EXCEPT ![s] = FALSE]
    /\ bye' = [bye EXCEPT ![s] = IF pc[s] = "auth" THEN "idle" ELSE "remove"]
    /\ beat' = [beat EXCEPT ![s] = IF @ = "due" THEN "done" ELSE @]
    /\ missed' = [missed EXCEPT ![s] = 0]
    /\ unseen' = unseen \ {s}
    /\ UNCHANGED <<pc, first, redis, peers, logins>>

\* Mutant: the sockets are counted before this one is taken out.
CountItself(s, ok) ==
    /\ bye[s] = "remove"
    /\ IF ok
       THEN /\ reg' = [reg EXCEPT ![s] = 0]
            /\ bye' = [bye EXCEPT ![s] = IF Count(reg) = 0 THEN "offline" ELSE "idle"]
            /\ UNCHANGED told
       ELSE /\ bye' = [bye EXCEPT ![s] = "idle"]
            /\ Tell(told, FALSE)
            /\ UNCHANGED reg
    /\ UNCHANGED <<open, pc, first, timer, beat, missed, unseen, online, hidden, logins>>

\* removeSocket.  A failed command answers null: not the last socket.
Unregister(s, ok) ==
    /\ bye[s] = "remove"
    /\ IF ok
       THEN /\ reg' = [reg EXCEPT ![s] = 0]
            /\ bye' = [bye EXCEPT ![s] = IF Count(reg') = 0 THEN "offline" ELSE "idle"]
            /\ UNCHANGED told
       ELSE /\ bye' = [bye EXCEPT ![s] = "idle"]
            /\ Tell(told, FALSE)
            /\ UNCHANGED reg
    /\ UNCHANGED <<open, pc, first, timer, beat, missed, unseen, online, hidden, logins>>

\* setOffline.
GoOffline(s, ok) ==
    /\ bye[s] = "offline"
    /\ online' = IF ok THEN 0 ELSE online
    /\ hidden' = (hidden \/ (ok /\ Count(reg) > 0))
    /\ bye' = [bye EXCEPT ![s] = "left"]
    /\ UNCHANGED <<open, pc, first, timer, beat, missed, unseen, reg, told, logins>>

\* user:left, unless the query of the peers fails.
TellLeft(s, ok) ==
    /\ bye[s] = "left"
    /\ Tell("left", ok /\ Count(reg) = 0)
    /\ bye' = [bye EXCEPT ![s] = "idle"]
    /\ UNCHANGED <<open, pc, first, timer, beat, missed, unseen, redis, hidden, logins>>

\* loginFinish sets the user online, socket or not; logout sets them offline and
\* leaves their sockets alone.  (Failing, either changes nothing.)
LoginOnline ==
    /\ logins < MaxLogins
    /\ logins' = logins + 1
    /\ online' = PresenceTtl
    /\ hidden' = FALSE
    /\ UNCHANGED <<link, reg, told>>

LogoutOffline ==
    /\ online' = 0
    /\ hidden' = (hidden \/ Count(reg) > 0)
    /\ UNCHANGED <<link, reg, told, logins>>

\* The node dies: no handler of the socket runs on, nobody is told.
Crash(s) ==
    /\ open[s] \/ bye[s] # "idle" \/ pc[s] \notin {"idle", "done"}
    /\ open' = [open EXCEPT ![s] = FALSE]
    /\ timer' = [timer EXCEPT ![s] = FALSE]
    /\ pc' = [pc EXCEPT ![s] = "done"]
    /\ bye' = [bye EXCEPT ![s] = "idle"]
    /\ beat' = [beat EXCEPT ![s] = "done"]
    /\ first' = [first EXCEPT ![s] = FALSE]
    /\ missed' = [missed EXCEPT ![s] = 0]
    /\ unseen' = unseen \ {s}
    /\ Tell(told, FALSE)
    /\ UNCHANGED <<redis, hidden, logins>>

-----------------------------------------------------------------------------
\* Mutant: a beat renews the key's TTL and not the entry.
RefreshKeyOnly(s, ok) ==
    /\ ok \/ missed[s] < MaxMissed
    /\ beat' = [beat EXCEPT ![s] = IF ok THEN "online" ELSE "half"]
    /\ UNCHANGED <<open, pc, bye, first, timer, missed, unseen, redis, peers, logins>>

\* refreshSocket adds the entry if need be, and counts nothing.
RefreshSocket(s, ok) ==
    /\ ok \/ missed[s] < MaxMissed
    /\ reg' = [reg EXCEPT ![s] = IF ok THEN Dead ELSE @]
    /\ Tell(told, ok => reg[s] > 0)
    /\ beat' = [beat EXCEPT ![s] = IF ok THEN "online" ELSE "half"]
    /\ UNCHANGED <<open, pc, bye, first, timer, missed, unseen, online, hidden, logins>>

\* The interval's beat: refreshSocket, then setOnline, which a disconnect between
\* the two does not stop.
Refresh(s, ok) ==
    /\ beat[s] = "due"
    /\ timer[s]
    /\ RefreshSocket(s, ok)

\* The client's own heartbeat, served as soon as its user is known.
Heartbeat(s, ok) ==
    /\ beat[s] = "done"
    /\ open[s]
    /\ pc[s] \notin {"idle", "auth"}
    /\ RefreshSocket(s, ok)

\* setOnline ends the beat; what failed is left to the next one.
BeatOnline(s, ok) ==
    /\ \/ beat[s] = "half"
       \/ beat[s] = "online" /\ (ok \/ missed[s] < MaxMissed)
    /\ online' = IF ok THEN PresenceTtl ELSE online
    /\ hidden' = (hidden /\ ~ok)
    /\ beat' = [beat EXCEPT ![s] = "done"]
    /\ IF ok /\ beat[s] = "online"
       THEN /\ missed' = [missed EXCEPT ![s] = 0]
            /\ unseen' = unseen \ {s}
       ELSE /\ missed' = [missed EXCEPT ![s] = IF open[s] THEN @ + 1 ELSE 0]
            /\ UNCHANGED unseen
    /\ UNCHANGED <<open, pc, bye, first, timer, reg, told, logins>>

Settled ==
    \A s \in Socket :
        /\ pc[s] \in {"idle", "done"}
        /\ bye[s] = "idle"
        /\ beat[s] \notin {"online", "half"}
        /\ timer[s] => beat[s] = "done"

\* Mutant: the presence key has no TTL.
TickForever ==
    /\ Settled
    /\ reg' = [s \in Socket |-> IF reg[s] = 0 THEN 0 ELSE reg[s] - 1]
    /\ beat' = [s \in Socket |-> IF timer[s] THEN "due" ELSE "done"]
    /\ UNCHANGED <<open, pc, bye, first, timer, missed, unseen, online, peers, logins>>

\* A heartbeat period goes by.
Tick ==
    /\ Settled
    /\ reg' = [s \in Socket |-> IF reg[s] = 0 THEN 0 ELSE reg[s] - 1]
    /\ online' = IF online = 0 THEN 0 ELSE online - 1
    /\ beat' = [s \in Socket |-> IF timer[s] THEN "due" ELSE "done"]
    /\ UNCHANGED <<open, pc, bye, first, timer, missed, unseen, peers, logins>>

-----------------------------------------------------------------------------
Handle(s) ==
    \/ Abandon(s) \/ Settle(s)
    \/ \E ok \in BOOLEAN :
          \/ Authenticate(s, ok) \/ Register(s, ok) \/ ConnectOnline(s, ok)
          \/ Withdraw(s, ok) \/ Announce(s, ok)

Leave(s) ==
    \E ok \in BOOLEAN : Unregister(s, ok) \/ GoOffline(s, ok) \/ TellLeft(s, ok)

Beat(s) ==
    \E ok \in BOOLEAN : Refresh(s, ok) \/ BeatOnline(s, ok)

Client(s) ==
    \/ Connect(s) \/ Close(s) \/ Crash(s)
    \/ \E ok \in BOOLEAN : Heartbeat(s, ok)

Next ==
    \/ Tick \/ LoginOnline \/ LogoutOffline
    \/ \E s \in Socket : Client(s) \/ Handle(s) \/ Leave(s) \/ Beat(s)

Spec == Init /\ [][Next]_vars

\* Handlers, timers and time go on; clients need not do anything.
Fairness ==
    /\ WF_vars(Tick)
    /\ \A s \in Socket : WF_vars(Handle(s)) /\ WF_vars(Leave(s)) /\ WF_vars(Beat(s))

-----------------------------------------------------------------------------
TypeOK ==
    /\ open \in [Socket -> BOOLEAN]
    /\ pc \in [Socket -> {"idle", "auth", "join", "online", "check", "peers", "done"}]
    /\ bye \in [Socket -> {"idle", "remove", "offline", "left"}]
    /\ first \in [Socket -> BOOLEAN]
    /\ timer \in [Socket -> BOOLEAN]
    /\ beat \in [Socket -> {"due", "online", "half", "done"}]
    /\ missed \in [Socket -> 0 .. MaxMissed]
    /\ unseen \subseteq Socket
    /\ reg \in [Socket -> 0 .. Dead]
    /\ online \in 0 .. PresenceTtl
    /\ told \in {"joined", "left", "unsure"}
    /\ hidden \in BOOLEAN
    /\ logins \in 0 .. MaxLogins

\* A socket that beats is never taken for dead, even when Redis fails two beats
\* in a row, and its user is shown online when it fails one: the 95 s and 90 s of
\* RedisTtl against the 30 s heartbeat.  The exceptions last until the next whole
\* beat: a connect that Redis failed, and a setOffline after the registration (of
\* a logout, or of another socket's disconnect).
BeatingIsAlive ==
    /\ \A s \in Live \ unseen : reg[s] > 0
    /\ (\E s \in Live \ unseen : missed[s] <= PresenceTtl - 2) /\ ~hidden => online > 0

\* user:joined goes out with the first socket and user:left with the last: at rest
\* the peers know whether the user has a live socket.  What can leave them wrong
\* is a crash, a failed addSocket, removeSocket or query of the peers, a heartbeat
\* that registers the socket before addSocket counts it, a user:left sent after
\* another socket registered, a first socket that closed before its user:joined
\* went out or just before it did.
PeersKnow ==
    Settled /\ told # "unsure" => (told = "joined" <=> Live # {})

\* Whatever overtakes what, the presence key ends up right: without a live socket
\* it goes (by setOffline or its TTL), with one it comes back (by the next beat).
PresenceFollows ==
    /\ Live = {} ~> (online = 0 \/ Live # {})
    /\ Live # {} ~> (online > 0 \/ Live = {})
=============================================================================
