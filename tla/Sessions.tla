------------------------------ MODULE Sessions ------------------------------
(***************************************************************************)
(* One account's logins: register, SRP login (auth.service.ts,             *)
(* srp-state.service.ts), refresh tokens and logout; and the change of     *)
(* name of users.service.ts, which a login may overlap.                    *)
(*                                                                         *)
(* A Request is one call being served (a login: the client with its two    *)
(* calls).  Each `await' that changes or reads shared state ends a step.   *)
(* A session is what one login starts: a chain of refresh tokens, each     *)
(* redeemed for the next.  The audit log is left out; what login and logout*)
(* do to the presence key is in Presence.  No code clears isActive.        *)
(***************************************************************************)
EXTENDS Srp, FiniteSets

CONSTANTS
    Name,         \* usernames
    Request,      \* calls served at once
    Password,     \* x, what a password and the salt hash to
    ClientSecrets,\* values of a
    ServerSecrets,\* values of b
    MaxLogins,    \* bound: login/start calls
    MaxRefreshes, \* bound: refresh calls
    MaxLogouts,   \* bound: logouts
    None

ASSUME SessionsAssumption ==
    /\ Password \cup ClientSecrets \cup ServerSecrets \subseteq Nat
    /\ {MaxLogins, MaxRefreshes, MaxLogouts} \subseteq Nat
    /\ None \notin Name \cup Request

VARIABLES
    account,    \* users row: its name and password
    handshake,  \* zevra:srp:{username}
    tokens,     \* refresh_tokens
    status,     \* users.status
    req,        \* calls in flight
    starts,     \* login/start calls answered so far
    refreshes,  \* refresh calls so far
    logouts,    \* logouts so far
    sessions,   \* sessions so far
    ended,      \* history: sessions begun before the last logout
    racing      \* history: of those, the ones with a call in flight then

vars == <<account, handshake, tokens, status, req, starts, refreshes, logouts,
          sessions, ended, racing>>

counts == <<starts, refreshes, logouts>>

past == <<sessions, ended, racing>>

NoAccount == [name |-> None, x |-> 0]

\* real: userId is not null; id: which login/start this is of (0: not stored yet).
NoHandshake == [b |-> 0, B |-> 0, real |-> FALSE, id |-> 0]

\* seen: the id and B the client got; state: what login/finish consumed.
Idle == [op |-> "idle", pc |-> "idle", name |-> None, x |-> 0, a |-> 0, seen |-> NoHandshake,
         state |-> NoHandshake, session |-> 0]

Init ==
    /\ account = NoAccount
    /\ handshake = [n \in Name |-> NoHandshake]
    /\ tokens = {}
    /\ status = "OFFLINE"
    /\ req = [r \in Request |-> Idle]
    /\ starts = 0
    /\ refreshes = 0
    /\ logouts = 0
    /\ sessions = 0
    /\ ended = {}
    /\ racing = {}

Exists == account # NoAccount

Step(r, pc) == req' = [req EXCEPT ![r].pc = pc]

Done(r) == req' = [req EXCEPT ![r] = Idle]

-----------------------------------------------------------------------------
\* register: no such user yet, then (after the key derivations) the insert.
RegisterCheck(r, n, x) ==
    /\ req[r] = Idle
    /\ ~Exists
    /\ req' = [req EXCEPT ![r] = [Idle EXCEPT !.op = "register", !.pc = "insert",
                                              !.name = n, !.x = x]]
    /\ UNCHANGED <<account, handshake, tokens, status, counts, past>>

\* Mutant: the insert replaces a row of that name.
RegisterUpsert(r) ==
    /\ req[r].pc = "insert"
    /\ account' = [name |-> req[r].name, x |-> req[r].x]
    /\ Done(r)
    /\ UNCHANGED <<handshake, tokens, status, counts, past>>

\* The unique email makes a second insert fail: 409.
RegisterInsert(r) ==
    /\ req[r].pc = "insert"
    /\ account' = IF Exists THEN account ELSE [name |-> req[r].name, x |-> req[r].x]
    /\ Done(r)
    /\ UNCHANGED <<handshake, tokens, status, counts, past>>

\* users.service.ts: the account takes another name.
Rename(n) ==
    /\ Exists
    /\ n # account.name
    /\ account' = [account EXCEPT !.name = n]
    /\ UNCHANGED <<handshake, tokens, status, req, counts, past>>

-----------------------------------------------------------------------------
\* loginStart: the verifier of the account of that name, or a decoy, whose x
\* depends on the name alone ...
DecoyX == 1

LoginStart(r, n, x, a, b) ==
    LET real == Exists /\ account.name = n
        v == ComputeVerifier(IF real THEN account.x ELSE DecoyX)
    IN  /\ req[r] = Idle
        /\ starts + Cardinality({q \in Request : req[q].pc = "state"}) < MaxLogins
        /\ req' = [req EXCEPT ![r] = [Idle EXCEPT !.op = "login", !.pc = "state", !.name = n,
                                                  !.x = x, !.a = a,
                        !.seen = [b |-> b, B |-> ServerEphemeral(v, b), real |-> real, id |-> 0]]]
        /\ UNCHANGED <<account, handshake, tokens, status, counts, past>>

\* ... then srpState.set, which replaces an earlier handshake of the name, and
\* the answer.
LoginState(r) ==
    LET h == [req[r].seen EXCEPT !.id = starts + 1]
    IN  /\ req[r].pc = "state"
        /\ starts' = starts + 1
        /\ handshake' = [handshake EXCEPT ![req[r].name] = h]
        /\ req' = [req EXCEPT ![r].pc = "consume", ![r].seen = h]
        /\ UNCHANGED <<account, tokens, status, refreshes, logouts, past>>

HandshakeExpire(n) ==
    /\ handshake[n] # NoHandshake
    /\ handshake' = [handshake EXCEPT ![n] = NoHandshake]
    /\ UNCHANGED <<account, tokens, status, req, counts, past>>

\* Mutant: GET where the code has GETDEL.
ConsumeKeeps(r) ==
    LET h == handshake[req[r].name]
    IN  /\ req[r].pc = "consume"
        /\ IF h = NoHandshake
           THEN Done(r)
           ELSE req' = [req EXCEPT ![r].pc = "verify", ![r].state = h]
        /\ UNCHANGED <<account, handshake, tokens, status, counts, past>>

\* loginFinish: GETDEL; without a handshake, or with A = 0 mod N, refused.
Consume(r) ==
    LET h == handshake[req[r].name]
    IN  /\ req[r].pc = "consume"
        /\ handshake' = [handshake EXCEPT ![req[r].name] = NoHandshake]
        /\ IF h = NoHandshake \/ ~Acceptable(ClientEphemeral(req[r].a))
           THEN Done(r)
           ELSE req' = [req EXCEPT ![r].pc = "verify", ![r].state = h]
        /\ UNCHANGED <<account, tokens, status, counts, past>>

\* The client's proof against the server's.
ProofHolds(q) ==
    LET A == ClientEphemeral(q.a)
        S == ServerSecret(A, q.state.B, ComputeVerifier(account.x), q.state.b)
        C == ClientSecret(A, q.seen.B, q.a, q.x)
    IN  Proof(q.seen.real, A, q.seen.B, C) = Proof(TRUE, A, q.state.B, S)

Verify(r) ==
    /\ req[r].pc = "verify"
    /\ IF req[r].state.real /\ account.name = req[r].name /\ ProofHolds(req[r])
       THEN /\ sessions' = sessions + 1
            /\ req' = [req EXCEPT ![r].pc = "issue", ![r].session = sessions + 1]
       ELSE Done(r) /\ UNCHANGED sessions
    /\ UNCHANGED <<account, handshake, tokens, status, counts, ended, racing>>

\* issueTokens: expired tokens are pruned, a new one is stored.
Issue(r) ==
    /\ req[r].pc = "issue"
    /\ tokens' = {t \in tokens : ~t.old}
                   \cup {[session |-> req[r].session, gen |-> refreshes, old |-> FALSE]}
    /\ IF req[r].op = "login" THEN Step(r, "online") ELSE Done(r)
    /\ UNCHANGED <<account, handshake, status, counts, past>>

LoginOnline(r) ==
    /\ req[r].pc = "online"
    /\ status' = "ONLINE"
    /\ Done(r)
    /\ UNCHANGED <<account, handshake, tokens, counts, past>>

-----------------------------------------------------------------------------
\* A client presents a token it was given; it may do so twice (a retry).
RefreshBegin(r, t) ==
    /\ req[r] = Idle
    /\ refreshes < MaxRefreshes
    /\ refreshes' = refreshes + 1
    /\ req' = [req EXCEPT ![r] = [Idle EXCEPT !.op = "refresh", !.pc = "redeem",
                                              !.session = t.session, !.a = t.gen]]
    /\ UNCHANGED <<account, handshake, tokens, status, starts, logouts, past>>

Presented(r) == {t \in tokens : t.session = req[r].session /\ t.gen = req[r].a}

\* Mutant: looked up first, deleted with the insert of the next.
RedeemLooksUp(r) ==
    /\ req[r].pc = "redeem"
    /\ IF \E t \in Presented(r) : ~t.old THEN Step(r, "issue") ELSE Done(r)
    /\ UNCHANGED <<account, handshake, tokens, status, counts, past>>

\* refreshTokens: DELETE ... RETURNING; missing or expired is refused.
Redeem(r) ==
    /\ req[r].pc = "redeem"
    /\ tokens' = tokens \ Presented(r)
    /\ IF \E t \in Presented(r) : ~t.old THEN Step(r, "issue") ELSE Done(r)
    /\ UNCHANGED <<account, handshake, status, counts, past>>

TokenExpire(t) ==
    /\ t \in tokens /\ ~t.old
    /\ tokens' = (tokens \ {t}) \cup {[t EXCEPT !.old = TRUE]}
    /\ UNCHANGED <<account, handshake, status, req, counts, past>>

\* logout (with any valid access token): OFFLINE, then every token goes.
LogoutStatus(r) ==
    /\ req[r] = Idle
    /\ sessions > 0
    /\ logouts < MaxLogouts
    /\ logouts' = logouts + 1
    /\ status' = "OFFLINE"
    /\ req' = [req EXCEPT ![r] = [Idle EXCEPT !.op = "logout", !.pc = "delete"]]
    /\ UNCHANGED <<account, handshake, tokens, starts, refreshes, past>>

Holding == {req[q].session : q \in {p \in Request : req[p].pc = "issue"}}

\* Mutant: one device is logged out.
LogoutOne(r) ==
    /\ req[r].pc = "delete"
    /\ \E t \in tokens : tokens' = tokens \ {t}
    /\ ended' = 1 .. sessions
    /\ racing' = racing \cup Holding
    /\ Done(r)
    /\ UNCHANGED <<account, handshake, status, counts, sessions>>

LogoutDelete(r) ==
    /\ req[r].pc = "delete"
    /\ tokens' = {}
    /\ ended' = 1 .. sessions
    /\ racing' = racing \cup Holding
    /\ Done(r)
    /\ UNCHANGED <<account, handshake, status, counts, sessions>>

-----------------------------------------------------------------------------
Login(r) == LoginState(r) \/ Consume(r) \/ Verify(r) \/ Issue(r) \/ LoginOnline(r)

Next ==
    \/ \E r \in Request, n \in Name, x \in Password : RegisterCheck(r, n, x)
    \/ \E r \in Request : RegisterInsert(r)
    \/ \E n \in Name : Rename(n) \/ HandshakeExpire(n)
    \/ \E r \in Request, n \in Name, x \in Password, a \in ClientSecrets, b \in ServerSecrets :
          LoginStart(r, n, x, a, b)
    \/ \E r \in Request : Login(r)
    \/ \E r \in Request, t \in tokens : RefreshBegin(r, t)
    \/ \E t \in tokens : TokenExpire(t)
    \/ \E r \in Request : Redeem(r) \/ LogoutStatus(r) \/ LogoutDelete(r)

Spec == Init /\ [][Next]_vars

-----------------------------------------------------------------------------
TypeOK ==
    /\ account \in [name : Name \cup {None}, x : Nat]
    /\ \A n \in Name : handshake[n].B \in 0 .. N - 1
    /\ tokens \subseteq [session : 1 .. sessions, gen : 0 .. MaxRefreshes, old : BOOLEAN]
    /\ status \in {"ONLINE", "OFFLINE"}
    /\ ended \cup racing \subseteq 1 .. sessions

\* register: of two registrations that both saw the name free one wins, and the
\* account keeps the winner's password.
AccountIsKept ==
    [][Exists => account'.x = account.x /\ Exists']_vars

\* loginFinish: the right password is accepted, whatever the secrets a and b, when
\* the handshake consumed is the one this client was answered with.
RightPasswordAccepted ==
    \A r \in Request :
        req[r].pc = "verify" /\ req[r].state = req[r].seen /\ req[r].seen.real
            /\ req[r].x = account.x => ProofHolds(req[r])

\* srp-state.service.ts: a handshake is consumed exactly once, so two logins of
\* one name that overlap never verify against the same b.
HandshakeUsedOnce ==
    \A r, q \in Request :
        r # q /\ req[r].pc = "verify" /\ req[q].pc = "verify"
            => req[r].state.id # req[q].state.id

\* refreshTokens: a token is redeemed at most once, so a session never has more
\* than one token, counting the one a refresh in flight is about to store.
OneTokenPerSession ==
    \A s \in 1 .. sessions :
        Cardinality({t \in tokens : t.session = s})
            + Cardinality({r \in Request : req[r].pc = "issue" /\ req[r].session = s}) <= 1

\* logout: a session goes on after a logout only if at the moment its tokens were
\* deleted a login or a refresh of it was between redeeming and storing.
LogoutEndsSessions ==
    \A t \in tokens : t.session \in ended => t.session \in racing
=============================================================================
