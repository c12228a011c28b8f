--------------------------- MODULE SessionsProofs ---------------------------
(***************************************************************************)
(* Proofs about Sessions, for any names, any number of calls at once and   *)
(* any secrets: a registered account keeps its password, a handshake is    *)
(* consumed once, a session has one token, and a logout ends the sessions  *)
(* that held none in flight.                                               *)
(***************************************************************************)
EXTENDS Sessions, FiniteSetTheorems, TLAPS

\* What loginStart may publish.
Ephemerals ==
    {0} \cup {ServerEphemeral(ComputeVerifier(x), b) : x \in Password \cup {0, DecoyX}, b \in ServerSecrets}

Handshakes == [b : ServerSecrets \cup {0}, B : Ephemerals, real : BOOLEAN, id : Nat]

Calls == [op : {"idle", "register", "login", "refresh", "logout"},
          pc : {"idle", "insert", "state", "consume", "verify", "issue", "online", "redeem", "delete"},
          name : Name \cup {None}, x : Password \cup {0}, a : Nat,
          seen : Handshakes, state : Handshakes, session : Nat]

Tokens == [session : Nat, gen : Nat, old : BOOLEAN]

SessionsType ==
    /\ account \in [name : Name \cup {None}, x : Password \cup {0}]
    /\ handshake \in [Name -> Handshakes]
    /\ tokens \subseteq Tokens
    /\ req \in [Request -> Calls]
    /\ starts \in Nat /\ refreshes \in Nat /\ sessions \in Nat
    /\ ended \subseteq 1 .. sessions

\* A handshake is in Redis or with one login, never twice.
HandshakesOK ==
    /\ \A n \in Name : handshake[n].id <= starts /\ (handshake[n] # NoHandshake => handshake[n].id > 0)
    /\ \A n, m \in Name : n # m /\ handshake[n].id > 0 => handshake[n].id # handshake[m].id
    /\ \A r \in Request : req[r].pc = "verify" =>
          /\ req[r].state.id > 0 /\ req[r].state.id <= starts
          /\ \A n \in Name : handshake[n].id # req[r].state.id
    /\ \A r \in Request : req[r].pc \in {"state", "consume"} => req[r].name \in Name
    /\ HandshakeUsedOnce

\* A session's right to go on is a token or a call about to store one.
TokensOK ==
    /\ \A t \in tokens : t.session \in 1 .. sessions
    /\ \A t, u \in tokens : t.session = u.session => t = u
    /\ \A r \in Request : req[r].pc = "issue" =>
          /\ req[r].session \in 1 .. sessions
          /\ \A t \in tokens : t.session # req[r].session
          /\ req[r].session \in ended => req[r].session \in racing
    /\ \A r, q \in Request :
          req[r].pc = "issue" /\ req[q].pc = "issue" /\ req[r].session = req[q].session => r = q
    /\ LogoutEndsSessions

SessionsInv == SessionsType /\ HandshakesOK /\ TokensOK
-----------------------------------------------------------------------------
\* The records that stand for nothing are records.
LEMMA Blanks ==
    /\ NoHandshake \in Handshakes /\ NoHandshake.id = 0
    /\ Idle \in Calls /\ Idle.pc = "idle"
    /\ NoAccount \in [name : Name \cup {None}, x : Password \cup {0}]
<1>1. NoHandshake \in Handshakes /\ NoHandshake.id = 0
  BY DEF NoHandshake, Handshakes, Ephemerals
<1>2. Idle \in Calls /\ Idle.pc = "idle"
  BY <1>1 DEF Idle, Calls
<1>3. QED
  BY <1>1, <1>2 DEF NoAccount

\* Nobody has registered at first.
LEMMA SessionsInit == Init => SessionsInv
<1> SUFFICES ASSUME Init PROVE SessionsInv
  OBVIOUS
<1>1. SessionsType
  BY Blanks DEF Init, SessionsType
<1>2. HandshakesOK
  BY Blanks DEF Init, HandshakesOK, HandshakeUsedOnce
<1>3. TokensOK
  BY Blanks DEF Init, TokensOK, LogoutEndsSessions
<1>4. QED
  BY <1>1, <1>2, <1>3 DEF SessionsInv

\* A step that hands out no handshake, no session and no token.
LEMMA Idles ==
    ASSUME SessionsInv, req' \in [Request -> Calls],
           \A r \in Request : \/ req'[r] = req[r]
                              \/ req'[r].pc \notin {"state", "consume", "verify", "issue"}
                              \/ req'[r].pc = "state" /\ req'[r].name \in Name,
           account' \in [name : Name \cup {None}, x : Password \cup {0}],
           handshake' \in [Name -> Handshakes],
           \A n \in Name : handshake'[n] \in {handshake[n], NoHandshake},
           tokens' \subseteq tokens, refreshes' \in Nat, UNCHANGED <<starts, sessions, ended, racing>>
    PROVE  SessionsInv'
<1>1. SessionsType'
  BY DEF SessionsInv, SessionsType
<1>2. HandshakesOK'
  <2>1. HandshakesOK
    BY DEF SessionsInv
  <2>2. ASSUME NEW n \in Name
        PROVE  /\ handshake[n].id \in Nat /\ handshake'[n].id \in {handshake[n].id, 0}
               /\ handshake'[n] # NoHandshake => handshake'[n] = handshake[n]
    BY Blanks DEF SessionsInv, SessionsType, Handshakes
  <2>3. ASSUME NEW n \in Name
        PROVE  handshake'[n].id <= starts' /\ (handshake'[n] # NoHandshake => handshake'[n].id > 0)
    BY <2>1, <2>2 DEF HandshakesOK, SessionsInv, SessionsType
  <2>4. ASSUME NEW n \in Name, NEW m \in Name, n # m, handshake'[n].id > 0
        PROVE  handshake'[n].id # handshake'[m].id
    BY <2>1, <2>2, <2>4 DEF HandshakesOK
  <2>5. ASSUME NEW r \in Request, req'[r].pc = "verify"
        PROVE  /\ req'[r].state.id > 0 /\ req'[r].state.id <= starts'
               /\ \A n \in Name : handshake'[n].id # req'[r].state.id
    <3>1. req'[r] = req[r] /\ req[r].state.id \in Nat
      BY <2>5 DEF SessionsInv, SessionsType, Calls, Handshakes
    <3>2. QED
      BY <2>1, <2>2, <2>5, <3>1 DEF HandshakesOK
  <2>6. HandshakeUsedOnce' /\ \A r \in Request : req'[r].pc \in {"state", "consume"} => req'[r].name \in Name
    BY <2>1 DEF HandshakesOK, HandshakeUsedOnce
  <2>7. QED
    BY <2>3, <2>4, <2>5, <2>6 DEF HandshakesOK
<1>3. TokensOK'
  BY DEF SessionsInv, TokensOK, LogoutEndsSessions
<1>4. QED
  BY <1>1, <1>2, <1>3 DEF SessionsInv

\* One call moves.
LEMMA CallMoves ==
    ASSUME SessionsInv, NEW r \in Request, NEW v \in Calls, req' = [req EXCEPT ![r] = v]
    PROVE  req' \in [Request -> Calls] /\ req'[r] = v /\ \A q \in Request \ {r} : req'[q] = req[q]
BY DEF SessionsInv, SessionsType

\* register finds no such user.
LEMMA SessionsRegisterCheck ==
    ASSUME SessionsInv, NEW r \in Request, NEW n \in Name, NEW x \in Password, RegisterCheck(r, n, x)
    PROVE  SessionsInv'
<1> DEFINE v == [Idle EXCEPT !.op = "register", !.pc = "insert", !.name = n, !.x = x]
<1>1. v \in Calls /\ v.pc = "insert"
  BY Blanks DEF Calls
<1>2. req' = [req EXCEPT ![r] = v] /\ UNCHANGED <<account, handshake, tokens, starts, refreshes, sessions, ended, racing>>
  BY DEF RegisterCheck, counts, past
<1> HIDE DEF v
<1>3. QED
  BY <1>1, <1>2, CallMoves, Idles DEF SessionsInv, SessionsType

\* register inserts the row, or finds one.
LEMMA SessionsRegisterInsert ==
    ASSUME SessionsInv, NEW r \in Request, RegisterInsert(r)
    PROVE  SessionsInv'
<1>1. account' \in [name : Name \cup {None}, x : Password \cup {0}]
  BY DEF RegisterInsert, SessionsInv, SessionsType, Calls
<1>2. req' = [req EXCEPT ![r] = Idle] /\ UNCHANGED <<handshake, tokens, starts, refreshes, sessions, ended, racing>>
  BY DEF RegisterInsert, Done, counts, past
<1>3. QED
  BY <1>1, <1>2, Blanks, CallMoves, Idles DEF SessionsInv, SessionsType

\* The account changes its name; a handshake expires.
LEMMA SessionsNames ==
    ASSUME SessionsInv, NEW n \in Name, Rename(n) \/ HandshakeExpire(n)
    PROVE  SessionsInv'
<1>1. UNCHANGED <<tokens, req, starts, refreshes, sessions, ended, racing>>
  BY DEF Rename, HandshakeExpire, counts, past
<1>2. account' \in [name : Name \cup {None}, x : Password \cup {0}]
  BY DEF Rename, HandshakeExpire, SessionsInv, SessionsType
<1>3. handshake' \in [Name -> Handshakes] /\ \A m \in Name : handshake'[m] \in {handshake[m], NoHandshake}
  BY Blanks DEF Rename, HandshakeExpire, SessionsInv, SessionsType
<1>4. QED
  BY <1>1, <1>2, <1>3, Idles DEF SessionsInv, SessionsType

\* loginFinish tells the user is online; logout sets them offline.
LEMMA SessionsStatus ==
    ASSUME SessionsInv, NEW r \in Request, LoginOnline(r) \/ LogoutStatus(r)
    PROVE  SessionsInv'
<1>1. UNCHANGED <<account, handshake, tokens, starts, refreshes, sessions, ended, racing>>
  BY DEF LoginOnline, LogoutStatus, counts, past
<1> DEFINE v == [Idle EXCEPT !.op = "logout", !.pc = "delete"]
<1>2. v \in Calls /\ v.pc = "delete"
  BY Blanks DEF Calls
<1>3. req' = [req EXCEPT ![r] = v] \/ req' = [req EXCEPT ![r] = Idle]
  BY DEF LoginOnline, LogoutStatus, Done
<1> HIDE DEF v
<1>4. /\ req' \in [Request -> Calls]
      /\ \A q \in Request : req'[q] = req[q] \/ req'[q].pc \notin {"state", "consume", "verify", "issue"}
  BY <1>2, <1>3, Blanks, CallMoves
<1>5. QED
  BY <1>1, <1>4, Idles DEF SessionsInv, SessionsType

\* A token is presented.
LEMMA SessionsRefreshBegin ==
    ASSUME SessionsInv, NEW r \in Request, NEW t \in tokens, RefreshBegin(r, t)
    PROVE  SessionsInv'
<1> DEFINE v == [Idle EXCEPT !.op = "refresh", !.pc = "redeem", !.session = t.session, !.a = t.gen]
<1>1. t.session \in Nat /\ t.gen \in Nat
  BY DEF SessionsInv, SessionsType, Tokens
<1>2. v \in Calls /\ v.pc = "redeem"
  BY <1>1, Blanks DEF Calls
<1>3. req' = [req EXCEPT ![r] = v] /\ UNCHANGED <<account, handshake, tokens, starts, sessions, ended, racing>>
      /\ refreshes' \in Nat
  BY DEF RefreshBegin, counts, past, SessionsInv, SessionsType
<1> HIDE DEF v
<1>4. QED
  BY <1>2, <1>3, CallMoves, Idles DEF SessionsInv, SessionsType

\* loginStart reads the account and makes the handshake.
LEMMA SessionsLoginStart ==
    ASSUME SessionsInv, NEW r \in Request, NEW n \in Name, NEW x \in Password, NEW a \in ClientSecrets,
           NEW b \in ServerSecrets, LoginStart(r, n, x, a, b)
    PROVE  SessionsInv'
<1>1. PICK real \in BOOLEAN : real = (Exists /\ account.name = n)
  BY Zenon
<1>2. PICK y \in Password \cup {0, DecoyX} : y = IF real THEN account.x ELSE DecoyX
  BY DEF SessionsInv, SessionsType
<1>3. PICK B \in Ephemerals : B = ServerEphemeral(ComputeVerifier(y), b)
  <2>1. ServerEphemeral(ComputeVerifier(y), b) \in Ephemerals
    BY DEF Ephemerals
  <2>2. QED
    BY <2>1, Zenon
<1> DEFINE h == [b |-> b, B |-> B, real |-> real, id |-> 0]
<1>4. h \in Handshakes
  BY DEF Handshakes
<1>5. req' = [req EXCEPT ![r] = [Idle EXCEPT !.op = "login", !.pc = "state", !.name = n,
                                             !.x = x, !.a = a, !.seen = h]]
  BY <1>1, <1>2, <1>3 DEF LoginStart
<1> HIDE DEF h
<1> DEFINE v == [Idle EXCEPT !.op = "login", !.pc = "state", !.name = n, !.x = x, !.a = a, !.seen = h]
<1>6. v \in Calls /\ v.pc = "state" /\ v.name = n
  BY <1>4, Blanks, SessionsAssumption DEF Calls
<1>7. req' = [req EXCEPT ![r] = v]
  BY <1>5
<1> HIDE DEF v
<1>8. UNCHANGED <<account, handshake, tokens, starts, refreshes, sessions, ended, racing>>
  BY DEF LoginStart, counts, past
<1>9. QED
  BY <1>6, <1>7, <1>8, CallMoves, Idles DEF SessionsInv, SessionsType

\* srpState.set: the handshake is new, and replaces one of that name.
LEMMA SessionsLoginState ==
    ASSUME SessionsInv, NEW r \in Request, LoginState(r)
    PROVE  SessionsInv'
<1>1. PICK q0 \in Calls : q0 = req[r]
  BY DEF SessionsInv, SessionsType
<1>2. PICK n \in Name : n = q0.name
  BY <1>1 DEF LoginState, SessionsInv, HandshakesOK
<1>3. PICK g \in Handshakes : g = q0.seen
  BY <1>1 DEF Calls
<1>4. PICK s \in Nat : s = starts /\ starts' = s + 1
  BY DEF LoginState, SessionsInv, SessionsType
<1> DEFINE h == [g EXCEPT !.id = s + 1]
<1>5. h \in Handshakes /\ h.id = s + 1
  BY DEF Handshakes
<1>6. /\ handshake' = [handshake EXCEPT ![n] = h]
      /\ req' = [req EXCEPT ![r] = [q0 EXCEPT !.pc = "consume", !.seen = h]]
  BY <1>1, <1>2, <1>3, <1>4 DEF LoginState
<1> HIDE DEF h
<1> DEFINE v == [q0 EXCEPT !.pc = "consume", !.seen = h]
<1>7. v \in Calls /\ v.pc = "consume" /\ v.name = n
  BY <1>2, <1>5 DEF Calls
<1>8. req' = [req EXCEPT ![r] = v]
  BY <1>6
<1> HIDE DEF v
<1>9. req' \in [Request -> Calls] /\ req'[r] = v /\ \A q \in Request \ {r} : req'[q] = req[q]
  BY <1>7, <1>8, CallMoves
<1>10. /\ handshake' \in [Name -> Handshakes] /\ handshake'[n] = h
       /\ \A m \in Name \ {n} : handshake'[m] = handshake[m]
       /\ \A m \in Name : handshake[m].id \in Nat
  BY <1>5, <1>6 DEF SessionsInv, SessionsType, Handshakes
<1>11. UNCHANGED <<account, tokens, refreshes, sessions, ended, racing>>
  BY DEF LoginState, past
<1>12. SessionsType'
  BY <1>4, <1>9, <1>10, <1>11 DEF SessionsInv, SessionsType
<1>13. HandshakesOK'
  <2>1. HandshakesOK
    BY DEF SessionsInv
  <2>2. \A q \in Request : req'[q].pc = "verify" => req'[q] = req[q] /\ req[q].state.id \in Nat
    BY <1>7, <1>9 DEF SessionsInv, SessionsType, Calls, Handshakes
  <2>3. \A m \in Name : handshake'[m].id <= starts' /\ (handshake'[m] # NoHandshake => handshake'[m].id > 0)
    BY <1>4, <1>5, <1>10, <2>1 DEF HandshakesOK
  <2>4. \A m, k \in Name : m # k /\ handshake'[m].id > 0 => handshake'[m].id # handshake'[k].id
    BY <1>4, <1>5, <1>10, <2>1 DEF HandshakesOK
  <2>5. \A q \in Request : req'[q].pc = "verify" =>
           /\ req'[q].state.id > 0 /\ req'[q].state.id <= starts'
           /\ \A m \in Name : handshake'[m].id # req'[q].state.id
    BY <1>4, <1>5, <1>10, <2>1, <2>2 DEF HandshakesOK
  <2>6. HandshakeUsedOnce' /\ \A q \in Request : req'[q].pc \in {"state", "consume"} => req'[q].name \in Name
    BY <1>7, <1>9, <2>1, <2>2 DEF HandshakesOK, HandshakeUsedOnce
  <2>7. QED
    BY <2>3, <2>4, <2>5, <2>6 DEF HandshakesOK
<1>14. TokensOK'
  <2>1. \A q \in Request : req'[q].pc = "issue" => req'[q] = req[q]
    BY <1>7, <1>9
  <2>2. QED
    BY <1>11, <2>1 DEF SessionsInv, TokensOK, LogoutEndsSessions
<1>15. QED
  BY <1>12, <1>13, <1>14 DEF SessionsInv

\* loginFinish takes the handshake, or is refused.
LEMMA SessionsConsume ==
    ASSUME SessionsInv, NEW r \in Request, Consume(r)
    PROVE  SessionsInv'
<1>1. PICK q \in Calls : q = req[r]
  BY DEF SessionsInv, SessionsType
<1>2. q.pc = "consume" /\ handshake' = [handshake EXCEPT ![q.name] = NoHandshake]
      /\ UNCHANGED <<account, tokens, starts, refreshes, sessions, ended, racing>>
  BY <1>1 DEF Consume, counts, past
<1>3. HandshakesOK /\ q.name \in Name
  BY <1>1, <1>2 DEF SessionsInv, HandshakesOK
<1>4. handshake' \in [Name -> Handshakes] /\ handshake'[q.name] = NoHandshake
      /\ \A m \in Name \ {q.name} : handshake'[m] = handshake[m]
  BY <1>2, <1>3, Blanks DEF SessionsInv, SessionsType
<1>5. CASE req' = [req EXCEPT ![r] = Idle]
  <2>1. req' \in [Request -> Calls] /\ req'[r] = Idle /\ \A p \in Request \ {r} : req'[p] = req[p]
    BY <1>5, Blanks, CallMoves
  <2>2. \A m \in Name : handshake'[m] \in {handshake[m], NoHandshake}
    BY <1>4
  <2>3. QED
    BY <1>2, <1>4, <2>1, <2>2, Blanks, Idles DEF SessionsInv, SessionsType
<1>6. CASE handshake[q.name] # NoHandshake
           /\ req' = [req EXCEPT ![r] = [q EXCEPT !.pc = "verify", !.state = handshake[q.name]]]
  <2>1. PICK h \in Handshakes : h = handshake[q.name]
    BY <1>3 DEF SessionsInv, SessionsType
  <2> DEFINE v == [q EXCEPT !.pc = "verify", !.state = h]
  <2>2. v \in Calls /\ v.pc = "verify" /\ v.state = h /\ h.id \in Nat
    BY DEF Calls, Handshakes
  <2>3. req' = [req EXCEPT ![r] = v]
    BY <1>6, <2>1
  <2> HIDE DEF v
  <2>4. req' \in [Request -> Calls] /\ req'[r] = v /\ \A p \in Request \ {r} : req'[p] = req[p]
    BY <2>2, <2>3, CallMoves
  <2>5. SessionsType'
    BY <1>2, <1>4, <2>4 DEF SessionsInv, SessionsType
  <2>6. h.id > 0 /\ h.id <= starts
    BY <1>3, <1>6, <2>1 DEF HandshakesOK
  <2>7. ASSUME NEW m \in Name
        PROVE  /\ handshake'[m].id <= starts' /\ handshake'[m].id # h.id
               /\ handshake'[m] # NoHandshake => handshake'[m].id > 0
    <3>1. CASE m = q.name
      BY <1>2, <1>4, <2>2, <2>6, <3>1, Blanks DEF SessionsInv, SessionsType
    <3>2. CASE m # q.name
      BY <1>2, <1>3, <1>4, <2>1, <2>6, <3>2 DEF HandshakesOK
    <3>3. QED
      BY <3>1, <3>2
  <2>8. ASSUME NEW m \in Name, NEW k \in Name, m # k, handshake'[m].id > 0
        PROVE  handshake'[m].id # handshake'[k].id
    <3>1. m # q.name
      BY <1>4, <2>8, Blanks
    <3>2. QED
      BY <1>3, <1>4, <2>8, <3>1, Blanks DEF HandshakesOK
  <2>9. ASSUME NEW p \in Request, req'[p].pc = "verify"
        PROVE  /\ req'[p].state.id > 0 /\ req'[p].state.id <= starts'
               /\ \A m \in Name : handshake'[m].id # req'[p].state.id
    <3>1. CASE p = r
      BY <1>2, <2>2, <2>4, <2>6, <2>7, <3>1
    <3>2. CASE p # r
      <4>1. /\ req'[p] = req[p] /\ req[p].state.id > 0 /\ req[p].state.id <= starts
            /\ \A m \in Name : handshake[m].id # req[p].state.id
        BY <1>3, <2>4, <2>9, <3>2 DEF HandshakesOK
      <4>2. req[p].state.id \in Nat
        BY DEF SessionsInv, SessionsType, Calls, Handshakes
      <4>3. QED
        BY <1>2, <1>4, <4>1, <4>2, Blanks
    <3>3. QED
      BY <3>1, <3>2
  <2>10. \A p \in Request : req'[p].pc \in {"state", "consume"} => req'[p].name \in Name
    BY <1>3, <2>2, <2>4 DEF HandshakesOK
  <2>11. HandshakeUsedOnce'
    <3> SUFFICES ASSUME NEW p \in Request, NEW k \in Request, p # k, req'[p].pc = "verify", req'[k].pc = "verify"
                 PROVE  req'[p].state.id # req'[k].state.id
      BY DEF HandshakeUsedOnce
    <3>1. \A j \in Request \ {r} : req[j].pc = "verify" => req[j].state.id # h.id
      BY <1>3, <2>1 DEF HandshakesOK
    <3>2. QED
      BY <1>3, <2>2, <2>4, <3>1 DEF HandshakesOK, HandshakeUsedOnce
  <2>12. HandshakesOK'
    BY <2>7, <2>8, <2>9, <2>10, <2>11 DEF HandshakesOK
  <2>13. TokensOK'
    <3>1. \A p \in Request : req'[p].pc = "issue" => req'[p] = req[p]
      BY <2>2, <2>4
    <3>2. QED
      BY <1>2, <3>1 DEF SessionsInv, TokensOK, LogoutEndsSessions
  <2>14. QED
    BY <2>5, <2>12, <2>13 DEF SessionsInv
<1>7. QED
  BY <1>1, <1>5, <1>6 DEF Consume, Done

\* A step that touches no handshake: what is left to show is about the tokens.
LEMMA TokensMove ==
    ASSUME SessionsInv, NEW r \in Request, NEW v \in Calls, req' = [req EXCEPT ![r] = v],
           v.pc \notin {"state", "consume", "verify"}, UNCHANGED <<account, handshake, starts, refreshes>>,
           tokens' \subseteq Tokens, sessions' \in Nat, ended' \subseteq 1 .. sessions', TokensOK'
    PROVE  SessionsInv'
<1>1. req' \in [Request -> Calls] /\ req'[r] = v /\ \A q \in Request \ {r} : req'[q] = req[q]
  BY CallMoves
<1>2. SessionsType'
  BY <1>1 DEF SessionsInv, SessionsType
<1>3. \A q \in Request : req'[q].pc \in {"state", "consume", "verify"} => req'[q] = req[q]
  BY <1>1
<1>4. HandshakesOK'
  BY <1>3 DEF SessionsInv, HandshakesOK, HandshakeUsedOnce
<1>5. QED
  BY <1>2, <1>4 DEF SessionsInv

\* loginFinish verifies the proof: a session begins.
LEMMA SessionsVerify ==
    ASSUME SessionsInv, NEW r \in Request, Verify(r)
    PROVE  SessionsInv'
<1>1. PICK q \in Calls : q = req[r]
  BY DEF SessionsInv, SessionsType
<1>2. PICK s \in Nat : s = sessions
  BY DEF SessionsInv, SessionsType
<1>3. UNCHANGED <<account, handshake, tokens, starts, refreshes, ended, racing>>
  BY DEF Verify, counts
<1>4. CASE req' = [req EXCEPT ![r] = Idle] /\ UNCHANGED sessions
  <2>1. req' \in [Request -> Calls] /\ req'[r] = Idle /\ \A p \in Request \ {r} : req'[p] = req[p]
    BY <1>4, Blanks, CallMoves
  <2>2. QED
    BY <1>3, <1>4, <2>1, Blanks, Idles DEF SessionsInv, SessionsType
<1>5. CASE sessions' = s + 1 /\ req' = [req EXCEPT ![r] = [q EXCEPT !.pc = "issue", !.session = s + 1]]
  <2>1. PICK j \in Nat : j = s + 1
    OBVIOUS
  <2> DEFINE v == [q EXCEPT !.pc = "issue", !.session = j]
  <2>2. v \in Calls /\ v.pc = "issue" /\ v.session = j
    BY DEF Calls
  <2>3. v \in Calls /\ v.pc = "issue" /\ v.session = s + 1
    BY <2>1, <2>2
  <2>4. req' = [req EXCEPT ![r] = v]
    BY <1>5, <2>1
  <2> HIDE DEF v
  <2>5. req'[r] = v /\ \A p \in Request \ {r} : req'[p] = req[p]
    BY <2>3, <2>4, CallMoves
  <2>6. /\ tokens \subseteq Tokens /\ ended \subseteq 1 .. s /\ 1 .. s \subseteq 1 .. s + 1 /\ s + 1 \notin 1 .. s
        /\ s + 1 \in 1 .. s + 1 /\ TokensOK
    BY <1>2 DEF SessionsInv, SessionsType
  <2>7. TokensOK'
    <3>1. \A t \in tokens : t.session \in 1 .. s
      BY <1>2, <2>6 DEF TokensOK
    <3>2. \A p \in Request \ {r} : req'[p].pc = "issue" =>
             /\ req'[p].session \in 1 .. s /\ \A t \in tokens : t.session # req'[p].session
             /\ req'[p].session \in ended => req'[p].session \in racing
      BY <1>2, <2>5, <2>6 DEF TokensOK
    <3>3. \A p \in Request : req'[p].pc = "issue" =>
             /\ req'[p].session \in 1 .. s + 1 /\ \A t \in tokens : t.session # req'[p].session
             /\ req'[p].session \in ended => req'[p].session \in racing
      BY <2>3, <2>5, <2>6, <3>1, <3>2
    <3>4. \A p, k \in Request :
             req'[p].pc = "issue" /\ req'[k].pc = "issue" /\ req'[p].session = req'[k].session => p = k
      BY <2>3, <2>5, <2>6, <3>2 DEF TokensOK
    <3>5. QED
      BY <1>3, <1>5, <2>6, <3>1, <3>3, <3>4 DEF TokensOK, LogoutEndsSessions
  <2>8. tokens' \subseteq Tokens /\ sessions' \in Nat /\ ended' \subseteq 1 .. sessions'
    BY <1>3, <1>5, <2>6
  <2>9. QED
    BY <1>3, <2>3, <2>4, <2>7, <2>8, TokensMove
<1>6. QED
  BY <1>1, <1>2, <1>4, <1>5 DEF Verify, Done

\* issueTokens stores the session's token.
LEMMA SessionsIssue ==
    ASSUME SessionsInv, NEW r \in Request, Issue(r)
    PROVE  SessionsInv'
<1>1. PICK q \in Calls : q = req[r]
  BY DEF SessionsInv, SessionsType
<1>2. q.pc = "issue" /\ UNCHANGED <<account, handshake, starts, refreshes, sessions, ended, racing>>
  BY <1>1 DEF Issue, counts, past
<1> DEFINE n == [session |-> q.session, gen |-> refreshes, old |-> FALSE]
<1>3. n \in Tokens /\ n.session = q.session
  BY DEF SessionsInv, SessionsType, Calls, Tokens
<1>4. tokens' = {t \in tokens : ~t.old} \cup {n}
  BY <1>1 DEF Issue
<1> HIDE DEF n
<1> DEFINE w == [q EXCEPT !.pc = "online"]
<1>5. w \in Calls /\ w.pc = "online"
  BY DEF Calls
<1>6. req' = [req EXCEPT ![r] = w] \/ req' = [req EXCEPT ![r] = Idle]
  BY <1>1 DEF Issue, Step, Done
<1> HIDE DEF w
<1>7. PICK v \in Calls : v.pc \in {"online", "idle"} /\ req' = [req EXCEPT ![r] = v]
  BY <1>5, <1>6, Blanks
<1>8. req'[r] = v /\ \A p \in Request \ {r} : req'[p] = req[p]
  BY <1>7, CallMoves
<1>9. TokensOK
  BY DEF SessionsInv
<1>10. \A t \in tokens' : t \in tokens \/ t = n
  BY <1>4
<1>11. q.session \in 1 .. sessions /\ (q.session \in ended => q.session \in racing)
       /\ \A t \in tokens : t.session # q.session
  BY <1>1, <1>2, <1>9 DEF TokensOK
<1>12. \A p \in Request : req'[p].pc = "issue" => p # r /\ req'[p] = req[p] /\ req[p].session # q.session
  BY <1>1, <1>2, <1>7, <1>8, <1>9 DEF TokensOK
<1>13. TokensOK'
  <2>1. \A t \in tokens' : t.session \in 1 .. sessions' /\ (t.session \in ended' => t.session \in racing')
    BY <1>2, <1>3, <1>9, <1>10, <1>11 DEF TokensOK, LogoutEndsSessions
  <2>2. \A t, u \in tokens' : t.session = u.session => t = u
    BY <1>3, <1>9, <1>10, <1>11 DEF TokensOK
  <2>3. \A p \in Request : req'[p].pc = "issue" =>
           /\ req'[p].session \in 1 .. sessions' /\ \A t \in tokens' : t.session # req'[p].session
           /\ req'[p].session \in ended' => req'[p].session \in racing'
    BY <1>2, <1>3, <1>9, <1>10, <1>12 DEF TokensOK
  <2>4. \A p, k \in Request :
           req'[p].pc = "issue" /\ req'[k].pc = "issue" /\ req'[p].session = req'[k].session => p = k
    BY <1>9, <1>12 DEF TokensOK
  <2>5. QED
    BY <2>1, <2>2, <2>3, <2>4 DEF TokensOK, LogoutEndsSessions
<1>14. tokens' \subseteq Tokens /\ sessions' \in Nat /\ ended' \subseteq 1 .. sessions'
  BY <1>2, <1>3, <1>10 DEF SessionsInv, SessionsType
<1>15. QED
  BY <1>2, <1>7, <1>13, <1>14, TokensMove

\* refreshTokens deletes the token presented; what it returns is the session's.
LEMMA SessionsRedeem ==
    ASSUME SessionsInv, NEW r \in Request, Redeem(r)
    PROVE  SessionsInv'
<1>1. PICK q \in Calls : q = req[r]
  BY DEF SessionsInv, SessionsType
<1>2. q.pc = "redeem" /\ UNCHANGED <<account, handshake, starts, refreshes, sessions, ended, racing>>
      /\ tokens' = tokens \ Presented(r)
  BY <1>1 DEF Redeem, counts, past
<1>3. TokensOK /\ tokens' \subseteq tokens
  BY <1>2 DEF SessionsInv
<1>4. CASE req' = [req EXCEPT ![r] = Idle]
  <2>1. req' \in [Request -> Calls] /\ req'[r] = Idle /\ \A p \in Request \ {r} : req'[p] = req[p]
    BY <1>4, Blanks, CallMoves
  <2>2. QED
    BY <1>2, <1>3, <2>1, Blanks, Idles DEF SessionsInv, SessionsType
<1>5. CASE Presented(r) # {} /\ req' = [req EXCEPT ![r] = [q EXCEPT !.pc = "issue"]]
  <2> DEFINE v == [q EXCEPT !.pc = "issue"]
  <2>1. v \in Calls /\ v.pc = "issue" /\ v.session = q.session
    BY DEF Calls
  <2>2. req' = [req EXCEPT ![r] = v]
    BY <1>5
  <2> HIDE DEF v
  <2>3. req'[r] = v /\ \A p \in Request \ {r} : req'[p] = req[p]
    BY <2>1, <2>2, CallMoves
  <2>4. PICK t \in tokens : t \in Presented(r) /\ t.session = q.session
    BY <1>1, <1>5 DEF Presented
  <2>5. q.session \in 1 .. sessions /\ (q.session \in ended => q.session \in racing)
    BY <1>3, <2>4 DEF TokensOK, LogoutEndsSessions
  <2>6. \A u \in tokens' : u.session # q.session
    BY <1>2, <1>3, <2>4 DEF TokensOK
  <2>7. \A p \in Request \ {r} : req[p].pc = "issue" => req[p].session # q.session
    BY <1>3, <2>4 DEF TokensOK
  <2>8. TokensOK'
    <3>1. \A p \in Request : req'[p].pc = "issue" =>
             /\ req'[p].session \in 1 .. sessions' /\ \A u \in tokens' : u.session # req'[p].session
             /\ req'[p].session \in ended' => req'[p].session \in racing'
      BY <1>2, <1>3, <2>1, <2>3, <2>5, <2>6 DEF TokensOK
    <3>2. \A p, k \in Request :
             req'[p].pc = "issue" /\ req'[k].pc = "issue" /\ req'[p].session = req'[k].session => p = k
      BY <1>3, <2>1, <2>3, <2>7 DEF TokensOK
    <3>3. QED
      BY <1>2, <1>3, <3>1, <3>2 DEF TokensOK, LogoutEndsSessions
  <2>9. tokens' \subseteq Tokens /\ sessions' \in Nat /\ ended' \subseteq 1 .. sessions'
    BY <1>2, <1>3 DEF SessionsInv, SessionsType
  <2>10. QED
    BY <1>2, <2>1, <2>2, <2>8, <2>9, TokensMove
<1>6. QED
  BY <1>1, <1>4, <1>5 DEF Redeem, Step, Done

\* A token expires: it still counts until it is pruned or redeemed.
LEMMA SessionsTokenExpire ==
    ASSUME SessionsInv, NEW t \in tokens, TokenExpire(t)
    PROVE  SessionsInv'
<1> DEFINE n == [t EXCEPT !.old = TRUE]
<1>1. t \in Tokens
  BY DEF SessionsInv, SessionsType
<1>2. n \in Tokens /\ n.session = t.session
  BY <1>1 DEF Tokens
<1>3. tokens' = (tokens \ {t}) \cup {n} /\ UNCHANGED <<account, handshake, req, starts, refreshes, sessions, ended, racing>>
  BY DEF TokenExpire, counts, past
<1> HIDE DEF n
<1>4. \A u \in tokens' : u = n \/ (u \in tokens /\ u # t)
  BY <1>3
<1>5. SessionsType'
  BY <1>2, <1>3, <1>4 DEF SessionsInv, SessionsType
<1>6. HandshakesOK'
  BY <1>3 DEF SessionsInv, HandshakesOK, HandshakeUsedOnce
<1>7. TokensOK'
  <2>1. TokensOK
    BY DEF SessionsInv
  <2>2. \A u \in tokens' : u.session \in 1 .. sessions' /\ (u.session \in ended' => u.session \in racing')
    BY <1>2, <1>3, <1>4, <2>1 DEF TokensOK, LogoutEndsSessions
  <2>3. \A u, w \in tokens' : u.session = w.session => u = w
    BY <1>2, <1>4, <2>1 DEF TokensOK
  <2>4. \A p \in Request : req[p].pc = "issue" => \A u \in tokens' : u.session # req[p].session
    BY <1>2, <1>4, <2>1 DEF TokensOK
  <2>5. QED
    BY <1>3, <2>1, <2>2, <2>3, <2>4 DEF TokensOK, LogoutEndsSessions
<1>8. QED
  BY <1>5, <1>6, <1>7 DEF SessionsInv

\* logout deletes every token.
LEMMA SessionsLogoutDelete ==
    ASSUME SessionsInv, NEW r \in Request, LogoutDelete(r)
    PROVE  SessionsInv'
<1>1. tokens' = {} /\ ended' = 1 .. sessions /\ racing' = racing \cup Holding /\ req' = [req EXCEPT ![r] = Idle]
      /\ UNCHANGED <<account, handshake, starts, refreshes, sessions>>
  BY DEF LogoutDelete, Done, counts
<1>2. req'[r] = Idle /\ \A p \in Request \ {r} : req'[p] = req[p]
  BY <1>1, Blanks, CallMoves
<1>3. \A p \in Request : req'[p].pc = "issue" => req'[p] = req[p] /\ req[p].session \in Holding
  BY <1>2, Blanks DEF Holding
<1>4. TokensOK'
  BY <1>1, <1>3 DEF SessionsInv, TokensOK, LogoutEndsSessions
<1>5. tokens' \subseteq Tokens /\ sessions' \in Nat /\ ended' \subseteq 1 .. sessions'
  BY <1>1 DEF SessionsInv, SessionsType
<1>6. QED
  BY <1>1, <1>4, <1>5, Blanks, TokensMove

\* Every step keeps the invariant.
LEMMA SessionsNext == SessionsInv /\ [Next]_vars => SessionsInv'
<1> SUFFICES ASSUME SessionsInv, [Next]_vars PROVE SessionsInv'
  OBVIOUS
<1>1. CASE UNCHANGED vars
  BY <1>1 DEF vars, SessionsInv, SessionsType, HandshakesOK, HandshakeUsedOnce, TokensOK, LogoutEndsSessions
<1>2. ASSUME NEW r \in Request, NEW n \in Name, NEW x \in Password, RegisterCheck(r, n, x)
      PROVE  SessionsInv'
  BY <1>2, SessionsRegisterCheck
<1>3. ASSUME NEW r \in Request, NEW n \in Name, NEW x \in Password, NEW a \in ClientSecrets, NEW b \in ServerSecrets,
             LoginStart(r, n, x, a, b)
      PROVE  SessionsInv'
  BY <1>3, SessionsLoginStart
<1>4. ASSUME NEW n \in Name, Rename(n) \/ HandshakeExpire(n)
      PROVE  SessionsInv'
  BY <1>4, SessionsNames
<1>5. ASSUME NEW t \in tokens, TokenExpire(t) \/ \E r \in Request : RefreshBegin(r, t)
      PROVE  SessionsInv'
  BY <1>5, SessionsTokenExpire, SessionsRefreshBegin
<1>6. ASSUME NEW r \in Request, RegisterInsert(r) \/ Login(r) \/ Redeem(r) \/ LogoutStatus(r) \/ LogoutDelete(r)
      PROVE  SessionsInv'
  BY <1>6, SessionsRegisterInsert, SessionsLoginState, SessionsConsume, SessionsVerify, SessionsIssue, SessionsStatus, SessionsRedeem,
     SessionsLogoutDelete DEF Login
<1>7. QED
  BY <1>1, <1>2, <1>3, <1>4, <1>5, <1>6 DEF Next

\* What every handshake, token and call in flight stands for, in every reachable
\* state.
THEOREM SessionsInvTheorem == Spec => []SessionsInv
BY SessionsInit, SessionsNext, PTL DEF Spec

\* loginFinish (GETDEL): a handshake is verified against by one login only.
THEOREM HandshakeTheorem == Spec => []HandshakeUsedOnce
<1>1. SessionsInv => HandshakeUsedOnce
  BY DEF SessionsInv, HandshakesOK
<1>2. QED
  BY <1>1, SessionsInvTheorem, PTL

\* A set whose members are all equal has none or one.
LEMMA AtMostOne ==
    ASSUME NEW S, \A x, y \in S : x = y
    PROVE  Cardinality(S) \in 0 .. 1 /\ (S = {} => Cardinality(S) = 0)
<1>1. CASE S = {}
  BY <1>1, FS_EmptySet
<1>2. ASSUME NEW x \in S
      PROVE  Cardinality(S) = 1
  <2>1. S = {x}
    BY <1>2
  <2>2. QED
    BY <2>1, FS_Singleton
<1>3. QED
  BY <1>1, <1>2

\* refreshTokens (DELETE ... RETURNING): one token per session.
THEOREM OneTokenTheorem == Spec => []OneTokenPerSession
<1>1. SessionsInv => OneTokenPerSession
  <2> SUFFICES ASSUME SessionsInv, NEW s \in 1 .. sessions
               PROVE  Cardinality({t \in tokens : t.session = s})
                        + Cardinality({r \in Request : req[r].pc = "issue" /\ req[r].session = s}) <= 1
    BY DEF OneTokenPerSession
  <2> DEFINE T == {t \in tokens : t.session = s}
             I == {r \in Request : req[r].pc = "issue" /\ req[r].session = s}
  <2>1. TokensOK
    BY DEF SessionsInv
  <2>2. \A t, u \in T : t = u
    BY <2>1 DEF TokensOK
  <2>3. \A r, q \in I : r = q
    BY <2>1 DEF TokensOK
  <2>4. T = {} \/ I = {}
    BY <2>1 DEF TokensOK
  <2> HIDE DEF T, I
  <2>5. Cardinality(T) \in 0 .. 1 /\ (T = {} => Cardinality(T) = 0)
    BY <2>2, AtMostOne
  <2>6. Cardinality(I) \in 0 .. 1 /\ (I = {} => Cardinality(I) = 0)
    BY <2>3, AtMostOne
  <2>7. QED
    BY <2>4, <2>5, <2>6 DEF T, I
<1>2. QED
  BY <1>1, SessionsInvTheorem, PTL

\* logout: only a session with a call between redeeming and storing outlives it.
THEOREM LogoutTheorem == Spec => []LogoutEndsSessions
<1>1. SessionsInv => LogoutEndsSessions
  BY DEF SessionsInv, TokensOK
<1>2. QED
  BY <1>1, SessionsInvTheorem, PTL

\* register: an account, once there, stays and keeps its password, whatever the
\* registrations, changes of name and logins that overlap.
THEOREM AccountTheorem == Spec => AccountIsKept
<1>1. SessionsInv /\ [Next]_vars => [Exists => account'.x = account.x /\ Exists']_vars
  <2> SUFFICES ASSUME SessionsInv, Next, Exists PROVE account'.x = account.x /\ Exists'
    OBVIOUS
  <2>1. ASSUME NEW n \in Name, Rename(n) PROVE account'.x = account.x /\ Exists'
    <3>1. account \in [name : Name \cup {None}, x : Password \cup {0}]
      BY DEF SessionsInv, SessionsType
    <3>2. account' = [account EXCEPT !.name = n]
      BY <2>1 DEF Rename
    <3>3. account'.name = n /\ account'.x = account.x
      BY <3>1, <3>2
    <3>4. account' # NoAccount
      BY <3>3, SessionsAssumption DEF NoAccount
    <3>5. QED
      BY <3>3, <3>4 DEF Exists
  <2>2. CASE UNCHANGED account
    BY <2>2 DEF Exists
  <2>3. ASSUME NEW r \in Request, RegisterInsert(r) PROVE UNCHANGED account
    BY <2>3 DEF RegisterInsert
  <2>4. CASE ~\E n \in Name : Rename(n)
    <3>1. UNCHANGED account
      BY <2>3, <2>4 DEF Next, RegisterCheck, HandshakeExpire, LoginStart, Login, LoginState, Consume, Verify, Issue, LoginOnline,
         RefreshBegin, TokenExpire, Redeem, LogoutStatus, LogoutDelete
    <3>2. QED
      BY <2>2, <3>1
  <2>5. QED
    BY <2>1, <2>4
<1>2. QED
  BY <1>1, SessionsInvTheorem, PTL DEF Spec, AccountIsKept
=============================================================================
