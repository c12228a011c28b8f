---------------------------- MODULE PresenceProofs ----------------------------
(***************************************************************************)
(* Proofs about presence, for any sockets and any lifetimes of the keys: a *)
(* socket that beats stays in the registry and its user is shown online,   *)
(* and at rest the peers know whether the user is there.                   *)
(***************************************************************************)
EXTENDS Presence, FiniteSetTheorems, TLAPS

\* A socket that is served has not closed, its interval is set once the connect
\* has settled, and a beat half done has written the entry.
LinkOK(s) ==
    /\ pc[s] = "idle" => ~open[s] /\ bye[s] = "idle" /\ beat[s] = "done"
    /\ bye[s] # "idle" => ~open[s]
    /\ timer[s] <=> open[s] /\ pc[s] \in {"peers", "done"}
    /\ first[s] => pc[s] \in {"online", "check", "peers"}
    /\ beat[s] = "due" => timer[s]
    /\ open[s] /\ beat[s] = "half" => missed[s] < MaxMissed
    /\ open[s] /\ beat[s] = "online" => reg[s] = Dead
    /\ pc[s] \in {"idle", "auth"} => reg[s] = 0

\* The entry has lost a period for each beat missed, and one for the beat due.
EntryOK(s) ==
    open[s] /\ pc[s] \in {"online", "check", "peers", "done"} /\ (s \notin unseen \/ told # "unsure") =>
        reg[s] + missed[s] + (IF beat[s] \in {"due", "half"} THEN 1 ELSE 0) >= Dead

\* So has the presence key, until someone deletes it.
ShownOK(s) ==
    open[s] /\ pc[s] \in {"check", "peers", "done"} /\ s \notin unseen /\ ~hidden =>
        online + missed[s] + (IF beat[s] = "done" THEN 0 ELSE 1) >= PresenceTtl

\* While the announcements follow the registry: entries are of sockets that
\* addSocket counted and removeSocket has not taken out, and what the peers have
\* not heard yet somebody is about to tell them.
ToldOK ==
    told # "unsure" =>
        /\ \A s \in Socket : pc[s] = "join" => reg[s] = 0
        /\ \A s \in Socket : reg[s] > 0 /\ ~open[s] => bye[s] = "remove"
        /\ told = "left" /\ (\E s \in Socket : reg[s] > 0) => \E s \in Socket : first[s]
        /\ told = "joined" /\ (\A s \in Socket : reg[s] = 0) => \E s \in Socket : bye[s] # "idle"

PresenceInv ==
    TypeOK /\ (\A s \in Socket : LinkOK(s) /\ EntryOK(s) /\ ShownOK(s)) /\ ToldOK
-----------------------------------------------------------------------------
\* zCard is zero of an empty registry only, and one of the only entry.
LEMMA Counted ==
    ASSUME NEW f \in [Socket -> Nat]
    PROVE  /\ Count(f) \in Nat
           /\ Count(f) > 0 <=> \E s \in Socket : f[s] > 0
           /\ \A s \in Socket : f[s] > 0 /\ Count(f) # 1 => \E t \in Socket \ {s} : f[t] > 0
<1> DEFINE R == {s \in Socket : f[s] > 0}
<1>1. IsFiniteSet(R)
  BY Zenon, FS_Subset, PresenceAssumption
<1>2. Cardinality(R) \in Nat
  BY Zenon, <1>1, FS_CardinalityType
<1>3. Cardinality(R) = 0 <=> R = {}
  BY Zenon, <1>1, FS_EmptySet
<1>4. ASSUME NEW s \in Socket, f[s] > 0, ~\E t \in Socket \ {s} : f[t] > 0 PROVE Cardinality(R) = 1
  <2>1. R = {s}
    BY Zenon, <1>4
  <2>2. QED
    BY Zenon, <2>1, FS_Singleton
<1>5. Count(f) = Cardinality(R)
  BY Zenon DEF Count
<1>6. Cardinality(R) > 0 <=> R # {}
  BY <1>2, <1>3
<1>7. R # {} <=> \E s \in Socket : f[s] > 0
  BY Zenon
<1> HIDE DEF R
<1>8. QED
  BY Zenon, <1>2, <1>4, <1>5, <1>6, <1>7

\* Nothing of a socket changes.
Same(t) ==
    /\ open'[t] = open[t] /\ pc'[t] = pc[t] /\ bye'[t] = bye[t] /\ first'[t] = first[t]
    /\ timer'[t] = timer[t] /\ beat'[t] = beat[t] /\ missed'[t] = missed[t] /\ reg'[t] = reg[t]
    /\ t \in unseen' <=> t \in unseen

\* The presence key is as it was, written again, deleted behind a socket, or
\* deleted when there is no other socket.
KeyKept ==
    \/ online' = PresenceTtl
    \/ online' = online /\ (hidden => hidden')
    \/ hidden'
    \/ \A t \in Socket : reg[t] = 0

\* A socket that beats is in the registry, with two periods left between beats.
LEMMA InRegistry ==
    ASSUME PresenceInv, NEW s \in Socket, open[s], pc[s] \in {"online", "check", "peers", "done"},
           s \notin unseen \/ told # "unsure"
    PROVE  reg[s] > 0 /\ (beat[s] = "done" => reg[s] > 1)
<1>1. LinkOK(s) /\ EntryOK(s)
  BY Zenon DEF PresenceInv
<1>2. missed[s] \in 0 .. MaxMissed /\ reg[s] \in Nat /\ Dead \in Nat /\ MaxMissed \in Nat /\ MaxMissed + 1 < Dead
  BY PresenceAssumption DEF PresenceInv, TypeOK
<1>3. beat[s] \in {"due", "online", "half", "done"}
  BY Zenon DEF PresenceInv, TypeOK
<1>4. CASE beat[s] = "online"
  BY <1>1, <1>2, <1>4 DEF LinkOK
<1>5. CASE beat[s] = "half"
  BY <1>1, <1>2, <1>5 DEF LinkOK, EntryOK
<1>6. CASE beat[s] \in {"due", "done"}
  BY <1>1, <1>2, <1>6 DEF EntryOK
<1>7. QED
  BY Zenon, <1>3, <1>4, <1>5, <1>6

\* What a step leaves alone stays sound.
LEMMA SameKept ==
    ASSUME PresenceInv, NEW t \in Socket, Same(t), told = "unsure" => told' = "unsure", KeyKept
    PROVE  LinkOK(t)' /\ EntryOK(t)' /\ ShownOK(t)'
<1>1. LinkOK(t) /\ EntryOK(t) /\ ShownOK(t)
  BY Zenon DEF PresenceInv
<1>2. missed[t] \in Nat /\ PresenceTtl \in Nat
  BY PresenceAssumption DEF PresenceInv, TypeOK
<1>3. LinkOK(t)'
  BY Zenon, <1>1 DEF LinkOK, Same
<1>4. EntryOK(t)'
  BY Zenon, <1>1 DEF EntryOK, Same
<1>5. ShownOK(t)'
  <2>1. CASE \A u \in Socket : reg[u] = 0
    <3>1. ~(reg[t] > 0)
      BY <2>1
    <3>2. ~(open[t] /\ pc[t] \in {"check", "peers", "done"} /\ t \notin unseen)
      BY Zenon, <3>1, InRegistry
    <3>3. QED
      BY Zenon, <3>2 DEF ShownOK, Same
  <2>2. QED
    BY <1>1, <1>2, <2>1 DEF ShownOK, Same, KeyKept
<1>6. QED
  BY Zenon, <1>3, <1>4, <1>5

\* At first nobody is connected and the peers have heard nothing.
LEMMA PresenceInit == Init => PresenceInv
<1> SUFFICES ASSUME Init PROVE PresenceInv
  BY Zenon
<1>1. TypeOK
  <2>1. /\ 0 \in 0 .. MaxMissed /\ 0 \in 0 .. Dead /\ 0 \in 0 .. PresenceTtl
        /\ 0 \in 0 .. MaxLogins
    BY PresenceAssumption
  <2>2. QED
    BY Zenon, <2>1 DEF Init, TypeOK
<1>2. \A s \in Socket : LinkOK(s) /\ EntryOK(s) /\ ShownOK(s)
  BY Zenon DEF Init, LinkOK, EntryOK, ShownOK
<1>3. ToldOK
  BY DEF Init, ToldOK
<1>4. QED
  BY Zenon, <1>1, <1>2, <1>3 DEF PresenceInv


\* One socket moves.
LEMMA Moved ==
    ASSUME PresenceInv, NEW s \in Socket, TypeOK', LinkOK(s)', EntryOK(s)', ShownOK(s)', ToldOK',
           \A t \in Socket \ {s} : Same(t), told = "unsure" => told' = "unsure", KeyKept
    PROVE  PresenceInv'
<1>1. ASSUME NEW t \in Socket \ {s} PROVE LinkOK(t)' /\ EntryOK(t)' /\ ShownOK(t)'
  BY Zenon, SameKept
<1>2. QED
  BY Zenon, <1>1 DEF PresenceInv

\* The peers hear nothing, and nothing they should hear is forgotten.
LEMMA ToldKept ==
    ASSUME PresenceInv, NEW s \in Socket, \A t \in Socket \ {s} : Same(t), TypeOK',
           told' \in {told, "unsure"}, reg'[s] > 0 <=> reg[s] > 0, pc'[s] = "join" => reg'[s] = 0,
           first[s] => first'[s], bye[s] # "idle" => bye'[s] # "idle",
           reg'[s] > 0 /\ ~open'[s] => bye'[s] = "remove" \/ told' = "unsure"
    PROVE  ToldOK'
<1> SUFFICES ASSUME told' # "unsure" PROVE ToldOK'
  BY Zenon DEF ToldOK
<1>1. told' = told /\ ToldOK /\ reg \in [Socket -> Nat] /\ reg' \in [Socket -> Nat]
  BY PresenceAssumption DEF PresenceInv, TypeOK
<1>2. \A t \in Socket : reg'[t] = 0 <=> reg[t] = 0
  BY <1>1 DEF Same
<1>3. \A t \in Socket : reg'[t] > 0 <=> reg[t] > 0
  BY Zenon, <1>1 DEF Same
<1>4. QED
  BY <1>1, <1>2, <1>3 DEF ToldOK, Same

\* A socket connects.
LEMMA ConnectKeeps ==
    ASSUME PresenceInv, NEW s \in Socket, Connect(s)
    PROVE  PresenceInv'
<1>1. TypeOK /\ LinkOK(s) /\ EntryOK(s) /\ ShownOK(s) /\ ToldOK
  BY Zenon DEF PresenceInv
<1>2. TypeOK'
  BY Zenon, <1>1, PresenceAssumption DEF TypeOK, LinkOK, Connect, redis, peers
<1>3. \A t \in Socket \ {s} : Same(t)
  BY Zenon, <1>1 DEF TypeOK, Same, Connect, redis, peers
<1>4. LinkOK(s)'
  BY Zenon, <1>1, PresenceAssumption DEF TypeOK, LinkOK, Connect, redis, peers
<1>5. EntryOK(s)'
  BY Zenon, <1>1, PresenceAssumption DEF TypeOK, LinkOK, EntryOK, Connect, redis, peers
<1>6. ShownOK(s)'
  BY Zenon, <1>1, PresenceAssumption DEF TypeOK, LinkOK, ShownOK, Connect, redis, peers
<1>7. told = "unsure" => told' = "unsure"
  BY Zenon DEF Connect, peers
<1>8. KeyKept
  BY Zenon DEF KeyKept, Connect, redis, peers
<1>9. ToldOK'
  BY Zenon, <1>1, <1>2, <1>3, PresenceAssumption, ToldKept DEF TypeOK, LinkOK, ToldOK, Connect, redis, peers
<1>10. QED
  BY Zenon, <1>2, <1>3, <1>4, <1>5, <1>6, <1>7, <1>8, <1>9, Moved

\* The token is checked.
LEMMA AuthenticateKeeps ==
    ASSUME PresenceInv, NEW s \in Socket, NEW ok \in BOOLEAN, Authenticate(s, ok)
    PROVE  PresenceInv'
<1>1. TypeOK /\ LinkOK(s) /\ EntryOK(s) /\ ShownOK(s) /\ ToldOK
  BY Zenon DEF PresenceInv
<1>2. TypeOK'
  BY Zenon, <1>1, PresenceAssumption DEF TypeOK, LinkOK, Authenticate, redis, peers
<1>3. \A t \in Socket \ {s} : Same(t)
  BY Zenon, <1>1 DEF TypeOK, Same, Authenticate, redis, peers
<1>4. LinkOK(s)'
  BY Zenon, <1>1, PresenceAssumption DEF TypeOK, LinkOK, Authenticate, redis, peers
<1>5. EntryOK(s)'
  BY Zenon, <1>1, PresenceAssumption DEF TypeOK, LinkOK, EntryOK, Authenticate, redis, peers
<1>6. ShownOK(s)'
  BY Zenon, <1>1, PresenceAssumption DEF TypeOK, LinkOK, ShownOK, Authenticate, redis, peers
<1>7. told = "unsure" => told' = "unsure"
  BY Zenon DEF Authenticate, peers
<1>8. KeyKept
  BY Zenon DEF KeyKept, Authenticate, redis, peers
<1>9. ToldOK'
  BY <1>1, <1>2, <1>3, PresenceAssumption, ToldKept DEF TypeOK, LinkOK, ToldOK, Authenticate, redis, peers
<1>10. QED
  BY Zenon, <1>2, <1>3, <1>4, <1>5, <1>6, <1>7, <1>8, <1>9, Moved

\* A closed socket is not registered.
LEMMA AbandonKeeps ==
    ASSUME PresenceInv, NEW s \in Socket, Abandon(s)
    PROVE  PresenceInv'
<1>1. TypeOK /\ LinkOK(s) /\ EntryOK(s) /\ ShownOK(s) /\ ToldOK
  BY Zenon DEF PresenceInv
<1>2. TypeOK'
  BY Zenon, <1>1, PresenceAssumption DEF TypeOK, LinkOK, Abandon, redis, peers
<1>3. \A t \in Socket \ {s} : Same(t)
  BY Zenon, <1>1 DEF TypeOK, Same, Abandon, redis, peers
<1>4. LinkOK(s)'
  BY Zenon, <1>1, PresenceAssumption DEF TypeOK, LinkOK, Abandon, redis, peers
<1>5. EntryOK(s)'
  BY Zenon, <1>1, PresenceAssumption DEF TypeOK, LinkOK, EntryOK, Abandon, redis, peers
<1>6. ShownOK(s)'
  BY Zenon, <1>1, PresenceAssumption DEF TypeOK, LinkOK, ShownOK, Abandon, redis, peers
<1>7. told = "unsure" => told' = "unsure"
  BY Zenon DEF Abandon, peers
<1>8. KeyKept
  BY Zenon DEF KeyKept, Abandon, redis, peers
<1>9. ToldOK'
  BY <1>1, <1>2, <1>3, PresenceAssumption, ToldKept DEF TypeOK, LinkOK, ToldOK, Abandon, redis, peers
<1>10. QED
  BY Zenon, <1>2, <1>3, <1>4, <1>5, <1>6, <1>7, <1>8, <1>9, Moved

\* addSocket: the first entry owes the peers a user:joined.
LEMMA RegisterKeeps ==
    ASSUME PresenceInv, NEW s \in Socket, NEW ok \in BOOLEAN, Register(s, ok)
    PROVE  PresenceInv'
<1>1. TypeOK /\ LinkOK(s) /\ EntryOK(s) /\ ShownOK(s) /\ ToldOK
  BY Zenon DEF PresenceInv
<1>2. TypeOK'
  BY <1>1, PresenceAssumption DEF TypeOK, LinkOK, Register, Tell, redis, peers
<1>3. \A t \in Socket \ {s} : Same(t)
  BY Zenon, <1>1 DEF TypeOK, Same, Register, Tell, redis, peers
<1>4. LinkOK(s)'
  BY Zenon, <1>1, PresenceAssumption DEF TypeOK, LinkOK, Register, Tell, redis, peers
<1>5. EntryOK(s)'
  BY <1>1, PresenceAssumption DEF TypeOK, LinkOK, EntryOK, Register, Tell, redis, peers
<1>6. ShownOK(s)'
  BY Zenon, <1>1, PresenceAssumption DEF TypeOK, LinkOK, ShownOK, Register, Tell, redis, peers
<1>7. told = "unsure" => told' = "unsure"
  BY Zenon DEF Register, Tell, peers
<1>8. KeyKept
  BY Zenon DEF KeyKept, Register, Tell, redis, peers
<1>9. ToldOK'
  <2> SUFFICES ASSUME told' # "unsure" PROVE ToldOK'
    BY Zenon DEF ToldOK
  <2>1. /\ ok /\ told' = told /\ bye' = bye /\ open' = open /\ open[s] /\ pc[s] = "join" /\ pc'[s] = "online"
        /\ reg'[s] = Dead /\ Dead > 0
    BY <1>1, PresenceAssumption DEF TypeOK, Register, Tell
  <2>2. told # "unsure" /\ ToldOK /\ ~first[s]
    BY Zenon, <1>1, <1>7, <2>1 DEF LinkOK
  <2>3. reg' \in [Socket -> Nat]
    BY <1>2, PresenceAssumption DEF TypeOK
  <2>4. CASE Count(reg') = 1
    <3>1. first'[s]
      BY Zenon, <1>1, <2>1, <2>4 DEF Register, TypeOK
    <3>2. QED
      BY SMTT(20), <1>3, <2>1, <2>2, <3>1 DEF ToldOK, Same
  <2>5. CASE Count(reg') # 1
    <3>1. PICK t \in Socket \ {s} : reg'[t] > 0
      BY Zenon, <2>1, <2>3, <2>5, Counted
    <3>2. told = "left" => \E u \in Socket \ {s} : first'[u]
      BY Zenon, <1>3, <2>2, <3>1 DEF ToldOK, Same
    <3>3. QED
      BY <1>3, <2>1, <2>2, <3>2 DEF ToldOK, Same
  <2>6. QED
    BY Zenon, <2>4, <2>5
<1>10. QED
  BY Zenon, <1>2, <1>3, <1>4, <1>5, <1>6, <1>7, <1>8, <1>9, Moved

\* setOnline of a connect.
LEMMA ConnectOnlineKeeps ==
    ASSUME PresenceInv, NEW s \in Socket, NEW ok \in BOOLEAN, ConnectOnline(s, ok)
    PROVE  PresenceInv'
<1>1. TypeOK /\ LinkOK(s) /\ EntryOK(s) /\ ShownOK(s) /\ ToldOK
  BY Zenon DEF PresenceInv
<1>2. TypeOK'
  BY <1>1, PresenceAssumption DEF TypeOK, LinkOK, ConnectOnline, redis, peers
<1>3. \A t \in Socket \ {s} : Same(t)
  BY Zenon, <1>1 DEF TypeOK, Same, ConnectOnline, redis, peers
<1>4. LinkOK(s)'
  BY Zenon, <1>1, PresenceAssumption DEF TypeOK, LinkOK, ConnectOnline, redis, peers
<1>5. EntryOK(s)'
  BY Zenon, <1>1, PresenceAssumption DEF TypeOK, LinkOK, EntryOK, ConnectOnline, redis, peers
<1>6. ShownOK(s)'
  BY <1>1, PresenceAssumption DEF TypeOK, LinkOK, ShownOK, ConnectOnline, redis, peers
<1>7. told = "unsure" => told' = "unsure"
  BY Zenon DEF ConnectOnline, peers
<1>8. KeyKept
  BY Zenon DEF KeyKept, ConnectOnline, redis, peers
<1>9. ToldOK'
  BY <1>1, <1>2, <1>3, PresenceAssumption, ToldKept DEF TypeOK, LinkOK, ToldOK, ConnectOnline, redis, peers
<1>10. QED
  BY Zenon, <1>2, <1>3, <1>4, <1>5, <1>6, <1>7, <1>8, <1>9, Moved

\* The interval is set.
LEMMA SettleKeeps ==
    ASSUME PresenceInv, NEW s \in Socket, Settle(s)
    PROVE  PresenceInv'
<1>1. TypeOK /\ LinkOK(s) /\ EntryOK(s) /\ ShownOK(s) /\ ToldOK
  BY Zenon DEF PresenceInv
<1>2. TypeOK'
  BY Zenon, <1>1, PresenceAssumption DEF TypeOK, LinkOK, Settle, redis, peers
<1>3. \A t \in Socket \ {s} : Same(t)
  BY Zenon, <1>1 DEF TypeOK, Same, Settle, redis, peers
<1>4. LinkOK(s)'
  BY Zenon, <1>1, PresenceAssumption DEF TypeOK, LinkOK, Settle, redis, peers
<1>5. EntryOK(s)'
  BY Zenon, <1>1, PresenceAssumption DEF TypeOK, LinkOK, EntryOK, Settle, redis, peers
<1>6. ShownOK(s)'
  BY Zenon, <1>1, PresenceAssumption DEF TypeOK, LinkOK, ShownOK, Settle, redis, peers
<1>7. told = "unsure" => told' = "unsure"
  BY Zenon DEF Settle, peers
<1>8. KeyKept
  BY Zenon DEF KeyKept, Settle, redis, peers
<1>9. ToldOK'
  BY <1>1, <1>2, <1>3, PresenceAssumption, ToldKept DEF TypeOK, LinkOK, ToldOK, Settle, redis, peers
<1>10. QED
  BY Zenon, <1>2, <1>3, <1>4, <1>5, <1>6, <1>7, <1>8, <1>9, Moved

\* The entry of a socket closed meanwhile goes.
LEMMA WithdrawKeeps ==
    ASSUME PresenceInv, NEW s \in Socket, NEW ok \in BOOLEAN, Withdraw(s, ok)
    PROVE  PresenceInv'
<1>1. TypeOK /\ LinkOK(s) /\ EntryOK(s) /\ ShownOK(s) /\ ToldOK
  BY Zenon DEF PresenceInv
<1>2. TypeOK'
  BY <1>1, PresenceAssumption DEF TypeOK, LinkOK, Withdraw, Tell, redis, peers
<1>3. \A t \in Socket \ {s} : Same(t)
  BY Zenon, <1>1 DEF TypeOK, Same, Withdraw, Tell, redis, peers
<1>4. LinkOK(s)'
  BY Zenon, <1>1, PresenceAssumption DEF TypeOK, LinkOK, Withdraw, Tell, redis, peers
<1>5. EntryOK(s)'
  BY Zenon, <1>1, PresenceAssumption DEF TypeOK, LinkOK, EntryOK, Withdraw, Tell, redis, peers
<1>6. ShownOK(s)'
  BY Zenon, <1>1, PresenceAssumption DEF TypeOK, LinkOK, ShownOK, Withdraw, Tell, redis, peers
<1>7. told = "unsure" => told' = "unsure"
  BY Zenon DEF Withdraw, Tell, peers
<1>8. KeyKept
  BY Zenon DEF KeyKept, Withdraw, Tell, redis, peers
<1>9. ToldOK'
  BY <1>1, <1>2, <1>3, Counted DEF TypeOK, LinkOK, ToldOK, Same, Withdraw, Tell, redis, peers
<1>10. QED
  BY Zenon, <1>2, <1>3, <1>4, <1>5, <1>6, <1>7, <1>8, <1>9, Moved

\* user:joined.
LEMMA AnnounceKeeps ==
    ASSUME PresenceInv, NEW s \in Socket, NEW ok \in BOOLEAN, Announce(s, ok)
    PROVE  PresenceInv'
<1>1. TypeOK /\ LinkOK(s) /\ EntryOK(s) /\ ShownOK(s) /\ ToldOK
  BY Zenon DEF PresenceInv
<1>2. TypeOK'
  BY Zenon, <1>1, PresenceAssumption DEF TypeOK, LinkOK, Announce, Tell, redis, peers
<1>3. \A t \in Socket \ {s} : Same(t)
  BY Zenon, <1>1 DEF TypeOK, Same, Announce, Tell, redis, peers
<1>4. LinkOK(s)'
  BY Zenon, <1>1, PresenceAssumption DEF TypeOK, LinkOK, Announce, Tell, redis, peers
<1>5. EntryOK(s)'
  BY Zenon, <1>1, PresenceAssumption DEF TypeOK, LinkOK, EntryOK, Announce, Tell, redis, peers
<1>6. ShownOK(s)'
  BY Zenon, <1>1, PresenceAssumption DEF TypeOK, LinkOK, ShownOK, Announce, Tell, redis, peers
<1>7. told = "unsure" => told' = "unsure"
  BY Zenon DEF Announce, Tell, peers
<1>8. KeyKept
  BY Zenon DEF KeyKept, Announce, Tell, redis, peers
<1>9. ToldOK'
  <2> SUFFICES ASSUME told' # "unsure" PROVE ToldOK'
    BY Zenon DEF ToldOK
  <2>1. reg' = reg /\ bye' = bye /\ open' = open /\ pc[s] = "peers" /\ pc'[s] = "done"
    BY Zenon, <1>1 DEF TypeOK, Announce, redis
  <2>2. told # "unsure" /\ ToldOK
    BY Zenon, <1>1, <1>7
  <2>3. CASE first[s]
    <3>1. told' = "joined" /\ open[s]
      BY Zenon, <2>3 DEF Announce, Tell
    <3>2. reg[s] > 0
      BY Zenon, <2>1, <2>2, <3>1, InRegistry
    <3>3. QED
      BY <1>3, <2>1, <2>2, <3>1, <3>2 DEF ToldOK, Same
  <2>4. CASE ~first[s]
    <3>1. told' = told /\ first'[s] = first[s]
      BY Zenon, <1>1, <2>4 DEF Announce, TypeOK
    <3>2. QED
      BY Zenon, <1>3, <2>1, <2>2, <3>1 DEF ToldOK, Same
  <2>5. QED
    BY Zenon, <2>3, <2>4
<1>10. QED
  BY Zenon, <1>2, <1>3, <1>4, <1>5, <1>6, <1>7, <1>8, <1>9, Moved

\* A socket closes.
LEMMA CloseKeeps ==
    ASSUME PresenceInv, NEW s \in Socket, Close(s)
    PROVE  PresenceInv'
<1>1. TypeOK /\ LinkOK(s) /\ EntryOK(s) /\ ShownOK(s) /\ ToldOK
  BY Zenon DEF PresenceInv
<1>2. TypeOK'
  BY <1>1, PresenceAssumption DEF TypeOK, LinkOK, Close, redis, peers
<1>3. \A t \in Socket \ {s} : Same(t)
  BY Zenon, <1>1 DEF TypeOK, Same, Close, redis, peers
<1>4. LinkOK(s)'
  BY Zenon, <1>1, PresenceAssumption DEF TypeOK, LinkOK, Close, redis, peers
<1>5. EntryOK(s)'
  BY Zenon, <1>1, PresenceAssumption DEF TypeOK, LinkOK, EntryOK, Close, redis, peers
<1>6. ShownOK(s)'
  BY Zenon, <1>1, PresenceAssumption DEF TypeOK, LinkOK, ShownOK, Close, redis, peers
<1>7. told = "unsure" => told' = "unsure"
  BY Zenon DEF Close, peers
<1>8. KeyKept
  BY Zenon DEF KeyKept, Close, redis, peers
<1>9. ToldOK'
  BY SMTT(20), <1>1, <1>2, <1>3, PresenceAssumption, ToldKept DEF TypeOK, LinkOK, ToldOK, Close, redis, peers
<1>10. QED
  BY Zenon, <1>2, <1>3, <1>4, <1>5, <1>6, <1>7, <1>8, <1>9, Moved

\* removeSocket: the last entry owes the peers a user:left.
LEMMA UnregisterKeeps ==
    ASSUME PresenceInv, NEW s \in Socket, NEW ok \in BOOLEAN, Unregister(s, ok)
    PROVE  PresenceInv'
<1>1. TypeOK /\ LinkOK(s) /\ EntryOK(s) /\ ShownOK(s) /\ ToldOK
  BY Zenon DEF PresenceInv
<1>2. TypeOK'
  BY <1>1, PresenceAssumption DEF TypeOK, LinkOK, Unregister, Tell, redis, peers
<1>3. \A t \in Socket \ {s} : Same(t)
  BY Zenon, <1>1 DEF TypeOK, Same, Unregister, Tell, redis, peers
<1>4. LinkOK(s)'
  BY Zenon, <1>1, PresenceAssumption DEF TypeOK, LinkOK, Unregister, Tell, redis, peers
<1>5. EntryOK(s)'
  BY Zenon, <1>1, PresenceAssumption DEF TypeOK, LinkOK, EntryOK, Unregister, Tell, redis, peers
<1>6. ShownOK(s)'
  BY Zenon, <1>1, PresenceAssumption DEF TypeOK, LinkOK, ShownOK, Unregister, Tell, redis, peers
<1>7. told = "unsure" => told' = "unsure"
  BY Zenon DEF Unregister, Tell, peers
<1>8. KeyKept
  BY Zenon DEF KeyKept, Unregister, Tell, redis, peers
<1>9. ToldOK'
  BY <1>1, <1>2, <1>3, Counted DEF TypeOK, LinkOK, ToldOK, Same, Unregister, Tell, redis, peers
<1>10. QED
  BY Zenon, <1>2, <1>3, <1>4, <1>5, <1>6, <1>7, <1>8, <1>9, Moved

\* setOffline: a socket in the registry is hidden by it.
LEMMA GoOfflineKeeps ==
    ASSUME PresenceInv, NEW s \in Socket, NEW ok \in BOOLEAN, GoOffline(s, ok)
    PROVE  PresenceInv'
<1>1. TypeOK /\ LinkOK(s) /\ EntryOK(s) /\ ShownOK(s) /\ ToldOK
  BY Zenon DEF PresenceInv
<1>2. TypeOK'
  BY <1>1, PresenceAssumption DEF TypeOK, LinkOK, GoOffline, redis, peers
<1>3. \A t \in Socket \ {s} : Same(t)
  BY Zenon, <1>1 DEF TypeOK, Same, GoOffline, redis, peers
<1>4. LinkOK(s)'
  BY Zenon, <1>1, PresenceAssumption DEF TypeOK, LinkOK, GoOffline, redis, peers
<1>5. EntryOK(s)'
  BY Zenon, <1>1, PresenceAssumption DEF TypeOK, LinkOK, EntryOK, GoOffline, redis, peers
<1>6. ShownOK(s)'
  BY Zenon, <1>1, PresenceAssumption DEF TypeOK, LinkOK, ShownOK, GoOffline, redis, peers
<1>7. told = "unsure" => told' = "unsure"
  BY Zenon DEF GoOffline, peers
<1>8. KeyKept
  <2>1. reg \in [Socket -> Nat]
    BY <1>1, PresenceAssumption DEF TypeOK
  <2>2. Count(reg) > 0 \/ \A t \in Socket : reg[t] = 0
    BY <2>1, Counted
  <2>3. QED
    BY Zenon, <2>2 DEF KeyKept, GoOffline
<1>9. ToldOK'
  BY SMTT(20), <1>1, <1>2, <1>3, PresenceAssumption, ToldKept DEF TypeOK, LinkOK, ToldOK, GoOffline, redis, peers
<1>10. QED
  BY Zenon, <1>2, <1>3, <1>4, <1>5, <1>6, <1>7, <1>8, <1>9, Moved

\* user:left.
LEMMA TellLeftKeeps ==
    ASSUME PresenceInv, NEW s \in Socket, NEW ok \in BOOLEAN, TellLeft(s, ok)
    PROVE  PresenceInv'
<1>1. TypeOK /\ LinkOK(s) /\ EntryOK(s) /\ ShownOK(s) /\ ToldOK
  BY Zenon DEF PresenceInv
<1>2. TypeOK'
  BY Zenon, <1>1, PresenceAssumption DEF TypeOK, LinkOK, TellLeft, Tell, redis, peers
<1>3. \A t \in Socket \ {s} : Same(t)
  BY Zenon, <1>1 DEF TypeOK, Same, TellLeft, Tell, redis, peers
<1>4. LinkOK(s)'
  BY Zenon, <1>1, PresenceAssumption DEF TypeOK, LinkOK, TellLeft, Tell, redis, peers
<1>5. EntryOK(s)'
  BY Zenon, <1>1, PresenceAssumption DEF TypeOK, LinkOK, EntryOK, TellLeft, Tell, redis, peers
<1>6. ShownOK(s)'
  BY Zenon, <1>1, PresenceAssumption DEF TypeOK, LinkOK, ShownOK, TellLeft, Tell, redis, peers
<1>7. told = "unsure" => told' = "unsure"
  BY Zenon DEF TellLeft, Tell, peers
<1>8. KeyKept
  BY Zenon DEF KeyKept, TellLeft, Tell, redis, peers
<1>9. ToldOK'
  BY <1>1, <1>2, <1>3, Counted DEF TypeOK, LinkOK, ToldOK, Same, TellLeft, Tell, redis, peers
<1>10. QED
  BY Zenon, <1>2, <1>3, <1>4, <1>5, <1>6, <1>7, <1>8, <1>9, Moved

\* The node dies.
LEMMA CrashKeeps ==
    ASSUME PresenceInv, NEW s \in Socket, Crash(s)
    PROVE  PresenceInv'
<1>1. TypeOK /\ LinkOK(s) /\ EntryOK(s) /\ ShownOK(s) /\ ToldOK
  BY Zenon DEF PresenceInv
<1>2. TypeOK'
  BY <1>1, PresenceAssumption DEF TypeOK, LinkOK, Crash, Tell, redis, peers
<1>3. \A t \in Socket \ {s} : Same(t)
  BY Zenon, <1>1 DEF TypeOK, Same, Crash, Tell, redis, peers
<1>4. LinkOK(s)'
  BY Zenon, <1>1, PresenceAssumption DEF TypeOK, LinkOK, Crash, Tell, redis, peers
<1>5. EntryOK(s)'
  BY Zenon, <1>1, PresenceAssumption DEF TypeOK, LinkOK, EntryOK, Crash, Tell, redis, peers
<1>6. ShownOK(s)'
  BY Zenon, <1>1, PresenceAssumption DEF TypeOK, LinkOK, ShownOK, Crash, Tell, redis, peers
<1>7. told = "unsure" => told' = "unsure"
  BY Zenon DEF Crash, Tell, peers
<1>8. KeyKept
  BY Zenon DEF KeyKept, Crash, Tell, redis, peers
<1>9. ToldOK'
  BY Zenon, <1>1, <1>2, <1>3, PresenceAssumption, ToldKept DEF TypeOK, LinkOK, ToldOK, Crash, Tell, redis, peers
<1>10. QED
  BY Zenon, <1>2, <1>3, <1>4, <1>5, <1>6, <1>7, <1>8, <1>9, Moved

\* refreshSocket.
LEMMA RefreshSocketKeeps ==
    ASSUME PresenceInv, NEW s \in Socket, NEW ok \in BOOLEAN, RefreshSocket(s, ok),
           (beat[s] = "due" /\ timer[s]) \/ (beat[s] = "done" /\ open[s] /\ pc[s] \notin {"idle", "auth"})
    PROVE  PresenceInv'
<1>1. TypeOK /\ LinkOK(s) /\ EntryOK(s) /\ ShownOK(s) /\ ToldOK
  BY Zenon DEF PresenceInv
<1>2. TypeOK'
  BY <1>1, PresenceAssumption DEF TypeOK, LinkOK, RefreshSocket, Tell, redis, peers
<1>3. \A t \in Socket \ {s} : Same(t)
  BY Zenon, <1>1 DEF TypeOK, Same, RefreshSocket, Tell, redis, peers
<1>4. LinkOK(s)'
  BY Zenon, <1>1, PresenceAssumption DEF TypeOK, LinkOK, RefreshSocket, Tell, redis, peers
<1>5. EntryOK(s)'
  BY <1>1, PresenceAssumption DEF TypeOK, LinkOK, EntryOK, RefreshSocket, Tell, redis, peers
<1>6. ShownOK(s)'
  BY <1>1, PresenceAssumption DEF TypeOK, LinkOK, ShownOK, RefreshSocket, Tell, redis, peers
<1>7. told = "unsure" => told' = "unsure"
  BY Zenon DEF RefreshSocket, Tell, peers
<1>8. KeyKept
  BY Zenon DEF KeyKept, RefreshSocket, Tell, redis, peers
<1>9. ToldOK'
  BY SMTT(20), <1>1, <1>2, <1>3, PresenceAssumption, ToldKept DEF TypeOK, LinkOK, ToldOK, RefreshSocket, Tell, redis, peers
<1>10. QED
  BY Zenon, <1>2, <1>3, <1>4, <1>5, <1>6, <1>7, <1>8, <1>9, Moved

\* setOnline ends a beat.
LEMMA BeatOnlineKeeps ==
    ASSUME PresenceInv, NEW s \in Socket, NEW ok \in BOOLEAN, BeatOnline(s, ok)
    PROVE  PresenceInv'
<1>1. TypeOK /\ LinkOK(s) /\ EntryOK(s) /\ ShownOK(s) /\ ToldOK
  BY Zenon DEF PresenceInv
<1>2. TypeOK'
  BY <1>1, PresenceAssumption DEF TypeOK, LinkOK, BeatOnline, redis, peers
<1>3. \A t \in Socket \ {s} : Same(t)
  BY Zenon, <1>1 DEF TypeOK, Same, BeatOnline, redis, peers
<1>4. LinkOK(s)'
  BY Zenon, <1>1, PresenceAssumption DEF TypeOK, LinkOK, BeatOnline, redis, peers
<1>5. EntryOK(s)'
  BY <1>1, PresenceAssumption DEF TypeOK, LinkOK, EntryOK, BeatOnline, redis, peers
<1>6. ShownOK(s)'
  BY <1>1, PresenceAssumption DEF TypeOK, LinkOK, ShownOK, BeatOnline, redis, peers
<1>7. told = "unsure" => told' = "unsure"
  BY Zenon DEF BeatOnline, peers
<1>8. KeyKept
  BY Zenon DEF KeyKept, BeatOnline, redis, peers
<1>9. ToldOK'
  BY Zenon, <1>1, <1>2, <1>3, PresenceAssumption, ToldKept DEF TypeOK, LinkOK, ToldOK, BeatOnline, redis, peers
<1>10. QED
  BY Zenon, <1>2, <1>3, <1>4, <1>5, <1>6, <1>7, <1>8, <1>9, Moved

\* Login and logout touch no socket.
LEMMA LoginKeeps ==
    ASSUME PresenceInv, LoginOnline \/ LogoutOffline
    PROVE  PresenceInv'
<1>1. TypeOK
  BY Zenon DEF PresenceInv
<1>2. UNCHANGED <<link, reg, told>>
  BY Zenon DEF LoginOnline, LogoutOffline
<1>3. TypeOK'
  <2>1. online' \in 0 .. PresenceTtl /\ logins' \in 0 .. MaxLogins
    BY <1>1, PresenceAssumption DEF TypeOK, LoginOnline, LogoutOffline
  <2>2. hidden' \in BOOLEAN
    BY Zenon, <1>1 DEF TypeOK, LoginOnline, LogoutOffline
  <2>3. QED
    BY Zenon, <1>1, <1>2, <2>1, <2>2 DEF TypeOK, link
<1>4. \A t \in Socket : Same(t)
  BY Zenon, <1>2 DEF Same, link
<1>5. KeyKept
  <2>1. reg \in [Socket -> Nat]
    BY <1>1, PresenceAssumption DEF TypeOK
  <2>2. Count(reg) > 0 \/ \A t \in Socket : reg[t] = 0
    BY <2>1, Counted
  <2>3. QED
    BY Zenon, <2>2 DEF KeyKept, LoginOnline, LogoutOffline
<1>6. \A t \in Socket : LinkOK(t)' /\ EntryOK(t)' /\ ShownOK(t)'
  BY Zenon, <1>2, <1>4, <1>5, SameKept
<1>7. ToldOK'
  BY Zenon, <1>2 DEF PresenceInv, ToldOK, link
<1>8. QED
  BY Zenon, <1>3, <1>6, <1>7 DEF PresenceInv

\* A period goes by when every beat is done: an entry whose socket beats has two
\* periods left, so none dies, and the beats are due again.
LEMMA TickKeeps ==
    ASSUME PresenceInv, Tick
    PROVE  PresenceInv'
<1>1. TypeOK /\ ToldOK /\ Settled
  BY Zenon DEF PresenceInv, Tick
<1>2. UNCHANGED <<open, pc, bye, first, timer, missed, unseen, told, hidden, logins>>
  BY Zenon DEF Tick, peers
<1>3. /\ reg' = [s \in Socket |-> IF reg[s] = 0 THEN 0 ELSE reg[s] - 1]
      /\ online' = IF online = 0 THEN 0 ELSE online - 1
      /\ beat' = [s \in Socket |-> IF timer[s] THEN "due" ELSE "done"]
  BY Zenon DEF Tick
<1>4. reg' \in [Socket -> 0 .. Dead] /\ online' \in 0 .. PresenceTtl
  BY <1>1, <1>3, PresenceAssumption DEF TypeOK
<1>5. TypeOK'
  BY Zenon, <1>1, <1>2, <1>3, <1>4 DEF TypeOK
<1>6. ASSUME NEW s \in Socket PROVE LinkOK(s)' /\ EntryOK(s)' /\ ShownOK(s)'
  <2>1. /\ LinkOK(s) /\ EntryOK(s) /\ ShownOK(s)
        /\ pc[s] \in {"idle", "done"} /\ bye[s] = "idle" /\ (timer[s] => beat[s] = "done")
    BY Zenon, <1>1 DEF PresenceInv, Settled
  <2>2. reg[s] \in Nat /\ missed[s] \in Nat /\ online \in Nat /\ PresenceTtl \in Nat /\ Dead \in Nat
    BY <1>1, PresenceAssumption DEF TypeOK
  <2>3. /\ reg'[s] = (IF reg[s] = 0 THEN 0 ELSE reg[s] - 1)
        /\ beat'[s] = (IF timer[s] THEN "due" ELSE "done")
    BY Zenon, <1>3
  <2>4. LinkOK(s)'
    BY Zenon, <1>2, <2>1, <2>3 DEF LinkOK
  <2>5. EntryOK(s)'
    <3> SUFFICES ASSUME open[s], pc[s] = "done", s \notin unseen \/ told # "unsure"
                 PROVE  reg'[s] + missed[s] + 1 >= Dead /\ beat'[s] = "due"
      BY Zenon, <1>2, <2>1 DEF LinkOK, EntryOK
    <3>1. timer[s] /\ beat[s] = "done"
      BY Zenon, <2>1 DEF LinkOK
    <3>2. reg[s] > 1
      BY Zenon, <3>1, InRegistry
    <3>3. reg[s] + missed[s] >= Dead
      BY <2>1, <2>2, <3>1 DEF EntryOK
    <3>4. QED
      BY SMTT(20), <2>2, <2>3, <3>1, <3>2, <3>3
  <2>6. ShownOK(s)'
    BY SMTT(20), <1>2, <1>3, <2>1, <2>2, <2>3 DEF LinkOK, ShownOK
  <2>7. QED
    BY Zenon, <2>4, <2>5, <2>6
<1>7. ToldOK'
  <2> SUFFICES ASSUME told # "unsure" PROVE ToldOK'
    BY Zenon, <1>2 DEF ToldOK
  <2>1. ASSUME NEW s \in Socket, reg[s] > 0 PROVE reg'[s] > 0
    <3>1. LinkOK(s) /\ pc[s] \in {"idle", "done"} /\ bye[s] = "idle" /\ (timer[s] => beat[s] = "done")
      BY Zenon, <1>1 DEF PresenceInv, Settled
    <3>2. reg[s] \in Nat /\ reg[s] # 0
      BY <1>1, <2>1, PresenceAssumption DEF TypeOK
    <3>3. open[s] /\ pc[s] = "done"
      BY Zenon, <1>1, <2>1, <3>1, <3>2 DEF LinkOK, ToldOK
    <3>4. reg[s] > 1
      BY Zenon, <3>1, <3>3, InRegistry DEF LinkOK
    <3>5. QED
      BY <1>3, <3>2, <3>4
  <2>2. \A s \in Socket : /\ reg'[s] > 0 <=> reg[s] > 0
                          /\ reg'[s] = 0 <=> reg[s] = 0
    BY <1>1, <1>3, <1>4, <2>1, PresenceAssumption DEF TypeOK
  <2>3. QED
    BY Zenon, <1>1, <1>2, <2>2 DEF ToldOK
<1>8. QED
  BY Zenon, <1>5, <1>6, <1>7 DEF PresenceInv

\* Every step keeps the invariant.
LEMMA PresenceStep == PresenceInv /\ [Next]_vars => PresenceInv'
<1> SUFFICES ASSUME PresenceInv, [Next]_vars PROVE PresenceInv'
  BY Zenon
<1>1. ASSUME NEW s \in Socket, Client(s) PROVE PresenceInv'
  BY Zenon, <1>1, ConnectKeeps, CloseKeeps, CrashKeeps, RefreshSocketKeeps DEF Client, Heartbeat
<1>2. ASSUME NEW s \in Socket, Handle(s) PROVE PresenceInv'
  BY Zenon, <1>2, AbandonKeeps, SettleKeeps, AuthenticateKeeps, RegisterKeeps, ConnectOnlineKeeps,
     WithdrawKeeps, AnnounceKeeps DEF Handle
<1>3. ASSUME NEW s \in Socket, Leave(s) PROVE PresenceInv'
  BY Zenon, <1>3, UnregisterKeeps, GoOfflineKeeps, TellLeftKeeps DEF Leave
<1>4. ASSUME NEW s \in Socket, Beat(s) PROVE PresenceInv'
  BY Zenon, <1>4, RefreshSocketKeeps, BeatOnlineKeeps DEF Beat, Refresh
<1>5. CASE UNCHANGED vars
  BY Zenon, <1>5 DEF vars, link, redis, peers, PresenceInv, TypeOK, LinkOK, EntryOK, ShownOK, ToldOK
<1>6. QED
  BY Zenon, <1>1, <1>2, <1>3, <1>4, <1>5, TickKeeps, LoginKeeps DEF Next

\* What a socket, its entry and the presence key owe each other, always.
THEOREM PresenceInvTheorem == Spec => []PresenceInv
<1>1. QED
  BY PresenceInit, PresenceStep, PTL DEF Spec

\* startHeartbeat: a socket that beats is not pruned from the registry while
\* fewer beats in a row fail than socketStaleMs allows for, and its user is shown
\* online while fewer fail than presenceSeconds allows for.
THEOREM AliveTheorem == Spec => []BeatingIsAlive
<1>1. PresenceInv => BeatingIsAlive
  <2> SUFFICES ASSUME PresenceInv PROVE BeatingIsAlive
    BY Zenon
  <2>1. ASSUME NEW s \in Live \ unseen
        PROVE  reg[s] > 0 /\ (missed[s] <= PresenceTtl - 2 /\ ~hidden => online > 0)
    <3>1. s \in Socket /\ open[s] /\ pc[s] \in {"peers", "done"} /\ s \notin unseen /\ ShownOK(s)
      BY Zenon, <2>1 DEF Live, PresenceInv, LinkOK
    <3>2. missed[s] \in Nat /\ online \in Nat /\ PresenceTtl \in Nat
      BY <3>1, PresenceAssumption DEF PresenceInv, TypeOK
    <3>3. reg[s] > 0
      BY Zenon, <3>1, InRegistry
    <3>4. QED
      BY <3>1, <3>2, <3>3 DEF ShownOK
  <2>2. QED
    BY Zenon, <2>1 DEF BeatingIsAlive
<1>2. QED
  BY <1>1, PresenceInvTheorem, PTL

\* pushPresence and handleDisconnect: at rest the peers have heard user:joined
\* last if and only if the user has a live socket, unless one of the failures
\* that PeersKnow names has made them unsure.
THEOREM PeersTheorem == Spec => []PeersKnow
<1>1. PresenceInv => PeersKnow
  <2> SUFFICES ASSUME PresenceInv, Settled, told # "unsure" PROVE told = "joined" <=> Live # {}
    BY Zenon DEF PeersKnow
  <2>1. ToldOK /\ told \in {"joined", "left"} /\ reg \in [Socket -> Nat]
    BY PresenceAssumption DEF PresenceInv, TypeOK
  <2>2. ASSUME NEW s \in Socket PROVE reg[s] > 0 <=> s \in Live
    <3>1. LinkOK(s) /\ pc[s] \in {"idle", "done"} /\ bye[s] = "idle" /\ reg[s] \in Nat
      BY Zenon, <2>1 DEF PresenceInv, Settled
    <3>2. ASSUME s \in Live PROVE reg[s] > 0
      BY Zenon, <3>1, <3>2, InRegistry DEF Live, LinkOK
    <3>3. ASSUME reg[s] > 0 PROVE s \in Live
      BY Zenon, <2>1, <3>1, <3>3 DEF Live, LinkOK, ToldOK
    <3>4. QED
      BY Zenon, <3>2, <3>3
  <2>3. \A s \in Socket : ~first[s] /\ bye[s] = "idle"
    BY Zenon DEF PresenceInv, LinkOK, Settled
  <2>4. Live # {} <=> \E s \in Socket : reg[s] > 0
    BY Zenon, <2>2 DEF Live
  <2>5. (\E s \in Socket : reg[s] > 0) \/ \A s \in Socket : reg[s] = 0
    BY <2>1
  <2>6. QED
    BY Zenon, <2>1, <2>3, <2>4, <2>5 DEF ToldOK
<1>2. QED
  BY <1>1, PresenceInvTheorem, PTL
=============================================================================
