---------------------------- MODULE DeliveryProofs ----------------------------
(***************************************************************************)
(* Proofs about delivery, for any members, messages, get-pending calls,    *)
(* batch size and faults: a recipient misses a message only in the ways    *)
(* "lost" records, and get-pending removes nothing but its own batch.      *)
(***************************************************************************)
EXTENDS Delivery, TLAPS

Sends == [pc : {"idle", "store", "look", "emit", "enqueue"}, at : Nat, msg : Nat,
          offline : SUBSET User]

Pops == [pc : {"rem", "cut"}, user : User, batch : SUBSET Nat]

DeliveryType ==
    /\ log \in Seq([from : User, at : Nat])
    /\ clock \in Nat
    /\ send \in [User -> Sends]
    /\ \A j \in jobs : j.msg \in Nat /\ j.offline \subseteq User
    /\ {seen, pending, queued, taken} \subseteq [User -> SUBSET Nat]
    /\ DOMAIN pop = Call
    /\ \A c \in Call : pop[c] = NoPop \/ pop[c] \in Pops

\* The user has been sent the message, has or took it from the offline queue,
\* or lost it in a way that is on record.
Reached(m, v) == m \in seen[v] \cup pending[v] \cup taken[v] \/ IsLost(m, v)

\* A send that has stored its message knows it; after the broadcast only those
\* it will hand to the job are left to be reached.
SendOK ==
    \A u \in User :
        /\ send[u].pc \in {"idle", "store"} => send[u].msg = 0
        /\ send[u].pc \in {"look", "emit", "enqueue"} =>
              send[u].msg \in Position /\ log[send[u].msg].from = u
        /\ send[u].pc = "enqueue" =>
              \A v \in Recipients(u) : Reached(send[u].msg, v) \/ v \in send[u].offline

\* A queued message that left the queue on record.
Unread(m, u) == \E x \in lost : x.msg = m /\ x.user = u /\ x.why = "unread"

DeliveryInv == DeliveryType /\ SendOK /\ NothingElseIsLost /\ QueuedIsKept

\* What a step may do to those who were reached: nothing.
Keeps == \A m \in Nat, v \in User : Reached(m, v) => Reached(m, v)'
-----------------------------------------------------------------------------
\* Nothing is stored, queued or in flight at first.
LEMMA DeliveryInit == Init => DeliveryInv
<1> SUFFICES ASSUME Init PROVE DeliveryInv
  OBVIOUS
<1>1. DeliveryType
  BY DEF Init, DeliveryType, Sends, NoSend, NoPop
<1>2. Position = {}
  BY DEF Init, Position
<1>3. SendOK
  BY DEF Init, SendOK, NoSend
<1>4. NothingElseIsLost /\ QueuedIsKept
  BY <1>2 DEF Init, NothingElseIsLost, QueuedIsKept
<1>5. QED
  BY <1>1, <1>3, <1>4 DEF DeliveryInv

\* Lost records every message for every user.
LEMMA LostHas ==
    ASSUME NEW M, NEW U, NEW why, NEW m \in M, NEW u \in U
    PROVE  [msg |-> m, user |-> u, why |-> why] \in Lost(M, U, why)
  BY DEF Lost

\* An element of a sequence, and a sequence with one element more.
LEMMA SeqFacts ==
    ASSUME NEW S, NEW q \in Seq(S), NEW e \in S
    PROVE  /\ Len(q) \in Nat
           /\ \A i \in 1 .. Len(q) : q[i] \in S /\ Append(q, e)[i] = q[i]
           /\ Append(q, e) \in Seq(S)
           /\ Len(Append(q, e)) = Len(q) + 1
           /\ Append(q, e)[Len(q) + 1] = e
  OBVIOUS

\* A stored message has a sender.
LEMMA LogEntry ==
    ASSUME DeliveryType, NEW m \in Position
    PROVE  m \in Nat /\ log[m].from \in User
<1>1. log \in Seq([from : User, at : Nat]) /\ m \in 1 .. Len(log)
  BY DEF DeliveryType, Position
<1> DEFINE S == [from : User, at : Nat]
<1>2. log \in Seq(S) /\ m \in 1 .. Len(log)
  BY <1>1
<1> HIDE DEF S
<1>3. m \in Nat /\ log[m] \in S
  BY <1>2
<1>4. QED
  BY <1>3 DEF S

\* Sockets come and go, and get-pending reads, without touching a message.
LEMMA ReadStep ==
    ASSUME DeliveryInv,
           \/ \E u \in User : Connect(u) \/ Disconnect(u)
           \/ \E c \in Call, u \in User : PopRead(c, u)
    PROVE  DeliveryInv'
<1>1. UNCHANGED <<log, clock, send, jobs, seen, pending, queued, taken, lost>>
  BY DEF Connect, Disconnect, PopRead
<1>2. DOMAIN pop' = Call /\ \A c \in Call : pop'[c] = NoPop \/ pop'[c] \in Pops
  <2>1. DOMAIN pop = Call /\ \A c \in Call : pop[c] = NoPop \/ pop[c] \in Pops
    BY DEF DeliveryInv, DeliveryType
  <2>2. CASE \E u \in User : Connect(u)
    BY <2>1, <2>2 DEF Connect
  <2>3. ASSUME NEW u \in User, Disconnect(u)
        PROVE  DOMAIN pop' = Call /\ \A c \in Call : pop'[c] = NoPop \/ pop'[c] \in Pops
    <3>1. pop' = [c \in Call |-> IF pop[c].pc = "rem" /\ pop[c].user = u
                                 THEN [pop[c] EXCEPT !.pc = "cut"] ELSE pop[c]]
      BY <2>3 DEF Disconnect
    <3>2. ASSUME NEW c \in Call, pop[c].pc = "rem"
          PROVE  [pop[c] EXCEPT !.pc = "cut"] \in Pops
      BY <2>1, <3>2 DEF Pops, NoPop
    <3>3. QED
      BY <2>1, <3>1, <3>2
  <2>4. ASSUME NEW c \in Call, NEW u \in User, PopRead(c, u)
        PROVE  DOMAIN pop' = Call /\ \A d \in Call : pop'[d] = NoPop \/ pop'[d] \in Pops
    <3> DEFINE p == [pc |-> "rem", user |-> u, batch |-> ZRange(pending[u], Batch)]
    <3>1. ZRange(pending[u], Batch) \in SUBSET Nat
      BY DEF ZRange, DeliveryInv, DeliveryType
    <3>2. p \in Pops /\ pop' = [pop EXCEPT ![c] = p]
      BY <2>4, <3>1 DEF PopRead, Pops
    <3> HIDE DEF p
    <3>3. QED
      BY <2>1, <3>2
  <2>5. QED
    BY <2>2, <2>3, <2>4
<1>3. DeliveryType'
  BY <1>1, <1>2 DEF DeliveryInv, DeliveryType
<1>4. SendOK'
  BY <1>1 DEF DeliveryInv, SendOK, Position, Reached, IsLost
<1>5. NothingElseIsLost' /\ QueuedIsKept'
  BY <1>1 DEF DeliveryInv, NothingElseIsLost, QueuedIsKept, Position, IsLost
<1>6. QED
  BY <1>3, <1>4, <1>5 DEF DeliveryInv

\* A step that leaves the store and the sends alone, and that reaches whoever
\* an ended job was for.
LEMMA QuietStep ==
    ASSUME DeliveryInv, DeliveryType', Keeps, QueuedIsKept', UNCHANGED <<log, send>>,
           \A j \in jobs \ jobs' : \A v \in j.offline : Reached(j.msg, v)'
    PROVE  DeliveryInv'
<1>1. Position' = Position /\ Position \subseteq Nat
  BY DEF Position, DeliveryInv, DeliveryType
<1>2. SendOK'
  <2>1. ASSUME NEW u \in User, send[u].pc = "enqueue", NEW v \in Recipients(u)
        PROVE  Reached(send[u].msg, v)' \/ v \in send[u].offline
    <3>1. send[u].msg \in Nat /\ v \in User
      BY <1>1, <2>1 DEF DeliveryInv, SendOK, Recipients
    <3>2. Reached(send[u].msg, v) \/ v \in send[u].offline
      BY <2>1 DEF DeliveryInv, SendOK
    <3>3. ASSUME NEW m \in Nat, Reached(m, v) PROVE Reached(m, v)'
      BY <3>1, <3>3 DEF Keeps
    <3>4. PICK m \in Nat : m = send[u].msg
      BY <3>1
    <3>5. Reached(m, v) => Reached(send[u].msg, v)'
      BY <3>3, <3>4 DEF Reached, IsLost
    <3>6. QED
      BY <3>2, <3>4, <3>5
  <2>2. QED
    BY <1>1, <2>1 DEF DeliveryInv, SendOK, Recipients
<1>3. NothingElseIsLost'
  <2>1. ASSUME NEW m \in Position, NEW v \in Recipients(log[m].from)
        PROVE  \/ Reached(m, v)'
               \/ send[log[m].from].msg = m
               \/ \E j \in jobs' : j.msg = m /\ v \in j.offline
    <3>1. m \in Nat /\ v \in User
      BY <1>1 DEF Recipients
    <3>2. CASE Reached(m, v)
      BY <3>1, <3>2 DEF Keeps
    <3>3. CASE \E j \in jobs : j.msg = m /\ v \in j.offline
      <4>1. PICK j \in jobs : j.msg = m /\ v \in j.offline
        BY <3>3
      <4>2. j \notin jobs' => Reached(j.msg, v)'
        BY <3>1, <4>1
      <4>3. j \notin jobs' => Reached(m, v)'
        BY <4>1, <4>2 DEF Reached, IsLost
      <4>4. QED
        BY <4>1, <4>3
    <3>4. QED
      BY <3>2, <3>3 DEF DeliveryInv, NothingElseIsLost, Reached
  <2>2. QED
    BY <1>1, <2>1 DEF NothingElseIsLost, Reached, Recipients
<1>4. QED
  BY <1>2, <1>3 DEF DeliveryInv

\* The worker: addPendingMessage, its failure, and a stalled job.
LEMMA RunJobStep ==
    ASSUME DeliveryInv, NEW j \in jobs, RunJob(j)
    PROVE  DeliveryInv'
<1> USE DEF DeliveryType
<1>1. /\ UNCHANGED <<log, clock, send, seen, pop, taken>>
      /\ jobs' \subseteq jobs /\ jobs \ jobs' \subseteq {j}
      /\ j.msg \in Nat /\ j.offline \subseteq User
  BY DEF RunJob, DeliveryInv
<1>2. DeliveryType
  BY DEF DeliveryInv
<1>3. CASE UNCHANGED <<pending, queued>> /\ lost' = lost \cup Lost({j.msg}, j.offline, "unqueued")
  <2>1. \A v \in j.offline : [msg |-> j.msg, user |-> v, why |-> "unqueued"] \in lost'
    BY <1>3, LostHas
  <2>2. \A v \in j.offline : Reached(j.msg, v)'
    BY <1>1, <2>1 DEF Reached, IsLost
  <2>3. Keeps
    BY <1>1, <1>3 DEF Keeps, Reached, IsLost
  <2>4. DeliveryType'
    BY <1>1, <1>2, <1>3
  <2>5. QueuedIsKept'
    BY <1>1, <1>3 DEF DeliveryInv, QueuedIsKept
  <2>6. \A i \in jobs \ jobs' : \A v \in i.offline : Reached(i.msg, v)'
    BY <1>1, <2>2
  <2> HIDE DEF DeliveryType
  <2>7. QED
    BY <1>1, <2>3, <2>4, <2>5, <2>6, QuietStep
<1>4. CASE AddPending(j) /\ UNCHANGED lost
  <2>1. /\ pending' = [u \in User |-> IF u \in j.offline THEN pending[u] \cup {j.msg} ELSE pending[u]]
        /\ queued' = [u \in User |-> IF u \in j.offline THEN queued[u] \cup {j.msg} ELSE queued[u]]
    BY <1>4 DEF AddPending
  <2>2. \A v \in j.offline : j.msg \in pending'[v]
    BY <1>1, <2>1
  <2>3. \A v \in User : pending[v] \subseteq pending'[v]
    BY <2>1
  <2>4. Keeps
    BY <1>1, <1>4, <2>3 DEF Keeps, Reached, IsLost
  <2>5. QueuedIsKept'
    <3>1. ASSUME NEW u \in User, NEW m \in queued'[u]
          PROVE  m \in pending'[u] \cup taken[u] \/ Unread(m, u)
      BY <2>1, <2>2, <2>3 DEF DeliveryInv, QueuedIsKept, Unread
    <3>2. QED
      BY <1>1, <1>4, <3>1 DEF QueuedIsKept, Unread
  <2>6. \A i \in jobs \ jobs' : \A v \in i.offline : Reached(i.msg, v)'
    BY <1>1, <2>2 DEF Reached
  <2>7. DeliveryType'
    BY <1>1, <1>2, <1>4, <2>1
  <2> HIDE DEF DeliveryType
  <2>8. QED
    BY <1>1, <2>4, <2>5, <2>6, <2>7, QuietStep
<1>5. QED
  BY <1>3, <1>4 DEF RunJob

\* A step of the offline queue: what leaves it was taken or is on record.
LEMMA LeaveStep ==
    ASSUME DeliveryInv, UNCHANGED <<log, clock, send, jobs, seen, queued>>,
           DOMAIN pop' = Call, \A c \in Call : pop'[c] = NoPop \/ pop'[c] \in Pops,
           {pending', taken'} \subseteq [User -> SUBSET Nat], lost \subseteq lost',
           \A v \in User : taken[v] \subseteq taken'[v],
           \A v \in User : \A m \in pending[v] :
              m \in pending'[v] \cup taken'[v] \/ Unread(m, v)'
    PROVE  DeliveryInv'
<1>1. DeliveryType'
  BY DEF DeliveryInv, DeliveryType
<1>2. \A m, v : (IsLost(m, v) => IsLost(m, v)') /\ (Unread(m, v) => Unread(m, v)')
  BY DEF IsLost, Unread
<1>3. \A m, v : Unread(m, v)' => IsLost(m, v)'
  BY DEF IsLost, Unread
<1>4. Keeps
  BY <1>2, <1>3 DEF Keeps, Reached
<1>5. QueuedIsKept'
  <2>1. ASSUME NEW u \in User, NEW m \in queued[u]
        PROVE  m \in pending'[u] \cup taken'[u] \/ Unread(m, u)'
    <3>1. m \in pending[u] \cup taken[u] \/ Unread(m, u)
      BY DEF DeliveryInv, QueuedIsKept, Unread
    <3>2. QED
      BY <1>2, <3>1
  <2>2. QED
    BY <2>1 DEF QueuedIsKept, Unread
<1>6. QED
  BY <1>1, <1>4, <1>5, QuietStep

\* ZREM and the answer of get-pending: what is removed was in the batch.
LEMMA PopRemoveStep ==
    ASSUME DeliveryInv, NEW c \in Call, PopRemove(c)
    PROVE  DeliveryInv'
<1>1. DeliveryType /\ pop[c].pc \in {"rem", "cut"}
  BY DEF DeliveryInv, PopRemove
<1>2. pop[c] \in Pops
  BY <1>1 DEF DeliveryType, NoPop
<1>3. PICK u \in User, b \in SUBSET Nat : u = pop[c].user /\ b = pop[c].batch
  BY <1>2 DEF Pops
<1>4. UNCHANGED <<log, clock, send, jobs, seen, queued>> /\ pop' = [pop EXCEPT ![c] = NoPop]
  BY DEF PopRemove
<1>5. DOMAIN pop' = Call /\ \A d \in Call : pop'[d] = NoPop \/ pop'[d] \in Pops
  BY <1>1, <1>4 DEF DeliveryType
<1>6. {pending, taken} \subseteq [User -> SUBSET Nat]
  BY <1>1 DEF DeliveryType
<1>7. CASE /\ pending' = [pending EXCEPT ![u] = @ \ b]
           /\ taken' = [taken EXCEPT ![u] = @ \cup b] /\ UNCHANGED lost
  <2>1. /\ {pending', taken'} \subseteq [User -> SUBSET Nat]
        /\ \A v \in User : taken[v] \subseteq taken'[v]
        /\ \A v \in User : pending[v] \subseteq pending'[v] \cup taken'[v]
    BY <1>3, <1>6, <1>7
  <2>2. QED
    BY <1>4, <1>5, <1>7, <2>1, LeaveStep
<1>8. CASE /\ pending' = [pending EXCEPT ![u] = @ \ b]
           /\ lost' = lost \cup Lost(pending[u] \cap b, {u}, "unread") /\ UNCHANGED taken
  <2>1. \A m \in pending[u] \cap b : Unread(m, u)'
    <3>1. ASSUME NEW m \in pending[u] \cap b
          PROVE  [msg |-> m, user |-> u, why |-> "unread"] \in lost'
      BY <1>8, LostHas
    <3>2. QED
      BY <3>1 DEF Unread
  <2>2. /\ {pending', taken'} \subseteq [User -> SUBSET Nat]
        /\ \A v \in User : taken[v] \subseteq taken'[v]
        /\ \A v \in User : \A m \in pending[v] : m \in pending'[v] \/ (v = u /\ m \in b)
    BY <1>3, <1>6, <1>8
  <2>3. lost \subseteq lost'
    BY <1>8
  <2>4. \A v \in User : \A m \in pending[v] :
           m \in pending'[v] \cup taken'[v] \/ Unread(m, v)'
    BY <2>1, <2>2
  <2>5. QED
    BY <1>4, <1>5, <2>2, <2>3, <2>4, LeaveStep
<1>9. CASE UNCHANGED <<pending, taken, lost>>
  BY <1>4, <1>5, <1>6, <1>9, LeaveStep
<1>10. QED
  BY <1>3, <1>7, <1>8, <1>9 DEF PopRemove

\* The TTL of an offline queue puts all of it on record.
LEMMA ExpireStep ==
    ASSUME DeliveryInv, NEW u \in User, PendingExpire(u)
    PROVE  DeliveryInv'
<1>1. DeliveryType
  BY DEF DeliveryInv
<1>2. {pending, taken} \subseteq [User -> SUBSET Nat]
  BY <1>1 DEF DeliveryType
<1>3. /\ UNCHANGED <<log, clock, send, jobs, seen, pop, queued, taken>>
      /\ pending' = [pending EXCEPT ![u] = {}]
      /\ lost' = lost \cup Lost(pending[u], {u}, "unread")
  BY DEF PendingExpire
<1>4. \A m \in pending[u] : Unread(m, u)'
  <2>1. ASSUME NEW m \in pending[u]
        PROVE  [msg |-> m, user |-> u, why |-> "unread"] \in lost'
    BY <1>3, LostHas
  <2>2. QED
    BY <2>1 DEF Unread
<1>5. /\ {pending', taken'} \subseteq [User -> SUBSET Nat]
      /\ \A v \in User : taken[v] \subseteq taken'[v]
      /\ \A v \in User \ {u} : pending'[v] = pending[v]
  BY <1>2, <1>3
<1>6. \A v \in User : \A m \in pending[v] :
         m \in pending'[v] \cup taken'[v] \/ Unread(m, v)'
  BY <1>4, <1>5
<1>7. DOMAIN pop' = Call /\ \A c \in Call : pop'[c] = NoPop \/ pop'[c] \in Pops
  BY <1>1, <1>3 DEF DeliveryType
<1>8. lost \subseteq lost'
  BY <1>3
<1>9. QED
  BY <1>3, <1>5, <1>6, <1>7, <1>8, LeaveStep
-----------------------------------------------------------------------------
\* A step of u's send that stores nothing: it leaves the offline queues alone,
\* and if it lets go of its message m then whoever it had not reached is in a
\* job or on record.
LEMMA DispatchStep ==
    ASSUME DeliveryInv, NEW u \in User, NEW s \in Sends, NEW m \in Nat, m = send[u].msg,
           send' = [send EXCEPT ![u] = s], clock' \in Nat,
           UNCHANGED <<log, pending, pop, queued, taken>>,
           seen' \in [User -> SUBSET Nat], \A v \in User : seen[v] \subseteq seen'[v],
           lost \subseteq lost', jobs \subseteq jobs',
           \A j \in jobs' : j.msg \in Nat /\ j.offline \subseteq User,
           s.pc \in {"idle", "store"} => s.msg = 0,
           s.pc \in {"look", "emit", "enqueue"} => s.msg = m /\ m # 0,
           s.pc = "enqueue" => \A v \in Recipients(u) : Reached(m, v)' \/ v \in s.offline,
           s.msg # m => \A v \in Recipients(u) :
                           \/ \E j \in jobs' : j.msg = m /\ v \in j.offline
                           \/ Reached(m, v)'
    PROVE  DeliveryInv'
<1>1. /\ send \in [User -> Sends] /\ send' \in [User -> Sends] /\ send'[u] = s
      /\ \A v \in User \ {u} : send'[v] = send[v]
  BY DEF DeliveryInv, DeliveryType
<1>2. DeliveryType'
  BY <1>1 DEF DeliveryInv, DeliveryType
<1>3. \A l, v : IsLost(l, v) => IsLost(l, v)'
  BY DEF IsLost
<1>4. Keeps
  BY <1>3 DEF Keeps, Reached
<1>5. QueuedIsKept'
  BY DEF DeliveryInv, QueuedIsKept
<1>6. Position' = Position /\ Position \subseteq Nat
  BY DEF Position, DeliveryInv, DeliveryType
<1>7. ASSUME NEW w \in User
      PROVE  /\ send'[w].pc \in {"idle", "store"} => send'[w].msg = 0
             /\ send'[w].pc \in {"look", "emit", "enqueue"} =>
                   send'[w].msg \in Position /\ log[send'[w].msg].from = w
             /\ send'[w].pc = "enqueue" =>
                   \A v \in Recipients(w) : Reached(send[w].msg, v)' \/ v \in send'[w].offline
  <2>1. CASE w = u
    <3>1. m # 0 => m \in Position /\ log[m].from = u
      <4>1. send[u] \in Sends
        BY <1>1
      <4>2. send[u].pc \in {"idle", "store"} \/ send[u].pc \in {"look", "emit", "enqueue"}
        BY <4>1 DEF Sends
      <4>3. QED
        BY <4>2 DEF DeliveryInv, SendOK
    <3>2. s.pc = "enqueue" =>
             \A v \in Recipients(u) : Reached(send[u].msg, v)' \/ v \in s.offline
      BY <1>1 DEF Reached, IsLost
    <3>3. QED
      BY <1>1, <2>1, <3>1, <3>2
  <2>2. CASE w # u
    <3>1. /\ send'[w] = send[w]
          /\ send[w].pc \in {"idle", "store"} => send[w].msg = 0
          /\ send[w].pc \in {"look", "emit", "enqueue"} =>
                send[w].msg \in Position /\ log[send[w].msg].from = w
      BY <1>1, <2>2 DEF DeliveryInv, SendOK
    <3>2. ASSUME send[w].pc = "enqueue", NEW v \in Recipients(w)
          PROVE  Reached(send[w].msg, v)' \/ v \in send[w].offline
      <4>1. PICK l \in Nat : l = send[w].msg
        BY <1>6, <3>1, <3>2
      <4>2. Reached(l, v) \/ v \in send[w].offline
        BY <3>2, <4>1 DEF DeliveryInv, SendOK
      <4>3. Reached(l, v) => Reached(l, v)'
        BY <1>4 DEF Keeps, Recipients
      <4>4. Reached(l, v)' => Reached(send[w].msg, v)'
        BY <3>1, <4>1 DEF Reached, IsLost
      <4>5. QED
        BY <4>2, <4>3, <4>4
    <3>3. QED
      BY <3>1, <3>2
  <2>3. QED
    BY <2>1, <2>2
<1>8. SendOK'
  BY <1>6, <1>7 DEF SendOK, Recipients
<1>9. NothingElseIsLost'
  <2>1. ASSUME NEW l \in Position, NEW v \in Recipients(log[l].from)
        PROVE  \/ Reached(l, v)'
               \/ send'[log[l].from].msg = l
               \/ \E j \in jobs' : j.msg = l /\ v \in j.offline
    <3>1. l \in Nat /\ v \in User /\ log[l].from \in User
      BY LogEntry DEF Recipients, DeliveryInv
    <3>2. CASE Reached(l, v)
      BY <1>4, <3>1, <3>2 DEF Keeps
    <3>3. CASE send[log[l].from].msg = l
      <4>1. CASE log[l].from = u
        <5>1. l = m /\ v \in Recipients(u)
          BY <3>3, <4>1
        <5>2. CASE s.msg = m
          BY <1>1, <4>1, <5>1, <5>2
        <5>3. CASE s.msg # m
          BY <5>1, <5>3
        <5>4. QED
          BY <5>2, <5>3
      <4>2. CASE log[l].from # u
        BY <1>1, <3>1, <3>3, <4>2
      <4>3. QED
        BY <4>1, <4>2
    <3>4. CASE \E j \in jobs : j.msg = l /\ v \in j.offline
      BY <3>4
    <3>5. QED
      BY <3>2, <3>3, <3>4 DEF DeliveryInv, NothingElseIsLost, Reached
  <2>2. QED
    BY <1>6, <2>1 DEF NothingElseIsLost, Reached, Recipients
<1>10. QED
  BY <1>2, <1>5, <1>8, <1>9 DEF DeliveryInv

\* SendBegin, SendLook, SendEmit, SendEnqueue and SendCrash
LEMMA SendingStep ==
    ASSUME DeliveryInv, NEW u \in User,
           SendBegin(u) \/ SendLook(u) \/ SendEmit(u) \/ SendEnqueue(u) \/ SendCrash(u)
    PROVE  DeliveryInv'
<1>1. /\ send \in [User -> Sends] /\ send[u] \in Sends /\ clock \in Nat
      /\ seen \in [User -> SUBSET Nat]
      /\ \A j \in jobs : j.msg \in Nat /\ j.offline \subseteq User
  BY DEF DeliveryInv, DeliveryType
<1>2. PICK m \in Nat : m = send[u].msg
  BY <1>1 DEF Sends
<1>3. PICK off \in SUBSET User : off = send[u].offline
  BY <1>1 DEF Sends
<1>4. /\ send[u].pc \in {"idle", "store"} => m = 0
      /\ send[u].pc \in {"look", "emit", "enqueue"} => m # 0
      /\ send[u].pc = "enqueue" => \A v \in Recipients(u) : Reached(m, v) \/ v \in off
  BY <1>2, <1>3 DEF DeliveryInv, SendOK, Position
<1>5. NoSend \in Sends /\ NoSend.pc = "idle" /\ NoSend.msg = 0
  BY DEF NoSend, Sends
<1>6. UNCHANGED <<log, pending, pop, queued, taken>>
  BY DEF SendBegin, SendLook, SendEmit, SendEnqueue, SendCrash
<1>7. CASE SendBegin(u)
  <2> DEFINE s == [NoSend EXCEPT !.pc = "store", !.at = clock']
  <2>1. /\ send' = [send EXCEPT ![u] = s] /\ clock' = clock + 1
        /\ UNCHANGED <<seen, lost, jobs>> /\ send[u].pc = "idle"
    BY <1>7 DEF SendBegin
  <2>2. clock' \in Nat
    BY <1>1, <2>1
  <2>3. s \in Sends /\ s.pc = "store" /\ s.msg = 0
    BY <1>5, <2>2 DEF Sends
  <2> HIDE DEF s
  <2>4. QED
    BY <1>1, <1>2, <1>4, <1>6, <2>1, <2>2, <2>3, DispatchStep
<1>8. CASE SendLook(u)
  <2>1. PICK connected : /\ send' = [send EXCEPT ![u].pc = "emit",
                                         ![u].offline = Recipients(u) \ connected]
                         /\ UNCHANGED <<clock, seen, lost, jobs>> /\ send[u].pc = "look"
    BY <1>8 DEF SendLook
  <2> DEFINE s == [send[u] EXCEPT !.pc = "emit", !.offline = Recipients(u) \ connected]
  <2>2. send' = [send EXCEPT ![u] = s]
    BY <1>1, <2>1
  <2>3. s \in Sends /\ s.pc = "emit" /\ s.msg = m
    BY <1>1, <1>2 DEF Sends, Recipients
  <2> HIDE DEF s
  <2>4. UNCHANGED <<clock, seen, lost, jobs>> /\ m # 0
    BY <1>4, <2>1
  <2>5. QED
    BY <1>1, <1>2, <1>6, <2>2, <2>3, <2>4, DispatchStep
<1>9. CASE SendEmit(u)
  <2>1. /\ send[u].pc = "emit" /\ UNCHANGED <<clock, jobs>>
        /\ seen' = [v \in User |-> IF v \in online \ {u} THEN seen[v] \cup {m} ELSE seen[v]]
        /\ lost' = lost \cup Lost({m}, Recipients(u) \ (online \cup off), "gone")
        /\ send' = IF Recipients(u) = {} THEN [send EXCEPT ![u] = NoSend]
                                         ELSE [send EXCEPT ![u].pc = "enqueue"]
    BY <1>2, <1>3, <1>9 DEF SendEmit
  <2>2. seen' \in [User -> SUBSET Nat] /\ \A v \in User : seen[v] \subseteq seen'[v]
    BY <1>1, <2>1
  <2>3. ASSUME NEW v \in Recipients(u) PROVE Reached(m, v)' \/ v \in off
    <3>1. v \in User /\ v # u
      BY DEF Recipients
    <3>2. CASE v \in online
      BY <2>1, <3>1, <3>2 DEF Reached
    <3>3. CASE v \notin online /\ v \notin off
      <4>1. [msg |-> m, user |-> v, why |-> "gone"] \in lost'
        BY <2>1, <3>3, LostHas
      <4>2. QED
        BY <4>1 DEF Reached, IsLost
    <3>4. QED
      BY <3>2, <3>3
  <2>4. CASE Recipients(u) = {}
    BY <1>1, <1>2, <1>5, <1>6, <2>1, <2>2, <2>4, DispatchStep
  <2>5. CASE Recipients(u) # {}
    <3> DEFINE s == [send[u] EXCEPT !.pc = "enqueue"]
    <3>1. send' = [send EXCEPT ![u] = s]
      BY <2>1, <2>5
    <3>2. s \in Sends /\ s.pc = "enqueue" /\ s.msg = m /\ s.offline = off
      BY <1>1, <1>2, <1>3 DEF Sends
    <3> HIDE DEF s
    <3>3. QED
      BY <1>1, <1>2, <1>4, <1>6, <2>1, <2>2, <2>3, <3>1, <3>2, DispatchStep
  <2>6. QED
    BY <2>4, <2>5
<1>10. CASE SendEnqueue(u)
  <2>1. send[u].pc = "enqueue" /\ UNCHANGED <<clock, seen, lost>>
        /\ send' = [send EXCEPT ![u] = NoSend]
    BY <1>10 DEF SendEnqueue
  <2>2. /\ jobs \subseteq jobs'
        /\ \E j \in jobs' : j.msg = m /\ j.offline = off
        /\ \A j \in jobs' \ jobs : j.msg = m /\ j.offline = off
    <3>1. \A via : Job(u, via).msg = m /\ Job(u, via).offline = off
      BY <1>2, <1>3 DEF Job
    <3>2. \/ jobs' = jobs \cup {Job(u, "queue")}
          \/ jobs' = jobs \cup {Job(u, "inline")}
          \/ jobs' = jobs \cup {Job(u, "queue"), Job(u, "inline")}
      BY <1>10 DEF SendEnqueue
    <3>3. QED
      BY <3>1, <3>2
  <2>3. \A j \in jobs' : j.msg \in Nat /\ j.offline \subseteq User
    BY <1>1, <2>2
  <2>4. ASSUME NEW v \in Recipients(u)
        PROVE  (\E j \in jobs' : j.msg = m /\ v \in j.offline) \/ Reached(m, v)'
    <3>1. Reached(m, v) => Reached(m, v)'
      BY <1>6, <2>1 DEF Reached, IsLost
    <3>2. QED
      BY <1>4, <2>1, <2>2, <3>1
  <2>5. QED
    BY <1>1, <1>2, <1>5, <1>6, <2>1, <2>2, <2>3, <2>4, DispatchStep
<1>11. CASE SendCrash(u)
  <2> DEFINE waiting == CASE send[u].pc \in {"look", "emit"} -> Recipients(u)
                          [] send[u].pc = "enqueue" -> send[u].offline
                          [] OTHER -> {}
  <2>1. /\ send[u].pc # "idle" /\ UNCHANGED <<clock, seen, jobs>>
        /\ lost' = lost \cup Lost({m}, waiting, "unqueued")
        /\ send' = [send EXCEPT ![u] = NoSend]
    BY <1>2, <1>11 DEF SendCrash
  <2>2. /\ send[u].pc \in {"look", "emit"} => waiting = Recipients(u)
        /\ send[u].pc = "enqueue" => waiting = off
    BY <1>3
  <2>3. send[u].pc \in {"store", "look", "emit", "enqueue"}
    BY <1>1, <2>1 DEF Sends
  <2> HIDE DEF waiting
  <2>4. \A l, v : Reached(l, v) => Reached(l, v)'
    BY <1>6, <2>1 DEF Reached, IsLost
  <2>5. \A v \in waiting : [msg |-> m, user |-> v, why |-> "unqueued"] \in lost'
    BY <2>1, LostHas
  <2>6. ASSUME NEW v \in Recipients(u), m # 0 PROVE Reached(m, v)'
    <3>1. Reached(m, v) \/ v \in waiting
      BY <1>4, <2>2, <2>3, <2>6
    <3>2. v \in waiting => Reached(m, v)'
      BY <2>5 DEF Reached, IsLost
    <3>3. QED
      BY <2>4, <3>1, <3>2
  <2>7. QED
    BY <1>1, <1>2, <1>5, <1>6, <2>1, <2>6, DispatchStep
<1>12. QED
  BY <1>7, <1>8, <1>9, <1>10, <1>11

\* The commit of insertWithSequence: the message is u's, and u's send has it.
LEMMA SendStoreStep ==
    ASSUME DeliveryInv, NEW u \in User, SendStore(u)
    PROVE  DeliveryInv'
<1> DEFINE n == Len(log) + 1
           s == [send[u] EXCEPT !.pc = "look", !.msg = n]
           e == [from |-> u, at |-> send[u].at]
<1>1. DeliveryType /\ send[u] \in Sends /\ send[u].pc = "store" /\ send[u].msg = 0
  BY DEF DeliveryInv, DeliveryType, SendOK, SendStore
<1>2. e \in [from : User, at : Nat] /\ e.from = u
  BY <1>1 DEF Sends
<1>3. log' = Append(log, e) /\ UNCHANGED <<clock, jobs, seen, pending, pop, queued, taken, lost>>
  BY DEF SendStore
<1> HIDE DEF e
<1>4. /\ Len(log) \in Nat /\ Len(log') = n /\ log'[n] = e
      /\ log' \in Seq([from : User, at : Nat])
      /\ \A i \in Position : log'[i] = log[i]
  <2> DEFINE S == [from : User, at : Nat]
  <2>1. log \in Seq(S) /\ e \in S
    BY <1>1, <1>2 DEF DeliveryType
  <2> HIDE DEF S
  <2>2. /\ Len(log) \in Nat /\ Len(log') = n /\ log'[n] = e /\ log' \in Seq(S)
        /\ \A i \in 1 .. Len(log) : log'[i] = log[i]
    BY <1>3, <2>1, SeqFacts
  <2>3. QED
    BY <2>2 DEF S, Position
<1>5. s \in Sends /\ s.pc = "look" /\ s.msg = n
  <2>1. n \in Nat /\ send[u] \in Sends
    BY <1>1, <1>4
  <2> HIDE DEF n
  <2>2. QED
    BY <2>1 DEF Sends
<1>6. send' = [send EXCEPT ![u] = s]
  BY <1>1, <1>4 DEF SendStore, DeliveryType
<1> HIDE DEF s
<1>7. /\ send' \in [User -> Sends] /\ send'[u] = s
      /\ \A v \in User \ {u} : send'[v] = send[v]
  BY <1>1, <1>5, <1>6 DEF DeliveryType
<1>8. DeliveryType'
  BY <1>1, <1>3, <1>4, <1>7 DEF DeliveryType
<1>9. Position' = Position \cup {n} /\ n \notin Position /\ 0 \notin Position
  BY <1>4 DEF Position
<1>10. \A m, v : Reached(m, v)' <=> Reached(m, v)
  BY <1>3 DEF Reached, IsLost
<1>11. QueuedIsKept'
  BY <1>3 DEF DeliveryInv, QueuedIsKept
<1>12. SendOK'
  <2>1. ASSUME NEW w \in User
        PROVE  /\ send'[w].pc \in {"idle", "store"} => send'[w].msg = 0
               /\ send'[w].pc \in {"look", "emit", "enqueue"} =>
                     send'[w].msg \in Position' /\ log'[send'[w].msg].from = w
               /\ send'[w].pc = "enqueue" =>
                     \A v \in Recipients(w) : Reached(send'[w].msg, v) \/ v \in send'[w].offline
    <3>1. CASE w = u
      BY <1>2, <1>4, <1>5, <1>7, <1>9, <3>1
    <3>2. CASE w # u
      <4>1. send'[w] = send[w]
        BY <1>7, <3>2
      <4>2. /\ send[w].pc \in {"idle", "store"} => send[w].msg = 0
            /\ send[w].pc \in {"look", "emit", "enqueue"} =>
                  send[w].msg \in Position /\ log[send[w].msg].from = w
            /\ send[w].pc = "enqueue" =>
                  \A v \in Recipients(w) : Reached(send[w].msg, v) \/ v \in send[w].offline
        BY DEF DeliveryInv, SendOK
      <4>3. QED
        BY <1>4, <1>9, <4>1, <4>2
    <3>3. QED
      BY <3>1, <3>2
  <2>2. QED
    BY <1>10, <2>1 DEF SendOK, Recipients
<1>13. NothingElseIsLost'
  <2>1. ASSUME NEW l \in Position', NEW v \in Recipients(log'[l].from)
        PROVE  \/ Reached(l, v)
               \/ send'[log'[l].from].msg = l
               \/ \E j \in jobs : j.msg = l /\ v \in j.offline
    <3>1. CASE l = n
      BY <1>2, <1>4, <1>5, <1>7, <3>1
    <3>2. CASE l \in Position
      <4>1. log'[l] = log[l] /\ log[l].from \in User /\ l # 0
        BY <1>1, <1>4, <1>9, <3>2, LogEntry
      <4>2. \/ Reached(l, v)
            \/ send[log[l].from].msg = l
            \/ \E j \in jobs : j.msg = l /\ v \in j.offline
        BY <3>2, <4>1 DEF DeliveryInv, NothingElseIsLost, Reached
      <4>3. send[log[l].from].msg = l => log[l].from # u
        BY <1>1, <4>1
      <4>4. QED
        BY <1>7, <4>1, <4>2, <4>3
    <3>3. QED
      BY <1>9, <3>1, <3>2
  <2>2. ASSUME NEW l \in Position', NEW v \in Recipients(log'[l].from)
        PROVE  \/ l \in seen'[v] \cup pending'[v] \cup taken'[v]
               \/ IsLost(l, v)'
               \/ send'[log'[l].from].msg = l
               \/ \E j \in jobs' : j.msg = l /\ v \in j.offline
    <3>1. Reached(l, v) => l \in seen'[v] \cup pending'[v] \cup taken'[v] \/ IsLost(l, v)'
      BY <1>3 DEF Reached, IsLost
    <3>2. QED
      BY <1>3, <2>1, <3>1
  <2>3. QED
    BY <2>2 DEF NothingElseIsLost, Recipients
<1>14. QED
  BY <1>8, <1>11, <1>12, <1>13 DEF DeliveryInv
-----------------------------------------------------------------------------
\* Every step keeps the invariant.
LEMMA DeliveryNext == DeliveryInv /\ [Next]_vars => DeliveryInv'
<1> SUFFICES ASSUME DeliveryInv, [Next]_vars PROVE DeliveryInv'
  OBVIOUS
<1>1. CASE UNCHANGED vars
  <2>1. UNCHANGED <<log, clock, send, jobs, seen, pending, pop, queued, taken, lost>>
    BY <1>1 DEF vars
  <2>2. DeliveryType'
    BY <2>1 DEF DeliveryInv, DeliveryType
  <2>3. Position' = Position /\ \A m, v : IsLost(m, v)' <=> IsLost(m, v)
    BY <2>1 DEF Position, IsLost
  <2>4. NothingElseIsLost'
    BY <2>1, <2>3 DEF DeliveryInv, NothingElseIsLost
  <2>5. QueuedIsKept'
    BY <2>1, <2>3 DEF DeliveryInv, QueuedIsKept
  <2>6. SendOK'
    BY <2>1, <2>3 DEF DeliveryInv, SendOK, Reached
  <2>7. QED
    BY <2>2, <2>4, <2>5, <2>6 DEF DeliveryInv
<1>2. CASE \E u \in User : SendBegin(u) \/ Sending(u) \/ SendCrash(u)
  BY <1>2, SendingStep, SendStoreStep DEF Sending
<1>3. CASE \E c \in Call : PopRemove(c) \/ \E u \in User : PopRead(c, u)
  BY <1>3, PopRemoveStep, ReadStep
<1>4. QED
  BY <1>1, <1>2, <1>3, ReadStep, RunJobStep, ExpireStep DEF Next

\* The inductive invariant of delivery.
THEOREM DeliveryInvTheorem == Spec => []DeliveryInv
  BY DeliveryInit, DeliveryNext, PTL DEF Spec

\* A recipient of a message that is no longer being dispatched was sent it, has
\* or took it from the offline queue, or missed it in a way that is on record;
\* whatever fails in fetchSockets, the queue and the worker.
THEOREM NothingLostTheorem == Spec => []NothingElseIsLost
<1>1. DeliveryInv => NothingElseIsLost
  BY DEF DeliveryInv
<1>2. QED
  BY <1>1, DeliveryInvTheorem, PTL

\* Concurrent get-pending calls and deliveries never remove a queued message
\* that no answer held: it goes with the TTL or with the answer.
THEOREM QueuedTheorem == Spec => []QueuedIsKept
<1>1. DeliveryInv => QueuedIsKept
  BY DEF DeliveryInv
<1>2. QED
  BY <1>1, DeliveryInvTheorem, PTL
==============================================================================
