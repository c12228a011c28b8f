--------------------------- MODULE ReadMarksProofs ---------------------------
(***************************************************************************)
(* Proofs about read watermarks, for any members, calls, messages and      *)
(* faults: when a watermark may go back, and that it has its receipt.      *)
(***************************************************************************)
EXTENDS ReadMarks, TLAPS

\* A call in flight is a member's and for a stored message; only one that has
\* done its UPDATE and not its receipt has advanced.
CallOK ==
    \A c \in Call :
        /\ call[c].pc # "idle" => call[c].user \in User /\ call[c].target \in Position
        /\ call[c].advanced => call[c].pc \in {"reset", "receipt"}

ReadInv == TypeOK /\ CallOK

\* markRead, the sends and the jobs start with everything in order.
LEMMA ReadInit == Init => ReadInv /\ WatermarkHasReceipt
  BY ReadMarksAssumption
  DEF Init, ReadInv, TypeOK, CallOK, WatermarkHasReceipt, NoCall, Position, Stranger

\* A send stores one more message at the end and moves the sender's watermark.
LEMMA SendRead ==
    ASSUME ReadInv, NEW u \in User, Send(u)
    PROVE  /\ Len(from') = Len(from) + 1
           /\ from'[Len(from')] = u
           /\ \A i \in Position : from'[i] = from[i]
           /\ ReadInv'
<1>1. /\ Len(from) \in Nat
      /\ from' \in Seq(User \cup {Stranger})
      /\ Len(from') = Len(from) + 1
      /\ from'[Len(from')] = u
      /\ \A i \in Position : from'[i] = from[i]
  BY DEF ReadInv, TypeOK, Send, Position
<1>2. Position \subseteq Position' /\ 0 .. Len(from) \subseteq 0 .. Len(from')
  BY <1>1 DEF Position
<1>3. /\ Len(from') <= MaxMsg
      /\ lastRead' \in [User -> 0 .. Len(from')]
      /\ unread' \in [User -> Nat]
      /\ jobs' \subseteq Position'
  <2>1. Len(from') <= MaxMsg /\ Len(from') \in 0 .. Len(from') /\ Len(from') \in Position'
    BY <1>1, ReadMarksAssumption DEF ReadInv, Send, Position
  <2>2. lastRead' \in [User -> 0 .. Len(from')]
    BY <1>2, <2>1 DEF ReadInv, TypeOK, Send
  <2>3. unread' \in [User -> Nat]
    BY DEF ReadInv, TypeOK, Send
  <2>4. jobs' \subseteq Position'
    BY <1>2, <2>1 DEF ReadInv, TypeOK, Send
  <2>5. QED
    BY <2>1, <2>2, <2>3, <2>4
<1>4. call' \in [Call -> [pc : {"idle", "update", "apply", "reset", "receipt"},
                          user : User \cup {Stranger}, target : 0 .. Len(from'),
                          snap : 0 .. Len(from'), advanced : BOOLEAN]]
  BY <1>2 DEF ReadInv, TypeOK, Send
<1>5. receipts' \subseteq User \X Position' /\ unsaid' \subseteq User \X Position'
  BY <1>2 DEF ReadInv, TypeOK, Send
<1>6. CallOK'
  BY <1>2 DEF ReadInv, CallOK, Send
<1>7. QED
  BY <1>1, <1>3, <1>4, <1>5, <1>6 DEF ReadInv, TypeOK, Send

\* A step of another kind leaves the messages alone.
LEMMA MarkKeeps ==
    ASSUME NEW c \in Call,
           \/ Mark(c)
           \/ \E u \in User, m \in Position : MarkSelect(c, u, m)
    PROVE  from' = from /\ Position' = Position
  BY DEF Mark, MarkSnapshot, MarkApply, MarkReset, MarkReceipt, MarkCrash, MarkSelect, Position

\* Every step of markRead leaves its call, and so all calls, well formed.
LEMMA MarkRead ==
    ASSUME ReadInv, NEW c \in Call,
           \/ Mark(c)
           \/ \E u \in User, m \in Position : MarkSelect(c, u, m)
    PROVE  ReadInv'
<1> DEFINE Calls == [pc : {"idle", "update", "apply", "reset", "receipt"},
                     user : User \cup {Stranger}, target : 0 .. Len(from),
                     snap : 0 .. Len(from), advanced : BOOLEAN]
           Good(k) == /\ k \in Calls
                      /\ k.pc # "idle" => k.user \in User /\ k.target \in Position
                      /\ k.advanced => k.pc \in {"reset", "receipt"}
<1> USE DEF Position
<1>1. /\ Len(from) \in Nat
      /\ from' = from
      /\ \A d \in Call : Good(call[d])
      /\ call \in [Call -> Calls]
  BY MarkKeeps DEF ReadInv, TypeOK, CallOK
<1>2. Good(NoCall)
  BY <1>1 DEF NoCall
<1>3. SUFFICES /\ \E k : Good(k) /\ call' = [call EXCEPT ![c] = k]
               /\ lastRead' \in [User -> 0 .. Len(from)]
               /\ unread' \in [User -> Nat]
               /\ jobs' = jobs
               /\ receipts' \subseteq User \X Position
               /\ unsaid' \subseteq User \X Position
               /\ marks' \in 0 .. MaxMarks
  <2>1. PICK k : Good(k) /\ call' = [call EXCEPT ![c] = k]
    BY <1>3
  <2>2. call' \in [Call -> Calls] /\ \A d \in Call : Good(call'[d])
    BY <2>1, <1>1
  <2>3. QED
    BY <1>1, <1>3, <2>2 DEF ReadInv, TypeOK, CallOK
<1>4. CASE \E u \in User, m \in Position : MarkSelect(c, u, m)
  <2>1. PICK u \in User, m \in Position : MarkSelect(c, u, m)
    BY <1>4
  <2> DEFINE p == IF lastRead[u] < m THEN "update" ELSE "reset"
             k == [NoCall EXCEPT !.pc = p, !.user = u, !.target = m]
  <2>2. Good(k)
    <3>1. p \in {"update", "reset"}
      OBVIOUS
    <3> HIDE DEF p
    <3>2. m \in 0 .. Len(from)
      BY <1>1
    <3>3. NoCall \in Calls /\ ~NoCall.advanced
      BY <1>2 DEF NoCall
    <3>4. k \in Calls
      BY <3>1, <3>2, <3>3
    <3>5. k.user = u /\ k.target = m /\ k.advanced = NoCall.advanced
      BY <3>3
    <3> HIDE DEF Calls, k
    <3>6. QED
      BY <3>3, <3>4, <3>5
  <2>3. call' = [call EXCEPT ![c] = k]
    BY <2>1 DEF MarkSelect
  <2>4. marks' \in 0 .. MaxMarks
    <3>1. marks < MaxMarks /\ marks' = marks + 1
      BY <2>1 DEF MarkSelect
    <3>2. marks \in 0 .. MaxMarks
      BY DEF ReadInv, TypeOK
    <3>3. QED
      BY <3>1, <3>2, ReadMarksAssumption
  <2> HIDE DEF k
  <2>5. QED
    BY <2>1, <2>2, <2>3, <2>4 DEF MarkSelect, ReadInv, TypeOK
<1>5. CASE MarkSnapshot(c)
  <2> DEFINE k == [call[c] EXCEPT !.snap = Len(from),
                     !.pc = IF lastRead[call[c].user] < call[c].target THEN "apply" ELSE "reset"]
  <2>1. Good(k)
    BY <1>1, <1>5 DEF MarkSnapshot
  <2>2. call' = [call EXCEPT ![c] = k]
    BY <1>1, <1>5 DEF MarkSnapshot
  <2>3. QED
    BY <1>5, <2>1, <2>2 DEF MarkSnapshot, ReadInv, TypeOK
<1>6. CASE MarkApply(c)
  <2> DEFINE ok == WatermarkIn(call[c].snap, lastRead[call[c].user]) < call[c].target
             k == [call[c] EXCEPT !.pc = "reset", !.advanced = ok]
  <2>1. Good(k)
    <3>1. ok \in BOOLEAN
      OBVIOUS
    <3> HIDE DEF ok
    <3>2. QED
      BY <1>1, <1>6, <3>1 DEF MarkApply
  <2>2. call' = [call EXCEPT ![c] = k]
    BY <1>1, <1>6 DEF MarkApply
  <2>3. lastRead' \in [User -> 0 .. Len(from)]
    BY <1>1, <1>6 DEF MarkApply, ReadInv, TypeOK
  <2>4. QED
    BY <1>6, <2>1, <2>2, <2>3 DEF MarkApply, ReadInv, TypeOK
<1>7. CASE MarkReset(c)
  <2> DEFINE k == IF call[c].advanced THEN [call[c] EXCEPT !.pc = "receipt"] ELSE NoCall
  <2>1. Good(k)
    BY <1>1, <1>2, <1>7 DEF MarkReset
  <2>2. call' = [call EXCEPT ![c] = k]
    BY <1>1, <1>7 DEF MarkReset, Answer
  <2>3. unread' \in [User -> Nat]
    <3>1. unread \in [User -> Nat]
      BY DEF ReadInv, TypeOK
    <3>2. unread' = unread \/ unread' = [unread EXCEPT ![call[c].user] = 0]
      BY <1>7 DEF MarkReset
    <3>3. QED
      BY <3>1, <3>2
  <2>4. QED
    BY <1>7, <2>1, <2>2, <2>3 DEF MarkReset, ReadInv, TypeOK
<1>8. CASE MarkReceipt(c)
  <2>1. receipts' \subseteq User \X Position
    BY <1>1, <1>8 DEF MarkReceipt, ReadInv, TypeOK
  <2>2. QED
    BY <1>2, <1>8, <2>1 DEF MarkReceipt, Answer, ReadInv, TypeOK
<1>9. CASE MarkCrash(c)
  <2>1. unsaid' \subseteq User \X Position
    BY <1>1, <1>9 DEF MarkCrash, ReadInv, TypeOK
  <2>2. QED
    BY <1>2, <1>9, <2>1 DEF MarkCrash, Answer, ReadInv, TypeOK
<1>10. QED
  BY <1>4, <1>5, <1>6, <1>7, <1>8, <1>9 DEF Mark

\* A job only counts.
LEMMA JobRead ==
    ASSUME ReadInv, NEW m \in jobs, RunJob(m)
    PROVE  ReadInv' /\ UNCHANGED <<from, lastRead, call, receipts, unsaid>>
<1>1. UNCHANGED <<from, lastRead, call, receipts, unsaid, marks>> /\ jobs' \subseteq jobs
  BY DEF RunJob
<1>2. unread' = unread \/ Increment(m)
  BY DEF RunJob
<1>3. unread' \in [User -> Nat]
  BY <1>2 DEF ReadInv, TypeOK, Increment
<1>4. Position' = Position
  BY <1>1 DEF Position
<1>5. CallOK'
  BY <1>1, <1>4 DEF ReadInv, CallOK
<1>6. TypeOK'
  BY <1>1, <1>3, <1>4 DEF ReadInv, TypeOK
<1>7. QED
  BY <1>1, <1>5, <1>6 DEF ReadInv

\* Every step keeps the types and the calls.
LEMMA ReadNext == ReadInv /\ [Next]_vars => ReadInv'
<1> SUFFICES ASSUME ReadInv, [Next]_vars PROVE ReadInv'
  OBVIOUS
<1>1. CASE UNCHANGED vars
  BY <1>1 DEF vars, ReadInv, TypeOK, CallOK, Position
<1>2. CASE Next
  BY <1>2, SendRead, JobRead, MarkRead DEF Next, Position
<1>3. QED
  BY <1>1, <1>2
-----------------------------------------------------------------------------
\* A watermark has its receipt: kept by a step of markRead.
LEMMA MarkReceipted ==
    ASSUME ReadInv, WatermarkHasReceipt, NEW c \in Call,
           \/ Mark(c)
           \/ \E u \in User, m \in Position : MarkSelect(c, u, m)
    PROVE  WatermarkHasReceipt'
<1> DEFINE Due(u, p) == \E d \in Call : /\ call[d].user = u /\ call[d].target = p
                                        /\ call[d].advanced
<1>1. from' = from
  BY MarkKeeps
<1>2. call \in [Call -> [pc : {"idle", "update", "apply", "reset", "receipt"},
                          user : User \cup {Stranger}, target : 0 .. Len(from),
                          snap : 0 .. Len(from), advanced : BOOLEAN]]
  BY DEF ReadInv, TypeOK
<1>3. lastRead \in [User -> 0 .. Len(from)]
  BY DEF ReadInv, TypeOK
<1>4. call[c].advanced => call[c].pc \in {"reset", "receipt"}
  BY DEF ReadInv, CallOK
<1> SUFFICES ASSUME NEW u \in User
             PROVE  \/ lastRead'[u] = 0
                    \/ from[lastRead'[u]] = u
                    \/ <<u, lastRead'[u]>> \in receipts' \cup unsaid'
                    \/ \E d \in Call : /\ call'[d].user = u /\ call'[d].target = lastRead'[u]
                                       /\ call'[d].advanced
  BY <1>1 DEF WatermarkHasReceipt
<1>5. \/ lastRead[u] = 0
      \/ from[lastRead[u]] = u
      \/ <<u, lastRead[u]>> \in receipts \cup unsaid
      \/ Due(u, lastRead[u])
  BY DEF WatermarkHasReceipt
<1>6. CASE \E v \in User, m \in Position : MarkSelect(c, v, m)
  BY <1>2, <1>4, <1>5, <1>6 DEF MarkSelect
<1>7. CASE MarkSnapshot(c)
  BY <1>2, <1>4, <1>5, <1>7 DEF MarkSnapshot
<1>8. CASE MarkApply(c)
  <2>1. CASE lastRead'[u] = lastRead[u]
    BY <1>2, <1>4, <1>5, <1>8, <2>1 DEF MarkApply
  <2>2. CASE lastRead'[u] # lastRead[u]
    <3>1. call[c].user = u /\ lastRead'[u] = call[c].target /\ call'[c].advanced
      BY <1>2, <1>3, <1>8, <2>2 DEF MarkApply
    <3>2. call'[c].user = u /\ call'[c].target = call[c].target
      BY <1>2, <1>8, <3>1 DEF MarkApply
    <3>3. QED
      BY <3>1, <3>2
  <2>3. QED
    BY <2>1, <2>2
<1>9. CASE MarkReset(c)
  <2>1. \A d \in Call : call[d].advanced =>
           /\ call'[d].user = call[d].user /\ call'[d].target = call[d].target
           /\ call'[d].advanced
    BY <1>2, <1>9 DEF MarkReset, Answer
  <2>2. lastRead' = lastRead /\ receipts' = receipts /\ unsaid' = unsaid
    BY <1>9 DEF MarkReset
  <2>3. QED
    BY <1>5, <2>1, <2>2
<1>10. CASE MarkReceipt(c)
  BY <1>2, <1>5, <1>10 DEF MarkReceipt, Answer
<1>11. CASE MarkCrash(c)
  BY <1>2, <1>5, <1>11 DEF MarkCrash, Answer
<1>12. QED
  BY <1>6, <1>7, <1>8, <1>9, <1>10, <1>11 DEF Mark

\* A watermark has its receipt: kept by every step.
LEMMA ReceiptNext == ReadInv /\ WatermarkHasReceipt /\ [Next]_vars => WatermarkHasReceipt'
<1> SUFFICES ASSUME ReadInv, WatermarkHasReceipt, [Next]_vars PROVE WatermarkHasReceipt'
  OBVIOUS
<1>1. CASE UNCHANGED vars
  BY <1>1 DEF vars, WatermarkHasReceipt
<1>2. ASSUME NEW u \in User, Send(u) PROVE WatermarkHasReceipt'
  <2>1. /\ Len(from') = Len(from) + 1
        /\ from'[Len(from')] = u
        /\ \A i \in 1 .. Len(from) : from'[i] = from[i]
        /\ Len(from) \in Nat
        /\ lastRead \in [User -> 0 .. Len(from)]
    <3>1. /\ Len(from') = Len(from) + 1
          /\ from'[Len(from')] = u
          /\ \A i \in Position : from'[i] = from[i]
      BY <1>2, SendRead
    <3>2. Len(from) \in Nat /\ lastRead \in [User -> 0 .. Len(from)]
      BY DEF ReadInv, TypeOK
    <3>3. QED
      BY <3>1, <3>2 DEF Position
  <2>2. /\ lastRead'[u] = Len(from')
        /\ \A v \in User \ {u} : lastRead'[v] = lastRead[v]
    BY <1>2, <2>1 DEF Send
  <2>3. ASSUME NEW v \in User \ {u}, lastRead[v] # 0
        PROVE  from'[lastRead'[v]] = from[lastRead[v]]
    BY <2>1, <2>2, <2>3
  <2>4. QED
    BY <1>2, <2>1, <2>2, <2>3 DEF WatermarkHasReceipt, Send
<1>3. ASSUME NEW m \in jobs, RunJob(m) PROVE WatermarkHasReceipt'
  BY <1>3, JobRead DEF WatermarkHasReceipt
<1>4. QED
  BY <1>1, <1>2, <1>3, MarkReceipted DEF Next, Position

\* What a step may do to a watermark.
LEMMA YoungerNext ==
    ASSUME ReadInv, [Next]_vars, NEW u \in User, lastRead'[u] < lastRead[u]
    PROVE  \E c \in Call : /\ call[c].pc = "apply" /\ call[c].user = u
                           /\ lastRead[u] > call[c].snap
<1>1. lastRead \in [User -> 0 .. Len(from)] /\ Len(from) \in Nat
  BY DEF ReadInv, TypeOK
<1>2. ~UNCHANGED lastRead
  BY <1>1
<1>3. ASSUME NEW v \in User, Send(v) PROVE FALSE
  BY <1>1, <1>3, SendRead DEF Send
<1>4. PICK c \in Call : MarkApply(c)
  BY <1>2, <1>3 DEF Next, Mark, RunJob, MarkSelect, MarkSnapshot, MarkReset, MarkReceipt, MarkCrash, vars
<1>5. call[c] \in [pc : {"idle", "update", "apply", "reset", "receipt"},
                   user : User \cup {Stranger}, target : 0 .. Len(from),
                   snap : 0 .. Len(from), advanced : BOOLEAN]
  BY DEF ReadInv, TypeOK
<1>6. /\ call[c].pc = "apply" /\ call[c].user = u
      /\ lastRead'[u] = call[c].target
      /\ WatermarkIn(call[c].snap, lastRead[u]) < call[c].target
  BY <1>1, <1>4 DEF MarkApply
<1>7. lastRead[u] > call[c].snap
  BY <1>1, <1>5, <1>6 DEF WatermarkIn
<1>8. QED
  BY <1>6, <1>7
-----------------------------------------------------------------------------
\* Every variable of the read state keeps its type.
THEOREM ReadTypeTheorem == Spec => []TypeOK
<1>1. Init => ReadInv
  BY ReadInit
<1>2. ReadInv => TypeOK
  BY DEF ReadInv
<1>3. QED
  BY <1>1, <1>2, ReadNext, PTL DEF Spec

\* Once markRead has returned, the watermark is at a message with a receipt or
\* at the member's own, unless a call died between the UPDATE and the receipt.
THEOREM ReceiptTheorem == Spec => []WatermarkHasReceipt
<1>1. Init => ReadInv /\ WatermarkHasReceipt
  BY ReadInit
<1>2. QED
  BY <1>1, ReadNext, ReceiptNext, PTL DEF Spec

\* markRead moves a watermark back only over a message younger than the snapshot
\* of its UPDATE.
THEOREM YoungerTheorem == Spec => OnlyYoungerIsOverwritten
<1> DEFINE Younger == \A u \in User : lastRead'[u] < lastRead[u] =>
                         \E c \in Call : /\ call[c].pc = "apply" /\ call[c].user = u
                                         /\ lastRead[u] > call[c].snap
<1>1. Init => ReadInv
  BY ReadInit
<1>2. ReadInv /\ [Next]_vars => [Younger]_vars
  BY YoungerNext
<1>3. QED
  BY <1>1, <1>2, ReadNext, PTL DEF Spec, OnlyYoungerIsOverwritten
=============================================================================
