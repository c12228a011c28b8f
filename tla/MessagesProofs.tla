--------------------------- MODULE MessagesProofs ---------------------------
(***************************************************************************)
(* Proofs about the message store, for any number of messages, handlers    *)
(* and clients and with every fault of Messages; then about paging through *)
(* the history: a client that follows nextCursor, or asks 'since' its      *)
(* newest message, misses nothing.  The second part rests on StoreInv (the *)
(* stored numbers are 1..n, and n only grows) and on an invariant of each  *)
(* client's request.                                                       *)
(***************************************************************************)
EXTENDS Messages, TLAPS, FiniteSetTheorems, WellFoundedInduction

\* Every non-empty set of naturals has a least element: what ORDER BY ... ASC
\* LIMIT 1 relies on.
LEMMA MinExists ==
    ASSUME NEW T \in SUBSET Nat, T # {}
    PROVE  \E x \in T : \A y \in T : x <= y
<1> DEFINE R == OpToRel(<, Nat)
<1>1. IsWellFoundedOn(R, Nat)
  BY Zenon, NatLessThanWellFounded
<1>2. \A x, y \in Nat : <<y, x>> \in R <=> y < x
  BY Zenon DEF OpToRel
<1> HIDE DEF R
<1>3. PICK x \in T : \A y \in T : ~ (<<y, x>> \in R)
  BY Zenon, <1>1, WFMin
<1>4. ASSUME NEW y \in T
      PROVE  x <= y
  <2>1. x \in Nat /\ y \in Nat
    BY Zenon
  <2>2. ~ (y < x)
    BY Zenon, <1>2, <1>3, <2>1
  <2>3. QED
    BY <2>1, <2>2
<1>5. QED
  BY Zenon, <1>4

\* Every non-empty bounded set of naturals has a greatest element: what
\* ORDER BY sequence_number DESC LIMIT 1 relies on.
LEMMA MaxExists ==
    ASSUME NEW n \in Nat, NEW T \in SUBSET (0 .. n), T # {}
    PROVE  \E x \in T : \A y \in T : y <= x
<1> DEFINE U == {n - t : t \in T}
<1>1. U # {}
  BY Zenon
<1>2. \A t \in T : n - t \in Nat
  OBVIOUS
<1>3. PICK u \in U : \A v \in U : u <= v
  BY Zenon, <1>1, <1>2, MinExists
<1>4. PICK x \in T : u = n - x
  BY Zenon, <1>3
<1>5. ASSUME NEW y \in T
      PROVE  y <= x
  <2>1. n - y \in U
    BY Zenon
  <2>2. n - x <= n - y
    BY Zenon, <1>3, <1>4, <2>1
  <2>3. QED
    BY <2>2
<1>6. QED
  BY Zenon, <1>5

\* coalesce(max(sequence_number), 0) over 1..n is n.
LEMMA MaxOfRun ==
    ASSUME NEW n \in Nat
    PROVE  MaxOrZero(1 .. n) = n
<1>1. n \in (1 .. n) \cup {0} /\ \A k \in 1 .. n : k <= n
  OBVIOUS
<1>2. \A x \in (1 .. n) \cup {0} : (\A k \in 1 .. n : k <= x) => x = n
  OBVIOUS
<1>3. QED
  BY Zenon, <1>1, <1>2 DEF MaxOrZero
-----------------------------------------------------------------------------
(* The store: sequence numbers and the channel preview                     *)

StoreType ==
    /\ seq \in [MessageId -> Nat]
    /\ deleted \in [MessageId -> BOOLEAN]
    /\ lastMessage \in MessageId \cup {None}
    /\ channelLock \in Handler \cup {None}
    /\ rowLock \in [MessageId -> Handler \cup {None}]
    /\ pc \in [Handler -> {"idle", "lock", "max", "insert", "push",
                           "mark", "chan", "repoint", "drop"}]
    /\ msg \in [Handler -> MessageId \cup {None}]
    /\ next \in [Handler -> Nat]

\* Exactly the handlers between FOR UPDATE and COMMIT hold the channel row.
LockIsHeld ==
    \A h \in Handler :
        pc[h] \in {"max", "insert", "repoint"} <=> channelLock = h

\* A send owns a uuid that is not stored yet.
UnsentIsOwned ==
    \A h \in Handler :
        pc[h] \in {"lock", "max", "insert"} =>
            /\ msg[h] \in MessageId
            /\ seq[msg[h]] = 0
            /\ \A g \in Handler : g # h => msg[g] # msg[h]

\* Everything else a handler works on is stored.
TargetIsStored ==
    /\ \A h \in Handler :
           pc[h] \in {"push", "mark", "chan", "repoint", "drop"} =>
               msg[h] \in Stored
    /\ \A m \in MessageId : deleted[m] => m \in Stored

\* The number a send read under the lock stays the next one until it commits.
NextIsFree ==
    \A h \in Handler : pc[h] = "insert" => next[h] = MaxSequence + 1

\* The stored numbers are a run from 1, without repetition.
Run ==
    /\ MaxSequence \in Nat
    /\ Assigned = 1 .. MaxSequence
    /\ \A k, m \in Stored : seq[k] = seq[m] => k = m

\* The preview, said without CHOOSE.
Preview ==
    IF Live = {} THEN lastMessage = None
    ELSE lastMessage \in Live /\ \A k \in Live : seq[k] <= seq[lastMessage]

StoreInv ==
    /\ StoreType
    /\ LockIsHeld
    /\ UnsentIsOwned
    /\ TargetIsStored
    /\ NextIsFree
    /\ Run
    /\ Preview

storeVars == <<dbVars, handlerVars>>

\* The store invariant holds initially: no message, no lock, no preview.
LEMMA StoreInit == Init => StoreInv
<1> SUFFICES ASSUME Init
             PROVE  StoreInv
  BY Zenon
<1> USE MessagesAssumption
<1>1. Stored = {} /\ Live = {} /\ Assigned = {}
  BY DEF Init, Stored, Live, Assigned
<1>2. MaxSequence = 0
  BY <1>1, MaxOfRun DEF MaxSequence
<1>3. Run
  BY <1>1, <1>2 DEF Run
<1>4. QED
  BY Zenon, <1>1, <1>3 DEF Init, StoreInv, StoreType, LockIsHeld, UnsentIsOwned,
                    TargetIsStored, NextIsFree, Preview

\* Steps that change no row of messages keep the facts about the rows.
LEMMA RowsUnchanged ==
    ASSUME StoreInv, UNCHANGED <<seq, deleted, lastMessage>>
    PROVE  /\ Run' /\ Preview'
           /\ Stored' = Stored /\ Live' = Live /\ MaxSequence' = MaxSequence
<1>1. Stored' = Stored /\ Live' = Live /\ Assigned' = Assigned
  BY Zenon DEF Stored, Live, Assigned
<1>2. MaxSequence' = MaxSequence
  BY Zenon, <1>1 DEF MaxSequence
<1>3. QED
  BY Zenon, <1>1, <1>2 DEF StoreInv, Run, Preview

\* A commit of a send appends: it gives its message the number after the last.
LEMMA SendCommitKeepsStore ==
    ASSUME StoreInv, NEW h \in Handler, SendCommit(h)
    PROVE  /\ StoreInv'
           /\ MaxSequence' = MaxSequence + 1
           /\ Stored' = Stored \cup {msg[h]}
<1> USE MessagesAssumption DEF StoreInv
<1> DEFINE m == msg[h]
           n == MaxSequence
<1>1. m \in MessageId /\ seq[m] = 0 /\ next[h] = n + 1 /\ n \in Nat
  BY Zenon DEF SendCommit, UnsentIsOwned, NextIsFree, Run
<1>2. seq' = [seq EXCEPT ![m] = n + 1]
  BY Zenon, <1>1 DEF SendCommit
<1>3. StoreType'
  BY Zenon, <1>1 DEF StoreType, SendCommit, Goto
<1>4. Stored' = Stored \cup {m}
  BY <1>1, <1>2 DEF Stored, StoreType
<1>5. \A k \in Stored : seq'[k] = seq[k] /\ seq[k] \in 1 .. n
  BY <1>1, <1>2 DEF Stored, Run, StoreType, Assigned
<1>6. Assigned' = 1 .. n + 1
  <2>1. seq'[m] = n + 1
    BY Zenon, <1>1, <1>2 DEF StoreType
  <2>2. Assigned' = Assigned \cup {n + 1}
    BY <1>4, <1>5, <2>1 DEF Assigned
  <2>3. QED
    BY <1>1, <2>2 DEF Run
<1>7. MaxSequence' = n + 1
  BY <1>1, <1>6, MaxOfRun DEF MaxSequence
<1>8. Run'
  <2>1. seq'[m] = n + 1
    BY Zenon, <1>1, <1>2 DEF StoreType
  <2>2. \A k \in Stored : seq'[k] # n + 1
    BY <1>1, <1>5
  <2>3. \A k, l \in Stored' : seq'[k] = seq'[l] => k = l
    BY Zenon, <1>4, <1>5, <2>1, <2>2 DEF Run
  <2>4. QED
    BY <1>1, <1>6, <1>7, <2>3 DEF Run
<1>9. LockIsHeld'
  BY Zenon DEF SendCommit, Goto, LockIsHeld, StoreType
<1>10. UnsentIsOwned'
  BY <1>1, <1>2 DEF SendCommit, Goto, UnsentIsOwned, StoreType
<1>11. TargetIsStored'
  BY Zenon, <1>1, <1>4 DEF SendCommit, Goto, TargetIsStored, StoreType
<1>12. NextIsFree'
  BY Zenon DEF SendCommit, Goto, NextIsFree, LockIsHeld, StoreType
<1>13. Preview'
  <2>1. ~deleted[m]
    BY <1>1 DEF TargetIsStored, Stored, StoreType
  <2>2. Live' = Live \cup {m} /\ lastMessage' = m
    BY Zenon, <1>4, <2>1 DEF Live, SendCommit
  <2>3. \A k \in Live' : seq'[k] <= seq'[m]
    BY <1>1, <1>2, <1>5, <2>2 DEF Live, StoreType
  <2>4. QED
    BY Zenon, <2>2, <2>3 DEF Preview
<1>14. QED
  BY Zenon, <1>3, <1>4, <1>7, <1>8, <1>9, <1>10, <1>11, <1>12, <1>13

\* Among stored messages there is a newest one.
LEMMA NewestExists ==
    ASSUME StoreInv, NEW S \in SUBSET Stored, S # {}
    PROVE  /\ Newest(S) \in S
           /\ \A k \in S : seq[k] <= seq[Newest(S)]
<1> USE DEF StoreInv
<1> DEFINE T == {seq[k] : k \in S}
<1>1. T \in SUBSET (0 .. MaxSequence) /\ T # {}
  BY DEF Run, Assigned
<1>2. PICK x \in T : \A y \in T : y <= x
  BY Zenon, <1>1, MaxExists DEF Run
<1>3. PICK m \in S : x = seq[m]
  BY Zenon, <1>2
<1>4. \A k \in S : seq[k] <= seq[m]
  BY Zenon, <1>2, <1>3
<1>5. QED
  BY Zenon, <1>4 DEF Newest

\* A commit of a delete moves the preview when, and only when, it has to.
LEMMA DeleteCommitKeepsStore ==
    ASSUME StoreInv, NEW h \in Handler, DeleteCommit(h)
    PROVE  /\ StoreInv'
           /\ Stored' = Stored
           /\ Live' = Live \ {msg[h]}
<1> USE MessagesAssumption DEF StoreInv
<1> DEFINE m == msg[h]
<1>1. m \in Stored /\ m \in MessageId
  BY Zenon DEF DeleteCommit, TargetIsStored, Stored
<1>2. Stored' = Stored /\ Assigned' = Assigned
  BY Zenon DEF DeleteCommit, Stored, Assigned
<1>3. Live' = Live \ {m}
  BY Zenon, <1>1, <1>2 DEF DeleteCommit, Live, StoreType, Stored
<1>4. Live \ {m} \in SUBSET Stored
  BY Zenon DEF Live
<1>5. Preview'
  <2>1. CASE lastMessage = m /\ Live \ {m} = {}
    BY Zenon, <1>3, <2>1 DEF DeleteCommit, Newest, Preview
  <2>2. CASE lastMessage = m /\ Live \ {m} # {}
    <3>1. lastMessage' = Newest(Live \ {m}) /\ seq' = seq
      BY Zenon, <2>2 DEF DeleteCommit
    <3>2. QED
      BY Zenon, <1>3, <1>4, <2>2, <3>1, NewestExists DEF Preview
  <2>3. CASE lastMessage # m
    <3>1. lastMessage' = lastMessage /\ seq' = seq
      BY Zenon, <2>3 DEF DeleteCommit
    <3>2. Live \subseteq {m} => Live = {}
      BY Zenon, <2>3 DEF Preview
    <3>3. QED
      BY Zenon, <1>3, <2>3, <3>1, <3>2 DEF Preview
  <2>4. QED
    BY Zenon, <2>1, <2>2, <2>3
<1>6. lastMessage' \in MessageId \cup {None}
  BY Zenon, <1>5 DEF Preview, Live, Stored
<1>7. StoreType'
  BY Zenon, <1>6 DEF DeleteCommit, Goto, StoreType
<1>8. Run'
  BY Zenon, <1>2 DEF Run, MaxSequence, DeleteCommit
<1>9. LockIsHeld' /\ UnsentIsOwned' /\ NextIsFree'
  BY Zenon, <1>2 DEF DeleteCommit, Goto, LockIsHeld, UnsentIsOwned, NextIsFree,
              MaxSequence, StoreType
<1>10. TargetIsStored'
  BY Zenon, <1>1, <1>2 DEF DeleteCommit, Goto, TargetIsStored, StoreType
<1>11. QED
  BY Zenon, <1>2, <1>3, <1>5, <1>7, <1>8, <1>9, <1>10

\* Every step of the system keeps the store invariant.
LEMMA StoreNext == StoreInv /\ [Next]_vars => StoreInv'
<1> SUFFICES ASSUME StoreInv, [Next]_vars
             PROVE  StoreInv'
  BY Zenon
<1> USE MessagesAssumption
<1>1. ASSUME UNCHANGED storeVars
      PROVE  StoreInv'
  <2>1. UNCHANGED <<seq, deleted, lastMessage, channelLock, rowLock, pc, msg, next>>
    BY Zenon, <1>1 DEF storeVars, dbVars, handlerVars
  <2>2. QED
    BY Zenon, <2>1, RowsUnchanged DEF StoreInv, StoreType, LockIsHeld, UnsentIsOwned,
                               TargetIsStored, NextIsFree
<1>2. ASSUME NEW h \in Handler, NEW m \in MessageId, SendStart(h, m)
      PROVE  StoreInv'
  <2>1. UNCHANGED <<seq, deleted, lastMessage, channelLock, rowLock, next>>
    BY Zenon, <1>2 DEF SendStart, dbVars
  <2>2. seq[m] = 0
    BY <1>2 DEF SendStart, Stored, StoreInv, StoreType
  <2>3. QED
    BY <1>2, <2>1, <2>2, RowsUnchanged
       DEF SendStart, Goto, StoreInv, StoreType, LockIsHeld, UnsentIsOwned,
           TargetIsStored, NextIsFree, Stored
<1>3. ASSUME NEW h \in Handler, SendLock(h) \/ DeleteLock(h)
      PROVE  StoreInv'
  <2>1. UNCHANGED <<seq, deleted, lastMessage, rowLock, msg, next>>
    BY Zenon, <1>3 DEF SendLock, DeleteLock
  <2>2. QED
    BY <1>3, <2>1, RowsUnchanged
       DEF SendLock, DeleteLock, Goto, StoreInv, StoreType, LockIsHeld,
           UnsentIsOwned, TargetIsStored, NextIsFree
<1>4. ASSUME NEW h \in Handler, SendMax(h)
      PROVE  StoreInv'
  <2>1. UNCHANGED <<seq, deleted, lastMessage, channelLock, rowLock, msg>>
    BY Zenon, <1>4 DEF SendMax, dbVars
  <2>2. MaxSequence + 1 \in Nat
    BY DEF StoreInv, Run
  <2>3. QED
    BY <1>4, <2>1, <2>2, RowsUnchanged
       DEF SendMax, Goto, StoreInv, StoreType, LockIsHeld, UnsentIsOwned,
           TargetIsStored, NextIsFree
<1>5. ASSUME NEW h \in Handler, SendPush(h) \/ DeleteInvalidate(h)
      PROVE  StoreInv'
  <2>1. UNCHANGED <<seq, deleted, lastMessage, channelLock, rowLock>>
    BY Zenon, <1>5 DEF SendPush, DeleteInvalidate, dbVars
  <2>2. /\ pc[h] \in {"push", "drop"}
        /\ pc' = [pc EXCEPT ![h] = "idle"]
        /\ msg' = [msg EXCEPT ![h] = None]
        /\ next' = [next EXCEPT ![h] = 0]
    BY Zenon, <1>5 DEF SendPush, DeleteInvalidate, Return, Goto
  <2>3. QED
    BY <1>5, <2>1, <2>2, RowsUnchanged
       DEF StoreInv, StoreType, LockIsHeld, UnsentIsOwned, TargetIsStored, NextIsFree
<1>6. ASSUME NEW h \in Handler, NEW m \in MessageId, DeleteStart(h, m)
      PROVE  StoreInv'
  <2>1. UNCHANGED <<seq, deleted, lastMessage, channelLock, rowLock, next>>
    BY Zenon, <1>6 DEF DeleteStart, dbVars
  <2>2. seq[m] > 0
    BY Zenon, <1>6 DEF DeleteStart, Stored
  <2>3. QED
    BY <1>6, <2>1, <2>2, RowsUnchanged
       DEF DeleteStart, Goto, StoreInv, StoreType, LockIsHeld, UnsentIsOwned,
           TargetIsStored, NextIsFree, Stored
<1>7. ASSUME NEW h \in Handler, DeleteMark(h)
      PROVE  StoreInv'
  <2>1. UNCHANGED <<seq, deleted, lastMessage, channelLock, msg, next>>
    BY Zenon, <1>7 DEF DeleteMark
  <2>2. /\ pc[h] = "mark" /\ pc' = [pc EXCEPT ![h] = "chan"]
        /\ rowLock' = [rowLock EXCEPT ![msg[h]] = h]
    BY Zenon, <1>7 DEF DeleteMark, Goto
  <2>3. /\ Run' /\ Preview' /\ Stored' = Stored /\ MaxSequence' = MaxSequence
    BY Zenon, <2>1, RowsUnchanged
  <2>4. StoreType'
    BY Zenon, <2>1, <2>2 DEF StoreInv, StoreType
  <2>5. LockIsHeld' /\ UnsentIsOwned'
    BY Zenon, <2>1, <2>2 DEF StoreInv, StoreType, LockIsHeld, UnsentIsOwned
  <2>6. TargetIsStored' /\ NextIsFree'
    BY Zenon, <2>1, <2>2, <2>3 DEF StoreInv, StoreType, TargetIsStored, NextIsFree
  <2>7. QED
    BY Zenon, <2>3, <2>4, <2>5, <2>6 DEF StoreInv
<1>8. ASSUME NEW h \in Handler, Fail(h)
      PROVE  StoreInv'
  <2>1. UNCHANGED <<seq, deleted, lastMessage>>
    BY Zenon, <1>8 DEF Fail
  <2>2. QED
    BY <1>8, <2>1, RowsUnchanged
       DEF Fail, Return, Goto, StoreInv, StoreType, LockIsHeld, UnsentIsOwned,
           TargetIsStored, NextIsFree
<1>9. ASSUME NEW c \in Client, Read(c)
      PROVE  UNCHANGED storeVars
  BY Zenon, <1>9 DEF Read, ReadFirst, ReadCache, ReadInvalidate, ReadDb, ReadMore,
              ReadCatchUp, ReadDone, storeVars
<1>10. CacheExpire => UNCHANGED storeVars
  BY Zenon DEF CacheExpire, storeVars
<1>11. UNCHANGED vars => UNCHANGED storeVars
  BY Zenon DEF vars, storeVars
<1>12. QED
  BY Zenon, <1>1, <1>2, <1>3, <1>4, <1>5, <1>6, <1>7, <1>8, <1>9, <1>10, <1>11,
     SendCommitKeepsStore, DeleteCommitKeepsStore
     DEF Next, Send, Delete

\* The invariant says what the properties say.
LEMMA StoreInvImplies == StoreInv => SequencesAreGapless /\ PreviewIsNewest
<1> SUFFICES ASSUME StoreInv
             PROVE  SequencesAreGapless /\ PreviewIsNewest
  BY Zenon
<1>1. SequencesAreGapless
  BY Zenon DEF StoreInv, Run, SequencesAreGapless
<1>2. CASE Live = {}
  BY Zenon, <1>1, <1>2 DEF StoreInv, Preview, PreviewIsNewest, Newest
<1>3. CASE Live # {}
  <2>1. Live \in SUBSET Stored
    BY Zenon DEF Live
  <2>2. Newest(Live) \in Live /\ \A k \in Live : seq[k] <= seq[Newest(Live)]
    BY Zenon, <1>3, <2>1, NewestExists
  <2>3. lastMessage \in Live /\ \A k \in Live : seq[k] <= seq[lastMessage]
    BY Zenon, <1>3 DEF StoreInv, Preview
  <2>4. seq[lastMessage] = seq[Newest(Live)]
    BY <2>1, <2>2, <2>3 DEF StoreInv, StoreType, Stored
  <2>5. lastMessage = Newest(Live)
    BY Zenon, <2>1, <2>2, <2>3, <2>4 DEF StoreInv, Run
  <2>6. QED
    BY Zenon, <1>1, <2>5 DEF PreviewIsNewest
<1>4. QED
  BY Zenon, <1>2, <1>3

\* In every reachable state, for any number of concurrent sends and deletes,
\* with rollbacks and crashes: sequence numbers are unique and gapless.
THEOREM GaplessTheorem == Spec => []SequencesAreGapless
<1>1. Spec => []StoreInv
  BY StoreInit, StoreNext, PTL DEF Spec
<1>2. QED
  BY <1>1, StoreInvImplies, PTL

\* In every reachable state the channel preview is the newest message that is
\* not deleted.
THEOREM PreviewTheorem == Spec => []PreviewIsNewest
<1>1. Spec => []StoreInv
  BY StoreInit, StoreNext, PTL DEF Spec
<1>2. QED
  BY <1>1, StoreInvImplies, PTL
-----------------------------------------------------------------------------
(* The store implements the append-only log of MessageLog                  *)

\* The log is the messages in the order of their sequence numbers.
InOrder ==
    /\ Committed \in Seq(MessageId)
    /\ Len(Committed) = MaxSequence
    /\ MaxSequence \in Nat
    /\ \A n \in 1 .. MaxSequence : Committed[n] \in Stored /\ seq[Committed[n]] = n
    /\ \A m \in Stored : seq[m] \in 1 .. MaxSequence /\ Committed[seq[m]] = m

\* The preview of the store is the preview the log asks for.
PreviewMatches == lastMessage = Log!LastLive(Committed, Erased)

\* The sequence numbers order the committed rows into a log.
LEMMA CommittedOrder == StoreInv => InOrder
<1> SUFFICES ASSUME StoreInv
             PROVE  InOrder
  BY Zenon
<1>1. MaxSequence \in Nat /\ Assigned = 1 .. MaxSequence
  BY Zenon DEF StoreInv, Run
<1>2. ASSUME NEW n \in 1 .. MaxSequence
      PROVE  Committed[n] \in Stored /\ seq[Committed[n]] = n
  <2>1. \E m \in Stored : seq[m] = n
    BY Zenon, <1>1 DEF Assigned
  <2>2. QED
    BY Zenon, <2>1 DEF Committed
<1>3. Stored \subseteq MessageId
  BY Zenon DEF Stored
<1>4. Committed \in [1 .. MaxSequence -> MessageId]
  BY Zenon, <1>2, <1>3 DEF Committed
<1>5. Committed \in Seq(MessageId) /\ Len(Committed) = MaxSequence
  BY <1>1, <1>4
<1>6. ASSUME NEW m \in Stored
      PROVE  seq[m] \in 1 .. MaxSequence /\ Committed[seq[m]] = m
  <2>1. seq[m] \in 1 .. MaxSequence
    BY Zenon, <1>1 DEF Assigned
  <2>2. QED
    BY Zenon, <1>2, <2>1 DEF StoreInv, Run
<1>7. QED
  BY Zenon, <1>1, <1>2, <1>5, <1>6 DEF InOrder

\* last_message_id is what the log defines as its preview.
LEMMA PreviewOfLog == StoreInv => PreviewMatches
<1> SUFFICES ASSUME StoreInv
             PROVE  lastMessage = Log!LastLive(Committed, Erased)
  BY Zenon DEF PreviewMatches
<1> DEFINE live == {i \in 1 .. Len(Committed) : Committed[i] \notin Erased}
<1>1. /\ Len(Committed) = MaxSequence
      /\ MaxSequence \in Nat
      /\ \A n \in 1 .. MaxSequence : Committed[n] \in Stored /\ seq[Committed[n]] = n
      /\ \A m \in Stored : seq[m] \in 1 .. MaxSequence /\ Committed[seq[m]] = m
  BY Zenon, CommittedOrder DEF InOrder
<1>2. \A m \in Live : seq[m] \in live /\ Committed[seq[m]] = m
  BY Zenon, <1>1 DEF Live, Erased
<1>3. \A i \in live : Committed[i] \in Live /\ seq[Committed[i]] = i
  BY Zenon, <1>1 DEF Live, Erased
<1>4. CASE Live = {}
  BY Zenon, <1>3, <1>4 DEF StoreInv, Preview, Log!LastLive
<1>5. CASE Live # {}
  <2> DEFINE last == seq[lastMessage]
  <2>1. lastMessage \in Live /\ \A k \in Live : seq[k] <= last
    BY Zenon, <1>5 DEF StoreInv, Preview
  <2>2. last \in live /\ Committed[last] = lastMessage
    BY Zenon, <1>2, <2>1
  <2>3. \A i \in live : i <= last
    BY Zenon, <1>3, <2>1
  <2>4. \A i \in live : (\A j \in live : j <= i) => i = last
    <3>1. SUFFICES ASSUME NEW i \in live, \A j \in live : j <= i
                   PROVE  i = last
      BY Zenon
    <3>2. i <= last /\ last <= i
      BY Zenon, <2>2, <2>3, <3>1
    <3>3. QED
      BY <2>2, <3>2, <1>1
  <2>5. (CHOOSE i \in live : \A j \in live : j <= i) = last
    BY Zenon, <2>2, <2>3, <2>4
  <2>6. QED
    BY Zenon, <2>2, <2>5 DEF Log!LastLive
<1>6. QED
  BY Zenon, <1>4, <1>5

\* A committed send posts to the log.
LEMMA SendPosts ==
    ASSUME StoreInv, NEW h \in Handler, SendCommit(h)
    PROVE  Log!Post(msg[h])
<1> DEFINE m == msg[h]
           n == MaxSequence
<1>1. /\ StoreInv'
      /\ MaxSequence' = n + 1
      /\ Stored' = Stored \cup {m}
  BY Zenon, SendCommitKeepsStore
<1>2. m \in MessageId /\ m \notin Stored /\ seq[m] = 0 /\ next[h] = n + 1
  BY DEF SendCommit, StoreInv, UnsentIsOwned, NextIsFree, Stored
<1>3. /\ Committed \in Seq(MessageId)
      /\ Len(Committed) = n
      /\ n \in Nat
      /\ \A i \in 1 .. n : Committed[i] \in Stored /\ seq[Committed[i]] = i
  BY Zenon, CommittedOrder DEF InOrder
<1>4. /\ Committed' \in Seq(MessageId)
      /\ Len(Committed') = n + 1
      /\ \A k \in Stored' : Committed'[seq'[k]] = k
  <2>1. InOrder'
    BY <1>1, CommittedOrder, PTL
  <2>2. QED
    BY Zenon, <1>1, <2>1 DEF InOrder
<1>5. seq' = [seq EXCEPT ![m] = n + 1]
  BY Zenon, <1>2 DEF SendCommit
<1>6. Committed'[n + 1] = m
  BY Zenon, <1>1, <1>2, <1>4, <1>5 DEF StoreInv, StoreType
<1>7. ASSUME NEW i \in 1 .. n
      PROVE  Committed'[i] = Committed[i]
  <2>1. Committed[i] \in Stored /\ seq[Committed[i]] = i
    BY Zenon, <1>3
  <2>2. seq'[Committed[i]] = i
    BY Zenon, <1>2, <1>5, <2>1 DEF StoreInv, StoreType, Stored
  <2>3. QED
    BY Zenon, <1>1, <1>4, <2>1, <2>2
<1>8. Committed' = Append(Committed, m)
  BY <1>2, <1>3, <1>4, <1>6, <1>7
<1>9. \A i \in 1 .. Len(Committed) : Committed[i] # m
  BY Zenon, <1>2, <1>3
<1>10. Erased' = Erased
  BY Zenon, <1>1, <1>2 DEF Erased, SendCommit, StoreInv, TargetIsStored
<1>11. lastMessage' = m
  BY Zenon DEF SendCommit
<1>12. QED
  BY Zenon, <1>8, <1>9, <1>10, <1>11 DEF Log!Post

\* A committed delete erases its message, or changes nothing when another
\* delete of the same message committed first.
LEMMA DeleteErases ==
    ASSUME StoreInv, NEW h \in Handler, DeleteCommit(h)
    PROVE  Log!Erase(msg[h]) \/ UNCHANGED Log!logVars
<1> DEFINE m == msg[h]
<1>1. StoreInv' /\ Stored' = Stored /\ Live' = Live \ {m}
  BY Zenon, DeleteCommitKeepsStore
<1>2. m \in Stored
  BY Zenon DEF DeleteCommit, StoreInv, TargetIsStored
<1>3. seq' = seq /\ Committed' = Committed
  BY <1>1 DEF DeleteCommit, Committed, MaxSequence, Assigned
<1>4. Erased' = Erased \cup {m}
  BY <1>1, <1>2 DEF DeleteCommit, Erased, StoreInv, StoreType, Stored
<1>5. CASE deleted[m]
  <2>1. m \notin Live /\ m \in Erased
    BY Zenon, <1>2, <1>5 DEF Live, Erased
  <2>2. lastMessage # m
    BY Zenon, <2>1, MessagesAssumption, <1>2 DEF StoreInv, Preview, Stored
  <2>3. QED
    BY Zenon, <1>3, <1>4, <2>1, <2>2 DEF DeleteCommit, Log!logVars
<1>6. CASE ~deleted[m]
  <2>1. PreviewMatches'
    BY <1>1, PreviewOfLog, PTL
  <2>2. lastMessage' = Log!LastLive(Committed, Erased')
    BY <1>3, <2>1 DEF PreviewMatches, Log!LastLive
  <2>3. \E i \in 1 .. Len(Committed) : Committed[i] = m
    BY Zenon, <1>2, CommittedOrder DEF InOrder
  <2>4. m \notin Erased
    BY Zenon, <1>6 DEF Erased
  <2>5. QED
    BY Zenon, <1>3, <1>4, <2>2, <2>3, <2>4 DEF Log!Erase
<1>7. QED
  BY Zenon, <1>5, <1>6

\* Every step of the store is a step of the log or leaves the log alone.
LEMMA LogStep == StoreInv /\ [Next]_vars => [Log!LogNext]_(Log!logVars)
<1> SUFFICES ASSUME StoreInv, [Next]_vars
             PROVE  [Log!LogNext]_(Log!logVars)
  BY Zenon
<1>1. ASSUME UNCHANGED <<seq, deleted, lastMessage>>
      PROVE  UNCHANGED Log!logVars
  BY <1>1 DEF Log!logVars, Committed, Erased, Stored, MaxSequence, Assigned
<1>2. ASSUME NEW h \in Handler, SendCommit(h)
      PROVE  Log!LogNext
  <2>1. msg[h] \in MessageId
    BY Zenon, <1>2 DEF SendCommit, StoreInv, UnsentIsOwned
  <2>2. QED
    BY Zenon, <1>2, <2>1, SendPosts DEF Log!LogNext
<1>3. ASSUME NEW h \in Handler, DeleteCommit(h)
      PROVE  Log!LogNext \/ UNCHANGED Log!logVars
  <2>1. msg[h] \in MessageId
    BY Zenon, <1>3 DEF DeleteCommit, StoreInv, TargetIsStored, Stored
  <2>2. QED
    BY Zenon, <1>3, <2>1, DeleteErases DEF Log!LogNext
<1>4. ASSUME NEW h \in Handler,
             \/ \E m \in MessageId : SendStart(h, m) \/ DeleteStart(h, m)
             \/ SendLock(h) \/ SendMax(h) \/ SendPush(h)
             \/ DeleteMark(h) \/ DeleteLock(h) \/ DeleteInvalidate(h) \/ Fail(h)
      PROVE  UNCHANGED <<seq, deleted, lastMessage>>
  BY Zenon, <1>4 DEF SendStart, DeleteStart, SendLock, SendMax, SendPush, DeleteMark,
              DeleteLock, DeleteInvalidate, Fail, dbVars
<1>5. ASSUME NEW c \in Client, Read(c)
      PROVE  UNCHANGED <<seq, deleted, lastMessage>>
  BY Zenon, <1>5 DEF Read, ReadFirst, ReadCache, ReadInvalidate, ReadDb, ReadMore,
              ReadCatchUp, ReadDone, dbVars
<1>6. CacheExpire \/ UNCHANGED vars => UNCHANGED <<seq, deleted, lastMessage>>
  BY Zenon DEF CacheExpire, vars, dbVars
<1>7. QED
  BY Zenon, <1>1, <1>2, <1>3, <1>4, <1>5, <1>6 DEF Next, Send, Delete

\* The store implements the append-only log: whatever the transactions of
\* sends and deletes interleave, a reader of the committed rows sees only
\* appends at the end and erasures.
THEOREM LogTheorem == Spec => ImplementsLog
<1>1. Init => Log!LogInit
  <2> SUFFICES ASSUME Init
               PROVE  Log!LogInit
    BY Zenon
  <2>1. StoreInv
    BY Zenon, StoreInit
  <2>2. Stored = {} /\ Erased = {} /\ lastMessage = None
    BY DEF Init, Stored, Erased
  <2>3. Committed = <<>>
    BY <2>1, <2>2, CommittedOrder DEF InOrder
  <2>4. QED
    BY Zenon, <2>2, <2>3 DEF Log!LogInit
<1>2. Spec => []StoreInv
  BY StoreInit, StoreNext, PTL DEF Spec
<1>3. QED
  BY <1>1, <1>2, LogStep, PTL DEF Spec, ImplementsLog, Log!LogSpec
-----------------------------------------------------------------------------
\* Paging through the history.

\* The oldest and the newest number of a page are what CHOOSE picks.
LEMMA OldestIs ==
    ASSUME NEW S \in SUBSET Nat, S # {}
    PROVE  Oldest(S) \in S /\ \A k \in S : Oldest(S) <= k
<1>1. PICK x \in S : \A k \in S : x <= k
  BY Zenon, MinExists
<1>2. QED
  BY Zenon, <1>1 DEF Oldest

\* As OldestIs, for 'since' pages.
LEMMA LatestIs ==
    ASSUME NEW n \in Nat, NEW S \in SUBSET (1 .. n), S # {}
    PROVE  Latest(S) \in S /\ \A k \in S : k <= Latest(S)
<1>1. S \in SUBSET (0 .. n)
  OBVIOUS
<1>2. PICK x \in S : \A k \in S : k <= x
  BY Zenon, <1>1, MaxExists
<1>3. QED
  BY Zenon, <1>2 DEF Latest

\* Over a run of sequence numbers, LIMIT l takes the l numbers next to the
\* cursor.
LEMMA PageOfRun ==
    ASSUME NEW a \in Nat, NEW b \in Nat, NEW l \in Nat \ {0}, a <= b + 1
    PROVE  /\ Page(a .. b, "before", l) = {x \in a .. b : b - x < l}
           /\ Page(a .. b, "since", l) = {x \in a .. b : x - a < l}
           /\ Cardinality(a .. b) = b - a + 1
<1>1. ASSUME NEW x \in a .. b
      PROVE  /\ Cardinality({k \in a .. b : k > x}) = b - x
             /\ Cardinality({k \in a .. b : k < x}) = x - a
  <2>1. {k \in a .. b : k > x} = x + 1 .. b /\ {k \in a .. b : k < x} = a .. x - 1
    OBVIOUS
  <2>2. /\ Cardinality(x + 1 .. b) = IF x + 1 > b THEN 0 ELSE b - (x + 1) + 1
        /\ Cardinality(a .. x - 1) = IF a > x - 1 THEN 0 ELSE (x - 1) - a + 1
    BY FS_Interval
  <2>3. Cardinality(x + 1 .. b) = b - x /\ Cardinality(a .. x - 1) = x - a
    BY <2>2
  <2>4. QED
    BY <2>1, <2>3, Zenon
<1>2. Cardinality(a .. b) = b - a + 1
  <2>1. Cardinality(a .. b) = IF a > b THEN 0 ELSE b - a + 1
    BY FS_Interval
  <2>2. QED
    BY <2>1
<1>3. QED
  BY Zenon, <1>1, <1>2 DEF Page
-----------------------------------------------------------------------------
\* What a request of a client satisfies while n messages are stored.
ReaderOK(r, n) ==
    /\ r \in Reader
    /\ r.got \cup r.page \subseteq 1 .. n
    /\ \A i, j \in r.got \cup r.page : i .. j \subseteq r.got \cup r.page
    /\ r.got \cap r.page = {}
    /\ r.pc # "idle" => r.limit > 0
    /\ r.pc \in {"cache", "drop"} =>
           r.mode = "before" /\ r.cursor = NoCursor /\ r.got = {}
    /\ r.pc # "page" => r.page = {}
    /\ r.pc = "db" =>
           \/ r.cursor = NoCursor /\ r.got = {}
           \/ /\ r.cursor \in r.got
              /\ \A i \in r.got : IF r.mode = "since" THEN i <= r.cursor
                                                      ELSE r.cursor <= i
    /\ r.pc = "page" =>
           /\ r.more => r.page # {}
           /\ \A i \in r.page, j \in r.got : IF r.mode = "since" THEN j < i
                                                                 ELSE i < j
           /\ r.mode = "before" /\ ~r.more =>
                  r.got \cup r.page = {} \/ 1 \in r.got \cup r.page

\* Only stored messages are ever pushed to the Redis list.
CacheInv ==
    /\ cache \in Seq(MessageId)
    /\ \A i \in 1 .. Len(cache) : cache[i] \in Stored

HistoryInv == CacheInv /\ rd \in [Client -> Reader]
                       /\ \A c \in Client : ReaderOK(rd[c], MaxSequence)

\* The log only grows, and what is stored stays stored.
LEMMA StoreGrows ==
    ASSUME StoreInv, [Next]_vars
    PROVE  /\ MaxSequence \in Nat /\ MaxSequence' \in Nat
           /\ MaxSequence <= MaxSequence'
           /\ Stored \subseteq Stored'
<1>1. StoreInv'
  BY Zenon, StoreNext
<1>2. MaxSequence \in Nat /\ MaxSequence' \in Nat
  BY Zenon, <1>1 DEF StoreInv, Run
<1>3. ASSUME UNCHANGED seq
      PROVE  MaxSequence' = MaxSequence /\ Stored' = Stored
  BY Zenon, <1>3 DEF MaxSequence, Assigned, Stored
<1>4. CASE \E h \in Handler : SendCommit(h)
  BY <1>2, <1>4, SendCommitKeepsStore
<1>5. CASE ~ \E h \in Handler : SendCommit(h)
  <2>1. UNCHANGED seq
    BY Zenon, <1>5 DEF Next, Send, Delete, SendStart, DeleteStart, SendLock, SendMax,
                SendPush, DeleteMark, DeleteLock, DeleteCommit,
                DeleteInvalidate, Fail, Read, ReadFirst, ReadCache,
                ReadInvalidate, ReadDb, ReadMore, ReadCatchUp, ReadDone,
                CacheExpire, vars, dbVars
  <2>2. QED
    BY <1>2, <1>3, <2>1
<1>6. QED
  BY Zenon, <1>2, <1>4, <1>5

\* A request that was in order stays in order while messages are appended.
LEMMA ReaderGrows ==
    ASSUME NEW r, NEW n \in Nat, NEW k \in Nat, n <= k, ReaderOK(r, n)
    PROVE  ReaderOK(r, k)
<1>1. 1 .. n \subseteq 1 .. k
  OBVIOUS
<1>2. QED
  BY Zenon, <1>1 DEF ReaderOK

\* A client that gets no answer in a step keeps a request that is in order.
LEMMA OtherReaders ==
    ASSUME StoreInv, HistoryInv, [Next]_vars, NEW c \in Client, rd'[c] = rd[c]
    PROVE  ReaderOK(rd'[c], MaxSequence')
BY Zenon, StoreGrows, ReaderGrows DEF HistoryInv

\* A request is in order when its cursor is an end of what the client has.
LEMMA RequestInOrder ==
    ASSUME NEW n \in Nat, NEW at \in {"cache", "drop", "db"},
           NEW mode \in {"before", "since"}, NEW cursor \in Int,
           NEW l \in Nat \ {0}, NEW got \in SUBSET (1 .. n),
           \A i, j \in got : i .. j \subseteq got,
           at # "db" => mode = "before" /\ cursor = NoCursor /\ got = {},
           \/ cursor = NoCursor /\ got = {}
           \/ /\ cursor \in got
              /\ \A i \in got : IF mode = "since" THEN i <= cursor ELSE cursor <= i
    PROVE  ReaderOK(Request(at, mode, cursor, l, got), n)
<1> DEFINE q == Request(at, mode, cursor, l, got)
<1>1. q \in Reader
  <2>1. got \in SUBSET Nat
    OBVIOUS
  <2>2. QED
    BY Zenon, <2>1 DEF Request, Reader
<1>2. /\ q.pc = at /\ q.mode = mode /\ q.cursor = cursor
      /\ q.limit = l /\ q.got = got /\ q.page = {}
  BY Zenon DEF Request
<1> HIDE DEF q
<1>3. q.pc # "idle" /\ q.pc # "page" /\ q.limit > 0
  BY <1>2
<1>4. q.got \cup q.page = got /\ q.got \cap q.page = {}
  BY Zenon, <1>2
<1>5. q.pc \in {"cache", "drop"} => q.mode = "before" /\ q.cursor = NoCursor /\ q.got = {}
  BY Zenon, <1>2
<1>6. \/ q.cursor = NoCursor /\ q.got = {}
      \/ /\ q.cursor \in q.got
         /\ \A i \in q.got : IF q.mode = "since" THEN i <= q.cursor ELSE q.cursor <= i
  BY Zenon, <1>2
<1>7. ReaderOK(q, n)
  BY Zenon, <1>1, <1>2, <1>3, <1>4, <1>5, <1>6 DEF ReaderOK
<1>8. QED
  BY Zenon, <1>7 DEF q

\* A first request is in order.
LEMMA FirstRequest ==
    ASSUME NEW n \in Nat, NEW mode \in {"before", "since"}, NEW l \in Nat \ {0},
           NEW at \in {"cache", "db"}, mode = "since" => at = "db"
    PROVE  ReaderOK(Request(at, mode, NoCursor, l, {}), n)
<1>1. NoCursor \in Int
  BY DEF NoCursor
<1>2. QED
  BY Zenon, <1>1, RequestInOrder

\* Falling through to the next step of getMessages keeps a request in order.
LEMMA MovedRequest ==
    ASSUME NEW n \in Nat, NEW r, ReaderOK(r, n), r.pc \in {"cache", "drop"},
           NEW at \in {"drop", "db"}
    PROVE  ReaderOK(Moved(r, at), n)
<1>1. /\ r.mode = "before" /\ r.cursor = NoCursor /\ r.got = {}
      /\ r.limit \in Nat \ {0}
  BY DEF ReaderOK, Reader
<1>2. NoCursor \in Int
  BY DEF NoCursor
<1>3. QED
  BY Zenon, <1>1, <1>2, RequestInOrder DEF Moved

\* An idle client is in order.
LEMMA IdleRequest ==
    ASSUME NEW n \in Nat
    PROVE  ReaderOK(IdleReader, n)
BY DEF ReaderOK, IdleReader, Request, Reader, NoCursor

\* A page that joins up with what the client has is in order.
LEMMA ResponseInOrder ==
    ASSUME NEW n \in Nat, NEW r \in Reader, r.limit > 0,
           NEW P \in SUBSET (1 .. n), NEW more \in BOOLEAN,
           r.got \subseteq 1 .. n,
           \A i, j \in r.got \cup P : i .. j \subseteq r.got \cup P,
           more => P # {},
           \A i \in P, j \in r.got : IF r.mode = "since" THEN j < i ELSE i < j,
           r.mode = "before" /\ ~more => r.got \cup P = {} \/ 1 \in r.got \cup P
    PROVE  ReaderOK(Response(r, P, more), n)
<1> DEFINE q == Response(r, P, more)
<1>1. q \in Reader
  BY DEF Response, Reader
<1>2. q.pc = "page" /\ q.mode = r.mode /\ q.limit = r.limit /\ q.got = r.got
      /\ q.page = P
  BY Zenon DEF Response
<1>3. q.more = more
  BY Zenon DEF Response
<1>4. r.got \cap P = {}
  BY DEF Reader
<1> HIDE DEF q
<1>5. q.more => q.page # {}
  BY <1>2, <1>3, Zenon
<1>6. q.mode = "before" /\ ~q.more => q.got \cup q.page = {} \/ 1 \in q.got \cup q.page
  BY <1>2, <1>3, Zenon
<1>7. QED
  BY Zenon, <1>1, <1>2, <1>4, <1>5, <1>6 DEF ReaderOK, q

\* A page of the cache that passes the contiguity check is in order.
LEMMA CacheResponse ==
    ASSUME NEW n \in Nat, NEW r, ReaderOK(r, n), r.pc = "cache",
           NEW S \in SUBSET (1 .. n), Contiguous(S, r.limit)
    PROVE  ReaderOK(Response(r, S, 1 \notin S), n)
<1>1. r.limit \in Nat \ {0} /\ r.got = {} /\ r \in Reader
  BY DEF ReaderOK, Reader
<1>2. PICK lo \in S : S = lo .. lo + r.limit - 1
  BY Zenon DEF Contiguous
<1>3. \A i, j \in r.got \cup S : i .. j \subseteq r.got \cup S
  BY <1>1, <1>2
<1> DEFINE more == 1 \notin S
<1>4. more \in BOOLEAN /\ (more => S # {})
  BY Zenon, <1>2
<1>5. /\ r.got \subseteq 1 .. n
      /\ \A i \in S, j \in r.got : IF r.mode = "since" THEN j < i ELSE i < j
  BY Zenon, <1>1
<1>6. r.mode = "before" /\ ~more => r.got \cup S = {} \/ 1 \in r.got \cup S
  BY Zenon
<1>a. r.limit > 0
  BY <1>1
<1> HIDE DEF more
<1>7. ReaderOK(Response(r, S, more), n)
  BY <1>1, <1>3, <1>4, <1>5, <1>6, <1>a, ResponseInOrder, Zenon
<1>8. QED
  BY Zenon, <1>7 DEF more

\* A page of the database joins up with what the client has.
LEMMA DbResponse ==
    ASSUME NEW n \in Nat, NEW r, ReaderOK(r, n), r.pc = "db",
           NEW S, S = {k \in 1 .. n : r.cursor # NoCursor =>
                          IF r.mode = "since" THEN k > r.cursor ELSE k < r.cursor}
    PROVE  ReaderOK(Response(r, Page(S, r.mode, r.limit),
                             Cardinality(S) > r.limit), n)
<1> DEFINE P == Page(S, r.mode, r.limit)
           more == Cardinality(S) > r.limit
<1>1. r.limit \in Nat \ {0} /\ r \in Reader /\ r.got \subseteq 1 .. n
  BY DEF ReaderOK, Reader
<1>2. r.mode \in {"before", "since"}
  BY Zenon, <1>1 DEF Reader
<1>3. CASE r.cursor = NoCursor
  <2>1. S = 1 .. n /\ r.got = {}
    BY <1>3 DEF ReaderOK, NoCursor
  <2>a. /\ Page(1 .. n, "before", r.limit) = {x \in 1 .. n : n - x < r.limit}
        /\ Page(1 .. n, "since", r.limit) = {x \in 1 .. n : x - 1 < r.limit}
        /\ Cardinality(1 .. n) = n - 1 + 1
    <3>1. 1 \in Nat /\ 1 <= n + 1
      OBVIOUS
    <3>2. QED
      BY <1>1, <3>1, PageOfRun, Zenon
  <2>2. P = IF r.mode = "since" THEN {x \in 1 .. n : x - 1 < r.limit}
                                ELSE {x \in 1 .. n : n - x < r.limit}
    BY <1>2, <2>1, <2>a, Zenon
  <2>b. Cardinality(S) = n
    <3>1. Cardinality(S) = Cardinality(1 .. n)
      BY <2>1, Zenon
    <3>2. QED
      BY <2>1, <2>a, <3>1
  <2>3. more \in BOOLEAN /\ (more <=> n > r.limit)
    BY <2>b
  <2> HIDE DEF P, more
  <2>4. /\ P \in SUBSET (1 .. n)
        /\ \A i, j \in P : i .. j \subseteq P
    BY <1>1, <2>2
  <2>5. more => P # {}
    <3>1. n > r.limit => n \in P \/ 1 \in P
      BY <1>1, <2>2
    <3>2. QED
      BY Zenon, <2>3, <3>1
  <2>6. r.mode = "before" /\ ~more => P = {} \/ 1 \in P
    BY <1>1, <2>2, <2>3
  <2>7. ReaderOK(Response(r, P, more), n)
    BY <1>1, <2>1, <2>3, <2>4, <2>5, <2>6, ResponseInOrder
  <2>8. QED
    BY Zenon, <2>7 DEF P, more
<1>4. CASE r.cursor # NoCursor /\ r.mode = "since"
  <2> DEFINE cur == r.cursor
  <2>1. cur \in r.got /\ cur \in 1 .. n /\ \A i \in r.got : i <= cur
    BY Zenon, <1>1, <1>4 DEF ReaderOK
  <2>2. S = cur + 1 .. n
    BY <1>4, <2>1
  <2>a. /\ Page(cur + 1 .. n, "since", r.limit)
              = {x \in cur + 1 .. n : x - (cur + 1) < r.limit}
        /\ Cardinality(cur + 1 .. n) = n - (cur + 1) + 1
    <3>1. PICK a \in Nat : a = cur + 1
      BY <2>1
    <3>a. a <= n + 1
      BY <2>1, <3>1
    <3>2. /\ Page(a .. n, "before", r.limit) = {x \in a .. n : n - x < r.limit}
          /\ Page(a .. n, "since", r.limit) = {x \in a .. n : x - a < r.limit}
          /\ Cardinality(a .. n) = n - a + 1
      BY <1>1, <3>a, PageOfRun, Zenon
    <3>3. QED
      BY <3>1, <3>2, Zenon
  <2>3. P = {x \in cur + 1 .. n : x - (cur + 1) < r.limit}
    BY <1>4, <2>2, <2>a, Zenon
  <2>b. Cardinality(S) = n - cur
    <3>1. Cardinality(S) = Cardinality(cur + 1 .. n)
      BY <2>2, Zenon
    <3>2. QED
      BY <2>1, <2>a, <3>1
  <2>4. more \in BOOLEAN /\ (more <=> n - cur > r.limit)
    BY <2>b
  <2> HIDE DEF P, more
  <2>5. P \in SUBSET (1 .. n) /\ \A i \in P, j \in r.got : j < i
    BY <1>1, <2>1, <2>3
  <2>6. \A i, j \in r.got \cup P : i .. j \subseteq r.got \cup P
    <3>1. \A i, j \in r.got : i .. j \subseteq r.got
      BY Zenon, <1>4 DEF ReaderOK
    <3>2. QED
      BY <1>1, <2>1, <2>3, <3>1
  <2>7. more => P # {}
    <3>1. n - cur > r.limit => cur + 1 \in P
      BY <1>1, <2>1, <2>3
    <3>2. QED
      BY Zenon, <2>4, <3>1
  <2>8. ReaderOK(Response(r, P, more), n)
    BY <1>1, <1>4, <2>4, <2>5, <2>6, <2>7, ResponseInOrder
  <2>9. QED
    BY Zenon, <2>8 DEF P, more
<1>5. CASE r.cursor # NoCursor /\ r.mode = "before"
  <2> DEFINE cur == r.cursor
  <2>1. cur \in r.got /\ cur \in 1 .. n /\ \A i \in r.got : cur <= i
    BY Zenon, <1>1, <1>5 DEF ReaderOK
  <2>2. S = 1 .. cur - 1
    BY <1>5, <2>1
  <2>a. /\ Page(1 .. cur - 1, "before", r.limit)
              = {x \in 1 .. cur - 1 : cur - 1 - x < r.limit}
        /\ Cardinality(1 .. cur - 1) = cur - 1 - 1 + 1
    <3>1. PICK b \in Nat : b = cur - 1
      BY <2>1
    <3>a. 1 \in Nat /\ 1 <= b + 1
      OBVIOUS
    <3>2. /\ Page(1 .. b, "before", r.limit) = {x \in 1 .. b : b - x < r.limit}
          /\ Page(1 .. b, "since", r.limit) = {x \in 1 .. b : x - 1 < r.limit}
          /\ Cardinality(1 .. b) = b - 1 + 1
      BY <1>1, <3>a, PageOfRun, Zenon
    <3>3. QED
      BY <3>1, <3>2, Zenon
  <2>3. P = {x \in 1 .. cur - 1 : cur - 1 - x < r.limit}
    BY <1>5, <2>2, <2>a, Zenon
  <2>b. Cardinality(S) = cur - 1
    <3>1. Cardinality(S) = Cardinality(1 .. cur - 1)
      BY <2>2, Zenon
    <3>2. QED
      BY <2>1, <2>a, <3>1
  <2>4. more \in BOOLEAN /\ (more <=> cur - 1 > r.limit)
    BY <2>b
  <2> HIDE DEF P, more
  <2>5. P \in SUBSET (1 .. n) /\ \A i \in P, j \in r.got : i < j
    BY <1>1, <2>1, <2>3
  <2>6. \A i, j \in r.got \cup P : i .. j \subseteq r.got \cup P
    <3>1. \A i, j \in r.got : i .. j \subseteq r.got
      BY Zenon, <1>5 DEF ReaderOK
    <3>2. QED
      BY <1>1, <2>1, <2>3, <3>1
  <2>7. more => P # {}
    <3>1. cur - 1 > r.limit => cur - 1 \in P
      BY <1>1, <2>1, <2>3
    <3>2. QED
      BY Zenon, <2>4, <3>1
  <2>8. ~more => 1 \in r.got \cup P
    BY <1>1, <2>1, <2>3, <2>4
  <2>9. ReaderOK(Response(r, P, more), n)
    BY <1>1, <1>5, <2>4, <2>5, <2>6, <2>7, <2>8, ResponseInOrder
  <2>10. QED
    BY Zenon, <2>9 DEF P, more
<1>6. QED
  BY Zenon, <1>2, <1>3, <1>4, <1>5

\* The page behind a cursor continues what the client has.
LEMMA MoreRequest ==
    ASSUME NEW n \in Nat, NEW r, ReaderOK(r, n), r.pc = "page", r.more,
           NEW l \in Nat \ {0}
    PROVE  ReaderOK(Request("db", r.mode, NextCursor(r.page, r.mode), l,
                            r.got \cup r.page), n)
<1> DEFINE cursor == NextCursor(r.page, r.mode)
<1>1. r.page \in SUBSET (1 .. n) /\ r.page # {} /\ r.mode \in {"before", "since"}
  BY Zenon DEF ReaderOK, Reader
<1>a. /\ r.got \cup r.page \in SUBSET (1 .. n)
      /\ \A i, j \in r.got \cup r.page : i .. j \subseteq r.got \cup r.page
  BY Zenon DEF ReaderOK
<1>2. CASE r.mode = "since"
  <2>1. cursor \in r.page /\ \A k \in r.page : k <= cursor
    BY Zenon, <1>1, <1>2, LatestIs DEF NextCursor
  <2>2. \A k \in r.got \cup r.page : k <= cursor
    BY <1>1, <1>2, <2>1 DEF ReaderOK
  <2>3. cursor \in Int /\ cursor \in r.got \cup r.page
    BY <1>1, <2>1
  <2> HIDE DEF cursor
  <2>4. ReaderOK(Request("db", r.mode, cursor, l, r.got \cup r.page), n)
    BY Zenon, <1>1, <1>a, <1>2, <2>2, <2>3, RequestInOrder
  <2>5. QED
    BY Zenon, <2>4 DEF cursor
<1>3. CASE r.mode # "since"
  <2>1. cursor \in r.page /\ \A k \in r.page : cursor <= k
    BY <1>1, <1>3, OldestIs DEF NextCursor
  <2>2. \A k \in r.got \cup r.page : cursor <= k
    BY <1>1, <1>3, <2>1 DEF ReaderOK
  <2>3. cursor \in Int /\ cursor \in r.got \cup r.page
    BY <1>1, <2>1
  <2> HIDE DEF cursor
  <2>4. ReaderOK(Request("db", r.mode, cursor, l, r.got \cup r.page), n)
    BY Zenon, <1>1, <1>a, <1>3, <2>2, <2>3, RequestInOrder
  <2>5. QED
    BY Zenon, <2>4 DEF cursor
<1>4. QED
  BY Zenon, <1>2, <1>3

\* Asking 'since' the newest message the client has continues what it has.
LEMMA CatchUpRequest ==
    ASSUME NEW n \in Nat, NEW r, ReaderOK(r, n), r.pc = "page",
           r.got \cup r.page # {}, NEW l \in Nat \ {0}
    PROVE  ReaderOK(Request("db", "since", Latest(r.got \cup r.page), l,
                            r.got \cup r.page), n)
<1> DEFINE all == r.got \cup r.page
           cursor == Latest(all)
<1>1. all \in SUBSET (1 .. n) /\ \A i, j \in all : i .. j \subseteq all
  BY Zenon DEF ReaderOK
<1>2. cursor \in all /\ \A k \in all : k <= cursor
  BY Zenon, <1>1, LatestIs
<1>3. cursor \in Int
  BY <1>1, <1>2
<1> HIDE DEF all, cursor
<1>4. ReaderOK(Request("db", "since", cursor, l, all), n)
  BY Zenon, <1>1, <1>2, <1>3, RequestInOrder
<1>5. QED
  BY Zenon, <1>4 DEF all, cursor

\* Nothing is cached and nobody reads initially.
LEMMA HistoryInit == Init => HistoryInv
<1> SUFFICES ASSUME Init
             PROVE  HistoryInv
  BY Zenon
<1>1. MaxSequence \in Nat
  BY Zenon, StoreInit DEF StoreInv, Run
<1>2. \A c \in Client : rd[c] = IdleReader
  BY Zenon DEF Init
<1>3. ReaderOK(IdleReader, MaxSequence)
  BY Zenon, <1>1, IdleRequest
<1>4. IdleReader \in Reader
  BY Zenon, <1>3 DEF ReaderOK
<1>5. QED
  BY <1>2, <1>3, <1>4 DEF Init, HistoryInv, CacheInv

\* Only a send, a delete, a reader or expiry touches the list; each leaves
\* stored messages in it.
LEMMA CacheNext ==
    ASSUME StoreInv, HistoryInv, [Next]_vars
    PROVE  CacheInv'
<1> USE DEF HistoryInv, CacheInv
<1>1. Stored \subseteq Stored' /\ Stored \subseteq MessageId
  BY Zenon, StoreGrows DEF Stored
<1>2. CASE cache' = cache
  BY Zenon, <1>1, <1>2
<1>3. CASE cache' = <<>>
  BY <1>3
<1>4. ASSUME NEW h \in Handler, SendPush(h), cache' = Pushed(msg[h])
      PROVE  CacheInv'
  <2>1. msg[h] \in Stored
    BY Zenon, <1>4 DEF SendPush, StoreInv, TargetIsStored
  <2> DEFINE list == Append(cache, msg[h])
  <2>2. /\ list \in Seq(MessageId) /\ list # <<>>
        /\ \A i \in 1 .. Len(list) : list[i] \in Stored
    BY <1>1, <2>1
  <2>3. /\ Tail(list) \in Seq(MessageId)
        /\ \A i \in 1 .. Len(Tail(list)) : Tail(list)[i] \in Stored
    BY <2>2
  <2>4. cache' = list \/ cache' = Tail(list)
    BY Zenon, <1>4 DEF Pushed
  <2>5. QED
    BY Zenon, <1>1, <2>2, <2>3, <2>4
<1>5. \/ cache' = cache \/ cache' = <<>>
      \/ \E h \in Handler : SendPush(h) /\ cache' = Pushed(msg[h])
  BY Zenon DEF Next, Send, Delete, SendStart, DeleteStart, SendLock, SendMax,
         SendCommit, SendPush, DeleteMark, DeleteLock, DeleteCommit,
         DeleteInvalidate, Fail, Read, ReadFirst, ReadCache, ReadInvalidate,
         ReadDb, ReadMore, ReadCatchUp, ReadDone, CacheExpire, vars
<1>6. QED
  BY Zenon, <1>2, <1>3, <1>4, <1>5

\* A step of a reader leaves its own request in order.
LEMMA ReadNext ==
    ASSUME StoreInv, HistoryInv, NEW c \in Client, Read(c)
    PROVE  /\ MaxSequence' = MaxSequence
           /\ \E r \in Reader : rd' = [rd EXCEPT ![c] = r] /\ ReaderOK(r, MaxSequence)
<1> DEFINE n == MaxSequence
           r == rd[c]
<1>1. n \in Nat /\ Assigned = 1 .. n
  BY Zenon DEF StoreInv, Run
<1>2. ReaderOK(r, n)
  BY Zenon DEF HistoryInv
<1>3. MaxSequence' = MaxSequence
  <2>1. UNCHANGED seq
    BY Zenon DEF Read, ReadFirst, ReadCache, ReadInvalidate, ReadDb, ReadMore,
           ReadCatchUp, ReadDone, dbVars
  <2>2. QED
    BY Zenon, <2>1 DEF MaxSequence, Assigned, Stored
<1>4. \A q : ReaderOK(q, n) => q \in Reader
  BY Zenon DEF ReaderOK
<1>5. ASSUME NEW mode \in {"before", "since"}, NEW l \in Limits, ReadFirst(c, mode, l)
      PROVE  \E q : rd' = [rd EXCEPT ![c] = q] /\ ReaderOK(q, n)
  <2> DEFINE at == IF mode # "since" /\ l <= CacheSize THEN "cache" ELSE "db"
  <2>1. at \in {"cache", "db"} /\ (mode = "since" => at = "db")
    BY Zenon
  <2>2. l \in Nat \ {0}
    BY Zenon, MessagesAssumption
  <2>3. ReaderOK(Request(at, mode, NoCursor, l, {}), n)
    BY Zenon, <1>1, <2>1, <2>2, FirstRequest
  <2>4. QED
    BY Zenon, <1>5, <2>3 DEF ReadFirst
<1>6. ASSUME ReadCache(c)
      PROVE  \E q : rd' = [rd EXCEPT ![c] = q] /\ ReaderOK(q, n)
  <2> DEFINE S == CachedTail(r.limit)
  <2>1. r.pc = "cache"
    BY Zenon, <1>6 DEF ReadCache
  <2>2. r.limit \in Nat \ {0}
    BY <1>2, <2>1 DEF ReaderOK, Reader
  <2>3. ReaderOK(Moved(r, "db"), n) /\ ReaderOK(Moved(r, "drop"), n)
    BY Zenon, <1>1, <1>2, <2>1, MovedRequest
  <2>4. ASSUME Len(cache) >= r.limit, Contiguous(S, r.limit)
        PROVE  ReaderOK(Response(r, S, 1 \notin S), n)
    <3>1. Len(cache) \in Nat
      BY DEF HistoryInv, CacheInv
    <3>2. Len(cache) - r.limit + 1 .. Len(cache) \subseteq 1 .. Len(cache)
      BY <2>2, <2>4, <3>1
    <3>3. \A i \in 1 .. Len(cache) : seq[cache[i]] \in 1 .. n
      BY Zenon, <1>1 DEF HistoryInv, CacheInv, Assigned
    <3>4. S \in SUBSET (1 .. n)
      BY Zenon, <3>2, <3>3 DEF CachedTail
    <3>5. QED
      BY Zenon, <1>1, <1>2, <2>1, <2>4, <3>4, CacheResponse
  <2>5. QED
    BY Zenon, <1>6, <2>3, <2>4 DEF ReadCache
<1>7. ASSUME ReadInvalidate(c)
      PROVE  \E q : rd' = [rd EXCEPT ![c] = q] /\ ReaderOK(q, n)
  BY Zenon, <1>1, <1>2, <1>7, MovedRequest DEF ReadInvalidate
<1>8. ASSUME ReadDb(c)
      PROVE  \E q : rd' = [rd EXCEPT ![c] = q] /\ ReaderOK(q, n)
  <2> DEFINE S == Matching(r.mode, r.cursor)
  <2>1. r.pc = "db"
    BY Zenon, <1>8 DEF ReadDb
  <2>2. S = {k \in 1 .. n : r.cursor # NoCursor =>
                IF r.mode = "since" THEN k > r.cursor ELSE k < r.cursor}
    BY Zenon, <1>1 DEF Matching
  <2>3. ReaderOK(Response(r, Page(S, r.mode, r.limit), Cardinality(S) > r.limit), n)
    BY Zenon, <1>1, <1>2, <2>1, <2>2, DbResponse
  <2>4. QED
    BY Zenon, <1>8, <2>3 DEF ReadDb
<1>9. ASSUME NEW l \in Limits, ReadMore(c, l)
      PROVE  \E q : rd' = [rd EXCEPT ![c] = q] /\ ReaderOK(q, n)
  <2>1. l \in Nat \ {0}
    BY Zenon, MessagesAssumption
  <2>2. QED
    BY Zenon, <1>1, <1>2, <1>9, <2>1, MoreRequest DEF ReadMore
<1>10. ASSUME NEW l \in Limits, ReadCatchUp(c, l)
       PROVE  \E q : rd' = [rd EXCEPT ![c] = q] /\ ReaderOK(q, n)
  <2>1. l \in Nat \ {0}
    BY Zenon, MessagesAssumption
  <2>2. QED
    BY Zenon, <1>1, <1>2, <1>10, <2>1, CatchUpRequest DEF ReadCatchUp
<1>11. ASSUME ReadDone(c)
       PROVE  \E q : rd' = [rd EXCEPT ![c] = q] /\ ReaderOK(q, n)
  BY Zenon, <1>1, <1>11, IdleRequest DEF ReadDone
<1>12. QED
  BY Zenon, <1>3, <1>4, <1>5, <1>6, <1>7, <1>8, <1>9, <1>10, <1>11 DEF Read

\* Every step of the system keeps the invariant of the history.
LEMMA HistoryNext == StoreInv /\ HistoryInv /\ [Next]_vars => HistoryInv'
<1> SUFFICES ASSUME StoreInv, HistoryInv, [Next]_vars
             PROVE  HistoryInv'
  BY Zenon
<1>1. CacheInv'
  BY Zenon, CacheNext
<1>2. CASE \E c \in Client : Read(c)
  <2>1. PICK c \in Client : Read(c)
    BY Zenon, <1>2
  <2>2. PICK r \in Reader : rd' = [rd EXCEPT ![c] = r] /\ ReaderOK(r, MaxSequence)
    BY Zenon, <2>1, ReadNext
  <2>3. MaxSequence' = MaxSequence
    BY Zenon, <2>1, ReadNext
  <2>4. QED
    BY Zenon, <1>1, <2>2, <2>3 DEF HistoryInv
<1>3. CASE ~ \E c \in Client : Read(c)
  <2>1. rd' = rd
    BY Zenon, <1>3 DEF Next, Send, Delete, SendStart, DeleteStart, SendLock, SendMax,
                SendCommit, SendPush, DeleteMark, DeleteLock, DeleteCommit,
                DeleteInvalidate, Fail, CacheExpire, vars
  <2>2. \A c \in Client : ReaderOK(rd'[c], MaxSequence')
    BY Zenon, <2>1, OtherReaders
  <2>3. QED
    BY Zenon, <1>1, <2>1, <2>2 DEF HistoryInv
<1>4. QED
  BY Zenon, <1>2, <1>3

\* In every reachable state the variables have their types.
THEOREM TypeTheorem == Spec => []TypeOK
<1>1. StoreInv /\ HistoryInv => TypeOK
  BY Zenon DEF StoreInv, StoreType, HistoryInv, CacheInv, TypeOK
<1>2. Spec => [](StoreInv /\ HistoryInv)
  BY StoreInit, StoreNext, HistoryInit, HistoryNext, PTL DEF Spec
<1>3. QED
  BY <1>1, <1>2, PTL

\* No client that pages through the history, from cache or database, while
\* others send, ever skips a message, gets one twice, or is told too early
\* that there are no more.
THEOREM HistoryTheorem == Spec => []HistoryNeverSkips
<1>1. HistoryInv => HistoryNeverSkips
  BY Zenon DEF HistoryInv, ReaderOK, HistoryNeverSkips
<1>2. Spec => [](StoreInv /\ HistoryInv)
  BY StoreInit, StoreNext, HistoryInit, HistoryNext, PTL DEF Spec
<1>3. QED
  BY <1>1, <1>2, PTL
=============================================================================
