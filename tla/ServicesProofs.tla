--------------------------- MODULE ServicesProofs ---------------------------
(***************************************************************************)
(* Proofs about three services that stand alone, as Services instantiates *)
(* them: uploadSenderKeys (K), for any receivers and any number of         *)
(* overlapping uploads; the reactions to a message (R), for any users and  *)
(* emojis and any number of overlapping calls; the rate limits (T), for    *)
(* any limit, window and counters.  0 stands for "no row" in the keys, so  *)
(* it names no upload.                                                     *)
(***************************************************************************)
EXTENDS Services, TLAPS

Uploads == [pc : {"idle", "delete", "wait", "insert", "done", "failed"},
            sent : SUBSET Receiver, out : SUBSET (Receiver \X Upload)]

KeysType ==
    /\ stored \in [Receiver -> Upload \cup {0}]
    /\ up \in [Upload -> Uploads]

\* A set of rows that holds one row of a finished upload holds all of them.
Whole(S) ==
    \A u \in Receiver, j \in Upload :
        <<u, j>> \in S => /\ up[j].pc = "done" /\ u \in up[j].sent
                          /\ \A w \in up[j].sent : <<w, j>> \in S

\* What an upload that has run its DELETE removes is whole, and what is stored
\* beside it comes from an upload it overlaps.
OpenOK ==
    \A i \in Upload : up[i].pc \in {"wait", "insert"} =>
        /\ Whole(up[i].out)
        /\ \A u \in Receiver, j \in Upload :
              <<u, j>> \in K!Rows \ up[i].out => {i, j} \in overlapped

KeysInv == KeysType /\ Whole(K!Rows) /\ OpenOK /\ K!UploadReplaces
-----------------------------------------------------------------------------
\* The rows of the table are pairs of a receiver and an upload.
LEMMA RowsAre ==
    ASSUME 0 \notin Upload, KeysType
    PROVE  /\ K!Rows \subseteq Receiver \X Upload
           /\ \A u \in Receiver, j \in Upload : <<u, j>> \in K!Rows <=> stored[u] = j
  BY DEF KeysType, K!Rows

\* The table is empty at first.
LEMMA KeysInit ==
    ASSUME 0 \notin Upload, K!Init
    PROVE  KeysInv
<1>1. KeysType
  BY Zenon DEF K!Init, KeysType, Uploads
<1>2. K!Rows = {}
  BY Zenon DEF K!Init, K!Rows
<1>3. Whole(K!Rows) /\ K!UploadReplaces
  BY Zenon, <1>2 DEF Whole, K!UploadReplaces
<1>4. OpenOK
  BY Zenon DEF K!Init, OpenOK
<1>5. QED
  BY Zenon, <1>1, <1>3, <1>4 DEF KeysInv

\* A step of an upload that is not its INSERT: the table stays, and the upload
\* removes whole uploads only.
LEMMA OpenStep ==
    ASSUME 0 \notin Upload, KeysInv, NEW i \in Upload, NEW v \in Uploads,
           up' = [up EXCEPT ![i] = v], up[i].pc # "done", v.pc # "done",
           UNCHANGED <<stored, overlapped>>,
           v.pc \in {"wait", "insert"} =>
               /\ Whole(v.out)
               /\ \A u \in Receiver, j \in Upload :
                     <<u, j>> \in K!Rows \ v.out => {i, j} \in overlapped
    PROVE  KeysInv'
<1>1. /\ up \in [Upload -> Uploads] /\ up' \in [Upload -> Uploads]
      /\ up'[i] = v /\ \A j \in Upload \ {i} : up'[j] = up[j]
  BY Zenon DEF KeysInv, KeysType
<1>2. KeysType' /\ K!Rows' = K!Rows
  BY Zenon, <1>1 DEF KeysInv, KeysType, K!Rows
<1>3. ASSUME NEW S, Whole(S)
      PROVE  \A u \in Receiver, j \in Upload :
                <<u, j>> \in S => /\ up'[j].pc = "done" /\ u \in up'[j].sent
                                  /\ \A w \in up'[j].sent : <<w, j>> \in S
  BY Zenon, <1>1, <1>3 DEF Whole
<1>4. Whole(K!Rows)'
  <2>1. Whole(K!Rows)
    BY Zenon DEF KeysInv
  <2>2. \A u \in Receiver, j \in Upload :
            <<u, j>> \in K!Rows => /\ up'[j].pc = "done" /\ u \in up'[j].sent
                                 /\ \A w \in up'[j].sent : <<w, j>> \in K!Rows
    BY Zenon, <1>3, <2>1
  <2>3. QED
    BY Zenon, <1>2, <2>2 DEF Whole
<1>5. OpenOK'
  <2>1. ASSUME NEW k \in Upload, up'[k].pc \in {"wait", "insert"}
        PROVE  /\ Whole(up[k].out)'
               /\ \A u \in Receiver, j \in Upload :
                     <<u, j>> \in K!Rows \ up'[k].out => {k, j} \in overlapped
    <3>1. /\ Whole(up'[k].out)
          /\ \A u \in Receiver, j \in Upload :
                <<u, j>> \in K!Rows \ up'[k].out => {k, j} \in overlapped
      <4>1. CASE k = i
        BY Zenon, <1>1, <2>1, <4>1
      <4>2. CASE k # i
        BY Zenon, <1>1, <2>1, <4>2 DEF KeysInv, OpenOK
      <4>3. QED
        BY Zenon, <4>1, <4>2
    <3>2. \A u \in Receiver, j \in Upload :
            <<u, j>> \in up'[k].out => /\ up'[j].pc = "done" /\ u \in up'[j].sent
                                       /\ \A w \in up'[j].sent : <<w, j>> \in up'[k].out
      BY Zenon, <1>3, <3>1
    <3>3. QED
      BY Zenon, <3>1, <3>2 DEF Whole
  <2>2. QED
    BY Zenon, <1>2, <2>1 DEF OpenOK
<1>6. K!UploadReplaces'
  BY Zenon, <1>2 DEF KeysInv, K!UploadReplaces
<1>7. QED
  BY Zenon, <1>2, <1>4, <1>5, <1>6 DEF KeysInv

\* The INSERT that meets no row: i's rows replace what its DELETE removed.
LEMMA CommitStep ==
    ASSUME 0 \notin Upload, KeysInv, NEW i \in Upload, up[i].pc = "insert",
           ~\E x \in K!Rows \ up[i].out : x[1] \in up[i].sent,
           up' = [up EXCEPT ![i].pc = "done"],
           stored' = K!Replaced(i),
           overlapped' = overlapped \cup K!Overlap(i)
    PROVE  KeysInv'
<1>1. /\ up \in [Upload -> Uploads] /\ up' \in [Upload -> Uploads]
      /\ up'[i].pc = "done" /\ \A j \in Upload \ {i} : up'[j] = up[j]
      /\ \A j \in Upload : up'[j].sent = up[j].sent /\ up'[j].out = up[j].out
      /\ up[i].sent \subseteq Receiver
  <2>1. up \in [Upload -> Uploads] /\ up[i] \in Uploads
    BY Zenon DEF KeysInv, KeysType
  <2> DEFINE v == [up[i] EXCEPT !.pc = "done"]
  <2>2. /\ v \in Uploads /\ v.pc = "done" /\ v.sent = up[i].sent /\ v.out = up[i].out
        /\ up[i].sent \subseteq Receiver
    BY Zenon, <2>1 DEF Uploads
  <2>3. up' = [up EXCEPT ![i] = v]
    BY Zenon
  <2> HIDE DEF v
  <2>4. QED
    BY Zenon, <2>1, <2>2, <2>3
<1>2. KeysType'
  BY Zenon, <1>1 DEF KeysInv, KeysType, K!Replaced
<1>3. \A u \in Receiver, j \in Upload : <<u, j>> \in K!Rows <=> stored[u] = j
  BY Zenon, RowsAre DEF KeysInv
<1>4. \A u \in Receiver, j \in Upload : <<u, j>> \in K!Rows' <=> stored'[u] = j
  <2>1. \A u \in Receiver, j \in Upload : (<<u, j>> \in K!Rows <=> stored[u] = j)'
    BY Zenon, <1>2 DEF KeysType, K!Rows
  <2>2. QED
    BY Zenon, <2>1
<1>5. \A u \in Receiver, j \in Upload : <<u, j>> \in K!Rows => j # i
  BY Zenon DEF KeysInv, Whole
<1>6. \A u \in Receiver : <<u, i>> \in K!Rows' <=> u \in up[i].sent
  <2>1. ASSUME NEW u \in Receiver PROVE <<u, i>> \in K!Rows' <=> u \in up[i].sent
    <3>1. stored'[u] = i <=> u \in up[i].sent
      BY Zenon, <1>3, <1>5 DEF K!Replaced
    <3>2. QED
      BY Zenon, <1>4, <3>1
  <2>2. QED
    BY Zenon, <2>1
<1>7. ASSUME NEW u \in Receiver, NEW j \in Upload, j # i
      PROVE  <<u, j>> \in K!Rows' <=> <<u, j>> \in K!Rows \ up[i].out
  <2>1. <<u, j>> \in K!Rows \ up[i].out => u \notin up[i].sent
    BY Zenon
  <2>2. stored'[u] = j <=> /\ u \notin up[i].sent /\ stored[u] = j
                           /\ <<u, j>> \notin up[i].out
    BY Zenon, <1>7 DEF K!Replaced
  <2>3. QED
    BY Zenon, <1>3, <1>4, <2>1, <2>2
<1>8. Whole(K!Rows) /\ Whole(up[i].out)
  BY Zenon DEF KeysInv, OpenOK
<1>9. Whole(K!Rows)'
  <2>1. ASSUME NEW u \in Receiver, NEW j \in Upload, <<u, j>> \in K!Rows'
        PROVE  /\ up'[j].pc = "done" /\ u \in up'[j].sent
               /\ \A w \in up'[j].sent : <<w, j>> \in K!Rows'
    <3>1. CASE j = i
      BY Zenon, <1>1, <1>6, <2>1, <3>1
    <3>2. CASE j # i
      <4>1. <<u, j>> \in K!Rows /\ <<u, j>> \notin up[i].out
        BY Zenon, <1>7, <2>1, <3>2
      <4>2. /\ up[j].pc = "done" /\ u \in up[j].sent
            /\ \A w \in up[j].sent : <<w, j>> \in K!Rows
        BY Zenon, <1>8, <4>1 DEF Whole
      <4>3. up[j].sent \subseteq Receiver
        BY Zenon, <1>1 DEF Uploads
      <4>4. \A w \in up[j].sent : <<w, j>> \notin up[i].out
        BY Zenon, <1>8, <4>1, <4>2, <4>3 DEF Whole
      <4>5. QED
        BY Zenon, <1>1, <1>7, <3>2, <4>2, <4>3, <4>4
    <3>3. QED
      BY Zenon, <3>1, <3>2
  <2>2. QED
    BY Zenon, <2>1 DEF Whole
<1>10. \A k \in Upload : up[k].pc \in {"wait", "insert"} => {i, k} \in overlapped'
  BY Zenon DEF K!Overlap
<1>11. OpenOK'
  <2>1. ASSUME NEW k \in Upload, up'[k].pc \in {"wait", "insert"}
        PROVE  /\ Whole(up[k].out)'
               /\ \A u \in Receiver, j \in Upload :
                     <<u, j>> \in K!Rows' \ up'[k].out => {k, j} \in overlapped'
    <3>1. k # i /\ up[k].pc \in {"wait", "insert"} /\ up'[k].out = up[k].out
      BY Zenon, <1>1, <2>1
    <3>2. /\ Whole(up[k].out)
          /\ \A u \in Receiver, j \in Upload :
                <<u, j>> \in K!Rows \ up[k].out => {k, j} \in overlapped
      BY Zenon, <3>1 DEF KeysInv, OpenOK
    <3>3. ASSUME NEW u \in Receiver, NEW j \in Upload, <<u, j>> \in up[k].out
          PROVE  /\ up'[j].pc = "done" /\ u \in up'[j].sent
                 /\ \A w \in up'[j].sent : <<w, j>> \in up[k].out
      <4>1. /\ up[j].pc = "done" /\ u \in up[j].sent
            /\ \A w \in up[j].sent : <<w, j>> \in up[k].out
        BY Zenon, <3>2, <3>3 DEF Whole
      <4>2. QED
        BY Zenon, <1>1, <4>1
    <3>4. ASSUME NEW u \in Receiver, NEW j \in Upload, <<u, j>> \in K!Rows' \ up[k].out
          PROVE  {k, j} \in overlapped'
      <4>1. CASE j = i
        <5>1. {i, k} = {k, i}
          BY Zenon
        <5>2. QED
          BY Zenon, <1>10, <3>1, <4>1, <5>1
      <4>2. CASE j # i
        BY Zenon, <1>7, <3>2, <3>4, <4>2
      <4>3. QED
        BY Zenon, <4>1, <4>2
    <3>5. QED
      BY Zenon, <3>1, <3>3, <3>4 DEF Whole
  <2>2. QED
    BY Zenon, <2>1 DEF OpenOK
<1>12. K!UploadReplaces'
  <2>1. ASSUME NEW u \in Receiver, NEW j \in Upload, <<u, j>> \in K!Rows',
               NEW w \in Receiver, NEW k \in Upload, <<w, k>> \in K!Rows', j # k
        PROVE  {j, k} \in overlapped'
    <3>1. \A a \in Receiver, b \in Upload :
             <<a, b>> \in K!Rows' /\ b # i => {i, b} \in overlapped /\ {b, i} \in overlapped
      <4>1. ASSUME NEW a \in Receiver, NEW b \in Upload, <<a, b>> \in K!Rows', b # i
            PROVE  {i, b} \in overlapped /\ {b, i} \in overlapped
        <5>1. {i, b} \in overlapped
          BY Zenon, <1>7, <4>1 DEF KeysInv, OpenOK
        <5>2. {i, b} = {b, i}
          BY Zenon
        <5>3. QED
          BY Zenon, <5>1, <5>2
      <4>2. QED
        BY Zenon, <4>1
    <3>2. CASE j = i \/ k = i
      BY Zenon, <2>1, <3>1, <3>2
    <3>3. CASE j # i /\ k # i
      <4>1. <<u, j>> \in K!Rows /\ <<w, k>> \in K!Rows
        BY Zenon, <1>7, <2>1, <3>3
      <4>2. QED
        BY Zenon, <2>1, <4>1 DEF KeysInv, K!UploadReplaces
    <3>4. QED
      BY Zenon, <3>2, <3>3
  <2>2. K!Rows' \subseteq Receiver \X Upload
    BY <1>2 DEF KeysType, K!Rows
  <2>3. ASSUME NEW x \in K!Rows', NEW y \in K!Rows', x[2] # y[2]
        PROVE  {x[2], y[2]} \in overlapped'
    <3>1. /\ x = <<x[1], x[2]>> /\ x[1] \in Receiver /\ x[2] \in Upload
          /\ y = <<y[1], y[2]>> /\ y[1] \in Receiver /\ y[2] \in Upload
      BY <2>2
    <3>2. <<x[1], x[2]>> \in K!Rows' /\ <<y[1], y[2]>> \in K!Rows'
      BY Zenon, <3>1
    <3>3. QED
      BY Zenon, <2>1, <2>3, <3>1, <3>2
  <2>4. QED
    BY Zenon, <2>3 DEF K!UploadReplaces
<1>13. QED
  BY Zenon, <1>2, <1>9, <1>11, <1>12 DEF KeysInv

\* Every step of every upload keeps the invariant.
LEMMA KeysNext ==
    ASSUME 0 \notin Upload, KeysInv, [K!Next]_(K!vars)
    PROVE  KeysInv'
<1>1. up \in [Upload -> Uploads] /\ K!Rows \subseteq Receiver \X Upload
  BY Zenon, RowsAre DEF KeysInv, KeysType
<1>2. ASSUME NEW i \in Upload, NEW S \in SUBSET Receiver, K!UploadBegin(i, S)
      PROVE  KeysInv'
  <2> DEFINE v == [pc |-> "delete", sent |-> S, out |-> {}]
  <2>1. v \in Uploads /\ v.pc = "delete"
    BY Zenon DEF Uploads
  <2>2. up' = [up EXCEPT ![i] = v] /\ up[i].pc # "done" /\ UNCHANGED <<stored, overlapped>>
    BY Zenon, <1>2 DEF K!UploadBegin
  <2> HIDE DEF v
  <2>3. QED
    BY Zenon, <2>1, <2>2, OpenStep
<1>3. ASSUME NEW i \in Upload, K!UploadDelete(i) PROVE KeysInv'
  <2> DEFINE p == IF K!Rows \cap K!LockedBy(i) = {} THEN "insert" ELSE "wait"
             v == [up[i] EXCEPT !.out = K!Rows, !.pc = p]
  <2>1. up' = [up EXCEPT ![i] = v] /\ up[i].pc # "done" /\ UNCHANGED <<stored, overlapped>>
    BY Zenon, <1>3 DEF K!UploadDelete
  <2>2. p \in {"insert", "wait"}
    BY Zenon
  <2> HIDE DEF p
  <2>3. v \in Uploads /\ v.pc = p /\ v.out = K!Rows
    BY Zenon, <1>1, <2>2 DEF Uploads
  <2> HIDE DEF v
  <2>4. Whole(v.out) /\ K!Rows \ v.out = {}
    BY Zenon, <2>3 DEF KeysInv
  <2>5. QED
    BY Zenon, <2>1, <2>2, <2>3, <2>4, OpenStep
<1>4. ASSUME NEW i \in Upload, K!UploadWake(i) PROVE KeysInv'
  <2> DEFINE v == [up[i] EXCEPT !.pc = "insert", !.out = up[i].out \cap K!Rows]
  <2>1. /\ up' = [up EXCEPT ![i] = v] /\ up[i].pc = "wait"
        /\ UNCHANGED <<stored, overlapped>>
    BY Zenon, <1>4 DEF K!UploadWake
  <2>2. v \in Uploads /\ v.pc = "insert" /\ v.out = up[i].out \cap K!Rows
    BY Zenon, <1>1 DEF Uploads
  <2> HIDE DEF v
  <2>3. Whole(up[i].out) /\ Whole(K!Rows)
    BY Zenon, <2>1 DEF KeysInv, OpenOK
  <2>4. Whole(v.out)
    BY Zenon, <2>2, <2>3 DEF Whole
  <2>5. \A u \in Receiver, j \in Upload : <<u, j>> \in K!Rows \ v.out => {i, j} \in overlapped
    BY Zenon, <2>1, <2>2 DEF KeysInv, OpenOK
  <2>6. QED
    BY Zenon, <2>1, <2>2, <2>4, <2>5, OpenStep
<1>5. ASSUME NEW i \in Upload, K!UploadInsert(i) PROVE KeysInv'
  <2>1. CASE \E x \in K!Rows \ up[i].out : x[1] \in up[i].sent
    <3> DEFINE v == [up[i] EXCEPT !.pc = "failed", !.out = {}]
    <3>1. /\ up' = [up EXCEPT ![i] = v] /\ up[i].pc = "insert"
          /\ UNCHANGED <<stored, overlapped>>
      BY Zenon, <1>5, <2>1 DEF K!UploadInsert
    <3>2. v \in Uploads /\ v.pc = "failed"
      BY Zenon, <1>1 DEF Uploads
    <3> HIDE DEF v
    <3>3. QED
      BY Zenon, <3>1, <3>2, OpenStep
  <2>2. CASE ~\E x \in K!Rows \ up[i].out : x[1] \in up[i].sent
    <3>1. /\ up[i].pc = "insert" /\ up' = [up EXCEPT ![i].pc = "done"]
          /\ stored' = K!Replaced(i) /\ overlapped' = overlapped \cup K!Overlap(i)
      BY Zenon, <1>5, <2>2 DEF K!UploadInsert
    <3>2. QED
      BY Zenon, <2>2, <3>1, CommitStep
  <2>3. QED
    BY Zenon, <2>1, <2>2
<1>6. CASE UNCHANGED <<stored, up, overlapped>>
  <2>1. K!Rows' = K!Rows
    BY Zenon, <1>6 DEF K!Rows
  <2>2. KeysType' /\ K!UploadReplaces'
    BY Zenon, <1>6, <2>1 DEF KeysInv, KeysType, K!UploadReplaces
  <2>3. Whole(K!Rows)'
    BY Zenon, <1>6, <2>1 DEF KeysInv, Whole
  <2>4. OpenOK'
    BY Zenon, <1>6, <2>1 DEF KeysInv, OpenOK, Whole
  <2>5. QED
    BY Zenon, <2>2, <2>3, <2>4 DEF KeysInv
<1>7. QED
  BY Zenon, <1>2, <1>3, <1>4, <1>5, <1>6 DEF K!Next, K!Rotate, K!vars

\* Whole rows mean whole uploads.
LEMMA WholeUploads ==
    ASSUME 0 \notin Upload, KeysInv
    PROVE  K!UploadIsWhole
<1> SUFFICES ASSUME NEW i \in Upload, NEW u \in Receiver, stored[u] = i
             PROVE  {w \in Receiver : stored[w] = i} = up[i].sent
  BY Zenon DEF K!UploadIsWhole
<1>1. \A w \in Receiver : <<w, i>> \in K!Rows <=> stored[w] = i
  BY Zenon, RowsAre DEF KeysInv
<1>2. up[i].sent \subseteq Receiver
  BY Zenon DEF KeysInv, KeysType, Uploads
<1>3. QED
  BY Zenon, <1>1, <1>2 DEF KeysInv, Whole

\* The inductive invariant of uploadSenderKeys.
THEOREM KeysInvTheorem == K!Spec => []KeysInv
<1>1. K!Init => KeysInv
  BY Zenon, KeysInit, ServicesAssumption
<1>2. KeysInv /\ [K!Next]_(K!vars) => KeysInv'
  BY Zenon, KeysNext, ServicesAssumption
<1>3. QED
  BY <1>1, <1>2, PTL DEF K!Spec

\* uploadSenderKeys stores an upload whole or not at all, however many uploads
\* of the same owner overlap.
THEOREM WholeTheorem == K!Spec => []UploadIsWhole
<1>1. KeysInv => UploadIsWhole
  BY Zenon, WholeUploads, ServicesAssumption DEF UploadIsWhole
<1>2. QED
  BY <1>1, KeysInvTheorem, PTL

\* The rows of two uploads are stored side by side only if the two overlapped.
THEOREM ReplacesTheorem == K!Spec => []UploadReplaces
<1>1. KeysInv => UploadReplaces
  BY Zenon DEF KeysInv, UploadReplaces
<1>2. QED
  BY <1>1, KeysInvTheorem, PTL

-----------------------------------------------------------------------------
(* Reactions.                                                              *)

CallRecord == [op : {"idle", "add", "remove", "delete"},
          pc : {"idle", "lock", "replace", "commit", "announce", "remove",
               "update", "wait"},
          user : User \cup {None}, emoji : Emoji \cup {None},
          out : SUBSET (User \X Emoji), in : SUBSET (User \X Emoji)]

ReactType ==
    /\ reactions \subseteq User \X Emoji /\ view \subseteq User \X Emoji
    /\ deleted \in BOOLEAN
    /\ lock \in [User -> Request \cup {None}]
    /\ reactReq \in [Request -> CallRecord]

\* What call q of request r holds and knows, given the table, the advisory locks
\* and whether the message is deleted: an addReaction holds its user's lock
\* from its DELETE to its commit, so the user's rows are those it deletes and the
\* one it inserts.
CallOK(r, q, rows, lk, del) ==
    /\ q.pc \in {"lock", "replace"} => q.op = "add"
    /\ q.pc = "remove" => q.op = "remove"
    /\ q.pc \in {"update", "wait"} => q.op = "delete"
    /\ q.op = "remove" => q.pc # "commit"
    /\ q.pc # "idle" => q.op # "idle"
    /\ q.op \in {"add", "remove"} =>
          q.user \in User /\ q.emoji \in Emoji /\ \A x \in q.out \cup q.in : x[1] = q.user
    /\ q.op = "delete" => q.user = None
    /\ q.pc # "announce" => q.in = {}
    /\ q.op = "add" /\ q.pc \in {"replace", "commit"} => lk[q.user] = r
    /\ q.op = "add" /\ q.pc = "commit" =>
          /\ <<q.user, q.emoji>> \notin q.out
          /\ \A x \in rows : x[1] = q.user => x \in q.out \/ x = <<q.user, q.emoji>>
    /\ q.op = "delete" /\ q.pc = "announce" => del

CallsOK == \A r \in Request : CallOK(r, reactReq[r], reactions, lock, deleted)

\* From the DELETE of a deletion on, the calls that have yet to commit are the
\* late ones; what that DELETE did not see is theirs.
Closed == deleted \/ \E q \in Request : R!Sweeping(q)

Adding(q) == reactReq[q].op = "add" /\ reactReq[q].pc # "announce"

LateOK ==
    /\ Closed => \A q \in Request : Adding(q) =>
                    <<reactReq[q].user, reactReq[q].emoji>> \in late
    /\ \A q \in Request : R!Sweeping(q) => reactions \subseteq reactReq[q].out \cup late

\* A change of u is committed and still to be announced by r.
Announces(r, u) == reactReq[r].user = u /\ reactReq[r].pc = "announce"

\* The broadcasts so far and the one to come add up to the table.
ViewOK ==
    ~deleted => \A u \in User \ crossed :
        /\ \A r, q \in Request : Announces(r, u) /\ Announces(q, u) => r = q
        /\ \A e \in Emoji : (\A r \in Request : ~Announces(r, u)) =>
              (<<u, e>> \in view <=> <<u, e>> \in reactions)
        /\ \A r \in Request, e \in Emoji : Announces(r, u) =>
              (<<u, e>> \in (view \ reactReq[r].out) \cup reactReq[r].in
                 <=> <<u, e>> \in reactions)

ReactInv ==
    ReactType /\ CallsOK /\ OneReactionPerUser /\ LateOK /\ DeletedHasNone /\ ViewOK

\* No reactions and no calls at first.
LEMMA ReactInit == R!Init => ReactInv
<1> SUFFICES ASSUME R!Init PROVE ReactInv
  BY Zenon
<1>1. R!Idle \in CallRecord /\ R!Idle.op = "idle" /\ R!Idle.pc = "idle" /\ R!Idle.in = {}
  BY Zenon DEF R!Idle, CallRecord
<1>2. ReactType
  BY Zenon, <1>1 DEF R!Init, ReactType
<1>3. CallsOK
  BY Zenon, <1>1 DEF R!Init, CallsOK, CallOK
<1>4. OneReactionPerUser /\ DeletedHasNone
  BY Zenon DEF R!Init, OneReactionPerUser, R!OneReactionPerUser, DeletedHasNone, R!DeletedHasNone
<1>5. ViewOK
  BY Zenon, <1>1 DEF R!Init, ViewOK, Announces
<1>6. LateOK
  BY Zenon, <1>1 DEF R!Init, LateOK, Closed, Adding, R!Sweeping
<1>7. QED
  BY Zenon, <1>2, <1>3, <1>4, <1>5, <1>6 DEF ReactInv

\* A call that does not move keeps what it holds and knows, while nobody takes
\* its lock or adds a row of its user.
LEMMA CallKeeps ==
    ASSUME NEW r, NEW q \in CallRecord, NEW rows, NEW rows2, NEW lk, NEW lk2, NEW del, NEW del2,
           CallOK(r, q, rows, lk, del),
           q.op = "add" /\ lk[q.user] = r => lk2[q.user] = r,
           q.op = "add" /\ lk[q.user] = r => \A x \in rows2 : x[1] = q.user => x \in rows,
           del => del2
    PROVE  CallOK(r, q, rows2, lk2, del2)
BY Zenon DEF CallOK

\* A step of call r that commits nothing and announces nothing.
LEMMA ReactMoves ==
    ASSUME ReactInv, NEW r \in Request, NEW v \in CallRecord, reactReq' = [reactReq EXCEPT ![r] = v],
           UNCHANGED <<reactions, view, deleted>>, crossed \subseteq crossed', late \subseteq late',
           v.op = "add" /\ Closed => <<v.user, v.emoji>> \in late',
           v.op = "delete" /\ v.pc \in {"wait", "commit"} =>
              /\ reactions \subseteq v.out \cup late'
              /\ ~Closed => \A q \in Request : Adding(q) =>
                               <<reactReq[q].user, reactReq[q].emoji>> \in late',
           lock' \in [User -> Request \cup {None}],
           \A u \in User : lock[u] \in Request \ {r} => lock'[u] = lock[u],
           reactReq[r].pc # "announce", v.pc # "announce",
           CallOK(r, v, reactions, lock', deleted)
    PROVE  ReactInv'
<1>1. /\ reactReq' \in [Request -> CallRecord] /\ reactReq'[r] = v
      /\ \A q \in Request \ {r} : reactReq'[q] = reactReq[q]
  BY Zenon DEF ReactInv, ReactType
<1>2. ReactType'
  BY Zenon, <1>1 DEF ReactInv, ReactType
<1>3. CallsOK'
  <2>1. ASSUME NEW q \in Request \ {r}
        PROVE  CallOK(q, reactReq[q], reactions, lock', deleted)
    <3>1. reactReq[q] \in CallRecord /\ CallOK(q, reactReq[q], reactions, lock, deleted)
      BY Zenon DEF ReactInv, ReactType, CallsOK
    <3>2. reactReq[q].op = "add" /\ lock[reactReq[q].user] = q => lock'[reactReq[q].user] = q
      BY Zenon, <3>1 DEF CallOK
    <3>3. QED
      BY <3>1, <3>2, CallKeeps
  <2>2. QED
    BY Zenon, <1>1, <2>1 DEF CallsOK
<1>4. OneReactionPerUser' /\ DeletedHasNone'
  BY Zenon DEF ReactInv, OneReactionPerUser, R!OneReactionPerUser, DeletedHasNone, R!DeletedHasNone
<1>5. \A q \in Request, u \in User : Announces(q, u)' <=> Announces(q, u)
  BY Zenon, <1>1 DEF Announces
<1>6. \A q \in Request, u \in User : Announces(q, u) =>
         reactReq'[q].out = reactReq[q].out /\ reactReq'[q].in = reactReq[q].in
  BY Zenon, <1>1 DEF Announces
<1>7. ViewOK'
  BY Zenon, <1>5, <1>6 DEF ReactInv, ViewOK
<1>8. LateOK'
  <2>1. /\ Closed => \A q \in Request : Adding(q) =>
                        <<reactReq[q].user, reactReq[q].emoji>> \in late
        /\ \A q \in Request : R!Sweeping(q) => reactions \subseteq reactReq[q].out \cup late
    BY Zenon DEF ReactInv, LateOK
  <2>2. \A q \in Request \ {r} : (R!Sweeping(q)' <=> R!Sweeping(q)) /\ (Adding(q)' <=> Adding(q))
    BY Zenon, <1>1 DEF R!Sweeping, Adding
  <2>3. (R!Sweeping(r)' <=> v.op = "delete" /\ v.pc \in {"wait", "commit"}) /\ (Adding(r)' <=> v.op = "add")
    BY Zenon, <1>1 DEF R!Sweeping, Adding
  <2>4. \A q \in Request : R!Sweeping(q)' => reactions \subseteq reactReq'[q].out \cup late'
    BY Zenon, <1>1, <2>1, <2>2, <2>3
  <2>5. ASSUME Closed', NEW q \in Request, Adding(q)'
        PROVE  <<reactReq'[q].user, reactReq'[q].emoji>> \in late'
    <3>1. Closed \/ R!Sweeping(r)'
      BY Zenon, <2>2, <2>5 DEF Closed
    <3>2. CASE q = r
      <4>1. v.op = "add" /\ ~R!Sweeping(r)'
        BY Zenon, <2>3, <2>5, <3>2
      <4>2. QED
        BY Zenon, <1>1, <3>1, <3>2, <4>1
    <3>3. CASE q # r
      <4>1. Adding(q) /\ reactReq'[q] = reactReq[q]
        BY Zenon, <1>1, <2>2, <2>5, <3>3
      <4>2. CASE Closed
        BY Zenon, <2>1, <4>1, <4>2
      <4>3. CASE ~Closed
        BY Zenon, <2>3, <3>1, <4>1, <4>3
      <4>4. QED
        BY Zenon, <4>2, <4>3
    <3>4. QED
      BY Zenon, <3>2, <3>3
  <2>6. QED
    BY Zenon, <2>4, <2>5 DEF LateOK
<1>9. QED
  BY Zenon, <1>2, <1>3, <1>4, <1>7, <1>8 DEF ReactInv

\* addReaction, removeReaction or deleteMessage starts.
LEMMA ReactBegins ==
    ASSUME ReactInv, NEW r \in Request, NEW op \in {"add", "remove", "delete"},
           NEW x \in User \cup {None}, NEW y \in Emoji \cup {None},
           NEW pc \in {"lock", "remove", "update"}, R!Begin(r, op, x, y, pc),
           UNCHANGED <<reactions, deleted, lock, view, crossed>>, late \subseteq late',
           op = "add" => pc = "lock" /\ x \in User /\ y \in Emoji,
           op = "add" /\ Closed => <<x, y>> \in late',
           op = "remove" => pc = "remove" /\ x \in User /\ y \in Emoji,
           op = "delete" => pc = "update" /\ x = None
    PROVE  ReactInv'
<1> DEFINE v == [R!Idle EXCEPT !.op = op, !.pc = pc, !.user = x, !.emoji = y]
<1>1. v \in CallRecord /\ v.op = op /\ v.pc = pc /\ v.user = x /\ v.emoji = y /\ v.out = {} /\ v.in = {}
  BY Zenon DEF R!Idle, CallRecord
<1>2. reactReq' = [reactReq EXCEPT ![r] = v] /\ reactReq[r].pc = "idle"
  BY DEF R!Begin, R!Idle
<1> HIDE DEF v
<1>3. CallOK(r, v, reactions, lock', deleted)
  BY Zenon, <1>1 DEF CallOK
<1>4. lock' \in [User -> Request \cup {None}] /\ lock' = lock /\ v.pc \notin {"announce", "wait", "commit"}
  BY Zenon, <1>1 DEF ReactInv, ReactType
<1>5. QED
  BY Zenon, <1>1, <1>2, <1>3, <1>4, ReactMoves

\* addReaction takes the advisory lock.
LEMMA ReactLock ==
    ASSUME ReactInv, NEW r \in Request, R!AddLock(r)
    PROVE  ReactInv'
<1> DEFINE v == [reactReq[r] EXCEPT !.pc = "replace"]
<1>1. reactReq[r] \in CallRecord /\ CallOK(r, reactReq[r], reactions, lock, deleted) /\ reactReq[r].pc = "lock"
  BY Zenon DEF ReactInv, ReactType, CallsOK, R!AddLock
<1>2. v \in CallRecord /\ v.pc = "replace" /\ v.op = reactReq[r].op /\ v.user = reactReq[r].user
      /\ v.emoji = reactReq[r].emoji /\ v.out = reactReq[r].out /\ v.in = reactReq[r].in
  BY Zenon, <1>1 DEF CallRecord
<1>3. reactReq' = [reactReq EXCEPT ![r] = v]
  BY Zenon DEF R!AddLock
<1> HIDE DEF v
<1>4. reactReq[r].op = "add" /\ reactReq[r].user \in User
  BY Zenon, <1>1 DEF CallOK
<1>5. /\ lock' \in [User -> Request \cup {None}] /\ lock'[reactReq[r].user] = r
      /\ \A u \in User : lock[u] \in Request \ {r} => lock'[u] = lock[u]
  BY Zenon, <1>4, ServicesAssumption DEF R!AddLock, ReactInv, ReactType
<1>6. CallOK(r, v, reactions, lock', deleted)
  BY Zenon, <1>1, <1>2, <1>4, <1>5 DEF CallOK
<1>7. UNCHANGED <<reactions, view, deleted, late>> /\ crossed \subseteq crossed'
  BY Zenon DEF R!AddLock
<1>8. v.pc # "announce" /\ reactReq[r].pc # "announce" /\ v.op # "delete"
  BY Zenon, <1>1, <1>2, <1>4
<1>9. Closed => <<v.user, v.emoji>> \in late'
  BY Zenon, <1>1, <1>2, <1>4, <1>7 DEF ReactInv, LateOK, Adding
<1>10. QED
  BY Zenon, <1>2, <1>3, <1>5, <1>6, <1>7, <1>8, <1>9, ReactMoves

\* addReaction deletes the user's other emojis.
LEMMA ReactReplace ==
    ASSUME ReactInv, NEW r \in Request, R!AddReplace(r)
    PROVE  ReactInv'
<1> DEFINE other == R!Of(reactReq[r].user) \ {<<reactReq[r].user, reactReq[r].emoji>>}
           v == [reactReq[r] EXCEPT !.pc = "commit", !.out = other]
<1>1. reactReq[r] \in CallRecord /\ CallOK(r, reactReq[r], reactions, lock, deleted) /\ reactReq[r].pc = "replace"
  BY Zenon DEF ReactInv, ReactType, CallsOK, R!AddReplace
<1>2. other \subseteq reactions /\ reactions \subseteq User \X Emoji
  BY Zenon DEF R!Of, ReactInv, ReactType
<1>3. /\ \A x \in other : x[1] = reactReq[r].user
      /\ <<reactReq[r].user, reactReq[r].emoji>> \notin other
      /\ \A x \in reactions : x[1] = reactReq[r].user =>
            x \in other \/ x = <<reactReq[r].user, reactReq[r].emoji>>
  BY Zenon DEF R!Of
<1>4. reactReq' = [reactReq EXCEPT ![r] = v]
  BY Zenon DEF R!AddReplace
<1> HIDE DEF other
<1>5. v \in CallRecord /\ v.pc = "commit" /\ v.op = reactReq[r].op /\ v.user = reactReq[r].user
      /\ v.emoji = reactReq[r].emoji /\ v.out = other /\ v.in = reactReq[r].in
  BY Zenon, <1>1, <1>2 DEF CallRecord
<1> HIDE DEF v
<1>6. UNCHANGED <<reactions, view, deleted, late, lock>> /\ crossed \subseteq crossed'
  BY Zenon DEF R!AddReplace
<1>7. CallOK(r, v, reactions, lock', deleted)
  BY Zenon, <1>1, <1>3, <1>5, <1>6 DEF CallOK
<1>8. v.pc # "announce" /\ reactReq[r].pc # "announce" /\ lock' \in [User -> Request \cup {None}]
  BY Zenon, <1>1, <1>5, <1>6 DEF ReactInv, ReactType
<1>9. v.op # "delete" /\ (Closed => <<v.user, v.emoji>> \in late')
  BY Zenon, <1>1, <1>5, <1>6 DEF CallOK, ReactInv, LateOK, Adding
<1>10. QED
  BY Zenon, <1>5, <1>4, <1>6, <1>7, <1>8, <1>9, ReactMoves

\* The DELETE of deleteMessage begins: the calls yet to commit are late.
LEMMA ReactSee ==
    ASSUME ReactInv, NEW r \in Request, R!DeleteSee(r)
    PROVE  ReactInv'
<1> DEFINE v == [reactReq[r] EXCEPT !.pc = "wait", !.out = reactions]
<1>1. reactReq[r] \in CallRecord /\ CallOK(r, reactReq[r], reactions, lock, deleted) /\ reactReq[r].pc = "update"
  BY Zenon DEF ReactInv, ReactType, CallsOK, R!DeleteSee
<1>2. v \in CallRecord /\ v.pc = "wait" /\ v.op = reactReq[r].op /\ v.user = reactReq[r].user
      /\ v.emoji = reactReq[r].emoji /\ v.out = reactions /\ v.in = reactReq[r].in
  BY Zenon, <1>1 DEF CallRecord, ReactInv, ReactType
<1>3. reactReq' = [reactReq EXCEPT ![r] = v]
  BY Zenon DEF R!DeleteSee
<1> HIDE DEF v
<1>4. UNCHANGED <<reactions, view, deleted, lock>> /\ crossed \subseteq crossed' /\ late \subseteq late'
  BY Zenon DEF R!DeleteSee
<1>5. \A q \in Request : Adding(q) => <<reactReq[q].user, reactReq[q].emoji>> \in late'
  BY Zenon DEF R!DeleteSee, Adding
<1>6. CallOK(r, v, reactions, lock', deleted) /\ v.op = "delete"
  BY Zenon, <1>1, <1>2 DEF CallOK
<1>7. v.pc # "announce" /\ reactReq[r].pc # "announce" /\ lock' \in [User -> Request \cup {None}]
  BY Zenon, <1>1, <1>2, <1>4 DEF ReactInv, ReactType
<1>8. reactions \subseteq v.out \cup late'
  BY Zenon, <1>2
<1>9. QED
  BY Zenon, <1>2, <1>3, <1>4, <1>5, <1>6, <1>7, <1>8, ReactMoves

\* It deletes those it saw that are still there.
LEMMA ReactSweep ==
    ASSUME ReactInv, NEW r \in Request, R!DeleteSweep(r)
    PROVE  ReactInv'
<1> DEFINE v == [reactReq[r] EXCEPT !.pc = "commit", !.out = reactReq[r].out \cap reactions]
<1>1. reactReq[r] \in CallRecord /\ CallOK(r, reactReq[r], reactions, lock, deleted) /\ reactReq[r].pc = "wait"
  BY Zenon DEF ReactInv, ReactType, CallsOK, R!DeleteSweep
<1>2. reactReq[r].out \cap reactions \subseteq User \X Emoji
  BY Zenon DEF ReactInv, ReactType
<1>3. v \in CallRecord /\ v.pc = "commit" /\ v.op = reactReq[r].op /\ v.user = reactReq[r].user
      /\ v.emoji = reactReq[r].emoji /\ v.out = reactReq[r].out \cap reactions /\ v.in = reactReq[r].in
  BY Zenon, <1>1, <1>2 DEF CallRecord
<1>4. reactReq' = [reactReq EXCEPT ![r] = v]
  BY Zenon DEF R!DeleteSweep
<1> HIDE DEF v
<1>5. UNCHANGED <<reactions, view, deleted, late, lock>> /\ crossed \subseteq crossed'
  BY Zenon DEF R!DeleteSweep
<1>6. CallOK(r, v, reactions, lock', deleted) /\ v.op = "delete"
  BY Zenon, <1>1, <1>3 DEF CallOK
<1>7. v.pc # "announce" /\ reactReq[r].pc # "announce" /\ lock' \in [User -> Request \cup {None}]
  BY Zenon, <1>1, <1>3, <1>5 DEF ReactInv, ReactType
<1>8. R!Sweeping(r)
  BY Zenon, <1>1, <1>3, <1>6 DEF R!Sweeping
<1>9. Closed /\ reactions \subseteq v.out \cup late'
  BY Zenon, <1>3, <1>5, <1>8 DEF ReactInv, LateOK, Closed
<1>10. late \subseteq late'
  BY Zenon, <1>5
<1>11. QED
  BY Zenon, <1>3, <1>4, <1>5, <1>6, <1>7, <1>9, <1>10, ReactMoves

\* Call r commits a change of its user: the rows out go, the rows in come, all of
\* them the user's, and what is left of the user's is one row at most.
LEMMA ReactCommits ==
    ASSUME ReactInv, NEW r \in Request, NEW v \in CallRecord, NEW u \in User,
           reactReq' = [reactReq EXCEPT ![r] = v],
           v.pc = "announce", v.op \in {"add", "remove"}, v.op = reactReq[r].op,
           v.user = u, reactReq[r].user = u, v.emoji = reactReq[r].emoji,
           reactReq[r].pc # "announce",
           reactions' \subseteq User \X Emoji,
           \A x \in User \X Emoji : x \in reactions' <=> x \in (reactions \ v.out) \cup v.in,
           \A x, y \in reactions' : x[1] = u /\ y[1] = u => x = y,
           \A x \in v.out \cup v.in : x[1] = u,
           v.op = "add" => lock[u] = r,
           v.in # {} => v.op = "add", \A x \in v.in : x = <<u, v.emoji>>,
           lock' \in [User -> Request \cup {None}],
           \A w \in User : lock[w] \in Request \ {r} => lock'[w] = lock[w],
           R!Cross(r, u), UNCHANGED <<deleted, view, late>>
    PROVE  ReactInv'
<1>1. /\ reactReq' \in [Request -> CallRecord] /\ reactReq'[r] = v
      /\ \A q \in Request \ {r} : reactReq'[q] = reactReq[q]
      /\ reactions \subseteq User \X Emoji /\ view \subseteq User \X Emoji
      /\ CallOK(r, reactReq[r], reactions, lock, deleted)
  BY Zenon DEF ReactInv, ReactType, CallsOK
<1>2. ReactType'
  BY Zenon, <1>1 DEF ReactInv, ReactType
<1>3. \A x \in reactions' : x \in reactions \/ (x[1] = u /\ v.op = "add")
  BY Zenon, <1>1
<1>4. CallsOK'
  <2>1. ASSUME NEW q \in Request \ {r}
        PROVE  CallOK(q, reactReq[q], reactions', lock', deleted)
    <3>1. reactReq[q] \in CallRecord /\ CallOK(q, reactReq[q], reactions, lock, deleted)
      BY Zenon DEF ReactInv, ReactType, CallsOK
    <3>2. reactReq[q].op = "add" /\ lock[reactReq[q].user] = q =>
             /\ lock'[reactReq[q].user] = q
             /\ \A x \in reactions' : x[1] = reactReq[q].user => x \in reactions
      BY Zenon, <3>1, <1>3 DEF CallOK
    <3>3. QED
      BY SMTT(20), <3>1, <3>2, CallKeeps
  <2>2. CallOK(r, v, reactions', lock', deleted)
    BY Zenon, <1>1 DEF CallOK
  <2>3. QED
    BY Zenon, <1>1, <2>1, <2>2 DEF CallsOK
<1>5. OneReactionPerUser'
  BY <1>3 DEF ReactInv, OneReactionPerUser, R!OneReactionPerUser
<1>6. LateOK' /\ DeletedHasNone'
  <2>1. ASSUME Closed, NEW x \in reactions' PROVE x \in reactions \/ x \in late
    <3>1. x \in reactions \/ (x = <<u, v.emoji>> /\ v.op = "add")
      <4>1. x \in User \X Emoji
        BY Zenon
      <4>2. x \in reactions \/ x \in v.in
        BY Zenon, <4>1
      <4>3. QED
        BY Zenon, <4>2
    <3>2. v.op = "add" => Adding(r)
      BY Zenon DEF Adding
    <3>3. Adding(r) => <<reactReq[r].user, reactReq[r].emoji>> \in late
      BY Zenon, <2>1 DEF ReactInv, LateOK
    <3>4. <<reactReq[r].user, reactReq[r].emoji>> = <<u, v.emoji>>
      BY Zenon
    <3>5. QED
      BY Zenon, <3>1, <3>2, <3>3, <3>4
  <2>2. \A q \in Request \ {r} : (R!Sweeping(q)' <=> R!Sweeping(q)) /\ (Adding(q)' <=> Adding(q))
    BY Zenon, <1>1 DEF R!Sweeping, Adding
  <2>3. ~R!Sweeping(r)' /\ ~R!Sweeping(r) /\ ~Adding(r)'
    BY Zenon, <1>1 DEF R!Sweeping, Adding
  <2>4. Closed' <=> Closed
    BY Zenon, <2>2, <2>3 DEF Closed
  <2>5. Closed' => \A q \in Request : Adding(q)' => <<reactReq'[q].user, reactReq'[q].emoji>> \in late
    BY Zenon, <1>1, <2>2, <2>3, <2>4 DEF ReactInv, LateOK
  <2>6. ASSUME NEW q \in Request, R!Sweeping(q)' PROVE reactions' \subseteq reactReq'[q].out \cup late
    <3>1. q # r /\ R!Sweeping(q) /\ reactReq'[q] = reactReq[q] /\ Closed
      BY Zenon, <1>1, <2>2, <2>3, <2>6 DEF Closed
    <3>2. reactions \subseteq reactReq[q].out \cup late
      BY Zenon, <3>1 DEF ReactInv, LateOK
    <3>3. QED
      BY Zenon, <2>1, <3>1, <3>2
  <2>7. LateOK'
    BY Zenon, <2>5, <2>6 DEF LateOK
  <2>8. DeletedHasNone'
    BY Zenon, <2>1 DEF ReactInv, DeletedHasNone, R!DeletedHasNone, Closed
  <2>9. QED
    BY Zenon, <2>7, <2>8
<1>7. ViewOK'
  <2> SUFFICES ASSUME ~deleted, NEW w \in User, w \notin crossed'
               PROVE  /\ \A p, q \in Request : Announces(p, w)' /\ Announces(q, w)' => p = q
                      /\ \A e \in Emoji : (\A q \in Request : ~Announces(q, w)') =>
                            (<<w, e>> \in view <=> <<w, e>> \in reactions')
                      /\ \A q \in Request, e \in Emoji : Announces(q, w)' =>
                            (<<w, e>> \in (view \ reactReq'[q].out) \cup reactReq'[q].in
                               <=> <<w, e>> \in reactions')
    BY Zenon DEF ViewOK
  <2>1. w \notin crossed /\ (w = u => \A q \in Request \ {r} : ~Announces(q, u))
    BY Zenon DEF R!Cross, Announces
  <2>2. \A q \in Request \ {r} : Announces(q, w)' <=> Announces(q, w)
    BY Zenon, <1>1 DEF Announces
  <2>3. (Announces(r, w)' <=> w = u) /\ ~Announces(r, w)
    BY Zenon, <1>1 DEF Announces
  <2>4. /\ \A p, q \in Request : Announces(p, w) /\ Announces(q, w) => p = q
        /\ \A e \in Emoji : (\A q \in Request : ~Announces(q, w)) =>
              (<<w, e>> \in view <=> <<w, e>> \in reactions)
        /\ \A q \in Request, e \in Emoji : Announces(q, w) =>
              (<<w, e>> \in (view \ reactReq[q].out) \cup reactReq[q].in
                 <=> <<w, e>> \in reactions)
    BY Zenon, <2>1 DEF ReactInv, ViewOK
  <2>5. \A e \in Emoji : <<w, e>>[1] = w /\ <<w, e>> \in User \X Emoji
    BY Zenon
  <2>6. CASE w = u
    <3>1. \A e \in Emoji : <<w, e>> \in view <=> <<w, e>> \in reactions
      BY Zenon, <2>1, <2>3, <2>4, <2>6
    <3>2. \A q \in Request : Announces(q, w)' <=> q = r
      BY Zenon, <2>1, <2>2, <2>3, <2>6
    <3>3. \A e \in Emoji : <<w, e>> \in (view \ v.out) \cup v.in <=> <<w, e>> \in reactions'
      BY Zenon, <3>1, <2>5
    <3>4. QED
      BY SMTT(20), <3>2, <3>3, <1>1
  <2>7. CASE w # u
    <3>1. \A e \in Emoji : <<w, e>> \in reactions' <=> <<w, e>> \in reactions
      BY <2>5, <2>7
    <3>2. \A q \in Request : Announces(q, w)' <=> Announces(q, w)
      BY Zenon, <2>2, <2>3, <2>7
    <3>3. \A q \in Request : Announces(q, w)' =>
             reactReq'[q].out = reactReq[q].out /\ reactReq'[q].in = reactReq[q].in
      BY Zenon, <1>1, <2>3, <2>7
    <3>4. QED
      BY Zenon, <2>4, <3>1, <3>2, <3>3
  <2>8. QED
    BY Zenon, <2>6, <2>7
<1>8. QED
  BY Zenon, <1>2, <1>4, <1>5, <1>6, <1>7 DEF ReactInv

\* addReaction inserts and commits.
LEMMA ReactAddCommit ==
    ASSUME ReactInv, NEW r \in Request, R!AddCommit(r)
    PROVE  ReactInv'
<1>1. PICK q \in CallRecord : q = reactReq[r]
  BY Zenon DEF ReactInv, ReactType
<1>2. CallOK(r, q, reactions, lock, deleted) /\ q.op = "add" /\ q.pc = "commit"
  BY Zenon, <1>1 DEF ReactInv, CallsOK, R!AddCommit
<1>3. PICK row : row = <<q.user, q.emoji>>
  BY Zenon
<1>4. q.user \in User /\ q.emoji \in Emoji /\ row \in User \X Emoji /\ row[1] = q.user /\ row \notin q.out
      /\ (\A x \in q.out : x[1] = q.user) /\ lock[q.user] = r
      /\ \A x \in reactions : x[1] = q.user => x \in q.out \/ x = row
  BY Zenon, <1>2, <1>3 DEF CallOK
<1>5. PICK in \in SUBSET (User \X Emoji) : in = {row} \ reactions
  BY Zenon, <1>4
<1> DEFINE v == [q EXCEPT !.pc = "announce", !.in = in]
<1>6. v \in CallRecord /\ v.pc = "announce" /\ v.op = q.op /\ v.user = q.user
      /\ v.emoji = q.emoji /\ v.out = q.out /\ v.in = in
  BY Zenon DEF CallRecord
<1>7. reactReq' = [reactReq EXCEPT ![r] = v]
  BY Zenon, <1>1, <1>3, <1>5 DEF R!AddCommit
<1> HIDE DEF v
<1>8. reactions' = (reactions \ q.out) \cup {row} /\ R!Cross(r, q.user) /\ lock' = [lock EXCEPT ![q.user] = None]
      /\ UNCHANGED <<deleted, view, late>>
  BY Zenon, <1>1, <1>3 DEF R!AddCommit
<1>9. reactions' \subseteq User \X Emoji
  BY Zenon, <1>4, <1>8 DEF ReactInv, ReactType
<1>10. \A x \in User \X Emoji : x \in reactions' <=> x \in (reactions \ v.out) \cup v.in
  BY Zenon, <1>4, <1>5, <1>6, <1>8
<1>11. \A x, y \in reactions' : x[1] = q.user /\ y[1] = q.user => x = y
  BY Zenon, <1>4, <1>8
<1>12. (\A x \in v.out \cup v.in : x[1] = q.user) /\ \A x \in v.in : x = <<q.user, v.emoji>>
  BY Zenon, <1>3, <1>4, <1>5, <1>6
<1>13. /\ lock' \in [User -> Request \cup {None}]
       /\ \A w \in User : lock[w] \in Request \ {r} => lock'[w] = lock[w]
  BY Zenon, <1>4, <1>8 DEF ReactInv, ReactType
<1>14. v.op \in {"add", "remove"} /\ v.op = reactReq[r].op /\ v.user = q.user /\ reactReq[r].user = q.user
       /\ v.emoji = reactReq[r].emoji /\ reactReq[r].pc # "announce" /\ v.op = "add"
  BY Zenon, <1>1, <1>2, <1>6
<1>15. QED
  BY Zenon, <1>4, <1>6, <1>7, <1>8, <1>9, <1>10, <1>11, <1>12, <1>13, <1>14, ReactCommits

\* removeReaction deletes the row, if it is there.
LEMMA ReactRemove ==
    ASSUME ReactInv, NEW r \in Request, R!RemoveRow(r)
    PROVE  ReactInv'
<1>1. PICK q \in CallRecord : q = reactReq[r]
  BY Zenon DEF ReactInv, ReactType
<1>2. CallOK(r, q, reactions, lock, deleted) /\ q.pc = "remove" /\ q.op = "remove"
  BY Zenon, <1>1 DEF ReactInv, CallsOK, R!RemoveRow, CallOK
<1>3. PICK row : row = <<q.user, q.emoji>>
  BY Zenon
<1>4. q.user \in User /\ q.emoji \in Emoji /\ row \in User \X Emoji /\ row[1] = q.user /\ q.in = {}
  BY Zenon, <1>2, <1>3 DEF CallOK
<1>5. reactions' = reactions \ {row} /\ R!Cross(r, q.user) /\ UNCHANGED <<deleted, lock, view, late>>
  BY Zenon, <1>1, <1>3 DEF R!RemoveRow
<1>6. /\ lock' \in [User -> Request \cup {None}]
      /\ \A w \in User : lock[w] \in Request \ {r} => lock'[w] = lock[w]
  BY Zenon, <1>5 DEF ReactInv, ReactType
<1>7. CASE row \in reactions
  <2> DEFINE v == [q EXCEPT !.pc = "announce", !.out = {row}]
  <2>1. v \in CallRecord /\ v.pc = "announce" /\ v.op = q.op /\ v.user = q.user
        /\ v.emoji = q.emoji /\ v.out = {row} /\ v.in = {}
    BY Zenon, <1>4 DEF CallRecord
  <2>2. reactReq' = [reactReq EXCEPT ![r] = v]
    BY Zenon, <1>1, <1>3, <1>7 DEF R!RemoveRow
  <2> HIDE DEF v
  <2>3. /\ reactions' \subseteq User \X Emoji
        /\ \A x \in User \X Emoji : x \in reactions' <=> x \in (reactions \ v.out) \cup v.in
    BY Zenon, <1>5, <2>1 DEF ReactInv, ReactType
  <2>4. \A x, y \in reactions' : x[1] = q.user /\ y[1] = q.user => x = y
    BY Zenon, <1>5 DEF ReactInv, OneReactionPerUser, R!OneReactionPerUser
  <2>5. \A x \in v.out \cup v.in : x[1] = q.user
    BY Zenon, <1>4, <2>1
  <2>6. v.op \in {"add", "remove"} /\ v.op = reactReq[r].op /\ v.user = q.user /\ reactReq[r].user = q.user
        /\ v.emoji = reactReq[r].emoji /\ reactReq[r].pc # "announce" /\ v.op # "add" /\ v.in = {}
    BY Zenon, <1>1, <1>2, <2>1
  <2>7. QED
    BY Zenon, <1>4, <1>5, <1>6, <2>1, <2>2, <2>3, <2>4, <2>5, <2>6, ReactCommits
<1>8. CASE row \notin reactions
  <2>1. reactReq' = [reactReq EXCEPT ![r] = R!Idle] /\ reactions' = reactions
    BY Zenon, <1>1, <1>3, <1>5, <1>8 DEF R!RemoveRow
  <2>2. R!Idle \in CallRecord /\ R!Idle.op = "idle" /\ R!Idle.pc = "idle" /\ R!Idle.in = {}
    BY Zenon DEF R!Idle, CallRecord
  <2>3. CallOK(r, R!Idle, reactions, lock', deleted)
    BY Zenon, <2>2 DEF CallOK
  <2>4. crossed \subseteq crossed'
    BY Zenon, <1>5 DEF R!Cross
  <2>5. late \subseteq late' /\ R!Idle.op # "add" /\ R!Idle.op # "delete" /\ R!Idle.pc # "announce"
    BY Zenon, <1>5, <2>2
  <2>6. QED
    BY Zenon, <1>1, <1>2, <1>5, <1>6, <2>1, <2>2, <2>3, <2>4, <2>5, ReactMoves
<1>9. QED
  BY Zenon, <1>7, <1>8

\* deleteMessage commits: what is left was added behind its back.
LEMMA ReactDelete ==
    ASSUME ReactInv, NEW r \in Request, R!DeleteCommit(r)
    PROVE  ReactInv'
<1> DEFINE v == [reactReq[r] EXCEPT !.pc = "announce"]
<1>1. /\ reactReq[r] \in CallRecord /\ CallOK(r, reactReq[r], reactions, lock, deleted)
      /\ reactReq[r].op = "delete" /\ reactReq[r].pc = "commit"
  BY Zenon DEF ReactInv, ReactType, CallsOK, R!DeleteCommit
<1>2. v \in CallRecord /\ v.pc = "announce" /\ v.op = "delete" /\ v.user = reactReq[r].user
  BY Zenon, <1>1 DEF CallRecord
<1>3. reactReq' = [reactReq EXCEPT ![r] = v]
  BY Zenon DEF R!DeleteCommit
<1> HIDE DEF v
<1>4. deleted' = TRUE /\ reactions' \subseteq reactions /\ UNCHANGED <<lock, view, late, crossed>>
      /\ reactions' = reactions \ reactReq[r].out
  BY Zenon DEF R!DeleteCommit
<1>5. /\ reactReq' \in [Request -> CallRecord] /\ reactReq'[r] = v
      /\ \A q \in Request \ {r} : reactReq'[q] = reactReq[q]
  BY Zenon, <1>2, <1>3 DEF ReactInv, ReactType
<1>6. ReactType'
  BY Zenon, <1>4, <1>5 DEF ReactInv, ReactType
<1>7. CallsOK'
  <2>1. ASSUME NEW q \in Request \ {r}
        PROVE  CallOK(q, reactReq[q], reactions', lock', deleted')
    <3>1. reactReq[q] \in CallRecord /\ CallOK(q, reactReq[q], reactions, lock, deleted)
      BY Zenon DEF ReactInv, ReactType, CallsOK
    <3>2. lock' = lock /\ deleted' /\ \A x \in reactions' : x \in reactions
      BY Zenon, <1>4
    <3>3. QED
      BY Zenon, <3>1, <3>2, CallKeeps
  <2>2. CallOK(r, v, reactions', lock', deleted')
    BY Zenon, <1>1, <1>2, <1>4 DEF CallOK
  <2>3. QED
    BY Zenon, <1>5, <2>1, <2>2 DEF CallsOK
<1>8. OneReactionPerUser' /\ ViewOK'
  BY Zenon, <1>4 DEF ReactInv, OneReactionPerUser, R!OneReactionPerUser, ViewOK
<1>9. R!Sweeping(r)
  BY Zenon, <1>1 DEF R!Sweeping
<1>10. reactions \subseteq reactReq[r].out \cup late /\ Closed
  BY Zenon, <1>9 DEF ReactInv, LateOK, Closed
<1>11. DeletedHasNone'
  BY Zenon, <1>4, <1>10 DEF DeletedHasNone, R!DeletedHasNone
<1>12. ~R!Sweeping(r)' /\ ~Adding(r)'
  BY Zenon, <1>2, <1>5 DEF R!Sweeping, Adding
<1>13. \A q \in Request \ {r} : (R!Sweeping(q)' <=> R!Sweeping(q)) /\ (Adding(q)' <=> Adding(q))
  BY Zenon, <1>5 DEF R!Sweeping, Adding
<1>14. LateOK'
  <2>1. \A q \in Request : Adding(q)' => <<reactReq'[q].user, reactReq'[q].emoji>> \in late'
    BY Zenon, <1>4, <1>5, <1>10, <1>12, <1>13 DEF ReactInv, LateOK
  <2>2. \A q \in Request : R!Sweeping(q)' => reactions' \subseteq reactReq'[q].out \cup late'
    BY Zenon, <1>4, <1>5, <1>12, <1>13 DEF ReactInv, LateOK
  <2>3. QED
    BY Zenon, <2>1, <2>2 DEF LateOK
<1>15. QED
  BY Zenon, <1>6, <1>7, <1>8, <1>11, <1>14 DEF ReactInv

\* Call r announces its change and is over.
LEMMA ReactAnnounce ==
    ASSUME ReactInv, NEW r \in Request, R!Announce(r)
    PROVE  ReactInv'
<1>1. PICK q \in CallRecord : q = reactReq[r]
  BY Zenon DEF ReactInv, ReactType
<1>2. CallOK(r, q, reactions, lock, deleted) /\ q.pc = "announce"
  BY Zenon, <1>1 DEF ReactInv, CallsOK, R!Announce
<1>3. R!Idle \in CallRecord /\ R!Idle.op = "idle" /\ R!Idle.pc = "idle" /\ R!Idle.in = {}
  BY Zenon DEF R!Idle, CallRecord
<1>4. /\ reactReq' \in [Request -> CallRecord] /\ reactReq'[r] = R!Idle
      /\ \A p \in Request \ {r} : reactReq'[p] = reactReq[p]
      /\ UNCHANGED <<reactions, deleted, lock, late, crossed>>
  BY Zenon, <1>3 DEF ReactInv, ReactType, R!Announce
<1>5. view' = IF q.op = "delete" THEN {} ELSE (view \ q.out) \cup q.in
  BY Zenon, <1>1 DEF R!Announce, R!Broadcast
<1>6. ReactType'
  <2>1. q.in \subseteq User \X Emoji /\ view \subseteq User \X Emoji
    BY Zenon DEF CallRecord, ReactInv, ReactType
  <2>2. view' \subseteq User \X Emoji
    BY Zenon, <1>5, <2>1
  <2>3. QED
    BY Zenon, <1>4, <2>2 DEF ReactInv, ReactType
<1>7. CallsOK'
  <2>1. CallOK(r, R!Idle, reactions, lock, deleted)
    BY Zenon, <1>3 DEF CallOK
  <2>2. QED
    BY Zenon, <1>4, <2>1 DEF CallsOK, ReactInv
<1>8. OneReactionPerUser' /\ DeletedHasNone'
  BY Zenon, <1>4 DEF ReactInv, OneReactionPerUser, R!OneReactionPerUser, DeletedHasNone, R!DeletedHasNone
<1>9. ViewOK'
  <2> SUFFICES ASSUME ~deleted, NEW w \in User, w \notin crossed
               PROVE  /\ \A p, s \in Request : Announces(p, w)' /\ Announces(s, w)' => p = s
                      /\ \A e \in Emoji : (\A p \in Request : ~Announces(p, w)') =>
                            (<<w, e>> \in view' <=> <<w, e>> \in reactions)
                      /\ \A p \in Request, e \in Emoji : Announces(p, w)' =>
                            (<<w, e>> \in (view' \ reactReq'[p].out) \cup reactReq'[p].in
                               <=> <<w, e>> \in reactions)
    BY Zenon, <1>4 DEF ViewOK
  <2>1. /\ \A p, s \in Request : Announces(p, w) /\ Announces(s, w) => p = s
        /\ \A e \in Emoji : (\A p \in Request : ~Announces(p, w)) =>
              (<<w, e>> \in view <=> <<w, e>> \in reactions)
        /\ \A p \in Request, e \in Emoji : Announces(p, w) =>
              (<<w, e>> \in (view \ reactReq[p].out) \cup reactReq[p].in
                 <=> <<w, e>> \in reactions)
    BY Zenon DEF ReactInv, ViewOK
  <2>2. ~Announces(r, w)' /\ \A p \in Request \ {r} : Announces(p, w)' <=> Announces(p, w)
    BY Zenon, <1>3, <1>4 DEF Announces
  <2>3. q.op \in {"add", "remove"} /\ view' = (view \ q.out) \cup q.in /\ \A x \in q.out \cup q.in : x[1] = q.user
    BY Zenon, <1>2, <1>5 DEF CallOK, CallRecord
  <2>4. Announces(r, w) <=> q.user = w
    BY Zenon, <1>1, <1>2 DEF Announces
  <2>5. \A e \in Emoji : <<w, e>>[1] = w
    BY Zenon
  <2>6. CASE q.user = w
    <3>1. \A e \in Emoji : <<w, e>> \in view' <=> <<w, e>> \in reactions
      BY Zenon, <1>1, <2>1, <2>3, <2>4, <2>6
    <3>2. \A p \in Request : ~Announces(p, w)'
      BY Zenon, <2>1, <2>2, <2>4, <2>6
    <3>3. QED
      BY Zenon, <3>1, <3>2
  <2>7. CASE q.user # w
    <3>1. \A e \in Emoji : <<w, e>> \in view' <=> <<w, e>> \in view
      BY Zenon, <2>3, <2>5, <2>7
    <3>2. \A p \in Request : Announces(p, w)' <=> Announces(p, w)
      BY Zenon, <2>2, <2>4, <2>7
    <3>3. \A p \in Request : Announces(p, w)' => reactReq'[p] = reactReq[p]
      BY Zenon, <1>4, <2>2
    <3>4. QED
      BY Zenon, <2>1, <3>1, <3>2, <3>3
  <2>8. QED
    BY Zenon, <2>6, <2>7
<1>10. LateOK'
  <2>1. ~R!Sweeping(r)' /\ ~R!Sweeping(r) /\ ~Adding(r)'
    BY Zenon, <1>1, <1>2, <1>3, <1>4 DEF R!Sweeping, Adding
  <2>2. \A p \in Request \ {r} : (R!Sweeping(p)' <=> R!Sweeping(p)) /\ (Adding(p)' <=> Adding(p))
    BY Zenon, <1>4 DEF R!Sweeping, Adding
  <2>3. Closed' <=> Closed
    BY Zenon, <1>4, <2>1, <2>2 DEF Closed
  <2>4. QED
    BY Zenon, <1>4, <2>1, <2>2, <2>3 DEF ReactInv, LateOK
<1>11. QED
  BY Zenon, <1>6, <1>7, <1>8, <1>9, <1>10 DEF ReactInv

\* Reactions: every step keeps the invariant.
LEMMA ReactNext == ReactInv /\ [R!Next]_(R!vars) => ReactInv'
<1> SUFFICES ASSUME ReactInv, [R!Next]_(R!vars) PROVE ReactInv'
  BY Zenon
<1>1. CASE UNCHANGED R!vars
  BY SMTT(20), <1>1 DEF R!vars, ReactInv, ReactType, CallsOK, OneReactionPerUser, R!OneReactionPerUser,
     LateOK, Closed, Adding, R!Sweeping, DeletedHasNone, R!DeletedHasNone, ViewOK, Announces
<1>2. ASSUME NEW r \in Request, NEW u \in User, NEW e \in Emoji, R!AddBegin(r, u, e)
      PROVE  ReactInv'
  <2>1. R!Begin(r, "add", u, e, "lock") /\ UNCHANGED <<reactions, deleted, lock, view, crossed>>
    BY Zenon, <1>2 DEF R!AddBegin
  <2>2. late \subseteq late' /\ (Closed => <<u, e>> \in late')
    BY Zenon, <1>2 DEF R!AddBegin, Closed
  <2>3. QED
    BY Zenon, <2>1, <2>2, ReactBegins
<1>3. ASSUME NEW r \in Request, NEW u \in User, NEW e \in Emoji, R!RemoveBegin(r, u, e)
      PROVE  ReactInv'
  <2>1. R!Begin(r, "remove", u, e, "remove") /\ UNCHANGED <<reactions, deleted, lock, view, late, crossed>>
    BY Zenon, <1>3 DEF R!RemoveBegin
  <2>2. QED
    BY Zenon, <2>1, ReactBegins
<1>4. ASSUME NEW r \in Request, R!DeleteBegin(r)
      PROVE  ReactInv'
  <2>1. R!Begin(r, "delete", None, None, "update") /\ UNCHANGED <<reactions, deleted, lock, view, late, crossed>>
    BY Zenon, <1>4 DEF R!DeleteBegin
  <2>2. QED
    BY Zenon, <2>1, ReactBegins
<1>5. ASSUME NEW r \in Request,
             R!AddLock(r) \/ R!AddReplace(r) \/ R!AddCommit(r) \/ R!RemoveRow(r)
               \/ R!DeleteSee(r) \/ R!DeleteSweep(r) \/ R!DeleteCommit(r) \/ R!Announce(r)
      PROVE  ReactInv'
  BY Zenon, <1>5, ReactLock, ReactReplace, ReactAddCommit, ReactRemove, ReactSee, ReactSweep, ReactDelete, ReactAnnounce
<1>6. QED
  BY Zenon, <1>1, <1>2, <1>3, <1>4, <1>5 DEF R!Next

\* Reactions: what each call holds and knows, and what the broadcasts add up to,
\* in every reachable state.
THEOREM ReactInvTheorem == R!Spec => []ReactInv
BY ReactInit, ReactNext, PTL DEF R!Spec

\* addReaction leaves a user one reaction.
THEOREM OneReactionTheorem == R!Spec => []OneReactionPerUser
<1>1. ReactInv => OneReactionPerUser
  BY Zenon DEF ReactInv
<1>2. QED
  BY <1>1, ReactInvTheorem, PTL

\* deleteMessage leaves only reactions of calls that overlapped its DELETE.
THEOREM DeletedTheorem == R!Spec => []DeletedHasNone
<1>1. ReactInv => DeletedHasNone
  BY Zenon DEF ReactInv
<1>2. QED
  BY <1>1, ReactInvTheorem, PTL

\* The broadcasts of the reactions add up to the table.
THEOREM ViewTheorem == R!Spec => []ViewIsTable
<1>1. ReactInv => ViewIsTable
  <2> SUFFICES ASSUME ReactInv, \A r \in Request : reactReq[r] = R!Idle, ~deleted,
                      NEW u \in User \ crossed
               PROVE  {x \in view : x[1] = u} = R!Of(u)
    BY Zenon DEF ViewIsTable, R!ViewIsTable
  <2>1. \A r \in Request : ~Announces(r, u)
    BY DEF Announces, R!Idle
  <2>2. \A e \in Emoji : <<u, e>> \in view <=> <<u, e>> \in reactions
    BY Zenon, <2>1 DEF ReactInv, ViewOK
  <2>3. reactions \subseteq User \X Emoji /\ view \subseteq User \X Emoji
    BY Zenon DEF ReactInv, ReactType
  <2>4. \A x \in User \X Emoji : x[1] = u => (x \in view <=> x \in reactions)
    <3> TAKE x \in User \X Emoji
    <3>1. x = <<x[1], x[2]>> /\ x[2] \in Emoji
      OBVIOUS
    <3>2. QED
      BY Zenon, <3>1, <2>2
  <2>5. QED
    BY Zenon, <2>3, <2>4 DEF R!Of
<1>2. QED
  BY <1>1, ReactInvTheorem, PTL

-----------------------------------------------------------------------------
(* Rate limits.  Counting needs the library's facts about finite sets.    *)
INSTANCE FiniteSetTheorems

Counters == Throttle \cup Route

RateType ==
    /\ counter \in [Counters -> 0 .. MaxCount]
    /\ ttl \in [Counters -> 0 .. Window]
    /\ limitReq \in [Visit -> Seq(Counters)]
    /\ passed \in [Counters -> SUBSET ((0 .. Window - 1) \X (1 .. Limit))]
    /\ hits \in [Counters -> SUBSET ((0 .. Window - 1) \X (1 .. MaxCount))]

\* The hits since the key was made are among the recent ones: it is not older
\* than its TTL says.
HitsOK(n, t, h) ==
    n > 0 => t > 0 /\ \A i \in 1 .. n : \E a \in 0 .. Window - t : <<a, i>> \in h

\* b is the age of the hit that opened the window.  The hits allowed since have
\* numbers of their own; of those before, which one window allowed, the first is
\* too old.
Opened(b, n, t, p) ==
    /\ n = 0 => b = -1 /\ \A x \in p : x[1] > 0
    /\ n > 0 => b >= 0 /\ (t > 0 => b >= Window - t)
    /\ \A x \in p : x[1] <= b => x[2] <= n /\ (x[2] = 1 => x[1] = b)
    /\ \A x \in p : x[1] > b => x[2] # 1
    /\ \A x, y \in p : (x[1] <= b <=> y[1] <= b) /\ x[2] = y[2] => x = y

PassedOK(n, t, p) == \E b \in Int : Opened(b, n, t, p)

RateInv ==
    /\ RateType
    /\ \A k \in Counters \ lost : HitsOK(counter[k], ttl[k], hits[k])
    /\ \A k \in Counters : PassedOK(counter[k], ttl[k], passed[k])

\* Cardinality, as RateLimits sees it.
LEMMA CardinalityIs ==
    ASSUME NEW S
    PROVE  T!Cardinality(S) = Cardinality(S)
BY Zenon DEF T!Cardinality, Cardinality

\* Two windows at most, and of the older one not the hit that opened it.
LEMMA PassedCount ==
    ASSUME NEW n \in Nat, NEW t \in Nat, NEW p \in SUBSET ((0 .. Window - 1) \X (1 .. Limit)), PassedOK(n, t, p)
    PROVE  Cardinality(p) < 2 * Limit
<1>1. PICK b \in Int : Opened(b, n, t, p)
  BY Zenon DEF PassedOK
<1>2. Limit \in Nat /\ Limit > 0
  BY ServicesAssumption
<1> DEFINE New == {x \in p : x[1] <= b}
           Old == {x \in p : ~(x[1] <= b)}
<1>3. \A x \in p : x[1] \in Int /\ x[2] \in 1 .. Limit
  OBVIOUS
<1>4. IsFiniteSet(New) /\ Cardinality(New) <= Limit
  <2> DEFINE f == [x \in New |-> x[2]]
  <2>1. f \in [New -> 1 .. Limit]
    BY Zenon, <1>3
  <2>2. ASSUME NEW x \in New, NEW y \in New, f[x] = f[y] PROVE x = y
    <3>1. x \in p /\ y \in p /\ (x[1] <= b <=> y[1] <= b) /\ x[2] = y[2]
      BY Zenon, <2>2
    <3> HIDE DEF f, New
    <3>2. QED
      BY Zenon, <1>1, <3>1 DEF Opened
  <2>3. f \in Injection(New, 1 .. Limit)
    BY Zenon, <2>1, <2>2 DEF Injection, IsInjective
  <2>4. IsFiniteSet(1 .. Limit) /\ Cardinality(1 .. Limit) = Limit
    BY <1>2, FS_Interval
  <2> HIDE DEF f, New
  <2>5. QED
    BY <2>3, <2>4, FS_Injection
<1>5. IsFiniteSet(Old) /\ Cardinality(Old) <= Limit - 1
  <2> DEFINE f == [x \in Old |-> x[2]]
  <2>1. f \in [Old -> 2 .. Limit]
    <3>1. \A x \in Old : x[2] # 1 /\ x[2] \in 1 .. Limit
      BY <1>1, <1>3 DEF Opened
    <3>2. \A x \in Old : x[2] \in 2 .. Limit
      BY <1>2, <3>1
    <3>3. QED
      BY Zenon, <3>2
  <2>2. ASSUME NEW x \in Old, NEW y \in Old, f[x] = f[y] PROVE x = y
    <3>1. x \in p /\ y \in p /\ (x[1] <= b <=> y[1] <= b) /\ x[2] = y[2]
      BY Zenon, <2>2
    <3> HIDE DEF f, Old
    <3>2. QED
      BY Zenon, <1>1, <3>1 DEF Opened
  <2>3. f \in Injection(Old, 2 .. Limit)
    BY Zenon, <2>1, <2>2 DEF Injection, IsInjective
  <2>4. IsFiniteSet(2 .. Limit) /\ Cardinality(2 .. Limit) = Limit - 1
    BY <1>2, FS_Interval
  <2> HIDE DEF f, Old
  <2>5. QED
    BY <2>3, <2>4, FS_Injection
<1>6. p = New \cup Old /\ New \cap Old = {}
  BY Zenon
<1> HIDE DEF New, Old
<1>7. Cardinality(New) \in Nat /\ Cardinality(Old) \in Nat
  BY Zenon, <1>4, <1>5, FS_CardinalityType
<1>8. Cardinality(New \cap Old) = 0
  BY Zenon, <1>6, FS_EmptySet
<1>9. Cardinality(New \cup Old) = Cardinality(New) + Cardinality(Old) - Cardinality(New \cap Old)
  BY Zenon, <1>4, <1>5, FS_Union
<1>10. QED
  BY <1>2, <1>4, <1>5, <1>6, <1>7, <1>8, <1>9

\* A counter is the number of hits it stands for.
LEMMA HitsCount ==
    ASSUME NEW n \in Nat, NEW t \in Nat, NEW h, IsFiniteSet(h), HitsOK(n, t, h)
    PROVE  n <= Cardinality(h)
<1> DEFINE S == {x \in h : x[2] \in 1 .. n}
           f == [x \in S |-> x[2]]
<1>1. f \in [S -> 1 .. n]
  BY Zenon
<1>2. \A i \in 1 .. n : \E x \in S : f[x] = i
  <2> SUFFICES ASSUME NEW i \in 1 .. n PROVE \E x \in S : f[x] = i
    BY Zenon
  <2>1. PICK a \in 0 .. Window - t : <<a, i>> \in h
    BY DEF HitsOK
  <2>2. <<a, i>> \in S /\ f[<<a, i>>] = i
    BY Zenon, <2>1
  <2>3. QED
    BY Zenon, <2>2
<1>3. f \in Surjection(S, 1 .. n)
  BY Zenon, <1>1, <1>2 DEF Surjection
<1>4. IsFiniteSet(S) /\ Cardinality(S) <= Cardinality(h)
  BY Zenon, FS_Subset
<1>5. Cardinality(1 .. n) = n
  BY FS_Interval
<1> HIDE DEF S, f
<1>6. n <= Cardinality(S)
  BY <1>3, <1>4, <1>5, FS_Surjection
<1>7. Cardinality(S) \in Nat /\ Cardinality(h) \in Nat
  BY Zenon, <1>4, FS_CardinalityType
<1>8. QED
  BY <1>4, <1>6, <1>7

\* No counter is there at first.
LEMMA RateInit == T!Init => RateInv
<1> SUFFICES ASSUME T!Init PROVE RateInv
  BY Zenon
<1>1. RateType
  <2>1. 0 \in 0 .. Window /\ 0 \in 0 .. MaxCount
    BY ServicesAssumption
  <2>2. QED
    BY <2>1 DEF T!Init, RateType, Counters
<1>2. \A k \in Counters : HitsOK(counter[k], ttl[k], hits[k])
  BY DEF T!Init, HitsOK, Counters
<1>3. ASSUME NEW k \in Counters PROVE PassedOK(counter[k], ttl[k], passed[k])
  <2>1. counter[k] = 0 /\ passed[k] = {}
    BY Zenon DEF T!Init, Counters
  <2>2. Opened(-1, counter[k], ttl[k], passed[k])
    BY <2>1 DEF Opened
  <2>3. QED
    BY <2>2 DEF PassedOK
<1>4. QED
  BY Zenon, <1>1, <1>2, <1>3 DEF RateInv

\* A hit is the counter's next number; the first one opens a window.
LEMMA HitPassed ==
    ASSUME NEW n \in Nat, NEW t \in 0 .. Window, NEW u \in 0 .. Window,
           NEW p \in SUBSET ((0 .. Window - 1) \X (1 .. Limit)), NEW q \in SUBSET ((0 .. Window - 1) \X (1 .. Limit)),
           u = (IF n = 0 \/ t = 0 THEN Window ELSE t),
           q = IF n + 1 <= Limit THEN p \cup {<<0, n + 1>>} ELSE p, PassedOK(n, t, p)
    PROVE  PassedOK(n + 1, u, q)
<1>1. PICK b \in Int : Opened(b, n, t, p)
  BY Zenon DEF PassedOK
<1>2. Limit \in Nat /\ Limit > 0 /\ Window \in Nat /\ Window > 0
  BY ServicesAssumption
<1>3. \A x \in q : x[1] \in Nat /\ x[2] \in Nat
  BY <1>2
<1>4. PICK z : z = <<0, n + 1>> /\ z[1] = 0 /\ z[2] = n + 1
  <2> DEFINE z == <<0, n + 1>>
  <2>1. z = <<0, n + 1>> /\ z[1] = 0 /\ z[2] = n + 1
    BY Zenon
  <2>2. QED
    BY Zenon, <2>1
<1>5. q = (IF n + 1 <= Limit THEN p \cup {z} ELSE p)
  BY Zenon, <1>4
<1>6. CASE n = 0
  <2>1. q = p \cup {z} /\ b = -1 /\ \A x \in p : x[1] > 0 /\ x[2] # 1
    BY <1>1, <1>2, <1>3, <1>5, <1>6 DEF Opened
  <2>2. \A x \in q : x = z \/ (x \in p /\ x[1] > 0 /\ ~(x[1] <= 0) /\ ~(x[1] <= b) /\ x[2] # 1)
    BY <1>3, <2>1
  <2>3. \A x, y \in q : (x[1] <= 0 <=> y[1] <= 0) /\ x[2] = y[2] => x = y
    BY <1>1, <1>4, <2>2 DEF Opened
  <2>4. Opened(0, n + 1, u, q)
    BY <1>2, <1>4, <1>6, <2>2, <2>3 DEF Opened
  <2>5. QED
    BY <2>4 DEF PassedOK
<1>7. CASE n > 0
  <2>1. b >= 0 /\ (t > 0 => b >= Window - t)
    BY Zenon, <1>1, <1>7 DEF Opened
  <2>2. \A x \in q : x \in p \/ x = z
    BY Zenon, <1>5
  <2>3. \A x \in p : x[1] <= b => x[2] <= n /\ x[2] # n + 1 /\ (x[2] = 1 => x[1] = b)
    BY <1>1, <1>3, <1>5 DEF Opened
  <2>4. z[1] <= b /\ z[2] # 1
    BY <1>4, <1>7, <2>1
  <2>5. \A x, y \in q : (x[1] <= b <=> y[1] <= b) /\ x[2] = y[2] => x = y
    BY <1>1, <1>4, <2>2, <2>3, <2>4 DEF Opened
  <2>6. \A x \in q : x[1] <= b => x[2] <= n + 1 /\ (x[2] = 1 => x[1] = b)
    BY <1>3, <1>4, <2>2, <2>3, <2>4
  <2>7. \A x \in q : x[1] > b => x[2] # 1
    BY Zenon, <1>1, <2>2, <2>4 DEF Opened
  <2>8. u > 0 => b >= Window - u
    BY <1>2, <1>7, <2>1
  <2>9. Opened(b, n + 1, u, q)
    BY <2>1, <2>5, <2>6, <2>7, <2>8 DEF Opened
  <2>10. QED
    BY Zenon, <2>9 DEF PassedOK
<1>8. QED
  BY <1>6, <1>7

\* The script's increment keeps what the counter counts.
LEMMA HitCounted ==
    ASSUME NEW n \in Nat, NEW t \in 0 .. Window, NEW u \in 0 .. Window, NEW h, NEW g,
           u = (IF n = 0 \/ t = 0 THEN Window ELSE t), g = h \cup {<<0, n + 1>>}, HitsOK(n, t, h)
    PROVE  HitsOK(n + 1, u, g)
<1>1. Window \in Nat /\ Window > 0
  BY ServicesAssumption
<1>2. u > 0 /\ (n > 0 => u = t)
  BY <1>1 DEF HitsOK
<1>3. ASSUME NEW i \in 1 .. n + 1 PROVE \E a \in 0 .. Window - u : <<a, i>> \in g
  <2>1. CASE i = n + 1
    BY <1>1, <1>2, <2>1
  <2>2. CASE i \in 1 .. n
    <3>1. PICK a \in 0 .. Window - t : <<a, i>> \in h
      BY <2>2 DEF HitsOK
    <3>2. u = t
      BY <1>2, <2>2
    <3>3. QED
      BY Zenon, <3>1, <3>2
  <2>3. QED
    BY <2>1, <2>2
<1>4. QED
  BY Zenon, <1>2, <1>3 DEF HitsOK

\* One more element in the set of one key.
LEMMA OneMore ==
    ASSUME NEW D, NEW S, NEW f \in [D -> SUBSET S], NEW k \in D, NEW x \in S
    PROVE  LET g == [f EXCEPT ![k] = @ \cup {x}]
           IN  /\ g \in [D -> SUBSET S] /\ g[k] = f[k] \cup {x}
               /\ \A c \in D \ {k} : g[c] = f[c]
<1>1. PICK y : y \in SUBSET S /\ y = f[k] \cup {x}
  BY Zenon
<1>2. PICK B : B = SUBSET S
  BY Zenon
<1>3. [f EXCEPT ![k] = y] \in [D -> B]
  BY Zenon, <1>1, <1>2
<1>4. QED
  BY Zenon, <1>1, <1>2, <1>3

\* checkRateLimit.
LEMMA RateHit ==
    ASSUME RateInv, NEW r \in Visit, T!Hit(r)
    PROVE  RateInv'
<1>1. PICK k \in Counters : k = Head(limitReq[r]) /\ limitReq[r] # <<>> /\ Tail(limitReq[r]) \in Seq(Counters)
  BY DEF RateInv, RateType, T!Hit
<1>2. PICK n \in Nat : n = counter[k]
  BY ServicesAssumption DEF RateInv, RateType
<1>3. PICK t \in 0 .. Window : t = ttl[k]
  BY Zenon DEF RateInv, RateType
<1>4. Window \in Nat /\ Window > 0 /\ Limit \in Nat /\ Limit > 0 /\ MaxCount \in Nat
  BY ServicesAssumption
<1>5. PICK u \in 0 .. Window : u = IF n = 0 \/ t = 0 THEN Window ELSE t
  BY <1>4
<1>6. PICK m \in Nat : m = n + 1
  OBVIOUS
<1>7. /\ n < MaxCount
      /\ counter' = [counter EXCEPT ![k] = m]
      /\ ttl' = [ttl EXCEPT ![k] = u]
      /\ hits' = [hits EXCEPT ![k] = @ \cup {<<0, m>>}]
      /\ passed' = IF m <= Limit THEN [passed EXCEPT ![k] = @ \cup {<<0, m>>}] ELSE passed
      /\ limitReq' = [limitReq EXCEPT ![r] = IF m <= Limit THEN Tail(@) ELSE <<>>]
      /\ lost' = lost
  BY Zenon, <1>1, <1>2, <1>3, <1>5, <1>6 DEF T!Hit, T!Pexpire, T!Allowed
<1>8. /\ counter' \in [Counters -> 0 .. MaxCount] /\ counter'[k] = m /\ \A c \in Counters \ {k} : counter'[c] = counter[c]
      /\ ttl' \in [Counters -> 0 .. Window] /\ ttl'[k] = u /\ \A c \in Counters \ {k} : ttl'[c] = ttl[c]
  <2>1. m \in 0 .. MaxCount
    BY <1>4, <1>6, <1>7
  <2>2. QED
    BY Zenon, <1>7, <2>1 DEF RateInv, RateType
<1>9. <<0, m>> \in (0 .. Window - 1) \X (1 .. MaxCount) /\ (m <= Limit => <<0, m>> \in (0 .. Window - 1) \X (1 .. Limit))
  BY <1>4, <1>6, <1>7
<1>10. /\ hits' \in [Counters -> SUBSET ((0 .. Window - 1) \X (1 .. MaxCount))]
       /\ hits'[k] = hits[k] \cup {<<0, m>>} /\ \A c \in Counters \ {k} : hits'[c] = hits[c]
  BY Zenon, <1>7, <1>9, OneMore DEF RateInv, RateType
<1>11. /\ passed' \in [Counters -> SUBSET ((0 .. Window - 1) \X (1 .. Limit))]
       /\ passed'[k] = (IF m <= Limit THEN passed[k] \cup {<<0, m>>} ELSE passed[k])
       /\ \A c \in Counters \ {k} : passed'[c] = passed[c]
  <2>1. CASE m <= Limit
    BY Zenon, <1>7, <1>9, <2>1, OneMore DEF RateInv, RateType
  <2>2. CASE ~(m <= Limit)
    BY Zenon, <1>7, <2>2 DEF RateInv, RateType
  <2>3. QED
    BY Zenon, <2>1, <2>2
<1>12. limitReq' \in [Visit -> Seq(Counters)]
  BY <1>1, <1>7 DEF RateInv, RateType
<1>13. RateType'
  BY Zenon, <1>8, <1>10, <1>11, <1>12 DEF RateType
<1>14. ASSUME NEW c \in Counters \ lost PROVE HitsOK(counter'[c], ttl'[c], hits'[c])
  <2>1. HitsOK(counter[c], ttl[c], hits[c])
    BY Zenon DEF RateInv
  <2>2. CASE c = k
    <3>1. HitsOK(n, t, hits[k]) /\ hits'[k] = hits[k] \cup {<<0, n + 1>>}
      BY Zenon, <1>2, <1>3, <1>6, <1>10, <2>1, <2>2
    <3>2. HitsOK(n + 1, u, hits'[k])
      BY Zenon, <1>5, <3>1, HitCounted
    <3>3. QED
      BY Zenon, <1>6, <1>8, <2>2, <3>2
  <2>3. QED
    BY Zenon, <1>8, <1>10, <2>1, <2>2
<1>15. ASSUME NEW c \in Counters PROVE PassedOK(counter'[c], ttl'[c], passed'[c])
  <2>1. PassedOK(counter[c], ttl[c], passed[c])
    BY Zenon DEF RateInv
  <2>2. CASE c = k
    <3>1. passed[k] \in SUBSET ((0 .. Window - 1) \X (1 .. Limit)) /\ passed'[k] \in SUBSET ((0 .. Window - 1) \X (1 .. Limit))
      BY Zenon, <1>11 DEF RateInv, RateType
    <3>2. passed'[k] = (IF n + 1 <= Limit THEN passed[k] \cup {<<0, n + 1>>} ELSE passed[k])
      BY Zenon, <1>6, <1>11
    <3>3. PassedOK(n, t, passed[k])
      BY Zenon, <1>2, <1>3, <2>1, <2>2
    <3>4. PassedOK(n + 1, u, passed'[k])
      BY Zenon, <1>5, <3>1, <3>2, <3>3, HitPassed
    <3>5. QED
      BY Zenon, <1>6, <1>8, <2>2, <3>4
  <2>3. QED
    BY Zenon, <1>8, <1>11, <2>1, <2>2
<1>16. QED
  BY Zenon, <1>7, <1>13, <1>14, <1>15 DEF RateInv

\* A tick: hits age, and those of Window ticks ago are forgotten.
Aged(h) == {<<p[1] + 1, p[2]>> : p \in {q \in h : q[1] + 1 < Window}}

\* What is in an aged set was a tick younger.
LEMMA AgedIs ==
    ASSUME NEW m \in Nat, NEW h \in SUBSET ((0 .. Window - 1) \X (1 .. m))
    PROVE  /\ Aged(h) \in SUBSET ((0 .. Window - 1) \X (1 .. m))
           /\ \A x \in Aged(h) : \E y \in h : x = <<y[1] + 1, y[2]>> /\ y[1] + 1 < Window
           /\ \A a \in Nat, i \in 1 .. m : <<a, i>> \in h /\ a + 1 < Window => <<a + 1, i>> \in Aged(h)
<1>1. Window \in Nat
  BY Zenon, ServicesAssumption
<1>2. \A y \in h : y[1] \in 0 .. Window - 1 /\ y[2] \in 1 .. m
  BY Zenon
<1>3. \A x \in Aged(h) : \E y \in h : x = <<y[1] + 1, y[2]>> /\ y[1] + 1 < Window
  BY Zenon DEF Aged
<1>4. ASSUME NEW x \in Aged(h) PROVE x \in (0 .. Window - 1) \X (1 .. m)
  <2>1. PICK y \in h : x = <<y[1] + 1, y[2]>> /\ y[1] + 1 < Window
    BY Zenon, <1>3
  <2>2. y[1] + 1 \in 0 .. Window - 1 /\ y[2] \in 1 .. m
    BY <1>1, <1>2, <2>1
  <2>3. QED
    BY Zenon, <2>1, <2>2
<1>5. ASSUME NEW a \in Nat, NEW i \in 1 .. m, <<a, i>> \in h, a + 1 < Window PROVE <<a + 1, i>> \in Aged(h)
  <2> DEFINE y == <<a, i>>
  <2>1. y \in {q \in h : q[1] + 1 < Window} /\ <<y[1] + 1, y[2]>> = <<a + 1, i>>
    BY Zenon, <1>5
  <2> HIDE DEF y
  <2>2. QED
    BY Zenon, <2>1 DEF Aged
<1>6. QED
  BY Zenon, <1>3, <1>4, <1>5

\* A window that ends leaves hits of one window, without the first.
LEMMA TickPassed ==
    ASSUME NEW n \in Nat, NEW t \in 0 .. Window, NEW p \in SUBSET ((0 .. Window - 1) \X (1 .. Limit)),
           PassedOK(n, t, p)
    PROVE  PassedOK(IF t = 1 THEN 0 ELSE n, IF t = 0 THEN 0 ELSE t - 1, Aged(p))
<1>1. PICK b \in Int : Opened(b, n, t, p)
  BY Zenon DEF PassedOK
<1>2. Limit \in Nat /\ Window \in Nat /\ Window > 0
  BY ServicesAssumption
<1>3. \A x \in Aged(p) : \E y \in p : x = <<y[1] + 1, y[2]>> /\ y[1] + 1 < Window
  BY Zenon, <1>2, AgedIs
<1>4. \A y \in p : y[1] \in Nat /\ y[2] \in Nat /\ y = <<y[1], y[2]>>
  BY <1>2
<1>5. PICK c \in Int : c = IF t = 1 \/ n = 0 THEN -1 ELSE b + 1
  OBVIOUS
<1>6. ASSUME NEW x \in Aged(p), NEW y \in p, x = <<y[1] + 1, y[2]>>, y[1] + 1 < Window
      PROVE  /\ x[1] > 0 /\ x[1] = y[1] + 1 /\ x[2] = y[2]
             /\ t = 1 /\ n > 0 => y[1] <= b /\ y[1] # b
             /\ n = 0 => ~(y[1] <= b)
             /\ t # 1 /\ n > 0 => (x[1] <= c <=> y[1] <= b)
  BY <1>1, <1>2, <1>4, <1>5, <1>6 DEF Opened
<1>7. \A x \in Aged(p) : x[1] <= c => x[2] <= (IF t = 1 THEN 0 ELSE n) /\ (x[2] = 1 => x[1] = c)
  <2> SUFFICES ASSUME NEW x \in Aged(p), x[1] <= c PROVE t # 1 /\ x[2] <= n /\ (x[2] = 1 => x[1] = c)
    BY Zenon
  <2>1. PICK y \in p : x = <<y[1] + 1, y[2]>> /\ y[1] + 1 < Window
    BY Zenon, <1>3
  <2>2. x[1] > 0 /\ x[1] = y[1] + 1 /\ x[2] = y[2] /\ (t # 1 /\ n > 0 => (x[1] <= c <=> y[1] <= b))
    BY Zenon, <1>6, <2>1
  <2>3. t # 1 /\ n > 0 /\ c = b + 1
    BY <1>4, <1>5, <2>2
  <2>4. QED
    BY Zenon, <1>1, <2>2, <2>3 DEF Opened
<1>8. \A x \in Aged(p) : x[1] > c => x[2] # 1
  <2> SUFFICES ASSUME NEW x \in Aged(p), x[1] > c PROVE x[2] # 1
    BY Zenon
  <2>1. PICK y \in p : x = <<y[1] + 1, y[2]>> /\ y[1] + 1 < Window
    BY Zenon, <1>3
  <2>2. /\ x[1] > 0 /\ x[1] = y[1] + 1 /\ x[2] = y[2]
        /\ t = 1 /\ n > 0 => y[1] <= b /\ y[1] # b
        /\ n = 0 => ~(y[1] <= b)
        /\ t # 1 /\ n > 0 => (x[1] <= c <=> y[1] <= b)
    BY Zenon, <1>6, <2>1
  <2>3. y[1] \in Nat
    BY Zenon, <1>4
  <2>4. y[1] <= b => y[1] # b
    BY <1>5, <2>2, <2>3
  <2>5. QED
    BY <1>1, <2>2, <2>3, <2>4 DEF Opened
<1>9. ASSUME NEW x \in Aged(p), NEW z \in Aged(p), x[1] <= c <=> z[1] <= c, x[2] = z[2] PROVE x = z
  <2>1. PICK y \in p : x = <<y[1] + 1, y[2]>> /\ y[1] + 1 < Window
    BY Zenon, <1>3
  <2>2. PICK w \in p : z = <<w[1] + 1, w[2]>> /\ w[1] + 1 < Window
    BY Zenon, <1>3
  <2>3. y[1] <= b <=> w[1] <= b
    BY <1>6, <1>9, <2>1, <2>2
  <2>4. y[2] = w[2]
    BY Zenon, <1>9, <2>1, <2>2
  <2>5. y = w
    BY Zenon, <1>1, <2>3, <2>4 DEF Opened
  <2>6. QED
    BY Zenon, <2>1, <2>2, <2>5
<1>10. \A x \in Aged(p) : x[1] > 0
  BY Zenon, <1>3, <1>6
<1>11. CASE t = 1
  <2>1. Opened(c, 0, 0, Aged(p))
    BY <1>5, <1>7, <1>8, <1>9, <1>10, <1>11 DEF Opened
  <2>2. QED
    BY <1>11, <2>1 DEF PassedOK
<1>12. CASE t # 1
  <2> DEFINE s == IF t = 0 THEN 0 ELSE t - 1
  <2>1. n > 0 => c >= 0 /\ (s > 0 => c >= Window - s)
    BY <1>1, <1>2, <1>5, <1>12 DEF Opened
  <2> HIDE DEF s
  <2>2. n = 0 => c = -1
    BY Zenon, <1>5
  <2>3. Opened(c, n, s, Aged(p))
    BY Zenon, <1>7, <1>8, <1>9, <1>10, <1>12, <2>1, <2>2 DEF Opened
  <2>4. QED
    BY Zenon, <1>12, <2>3 DEF PassedOK, s
<1>13. QED
  BY Zenon, <1>11, <1>12

\* What a counter counts leaves the last Window ticks only when the key goes.
LEMMA TickCounted ==
    ASSUME NEW n \in 0 .. MaxCount, NEW t \in 0 .. Window, NEW h \in SUBSET ((0 .. Window - 1) \X (1 .. MaxCount)),
           HitsOK(n, t, h), t # 1
    PROVE  HitsOK(n, IF t = 0 THEN 0 ELSE t - 1, Aged(h))
<1> SUFFICES ASSUME n > 0 PROVE HitsOK(n, IF t = 0 THEN 0 ELSE t - 1, Aged(h))
  BY Zenon DEF HitsOK
<1>1. Window \in Nat /\ MaxCount \in Nat
  BY Zenon, ServicesAssumption
<1>2. t > 1
  BY <1>1 DEF HitsOK
<1>3. ASSUME NEW i \in 1 .. n PROVE \E a \in 0 .. Window - (t - 1) : <<a, i>> \in Aged(h)
  <2>1. PICK a \in 0 .. Window - t : <<a, i>> \in h
    BY Zenon DEF HitsOK
  <2>2. a \in Nat /\ a + 1 < Window /\ a + 1 \in 0 .. Window - (t - 1) /\ i \in 1 .. MaxCount
    BY <1>1, <1>2
  <2>3. <<a + 1, i>> \in Aged(h)
    BY Zenon, <1>1, <2>1, <2>2, AgedIs
  <2>4. QED
    BY Zenon, <2>2, <2>3
<1>4. QED
  BY <1>1, <1>2, <1>3 DEF HitsOK


\* Tick ages every counter's hits.
LEMMA RateTick == ASSUME RateInv, T!Tick PROVE RateInv'
<1>1. Window \in Nat /\ Window > 0 /\ Limit \in Nat /\ MaxCount \in Nat
  BY ServicesAssumption
<1>2. \A k \in Counters : T!Older(hits)[k] = Aged(hits[k]) /\ T!Older(passed)[k] = Aged(passed[k])
  BY Zenon DEF T!Older, Aged, Counters
<1>3. \A k \in Counters :
        /\ counter'[k] = (IF ttl[k] = 1 THEN 0 ELSE counter[k])
        /\ ttl'[k] = (IF ttl[k] = 0 THEN 0 ELSE ttl[k] - 1)
        /\ hits'[k] = Aged(hits[k]) /\ passed'[k] = Aged(passed[k])
  BY Zenon, <1>2 DEF T!Tick, Counters
<1>4. RateType'
  <2>1. counter' \in [Counters -> 0 .. MaxCount] /\ ttl' \in [Counters -> 0 .. Window]
    BY <1>1 DEF T!Tick, RateInv, RateType, Counters
  <2>2. hits' = [k \in Counters |-> hits'[k]] /\ passed' = [k \in Counters |-> passed'[k]]
    BY Zenon DEF T!Tick, T!Older, Counters
  <2>3. ASSUME NEW k \in Counters
        PROVE  /\ hits'[k] \in SUBSET ((0 .. Window - 1) \X (1 .. MaxCount))
               /\ passed'[k] \in SUBSET ((0 .. Window - 1) \X (1 .. Limit))
    <3>1. /\ hits[k] \in SUBSET ((0 .. Window - 1) \X (1 .. MaxCount))
          /\ passed[k] \in SUBSET ((0 .. Window - 1) \X (1 .. Limit))
      BY Zenon DEF RateInv, RateType
    <3>2. /\ Aged(hits[k]) \in SUBSET ((0 .. Window - 1) \X (1 .. MaxCount))
          /\ Aged(passed[k]) \in SUBSET ((0 .. Window - 1) \X (1 .. Limit))
      BY Zenon, <1>1, <3>1, AgedIs
    <3>3. QED
      BY Zenon, <1>3, <3>2
  <2>4. limitReq' \in [Visit -> Seq(Counters)]
    BY Zenon DEF T!Tick, RateInv, RateType
  <2>5. QED
    BY Zenon, <2>1, <2>2, <2>3, <2>4 DEF RateType
<1>5. ASSUME NEW k \in Counters \ lost' PROVE HitsOK(counter'[k], ttl'[k], hits'[k])
  <2>1. PICK n \in 0 .. MaxCount : n = counter[k]
    BY Zenon DEF RateInv, RateType
  <2>2. PICK t \in 0 .. Window : t = ttl[k]
    BY Zenon DEF RateInv, RateType
  <2>3. CASE t = 1
    <3>1. counter'[k] = 0
      BY Zenon, <1>3, <2>2, <2>3
    <3>2. QED
      BY <3>1 DEF HitsOK
  <2>4. CASE t # 1
    <3>1. k \notin lost
      BY Zenon, <2>2, <2>4 DEF T!Tick
    <3>2. HitsOK(n, t, hits[k]) /\ hits[k] \in SUBSET ((0 .. Window - 1) \X (1 .. MaxCount))
      BY Zenon, <2>1, <2>2, <3>1 DEF RateInv, RateType
    <3>3. HitsOK(n, IF t = 0 THEN 0 ELSE t - 1, Aged(hits[k]))
      BY Zenon, <2>4, <3>2, TickCounted
    <3>4. QED
      BY Zenon, <1>3, <2>1, <2>2, <2>4, <3>3
  <2>5. QED
    BY Zenon, <2>3, <2>4
<1>6. ASSUME NEW k \in Counters PROVE PassedOK(counter'[k], ttl'[k], passed'[k])
  <2>1. PICK n \in Nat : n = counter[k]
    BY <1>1 DEF RateInv, RateType
  <2>2. PICK t \in 0 .. Window : t = ttl[k]
    BY Zenon DEF RateInv, RateType
  <2>3. PassedOK(n, t, passed[k]) /\ passed[k] \in SUBSET ((0 .. Window - 1) \X (1 .. Limit))
    BY Zenon, <2>1, <2>2 DEF RateInv, RateType
  <2>4. PassedOK(IF t = 1 THEN 0 ELSE n, IF t = 0 THEN 0 ELSE t - 1, Aged(passed[k]))
    BY Zenon, <2>3, TickPassed
  <2>5. QED
    BY Zenon, <1>3, <2>1, <2>2, <2>4
<1>7. QED
  BY Zenon, <1>4, <1>5, <1>6 DEF RateInv

\* A key that loses its TTL is no longer promised anything of its hits.
LEMMA RateLost == ASSUME RateInv, NEW k \in Counters, T!LoseTtl(k) PROVE RateInv'
<1>1. /\ ttl' = [ttl EXCEPT ![k] = 0] /\ lost' = lost \cup {k}
      /\ counter' = counter /\ limitReq' = limitReq /\ passed' = passed /\ hits' = hits
  BY Zenon DEF T!LoseTtl
<1>2. ttl' \in [Counters -> 0 .. Window] /\ ttl'[k] = 0 /\ \A c \in Counters \ {k} : ttl'[c] = ttl[c]
  BY <1>1, ServicesAssumption DEF RateInv, RateType
<1>3. RateType'
  BY Zenon, <1>1, <1>2 DEF RateInv, RateType
<1>4. ASSUME NEW c \in Counters \ lost' PROVE HitsOK(counter'[c], ttl'[c], hits'[c])
  BY Zenon, <1>1, <1>2 DEF RateInv
<1>5. ASSUME NEW c \in Counters PROVE PassedOK(counter'[c], ttl'[c], passed'[c])
  <2>1. PICK b \in Int : Opened(b, counter[c], ttl[c], passed[c])
    BY Zenon DEF RateInv, PassedOK
  <2>2. Opened(b, counter[c], ttl'[c], passed[c])
    <3>1. CASE c = k
      BY <1>2, <2>1, <3>1 DEF Opened
    <3>2. QED
      BY Zenon, <1>2, <2>1, <3>1
  <2>3. QED
    BY Zenon, <1>1, <2>2 DEF PassedOK
<1>6. QED
  BY Zenon, <1>3, <1>4, <1>5 DEF RateInv

\* The other actions leave the counters alone.
LEMMA RateKept ==
    ASSUME RateInv, UNCHANGED <<counter, ttl, passed, hits, lost>>, limitReq' \in [Visit -> Seq(Counters)]
    PROVE  RateInv'
<1>1. RateType'
  BY Zenon DEF RateInv, RateType
<1>2. QED
  BY Zenon, <1>1 DEF RateInv

\* Every action of RateLimits keeps it.
LEMMA RateStep == ASSUME RateInv, [T!Next]_(T!vars) PROVE RateInv'
<1>1. ASSUME NEW r \in Visit, NEW c \in {<<t, k>> : t \in Throttle, k \in Route}, T!Arrive(r, c) PROVE RateInv'
  <2>1. PICK t \in Counters, k \in Counters : c = <<t, k>>
    BY DEF Counters
  <2>2. c \in Seq(Counters)
    BY <2>1
  <2>3. limitReq' \in [Visit -> Seq(Counters)]
    BY <1>1, <2>2 DEF T!Arrive, RateInv, RateType
  <2>4. QED
    BY <1>1, <2>3, RateKept DEF T!Arrive
<1>2. ASSUME NEW r \in Visit, T!FailOpen(r) PROVE RateInv'
  <2>1. limitReq[r] \in Seq(Counters) /\ limitReq[r] # <<>>
    BY Zenon, <1>2 DEF T!FailOpen, RateInv, RateType
  <2>2. Tail(limitReq[r]) \in Seq(Counters)
    BY <2>1
  <2>3. limitReq' \in [Visit -> Seq(Counters)]
    BY Zenon, <1>2, <2>2 DEF T!FailOpen, RateInv, RateType
  <2>4. QED
    BY Zenon, <1>2, <2>3, RateKept DEF T!FailOpen
<1>3. ASSUME UNCHANGED T!vars PROVE RateInv'
  <2>1. limitReq' \in [Visit -> Seq(Counters)]
    BY Zenon, <1>3 DEF T!vars, RateInv, RateType
  <2>2. QED
    BY Zenon, <1>3, <2>1, RateKept DEF T!vars
<1>4. QED
  BY <1>1, <1>2, <1>3, RateHit, RateLost, RateTick DEF T!Next, Counters

\* At all times the counter, its TTL and the hits of the last Window ticks agree.
THEOREM RateInvTheorem == T!Spec => []RateInv
<1>1. RateInv /\ [T!Next]_(T!vars) => RateInv'
  BY Zenon, RateStep
<1>2. QED
  BY RateInit, <1>1, PTL DEF T!Spec


\* A window of the limiter opens with a hit, and that hit leaves the last Window
\* ticks when the window ends: of the two windows these ticks touch, the earlier
\* one is not there in full.
THEOREM TwiceTheorem == T!Spec => []FewerThanTwice
<1>1. ASSUME RateInv PROVE FewerThanTwice
  <2>1. ASSUME NEW k \in Counters PROVE T!Cardinality(passed[k]) < 2 * Limit
    <3>1. PICK n \in Nat : n = counter[k]
      BY <1>1, ServicesAssumption DEF RateInv, RateType
    <3>2. PICK t \in Nat : t = ttl[k]
      BY <1>1, ServicesAssumption DEF RateInv, RateType
    <3>3. PassedOK(n, t, passed[k]) /\ passed[k] \in SUBSET ((0 .. Window - 1) \X (1 .. Limit))
      BY Zenon, <1>1, <3>1, <3>2 DEF RateInv, RateType
    <3>4. Cardinality(passed[k]) < 2 * Limit
      BY Zenon, <3>3, PassedCount
    <3>5. QED
      BY Zenon, <3>4, CardinalityIs
  <2>2. QED
    BY Zenon, <2>1 DEF FewerThanTwice, T!FewerThanTwice, Counters
<1>2. QED
  BY RateInvTheorem, <1>1, PTL

\* Nobody is refused for a hit that is more than Window ticks old, unless the key
\* had lost its TTL.
THEOREM RecentTheorem == T!Spec => []CountIsRecent
<1>1. ASSUME RateInv PROVE CountIsRecent
  <2>1. ASSUME NEW k \in Counters \ lost PROVE counter[k] <= T!Cardinality(hits[k])
    <3>1. PICK n \in Nat : n = counter[k]
      BY <1>1, ServicesAssumption DEF RateInv, RateType
    <3>2. PICK t \in Nat : t = ttl[k]
      BY <1>1, ServicesAssumption DEF RateInv, RateType
    <3>3. HitsOK(n, t, hits[k]) /\ hits[k] \in SUBSET ((0 .. Window - 1) \X (1 .. MaxCount))
      BY Zenon, <1>1, <3>1, <3>2 DEF RateInv, RateType
    <3>4. IsFiniteSet(hits[k])
      <4>1. Window - 1 \in Int /\ MaxCount \in Int
        BY ServicesAssumption
      <4>2. IsFiniteSet(0 .. Window - 1)
        BY <4>1, FS_Interval
      <4>3. IsFiniteSet(1 .. MaxCount)
        BY <4>1, FS_Interval
      <4>4. IsFiniteSet((0 .. Window - 1) \X (1 .. MaxCount))
        BY Zenon, <4>2, <4>3, FS_Product
      <4>5. QED
        BY Zenon, <3>3, <4>4, FS_Subset
    <3>5. n <= Cardinality(hits[k])
      BY Zenon, <3>3, <3>4, HitsCount
    <3>6. QED
      BY Zenon, <3>1, <3>5, CardinalityIs
  <2>2. QED
    BY Zenon, <2>1 DEF CountIsRecent, T!CountIsRecent, Counters
<1>2. QED
  BY RateInvTheorem, <1>1, PTL
=============================================================================
