-------------------------------- MODULE Keys --------------------------------
(***************************************************************************)
(* keys.service.ts: the sender keys one owner uploads for one group and    *)
(* epoch, and the rotation of a user's own keys.                           *)
(*                                                                         *)
(* An upload deletes the owner's rows of the epoch and inserts its own in  *)
(* one READ COMMITTED transaction: its DELETE sees the rows committed when *)
(* it starts, waits for a transaction that has deleted one of them, and    *)
(* does not see what that one inserts.  (group, owner, receiver, epoch) is *)
(* unique: an INSERT that meets a committed row fails with 23505.          *)
(***************************************************************************)
EXTENDS Integers, FiniteSets

CONSTANTS
    Receiver,    \* members of the group
    Upload,      \* calls of uploadSenderKeys, each made once
    MaxVersion   \* bound: key versions

VARIABLES
    stored,      \* sender_keys: receiver -> the upload its row is of, 0 none
    up,          \* uploads: pc, receivers sent, rows deleted
    overlapped,  \* history: pairs of uploads that overlapped
    version      \* users.keyVersion

vars == <<stored, up, overlapped, version>>

Init ==
    /\ stored = [u \in Receiver |-> 0]
    /\ up = [i \in Upload |-> [pc |-> "idle", sent |-> {}, out |-> {}]]
    /\ overlapped = {}
    /\ version = 1

\* The receivers are distinct and, like the owner, members.
UploadBegin(i, R) ==
    /\ up[i].pc = "idle"
    /\ R # {}
    /\ up' = [up EXCEPT ![i] = [pc |-> "delete", sent |-> R, out |-> {}]]
    /\ UNCHANGED <<stored, overlapped, version>>

\* The rows of the table: a receiver and the upload its row is of.
Rows == {<<u, stored[u]>> : u \in {w \in Receiver : stored[w] # 0}}

\* Rows an open transaction other than i's has deleted.
LockedBy(i) == UNION {up[j].out : j \in {k \in Upload \ {i} : up[k].pc = "insert"}}

\* Mutant: only the rows of the new receivers go.
DeleteReceivers(i) ==
    /\ up[i].pc = "delete"
    /\ up' = [up EXCEPT ![i] = [@ EXCEPT !.out = {x \in Rows : x[1] \in up[i].sent},
                                 !.pc = IF Rows \cap LockedBy(i) = {} THEN "insert" ELSE "wait"]]
    /\ UNCHANGED <<stored, overlapped, version>>

UploadDelete(i) ==
    /\ up[i].pc = "delete"
    /\ up' = [up EXCEPT ![i] = [@ EXCEPT !.out = Rows,
                                 !.pc = IF Rows \cap LockedBy(i) = {} THEN "insert" ELSE "wait"]]
    /\ UNCHANGED <<stored, overlapped, version>>

\* The transaction waited for has ended: what it deleted is gone if it committed.
UploadWake(i) ==
    /\ up[i].pc = "wait"
    /\ up[i].out \cap LockedBy(i) = {}
    /\ up' = [up EXCEPT ![i] = [@ EXCEPT !.pc = "insert", !.out = up[i].out \cap Rows]]
    /\ UNCHANGED <<stored, overlapped, version>>

\* The table once i's DELETE and INSERT are applied, and the uploads i overlaps.
Replaced(i) == [u \in Receiver |-> IF u \in up[i].sent THEN i
                                   ELSE IF <<u, stored[u]>> \in up[i].out THEN 0
                                   ELSE stored[u]]

Overlap(i) == {{i, j} : j \in {k \in Upload : up[k].pc \in {"wait", "insert"}}}

\* Mutant: the conflicting rows are overwritten.
InsertUpsert(i) ==
    /\ up[i].pc = "insert"
    /\ up' = [up EXCEPT ![i].pc = "done"]
    /\ stored' = Replaced(i)
    /\ overlapped' = overlapped \cup Overlap(i)
    /\ UNCHANGED version

\* The INSERT and the commit; or a row another upload committed is in the way
\* (the unique index, or the deadlock detector if that row is being deleted) and
\* the transaction rolls back.
UploadInsert(i) ==
    /\ up[i].pc = "insert"
    /\ IF \E x \in Rows \ up[i].out : x[1] \in up[i].sent
       THEN /\ up' = [up EXCEPT ![i] = [@ EXCEPT !.pc = "failed", !.out = {}]]
            /\ UNCHANGED <<stored, overlapped>>
       ELSE /\ up' = [up EXCEPT ![i].pc = "done"]
            /\ stored' = Replaced(i)
            /\ overlapped' = overlapped \cup Overlap(i)
    /\ UNCHANGED version

-----------------------------------------------------------------------------
\* rotateKeys: the version check is part of the UPDATE, which re-evaluates it
\* on the row it waited for.
Rotate(v) ==
    /\ version < v
    /\ version' = v
    /\ UNCHANGED <<stored, up, overlapped>>

Next ==
    \/ \E i \in Upload :
          \/ \E R \in SUBSET Receiver : UploadBegin(i, R)
          \/ UploadDelete(i) \/ UploadWake(i) \/ UploadInsert(i)
    \/ \E v \in 2 .. MaxVersion : Rotate(v)

Spec == Init /\ [][Next]_vars

-----------------------------------------------------------------------------
TypeOK ==
    /\ stored \in [Receiver -> Upload \cup {0}]
    /\ version \in 1 .. MaxVersion
    /\ \A i \in Upload : up[i].sent \subseteq Receiver /\ up[i].out \subseteq Receiver \X Upload

\* uploadSenderKeys stores an upload whole: while one of its rows is there, the
\* rows of all its receivers are, whatever other uploads of the owner overlap.
UploadIsWhole ==
    \A i \in Upload :
        LET mine == {u \in Receiver : stored[u] = i}
        IN  mine # {} => mine = up[i].sent

\* ... and replaces what was there: the rows of two uploads are stored together
\* only if the two overlapped (and had no receiver in common).
UploadReplaces ==
    \A x, y \in Rows : x[2] # y[2] => {x[2], y[2]} \in overlapped
=============================================================================
