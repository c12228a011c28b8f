------------------------------ MODULE Reactions ------------------------------
(***************************************************************************)
(* The reactions to one message: reactions.service.ts, with the part of    *)
(* deleteMessage (messages.service.ts) that clears them.                   *)
(*                                                                         *)
(* A Request is one call being served.  A statement locks the rows it      *)
(* deletes until its transaction ends; another statement that touches them *)
(* waits, and then goes on with the rows it saw when it began (READ        *)
(* COMMITTED).  An insert shares only the key of the message row, which    *)
(* the UPDATE of deleteMessage does not touch, so the two do not wait for  *)
(* each other.  view is what a member who reacts to nothing and applies    *)
(* every broadcast would show: a sender is left out of their own.          *)
(***************************************************************************)
EXTENDS Integers

CONSTANTS
    User,       \* members of the channel
    Emoji,
    Request,    \* calls served at once
    MaxCalls,   \* bound: calls served in all
    None

VARIABLES
    reactions,  \* the reactions table: <<user, emoji>>
    deleted,    \* messages.isDeleted
    lock,       \* advisory lock (message, user)
    req,        \* calls in flight
    calls,      \* calls so far
    view,       \* what the broadcasts add up to
    late,       \* history: reactions of the calls that overlapped a deletion
    crossed     \* history: users with two broadcasts in flight

vars == <<reactions, deleted, lock, req, calls, view, late, crossed>>

\* out: the rows a DELETE saw, then those it deleted and has not yet committed,
\* then those to announce as removed.
Idle == [op |-> "idle", pc |-> "idle", user |-> None, emoji |-> None, out |-> {}, in |-> {}]

Init ==
    /\ reactions = {}
    /\ deleted = FALSE
    /\ lock = [u \in User |-> None]
    /\ req = [r \in Request |-> Idle]
    /\ calls = 0
    /\ view = {}
    /\ late = {}
    /\ crossed = {}

\* loadTarget: the message exists and the caller is a member.
Begin(r, op, u, e, pc) ==
    /\ req[r] = Idle
    /\ calls < MaxCalls
    /\ calls' = calls + 1
    /\ req' = [req EXCEPT ![r] = [Idle EXCEPT !.op = op, !.pc = pc, !.user = u, !.emoji = e]]

\* Rows that an open transaction has deleted.
Locked == UNION {req[r].out : r \in {q \in Request : req[q].pc = "commit"}}

Of(u) == {x \in reactions : x[1] = u}

\* A change of u commits while an earlier one's broadcast is still to come.
Cross(r, u) ==
    crossed' = IF \E q \in Request \ {r} : req[q].user = u /\ req[q].pc = "announce"
               THEN crossed \cup {u} ELSE crossed

\* A deletion whose DELETE has begun.
Sweeping(r) == req[r].op = "delete" /\ req[r].pc \in {"wait", "commit"}

-----------------------------------------------------------------------------
\* addReaction.
AddBegin(r, u, e) ==
    /\ ~deleted
    /\ Begin(r, "add", u, e, "lock")
    /\ late' = IF \E q \in Request : Sweeping(q) THEN late \cup {<<u, e>>} ELSE late
    /\ UNCHANGED <<reactions, deleted, lock, view, crossed>>

\* Mutant: no advisory lock.
AddUnlocked(r) ==
    /\ req[r].pc = "lock"
    /\ req' = [req EXCEPT ![r].pc = "replace"]
    /\ UNCHANGED <<reactions, deleted, lock, calls, view, late, crossed>>

AddLock(r) ==
    /\ req[r].pc = "lock"
    /\ lock[req[r].user] = None
    /\ lock' = [lock EXCEPT ![req[r].user] = r]
    /\ req' = [req EXCEPT ![r].pc = "replace"]
    /\ UNCHANGED <<reactions, deleted, calls, view, late, crossed>>

\* The DELETE of the user's other emojis.
AddReplace(r) ==
    LET other == Of(req[r].user) \ {<<req[r].user, req[r].emoji>>}
    IN  /\ req[r].pc = "replace"
        /\ other \cap Locked = {}
        /\ req' = [req EXCEPT ![r].pc = "commit", ![r].out = other]
        /\ UNCHANGED <<reactions, deleted, lock, calls, view, late, crossed>>

\* The INSERT, which a row already there turns into nothing, and the commit.
AddCommit(r) ==
    LET u == req[r].user row == <<u, req[r].emoji>>
    IN  /\ req[r].op = "add" /\ req[r].pc = "commit"
        /\ row \notin Locked
        /\ reactions' = (reactions \ req[r].out) \cup {row}
        /\ lock' = [lock EXCEPT ![u] = None]
        /\ req' = [req EXCEPT ![r].pc = "announce", ![r].in = {row} \ reactions]
        /\ Cross(r, u)
        /\ UNCHANGED <<deleted, calls, view, late>>

\* reaction:removed and reaction:added, as a member applies them.
Broadcast(out, in) == (view \ out) \cup in

\* Mutant: the replaced emoji is not announced.
AnnounceAddedOnly(r) ==
    /\ req[r].pc = "announce"
    /\ view' = IF req[r].op = "delete" THEN {} ELSE Broadcast({}, req[r].in)
    /\ req' = [req EXCEPT ![r] = Idle]
    /\ UNCHANGED <<reactions, deleted, lock, calls, late, crossed>>

\* First what was replaced or removed, then what was added; after a deletion
\* message:deleted.
Announce(r) ==
    /\ req[r].pc = "announce"
    /\ view' = IF req[r].op = "delete" THEN {} ELSE Broadcast(req[r].out, req[r].in)
    /\ req' = [req EXCEPT ![r] = Idle]
    /\ UNCHANGED <<reactions, deleted, lock, calls, late, crossed>>

-----------------------------------------------------------------------------
\* removeReaction: one DELETE, without the advisory lock.
RemoveBegin(r, u, e) ==
    /\ Begin(r, "remove", u, e, "remove")
    /\ UNCHANGED <<reactions, deleted, lock, view, late, crossed>>

RemoveRow(r) ==
    LET u == req[r].user row == <<u, req[r].emoji>>
    IN  /\ req[r].pc = "remove"
        /\ row \notin Locked
        /\ reactions' = reactions \ {row}
        /\ req' = [req EXCEPT ![r] = IF row \in reactions
                                     THEN [@ EXCEPT !.pc = "announce", !.out = {row}]
                                     ELSE Idle]
        /\ Cross(r, u)
        /\ UNCHANGED <<deleted, lock, calls, view, late>>

-----------------------------------------------------------------------------
\* deleteMessage: it finds the message undeleted; its transaction updates the row
\* (one such transaction at a time), deletes the reactions it sees and commits.
DeleteBegin(r) ==
    /\ ~deleted
    /\ Begin(r, "delete", None, None, "update")
    /\ UNCHANGED <<reactions, deleted, lock, view, late, crossed>>

\* The UPDATE, and the DELETE begins: it will not see what is inserted from here
\* on, by the calls that have yet to commit.
DeleteSee(r) ==
    /\ req[r].pc = "update"
    /\ \A q \in Request : ~Sweeping(q)
    /\ req' = [req EXCEPT ![r].pc = "wait", ![r].out = reactions]
    /\ late' = late \cup {<<req[q].user, req[q].emoji>> : q \in
                  {p \in Request : req[p].op = "add" /\ req[p].pc # "announce"}}
    /\ UNCHANGED <<reactions, deleted, lock, calls, view, crossed>>

\* It waits for the rows that others have deleted and takes those that are left.
DeleteSweep(r) ==
    /\ req[r].pc = "wait"
    /\ req[r].out \cap Locked = {}
    /\ req' = [req EXCEPT ![r].pc = "commit", ![r].out = @ \cap reactions]
    /\ UNCHANGED <<reactions, deleted, lock, calls, view, late, crossed>>

\* Mutant: the reactions stay.
DeleteKeeps(r) ==
    /\ req[r].op = "delete" /\ req[r].pc = "commit"
    /\ deleted' = TRUE
    /\ req' = [req EXCEPT ![r].pc = "announce"]
    /\ UNCHANGED <<reactions, lock, calls, view, late, crossed>>

DeleteCommit(r) ==
    /\ req[r].op = "delete" /\ req[r].pc = "commit"
    /\ deleted' = TRUE
    /\ reactions' = reactions \ req[r].out
    /\ req' = [req EXCEPT ![r].pc = "announce"]
    /\ UNCHANGED <<lock, calls, view, late, crossed>>

-----------------------------------------------------------------------------
Next ==
    \E r \in Request :
        \/ \E u \in User, e \in Emoji : AddBegin(r, u, e) \/ RemoveBegin(r, u, e)
        \/ AddLock(r) \/ AddReplace(r) \/ AddCommit(r)
        \/ RemoveRow(r) \/ Announce(r)
        \/ DeleteBegin(r) \/ DeleteSee(r) \/ DeleteSweep(r) \/ DeleteCommit(r)

Spec == Init /\ [][Next]_vars

-----------------------------------------------------------------------------
TypeOK ==
    /\ reactions \subseteq User \X Emoji
    /\ view \subseteq User \X Emoji
    /\ deleted \in BOOLEAN
    /\ lock \in [User -> Request \cup {None}]

\* addReaction: one reaction per user, although two devices toggle at once and
\* removeReaction takes no lock.
OneReactionPerUser ==
    \A x, y \in reactions : x[1] = y[1] => x = y

\* deleteMessage clears the reactions and addReaction refuses a deleted message,
\* but looks before its transaction: the one reaction that can be left is that of
\* a call which had yet to commit when the DELETE began, or began during it.
DeletedHasNone ==
    deleted => reactions \subseteq late

\* The broadcasts of reactions.service.ts add up to the table: with no call in
\* flight a client that applied them shows every user's reaction, except of a
\* user who changed it again before the first change was announced.
ViewIsTable ==
    (\A r \in Request : req[r] = Idle) /\ ~deleted
        => \A u \in User \ crossed : {x \in view : x[1] = u} = Of(u)
=============================================================================
