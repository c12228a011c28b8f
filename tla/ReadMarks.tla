------------------------------ MODULE ReadMarks ------------------------------
(***************************************************************************)
(* Read watermarks and unread counters of one channel: markRead in         *)
(* channels.service.ts, the sender's own watermark in insertWithSequence,  *)
(* and the counter half of the message-delivery job.                       *)
(*                                                                         *)
(* A message is its sequence number (module Messages shows they are        *)
(* 1, 2, ...); every User is a member.  Postgres runs at READ COMMITTED:   *)
(* an UPDATE that finds its row changed since its snapshot re-checks the   *)
(* WHERE clause on the new row, but a subquery of that clause still reads  *)
(* the other tables as of the snapshot.                                    *)
(***************************************************************************)
EXTENDS Integers, Sequences, FiniteSets

CONSTANTS
    User,
    Call,       \* markRead calls that may be in flight at once
    Before,     \* messages already stored, all from someone else
    MaxMsg,     \* bound: messages in a behaviour
    MaxMarks,   \* bound: markRead calls in a behaviour
    MaxUnread,  \* bound: a stalled job counts again below this only
    Faults      \* "redis": an unread command fails; "stall": a job runs twice;
                \* "crash": a markRead call dies

ASSUME ReadMarksAssumption ==
    /\ Before \in Nat /\ MaxMsg \in Nat /\ Before <= MaxMsg
    /\ MaxMarks \in Nat /\ MaxUnread \in Nat
    /\ Faults \subseteq {"redis", "stall", "crash"}

VARIABLES
    from,       \* the senders of the stored messages
    lastRead,   \* memberships.last_read_message_id, 0 for NULL
    unread,     \* zevra:unread:{userId}:{channelId}
    jobs,       \* messages whose delivery job is not acknowledged yet
    call,       \* markRead calls
    receipts,   \* message_reads, each also emitted as message:read
    unsaid,     \* history: marks whose call died before the receipt
    marks       \* markRead calls begun so far

vars == <<from, lastRead, unread, jobs, call, receipts, unsaid, marks>>

Stranger == "stranger"

NoCall == [pc |-> "idle", user |-> Stranger, target |-> 0, snap |-> 0, advanced |-> FALSE]

Init ==
    /\ from = [i \in 1 .. Before |-> Stranger]
    /\ lastRead = [u \in User |-> 0]
    /\ unread = [u \in User |-> Before]
    /\ jobs = {}
    /\ call = [c \in Call |-> NoCall]
    /\ receipts = {}
    /\ unsaid = {}
    /\ marks = 0
-----------------------------------------------------------------------------
(* Sending                                                                 *)

\* The transaction of insertWithSequence: the message, and the sender's own
\* watermark.  The delivery job follows.
Send(u) ==
    /\ Len(from) < MaxMsg
    /\ from' = Append(from, u)
    /\ lastRead' = [lastRead EXCEPT ![u] = Len(from')]
    /\ jobs' = jobs \cup {Len(from')}
    /\ UNCHANGED <<unread, call, receipts, unsaid, marks>>

\* incrementUnreadMany for every member but the sender, one MULTI.
Increment(m) == unread' = [u \in User |-> IF u = from[m] THEN unread[u] ELSE unread[u] + 1]

RunJob(m) ==
    /\ m \in jobs
    /\ \/ Increment(m) /\ jobs' = jobs \ {m}
       \/ "redis" \in Faults /\ jobs' = jobs \ {m} /\ UNCHANGED unread
       \/ /\ "stall" \in Faults
          /\ \A u \in User : unread[u] < MaxUnread
          /\ Increment(m)
          /\ UNCHANGED jobs
    /\ UNCHANGED <<from, lastRead, call, receipts, unsaid, marks>>
-----------------------------------------------------------------------------
(* markRead                                                                *)

\* The SELECT: where the target and the watermark are.
MarkSelect(c, u, m) ==
    /\ call[c].pc = "idle"
    /\ marks < MaxMarks
    /\ marks' = marks + 1
    /\ call' = [call EXCEPT ![c] =
                  [NoCall EXCEPT !.pc = IF lastRead[u] < m THEN "update" ELSE "reset",
                                 !.user = u, !.target = m]]
    /\ UNCHANGED <<from, lastRead, unread, jobs, receipts, unsaid>>

\* The UPDATE takes its snapshot, finds the row and checks the WHERE clause.
MarkSnapshot(c) ==
    /\ call[c].pc = "update"
    /\ call' = [call EXCEPT ![c].snap = Len(from),
                  ![c].pc = IF lastRead[call[c].user] < call[c].target THEN "apply" ELSE "reset"]
    /\ UNCHANGED <<from, lastRead, unread, jobs, receipts, unsaid, marks>>

\* COALESCE((SELECT sequence_number ... WHERE id = last_read_message_id), 0)
\* in a snapshot with n messages
WatermarkIn(n, m) == IF m <= n THEN m ELSE 0

\* Mutant: UPDATE ... WHERE id = ..., trusting the SELECT.
BlindMarkApply(c) ==
    /\ call[c].pc = "apply"
    /\ lastRead' = [lastRead EXCEPT ![call[c].user] = call[c].target]
    /\ call' = [call EXCEPT ![c].pc = "reset", ![c].advanced = TRUE]
    /\ UNCHANGED <<from, unread, jobs, receipts, unsaid, marks>>

\* With the row locked, the clause is checked once more on its newest version.
MarkApply(c) ==
    LET u == call[c].user
        m == call[c].target
        ok == WatermarkIn(call[c].snap, lastRead[u]) < m
    IN  /\ call[c].pc = "apply"
        /\ lastRead' = IF ok THEN [lastRead EXCEPT ![u] = m] ELSE lastRead
        /\ call' = [call EXCEPT ![c].pc = "reset", ![c].advanced = ok]
        /\ UNCHANGED <<from, unread, jobs, receipts, unsaid, marks>>

Answer(c) == call' = [call EXCEPT ![c] = NoCall]

\* Mutant: markRead returns before the receipt.
HastyMarkReset(c) ==
    /\ call[c].pc = "reset"
    /\ unread' = [unread EXCEPT ![call[c].user] = 0]
    /\ Answer(c)
    /\ UNCHANGED <<from, lastRead, jobs, receipts, unsaid, marks>>

\* resetUnread, advanced or not.
MarkReset(c) ==
    /\ call[c].pc = "reset"
    /\ \/ unread' = [unread EXCEPT ![call[c].user] = 0]
       \/ "redis" \in Faults /\ UNCHANGED unread
    /\ IF call[c].advanced THEN call' = [call EXCEPT ![c].pc = "receipt"] ELSE Answer(c)
    /\ UNCHANGED <<from, lastRead, jobs, receipts, unsaid, marks>>

\* Mutant: the two columns are exchanged.
ExchangedMarkReceipt(c) ==
    /\ call[c].pc = "receipt"
    /\ receipts' = receipts \cup {<<call[c].target, call[c].user>>}
    /\ Answer(c)
    /\ UNCHANGED <<from, lastRead, unread, jobs, unsaid, marks>>

\* INSERT INTO message_reads ... ON CONFLICT DO NOTHING, and message:read.
MarkReceipt(c) ==
    /\ call[c].pc = "receipt"
    /\ receipts' = receipts \cup {<<call[c].user, call[c].target>>}
    /\ Answer(c)
    /\ UNCHANGED <<from, lastRead, unread, jobs, unsaid, marks>>

\* The process dies, or a statement throws, before markRead returns.
MarkCrash(c) ==
    /\ "crash" \in Faults
    /\ call[c].pc # "idle"
    /\ unsaid' = IF call[c].advanced THEN unsaid \cup {<<call[c].user, call[c].target>>} ELSE unsaid
    /\ Answer(c)
    /\ UNCHANGED <<from, lastRead, unread, jobs, receipts, marks>>
-----------------------------------------------------------------------------
Mark(c) == MarkSnapshot(c) \/ MarkApply(c) \/ MarkReset(c) \/ MarkReceipt(c) \/ MarkCrash(c)

Next ==
    \/ \E u \in User : Send(u)
    \/ \E m \in jobs : RunJob(m)
    \/ \E c \in Call, u \in User, m \in 1 .. Len(from) : MarkSelect(c, u, m)
    \/ \E c \in Call : Mark(c)

Spec == Init /\ [][Next]_vars
-----------------------------------------------------------------------------
Position == 1 .. Len(from)

TypeOK ==
    /\ from \in Seq(User \cup {Stranger}) /\ Len(from) <= MaxMsg
    /\ lastRead \in [User -> 0 .. Len(from)]
    /\ unread \in [User -> Nat]
    /\ jobs \subseteq Position
    /\ call \in [Call -> [pc : {"idle", "update", "apply", "reset", "receipt"},
                          user : User \cup {Stranger}, target : 0 .. Len(from),
                          snap : 0 .. Len(from), advanced : BOOLEAN]]
    /\ receipts \subseteq User \X Position
    /\ unsaid \subseteq User \X Position
    /\ marks \in 0 .. MaxMarks

\* The WHERE clause of markRead's UPDATE: the watermark moves backwards only
\* where it points to a message younger than that UPDATE's snapshot.
OnlyYoungerIsOverwritten ==
    [][\A u \in User : lastRead'[u] < lastRead[u] =>
          \E c \in Call : /\ call[c].pc = "apply" /\ call[c].user = u
                          /\ lastRead[u] > call[c].snap]_vars

\* The watermark getReadReceipts shows and the receipts that were stored and
\* emitted agree: once markRead has returned, the watermark is at a message
\* with a receipt or at one the member sent.  A markRead that died between its
\* UPDATE and its receipt is the only exception, and a repeated call, which no
\* longer advances, does not mend it.
WatermarkHasReceipt ==
    \A u \in User :
        \/ lastRead[u] = 0
        \/ from[lastRead[u]] = u
        \/ <<u, lastRead[u]>> \in receipts \cup unsaid
        \/ \E c \in Call : /\ call[c].user = u /\ call[c].target = lastRead[u]
                           /\ call[c].advanced

\* API.md:209 "Watermark never moves backwards" (also channels.service.ts:237),
\* whichever order the calls of a user's devices run in.
WatermarkNeverBackwards == [][\A u \in User : lastRead'[u] >= lastRead[u]]_vars
=============================================================================
