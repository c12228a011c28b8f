------------------------------ MODULE Messages ------------------------------
(***************************************************************************)
(* The message store of one channel: messages.service.ts (send, history,   *)
(* delete) over Postgres, and the recent-message list that                 *)
(* redis-cache.service.ts keeps in Redis.                                  *)
(*                                                                         *)
(* A Handler is a send or delete request being served, a Client somebody   *)
(* who pages through the history.  A step runs from one `await' to the     *)
(* next: a statement that commits or takes a row lock, or one Redis        *)
(* command (MULTI is one command).  Statements inside a transaction that   *)
(* nobody else can observe before the commit belong to the commit.         *)
(*                                                                         *)
(* Refused requests (limits, signature, no membership, archived channel,   *)
(* not the sender, no such message) touch none of this state: a request    *)
(* that is refused is one that never starts.  Broadcasts and the delivery  *)
(* queue, which follow the cache write, are in module Delivery.            *)
(***************************************************************************)
EXTENDS Integers, FiniteSets, Sequences

CONSTANTS
    MessageId,      \* the uuids Postgres hands out
    Handler,        \* send / delete requests in flight
    Client,         \* readers of the history
    Limits,         \* page sizes, after the clamp to 1..100
    CacheSize,      \* MESSAGE_CACHE_SIZE
    Faults,         \* TRUE: Redis commands fail, transactions and servers die
    None

ASSUME MessagesAssumption ==
    /\ None \notin MessageId \cup Handler
    /\ Limits \subseteq Nat \ {0}
    /\ CacheSize \in Nat \ {0}
    /\ Faults \in BOOLEAN

VARIABLES
    seq,            \* messages.sequence_number of a stored message, else 0
    deleted,        \* messages.is_deleted
    lastMessage,    \* channels.last_message_id
    channelLock,    \* who holds the channel row FOR UPDATE
    rowLock,        \* who holds the row of a message
    cache,          \* the Redis list, oldest push first; an entry is the
                    \* payload of a message as it was when it was sent
    pc, msg, next,  \* a handler's position, message and sequence number
    rd              \* a client's request and what it has received so far

dbVars == <<seq, deleted, lastMessage, channelLock, rowLock>>
handlerVars == <<pc, msg, next>>
vars == <<dbVars, cache, handlerVars, rd>>

NoCursor == -1

Stored == {m \in MessageId : seq[m] > 0}

Live == {m \in Stored : ~deleted[m]}

Assigned == {seq[m] : m \in Stored}

\* A request for the next l messages, by a client that already has got.
Request(at, mode, cursor, l, got) ==
    [pc |-> at, mode |-> mode, cursor |-> cursor, limit |-> l,
     got |-> got, page |-> {}, more |-> FALSE]

\* The response: a page and hasMore.
Response(r, page, more) ==
    [pc |-> "page", mode |-> r.mode, cursor |-> r.cursor, limit |-> r.limit,
     got |-> r.got, page |-> page, more |-> more]

\* The request goes on at another step.
Moved(r, at) == Request(at, r.mode, r.cursor, r.limit, r.got)

IdleReader == Request("idle", "before", NoCursor, 0, {})

Init ==
    /\ seq = [m \in MessageId |-> 0]
    /\ deleted = [m \in MessageId |-> FALSE]
    /\ lastMessage = None
    /\ channelLock = None
    /\ rowLock = [m \in MessageId |-> None]
    /\ cache = <<>>
    /\ pc = [h \in Handler |-> "idle"]
    /\ msg = [h \in Handler |-> None]
    /\ next = [h \in Handler |-> 0]
    /\ rd = [c \in Client |-> IdleReader]

Goto(h, l) == pc' = [pc EXCEPT ![h] = l]

Return(h) ==
    /\ Goto(h, "idle")
    /\ msg' = [msg EXCEPT ![h] = None]
    /\ next' = [next EXCEPT ![h] = 0]
-----------------------------------------------------------------------------
(* send                                                                    *)

\* The checks have passed; the uuid is one no row has and no other send got.
SendStart(h, m) ==
    /\ pc[h] = "idle"
    /\ m \notin Stored
    /\ \A g \in Handler : msg[g] # m
    /\ Goto(h, "lock")
    /\ msg' = [msg EXCEPT ![h] = m]
    /\ UNCHANGED <<dbVars, cache, next, rd>>

\* Mutant: nextSequence without FOR UPDATE.
UnlockedSendLock(h) ==
    /\ pc[h] = "lock"
    /\ channelLock' = h
    /\ Goto(h, "max")
    /\ UNCHANGED <<seq, deleted, lastMessage, rowLock, cache, msg, next, rd>>

\* nextSequence: SELECT ... FOR UPDATE on the channel row, ...
SendLock(h) ==
    /\ pc[h] = "lock"
    /\ channelLock = None
    /\ channelLock' = h
    /\ Goto(h, "max")
    /\ UNCHANGED <<seq, deleted, lastMessage, rowLock, cache, msg, next, rd>>

\* coalesce(max(...), 0)
MaxOrZero(S) == CHOOSE n \in S \cup {0} : \A k \in S : k <= n

MaxSequence == MaxOrZero(Assigned)

\* Mutant: count(*) of the messages that are left, instead of max.
CountingSendMax(h) ==
    /\ pc[h] = "max"
    /\ next' = [next EXCEPT ![h] = Cardinality(Live) + 1]
    /\ Goto(h, "insert")
    /\ UNCHANGED <<dbVars, cache, msg, rd>>

\* ... then max + 1 over what is committed at this statement.
SendMax(h) ==
    /\ pc[h] = "max"
    /\ next' = [next EXCEPT ![h] = MaxSequence + 1]
    /\ Goto(h, "insert")
    /\ UNCHANGED <<dbVars, cache, msg, rd>>

\* Mutant: the transaction is left open.
OpenSendCommit(h) ==
    /\ pc[h] = "insert"
    /\ seq' = [seq EXCEPT ![msg[h]] = next[h]]
    /\ lastMessage' = msg[h]
    /\ Goto(h, "push")
    /\ UNCHANGED <<deleted, channelLock, rowLock, cache, msg, next, rd>>

\* INSERT, UPDATE channels, UPDATE memberships (module ReadMarks), COMMIT.
\* The 23505 branch of insertWithSequence is not here: SequencesAreGapless
\* says the unique index on (channel, sequence) has nothing to reject.
SendCommit(h) ==
    /\ pc[h] = "insert"
    /\ seq' = [seq EXCEPT ![msg[h]] = next[h]]
    /\ lastMessage' = msg[h]
    /\ channelLock' = None
    /\ Goto(h, "push")
    /\ UNCHANGED <<deleted, rowLock, cache, msg, next, rd>>

\* cacheMessage: RPUSH and LTRIM in one MULTI.
Pushed(m) ==
    LET list == Append(cache, m)
    IN  IF Len(list) > CacheSize THEN Tail(list) ELSE list

\* cacheMessage swallows a Redis failure.
SendPush(h) ==
    /\ pc[h] = "push"
    /\ \/ cache' = Pushed(msg[h])
       \/ Faults /\ UNCHANGED cache
    /\ Return(h)
    /\ UNCHANGED <<dbVars, rd>>
-----------------------------------------------------------------------------
(* deleteMessage                                                           *)

\* The row is read outside the transaction; a message that is already deleted
\* skips the transaction.
DeleteStart(h, m) ==
    /\ pc[h] = "idle"
    /\ m \in Stored
    /\ Goto(h, IF deleted[m] THEN "drop" ELSE "mark")
    /\ msg' = [msg EXCEPT ![h] = m]
    /\ UNCHANGED <<dbVars, cache, next, rd>>

\* UPDATE messages (the new row version is invisible until the commit; the
\* row lock is what others notice) and DELETE reactions.
DeleteMark(h) ==
    /\ pc[h] = "mark"
    /\ rowLock[msg[h]] = None
    /\ rowLock' = [rowLock EXCEPT ![msg[h]] = h]
    /\ Goto(h, "chan")
    /\ UNCHANGED <<seq, deleted, lastMessage, channelLock, cache, msg, next, rd>>

\* SELECT last_message_id ... FOR UPDATE
DeleteLock(h) ==
    /\ pc[h] = "chan"
    /\ channelLock = None
    /\ channelLock' = h
    /\ Goto(h, "repoint")
    /\ UNCHANGED <<seq, deleted, lastMessage, rowLock, cache, msg, next, rd>>

\* Mutant: the sequence number is stored for the id.
SequenceOfNewest(S) ==
    IF S = {} THEN None
    ELSE CHOOSE n \in {seq[k] : k \in S} : \A k \in S : seq[k] <= n

\* ORDER BY sequence_number DESC LIMIT 1 over the rows of S
Newest(S) ==
    IF S = {} THEN None
    ELSE CHOOSE m \in S : \A k \in S : seq[k] <= seq[m]

\* Mutant: the new preview is not filtered by is_deleted.
UnfilteredDeleteCommit(h) ==
    /\ pc[h] = "repoint"
    /\ deleted' = [deleted EXCEPT ![msg[h]] = TRUE]
    /\ lastMessage' = IF lastMessage = msg[h] THEN Newest(Stored \ {msg[h]})
                                              ELSE lastMessage
    /\ channelLock' = None
    /\ rowLock' = [rowLock EXCEPT ![msg[h]] = None]
    /\ Goto(h, "drop")
    /\ UNCHANGED <<seq, cache, msg, next, rd>>

\* If the preview showed this message it moves to the newest other message
\* that is not deleted in what is committed now; COMMIT.
DeleteCommit(h) ==
    /\ pc[h] = "repoint"
    /\ deleted' = [deleted EXCEPT ![msg[h]] = TRUE]
    /\ lastMessage' = IF lastMessage = msg[h] THEN Newest(Live \ {msg[h]})
                                              ELSE lastMessage
    /\ channelLock' = None
    /\ rowLock' = [rowLock EXCEPT ![msg[h]] = None]
    /\ Goto(h, "drop")
    /\ UNCHANGED <<seq, cache, msg, next, rd>>

\* invalidateMessages, which swallows a Redis failure.
DeleteInvalidate(h) ==
    /\ pc[h] = "drop"
    /\ \/ cache' = <<>>
       \/ Faults /\ UNCHANGED cache
    /\ Return(h)
    /\ UNCHANGED <<dbVars, rd>>

\* A statement fails or the server dies: the transaction rolls back, its
\* locks are released and whatever came after the commit never happens.
Fail(h) ==
    /\ Faults
    /\ pc[h] # "idle"
    /\ channelLock' = IF channelLock = h THEN None ELSE channelLock
    /\ rowLock' = [m \in MessageId |-> IF rowLock[m] = h THEN None ELSE rowLock[m]]
    /\ Return(h)
    /\ UNCHANGED <<seq, deleted, lastMessage, cache, rd>>

\* messageCacheSeconds pass without a send.
CacheExpire ==
    /\ cache # <<>>
    /\ cache' = <<>>
    /\ UNCHANGED <<dbVars, handlerVars, rd>>
-----------------------------------------------------------------------------
(* getMessages                                                             *)

\* A fresh page: the newest messages ('before' and 'latest' without cursor),
\* or everything ('since' without cursor).
ReadFirst(c, mode, l) ==
    /\ rd[c].pc = "idle"
    /\ LET at == IF mode # "since" /\ l <= CacheSize THEN "cache" ELSE "db"
       IN  rd' = [rd EXCEPT ![c] = Request(at, mode, NoCursor, l, {})]
    /\ UNCHANGED <<dbVars, cache, handlerVars>>

\* The sequence numbers LRANGE -l -1 returns.
CachedTail(l) == {seq[cache[i]] : i \in Len(cache) - l + 1 .. Len(cache)}

\* Sorted, each one exactly one more than the one before.
Contiguous(S, l) == \E lo \in S : S = lo .. lo + l - 1

\* getCachedPage up to the well-formedness loop: a short list is a miss.
ReadCache(c) ==
    LET l == rd[c].limit
    IN  /\ rd[c].pc = "cache"
        /\ \/ /\ Faults \/ Len(cache) < l
              /\ rd' = [rd EXCEPT ![c] = Moved(rd[c], "db")]
           \/ /\ Len(cache) >= l
              /\ ~Contiguous(CachedTail(l), l)
              /\ rd' = [rd EXCEPT ![c] = Moved(rd[c], "drop")]
           \/ /\ Len(cache) >= l
              /\ Contiguous(CachedTail(l), l)
              /\ rd' = [rd EXCEPT ![c] = Response(rd[c], CachedTail(l),
                                                  1 \notin CachedTail(l))]
        /\ UNCHANGED <<dbVars, cache, handlerVars>>

\* A list with a hole is thrown away and the database is asked.
ReadInvalidate(c) ==
    /\ rd[c].pc = "drop"
    /\ \/ cache' = <<>>
       \/ Faults /\ UNCHANGED cache
    /\ rd' = [rd EXCEPT ![c] = Moved(rd[c], "db")]
    /\ UNCHANGED <<dbVars, handlerVars>>

\* Mutant: lte / gte for lt / gt.
InclusiveMatching(mode, cursor) ==
    {n \in Assigned : cursor # NoCursor =>
                           IF mode = "since" THEN n >= cursor ELSE n <= cursor}

\* The WHERE clause.
Matching(mode, cursor) ==
    {n \in Assigned : cursor # NoCursor =>
                           IF mode = "since" THEN n > cursor ELSE n < cursor}

\* ORDER BY ... LIMIT l: the greatest l of S, or for 'since' the smallest.
Page(S, mode, l) ==
    {n \in S : Cardinality({k \in S : IF mode = "since" THEN k < n ELSE k > n}) < l}

ReadDb(c) ==
    LET S == Matching(rd[c].mode, rd[c].cursor)
    IN  /\ rd[c].pc = "db"
        /\ rd' = [rd EXCEPT ![c] =
                     Response(rd[c], Page(S, rd[c].mode, rd[c].limit),
                              Cardinality(S) > rd[c].limit)]
        /\ UNCHANGED <<dbVars, cache, handlerVars>>

Oldest(S) == CHOOSE n \in S : \A k \in S : n <= k
Latest(S) == CHOOSE n \in S : \A k \in S : k <= n

\* nextCursor: the oldest sequence number of a descending page, the newest of
\* a 'since' page.
NextCursor(page, mode) == IF mode = "since" THEN Latest(page) ELSE Oldest(page)

\* The client asks for the page behind nextCursor.
ReadMore(c, l) ==
    /\ rd[c].pc = "page"
    /\ rd[c].more
    /\ rd' = [rd EXCEPT ![c] =
                 Request("db", rd[c].mode, NextCursor(rd[c].page, rd[c].mode), l,
                         rd[c].got \cup rd[c].page)]
    /\ UNCHANGED <<dbVars, cache, handlerVars>>

\* Having what it asked for, the client asks what is new 'since' its newest.
ReadCatchUp(c, l) ==
    LET all == rd[c].got \cup rd[c].page
    IN  /\ rd[c].pc = "page"
        /\ ~rd[c].more
        /\ all # {}
        /\ rd' = [rd EXCEPT ![c] = Request("db", "since", Latest(all), l, all)]
        /\ UNCHANGED <<dbVars, cache, handlerVars>>

ReadDone(c) ==
    /\ rd[c].pc = "page"
    /\ rd' = [rd EXCEPT ![c] = IdleReader]
    /\ UNCHANGED <<dbVars, cache, handlerVars>>
-----------------------------------------------------------------------------
Send(h) ==
    \/ \E m \in MessageId : SendStart(h, m)
    \/ SendLock(h)
    \/ SendMax(h)
    \/ SendCommit(h)
    \/ SendPush(h)

Delete(h) ==
    \/ \E m \in MessageId : DeleteStart(h, m)
    \/ DeleteMark(h)
    \/ DeleteLock(h)
    \/ DeleteCommit(h)
    \/ DeleteInvalidate(h)

Read(c) ==
    \/ \E mode \in {"before", "since"}, l \in Limits : ReadFirst(c, mode, l)
    \/ ReadCache(c)
    \/ ReadInvalidate(c)
    \/ ReadDb(c)
    \/ \E l \in Limits : ReadMore(c, l) \/ ReadCatchUp(c, l)
    \/ ReadDone(c)

Next ==
    \/ \E h \in Handler : Send(h) \/ Delete(h) \/ Fail(h)
    \/ \E c \in Client : Read(c)
    \/ CacheExpire

Spec == Init /\ [][Next]_vars

\* Node runs every handler it has started, and Postgres grants a row lock in
\* arrival order, so a waiter is not overtaken for ever.
Fairness ==
    \A h \in Handler :
        /\ WF_vars(SendMax(h) \/ SendCommit(h) \/ SendPush(h))
        /\ WF_vars(DeleteCommit(h) \/ DeleteInvalidate(h))
        /\ SF_vars(SendLock(h)) /\ SF_vars(DeleteMark(h)) /\ SF_vars(DeleteLock(h))

FairSpec == Spec /\ Fairness
-----------------------------------------------------------------------------
Reader == [pc : {"idle", "cache", "drop", "db", "page"},
           mode : {"before", "since"}, cursor : Int, limit : Nat,
           got : SUBSET Nat, page : SUBSET Nat, more : BOOLEAN]

TypeOK ==
    /\ seq \in [MessageId -> Nat]
    /\ deleted \in [MessageId -> BOOLEAN]
    /\ lastMessage \in MessageId \cup {None}
    /\ channelLock \in Handler \cup {None}
    /\ rowLock \in [MessageId -> Handler \cup {None}]
    /\ cache \in Seq(MessageId)
    /\ pc \in [Handler -> {"idle", "lock", "max", "insert", "push",
                           "mark", "chan", "repoint", "drop"}]
    /\ msg \in [Handler -> MessageId \cup {None}]
    /\ next \in [Handler -> Nat]
    /\ rd \in [Client -> Reader]

\* messages.service.ts:250 "cursor = sequence number (per channel, contiguous
\* from 1)": whatever sends, deletes, rollbacks and crashes interleave, the
\* committed sequence numbers are 1..n, n their maximum, and no two messages
\* share one, so the unique index never rejects an insert.
SequencesAreGapless ==
    /\ Assigned = 1 .. MaxSequence
    /\ \A k, m \in Stored : seq[k] = seq[m] => k = m

\* The channel preview (channels.last_message_id) always is the newest message
\* that is not deleted, also while several deletes and sends of that channel
\* are half done.
PreviewIsNewest == lastMessage = Newest(Live)

\* A client that pages through the history, oldest-wards behind nextCursor and
\* then with 'since', never skips a message, never gets one twice, and is told
\* there is no more only when it has reached message 1 - from whichever of
\* cache and database its pages came, and whatever was sent in between.
HistoryNeverSkips ==
    \A c \in Client :
        LET all == rd[c].got \cup rd[c].page
        IN  /\ \A i, j \in all : i .. j \subseteq all
            /\ rd[c].got \cap rd[c].page = {}
            /\ rd[c].pc = "page" /\ rd[c].mode = "before" /\ ~rd[c].more
                   => all = {} \/ 1 \in all

\* Every send or delete that was started ends: a delete holds its message's
\* row while it waits for the channel's, and nobody waits the other way round.
HandlersReturn == \A h \in Handler : pc[h] # "idle" ~> pc[h] = "idle"

\* The log a reader of the committed rows sees.
Committed == [n \in 1 .. MaxSequence |-> CHOOSE m \in Stored : seq[m] = n]

Erased == {m \in Stored : deleted[m]}

Log == INSTANCE MessageLog WITH
           log <- Committed, erased <- Erased, preview <- lastMessage

\* The store implements an append-only log: under every interleaving of sends
\* and deletes, no commit inserts before an earlier one, renumbers, revives or
\* loses a message, and the preview moves with the commit that makes it move.
ImplementsLog == Log!LogSpec

AtRest == \A h \in Handler : pc[h] = "idle"

\* What getCachedPage would serve for a page of l messages.
Servable(l) == l <= CacheSize /\ Len(cache) >= l /\ Contiguous(CachedTail(l), l)

\* API.md:237 "Deleted messages come back with `isDeleted: true`": with no
\* request in flight the cache serves no deleted message as it was sent.
DeletedIsNotCached ==
    AtRest => \A l \in Limits :
        Servable(l) => \A i \in Len(cache) - l + 1 .. Len(cache) : ~deleted[cache[i]]
=============================================================================
