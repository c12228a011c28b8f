# Zevra server: TLA+ models and proofs

Zevra is the server of an end-to-end encrypted chat: NestJS over Postgres,
Redis, BullMQ and Socket.IO. Any number of server processes share one database
and one Redis. This directory models the parts whose correctness depends on how
requests of several clients interleave, checks them with TLC on small
instances, and proves the safety properties of all of them but typing (of the SRP
arithmetic only what the sessions need) with TLAPS for every value of the constants.

Paths below are relative to the repository; `src/...` is its source directory.

## Contents

1. The system and its parts
2. How the models are built
3. The modules
4. The runs: what is checked, with which bounds
5. What is proved, and how
6. Where code and documentation disagree
7. What is not modelled

## 1. The system and its parts

| Part | Source | What it keeps | Module |
|---|---|---|---|
| Message store | `modules/messages`, `redis/redis-cache.service.ts` | `messages`, `channels.last_message_id`, a Redis list of recent messages | `Messages`, `MessageLog` |
| Delivery | `dispatchNewMessage`, `shared/queues`, `redis/redis-session.service.ts`, `chat` | BullMQ jobs, `zevra:pending:{userId}` | `Delivery` |
| Read state | `markRead` in `modules/channels`, unread keys in `redis-cache.service.ts` | `memberships.last_read_message_id`, `message_reads`, unread counters | `ReadMarks` |
| 1:1 calls | `modules/calls` | `zevra:call:room:*`, `zevra:call:user:*`, `call_logs` | `Calls` |
| Channels, membership, rooms | `modules/channels`, `redis/channel-members.service.ts`, `socket` | `channels`, `memberships`, the member cache, Socket.IO rooms | `Channels` |
| Sockets and presence | `socket/socket.gateway.ts`, `redis-session.service.ts` | `zevra:sockets:*`, `zevra:presence:*` | `Presence` |
| Typing | `socket/socket.gateway.ts`, `redis-cache.service.ts` | timers, typing entries | `Typing` |
| Authentication | `modules/auth`, `modules/users` | accounts, SRP handshakes, refresh tokens | `Srp`, `Sessions` |
| LiveKit calls | `modules/livekit`, `modules/calls` | `call_logs`, `call_participants` | `LivekitLogs` |
| Reactions | `modules/reactions` | `reactions` | `Reactions` |
| Keys | `modules/keys` | key version, `sender_keys` | `Keys` |
| Rate limits | `shared/rate-limit`, `common/rate-limit`, `common/guards` | counters in Redis | `RateLimits` |
| Audit, uploads, HTTP shell, configuration, crypto helpers | rest of `src` | - | not modelled (section 7) |

How they interact. A client sends with HTTP or a socket event. `send` stores
the message under the channel's row lock (`Messages`), pushes it to the cache,
asks Socket.IO who is connected, broadcasts, and hands a job to BullMQ
(`Delivery`). The job fills the offline queue of those who were not connected
and increments the unread counters of everybody but the sender (`ReadMarks`).
A client reads the history page by page, from the cache where it can
(`Messages`), marks messages read (`ReadMarks`) and fetches its offline queue
(`Delivery`). `Delivery` and `ReadMarks` take the store to be the append-only
log that `Messages` is shown to implement (`MessageLog`), so a message is its
position there. Who gets a broadcast is decided by the Socket.IO rooms, and who
may ask by the member cache: both are copies of the membership rows, and
`Channels` says how far they may differ from them. `Presence` is what calls and
peers ask whether somebody is online. The other services share users and messages
with the rest but no state that two of them write, except that deleting a message
deletes its reactions (`Reactions` has both).

## 2. How the models are built

**Steps.** Node runs a handler without interruption from one `await` to the
next, and many handlers, in one or several processes, at once. A step of a
model is therefore what happens between two awaits, and every `await` is a
place where anybody else may step. A single Redis command or a `MULTI` is
atomic. A transaction becomes visible at its commit; its locks are steps of
their own.

**Postgres** runs at its default, READ COMMITTED: each statement sees what was
committed when the statement began; `SELECT ... FOR UPDATE` and `UPDATE` wait
for the row lock and then re-check the newest version of the row. Subqueries of
a re-checked `WHERE` clause keep the snapshot of the statement (`ReadMarks`
depends on it: `WatermarkIn`).

**Requests that are refused** (validation, membership, limits) change none of
the modelled state and do not start. Where a refusal depends
on the modelled state (a busy user, a full channel, a name taken, a token gone) it
is there.

**Faults.** Redis commands fail (the services swallow the error, as `catch` blocks
show; Redis may have run the command all the same), statements fail, a server dies between two steps, `fetchSockets` or
`queue.add` rejects, BullMQ runs a job again, LiveKit repeats and reorders
webhooks. A constant `Faults` switches them, or a parameter `ok` of the action says
whether its command succeeded. A lost connection is an ordinary step.

**Time** is counted only where the code depends on it: heartbeat periods of 30 s
in `Presence`, ticks of a window in `RateLimits`. Elsewhere a TTL or timer may fire
at any moment.

**History variables** record what a property needs and the program does not
keep: `Delivery!queued`, `taken` and `lost`, `Calls!accepted`, the messages a
reader already has (`got` in `Messages!rd`), `ReadMarks!unsaid`, `Calls!strayed`,
`Channels!stale` and `adrift`, `Presence!told` and `unseen`, `Sessions!ended` and `racing`,
`Reactions!late` and `crossed`, `Keys!overlapped`, `LivekitLogs!excused`.

**Exact properties.** Many copies in this system are repaired on a best-effort
basis, so "the copy is right" is false and "the copy is right except after a race"
says nothing unless the race is named. The history variables above mark precisely
the steps after which the code lets a copy go wrong; the property says it is right
in every other case. A new way of going wrong, or a repair that is dropped, breaks
it.

**Mutants.** Definitions preceded by "Mutant:" are plausible bugs of the
definition that follows them. No specification uses them. Put in its place,
each makes one property fail, which shows that the property depends on that
piece of code.

## 3. The modules

### MessageLog

What a message store promises: a sequence that only grows at its end, a set of
erased messages that only grows, and a preview that is the newest message not
erased. No locks, transactions or caches.

### Messages

One channel of `messages.service.ts`.

| State | Code |
|---|---|
| `seq`, `deleted` | `messages.sequence_number`, `is_deleted` |
| `lastMessage` | `channels.last_message_id` |
| `channelLock`, `rowLock` | the row locks of `nextSequence` and `deleteMessage` |
| `cache` | the Redis list of `cacheMessage`; an entry is the payload as sent |
| `pc`, `msg`, `next` | a send or delete in progress |
| `rd` | a client paging through `getMessages` |

| Actions | Code |
|---|---|
| `SendStart`, `SendLock`, `SendMax`, `SendCommit`, `SendPush` | `send`, `nextSequence`, `insertWithSequence`, `cacheMessage` |
| `DeleteStart`, `DeleteMark`, `DeleteLock`, `DeleteCommit`, `DeleteInvalidate` | `deleteMessage` |
| `ReadFirst`, `ReadCache`, `ReadInvalidate`, `ReadDb`, `ReadMore`, `ReadCatchUp`, `ReadDone` | `getMessages`, `getCachedPage`, and the client that follows `nextCursor` |
| `Fail`, `CacheExpire` | a failed statement or dead server; the TTL of the list |

`getMessages` answers with sequence numbers; payloads, reactions and
usernames are left out. The `23505` branch of `insertWithSequence` has no
action: `SequencesAreGapless` shows the unique index has nothing to reject.

### Delivery

From the commit of a message to the moment each other member was sent it or
has it queued: `SendBegin` (created_at is the start of the transaction),
`SendStore` (the sequence number comes at the commit), `SendLook`
(`getConnectedUserIds`), `SendEmit` (`emitToChannel`), `SendEnqueue`
(`queue.add`, or inline when it rejects), `SendCrash`, `RunJob`
(`runMessageDelivery`), `PendingExpire` (the TTL of the queue), `PopRead` and
`PopRemove` (`popPendingMessages`, with an `exec` that rejects before or after Redis
ran it and an answer that does not arrive), and `Connect` and `Disconnect` of
sockets. `lost` records every way a message passes a recipient by.

### ReadMarks

`markRead` in five steps: the `SELECT` (`MarkSelect`), the snapshot of the
`UPDATE` (`MarkSnapshot`), the `UPDATE` with the row locked (`MarkApply`),
`resetUnread` (`MarkReset`), the receipt (`MarkReceipt`); `MarkCrash` ends a call
between any two of them. `Send` moves the sender's own watermark, `RunJob` counts.

### Calls

Every socket event of a 1:1 call is a `Request`. All begin with
`getActiveCall`, two reads (`Lookup`, `ReadRoom`), after which `Decide` says
what the handler does. Inviting continues with `InviteTarget`,
`InviteOnline`, `CreateLog`, `CreateCall`; accepting with `Connect`,
`LogAccepted`; rejecting with `LogRejected`; hanging up with `EndLog`; the last
two and a disconnect with `CleanupRead`, `CleanupDelete`. `ExpireRoom` and
`ExpireKey` are the TTLs: a key is set or extended together with its room and
with the same TTL, so it does not expire before it. `call:invite` and
`call:initiate` of type DM take the same steps. A relay (`call:offer`,
`call:answer`, `call:ice-candidate`) emits with no await after the read, so it
is the read.

### Channels

Three copies of "u is in c": the row (`role`), the cached set (`cache`), the
socket in the room (`room`). Handlers change the row and repair the copies later:

| Actions | Code |
|---|---|
| `CreateGroup`; `CreateDirect`, `DirectFind`, `DirectInsert` | `create`; `createDirect` under its advisory lock |
| `SetMembers`, `JoinRooms`, `CreateOrJoin` | what follows a creation, over HTTP or `channel:create-or-join` |
| `AddMember`, `AddCount`, `AddInsert`, `AddTouch` | `addMember`; the last is the `UPDATE` after the insert, whose failure leaves the row in and both copies unrepaired |
| `RemoveMember`, `RemoveLock`, `RemoveDelete`, `RemoveCommit` | `removeMember` and the promotion of the oldest member |
| `Invalidate`, `LeaveRoom` | the repairs after a change |
| `Archive`, `ArchiveRead`, `ArchiveWrite` | `archive` |
| `FillBegin`, `FillRead`, `AskMember`, `CacheExpire` | `getMembers`, `isMember` and the TTL |
| `ConnectRead`, `ConnectJoin`, `Disconnect`, `EnterRoom`, `ExitRoom` | a socket and its rooms |

`stale` has the pairs of channel and user of which the cached set may be wrong:
`Overlap` adds one when the row changes while another handler is about to write a
snapshot (`Fills`), `Invalidate` when its `DEL` fails, `AddTouch` when it fails. A
`DEL` or an expiry with no snapshot in flight takes them out again (`Renewed`).
`adrift` has those of which the room may be wrong: the row changed between a
connect's read and its join or while another handler was about to move the socket
(`Steers`), `AddTouch` failed, `join-channel` was let in by a stale set, or the client
asked to leave. A disconnect takes them out, if nobody is still about to move the
user. Nothing that excuses one copy excuses the other.

### Presence

The sockets of one user. `reg` and `online` count down in heartbeat periods.
`Connect` ... `Announce` are `handleConnection` and `pushPresence`, `Close` ...
`TellLeft` `handleDisconnect`, `Refresh`, `Heartbeat` and `BeatOnline` the two
heartbeats, `LoginOnline` and `LogoutOffline` what `auth.service.ts` does to the
key. Each Redis command may fail, a node may crash, and `Tick` lets a period go by
once the handlers of the last one are done (they take milliseconds).

### Typing

One user's indicator in one channel: per socket the `typing:start` handlers in
flight, the timer that the map knows (`entry`) and those it lost (`loose`), the
Redis entry, and what the other members were last told (`shown`).

### Srp, Sessions

`Srp` is the arithmetic of `srp.service.ts` (square-and-multiply included) and of
a client, as operators; `H` is modelled as keeping its arguments apart.
`Sessions` is one account: `RegisterCheck`, `RegisterInsert`; `LoginStart`,
`LoginState`, `Consume`, `Verify`, `Issue`, `LoginOnline`; `RefreshBegin`, `Redeem`;
`LogoutStatus`, `LogoutDelete`; `Rename`; the expiry of handshakes and tokens. An
unknown name gets decoy credentials (`DecoyX`).

### Reactions, Keys, LivekitLogs, RateLimits

- `Reactions`: one message, its reactions, a deletion, and the view of a member
  who only listens (a sender does not get their own broadcasts). The `DELETE` of a
  deletion takes its snapshot (`DeleteSee`), waits for the rows that others have
  deleted and takes those of the snapshot that are left (`DeleteSweep`); `late` has
  the reactions of the calls that had not committed by the snapshot, and no others.
- `Keys`: overlapping uploads of sender keys of one owner, with row locks and the
  unique index (`UploadDelete`, `UploadWake`, `UploadInsert`), and `Rotate`.
- `LivekitLogs`: one room, which comes up for a call (`StartCall`) or for a client
  that connects with a token (`OpenRoom`). `StartCall` and `CreateCallLog` are the
  gateway's; webhooks in `sent` are delivered in any order and more than once to handlers
  that overlap.
- `RateLimits`: the fixed window script on two keys that a request hits in turn
  (`RateLimitGuard`), keys that lose their TTL, and the fail-open path. `hits` and
  `passed` are history: the hits of the last `Window` ticks, each with its age and
  the count it made.

### MC modules

`MCMessages`, `MCDelivery`, `MCReadMarks`, `MCCalls`, `MCChannels`, `MCPresence`
and `MCSessions` extend one specification each with the symmetry sets of the
safety runs. `MCServices` and `MCEnds` put several specifications side by side
under one `Init` that chooses which of them runs, so that their states add up and
do not multiply. `MCEnds`, for liveness, uses no symmetry. The specifications that
`MCServices` runs are instances under names of their own: `R` (reactions), `K` (keys)
and `T` (rate limits) in `Services`, `L` (LiveKit) in `LiveLogs`; the properties that
TLC checks and TLAPS proves are the ones these two modules state.

### Proof modules

`MessagesProofs`, `DeliveryProofs`, `ReadMarksProofs`, `CallsProofs`,
`ChannelsProofs`, `PresenceProofs` and `SessionsProofs` extend the module they are
about. `CallsProofs` also extends `LiveLogs`, for the logs of LiveKit calls, and
`ServicesProofs` extends `Services`. Leaves that need no arithmetic name Zenon, which
is much quicker on them than the SMT solver. See section 5.

## 4. The runs

| Run | Config | Checks |
|---|---|---|
| `messages` | `MCMessages.cfg` | `TypeOK`, `SequencesAreGapless`, `PreviewIsNewest`, `HistoryNeverSkips`, `ImplementsLog` |
| `delivery` | `MCDelivery.cfg` | `NothingElseIsLost`, `QueuedIsKept` |
| `read_marks` | `MCReadMarks.cfg` | `TypeOK`, `WatermarkHasReceipt`, `OnlyYoungerIsOverwritten` |
| `calls` | `MCCalls.cfg` | `TypeOK`, `SignalsStayInCall`, `EndedWasAccepted`, `KeyLivesWithCall` |
| `channels` | `MCChannels.cfg` | `CacheFollowsRows`, `RoomFollowsRows`, `AdminIsKept`, `OneDirectPerPair`, `CapOverrun` |
| `presence` | `MCPresence.cfg` | `BeatingIsAlive`, `PeersKnow` |
| `sessions` | `MCSessions.cfg` | `AccountIsKept`, `RightPasswordAccepted`, `HandshakeUsedOnce`, `OneTokenPerSession`, `LogoutEndsSessions` |
| `services` | `MCServices.cfg` | `OneReactionPerUser`, `DeletedHasNone`, `ViewIsTable`; `UploadIsWhole`, `UploadReplaces`; `StartedReuses`, `FinishedCloses`, `NobodyLeftBehind`; `FewerThanTwice`, `CountIsRecent` |
| `ends` | `MCEnds.cfg` | `HandlersReturn`, `DeliveryEnds`, `TypingEnds`, `PresenceFollows` |
| `messages_cache_deleted` | `MCMessagesDeleted.cfg` | `DeletedIsNotCached`, violated |
| `delivery_missed` | `MCDeliveryMissed.cfg` | `OfflineAtBroadcastIsQueued`, violated |
| `read_marks_back` | `MCReadMarksBack.cfg` | `WatermarkNeverBackwards`, violated |

A run is `tlc -config <config> <MC module>` in this directory. What each property
says is in the comment before it. The runs of `Messages`, `ReadMarks` and `Calls`
also check the type invariant, which their proofs start from; in the other modules
`TypeOK` documents the state.

**messages**: 3 messages, 2 concurrent handlers, 1 reader, pages of 1 and 2, a
cache of 2, all faults; about 290,000 states. Two handlers are enough for every
conflict on a pair of locks, three messages for a delete of the newest and the
next one while a third is sent, and for a cache that has overflowed; pages of 1
and 2 are below and at the cache size. The proofs remove these bounds.

**delivery**: 2 users, 2 sends, 2 concurrent get-pending calls, batches of 1,
all five faults; about 1.4 million states. A sender has one recipient, and
recipients do not interact. Two messages are needed for something to be queued
while a batch is popped. The ways of losing a message that remain are named in
`lost`: "gone", the socket drops between `fetchSockets` and the broadcast;
"unqueued", Redis rejects the queue entry or the server dies before it is written;
"unread", the queue's TTL of 7 days fires, or `ZREM` ran and the answer did not
arrive (the socket dropped, `exec` rejected, the server died). `QueuedIsKept` allows
a queued message the last of these only, and of a batch that was popped only the
entries in it.

**read_marks**: 2 members, 2 concurrent markRead calls and 3 in all, 3 messages
of which one was there before, failing Redis, stalled jobs and crashes; about 1.8
million states. The watermark can move backwards only in the one way
`OnlyYoungerIsOverwritten` describes. `CHECK_DEADLOCK FALSE`: with the bounds
used up the system is at rest.

**calls**: 2 users, 2 calls, 2 overlapping requests, failing Redis commands; about
3.1 million states. Two calls so that one replaces the other between the two reads
of `getActiveCall`. `CHECK_DEADLOCK FALSE`: once every call id was used and has
ended, nothing happens.

**channels**: 3 users of whom one connects a socket, 2 channel ids of which 1 may
be a group, 2 overlapping requests and 2 in all beside the fills of the cache and
the socket's own, a cap of 2, failing `DEL`s and a failing `UPDATE` of `addMember`;
about 1.3 million states. Three users so that one is added while another leaves; two
channels so that a pair could get two DMs.

**presence**: 2 sockets, each connecting once, death after 4 periods, a key of 3,
2 beats in a row lost, 1 login; about 1.0 million states. The two sockets are what
a disconnect on one node and a connect on another need; 4 and 3 are the code's 95 s
and 90 s against its 30 s.

**sessions**: the group of N = 23, G = 2, K = 3, two names, passwords {4, 7},
a in {5, 9}, b in {6, 8}, 3 overlapping calls, 2 logins, 2 refreshes, 1 logout;
about 1.1 million states. 23 is prime and large enough for the terms of `S` to wrap
around it; two logins are needed to overwrite a handshake, three calls for a login,
a refresh and a logout to overlap.

**services**: reactions with 2 users, 2 emojis, 3 overlapping calls and 4 in all;
keys with 3 uploads to 3 receivers and 3 versions; LiveKit with 1 participant, 2
workers, 1 call, 1 session of the room, 2 entrances and 1 repeated webhook; limits
with 2 keys (one of the throttler, one of a route), a limit of 2 and a window of 3 ticks; about 1.2 million states together.
`LivekitLogs` was also checked once with 2 sessions of the room and no repetition
(11 million states). `CHECK_DEADLOCK FALSE`: with the bounds used up the
components rest.

**ends**: messages with 2 handlers and 2 messages, no faults; delivery with one
get-pending call and the faults the code recovers from; typing with 2 sockets and 3
starts; presence with 2 sockets, no lost beats and no login; about 218,000 states.
`PresenceFollows` was also checked once with 2 lost beats and 1 login (1.0 million
states, more than seven minutes). `CHECK_DEADLOCK FALSE` as above.

Fairness, each property under that of its own component:

- `Messages`: Node resumes a handler whose await is settled (weak fairness of its
  steps), and Postgres queues those who wait for a row lock, so a waiter is not
  overtaken for ever (strong fairness of the three lock steps). `HandlersReturn`
  then shows that a delete, which holds its message row while it waits for the
  channel row, deadlocks with nobody.
- `Delivery`: started handlers run on, and BullMQ's workers take every job.
- `Typing`: started handlers run on, and a timer that is set fires.
- `Presence`: started handlers run on, intervals fire, and time goes on.

No property assumes that a client does anything.

## 5. What is proved

For every value of the constants (any sets of users, messages, channels, calls,
sockets, handlers and clients, any page, batch and cache sizes, limits and
lifetimes), with and without faults:

| Theorem | Module | States |
|---|---|---|
| `GaplessTheorem` | `MessagesProofs` | `Spec => []SequencesAreGapless` |
| `PreviewTheorem` | `MessagesProofs` | `Spec => []PreviewIsNewest` |
| `LogTheorem` | `MessagesProofs` | `Spec => ImplementsLog` |
| `TypeTheorem` | `MessagesProofs` | `Spec => []TypeOK` |
| `HistoryTheorem` | `MessagesProofs` | `Spec => []HistoryNeverSkips` |
| `NothingLostTheorem` | `DeliveryProofs` | `Spec => []NothingElseIsLost` |
| `QueuedTheorem` | `DeliveryProofs` | `Spec => []QueuedIsKept` |
| `ReadTypeTheorem` | `ReadMarksProofs` | `Spec => []TypeOK` |
| `ReceiptTheorem` | `ReadMarksProofs` | `Spec => []WatermarkHasReceipt` |
| `YoungerTheorem` | `ReadMarksProofs` | `Spec => OnlyYoungerIsOverwritten` |
| `CallsTypeTheorem` | `CallsProofs` | `Spec => []TypeOK` |
| `SignalsTheorem` | `CallsProofs` | `Spec => []SignalsStayInCall` |
| `EndedTheorem` | `CallsProofs` | `Spec => []EndedWasAccepted` |
| `KeyTheorem` | `CallsProofs` | `Spec => []KeyLivesWithCall` |
| `AdminTheorem` | `ChannelsProofs` | `Spec => AdminIsKept` |
| `DirectTheorem` | `ChannelsProofs` | `Spec => []OneDirectPerPair` |
| `CacheTheorem` | `ChannelsProofs` | `Spec => []CacheFollowsRows` |
| `RoomTheorem` | `ChannelsProofs` | `Spec => []RoomFollowsRows` |
| `CapTheorem` | `ChannelsProofs` | `Spec => []CapOverrun` |
| `AliveTheorem` | `PresenceProofs` | `Spec => []BeatingIsAlive` |
| `PeersTheorem` | `PresenceProofs` | `Spec => []PeersKnow` |
| `HandshakeTheorem` | `SessionsProofs` | `Spec => []HandshakeUsedOnce` |
| `OneTokenTheorem` | `SessionsProofs` | `Spec => []OneTokenPerSession` |
| `LogoutTheorem` | `SessionsProofs` | `Spec => []LogoutEndsSessions` |
| `AccountTheorem` | `SessionsProofs` | `Spec => AccountIsKept` |
| `WholeTheorem` | `ServicesProofs` | `K!Spec => []UploadIsWhole` |
| `ReplacesTheorem` | `ServicesProofs` | `K!Spec => []UploadReplaces` |
| `OneReactionTheorem` | `ServicesProofs` | `R!Spec => []OneReactionPerUser` |
| `DeletedTheorem` | `ServicesProofs` | `R!Spec => []DeletedHasNone` |
| `ViewTheorem` | `ServicesProofs` | `R!Spec => []ViewIsTable` |
| `ReusesTheorem` | `CallsProofs` | `L!Spec => []StartedReuses` |
| `ClosesTheorem` | `CallsProofs` | `L!Spec => []FinishedCloses` |
| `LeftBehindTheorem` | `CallsProofs` | `L!Spec => []NobodyLeftBehind` |
| `TwiceTheorem` | `ServicesProofs` | `T!Spec => []FewerThanTwice` |
| `RecentTheorem` | `ServicesProofs` | `T!Spec => []CountIsRecent` |

Assumptions: the `ASSUME` of each module. Sizes and bounds are numbers, page, batch
and cache sizes, limits and lifetimes are positive, `None` and `Nobody` are not identifiers, and
0, which stands for "no row" in `Keys`, names no upload. What is counted is finite:
the users and requests of `Channels` (of which there is one at least) and the sockets
of `Presence`. `PresenceAssumption` also says that fewer beats in a row are lost than
an entry outlives (`MaxMissed + 1 < Dead`; the code has 95 s against 30 s).
`SrpAssumption` only gives the group its range: nothing that is proved of the sessions
depends on the arithmetic. Finiteness of the message set is not assumed: sequence
numbers are a finite run because every commit extends the run by one.

In each module the invariant that is proved inductive holds the properties and what
a handler in flight knows; its step lemma goes through the actions one by one.

**The store** (`MessagesProofs`). Neither gaplessness nor the preview is
inductive: both depend on what a handler that is about to commit has read. The
inductive invariant `StoreInv` adds

- `LockIsHeld`: a handler between its lock and its commit holds the channel row
  (so at most one is there);
- `UnsentIsOwned`: a message being sent is stored nowhere and is no other
  handler's;
- `TargetIsStored`: a message being deleted is stored;
- `NextIsFree`: a handler about to insert has the number `MaxSequence + 1`,
  which stays right because nobody else can commit a send meanwhile;
- `Run` and `Preview`: the two properties, in the form the proof steps use.

`LogTheorem` maps `log` to the messages in
sequence order: `SendCommit` is an append, `DeleteCommit` an erase or, for a
message another handler deleted first, a stutter, and every other step a
stutter.

**The history** (`MessagesProofs`). `HistoryInv` adds for each reader what its
cursor has to do with the messages it has: they are an interval of the
committed sequence numbers, the cursor is its lower end (before) or its upper
end (since), and a page that was answered continues it. It needs gaplessness
from the store: a page of the database is an interval only because the numbers
are. For the cache it needs only that cached messages are stored: contiguity is
what `getCachedPage` tests itself.

**Delivery** (`DeliveryProofs`). `DeliveryInv` adds `SendOK`: a send that has
stored its message knows it, and after the broadcast a recipient who was not
reached is among those the send will hand to its job. The argument is that no step
un-reaches anybody (`Keeps`): what leaves the offline queue, by `ZREM` or with the
TTL, enters `taken` or `lost` in the same step. So a send may forget a message only when a job has it or
`lost` says why not.

**Read state** (`ReadMarksProofs`). `ReadInv` adds `CallOK`: a call in flight is for
a stored message, and has advanced only between its `UPDATE` and its receipt.
`WatermarkHasReceipt` is kept with it: a send moves the watermark to a message that
needs no receipt, an `UPDATE` to one whose receipt this call owes. `YoungerTheorem` looks at the two steps that write a
watermark: a send writes the newest position, and the `UPDATE` writes an older one
only when the re-check took the newer for absent.

**Calls** (`CallsProofs`). `CallsInv` adds what a request learnt from its two reads
and still relies on (`RequestsOK`): the parties of the call it is about, and, for
one about to close the log, that the call was accepted. This stays right because
the log of a call names its parties once and for all and `accepted` only grows;
`RoomsOK` and `KeysOK` tie rooms and keys to the log. No lock protects any of it:
that is why `KeyLivesWithCall` must name the overlaps (`strayed`).

**Channels** (`ChannelsProofs`). `ReqOK` says what the two locks are for. A removal
holds the channel's row from its `DELETE` to its commit, and `addMember`'s foreign
key waits for that row, so the member it chose to promote (`Promote`) is
still right at the commit; hence `AdminTheorem`. A `createDirect` holds the
pair's advisory lock from its `SELECT` to its `INSERT`, so what it did not find is
still not there; hence `DirectTheorem`, to which it also matters that nobody is
ever added to a DIRECT channel and that a promotion adds no member.

`CapTheorem` counts, for each channel, its members and the requests about to insert
one more (`CapOf`): a request joins the second set only while the first is below the
cap, and moves from the second to the first. For the two copies, `CopiesInv` says of
every channel and user that a copy which differs from the row is matched by a request
that still has its repair before it, unless `stale` has them (`CacheOK`) or `adrift`
(`RoomOK`); `Facts` says that what a request is about to write is still true of the
rows, again unless the history of that copy names them. Where no repair is due
(`CacheDue`, `RoomDue`), this is `CacheTheorem` and `RoomTheorem`.

**Presence** (`PresenceProofs`). `EntryOK` and `ShownOK` account for time: an entry, or
the presence key, has lost one period for each beat missed in a row and one for the
beat that is due, so a beat always comes before it is gone. `ToldOK` is about the
announcements: while they follow the registry, an entry belongs to a socket that was
counted and whose removal is still to come, and what the peers have not heard somebody
is about to tell them: the socket that found itself first, or the one that has not yet
seen the registry empty. That `zCard` is 0 or 1 exactly when nobody else is there is a
fact about cardinalities (`Counted`).

**Sessions** (`SessionsProofs`). `HandshakesOK`: a handshake is in Redis or with one
login that took it (`GETDEL`), never both. `TokensOK`: the right to go on with a
session is one token or one call about to store it, never both, and a call of a session
that a logout ended is on record as racing.

**Keys** (`ServicesProofs`). `OpenOK` is about an upload between its `DELETE` and its
`INSERT`: the rows it removes are whole uploads, and a row stored beside them
comes from an upload it overlaps.

**Reactions** (`ServicesProofs`). `CallOK`: an `addReaction` holds its user's advisory
lock from its `DELETE` to its commit, so the user's rows are those it deletes and the
one it inserts. `LateOK`: from the snapshot of a deletion on, every row is in the
snapshot or late, and so is what a call has yet to insert; the commit takes the
snapshot's rows, hence `DeletedTheorem`. `ViewOK`: what a listener has been told, with the one change that is
committed and not yet announced, is the table.

**LiveKit** (`CallsProofs`). `JobOK`: the log a handler has chosen exists, and one
about to insert a log saw none open. `GuestOK`: a user whose webhooks are handled one
by one and in order is in the latest log only, and in none once the last webhook
handled said left. It needs `InTurn`: LiveKit sends joined and left of a user in turn.

**Rate limits** (`ServicesProofs`). `PassedOK` gives every counter the age `b` of the
hit that opened its window. The hits allowed since have different counts of at most
the limit, so they are at most `Limit`; those allowed before are of one window whose
first hit is already too old, so they are at most `Limit - 1`. When the window ends
its first hit is `Window` ticks old and drops out, which is the step that makes the
bound strict. `HitsOK`: each count since the window opened belongs to a hit no older
than the TTL says.

**Only model-checked**: the liveness properties (`HandlersReturn`, `DeliveryEnds`,
`TypingEnds`, `PresenceFollows`: fairness is outside the prover's reach), which are all
that is said of `Typing`; and `RightPasswordAccepted`, which needs the law of exponents
for the loop of `modPow`, an induction over data that the provers cannot do.

## 6. Where code and documentation disagree

Three runs end in a counterexample:

- **A deleted message comes back from the cache** (`messages_cache_deleted`).
  A send has committed and not yet pushed to the cache; a delete of that message
  runs to its end, invalidating the list; the send then pushes the original
  payload. `API.md:237` says deleted messages come back with `isDeleted: true`.
- **A recipient is neither reached nor queued** (`delivery_missed`). The last
  socket drops after `fetchSockets` and before the emit.
  `message-delivery.job.ts:10` speaks of those with no live socket at broadcast
  time.
- **The watermark moves backwards** (`read_marks_back`). Between the snapshot of
  the `UPDATE` in `markRead` and its row lock, the member sends a message, which
  moves the watermark to it. The re-check finds no such message in its snapshot,
  takes 0 for its sequence number and writes the older one. `API.md:209` says
  "Watermark never moves backwards".

Other places where the models show that a document says more than the code does.
The exact properties name them as exceptions:

- `API.md:392` gives the key of a user in a call the lifetime of the call. Two
  clean-ups of one call that overlap delete keys by user, the slower one after a
  new call has set them (`KeyLivesWithCall`, `strayed`).
- `API.md:388` says the offline queue is "scored by sequence". The score is
  `created_at`, the start of a transaction; one that began earlier can get the
  channel lock, and so its number, later (`SendBegin`, `SendStore`).
- `API.md:211` gives a cap of 51 members; overlapping `addMember` calls pass it
  (`CapOverrun`).
- `API.md:293` says nothing sent after `connected` is missed. A user added to a
  channel between `getUserChannelIds` and `client.join` is not in its room
  (`RoomFollowsRows`, `adrift`).
- `API.md:309` says the server stops an indicator after 6 s or on disconnect. It
  does, except when the node dies (`TypingEnds`).
- `calls.gateway.ts:481` says the log is created up front and reused by
  `room_started`. The room is created before the log, so a webhook that is quicker
  inserts its own, and the session has two (`StartedReuses` allows just that).

## 7. What is not modelled

- Cryptography: signatures, sealing, JWT, and the strength of SRP (its arithmetic
  is modelled, its hashes are taken to be injective).
- Queries that change nothing: inbox, channel and user lookups, `presence:bulk`,
  key getters, call history, audit. LiveKit tokens and `authorizeRoomAccess` are
  such a query and an external library.
- Uploads (file I/O, magic numbers), environment parsing, validation, error
  formatting, start-up: sequential and without shared state.
- Connecting and reconnecting to Redis and Postgres: libraries. What the services
  do while Redis is down is modelled as faults.
- The token check of `SocketAuthGuard`: its effect is a disconnect, which
  `Presence` has at any time.

Within the modelled parts: how fresh a page from the message cache is; what the
unread counter promises (its steps are in `ReadMarks`); what two overlapping
`archive` calls should do. `PROJECT.json` lists the hazards of the code with the
properties that cover them, and says why where none does.
