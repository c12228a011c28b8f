------------------------------- MODULE MCEnds --------------------------------
(* The liveness of Messages, Delivery, Typing and Presence, for TLC.  A    *)
(* behaviour is one of one of them, which Init chooses; each property      *)
(* assumes the fairness of its own specification.                          *)
EXTENDS Integers

CONSTANTS
    None, MessageId, Handler, CacheSize,   \* Messages
    User, Call, MaxMsg, Batch, Faults,     \* Delivery
    Socket, MaxTyping,                     \* Typing
    Dead, PresenceTtl, MaxMissed, MaxLogins   \* Presence, with Socket

VARIABLES
    part,
    seq, deleted, lastMessage, channelLock, rowLock, cache, pc, msg, next, rd,
    online, log, clock, send, jobs, seen, pending, pop, queued, taken, lost,
    open, start, entry, loose, shown, listed, typed,
    linked, at, bye, first, timer, beat, missed, unseen, reg, key, told, hidden, logins

M == INSTANCE Messages WITH Client <- {}, Limits <- {1}, Faults <- FALSE

D == INSTANCE Delivery

T == INSTANCE Typing

P == INSTANCE Presence WITH open <- linked, pc <- at, online <- key

storeVars == <<seq, deleted, lastMessage, channelLock, rowLock, cache, pc, msg, next, rd>>

deliveryVars == <<online, log, clock, send, jobs, seen, pending, pop, queued, taken, lost>>

typingVars == <<open, start, entry, loose, shown, listed, typed>>

presenceVars ==
    <<linked, at, bye, first, timer, beat, missed, unseen, reg, key, told, hidden, logins>>

Init ==
    /\ part \in {"messages", "delivery", "typing", "presence"}
    /\ M!Init /\ D!Init /\ T!Init /\ P!Init

Next ==
    /\ UNCHANGED part
    /\ \/ part = "messages" /\ M!Next /\ UNCHANGED <<deliveryVars, typingVars, presenceVars>>
       \/ part = "delivery" /\ D!Next /\ UNCHANGED <<storeVars, typingVars, presenceVars>>
       \/ part = "typing" /\ T!Next /\ UNCHANGED <<storeVars, deliveryVars, presenceVars>>
       \/ part = "presence" /\ P!Next /\ UNCHANGED <<storeVars, deliveryVars, typingVars>>

Spec == Init /\ [][Next]_<<part, storeVars, deliveryVars, typingVars, presenceVars>>

-----------------------------------------------------------------------------
\* Every send or delete that was started ends: the row locks of
\* messages.service.ts are taken in one order.
HandlersReturn == part = "messages" /\ M!Fairness => M!HandlersReturn

\* Every stored message is eventually sent to or queued for every recipient,
\* although fetchSockets and queue.add may reject.
DeliveryEnds == part = "delivery" /\ D!Fairness => D!DeliveryEnds

\* Every typing:start is followed by a typing:stop, whatever starts, timers and
\* disconnects of the user's sockets overlap, unless the node crashed.
TypingEnds == part = "typing" /\ T!Fairness => T!TypingEnds

\* Whatever connects, disconnects, failures and beats overlap, the presence key
\* goes once the user has no live socket and comes back while they have one.
PresenceFollows == part = "presence" /\ P!Fairness => P!PresenceFollows
=============================================================================
