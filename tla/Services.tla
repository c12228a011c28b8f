------------------------------ MODULE Services -------------------------------
(* Three components that share no state, side by side: Reactions (R), Keys *)
(* (K) and RateLimits (T), the last with the counters of the throttler and *)
(* of the route guard, which a request passes in this order.               *)
EXTENDS Integers, Sequences

CONSTANTS
    User, Emoji, Request, MaxCalls, None,          \* Reactions
    Receiver, Upload, MaxVersion,                  \* Keys
    Visit, Throttle, Route, Limit, Window, MaxCount    \* RateLimits

ASSUME ServicesAssumption ==
    /\ None \notin User \cup Request
    /\ 0 \notin Upload
    /\ {Limit, Window} \subseteq Nat \ {0} /\ MaxCount \in Nat

VARIABLES
    reactions, deleted, lock, reactReq, reactCalls, view, late, crossed,
    stored, up, overlapped, version,
    counter, ttl, limitReq, passed, hits, lost

R == INSTANCE Reactions WITH req <- reactReq, calls <- reactCalls

K == INSTANCE Keys

T == INSTANCE RateLimits WITH req <- limitReq, count <- counter, Request <- Visit,
                              Key <- Throttle \cup Route,
                              Caller <- {<<t, k>> : t \in Throttle, k \in Route}

reactVars == <<reactions, deleted, lock, reactReq, reactCalls, view, late, crossed>>

keyVars == <<stored, up, overlapped, version>>

limitVars == <<counter, ttl, limitReq, passed, hits, lost>>

-----------------------------------------------------------------------------

\* Reactions: one reaction per user, although two devices toggle at once.
OneReactionPerUser == R!OneReactionPerUser

\* Reactions: a deleted message keeps a reaction only of a call that overlapped
\* the DELETE of the others.
DeletedHasNone == R!DeletedHasNone

\* Reactions: the broadcasts add up to the table.
ViewIsTable == R!ViewIsTable

\* Keys: an upload of sender keys is stored whole.
UploadIsWhole == K!UploadIsWhole

\* Keys: and replaces what was stored, unless the two overlapped.
UploadReplaces == K!UploadReplaces

\* RateLimits: fewer than twice the limit pass in any window's time.
FewerThanTwice == T!FewerThanTwice

\* RateLimits: a counter counts the hits of one window's time.
CountIsRecent == T!CountIsRecent
=============================================================================
