----------------------------- MODULE RateLimits ------------------------------
(***************************************************************************)
(* The fixed-window limits: rate-limit.service.ts (socket events),         *)
(* redis-rate-limiter.ts with the throttler storage and the route guard    *)
(* (HTTP).  Both run the same script on a Redis counter that expires.      *)
(*                                                                         *)
(* A caller is the sequence of counters a request passes: the throttler's, *)
(* then those of the route guard, one await each.  Redis keeps its keys    *)
(* through an outage.                                                      *)
(***************************************************************************)
EXTENDS Integers, Sequences, FiniteSets

CONSTANTS
    Key,       \* counters
    Caller,    \* sequences of keys
    Request,   \* requests being served at once
    Limit,     \* maxRequests
    Window,    \* windowMs, in ticks
    MaxCount   \* bound: hits on a counter in one window

VARIABLES
    count,     \* the counters; 0: no key
    ttl,       \* ticks until a key expires; 0: none
    req,       \* requests: the counters still to pass
    passed,    \* history: by key, the hits allowed in the last Window ticks, each
               \* with its age and the count it made (which no other hit of that
               \* age made: a counter starts again only when time passes)
    hits,      \* history: the same of all hits
    lost       \* history: keys that lost their TTL since they were made

vars == <<count, ttl, req, passed, hits, lost>>

Init ==
    /\ count = [k \in Key |-> 0]
    /\ ttl = [k \in Key |-> 0]
    /\ req = [r \in Request |-> <<>>]
    /\ passed = [k \in Key |-> {}]
    /\ hits = [k \in Key |-> {}]
    /\ lost = {}

\* canActivate and getTracker choose the counters.
Arrive(r, c) ==
    /\ req[r] = <<>>
    /\ req' = [req EXCEPT ![r] = c]
    /\ UNCHANGED <<count, ttl, passed, hits, lost>>

\* Mutant: every hit restarts the window.
PexpireAlways(k) == Window

\* The script after INCR: PEXPIRE on the first hit, or if the TTL was lost.
Pexpire(k) == IF count[k] = 0 \/ ttl[k] = 0 THEN Window ELSE ttl[k]

\* Mutant: one hit too many.
AllowedOneMore(n) == n <= Limit + 1

Allowed(n) == n <= Limit

\* checkRateLimit, hit and increment: the script, then the verdict.  A request
\* that is refused goes no further.
Hit(r) ==
    LET k == Head(req[r])
        n == count[k] + 1
        ok == Allowed(n)
    IN  /\ req[r] # <<>>
        /\ count[k] < MaxCount
        /\ count' = [count EXCEPT ![k] = n]
        /\ ttl' = [ttl EXCEPT ![k] = Pexpire(k)]
        /\ hits' = [hits EXCEPT ![k] = @ \cup {<<0, n>>}]
        /\ passed' = IF ok THEN [passed EXCEPT ![k] = @ \cup {<<0, n>>}] ELSE passed
        /\ req' = [req EXCEPT ![r] = IF ok THEN Tail(@) ELSE <<>>]
        /\ UNCHANGED lost

\* Redis is unavailable: the limit is not enforced.
FailOpen(r) ==
    /\ req[r] # <<>>
    /\ req' = [req EXCEPT ![r] = Tail(@)]
    /\ UNCHANGED <<count, ttl, passed, hits, lost>>

\* The script provides for a key without a TTL.
LoseTtl(k) ==
    /\ ttl[k] # 0
    /\ k \notin lost
    /\ ttl' = [ttl EXCEPT ![k] = 0]
    /\ lost' = lost \cup {k}
    /\ UNCHANGED <<count, req, passed, hits>>

Older(h) == [k \in Key |-> {<<p[1] + 1, p[2]>> : p \in {q \in h[k] : q[1] + 1 < Window}}]

\* Time passes; a key whose time is up is gone.
Tick ==
    LET gone == {k \in Key : ttl[k] = 1}
    IN  /\ ttl' = [k \in Key |-> IF ttl[k] = 0 THEN 0 ELSE ttl[k] - 1]
        /\ count' = [k \in Key |-> IF k \in gone THEN 0 ELSE count[k]]
        /\ lost' = lost \ gone
        /\ passed' = Older(passed)
        /\ hits' = Older(hits)
        /\ UNCHANGED req

Next ==
    \/ \E r \in Request : (\E c \in Caller : Arrive(r, c)) \/ Hit(r) \/ FailOpen(r)
    \/ \E k \in Key : LoseTtl(k)
    \/ Tick

Spec == Init /\ [][Next]_vars

-----------------------------------------------------------------------------
TypeOK ==
    /\ count \in [Key -> 0 .. MaxCount]
    /\ ttl \in [Key -> 0 .. Window]
    /\ lost \subseteq Key

\* The limits are per fixed window, so a burst across two of them passes; in any
\* Window ticks a counter still allows fewer than twice its limit, because the
\* first hit of a window opens it.
FewerThanTwice ==
    \A k \in Key : Cardinality(passed[k]) < 2 * Limit

\* A counter that kept its TTL counts hits of the last Window ticks only: hits
\* that are refused do not prolong the window, and nobody is refused for older
\* ones.
CountIsRecent ==
    \A k \in Key \ lost : count[k] <= Cardinality(hits[k])
=============================================================================
