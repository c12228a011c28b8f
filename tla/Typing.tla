------------------------------- MODULE Typing --------------------------------
(***************************************************************************)
(* The typing indicator of one user in one channel: typing:start,          *)
(* typing:stop, the timer and the disconnect in socket.gateway.ts, and the *)
(* user's entry in zevra:typing:{channelId} (redis-cache.service.ts).      *)
(*                                                                         *)
(* typingTimeouts maps a socket to its timer.  A start awaits setTyping    *)
(* between clearing the old timer and setting its own, so two starts of a  *)
(* socket may overlap and a timer may drop out of the map while it runs.   *)
(***************************************************************************)
EXTENDS Integers

CONSTANTS
    Socket,     \* the user's connected sockets
    MaxTyping   \* bound: typing:start events

VARIABLES
    open,      \* client.connected
    start,     \* typing:start handlers awaiting setTyping
    entry,     \* typingTimeouts[s]: none, running, cleared (still in the map)
    loose,     \* running timers no longer in the map
    shown,     \* what the channel heard last: start, stop; lost with a crash
    listed,    \* the entry in Redis, which expires
    typed      \* typing:start events so far

vars == <<open, start, entry, loose, shown, listed, typed>>

Init ==
    /\ open = [s \in Socket |-> TRUE]
    /\ start = [s \in Socket |-> 0]
    /\ entry = [s \in Socket |-> "none"]
    /\ loose = [s \in Socket |-> 0]
    /\ shown = "stop"
    /\ listed = FALSE
    /\ typed = 0

\* The best-effort commands of redis-cache.service.ts: an entry added, removed.
SetTyping(ok) == listed' = (listed \/ ok)

ClearTyping(ok) == listed' = (listed /\ ~ok)

\* Up to the await: the timer of an earlier start is cleared but stays in the
\* map.
TypingStart(s, ok) ==
    /\ open[s]
    /\ typed < MaxTyping
    /\ typed' = typed + 1
    /\ entry' = [entry EXCEPT ![s] = IF @ = "running" THEN "cleared" ELSE @]
    /\ start' = [start EXCEPT ![s] = @ + 1]
    /\ SetTyping(ok)
    /\ UNCHANGED <<open, loose, shown>>

\* Mutant: typing:start forgets the timer.
StartNoTimer(s) ==
    /\ start[s] > 0
    /\ start' = [start EXCEPT ![s] = @ - 1]
    /\ shown' = "start"
    /\ UNCHANGED <<open, entry, loose, listed, typed>>

\* After it: announced, and a new timer takes the map's place.
TypingShown(s) ==
    /\ start[s] > 0
    /\ start' = [start EXCEPT ![s] = @ - 1]
    /\ shown' = "start"
    /\ loose' = [loose EXCEPT ![s] = IF entry[s] = "running" THEN @ + 1 ELSE @]
    /\ entry' = [entry EXCEPT ![s] = "running"]
    /\ UNCHANGED <<open, listed, typed>>

\* stopTyping: clearTyping is not awaited.
StopTyping(ok) == shown' = "stop" /\ ClearTyping(ok)

TypingStop(s, ok) ==
    /\ open[s]
    /\ entry' = [entry EXCEPT ![s] = "none"]
    /\ StopTyping(ok)
    /\ UNCHANGED <<open, start, loose, typed>>

\* A timer fires after 6 s: it deletes the map's entry, whosever that is.
TypingTimeout(s, ok) ==
    /\ \/ entry[s] = "running" /\ UNCHANGED loose
       \/ /\ loose[s] > 0
          /\ loose' = [loose EXCEPT ![s] = IF entry[s] = "running" THEN @ ELSE @ - 1]
    /\ entry' = [entry EXCEPT ![s] = "none"]
    /\ StopTyping(ok)
    /\ UNCHANGED <<open, start, typed>>

\* handleDisconnect: clearTypingFor stops what is in the map.
ClearTypingFor(s, ok) ==
    /\ open[s]
    /\ open' = [open EXCEPT ![s] = FALSE]
    /\ entry' = [entry EXCEPT ![s] = "none"]
    /\ IF entry[s] = "none" THEN UNCHANGED <<shown, listed>> ELSE StopTyping(ok)
    /\ UNCHANGED <<start, loose, typed>>

\* The node dies with its handlers and timers.
Crash(s) ==
    /\ open[s]
    /\ open' = [open EXCEPT ![s] = FALSE]
    /\ start' = [start EXCEPT ![s] = 0]
    /\ entry' = [entry EXCEPT ![s] = "none"]
    /\ loose' = [loose EXCEPT ![s] = 0]
    /\ shown' = IF shown = "start" /\ (entry[s] # "none" \/ loose[s] > 0) THEN "lost" ELSE shown
    /\ UNCHANGED <<listed, typed>>

\* The entry's 6 s are over: getTypingUsers removes it.
EntryExpires ==
    /\ listed
    /\ listed' = FALSE
    /\ UNCHANGED <<open, start, entry, loose, shown, typed>>

Next ==
    \/ \E s \in Socket :
          \/ \E ok \in BOOLEAN :
                \/ TypingStart(s, ok) \/ TypingStop(s, ok)
                \/ TypingTimeout(s, ok) \/ ClearTypingFor(s, ok)
          \/ TypingShown(s) \/ Crash(s)
    \/ EntryExpires

Spec == Init /\ [][Next]_vars

\* Handlers, timers and time go on; clients need not do anything.
Fairness ==
    /\ \A s \in Socket : WF_vars(TypingShown(s)) /\ WF_vars(\E ok \in BOOLEAN : TypingTimeout(s, ok))
    /\ WF_vars(EntryExpires)

-----------------------------------------------------------------------------
\* API.md:309 "Server auto-stops after 6 s or on disconnect": a typing:start is
\* followed by a typing:stop, from the client, the timer or the disconnect,
\* although overlapping starts replace each other's timer and a start may finish
\* after its socket is gone.  Only a crash leaves the indicator to the clients.
TypingEnds ==
    shown = "start" ~> shown # "start"
=============================================================================
