----------------------------- MODULE MessageLog -----------------------------
(***************************************************************************)
(* What a channel's message store promises, without transactions, locks or *)
(* caches: messages are appended one at a time, a position never changes,  *)
(* a message may be erased once and for all, and the preview is the last   *)
(* message that is not erased.                                             *)
(***************************************************************************)
EXTENDS Integers, Sequences

CONSTANTS MessageId, None

VARIABLES log, erased, preview

logVars == <<log, erased, preview>>

\* The last message of l that is not in gone.
LastLive(l, gone) ==
    LET live == {i \in 1 .. Len(l) : l[i] \notin gone}
    IN  IF live = {} THEN None
        ELSE l[CHOOSE i \in live : \A j \in live : j <= i]

LogInit == log = <<>> /\ erased = {} /\ preview = None

Post(m) ==
    /\ \A i \in 1 .. Len(log) : log[i] # m
    /\ log' = Append(log, m)
    /\ preview' = m
    /\ UNCHANGED erased

Erase(m) ==
    /\ \E i \in 1 .. Len(log) : log[i] = m
    /\ m \notin erased
    /\ erased' = erased \cup {m}
    /\ preview' = LastLive(log, erased')
    /\ UNCHANGED log

LogNext == \E m \in MessageId : Post(m) \/ Erase(m)

LogSpec == LogInit /\ [][LogNext]_logVars
=============================================================================
