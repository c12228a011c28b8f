----------------------------- MODULE MCServices ------------------------------
(* Four components that share no state, for TLC: Reactions, Keys,          *)
(* LivekitLogs and RateLimits.  A behaviour is one of one of them, which   *)
(* Init chooses, so their states add up and do not multiply.               *)
EXTENDS Services, LiveLogs, TLC

VARIABLE part

Init ==
    /\ part \in {"reactions", "keys", "livekit", "limits"}
    /\ R!Init /\ K!Init /\ L!Init /\ T!Init

Next ==
    /\ UNCHANGED part
    /\ \/ part = "reactions" /\ R!Next /\ UNCHANGED <<keyVars, liveVars, limitVars>>
       \/ part = "keys" /\ K!Next /\ UNCHANGED <<reactVars, liveVars, limitVars>>
       \/ part = "livekit" /\ L!Next /\ UNCHANGED <<reactVars, keyVars, limitVars>>
       \/ part = "limits" /\ T!Next /\ UNCHANGED <<reactVars, keyVars, liveVars>>

Spec == Init /\ [][Next]_<<part, reactVars, keyVars, liveVars, limitVars>>

Symmetry == Permutations(Worker) \cup Permutations(Visit)
=============================================================================
