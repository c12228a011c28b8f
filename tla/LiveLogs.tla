------------------------------ MODULE LiveLogs -------------------------------
(* LivekitLogs (L) under names of its own, to be put beside other          *)
(* components.                                                             *)
EXTENDS Integers

CONSTANTS
    Guest, Worker, MaxRooms, MaxSessions, MaxEnters, MaxRepeats, Nobody

ASSUME LiveLogsAssumption == Nobody \notin Guest

VARIABLES liveRoom, sent, count, logs, liveReq, liveCalls, ended, excused

L == INSTANCE LivekitLogs WITH room <- liveRoom, req <- liveReq, calls <- liveCalls,
                               User <- Guest, Request <- Worker, MaxCalls <- MaxRooms,
                               None <- Nobody

liveVars == <<liveRoom, sent, count, logs, liveReq, liveCalls, ended, excused>>

-----------------------------------------------------------------------------

\* LivekitLogs: room_started inserts no log beside an open one it could see.
StartedReuses == L!StartedReuses

\* LivekitLogs: room_finished leaves no log of its session open.
FinishedCloses == L!FinishedCloses

\* LivekitLogs: a user whose webhooks were handled in order is not left behind
\* in a log.
NobodyLeftBehind == L!NobodyLeftBehind
=============================================================================
