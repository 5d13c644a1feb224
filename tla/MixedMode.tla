----------------------------- MODULE MixedMode -----------------------------
(***************************************************************************)
(* The server and command-line processes on one state file: jobs that run  *)
(* lastbeat ping or fail while lastbeat serve does the sweeping, or while  *)
(* it is stopped.  The server reads the file when it starts and never      *)
(* again; the processes know nothing of the server.  All of them may die   *)
(* at any step; a power loss that takes the file back is left out, as it   *)
(* is in Serve and in Daemonless.                                          *)
(***************************************************************************)
EXTENDS Serve

CONSTANTS Proc, NoRun, MaxRuns      \* as in Daemonless

VARIABLES
  run, runs, cliRaised, sent, cliAcked, solo, updatedAt,   \* as in Daemonless
  apart,     \* history: the processes that have had no server beside them
  offline,   \* history: per check, the latest contact of such a process that
             \* exited 0
  served     \* history: per check, the latest contact answered since the start

Cli == INSTANCE Daemonless WITH raised <- cliRaised, acked <- cliAcked

\* The processes and the server load one configuration, of the checks in Name.
ASSUME MixedAssumption ==
  /\ Configured(Cfg) = Name
  /\ NoRun \notin Cli!Process
  /\ MaxRuns \in Nat

cliVars   == << run, runs, cliRaised, sent, cliAcked, solo, updatedAt >>
serveVars == << st, server, req, raised, acked, behind, called, counters >>
mixedVars == << vars, cliVars, apart, offline, served >>

MixedInit ==
  /\ Init /\ Cli!Init
  /\ apart = {}
  /\ offline = [n \in Name |-> ZeroTime] /\ served = offline

ServerMoves ==
  /\ Next
  /\ apart' = IF Up' THEN {} ELSE apart
  /\ served' = [n \in Name |->
       IF ~Up' THEN ZeroTime ELSE IF acked'[n] # acked[n] THEN acked'[n] ELSE served[n]]
  /\ UNCHANGED << cliVars, offline >>

Started(p) == ~Cli!Running(p) /\ Cli!Running(p)'

CommandMoves(p) ==
  /\ Cli!Step(p)
  /\ apart' = IF Started(p) THEN (IF Up THEN apart \ {p} ELSE apart \cup {p}) ELSE apart
  /\ offline' = [n \in Name |->
       IF p \in apart /\ solo'[n] # solo[n] THEN solo'[n] ELSE offline[n]]
  /\ UNCHANGED << serveVars, served >>

MixedNext == ServerMoves \/ \E p \in Proc : CommandMoves(p)

MixedSpec == MixedInit /\ [][MixedNext]_mixedVars

-----------------------------------------------------------------------------
(***************************************************************************)
(* Properties.                                                             *)
(***************************************************************************)

\* Switching between the two modes is safe: a contact recorded by a process
\* that ran while there was no server (and no other process) is in the file,
\* and in the server that starts later, whichever processes die or start after it.
OfflineContactsKept ==
  \A n \in Name :
    /\ file[n].lastPing >= offline[n]
    /\ Up => st[n].lastPing >= offline[n]

\* What processes write beside a running server does not reach its memory:
\* contacts that it has answered stay recorded there as long as it runs.
\* (Not longer: a process may save what it loaded before, and a server that dies
\* and is started again goes back to that.)
ServedContactsKept == \A n \in Name : Up => st[n].lastPing >= served[n]

\* README.md: ping will "record a heartbeat directly in the state file", with
\* the sweeping left to "cron this, or use serve".
HeartbeatsRecorded == \A n \in Name : file[n].lastPing >= cliAcked[n]
=============================================================================
