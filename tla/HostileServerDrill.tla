------------------------- MODULE HostileServerDrill -------------------------
(***************************************************************************)
(* tests/hostile_server_drill.py: for one entry of MODES the servers on    *)
(* the Pi are stopped, the rogue is started in their place, the board is   *)
(* reset, and the verdict line it prints decides the entry.  The board's   *)
(* earlier run is over when the entry begins; the one that a replay is     *)
(* recorded from may still go on when the servers are exchanged again.  An *)
(* ssh command that fails is not noticed.                                  *)
(***************************************************************************)
EXTENDS PqcClient, PqcServer, RogueServer

CONSTANTS
  Board,        \* the device on the serial port
  MaxSshFaults  \* bound: how many ssh commands fail

\* The board runs the firmware's two modes, and a key pair made on the spot is not
\* the pinned one.
ASSUME DrillAssumption ==
  /\ Board \in Device /\ MaxSshFaults \in Nat
  /\ Runs = <<"MLKEM768", "MLKEM768_FS">>
  /\ \A c \in Conn : Pinned[Board] # Fresh("impostor-key", c)

VARIABLES
  entry,      \* the mode of the MODES entry
  primed,     \* the entry's recording round is over, or it has none
  booted,     \* the entry has reset the board
  step,       \* where in the loop's body the script is
  heard,      \* mode A's and mode B's result on the verdict line, <<>>: no line
  graded,     \* the mark the entry got
  sshFaults

drillVars == <<entry, primed, booted, step, heard, graded, sshFaults>>

DrillStep == {"clear", "stop", "start", "reset", "capture", "evaluate",
              "restore", "over"}

fs_only == entry \in FS_ONLY_MODES
connections == IF fs_only THEN 2 ELSE 1

DrillInit ==
  /\ entry \in RogueMode
  /\ primed = (entry # "replay")
  /\ booted = FALSE
  /\ step = IF entry = "replay" THEN "clear" ELSE "stop"
  /\ heard = <<>> /\ graded = "none" /\ sshFaults = 0

\* An ssh command: it does its work, or fails and the script goes on all the same.
Ssh(next, work, nothing) ==
  /\ step' = next
  /\ \/ work /\ UNCHANGED sshFaults
     \/ /\ sshFaults < MaxSshFaults
        /\ sshFaults' = sshFaults + 1
        /\ nothing
  /\ UNCHANGED <<entry, primed, booted, heard, graded>>

rogueIdle == UNCHANGED <<netVars, rogueVars>>
serverIdle == UNCHANGED srvVars

\* rm -f .replay_capture.bin, before the recording round.
ClearStore ==
  /\ step = "clear"
  /\ Ssh("stop",
         store' = NoTerm /\ UNCHANGED <<netVars, rpc, mode, left, r_conn, attacked>>,
         rogueIdle)
  /\ UNCHANGED <<cliVars, srvVars>>

\* pkill of both programs; the kernel closes what they held.  It comes before a
\* rogue is started, and once more at the end.
stop_servers ==
  /\ step = "stop"
  /\ Ssh(IF graded = "none" THEN "start" ELSE "restore",
         /\ ProcessEnds("killed")
         /\ rpc' = "down" /\ left' = 0 /\ r_conn' = NoConn
         /\ UNCHANGED <<ephFiles, exits, kills, mode, store, attacked>>,
         rogueIdle /\ serverIdle)
  /\ UNCHANGED cliVars

\* A rogue that finds the port taken ends at once.
start_rogue ==
  /\ step = "start"
  /\ Ssh("reset",
         IF listening THEN rogueIdle
         ELSE /\ rpc' = "accept" /\ mode' = entry /\ left' = connections
              /\ listening' = TRUE
              /\ UNCHANGED <<link, backlog, cut, disturbed>>
              /\ UNCHANGED <<r_conn, store, attacked>>,
         rogueIdle)
  /\ UNCHANGED <<cliVars, srvVars>>

\* The first half of reset_and_capture.  A board whose run is over, or has not
\* begun, starts one.
ResetBoard ==
  /\ step = "reset"
  /\ step' = "capture"
  /\ booted' = TRUE
  /\ \/ Reset(Board)
     \/ /\ cpc[Board] = "idle" /\ results[Board] = <<>>
        /\ UNCHANGED <<netVars, cliVars>>
  /\ UNCHANGED <<entry, primed, heard, graded, sshFaults>>
  /\ UNCHANGED <<srvVars, rogueVars>>

\* The second half: it listens until the verdict line, or for 30 s.  Nobody looks
\* at what the recording round printed.
Capture ==
  /\ step = "capture"
  /\ IF primed
     THEN /\ step' = "evaluate"
          /\ heard' = IF cpc[Board] = "done" THEN results[Board] ELSE <<>>
          /\ UNCHANGED primed
     ELSE step' = "stop" /\ primed' = TRUE /\ UNCHANGED heard
  /\ UNCHANGED <<entry, booted, graded, sshFaults>>
  /\ UNCHANGED <<netVars, cliVars, srvVars, rogueVars>>

\* Fault: in a mode B attack the result of mode A is looked at.
AcceptedModeA == IF fs_only THEN heard = <<>> \/ heard[1] ELSE heard = <<TRUE, TRUE>>
\* What evaluate takes for an accepting firmware: "mode B FAILED" is missing, or
\* "session completed" is there.
Accepted == IF fs_only THEN heard = <<>> \/ heard[2] ELSE heard = <<TRUE, TRUE>>

\* Without "session failed" there is no pass either.
evaluate ==
  /\ step = "evaluate"
  /\ graded' = IF Accepted \/ heard = <<>> THEN "FAIL" ELSE "ok"
  /\ step' = "stop"
  /\ UNCHANGED <<entry, primed, booted, heard, sshFaults>>
  /\ UNCHANGED <<netVars, cliVars, srvVars, rogueVars>>

\* After the last entry the real server is started again.
start_real ==
  /\ step = "restore"
  /\ Ssh("over",
         IF listening THEN serverIdle /\ UNCHANGED netVars
         ELSE /\ spc' = "accept" /\ listening' = TRUE
              /\ UNCHANGED <<link, backlog, cut, disturbed>>
              /\ UNCHANGED <<conn, locals, ephFiles, table, exits, kills,
                             serverHistory>>,
         serverIdle /\ UNCHANGED netVars)
  /\ UNCHANGED <<rogueVars, cliVars>>

Drill == \/ ClearStore \/ stop_servers \/ start_rogue \/ ResetBoard \/ Capture
         \/ evaluate \/ start_real
=============================================================================
