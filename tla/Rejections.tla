----------------------------- MODULE Rejections -----------------------------
(***************************************************************************)
(* The two halves of the repository's rejection testing, each with the     *)
(* real program it is pointed at: the firmware against a hostile server    *)
(* (HostileServerDrill), and the gateway against a hostile client          *)
(* (TestClient).  A behaviour is one of the two, chosen at the start.      *)
(***************************************************************************)
EXTENDS HostileServerDrill, TestClient, SequencesExt

\* The test client has a connection of its own and an id that is in no table, and
\* draws a PSK that the first device does not have.
ASSUME RejectionsAssumption ==
  /\ Tester \in Device \ {Board} /\ FirstDevice \in Device
  /\ InitTable[Tester] = NoPsk
  /\ InitTable[FirstDevice] # Fresh("random-psk", tconn)

VARIABLE lab   \* "drill" or "client"

vars == <<netVars, cliVars, srvVars, rogueVars, drillVars, testVars, lab>>

Init == /\ NetInit /\ ClientInit /\ ServerInit /\ RogueInit /\ DrillInit /\ TestInit
        /\ lab \in {"drill", "client"}
        /\ lab = "drill" => t_case = "happy-path" /\ t_suite = "MLKEM768"
        /\ lab = "client" => entry = "silence"
        /\ store # NoTerm => entry = "replay"   \* no other mode reads it

\* The drill is on: the script, the board, and whichever server listens.  The
\* board runs from the entry's first reset, and until the entry has its mark.
ScriptStep == lab = "drill" /\ Drill
BoardStep == /\ lab = "drill"
             /\ booted /\ graded = "none"
             /\ ClientStep(Board)
             /\ UNCHANGED <<srvVars, rogueVars, drillVars>>
RogueServes == /\ lab = "drill"
               /\ RogueStep
               /\ UNCHANGED <<cliVars, srvVars, drillVars>>
\* A test client run is on.
TesterStep == /\ lab = "client"
              /\ TestStep
              /\ UNCHANGED <<cliVars, srvVars, rogueVars, drillVars, lab>>
\* The gateway, in either.
GatewayStep == /\ Accept \/ HandleStep
               /\ UNCHANGED <<cliVars, rogueVars, drillVars, testVars, lab>>
GatewayEnds == /\ lab = "client"
               /\ UncaughtException
               /\ UNCHANGED <<cliVars, rogueVars, drillVars, testVars, lab>>

Next == \/ (ScriptStep \/ BoardStep \/ RogueServes) /\ UNCHANGED <<testVars, lab>>
        \/ TesterStep \/ GatewayStep \/ GatewayEnds

Spec == Init /\ [][Next]_vars

TypeOK ==
  /\ NetTypeOK /\ ClientTypeOK /\ ServerTypeOK
  /\ rpc \in {"down", "accept", "read", "stay"}
  /\ left \in 0 .. 2 /\ (rpc = "down" <=> left = 0)
  /\ r_conn \in Conn \cup {NoConn} /\ (r_conn # NoConn <=> rpc \in {"read", "stay"})
  /\ listening <=> (spc # "down" \/ rpc # "down")
  /\ attacked \subseteq Conn
  /\ step \in DrillStep /\ graded \in {"none", "ok", "FAIL"}
  /\ heard = <<>> \/ heard \in [1 .. 2 -> BOOLEAN]
  /\ sshFaults \in 0 .. MaxSshFaults
  /\ tpc \in {"start", "hello", "await", "records", "over"}
  /\ t_verdict \in {"none", "passed", "crashed", "accepted", "rejected"}

\* "Every one of these must end with the firmware refusing to send data"
\* (rogue_server.py:32), whatever the board was doing when the rogue took over:
\* on a connection the rogue attacked no keys are agreed, nothing is
\* encapsulated and no record is written.
FirmwareRefuses ==
  \A c \in attacked : /\ established[c] = NotAgreed
                      /\ sent[c] = <<>>
                      /\ \A e \in encapsulated : e[1] # c

\* The drill blames no firmware that printed its verdict, as long as its ssh
\* commands worked: what evaluate reads on the verdict line tells an accepting
\* firmware from one that refused, in the rounds of one connection and of two.
DrillAccusesNobody ==
  graded = "FAIL" => heard = <<>> \/ sshFaults > 0

\* What the gateway may deliver and accept of each case: the good records before
\* the bad one, in order and once, and nothing from a peer that failed a check.
MayDeliver == CASE t_case = "happy-path" -> <<0, 1, 2>>
                [] t_case = "replayed-data-record" -> <<0>>
                [] OTHER -> <<>>

\* The gateway refuses each of the six wrong clients where it must, in both
\* suites and however their frames and its reads interleave: forged, unknown and
\* wrong-PSK clients get no handshake, and a bad record is never delivered.
ServerRefuses ==
  /\ IsPrefix(delivered[tconn], MayDeliver)
  /\ accepted[tconn] # NotAccepted =>
       t_case \in {"happy-path", "replayed-data-record", "tampered-ciphertext"}
  /\ t_verdict # "accepted"

\* "A pass means the firmware refused" (hostile_server_drill.py:111): in a round
\* that serves mode A no honest handshake, a pass means no session succeeded.
PassMeansRefused ==
  graded = "ok" /\ ~fs_only => \A i \in DOMAIN heard : ~heard[i]

\* The cases that write a bad record "expect the connection to be gone"
\* (test_client.py:247): they print "rejected" of a gateway that has closed it.
RejectedMeansRefused ==
  t_verdict = "rejected" /\ t_sent > 0 /\ t_sent = Len(Writes)
    => link[tconn].srv = "closed"
=============================================================================
