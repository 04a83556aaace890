---------------------------- MODULE RejectionsProofs ----------------------------
(***************************************************************************)
(* Proofs about the two halves of the rejection tests.                     *)
(***************************************************************************)
EXTENDS Rejections, PqcTypeProofs

RejTyped ==
  /\ TypeInv
  /\ lab \in {"drill", "client"}
  /\ rpc \in {"down", "accept", "read", "stay"}
  /\ left \in 0 .. 2 /\ (rpc = "down" <=> left = 0)
  /\ r_conn \in Conn \cup {NoConn} /\ (r_conn # NoConn <=> rpc \in {"read", "stay"})
  /\ listening <=> (spc # "down" \/ rpc # "down")
  /\ spc = "down" \/ rpc = "down"
  /\ lab = "client" => rpc = "down"
  /\ attacked \subseteq Conn
  /\ entry \in RogueMode
  /\ step \in DrillStep /\ graded \in {"none", "ok", "FAIL"}
  /\ heard = <<>> \/ heard \in [1 .. 2 -> BOOLEAN]
  /\ sshFaults \in 0 .. MaxSshFaults
  /\ t_case \in Case
  /\ tpc \in {"start", "hello", "await", "records", "over"}
  /\ t_sent \in 0 .. Len(Writes)
  /\ t_verdict \in {"none", "passed", "crashed", "accepted", "rejected"}

LEMMA TypeOKFollows == RejTyped => TypeOK
  BY DEF RejTyped, TypeOK, TypeInv, EndsTypeOK

LEMMA TesterIsConn ==
  /\ tconn \in Conn /\ tconn # NoConn /\ NoConn \notin Conn
  /\ Board \in Device /\ Tester \in Device /\ Board # Tester
<1>1. Board \in Device /\ Tester \in Device /\ Board # Tester /\ MaxConn \in Nat \ {0}
  BY RejectionsAssumption, DrillAssumption, NetAssumption
<1>2. 1 \in 1 .. MaxConn
  BY <1>1
<1> QED
  BY <1>1, <1>2 DEF tconn, Conn, NoConn

-----------------------------------------------------------------------------
(***************************************************************************)
(* Types.                                                                  *)
(***************************************************************************)
\* A step of the network alone.
LEMMA NetStepTyped ==
  ASSUME TypeInv, LinkTyped', NetRest', UNCHANGED cliVars, UNCHANGED srvVars
  PROVE  TypeInv'
<1>1. ClientTypeOK' /\ OneConnectionPerRun'
  BY ClientUntouched
<1>2. ServerTypeOK'
  BY DEF srvVars, locals, serverHistory, TypeInv, EndsTypeOK, ServerTypeOK
<1> QED
  BY <1>1, <1>2, Assemble

\* The records a test client writes are numbers.
LEMMA WritesTyped ==
  ASSUME t_case \in Case
  PROVE  /\ Len(Writes) \in 0 .. 3
         /\ \A i \in 1 .. Len(Writes) : Writes[i] \in Nat
<1>1. Writes \in {<<0, 1, 2>>, <<0, 0>>, <<0>>, <<>>}
  BY DEF Writes
<1> QED
  BY <1>1

\* The rogue answers with one frame at most, and never with a record.
LEMMA AnswersShape ==
  ASSUME NEW h
  PROVE  \/ Answers(h) = <<>>
         \/ \E f : Answers(h) = <<f>> /\ f.type # "Data"
<1>1. CASE mode \in {"truncate", "silence"}
  BY <1>1 DEF Answers
<1>2. CASE mode = "bad-type"
  <2>1. Answers(h) = <<Frame("0x42", NoTerm)>>
    BY <1>2 DEF Answers
  <2> QED
    BY <2>1 DEF Frame
<1>3. CASE mode \notin {"truncate", "silence", "bad-type"}
  <2>1. Answers(h) =
          <<Frame("ServerHello", IF Attacks(h) THEN Payload(h) ELSE Honest(h))>>
    BY <1>3 DEF Answers
  <2> QED
    BY <2>1 DEF Frame
<1> QED
  BY <1>1, <1>2, <1>3

\* What the rogue has sent is typed, and so is what it leaves behind.
LEMMA ServedTyped ==
  ASSUME RejTyped, rpc \in {"read", "stay"}, NEW frames, Served(frames),
         \/ frames = <<>>
         \/ \E f : frames = <<f>> /\ f.type # "Data"
  PROVE  /\ LinkTyped'
         /\ left' = left - 1 /\ rpc' \in {"down", "accept"} /\ r_conn' = NoConn
         /\ rpc' = "down" <=> left = 1
         /\ listening' = (left # 1)
         /\ backlog' \in Seq(Conn)
<1> DEFINE queued == {c \in Conn : LastOne /\ link[c].srv = "queued"}
           sent_ == IF ReachesClient(r_conn) THEN frames ELSE <<>>
           After(c) == IF c \in queued \cup {r_conn}
                       THEN [link[c] EXCEPT !.srv = "closed", !.up = <<>>,
                                  !.down = IF c = r_conn THEN @ \o sent_ ELSE @]
                       ELSE link[c]
<1>1. PICK S : LinkIn(S)
  BY DEF RejTyped, TypeInv, LinkTyped
<1>2. PICK T : S \subseteq T /\ frames \in Seq(T) /\ \A f \in T : FrameTyped(f)
  <2>1. CASE frames = <<>>
    BY <1>1, <2>1, EmptySeq DEF LinkIn
  <2>2. ASSUME NEW f, frames = <<f>>, f.type # "Data"
        PROVE  \E T : S \subseteq T /\ frames \in Seq(T) /\ \A g \in T : FrameTyped(g)
    <3>1. frames \in Seq(S \cup {f}) /\ FrameTyped(f)
      BY <2>2 DEF FrameTyped
    <3> QED
      BY <1>1, <3>1 DEF LinkIn
  <2> QED
    BY <2>1, <2>2
<1>3. Seq(S) \subseteq Seq(T)
  BY <1>2, SeqMonotonic
<1>4. ASSUME NEW c \in Conn
      PROVE  After(c) \in LinkShape(T)
  <2>1. link[c] \in LinkShape(T)
    BY <1>1, <1>3 DEF LinkIn, LinkShape
  <2>2. sent_ \in Seq(T)
    BY <1>2, EmptySeq
  <2>3. link[c].down \o sent_ \in Seq(T)
    BY <2>1, <2>2, ConcatProperties DEF LinkShape
  <2> HIDE DEF sent_, queued
  <2>4. (IF c = r_conn THEN link[c].down \o sent_ ELSE link[c].down) \in Seq(T)
    BY <2>1, <2>3 DEF LinkShape
  <2>5. [link[c] EXCEPT !.srv = "closed", !.up = <<>>,
                        !.down = IF c = r_conn THEN @ \o sent_ ELSE @] \in LinkShape(T)
    BY <2>1, <2>4, EmptySeq DEF LinkShape, SrvEnd
  <2> QED
    BY <2>1, <2>5
<1>5. link' = [c \in Conn |-> After(c)]
  BY DEF Served
<1> HIDE DEF After
<1>6. link' \in [Conn -> LinkShape(T)]
  BY <1>4, <1>5
<1>7. LinkTyped'
  BY <1>2, <1>6 DEF LinkIn, LinkTyped, LinkShape
<1>8. backlog' \in Seq(Conn)
  BY EmptySeq DEF Served, RejTyped, TypeInv, EndsTypeOK, NetTypeOK
<1> QED
  BY <1>7, <1>8 DEF Served, LastOne

\* The rest of RejTyped, where a part of it moves.
TestRest == /\ t_case \in Case
            /\ tpc \in {"start", "hello", "await", "records", "over"}
            /\ t_sent \in 0 .. Len(Writes)
            /\ t_verdict \in {"none", "passed", "crashed", "accepted", "rejected"}
ScriptRest == /\ entry \in RogueMode
              /\ step \in DrillStep /\ graded \in {"none", "ok", "FAIL"}
              /\ heard = <<>> \/ heard \in [1 .. 2 -> BOOLEAN]
              /\ sshFaults \in 0 .. MaxSshFaults
RogueRest == /\ rpc \in {"down", "accept", "read", "stay"}
             /\ left \in 0 .. 2 /\ (rpc = "down" <=> left = 0)
             /\ r_conn \in Conn \cup {NoConn}
             /\ (r_conn # NoConn <=> rpc \in {"read", "stay"})
             /\ listening <=> (spc # "down" \/ rpc # "down")
             /\ spc = "down" \/ rpc = "down"
             /\ lab = "client" => rpc = "down"
             /\ attacked \subseteq Conn

LEMMA RejAssemble ==
  ASSUME RejTyped, TypeInv', UNCHANGED lab, RogueRest', ScriptRest', TestRest'
  PROVE  RejTyped'
  BY DEF RejTyped, RogueRest, ScriptRest, TestRest

LEMMA RestKept ==
  ASSUME RejTyped
  PROVE  /\ UNCHANGED drillVars => ScriptRest'
         /\ UNCHANGED testVars => TestRest'
         /\ UNCHANGED <<rogueVars, listening, spc, lab>> => RogueRest'
<1>1. UNCHANGED drillVars => ScriptRest'
  BY DEF RejTyped, ScriptRest, drillVars
<1>2. UNCHANGED testVars => TestRest'
  BY DEF RejTyped, TestRest, testVars, Writes
<1>3. UNCHANGED <<rogueVars, listening, spc, lab>> => RogueRest'
  BY DEF RejTyped, RogueRest, rogueVars
<1> QED
  BY <1>1, <1>2, <1>3

LEMMA NetRestNow == TypeInv => NetRest
  BY DEF TypeInv, EndsTypeOK, NetTypeOK, NetRest

LEMMA LinkTypedKept ==
  ASSUME TypeInv, UNCHANGED link
  PROVE  LinkTyped'
  BY DEF TypeInv, LinkTyped, LinkIn

LEMMA NetKept ==
  ASSUME TypeInv, UNCHANGED netVars
  PROVE  LinkTyped' /\ NetRest'
  BY LinkTypedKept, NetRestNow DEF netVars, NetRest

(* The drill.                                                              *)
LEMMA StopTyped ==
  ASSUME RejTyped, lab = "drill", stop_servers, UNCHANGED <<testVars, lab>>
  PROVE  RejTyped'
<1>1. ScriptRest'
  <2>1. MaxSshFaults \in Nat
    BY DrillAssumption
  <2> QED
    BY <2>1 DEF stop_servers, Ssh, RejTyped, ScriptRest, DrillStep
<1>2. CASE /\ ProcessEnds("killed")
           /\ rpc' = "down" /\ left' = 0 /\ r_conn' = NoConn
           /\ UNCHANGED <<ephFiles, exits, kills, mode, store, attacked>>
  <2>1. ServerTypeOK' /\ LinkTyped' /\ NetRest'
    <3>1. exits \in 0 .. MaxExits /\ kills \in 0 .. MaxKills
      BY DEF RejTyped, TypeInv, EndsTypeOK, ServerTypeOK
    <3> QED
      BY <1>2, <3>1, ProcessEndsTyped DEF RejTyped
  <2>2. ClientTypeOK' /\ OneConnectionPerRun'
    BY ClientUntouched DEF stop_servers, RejTyped
  <2>3. TypeInv'
    BY <2>1, <2>2, Assemble
  <2>4. /\ spc' = "down" /\ rpc' = "down" /\ left' = 0 /\ r_conn' = NoConn
        /\ listening' = FALSE /\ attacked' = attacked
    BY <1>2 DEF ProcessEnds
  <2>5. attacked \subseteq Conn
    BY DEF RejTyped
  <2>6. RogueRest'
    BY <2>4, <2>5 DEF RogueRest
  <2> QED
    BY <1>1, <2>3, <2>6, RestKept, RejAssemble
<1>3. CASE rogueIdle /\ serverIdle
  <2>1. TypeInv'
    BY <1>3, NothingTyped DEF stop_servers, rogueIdle, serverIdle, RejTyped
  <2>2. RogueRest'
    <3>1. UNCHANGED <<rogueVars, listening, spc>>
      BY <1>3 DEF rogueIdle, serverIdle, srvVars, netVars
    <3> QED
      BY <3>1, RestKept
  <2> QED
    BY <1>1, <2>1, <2>2, RestKept, RejAssemble
<1> QED
  BY <1>2, <1>3 DEF stop_servers, Ssh

LEMMA StartRogueTyped ==
  ASSUME RejTyped, lab = "drill", start_rogue, UNCHANGED <<testVars, lab>>
  PROVE  RejTyped'
<1>1. ScriptRest'
  <2>1. MaxSshFaults \in Nat
    BY DrillAssumption
  <2> QED
    BY <2>1 DEF start_rogue, Ssh, RejTyped, ScriptRest, DrillStep
<1>2. UNCHANGED <<cliVars, srvVars>>
  BY DEF start_rogue
<1>3. CASE /\ ~listening
           /\ rpc' = "accept" /\ mode' = entry /\ left' = connections
           /\ listening' = TRUE
           /\ UNCHANGED <<link, backlog, cut, disturbed>>
           /\ UNCHANGED <<r_conn, store, attacked>>
  <2>1. LinkTyped' /\ NetRest'
    BY <1>3, LinkTypedKept, NetRestNow DEF RejTyped, NetRest
  <2>2. TypeInv'
    BY <1>2, <2>1, NetStepTyped DEF RejTyped
  <2>3. RogueRest'
    BY <1>2, <1>3 DEF RejTyped, RogueRest, connections, srvVars
  <2> QED
    BY <1>1, <2>2, <2>3, RestKept, RejAssemble
<1>4. CASE rogueIdle
  <2>1. TypeInv'
    BY <1>2, <1>4, NothingTyped DEF rogueIdle, RejTyped
  <2>2. RogueRest'
    BY <1>2, <1>4, RestKept DEF rogueIdle, srvVars, netVars
  <2> QED
    BY <1>1, <2>1, <2>2, RestKept, RejAssemble
<1> QED
  BY <1>3, <1>4 DEF start_rogue, Ssh

LEMMA RestoreTyped ==
  ASSUME RejTyped, lab = "drill", start_real, UNCHANGED <<testVars, lab>>
  PROVE  RejTyped'
<1>1. ScriptRest'
  <2>1. MaxSshFaults \in Nat
    BY DrillAssumption
  <2> QED
    BY <2>1 DEF start_real, Ssh, RejTyped, ScriptRest, DrillStep
<1>2. UNCHANGED <<cliVars, rogueVars>>
  BY DEF start_real
<1>3. CASE /\ ~listening
           /\ spc' = "accept" /\ listening' = TRUE
           /\ UNCHANGED <<link, backlog, cut, disturbed>>
           /\ UNCHANGED <<conn, locals, ephFiles, table, exits, kills, serverHistory>>
  <2>0. spc = "down" /\ rpc = "down"
    BY <1>3 DEF RejTyped
  <2>1. Restart
    BY <1>3, <2>0 DEF Restart
  <2>2. TypeInv'
    BY <1>2, <2>1, GatewayTyped DEF RejTyped
  <2>3. RogueRest'
    BY <1>2, <1>3, <2>0 DEF RejTyped, RogueRest, rogueVars
  <2> QED
    BY <1>1, <2>2, <2>3, RestKept, RejAssemble
<1>4. CASE serverIdle /\ UNCHANGED netVars
  <2>1. TypeInv'
    BY <1>2, <1>4, NothingTyped DEF serverIdle, RejTyped
  <2>2. RogueRest'
    BY <1>2, <1>4, RestKept DEF serverIdle, srvVars, netVars
  <2> QED
    BY <1>1, <2>1, <2>2, RestKept, RejAssemble
<1> QED
  BY <1>3, <1>4 DEF start_real, Ssh

LEMMA ClearTyped ==
  ASSUME RejTyped, lab = "drill", ClearStore, UNCHANGED <<testVars, lab>>
  PROVE  RejTyped'
<1>1. ScriptRest'
  <2>1. MaxSshFaults \in Nat
    BY DrillAssumption
  <2> QED
    BY <2>1 DEF ClearStore, Ssh, RejTyped, ScriptRest, DrillStep
<1>2. UNCHANGED <<cliVars, srvVars, netVars, rpc, mode, left, r_conn, attacked>>
  BY DEF ClearStore, Ssh, rogueIdle, rogueVars
<1>3. TypeInv'
  BY <1>2, NothingTyped DEF RejTyped
<1>4. RogueRest'
  BY <1>2 DEF RejTyped, RogueRest, netVars, srvVars
<1> QED
  BY <1>1, <1>3, <1>4, RestKept, RejAssemble

\* What a board prints when it is done is the results of both modes.
LEMMA HeardTyped ==
  ASSUME TypeInv, cpc[Board] = "done"
  PROVE  results[Board] \in [1 .. 2 -> BOOLEAN]
<1>1. results[Board] \in Seq(BOOLEAN) /\ Len(results[Board]) = Len(Runs) /\ Len(Runs) = 2
  BY DrillAssumption, TesterIsConn DEF TypeInv, EndsTypeOK, ClientTypeOK
<1> QED
  BY <1>1, LenProperties

LEMMA ScriptTyped ==
  ASSUME RejTyped, ScriptStep, UNCHANGED <<testVars, lab>>
  PROVE  RejTyped'
<1>0. lab = "drill"
  BY DEF ScriptStep
<1>1. CASE ResetBoard
  <2>1. UNCHANGED <<srvVars, rogueVars>>
    BY <1>1 DEF ResetBoard
  <2>2. TypeInv' /\ UNCHANGED listening
    <3>1. CASE Reset(Board)
      BY <2>1, <3>1, DeviceResetTyped, TesterIsConn DEF RejTyped, Reset
    <3>2. CASE UNCHANGED <<netVars, cliVars>>
      BY <2>1, <3>2, NothingTyped DEF RejTyped, netVars
    <3> QED
      BY <1>1, <3>1, <3>2 DEF ResetBoard
  <2>3. ScriptRest'
    BY <1>1 DEF ResetBoard, RejTyped, ScriptRest, DrillStep
  <2>4. RogueRest'
    BY <2>1, <2>2, RestKept DEF srvVars
  <2> QED
    BY <2>2, <2>3, <2>4, RestKept, RejAssemble
<1>2. CASE Capture \/ evaluate
  <2>1. UNCHANGED <<netVars, cliVars, srvVars, rogueVars>>
    BY <1>2 DEF Capture, evaluate
  <2>2. TypeInv'
    BY <2>1, NothingTyped DEF RejTyped
  <2>3. RogueRest'
    BY <2>1, RestKept DEF srvVars, netVars
  <2>4. ScriptRest'
    <3>1. CASE Capture
      <4>1. heard' \in {heard, results[Board], <<>>}
            /\ (heard' = results[Board] /\ heard' # heard => cpc[Board] = "done" \/ heard' = <<>>)
        BY <3>1 DEF Capture
      <4>2. heard' = <<>> \/ heard' \in [1 .. 2 -> BOOLEAN]
        BY <4>1, HeardTyped DEF RejTyped
      <4> QED
        BY <3>1, <4>2 DEF Capture, RejTyped, ScriptRest, DrillStep
    <3>2. CASE evaluate
      BY <3>2 DEF evaluate, RejTyped, ScriptRest, DrillStep
    <3> QED
      BY <1>2, <3>1, <3>2
  <2> QED
    BY <2>2, <2>3, <2>4, RestKept, RejAssemble
<1> QED
  BY <1>0, <1>1, <1>2, ClearTyped, StopTyped, StartRogueTyped, RestoreTyped
     DEF ScriptStep, Drill

(* The board and the rogue.                                                *)
LEMMA BoardTyped ==
  ASSUME RejTyped, BoardStep, UNCHANGED <<testVars, lab>>
  PROVE  RejTyped'
<1>1. UNCHANGED <<srvVars, rogueVars, drillVars>>
  BY DEF BoardStep
<1>2. TypeInv'
  BY <1>1, DeviceStepTyped, TesterIsConn DEF BoardStep, RejTyped
<1>3. UNCHANGED <<listening, spc>>
  BY <1>1 DEF BoardStep, ClientStep, Connect, ConnectFails, SendClientHello, ReadServerHello,
              ReadFails, VerifyServerMac, SendClientFinished, SendRecord, SendClose,
              StepFails, netVars, srvVars
<1>4. RogueRest'
  BY <1>1, <1>3, RestKept
<1> QED
  BY <1>1, <1>2, <1>4, RestKept, RejAssemble

LEMMA RogueTyped ==
  ASSUME RejTyped, RogueServes, UNCHANGED <<testVars, lab>>
  PROVE  RejTyped'
<1>0. /\ lab = "drill" /\ UNCHANGED <<cliVars, srvVars, drillVars>>
      /\ RogueStep
  BY DEF RogueServes
<1>1. CASE RogueAccept
  <2>1. backlog \in Seq(Conn) /\ backlog # <<>>
    BY <1>1 DEF RogueAccept, RejTyped, TypeInv, EndsTypeOK, NetTypeOK
  <2>2. Head(backlog) \in Conn /\ Tail(backlog) \in Seq(Conn)
    BY <2>1, HeadTailProperties
  <2>3. PICK S : LinkIn(S)
    BY DEF RejTyped, TypeInv, LinkTyped
  <2> DEFINE c == Head(backlog)
             rec == [link[c] EXCEPT !.srv = "open"]
  <2>4. rec \in LinkShape(S)
    BY <2>2, <2>3 DEF LinkIn, LinkShape, SrvEnd
  <2>5. link' = [link EXCEPT ![c] = rec]
    BY <2>2, <2>3, <1>1 DEF RogueAccept, LinkIn
  <2>6. LinkTyped'
    BY <2>2, <2>3, <2>4, <2>5, LinkStep
  <2>7. NetRest'
    BY <1>1, <2>2, NetRestNow DEF RogueAccept, NetRest, RejTyped
  <2>8. TypeInv'
    BY <1>0, <2>6, <2>7, NetStepTyped DEF RejTyped
  <2>9. RogueRest'
    <3>1. NoConn \notin Conn
      BY TesterIsConn
    <3> QED
      BY <1>0, <1>1, <2>2, <3>1 DEF RogueAccept, RogueRest, RejTyped, srvVars
  <2> QED
    BY <1>0, <2>8, <2>9, RestKept, RejAssemble
<1>2. ASSUME NEW frames, Served(frames), rpc \in {"read", "stay"},
             \/ frames = <<>>
             \/ \E f : frames = <<f>> /\ f.type # "Data",
             UNCHANGED <<cut, disturbed, mode>>, attacked' \subseteq Conn
      PROVE  RejTyped'
  <2>1. /\ LinkTyped'
        /\ left' = left - 1 /\ rpc' \in {"down", "accept"} /\ r_conn' = NoConn
        /\ rpc' = "down" <=> left = 1
        /\ listening' = (left # 1)
        /\ backlog' \in Seq(Conn)
    BY <1>2, ServedTyped
  <2>2. NetRest'
    BY <1>2, <2>1, NetRestNow DEF NetRest, RejTyped
  <2>3. TypeInv'
    BY <1>0, <2>1, <2>2, NetStepTyped DEF RejTyped
  <2>4. left \in 1 .. 2 /\ spc = "down" /\ spc' = "down" /\ left' \in 0 .. 2
    BY <1>0, <1>2, <2>1 DEF RejTyped, srvVars
  <2>5. rpc' = "down" <=> left' = 0
    BY <2>1, <2>4
  <2>6. RogueRest'
    BY <1>0, <1>2, <2>1, <2>4, <2>5 DEF RogueRest, RejTyped
  <2> QED
    BY <1>0, <2>3, <2>6, RestKept, RejAssemble
<1>3. CASE RogueGivesUp
  BY <1>2, <1>3 DEF RogueGivesUp, RejTyped
<1>4. CASE RogueHandle
  <2> DEFINE h == Head(link[r_conn].up).body
  <2>1. /\ rpc = "read" /\ UNCHANGED <<cut, disturbed, mode>>
        /\ link[r_conn].up # <<>> /\ r_conn \in Conn
        /\ attacked' \subseteq Conn
    BY <1>4 DEF RogueHandle, RejTyped
  <2>2. \/ Answers(h) = <<>>
        \/ \E f : Answers(h) = <<f>> /\ f.type # "Data"
    BY AnswersShape
  <2>3. CASE Served(Answers(h))
    BY <1>2, <2>1, <2>2, <2>3
  <2>4. CASE /\ rpc' = "stay"
             /\ link' = [link EXCEPT ![r_conn].up = Tail(@),
                           ![r_conn].down = IF ReachesClient(r_conn)
                                            THEN @ \o Answers(h) ELSE @]
             /\ UNCHANGED <<left, r_conn, listening, backlog>>
    <3>1. PICK S : LinkIn(S)
      BY DEF RejTyped, TypeInv, LinkTyped
    <3>2. PICK T : S \subseteq T /\ Answers(h) \in Seq(T) /\ \A f \in T : FrameTyped(f)
      <4>1. CASE Answers(h) = <<>>
        BY <3>1, <4>1, EmptySeq DEF LinkIn
      <4>2. ASSUME NEW f, Answers(h) = <<f>>, f.type # "Data"
            PROVE  \E T : /\ S \subseteq T /\ Answers(h) \in Seq(T)
                          /\ \A g \in T : FrameTyped(g)
        <5>1. Answers(h) \in Seq(S \cup {f}) /\ FrameTyped(f)
          <6> HIDE DEF h
          <6>1. <<f>> \in Seq(S \cup {f})
            OBVIOUS
          <6> QED
            BY <4>2, <6>1 DEF FrameTyped
        <5> QED
          BY <3>1, <5>1 DEF LinkIn
      <4> QED
        BY <2>2, <4>1, <4>2
    <3>3. LinkIn(T) /\ link[r_conn] \in LinkShape(T)
      <4>1. Seq(S) \subseteq Seq(T)
        BY <3>2, SeqMonotonic
      <4> QED
        BY <2>1, <3>1, <3>2, <4>1 DEF LinkIn, LinkShape
    <3>4. Tail(link[r_conn].up) \in Seq(T) /\ link[r_conn].down \o Answers(h) \in Seq(T)
      BY <2>1, <3>2, <3>3, HeadTailProperties, ConcatProperties DEF LinkShape
    <3> DEFINE down == IF ReachesClient(r_conn) THEN link[r_conn].down \o Answers(h)
                                                ELSE link[r_conn].down
               rec == [link[r_conn] EXCEPT !.up = Tail(@), !.down = down]
    <3>5. down \in Seq(T)
      BY <3>3, <3>4 DEF LinkShape
    <3>6. link' = [link EXCEPT ![r_conn] = rec]
      BY <2>1, <2>4, <3>3 DEF LinkIn, LinkShape
    <3> HIDE DEF down
    <3>7. rec \in LinkShape(T)
      BY <3>3, <3>4, <3>5 DEF LinkShape
    <3>8. LinkTyped'
      BY <2>1, <3>3, <3>6, <3>7, LinkStep
    <3>9. NetRest'
      BY <2>1, <2>4, NetRestNow DEF NetRest, RejTyped
    <3>10. TypeInv'
      BY <1>0, <3>8, <3>9, NetStepTyped DEF RejTyped
    <3>11. RogueRest'
      BY <1>0, <2>1, <2>4 DEF RogueRest, RejTyped, srvVars
    <3> QED
      BY <1>0, <3>10, <3>11, RestKept, RejAssemble
  <2> QED
    BY <1>4, <2>3, <2>4 DEF RogueHandle
<1> QED
  BY <1>0, <1>1, <1>3, <1>4 DEF RogueStep

(* The test client.                                                        *)
\* Its steps leave everybody else alone.
LEMMA TesterNetTyped ==
  ASSUME RejTyped, TesterStep, LinkTyped', NetRest', UNCHANGED listening, TestRest'
  PROVE  RejTyped'
<1>1. UNCHANGED <<cliVars, srvVars, rogueVars, drillVars, lab>>
  BY DEF TesterStep
<1>2. TypeInv'
  BY <1>1, NetStepTyped DEF RejTyped
<1>3. RogueRest'
  BY <1>1, RestKept DEF srvVars
<1> QED
  BY <1>1, <1>2, <1>3, RestKept, RejAssemble

\* A case ends.
LEMMA TestEndsTyped ==
  ASSUME RejTyped, NEW v, TestEnds(v)
  PROVE  LinkTyped'
<1>1. CASE UNCHANGED link
  BY <1>1, LinkTypedKept DEF RejTyped
<1>2. CASE link' = [link EXCEPT ![tconn].cli = "closed", ![tconn].down = <<>>]
  BY <1>2, TesterIsConn, CloseClientTyped DEF RejTyped, TypeInv, CliEnd
<1> QED
  BY <1>1, <1>2 DEF TestEnds

LEMMA TesterTyped ==
  ASSUME RejTyped, TesterStep
  PROVE  RejTyped'
<1>0. /\ TestStep /\ TypeInv /\ NetRest /\ LinkTyped /\ tconn \in Conn
      /\ t_case \in Case /\ t_sent \in 0 .. Len(Writes)
      /\ Len(Writes) \in 0 .. 3 /\ \A i \in 1 .. Len(Writes) : Writes[i] \in Nat
  BY TesterIsConn, NetRestNow, WritesTyped DEF TesterStep, RejTyped, TypeInv
<1>1. CASE TestConnect
  <2>1. PICK S : LinkIn(S)
    BY <1>0 DEF LinkTyped
  <2> DEFINE rec == [link[tconn] EXCEPT !.cli = "open", !.srv = "queued"]
  <2>2. rec \in LinkShape(S)
    BY <1>0, <2>1 DEF LinkIn, LinkShape, CliEnd, SrvEnd
  <2>3. link' = [link EXCEPT ![tconn] = rec]
    BY <1>0, <1>1, <2>1 DEF TestConnect, LinkIn
  <2>4. LinkTyped'
    BY <1>0, <2>1, <2>2, <2>3, LinkStep
  <2>5. NetRest'
    BY <1>0, <1>1, AppendProperties DEF TestConnect, NetRest
  <2>6. TestRest'
    BY <1>1 DEF TestConnect, RejTyped, TestRest, Writes
  <2> QED
    BY <1>1, <2>4, <2>5, <2>6, TesterNetTyped DEF TestConnect
<1>2. CASE TestSendHello
  <2>1. PICK h : /\ link' = [link EXCEPT ![tconn].up = PutUp(tconn, Frame("ClientHello", h))]
                 /\ tpc' = "await"
                 /\ UNCHANGED <<backlog, listening, cut, disturbed>>
                 /\ UNCHANGED <<t_case, t_suite, t_keys, t_sent, t_verdict>>
    BY <1>2 DEF TestSendHello
  <2>2. FrameTyped(Frame("ClientHello", h))
    BY DEF FrameTyped, Frame
  <2>3. LinkTyped'
    BY <1>0, <2>1, <2>2, WriteUpTyped
  <2>4. NetRest'
    BY <1>0, <2>1 DEF NetRest
  <2>5. TestRest'
    BY <2>1 DEF RejTyped, TestRest, Writes
  <2> QED
    BY <2>1, <2>3, <2>4, <2>5, TesterNetTyped
<1>3. CASE TestHandshake
  <2>1. /\ link[tconn].down # <<>>
        /\ UNCHANGED <<backlog, listening, cut, disturbed>>
        /\ UNCHANGED <<t_case, t_suite, t_hello, t_sent>>
        /\ \/ /\ \E b : link' = [link EXCEPT
                          ![tconn].down = Tail(@),
                          ![tconn].up = PutUp(tconn, Frame("ClientFinished", b))]
              /\ tpc' = "records" /\ UNCHANGED t_verdict
           \/ Raises
    BY <1>3 DEF TestHandshake
  <2>2. LinkTyped'
    <3>1. ASSUME NEW b, link' = [link EXCEPT
                           ![tconn].down = Tail(@),
                           ![tconn].up = PutUp(tconn, Frame("ClientFinished", b))]
          PROVE  LinkTyped'
      <4>1. PICK S : LinkIn(S)
        BY <1>0 DEF LinkTyped
      <4> DEFINE f == Frame("ClientFinished", b)
      <4>2. FrameTyped(f)
        BY DEF FrameTyped, Frame
      <4>3. LinkIn(S \cup {f}) /\ PutUp(tconn, f) \in Seq(S \cup {f})
        BY <1>0, <4>1, <4>2, PutUpTyped
      <4> DEFINE rec == [link[tconn] EXCEPT !.down = Tail(@), !.up = PutUp(tconn, f)]
      <4>4. Tail(link[tconn].down) \in Seq(S \cup {f})
        BY <1>0, <2>1, <4>3, HeadTailProperties DEF LinkIn, LinkShape
      <4>5. link' = [link EXCEPT ![tconn] = rec]
        BY <1>0, <3>1, <4>3 DEF LinkIn, LinkShape
      <4> HIDE DEF f
      <4>6. rec \in LinkShape(S \cup {f})
        BY <1>0, <4>3, <4>4 DEF LinkIn, LinkShape
      <4> QED
        BY <1>0, <4>3, <4>5, <4>6, LinkStep
    <3>2. CASE Raises
      BY <3>2, TestEndsTyped DEF Raises
    <3> QED
      BY <2>1, <3>1, <3>2
  <2>3. NetRest'
    BY <1>0, <2>1 DEF NetRest
  <2>4. TestRest'
    BY <2>1 DEF RejTyped, TestRest, Writes, Raises, TestEnds
  <2> QED
    BY <2>1, <2>2, <2>3, <2>4, TesterNetTyped
<1>4. CASE TestRecord
  <2>1. PICK b : /\ link' = [link EXCEPT ![tconn].up = PutUp(tconn, Frame("Data", b))]
                 /\ b.seq \in Nat /\ b.box.plain \in Nat
    <3> DEFINE seq == Writes[t_sent + 1]
               box == Seal(t_keys.c2s, seq, <<t_keys.session_id, seq>>, seq)
               wire == IF t_case = "tampered-ciphertext"
                       THEN [box EXCEPT !.key = Flipped(@)] ELSE box
    <3>1. t_sent + 1 \in 1 .. Len(Writes)
      <4> DEFINE L == Len(Writes)
      <4>0. t_sent < L
        BY <1>4 DEF TestRecord
      <4>1. t_sent \in 0 .. L /\ L \in Nat
        BY <1>0
      <4> HIDE DEF L
      <4>2. t_sent + 1 \in 1 .. L
        BY <4>0, <4>1
      <4> QED
        BY <4>2 DEF L
    <3>2. seq \in Nat
      BY <1>0, <3>1
    <3>3. wire.plain = seq
      BY DEF Seal
    <3>4. link' = [link EXCEPT ![tconn].up =
                     PutUp(tconn, Frame("Data", [seq |-> seq, box |-> wire]))]
      BY <1>4 DEF TestRecord
    <3> DEFINE body == [seq |-> seq, box |-> wire]
    <3>5. body.seq = seq /\ body.box.plain = wire.plain
      OBVIOUS
    <3> HIDE DEF seq, wire
    <3> QED
      BY <3>2, <3>3, <3>4, <3>5
  <2>2. FrameTyped(Frame("Data", b))
    BY <2>1 DEF FrameTyped, Frame
  <2>3. LinkTyped'
    BY <1>0, <2>1, <2>2, WriteUpTyped
  <2>4. NetRest'
    BY <1>0, <1>4 DEF TestRecord, NetRest
  <2>5. TestRest'
    <3>1. /\ UNCHANGED <<t_case, tpc, t_verdict>> /\ t_sent' = t_sent + 1
          /\ t_sent < Len(Writes)
      BY <1>4 DEF TestRecord
    <3>2. Len(Writes') = Len(Writes)
      BY <3>1 DEF Writes
    <3> DEFINE L == Len(Writes)
    <3>3. t_sent + 1 \in 0 .. L
      <4>1. t_sent \in 0 .. L
        BY <1>0
      <4>2. L \in Nat
        BY <1>0
      <4>3. t_sent < L
        BY <3>1
      <4> HIDE DEF L
      <4> QED
        BY <4>1, <4>2, <4>3
    <3> QED
      BY <3>1, <3>2, <3>3 DEF RejTyped, TestRest
  <2> QED
    BY <1>4, <2>3, <2>4, <2>5, TesterNetTyped DEF TestRecord
<1>5. CASE TestReturns
  <2>1. LinkTyped'
    <3>1. CASE link' = [link EXCEPT ![tconn].up = PutUp(tconn, Frame("Close", NoTerm)),
                                    ![tconn].cli = "closed", ![tconn].down = <<>>]
      <4>1. PICK S : LinkIn(S)
        BY <1>0 DEF LinkTyped
      <4> DEFINE f == Frame("Close", NoTerm)
      <4>2. FrameTyped(f)
        BY DEF FrameTyped, Frame
      <4>3. LinkIn(S \cup {f}) /\ PutUp(tconn, f) \in Seq(S \cup {f})
        BY <1>0, <4>1, <4>2, PutUpTyped
      <4> DEFINE rec == [link[tconn] EXCEPT !.up = PutUp(tconn, f), !.cli = "closed",
                                            !.down = <<>>]
      <4>4. link' = [link EXCEPT ![tconn] = rec]
        BY <1>0, <3>1, <4>3 DEF LinkIn, LinkShape
      <4> HIDE DEF f
      <4>5. rec \in LinkShape(S \cup {f})
        BY <1>0, <4>3, EmptySeq DEF LinkIn, LinkShape, CliEnd
      <4> QED
        BY <1>0, <4>3, <4>4, <4>5, LinkStep
    <3>2. ASSUME NEW v, TestEnds(v)
          PROVE  LinkTyped'
      BY <3>2, TestEndsTyped
    <3> QED
      BY <1>5, <3>1, <3>2 DEF TestReturns, Raises
  <2>2. NetRest'
    BY <1>0, <1>5 DEF TestReturns, NetRest
  <2>3. TestRest'
    BY <1>0, <1>5 DEF TestReturns, RejTyped, TestRest, Writes, Raises, TestEnds
  <2> QED
    BY <1>5, <2>1, <2>2, <2>3, TesterNetTyped DEF TestReturns
<1>6. CASE TestFails
  <2>1. LinkTyped'
    BY <1>6, TestEndsTyped DEF TestFails, Raises
  <2>2. NetRest'
    BY <1>0, <1>6 DEF TestFails, NetRest
  <2>3. TestRest'
    BY <1>0, <1>6 DEF TestFails, RejTyped, TestRest, Writes, Raises, TestEnds
  <2> QED
    BY <1>6, <2>1, <2>2, <2>3, TesterNetTyped DEF TestFails
<1> QED
  BY <1>0, <1>1, <1>2, <1>3, <1>4, <1>5, <1>6 DEF TestStep

(* The gateway.                                                            *)
LEMMA GatewayStepTyped ==
  ASSUME RejTyped, GatewayStep \/ GatewayEnds
  PROVE  RejTyped'
<1>1. UNCHANGED <<cliVars, rogueVars, drillVars, testVars, lab>>
  BY DEF GatewayStep, GatewayEnds
<1>2. TypeInv'
  BY <1>1, GatewayTyped DEF GatewayStep, GatewayEnds, RejTyped
<1>3. CASE GatewayStep
  <2>1. spc # "down" /\ spc' # "down" /\ UNCHANGED listening
    BY <1>3 DEF GatewayStep, Accept, HandleStep, ReadClientHello, ReadEnds, Authenticate,
                DecapsulateStatic, SendServerHello, ReadClientFinished, DecapsulationFails,
                VerifyClientMac, ReadRecord, Leave, Continue, netVars
  <2>2. RogueRest'
    BY <1>1, <2>1 DEF RejTyped, RogueRest, rogueVars
  <2> QED
    BY <1>1, <1>2, <2>2, RestKept, RejAssemble
<1>4. CASE GatewayEnds
  <2>1. rpc = "down" /\ spc' = "down" /\ listening' = FALSE
    BY <1>4 DEF GatewayEnds, UncaughtException, ProcessEnds, RejTyped
  <2>2. RogueRest'
    BY <1>1, <2>1 DEF RejTyped, RogueRest, rogueVars
  <2> QED
    BY <1>1, <1>2, <2>2, RestKept, RejAssemble
<1> QED
  BY <1>3, <1>4

LEMMA RejInitTyped == Init => RejTyped
<1> SUFFICES ASSUME Init PROVE RejTyped
  OBVIOUS
<1>1. TypeInv
  BY EndsInitTyped DEF Init
<1>2. MaxSshFaults \in Nat
  BY DrillAssumption
<1>3. t_sent \in 0 .. Len(Writes) /\ t_case \in Case
  <2>1. t_case \in Case /\ t_sent = 0
    BY DEF Init, TestInit
  <2>2. Len(Writes) \in 0 .. 3
    BY <2>1, WritesTyped
  <2> HIDE DEF Writes
  <2> QED
    BY <2>1, <2>2
<1>4. RogueRest
  <2>1. /\ rpc = "down" /\ left = 0 /\ r_conn = NoConn /\ attacked = {}
        /\ listening = TRUE /\ spc = "accept"
    BY DEF Init, NetInit, ServerInit, RogueInit
  <2> QED
    BY <2>1 DEF RogueRest
<1>5. ScriptRest
  <2>1. /\ entry \in RogueMode /\ step \in {"clear", "stop"} /\ heard = <<>>
        /\ graded = "none" /\ sshFaults = 0
    BY DEF Init, DrillInit
  <2> QED
    BY <1>2, <2>1 DEF ScriptRest, DrillStep
<1>6. TestRest
  BY <1>3 DEF Init, TestRest, TestInit
<1>7. lab \in {"drill", "client"}
  BY DEF Init
<1> QED
  BY <1>1, <1>4, <1>5, <1>6, <1>7 DEF RejTyped, RogueRest, ScriptRest, TestRest

LEMMA RejNextTyped == RejTyped /\ [Next]_vars => RejTyped'
<1> SUFFICES ASSUME RejTyped, [Next]_vars PROVE RejTyped'
  OBVIOUS
<1>1. CASE UNCHANGED vars
  <2>1. TypeInv'
    BY <1>1, NothingTyped DEF vars, RejTyped
  <2>2. RogueRest'
    BY <1>1, RestKept DEF vars, netVars, srvVars
  <2> QED
    BY <1>1, <2>1, <2>2, RestKept, RejAssemble DEF vars
<1> QED
  BY <1>1, ScriptTyped, BoardTyped, RogueTyped, TesterTyped, GatewayStepTyped DEF Next

LEMMA InvariantRejTyped == Spec => []RejTyped
  BY RejInitTyped, RejNextTyped, PTL DEF Spec

(***************************************************************************)
(* TypeOK: the board, the gateway, the rogue, the drill and the test       *)
(* client keep their types, and the port is held exactly while one of the  *)
(* two servers runs.                                                       *)
(***************************************************************************)
THEOREM RejectionsTypeCorrect == Spec => []TypeOK
  BY InvariantRejTyped, TypeOKFollows, PTL

-----------------------------------------------------------------------------
(***************************************************************************)
(* The ends of the connections.                                            *)
(***************************************************************************)
\* Whose connections a behaviour has.
Party == IF lab = "drill" THEN {c \in Conn : c[1] = Board} ELSE {tconn}

\* Nobody else has a connection, and what is not yet opened has no end.
Unopened == /\ \A c \in Conn \ Party : link[c].srv = "none"
            /\ lab = "drill" => /\ tpc = "start"
                                /\ \A c \in Conn : c[1] = Board /\ c[2] > opened[Board]
                                                     => link[c].srv = "none"
            /\ lab = "client" /\ tpc = "start" => link[tconn].srv = "none"

\* A connection waits for accept() once, and until it is accepted.
Queue == /\ \A i, j \in 1 .. Len(backlog) : backlog[i] = backlog[j] => i = j
         /\ \A i \in 1 .. Len(backlog) : link[backlog[i]].srv = "queued"

Held == /\ conn # NoConn => link[conn].srv = "open"
        /\ r_conn # NoConn => link[r_conn].srv = "open"

\* What the drill alone moves.
RogueAway == /\ rpc # "down" => mode \in RogueMode
             /\ lab = "client" => attacked = {} /\ graded = "none"

EndsInv == Unopened /\ Queue /\ Held /\ RogueAway

\* What a server, whichever it is, may do to a connection.
ServerStep(c) ==
  /\ link[c].srv \in {"none", "closed"} => link'[c] = link[c]
  /\ link[c].srv = "queued" => link'[c].srv # "none" /\ link'[c].down = link[c].down
  /\ link[c].srv = "open" => link'[c].srv \in {"open", "closed"}
  /\ \/ link'[c].up \in {link[c].up, <<>>}
     \/ link[c].up # <<>> /\ link'[c].up = Tail(link[c].up)

LEMMA UnopenedKept ==
  ASSUME Unopened, UNCHANGED <<lab, tpc, opened>>, \A c \in Conn : ServerStep(c),
         tconn \in Conn
  PROVE  Unopened'
<1>1. \A c \in Conn : link[c].srv = "none" => link'[c].srv = "none"
  BY DEF ServerStep
<1>2. Party' = Party
  BY DEF Party
<1> QED
  BY <1>1, <1>2 DEF Unopened

LEMMA UnopenedStill ==
  ASSUME Unopened, UNCHANGED lab, tpc' = "start" => tpc = "start",
         lab = "drill" => UNCHANGED <<tpc, opened>>,
         \A c \in Conn : link'[c].srv = link[c].srv,
         tconn \in Conn
  PROVE  Unopened'
<1>2. Party' = Party
  BY DEF Party
<1> QED
  BY <1>2 DEF Unopened

LEMMA QueueKept ==
  ASSUME Queue, UNCHANGED backlog,
         \A i \in 1 .. Len(backlog) : link'[backlog[i]].srv = link[backlog[i]].srv
  PROVE  Queue'
  BY DEF Queue

\* The connection at the head of the queue is accepted.
LEMMA QueueAccepted ==
  ASSUME TypeInv, Queue, backlog # <<>>, backlog' = Tail(backlog),
         link' = [link EXCEPT ![Head(backlog)].srv = "open"]
  PROVE  /\ Head(backlog) \in Conn
         /\ Queue'
         /\ \A c \in Conn : ServerStep(c) /\ (c # Head(backlog) => link'[c] = link[c])
         /\ link[Head(backlog)].srv = "queued"
         /\ link'[Head(backlog)].srv = "open"
         /\ link'[Head(backlog)].up = link[Head(backlog)].up
         /\ link'[Head(backlog)].down = link[Head(backlog)].down
<1> DEFINE h == Head(backlog)
           L == Len(backlog)
<1>1. backlog \in Seq(Conn)
  BY DEF TypeInv, EndsTypeOK, NetTypeOK
<1>2. /\ h \in Conn /\ h = backlog[1] /\ L \in Nat /\ L >= 1
      /\ Len(Tail(backlog)) = L - 1
      /\ \A i \in 1 .. L - 1 : Tail(backlog)[i] = backlog[i + 1]
      /\ \A i \in 1 .. L : backlog[i] \in Conn
  BY <1>1, HeadTailProperties, ElementOfSeq, LenProperties
<1>3. \A c \in Conn : c # h => link'[c] = link[c]
  OBVIOUS
<1>4. link[h].srv = "queued"
  BY <1>2 DEF Queue
<1>5. link'[h].srv = "open" /\ link'[h].up = link[h].up /\ link'[h].down = link[h].down
  BY <1>2, LinkFacts
<1> HIDE DEF h, L
<1>6. ASSUME NEW i \in 1 .. L - 1
      PROVE  link'[backlog'[i]].srv = "queued"
  <2>1. i + 1 \in 1 .. L /\ 1 \in 1 .. L /\ i + 1 # 1
    BY <1>2
  <2>2. backlog[i + 1] # h /\ backlog[i + 1] \in Conn
    BY <1>2, <2>1 DEF Queue, L
  <2>3. backlog'[i] = backlog[i + 1]
    BY <1>2
  <2>4. link[backlog[i + 1]].srv = "queued"
    BY <2>1 DEF Queue, L
  <2> QED
    BY <1>3, <2>2, <2>3, <2>4
<1>7. ASSUME NEW i \in 1 .. L - 1, NEW j \in 1 .. L - 1, backlog'[i] = backlog'[j]
      PROVE  i = j
  <2>1. i + 1 \in 1 .. L /\ j + 1 \in 1 .. L
    BY <1>2
  <2>2. backlog[i + 1] = backlog[j + 1]
    BY <1>2, <1>7
  <2>3. i + 1 = j + 1
    BY <2>1, <2>2 DEF Queue, L
  <2> QED
    BY <2>3
<1>8. Len(backlog') = L - 1
  BY <1>2
<1>9. Queue'
  BY <1>6, <1>7, <1>8 DEF Queue
<1>10. \A c \in Conn : ServerStep(c)
  BY <1>2, <1>3, <1>4, <1>5 DEF ServerStep
<1> QED
  BY <1>2, <1>3, <1>4, <1>5, <1>9, <1>10 DEF h

\* A connection of the party is queued.
LEMMA QueueJoined ==
  ASSUME TypeInv, Queue, NEW c \in Conn, link[c].srv = "none",
         backlog' = Append(backlog, c),
         link' = [link EXCEPT ![c].cli = "open", ![c].srv = "queued"]
  PROVE  /\ Queue'
         /\ \A x \in Conn : x # c => link'[x] = link[x]
         /\ link'[c].srv = "queued" /\ link'[c].up = link[c].up
         /\ link'[c].down = link[c].down
<1> DEFINE L == Len(backlog)
<1>1. backlog \in Seq(Conn)
  BY DEF TypeInv, EndsTypeOK, NetTypeOK
<1>2. /\ L \in Nat /\ Len(backlog') = L + 1 /\ backlog'[L + 1] = c
      /\ \A i \in 1 .. L : backlog'[i] = backlog[i] /\ backlog[i] \in Conn
  BY <1>1, AppendProperties, ElementOfSeq, LenProperties
<1>3. \A x \in Conn : x # c => link'[x] = link[x]
  BY LinkFacts
<1>4. link'[c].srv = "queued" /\ link'[c].up = link[c].up /\ link'[c].down = link[c].down
  BY LinkFacts
<1>5. \A i \in 1 .. L : backlog[i] # c /\ link[backlog[i]].srv = "queued"
  BY DEF Queue
<1>6. \A i, j \in 1 .. L : backlog[i] = backlog[j] => i = j
  BY DEF Queue
<1> HIDE DEF L
<1>7. \A i \in 1 .. L + 1 : i \in 1 .. L \/ i = L + 1
  BY <1>2
<1>8. ASSUME NEW i \in 1 .. L + 1
      PROVE  link'[backlog'[i]].srv = "queued"
  <2>1. CASE i \in 1 .. L
    <3>1. backlog'[i] = backlog[i] /\ backlog[i] \in Conn /\ backlog[i] # c
      BY <1>2, <1>5, <2>1
    <3>2. link'[backlog[i]] = link[backlog[i]]
      BY <1>3, <3>1
    <3> QED
      BY <1>5, <2>1, <3>1, <3>2
  <2>2. CASE i = L + 1
    BY <1>2, <1>4, <2>2
  <2> QED
    BY <1>7, <2>1, <2>2
<1>9. ASSUME NEW i \in 1 .. L + 1, NEW j \in 1 .. L + 1, backlog'[i] = backlog'[j]
      PROVE  i = j
  BY <1>2, <1>5, <1>6, <1>7, <1>9
<1>10. Queue'
  BY <1>2, <1>8, <1>9 DEF Queue
<1> QED
  BY <1>3, <1>4, <1>10

\* The four things handle_connection does to a connection.
LEMMA HandleForms ==
  ASSUME TypeInv, HandleStep
  PROVE  /\ conn \in Conn /\ spc \notin {"down", "accept"} /\ spc' # "down"
         /\ UNCHANGED <<backlog, listening>>
         /\ \/ link' = link /\ conn' = conn
            \/ link[conn].up # <<>> /\ TakeFrame /\ conn' = conn
            \/ conn' = conn /\ spc = "answer"
               /\ \E f : link' = [link EXCEPT ![conn].down = PutDown(conn, f)]
            \/ conn' = NoConn
               /\ link' = [link EXCEPT ![conn].srv = "closed", ![conn].up = <<>>]
<1>1. spc \notin {"down", "accept"}
  BY DEF HandleStep, ReadClientHello, ReadEnds, Authenticate, DecapsulateStatic,
         SendServerHello, ReadClientFinished, DecapsulationFails, VerifyClientMac, ReadRecord
<1>2. conn \in Conn
  BY <1>1, HandledIsConn
<1>3. CASE ReadClientHello
  BY <1>1, <1>2, <1>3 DEF ReadClientHello, Leave, Continue
<1>4. CASE ReadEnds
  BY <1>1, <1>2, <1>4 DEF ReadEnds, Leave
<1>5. CASE Authenticate
  BY <1>1, <1>2, <1>5 DEF Authenticate, Leave, Continue
<1>6. CASE DecapsulateStatic
  BY <1>1, <1>2, <1>6 DEF DecapsulateStatic, Continue, netVars
<1>7. CASE SendServerHello
  BY <1>1, <1>2, <1>7 DEF SendServerHello, Leave, Continue
<1>8. CASE ReadClientFinished
  BY <1>1, <1>2, <1>8 DEF ReadClientFinished, Leave, Continue
<1>9. CASE DecapsulationFails
  BY <1>1, <1>2, <1>9 DEF DecapsulationFails, Leave
<1>10. CASE VerifyClientMac
  BY <1>1, <1>2, <1>10 DEF VerifyClientMac, Leave, Continue
<1>11. CASE ReadRecord
  BY <1>1, <1>2, <1>11 DEF ReadRecord, Leave, Continue
<1> QED
  BY <1>3, <1>4, <1>5, <1>6, <1>7, <1>8, <1>9, <1>10, <1>11 DEF HandleStep

LEMMA HandleServes ==
  ASSUME TypeInv, HandleStep, link[conn].srv = "open", Queue
  PROVE  /\ \A c \in Conn : ServerStep(c) /\ (c # conn => link'[c] = link[c])
         /\ conn' # NoConn => conn' = conn /\ link'[conn].srv = "open"
         /\ Queue'
<1>1. conn \in Conn
  BY HandleForms
<1>2. /\ \A c \in Conn : c # conn => link'[c] = link[c]
      /\ link'[conn].srv \in {"open", "closed"}
      /\ conn' # NoConn => conn' = conn /\ link'[conn].srv = "open"
      /\ \/ link'[conn].up \in {link[conn].up, <<>>}
         \/ link[conn].up # <<>> /\ link'[conn].up = Tail(link[conn].up)
  <2>1. CASE link' = link /\ conn' = conn
    BY <2>1
  <2>2. CASE link[conn].up # <<>> /\ TakeFrame /\ conn' = conn
    BY <1>1, <2>2, TookFrame DEF TakeFrame
  <2>3. ASSUME NEW f, link' = [link EXCEPT ![conn].down = PutDown(conn, f)], conn' = conn
        PROVE  <1>2!:
    BY <1>1, <2>3, LinkFacts
  <2>4. CASE /\ conn' = NoConn
             /\ link' = [link EXCEPT ![conn].srv = "closed", ![conn].up = <<>>]
    BY <1>1, <2>4, LinkFacts
  <2> QED
    BY <2>1, <2>2, <2>3, <2>4, HandleForms
<1>3. \A c \in Conn : ServerStep(c)
  BY <1>1, <1>2 DEF ServerStep
<1>4. \A i \in 1 .. Len(backlog) : backlog[i] # conn /\ backlog[i] \in Conn
  BY ElementOfSeq DEF Queue, TypeInv, EndsTypeOK, NetTypeOK
<1>5. Queue'
  BY <1>2, <1>4, QueueKept, HandleForms
<1> QED
  BY <1>2, <1>3, <1>5

\* The process that held the connections is gone.
LEMMA ProcessEndsServes ==
  ASSUME TypeInv, ProcessEnds("killed")
  PROVE  /\ \A c \in Conn : /\ ServerStep(c)
                            /\ link'[c].srv \in {"none", "closed"}
                            /\ link'[c].down = link[c].down
         /\ Queue'
<1>1. /\ backlog' = <<>>
      /\ \A c \in Conn : link'[c] = IF link[c].srv \in {"queued", "open"}
                                    THEN [link[c] EXCEPT !.srv = "closed", !.up = <<>>]
                                    ELSE link[c]
  BY DEF ProcessEnds
<1>2. ASSUME NEW c \in Conn
      PROVE  /\ ServerStep(c)
             /\ link'[c].srv \in {"none", "closed"}
             /\ link'[c].down = link[c].down
  <2>1. link[c].srv \in {"none", "queued", "open", "closed"}
    BY DEF TypeInv, EndsTypeOK, NetTypeOK, SrvEnd
  <2>2. CASE link[c].srv \in {"queued", "open"}
    <3>1. link'[c].srv = "closed" /\ link'[c].up = <<>> /\ link'[c].down = link[c].down
      BY <1>1, <2>2, LinkFacts
    <3> QED
      BY <2>2, <3>1 DEF ServerStep
  <2>3. CASE link[c].srv \in {"none", "closed"}
    BY <1>1, <2>3 DEF ServerStep
  <2> QED
    BY <2>1, <2>2, <2>3
<1>3. Queue'
  <2>1. Len(backlog') = 0
    BY <1>1, EmptySeq
  <2>2. 1 .. 0 = {}
    OBVIOUS
  <2> QED
    BY <2>1, <2>2 DEF Queue
<1> QED
  BY <1>2, <1>3

\* The rogue closes the connection it has handled, and the last time all it had queued.
LEMMA ServedServes ==
  ASSUME TypeInv, Queue, NEW frames, Served(frames), r_conn \in Conn,
         link[r_conn].srv = "open"
  PROVE  /\ \A c \in Conn : /\ ServerStep(c)
                            /\ c # r_conn => /\ link'[c].down = link[c].down
                                             /\ link[c].srv # "open" \/ link'[c] = link[c]
                                             /\ link'[c].srv # "open" \/ link'[c] = link[c]
         /\ link'[r_conn].srv = "closed"
         /\ link'[r_conn].down = link[r_conn].down \o
              (IF ReachesClient(r_conn) THEN frames ELSE <<>>)
         /\ Queue'
<1> DEFINE sent_ == IF ReachesClient(r_conn) THEN frames ELSE <<>>
<1>1. ASSUME NEW c \in Conn
      PROVE  link'[c] = IF (LastOne /\ link[c].srv = "queued") \/ c = r_conn
                        THEN [link[c] EXCEPT !.srv = "closed", !.up = <<>>,
                                 !.down = IF c = r_conn THEN @ \o sent_ ELSE @]
                        ELSE link[c]
  BY DEF Served
<1>2. /\ link'[r_conn].srv = "closed" /\ link'[r_conn].up = <<>>
      /\ link'[r_conn].down = link[r_conn].down \o sent_
  <2> HIDE DEF sent_
  <2>1. link'[r_conn] = [link[r_conn] EXCEPT !.srv = "closed", !.up = <<>>,
                            !.down = link[r_conn].down \o sent_]
    BY <1>1
  <2> QED
    BY <2>1, LinkFacts
<1>3. ASSUME NEW c \in Conn, c # r_conn
      PROVE  /\ ServerStep(c)
             /\ link'[c].down = link[c].down
             /\ link[c].srv # "open" \/ link'[c] = link[c]
             /\ link'[c].srv # "open" \/ link'[c] = link[c]
             /\ ~LastOne => link'[c] = link[c]
  <2> HIDE DEF sent_
  <2>1. CASE LastOne /\ link[c].srv = "queued"
    <3>1. link'[c] = [link[c] EXCEPT !.srv = "closed", !.up = <<>>, !.down = link[c].down]
      BY <1>1, <1>3, <2>1
    <3>2. link'[c].srv = "closed" /\ link'[c].up = <<>> /\ link'[c].down = link[c].down
      BY <3>1, LinkFacts
    <3> QED
      BY <2>1, <3>2 DEF ServerStep
  <2>2. CASE ~(LastOne /\ link[c].srv = "queued")
    <3>1. link'[c] = link[c]
      BY <1>1, <1>3, <2>2
    <3>2. link[c].srv \in {"none", "queued", "open", "closed"}
      BY DEF TypeInv, EndsTypeOK, NetTypeOK, SrvEnd
    <3> QED
      BY <3>1, <3>2, <2>2 DEF ServerStep
  <2> QED
    BY <2>1, <2>2
<1>4. ServerStep(r_conn)
  BY <1>2 DEF ServerStep
<1>5. Queue'
  <2>1. CASE LastOne
    <3>1. backlog' = <<>>
      BY <2>1 DEF Served
    <3> QED
      BY <3>1, EmptySeq DEF Queue
  <2>2. CASE ~LastOne
    <3>1. UNCHANGED backlog
      BY <2>2 DEF Served
    <3>2. \A i \in 1 .. Len(backlog) : backlog[i] # r_conn /\ backlog[i] \in Conn
      BY ElementOfSeq DEF Queue, TypeInv, EndsTypeOK, NetTypeOK
    <3> QED
      BY <1>3, <2>2, <3>1, <3>2, QueueKept
  <2> QED
    BY <2>1, <2>2
<1> QED
  BY <1>2, <1>3, <1>4, <1>5

\* What a run of pqc_session_run does once it is connected, and a reset, to the
\* connections: it stays on the device's own, and leaves the server's end.
RunStep(d) ==
  \/ ConnectFails(d) \/ SendClientHello(d) \/ ReadServerHello(d) \/ ReadFails(d)
  \/ VerifyServerMac(d) \/ SendClientFinished(d) \/ SendRecord(d) \/ SendClose(d)
  \/ StepFails(d)

LEMMA StepOrConnect ==
  ASSUME NEW d, ClientStep(d)
  PROVE  Connect(d) \/ RunStep(d)
  BY DEF ClientStep, RunStep

LEMMA DeviceOnLink ==
  ASSUME TypeInv, NEW d \in Device, RunStep(d) \/ Reset(d), NEW c, c = curr(d)
  PROVE  /\ UNCHANGED <<opened, backlog, listening>>
         /\ \A x \in Conn : /\ link'[x].srv = link[x].srv
                            /\ x # c => link'[x] = link[x]
<1>1. UNCHANGED <<opened, backlog, listening>>
  BY DEF RunStep, Reset, ConnectFails, SendClientHello, ReadServerHello, ReadFails,
         VerifyServerMac, SendClientFinished, SendRecord, SendClose, StepFails, Fail, netVars
<1> DEFINE Goal == \A x \in Conn : /\ link'[x].srv = link[x].srv
                                   /\ x # c => link'[x] = link[x]
<1> SUFFICES Goal
  BY <1>1
<1>2. ASSUME NEW e, c \in Conn, link' = [link EXCEPT ![c].cli = e, ![c].down = <<>>]
      PROVE  Goal
  BY <1>2, ClosedEnd
<1>3. ASSUME NEW q, c \in Conn, link' = [link EXCEPT ![c].up = q]
      PROVE  Goal
  BY <1>3, WrittenUp
<1>4. ASSUME c \in Conn, link' = [link EXCEPT ![c].down = Tail(@)]
      PROVE  Goal
  BY <1>4, LinkFacts
<1>5. Busy(d) => c \in Conn
  BY CurrIsConn
<1>6. Fail(d) /\ Busy(d) => Goal
  BY <1>2, <1>5 DEF Fail
<1>7. CASE link' = link
  BY <1>7
<1>8. CASE SendClose(d)
  <2>1. link' = [link EXCEPT ![c].up = PutUp(c, Frame("Close", NoTerm)),
                             ![c].cli = "closed", ![c].down = <<>>]
    BY <1>8 DEF SendClose
  <2>2. c \in Conn
    BY <1>5, <1>8 DEF SendClose, Busy
  <2> QED
    BY <2>1, <2>2, LinkFacts
<1>9. CASE Reset(d)
  <2> HIDE DEF Goal
  <2>1. CASE opened[d] > 0 /\ link[c].cli = "open"
    <3>1. c \in Conn
      BY <2>1 DEF curr, Conn, TypeInv, EndsTypeOK, ClientTypeOK
    <3> QED
      BY <1>2, <1>9, <2>1, <3>1 DEF Reset
  <2>2. CASE link' = link
    BY <1>7, <2>2
  <2> QED
    BY <1>9, <2>1, <2>2 DEF Reset
<1>10. CASE ConnectFails(d)
  BY <1>7, <1>10 DEF ConnectFails, netVars
<1>11. CASE SendClientHello(d) \/ SendClientFinished(d) \/ SendRecord(d)
  BY <1>3, <1>5, <1>11 DEF SendClientHello, SendClientFinished, SendRecord, Busy
<1>12. CASE ReadServerHello(d)
  BY <1>4, <1>5, <1>6, <1>12 DEF ReadServerHello, Busy
<1>13. CASE ReadFails(d) \/ StepFails(d)
  BY <1>6, <1>13 DEF ReadFails, StepFails, Busy
<1>14. CASE VerifyServerMac(d)
  BY <1>6, <1>7, <1>14 DEF VerifyServerMac, Busy
<1> HIDE DEF Goal
<1> QED
  BY <1>8, <1>9, <1>10, <1>11, <1>12, <1>13, <1>14 DEF RunStep

(* The ends of the connections, step by step.                              *)
LEMMA EndsBoard ==
  ASSUME RejTyped, EndsInv, BoardStep \/ ResetBoard, lab = "drill",
         UNCHANGED <<testVars, lab>>
  PROVE  EndsInv'
<1>0. /\ Board \in Device /\ tconn \in Conn /\ TypeInv
      /\ UNCHANGED <<srvVars, rogueVars, testVars>>
  BY TesterIsConn DEF BoardStep, ResetBoard, RejTyped
<1>1. UNCHANGED <<tpc, conn, r_conn, mode, rpc>>
  BY <1>0 DEF srvVars, rogueVars, testVars
<1>2. RogueAway'
  BY <1>1 DEF EndsInv, RogueAway
<1>3. CASE RunStep(Board) \/ Reset(Board)
  <2>1. /\ UNCHANGED <<opened, backlog, listening>>
        /\ \A x \in Conn : link'[x].srv = link[x].srv
    BY <1>0, <1>3, DeviceOnLink
  <2>2. Unopened'
    BY <1>0, <1>1, <2>1, UnopenedStill DEF EndsInv
  <2>3. \A i \in 1 .. Len(backlog) : backlog[i] \in Conn
    BY <1>0, ElementOfSeq DEF TypeInv, EndsTypeOK, NetTypeOK
  <2>4. Queue'
    BY <2>1, <2>3, QueueKept DEF EndsInv
  <2>5. Held'
    BY <1>0, <1>1, <2>1 DEF EndsInv, Held, RejTyped, TypeInv, EndsTypeOK, ServerTypeOK
  <2> QED
    BY <1>2, <2>2, <2>4, <2>5 DEF EndsInv
<1>4. CASE Connect(Board)
  <2> DEFINE c == <<Board, opened[Board] + 1>>
  <2>1. c \in Conn /\ c[1] = Board /\ opened' = [opened EXCEPT ![Board] = @ + 1]
        /\ opened[Board] \in Nat /\ opened'[Board] = opened[Board] + 1
    <3>1. opened' \in [Device -> 0 .. MaxConn] /\ opened \in [Device -> 0 .. MaxConn]
      <4>1. ClientTypeOK'
        BY <1>0, <1>4, ConnectTyped
      <4> QED
        BY <1>0, <4>1 DEF ClientTypeOK, TypeInv, EndsTypeOK
    <3>2. opened' = [opened EXCEPT ![Board] = @ + 1]
      BY <1>4 DEF Connect
    <3>3. opened'[Board] = opened[Board] + 1 /\ opened[Board] \in Nat
      BY <1>0, <3>1, <3>2
    <3>4. opened[Board] + 1 \in 1 .. MaxConn
      BY <1>0, <3>1, <3>3
    <3> QED
      BY <1>0, <3>2, <3>3, <3>4 DEF Conn
  <2>2. link[c].srv = "none"
    BY <2>1 DEF EndsInv, Unopened
  <2>3. /\ backlog' = Append(backlog, c)
        /\ link' = [link EXCEPT ![c].cli = "open", ![c].srv = "queued"]
    BY <1>4 DEF Connect
  <2> HIDE DEF c
  <2>4. /\ Queue'
        /\ \A x \in Conn : x # c => link'[x] = link[x]
    BY <1>0, <2>1, <2>2, <2>3, QueueJoined DEF EndsInv
  <2>5. Unopened'
    <3>1. Party' = Party /\ c \in Party /\ tpc' = "start"
      BY <1>1, <2>1 DEF Party, EndsInv, Unopened
    <3>2. \A x \in Conn : x \notin Party => link'[x].srv = "none"
      BY <2>4, <3>1 DEF EndsInv, Unopened
    <3>3. ASSUME NEW x \in Conn, x[1] = Board, x[2] > opened[Board] + 1
          PROVE  link'[x].srv = "none"
      <4>1. x # c /\ x[2] \in Nat
        BY <2>1, <3>3 DEF c, Conn
      <4>2. x[2] > opened[Board]
        BY <2>1, <3>3, <4>1
      <4> QED
        BY <2>4, <3>3, <4>1, <4>2 DEF EndsInv, Unopened
    <3> QED
      BY <2>1, <3>1, <3>2, <3>3 DEF Unopened
  <2>6. Held'
    BY <1>0, <1>1, <2>2, <2>4 DEF EndsInv, Held, RejTyped, TypeInv, EndsTypeOK, ServerTypeOK
  <2> QED
    BY <1>2, <2>4, <2>5, <2>6 DEF EndsInv
<1>5. CASE UNCHANGED <<netVars, cliVars>>
  <2>1. Unopened'
    BY <1>0, <1>5, UnopenedStill DEF EndsInv, netVars, cliVars, testVars
  <2>2. Queue' /\ Held'
    BY <1>1, <1>5 DEF EndsInv, Queue, Held, netVars
  <2> QED
    BY <1>2, <2>1, <2>2 DEF EndsInv
<1> QED
  BY <1>0, <1>3, <1>4, <1>5, StepOrConnect DEF BoardStep, ResetBoard

\* A server's step leaves the connections as EndsInv has them.
LEMMA ServersKeepEnds ==
  ASSUME RejTyped, EndsInv, UNCHANGED <<lab, tpc, opened>>,
         \A c \in Conn : ServerStep(c), Queue', Held', RogueAway'
  PROVE  EndsInv'
<1>1. Unopened'
  BY UnopenedKept, TesterIsConn DEF EndsInv
<1> QED
  BY <1>1 DEF EndsInv

LEMMA NothingServed ==
  ASSUME TypeInv, UNCHANGED link
  PROVE  \A c \in Conn : ServerStep(c)
<1>1. \A c \in Conn : link[c].srv \in {"none", "queued", "open", "closed"}
  BY DEF TypeInv, EndsTypeOK, NetTypeOK, SrvEnd
<1> QED
  BY <1>1 DEF ServerStep

LEMMA EndsIdle ==
  ASSUME RejTyped, EndsInv, UNCHANGED <<lab, tpc, opened, link, backlog, conn, r_conn>>,
         RogueAway'
  PROVE  EndsInv'
<1>1. Queue' /\ Held'
  BY DEF EndsInv, Queue, Held
<1> QED
  BY <1>1, NothingServed, ServersKeepEnds DEF RejTyped

LEMMA EndsScript ==
  ASSUME RejTyped, EndsInv, ScriptStep, UNCHANGED <<testVars, lab>>
  PROVE  EndsInv'
<1>0. lab = "drill" /\ UNCHANGED <<lab, tpc>> /\ entry \in RogueMode
  BY DEF ScriptStep, testVars, RejTyped
<1>1. CASE ResetBoard
  BY <1>0, <1>1, EndsBoard
<1>2. CASE Capture \/ evaluate
  <2>1. UNCHANGED <<netVars, cliVars, srvVars, rogueVars>>
    BY <1>2 DEF Capture, evaluate
  <2>2. RogueAway'
    BY <1>0, <2>1 DEF EndsInv, RogueAway, rogueVars
  <2> QED
    BY <1>0, <2>1, <2>2, EndsIdle DEF netVars, cliVars, srvVars, rogueVars
<1>3. CASE ClearStore
  <2>1. UNCHANGED <<cliVars, srvVars, netVars, rpc, mode, r_conn>>
    BY <1>3 DEF ClearStore, Ssh, rogueIdle, rogueVars
  <2>2. RogueAway'
    BY <1>0, <2>1 DEF EndsInv, RogueAway
  <2> QED
    BY <1>0, <2>1, <2>2, EndsIdle DEF netVars, cliVars, srvVars
<1>4. CASE stop_servers
  <2>1. CASE /\ ProcessEnds("killed") /\ rpc' = "down" /\ r_conn' = NoConn
    <3>1. UNCHANGED opened
      BY <1>4 DEF stop_servers, cliVars
    <3>2. Held' /\ RogueAway'
      BY <1>0, <2>1 DEF ProcessEnds, Held, RogueAway
    <3> QED
      BY <1>0, <2>1, <3>1, <3>2, ProcessEndsServes, ServersKeepEnds DEF RejTyped
  <2>2. CASE rogueIdle /\ serverIdle
    <3>1. UNCHANGED <<netVars, rogueVars, srvVars, cliVars>>
      BY <1>4, <2>2 DEF stop_servers, rogueIdle, serverIdle
    <3>2. RogueAway'
      BY <1>0, <3>1 DEF EndsInv, RogueAway, rogueVars
    <3> QED
      BY <1>0, <3>1, <3>2, EndsIdle DEF netVars, rogueVars, srvVars, cliVars
  <2> QED
    BY <1>4, <2>1, <2>2 DEF stop_servers, Ssh
<1>5. CASE start_rogue
  <2>1. UNCHANGED <<cliVars, srvVars, link, backlog, r_conn>>
    BY <1>5 DEF start_rogue, Ssh, rogueIdle, netVars, rogueVars
  <2>2. mode' = entry \/ UNCHANGED <<mode, rpc>>
    BY <1>5 DEF start_rogue, Ssh, rogueIdle, rogueVars
  <2>3. RogueAway'
    BY <1>0, <2>2 DEF EndsInv, RogueAway
  <2> QED
    BY <1>0, <2>1, <2>3, EndsIdle DEF cliVars, srvVars
<1>6. CASE start_real
  <2>1. UNCHANGED <<rogueVars, cliVars, link, backlog, conn>>
    BY <1>6 DEF start_real, Ssh, serverIdle, srvVars, netVars
  <2>2. RogueAway'
    BY <1>0, <2>1 DEF EndsInv, RogueAway, rogueVars
  <2> QED
    BY <1>0, <2>1, <2>2, EndsIdle DEF cliVars, rogueVars
<1> QED
  BY <1>1, <1>2, <1>3, <1>4, <1>5, <1>6 DEF ScriptStep, Drill

\* On an open connection a frame is taken off, or frames are put on it.
LEMMA StayServes ==
  ASSUME TypeInv, Queue, NEW c \in Conn, link[c].srv = "open", link[c].up # <<>>, NEW q,
         link' = [link EXCEPT ![c].up = Tail(@), ![c].down = q],
         UNCHANGED backlog
  PROVE  /\ \A x \in Conn : ServerStep(x) /\ (x # c => link'[x] = link[x])
         /\ link'[c].srv = "open" /\ link'[c].up = Tail(link[c].up) /\ link'[c].down = q
         /\ Queue'
<1>1. /\ \A x \in Conn : x # c => link'[x] = link[x]
      /\ link'[c].srv = "open" /\ link'[c].up = Tail(link[c].up) /\ link'[c].down = q
  BY LinkFacts
<1>2. \A i \in 1 .. Len(backlog) : backlog[i] # c /\ backlog[i] \in Conn
  BY ElementOfSeq DEF Queue, TypeInv, EndsTypeOK, NetTypeOK
<1>3. Queue'
  BY <1>1, <1>2, QueueKept
<1> QED
  BY <1>1, <1>3 DEF ServerStep

LEMMA EndsRogue ==
  ASSUME RejTyped, EndsInv, RogueServes, UNCHANGED <<testVars, lab>>
  PROVE  EndsInv'
<1>0. /\ lab = "drill" /\ UNCHANGED <<lab, tpc, opened, conn, mode>> /\ rpc # "down"
      /\ spc = "down" /\ conn = NoConn /\ TypeInv /\ Queue
  BY DEF RogueServes, RogueStep, RogueAccept, RogueHandle, RogueGivesUp, testVars, cliVars,
         srvVars, RejTyped, TypeInv, EndsTypeOK, ServerTypeOK, EndsInv
<1>1. RogueAway'
  BY <1>0 DEF EndsInv, RogueAway
<1>2. rpc \in {"read", "stay"} => r_conn \in Conn /\ link[r_conn].srv = "open"
  BY DEF RejTyped, EndsInv, Held
<1>3. CASE RogueAccept
  <2>1. backlog # <<>> /\ backlog' = Tail(backlog) /\ r_conn' = Head(backlog)
        /\ link' = [link EXCEPT ![Head(backlog)].srv = "open"]
    BY <1>3 DEF RogueAccept
  <2>2. /\ Queue' /\ \A c \in Conn : ServerStep(c)
        /\ link'[Head(backlog)].srv = "open"
    BY <1>0, <2>1, QueueAccepted
  <2>3. Held'
    BY <1>0, <2>1, <2>2 DEF Held
  <2> QED
    BY <1>0, <1>1, <2>2, <2>3, ServersKeepEnds
<1>4. ASSUME NEW frames, Served(frames), rpc \in {"read", "stay"}
      PROVE  EndsInv'
  <2>1. Queue' /\ \A c \in Conn : ServerStep(c)
    BY <1>0, <1>2, <1>4, ServedServes
  <2>2. Held'
    BY <1>0, <1>4 DEF Held, Served
  <2> QED
    BY <1>0, <1>1, <2>1, <2>2, ServersKeepEnds
<1>5. CASE RogueGivesUp
  BY <1>4, <1>5 DEF RogueGivesUp
<1>6. CASE RogueHandle
  <2> DEFINE h == Head(link[r_conn].up).body
             q == IF ReachesClient(r_conn) THEN link[r_conn].down \o Answers(h)
                                           ELSE link[r_conn].down
  <2>1. rpc = "read" /\ link[r_conn].up # <<>>
    BY <1>6 DEF RogueHandle
  <2>2. CASE Served(Answers(h))
    BY <1>4, <2>1, <2>2
  <2>3. CASE /\ link' = [link EXCEPT ![r_conn].up = Tail(@),
                           ![r_conn].down = IF ReachesClient(r_conn)
                                            THEN @ \o Answers(h) ELSE @]
             /\ UNCHANGED <<r_conn, backlog>>
    <3>1. link' = [link EXCEPT ![r_conn].up = Tail(@), ![r_conn].down = q]
      BY <1>0, <1>2, <2>1, <2>3, LinkFacts
    <3> HIDE DEF q
    <3>2. Queue' /\ link'[r_conn].srv = "open" /\ \A c \in Conn : ServerStep(c)
      BY <1>0, <1>2, <2>1, <2>3, <3>1, StayServes
    <3>3. Held'
      BY <1>0, <2>3, <3>2 DEF Held
    <3> QED
      BY <1>0, <1>1, <3>2, <3>3, ServersKeepEnds
  <2> QED
    BY <1>6, <2>2, <2>3 DEF RogueHandle
<1> QED
  BY <1>3, <1>5, <1>6 DEF RogueServes, RogueStep

\* The test client too leaves the server's end, once it is connected.
LEMMA TesterOnLink ==
  ASSUME TypeInv,
         TestSendHello \/ TestHandshake \/ TestRecord \/ TestReturns \/ TestFails
  PROVE  /\ UNCHANGED <<backlog, listening, t_case>> /\ tpc' # "start"
         /\ \A x \in Conn : /\ link'[x].srv = link[x].srv
                            /\ x # tconn => link'[x] = link[x]
<1> DEFINE Goal == \A x \in Conn : /\ link'[x].srv = link[x].srv
                                   /\ x # tconn => link'[x] = link[x]
<1>0. tconn \in Conn
  BY TesterIsConn
<1>1. UNCHANGED <<backlog, listening, t_case>> /\ tpc' # "start"
  BY DEF TestSendHello, TestHandshake, TestRecord, TestReturns, TestFails, Raises, TestEnds
<1> SUFFICES Goal
  BY <1>1
<1>2. ASSUME NEW q, link' = [link EXCEPT ![tconn].up = q]
      PROVE  Goal
  BY <1>0, <1>2, WrittenUp
<1>3. ASSUME NEW v, TestEnds(v)
      PROVE  Goal
  <2>1. CASE link' = [link EXCEPT ![tconn].cli = "closed", ![tconn].down = <<>>]
    BY <1>0, <2>1, ClosedEnd
  <2>2. CASE link' = link
    BY <2>2
  <2> QED
    BY <1>3, <2>1, <2>2 DEF TestEnds
<1>4. CASE TestSendHello \/ TestRecord
  <2> HIDE DEF Goal
  <2> QED
    BY <1>2, <1>4 DEF TestSendHello, TestRecord
<1>5. CASE TestHandshake
  <2>1. ASSUME NEW q, link' = [link EXCEPT ![tconn].down = Tail(@), ![tconn].up = q]
        PROVE  Goal
    BY <1>0, <2>1, LinkFacts
  <2> HIDE DEF Goal
  <2> QED
    BY <1>3, <1>5, <2>1 DEF TestHandshake, Raises
<1>6. CASE TestReturns
  <2>1. ASSUME NEW q, link' = [link EXCEPT ![tconn].up = q, ![tconn].cli = "closed",
                                           ![tconn].down = <<>>]
        PROVE  Goal
    BY <1>0, <2>1, LinkFacts
  <2> HIDE DEF Goal
  <2> QED
    BY <1>3, <1>6, <2>1 DEF TestReturns, Raises
<1>7. CASE TestFails
  <2> HIDE DEF Goal
  <2> QED
    BY <1>3, <1>7 DEF TestFails, Raises
<1> HIDE DEF Goal
<1> QED
  BY <1>4, <1>5, <1>6, <1>7

LEMMA EndsTester ==
  ASSUME RejTyped, EndsInv, TesterStep
  PROVE  EndsInv'
<1>0. /\ lab = "client" /\ UNCHANGED <<lab, conn, r_conn, mode, rpc, attacked, graded>>
      /\ TypeInv /\ TestStep /\ tconn \in Conn
      /\ conn \in Conn \cup {NoConn} /\ r_conn \in Conn \cup {NoConn}
  BY TesterIsConn DEF TesterStep, srvVars, rogueVars, drillVars, RejTyped, TypeInv,
                      EndsTypeOK, ServerTypeOK
<1>1. RogueAway'
  BY <1>0 DEF EndsInv, RogueAway
<1>2. CASE TestConnect
  <2>1. /\ link' = [link EXCEPT ![tconn].cli = "open", ![tconn].srv = "queued"]
        /\ backlog' = Append(backlog, tconn) /\ tpc' = "hello" /\ tpc = "start"
    BY <1>2 DEF TestConnect
  <2>2. link[tconn].srv = "none"
    BY <1>0, <2>1 DEF EndsInv, Unopened
  <2>3. Queue' /\ \A x \in Conn : x # tconn => link'[x] = link[x]
    BY <1>0, <2>1, <2>2, QueueJoined DEF EndsInv
  <2>4. Unopened'
    BY <1>0, <2>1, <2>3 DEF EndsInv, Unopened, Party
  <2>5. Held'
    BY <1>0, <2>2, <2>3 DEF EndsInv, Held
  <2> QED
    BY <1>1, <2>3, <2>4, <2>5 DEF EndsInv
<1>3. CASE TestSendHello \/ TestHandshake \/ TestRecord \/ TestReturns \/ TestFails
  <2>1. /\ UNCHANGED backlog /\ tpc' # "start"
        /\ \A x \in Conn : link'[x].srv = link[x].srv
    BY <1>0, <1>3, TesterOnLink
  <2>2. Unopened'
    BY <1>0, <2>1, UnopenedStill DEF EndsInv
  <2>3. \A i \in 1 .. Len(backlog) : backlog[i] \in Conn
    BY <1>0, ElementOfSeq DEF TypeInv, EndsTypeOK, NetTypeOK
  <2>4. Queue' /\ Held'
    BY <1>0, <2>1, <2>3, QueueKept DEF EndsInv, Held
  <2> QED
    BY <1>1, <2>2, <2>4 DEF EndsInv
<1> QED
  BY <1>0, <1>2, <1>3 DEF TestStep

LEMMA EndsGateway ==
  ASSUME RejTyped, EndsInv, GatewayStep \/ GatewayEnds
  PROVE  EndsInv'
<1>0. /\ UNCHANGED <<lab, tpc, opened, r_conn, mode, rpc, attacked, graded>>
      /\ TypeInv /\ Queue
  BY DEF GatewayStep, GatewayEnds, testVars, cliVars, rogueVars, drillVars, RejTyped, EndsInv
<1>1. RogueAway'
  BY <1>0 DEF EndsInv, RogueAway
<1>2. spc # "down" /\ rpc = "down" /\ r_conn = NoConn
  <2>1. spc # "down"
    BY HandleForms, <1>0 DEF GatewayStep, GatewayEnds, Accept, UncaughtException
  <2> QED
    BY <2>1 DEF RejTyped
<1>3. CASE Accept
  <2>1. backlog # <<>> /\ backlog' = Tail(backlog) /\ conn' = Head(backlog)
        /\ link' = [link EXCEPT ![Head(backlog)].srv = "open"]
    BY <1>3 DEF Accept
  <2>2. /\ Queue' /\ \A c \in Conn : ServerStep(c)
        /\ link'[Head(backlog)].srv = "open"
    BY <1>0, <2>1, QueueAccepted
  <2>3. Held'
    BY <1>0, <1>2, <2>1, <2>2 DEF Held
  <2> QED
    BY <1>0, <1>1, <2>2, <2>3, ServersKeepEnds
<1>4. CASE HandleStep
  <2>1. conn \in Conn /\ link[conn].srv = "open"
    BY <1>0, <1>4, HandleForms, ConnIsNotNone DEF EndsInv, Held
  <2>2. /\ Queue' /\ \A c \in Conn : ServerStep(c)
        /\ conn' # NoConn => conn' = conn /\ link'[conn].srv = "open"
    BY <1>0, <1>4, <2>1, HandleServes
  <2>3. Held'
    BY <1>0, <1>2, <2>2 DEF Held
  <2> QED
    BY <1>0, <1>1, <2>2, <2>3, ServersKeepEnds
<1>5. CASE GatewayEnds
  <2>1. ProcessEnds("killed")
    BY <1>5 DEF GatewayEnds, UncaughtException
  <2>2. Held'
    BY <1>0, <1>2, <2>1 DEF Held, ProcessEnds
  <2> QED
    BY <1>0, <1>1, <2>1, <2>2, ProcessEndsServes, ServersKeepEnds
<1> QED
  BY <1>3, <1>4, <1>5 DEF GatewayStep

LEMMA EndsInvInit == Init => EndsInv
<1> SUFFICES ASSUME Init PROVE EndsInv
  OBVIOUS
<1>1. /\ \A c \in Conn : link[c].srv = "none"
      /\ backlog = <<>> /\ conn = NoConn /\ r_conn = NoConn /\ rpc = "down"
      /\ attacked = {} /\ graded = "none" /\ tpc = "start"
  BY DEF Init, NetInit, ServerInit, RogueInit, DrillInit, TestInit
<1>2. Queue
  <2>1. Len(backlog) = 0 /\ 1 .. 0 = {}
    BY <1>1, EmptySeq
  <2> QED
    BY <2>1 DEF Queue
<1> QED
  BY <1>1, <1>2, TesterIsConn DEF EndsInv, Unopened, Held, RogueAway

LEMMA EndsInvNext == RejTyped /\ EndsInv /\ [Next]_vars => EndsInv'
<1> SUFFICES ASSUME RejTyped, EndsInv, [Next]_vars PROVE EndsInv'
  OBVIOUS
<1>1. CASE UNCHANGED vars
  <2>1. RogueAway'
    BY <1>1 DEF EndsInv, RogueAway, vars, rogueVars, drillVars
  <2> QED
    BY <1>1, <2>1, EndsIdle DEF vars, netVars, cliVars, srvVars, rogueVars, testVars
<1> QED
  BY <1>1, EndsScript, EndsBoard, EndsRogue, EndsTester, EndsGateway DEF Next, BoardStep

LEMMA InvariantEnds == Spec => []EndsInv
  BY EndsInvInit, EndsInvNext, InvariantRejTyped, PTL DEF Spec

-----------------------------------------------------------------------------
(***************************************************************************)
(* The firmware against the rogue.                                         *)
(***************************************************************************)
\* No answer has been written to the connection.
Unanswered(c) == link[c].srv \in {"none", "queued"} \/ (rpc = "read" /\ c = r_conn)

\* The firmware has agreed on nothing there.
Nothing(c) == /\ established[c] = NotAgreed
              /\ sent[c] = <<>>
              /\ \A e \in encapsulated : e[1] # c

\* A ServerHello the firmware cannot get past: its MAC is not the expected one, or
\* encapsulation refuses its key.
Hopeless(body) ==
  \/ body.server_mac # ClientExpectedMac(Board, s_hello[Board], ss[Board], body)
  \/ IsFs(s_hello[Board].suite) /\ ~WellFormed(body.ek_eph)

\* The firmware on a connection that has been attacked.
Doomed(c) ==
  \/ /\ cpc[Board] = "await"
     /\ \A i \in 1 .. Len(link[c].down) :
          RightServerHello(Board, link[c].down[i]) => Hopeless(link[c].down[i].body)
  \/ cpc[Board] = "verify" /\ Hopeless(s_frame[Board])
  \/ /\ cpc[Board] = "finish"
     /\ IsFs(s_hello[Board].suite) /\ ~WellFormed(s_frame[Board].ek_eph)

\* What the board's ClientHello on c is made of.
HelloOf(h, c) == /\ h.client_nonce = Fresh("client-nonce", c)
                 /\ h.kem_ct = Ciphertext(Pinned[Board], Fresh("static-coins", c))

\* The ClientHello that a ServerHello's MAC covers.
HelloIn(mac) == mac.a[2][1].a[1]

\* The board in a session on connection b.
InSession(b) ==
  /\ cpc[Board] = "hello" => link[b].up = <<>>
  /\ cpc[Board] # "hello" /\ cpc[Board] # "data" =>
       /\ HelloOf(s_hello[Board], b)
       /\ s_hello[Board].suite = suiteOf(Board)
       /\ ss[Board] = Secret(Pinned[Board], Fresh("static-coins", b))
  /\ cpc[Board] = "await" =>
       \A i \in 1 .. Len(link[b].up) :
         link[b].up[i].type = "ClientHello" => link[b].up[i].body = s_hello[Board]
  /\ Unanswered(b) => cpc[Board] \in {"hello", "await"}
  /\ b \in attacked => Doomed(b)

HellosSent == \A c \in Conn : \A i \in 1 .. Len(link[c].up) :
  c[1] = Board /\ link[c].up[i].type = "ClientHello" => HelloOf(link[c].up[i].body, c)

\* A recorded ServerHello answers a ClientHello of a connection that is over.
StoreIsOld ==
  store # NoTerm /\ store.server_mac.f = "hmac" =>
    \E c \in Conn : /\ link[c].srv = "closed"
                    /\ HelloIn(store.server_mac).client_nonce = Fresh("client-nonce", c)

Domains == /\ DOMAIN ss = Device /\ DOMAIN s_hello = Device /\ DOMAIN s_frame = Device
           /\ DOMAIN established = Conn

BoardInv ==
  /\ Domains
  /\ \A c \in Conn : link[c].srv = "none" => link[c].up = <<>>
  /\ \A c \in Conn : Unanswered(c) => link[c].down = <<>> /\ Nothing(c)
  /\ \A c \in attacked : /\ Nothing(c) /\ ~Unanswered(c)
                         /\ link[c].srv = "closed" \/ c = r_conn
  /\ HellosSent /\ StoreIsOld
  /\ Busy(Board) => InSession(curr(Board))

\* What is on its way up is no more than it was.
LEMMA FewerUp ==
  ASSUME TypeInv, NEW c \in Conn, ServerStep(c)
  PROVE  \A i \in 1 .. Len(link'[c].up) :
           \E j \in 1 .. Len(link[c].up) : link'[c].up[i] = link[c].up[j]
<1> DEFINE q == link[c].up
           L == Len(q)
<1>1. PICK S : q \in Seq(S)
  BY LinkFacts
<1>2. L \in Nat
  BY <1>1, LenProperties
<1>3. CASE link'[c].up = q
  BY <1>3
<1>4. CASE link'[c].up = <<>>
  <2>1. Len(link'[c].up) = 0 /\ 1 .. 0 = {}
    BY <1>4, EmptySeq
  <2> QED
    BY <2>1
<1>5. CASE q # <<>> /\ link'[c].up = Tail(q)
  <2>1. /\ L \in Nat /\ L >= 1 /\ Len(Tail(q)) = L - 1
        /\ \A i \in 1 .. L - 1 : Tail(q)[i] = q[i + 1]
    <3> HIDE DEF q
    <3> QED
      BY <1>1, <1>5, HeadTailProperties, LenProperties
  <2> HIDE DEF L, q
  <2>2. ASSUME NEW i \in 1 .. L - 1
        PROVE  i + 1 \in 1 .. L
    BY <2>1
  <2> QED
    BY <1>5, <2>1, <2>2 DEF L, q
<1> QED
  BY <1>3, <1>4, <1>5 DEF ServerStep

LEMMA DoomedStays ==
  ASSUME UNCHANGED cliVars, NEW c, link'[c].down = link[c].down
  PROVE  Doomed(c) => Doomed(c)'
  BY DEF cliVars, runVars, runLocals, statics, Doomed, Hopeless, RightServerHello

\* The servers move, and the board does not.
LEMMA ServersMove ==
  ASSUME RejTyped, BoardInv, UNCHANGED cliVars, \A c \in Conn : ServerStep(c),
         \A c \in Conn : Unanswered(c)' => Unanswered(c) /\ link'[c].down = link[c].down,
         \A c \in attacked' : /\ Nothing(c) /\ ~Unanswered(c)'
                              /\ link'[c].srv = "closed" \/ c = r_conn',
         StoreIsOld',
         NEW b, b = curr(Board), Busy(Board) /\ b \in attacked' => Doomed(b)'
  PROVE  BoardInv'
<1>1. /\ UNCHANGED <<cpc, results, opened, s_hello, ss, s_frame>>
      /\ UNCHANGED <<established, sent, encapsulated>>
  BY DEF cliVars, runVars, runLocals, statics, clientHistory
<1>2. \A c \in Conn : link[c].srv \in {"none", "queued", "open", "closed"}
  BY DEF RejTyped, TypeInv, EndsTypeOK, NetTypeOK, SrvEnd
<1>3. Domains'
  BY <1>1 DEF BoardInv, Domains
<1>4. ASSUME NEW c \in Conn, link'[c].srv = "none"
      PROVE  link'[c].up = <<>>
  BY <1>2, <1>4 DEF BoardInv, ServerStep
<1>5. \A c : Nothing(c)' <=> Nothing(c)
  BY <1>1 DEF Nothing
<1>6. ASSUME NEW c \in Conn, Unanswered(c)'
      PROVE  link'[c].down = <<>> /\ Nothing(c)'
  BY <1>5, <1>6 DEF BoardInv
<1>7. HellosSent'
  <2>1. ASSUME NEW c \in Conn, NEW i \in 1 .. Len(link'[c].up), c[1] = Board,
               link'[c].up[i].type = "ClientHello"
        PROVE  HelloOf(link'[c].up[i].body, c)
    <3>1. PICK j \in 1 .. Len(link[c].up) : link'[c].up[i] = link[c].up[j]
      BY FewerUp DEF RejTyped
    <3> QED
      BY <2>1, <3>1 DEF BoardInv, HellosSent
  <2> QED
    BY <2>1 DEF HellosSent, HelloOf
<1>8. ASSUME Busy(Board)
      PROVE  InSession(b)'
  <2>1. InSession(b) /\ b \in Conn
    BY <1>8, CurrIsConn, TesterIsConn DEF BoardInv, RejTyped
  <2>2. cpc[Board] = "hello" => link'[b].up = <<>>
    BY <2>1 DEF InSession, ServerStep
  <2>3. cpc[Board] = "await" =>
          \A i \in 1 .. Len(link'[b].up) :
            link'[b].up[i].type = "ClientHello" => link'[b].up[i].body = s_hello[Board]
    <3>1. ASSUME cpc[Board] = "await", NEW i \in 1 .. Len(link'[b].up),
                 link'[b].up[i].type = "ClientHello"
          PROVE  link'[b].up[i].body = s_hello[Board]
      <4>1. PICK j \in 1 .. Len(link[b].up) : link'[b].up[i] = link[b].up[j]
        BY <2>1, FewerUp DEF RejTyped
      <4> QED
        BY <2>1, <3>1, <4>1 DEF InSession
    <3> QED
      BY <3>1
  <2>4. Unanswered(b)' => cpc[Board] \in {"hello", "await"}
    BY <2>1 DEF InSession
  <2>5. b \in attacked' => Doomed(b)'
    BY <1>8
  <2>6. cpc[Board] # "hello" /\ cpc[Board] # "data" =>
          /\ HelloOf(s_hello[Board], b)
          /\ s_hello[Board].suite = suiteOf(Board)
          /\ ss[Board] = Secret(Pinned[Board], Fresh("static-coins", b))
    BY <2>1 DEF InSession
  <2>7. suiteOf(Board)' = suiteOf(Board)
    BY <1>1 DEF suiteOf
  <2>8. HelloOf(s_hello[Board], b)' = HelloOf(s_hello[Board], b)
    BY <1>1 DEF HelloOf
  <2> QED
    BY <1>1, <2>2, <2>3, <2>4, <2>5, <2>6, <2>7, <2>8 DEF InSession
<1>9. Busy(Board)' => InSession(curr(Board))'
  <2>1. Busy(Board)' => Busy(Board)
    BY <1>1 DEF Busy
  <2>2. curr(Board)' = b
    BY <1>1 DEF curr
  <2> QED
    BY <1>8, <2>1, <2>2 DEF InSession, Unanswered, Doomed, Hopeless, HelloOf
<1> QED
  BY <1>3, <1>4, <1>5, <1>6, <1>7, <1>9 DEF BoardInv

\* The servers move and the rogue attacks nothing.
LEMMA ServersPass ==
  ASSUME RejTyped, BoardInv, UNCHANGED <<cliVars, attacked>>, store' \in {store, NoTerm},
         \A c \in Conn : ServerStep(c),
         \A c \in Conn : Unanswered(c)' => Unanswered(c) /\ link'[c].down = link[c].down,
         \A c \in attacked : /\ link'[c].down = link[c].down /\ ~Unanswered(c)'
                             /\ link'[c].srv = "closed" \/ c = r_conn'
  PROVE  BoardInv'
<1> DEFINE b == curr(Board)
<1>1. StoreIsOld'
  <2>1. \A c \in Conn : link[c].srv = "closed" => link'[c].srv = "closed"
    BY DEF ServerStep
  <2>2. CASE store' = store
    BY <2>1, <2>2 DEF BoardInv, StoreIsOld
  <2>3. CASE store' = NoTerm
    BY <2>3 DEF StoreIsOld
  <2> QED
    BY <2>2, <2>3
<1>2. \A c \in attacked : Nothing(c)
  BY DEF BoardInv
<1>3. Busy(Board) /\ b \in attacked => Doomed(b)
  BY DEF BoardInv, InSession
<1>4. \A c \in attacked : Doomed(c) => Doomed(c)'
  BY DoomedStays
<1>5. \A c : c = b => (Busy(Board) /\ c \in attacked' => Doomed(c)')
  BY <1>3, <1>4
<1> HIDE DEF b
<1> QED
  BY <1>1, <1>2, <1>5, ServersMove DEF b

\* A step after which the rogue is not reading, and attacks nobody.
LEMMA NotReading ==
  ASSUME TypeInv, \A c \in Conn : ServerStep(c), rpc' # "read",
         NEW c \in Conn, Unanswered(c)'
  PROVE  Unanswered(c) /\ link'[c].down = link[c].down
<1>1. link[c].srv \in {"none", "queued", "open", "closed"}
  BY DEF TypeInv, EndsTypeOK, NetTypeOK, SrvEnd
<1> QED
  BY <1>1 DEF Unanswered, ServerStep

LEMMA BoardGateway ==
  ASSUME RejTyped, EndsInv, BoardInv, GatewayStep
  PROVE  BoardInv'
<1>0. /\ UNCHANGED <<cliVars, attacked, store, rpc, r_conn>> /\ TypeInv /\ Queue
      /\ rpc = "down" /\ r_conn = NoConn
  <2>1. spc # "down"
    BY HandleForms DEF GatewayStep, Accept, RejTyped
  <2> QED
    BY <2>1 DEF GatewayStep, rogueVars, RejTyped, EndsInv
<1>1. \A c \in Conn : ServerStep(c)
  <2>1. CASE Accept
    BY <1>0, <2>1, QueueAccepted DEF Accept
  <2>2. CASE HandleStep
    <3>1. conn \in Conn /\ link[conn].srv = "open"
      BY <1>0, <2>2, HandleForms, ConnIsNotNone DEF EndsInv, Held
    <3> QED
      BY <1>0, <2>2, <3>1, HandleServes
  <2> QED
    BY <2>1, <2>2 DEF GatewayStep
<1>2. \A c \in Conn : Unanswered(c)' => Unanswered(c) /\ link'[c].down = link[c].down
  BY <1>0, <1>1, NotReading
<1>3. ASSUME NEW c \in attacked
      PROVE  link'[c] = link[c] /\ link[c].srv = "closed" /\ ~Unanswered(c)'
  <2>1. c \in Conn /\ link[c].srv = "closed"
    BY <1>0, ConnIsNotNone DEF RejTyped, BoardInv
  <2>2. link'[c] = link[c]
    BY <1>1, <2>1 DEF ServerStep
  <2> QED
    BY <1>0, <2>1, <2>2 DEF Unanswered
<1> QED
  BY <1>0, <1>1, <1>2, <1>3, ServersPass

LEMMA BoardIdle ==
  ASSUME RejTyped, BoardInv, UNCHANGED <<cliVars, link, attacked, r_conn>>,
         rpc' = rpc \/ (rpc = "down" /\ rpc' = "accept"),
         store' \in {store, NoTerm}
  PROVE  BoardInv'
<1>1. \A c \in Conn : ServerStep(c)
  BY NothingServed DEF RejTyped
<1>2. \A c \in Conn : Unanswered(c)' <=> Unanswered(c)
  BY DEF Unanswered, RejTyped
<1>3. attacked \subseteq Conn
  BY DEF RejTyped
<1>4. \A c \in attacked : /\ link'[c].down = link[c].down /\ ~Unanswered(c)'
                          /\ link'[c].srv = "closed" \/ c = r_conn'
  BY <1>2, <1>3 DEF BoardInv
<1> QED
  BY <1>1, <1>2, <1>4, ServersPass

LEMMA BoardScript ==
  ASSUME RejTyped, EndsInv, BoardInv,
         Capture \/ evaluate \/ ClearStore \/ stop_servers \/ start_rogue \/ start_real
  PROVE  BoardInv'
<1>2. CASE Capture \/ evaluate
  BY <1>2, BoardIdle DEF Capture, evaluate, rogueVars, netVars
<1>3. CASE ClearStore
  BY <1>3, BoardIdle DEF ClearStore, Ssh, rogueIdle, rogueVars, netVars
<1>4. CASE stop_servers
  <2>1. UNCHANGED cliVars
    BY <1>4 DEF stop_servers
  <2>2. CASE /\ ProcessEnds("killed") /\ rpc' = "down" /\ r_conn' = NoConn
             /\ UNCHANGED <<store, attacked>>
    <3>1. \A c \in Conn : /\ ServerStep(c)
                          /\ link'[c].srv \in {"none", "closed"}
                          /\ link'[c].down = link[c].down
      BY <2>2, ProcessEndsServes DEF RejTyped
    <3>2. \A c \in Conn : Unanswered(c)' => Unanswered(c) /\ link'[c].down = link[c].down
      BY <2>2, <3>1, NotReading DEF RejTyped
    <3>3. ASSUME NEW c \in attacked
          PROVE  /\ link'[c].down = link[c].down /\ ~Unanswered(c)'
                 /\ link'[c].srv = "closed"
      <4>1. c \in Conn /\ link[c].srv # "none"
        BY DEF RejTyped, BoardInv, Unanswered
      <4>2. link'[c].srv # "none"
        BY <3>1, <4>1 DEF ServerStep, RejTyped, TypeInv, EndsTypeOK, NetTypeOK, SrvEnd
      <4> QED
        BY <2>2, <3>1, <4>1, <4>2 DEF Unanswered
    <3> QED
      BY <2>1, <2>2, <3>1, <3>2, <3>3, ServersPass
  <2>3. CASE rogueIdle
    BY <2>1, <2>3, BoardIdle DEF rogueIdle, rogueVars, netVars
  <2> QED
    BY <1>4, <2>2, <2>3 DEF stop_servers, Ssh
<1>5. CASE start_rogue
  <2>1. UNCHANGED <<cliVars, link, attacked, r_conn, store>>
    BY <1>5 DEF start_rogue, Ssh, rogueIdle, netVars, rogueVars
  <2>2. rpc' = rpc \/ (rpc = "down" /\ rpc' = "accept")
    BY <1>5 DEF start_rogue, Ssh, rogueIdle, rogueVars, RejTyped
  <2> QED
    BY <2>1, <2>2, BoardIdle
<1>6. CASE start_real
  BY <1>6, BoardIdle DEF start_real, Ssh, serverIdle, rogueVars, netVars
<1> QED
  BY <1>2, <1>3, <1>4, <1>5, <1>6

\* What a MAC was made from can be read off it.
LEMMA MacParts ==
  ASSUME NEW p, NEW th
  PROVE  /\ Hmac(HkdfExpand(p, LABEL_SRV_CONFIRM, th), <<th>>).f = "hmac"
         /\ Hmac(HkdfExpand(p, LABEL_SRV_CONFIRM, th), <<th>>).a[1].a[1] = p
         /\ Hmac(HkdfExpand(p, LABEL_SRV_CONFIRM, th), <<th>>).a[2][1] = th
  BY DEF Hmac, HkdfExpand

LEMMA ExtractParts ==
  ASSUME NEW x, NEW s, NEW k
  PROVE  HkdfExtract(x, <<s, k>>).a[2][1] = s
  BY DEF HkdfExtract

LEMMA TranscriptParts ==
  ASSUME NEW h, NEW sn, NEW sid, NEW ek
  PROVE  /\ Sha256(<<h, sn, sid, ek>>).a[1] = h
         /\ Sha256(<<h, sn, sid, ek>>).a[4] = ek
  BY DEF Sha256

\* The secret, the ClientHello and the key that a ServerHello's MAC vouches for.
SecretIn(mac) == mac.a[1].a[1].a[2][1]
EkIn(mac) == mac.a[2][1].a[4]

LEMMA BuiltHello ==
  ASSUME NEW h, NEW s, NEW ek, NEW wire
  PROVE  /\ build_valid_server_hello(h, s, ek, wire).ek_eph = wire
         /\ build_valid_server_hello(h, s, ek, wire).server_mac.f = "hmac"
         /\ SecretIn(build_valid_server_hello(h, s, ek, wire).server_mac) = s
         /\ HelloIn(build_valid_server_hello(h, s, ek, wire).server_mac) = h
         /\ EkIn(build_valid_server_hello(h, s, ek, wire).server_mac) = ek
<1> DEFINE sn == Fresh("rogue-nonce", r_conn)
           sid == Fresh("rogue-session-id", r_conn)
           th2 == Sha256(<<h, sn, sid, ek>>)
           prk == HkdfExtract(<<h.client_nonce, sn>>, <<s, RoguePsk>>)
           body == build_valid_server_hello(h, s, ek, wire)
<1>1. /\ body.ek_eph = wire
      /\ body.server_mac = Hmac(HkdfExpand(prk, LABEL_SRV_CONFIRM, th2), <<th2>>)
  BY DEF build_valid_server_hello, derive_stage1, derive_keys, transcript_2
<1>2. prk.a[2][1] = s /\ th2.a[1] = h /\ th2.a[4] = ek
  BY ExtractParts, TranscriptParts
<1> HIDE DEF th2, prk, body
<1> QED
  BY <1>1, <1>2, MacParts DEF SecretIn, HelloIn, EkIn, body

LEMMA ExpectedParts ==
  ASSUME NEW h, NEW s, NEW sh
  PROVE  /\ ClientExpectedMac(Board, h, s, sh).f = "hmac"
         /\ SecretIn(ClientExpectedMac(Board, h, s, sh)) = s
         /\ HelloIn(ClientExpectedMac(Board, h, s, sh)) = h
         /\ EkIn(ClientExpectedMac(Board, h, s, sh)) = sh.ek_eph
<1> DEFINE th2 == Sha256(<<h, sh.server_nonce, sh.session_id, sh.ek_eph>>)
           prk == HkdfExtract(<<h.client_nonce, sh.server_nonce>>, <<s, DevicePsk[Board]>>)
           mac == ClientExpectedMac(Board, h, s, sh)
<1>1. mac = Hmac(HkdfExpand(prk, LABEL_SRV_CONFIRM, th2), <<th2>>)
  BY DEF ClientExpectedMac, ClientTh2, ClientPrk1
<1>2. prk.a[2][1] = s /\ th2.a[1] = h /\ th2.a[4] = sh.ek_eph
  BY ExtractParts, TranscriptParts
<1> HIDE DEF th2, prk, mac
<1> QED
  BY <1>1, <1>2, MacParts DEF SecretIn, HelloIn, EkIn, mac

\* Decapsulating with another key pair.
LEMMA ImpostorRejects ==
  ASSUME NEW pair, NEW ek, NEW coins, pair # ek
  PROVE  Decaps(pair, Ciphertext(ek, coins)) # Secret(ek, coins)
<1>1. Ciphertext(ek, coins).a[1] = ek
  BY DEF Ciphertext
<1>2. Decaps(pair, Ciphertext(ek, coins)).f = "reject"
  BY <1>1 DEF Decaps
<1>3. Secret(ek, coins).f = "ss"
  BY DEF Secret
<1> QED
  BY <1>2, <1>3

LEMMA FreshInjective ==
  ASSUME NEW u, NEW c, NEW v, NEW d, Fresh(u, c) = Fresh(v, d)
  PROVE  u = v /\ c = d
<1>1. Fresh(u, c).f = u /\ Fresh(u, c).a = c /\ Fresh(v, d).f = v /\ Fresh(v, d).a = d
  BY DEF Fresh
<1> QED
  BY <1>1

\* None of the ServerHellos a mode is named for gets past the firmware.
LEMMA AttackIsHopeless ==
  ASSUME StoreIsOld, NEW h, h = s_hello[Board], HelloOf(h, r_conn), r_conn \in Conn,
         ss[Board] = Secret(Pinned[Board], Fresh("static-coins", r_conn)),
         link[r_conn].srv = "open", Attacks(h),
         mode \in RogueMode \ {"truncate", "silence", "bad-type", "bad-length"}
  PROVE  Hopeless(Payload(h))
<1> DEFINE p == Payload(h)
           expected == ClientExpectedMac(Board, h, ss[Board], p)
<1>1. /\ expected.f = "hmac" /\ SecretIn(expected) = ss[Board]
      /\ HelloIn(expected) = h /\ EkIn(expected) = p.ek_eph
  BY ExpectedParts
<1>2. p.server_mac # expected => Hopeless(p)
  BY DEF Hopeless
<1>3. CASE mode = "wrong-mac"
  <2>1. p = [Honest(h) EXCEPT !.server_mac = Flipped(@)]
    BY <1>3 DEF Payload
  <2> DEFINE g == Honest(h)
  <2>2. DOMAIN g = {"server_nonce", "session_id", "ek_eph", "server_mac"}
    BY DEF Honest, build_valid_server_hello
  <2> HIDE DEF g
  <2>3. p.server_mac = Flipped(g.server_mac)
    BY <2>1, <2>2 DEF g
  <2>4. p.server_mac.f = "flipped"
    BY <2>3 DEF Flipped
  <2> QED
    BY <1>1, <1>2, <2>4
<1>4. CASE mode = "impostor"
  <2> DEFINE s == Decaps(make_impostor_key, h.kem_ct)
  <2>1. p = build_valid_server_hello(h, s, NoTerm, NoTerm)
    BY <1>4 DEF Payload
  <2>2. s # ss[Board]
    <3>1. Pinned[Board] # make_impostor_key
      BY DrillAssumption DEF make_impostor_key
    <3>2. h.kem_ct = Ciphertext(Pinned[Board], Fresh("static-coins", r_conn))
      BY DEF HelloOf
    <3> QED
      BY <3>1, <3>2, ImpostorRejects
  <2> HIDE DEF s, p, expected
  <2>3. SecretIn(p.server_mac) = s
    BY <2>1, BuiltHello
  <2> QED
    BY <1>1, <1>2, <2>2, <2>3 DEF p
<1>5. CASE mode = "swap-ek"
  <2> DEFINE s == Decaps(RogueKey, h.kem_ct)
  <2>1. p = build_valid_server_hello(h, s, make_ephemeral, other_ek)
    BY <1>5 DEF Payload
  <2> HIDE DEF s, p, expected
  <2>2. p.ek_eph = other_ek /\ EkIn(p.server_mac) = make_ephemeral
    BY <2>1, BuiltHello
  <2>3. make_ephemeral # other_ek
    BY FreshInjective DEF make_ephemeral, other_ek
  <2> QED
    BY <1>1, <1>2, <2>2, <2>3 DEF p
<1>6. CASE mode = "bad-ek"
  <2> DEFINE s == Decaps(RogueKey, h.kem_ct)
  <2>1. p = build_valid_server_hello(h, s, malformed, malformed)
    BY <1>6 DEF Payload
  <2> HIDE DEF s, p
  <2>2. p.ek_eph = malformed
    BY <2>1, BuiltHello
  <2>3. IsFs(h.suite)
    BY <1>6 DEF Attacks, SuiteFs, IsFs, FS_ONLY_MODES
  <2>4. ~WellFormed(malformed)
    BY DEF WellFormed, malformed
  <2> QED
    BY <2>2, <2>3, <2>4 DEF Hopeless, p
<1>7. CASE mode = "replay"
  <2>1. store # NoTerm /\ p = store
    BY <1>7 DEF Attacks, Payload
  <2> HIDE DEF p, expected
  <2>2. ASSUME p.server_mac = expected
        PROVE  FALSE
    <3>1. store.server_mac.f = "hmac" /\ HelloIn(store.server_mac) = h
      BY <1>1, <2>1, <2>2
    <3>2. PICK c \in Conn : /\ link[c].srv = "closed"
                            /\ h.client_nonce = Fresh("client-nonce", c)
      BY <2>1, <3>1 DEF StoreIsOld
    <3>3. c = r_conn
      BY <3>2, FreshInjective DEF HelloOf
    <3> QED
      BY <3>2, <3>3
  <2> QED
    BY <1>2, <2>2 DEF p
<1> QED
  BY <1>3, <1>4, <1>5, <1>6, <1>7 DEF RogueMode, FS_ONLY_MODES

\* What handling a ClientHello does to the connections.
LEMMA HandledHello ==
  ASSUME RejTyped, EndsInv, RogueHandle, NEW h, h = Head(link[r_conn].up).body
  PROVE  /\ \A c \in Conn : /\ ServerStep(c)
                            /\ c # r_conn => link'[c].down = link[c].down
         /\ rpc' # "read"
         /\ link'[r_conn].srv = "closed" \/ (link'[r_conn].srv = "open" /\ r_conn' = r_conn)
         /\ mode = "replay" => link'[r_conn].srv = "closed"
         /\ link'[r_conn].down = link[r_conn].down \o Answers(h)
              \/ link'[r_conn].down = link[r_conn].down
<1> DEFINE q == IF ReachesClient(r_conn) THEN link[r_conn].down \o Answers(h)
                                         ELSE link[r_conn].down
<1>0. /\ r_conn \in Conn /\ link[r_conn].srv = "open" /\ link[r_conn].up # <<>>
      /\ rpc = "read" /\ TypeInv /\ Queue
  BY ConnIsNotNone DEF RogueHandle, RejTyped, EndsInv, Held
<1>1. PICK S : link[r_conn].down \in Seq(S)
  BY <1>0, LinkFacts
<1>2. CASE Served(Answers(h))
  <2>1. /\ \A c \in Conn : ServerStep(c) /\ (c # r_conn => link'[c].down = link[c].down)
        /\ link'[r_conn].srv = "closed"
        /\ link'[r_conn].down = link[r_conn].down \o
              (IF ReachesClient(r_conn) THEN Answers(h) ELSE <<>>)
    BY <1>0, <1>2, ServedServes
  <2>2. link[r_conn].down \o <<>> = link[r_conn].down
    BY <1>1, EmptySeq
  <2>3. rpc' # "read"
    BY <1>2 DEF Served
  <2> QED
    BY <2>1, <2>2, <2>3
<1>3. CASE /\ rpc' = "stay" /\ UNCHANGED <<left, r_conn, listening, backlog>>
           /\ mode = "silence" \/ mode \in FS_ONLY_MODES
           /\ link' = [link EXCEPT ![r_conn].up = Tail(@),
                         ![r_conn].down = IF ReachesClient(r_conn)
                                          THEN @ \o Answers(h) ELSE @]
  <2>1. link' = [link EXCEPT ![r_conn].up = Tail(@), ![r_conn].down = q]
    BY <1>0, <1>3, LinkFacts
  <2>2. q = link[r_conn].down \o Answers(h) \/ q = link[r_conn].down
    OBVIOUS
  <2> HIDE DEF q
  <2>3. /\ \A c \in Conn : ServerStep(c) /\ (c # r_conn => link'[c] = link[c])
        /\ link'[r_conn].srv = "open" /\ link'[r_conn].down = q
    BY <1>0, <1>3, <2>1, StayServes
  <2> QED
    BY <1>3, <2>2, <2>3 DEF FS_ONLY_MODES
<1> QED
  BY <1>2, <1>3 DEF RogueHandle

\* What the firmware takes for a ServerHello among the answers of an attack.
LEMMA AnswersAreHopeless ==
  ASSUME NEW h, Attacks(h), mode \in RogueMode,
         mode \notin {"truncate", "silence", "bad-type", "bad-length"}
                => Hopeless(Payload(h)),
         NEW i \in 1 .. Len(Answers(h)), RightServerHello(Board, Answers(h)[i])
  PROVE  Hopeless(Answers(h)[i].body)
<1>1. CASE mode \in {"truncate", "silence"}
  <2>1. Answers(h) = <<>>
    BY <1>1 DEF Answers
  <2> QED
    BY <2>1, EmptySeq
<1>2. CASE mode = "bad-type"
  <2>1. Answers(h) = <<Frame("0x42", NoTerm)>>
    BY <1>2 DEF Answers
  <2>2. i = 1 /\ Answers(h)[1].type = "0x42"
    BY <2>1 DEF Frame
  <2> QED
    BY <2>2 DEF RightServerHello
<1>3. CASE mode \notin {"truncate", "silence", "bad-type"}
  <2>1. Answers(h) = <<Frame("ServerHello", Payload(h))>>
    BY <1>3 DEF Answers
  <2>2. i = 1 /\ Answers(h)[1].body = Payload(h)
    BY <2>1 DEF Frame
  <2>3. CASE mode = "bad-length"
    <3>1. Payload(h) = Ragged
      BY <2>3 DEF Payload
    <3> QED
      BY <2>2, <3>1 DEF RightServerHello
  <2> QED
    BY <1>3, <2>2, <2>3
<1> QED
  BY <1>1, <1>2, <1>3

\* The board's connection, when the rogue has its ClientHello: the board waits there.
LEMMA BoardAwaits ==
  ASSUME RejTyped, EndsInv, BoardInv, RogueHandle, lab = "drill",
         Busy(Board), curr(Board) = r_conn
  PROVE  /\ cpc[Board] = "await" /\ Head(link[r_conn].up).body = s_hello[Board]
         /\ ss[Board] = Secret(Pinned[Board], Fresh("static-coins", r_conn))
<1>1. /\ rpc = "read" /\ link[r_conn].up # <<>> /\ Unanswered(r_conn)
      /\ Head(link[r_conn].up).type = "ClientHello" /\ r_conn \in Conn
  BY ConnIsNotNone DEF RogueHandle, Unanswered, RejTyped
<1>2. InSession(r_conn)
  BY DEF BoardInv
<1>3. cpc[Board] = "await"
  BY <1>1, <1>2 DEF InSession
<1>4. 1 \in 1 .. Len(link[r_conn].up) /\ link[r_conn].up[1] = Head(link[r_conn].up)
  <2>1. PICK S : link[r_conn].up \in Seq(S)
    BY <1>1, LinkFacts DEF RejTyped
  <2> QED
    BY <1>1, <2>1, HeadTailProperties, LenProperties
<1> QED
  BY <1>1, <1>2, <1>3, <1>4 DEF InSession

\* The ClientHello the rogue handles is one the board has sent on the connection.
LEMMA HandlesBoard ==
  ASSUME RejTyped, EndsInv, BoardInv, RogueHandle, lab = "drill"
  PROVE  /\ r_conn \in Conn /\ link[r_conn].srv = "open" /\ Unanswered(r_conn)
         /\ HelloOf(Head(link[r_conn].up).body, r_conn)
<1>1. /\ rpc = "read" /\ link[r_conn].up # <<>> /\ Unanswered(r_conn) /\ r_conn \in Conn
      /\ Head(link[r_conn].up).type = "ClientHello" /\ link[r_conn].srv = "open"
  BY ConnIsNotNone DEF RogueHandle, Unanswered, RejTyped, EndsInv, Held
<1>2. r_conn[1] = Board
  BY <1>1 DEF EndsInv, Unopened, Party
<1>3. 1 \in 1 .. Len(link[r_conn].up) /\ link[r_conn].up[1] = Head(link[r_conn].up)
  <2>1. PICK S : link[r_conn].up \in Seq(S)
    BY <1>1, LinkFacts DEF RejTyped
  <2> QED
    BY <1>1, <2>1, HeadTailProperties, LenProperties
<1> QED
  BY <1>1, <1>2, <1>3 DEF BoardInv, HellosSent

LEMMA BoardHandled ==
  ASSUME RejTyped, EndsInv, BoardInv, RogueHandle, lab = "drill", UNCHANGED cliVars
  PROVE  BoardInv'
<1> DEFINE h == Head(link[r_conn].up).body
<1>0. /\ r_conn \in Conn /\ link[r_conn].srv = "open" /\ Unanswered(r_conn)
      /\ HelloOf(h, r_conn) /\ TypeInv /\ attacked \subseteq Conn /\ mode \in RogueMode
  BY HandlesBoard DEF RejTyped, EndsInv, RogueAway, RogueHandle
<1>1. /\ UNCHANGED mode
      /\ attacked' = IF Attacks(h) THEN attacked \cup {r_conn} ELSE attacked
      /\ store' = IF mode = "replay" /\ ~Attacks(h) THEN Payload(h) ELSE store
  BY DEF RogueHandle
<1>2. /\ \A c \in Conn : ServerStep(c) /\ (c # r_conn => link'[c].down = link[c].down)
      /\ rpc' # "read"
      /\ link'[r_conn].srv = "closed" \/ (link'[r_conn].srv = "open" /\ r_conn' = r_conn)
      /\ mode = "replay" => link'[r_conn].srv = "closed"
      /\ link'[r_conn].down = link[r_conn].down \o Answers(h)
           \/ link'[r_conn].down = link[r_conn].down
  BY HandledHello
<1>3. link[r_conn].down = <<>> /\ Nothing(r_conn)
  BY <1>0 DEF BoardInv
<1>4. \A c \in Conn : Unanswered(c)' => Unanswered(c) /\ link'[c].down = link[c].down
  BY <1>0, <1>2, NotReading
<1>5. ASSUME NEW c \in attacked'
      PROVE  /\ Nothing(c) /\ ~Unanswered(c)'
             /\ link'[c].srv = "closed" \/ c = r_conn'
  <2>1. CASE c = r_conn
    BY <1>2, <1>3, <2>1 DEF Unanswered
  <2>2. CASE c # r_conn
    <3>1. c \in attacked /\ c \in Conn
      BY <1>0, <1>1, <1>5, <2>2
    <3>2. Nothing(c) /\ link[c].srv = "closed"
      BY <2>2, <3>1 DEF BoardInv
    <3>3. link'[c].srv = "closed"
      BY <1>2, <3>1, <3>2 DEF ServerStep
    <3> QED
      BY <1>2, <3>2, <3>3 DEF Unanswered
  <2> QED
    BY <2>1, <2>2
<1> HIDE DEF h
<1>6. StoreIsOld'
  <2>1. CASE mode = "replay" /\ ~Attacks(h)
    <3>1. store = NoTerm /\ store' = Honest(h)
      BY <1>1, <2>1 DEF Attacks, Payload, FS_ONLY_MODES
    <3>2. HelloIn(store'.server_mac) = h
      BY <3>1, BuiltHello DEF Honest
    <3>3. link'[r_conn].srv = "closed" /\ h.client_nonce = Fresh("client-nonce", r_conn)
      BY <1>0, <1>2, <2>1 DEF HelloOf
    <3> QED
      BY <1>0, <3>2, <3>3 DEF StoreIsOld
  <2>2. CASE store' = store
    <3>1. \A c \in Conn : link[c].srv = "closed" => link'[c].srv = "closed"
      BY <1>2 DEF ServerStep
    <3> QED
      BY <2>2, <3>1 DEF BoardInv, StoreIsOld
  <2> QED
    BY <1>1, <2>1, <2>2
<1>7. ASSUME NEW b, b = curr(Board), Busy(Board), b \in attacked'
      PROVE  Doomed(b)'
  <2>1. CASE b \in attacked
    <3>1. b # r_conn /\ b \in Conn
      BY <1>0, <2>1 DEF BoardInv
    <3>2. link'[b].down = link[b].down
      BY <1>2, <3>1
    <3>3. Doomed(b)
      BY <1>7, <2>1 DEF BoardInv, InSession
    <3> QED
      BY <3>2, <3>3, DoomedStays
  <2>2. CASE b \notin attacked
    <3>1. b = r_conn /\ Attacks(h)
      BY <1>1, <1>7, <2>2
    <3>2. /\ cpc[Board] = "await" /\ h = s_hello[Board]
          /\ ss[Board] = Secret(Pinned[Board], Fresh("static-coins", r_conn))
      BY <1>7, <3>1, BoardAwaits DEF h
    <3>3. mode \notin {"truncate", "silence", "bad-type", "bad-length"} => Hopeless(Payload(h))
      BY <1>0, <3>1, <3>2, AttackIsHopeless DEF BoardInv
    <3>4. \A i \in 1 .. Len(link'[b].down) :
            RightServerHello(Board, link'[b].down[i]) => Hopeless(link'[b].down[i].body)
      <4>1. CASE link'[b].down = <<>>
        BY <4>1, EmptySeq
      <4>2. CASE link'[b].down = <<>> \o Answers(h)
        <5>1. link'[b].down = Answers(h)
          <6>1. PICK S : Answers(h) \in Seq(S)
            <7>1. PICK f : Answers(h) \in {<<>>, <<f>>}
              BY DEF Answers
            <7>2. <<f>> \in Seq({f}) /\ <<>> \in Seq({f})
              OBVIOUS
            <7> QED
              BY <7>1, <7>2
          <6> QED
            BY <4>2, <6>1, EmptySeq
        <5> QED
          BY <1>0, <3>1, <3>3, <5>1, AnswersAreHopeless
      <4> QED
        BY <1>2, <1>3, <3>1, <4>1, <4>2
    <3> QED
      BY <3>2, <3>4 DEF Doomed, Hopeless, RightServerHello, cliVars, runVars, runLocals, statics
  <2> QED
    BY <2>1, <2>2
<1> QED
  BY <1>2, <1>4, <1>5, <1>6, <1>7, ServersMove

LEMMA BoardRogue ==
  ASSUME RejTyped, EndsInv, BoardInv, RogueServes
  PROVE  BoardInv'
<1>0. /\ lab = "drill" /\ UNCHANGED cliVars /\ TypeInv /\ Queue /\ attacked \subseteq Conn
  BY DEF RogueServes, RejTyped, EndsInv
<1>1. rpc \in {"read", "stay"} => r_conn \in Conn /\ link[r_conn].srv = "open"
  BY <1>0, ConnIsNotNone DEF RejTyped, EndsInv, Held
<1>2. \A c \in attacked : c # r_conn => link[c].srv = "closed" /\ c \in Conn
  BY <1>0 DEF BoardInv
<1>3. CASE RogueAccept
  <2> DEFINE c == Head(backlog)
  <2>1. /\ backlog # <<>> /\ backlog' = Tail(backlog) /\ r_conn' = c
        /\ link' = [link EXCEPT ![c].srv = "open"]
        /\ rpc = "accept" /\ UNCHANGED <<store, attacked>> /\ r_conn = NoConn
    BY <1>3 DEF RogueAccept, RejTyped
  <2>2. /\ c \in Conn
        /\ \A x \in Conn : ServerStep(x) /\ (x # c => link'[x] = link[x])
        /\ link[c].srv = "queued" /\ link'[c].down = link[c].down
    BY <1>0, <2>1, QueueAccepted
  <2> HIDE DEF c
  <2>3. \A x \in Conn : Unanswered(x)' => Unanswered(x) /\ link'[x].down = link[x].down
    BY <2>1, <2>2 DEF Unanswered
  <2>4. ASSUME NEW x \in attacked
        PROVE  link'[x].down = link[x].down /\ ~Unanswered(x)' /\ link'[x].srv = "closed"
    <3>1. x # r_conn
      BY <1>0, <2>1, ConnIsNotNone
    <3>2. x \in Conn /\ link[x].srv = "closed" /\ x # c
      BY <1>2, <2>2, <3>1
    <3> QED
      BY <2>1, <2>2, <3>2 DEF Unanswered
  <2> QED
    BY <1>0, <2>1, <2>2, <2>3, <2>4, ServersPass
<1>4. CASE RogueGivesUp
  <2>1. Served(<<>>) /\ rpc \in {"read", "stay"} /\ UNCHANGED <<store, attacked>>
    BY <1>4 DEF RogueGivesUp
  <2>2. /\ \A c \in Conn : ServerStep(c) /\ (c # r_conn => link'[c].down = link[c].down)
        /\ link'[r_conn].srv = "closed"
        /\ link'[r_conn].down = link[r_conn].down \o
              (IF ReachesClient(r_conn) THEN <<>> ELSE <<>>)
    BY <1>0, <1>1, <2>1, ServedServes
  <2>3. link[r_conn].down \o <<>> = link[r_conn].down
    <3>1. PICK S : link[r_conn].down \in Seq(S)
      BY <1>0, <1>1, <2>1, LinkFacts
    <3> QED
      BY <3>1, EmptySeq
  <2>4. \A c \in Conn : link'[c].down = link[c].down
    BY <2>2, <2>3
  <2>5. rpc' # "read"
    BY <2>1 DEF Served
  <2>6. \A c \in Conn : Unanswered(c)' => Unanswered(c) /\ link'[c].down = link[c].down
    BY <1>0, <2>2, <2>5, NotReading
  <2>7. ASSUME NEW c \in attacked
        PROVE  link'[c].srv = "closed" /\ c \in Conn
    BY <1>0, <1>2, <2>2 DEF ServerStep
  <2>8. \A c \in attacked : ~Unanswered(c)'
    BY <2>5, <2>7 DEF Unanswered
  <2> QED
    BY <1>0, <2>1, <2>2, <2>4, <2>6, <2>7, <2>8, ServersPass
<1>5. CASE RogueHandle
  BY <1>0, <1>5, BoardHandled
<1> QED
  BY <1>3, <1>4, <1>5 DEF RogueServes, RogueStep

\* What the board wrote to its connection: nothing, or one frame that is no
\* ClientHello but its own.
Wrote(b) ==
  \/ link'[b].up = link[b].up
  \/ \E f : /\ ReachesServer(b)
            /\ link'[b].up = Append(link[b].up, f)
            /\ f.type = "ClientHello" => HelloOf(f.body, b)

\* The board moves, on its own connection if it is in a session.
LEMMA BoardMoves ==
  ASSUME RejTyped, BoardInv, UNCHANGED <<rpc, r_conn, store, attacked, opened>>, Domains',
         NEW b, b = curr(Board),
         \A x \in Conn : link'[x].srv = link[x].srv /\ (x # b => link'[x] = link[x]),
         \A x \in Conn : Nothing(x) /\ (x = b => Unanswered(x) \/ x \in attacked)
                           => Nothing(x)',
         b \in Conn => Wrote(b) /\ (link[b].down = <<>> => link'[b].down = <<>>),
         Busy(Board)' => InSession(b)'
  PROVE  BoardInv'
<1>1. \A x \in Conn : Unanswered(x)' <=> Unanswered(x)
  BY DEF Unanswered
<1>2. ASSUME NEW x \in Conn, link'[x].srv = "none"
      PROVE  link'[x].up = <<>>
  <2>1. link[x].up = <<>>
    BY <1>2 DEF BoardInv
  <2>2. CASE x = b
    BY <1>2, <2>1, <2>2 DEF Wrote, ReachesServer
  <2>3. CASE x # b
    BY <2>1, <2>3
  <2> QED
    BY <2>2, <2>3
<1>3. ASSUME NEW x \in Conn, Unanswered(x)'
      PROVE  link'[x].down = <<>> /\ Nothing(x)'
  <2>1. link[x].down = <<>> /\ Nothing(x) /\ Unanswered(x)
    BY <1>1, <1>3 DEF BoardInv
  <2> QED
    BY <2>1
<1>4. ASSUME NEW x \in attacked'
      PROVE  /\ Nothing(x)' /\ ~Unanswered(x)'
             /\ link'[x].srv = "closed" \/ x = r_conn'
  <2>1. x \in attacked /\ x \in Conn
    BY <1>4 DEF RejTyped
  <2> QED
    BY <1>1, <2>1 DEF BoardInv
<1>5. HellosSent'
  <2>1. ASSUME NEW x \in Conn, NEW i \in 1 .. Len(link'[x].up),
               x[1] = Board, link'[x].up[i].type = "ClientHello"
        PROVE  HelloOf(link'[x].up[i].body, x)
    <3>1. CASE link'[x].up = link[x].up
      BY <2>1, <3>1 DEF BoardInv, HellosSent
    <3>2. CASE x = b /\ link'[x].up # link[x].up
      <4>1. PICK f : /\ link'[b].up = Append(link[b].up, f)
                     /\ f.type = "ClientHello" => HelloOf(f.body, b)
        BY <3>2 DEF Wrote
      <4>2. PICK S : link[b].up \in Seq(S)
        BY <3>2, LinkFacts DEF RejTyped
      <4>3. /\ Len(link'[b].up) = Len(link[b].up) + 1 /\ Len(link[b].up) \in Nat
            /\ link'[b].up[Len(link[b].up) + 1] = f
            /\ \A j \in 1 .. Len(link[b].up) : link'[b].up[j] = link[b].up[j]
        BY <4>1, <4>2, AppendProperties, LenProperties
      <4>4. CASE i = Len(link[b].up) + 1
        <5>1. link'[x].up[i] = f
          BY <3>2, <4>3, <4>4
        <5> QED
          BY <2>1, <3>2, <4>1, <5>1
      <4>5. CASE i \in 1 .. Len(link[b].up)
        <5>1. link'[x].up[i] = link[x].up[i] /\ i \in 1 .. Len(link[x].up)
          BY <3>2, <4>3, <4>5
        <5> QED
          BY <2>1, <5>1 DEF BoardInv, HellosSent
      <4> QED
        BY <2>1, <3>2, <4>3, <4>4, <4>5
    <3> QED
      BY <2>1, <3>1, <3>2
  <2> QED
    BY <2>1 DEF HellosSent, HelloOf
<1>6. StoreIsOld'
  BY DEF BoardInv, StoreIsOld
<1>7. curr(Board)' = b
  BY DEF curr
<1>8. Busy(Board)' => InSession(curr(Board))'
  BY <1>7 DEF InSession, Unanswered, Doomed, Hopeless, HelloOf
<1> QED
  BY <1>2, <1>3, <1>4, <1>5, <1>6, <1>8 DEF BoardInv

\* What the histories have of the connection is untouched.
LEMMA NothingStays ==
  ASSUME UNCHANGED <<established, sent, encapsulated>>
  PROVE  \A x : Nothing(x) => Nothing(x)'
  BY DEF Nothing

\* pqc_session_run returns, without or with a connection to close.
LEMMA BoardReturns ==
  ASSUME RejTyped, BoardInv, UNCHANGED <<rpc, r_conn, store, attacked, opened>>,
         NEW b, b = curr(Board), b \in Conn \/ link' = link,
         \/ link' = link
         \/ b \in Conn /\ \E e : link' = [link EXCEPT ![b].cli = e, ![b].down = <<>>],
         cpc'[Board] \in {"idle", "done"},
         Domains',
         \A x \in Conn : Nothing(x) /\ (x = b => Unanswered(x) \/ x \in attacked)
                           => Nothing(x)'
  PROVE  BoardInv'
<1>1. ~Busy(Board)'
  BY DEF Busy
<1>2. CASE link' = link
  BY <1>1, <1>2, BoardMoves DEF Wrote
<1>3. CASE link' # link
  <2>1. PICK e : b \in Conn /\ link' = [link EXCEPT ![b].cli = e, ![b].down = <<>>]
    BY <1>3
  <2>2. /\ \A x \in Conn : link'[x].srv = link[x].srv /\ (x # b => link'[x] = link[x])
        /\ link'[b].up = link[b].up /\ link'[b].down = <<>>
    BY <2>1, ClosedEnd DEF RejTyped
  <2> QED
    BY <1>1, <2>2, BoardMoves DEF Wrote
<1> QED
  BY <1>2, <1>3

\* The board's connection, in a session.
LEMMA BoardHasConn ==
  ASSUME RejTyped, BoardInv, Busy(Board), NEW b, b = curr(Board)
  PROVE  /\ b \in Conn /\ InSession(b) /\ Board \in Device /\ TypeInv
         /\ Unanswered(b) => cpc[Board] \in {"hello", "await"}
         /\ b \in attacked => Doomed(b)
  BY CurrIsConn, TesterIsConn DEF RejTyped, BoardInv, InSession

\* A session's failures.
LEMMA BoardFails ==
  ASSUME RejTyped, BoardInv, UNCHANGED <<rpc, r_conn, store, attacked, opened>>,
         Busy(Board), Fail(Board), UNCHANGED <<established, sent>>,
         UNCHANGED encapsulated \/ StepFails(Board),
         DOMAIN s_hello' = Device, DOMAIN s_frame' = Device
  PROVE  BoardInv'
<1> DEFINE b == curr(Board)
<1>1. b \in Conn /\ (Unanswered(b) => cpc[Board] \in {"hello", "await"})
      /\ (b \in attacked => Doomed(b)) /\ Board \in Device
  BY BoardHasConn
<1>2. link' = [link EXCEPT ![b].cli = "closed", ![b].down = <<>>]
  BY DEF Fail
<1>3. cpc'[Board] \in {"idle", "done"}
  BY <1>1 DEF Fail, Return, RejTyped, TypeInv, EndsTypeOK, ClientTypeOK
<1>4. Domains'
  BY DEF BoardInv, Domains, Fail, Return, DropLocals
<1>5. ASSUME NEW x \in Conn, Nothing(x), x = b => Unanswered(x) \/ x \in attacked
      PROVE  Nothing(x)'
  <2>1. CASE UNCHANGED encapsulated
    BY <1>5, <2>1 DEF Nothing
  <2>2. CASE encapsulated' # encapsulated
    <3>1. /\ cpc[Board] = "finish" /\ IsFs(s_hello[Board].suite)
          /\ WellFormed(s_frame[Board].ek_eph)
          /\ encapsulated' = encapsulated \cup {<<b, s_frame[Board].ek_eph>>}
      BY <2>2 DEF StepFails
    <3>2. x # b
      BY <1>1, <1>5, <3>1 DEF Doomed
    <3> QED
      BY <1>5, <3>1, <3>2 DEF Nothing
  <2> QED
    BY <2>1, <2>2
<1> HIDE DEF b
<1> QED
  BY <1>1, <1>2, <1>3, <1>4, <1>5, BoardReturns DEF b

LEMMA BoardSendsHello ==
  ASSUME RejTyped, BoardInv, UNCHANGED <<rpc, r_conn, store, attacked>>, SendClientHello(Board)
  PROVE  BoardInv'
<1> SUFFICES ASSUME NEW b, b = curr(Board)
             PROVE  BoardInv'
  OBVIOUS
<1> DEFINE coins == Fresh("static-coins", b)
           part == <<suiteOf(Board), Board, KeyId[Pinned[Board]], Fresh("client-nonce", b),
                     Ciphertext(Pinned[Board], coins)>>
           h == Hello(part, Hmac(DevicePsk[Board], <<LABEL_HELLO, part>>))
           f == Frame("ClientHello", h)
<1>1. Busy(Board) /\ cpc[Board] = "hello"
  BY DEF SendClientHello, Busy
<1>2. /\ b \in Conn /\ InSession(b) /\ Board \in Device /\ TypeInv
      /\ b \in attacked => Doomed(b)
  BY <1>1, BoardHasConn
<1>3. b \notin attacked /\ link[b].up = <<>>
  BY <1>1, <1>2 DEF Doomed, InSession
<1>4. /\ s_hello' = [s_hello EXCEPT ![Board] = h]
      /\ ss' = [ss EXCEPT ![Board] = Secret(Pinned[Board], coins)]
      /\ link' = [link EXCEPT ![b].up = PutUp(b, f)]
      /\ cpc' = [cpc EXCEPT ![Board] = "await"]
      /\ UNCHANGED <<results, opened, s_frame, established, sent, encapsulated>>
  BY DEF SendClientHello, clientHistory
<1>5. /\ h.client_nonce = Fresh("client-nonce", b)
      /\ h.kem_ct = Ciphertext(Pinned[Board], Fresh("static-coins", b))
      /\ h.suite = suiteOf(Board)
  BY DEF Hello
<1>6. f.body = h
  BY DEF Frame
<1>7. Domains' /\ s_hello'[Board] = h /\ ss'[Board] = Secret(Pinned[Board], coins)
      /\ cpc'[Board] = "await"
  BY <1>2, <1>4 DEF BoardInv, Domains, RejTyped, TypeInv, EndsTypeOK, ClientTypeOK
<1>8. /\ \A x \in Conn : link'[x].srv = link[x].srv /\ (x # b => link'[x] = link[x])
      /\ link'[b].up = PutUp(b, f) /\ link'[b].down = link[b].down
  BY <1>2, <1>4, WrittenUp
<1> HIDE DEF h, f, coins, part
<1>9. Wrote(b)
  BY <1>5, <1>6, <1>8 DEF Wrote, PutUp, HelloOf
<1>10. \A i \in 1 .. Len(link'[b].up) : link'[b].up[i].body = h
  <2>1. CASE link'[b].up = <<>>
    BY <2>1, EmptySeq
  <2>2. CASE link'[b].up = Append(<<>>, f)
    <3>1. link'[b].up = <<f>>
      BY <2>2, EmptySeq
    <3> QED
      BY <1>6, <3>1
  <2> QED
    BY <1>3, <1>8, <2>1, <2>2 DEF PutUp
<1>11. InSession(b)'
  <2>1. suiteOf(Board)' = suiteOf(Board)
    BY <1>4 DEF curr, suiteOf
  <2>2. HelloOf(s_hello[Board], b)'
    BY <1>5, <1>7, <2>1 DEF HelloOf
  <2> QED
    BY <1>3, <1>5, <1>7, <1>10, <2>1, <2>2 DEF InSession, coins
<1>12. \A x \in Conn : Nothing(x) => Nothing(x)'
  BY <1>4, NothingStays
<1>13. UNCHANGED opened
  BY <1>4
<1> QED
  BY <1>7, <1>8, <1>9, <1>11, <1>12, <1>13, BoardMoves

LEMMA BoardReads ==
  ASSUME RejTyped, BoardInv, UNCHANGED <<rpc, r_conn, store, attacked>>, ReadServerHello(Board)
  PROVE  BoardInv'
<1>1. Busy(Board) /\ cpc[Board] = "await"
  BY DEF ReadServerHello, Busy
<1> SUFFICES ASSUME NEW b, b = curr(Board)
             PROVE  BoardInv'
  OBVIOUS
<1> DEFINE f == Head(link[b].down)
<1>2. /\ b \in Conn /\ InSession(b) /\ Board \in Device /\ TypeInv
      /\ b \in attacked => Doomed(b)
  BY <1>1, BoardHasConn
<1>3. UNCHANGED <<opened, established, sent, encapsulated>>
  BY DEF ReadServerHello, clientHistory
<1>4. CASE ~RightServerHello(Board, f)
  <2>1. Fail(Board) /\ UNCHANGED <<s_hello, s_frame>>
    BY <1>4 DEF ReadServerHello
  <2> QED
    BY <1>1, <1>3, <2>1, BoardFails DEF BoardInv, Domains
<1>5. CASE RightServerHello(Board, f)
  <2>1. /\ s_frame' = [s_frame EXCEPT ![Board] = f.body]
        /\ cpc' = [cpc EXCEPT ![Board] = "verify"]
        /\ link' = [link EXCEPT ![b].down = Tail(@)]
        /\ UNCHANGED <<results, ss, s_hello>>
    BY <1>5 DEF ReadServerHello, runLocals
  <2>2. /\ link[b].down # <<>>
        /\ \A x \in Conn : link'[x].srv = link[x].srv /\ (x # b => link'[x] = link[x])
        /\ link'[b].up = link[b].up
    BY <1>2, <2>1, LinkFacts DEF ReadServerHello
  <2> HIDE DEF f
  <2>3. Domains' /\ s_frame'[Board] = f.body /\ cpc'[Board] = "verify"
    BY <1>2, <1>3, <2>1 DEF BoardInv, Domains, RejTyped, TypeInv, EndsTypeOK, ClientTypeOK
  <2>4. 1 \in 1 .. Len(link[b].down) /\ link[b].down[1] = f
    <3>1. PICK S : link[b].down \in Seq(S)
      BY <1>2, LinkFacts
    <3> QED
      BY <2>2, <3>1, HeadTailProperties, LenProperties DEF f
  <2>5. ~Unanswered(b)'
    BY <1>2, <2>2 DEF BoardInv, Unanswered
  <2>6. b \in attacked => Hopeless(f.body)
    BY <1>1, <1>2, <1>5, <2>4 DEF Doomed
  <2>7. b \in attacked => Doomed(b)'
    BY <2>1, <2>3, <2>6 DEF Doomed, Hopeless
  <2>8. InSession(b)'
    <3>1. suiteOf(Board)' = suiteOf(Board) /\ HelloOf(s_hello[Board], b)' = HelloOf(s_hello[Board], b)
      BY <2>1 DEF suiteOf, HelloOf
    <3> QED
      BY <1>1, <1>2, <2>1, <2>3, <2>5, <2>7, <3>1 DEF InSession
  <2>9. \A x \in Conn : Nothing(x) => Nothing(x)'
    BY <1>3, NothingStays
  <2> QED
    BY <1>3, <2>2, <2>3, <2>8, <2>9, BoardMoves DEF Wrote
<1> QED
  BY <1>4, <1>5

LEMMA BoardVerifies ==
  ASSUME RejTyped, BoardInv, UNCHANGED <<rpc, r_conn, store, attacked>>, VerifyServerMac(Board)
  PROVE  BoardInv'
<1>1. Busy(Board) /\ cpc[Board] = "verify"
  BY DEF VerifyServerMac, Busy
<1> SUFFICES ASSUME NEW b, b = curr(Board)
             PROVE  BoardInv'
  OBVIOUS
<1>2. /\ b \in Conn /\ InSession(b) /\ Board \in Device /\ TypeInv
      /\ b \in attacked => Doomed(b)
      /\ ~Unanswered(b)
  BY <1>1, BoardHasConn
<1>3. UNCHANGED <<opened, established, sent, encapsulated, s_hello, s_frame>>
  BY DEF VerifyServerMac, statics
<1>4. CASE Fail(Board)
  BY <1>1, <1>3, <1>4, BoardFails DEF BoardInv, Domains
<1>5. CASE ~Fail(Board)
  <2>1. /\ cpc' = [cpc EXCEPT ![Board] = "finish"]
        /\ UNCHANGED <<results, link, ss>>
        /\ s_frame[Board].server_mac
             = ClientExpectedMac(Board, s_hello[Board], ss[Board], s_frame[Board])
    BY <1>5 DEF VerifyServerMac, runLocals
  <2>2. Domains' /\ cpc'[Board] = "finish"
    BY <1>2, <1>3, <2>1 DEF BoardInv, Domains, RejTyped, TypeInv, EndsTypeOK, ClientTypeOK
  <2>3. b \in attacked => Doomed(b)'
    BY <1>1, <1>2, <1>3, <2>1, <2>2 DEF Doomed, Hopeless
  <2>4. ~Unanswered(b)'
    BY <1>2, <2>1 DEF Unanswered
  <2>5. InSession(b)'
    <3>1. suiteOf(Board)' = suiteOf(Board) /\ HelloOf(s_hello[Board], b)' = HelloOf(s_hello[Board], b)
      BY <1>3, <2>1 DEF suiteOf, HelloOf
    <3> QED
      BY <1>1, <1>2, <1>3, <2>1, <2>2, <2>3, <2>4, <3>1 DEF InSession
  <2>6. \A x \in Conn : Nothing(x) => Nothing(x)'
    BY <1>3, NothingStays
  <2> QED
    BY <1>3, <2>1, <2>2, <2>5, <2>6, BoardMoves DEF Wrote
<1> QED
  BY <1>4, <1>5

\* In the last two parts of a session every step goes on with it.
LEMMA BoardGoesOn ==
  ASSUME RejTyped, BoardInv, UNCHANGED <<rpc, r_conn, store, attacked>>,
         SendClientFinished(Board) \/ SendRecord(Board)
  PROVE  BoardInv'
<1>1. Busy(Board) /\ cpc[Board] \in {"finish", "data"}
  BY DEF SendClientFinished, SendRecord, Busy
<1> SUFFICES ASSUME NEW b, b = curr(Board)
             PROVE  BoardInv'
  OBVIOUS
<1>2. /\ b \in Conn /\ Board \in Device /\ TypeInv /\ ~Unanswered(b)
      /\ b \in attacked => Doomed(b)
  BY <1>1, BoardHasConn
<1>3. b \notin attacked
  BY <1>1, <1>2 DEF Doomed, SendClientFinished, SendRecord
<1>4. /\ UNCHANGED <<opened, results, s_hello>>
      /\ \E f : /\ link' = [link EXCEPT ![b].up = PutUp(b, f)]
                /\ f.type # "ClientHello"
  BY DEF SendClientFinished, SendRecord, runVars, Frame
<1>5. /\ \A x \in Conn : link'[x].srv = link[x].srv /\ (x # b => link'[x] = link[x])
      /\ link'[b].down = link[b].down /\ Wrote(b)
  BY <1>2, <1>4, WrittenUp DEF Wrote, PutUp
<1>6. cpc'[Board] = "data"
  BY <1>2 DEF SendClientFinished, SendRecord, runVars, RejTyped, TypeInv, EndsTypeOK, ClientTypeOK
<1>7. Domains'
  BY <1>4 DEF SendClientFinished, SendRecord, BoardInv, Domains
<1>8. ASSUME NEW x \in Conn, Nothing(x), x # b
      PROVE  Nothing(x)'
  <2>1. CASE SendClientFinished(Board)
    <3>1. established'[x] = established[x] /\ sent' = sent
      BY <1>8, <2>1 DEF SendClientFinished, BoardInv, Domains
    <3>2. \A e \in encapsulated' : e \in encapsulated \/ e[1] = b
      BY <2>1 DEF SendClientFinished
    <3> QED
      BY <1>8, <3>1, <3>2 DEF Nothing
  <2>2. CASE SendRecord(Board)
    <3>1. sent'[x] = sent[x] /\ UNCHANGED <<established, encapsulated>>
      BY <1>8, <2>2 DEF SendRecord, RejTyped, TypeInv, EndsTypeOK, ClientTypeOK
    <3> QED
      BY <1>8, <3>1 DEF Nothing
  <2> QED
    BY <2>1, <2>2
<1>9. InSession(b)'
  BY <1>2, <1>3, <1>5, <1>6 DEF InSession, Unanswered
<1> QED
  BY <1>2, <1>3, <1>4, <1>5, <1>7, <1>8, <1>9, BoardMoves

\* The connection that the board opens.
LEMMA NewConnection ==
  ASSUME RejTyped, EndsInv, BoardInv, Connect(Board), lab = "drill",
         NEW b, b = <<Board, opened[Board] + 1>>
  PROVE  /\ b \in Conn /\ curr(Board)' = b /\ Board \in Device /\ TypeInv
         /\ link[b].srv = "none" /\ link[b].up = <<>> /\ link[b].down = <<>>
         /\ Nothing(b) /\ b \notin attacked
         /\ \A x \in Conn : x # b => link'[x] = link[x]
         /\ link'[b].srv = "queued" /\ link'[b].up = <<>> /\ link'[b].down = <<>>
<1>1. /\ b \in Conn /\ b[1] = Board /\ curr(Board)' = b /\ opened[Board] \in Nat
      /\ b[2] = opened[Board] + 1 /\ Board \in Device /\ TypeInv
  <2>1. opened' \in [Device -> 0 .. MaxConn] /\ opened \in [Device -> 0 .. MaxConn]
    <3>1. ClientTypeOK'
      BY ConnectTyped, TesterIsConn DEF RejTyped
    <3> QED
      BY <3>1 DEF ClientTypeOK, RejTyped, TypeInv, EndsTypeOK
  <2>2. opened' = [opened EXCEPT ![Board] = @ + 1] /\ Board \in Device
    BY TesterIsConn DEF Connect
  <2>3. opened'[Board] = opened[Board] + 1 /\ opened[Board] \in Nat
    BY <2>1, <2>2
  <2>4. opened[Board] + 1 \in 1 .. MaxConn
    BY <2>1, <2>2, <2>3
  <2> QED
    BY <2>2, <2>3, <2>4 DEF Conn, curr, RejTyped
<1>2. link[b].srv = "none"
  BY <1>1 DEF EndsInv, Unopened
<1>3. /\ link[b].up = <<>> /\ link[b].down = <<>> /\ Nothing(b) /\ b \notin attacked
  BY <1>1, <1>2 DEF BoardInv, Unanswered
<1>4. /\ \A x \in Conn : x # b => link'[x] = link[x]
      /\ link'[b].srv = "queued" /\ link'[b].up = <<>> /\ link'[b].down = <<>>
  <2>1. link' = [link EXCEPT ![b].cli = "open", ![b].srv = "queued"]
    BY DEF Connect
  <2> QED
    BY <1>1, <1>3, <2>1, LinkFacts
<1> QED
  BY <1>1, <1>2, <1>3, <1>4

LEMMA BoardConnects ==
  ASSUME RejTyped, EndsInv, BoardInv, UNCHANGED <<rpc, r_conn, store, attacked>>,
         Connect(Board), lab = "drill"
  PROVE  BoardInv'
<1> SUFFICES ASSUME NEW b, b = <<Board, opened[Board] + 1>>
             PROVE  BoardInv'
  OBVIOUS
<1>1. b \in Conn /\ curr(Board)' = b /\ Board \in Device /\ TypeInv
  BY NewConnection
<1>2. link[b].srv = "none"
  BY NewConnection
<1>3. /\ link[b].up = <<>> /\ link[b].down = <<>> /\ Nothing(b) /\ b \notin attacked
  BY NewConnection
<1>4. /\ \A x \in Conn : x # b => link'[x] = link[x]
      /\ link'[b].srv = "queued" /\ link'[b].up = <<>> /\ link'[b].down = <<>>
  BY NewConnection
<1>5. /\ cpc'[Board] = "hello"
      /\ UNCHANGED <<established, sent, encapsulated, ss, s_hello, s_frame>>
  BY <1>1 DEF Connect, runLocals, statics, clientHistory, TypeInv, EndsTypeOK, ClientTypeOK
<1>6. \A x : Nothing(x) => Nothing(x)'
  BY <1>5, NothingStays
<1>7. \A x \in Conn : Unanswered(x)' <=> Unanswered(x)
  BY <1>2, <1>4 DEF Unanswered
<1>8. Domains'
  BY <1>5 DEF BoardInv, Domains
<1>9. \A x \in Conn : link'[x].srv = "none" => link'[x].up = <<>>
  BY <1>4 DEF BoardInv
<1>10. \A x \in Conn : Unanswered(x)' => link'[x].down = <<>> /\ Nothing(x)'
  BY <1>4, <1>6, <1>7 DEF BoardInv
<1>11. ASSUME NEW x \in attacked'
       PROVE  /\ Nothing(x)' /\ ~Unanswered(x)'
              /\ link'[x].srv = "closed" \/ x = r_conn'
  <2>1. x \in attacked /\ x \in Conn /\ x # b
    BY <1>3, <1>11 DEF RejTyped
  <2> QED
    BY <1>4, <1>6, <1>7, <2>1 DEF BoardInv
<1>12. HellosSent'
  <2>1. \A x \in Conn : link'[x].up = link[x].up
    BY <1>3, <1>4
  <2> QED
    BY <2>1 DEF BoardInv, HellosSent, HelloOf
<1>13. StoreIsOld'
  BY <1>2, <1>4 DEF BoardInv, StoreIsOld
<1>14. InSession(b)'
  BY <1>3, <1>4, <1>5 DEF InSession
<1>15. Busy(Board)' => InSession(curr(Board))'
  BY <1>1, <1>14 DEF InSession, Unanswered, Doomed, Hopeless, HelloOf
<1> QED
  BY <1>8, <1>9, <1>10, <1>11, <1>12, <1>13, <1>15 DEF BoardInv

LEMMA BoardCloses ==
  ASSUME RejTyped, BoardInv, UNCHANGED <<rpc, r_conn, store, attacked>>, SendClose(Board)
  PROVE  BoardInv'
<1> SUFFICES ASSUME NEW b, b = curr(Board)
             PROVE  BoardInv'
  OBVIOUS
<1>1. Busy(Board) /\ cpc[Board] = "data"
  BY DEF SendClose, Busy
<1>2. b \in Conn /\ Board \in Device /\ TypeInv
  BY <1>1, BoardHasConn
<1>3. /\ link' = [link EXCEPT ![b].up = PutUp(b, Frame("Close", NoTerm)),
                              ![b].cli = "closed", ![b].down = <<>>]
      /\ Return(Board, TRUE)
      /\ UNCHANGED <<opened, statics, established, sent, encapsulated>>
  BY DEF SendClose, clientHistory
<1>4. /\ \A x \in Conn : link'[x].srv = link[x].srv /\ (x # b => link'[x] = link[x])
      /\ link'[b].up = PutUp(b, Frame("Close", NoTerm)) /\ link'[b].down = <<>>
  BY <1>2, <1>3, LinkFacts
<1>5. Frame("Close", NoTerm).type # "ClientHello"
  BY DEF Frame
<1>6. Wrote(b)
  BY <1>4, <1>5 DEF Wrote, PutUp
<1>7. ~Busy(Board)'
  BY <1>2, <1>3 DEF Return, Busy, TypeInv, EndsTypeOK, ClientTypeOK
<1>8. Domains'
  BY <1>3 DEF BoardInv, Domains, Return, DropLocals, statics
<1>9. \A x \in Conn : Nothing(x) => Nothing(x)'
  BY <1>3, NothingStays
<1> QED
  BY <1>3, <1>4, <1>6, <1>7, <1>8, <1>9, BoardMoves

LEMMA BoardResets ==
  ASSUME RejTyped, BoardInv, UNCHANGED <<rpc, r_conn, store, attacked>>, Reset(Board)
  PROVE  BoardInv'
<1> SUFFICES ASSUME NEW b, b = curr(Board)
             PROVE  BoardInv'
  OBVIOUS
<1>1. Board \in Device /\ TypeInv
  BY TesterIsConn DEF RejTyped
<1>2. /\ cpc'[Board] = "idle" /\ UNCHANGED <<opened, established, sent, encapsulated>>
  BY <1>1 DEF Reset, clientHistory, TypeInv, EndsTypeOK, ClientTypeOK
<1>3. \/ link' = link
      \/ b \in Conn /\ \E e : link' = [link EXCEPT ![b].cli = e, ![b].down = <<>>]
  <2>1. opened[Board] > 0 => b \in Conn
    BY <1>1 DEF curr, Conn, TypeInv, EndsTypeOK, ClientTypeOK
  <2> QED
    BY <2>1 DEF Reset
<1>4. Domains'
  BY <1>2 DEF BoardInv, Domains, Reset, DropLocals
<1>5. \A x \in Conn : Nothing(x) => Nothing(x)'
  BY <1>2, NothingStays
<1> QED
  BY <1>2, <1>3, <1>4, <1>5, BoardReturns

LEMMA BoardFailsToConnect ==
  ASSUME RejTyped, BoardInv, UNCHANGED <<rpc, r_conn, store, attacked>>, ConnectFails(Board)
  PROVE  BoardInv'
<1>1. Board \in Device /\ TypeInv
  BY TesterIsConn DEF RejTyped
<1>2. cpc'[Board] \in {"idle", "done"} /\ link' = link
      /\ UNCHANGED <<opened, established, sent, encapsulated>>
  BY <1>1 DEF ConnectFails, Return, netVars, clientHistory, TypeInv, EndsTypeOK, ClientTypeOK
<1>3. Domains'
  BY <1>2 DEF BoardInv, Domains, ConnectFails, Return, DropLocals, statics
<1>4. \A x \in Conn : Nothing(x) => Nothing(x)'
  BY <1>2, NothingStays
<1> QED
  BY <1>2, <1>3, <1>4, BoardReturns

LEMMA BoardRuns ==
  ASSUME RejTyped, EndsInv, BoardInv, BoardStep
  PROVE  BoardInv'
<1>1. /\ lab = "drill" /\ ClientStep(Board)
      /\ UNCHANGED <<rpc, r_conn, store, attacked>>
  BY DEF BoardStep, rogueVars
<1>2. CASE ReadFails(Board)
  <2>1. Busy(Board) /\ Fail(Board)
        /\ UNCHANGED <<opened, established, sent, encapsulated, s_hello, s_frame>>
    BY <1>2 DEF ReadFails, Busy, clientHistory, statics
  <2> QED
    BY <1>1, <2>1, BoardFails DEF BoardInv, Domains
<1>3. CASE StepFails(Board)
  <2>1. Busy(Board) /\ Fail(Board) /\ UNCHANGED <<opened, established, sent, s_hello>>
        /\ (s_frame' = s_frame \/ s_frame' = [s_frame EXCEPT ![Board] = NoTerm])
    BY <1>3 DEF StepFails, Busy
  <2> QED
    BY <1>1, <1>3, <2>1, BoardFails DEF BoardInv, Domains
<1> QED
  BY <1>1, <1>2, <1>3, BoardConnects, BoardFailsToConnect, BoardSendsHello, BoardReads,
     BoardVerifies, BoardGoesOn, BoardCloses DEF ClientStep

\* Nothing has been sent or attacked at the start.
LEMMA BoardInvInit == Init => BoardInv
<1> SUFFICES ASSUME Init PROVE BoardInv
  OBVIOUS
<1>1. /\ link = [c \in Conn |-> [up |-> <<>>, down |-> <<>>, cli |-> "none", srv |-> "none"]]
      /\ attacked = {} /\ store \in {NoTerm, EarlierHello}
  BY DEF Init, NetInit, RogueInit
<1>2. ~Busy(Board) /\ Domains /\ \A c \in Conn : Nothing(c)
  BY TesterIsConn DEF Init, ClientInit, Busy, Domains, Nothing
<1>3. HellosSent
  <2>1. \A c \in Conn : Len(link[c].up) = 0 /\ 1 .. 0 = {}
    BY <1>1, EmptySeq
  <2> QED
    BY <2>1 DEF HellosSent
<1>4. StoreIsOld
  BY <1>1 DEF StoreIsOld, EarlierHello, Fresh
<1> QED
  BY <1>1, <1>2, <1>3, <1>4 DEF BoardInv

BoardSafe == lab = "drill" => BoardInv

LEMMA BoardInvNext == RejTyped /\ EndsInv /\ BoardSafe /\ [Next]_vars => BoardSafe'
<1> SUFFICES ASSUME RejTyped, EndsInv, BoardInv, [Next]_vars, lab = "drill"
             PROVE  BoardInv'
  BY DEF BoardSafe, Next, vars, ScriptStep, BoardStep, RogueServes, TesterStep, GatewayStep,
         GatewayEnds
<1>1. CASE UNCHANGED vars
  BY <1>1, BoardIdle DEF vars, netVars, rogueVars
<1>2. CASE ScriptStep
  <2>1. CASE ResetBoard
    <3>1. UNCHANGED rogueVars
      BY <2>1 DEF ResetBoard
    <3>2. CASE Reset(Board)
      BY <3>1, <3>2, BoardResets DEF rogueVars
    <3>3. CASE UNCHANGED <<netVars, cliVars>>
      BY <3>1, <3>3, BoardIdle DEF netVars, rogueVars
    <3> QED
      BY <2>1, <3>2, <3>3 DEF ResetBoard
  <2> QED
    BY <1>2, <2>1, BoardScript DEF ScriptStep, Drill
<1>3. CASE BoardStep
  BY <1>3, BoardRuns
<1>4. CASE RogueServes
  BY <1>4, BoardRogue
<1>5. CASE GatewayStep
  BY <1>5, BoardGateway
<1> QED
  BY <1>1, <1>2, <1>3, <1>4, <1>5 DEF Next, TesterStep, GatewayEnds

(***************************************************************************)
(* FirmwareRefuses: on a connection that the rogue has answered with any   *)
(* of its attacks the firmware agrees on no keys, encapsulates nothing and *)
(* writes no record, whatever it was doing when the rogue took over and    *)
(* whatever the rogue recorded before.                                     *)
(***************************************************************************)
THEOREM TheFirmwareRefuses == Spec => []FirmwareRefuses
<1>1. Init => BoardSafe
  BY BoardInvInit DEF BoardSafe
<1>2. Spec => []BoardSafe
  BY <1>1, BoardInvNext, InvariantRejTyped, InvariantEnds, PTL DEF Spec
<1>3. RejTyped /\ EndsInv /\ BoardSafe => FirmwareRefuses
  BY DEF RejTyped, EndsInv, RogueAway, BoardSafe, BoardInv, FirmwareRefuses, Nothing
<1> QED
  BY <1>2, <1>3, InvariantRejTyped, InvariantEnds, PTL

-----------------------------------------------------------------------------
(***************************************************************************)
(* What the board prints while the drill listens.                          *)
(***************************************************************************)
\* The board waits on a connection where nothing has come.
Silent == /\ cpc[Board] \in {"hello", "await"}
          /\ link[curr(Board)].down = <<>>

NoneSucceeded == \A i \in 1 .. Len(results[Board]) : ~results[Board][i]

\* In an attack on mode B no session in mode B comes further than a connection
\* that is not answered, or attacked.
ModeBFails ==
  /\ \A i \in 1 .. Len(results[Board]) : IsFs(Runs[i]) => ~results[Board][i]
  /\ Busy(Board) /\ IsFs(suiteOf(Board)) => curr(Board) \in attacked \/ Silent

\* The rogue answers one connection and is gone, so of two sessions one at most
\* succeeds.
OneAnswer ==
  /\ rpc # "down" => NoneSucceeded /\ (Busy(Board) => Silent)
  /\ rpc = "down" /\ Busy(Board) => NoneSucceeded
  /\ results[Board] # <<TRUE, TRUE>>

Captured == IF fs_only THEN ModeBFails ELSE OneAnswer

\* The script, when each of its commands has worked.
DrillInv ==
  /\ DrillAccusesNobody
  /\ graded # "none" => step \in {"stop", "restore", "over"}
  /\ sshFaults = 0 =>
       /\ step = "start" => spc = "down" /\ rpc = "down"
       /\ step \in {"reset", "capture"} =>
            spc = "down" /\ mode = entry /\ left <= connections
       /\ step = "capture" => Captured
       /\ step = "evaluate" => heard = <<>> \/ ~Accepted

\* A step of the board opens a connection, goes on with its session, or ends a run:
\* well only after the last record.
LEMMA BoardForms ==
  ASSUME RejTyped, ClientStep(Board)
  PROVE  \/ Connect(Board)
         \/ /\ Busy(Board) /\ Busy(Board)' /\ UNCHANGED <<results, opened>>
            /\ Silent => Silent'
         \/ /\ ~Busy(Board)' /\ cpc[Board] # "done"
            /\ \E ok \in BOOLEAN :
                 /\ results' = [results EXCEPT ![Board] = Append(@, ok)]
                 /\ ok => cpc[Board] = "data"
<1>0. Board \in Device /\ TypeInv /\ cpc \in [Device -> ClientPc]
  BY TesterIsConn DEF RejTyped, TypeInv, EndsTypeOK, ClientTypeOK
<1>1. ASSUME NEW ok \in BOOLEAN, Return(Board, ok), ok => cpc[Board] = "data",
             cpc[Board] # "done"
      PROVE  /\ ~Busy(Board)' /\ cpc[Board] # "done"
             /\ \E r \in BOOLEAN :
                  /\ results' = [results EXCEPT ![Board] = Append(@, r)]
                  /\ r => cpc[Board] = "data"
  BY <1>0, <1>1 DEF Return, Busy
<1>2. CASE ConnectFails(Board)
  BY <1>1, <1>2 DEF ConnectFails
<1>3. CASE SendClose(Board)
  BY <1>1, <1>3 DEF SendClose
<1>4. ASSUME Fail(Board), Busy(Board)
      PROVE  /\ ~Busy(Board)' /\ cpc[Board] # "done"
             /\ \E r \in BOOLEAN :
                  /\ results' = [results EXCEPT ![Board] = Append(@, r)]
                  /\ r => cpc[Board] = "data"
  BY <1>1, <1>4 DEF Fail, Busy
<1>5. CASE ReadFails(Board) \/ StepFails(Board)
  BY <1>4, <1>5 DEF ReadFails, StepFails, Busy
<1>6. CASE SendClientHello(Board)
  <2> DEFINE b == curr(Board)
  <2>1. cpc[Board] = "hello" /\ cpc'[Board] = "await" /\ UNCHANGED <<results, opened>>
        /\ \E q : link' = [link EXCEPT ![b].up = q]
    BY <1>0, <1>6 DEF SendClientHello
  <2>2. b \in Conn
    BY <1>0, <2>1, CurrIsConn DEF Busy
  <2>3. link'[b].down = link[b].down /\ b' = b
    BY <1>0, <2>1, <2>2, WrittenUp DEF curr
  <2> QED
    BY <2>1, <2>3 DEF Busy, Silent
<1>7. CASE ReadServerHello(Board)
  <2>1. Busy(Board) /\ ~Silent
    BY <1>7 DEF ReadServerHello, Busy, Silent
  <2>2. CASE ~Fail(Board)
    BY <1>0, <1>7, <2>1, <2>2 DEF ReadServerHello, Busy
  <2> QED
    BY <1>4, <2>1, <2>2
<1>8. CASE VerifyServerMac(Board)
  <2>1. Busy(Board) /\ ~Silent
    BY <1>8 DEF VerifyServerMac, Busy, Silent
  <2>2. CASE ~Fail(Board)
    BY <1>0, <1>8, <2>1, <2>2 DEF VerifyServerMac, Busy
  <2> QED
    BY <1>4, <2>1, <2>2
<1>9. CASE SendClientFinished(Board) \/ SendRecord(Board)
  BY <1>0, <1>9 DEF SendClientFinished, SendRecord, Busy, Silent, runVars
<1> QED
  BY <1>2, <1>3, <1>5, <1>6, <1>7, <1>8, <1>9 DEF ClientStep

\* A run more on the list of results.
LEMMA OneMoreResult ==
  ASSUME RejTyped, NEW ok \in BOOLEAN, cpc[Board] # "done",
         results' = [results EXCEPT ![Board] = Append(@, ok)]
  PROVE  /\ Len(results[Board]) \in {0, 1}
         /\ Len(results'[Board]) = Len(results[Board]) + 1
         /\ results'[Board][Len(results[Board]) + 1] = ok
         /\ \A i \in 1 .. Len(results[Board]) : results'[Board][i] = results[Board][i]
         /\ suiteOf(Board) = Runs[Len(results[Board]) + 1]
<1>1. /\ results[Board] \in Seq(BOOLEAN) /\ Board \in Device /\ DOMAIN results = Device
      /\ Len(results[Board]) <= 2 /\ Len(results[Board]) # 2
  <2>1. Len(Runs) = 2
    BY DrillAssumption
  <2> QED
    BY <2>1, TesterIsConn DEF RejTyped, TypeInv, EndsTypeOK, ClientTypeOK
<1>2. results'[Board] = Append(results[Board], ok)
  BY <1>1
<1> DEFINE r == results[Board]
<1>3. Len(r) \in Nat /\ Len(r) \in {0, 1}
  <2>1. Len(r) \in Nat /\ Len(r) <= 2 /\ Len(r) # 2
    BY <1>1, LenProperties
  <2> HIDE DEF r
  <2>2. \A k \in Nat : k <= 2 /\ k # 2 => k \in {0, 1}
    OBVIOUS
  <2> QED
    BY <2>1, <2>2
<1>4. suiteOf(Board) = Runs[Len(r) + 1]
  BY DEF suiteOf
<1>5. r \in Seq(BOOLEAN) /\ results'[Board] = Append(r, ok)
  BY <1>1, <1>2
<1> HIDE DEF r
<1>6. /\ Len(Append(r, ok)) = Len(r) + 1 /\ Append(r, ok)[Len(r) + 1] = ok
      /\ \A i \in 1 .. Len(r) : Append(r, ok)[i] = r[i]
  BY <1>5, AppendProperties
<1> QED
  BY <1>3, <1>4, <1>5, <1>6 DEF r

\* A connection the board opens is silent.
LEMMA OpenedSilent ==
  ASSUME RejTyped, EndsInv, BoardInv, Connect(Board), lab = "drill"
  PROVE  Silent' /\ UNCHANGED results /\ ~Busy(Board) /\ listening
<1>1. cpc'[Board] = "hello" /\ UNCHANGED results /\ ~Busy(Board) /\ listening
  BY TesterIsConn DEF Connect, Busy, RejTyped, TypeInv, EndsTypeOK, ClientTypeOK
<1>2. link'[curr(Board)'].down = <<>>
  BY NewConnection
<1> QED
  BY <1>1, <1>2 DEF Silent

\* The rogue that takes one connection is on its last while it is up.
LEMMA TheBoardCaptured ==
  ASSUME RejTyped, EndsInv, BoardInv, DrillInv, BoardStep, step = "capture", sshFaults = 0
  PROVE  Captured'
<1>0. /\ lab = "drill" /\ ClientStep(Board) /\ Captured /\ spc = "down"
      /\ UNCHANGED <<rpc, r_conn, store, attacked, entry>>
      /\ listening => rpc # "down"
  BY DEF BoardStep, rogueVars, drillVars, DrillInv, RejTyped
<1>1. Captured' = IF fs_only THEN ModeBFails' ELSE OneAnswer'
  BY <1>0 DEF Captured, fs_only
<1>2. CASE Connect(Board)
  <2>1. Silent' /\ UNCHANGED results /\ ~Busy(Board) /\ listening
    BY <1>0, <1>2, OpenedSilent
  <2>2. fs_only => ModeBFails'
    BY <1>0, <2>1 DEF Captured, ModeBFails
  <2>3. ~fs_only => OneAnswer'
    BY <1>0, <2>1 DEF Captured, OneAnswer, NoneSucceeded
  <2> QED
    BY <1>1, <2>2, <2>3
<1>3. CASE /\ Busy(Board) /\ Busy(Board)' /\ UNCHANGED <<results, opened>>
           /\ Silent => Silent'
  <2>1. fs_only => ModeBFails'
    BY <1>0, <1>3 DEF Captured, ModeBFails, suiteOf, curr
  <2>2. ~fs_only => OneAnswer'
    BY <1>0, <1>3 DEF Captured, OneAnswer, NoneSucceeded
  <2> QED
    BY <1>1, <2>1, <2>2
<1>4. ASSUME NEW ok \in BOOLEAN, ~Busy(Board)', cpc[Board] # "done",
             results' = [results EXCEPT ![Board] = Append(@, ok)],
             ok => cpc[Board] = "data"
      PROVE  Captured'
  <2> DEFINE L == Len(results[Board])
  <2>1. /\ L \in {0, 1} /\ Len(results'[Board]) = L + 1
        /\ results'[Board][L + 1] = ok
        /\ \A i \in 1 .. L : results'[Board][i] = results[Board][i]
        /\ suiteOf(Board) = Runs[L + 1]
    BY <1>4, OneMoreResult
  <2>2. cpc[Board] = "data" => Busy(Board) /\ ~Silent /\ curr(Board) \notin attacked
    BY DEF Busy, Silent, BoardInv, InSession, Doomed
  <2> HIDE DEF L
  <2>3. \A i \in 1 .. L + 1 : i \in 1 .. L \/ i = L + 1
    BY <2>1
  <2>4. fs_only => ModeBFails'
    <3>1. fs_only /\ ok => ~IsFs(Runs[L + 1])
      BY <1>0, <1>4, <2>1, <2>2 DEF Captured, ModeBFails
    <3> QED
      BY <1>0, <1>4, <2>1, <2>3, <3>1 DEF Captured, ModeBFails, L
  <2>5. ~fs_only => OneAnswer'
    <3> SUFFICES ASSUME ~fs_only PROVE OneAnswer'
      OBVIOUS
    <3>1. ok => NoneSucceeded /\ rpc = "down"
      BY <1>0, <1>4, <2>2 DEF Captured, OneAnswer
    <3>2. rpc # "down" => NoneSucceeded'
      BY <1>0, <2>1, <2>3, <3>1 DEF Captured, OneAnswer, NoneSucceeded, L
    <3>3. results'[Board] # <<TRUE, TRUE>>
      <4>1. ASSUME results'[Board] = <<TRUE, TRUE>>
            PROVE  FALSE
        <5>1. Len(results'[Board]) = 2
          BY <4>1
        <5>2. L = 1
          BY <2>1, <5>1
        <5>3. results'[Board][1] = TRUE /\ results'[Board][2] = TRUE
          BY <4>1
        <5>4. ok = TRUE
          BY <2>1, <5>2, <5>3
        <5>5. 1 \in 1 .. L /\ 1 \in 1 .. Len(results[Board])
          BY <5>2 DEF L
        <5>6. results[Board][1] = TRUE
          BY <2>1, <5>3, <5>5
        <5> QED
          BY <3>1, <5>4, <5>5, <5>6 DEF NoneSucceeded
      <4> QED
        BY <4>1
    <3> QED
      BY <1>0, <1>4, <3>2, <3>3 DEF OneAnswer
  <2> QED
    BY <1>1, <2>4, <2>5
<1> QED
  BY <1>0, <1>2, <1>3, <1>4, BoardForms

LEMMA TheRogueCaptured ==
  ASSUME RejTyped, EndsInv, BoardInv, DrillInv, RogueServes, step = "capture", sshFaults = 0
  PROVE  Captured'
<1>0. /\ lab = "drill" /\ Captured /\ spc = "down" /\ mode = entry /\ left <= connections
      /\ UNCHANGED <<cliVars, drillVars>> /\ RogueStep /\ TypeInv /\ Queue
      /\ rpc # "down" /\ left \in 0 .. 2 /\ left # 0
  BY DEF RogueServes, RogueStep, RogueAccept, RogueHandle, RogueGivesUp, DrillInv, RejTyped,
         EndsInv
<1>1. /\ UNCHANGED <<cpc, results, opened, entry>>
      /\ Captured' = IF fs_only THEN ModeBFails' ELSE OneAnswer'
  BY <1>0 DEF Captured, fs_only, cliVars, runVars, drillVars
<1>2. Busy(Board) => curr(Board) \in Conn
  BY <1>0, CurrIsConn, TesterIsConn
<1>3. attacked \subseteq attacked'
  BY <1>0 DEF RogueStep, RogueAccept, RogueHandle, RogueGivesUp
<1>4. ASSUME \A c \in Conn : link'[c].down = link[c].down
      PROVE  Captured'
  <2>1. Busy(Board) /\ Silent => Silent'
    BY <1>1, <1>2, <1>4 DEF Silent, curr
  <2>2. fs_only => ModeBFails'
    BY <1>0, <1>1, <1>3, <2>1 DEF Captured, ModeBFails, suiteOf, curr, Busy
  <2>3. ~fs_only => OneAnswer'
    BY <1>0, <1>1, <2>1 DEF Captured, OneAnswer, NoneSucceeded, Busy
  <2> QED
    BY <1>1, <2>2, <2>3
<1>5. CASE RogueAccept
  <2>1. backlog # <<>> /\ backlog' = Tail(backlog)
        /\ link' = [link EXCEPT ![Head(backlog)].srv = "open"]
    BY <1>5 DEF RogueAccept
  <2>2. \A c \in Conn : link'[c].down = link[c].down
    BY <1>0, <2>1, QueueAccepted
  <2> QED
    BY <1>4, <2>2
<1>6. CASE RogueGivesUp
  <2>1. r_conn \in Conn /\ link[r_conn].srv = "open" /\ Served(<<>>)
    BY <1>0, <1>6, ConnIsNotNone DEF RogueGivesUp, RejTyped, EndsInv, Held
  <2>2. /\ \A c \in Conn : c # r_conn => link'[c].down = link[c].down
        /\ link'[r_conn].down = link[r_conn].down \o
              (IF ReachesClient(r_conn) THEN <<>> ELSE <<>>)
    BY <1>0, <2>1, ServedServes
  <2>3. link[r_conn].down \o <<>> = link[r_conn].down
    <3>1. PICK S : link[r_conn].down \in Seq(S)
      BY <1>0, <2>1, LinkFacts
    <3> QED
      BY <3>1, EmptySeq
  <2> QED
    BY <1>4, <2>2, <2>3
<1>7. CASE RogueHandle
  <2> DEFINE h == Head(link[r_conn].up).body
  <2>1. /\ \A c \in Conn : c # r_conn => link'[c].down = link[c].down
        /\ link'[r_conn].down = link[r_conn].down \o Answers(h)
             \/ link'[r_conn].down = link[r_conn].down
    BY <1>7, HandledHello
  <2>2. CASE fs_only
    <3>1. ASSUME Busy(Board), IsFs(suiteOf(Board))
          PROVE  curr(Board) \in attacked' \/ (Silent => Silent')
      <4>1. CASE curr(Board) = r_conn
        <5>1. cpc[Board] = "await" /\ h = s_hello[Board]
          BY <1>0, <1>7, <3>1, <4>1, BoardAwaits
        <5>2. IsFs(h.suite)
          BY <3>1, <5>1 DEF BoardInv, InSession
        <5>3. Attacks(h)
          BY <1>0, <2>2, <5>2 DEF Attacks, fs_only, FS_ONLY_MODES, IsFs, SuiteFs
        <5> QED
          BY <1>7, <4>1, <5>3 DEF RogueHandle
      <4>2. CASE curr(Board) # r_conn
        BY <1>1, <1>2, <2>1, <3>1, <4>2 DEF Silent, curr
      <4> QED
        BY <4>1, <4>2
    <3>2. suiteOf(Board)' = suiteOf(Board) /\ curr(Board)' = curr(Board)
          /\ (Busy(Board)' <=> Busy(Board))
      BY <1>1 DEF suiteOf, curr, Busy
    <3>3. ModeBFails'
      BY <1>0, <1>1, <1>3, <2>2, <3>1, <3>2 DEF Captured, ModeBFails
    <3> QED
      BY <1>1, <2>2, <3>3
  <2>3. CASE ~fs_only
    <3>1. LastOne
      BY <1>0, <2>3 DEF connections, LastOne
    <3>2. CASE mode = "silence"
      <4>1. Answers(h) = <<>>
        BY <3>2 DEF Answers
      <4>2. link[r_conn].down \o <<>> = link[r_conn].down
        <5>1. r_conn \in Conn
          BY <1>7, ConnIsNotNone DEF RogueHandle, RejTyped
        <5>2. PICK S : link[r_conn].down \in Seq(S)
          BY <1>0, <5>1, LinkFacts
        <5> QED
          BY <5>2, EmptySeq
      <4> QED
        BY <1>4, <2>1, <4>1, <4>2
    <3>3. CASE mode # "silence"
      <4>1. mode \notin FS_ONLY_MODES
        BY <1>0, <2>3 DEF fs_only
      <4>2. rpc' = "down"
        BY <1>7, <3>1, <3>3, <4>1 DEF RogueHandle, Served
      <4>3. OneAnswer'
        BY <1>0, <1>1, <2>3, <4>2 DEF Captured, OneAnswer, NoneSucceeded
      <4> QED
        BY <1>1, <2>3, <4>3
    <3> QED
      BY <3>2, <3>3
  <2> QED
    BY <2>2, <2>3
<1> QED
  BY <1>0, <1>5, <1>6, <1>7 DEF RogueStep

\* The mark the script gives, when all its commands have worked.
LEMMA DrillScript ==
  ASSUME RejTyped, EndsInv, BoardInv, DrillInv, Drill, lab = "drill"
  PROVE  DrillInv'
<1>0. /\ sshFaults \in Nat /\ sshFaults' \in Nat /\ (sshFaults' = 0 => sshFaults = 0)
      /\ entry' = entry /\ connections' = connections
  <2>1. sshFaults \in Nat
    BY DrillAssumption DEF RejTyped
  <2>2. entry' = entry
    BY DEF Drill, ClearStore, stop_servers, start_rogue, ResetBoard, Capture, evaluate,
           start_real, Ssh
  <2>3. sshFaults' = sshFaults \/ sshFaults' = sshFaults + 1
    BY DEF Drill, ClearStore, stop_servers, start_rogue, ResetBoard, Capture, evaluate,
           start_real, Ssh
  <2>4. sshFaults' \in Nat /\ (sshFaults' = 0 => sshFaults = 0)
    BY <2>1, <2>3
  <2> QED
    BY <2>1, <2>2, <2>4 DEF connections, fs_only
<1>1. CASE ClearStore
  <2>1. step' = "stop" /\ graded' = graded /\ heard' = heard /\ step = "clear"
    BY <1>1 DEF ClearStore, Ssh
  <2> QED
    BY <1>0, <2>1 DEF DrillInv, DrillAccusesNobody
<1>2. CASE stop_servers
  <2>1. /\ step' = IF graded = "none" THEN "start" ELSE "restore"
        /\ graded' = graded /\ heard' = heard
    BY <1>2 DEF stop_servers, Ssh
  <2>2. sshFaults' = 0 => spc' = "down" /\ rpc' = "down"
    <3>1. sshFaults' = 0 => sshFaults' # sshFaults + 1
      BY <1>0
    <3> QED
      BY <1>2, <3>1 DEF stop_servers, Ssh, ProcessEnds
  <2> QED
    BY <1>0, <2>1, <2>2 DEF DrillInv, DrillAccusesNobody
<1>3. CASE start_rogue
  <2>1. step = "start" /\ step' = "reset" /\ graded' = graded /\ heard' = heard
        /\ UNCHANGED srvVars
    BY <1>3 DEF start_rogue, Ssh
  <2>2. sshFaults' = 0 => spc' = "down" /\ mode' = entry' /\ left' <= connections'
    <3>1. sshFaults' = 0 => sshFaults' # sshFaults + 1
      BY <1>0
    <3>2. sshFaults' = 0 => ~listening /\ spc = "down"
      BY <1>0, <2>1 DEF DrillInv, RejTyped
    <3>3. sshFaults' = 0 => mode' = entry /\ left' = connections
      BY <1>3, <3>1, <3>2 DEF start_rogue, Ssh
    <3>4. connections \in Nat
      BY DEF connections
    <3> QED
      BY <1>0, <2>1, <3>2, <3>3, <3>4 DEF srvVars
  <2>3. graded = "none"
    BY <2>1 DEF DrillInv
  <2> QED
    BY <1>0, <2>1, <2>2, <2>3 DEF DrillInv, DrillAccusesNobody
<1>4. CASE ResetBoard
  <2>1. /\ step = "reset" /\ step' = "capture" /\ graded' = graded /\ heard' = heard
        /\ UNCHANGED <<srvVars, rogueVars, sshFaults>>
    BY <1>4 DEF ResetBoard
  <2>2. results'[Board] = <<>> /\ ~Busy(Board)'
    BY <1>4, TesterIsConn DEF ResetBoard, Reset, RejTyped, TypeInv, EndsTypeOK, ClientTypeOK,
       Busy, cliVars, runVars
  <2>3. Len(results'[Board]) = 0 /\ 1 .. 0 = {} /\ results'[Board] # <<TRUE, TRUE>>
    <3>1. Len(<<TRUE, TRUE>>) = 2
      OBVIOUS
    <3> QED
      BY <2>2, <3>1, EmptySeq
  <2>4. ModeBFails' /\ OneAnswer'
    BY <2>2, <2>3 DEF ModeBFails, OneAnswer, NoneSucceeded
  <2>5. Captured'
    BY <2>4 DEF Captured
  <2>6. graded = "none" /\ (sshFaults = 0 => spc = "down" /\ mode = entry /\ left <= connections)
    BY <2>1 DEF DrillInv
  <2> QED
    BY <1>0, <2>1, <2>5, <2>6 DEF DrillInv, DrillAccusesNobody, srvVars, rogueVars
<1>5. CASE Capture
  <2>1. /\ step = "capture" /\ step' \in {"evaluate", "stop"} /\ graded' = graded
        /\ UNCHANGED sshFaults
        /\ step' = "evaluate" =>
             heard' = IF cpc[Board] = "done" THEN results[Board] ELSE <<>>
    BY <1>5 DEF Capture
  <2>2. graded = "none"
    BY <2>1 DEF DrillInv
  <2>3. ASSUME sshFaults = 0, step' = "evaluate"
        PROVE  heard' = <<>> \/ ~Accepted'
    <3>1. CASE cpc[Board] = "done"
      <4>1. heard' = results[Board]
        BY <2>1, <2>3, <3>1
      <4>2. CASE fs_only
        <5>1. Len(results[Board]) = 2 /\ IsFs(Runs[2])
          BY <3>1, DrillAssumption, TesterIsConn DEF RejTyped, TypeInv, EndsTypeOK,
             ClientTypeOK, IsFs
        <5>2. 2 \in 1 .. Len(results[Board])
          BY <5>1
        <5>3. ~results[Board][2]
          BY <2>1, <2>3, <4>2, <5>1, <5>2 DEF DrillInv, Captured, ModeBFails
        <5>4. heard' # <<>>
          BY <4>1, <5>1, EmptySeq
        <5> QED
          BY <1>0, <4>1, <4>2, <5>3, <5>4 DEF Accepted, fs_only
      <4>3. CASE ~fs_only
        <5>1. results[Board] # <<TRUE, TRUE>>
          BY <2>1, <2>3, <4>3 DEF DrillInv, Captured, OneAnswer
        <5> QED
          BY <1>0, <4>1, <4>3, <5>1 DEF Accepted, fs_only
      <4> QED
        BY <4>2, <4>3
    <3>2. CASE cpc[Board] # "done"
      BY <2>1, <2>3, <3>2
    <3> QED
      BY <3>1, <3>2
  <2> QED
    BY <1>0, <2>1, <2>2, <2>3 DEF DrillInv, DrillAccusesNobody
<1>6. CASE evaluate
  <2>1. /\ step = "evaluate" /\ step' = "stop" /\ heard' = heard /\ UNCHANGED sshFaults
        /\ graded' = IF Accepted \/ heard = <<>> THEN "FAIL" ELSE "ok"
    BY <1>6 DEF evaluate
  <2>2. sshFaults = 0 => heard = <<>> \/ ~Accepted
    BY <2>1 DEF DrillInv
  <2>3. sshFaults # 0 => sshFaults' > 0
    BY <1>0, <2>1
  <2>4. DrillAccusesNobody'
    BY <2>1, <2>2, <2>3 DEF DrillAccusesNobody
  <2> QED
    BY <2>1, <2>4 DEF DrillInv
<1>7. CASE start_real
  <2>1. step' = "over" /\ graded' = graded /\ heard' = heard
    BY <1>7 DEF start_real, Ssh
  <2>2. DrillAccusesNobody'
    <3>1. graded = "FAIL" => heard = <<>> \/ sshFaults > 0
      BY DEF DrillInv, DrillAccusesNobody
    <3>2. sshFaults > 0 => sshFaults' > 0
      BY <1>0
    <3> QED
      BY <2>1, <3>1, <3>2 DEF DrillAccusesNobody
  <2> QED
    BY <2>1, <2>2 DEF DrillInv
<1> QED
  BY <1>1, <1>2, <1>3, <1>4, <1>5, <1>6, <1>7 DEF Drill

\* A server or the board moves, and the script does not.
LEMMA DrillMoves ==
  ASSUME DrillInv, UNCHANGED drillVars,
         step \in {"reset", "capture"} /\ sshFaults = 0 =>
           spc' = "down" /\ mode' = mode /\ left' <= connections,
         step = "start" /\ sshFaults = 0 => spc' = "down" /\ rpc' = "down",
         step = "capture" /\ sshFaults = 0 => Captured'
  PROVE  DrillInv'
  BY DEF DrillInv, DrillAccusesNobody, drillVars, connections, fs_only, Accepted

DrillSafe == lab = "drill" => DrillInv

LEMMA DrillInvNext ==
  RejTyped /\ EndsInv /\ BoardSafe /\ DrillSafe /\ [Next]_vars => DrillSafe'
<1> SUFFICES ASSUME RejTyped, EndsInv, BoardInv, DrillInv, [Next]_vars, lab = "drill"
             PROVE  DrillInv'
  BY DEF BoardSafe, DrillSafe, Next, vars, ScriptStep, BoardStep, RogueServes, TesterStep,
         GatewayStep, GatewayEnds
<1>1. CASE UNCHANGED vars
  <2>1. Captured' <=> Captured
    BY <1>1 DEF vars, netVars, cliVars, runVars, rogueVars, drillVars, Captured, ModeBFails,
           OneAnswer, NoneSucceeded, Silent, Busy, suiteOf, curr, fs_only
  <2>2. UNCHANGED <<drillVars, spc, rpc, mode, left>>
    BY <1>1 DEF vars, rogueVars, srvVars, locals
  <2> QED
    BY <2>1, <2>2, DrillMoves DEF DrillInv
<1>2. CASE ScriptStep
  BY <1>2, DrillScript DEF ScriptStep
<1>3. CASE BoardStep
  <2>1. UNCHANGED <<drillVars, spc, rpc, mode, left>>
    BY <1>3 DEF BoardStep, rogueVars, srvVars, locals
  <2>2. step = "capture" /\ sshFaults = 0 => Captured'
    BY <1>3, TheBoardCaptured
  <2> QED
    BY <2>1, <2>2, DrillMoves DEF DrillInv
<1>4. CASE RogueServes
  <2>1. UNCHANGED <<drillVars, spc, mode>> /\ rpc # "down"
        /\ (left' = left \/ left' = left - 1)
    BY <1>4 DEF RogueServes, RogueStep, RogueAccept, RogueHandle, RogueGivesUp, Served, srvVars,
                locals
  <2>2. step = "capture" /\ sshFaults = 0 => Captured'
    BY <1>4, TheRogueCaptured
  <2>3. left <= connections => left' <= connections
    <3>1. left \in Int /\ connections \in Int
      BY DEF RejTyped, connections
    <3> QED
      BY <2>1, <3>1
  <2> QED
    BY <2>1, <2>2, <2>3, DrillMoves DEF DrillInv
<1>5. CASE GatewayStep
  <2>1. spc # "down" /\ UNCHANGED drillVars
    BY <1>5, HandleForms DEF GatewayStep, Accept, RejTyped
  <2> QED
    BY <2>1, DrillMoves DEF DrillInv
<1> QED
  BY <1>1, <1>2, <1>3, <1>4, <1>5 DEF Next, TesterStep, GatewayEnds

(***************************************************************************)
(* DrillAccusesNobody: while all the script's ssh commands work, it fails  *)
(* no firmware that has printed its verdict line, for every mode of the    *)
(* rogue and every interleaving of the board with it.                      *)
(***************************************************************************)
THEOREM TheDrillAccusesNobody == Spec => []DrillAccusesNobody
<1>1. Init => BoardSafe /\ DrillSafe
  BY BoardInvInit DEF BoardSafe, DrillSafe, DrillInv, Init, DrillInit, DrillAccusesNobody
<1>2. Spec => [](BoardSafe /\ DrillSafe)
  BY <1>1, BoardInvNext, DrillInvNext, InvariantRejTyped, InvariantEnds, PTL DEF Spec
<1>3. RejTyped /\ EndsInv /\ DrillSafe => DrillAccusesNobody
  BY DEF RejTyped, EndsInv, RogueAway, DrillSafe, DrillInv, DrillAccusesNobody
<1> QED
  BY <1>2, <1>3, InvariantRejTyped, InvariantEnds, PTL

-----------------------------------------------------------------------------
(***************************************************************************)
(* The gateway against the test client.                                    *)
(***************************************************************************)
\* The cases whose ClientHello is refused.
Unwelcome == t_case \in {"forged-PSK-MAC", "unknown-device_id", "wrong-PSK"}

\* What is wrong with the ClientHello of those cases.
HelloOfCase(h) ==
  /\ t_case = "unknown-device_id" => h.device = Tester
  /\ t_case = "forged-PSK-MAC" => h.psk_mac.f = "flipped"
  /\ t_case = "wrong-PSK" =>
       h.device = FirstDevice /\ h.psk_mac.a[1] = Fresh("random-psk", tconn)

\* How many of the tester's frames the gateway has taken off the stream.
FramesTaken == IF conn # tconn \/ spc = "hello" THEN 0
               ELSE IF spc \in {"auth", "decaps", "answer", "finished"} THEN 1
               ELSE IF spc = "confirm" THEN 2
               ELSE 2 + Len(delivered[tconn])

\* How many it has written, while its case lasts.
FramesWritten == IF tpc \in {"start", "hello"} THEN 0
                 ELSE IF tpc = "await" THEN 1 ELSE 2 + t_sent

\* Frame m of the case.
FrameOfCase(m, f) ==
  /\ m = 1 => f.type = "ClientHello" /\ HelloOfCase(f.body)
  /\ m = 2 => /\ f.type = "ClientFinished"
              /\ t_case = "forged-ClientFinished" => f.body.client_mac.f = "flipped"
  /\ m > 2 /\ f.type = "Data" =>
       /\ m <= 2 + t_sent
       /\ f.body.seq = Writes[m - 2] /\ f.body.box.plain = Writes[m - 2]
       /\ t_case = "tampered-ciphertext" => f.body.box.key.f = "flipped"

CaseStream ==
  link[tconn].srv \in {"queued", "open"} =>
    /\ Len(link[tconn].up) + FramesTaken <= FramesWritten + (IF tpc = "over" THEN 1 ELSE 0)
    /\ tpc # "over" => Len(link[tconn].up) + FramesTaken = FramesWritten
    /\ \A i \in 1 .. Len(link[tconn].up) : FrameOfCase(FramesTaken + i, link[tconn].up[i])

CaseSide ==
  /\ table = InitTable /\ tconn \notin cut
  /\ tpc \in {"start", "hello", "await"} => t_sent = 0
  /\ link[tconn].srv = "none" => link[tconn].up = <<>>
  /\ Unwelcome => link[tconn].down = <<>> /\ tpc # "records"
  /\ t_verdict # "accepted"

\* The gateway delivers 0, 1, ... and no more than the case may have delivered.
MostDelivered == CASE t_case = "happy-path" -> 3
                   [] t_case = "replayed-data-record" -> 1
                   [] OTHER -> 0

GatewayOnCase ==
  /\ spc # "data" => delivered[tconn] = <<>>
  /\ spc # "hello" => HelloOfCase(hello)
  /\ Unwelcome => spc \in {"hello", "auth"}
  /\ spc = "confirm" => /\ keys.c2s.f = "expand"
                        /\ t_case = "forged-ClientFinished" => keys.client_mac.f = "flipped"
  /\ spc = "data" => /\ inbound.key.f = "expand"
                     /\ inbound.last = Len(delivered[tconn]) - 1
                     /\ t_case # "forged-ClientFinished"

Given ==
  /\ link[tconn].srv \in {"none", "queued"} => delivered[tconn] = <<>>
  /\ conn = tconn => GatewayOnCase
  /\ accepted[tconn] # NotAccepted => ~Unwelcome /\ t_case # "forged-ClientFinished"
  /\ \A i \in 1 .. Len(delivered[tconn]) : delivered[tconn][i] = i - 1
  /\ Len(delivered[tconn]) <= MostDelivered

TesterInv == lab = "client" => CaseSide /\ CaseStream /\ Given

\* What handle_connection leaves of the case it serves.
LEMMA CaseLeft ==
  ASSUME TypeInv, CaseSide, Given, tconn \in Conn, conn = tconn, conn' = NoConn,
         link' = [link EXCEPT ![conn].srv = "closed", ![conn].up = <<>>],
         UNCHANGED <<testVars, table, cut, delivered, accepted>>
  PROVE  CaseSide' /\ CaseStream' /\ Given'
<1>1. /\ link'[tconn].srv = "closed" /\ link'[tconn].down = link[tconn].down
  BY LinkFacts
<1>2. UNCHANGED <<t_case, t_sent, tpc, t_verdict>> /\ conn' # tconn
  BY ConnIsNotNone DEF testVars
<1>3. CaseSide'
  BY <1>1, <1>2 DEF CaseSide, Unwelcome
<1>4. CaseStream'
  BY <1>1 DEF CaseStream
<1>5. Given'
  BY <1>1, <1>2 DEF Given, Unwelcome, MostDelivered
<1> QED
  BY <1>3, <1>4, <1>5

\* It goes on without taking a frame.
LEMMA CaseGoesOn ==
  ASSUME TypeInv, CaseStream, tconn \in Conn, UNCHANGED testVars,
         link'[tconn].up = link[tconn].up, link'[tconn].srv = link[tconn].srv,
         FramesTaken' = FramesTaken
  PROVE  CaseStream'
<1>1. UNCHANGED <<t_case, t_sent, tpc, t_verdict>> /\ FramesWritten' = FramesWritten
      /\ Writes' = Writes
  BY DEF testVars, FramesWritten, Writes
<1>2. \A m, f : FrameOfCase(m, f)' <=> FrameOfCase(m, f)
  BY <1>1 DEF FrameOfCase, HelloOfCase
<1> HIDE DEF FramesTaken
<1> QED
  BY <1>1, <1>2 DEF CaseStream

\* It takes the first frame, which is the one that the case wrote there.
LEMMA CaseTakes ==
  ASSUME TypeInv, CaseStream, tconn \in Conn, UNCHANGED testVars,
         link[tconn].srv = "open", link[tconn].up # <<>>,
         link' = [link EXCEPT ![tconn].up = Tail(@)],
         FramesTaken \in Nat, FramesTaken' = FramesTaken + 1
  PROVE  /\ CaseStream'
         /\ FrameOfCase(FramesTaken + 1, Head(link[tconn].up))
<1> DEFINE q == link[tconn].up
           taken == FramesTaken
           bound == FramesWritten + (IF tpc = "over" THEN 1 ELSE 0)
<1>1. UNCHANGED <<t_case, t_sent, tpc, t_verdict>> /\ FramesWritten' = FramesWritten
      /\ Writes' = Writes
  BY DEF testVars, FramesWritten, Writes
<1>2. \A m, f : FrameOfCase(m, f)' <=> FrameOfCase(m, f)
  BY <1>1 DEF FrameOfCase, HelloOfCase
<1>3. link'[tconn].up = Tail(q) /\ link'[tconn].srv = "open"
  BY TookFrame
<1>4. PICK S : q \in Seq(S)
  BY LinkFacts
<1>5. /\ Head(q) = q[1] /\ Len(q) \in Nat /\ Len(q) >= 1 /\ Len(Tail(q)) = Len(q) - 1
      /\ \A i \in 1 .. Len(q) - 1 : Tail(q)[i] = q[i + 1]
  BY <1>4, HeadTailProperties, LenProperties
<1>6. /\ Len(q) + taken <= bound
      /\ tpc # "over" => Len(q) + taken = FramesWritten
      /\ \A i \in 1 .. Len(q) : FrameOfCase(taken + i, q[i])
  BY DEF CaseStream
<1>7. FrameOfCase(taken + 1, Head(q))
  <2>1. 1 \in 1 .. Len(q)
    BY <1>5
  <2> QED
    BY <1>5, <1>6, <2>1
<1> HIDE DEF q, taken, bound
<1>8. ASSUME NEW i \in 1 .. Len(q) - 1
      PROVE  FrameOfCase(taken + 1 + i, Tail(q)[i])
  <2>1. i + 1 \in 1 .. Len(q) /\ taken + (i + 1) = taken + 1 + i
    BY <1>5 DEF taken
  <2>2. FrameOfCase(taken + (i + 1), q[i + 1])
    BY <1>6, <2>1
  <2> QED
    BY <1>5, <2>1, <2>2
<1>9. Len(q) - 1 + (taken + 1) = Len(q) + taken
  BY <1>5 DEF taken
<1>10. bound' = bound
  BY <1>1 DEF bound
<1>11. /\ Len(link'[tconn].up) + FramesTaken' <= FramesWritten' + (IF tpc' = "over" THEN 1 ELSE 0)
       /\ tpc' # "over" => Len(link'[tconn].up) + FramesTaken' = FramesWritten'
  BY <1>1, <1>3, <1>5, <1>6, <1>9 DEF taken, bound
<1>12. (\A i \in 1 .. Len(link[tconn].up) : FrameOfCase(FramesTaken + i, link[tconn].up[i]))'
  <2>1. FramesTaken' = taken + 1 /\ Len(link'[tconn].up) = Len(q) - 1
    BY <1>3, <1>5 DEF taken
  <2> QED
    BY <1>2, <1>3, <1>8, <2>1
<1> QED
  BY <1>7, <1>11, <1>12 DEF CaseStream, q, taken

\* A ClientHello that should be refused is.
LEMMA UnwelcomeRefused ==
  ASSUME table = InitTable, HelloOfCase(hello), Unwelcome
  PROVE  LET k == table[hello.device] IN k = NoPsk \/ ~HelloVerifies(k)
<1> DEFINE k == table[hello.device]
<1>1. hello_mac(k, SignedPart(hello)) = [f |-> "hmac", a |-> <<k, <<LABEL_HELLO, SignedPart(hello)>>>>]
  BY DEF hello_mac, Hmac
<1> DEFINE m == hello_mac(k, SignedPart(hello))
<1>2. m.f = "hmac" /\ m.a[1] = k
  BY <1>1
<1>3. CASE t_case = "unknown-device_id"
  BY <1>3, RejectionsAssumption DEF HelloOfCase
<1>4. CASE t_case = "forged-PSK-MAC"
  <2>1. hello.psk_mac.f = "flipped"
    BY <1>4 DEF HelloOfCase
  <2> QED
    BY <1>2, <2>1 DEF HelloVerifies
<1>5. CASE t_case = "wrong-PSK"
  <2>1. hello.psk_mac.a[1] # k
    BY <1>5, RejectionsAssumption DEF HelloOfCase
  <2> QED
    BY <1>2, <2>1 DEF HelloVerifies
<1> QED
  BY <1>3, <1>4, <1>5 DEF Unwelcome

\* A step of handle_connection on the case's connection.
LEMMA CaseHandled ==
  ASSUME RejTyped, EndsInv, TesterInv, lab = "client", HandleStep,
         UNCHANGED <<testVars, lab>>
  PROVE  TesterInv'
<1> DEFINE Goal == CaseSide' /\ CaseStream' /\ Given'
           taken == FramesTaken
           d == delivered[tconn]
<1> SUFFICES Goal
  BY DEF TesterInv
<1>0. /\ TypeInv /\ tconn \in Conn /\ CaseSide /\ CaseStream /\ Given
      /\ UNCHANGED <<t_case, t_sent, tpc, t_verdict>>
  BY TesterIsConn DEF RejTyped, TesterInv, testVars
<1>1. conn = tconn /\ link[tconn].srv = "open" /\ GatewayOnCase
  <2>1. conn \in Conn /\ link[conn].srv = "open"
    BY <1>0, HandleForms, ConnIsNotNone DEF EndsInv, Held
  <2>2. conn \in Party
    BY <2>1 DEF EndsInv, Unopened
  <2>3. conn = tconn
    BY <2>2 DEF Party
  <2> QED
    BY <1>0, <2>1, <2>3 DEF Given
<1>2. /\ UNCHANGED <<table, cut>>
      /\ delivered \in [Conn -> Seq(Nat)] /\ Len(d) \in Nat
      /\ t_case \in Case /\ t_sent \in 0 .. Len(Writes)
  <2>1. UNCHANGED <<table, cut>>
    BY DEF HandleStep, ReadClientHello, ReadEnds, Authenticate, DecapsulateStatic, netVars,
       SendServerHello, ReadClientFinished, DecapsulationFails, VerifyClientMac, ReadRecord
  <2> QED
    BY <1>0, <2>1, LinkFacts DEF RejTyped, TypeInv, EndsTypeOK, ServerTypeOK
<1>3. taken \in Nat
  BY <1>2 DEF FramesTaken
<1>4. ASSUME NEW v, Leave(v), UNCHANGED <<delivered, accepted>>
      PROVE  Goal
  BY <1>0, <1>1, <1>2, <1>4, CaseLeft DEF Leave
\* What handle_connection does with the case's own state when it goes on.
<1>5. ASSUME conn' = conn, CaseStream', GatewayOnCase', UNCHANGED <<delivered, accepted>>,
             link'[tconn].srv = "open",
             Unwelcome => link'[tconn].down = link[tconn].down
      PROVE  Goal
  <2>1. CaseSide'
    BY <1>0, <1>2, <1>5 DEF CaseSide, Unwelcome
  <2>2. Given'
    BY <1>0, <1>1, <1>5 DEF Given, Unwelcome, MostDelivered
  <2> QED
    BY <1>5, <2>1, <2>2
<1> DEFINE f == Head(link[tconn].up)
<1>6. ASSUME UNCHANGED conn, TakeFrame, link[tconn].up # <<>>, taken' = taken + 1
      PROVE  /\ CaseStream' /\ FrameOfCase(taken + 1, f)
             /\ link'[tconn].srv = "open" /\ link'[tconn].down = link[tconn].down
  <2>1. link' = [link EXCEPT ![tconn].up = Tail(@)]
    BY <1>1, <1>6 DEF TakeFrame
  <2>2. link'[tconn].srv = "open" /\ link'[tconn].down = link[tconn].down
    BY <1>0, <1>1, <2>1, TookFrame
  <2> QED
    BY <1>0, <1>1, <1>3, <1>6, <2>1, <2>2, CaseTakes
<1> HIDE DEF Goal
<1>7. CASE ReadClientHello
  <2>1. CASE Parses(f)
    <3>1. /\ spc = "hello" /\ spc' = "auth" /\ conn' = conn /\ hello' = f.body /\ TakeFrame
          /\ UNCHANGED <<delivered, accepted>> /\ link[tconn].up # <<>>
      BY <1>1, <1>7, <2>1 DEF ReadClientHello, Continue
    <3>2. taken = 0 /\ taken' = 1
      BY <1>1, <3>1 DEF FramesTaken
    <3>3. /\ CaseStream' /\ FrameOfCase(1, f)
          /\ link'[tconn].srv = "open" /\ link'[tconn].down = link[tconn].down
      BY <1>6, <3>1, <3>2
    <3>4. GatewayOnCase'
      BY <1>0, <1>1, <3>1, <3>3 DEF GatewayOnCase, FrameOfCase, HelloOfCase, Unwelcome
    <3> QED
      BY <1>5, <3>1, <3>3, <3>4
  <2>2. CASE ~Parses(f)
    BY <1>1, <1>4, <1>7, <2>2 DEF ReadClientHello
  <2> QED
    BY <2>1, <2>2
<1>8. CASE ReadEnds
  BY <1>4, <1>8 DEF ReadEnds
<1>9. CASE Authenticate
  <2>1. ASSUME Continue("decaps"), HelloVerifies(table[hello.device]),
               table[hello.device] # NoPsk, UNCHANGED <<link, hello, keys, inbound>>,
               spc = "auth", UNCHANGED <<delivered, accepted>>
        PROVE  Goal
    <3>1. ~Unwelcome
      BY <1>0, <1>1, <2>1, UnwelcomeRefused DEF CaseSide, GatewayOnCase
    <3>2. taken' = taken
      BY <2>1 DEF FramesTaken, Continue
    <3>3. CaseStream'
      BY <1>0, <2>1, <3>2, CaseGoesOn
    <3>4. GatewayOnCase'
      BY <1>0, <1>1, <2>1, <3>1 DEF GatewayOnCase, HelloOfCase, Unwelcome, Continue
    <3> QED
      BY <1>1, <1>5, <2>1, <3>3, <3>4 DEF Continue
  <2> QED
    BY <1>4, <1>9, <2>1 DEF Authenticate
<1>10. CASE DecapsulateStatic
  <2>1. /\ spc = "decaps" /\ spc' = "answer" /\ conn' = conn
        /\ UNCHANGED <<link, hello, delivered, accepted>>
    BY <1>10 DEF DecapsulateStatic, Continue, netVars
  <2>2. ~Unwelcome
    BY <1>1, <2>1 DEF GatewayOnCase
  <2>3. taken' = taken
    BY <2>1 DEF FramesTaken
  <2>4. CaseStream'
    BY <1>0, <2>1, <2>3, CaseGoesOn
  <2>5. GatewayOnCase'
    BY <1>0, <1>1, <2>1, <2>2 DEF GatewayOnCase, HelloOfCase, Unwelcome
  <2> QED
    BY <1>1, <1>5, <2>1, <2>4, <2>5
<1>11. CASE SendServerHello
  <2>1. ASSUME NEW q, link' = [link EXCEPT ![conn].down = q], Continue("finished"),
               spc = "answer", UNCHANGED <<hello, delivered, accepted>>
        PROVE  Goal
    <3>1. ~Unwelcome
      BY <1>1, <2>1 DEF GatewayOnCase
    <3>2. link'[tconn].srv = link[tconn].srv /\ link'[tconn].up = link[tconn].up
      BY <1>0, <1>1, <2>1, LinkFacts
    <3>3. taken' = taken
      BY <2>1 DEF FramesTaken, Continue
    <3>4. CaseStream'
      BY <1>0, <3>2, <3>3, CaseGoesOn
    <3>5. GatewayOnCase'
      BY <1>0, <1>1, <2>1, <3>1 DEF GatewayOnCase, HelloOfCase, Unwelcome, Continue
    <3> QED
      BY <1>1, <1>5, <2>1, <3>1, <3>2, <3>4, <3>5 DEF Continue
  <2> QED
    BY <1>4, <1>11, <2>1 DEF SendServerHello
<1>12. CASE ReadClientFinished
  <2>1. CASE RightFinished(f)
    <3>1. /\ spc = "finished" /\ spc' = "confirm" /\ conn' = conn /\ TakeFrame
          /\ UNCHANGED <<hello, delivered, accepted>> /\ link[tconn].up # <<>>
          /\ keys'.client_mac = f.body.client_mac
      BY <1>1, <1>12, <2>1 DEF ReadClientFinished, Continue
    <3>2. keys'.c2s.f = "expand"
      BY <1>1, <1>12, <2>1
         DEF ReadClientFinished, derive_stage2, derive_keys, HkdfExpand
    <3>3. taken = 1 /\ taken' = 2
      BY <1>1, <3>1 DEF FramesTaken
    <3>4. /\ CaseStream' /\ FrameOfCase(2, f)
          /\ link'[tconn].srv = "open" /\ link'[tconn].down = link[tconn].down
      BY <1>6, <3>1, <3>3
    <3>5. GatewayOnCase'
      BY <1>0, <1>1, <3>1, <3>2, <3>4 DEF GatewayOnCase, FrameOfCase, HelloOfCase, Unwelcome
    <3> QED
      BY <1>5, <3>1, <3>4, <3>5
  <2>2. CASE ~RightFinished(f)
    BY <1>1, <1>4, <1>12, <2>2 DEF ReadClientFinished
  <2> QED
    BY <2>1, <2>2
<1>13. CASE DecapsulationFails
  BY <1>4, <1>13 DEF DecapsulationFails
<1>14. CASE VerifyClientMac
  <2>1. CASE keys.client_mac = Hmac(keys.cli_confirm, <<keys.transcript, hs.server_mac>>)
    <3>1. /\ spc = "confirm" /\ spc' = "data" /\ conn' = conn
          /\ inbound'.key = keys.c2s /\ inbound'.last = 0 - 1
          /\ accepted' = [accepted EXCEPT ![conn] =
               [suite |-> hello.suite, session_id |-> hs.session_id, c2s |-> keys.c2s]]
          /\ UNCHANGED <<link, hello, delivered>>
      BY <1>1, <1>14, <2>1 DEF VerifyClientMac, Continue
    <3>2. keys.client_mac.f = "hmac"
      BY <2>1 DEF Hmac
    <3>3. ~Unwelcome /\ t_case # "forged-ClientFinished"
      BY <1>1, <3>1, <3>2 DEF GatewayOnCase
    <3>4. d = <<>> /\ Len(d) = 0
      BY <1>1, <3>1, EmptySeq DEF GatewayOnCase
    <3>5. taken' = taken
      BY <1>1, <3>1, <3>4 DEF FramesTaken
    <3>6. CaseStream'
      BY <1>0, <3>1, <3>5, CaseGoesOn
    <3>7. GatewayOnCase'
      BY <1>0, <1>1, <3>1, <3>3, <3>4 DEF GatewayOnCase, HelloOfCase, Unwelcome
    <3>8. CaseSide'
      BY <1>0, <1>2, <3>1 DEF CaseSide, Unwelcome
    <3>9. Given'
      BY <1>0, <1>1, <3>1, <3>3, <3>4, <3>7 DEF Given, Unwelcome, MostDelivered
    <3> QED
      BY <3>6, <3>8, <3>9 DEF Goal
  <2>2. CASE keys.client_mac # Hmac(keys.cli_confirm, <<keys.transcript, hs.server_mac>>)
    BY <1>4, <1>14, <2>2 DEF VerifyClientMac
  <2> QED
    BY <2>1, <2>2
<1>15. CASE ReadRecord
  <2>1. ASSUME f.type = "Data", OpensRecord(f.body)
        PROVE  Goal
    <3>1. /\ spc = "data" /\ spc' = "data" /\ conn' = conn /\ TakeFrame
          /\ UNCHANGED <<hello, keys, accepted>> /\ link[tconn].up # <<>>
          /\ delivered' = [delivered EXCEPT ![conn] = Append(@, f.body.box.plain)]
          /\ inbound' = [inbound EXCEPT !.last = f.body.seq]
      BY <1>1, <1>15, <2>1 DEF ReadRecord, Continue
    <3>2. /\ ~Unwelcome /\ t_case # "forged-ClientFinished"
          /\ inbound.key.f = "expand" /\ inbound.last = Len(d) - 1
      BY <1>1, <3>1 DEF GatewayOnCase, Unwelcome
    <3>3. inbound'.key = inbound.key /\ inbound'.last = f.body.seq
      BY <1>0, <3>1 DEF TypeInv, EndsTypeOK, ServerTypeOK
    <3>4. f.body.seq > inbound.last /\ f.body.box.key = inbound.key
      BY <2>1 DEF OpensRecord, Opens
    <3>5. PICK S : LinkIn(S) /\ link[tconn].up \in Seq(S)
      BY <1>0, LinkFacts
    <3>6. f.body.box.plain \in Nat
      <4>1. f \in S
        BY <3>1, <3>5, HeadTailProperties
      <4> QED
        BY <2>1, <3>5, <4>1 DEF LinkIn, FrameTyped
    <3>7. /\ delivered'[tconn] = Append(d, f.body.box.plain)
          /\ Len(delivered'[tconn]) = Len(d) + 1
          /\ delivered'[tconn][Len(d) + 1] = f.body.box.plain
          /\ \A i \in 1 .. Len(d) : delivered'[tconn][i] = d[i]
      BY <1>0, <1>1, <1>2, <3>1, <3>6, AppendProperties
    <3> HIDE DEF d
    <3>8. taken = 2 + Len(d) /\ taken' = taken + 1
      BY <1>1, <1>2, <3>1, <3>7 DEF FramesTaken, d
    <3>9. /\ CaseStream' /\ FrameOfCase(3 + Len(d), f)
          /\ link'[tconn].srv = "open" /\ link'[tconn].down = link[tconn].down
      <4>1. taken + 1 = 3 + Len(d)
        BY <1>2, <3>8
      <4> QED
        BY <1>6, <3>1, <3>8, <4>1
    <3>10. /\ Len(d) + 1 <= t_sent /\ t_sent <= Len(Writes)
           /\ f.body.seq = Writes[Len(d) + 1] /\ f.body.box.plain = Writes[Len(d) + 1]
           /\ t_case = "tampered-ciphertext" => f.body.box.key.f = "flipped"
      <4>1. 3 + Len(d) > 2 /\ 3 + Len(d) - 2 = Len(d) + 1
        BY <1>2
      <4>2. /\ 3 + Len(d) <= 2 + t_sent
            /\ f.body.seq = Writes[3 + Len(d) - 2] /\ f.body.box.plain = Writes[3 + Len(d) - 2]
            /\ t_case = "tampered-ciphertext" => f.body.box.key.f = "flipped"
        BY <2>1, <3>9, <4>1 DEF FrameOfCase
      <4>3. t_sent \in Nat /\ Len(Writes) \in Nat /\ t_sent <= Len(Writes)
        BY <1>2, WritesTyped
      <4> HIDE DEF f
      <4>4. Len(d) + 1 <= t_sent
        BY <1>2, <4>2, <4>3
      <4> QED
        BY <4>1, <4>2, <4>3, <4>4
    <3>11. t_case \in {"happy-path", "replayed-data-record"}
      BY <1>2, <3>2, <3>4, <3>10 DEF Case, Negative, Unwelcome
    <3> HIDE DEF f
    <3>12. Len(Writes) \in Nat /\ Len(d) < Len(Writes) /\ f.body.seq > Len(d) - 1
      BY <1>2, <3>2, <3>4, <3>10, WritesTyped
    <3>13. f.body.seq = Len(d) /\ f.body.box.plain = Len(d) /\ Len(d) + 1 <= MostDelivered
      <4> DEFINE k == Len(d)
      <4>0. k \in Nat /\ Len(Writes) \in Nat /\ k < Len(Writes)
        BY <1>2, <3>12
      <4>1. CASE t_case = "happy-path"
        <5>1. Writes = <<0, 1, 2>> /\ MostDelivered = 3
          BY <4>1 DEF Writes, MostDelivered
        <5>2. Len(Writes) = 3
          BY <5>1
        <5> HIDE DEF k
        <5>3. k = 0 \/ k = 1 \/ k = 2
          BY <4>0, <5>2
        <5>4. <<0, 1, 2>>[k + 1] = k /\ k + 1 <= 3
          BY <5>3
        <5> QED
          BY <3>10, <5>1, <5>4 DEF k
      <4>2. CASE t_case = "replayed-data-record"
        <5>1. Writes = <<0, 0>> /\ MostDelivered = 1
          BY <4>2 DEF Writes, MostDelivered
        <5>2. Len(Writes) = 2
          BY <5>1
        <5>3. f.body.seq > k - 1
          BY <3>12
        <5> HIDE DEF k
        <5>4. k = 0 \/ k = 1
          BY <4>0, <5>2
        <5>5. <<0, 0>>[k + 1] = 0
          BY <5>4
        <5>6. f.body.seq = 0 /\ f.body.box.plain = 0
          BY <3>10, <5>1, <5>5 DEF k
        <5>7. k = 0
          BY <5>3, <5>4, <5>6
        <5> QED
          BY <5>1, <5>6, <5>7 DEF k
      <4> QED
        BY <3>11, <4>1, <4>2
    <3>14. GatewayOnCase'
      <4>1. inbound'.last = Len(delivered'[tconn]) - 1
        BY <1>2, <3>3, <3>7, <3>13
      <4> QED
        BY <1>0, <1>1, <3>1, <3>2, <3>3, <4>1 DEF GatewayOnCase, HelloOfCase, Unwelcome
    <3>15. CaseSide'
      BY <1>0, <1>2, <3>9 DEF CaseSide, Unwelcome
    <3>16. \A i \in 1 .. Len(delivered'[tconn]) : delivered'[tconn][i] = i - 1
      <4>1. \A i \in 1 .. Len(d) : d[i] = i - 1
        BY <1>0 DEF Given, d
      <4>2. \A i \in 1 .. Len(d) + 1 : i \in 1 .. Len(d) \/ i = Len(d) + 1
        BY <1>2
      <4>3. Len(d) = Len(d) + 1 - 1
        BY <1>2
      <4> QED
        BY <3>7, <3>13, <4>1, <4>2, <4>3
    <3>17. Given'
      <4>1. Len(delivered'[tconn]) <= MostDelivered'
        BY <1>0, <3>7, <3>13 DEF MostDelivered
      <4> QED
        BY <1>0, <3>1, <3>9, <3>14, <3>16, <4>1 DEF Given, Unwelcome
    <3> QED
      BY <3>9, <3>15, <3>17 DEF Goal
  <2> QED
    BY <1>1, <1>4, <1>15, <2>1 DEF ReadRecord
<1> QED
  BY <1>7, <1>8, <1>9, <1>10, <1>11, <1>12, <1>13, <1>14, <1>15 DEF HandleStep

\* The gateway accepts the case's connection, or ends with it.
LEMMA CaseServed ==
  ASSUME RejTyped, EndsInv, TesterInv, lab = "client", Accept \/ ProcessEnds("killed"),
         UNCHANGED <<testVars, lab>>
  PROVE  TesterInv'
<1>0. /\ TypeInv /\ tconn \in Conn /\ CaseSide /\ CaseStream /\ Given /\ Queue
      /\ UNCHANGED <<t_case, t_sent, tpc, t_verdict>>
  BY TesterIsConn DEF RejTyped, TesterInv, testVars, EndsInv
<1>1. CASE Accept
  <2>1. /\ backlog # <<>> /\ backlog' = Tail(backlog) /\ conn' = Head(backlog)
        /\ link' = [link EXCEPT ![Head(backlog)].srv = "open"]
        /\ spc = "accept" /\ spc' = "hello"
        /\ UNCHANGED <<table, cut, delivered, accepted>>
    BY <1>1 DEF Accept, serverHistory
  <2>2. /\ Head(backlog) \in Conn /\ link[Head(backlog)].srv = "queued"
        /\ link'[Head(backlog)].srv = "open"
        /\ link'[Head(backlog)].up = link[Head(backlog)].up
        /\ link'[Head(backlog)].down = link[Head(backlog)].down
    BY <1>0, <2>1, QueueAccepted
  <2>3. Head(backlog) = tconn
    BY <2>2 DEF EndsInv, Unopened, Party
  <2>4. conn # tconn /\ conn' = tconn
    <3>1. conn = NoConn
      BY <1>0, <2>1 DEF TypeInv, EndsTypeOK, ServerTypeOK
    <3> QED
      BY <2>1, <2>3, <3>1, ConnIsNotNone, <1>0
  <2>5. CaseSide'
    BY <1>0, <2>1, <2>2, <2>3 DEF CaseSide, Unwelcome
  <2>6. FramesTaken = 0 /\ FramesTaken' = 0
    BY <2>1, <2>4 DEF FramesTaken
  <2>7. FramesWritten' = FramesWritten /\ Writes' = Writes
    BY <1>0 DEF FramesWritten, Writes
  <2>8. \A m, f : FrameOfCase(m, f)' <=> FrameOfCase(m, f)
    BY <1>0, <2>7 DEF FrameOfCase, HelloOfCase
  <2>9. CaseStream'
    BY <1>0, <2>2, <2>3, <2>6, <2>7, <2>8 DEF CaseStream
  <2>10. delivered[tconn] = <<>>
    BY <1>0, <2>2, <2>3 DEF Given
  <2>11. Given'
    BY <1>0, <2>1, <2>10 DEF Given, GatewayOnCase, Unwelcome, MostDelivered
  <2> QED
    BY <2>5, <2>9, <2>11 DEF TesterInv
<1>2. CASE ProcessEnds("killed")
  <2>1. conn' # tconn /\ UNCHANGED <<table, cut, delivered, accepted>>
    BY <1>0, <1>2, ConnIsNotNone DEF ProcessEnds
  <2>2. /\ link'[tconn].srv \notin {"queued", "open"}
        /\ link'[tconn].srv = "none" => link'[tconn] = link[tconn]
        /\ link'[tconn].down = link[tconn].down
    <3>1. link'[tconn] = IF link[tconn].srv \in {"queued", "open"}
                         THEN [link[tconn] EXCEPT !.srv = "closed", !.up = <<>>]
                         ELSE link[tconn]
      BY <1>0, <1>2 DEF ProcessEnds
    <3> QED
      BY <1>0, <3>1, LinkFacts
  <2>3. CaseSide'
    BY <1>0, <2>1, <2>2 DEF CaseSide, Unwelcome
  <2>4. CaseStream'
    BY <2>2 DEF CaseStream
  <2>5. Given'
    BY <1>0, <2>1, <2>2 DEF Given, Unwelcome, MostDelivered
  <2> QED
    BY <2>3, <2>4, <2>5 DEF TesterInv
<1> QED
  BY <1>1, <1>2

-----------------------------------------------------------------------------
\* A write of the tester appends the next frame of the case.
LEMMA CaseWrites ==
  ASSUME TypeInv, CaseStream, tconn \in Conn, NEW f,
         UNCHANGED <<conn, spc, delivered, t_case>>,
         tconn \notin cut, link'[tconn].srv = link[tconn].srv,
         link'[tconn].up = PutUp(tconn, f),
         tpc # "over", FramesTaken \in Nat, FramesWritten \in Nat,
         FramesWritten' + (IF tpc' = "over" THEN 1 ELSE 0) >= FramesWritten + 1,
         tpc' # "over" => FramesWritten' = FramesWritten + 1,
         t_sent \in Nat, t_sent' \in Nat, t_sent' >= t_sent,
         NEW m \in Nat, m = FramesWritten + 1, FrameOfCase(m, f)'
  PROVE  CaseStream'
<1>1. FramesTaken' = FramesTaken /\ Writes' = Writes
  BY DEF FramesTaken, Writes
<1>2. ASSUME NEW k \in Nat, NEW g, FrameOfCase(k, g)
      PROVE  FrameOfCase(k, g)'
  <2>1. k <= 2 + t_sent => k <= 2 + t_sent'
    OBVIOUS
  <2> QED
    BY <1>1, <1>2, <2>1 DEF FrameOfCase, HelloOfCase
<1> SUFFICES ASSUME link[tconn].srv \in {"queued", "open"}
             PROVE  CaseStream'
  BY DEF CaseStream
<1> DEFINE q == link[tconn].up
           taken == FramesTaken
           written == FramesWritten
<1>3. PICK S : q \in Seq(S)
  BY LinkFacts
<1>4. link'[tconn].up = Append(q, f)
  BY DEF PutUp, ReachesServer
<1>5. /\ Len(q) \in Nat /\ Len(Append(q, f)) = Len(q) + 1 /\ Append(q, f)[Len(q) + 1] = f
      /\ \A i \in 1 .. Len(q) : Append(q, f)[i] = q[i]
  <2>1. q \in Seq(S \cup {f}) /\ f \in S \cup {f}
    BY <1>3, SeqMonotonic
  <2> QED
    BY <2>1, AppendProperties, LenProperties
<1>6. /\ Len(q) + taken = written
      /\ \A i \in 1 .. Len(q) : FrameOfCase(taken + i, q[i])
  BY DEF CaseStream
<1> HIDE DEF q
<1>7. ASSUME NEW i \in 1 .. Len(q) + 1, NEW k, NEW g,
             k = taken + i, g = Append(q, f)[i]
      PROVE  FrameOfCase(k, g)'
  <2>1. CASE i \in 1 .. Len(q)
    <3>1. FrameOfCase(k, g) /\ k \in Nat
      BY <1>5, <1>6, <1>7, <2>1
    <3> QED
      BY <1>2, <3>1
  <2>2. CASE i = Len(q) + 1
    <3>1. k = m /\ g = f
      BY <1>5, <1>6, <1>7, <2>2
    <3> QED
      BY <3>1
  <2> QED
    BY <1>5, <2>1, <2>2
<1>8. Len(link'[tconn].up) = Len(q) + 1
  BY <1>4, <1>5 DEF q
<1>9. (\A i \in 1 .. Len(link[tconn].up) : FrameOfCase(FramesTaken + i, link[tconn].up[i]))'
  BY <1>1, <1>4, <1>7, <1>8 DEF q
<1>10. /\ Len(q) + 1 + taken <= FramesWritten' + (IF tpc' = "over" THEN 1 ELSE 0)
       /\ tpc' # "over" => Len(q) + 1 + taken = FramesWritten'
  <2>1. Len(q) + 1 + taken = written + 1
    BY <1>5, <1>6
  <2> QED
    BY <2>1
<1> QED
  BY <1>1, <1>8, <1>9, <1>10 DEF CaseStream

\* The gateway's state does not move with the tester's steps, nor does what it
\* has been given.
LEMMA GivenStays ==
  ASSUME Given, UNCHANGED <<srvVars, t_case>>,
         link'[tconn].srv \in {"none", "queued"} => link[tconn].srv \in {"none", "queued"}
  PROVE  Given'
  BY DEF Given, GatewayOnCase, HelloOfCase, Unwelcome, MostDelivered, srvVars, locals,
         serverHistory

\* A case ends without a further frame.
LEMMA CaseOver ==
  ASSUME TypeInv, CaseSide, CaseStream, tconn \in Conn, NEW v, TestEnds(v), v # "accepted",
         UNCHANGED <<srvVars, t_case, t_sent, cut>>,
         FramesTaken \in Nat, t_sent \in Nat
  PROVE  CaseSide' /\ CaseStream'
<1>1. /\ link'[tconn].up = link[tconn].up /\ link'[tconn].srv = link[tconn].srv
      /\ link'[tconn].down \in {link[tconn].down, <<>>}
      /\ tpc' = "over" /\ t_verdict' = v
  <2>1. CASE link' = link
    BY <2>1 DEF TestEnds
  <2>2. CASE link' = [link EXCEPT ![tconn].cli = "closed", ![tconn].down = <<>>]
    BY <2>2, ClosedEnd DEF TestEnds
  <2> QED
    BY <2>1, <2>2 DEF TestEnds
<1>2. CaseSide'
  BY <1>1 DEF CaseSide, Unwelcome, srvVars
<1>3. FramesTaken' = FramesTaken /\ Writes' = Writes
  BY DEF FramesTaken, Writes, srvVars, serverHistory
<1>4. \A m, f : FrameOfCase(m, f)' <=> FrameOfCase(m, f)
  BY <1>3 DEF FrameOfCase, HelloOfCase
<1>5. FramesWritten' = 2 + t_sent /\ FramesWritten \in Nat
  BY <1>1, <1>3 DEF FramesWritten
<1>6. tpc # "over" => FramesWritten <= 2 + t_sent
  BY DEF FramesWritten
<1>7. tpc = "over" => FramesWritten = 2 + t_sent
  BY DEF FramesWritten
<1>8. CaseStream'
  <2> SUFFICES ASSUME link[tconn].srv \in {"queued", "open"}
               PROVE  CaseStream'
    BY <1>1 DEF CaseStream
  <2> DEFINE L == Len(link[tconn].up)
             taken == FramesTaken
             written == FramesWritten
  <2>1. /\ L + taken <= written + (IF tpc = "over" THEN 1 ELSE 0)
        /\ \A i \in 1 .. L : FrameOfCase(taken + i, link[tconn].up[i])
    BY DEF CaseStream
  <2>2. L \in Nat
    BY LinkFacts
  <2> HIDE DEF L, taken, written
  <2>3. written <= 2 + t_sent /\ written \in Nat /\ taken \in Nat
    BY <1>5, <1>6, <1>7 DEF written, taken
  <2>4. L + taken <= 2 + t_sent + 1
    BY <2>1, <2>2, <2>3
  <2> QED
    BY <1>1, <1>3, <1>4, <1>5, <2>1, <2>4 DEF CaseStream, L, taken
<1> QED
  BY <1>2, <1>8

\* The ClientHello of a case has what is wrong with it.
LEMMA HelloIsOfCase ==
  ASSUME NEW part, part = <<t_suite, t_device, TestKeyId, Fresh("client-nonce", tconn),
                            Ciphertext(TestKey, Fresh("static-coins", tconn))>>,
         NEW mac, mac = hello_mac(t_psk, part)
  PROVE  HelloOfCase(Hello(part, IF t_case = "forged-PSK-MAC" THEN Flipped(mac) ELSE mac))
<1> DEFINE psk_mac_ == IF t_case = "forged-PSK-MAC" THEN Flipped(mac) ELSE mac
           h == Hello(part, psk_mac_)
<1>1. h.device = t_device /\ h.psk_mac = psk_mac_
  BY DEF Hello
<1> SUFFICES HelloOfCase(h)
  OBVIOUS
<1> HIDE DEF h
<1>2. CASE t_case = "unknown-device_id"
  BY <1>1, <1>2 DEF HelloOfCase, t_device
<1>3. CASE t_case = "forged-PSK-MAC"
  <2>1. psk_mac_.f = "flipped"
    BY <1>3 DEF Flipped
  <2> QED
    BY <1>1, <1>3, <2>1 DEF HelloOfCase
<1>4. CASE t_case = "wrong-PSK"
  <2>1. psk_mac_ = Hmac(Fresh("random-psk", tconn), <<LABEL_HELLO, part>>)
    BY <1>4 DEF t_psk, hello_mac
  <2>2. psk_mac_.a[1] = Fresh("random-psk", tconn)
    BY <2>1 DEF Hmac
  <2> HIDE DEF psk_mac_
  <2> QED
    BY <1>1, <1>4, <2>2 DEF HelloOfCase, t_device
<1>5. CASE t_case \notin {"unknown-device_id", "forged-PSK-MAC", "wrong-PSK"}
  BY <1>5 DEF HelloOfCase
<1> QED
  BY <1>2, <1>3, <1>4, <1>5

LEMMA CaseTested ==
  ASSUME RejTyped, EndsInv, TesterInv, TesterStep
  PROVE  TesterInv'
<1>0. /\ lab = "client" /\ TestStep /\ TypeInv /\ tconn \in Conn
      /\ CaseSide /\ CaseStream /\ Given /\ UNCHANGED srvVars
      /\ t_case \in Case /\ t_sent \in Nat /\ Len(Writes) \in Nat /\ t_sent <= Len(Writes)
  BY TesterIsConn, WritesTyped DEF TesterStep, RejTyped, TesterInv
<1>1. FramesTaken \in Nat /\ FramesWritten \in Nat
  BY <1>0, LinkFacts DEF FramesTaken, FramesWritten
<1>2. UNCHANGED <<conn, spc, delivered, table, cut, t_case>>
  BY <1>0 DEF srvVars, serverHistory, TestStep, TestConnect, TestSendHello, TestHandshake,
              TestRecord, TestReturns, TestFails
<1> DEFINE Goal == CaseSide' /\ CaseStream' /\ Given'
<1> SUFFICES Goal
  BY DEF TesterInv
<1>3. CASE TestConnect
  <2>1. /\ link' = [link EXCEPT ![tconn].cli = "open", ![tconn].srv = "queued"]
        /\ tpc = "start" /\ tpc' = "hello" /\ UNCHANGED <<t_sent, t_verdict>>
    BY <1>3 DEF TestConnect
  <2>2. link[tconn].srv = "none" /\ conn # tconn
    <3>1. link[tconn].srv = "none"
      BY <1>0, <2>1 DEF EndsInv, Unopened
    <3> QED
      BY <1>0, <3>1, ConnIsNotNone DEF EndsInv, Held
  <2>3. /\ link'[tconn].srv = "queued" /\ link'[tconn].up = link[tconn].up
        /\ link'[tconn].down = link[tconn].down
    BY <1>0, <2>1, LinkFacts
  <2>4. CaseSide'
    BY <1>0, <1>2, <2>1, <2>3 DEF CaseSide, Unwelcome
  <2>5. Given'
    BY <1>0, <1>2, <2>2, GivenStays
  <2>6. Len(link'[tconn].up) = 0 /\ 1 .. 0 = {}
    BY <1>0, <2>2, <2>3, EmptySeq DEF CaseSide
  <2>7. FramesTaken' = 0 /\ FramesWritten' = 0
    BY <1>2, <2>1, <2>2 DEF FramesTaken, FramesWritten
  <2>8. CaseStream'
    <3>1. (\A i \in 1 .. Len(link[tconn].up) :
              FrameOfCase(FramesTaken + i, link[tconn].up[i]))'
      BY <2>6
    <3>2. Len(link'[tconn].up) + FramesTaken' = FramesWritten' /\ tpc' # "over"
      BY <2>1, <2>6, <2>7
    <3>3. Len(link'[tconn].up) + FramesTaken'
            <= FramesWritten' + (IF tpc' = "over" THEN 1 ELSE 0)
      BY <2>1, <2>6, <2>7
    <3> QED
      BY <3>1, <3>2, <3>3 DEF CaseStream
  <2> QED
    BY <2>4, <2>5, <2>8
<1>4. ASSUME TestSendHello \/ TestHandshake \/ TestRecord \/ TestReturns \/ TestFails
      PROVE  link'[tconn].srv = link[tconn].srv /\ Given'
  <2>1. link'[tconn].srv = link[tconn].srv
    BY <1>0, <1>4, TesterOnLink
  <2> QED
    BY <1>0, <1>2, <2>1, GivenStays
<1>5. ASSUME NEW v, TestEnds(v), v # "accepted", UNCHANGED t_sent, Given'
      PROVE  Goal
  BY <1>0, <1>1, <1>2, <1>5, CaseOver
<1>6. ASSUME Raises, UNCHANGED t_sent, Given'
      PROVE  Goal
  <2> HIDE DEF Goal
  <2> QED
    BY <1>5, <1>6 DEF Raises
\* A step that writes the next frame of the case.
<1>7. ASSUME NEW f, NEW m \in Nat, m = FramesWritten + 1, FrameOfCase(m, f)',
             link'[tconn].up = PutUp(tconn, f), link'[tconn].srv = link[tconn].srv,
             tpc # "over", t_sent' \in Nat, t_sent' >= t_sent,
             FramesWritten' + (IF tpc' = "over" THEN 1 ELSE 0) >= FramesWritten + 1,
             tpc' # "over" => FramesWritten' = FramesWritten + 1
      PROVE  CaseStream'
  BY <1>0, <1>1, <1>2, <1>7, CaseWrites DEF CaseSide
<1> HIDE DEF Goal
\* And leaves the tester as it should be.
<1>8. ASSUME NEW f, link'[tconn].up = PutUp(tconn, f), link'[tconn].srv = link[tconn].srv,
             ~Unwelcome \/ link'[tconn].down = link[tconn].down,
             Unwelcome => tpc' # "records", t_verdict' # "accepted",
             tpc' \in {"start", "hello", "await"} => t_sent' = 0
      PROVE  CaseSide'
  <2>1. link[tconn].srv = "none" => link'[tconn].up = <<>>
    BY <1>0, <1>8 DEF PutUp, ReachesServer, CaseSide
  <2> QED
    BY <1>0, <1>2, <1>8, <2>1 DEF CaseSide, Unwelcome
<1>9. CASE TestSendHello
  <2> DEFINE part == <<t_suite, t_device, TestKeyId, Fresh("client-nonce", tconn),
                       Ciphertext(TestKey, Fresh("static-coins", tconn))>>
             mac == hello_mac(t_psk, part)
             h == Hello(part, IF t_case = "forged-PSK-MAC" THEN Flipped(mac) ELSE mac)
  <2>1. /\ tpc = "hello" /\ tpc' = "await" /\ UNCHANGED <<t_sent, t_verdict>>
        /\ link' = [link EXCEPT ![tconn].up = PutUp(tconn, Frame("ClientHello", h))]
    BY <1>9 DEF TestSendHello
  <2>2. HelloOfCase(h)
    BY HelloIsOfCase
  <2> HIDE DEF h
  <2>3. \A f : f = Frame("ClientHello", h) => FrameOfCase(1, f)'
    <3>1. \A g : HelloOfCase(g) => HelloOfCase(g)'
      BY <1>2 DEF HelloOfCase
    <3> QED
      BY <2>2, <3>1 DEF FrameOfCase, Frame
  <2>4. /\ link'[tconn].up = PutUp(tconn, Frame("ClientHello", h))
        /\ link'[tconn].down = link[tconn].down /\ link'[tconn].srv = link[tconn].srv
    BY <1>0, <2>1, WrittenUp
  <2>5. FramesWritten = 0 /\ FramesWritten' = 1
    BY <2>1 DEF FramesWritten
  <2>6. CaseStream'
    BY <1>0, <1>7, <2>1, <2>3, <2>4, <2>5
  <2>7. CaseSide'
    BY <1>0, <1>8, <2>1, <2>4 DEF CaseSide
  <2> QED
    BY <1>4, <1>9, <2>6, <2>7 DEF Goal
<1>10. CASE TestHandshake
  <2>1. CASE Raises
    BY <1>4, <1>6, <1>10, <2>1 DEF TestHandshake
  <2>2. CASE ~Raises
    <3>1. PICK mac, ct :
            LET finished == [ct_eph |-> ct,
                             client_mac |-> IF t_case = "forged-ClientFinished"
                                            THEN Flipped(mac) ELSE mac]
            IN  link' = [link EXCEPT ![tconn].down = Tail(@),
                           ![tconn].up = PutUp(tconn, Frame("ClientFinished", finished))]
      BY <1>10, <2>2 DEF TestHandshake
    <3> DEFINE finished == [ct_eph |-> ct,
                            client_mac |-> IF t_case = "forged-ClientFinished"
                                           THEN Flipped(mac) ELSE mac]
               f == Frame("ClientFinished", finished)
    <3>2. /\ tpc = "await" /\ tpc' = "records" /\ link[tconn].down # <<>>
          /\ UNCHANGED <<t_sent, t_verdict>>
      BY <1>10, <2>2 DEF TestHandshake
    <3>3. ~Unwelcome /\ t_sent = 0
      BY <1>0, <3>2 DEF CaseSide
    <3>4. link'[tconn].up = PutUp(tconn, f) /\ link'[tconn].srv = link[tconn].srv
      BY <1>0, <3>1, LinkFacts
    <3>5. FramesWritten = 1 /\ FramesWritten' = 2
      BY <3>2, <3>3 DEF FramesWritten
    <3>6. f.type = "ClientFinished"
          /\ (t_case = "forged-ClientFinished" => f.body.client_mac.f = "flipped")
      BY DEF Frame, Flipped
    <3>7. \A g : g = f => FrameOfCase(2, g)'
      BY <1>2, <3>6 DEF FrameOfCase
    <3> HIDE DEF f, finished
    <3>8. CaseStream'
      BY <1>0, <1>7, <3>2, <3>3, <3>4, <3>5, <3>7
    <3>9. CaseSide'
      BY <1>0, <1>8, <3>2, <3>3, <3>4 DEF CaseSide
    <3> QED
      BY <1>4, <1>10, <3>8, <3>9 DEF Goal
  <2> QED
    BY <2>1, <2>2
<1>11. CASE TestRecord
  <2> DEFINE seq == Writes[t_sent + 1]
             box == Seal(t_keys.c2s, seq, <<t_keys.session_id, seq>>, seq)
             wire == IF t_case = "tampered-ciphertext"
                     THEN [box EXCEPT !.key = Flipped(@)] ELSE box
             f == Frame("Data", [seq |-> seq, box |-> wire])
  <2>1. /\ tpc = "records" /\ tpc' = "records" /\ t_sent' = t_sent + 1 /\ UNCHANGED t_verdict
        /\ link' = [link EXCEPT ![tconn].up = PutUp(tconn, f)]
    BY <1>11 DEF TestRecord
  <2>2. /\ f.type = "Data" /\ f.body.seq = seq /\ f.body.box.plain = seq
        /\ t_case = "tampered-ciphertext" => f.body.box.key.f = "flipped"
    BY DEF Frame, Seal, Flipped
  <2>3. FramesWritten = 2 + t_sent /\ FramesWritten' = 3 + t_sent
    BY <1>0, <2>1 DEF FramesWritten
  <2>4. Writes' = Writes
    BY <1>2 DEF Writes
  <2> HIDE DEF f, wire, box
  <2>5. ASSUME NEW g, g = f, NEW m, m = 3 + t_sent
        PROVE  FrameOfCase(m, g)'
    <3>1. m # 1 /\ m # 2 /\ m <= 2 + t_sent' /\ m - 2 = t_sent + 1
      BY <1>0, <2>1, <2>5
    <3> HIDE DEF seq
    <3>2. g.body.seq = Writes'[m - 2] /\ g.body.box.plain = Writes'[m - 2]
      BY <2>2, <2>4, <2>5, <3>1 DEF seq
    <3>3. t_case' = "tampered-ciphertext" => g.body.box.key.f = "flipped"
      BY <1>2, <2>2, <2>5
    <3> QED
      BY <3>1, <3>2, <3>3 DEF FrameOfCase
  <2>6. /\ link'[tconn].up = PutUp(tconn, f)
        /\ link'[tconn].down = link[tconn].down /\ link'[tconn].srv = link[tconn].srv
    BY <1>0, <2>1, WrittenUp
  <2>7. CaseStream'
    <3>1. 3 + t_sent \in Nat /\ 3 + t_sent = FramesWritten + 1 /\ t_sent' \in Nat
          /\ t_sent' >= t_sent
      BY <1>0, <2>1, <2>3
    <3>2. tpc # "over" /\ tpc' # "over" /\ FramesWritten' = FramesWritten + 1
      BY <1>0, <2>1, <2>3
    <3>3. FramesWritten' + (IF tpc' = "over" THEN 1 ELSE 0) >= FramesWritten + 1
      BY <1>0, <2>3, <3>2
    <3> SUFFICES ASSUME NEW g, g = f, NEW m, m = 3 + t_sent
                 PROVE  CaseStream'
      OBVIOUS
    <3>4. FrameOfCase(m, g)'
      BY <2>5
    <3>5. m \in Nat /\ m = FramesWritten + 1
      BY <3>1
    <3> QED
      BY <1>7, <2>6, <3>1, <3>2, <3>3, <3>4, <3>5
  <2>8. CaseSide'
    BY <1>0, <1>8, <2>1, <2>6 DEF CaseSide
  <2> QED
    BY <1>4, <1>11, <2>7, <2>8 DEF Goal
<1>12. CASE TestReturns
  <2>0. tpc = "records" /\ t_sent = Len(Writes) /\ UNCHANGED t_sent
    BY <1>12 DEF TestReturns
  <2>1. CASE t_case = "happy-path"
    <3> DEFINE f == Frame("Close", NoTerm)
    <3>1. /\ t_verdict' = "passed" /\ tpc' = "over"
          /\ link' = [link EXCEPT ![tconn].up = PutUp(tconn, f),
                                  ![tconn].cli = "closed", ![tconn].down = <<>>]
      BY <1>12, <2>1 DEF TestReturns
    <3>2. link'[tconn].up = PutUp(tconn, f) /\ link'[tconn].srv = link[tconn].srv
      BY <1>0, <3>1, LinkFacts
    <3>3. FramesWritten = 2 + t_sent /\ FramesWritten' = 2 + t_sent
      BY <1>0, <2>0, <3>1 DEF FramesWritten
    <3>4. f.type = "Close"
      BY DEF Frame
    <3>5. ASSUME NEW g, g = f, NEW m, m = 3 + t_sent
          PROVE  FrameOfCase(m, g)'
      <4>1. m # 1 /\ m # 2
        BY <1>0, <3>5
      <4> QED
        BY <3>4, <3>5, <4>1 DEF FrameOfCase
    <3>6. ~Unwelcome
      BY <2>1 DEF Unwelcome
    <3> HIDE DEF f
    <3>7. CaseStream'
      <4>1. FramesWritten' + (IF tpc' = "over" THEN 1 ELSE 0) >= FramesWritten + 1
        BY <1>0, <3>1, <3>3
      <4>2. t_sent' \in Nat /\ t_sent' >= t_sent
        BY <1>0, <2>0
      <4> SUFFICES ASSUME NEW g, g = f, NEW m, m = 3 + t_sent
                   PROVE  CaseStream'
        OBVIOUS
      <4>3. FrameOfCase(m, g)'
        BY <3>5
      <4>4. m \in Nat /\ m = FramesWritten + 1
        BY <1>0, <3>3
      <4> QED
        BY <1>7, <2>0, <3>1, <3>2, <4>1, <4>2, <4>3, <4>4
    <3>8. CaseSide'
      BY <1>8, <3>1, <3>2, <3>6
    <3> QED
      BY <1>4, <1>12, <3>7, <3>8 DEF Goal
  <2>2. CASE t_case # "happy-path" /\ Writes = <<>>
    <3>1. Unwelcome
      BY <1>0, <2>2 DEF Unwelcome, Writes, Case, Negative
    <3> QED
      BY <1>0, <2>0, <3>1 DEF CaseSide
  <2>3. CASE t_case # "happy-path" /\ Raises
    BY <1>4, <1>6, <1>12, <2>0, <2>3
  <2> QED
    BY <1>12, <2>1, <2>2, <2>3 DEF TestReturns
<1>13. CASE TestFails
  BY <1>4, <1>6, <1>13 DEF TestFails
<1> QED
  BY <1>0, <1>3, <1>9, <1>10, <1>11, <1>12, <1>13 DEF TestStep, Goal

LEMMA TesterInvInit == Init => TesterInv
<1> SUFFICES ASSUME Init, lab = "client" PROVE CaseSide /\ CaseStream /\ Given
  BY DEF TesterInv
<1>1. /\ link[tconn] = [up |-> <<>>, down |-> <<>>, cli |-> "none", srv |-> "none"]
      /\ cut = {} /\ table = InitTable /\ conn = NoConn
      /\ delivered[tconn] = <<>> /\ accepted[tconn] = NotAccepted
      /\ t_sent = 0 /\ tpc = "start" /\ t_verdict = "none" /\ t_case \in Case
  BY TesterIsConn DEF Init, NetInit, ServerInit, TestInit
<1>2. CaseSide
  BY <1>1 DEF CaseSide
<1>3. CaseStream
  BY <1>1 DEF CaseStream
<1>4. Len(delivered[tconn]) = 0 /\ 1 .. 0 = {} /\ 0 <= MostDelivered
  BY <1>1, EmptySeq DEF MostDelivered
<1>5. Given
  BY <1>1, <1>4, TesterIsConn DEF Given
<1> QED
  BY <1>2, <1>3, <1>5

LEMMA TesterInvNext == RejTyped /\ EndsInv /\ TesterInv /\ [Next]_vars => TesterInv'
<1> SUFFICES ASSUME RejTyped, EndsInv, TesterInv, [Next]_vars, lab = "client"
             PROVE  TesterInv'
  BY DEF TesterInv, Next, vars, ScriptStep, BoardStep, RogueServes, TesterStep, GatewayStep,
         GatewayEnds
<1>1. CASE UNCHANGED vars
  <2>1. UNCHANGED <<link, cut, srvVars, testVars, lab>>
    BY <1>1 DEF vars, netVars
  <2>2. /\ FramesTaken' = FramesTaken /\ FramesWritten' = FramesWritten /\ Writes' = Writes
        /\ UNCHANGED <<t_case, t_sent, tpc, t_verdict, table>>
    BY <2>1 DEF FramesTaken, FramesWritten, Writes, srvVars, serverHistory, testVars
  <2>3. \A m, f : FrameOfCase(m, f)' <=> FrameOfCase(m, f)
    BY <2>2 DEF FrameOfCase, HelloOfCase
  <2>4. CaseStream <=> CaseStream'
    BY <2>1, <2>2, <2>3 DEF CaseStream
  <2>5. CaseSide <=> CaseSide'
    BY <2>1, <2>2 DEF CaseSide, Unwelcome
  <2>6. Given => Given'
    BY <2>1, <2>2, GivenStays
  <2> QED
    BY <2>1, <2>4, <2>5, <2>6 DEF TesterInv
<1>2. CASE TesterStep
  BY <1>2, CaseTested
<1>3. CASE GatewayStep
  BY <1>3, CaseHandled, CaseServed DEF GatewayStep
<1>4. CASE GatewayEnds
  BY <1>4, CaseServed DEF GatewayEnds, UncaughtException
<1> QED
  BY <1>1, <1>2, <1>3, <1>4 DEF Next, ScriptStep, BoardStep, RogueServes

-----------------------------------------------------------------------------
\* In a drill nobody runs the test client.
NoCase == lab = "drill" => /\ t_case = "happy-path" /\ t_verdict = "none"
                           /\ delivered[tconn] = <<>>

LEMMA NoCaseNext == RejTyped /\ EndsInv /\ NoCase /\ [Next]_vars => NoCase'
<1> SUFFICES ASSUME RejTyped, EndsInv, NoCase, [Next]_vars, lab = "drill"
             PROVE  NoCase'
  BY DEF NoCase, Next, vars, ScriptStep, BoardStep, RogueServes, TesterStep, GatewayStep,
         GatewayEnds
<1>1. UNCHANGED <<t_case, t_verdict>>
  BY DEF Next, vars, testVars, TesterStep, GatewayStep, GatewayEnds
<1> SUFFICES delivered'[tconn] = delivered[tconn]
  BY <1>1 DEF NoCase
<1>2. CASE UNCHANGED srvVars
  BY <1>2 DEF srvVars, serverHistory
<1>3. CASE ScriptStep
  <2>1. UNCHANGED delivered
    BY <1>3 DEF ScriptStep, Drill, ClearStore, stop_servers, start_rogue, ResetBoard, Capture,
                evaluate, start_real, Ssh, ProcessEnds, serverIdle, srvVars, serverHistory
  <2> QED
    BY <2>1
<1>4. CASE Accept
  BY <1>4 DEF Accept, serverHistory
<1>5. CASE HandleStep
  <2>1. /\ TypeInv /\ conn \in Conn /\ conn # NoConn
    BY <1>5, HandleForms, ConnIsNotNone DEF RejTyped
  <2>2. link[conn].srv = "open"
    BY <2>1 DEF EndsInv, Held
  <2>3. conn[1] = Board
    BY <2>1, <2>2 DEF EndsInv, Unopened, Party
  <2>4. conn # tconn
    BY <2>3, TesterIsConn DEF tconn
  <2>5. delivered \in [Conn -> Seq(Nat)]
    BY <2>1 DEF TypeInv, EndsTypeOK, ServerTypeOK
  <2>6. CASE ReadRecord
    <3>1. delivered' = delivered
            \/ \E x : delivered' = [delivered EXCEPT ![conn] = x]
      BY <2>6 DEF ReadRecord
    <3> QED
      BY <2>4, <2>5, <3>1, TesterIsConn
  <2> QED
    BY <1>5, <2>6 DEF HandleStep, ReadClientHello, ReadEnds, Authenticate, DecapsulateStatic,
                      SendServerHello, ReadClientFinished, DecapsulationFails, VerifyClientMac
<1> QED
  BY <1>2, <1>3, <1>4, <1>5 DEF Next, vars, BoardStep, RogueServes, TesterStep, GatewayStep,
                                GatewayEnds

LEMMA NumbersArePrefix ==
  ASSUME t_case \in Case, NEW s \in Seq(Nat), \A i \in 1 .. Len(s) : s[i] = i - 1,
         Len(s) <= MostDelivered
  PROVE  IsPrefix(s, MayDeliver)
<1>1. /\ Len(MayDeliver) = MostDelivered /\ MostDelivered \in 0 .. 3
      /\ \A i \in 1 .. MostDelivered : MayDeliver[i] = i - 1
      /\ MayDeliver \in Seq(Nat)
  <2>1. CASE t_case = "happy-path"
    BY <2>1 DEF MayDeliver, MostDelivered
  <2>2. CASE t_case = "replayed-data-record"
    BY <2>2 DEF MayDeliver, MostDelivered
  <2>3. CASE t_case \notin {"happy-path", "replayed-data-record"}
    BY <2>3, EmptySeq DEF MayDeliver, MostDelivered
  <2> QED
    BY <2>1, <2>2, <2>3
<1>2. \A i \in 1 .. Len(s) : s[i] = MayDeliver[i]
  <2>1. \A i \in 1 .. Len(s) : i \in 1 .. MostDelivered
    BY <1>1, LenProperties
  <2> QED
    BY <1>1, <2>1
<1>3. SubSeq(s, 1, Len(s)) = SubSeq(MayDeliver, 1, Len(s))
  BY <1>1, <1>2, SameStart
<1> QED
  BY <1>1, <1>3 DEF IsPrefix

(***************************************************************************)
(* ServerRefuses: the gateway refuses each of the six wrong clients where  *)
(* it must, in both suites and however their frames, its reads and its own *)
(* end interleave; what it delivers of a case is the good records before   *)
(* the bad one, in order and once.                                         *)
(***************************************************************************)
THEOREM TheGatewayRefuses == Spec => []ServerRefuses
<1>1. Spec => []TesterInv
  BY TesterInvInit, TesterInvNext, InvariantRejTyped, InvariantEnds, PTL DEF Spec
<1>2. Init => NoCase
  BY TesterIsConn DEF Init, ServerInit, TestInit, NoCase
<1>3. Spec => []NoCase
  BY <1>2, NoCaseNext, InvariantRejTyped, InvariantEnds, PTL DEF Spec
<1>4. RejTyped /\ TesterInv /\ NoCase => ServerRefuses
  <2> SUFFICES ASSUME RejTyped, TesterInv, NoCase PROVE ServerRefuses
    OBVIOUS
  <2> DEFINE s == delivered[tconn]
  <2>1. s \in Seq(Nat) /\ t_case \in Case
    BY TesterIsConn DEF RejTyped, TypeInv, EndsTypeOK, ServerTypeOK
  <2>2. CASE lab = "client"
    <3>1. CaseSide /\ Given
      BY <2>2 DEF TesterInv
    <3>2. IsPrefix(s, MayDeliver)
      BY <2>1, <3>1, NumbersArePrefix DEF Given
    <3> QED
      BY <2>1, <3>1, <3>2 DEF ServerRefuses, CaseSide, Given, Unwelcome, Case, Negative
  <2>3. CASE lab = "drill"
    <3>1. t_case = "happy-path" /\ t_verdict = "none" /\ s = <<>>
      BY <2>3 DEF NoCase
    <3>2. Len(s) = 0 /\ 1 .. 0 = {} /\ 0 <= MostDelivered
      BY <3>1, EmptySeq DEF MostDelivered
    <3>3. IsPrefix(s, MayDeliver)
      BY <2>1, <3>2, NumbersArePrefix
    <3> QED
      BY <3>1, <3>3 DEF ServerRefuses
  <2> QED
    BY <2>2, <2>3 DEF RejTyped
<1> QED
  BY <1>1, <1>3, <1>4, InvariantRejTyped, InvariantEnds, PTL
=============================================================================
