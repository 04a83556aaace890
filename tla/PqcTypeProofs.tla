--------------------------- MODULE PqcTypeProofs ---------------------------
(***************************************************************************)
(* Types of the two programs and the network between them, for every set   *)
(* of devices, every bound and every provisioning: what each action leaves *)
(* typed, whatever composition takes it (PqcSession and Rejections do).    *)
(* EndsTypeOK needs three facts besides itself:                            *)
(*   - what a queue holds is typed (the server appends the plaintext of a  *)
(*     record it read from one);                                           *)
(*   - a device inside a session has opened a connection;                  *)
(*   - a device opens one connection per call of pqc_session_run at most,  *)
(*     which is what keeps opened within MaxConn.                          *)
(***************************************************************************)
EXTENDS PqcClient, PqcServer, SequenceTheorems, TLAPS

\* The records a frame carries are numbers.
FrameTyped(f) ==
  f.type = "Data" => f.body.seq \in Nat /\ f.body.box.plain \in Nat

LinkShape(S) == [up : Seq(S), down : Seq(S), cli : CliEnd, srv : SrvEnd]

LinkIn(S) == /\ \A f \in S : FrameTyped(f)
             /\ link \in [Conn -> LinkShape(S)]

LinkTyped == \E S : LinkIn(S)

\* A device between connect() and the return of pqc_session_run.
Busy(d) == cpc[d] \in {"hello", "await", "verify", "finish", "data"}

\* How many runs the boots before the present ones can have had.
RunsBefore == Len(Runs) * resets

OneConnectionPerRun ==
  \A d \in Device :
    /\ Busy(d) => opened[d] >= 1
    /\ opened[d] <= RunsBefore + Len(results[d])
                      + (IF Busy(d) THEN 1 ELSE 0)

EndsTypeOK == NetTypeOK /\ ClientTypeOK /\ ServerTypeOK

TypeInv == EndsTypeOK /\ LinkTyped /\ OneConnectionPerRun

-----------------------------------------------------------------------------
(* Arithmetic of the connection bound.                                     *)

LEMMA ProductMonotone ==
  ASSUME NEW l \in Nat, NEW a \in Nat, NEW b \in Nat, a <= b
  PROVE  l * a <= l * b
  BY SMT

LEMMA SumMonotone ==
  ASSUME NEW o \in Nat, NEW p \in Nat, NEW a \in Nat, NEW b, NEW m \in Nat,
         b \in {0, 1}, o <= p + a + b, a + b <= m
  PROVE  o <= p + m
  BY SMT

LEMMA ProductSuccessor ==
  ASSUME NEW l \in Nat, NEW a \in Nat
  PROVE  l * (a + 1) = l * a + l
  BY SMT

LEMMA RunsBeforeTyped ==
  ASSUME resets \in Nat
  PROVE  RunsBefore \in Nat
  BY ClientAssumption DEF RunsBefore

LEMMA RunsBeforeKept ==
  ASSUME UNCHANGED resets
  PROVE  RunsBefore' = RunsBefore
  BY DEF RunsBefore

LEMMA OpenedIsBounded ==
  ASSUME NEW r \in 0 .. MaxResets, NEW k \in Nat, NEW m \in Nat,
         m <= Len(Runs), k <= Len(Runs) * r + m
  PROVE  k \in 0 .. MaxConn
<1> DEFINE L == Len(Runs)
<1>0. L \in Nat /\ MaxResets \in Nat /\ MaxConn \in Nat
  BY ClientAssumption, NetAssumption
<1>1. L * r + L = L * (r + 1)
  BY <1>0, ProductSuccessor
<1>2. L * (r + 1) <= L * (MaxResets + 1)
  BY <1>0, ProductMonotone
<1>3. L * r \in Nat /\ L * (r + 1) \in Nat /\ L * (MaxResets + 1) \in Nat
  BY <1>0
<1>4. k <= L * r + L
  BY <1>0, <1>3
<1>5. L * (MaxResets + 1) <= MaxConn
  BY ClientAssumption
<1> HIDE DEF L
<1> QED
  BY <1>0, <1>1, <1>2, <1>3, <1>4, <1>5

-----------------------------------------------------------------------------
(* Links.                                                                  *)

LEMMA PutUpTyped ==
  ASSUME NEW S, LinkIn(S), NEW c \in Conn, NEW f, FrameTyped(f)
  PROVE  /\ LinkIn(S \cup {f})
         /\ PutUp(c, f) \in Seq(S \cup {f})
<1> DEFINE T == S \cup {f}
<1>1. Seq(S) \subseteq Seq(T)
  BY SeqMonotonic
<1>2. LinkIn(T)
  BY <1>1 DEF LinkIn, LinkShape
<1>3. link[c].up \in Seq(T)
  BY <1>1 DEF LinkIn, LinkShape
<1>4. Append(link[c].up, f) \in Seq(T)
  BY <1>3, AppendProperties
<1> QED
  BY <1>2, <1>3, <1>4 DEF PutUp

LEMMA PutDownTyped ==
  ASSUME NEW S, LinkIn(S), NEW c \in Conn, NEW f, FrameTyped(f)
  PROVE  /\ LinkIn(S \cup {f})
         /\ PutDown(c, f) \in Seq(S \cup {f})
<1> DEFINE T == S \cup {f}
<1>1. Seq(S) \subseteq Seq(T)
  BY SeqMonotonic
<1>2. LinkIn(T)
  BY <1>1 DEF LinkIn, LinkShape
<1>3. link[c].down \in Seq(T)
  BY <1>1 DEF LinkIn, LinkShape
<1>4. Append(link[c].down, f) \in Seq(T)
  BY <1>3, AppendProperties
<1> QED
  BY <1>2, <1>3, <1>4 DEF PutDown

\* A step that replaces the state of one connection by a well-shaped one.
LEMMA LinkStep ==
  ASSUME NEW S, LinkIn(S), NEW c \in Conn, NEW r \in LinkShape(S),
         link' = [link EXCEPT ![c] = r]
  PROVE  LinkTyped'
<1>1. link' \in [Conn -> LinkShape(S)]
  BY DEF LinkIn
<1> QED
  BY <1>1 DEF LinkIn, LinkTyped, LinkShape

\* What NetTypeOK says of the other variables of PqcNet.
NetRest == /\ backlog \in Seq(Conn)
           /\ listening \in BOOLEAN
           /\ cut \subseteq Conn
           /\ disturbed \subseteq Conn

LEMMA Assemble ==
  ASSUME LinkTyped', NetRest', ClientTypeOK', ServerTypeOK',
         OneConnectionPerRun'
  PROVE  TypeInv'
<1>1. PICK S : LinkIn(S)'
  BY DEF LinkTyped
<1>2. NetTypeOK'
  BY <1>1 DEF LinkIn, LinkShape, NetTypeOK, NetRest
<1> QED
  BY <1>2 DEF TypeInv, EndsTypeOK

\* Closing the device's end empties what it had not read.
LEMMA CloseClientTyped ==
  ASSUME LinkTyped, NEW c \in Conn, NEW e \in CliEnd,
         link' = [link EXCEPT ![c].cli = e, ![c].down = <<>>]
  PROVE  LinkTyped'
<1>1. PICK S : LinkIn(S)
  BY DEF LinkTyped
<1> DEFINE r == [link[c] EXCEPT !.cli = e, !.down = <<>>]
<1>2. r \in LinkShape(S)
  BY <1>1, EmptySeq DEF LinkIn, LinkShape
<1>3. link' = [link EXCEPT ![c] = r]
  BY <1>1 DEF LinkIn
<1> QED
  BY <1>1, <1>2, <1>3, LinkStep

\* Writing a typed frame towards the server.
LEMMA WriteUpTyped ==
  ASSUME LinkTyped, NEW c \in Conn, NEW f, FrameTyped(f),
         link' = [link EXCEPT ![c].up = PutUp(c, f)]
  PROVE  LinkTyped'
<1>1. PICK S : LinkIn(S)
  BY DEF LinkTyped
<1>2. LinkIn(S \cup {f}) /\ PutUp(c, f) \in Seq(S \cup {f})
  BY <1>1, PutUpTyped
<1> DEFINE r == [link[c] EXCEPT !.up = PutUp(c, f)]
<1>3. r \in LinkShape(S \cup {f})
  BY <1>2 DEF LinkIn, LinkShape
<1> QED
  BY <1>2, <1>3, LinkStep

-----------------------------------------------------------------------------
(* Steps of a device.                                                      *)

LEMMA CurrIsConn ==
  ASSUME TypeInv, NEW d \in Device, Busy(d)
  PROVE  curr(d) \in Conn
  BY DEF TypeInv, EndsTypeOK, ClientTypeOK, OneConnectionPerRun, curr, Conn

\* A device that is not done has a run left.
LEMMA RunsRemain ==
  ASSUME TypeInv, NEW d \in Device
  PROVE  /\ Len(results[d]) \in Nat
         /\ Len(results[d]) <= Len(Runs)
         /\ cpc[d] # "done" => Len(results[d]) < Len(Runs)
         /\ opened[d] \in Nat
<1>1. Len(Runs) \in Nat
  BY ClientAssumption
<1>2. /\ results[d] \in Seq(BOOLEAN)
      /\ Len(results[d]) <= Len(Runs)
      /\ cpc[d] = "done" <=> Len(results[d]) = Len(Runs)
      /\ opened[d] \in 0 .. MaxConn
  BY DEF TypeInv, EndsTypeOK, ClientTypeOK
<1> QED
  BY <1>1, <1>2, LenProperties

\* The variables of the client, when pqc_session_run returns.
LEMMA ReturnTyped ==
  ASSUME TypeInv, NEW d \in Device, NEW ok \in BOOLEAN, cpc[d] # "done",
         Return(d, ok), UNCHANGED <<opened, resets, sent>>,
         refused' \subseteq Conn
  PROVE  ClientTypeOK' /\ OneConnectionPerRun'
<1> USE DEF TypeInv, EndsTypeOK, ClientTypeOK
<1>0. Len(Runs) \in Nat /\ RecordCount \in Nat
  BY ClientAssumption
<1>1. Len(results[d]) \in Nat /\ Len(results[d]) < Len(Runs)
  BY <1>0
<1>2. /\ results' \in [Device -> Seq(BOOLEAN)]
      /\ Len(results'[d]) = Len(results[d]) + 1
      /\ \A x \in Device \ {d} : results'[x] = results[x]
  BY AppendProperties DEF Return
<1>3. /\ cpc' \in [Device -> ClientPc]
      /\ cpc'[d] \in {"idle", "done"}
      /\ cpc'[d] = "done" <=> Len(results'[d]) = Len(Runs)
      /\ \A x \in Device \ {d} : cpc'[x] = cpc[x]
  BY <1>0, <1>1, <1>2 DEF Return, ClientPc
<1>4. ASSUME NEW x \in Device
      PROVE  /\ Len(results'[x]) <= Len(Runs)
             /\ cpc'[x] = "done" <=> Len(results'[x]) = Len(Runs)
  <2>1. CASE x = d
    BY <1>0, <1>1, <1>2, <1>3, <2>1
  <2>2. CASE x # d
    BY <1>2, <1>3, <2>2
  <2> QED
    BY <2>1, <2>2
<1>5. /\ DOMAIN session' = Device
      /\ \A x \in Device :
           /\ DOMAIN session'[x] = {"session_id", "c2s", "send_seq"}
           /\ session'[x].send_seq \in Nat
  BY DEF Return, DropLocals, NoSession
<1>6. n' \in [Device -> 0 .. RecordCount]
  BY <1>0 DEF Return, DropLocals
<1>7. OneConnectionPerRun'
  <2> SUFFICES ASSUME NEW x \in Device
               PROVE  /\ Busy(x)' => opened'[x] >= 1
                      /\ opened'[x] <= RunsBefore' + Len(results'[x])
                                         + (IF Busy(x)' THEN 1 ELSE 0)
    BY DEF OneConnectionPerRun
  <2>0. RunsBefore \in Nat /\ RunsBefore' = RunsBefore
    BY RunsBeforeTyped, RunsBeforeKept
  <2>1. CASE x = d
    BY <1>1, <1>2, <1>3, <2>0, <2>1 DEF OneConnectionPerRun, Busy
  <2>2. CASE x # d
    BY <1>2, <1>3, <2>0, <2>2 DEF OneConnectionPerRun, Busy
  <2> QED
    BY <2>1, <2>2
<1> QED
  BY <1>2, <1>3, <1>4, <1>5, <1>6, <1>7

\* The variables of the client, when it goes on to its next control point.
LEMMA AdvanceTyped ==
  ASSUME TypeInv, NEW d \in Device, NEW pc, Busy(d),
         pc \in {"await", "verify", "finish", "data"},
         cpc' = [cpc EXCEPT ![d] = pc],
         UNCHANGED <<results, opened, resets>>
  PROVE  /\ cpc' \in [Device -> ClientPc]
         /\ \A x \in Device : cpc'[x] = "done" <=> Len(results'[x]) = Len(Runs)
         /\ OneConnectionPerRun'
<1> USE DEF TypeInv, EndsTypeOK, ClientTypeOK, Busy
<1>1. cpc' \in [Device -> ClientPc]
  BY DEF ClientPc
<1>2. \A x \in Device : cpc'[x] = "done" <=> Len(results'[x]) = Len(Runs)
  OBVIOUS
<1>3. \A x \in Device : Busy(x)' <=> Busy(x)
  BY <1>1
<1>4. OneConnectionPerRun'
  BY <1>3, RunsBeforeKept DEF OneConnectionPerRun
<1> QED
  BY <1>1, <1>2, <1>4

\* Whatever fails, a failing session leaves typed state behind.
LEMMA FailTyped ==
  ASSUME TypeInv, NEW d \in Device, Busy(d), Fail(d),
         UNCHANGED <<opened, resets, sent>>, refused' \subseteq Conn
  PROVE  ClientTypeOK' /\ OneConnectionPerRun' /\ LinkTyped'
<1>1. cpc[d] # "done"
  BY DEF Busy
<1>2. curr(d) \in Conn
  BY CurrIsConn
<1>3. LinkTyped'
  BY <1>2, CloseClientTyped DEF Fail, CliEnd, TypeInv
<1> QED
  BY <1>1, <1>3, ReturnTyped DEF Fail

LEMMA ConnectTyped ==
  ASSUME TypeInv, NEW d \in Device, Connect(d)
  PROVE  ClientTypeOK' /\ OneConnectionPerRun' /\ LinkTyped' /\ NetRest'
<1> USE DEF TypeInv, EndsTypeOK, ClientTypeOK, NetTypeOK
<1> DEFINE c == <<d, opened[d] + 1>>
<1>0. Len(Runs) \in Nat /\ RunsBefore \in Nat
  BY ClientAssumption, RunsBeforeTyped
<1>1. Len(results[d]) \in Nat /\ Len(results[d]) < Len(Runs)
  BY RunsRemain DEF Connect
<1>2. ~Busy(d) /\ opened[d] \in Nat
  BY RunsRemain DEF Connect, Busy
<1>3. opened[d] + 1 <= RunsBefore + (Len(results[d]) + 1)
  BY <1>0, <1>1, <1>2 DEF OneConnectionPerRun
<1>4. opened[d] + 1 \in 0 .. MaxConn
  <2> DEFINE k == opened[d] + 1
             m == Len(results[d]) + 1
  <2>1. k \in Nat /\ m \in Nat /\ m <= Len(Runs)
    BY <1>0, <1>1, <1>2
  <2>2. k <= RunsBefore + m
    BY <1>3
  <2>3. resets \in 0 .. MaxResets
    OBVIOUS
  <2> HIDE DEF k, m
  <2>4. k \in 0 .. MaxConn
    BY <2>1, <2>2, <2>3, OpenedIsBounded DEF RunsBefore
  <2> QED
    BY <2>4 DEF k
<1>5. c \in Conn
  BY <1>2, <1>4 DEF Conn
<1>6. cpc' \in [Device -> ClientPc]
  BY DEF Connect, ClientPc
<1>7. opened' \in [Device -> 0 .. MaxConn]
  BY <1>4 DEF Connect
<1>8. OneConnectionPerRun'
  <2> SUFFICES ASSUME NEW x \in Device
               PROVE  /\ Busy(x)' => opened'[x] >= 1
                      /\ opened'[x] <= RunsBefore' + Len(results'[x])
                                         + (IF Busy(x)' THEN 1 ELSE 0)
    BY DEF OneConnectionPerRun
  <2>0. RunsBefore' = RunsBefore
    BY RunsBeforeKept DEF Connect
  <2>1. CASE x = d
    BY <1>0, <1>1, <1>2, <1>3, <2>0, <2>1 DEF Connect, Busy
  <2>2. CASE x # d
    BY <2>0, <2>2 DEF Connect, OneConnectionPerRun, Busy
  <2> QED
    BY <2>1, <2>2
<1>9. ClientTypeOK'
  BY <1>6, <1>7 DEF Connect, runLocals, statics, clientHistory
<1>10. LinkTyped'
  <2>1. PICK S : LinkIn(S)
    BY DEF LinkTyped
  <2> DEFINE r == [link[c] EXCEPT !.cli = "open", !.srv = "queued"]
  <2>2. r \in LinkShape(S)
    BY <1>5, <2>1 DEF LinkIn, LinkShape, CliEnd, SrvEnd
  <2>3. link' = [link EXCEPT ![c] = r]
    BY <2>1 DEF Connect, LinkIn
  <2> QED
    BY <1>5, <2>1, <2>2, <2>3, LinkStep
<1>11. NetRest'
  BY <1>5, AppendProperties DEF Connect, NetRest
<1> QED
  BY <1>8, <1>9, <1>10, <1>11

LEMMA ResetTyped ==
  ASSUME TypeInv, NEW d \in Device, Reset(d)
  PROVE  ClientTypeOK' /\ OneConnectionPerRun' /\ LinkTyped' /\ NetRest'
<1> USE DEF TypeInv, EndsTypeOK, ClientTypeOK, NetTypeOK
<1>0. Len(Runs) \in Nat \ {0} /\ RecordCount \in Nat /\ MaxResets \in Nat
  BY ClientAssumption, EmptySeq, LenProperties
<1>1. resets' = resets + 1 /\ resets' \in 0 .. MaxResets /\ resets \in Nat
  BY <1>0 DEF Reset
<1>2. RunsBefore' = RunsBefore + Len(Runs)
  BY <1>0, <1>1, ProductSuccessor DEF RunsBefore
<1>3. RunsBefore \in Nat
  BY <1>1, RunsBeforeTyped
<1>4. /\ results' \in [Device -> Seq(BOOLEAN)]
      /\ results'[d] = <<>>
      /\ \A x \in Device \ {d} : results'[x] = results[x]
  BY EmptySeq DEF Reset
<1>5. /\ cpc' \in [Device -> ClientPc]
      /\ cpc'[d] = "idle"
      /\ \A x \in Device \ {d} : cpc'[x] = cpc[x]
  BY DEF Reset, ClientPc
<1>6. ASSUME NEW x \in Device
      PROVE  /\ Len(results'[x]) <= Len(Runs)
             /\ cpc'[x] = "done" <=> Len(results'[x]) = Len(Runs)
             /\ Busy(x)' => opened'[x] >= 1
             /\ opened'[x] <= RunsBefore' + Len(results'[x])
                                + (IF Busy(x)' THEN 1 ELSE 0)
  <2>1. Len(results[x]) \in Nat /\ opened[x] \in Nat /\ opened'[x] = opened[x]
    BY RunsRemain DEF Reset
  <2>2. Len(results[x]) + (IF Busy(x) THEN 1 ELSE 0) <= Len(Runs)
    <3>1. CASE Busy(x)
      <4>1. cpc[x] # "done"
        BY <3>1 DEF Busy
      <4>2. Len(results[x]) < Len(Runs)
        BY <4>1, RunsRemain
      <4> QED
        BY <1>0, <2>1, <3>1, <4>2
    <3>2. CASE ~Busy(x)
      BY <1>0, <2>1, <3>2, RunsRemain
    <3> QED
      BY <3>1, <3>2
  <2>3. opened[x] <= RunsBefore'
    <3>1. opened[x] <= RunsBefore + Len(results[x])
                         + (IF Busy(x) THEN 1 ELSE 0)
      BY DEF OneConnectionPerRun
    <3>2. opened[x] <= RunsBefore + Len(Runs)
      BY ONLY <1>0, <1>3, <2>1, <2>2, <3>1, SumMonotone
    <3> QED
      BY ONLY <1>2, <3>2
  <2>4. CASE x = d
    BY <1>0, <1>1, <1>2, <1>3, <1>4, <1>5, <2>1, <2>3, <2>4, EmptySeq DEF Busy
  <2>5. CASE x # d
    BY <1>0, <1>1, <1>2, <1>3, <1>4, <1>5, <2>1, <2>3, <2>5
       DEF Busy, OneConnectionPerRun
  <2> QED
    BY <2>4, <2>5
<1>7. /\ DOMAIN session' = Device
      /\ \A x \in Device :
           /\ DOMAIN session'[x] = {"session_id", "c2s", "send_seq"}
           /\ session'[x].send_seq \in Nat
      /\ n' \in [Device -> 0 .. RecordCount]
  BY <1>0 DEF Reset, DropLocals, NoSession
<1>8. ClientTypeOK'
  BY <1>1, <1>4, <1>5, <1>6, <1>7 DEF Reset, clientHistory
<1>9. OneConnectionPerRun'
  BY <1>6 DEF OneConnectionPerRun
<1>10. LinkTyped' /\ disturbed' \subseteq Conn
  <2>1. CASE opened[d] > 0 /\ link[curr(d)].cli = "open"
    <3>1. curr(d) \in Conn
      BY <2>1 DEF curr, Conn
    <3> QED
      BY <2>1, <3>1, CloseClientTyped DEF Reset, CliEnd
  <2>2. CASE ~(opened[d] > 0 /\ link[curr(d)].cli = "open")
    BY <2>2 DEF Reset, LinkTyped, LinkIn
  <2> QED
    BY <2>1, <2>2
<1>11. NetRest'
  BY <1>10 DEF Reset, NetRest
<1> QED
  BY <1>8, <1>9, <1>10, <1>11

\* Reading: the head of a queue is taken off it.
LEMMA ReadDownTyped ==
  ASSUME LinkTyped, NEW c \in Conn, link[c].down # <<>>,
         link' = [link EXCEPT ![c].down = Tail(@)]
  PROVE  LinkTyped'
<1>1. PICK S : LinkIn(S)
  BY DEF LinkTyped
<1> DEFINE r == [link[c] EXCEPT !.down = Tail(@)]
<1>2. r \in LinkShape(S)
  BY <1>1, HeadTailProperties DEF LinkIn, LinkShape
<1>3. link' = [link EXCEPT ![c] = r]
  BY <1>1 DEF LinkIn
<1> QED
  BY <1>1, <1>2, <1>3, LinkStep

LEMMA ReadUpTyped ==
  ASSUME LinkTyped, NEW c \in Conn, link[c].up # <<>>
  PROVE  /\ FrameTyped(Head(link[c].up))
         /\ link' = [link EXCEPT ![c].up = Tail(@)] => LinkTyped'
<1>1. PICK S : LinkIn(S)
  BY DEF LinkTyped
<1>2. link[c].up \in Seq(S)
  BY <1>1 DEF LinkIn, LinkShape
<1>3. Head(link[c].up) \in S /\ Tail(link[c].up) \in Seq(S)
  BY <1>2, HeadTailProperties
<1> DEFINE r == [link[c] EXCEPT !.up = Tail(@)]
<1>4. r \in LinkShape(S)
  BY <1>1, <1>3 DEF LinkIn, LinkShape
<1>5. link' = [link EXCEPT ![c].up = Tail(@)] => link' = [link EXCEPT ![c] = r]
  BY <1>1 DEF LinkIn
<1> QED
  BY <1>1, <1>3, <1>4, <1>5, LinkStep DEF LinkIn

\* A step of a device that stays in its session and leaves the history alone.
LEMMA HandshakeTyped ==
  ASSUME TypeInv, NEW d \in Device, Busy(d), NEW pc,
         pc \in {"await", "verify", "finish"},
         cpc' = [cpc EXCEPT ![d] = pc],
         UNCHANGED <<results, opened, resets, session, n, sent, refused>>
  PROVE  ClientTypeOK' /\ OneConnectionPerRun'
<1>1. /\ cpc' \in [Device -> ClientPc]
      /\ \A x \in Device : cpc'[x] = "done" <=> Len(results'[x]) = Len(Runs)
      /\ OneConnectionPerRun'
  BY AdvanceTyped
<1> QED
  BY <1>1 DEF TypeInv, EndsTypeOK, ClientTypeOK

LEMMA ConnectFailsTyped ==
  ASSUME TypeInv, NEW d \in Device, ConnectFails(d)
  PROVE  ClientTypeOK' /\ OneConnectionPerRun' /\ LinkTyped' /\ NetRest'
<1>1. cpc[d] # "done" /\ refused' \subseteq Conn
  BY DEF ConnectFails, clientHistory, TypeInv, EndsTypeOK, ClientTypeOK
<1>2. ClientTypeOK' /\ OneConnectionPerRun'
  BY <1>1, ReturnTyped DEF ConnectFails, clientHistory
<1>3. LinkTyped' /\ NetRest'
  BY DEF ConnectFails, netVars, LinkTyped, LinkIn, TypeInv, EndsTypeOK, NetTypeOK,
         NetRest
<1> QED
  BY <1>2, <1>3

LEMMA SendClientHelloTyped ==
  ASSUME TypeInv, NEW d \in Device, SendClientHello(d)
  PROVE  ClientTypeOK' /\ OneConnectionPerRun' /\ LinkTyped' /\ NetRest'
<1>1. Busy(d)
  BY DEF SendClientHello, Busy
<1>2. curr(d) \in Conn
  BY <1>1, CurrIsConn
<1>3. ClientTypeOK' /\ OneConnectionPerRun'
  BY <1>1, HandshakeTyped DEF SendClientHello, clientHistory
<1>4. PICK h : link' = [link EXCEPT ![curr(d)].up =
                          PutUp(curr(d), Frame("ClientHello", h))]
  BY DEF SendClientHello
<1>5. FrameTyped(Frame("ClientHello", h))
  BY DEF FrameTyped, Frame
<1>6. LinkTyped'
  BY <1>2, <1>4, <1>5, WriteUpTyped DEF TypeInv
<1>7. NetRest'
  BY DEF SendClientHello, NetRest, TypeInv, EndsTypeOK, NetTypeOK
<1> QED
  BY <1>3, <1>6, <1>7

LEMMA ReadServerHelloTyped ==
  ASSUME TypeInv, NEW d \in Device, ReadServerHello(d)
  PROVE  ClientTypeOK' /\ OneConnectionPerRun' /\ LinkTyped' /\ NetRest'
<1>1. Busy(d)
  BY DEF ReadServerHello, Busy
<1>2. curr(d) \in Conn
  BY <1>1, CurrIsConn
<1>3. NetRest'
  BY DEF ReadServerHello, NetRest, TypeInv, EndsTypeOK, NetTypeOK
<1>4. UNCHANGED <<opened, resets, sent, refused>> /\ refused' \subseteq Conn
  BY DEF ReadServerHello, clientHistory, TypeInv, EndsTypeOK, ClientTypeOK
<1>5. CASE RightServerHello(d, Head(link[curr(d)].down))
  <2>1. UNCHANGED <<results, session, n>> /\ cpc' = [cpc EXCEPT ![d] = "verify"]
    BY <1>5 DEF ReadServerHello, runLocals
  <2>2. ClientTypeOK' /\ OneConnectionPerRun'
    BY <1>1, <1>4, <2>1, HandshakeTyped
  <2>3. LinkTyped'
    BY <1>2, <1>5, ReadDownTyped DEF ReadServerHello, TypeInv
  <2> QED
    BY <1>3, <2>2, <2>3
<1>6. CASE Fail(d)
  BY <1>1, <1>3, <1>4, <1>6, FailTyped
<1> QED
  BY <1>5, <1>6 DEF ReadServerHello

LEMMA ReadFailsTyped ==
  ASSUME TypeInv, NEW d \in Device, ReadFails(d)
  PROVE  ClientTypeOK' /\ OneConnectionPerRun' /\ LinkTyped' /\ NetRest'
<1>1. Busy(d)
  BY DEF ReadFails, Busy
<1>2. curr(d) \in Conn
  BY <1>1, CurrIsConn
<1>3. ClientTypeOK' /\ OneConnectionPerRun' /\ LinkTyped'
  BY <1>1, FailTyped DEF ReadFails, clientHistory, TypeInv, EndsTypeOK, ClientTypeOK
<1>4. NetRest'
  BY <1>2 DEF ReadFails, NetRest, TypeInv, EndsTypeOK, NetTypeOK
<1> QED
  BY <1>3, <1>4

LEMMA VerifyServerMacTyped ==
  ASSUME TypeInv, NEW d \in Device, VerifyServerMac(d)
  PROVE  ClientTypeOK' /\ OneConnectionPerRun' /\ LinkTyped' /\ NetRest'
<1>1. Busy(d)
  BY DEF VerifyServerMac, Busy
<1>2. curr(d) \in Conn
  BY <1>1, CurrIsConn
<1>3. NetRest'
  BY DEF VerifyServerMac, NetRest, TypeInv, EndsTypeOK, NetTypeOK
<1>4. UNCHANGED <<opened, resets, sent>> /\ refused' \subseteq Conn
  BY <1>2 DEF VerifyServerMac, TypeInv, EndsTypeOK, ClientTypeOK
<1>5. CASE Fail(d)
  BY <1>1, <1>3, <1>4, <1>5, FailTyped
<1>6. CASE /\ cpc' = [cpc EXCEPT ![d] = "finish"]
           /\ UNCHANGED <<results, link, runLocals, refused>>
  <2>1. ClientTypeOK' /\ OneConnectionPerRun'
    BY <1>1, <1>4, <1>6, HandshakeTyped DEF runLocals
  <2>2. LinkTyped'
    BY <1>6 DEF TypeInv, LinkTyped, LinkIn
  <2> QED
    BY <1>3, <2>1, <2>2
<1> QED
  BY <1>5, <1>6 DEF VerifyServerMac

LEMMA SendClientFinishedTyped ==
  ASSUME TypeInv, NEW d \in Device, SendClientFinished(d)
  PROVE  ClientTypeOK' /\ OneConnectionPerRun' /\ LinkTyped' /\ NetRest'
<1>1. Busy(d)
  BY DEF SendClientFinished, Busy
<1>2. curr(d) \in Conn
  BY <1>1, CurrIsConn
<1>3. NetRest'
  BY DEF SendClientFinished, NetRest, TypeInv, EndsTypeOK, NetTypeOK
<1>4. /\ cpc' \in [Device -> ClientPc]
      /\ \A x \in Device : cpc'[x] = "done" <=> Len(results'[x]) = Len(Runs)
      /\ OneConnectionPerRun'
  BY <1>1, AdvanceTyped DEF SendClientFinished
<1>5. PICK sid, key :
        session' = [session EXCEPT ![d] = [session_id |-> sid, c2s |-> key,
                                           send_seq |-> 0]]
  BY DEF SendClientFinished
<1>6. n' \in [Device -> 0 .. RecordCount]
  <2>1. 0 \in 0 .. RecordCount
    BY ClientAssumption
  <2>2. n' = [n EXCEPT ![d] = 0]
    BY DEF SendClientFinished
  <2> QED
    BY <2>1, <2>2 DEF TypeInv, EndsTypeOK, ClientTypeOK
<1>7. UNCHANGED <<results, opened, resets, sent, refused>>
  BY DEF SendClientFinished
<1>8. ClientTypeOK'
  BY <1>4, <1>5, <1>6, <1>7 DEF TypeInv, EndsTypeOK, ClientTypeOK
<1>9. PICK b : link' = [link EXCEPT ![curr(d)].up =
                          PutUp(curr(d), Frame("ClientFinished", b))]
  BY DEF SendClientFinished
<1>10. FrameTyped(Frame("ClientFinished", b))
  BY DEF FrameTyped, Frame
<1>11. LinkTyped'
  BY <1>2, <1>9, <1>10, WriteUpTyped DEF TypeInv
<1> QED
  BY <1>3, <1>4, <1>8, <1>11

LEMMA SendRecordTyped ==
  ASSUME TypeInv, NEW d \in Device, SendRecord(d)
  PROVE  ClientTypeOK' /\ OneConnectionPerRun' /\ LinkTyped' /\ NetRest'
<1> USE DEF TypeInv, EndsTypeOK, ClientTypeOK
<1>1. Busy(d) /\ curr(d) \in Conn
  BY CurrIsConn DEF SendRecord, Busy
<1>2. NetRest'
  BY DEF SendRecord, NetRest, NetTypeOK
<1>3. n[d] \in Nat /\ n[d] < RecordCount /\ session[d].send_seq \in Nat
  BY ClientAssumption DEF SendRecord
<1>4. /\ n' = [n EXCEPT ![d] = @ + 1]
      /\ session' = [session EXCEPT ![d].send_seq = @ + 1]
      /\ sent' = [sent EXCEPT ![curr(d)] = Append(@, n[d])]
      /\ UNCHANGED <<runVars, opened, resets, refused>>
  BY DEF SendRecord
<1>5. n' \in [Device -> 0 .. RecordCount]
  <2>1. n[d] + 1 \in 0 .. RecordCount
    BY <1>3, ClientAssumption
  <2> QED
    BY <1>4, <2>1
<1>6. /\ DOMAIN session' = Device
      /\ \A x \in Device :
           /\ DOMAIN session'[x] = {"session_id", "c2s", "send_seq"}
           /\ session'[x].send_seq \in Nat
  BY <1>3, <1>4
<1>7. sent' \in [Conn -> Seq(Nat)]
  <2>1. Append(sent[curr(d)], n[d]) \in Seq(Nat)
    BY <1>1, <1>3, AppendProperties
  <2> QED
    BY <1>4, <2>1
<1>8. ClientTypeOK' /\ OneConnectionPerRun'
  BY <1>4, <1>5, <1>6, <1>7 DEF runVars, OneConnectionPerRun, RunsBefore, Busy
<1>9. LinkTyped'
  <2> DEFINE f == Frame("Data", [seq |-> session[d].send_seq,
                                 box |-> SealNext(d)])
  <2>1. FrameTyped(f)
    BY <1>3 DEF FrameTyped, Frame, SealNext, Seal
  <2>2. link' = [link EXCEPT ![curr(d)].up = PutUp(curr(d), f)]
    BY DEF SendRecord
  <2> HIDE DEF f
  <2> QED
    BY <1>1, <2>1, <2>2, WriteUpTyped
<1> QED
  BY <1>2, <1>8, <1>9

LEMMA SendCloseTyped ==
  ASSUME TypeInv, NEW d \in Device, SendClose(d)
  PROVE  ClientTypeOK' /\ OneConnectionPerRun' /\ LinkTyped' /\ NetRest'
<1> DEFINE c == curr(d)
           f == Frame("Close", NoTerm)
<1>1. cpc[d] # "done" /\ c \in Conn
  BY CurrIsConn DEF SendClose, Busy
<1>2. NetRest'
  BY DEF SendClose, NetRest, TypeInv, EndsTypeOK, NetTypeOK
<1>3. ClientTypeOK' /\ OneConnectionPerRun'
  BY <1>1, ReturnTyped
     DEF SendClose, clientHistory, TypeInv, EndsTypeOK, ClientTypeOK
<1>4. PICK S : LinkIn(S)
  BY DEF TypeInv, LinkTyped
<1>5. FrameTyped(f)
  BY DEF FrameTyped, Frame
<1>6. LinkIn(S \cup {f}) /\ PutUp(c, f) \in Seq(S \cup {f})
  BY <1>1, <1>4, <1>5, PutUpTyped
<1> DEFINE r == [link[c] EXCEPT !.up = PutUp(c, f), !.cli = "closed",
                                !.down = <<>>]
<1>7. r \in LinkShape(S \cup {f})
  BY <1>1, <1>6, EmptySeq DEF LinkIn, LinkShape, CliEnd
<1>8. link' = [link EXCEPT ![c] = r]
  BY <1>1, <1>6 DEF SendClose, LinkIn, LinkShape
<1>9. LinkTyped'
  BY <1>1, <1>6, <1>7, <1>8, LinkStep
<1> QED
  BY <1>2, <1>3, <1>9

LEMMA StepFailsTyped ==
  ASSUME TypeInv, NEW d \in Device, StepFails(d)
  PROVE  ClientTypeOK' /\ OneConnectionPerRun' /\ LinkTyped' /\ NetRest'
<1>1. Busy(d)
  BY DEF StepFails, Busy
<1>2. curr(d) \in Conn
  BY <1>1, CurrIsConn
<1>3. Fail(d) /\ UNCHANGED <<opened, resets, sent, refused>>
  BY DEF StepFails
<1>4. ClientTypeOK' /\ OneConnectionPerRun' /\ LinkTyped'
  BY <1>1, <1>3, FailTyped DEF TypeInv, EndsTypeOK, ClientTypeOK
<1>5. NetRest'
  BY <1>2 DEF StepFails, NetRest, TypeInv, EndsTypeOK, NetTypeOK
<1> QED
  BY <1>4, <1>5

LEMMA DeviceStepTyped ==
  ASSUME TypeInv, NEW d \in Device, ClientStep(d), UNCHANGED srvVars
  PROVE  TypeInv'
<1>1. ClientTypeOK' /\ OneConnectionPerRun' /\ LinkTyped' /\ NetRest'
  BY ConnectTyped, ConnectFailsTyped, SendClientHelloTyped,
     ReadServerHelloTyped, ReadFailsTyped, VerifyServerMacTyped,
     SendClientFinishedTyped, SendRecordTyped, SendCloseTyped, StepFailsTyped
     DEF ClientStep
<1>2. ServerTypeOK'
  BY DEF srvVars, locals, serverHistory, TypeInv, EndsTypeOK,
         ServerTypeOK
<1> QED
  BY <1>1, <1>2, Assemble

-----------------------------------------------------------------------------
(* Steps of the gateway.                                                   *)

\* A step of the gateway leaves the client's variables alone.
LEMMA ClientUntouched ==
  ASSUME TypeInv, UNCHANGED cliVars
  PROVE  ClientTypeOK' /\ OneConnectionPerRun'
<1> USE DEF cliVars, runVars, runLocals, statics, clientHistory
<1>1. ClientTypeOK'
  BY DEF TypeInv, EndsTypeOK, ClientTypeOK
<1>2. OneConnectionPerRun'
  BY RunsBeforeKept DEF TypeInv, OneConnectionPerRun, Busy
<1> QED
  BY <1>1, <1>2

\* The connection being handled, wherever handle_connection is.
LEMMA HandledIsConn ==
  ASSUME TypeInv, spc \notin {"down", "accept"}
  PROVE  conn \in Conn
  BY DEF TypeInv, EndsTypeOK, ServerTypeOK

LEMMA LeaveTyped ==
  ASSUME TypeInv, spc \notin {"down", "accept"}, NEW v \in Verdict, Leave(v),
         UNCHANGED <<exits, kills, delivered>>, decapsulated' \subseteq Conn
  PROVE  ServerTypeOK' /\ LinkTyped'
<1>0. conn \in Conn
  BY HandledIsConn
<1>1. ServerTypeOK'
  BY <1>0 DEF TypeInv, EndsTypeOK, ServerTypeOK, Leave, DropHandlerLocals, ServerPc,
         NoStream
<1>2. PICK S : LinkIn(S)
  BY DEF TypeInv, LinkTyped
<1> DEFINE r == [link[conn] EXCEPT !.srv = "closed", !.up = <<>>]
<1>3. r \in LinkShape(S)
  BY <1>0, <1>2, EmptySeq DEF LinkIn, LinkShape, SrvEnd
<1>4. link' = [link EXCEPT ![conn] = r]
  BY <1>2 DEF LinkIn, Leave
<1>5. LinkTyped'
  BY <1>0, <1>2, <1>3, <1>4, LinkStep
<1> QED
  BY <1>1, <1>5

LEMMA ContinueTyped ==
  ASSUME TypeInv, spc \notin {"down", "accept"}, NEW pc, Continue(pc),
         pc \in ServerPc \ {"down", "accept"},
         UNCHANGED <<exits, kills>>, decapsulated' \subseteq Conn,
         ephFiles' \subseteq Conn, delivered' \in [Conn -> Seq(Nat)],
         DOMAIN inbound' = {"key", "session_id", "last"},
         inbound'.last \in Nat \cup {0 - 1}
  PROVE  ServerTypeOK'
  BY DEF TypeInv, EndsTypeOK, ServerTypeOK, Continue

LEMMA AcceptTyped ==
  ASSUME TypeInv, Accept
  PROVE  ServerTypeOK' /\ LinkTyped' /\ NetRest'
<1>1. backlog \in Seq(Conn) /\ backlog # <<>>
  BY DEF Accept, TypeInv, EndsTypeOK, NetTypeOK
<1>2. Head(backlog) \in Conn /\ Tail(backlog) \in Seq(Conn)
  BY <1>1, HeadTailProperties
<1>3. NoConn \notin Conn
  BY DEF NoConn, Conn
<1>4. ServerTypeOK'
  BY <1>2, <1>3 DEF Accept, locals, serverHistory, TypeInv, EndsTypeOK,
                    ServerTypeOK, ServerPc
<1>5. NetRest'
  BY <1>2 DEF Accept, NetRest, TypeInv, EndsTypeOK, NetTypeOK
<1>6. PICK S : LinkIn(S)
  BY DEF TypeInv, LinkTyped
<1> DEFINE c == Head(backlog)
           r == [link[c] EXCEPT !.srv = "open"]
<1>7. r \in LinkShape(S)
  BY <1>2, <1>6 DEF LinkIn, LinkShape, SrvEnd
<1>8. link' = [link EXCEPT ![c] = r]
  BY <1>2, <1>6 DEF Accept, LinkIn
<1>9. LinkTyped'
  BY <1>2, <1>6, <1>7, <1>8, LinkStep
<1> QED
  BY <1>4, <1>5, <1>9

LEMMA ReadClientHelloTyped ==
  ASSUME TypeInv, ReadClientHello
  PROVE  ServerTypeOK' /\ LinkTyped' /\ NetRest'
<1> USE DEF TypeInv, EndsTypeOK, ServerTypeOK, NetTypeOK
<1>1. spc \notin {"down", "accept"} /\ conn \in Conn
  BY HandledIsConn DEF ReadClientHello
<1>2. NetRest'
  BY DEF ReadClientHello, NetRest
<1>3. CASE Leave("bad-frame")
  BY <1>1, <1>2, <1>3, LeaveTyped DEF ReadClientHello, Verdict
<1>4. CASE Parses(Head(link[conn].up))
  <2>1. ServerTypeOK'
    BY <1>1, <1>4, ContinueTyped DEF ReadClientHello, ServerPc
  <2>2. LinkTyped'
    BY <1>1, <1>4, ReadUpTyped DEF ReadClientHello, TakeFrame
  <2> QED
    BY <1>2, <2>1, <2>2
<1> QED
  BY <1>3, <1>4 DEF ReadClientHello

LEMMA ReadEndsTyped ==
  ASSUME TypeInv, ReadEnds
  PROVE  ServerTypeOK' /\ LinkTyped' /\ NetRest'
<1> USE DEF TypeInv, EndsTypeOK, ServerTypeOK, NetTypeOK
<1>1. spc \notin {"down", "accept"} /\ conn \in Conn
  BY HandledIsConn DEF ReadEnds
<1>2. NetRest'
  BY <1>1 DEF ReadEnds, NetRest
<1>3. PICK v \in {"closed", "dropped"} : Leave(v)
  BY DEF ReadEnds
<1>4. UNCHANGED <<exits, kills, delivered, decapsulated>>
  BY DEF ReadEnds
<1>5. ServerTypeOK' /\ LinkTyped'
  BY <1>1, <1>3, <1>4, LeaveTyped DEF Verdict
<1> QED
  BY <1>2, <1>5

LEMMA AuthenticateTyped ==
  ASSUME TypeInv, Authenticate
  PROVE  ServerTypeOK' /\ LinkTyped' /\ NetRest'
<1> USE DEF TypeInv, EndsTypeOK, ServerTypeOK, NetTypeOK
<1>1. spc \notin {"down", "accept"} /\ conn \in Conn
  BY HandledIsConn DEF Authenticate
<1>2. NetRest' /\ UNCHANGED <<exits, kills, delivered, decapsulated>>
  BY DEF Authenticate, NetRest
<1>3. ASSUME NEW v \in {"wrong-key", "unknown-device", "psk-mac"}, Leave(v)
      PROVE  ServerTypeOK' /\ LinkTyped'
  BY <1>1, <1>2, <1>3, LeaveTyped DEF Verdict
<1>4. CASE Continue("decaps") /\ UNCHANGED <<link, inbound, ephFiles>>
  <2>1. ServerTypeOK'
    BY <1>1, <1>2, <1>4, ContinueTyped DEF ServerPc
  <2>2. LinkTyped'
    BY <1>4 DEF LinkTyped, LinkIn
  <2> QED
    BY <1>2, <2>1, <2>2
<1> QED
  BY <1>2, <1>3, <1>4 DEF Authenticate

LEMMA DecapsulateStaticTyped ==
  ASSUME TypeInv, DecapsulateStatic
  PROVE  ServerTypeOK' /\ LinkTyped' /\ NetRest'
<1> USE DEF TypeInv, EndsTypeOK, ServerTypeOK, NetTypeOK
<1>1. spc \notin {"down", "accept"} /\ conn \in Conn
  BY HandledIsConn DEF DecapsulateStatic
<1>2. NetRest' /\ LinkTyped'
  BY DEF DecapsulateStatic, netVars, NetRest, LinkTyped, LinkIn
<1>3. ServerTypeOK'
  BY <1>1, ContinueTyped DEF DecapsulateStatic, ServerPc
<1> QED
  BY <1>2, <1>3

LEMMA SendServerHelloTyped ==
  ASSUME TypeInv, SendServerHello
  PROVE  ServerTypeOK' /\ LinkTyped' /\ NetRest'
<1> USE DEF TypeInv, EndsTypeOK, ServerTypeOK, NetTypeOK
<1>1. spc \notin {"down", "accept"} /\ conn \in Conn
  BY HandledIsConn DEF SendServerHello
<1>2. NetRest' /\ UNCHANGED <<exits, kills, delivered, decapsulated>>
  BY DEF SendServerHello, NetRest
<1>3. CASE Leave("dropped")
  BY <1>1, <1>2, <1>3, LeaveTyped DEF Verdict
<1>4. ASSUME NEW b, Continue("finished"), UNCHANGED inbound,
             link' = [link EXCEPT ![conn].down =
                        PutDown(conn, Frame("ServerHello", b))],
             ephFiles' \subseteq ephFiles \cup {conn}
      PROVE  ServerTypeOK' /\ LinkTyped'
  <2>1. ServerTypeOK'
    BY <1>1, <1>2, <1>4, ContinueTyped DEF ServerPc
  <2> DEFINE f == Frame("ServerHello", b)
  <2>2. FrameTyped(f)
    BY DEF FrameTyped, Frame
  <2>3. PICK S : LinkIn(S)
    BY DEF LinkTyped
  <2>4. LinkIn(S \cup {f}) /\ PutDown(conn, f) \in Seq(S \cup {f})
    BY <1>1, <2>2, <2>3, PutDownTyped
  <2> HIDE DEF f
  <2> DEFINE r == [link[conn] EXCEPT !.down = PutDown(conn, f)]
  <2>5. r \in LinkShape(S \cup {f})
    BY <1>1, <2>4 DEF LinkIn, LinkShape
  <2>6. link' = [link EXCEPT ![conn] = r]
    BY <1>4, <2>4 DEF LinkIn, f
  <2>7. LinkTyped'
    BY <1>1, <2>4, <2>5, <2>6, LinkStep
  <2> QED
    BY <2>1, <2>7
<1> QED
  BY <1>2, <1>3, <1>4 DEF SendServerHello

LEMMA ReadClientFinishedTyped ==
  ASSUME TypeInv, ReadClientFinished
  PROVE  ServerTypeOK' /\ LinkTyped' /\ NetRest'
<1> USE DEF TypeInv, EndsTypeOK, ServerTypeOK, NetTypeOK
<1>1. spc \notin {"down", "accept"} /\ conn \in Conn
  BY HandledIsConn DEF ReadClientFinished
<1>2. NetRest' /\ UNCHANGED <<exits, kills, delivered, decapsulated>>
  BY DEF ReadClientFinished, NetRest
<1>3. CASE Leave("bad-frame")
  BY <1>1, <1>2, <1>3, LeaveTyped DEF Verdict
<1>4. CASE /\ Continue("confirm")
           /\ TakeFrame
           /\ ephFiles' = ephFiles \ {conn}
           /\ UNCHANGED inbound
  <2>1. ServerTypeOK'
    BY <1>1, <1>2, <1>4, ContinueTyped DEF ServerPc
  <2>2. LinkTyped'
    BY <1>1, <1>4, ReadUpTyped DEF ReadClientFinished, TakeFrame
  <2> QED
    BY <1>2, <2>1, <2>2
<1> QED
  BY <1>2, <1>3, <1>4 DEF ReadClientFinished

LEMMA DecapsulationFailsTyped ==
  ASSUME TypeInv, DecapsulationFails
  PROVE  ServerTypeOK' /\ LinkTyped' /\ NetRest'
<1> USE DEF TypeInv, EndsTypeOK, ServerTypeOK, NetTypeOK
<1>1. spc \notin {"down", "accept"} /\ conn \in Conn
  BY HandledIsConn DEF DecapsulationFails
<1>2. NetRest'
  BY <1>1 DEF DecapsulationFails, NetRest
<1>3. ServerTypeOK' /\ LinkTyped'
  BY <1>1, LeaveTyped DEF DecapsulationFails, Verdict
<1> QED
  BY <1>2, <1>3

LEMMA VerifyClientMacTyped ==
  ASSUME TypeInv, VerifyClientMac
  PROVE  ServerTypeOK' /\ LinkTyped' /\ NetRest'
<1> USE DEF TypeInv, EndsTypeOK, ServerTypeOK, NetTypeOK
<1>1. spc \notin {"down", "accept"} /\ conn \in Conn
  BY HandledIsConn DEF VerifyClientMac
<1>2. NetRest' /\ UNCHANGED <<exits, kills, delivered, decapsulated>>
  BY DEF VerifyClientMac, NetRest
<1>3. CASE Leave("client-mac")
  BY <1>1, <1>2, <1>3, LeaveTyped DEF Verdict
<1>4. ASSUME NEW k, NEW sid, Continue("data"), UNCHANGED <<link, ephFiles>>,
             inbound' = [key |-> k, session_id |-> sid, last |-> 0 - 1]
      PROVE  ServerTypeOK' /\ LinkTyped'
  <2>1. ServerTypeOK'
    BY <1>1, <1>2, <1>4, ContinueTyped DEF ServerPc
  <2>2. LinkTyped'
    BY <1>4 DEF LinkTyped, LinkIn
  <2> QED
    BY <2>1, <2>2
<1> QED
  BY <1>2, <1>3, <1>4 DEF VerifyClientMac

LEMMA ReadRecordTyped ==
  ASSUME TypeInv, ReadRecord
  PROVE  ServerTypeOK' /\ LinkTyped' /\ NetRest'
<1> USE DEF TypeInv, EndsTypeOK, ServerTypeOK, NetTypeOK
<1> DEFINE f == Head(link[conn].up)
<1>1. spc \notin {"down", "accept"} /\ conn \in Conn
  BY HandledIsConn DEF ReadRecord
<1>2. NetRest' /\ UNCHANGED <<exits, kills, decapsulated>>
  BY DEF ReadRecord, NetRest
<1>3. FrameTyped(f)
  BY <1>1, ReadUpTyped DEF ReadRecord
<1>4. ASSUME NEW v \in {"bad-record", "closed", "bad-frame"}, Leave(v),
             UNCHANGED delivered
      PROVE  ServerTypeOK' /\ LinkTyped'
  BY <1>1, <1>2, <1>4, LeaveTyped DEF Verdict
<1>5. CASE /\ f.type = "Data"
           /\ delivered' = [delivered EXCEPT ![conn] =
                              Append(@, f.body.box.plain)]
           /\ inbound' = [inbound EXCEPT !.last = f.body.seq]
           /\ TakeFrame
           /\ Continue("data")
           /\ UNCHANGED ephFiles
  <2>1. f.body.box.plain \in Nat /\ f.body.seq \in Nat
    BY <1>3, <1>5 DEF FrameTyped
  <2>2. Append(delivered[conn], f.body.box.plain) \in Seq(Nat)
    BY <1>1, <2>1, AppendProperties
  <2>3. delivered' \in [Conn -> Seq(Nat)]
    BY <1>5, <2>2
  <2>4. DOMAIN inbound' = {"key", "session_id", "last"} /\ inbound'.last \in Nat
    BY <1>5, <2>1
  <2>5. ServerTypeOK'
    BY <1>1, <1>2, <1>5, <2>3, <2>4, ContinueTyped DEF ServerPc
  <2>6. LinkTyped'
    BY <1>1, <1>5, ReadUpTyped DEF ReadRecord, TakeFrame
  <2> QED
    BY <1>2, <2>5, <2>6
<1> QED
  BY <1>2, <1>4, <1>5 DEF ReadRecord

LEMMA ProcessEndsTyped ==
  ASSUME TypeInv, ProcessEnds("killed"), ephFiles' \subseteq ephFiles,
         exits' \in 0 .. MaxExits, kills' \in 0 .. MaxKills
  PROVE  ServerTypeOK' /\ LinkTyped' /\ NetRest'
<1> USE DEF TypeInv, EndsTypeOK, ServerTypeOK, NetTypeOK
<1>1. ServerTypeOK'
  <2>1. verdict' \in [Conn -> Verdict]
    BY DEF ProcessEnds, Verdict
  <2> QED
    BY <2>1 DEF ProcessEnds, DropHandlerLocals, NoStream, ServerPc
<1>2. NetRest'
  BY EmptySeq DEF ProcessEnds, NetRest
<1>3. PICK S : LinkIn(S)
  BY DEF LinkTyped
<1> DEFINE hit == {c \in Conn : link[c].srv \in {"queued", "open"}}
<1>4. ASSUME NEW c \in Conn
      PROVE  (IF c \in hit THEN [link[c] EXCEPT !.srv = "closed", !.up = <<>>]
                           ELSE link[c]) \in LinkShape(S)
  <2>1. link[c] \in LinkShape(S)
    BY <1>3 DEF LinkIn
  <2>2. [link[c] EXCEPT !.srv = "closed", !.up = <<>>] \in LinkShape(S)
    BY <2>1, EmptySeq DEF LinkShape, SrvEnd
  <2> QED
    BY <2>1, <2>2
<1>5. link' = [c \in Conn |-> IF c \in hit
                              THEN [link[c] EXCEPT !.srv = "closed", !.up = <<>>]
                              ELSE link[c]]
  BY DEF ProcessEnds
<1> HIDE DEF hit
<1>6. link' \in [Conn -> LinkShape(S)]
  BY <1>4, <1>5
<1>7. LinkTyped'
  BY <1>3, <1>6 DEF LinkIn, LinkTyped, LinkShape
<1> QED
  BY <1>1, <1>2, <1>7

LEMMA GatewayFaultTyped ==
  ASSUME TypeInv, UncaughtException \/ Kill
  PROVE  ServerTypeOK' /\ LinkTyped' /\ NetRest'
<1>1. exits \in 0 .. MaxExits /\ kills \in 0 .. MaxKills
  BY DEF TypeInv, EndsTypeOK, ServerTypeOK
<1>2. MaxExits \in Nat /\ MaxKills \in Nat
  BY ServerAssumption
<1>3. exits' \in 0 .. MaxExits /\ kills' \in 0 .. MaxKills
  BY <1>1, <1>2 DEF UncaughtException, Kill
<1> QED
  BY <1>3, ProcessEndsTyped DEF UncaughtException, Kill

LEMMA RestartTyped ==
  ASSUME TypeInv, Restart
  PROVE  ServerTypeOK' /\ LinkTyped' /\ NetRest'
  BY DEF Restart, locals, serverHistory, ServerPc, TypeInv, EndsTypeOK,
         ServerTypeOK, NetTypeOK, NetRest, LinkTyped, LinkIn

LEMMA RegisterTyped ==
  ASSUME TypeInv, NEW d, Register(d)
  PROVE  ServerTypeOK' /\ LinkTyped' /\ NetRest'
  BY DEF Register, netVars, locals, serverHistory, TypeInv, EndsTypeOK,
         ServerTypeOK, NetTypeOK, NetRest, LinkTyped, LinkIn

LEMMA GatewayTyped ==
  ASSUME TypeInv,
         \/ Accept \/ HandleStep \/ UncaughtException \/ Kill \/ Restart
         \/ \E d \in Device : Register(d),
         UNCHANGED cliVars
  PROVE  TypeInv'
<1>2. ClientTypeOK' /\ OneConnectionPerRun'
  BY ClientUntouched
<1>3. ServerTypeOK' /\ LinkTyped' /\ NetRest'
  <2>1. CASE HandleStep
    BY <2>1, ReadClientHelloTyped, ReadEndsTyped, AuthenticateTyped,
       DecapsulateStaticTyped, SendServerHelloTyped, ReadClientFinishedTyped,
       DecapsulationFailsTyped, VerifyClientMacTyped, ReadRecordTyped
       DEF HandleStep
  <2>2. CASE Accept
    BY <2>2, AcceptTyped
  <2>3. CASE UncaughtException \/ Kill
    BY <2>3, GatewayFaultTyped
  <2>4. CASE Restart
    BY <2>4, RestartTyped
  <2>5. CASE \E d \in Device : Register(d)
    BY <2>5, RegisterTyped
  <2> QED
    BY <2>1, <2>2, <2>3, <2>4, <2>5
<1> QED
  BY <1>2, <1>3, Assemble

-----------------------------------------------------------------------------
(* Faults of the network, resets, and the initial state.                   *)

LEMMA PathLostTyped ==
  ASSUME TypeInv, NEW c \in Conn, Cut(c), UNCHANGED <<cliVars, srvVars>>
  PROVE  TypeInv'
<1>1. ClientTypeOK' /\ OneConnectionPerRun'
  BY ClientUntouched
<1>2. ServerTypeOK'
  BY DEF srvVars, locals, serverHistory, TypeInv, EndsTypeOK,
         ServerTypeOK
<1>3. NetRest'
  BY DEF Cut, NetRest, TypeInv, EndsTypeOK, NetTypeOK
<1>4. PICK S : LinkIn(S)
  BY DEF TypeInv, LinkTyped
<1>5. link[c] \in LinkShape(S)
  BY <1>4 DEF LinkIn
<1>6. PICK i \in 0 .. Len(link[c].up), j \in 0 .. Len(link[c].down) :
        link' = [link EXCEPT ![c].up = SubSeq(@, 1, i),
                             ![c].down = SubSeq(@, 1, j)]
  BY DEF Cut
<1>7. SubSeq(link[c].up, 1, i) \in Seq(S) /\ SubSeq(link[c].down, 1, j) \in Seq(S)
  <2>1. link[c].up \in Seq(S) /\ link[c].down \in Seq(S)
    BY <1>5 DEF LinkShape
  <2>2. ASSUME NEW q \in Seq(S), NEW m \in 0 .. Len(q)
        PROVE  SubSeq(q, 1, m) \in Seq(S)
    <3>1. ASSUME NEW k \in 1 .. m
          PROVE  q[k] \in S
      BY ElementOfSeq, LenProperties
    <3> QED
      BY <3>1, SubSeqProperties, LenProperties
  <2> QED
    BY <2>1, <2>2
<1> DEFINE r == [link[c] EXCEPT !.up = SubSeq(@, 1, i),
                                !.down = SubSeq(@, 1, j)]
<1>8. r \in LinkShape(S)
  BY <1>5, <1>7 DEF LinkShape
<1>9. link' = [link EXCEPT ![c] = r]
  BY <1>4, <1>5, <1>6 DEF LinkIn, LinkShape
<1>10. LinkTyped'
  BY <1>4, <1>8, <1>9, LinkStep
<1> QED
  BY <1>1, <1>2, <1>3, <1>10, Assemble

LEMMA DeviceResetTyped ==
  ASSUME TypeInv, NEW d \in Device, Reset(d), UNCHANGED srvVars
  PROVE  TypeInv'
<1>1. ClientTypeOK' /\ OneConnectionPerRun' /\ LinkTyped' /\ NetRest'
  BY ResetTyped
<1>2. ServerTypeOK'
  BY DEF srvVars, locals, serverHistory, TypeInv, EndsTypeOK,
         ServerTypeOK
<1> QED
  BY <1>1, <1>2, Assemble

LEMMA EndsInitTyped ==
  ASSUME NetInit, ClientInit, ServerInit
  PROVE  TypeInv
<1>0. /\ Len(Runs) \in Nat \ {0} /\ RecordCount \in Nat /\ MaxResets \in Nat
      /\ MaxConn \in Nat /\ MaxExits \in Nat /\ MaxKills \in Nat
  BY ClientAssumption, NetAssumption, ServerAssumption, EmptySeq,
     LenProperties
<1>1. NetRest
  BY EmptySeq DEF NetInit, NetRest
<1>2. LinkIn({})
  BY EmptySeq DEF NetInit, LinkIn, LinkShape, CliEnd, SrvEnd
<1>3. NetTypeOK
  BY <1>1, <1>2 DEF LinkIn, LinkShape, NetTypeOK, NetRest
<1>4. ClientTypeOK
  BY <1>0, EmptySeq DEF ClientInit, ClientTypeOK, ClientPc, NoSession
<1>5. ServerTypeOK
  BY <1>0, EmptySeq DEF ServerInit, ServerTypeOK, ServerPc, Verdict,
                        NoStream
<1>6. OneConnectionPerRun
  BY <1>0, EmptySeq DEF ClientInit, OneConnectionPerRun,
                        RunsBefore, Busy
<1> QED
  BY <1>2, <1>3, <1>4, <1>5, <1>6 DEF TypeInv, EndsTypeOK, LinkTyped

LEMMA NothingTyped ==
  ASSUME TypeInv, UNCHANGED <<netVars, cliVars, srvVars>>
  PROVE  TypeInv'
<1>1. ClientTypeOK' /\ OneConnectionPerRun'
  BY ClientUntouched
<1>2. ServerTypeOK' /\ LinkTyped' /\ NetRest'
  BY DEF netVars, srvVars, locals, serverHistory, TypeInv, EndsTypeOK,
         ServerTypeOK, NetTypeOK, NetRest, LinkTyped, LinkIn
<1> QED
  BY <1>1, <1>2, Assemble

-----------------------------------------------------------------------------
\* Two sequences that agree as far as the first goes have the same beginning.
LEMMA SameStart ==
  ASSUME NEW S, NEW s \in Seq(S), NEW t \in Seq(S), Len(s) <= Len(t),
         \A i \in 1 .. Len(s) : s[i] = t[i]
  PROVE  SubSeq(s, 1, Len(s)) = SubSeq(t, 1, Len(s))
<1> DEFINE a == SubSeq(s, 1, Len(s))
           b == SubSeq(t, 1, Len(s))
<1>1. Len(s) \in Nat /\ Len(t) \in Nat
  BY LenProperties
<1>2. /\ a \in Seq(S) /\ Len(a) = Len(s)
      /\ \A i \in 1 .. Len(s) : a[i] = s[i]
  BY <1>1, SubSeqProperties, ElementOfSeq
<1>3. /\ b \in Seq(S) /\ Len(b) = Len(s)
      /\ \A i \in 1 .. Len(s) : b[i] = t[i]
  BY <1>1, SubSeqProperties, ElementOfSeq
<1> HIDE DEF a, b
<1>4. a = b
  BY <1>2, <1>3, SeqEqual
<1> QED
  BY <1>4 DEF a, b

-----------------------------------------------------------------------------
(* What a step on one connection leaves of the connections.                *)
LEMMA LinkFacts ==
  ASSUME TypeInv, NEW c \in Conn
  PROVE  /\ DOMAIN link = Conn
         /\ DOMAIN link[c] = {"up", "down", "cli", "srv"}
         /\ \E S : LinkIn(S) /\ link[c].up \in Seq(S) /\ link[c].down \in Seq(S)
         /\ Len(link[c].up) \in Nat
         /\ Len(link[c].down) \in Nat
         /\ Len(sent[c]) \in Nat
         /\ Len(delivered[c]) \in Nat
<1>1. PICK S : LinkIn(S)
  BY DEF TypeInv, LinkTyped
<1>2. link[c].up \in Seq(S) /\ link[c].down \in Seq(S)
  BY <1>1 DEF LinkIn, LinkShape
<1>3. sent[c] \in Seq(Nat) /\ delivered[c] \in Seq(Nat)
  BY DEF TypeInv, EndsTypeOK, ClientTypeOK, ServerTypeOK
<1>4. DOMAIN link = Conn /\ DOMAIN link[c] = {"up", "down", "cli", "srv"}
  BY DEF TypeInv, EndsTypeOK, NetTypeOK
<1> QED
  BY <1>1, <1>2, <1>3, <1>4, LenProperties

LEMMA ClosedEnd ==
  ASSUME TypeInv, NEW c \in Conn, NEW e,
         link' = [link EXCEPT ![c].cli = e, ![c].down = <<>>]
  PROVE  /\ link'[c].cli = e /\ link'[c].down = <<>>
         /\ link'[c].srv = link[c].srv /\ link'[c].up = link[c].up
         /\ \A x \in Conn : x # c => link'[x] = link[x]
  BY LinkFacts

LEMMA WrittenUp ==
  ASSUME TypeInv, NEW c \in Conn, NEW q, link' = [link EXCEPT ![c].up = q]
  PROVE  /\ link'[c].up = q /\ link'[c].down = link[c].down
         /\ link'[c].srv = link[c].srv /\ link'[c].cli = link[c].cli
         /\ \A x \in Conn : x # c => link'[x] = link[x]
  BY LinkFacts

LEMMA TookFrame ==
  ASSUME TypeInv, NEW c \in Conn, link' = [link EXCEPT ![c].up = Tail(@)]
  PROVE  /\ link'[c].up = Tail(link[c].up) /\ link'[c].down = link[c].down
         /\ link'[c].srv = link[c].srv /\ link'[c].cli = link[c].cli
         /\ \A x \in Conn : x # c => link'[x] = link[x]
  BY LinkFacts

LEMMA ConnIsNotNone ==
  ASSUME NEW c \in Conn
  PROVE  c # NoConn
<1>1. Len(c) = 2
  BY DEF Conn
<1>2. Len(NoConn) = 0
  BY EmptySeq DEF NoConn
<1> QED
  BY <1>1, <1>2
=============================================================================
