---------------------------- MODULE PqcEndsProofs ----------------------------
(***************************************************************************)
(* What is proved of PqcSession by looking at one of its ends at a time,   *)
(* for every set of devices, every number of runs, records, resets and     *)
(* connections: types, the nonces of the devices, the gateway's ephemeral  *)
(* private keys.                                                           *)
(*                                                                         *)
(* NonceOnce has three links:                                              *)
(*   - a record key contains the client nonce of the connection it was     *)
(*     made for, so connections with the same key are the same connection  *)
(*     (KeyNamesConnection);                                               *)
(*   - a connection's key is set once, when ClientFinished is sent, and a  *)
(*     device in a session uses the key of the connection it is on         *)
(*     (SessionInv);                                                       *)
(*   - within a session the sequence number is the record counter, so two  *)
(*     boxes of one connection with one nonce hold one record (BoxesInv).  *)
(***************************************************************************)
EXTENDS PqcTypeProofs, PqcSession

-----------------------------------------------------------------------------
(***************************************************************************)
(* Types.                                                                  *)
(***************************************************************************)
LEMMA NextTyped == TypeInv /\ [Next]_vars => TypeInv'
<1> SUFFICES ASSUME TypeInv, [Next]_vars PROVE TypeInv'
  OBVIOUS
<1>1. CASE UNCHANGED vars
  BY <1>1, NothingTyped DEF vars
<1>2. ASSUME NEW d \in Device, DeviceStep(d) PROVE TypeInv'
  BY <1>2, DeviceStepTyped DEF DeviceStep
<1>3. ASSUME NEW d \in Device, DeviceReset(d) PROVE TypeInv'
  BY <1>3, DeviceResetTyped DEF DeviceReset
<1>4. ASSUME NEW c \in Conn, PathLost(c) PROVE TypeInv'
  BY <1>4, PathLostTyped DEF PathLost
<1>5. CASE \/ GatewayStep \/ GatewayFault \/ GatewayRestart
           \/ \E d \in Device : Provision(d)
  BY <1>5, GatewayTyped DEF GatewayStep, GatewayFault, GatewayRestart, Provision
<1> QED
  BY <1>1, <1>2, <1>3, <1>4, <1>5 DEF Next

(***************************************************************************)
(* Every variable of the devices, the network and the gateway keeps its    *)
(* type; with it, no device ever needs more than the MaxConn connections   *)
(* the model numbers, and only numbers reach the telemetry log.            *)
(***************************************************************************)
THEOREM InvariantTypes == Spec => []TypeInv
<1>1. Init => TypeInv
  BY EndsInitTyped DEF Init
<1> QED
  BY <1>1, NextTyped, PTL DEF Spec

(***************************************************************************)
(* TypeOK, the type invariant session_modes checks.                        *)
(***************************************************************************)
THEOREM TypeCorrect == Spec => []TypeOK
<1>1. TypeInv => TypeOK
  BY DEF TypeInv, EndsTypeOK, TypeOK
<1> QED
  BY <1>1, InvariantTypes, PTL

-----------------------------------------------------------------------------
(***************************************************************************)
(* The nonces of the devices.                                              *)
(***************************************************************************)
\* The client nonce in the salt a record key was extracted under.
NonceIn(key) == key.a[1].a[1][1]

\* A record key, made for connection c.
KeyFor(key, c) ==
  /\ key.f = "expand"
  /\ NonceIn(key) = Fresh("client-nonce", c)

KeysInv ==
  /\ DOMAIN established = Conn
  /\ \A c \in Conn :
       established[c] # NotAgreed => /\ c[2] <= opened[c[1]]
                                     /\ KeyFor(established[c].c2s, c)

SessionInv(d) ==
  /\ cpc[d] \in {"await", "verify", "finish"} =>
       s_hello[d].client_nonce = Fresh("client-nonce", curr(d))
  /\ cpc[d] \in {"hello", "await", "verify", "finish"} =>
       established[curr(d)] = NotAgreed
  /\ cpc[d] = "data" =>
       /\ established[curr(d)] # NotAgreed
       /\ session[d].c2s = established[curr(d)].c2s
       /\ session[d].session_id = established[curr(d)].session_id
       /\ session[d].send_seq = n[d]

\* The box that record r of connection c is sealed into.
RecordBox(c, r) ==
  Seal(established[c].c2s, r, <<established[c].session_id, r>>, r)

BoxesInv ==
  \A b \in sealed : \E c \in Conn : /\ established[c] # NotAgreed
                                    /\ b = RecordBox(c, b.nonce)

NonceInv ==
  /\ DOMAIN s_hello = Device
  /\ KeysInv
  /\ \A d \in Device : SessionInv(d)
  /\ BoxesInv

-----------------------------------------------------------------------------
(* Keys.                                                                   *)

\* Whatever the suite, the key the firmware derives has the nonce of the
\* ClientHello it sent in it.
LEMMA ClientKeyNonce ==
  ASSUME NEW d, NEW h, NEW s, NEW coins, NEW sh, NEW c,
         h.client_nonce = Fresh("client-nonce", c)
  PROVE  KeyFor(ClientKeys(d, h, s, coins, sh).c2s, c)
<1> DEFINE prk == IF IsFs(h.suite)
                  THEN ClientPrk2(d, h, s, Secret(sh.ek_eph, coins), sh)
                  ELSE ClientPrk1(d, h, s, sh)
           th == ClientTranscript(h, Ciphertext(sh.ek_eph, coins), sh)
<1>1. prk.a[1][1] = h.client_nonce
  BY DEF ClientPrk1, ClientPrk2, HkdfExtract
<1>2. ClientKeys(d, h, s, coins, sh).c2s = HkdfExpand(prk, LABEL_C2S, th)
  BY DEF ClientKeys
<1> HIDE DEF prk, th
<1> DEFINE key == HkdfExpand(prk, LABEL_C2S, th)
<1>3. key.f = "expand" /\ NonceIn(key) = h.client_nonce
  BY <1>1 DEF HkdfExpand, NonceIn
<1> HIDE DEF key
<1>4. KeyFor(key, c)
  BY <1>3 DEF KeyFor
<1> QED
  BY <1>2, <1>4 DEF key

LEMMA KeyNamesConnection ==
  ASSUME NEW key, NEW c1, NEW c2, KeyFor(key, c1), KeyFor(key, c2)
  PROVE  c1 = c2
<1>1. Fresh("client-nonce", c1) = Fresh("client-nonce", c2)
  BY DEF KeyFor
<1>2. Fresh("client-nonce", c1).a = c1 /\ Fresh("client-nonce", c2).a = c2
  BY DEF Fresh
<1> QED
  BY <1>1, <1>2

LEMMA KeyIsATerm ==
  ASSUME NEW key, NEW c, KeyFor(key, c)
  PROVE  key # NoTerm
<1>1. key.f = "expand"
  BY DEF KeyFor
<1>2. NoTerm.f = "none"
  BY DEF NoTerm
<1> QED
  BY <1>1, <1>2

\* The invariant gives NonceOnce.
LEMMA NonceInvSuffices == NonceInv => NonceOnce
<1> SUFFICES ASSUME NonceInv,
                    NEW b1 \in sealed, NEW b2 \in sealed,
                    b1.key = b2.key, b1.nonce = b2.nonce
             PROVE  b1 = b2
  BY DEF NonceOnce
<1>1. PICK c1 \in Conn : /\ established[c1] # NotAgreed
                         /\ b1 = RecordBox(c1, b1.nonce)
  BY DEF NonceInv, BoxesInv
<1>2. PICK c2 \in Conn : /\ established[c2] # NotAgreed
                         /\ b2 = RecordBox(c2, b2.nonce)
  BY DEF NonceInv, BoxesInv
<1>3. KeyFor(established[c1].c2s, c1) /\ KeyFor(established[c2].c2s, c2)
  BY <1>1, <1>2 DEF NonceInv, KeysInv
<1>4. b1.key = established[c1].c2s /\ b2.key = established[c2].c2s
  BY <1>1, <1>2 DEF RecordBox, Seal
<1>5. c1 = c2
  BY <1>3, <1>4, KeyNamesConnection
<1> QED
  BY <1>1, <1>2, <1>5

-----------------------------------------------------------------------------
(* Steps.                                                                  *)

\* A device between sessions has nothing to keep.
LEMMA OutsideSession ==
  ASSUME NEW d, cpc[d] \in {"idle", "done"}
  PROVE  SessionInv(d)
  BY DEF SessionInv

\* What a step of d does to its own variables is nothing to another device.
LEMMA OthersKeep ==
  ASSUME NonceInv, NEW d \in Device, NEW x \in Device, x # d,
         cpc'[x] = cpc[x], opened'[x] = opened[x], s_hello'[x] = s_hello[x],
         session'[x] = session[x], n'[x] = n[x],
         established'[curr(x)] = established[curr(x)]
  PROVE  SessionInv(x)'
  BY DEF NonceInv, SessionInv, curr

\* A step that leaves established and sealed alone keeps what they say.
LEMMA HistoryKeeps ==
  ASSUME NonceInv, UNCHANGED <<established, sealed>>,
         \/ UNCHANGED opened
         \/ \E d \in Device : /\ opened[d] \in Nat
                              /\ opened' = [opened EXCEPT ![d] = @ + 1]
  PROVE  KeysInv' /\ BoxesInv'
<1>1. BoxesInv'
  BY DEF NonceInv, BoxesInv, RecordBox
<1>2. ASSUME NEW c \in Conn, established[c] # NotAgreed
      PROVE  c[2] <= opened'[c[1]]
  <2>1. c[2] \in Nat /\ c[2] <= opened[c[1]] /\ c[1] \in Device
    BY <1>2 DEF NonceInv, KeysInv, Conn
  <2>2. CASE UNCHANGED opened
    BY <2>1, <2>2
  <2>3. ASSUME NEW d \in Device, opened[d] \in Nat,
               opened' = [opened EXCEPT ![d] = @ + 1]
        PROVE  c[2] <= opened'[c[1]]
    <3>1. CASE c[1] = d /\ d \in DOMAIN opened
      BY <2>1, <2>3, <3>1
    <3>2. CASE ~(c[1] = d /\ d \in DOMAIN opened)
      BY <2>1, <2>3, <3>2
    <3> QED
      BY <3>1, <3>2
  <2> QED
    BY <2>2, <2>3
<1>3. KeysInv'
  BY <1>2 DEF NonceInv, KeysInv
<1> QED
  BY <1>1, <1>3

\* pqc_session_run returns.
LEMMA ReturnKeeps ==
  ASSUME TypeInv, NonceInv, NEW d \in Device, NEW ok, Return(d, ok),
         UNCHANGED <<opened, s_hello, established>>, BoxesInv'
  PROVE  NonceInv'
<1>1. KeysInv'
  BY DEF NonceInv, KeysInv
<1>2. SessionInv(d)'
  <2>1. cpc'[d] \in {"idle", "done"}
    BY DEF Return, TypeInv, EndsTypeOK, ClientTypeOK
  <2> QED
    BY <2>1 DEF SessionInv
<1>3. ASSUME NEW x \in Device, x # d
      PROVE  SessionInv(x)'
  BY <1>3, OthersKeep DEF Return, DropLocals, TypeInv, EndsTypeOK, ClientTypeOK
<1> QED
  BY <1>1, <1>2, <1>3 DEF NonceInv

\* The handshake goes on: the ClientHello stays, nothing is agreed yet.
LEMMA HandshakeKeeps ==
  ASSUME TypeInv, NonceInv, NEW d \in Device, NEW pc,
         pc \in {"verify", "finish"}, cpc[d] \in {"await", "verify"},
         cpc' = [cpc EXCEPT ![d] = pc],
         UNCHANGED <<opened, s_hello, session, n, established, sealed>>
  PROVE  NonceInv'
<1>1. KeysInv' /\ BoxesInv'
  BY HistoryKeeps
<1>2. SessionInv(d)'
  BY DEF NonceInv, SessionInv, curr, TypeInv, EndsTypeOK, ClientTypeOK
<1>3. ASSUME NEW x \in Device, x # d
      PROVE  SessionInv(x)'
  BY <1>3, OthersKeep
<1> QED
  BY <1>1, <1>2, <1>3 DEF NonceInv

LEMMA ConnectKeeps ==
  ASSUME TypeInv, NonceInv, NEW d \in Device, Connect(d)
  PROVE  NonceInv'
<1> USE DEF TypeInv, EndsTypeOK, ClientTypeOK, Connect, runLocals, statics,
            clientHistory
<1>1. opened[d] \in Nat
  BY RunsRemain
<1>2. KeysInv' /\ BoxesInv'
  BY <1>1, HistoryKeeps
<1>3. SessionInv(d)'
  <2> DEFINE c == <<d, opened[d] + 1>>
  <2>1. Busy(d)' /\ ClientTypeOK' /\ OneConnectionPerRun' /\ curr(d)' = c
    BY ConnectTyped DEF Busy, curr
  <2>2. c \in Conn
    BY <1>1, <2>1 DEF Conn, OneConnectionPerRun, curr
  <2>3. established[c] = NotAgreed
    BY <1>1, <2>2 DEF NonceInv, KeysInv
  <2> QED
    BY <2>1, <2>3 DEF SessionInv
<1>4. ASSUME NEW x \in Device, x # d
      PROVE  SessionInv(x)'
  BY <1>4, OthersKeep
<1> QED
  BY <1>2, <1>3, <1>4 DEF NonceInv

LEMMA SendClientHelloKeeps ==
  ASSUME TypeInv, NonceInv, NEW d \in Device, SendClientHello(d)
  PROVE  NonceInv'
<1>1. KeysInv' /\ BoxesInv'
  BY HistoryKeeps DEF SendClientHello, clientHistory
<1>2. SessionInv(d)'
  <2>1. /\ s_hello'[d].client_nonce = Fresh("client-nonce", curr(d))
        /\ cpc'[d] = "await" /\ curr(d)' = curr(d)
    BY DEF SendClientHello, Hello, curr, NonceInv, TypeInv, EndsTypeOK, ClientTypeOK
  <2>2. established'[curr(d)] = NotAgreed
    BY DEF SendClientHello, clientHistory, NonceInv, SessionInv
  <2> QED
    BY <2>1, <2>2 DEF SessionInv
<1>3. ASSUME NEW x \in Device, x # d
      PROVE  SessionInv(x)'
  BY <1>3, OthersKeep
     DEF SendClientHello, clientHistory, NonceInv, TypeInv, EndsTypeOK, ClientTypeOK
<1>4. DOMAIN s_hello' = Device
  BY DEF SendClientHello, NonceInv
<1> QED
  BY <1>1, <1>2, <1>3, <1>4 DEF NonceInv

\* The one step that sets a connection's key.
LEMMA SendClientFinishedKeeps ==
  ASSUME TypeInv, NonceInv, NEW d \in Device, SendClientFinished(d)
  PROVE  NonceInv'
<1> DEFINE c == curr(d)
           h == s_hello[d]
           sh == s_frame[d]
           coins == Fresh("eph-coins", c)
           key == ClientKeys(d, h, ss[d], coins, sh).c2s
           agreed == [suite |-> h.suite, session_id |-> sh.session_id,
                      c2s |-> key]
<1>1. cpc[d] = "finish" /\ c \in Conn
  BY CurrIsConn DEF SendClientFinished, Busy
<1>2. KeyFor(key, c)
  <2>1. h.client_nonce = Fresh("client-nonce", c)
    BY <1>1 DEF NonceInv, SessionInv
  <2> HIDE DEF h, sh, coins, c
  <2> QED
    BY <2>1, ClientKeyNonce
<1>3. /\ established' = [established EXCEPT ![c] = agreed]
      /\ session' = [session EXCEPT ![d] = [session_id |-> sh.session_id,
                                            c2s |-> key, send_seq |-> 0]]
      /\ n' = [n EXCEPT ![d] = 0]
      /\ cpc' = [cpc EXCEPT ![d] = "data"]
      /\ UNCHANGED <<opened, s_hello, sealed>>
  BY DEF SendClientFinished
<1>4. agreed # NotAgreed
  <2>1. key # NoTerm
    BY <1>2, KeyIsATerm
  <2>2. agreed.c2s = key /\ NotAgreed.c2s = NoTerm
    BY DEF NotAgreed
  <2> QED
    BY <2>1, <2>2
<1>5. established[c] = NotAgreed
  BY <1>1 DEF NonceInv, SessionInv
<1>6. agreed.c2s = key /\ agreed.session_id = sh.session_id
  OBVIOUS
<1>7. c[1] = d /\ c[2] = opened[d] /\ curr(d)' = c
  BY <1>3 DEF curr
<1> HIDE DEF agreed, key, c
<1>8. KeysInv'
  <2>1. ASSUME NEW e \in Conn, established'[e] # NotAgreed
        PROVE  e[2] <= opened[e[1]] /\ KeyFor(established'[e].c2s, e)
    <3>1. CASE e = c
      <4>1. established'[e] = agreed
        BY <1>1, <1>3, <3>1 DEF NonceInv, KeysInv
      <4>2. opened[d] \in Nat
        BY RunsRemain
      <4> QED
        BY <1>2, <1>6, <1>7, <3>1, <4>1, <4>2
    <3>2. CASE e # c
      BY <1>3, <2>1, <3>2 DEF NonceInv, KeysInv
    <3> QED
      BY <3>1, <3>2
  <2>2. DOMAIN established' = Conn
    BY <1>3 DEF NonceInv, KeysInv
  <2> QED
    BY <1>3, <2>1, <2>2 DEF KeysInv
<1>9. SessionInv(d)'
  <2>1. established'[c] = agreed
    BY <1>1, <1>3 DEF NonceInv, KeysInv
  <2>2. /\ cpc'[d] = "data"
        /\ session'[d] = [session_id |-> sh.session_id, c2s |-> key,
                          send_seq |-> 0]
        /\ n'[d] = 0
    BY <1>3 DEF TypeInv, EndsTypeOK, ClientTypeOK
  <2> QED
    BY <1>4, <1>6, <1>7, <2>1, <2>2 DEF SessionInv
<1>10. ASSUME NEW x \in Device, x # d
       PROVE  SessionInv(x)'
  <2>1. curr(x) # c
    BY <1>7, <1>10 DEF curr
  <2> QED
    BY <1>3, <1>10, <2>1, OthersKeep DEF TypeInv, EndsTypeOK, ClientTypeOK
<1>11. BoxesInv'
  <2> SUFFICES ASSUME NEW b \in sealed
               PROVE  \E e \in Conn : /\ established'[e] # NotAgreed
                                      /\ b = RecordBox(e, b.nonce)'
    BY <1>3 DEF BoxesInv
  <2>1. PICK e \in Conn : established[e] # NotAgreed /\ b = RecordBox(e, b.nonce)
    BY DEF NonceInv, BoxesInv
  <2>2. established'[e] = established[e]
    BY <1>3, <1>5, <2>1
  <2> QED
    BY <2>1, <2>2 DEF RecordBox
<1> QED
  BY <1>3, <1>8, <1>9, <1>10, <1>11 DEF NonceInv

\* The box of the record a device is about to send belongs to its connection.
LEMMA BoxAdded ==
  ASSUME TypeInv, NonceInv, NEW d \in Device, cpc[d] = "data",
         established' = established,
         sealed' = sealed \/ sealed' = sealed \cup {SealNext(d)}
  PROVE  BoxesInv'
<1> DEFINE box == SealNext(d)
<1>1. curr(d) \in Conn /\ established[curr(d)] # NotAgreed
  BY CurrIsConn DEF Busy, NonceInv, SessionInv
<1>2. box = RecordBox(curr(d), n[d])
  BY DEF NonceInv, SessionInv, RecordBox, SealNext
<1>3. box.nonce = n[d]
  BY <1>2 DEF RecordBox, Seal
<1>4. \A b \in sealed' : b \in sealed \/ b = box
  OBVIOUS
<1> HIDE DEF box
<1>5. ASSUME NEW b \in sealed'
      PROVE  \E c \in Conn : established[c] # NotAgreed /\ b = RecordBox(c, b.nonce)
  BY <1>1, <1>2, <1>3, <1>4 DEF NonceInv, BoxesInv
<1> QED
  BY <1>5 DEF BoxesInv, RecordBox

LEMMA SendRecordKeeps ==
  ASSUME TypeInv, NonceInv, NEW d \in Device, SendRecord(d)
  PROVE  NonceInv'
<1>1. /\ cpc[d] = "data"
      /\ session' = [session EXCEPT ![d].send_seq = @ + 1]
      /\ n' = [n EXCEPT ![d] = @ + 1]
      /\ UNCHANGED <<cpc, opened, s_hello, established>>
  BY DEF SendRecord, runVars
<1>2. BoxesInv'
  BY <1>1, BoxAdded DEF SendRecord
<1>3. KeysInv'
  BY <1>1 DEF NonceInv, KeysInv
<1>4. SessionInv(d)'
  BY <1>1 DEF NonceInv, SessionInv, curr, TypeInv, EndsTypeOK, ClientTypeOK
<1>5. ASSUME NEW x \in Device, x # d
      PROVE  SessionInv(x)'
  BY <1>1, <1>5, OthersKeep DEF TypeInv, EndsTypeOK, ClientTypeOK
<1> QED
  BY <1>1, <1>2, <1>3, <1>4, <1>5 DEF NonceInv

LEMMA ResetKeeps ==
  ASSUME TypeInv, NonceInv, NEW d \in Device, Reset(d)
  PROVE  NonceInv'
<1>1. /\ cpc' = [cpc EXCEPT ![d] = "idle"]
      /\ s_hello' = [s_hello EXCEPT ![d] = NoTerm]
      /\ session' = [session EXCEPT ![d] = NoSession]
      /\ n' = [n EXCEPT ![d] = 0]
      /\ UNCHANGED <<opened, established, sealed>>
  BY DEF Reset, DropLocals, clientHistory
<1>2. KeysInv' /\ BoxesInv'
  BY <1>1, HistoryKeeps
<1>3. SessionInv(d)'
  BY <1>1 DEF SessionInv, TypeInv, EndsTypeOK, ClientTypeOK
<1>4. ASSUME NEW x \in Device, x # d
      PROVE  SessionInv(x)'
  BY <1>1, <1>4, OthersKeep DEF NonceInv, TypeInv, EndsTypeOK, ClientTypeOK
<1> QED
  BY <1>1, <1>2, <1>3, <1>4 DEF NonceInv

LEMMA ClientStepKeeps ==
  ASSUME TypeInv, NonceInv, NEW d \in Device, ClientStep(d)
  PROVE  NonceInv'
<1> USE DEF statics, clientHistory, runLocals
<1>0. UNCHANGED <<established, sealed>> => BoxesInv'
  BY DEF NonceInv, BoxesInv, RecordBox
<1>1. CASE Connect(d)
  BY <1>1, ConnectKeeps
<1>2. CASE ConnectFails(d)
  BY <1>0, <1>2, ReturnKeeps DEF ConnectFails
<1>3. CASE SendClientHello(d)
  BY <1>3, SendClientHelloKeeps
<1>4. CASE ReadServerHello(d)
  BY <1>0, <1>4, ReturnKeeps, HandshakeKeeps DEF ReadServerHello, Fail
<1>5. CASE ReadFails(d)
  BY <1>0, <1>5, ReturnKeeps DEF ReadFails, Fail
<1>6. CASE VerifyServerMac(d)
  BY <1>0, <1>6, ReturnKeeps, HandshakeKeeps DEF VerifyServerMac, Fail
<1>7. CASE SendClientFinished(d)
  BY <1>7, SendClientFinishedKeeps
<1>8. CASE SendRecord(d)
  BY <1>8, SendRecordKeeps
<1>9. CASE SendClose(d)
  BY <1>0, <1>9, ReturnKeeps DEF SendClose
<1>10. CASE StepFails(d)
  <2>1. BoxesInv'
    BY <1>0, <1>10, BoxAdded DEF StepFails
  <2> QED
    BY <1>10, <2>1, ReturnKeeps DEF StepFails, Fail
<1> QED
  BY <1>1, <1>2, <1>3, <1>4, <1>5, <1>6, <1>7, <1>8, <1>9, <1>10
     DEF ClientStep

LEMMA NextKeeps == TypeInv /\ NonceInv /\ [Next]_vars => NonceInv'
<1> SUFFICES ASSUME TypeInv, NonceInv, [Next]_vars PROVE NonceInv'
  OBVIOUS
<1>1. CASE UNCHANGED cliVars
  BY <1>1 DEF cliVars, runVars, runLocals, statics, clientHistory, NonceInv,
              KeysInv, SessionInv, BoxesInv, RecordBox, curr
<1>2. ASSUME NEW d \in Device, ClientStep(d)
      PROVE  NonceInv'
  BY <1>2, ClientStepKeeps
<1>3. ASSUME NEW d \in Device, Reset(d)
      PROVE  NonceInv'
  BY <1>3, ResetKeeps
<1> QED
  BY <1>1, <1>2, <1>3
     DEF Next, vars, DeviceStep, DeviceReset, GatewayStep, GatewayFault,
         GatewayRestart, Provision, PathLost

(***************************************************************************)
(* NonceOnce: no AES-GCM key is ever used twice with one nonce, whatever   *)
(* fails, however often a board resets, in either mode.                    *)
(***************************************************************************)
THEOREM NoncesAreUsedOnce == Spec => []NonceOnce
<1>1. Init => NonceInv
  BY DEF Init, ClientInit, NonceInv, KeysInv, SessionInv, BoxesInv
<1>2. TypeInv /\ NonceInv /\ [Next]_vars => NonceInv'
  BY NextKeeps
<1>3. NonceInv => NonceOnce
  BY NonceInvSuffices
<1> QED
  BY <1>1, <1>2, <1>3, InvariantTypes, PTL DEF Spec

-----------------------------------------------------------------------------
(***************************************************************************)
(* The ephemeral private keys of the gateway.                              *)
(***************************************************************************)
\* The handler's states, and the rule it keeps with its ephemeral key.
ErasureInv ==
  /\ kills = 0
  /\ spc \in ServerPc
  /\ EphemeralErased

\* Leaving handle_connection destroys the only key there can be.
LEMMA LeaveErases ==
  ASSUME ErasureInv, NEW v, Leave(v)
  PROVE  spc' \in ServerPc /\ ephFiles' = {} /\ EphemeralErased'
  BY DEF ErasureInv, EphemeralErased, Leave, ServerPc

\* Staying in it elsewhere than at ClientFinished keeps the set empty.
LEMMA ContinueKeeps ==
  ASSUME ErasureInv, NEW pc \in ServerPc, Continue(pc),
         ephFiles' = ephFiles, spc # "finished"
  PROVE  spc' \in ServerPc /\ EphemeralErased'
  BY DEF ErasureInv, EphemeralErased, Continue, ServerPc

\* Each step of handle_connection keeps the rule.
LEMMA HandleStepErases ==
  ASSUME ErasureInv, HandleStep
  PROVE  ErasureInv'
<1>0. kills' = 0
  BY DEF ErasureInv, HandleStep, ReadClientHello, ReadEnds, Authenticate,
         DecapsulateStatic, SendServerHello, ReadClientFinished,
         DecapsulationFails, VerifyClientMac, ReadRecord
<1> USE DEF ServerPc
<1>1. CASE ReadClientHello
  BY <1>0, <1>1, LeaveErases, ContinueKeeps DEF ReadClientHello, ErasureInv
<1>2. CASE ReadEnds
  BY <1>0, <1>2, LeaveErases DEF ReadEnds, ErasureInv
<1>3. CASE Authenticate
  BY <1>0, <1>3, LeaveErases, ContinueKeeps DEF Authenticate, ErasureInv
<1>4. CASE DecapsulateStatic
  BY <1>0, <1>4, ContinueKeeps DEF DecapsulateStatic, ErasureInv
<1>5. CASE SendServerHello
  <2>1. CASE ephFiles' \subseteq ephFiles \cup {conn} /\ Continue("finished")
    BY <1>0, <1>5, <2>1
       DEF SendServerHello, Continue, ErasureInv, EphemeralErased
  <2>2. CASE Leave("dropped")
    BY <1>0, <2>2, LeaveErases DEF ErasureInv
  <2> QED
    BY <1>5, <2>1, <2>2 DEF SendServerHello
<1>6. CASE ReadClientFinished
  <2>1. CASE ephFiles' = ephFiles \ {conn} /\ Continue("confirm")
    BY <1>0, <1>6, <2>1 DEF Continue, ErasureInv, EphemeralErased
  <2>2. CASE Leave("bad-frame")
    BY <1>0, <2>2, LeaveErases DEF ErasureInv
  <2> QED
    BY <1>6, <2>1, <2>2 DEF ReadClientFinished
<1>7. CASE DecapsulationFails
  BY <1>0, <1>7, LeaveErases DEF DecapsulationFails, ErasureInv
<1>8. CASE VerifyClientMac
  BY <1>0, <1>8, LeaveErases, ContinueKeeps DEF VerifyClientMac, ErasureInv
<1>9. CASE ReadRecord
  BY <1>0, <1>9, LeaveErases, ContinueKeeps DEF ReadRecord, ErasureInv
<1> QED
  BY <1>1, <1>2, <1>3, <1>4, <1>5, <1>6, <1>7, <1>8, <1>9 DEF HandleStep

(***************************************************************************)
(* EphemeralErased: the private half of an ephemeral key pair is on disk   *)
(* only while the server waits for ClientFinished on the connection it was *)
(* made for.  No signal may end the server (MaxKills = 0): a signal skips  *)
(* the finally clause and leaves the file where it is.                     *)
(***************************************************************************)
THEOREM EphemeralKeysAreErased ==
  ASSUME MaxKills = 0
  PROVE  Spec => []EphemeralErased
<1>1. Init => ErasureInv
  BY DEF Init, ServerInit, ErasureInv, EphemeralErased, ServerPc
<1>2. ErasureInv /\ [Next]_vars => ErasureInv'
  <2> SUFFICES ASSUME ErasureInv, [Next]_vars
               PROVE  ErasureInv'
    OBVIOUS
  <2>1. CASE UNCHANGED srvVars
    BY <2>1 DEF ErasureInv, EphemeralErased, srvVars
  <2>2. CASE Accept
    BY <2>2 DEF Accept, ErasureInv, EphemeralErased, ServerPc
  <2>3. CASE HandleStep
    BY <2>3, HandleStepErases
  <2>4. CASE UncaughtException
    BY <2>4 DEF UncaughtException, ProcessEnds, ErasureInv, EphemeralErased,
                ServerPc
  <2>5. ~Kill
    BY DEF Kill, ErasureInv
  <2>6. CASE Restart
    BY <2>6 DEF Restart, ErasureInv, EphemeralErased, ServerPc
  <2>7. ASSUME NEW d \in Device, Register(d)
        PROVE  ErasureInv'
    BY <2>7 DEF Register, ErasureInv, EphemeralErased
  <2> QED
    BY <2>1, <2>2, <2>3, <2>4, <2>5, <2>6, <2>7
       DEF Next, vars, DeviceStep, DeviceReset, GatewayStep, GatewayFault,
           GatewayRestart, Provision, PathLost
<1>3. ErasureInv => EphemeralErased
  BY DEF ErasureInv
<1> QED
  BY <1>1, <1>2, <1>3, PTL DEF Spec
=============================================================================
