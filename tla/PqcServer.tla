----------------------------- MODULE PqcServer -----------------------------
(***************************************************************************)
(* The gateway: server/pqc_server.py with server/protocol.py.  One process *)
(* accepts connections one at a time and handles each to its end before it *)
(* accepts the next.                                                       *)
(*                                                                         *)
(* handle_connection is cut into actions at the socket calls, the openssl  *)
(* processes it starts and the points where it checks what it was sent: a  *)
(* signal can end the process between any two.                             *)
(***************************************************************************)
EXTENDS PqcNet, PqcKeys

CONSTANTS
  ServerKey,   \* the key pair in server_dk.pem
  ServerKeyId, \* its key_id
  NoPsk,       \* what the device table answers for a device not in it
  InitTable,   \* the device table when the server starts
  TableUpdate, \* the entries register_device.py may write while it runs
  MaxExits,    \* bound: how often an uncaught exception ends the server
  MaxKills     \* bound: how often a signal ends the server

ASSUME ServerAssumption ==
  /\ DOMAIN InitTable = Device
  /\ MaxExits \in Nat
  /\ MaxKills \in Nat

VARIABLES
  spc,       \* where in handle_connection the server is
  conn,      \* the connection it handles
  hello,     \* the ClientHello parsed from it
  psk,       \* what psk_for returned for its device
  hs,        \* ss_static, the nonces, th2 and server_mac
  keys,      \* cli_confirm and c2s, with the transcript and the client's MAC
  inbound,   \* the RecordStream: key, session id, last sequence number
  ephFiles,  \* connections whose ephemeral private key is on disk
  table,     \* the device table as psk_for sees it
  exits, kills,
  verdict,   \* history: how handle_connection ended for each connection
  looked,    \* history: what psk_for returned for each connection
  decapsulated,  \* history: connections whose kem_ct was decapsulated
  accepted,      \* history: per connection, what its handshake agreed
  delivered      \* history: per connection, the plaintexts it delivered

serverHistory == <<verdict, looked, decapsulated, accepted, delivered>>
locals == <<hello, psk, hs, keys, inbound>>
srvVars == <<spc, conn, locals, ephFiles, table, exits, kills, serverHistory>>

ServerPc == {"down", "accept", "hello", "auth", "decaps", "answer",
             "finished", "confirm", "data"}
Verdict == {"none", "closed", "dropped", "killed", "openssl", "wrong-key",
            "unknown-device", "psk-mac", "client-mac", "bad-frame",
            "bad-record"}

NoStream == [key |-> NoTerm, session_id |-> NoTerm, last |-> 0 - 1]
NotAccepted == [suite |-> "none", session_id |-> NoTerm, c2s |-> NoTerm]

ServerInit ==
  /\ spc = "accept"
  /\ conn = NoConn
  /\ hello = NoTerm
  /\ psk = NoPsk
  /\ hs = NoTerm
  /\ keys = NoTerm
  /\ inbound = NoStream
  /\ ephFiles = {}
  /\ table = InitTable
  /\ exits = 0
  /\ kills = 0
  /\ verdict = [c \in Conn |-> "none"]
  /\ looked = [c \in Conn |-> NoPsk]
  /\ decapsulated = {}
  /\ accepted = [c \in Conn |-> NotAccepted]
  /\ delivered = [c \in Conn |-> <<>>]

ServerTypeOK ==
  /\ spc \in ServerPc
  /\ conn \in Conn \cup {NoConn}
  /\ conn = NoConn <=> spc \in {"down", "accept"}
  /\ DOMAIN inbound = {"key", "session_id", "last"}
  /\ inbound.last \in Nat \cup {0 - 1}
  /\ ephFiles \subseteq Conn
  /\ exits \in 0 .. MaxExits
  /\ kills \in 0 .. MaxKills
  /\ verdict \in [Conn -> Verdict]
  /\ decapsulated \subseteq Conn
  /\ delivered \in [Conn -> Seq(Nat)]

\* The ephemeral key pair of a connection, named by its public key.
EphKey(c) == Fresh("eph-key", c)

\* Fault: the PSK MAC is not looked at.
HelloUnchecked(k) == TRUE
\* The PSK MAC in constant time; the PSK is the one the table holds.
HelloVerifies(k) == hello.psk_mac = hello_mac(k, SignedPart(hello))

\* ClientHello.parse: known suite, hence a payload of the right length.
Parses(f) == f.type = "ClientHello" /\ f.body.suite \in {"MLKEM768", "MLKEM768_FS"}

(***************************************************************************)
(* Actions.                                                                *)
(***************************************************************************)
DropHandlerLocals ==
  /\ hello' = NoTerm
  /\ psk' = NoPsk
  /\ hs' = NoTerm
  /\ keys' = NoTerm
  /\ inbound' = NoStream

\* Fault: no finally clause around the handshake.
LeaveAtOnce(v) ==
  /\ verdict' = [verdict EXCEPT ![conn] = v]
  /\ link' = [link EXCEPT ![conn].srv = "closed", ![conn].up = <<>>]
  /\ UNCHANGED ephFiles
  /\ spc' = "accept"
  /\ conn' = NoConn
  /\ DropHandlerLocals
\* handle_connection returns or raises: the connection is closed, an ephemeral
\* key still on disk is destroyed by the finally clause, and main accepts again.
Leave(v) ==
  /\ verdict' = [verdict EXCEPT ![conn] = v]
  /\ link' = [link EXCEPT ![conn].srv = "closed", ![conn].up = <<>>]
  /\ ephFiles' = ephFiles \ {conn}
  /\ spc' = "accept"
  /\ conn' = NoConn
  /\ DropHandlerLocals

\* Stay in handle_connection, at the next control point.
Continue(pc) ==
  /\ spc' = pc
  /\ UNCHANGED <<conn, verdict>>

\* Fault: reading a frame takes the one behind it off the stream too.
TakeFrames == link' = [link EXCEPT ![conn].up = SubSeq(@, 3, Len(@))]
TakeFrame == link' = [link EXCEPT ![conn].up = Tail(@)]

Accept ==
  /\ spc = "accept"
  /\ backlog # <<>>
  /\ conn' = Head(backlog)
  /\ backlog' = Tail(backlog)
  /\ link' = [link EXCEPT ![Head(backlog)].srv = "open"]
  /\ spc' = "hello"
  /\ UNCHANGED <<listening, cut, disturbed>>
  /\ UNCHANGED <<locals, ephFiles, table, exits, kills, serverHistory>>

ReadClientHello ==
  LET f == Head(link[conn].up) IN
  /\ spc = "hello"
  /\ link[conn].up # <<>>
  /\ IF Parses(f)
     THEN /\ Continue("auth")
          /\ TakeFrame
          /\ hello' = f.body
          /\ UNCHANGED <<psk, hs, keys, inbound, ephFiles>>
     ELSE Leave("bad-frame")
  /\ UNCHANGED <<backlog, listening, cut, disturbed>>
  /\ UNCHANGED <<table, exits, kills>>
  /\ UNCHANGED <<looked, decapsulated, accepted, delivered>>

\* Fault: a socket without a timeout, whose recv only ends with the stream.
ReadEndsAtEnd ==
  /\ spc \in {"hello", "finished", "data"}
  /\ link[conn].up = <<>>
  /\ ServerSeesEnd(conn)
  /\ Leave(IF spc = "data" THEN "closed" ELSE "dropped")
  /\ UNCHANGED <<backlog, listening, cut, disturbed>>
  /\ UNCHANGED <<table, exits, kills>>
  /\ UNCHANGED <<looked, decapsulated, accepted, delivered>>
\* A read finds no frame: the peer has closed (ProtocolError), or nothing came
\* for 20 seconds or the network failed (OSError).  A handshake is rejected
\* either way; after it, the peer's close ends the session normally.
ReadEnds ==
  /\ spc \in {"hello", "finished", "data"}
  /\ link[conn].up = <<>>
  /\ IF ServerSeesEnd(conn)
     THEN /\ Leave(IF spc = "data" THEN "closed" ELSE "dropped")
          /\ UNCHANGED disturbed
     ELSE /\ Leave("dropped")
          /\ disturbed' = disturbed \cup {conn}
  /\ UNCHANGED <<backlog, listening, cut>>
  /\ UNCHANGED <<table, exits, kills>>
  /\ UNCHANGED <<looked, decapsulated, accepted, delivered>>

\* The checks that come before any ML-KEM work: key id, device, PSK MAC.
Authenticate ==
  LET k == table[hello.device] IN
  /\ spc = "auth"
  /\ \/ /\ hello.key_id # ServerKeyId
        /\ Leave("wrong-key")
        /\ UNCHANGED looked
     \/ /\ hello.key_id = ServerKeyId
        /\ looked' = [looked EXCEPT ![conn] = k]
        /\ \/ k = NoPsk /\ Leave("unknown-device")
           \/ /\ k # NoPsk
              /\ ~HelloVerifies(k)
              /\ Leave("psk-mac")
           \/ /\ k # NoPsk
              /\ HelloVerifies(k)
              /\ Continue("decaps")
              /\ psk' = k
              /\ UNCHANGED <<link, hello, hs, keys, inbound, ephFiles>>
  /\ UNCHANGED <<backlog, listening, cut, disturbed>>
  /\ UNCHANGED <<table, exits, kills>>
  /\ UNCHANGED <<decapsulated, accepted, delivered>>

\* openssl decapsulates kem_ct; then the server draws its nonce and session id.
DecapsulateStatic ==
  /\ spc = "decaps"
  /\ decapsulated' = decapsulated \cup {conn}
  /\ hs' = [ss_static |-> Decaps(ServerKey, hello.kem_ct),
            server_nonce |-> Fresh("server-nonce", conn),
            session_id |-> Fresh("session-id", conn),
            th2 |-> NoTerm, server_mac |-> NoTerm]
  /\ Continue("answer")
  /\ UNCHANGED netVars
  /\ UNCHANGED <<hello, psk, keys, inbound, ephFiles, table, exits, kills>>
  /\ UNCHANGED <<looked, accepted, delivered>>

\* In mode B an ephemeral key pair is generated, its private half in a file;
\* the ServerHello authenticates the public half through th2.
SendServerHello ==
  LET fs == SuiteFs(hello.suite)
      ek == IF fs THEN EphKey(conn) ELSE NoTerm
      th2 == transcript_2(hello, hs.server_nonce, hs.session_id, ek)
      stage1 == derive_keys(hs.ss_static, psk, hello.client_nonce,
                            hs.server_nonce, th2)
      srv_confirm == IF fs
                     THEN derive_stage1(hs.ss_static, psk, hello.client_nonce,
                                        hs.server_nonce, th2)
                     ELSE stage1.srv_confirm
      mac == Hmac(srv_confirm, <<th2>>)
      body == [server_nonce |-> hs.server_nonce, session_id |-> hs.session_id,
               ek_eph |-> ek, server_mac |-> mac]
  IN
  /\ spc = "answer"
  /\ \/ /\ link' = [link EXCEPT ![conn].down =
                      PutDown(conn, Frame("ServerHello", body))]
        /\ ephFiles' = IF fs THEN ephFiles \cup {conn} ELSE ephFiles
        /\ hs' = [hs EXCEPT !.th2 = th2, !.server_mac = mac]
        /\ Continue("finished")
        /\ UNCHANGED <<hello, psk, keys, inbound>>
     \/ /\ ~ReachesClient(conn)
        /\ Leave("dropped")
  /\ UNCHANGED <<backlog, listening, cut, disturbed>>
  /\ UNCHANGED <<table, exits, kills>>
  /\ UNCHANGED <<looked, decapsulated, accepted, delivered>>

\* Fault: the length of mode A is asked for in both modes.
RightFinishedA(f) == f.type = "ClientFinished" /\ f.body.ct_eph = NoTerm
\* ClientFinished (mode A) or ClientKeyExchange (mode B), by its length.
RightFinished(f) ==
  /\ f.type = "ClientFinished"
  /\ SuiteFs(hello.suite) <=> f.body.ct_eph # NoTerm

\* Once the last secret exists the keys are derived, and the ephemeral private
\* key is destroyed before the client's MAC is even looked at.
ReadClientFinished ==
  LET f == Head(link[conn].up)
      fs == SuiteFs(hello.suite)
      th == IF fs THEN transcript_3(hs.th2, f.body.ct_eph) ELSE hs.th2
      all == IF fs
             THEN derive_stage2(hs.ss_static,
                                Decaps(EphKey(conn), f.body.ct_eph), psk,
                                hello.client_nonce, hs.server_nonce, th)
             ELSE derive_keys(hs.ss_static, psk, hello.client_nonce,
                              hs.server_nonce, th)
  IN
  /\ spc = "finished"
  /\ link[conn].up # <<>>
  /\ IF RightFinished(f)
     THEN /\ keys' = [cli_confirm |-> all.cli_confirm, c2s |-> all.c2s,
                      transcript |-> th, client_mac |-> f.body.client_mac]
          /\ ephFiles' = ephFiles \ {conn}
          /\ TakeFrame
          /\ Continue("confirm")
          /\ UNCHANGED <<hello, psk, hs, inbound>>
     ELSE Leave("bad-frame")
  /\ UNCHANGED <<backlog, listening, cut, disturbed>>
  /\ UNCHANGED <<table, exits, kills>>
  /\ UNCHANGED <<looked, decapsulated, accepted, delivered>>

\* openssl fails to decapsulate: a ProtocolError, before or after ServerHello.
DecapsulationFails ==
  /\ \/ spc = "decaps"
     \/ /\ spc = "finished"
        /\ SuiteFs(hello.suite)
        /\ link[conn].up # <<>>
        /\ RightFinished(Head(link[conn].up))
  /\ Leave("openssl")
  /\ disturbed' = disturbed \cup {conn}
  /\ UNCHANGED <<backlog, listening, cut>>
  /\ UNCHANGED <<table, exits, kills>>
  /\ UNCHANGED <<looked, decapsulated, accepted, delivered>>

VerifyClientMac ==
  LET expected == Hmac(keys.cli_confirm, <<keys.transcript, hs.server_mac>>) IN
  /\ spc = "confirm"
  /\ IF keys.client_mac = expected
     THEN /\ inbound' = [key |-> keys.c2s, session_id |-> hs.session_id,
                         last |-> 0 - 1]
          /\ accepted' = [accepted EXCEPT ![conn] =
               [suite |-> hello.suite, session_id |-> hs.session_id,
                c2s |-> keys.c2s]]
          /\ Continue("data")
          /\ UNCHANGED <<link, hello, psk, hs, keys, ephFiles>>
     ELSE Leave("client-mac") /\ UNCHANGED accepted
  /\ UNCHANGED <<backlog, listening, cut, disturbed>>
  /\ UNCHANGED <<table, exits, kills>>
  /\ UNCHANGED <<looked, decapsulated, delivered>>

\* RecordStream.open: the sequence number is checked before the tag and
\* remembered only after it.
OpensRecord(r) ==
  /\ r.seq > inbound.last
  /\ Opens(r.box, inbound.key, r.seq, <<inbound.session_id, r.seq>>)

ReadRecord ==
  LET f == Head(link[conn].up) IN
  /\ spc = "data"
  /\ link[conn].up # <<>>
  /\ \/ /\ f.type = "Data"
        /\ OpensRecord(f.body)
        /\ delivered' = [delivered EXCEPT ![conn] = Append(@, f.body.box.plain)]
        /\ inbound' = [inbound EXCEPT !.last = f.body.seq]
        /\ TakeFrame
        /\ Continue("data")
        /\ UNCHANGED <<hello, psk, hs, keys, ephFiles>>
     \/ /\ f.type = "Data"
        /\ ~OpensRecord(f.body)
        /\ Leave("bad-record")
        /\ UNCHANGED delivered
     \/ /\ f.type = "Close"
        /\ Leave("closed")
        /\ UNCHANGED delivered
     \/ /\ f.type \notin {"Data", "Close"}
        /\ Leave("bad-frame")
        /\ UNCHANGED delivered
  /\ UNCHANGED <<backlog, listening, cut, disturbed>>
  /\ UNCHANGED <<table, exits, kills>>
  /\ UNCHANGED <<looked, decapsulated, accepted>>

\* The process ends: the kernel closes every connection it had or had queued.
ProcessEnds(v) ==
  /\ spc' = "down"
  /\ conn' = NoConn
  /\ listening' = FALSE
  /\ backlog' = <<>>
  /\ LET hit == {c \in Conn : link[c].srv \in {"queued", "open"}} IN
       /\ link' = [c \in Conn |-> IF c \in hit
                                  THEN [link[c] EXCEPT !.srv = "closed",
                                                     !.up = <<>>]
                                  ELSE link[c]]
       /\ disturbed' = disturbed \cup hit
  /\ verdict' = IF conn = NoConn THEN verdict
                ELSE [verdict EXCEPT ![conn] = v]
  /\ DropHandlerLocals
  /\ UNCHANGED cut
  /\ UNCHANGED <<table, looked, decapsulated, accepted, delivered>>

\* An exception main does not catch: SystemExit from psk_for, when the table's
\* mode or an entry is wrong; CalledProcessError from the key generation;
\* KeyboardInterrupt anywhere.  The finally clause runs as the stack unwinds.
UncaughtException ==
  /\ exits < MaxExits
  /\ spc # "down"
  /\ exits' = exits + 1
  /\ ephFiles' = ephFiles \ {conn}
  /\ ProcessEnds("killed")
  /\ UNCHANGED kills

\* A signal (the drill's pkill), the OOM killer or a power cut: no finally
\* clause runs, so an ephemeral key file stays where it is.
Kill ==
  /\ kills < MaxKills
  /\ spc # "down"
  /\ kills' = kills + 1
  /\ ProcessEnds("killed")
  /\ UNCHANGED <<ephFiles, exits>>

Restart ==
  /\ spc = "down"
  /\ spc' = "accept"
  /\ listening' = TRUE
  /\ UNCHANGED <<link, backlog, cut, disturbed>>
  /\ UNCHANGED <<conn, locals, ephFiles, table, exits, kills, serverHistory>>

\* register_device.py adds or replaces an entry; psk_for sees it from the next
\* look-up on, without a restart.
Register(d) ==
  /\ d \in DOMAIN TableUpdate
  /\ table[d] # TableUpdate[d]
  /\ table' = [table EXCEPT ![d] = TableUpdate[d]]
  /\ UNCHANGED netVars
  /\ UNCHANGED <<spc, conn, locals, ephFiles, exits, kills, serverHistory>>

\* One step of handle_connection.
HandleStep ==
  \/ ReadClientHello \/ ReadEnds \/ Authenticate \/ DecapsulateStatic
  \/ SendServerHello \/ ReadClientFinished \/ DecapsulationFails
  \/ VerifyClientMac \/ ReadRecord
=============================================================================
