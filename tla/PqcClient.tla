----------------------------- MODULE PqcClient -----------------------------
(***************************************************************************)
(* The protocol client in the firmware (main/pqc_session.c) and the tail   *)
(* of app_main that runs it: one session per suite in Runs, in order, each *)
(* on a connection of its own and none retried.                            *)
(*                                                                         *)
(* A run of pqc_session_run is cut into actions at the socket calls, where *)
(* the peer, the network and the power supply can interfere, and between   *)
(* the server-MAC check and what the code does only after it.              *)
(***************************************************************************)
EXTENDS PqcNet, PqcTerms

CONSTANTS
  Runs,         \* the suites app_main runs, in order
  RecordCount,  \* records per session, app_main passes 3
  MaxResets,    \* bound: how often boards may reset, all boards together
  Pinned,       \* SERVER_PUBLIC_KEY in each device's firmware
  KeyId,        \* SERVER_KEY_ID of a key: 4 bytes of a hash, it may collide
  DevicePsk     \* DEVICE_PSK in each device's device_config.h

Suite == {"MLKEM768", "MLKEM768_FS"}
IsFs(suite) == suite = "MLKEM768_FS"

ASSUME ClientAssumption ==
  /\ Runs \in Seq(Suite)
  /\ Runs # <<>>
  /\ RecordCount \in Nat
  /\ MaxResets \in Nat
  /\ MaxConn >= Len(Runs) * (MaxResets + 1)

VARIABLES
  cpc,       \* where in pqc_session_run each device is
  results,   \* what the calls of pqc_session_run returned since the boot
  opened,    \* how many connections each device has opened, over all boots
  resets,    \* how many resets there have been
  s_hello,   \* the ClientHello last sent
  ss,        \* the secret encapsulated to the pinned key
  s_frame,   \* the ServerHello in the receive buffer, until a record is
             \* built over it
  session,   \* pqc_session_t: session_id, c2s, send_seq
  n,         \* pqc_session_run's record counter
  established,  \* history: per connection, what its handshake agreed
  sent,         \* history: per connection, the records written to the socket
  sealed,       \* history: every box AES-GCM has produced
  refused,      \* history: connections whose server MAC did not verify
  encapsulated  \* history: <<connection, ek>> of each ephemeral encapsulation

runVars == <<cpc, results>>
runLocals == <<ss, session, n>>
statics == <<s_hello, s_frame>>
clientHistory == <<established, sent, sealed, refused, encapsulated>>
cliVars == <<runVars, opened, resets, runLocals, statics, clientHistory>>

ClientPc == {"idle", "hello", "await", "verify", "finish", "data", "done"}

\* The suite a device is running, and the connection it runs on.
suiteOf(d) == Runs[Len(results[d]) + 1]
curr(d) == <<d, opened[d]>>

NoSession == [session_id |-> NoTerm, c2s |-> NoTerm, send_seq |-> 0]
NotAgreed == [suite |-> "none", session_id |-> NoTerm, c2s |-> NoTerm]

ClientInit ==
  /\ cpc = [d \in Device |-> "idle"]
  /\ results = [d \in Device |-> <<>>]
  /\ opened = [d \in Device |-> 0]
  /\ resets = 0
  /\ s_hello = [d \in Device |-> NoTerm]
  /\ ss = [d \in Device |-> NoTerm]
  /\ s_frame = [d \in Device |-> NoTerm]
  /\ session = [d \in Device |-> NoSession]
  /\ n = [d \in Device |-> 0]
  /\ established = [c \in Conn |-> NotAgreed]
  /\ sent = [c \in Conn |-> <<>>]
  /\ sealed = {}
  /\ refused = {}
  /\ encapsulated = {}

ClientTypeOK ==
  /\ cpc \in [Device -> ClientPc]
  /\ results \in [Device -> Seq(BOOLEAN)]
  /\ \A d \in Device : /\ Len(results[d]) <= Len(Runs)
                       /\ cpc[d] = "done" <=> Len(results[d]) = Len(Runs)
  /\ opened \in [Device -> 0 .. MaxConn]
  /\ resets \in 0 .. MaxResets
  /\ DOMAIN session = Device
  /\ \A d \in Device : /\ DOMAIN session[d] = {"session_id", "c2s", "send_seq"}
                       /\ session[d].send_seq \in Nat
  /\ n \in [Device -> 0 .. RecordCount]
  /\ sent \in [Conn -> Seq(Nat)]
  /\ refused \subseteq Conn

(***************************************************************************)
(* The firmware's own derivations, from the ClientHello it sent (h), the   *)
(* secret encapsulated to the pinned key (s) and the ServerHello (sh).     *)
(***************************************************************************)
ClientTh2(h, sh) == Sha256(<<h, sh.server_nonce, sh.session_id, sh.ek_eph>>)

ClientPrk1(d, h, s, sh) ==
  HkdfExtract(<<h.client_nonce, sh.server_nonce>>, <<s, DevicePsk[d]>>)

ClientPrk2(d, h, s, sEph, sh) ==
  HkdfExtract(<<h.client_nonce, sh.server_nonce>>, <<s, sEph, DevicePsk[d]>>)

\* Fault: the received MAC is compared with itself.
ClientEchoedMac(d, h, s, sh) == sh.server_mac
ClientExpectedMac(d, h, s, sh) ==
  LET th2 == ClientTh2(h, sh)
  IN  Hmac(HkdfExpand(ClientPrk1(d, h, s, sh), LABEL_SRV_CONFIRM, th2), <<th2>>)

\* Fault: TH2 in mode B as well.
ClientTranscript2(h, ct_eph, sh) == ClientTh2(h, sh)
\* TH2 in mode A; in mode B TH3, which adds the ephemeral ciphertext.
ClientTranscript(h, ct_eph, sh) ==
  IF IsFs(h.suite) THEN Sha256(<<ClientTh2(h, sh), ct_eph>>)
                   ELSE ClientTh2(h, sh)

\* The keys that protect data: stage 1 in mode A, stage 2 in mode B.
ClientKeys(d, h, s, coins, sh) ==
  LET prk == IF IsFs(h.suite)
             THEN ClientPrk2(d, h, s, Secret(sh.ek_eph, coins), sh)
             ELSE ClientPrk1(d, h, s, sh)
      th == ClientTranscript(h, Ciphertext(sh.ek_eph, coins), sh)
  IN  [cli_confirm |-> HkdfExpand(prk, LABEL_CLI_CONFIRM, th),
       c2s |-> HkdfExpand(prk, LABEL_C2S, th)]

(***************************************************************************)
(* Actions.                                                                *)
(***************************************************************************)
\* The locals of pqc_session_run and handshake go out of scope.
DropLocals(d) ==
  /\ ss' = [ss EXCEPT ![d] = NoTerm]
  /\ session' = [session EXCEPT ![d] = NoSession]
  /\ n' = [n EXCEPT ![d] = 0]

\* Fault: one run too many before app_main stops.
ReturnLate(d, ok) ==
  /\ results' = [results EXCEPT ![d] = Append(@, ok)]
  /\ cpc' = [cpc EXCEPT ![d] =
               IF Len(results[d]) = Len(Runs) THEN "done" ELSE "idle"]
  /\ DropLocals(d)
\* pqc_session_run returns; app_main starts the next mode whatever the result
\* was, and stops after the last.
Return(d, ok) ==
  /\ results' = [results EXCEPT ![d] = Append(@, ok)]
  /\ cpc' = [cpc EXCEPT ![d] =
               IF Len(results[d]) + 1 = Len(Runs) THEN "done" ELSE "idle"]
  /\ DropLocals(d)

\* The socket is closed and pqc_session_run returns false.
Fail(d) ==
  /\ Return(d, FALSE)
  /\ link' = [link EXCEPT ![curr(d)].cli = "closed", ![curr(d)].down = <<>>]

\* connect() completes as soon as the server's kernel has room to queue it.
Connect(d) ==
  LET c == <<d, opened[d] + 1>> IN
  /\ cpc[d] = "idle"
  /\ listening
  /\ Len(backlog) < Backlog
  /\ cpc' = [cpc EXCEPT ![d] = "hello"]
  /\ opened' = [opened EXCEPT ![d] = @ + 1]
  /\ link' = [link EXCEPT ![c].cli = "open", ![c].srv = "queued"]
  /\ backlog' = Append(backlog, c)
  /\ UNCHANGED <<listening, cut, disturbed>>
  /\ UNCHANGED <<results, resets, runLocals, statics, clientHistory>>

\* getaddrinfo, socket or connect fails: no server, a full queue, no route.
ConnectFails(d) ==
  /\ cpc[d] = "idle"
  /\ Return(d, FALSE)
  /\ UNCHANGED netVars
  /\ UNCHANGED <<opened, resets, statics, clientHistory>>

\* Draw the nonce, encapsulate to the pinned key, MAC and send ClientHello.
SendClientHello(d) ==
  LET c == curr(d)
      coins == Fresh("static-coins", c)
      part == <<suiteOf(d), d, KeyId[Pinned[d]], Fresh("client-nonce", c),
                Ciphertext(Pinned[d], coins)>>
      hello == Hello(part, Hmac(DevicePsk[d], <<LABEL_HELLO, part>>))
  IN
  /\ cpc[d] = "hello"
  /\ s_hello' = [s_hello EXCEPT ![d] = hello]
  /\ ss' = [ss EXCEPT ![d] = Secret(Pinned[d], coins)]
  /\ link' = [link EXCEPT ![c].up = PutUp(c, Frame("ClientHello", hello))]
  /\ cpc' = [cpc EXCEPT ![d] = "await"]
  /\ UNCHANGED <<backlog, listening, cut, disturbed>>
  /\ UNCHANGED <<results, opened, resets, s_frame, session, n, clientHistory>>

\* Fault: the type alone is looked at.
AnyServerHello(d, f) == f.type = "ServerHello"
\* The frame length the firmware accepts for its suite: with ek_eph or without.
RightServerHello(d, f) ==
  /\ f.type = "ServerHello"
  /\ f.body # Ragged
  /\ IsFs(s_hello[d].suite) <=> f.body.ek_eph # NoTerm

\* read_frame returns a frame: a ServerHello of the right length stays in
\* s_frame to be verified, anything else ends the session.
ReadServerHello(d) ==
  LET c == curr(d)
      f == Head(link[c].down)
  IN
  /\ cpc[d] = "await"
  /\ link[c].down # <<>>
  /\ IF RightServerHello(d, f)
     THEN /\ s_frame' = [s_frame EXCEPT ![d] = f.body]
          /\ cpc' = [cpc EXCEPT ![d] = "verify"]
          /\ link' = [link EXCEPT ![c].down = Tail(@)]
          /\ UNCHANGED <<results, runLocals>>
     ELSE /\ Fail(d)
          /\ UNCHANGED s_frame
  /\ UNCHANGED <<backlog, listening, cut, disturbed>>
  /\ UNCHANGED <<opened, resets, s_hello, clientHistory>>

\* Fault: a socket without SO_RCVTIMEO, whose recv only ends with the stream.
ReadFailsAtEnd(d) ==
  LET c == curr(d) IN
  /\ cpc[d] = "await"
  /\ link[c].down = <<>>
  /\ ClientSeesEnd(c)
  /\ Fail(d)
  /\ UNCHANGED <<backlog, listening, cut, disturbed>>
  /\ UNCHANGED <<opened, resets, statics, clientHistory>>
\* read_frame fails: the server's end is closed, or nothing came for
\* CONNECT_TIMEOUT_MS.  The firmware cannot tell the two apart.
ReadFails(d) ==
  LET c == curr(d) IN
  /\ cpc[d] = "await"
  /\ link[c].down = <<>>
  /\ Fail(d)
  /\ disturbed' = IF ClientSeesEnd(c) THEN disturbed ELSE disturbed \cup {c}
  /\ UNCHANGED <<backlog, listening, cut>>
  /\ UNCHANGED <<opened, resets, statics, clientHistory>>

\* The server MAC is verified before anything of the ServerHello is used.
VerifyServerMac(d) ==
  /\ cpc[d] = "verify"
  /\ IF s_frame[d].server_mac
          = ClientExpectedMac(d, s_hello[d], ss[d], s_frame[d])
     THEN /\ cpc' = [cpc EXCEPT ![d] = "finish"]
          /\ UNCHANGED <<results, link, runLocals, refused>>
     ELSE /\ Fail(d)
          /\ refused' = refused \cup {curr(d)}
  /\ UNCHANGED <<backlog, listening, cut, disturbed>>
  /\ UNCHANGED <<opened, resets, statics, established, sent, sealed,
                 encapsulated>>

\* Fault: any 1184 bytes are taken for a key.
AnyKey(ek) == TRUE
\* mlkem768_enc's input check (FIPS 203, section 7.2): the key's coefficients
\* are reduced.
WellFormed(ek) == ek.f # "malformed"

\* Encapsulate to ek_eph in mode B, derive the keys, send ClientFinished and
\* fill in pqc_session_t.
SendClientFinished(d) ==
  LET c == curr(d)
      h == s_hello[d]
      sh == s_frame[d]
      coins == Fresh("eph-coins", c)
      ct_eph == IF IsFs(h.suite) THEN Ciphertext(sh.ek_eph, coins) ELSE NoTerm
      keys == ClientKeys(d, h, ss[d], coins, sh)
      mac == Hmac(keys.cli_confirm,
                  <<ClientTranscript(h, ct_eph, sh), sh.server_mac>>)
      finished == [ct_eph |-> ct_eph, client_mac |-> mac]
  IN
  /\ cpc[d] = "finish"
  /\ IsFs(h.suite) => WellFormed(sh.ek_eph)
  /\ encapsulated' = IF IsFs(h.suite)
                     THEN encapsulated \cup {<<c, sh.ek_eph>>}
                     ELSE encapsulated
  /\ link' = [link EXCEPT ![c].up = PutUp(c, Frame("ClientFinished", finished))]
  /\ session' = [session EXCEPT ![d] = [session_id |-> sh.session_id,
                                        c2s |-> keys.c2s,
                                        send_seq |-> 0]]
  /\ n' = [n EXCEPT ![d] = 0]
  /\ ss' = [ss EXCEPT ![d] = NoTerm]
  /\ cpc' = [cpc EXCEPT ![d] = "data"]
  /\ established' = [established EXCEPT ![c] =
       [suite |-> h.suite, session_id |-> sh.session_id, c2s |-> keys.c2s]]
  /\ UNCHANGED <<backlog, listening, cut, disturbed>>
  /\ UNCHANGED <<results, opened, resets, s_hello, s_frame, sent, sealed,
                 refused>>

\* Fault: only the lowest bit of the sequence number reaches the nonce.
SealTruncated(d) ==
  LET seq == session[d].send_seq
  IN  Seal(session[d].c2s, seq % 2, <<session[d].session_id, seq>>, n[d])
\* The next record: its sequence number is the nonce, and authenticated with
\* the session id.
SealNext(d) ==
  LET seq == session[d].send_seq
  IN  Seal(session[d].c2s, seq, <<session[d].session_id, seq>>, n[d])

\* Record n is sealed under the session key, in s_frame, and written; send_seq
\* advances only once the write has succeeded.
SendRecord(d) ==
  LET c == curr(d)
      record == [seq |-> session[d].send_seq, box |-> SealNext(d)]
  IN
  /\ cpc[d] = "data"
  /\ n[d] < RecordCount
  /\ sealed' = sealed \cup {record.box}
  /\ link' = [link EXCEPT ![c].up = PutUp(c, Frame("Data", record))]
  /\ sent' = [sent EXCEPT ![c] = Append(@, n[d])]
  /\ session' = [session EXCEPT ![d].send_seq = @ + 1]
  /\ n' = [n EXCEPT ![d] = @ + 1]
  /\ s_frame' = [s_frame EXCEPT ![d] = NoTerm]
  /\ UNCHANGED <<backlog, listening, cut, disturbed>>
  /\ UNCHANGED <<runVars, opened, resets, ss, s_hello, established, refused,
                 encapsulated>>

\* After the last record: Close, whose result is ignored, and close().
SendClose(d) ==
  LET c == curr(d) IN
  /\ cpc[d] = "data"
  /\ n[d] = RecordCount
  /\ link' = [link EXCEPT ![c].up = PutUp(c, Frame("Close", NoTerm)),
                          ![c].cli = "closed", ![c].down = <<>>]
  /\ Return(d, TRUE)
  /\ UNCHANGED <<backlog, listening, cut, disturbed>>
  /\ UNCHANGED <<opened, resets, statics, clientHistory>>

\* Every step that computes and writes can fail: encapsulation (no radio, a
\* key FIPS 203 section 7.2 rejects), AES-GCM, or the write.  The session ends
\* there, with or without the ephemeral secret or the box already made.
StepFails(d) ==
  LET c == curr(d) IN
  /\ \/ /\ cpc[d] = "hello"
        /\ UNCHANGED <<sealed, encapsulated, s_frame>>
     \/ /\ cpc[d] = "finish"
        /\ \/ UNCHANGED encapsulated
           \/ /\ IsFs(s_hello[d].suite)
              /\ WellFormed(s_frame[d].ek_eph)
              /\ encapsulated' = encapsulated \cup {<<c, s_frame[d].ek_eph>>}
        /\ UNCHANGED <<sealed, s_frame>>
     \/ /\ cpc[d] = "data"
        /\ n[d] < RecordCount
        /\ sealed' \in {sealed, sealed \cup {SealNext(d)}}
        /\ s_frame' = [s_frame EXCEPT ![d] = NoTerm]
        /\ UNCHANGED encapsulated
  /\ Fail(d)
  /\ disturbed' = disturbed \cup {c}
  /\ UNCHANGED <<backlog, listening, cut>>
  /\ UNCHANGED <<opened, resets, s_hello, established, sent, refused>>

\* The board resets: its static buffers are cleared, its connection is left
\* half open, and app_main starts over.
Reset(d) ==
  /\ resets < MaxResets
  /\ \/ cpc[d] # "idle"
     \/ results[d] # <<>>
  /\ resets' = resets + 1
  /\ cpc' = [cpc EXCEPT ![d] = "idle"]
  /\ results' = [results EXCEPT ![d] = <<>>]
  /\ s_hello' = [s_hello EXCEPT ![d] = NoTerm]
  /\ s_frame' = [s_frame EXCEPT ![d] = NoTerm]
  /\ DropLocals(d)
  /\ IF opened[d] > 0 /\ link[curr(d)].cli = "open"
     THEN /\ link' = [link EXCEPT ![curr(d)].cli = "gone",
                                  ![curr(d)].down = <<>>]
          /\ disturbed' = disturbed \cup {curr(d)}
     ELSE UNCHANGED <<link, disturbed>>
  /\ UNCHANGED <<backlog, listening, cut>>
  /\ UNCHANGED <<opened, clientHistory>>

\* One step of pqc_session_run.
ClientStep(d) ==
  \/ Connect(d) \/ ConnectFails(d) \/ SendClientHello(d)
  \/ ReadServerHello(d) \/ ReadFails(d) \/ VerifyServerMac(d)
  \/ SendClientFinished(d) \/ SendRecord(d) \/ SendClose(d) \/ StepFails(d)
=============================================================================
