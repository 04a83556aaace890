----------------------------- MODULE TestClient -----------------------------
(***************************************************************************)
(* server/test_client.py: a client for the gateway that either sends three *)
(* records and closes, or goes wrong in one of six ways the gateway must   *)
(* reject (--negative).  The cases share nothing but the server, so a      *)
(* behaviour has one of them, on one connection.                           *)
(***************************************************************************)
EXTENDS PqcNet, PqcKeys

CONSTANTS
  Tester,      \* the client's end, and an id no table holds
  FirstDevice, \* the first device of devices.json
  FirstPsk,    \* and its PSK
  TestKey,     \* --server-pubkey
  TestKeyId

VARIABLES
  t_case,    \* which case is run
  t_suite,   \* --suite
  tpc,       \* where in handshake, or in the case's own calls, it is
  t_hello,   \* the ClientHello sent
  t_keys,    \* after the handshake: session_id and c2s
  t_sent,    \* records written
  t_verdict  \* what is printed for the case

testVars == <<t_case, t_suite, tpc, t_hello, t_keys, t_sent, t_verdict>>

tconn == <<Tester, 1>>

Negative == {"forged-PSK-MAC", "unknown-device_id", "wrong-PSK",
             "forged-ClientFinished", "replayed-data-record",
             "tampered-ciphertext"}
Case == Negative \cup {"happy-path"}

TestInit ==
  /\ t_case \in Case /\ t_suite \in {"MLKEM768", "MLKEM768_FS"}
  /\ tpc = "start" /\ t_hello = NoTerm /\ t_keys = NoTerm /\ t_sent = 0
  /\ t_verdict = "none"

t_device == IF t_case = "unknown-device_id" THEN Tester ELSE FirstDevice
t_psk == IF t_case = "wrong-PSK" THEN Fresh("random-psk", tconn) ELSE FirstPsk
t_ss == Secret(TestKey, Fresh("static-coins", tconn))

\* The records a case writes, as numbers; tampered with on the way, or twice.
Writes == CASE t_case = "happy-path" -> <<0, 1, 2>>
            [] t_case = "replayed-data-record" -> <<0, 0>>
            [] t_case \in {"forged-ClientFinished", "tampered-ciphertext"} -> <<0>>
            [] OTHER -> <<>>

\* A case ends: expect_rejection prints "rejected" for whatever exception, and
\* the socket is closed with the last reference to it.
TestEnds(verdict_) ==
  /\ t_verdict' = verdict_
  /\ tpc' = "over"
  /\ link' = IF tpc = "start" THEN link
             ELSE [link EXCEPT ![tconn].cli = "closed", ![tconn].down = <<>>]
Raises == TestEnds(IF t_case \in Negative THEN "rejected" ELSE "crashed")

TestConnect ==
  /\ tpc = "start"
  /\ listening
  /\ Len(backlog) < Backlog
  /\ link' = [link EXCEPT ![tconn].cli = "open", ![tconn].srv = "queued"]
  /\ backlog' = Append(backlog, tconn)
  /\ tpc' = "hello"
  /\ UNCHANGED <<listening, cut, disturbed>>
  /\ UNCHANGED <<t_case, t_suite, t_hello, t_keys, t_sent, t_verdict>>

TestSendHello ==
  LET part == <<t_suite, t_device, TestKeyId, Fresh("client-nonce", tconn),
                Ciphertext(TestKey, Fresh("static-coins", tconn))>>
      mac == hello_mac(t_psk, part)
      h == Hello(part, IF t_case = "forged-PSK-MAC" THEN Flipped(mac) ELSE mac)
  IN
  /\ tpc = "hello"
  /\ t_hello' = h
  /\ link' = [link EXCEPT ![tconn].up = PutUp(tconn, Frame("ClientHello", h))]
  /\ tpc' = "await"
  /\ UNCHANGED <<backlog, listening, cut, disturbed>>
  /\ UNCHANGED <<t_case, t_suite, t_keys, t_sent, t_verdict>>

\* The rest of handshake: the frame is a ServerHello of its suite's length whose
\* MAC verifies, or the case is over.  ClientFinished answers it, with a flipped
\* MAC when that is the case.
TestHandshake ==
  LET f == Head(link[tconn].down)
      sh == f.body
      fs == SuiteFs(t_suite)
      coins == Fresh("eph-coins", tconn)
      th2 == transcript_2(t_hello, sh.server_nonce, sh.session_id, sh.ek_eph)
      nonce == t_hello.client_nonce
      stage1 == derive_keys(t_ss, t_psk, nonce, sh.server_nonce, th2)
      srv_confirm == IF fs THEN derive_stage1(t_ss, t_psk, nonce,
                                              sh.server_nonce, th2)
                           ELSE stage1.srv_confirm
      ct_eph == IF fs THEN Ciphertext(sh.ek_eph, coins) ELSE NoTerm
      th == IF fs THEN transcript_3(th2, ct_eph) ELSE th2
      all == IF fs THEN derive_stage2(t_ss, Secret(sh.ek_eph, coins), t_psk,
                                      nonce, sh.server_nonce, th)
                   ELSE stage1
      mac == Hmac(all.cli_confirm, <<th, sh.server_mac>>)
      finished == [ct_eph |-> ct_eph,
                   client_mac |-> IF t_case = "forged-ClientFinished"
                                  THEN Flipped(mac) ELSE mac]
  IN
  /\ tpc = "await"
  /\ link[tconn].down # <<>>
  /\ IF /\ f.type = "ServerHello"
        /\ fs <=> sh.ek_eph # NoTerm
        /\ sh.server_mac = Hmac(srv_confirm, <<th2>>)
     THEN /\ link' = [link EXCEPT
                 ![tconn].down = Tail(@),
                 ![tconn].up = PutUp(tconn, Frame("ClientFinished", finished))]
          /\ t_keys' = [session_id |-> sh.session_id, c2s |-> all.c2s]
          /\ tpc' = "records"
          /\ UNCHANGED t_verdict
     ELSE Raises /\ UNCHANGED t_keys
  /\ UNCHANGED <<backlog, listening, cut, disturbed>>
  /\ UNCHANGED <<t_case, t_suite, t_hello, t_sent>>

\* A record; the replayed one is byte-identical, sequence number included.
TestRecord ==
  LET seq == Writes[t_sent + 1]
      box == Seal(t_keys.c2s, seq, <<t_keys.session_id, seq>>, seq)
      wire == IF t_case = "tampered-ciphertext"
              THEN [box EXCEPT !.key = Flipped(@)] ELSE box
  IN
  /\ tpc = "records"
  /\ t_sent < Len(Writes)
  /\ link' = [link EXCEPT ![tconn].up =
                PutUp(tconn, Frame("Data", [seq |-> seq, box |-> wire]))]
  /\ t_sent' = t_sent + 1
  /\ UNCHANGED <<backlog, listening, cut, disturbed>>
  /\ UNCHANGED <<t_case, t_suite, tpc, t_hello, t_keys, t_verdict>>

\* After its records.  The happy path closes and passes.  A case whose handshake
\* should have failed returns, and is "accepted".  The three that write data
\* wait 5 s for the end of the stream, and raise whether it comes or not: both
\* "server closed on replay" and "connection still open" are a ProtocolError.
TestReturns ==
  /\ tpc = "records"
  /\ t_sent = Len(Writes)
  /\ \/ /\ t_case = "happy-path"
        /\ t_verdict' = "passed"
        /\ tpc' = "over"
        /\ link' = [link EXCEPT ![tconn].up = PutUp(tconn, Frame("Close", NoTerm)),
                                ![tconn].cli = "closed", ![tconn].down = <<>>]
     \/ t_case # "happy-path" /\ Writes = <<>> /\ TestEnds("accepted")
     \/ t_case # "happy-path" /\ Writes # <<>> /\ Raises
  /\ UNCHANGED <<backlog, listening, cut, disturbed>>
  /\ UNCHANGED <<t_case, t_suite, t_hello, t_keys, t_sent>>

\* No connection, or a read or a write fails: no server, a server that has
\* closed, or 20 s have passed.
TestFails ==
  /\ tpc \in {"start", "hello", "await", "records"}
  /\ tpc = "await" => link[tconn].down = <<>>
  /\ tpc = "records" => t_sent < Len(Writes)
  /\ Raises
  /\ UNCHANGED <<backlog, listening, cut, disturbed>>
  /\ UNCHANGED <<t_case, t_suite, t_hello, t_keys, t_sent>>

TestStep == \/ TestConnect \/ TestSendHello \/ TestHandshake \/ TestRecord
            \/ TestReturns \/ TestFails
=============================================================================
