---------------------------- MODULE RogueServer ----------------------------
(***************************************************************************)
(* server/rogue_server.py: a server that misbehaves on purpose, started in *)
(* place of the real one, with the real one's private key and device       *)
(* table.  It serves a given number of connections and exits.              *)
(***************************************************************************)
EXTENDS PqcNet, PqcKeys

CONSTANTS
  RogueKey,  \* the key pair in server_dk.pem
  RoguePsk   \* the PSK of the table's first device

VARIABLES
  rpc,       \* where the rogue is: "down", "accept", or in handle
  mode,      \* --mode
  left,      \* connections it has still to serve
  r_conn,    \* the connection it handles
  store,     \* REPLAY_STORE: a recorded ServerHello
  attacked   \* history: connections answered with what the mode is named for

rogueVars == <<rpc, mode, left, r_conn, store, attacked>>

FS_ONLY_MODES == {"bad-ek", "swap-ek"}
RogueMode == {"wrong-mac", "impostor", "replay", "bad-type", "bad-length",
              "truncate", "silence"} \cup FS_ONLY_MODES

\* What an earlier drill may have left in REPLAY_STORE.
EarlierHello == [server_nonce |-> Fresh("rogue-nonce", NoConn),
                 session_id |-> Fresh("rogue-session-id", NoConn),
                 ek_eph |-> NoTerm, server_mac |-> Fresh("earlier-MAC", NoConn)]

RogueInit == /\ rpc = "down" /\ mode = "none" /\ left = 0
             /\ r_conn = NoConn /\ attacked = {}
             /\ store \in {NoTerm, EarlierHello}

\* The MAC is computed over ek_eph, and ek_on_wire is sent.
build_valid_server_hello(h, secret, ek_eph, ek_on_wire) ==
  LET sn == Fresh("rogue-nonce", r_conn)
      sid == Fresh("rogue-session-id", r_conn)
      th2 == transcript_2(h, sn, sid, ek_eph)
      srv_confirm ==
        IF SuiteFs(h.suite)
        THEN derive_stage1(secret, RoguePsk, h.client_nonce, sn, th2)
        ELSE derive_keys(secret, RoguePsk, h.client_nonce, sn, th2).srv_confirm
  IN  [server_nonce |-> sn, session_id |-> sid, ek_eph |-> ek_on_wire,
       server_mac |-> Hmac(srv_confirm, <<th2>>)]

make_ephemeral == Fresh("rogue-eph-key", r_conn)
other_ek == Fresh("other-rogue-eph-key", r_conn)
malformed == [f |-> "malformed", a |-> <<make_ephemeral>>]
make_impostor_key == Fresh("impostor-key", r_conn)

\* The frames handle answers a ClientHello with.
Honest(h) ==
  build_valid_server_hello(h, Decaps(RogueKey, h.kem_ct), NoTerm, NoTerm)

Payload(h) ==
  LET ss_static == Decaps(RogueKey, h.kem_ct) IN
  CASE mode = "bad-ek" ->
         build_valid_server_hello(h, ss_static, malformed, malformed)
    [] mode = "swap-ek" ->
         build_valid_server_hello(h, ss_static, make_ephemeral, other_ek)
    [] mode = "impostor" ->
         build_valid_server_hello(h, Decaps(make_impostor_key, h.kem_ct),
                                  NoTerm, NoTerm)
    [] mode = "wrong-mac" -> [Honest(h) EXCEPT !.server_mac = Flipped(@)]
    [] mode = "bad-length" -> Ragged
    [] mode = "replay" /\ store # NoTerm -> store
    [] OTHER -> Honest(h)

\* Mode A is served honestly when the attack targets mode B, and the first
\* round of a replay records.
Attacks(h) ==
  /\ mode \in FS_ONLY_MODES => SuiteFs(h.suite)
  /\ mode = "replay" => store # NoTerm

Answers(h) ==
  CASE mode \in {"truncate", "silence"} -> <<>>
    [] mode = "bad-type" -> <<Frame("0x42", NoTerm)>>
    [] OTHER -> <<Frame("ServerHello", IF Attacks(h) THEN Payload(h) ELSE Honest(h))>>

\* Fault: "served <= args.connections".
OneMore == left = 0
\* The connection being served is the last of args.connections.
LastOne == left = 1

\* What is left to send is sent, and main's finally clause closes the connection.
\* After the last one the process ends: the kernel closes what was queued.
Served(frames) ==
  LET queued == {c \in Conn : LastOne /\ link[c].srv = "queued"}
      sent_ == IF ReachesClient(r_conn) THEN frames ELSE <<>>
  IN
  /\ link' = [c \in Conn |->
       IF c \in queued \cup {r_conn}
       THEN [link[c] EXCEPT !.srv = "closed", !.up = <<>>,
                            !.down = IF c = r_conn THEN @ \o sent_ ELSE @]
       ELSE link[c]]
  /\ left' = left - 1
  /\ rpc' = IF LastOne THEN "down" ELSE "accept"
  /\ r_conn' = NoConn
  /\ listening' = ~LastOne
  /\ backlog' = IF LastOne THEN <<>> ELSE backlog

RogueAccept ==
  /\ rpc = "accept"
  /\ backlog # <<>>
  /\ r_conn' = Head(backlog)
  /\ backlog' = Tail(backlog)
  /\ link' = [link EXCEPT ![Head(backlog)].srv = "open"]
  /\ rpc' = "read"
  /\ UNCHANGED <<listening, cut, disturbed, mode, left, store, attacked>>

\* handle reads a ClientHello, answers it in its mode's way and is done.  In
\* silence it sleeps first; after an honest mode A in a mode B attack it waits
\* for the client to go on.
RogueHandle ==
  LET h == Head(link[r_conn].up).body
      stays == \/ mode = "silence"
               \/ mode \in FS_ONLY_MODES /\ ~SuiteFs(h.suite)
  IN
  /\ rpc = "read"
  /\ link[r_conn].up # <<>>
  /\ Head(link[r_conn].up).type = "ClientHello"
  /\ attacked' = IF Attacks(h) THEN attacked \cup {r_conn} ELSE attacked
  /\ store' = IF mode = "replay" /\ ~Attacks(h) THEN Payload(h) ELSE store
  /\ IF stays
     THEN /\ rpc' = "stay"
          /\ link' = [link EXCEPT ![r_conn].up = Tail(@),
                        ![r_conn].down = IF ReachesClient(r_conn)
                                         THEN @ \o Answers(h) ELSE @]
          /\ UNCHANGED <<left, r_conn, listening, backlog>>
     ELSE Served(Answers(h))
  /\ UNCHANGED <<cut, disturbed, mode>>

\* No ClientHello within 30 s, another frame, or openssl fails; or what it
\* stayed for is over.
RogueGivesUp ==
  /\ rpc \in {"read", "stay"}
  /\ Served(<<>>)
  /\ UNCHANGED <<cut, disturbed, mode, store, attacked>>

RogueStep == RogueAccept \/ RogueHandle \/ RogueGivesUp
=============================================================================
