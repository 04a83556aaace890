----------------------------- MODULE PqcSession -----------------------------
(***************************************************************************)
(* The whole of PQC-IoT-1: devices running PqcClient, the gateway running  *)
(* PqcServer, and the connections of PqcNet between them, with resets,     *)
(* lost network paths, timeouts on both sides, server exits and kills.     *)
(*                                                                         *)
(* Properties say what the two programs together must never do, and what   *)
(* they must eventually do whatever fails.                                 *)
(***************************************************************************)
EXTENDS PqcClient, PqcServer, SequencesExt

vars == <<netVars, cliVars, srvVars>>

Init == NetInit /\ ClientInit /\ ServerInit

DeviceStep(d) == ClientStep(d) /\ UNCHANGED srvVars
DeviceReset(d) == Reset(d) /\ UNCHANGED srvVars
GatewayStep == (Accept \/ HandleStep) /\ UNCHANGED cliVars
GatewayFault == (UncaughtException \/ Kill) /\ UNCHANGED cliVars
GatewayRestart == Restart /\ UNCHANGED cliVars
Provision(d) == Register(d) /\ UNCHANGED cliVars
PathLost(c) == Cut(c) /\ UNCHANGED <<cliVars, srvVars>>

Next ==
  \/ \E d \in Device : DeviceStep(d) \/ DeviceReset(d) \/ Provision(d)
  \/ \E c \in Conn : PathLost(c)
  \/ GatewayStep \/ GatewayFault \/ GatewayRestart

Spec == Init /\ [][Next]_vars

(***************************************************************************)
(* Fairness.  A device that is powered keeps executing: every recv returns *)
(* within CONNECT_TIMEOUT_MS, so some step of pqc_session_run is always    *)
(* taken.  So does a running server, whose recv returns within 20 seconds. *)
(* Nothing makes a board reset, a path fail, or a dead server restart.     *)
(***************************************************************************)
Fairness == /\ \A d \in Device : WF_vars(DeviceStep(d))
            /\ WF_vars(GatewayStep)

FairSpec == Spec /\ Fairness

-----------------------------------------------------------------------------
(* Types.                                                                  *)
TypeOK == NetTypeOK /\ ClientTypeOK /\ ServerTypeOK

(***************************************************************************)
(* Safety.                                                                 *)
(***************************************************************************)
owner(c) == c[1]

\* A correctly provisioned device is never refused: every check that fails
\* names a difference between the device's firmware and the gateway.  The C
\* firmware and the Python server derive every MAC and key separately, so this
\* is where a label, an order of concatenation or a stage that differs shows.
OnlyMismatchRefused ==
  /\ \A c \in Conn :
       /\ verdict[c] = "wrong-key" => KeyId[Pinned[owner(c)]] # ServerKeyId
       /\ verdict[c] = "unknown-device" => looked[c] = NoPsk
       /\ verdict[c] = "psk-mac" => looked[c] # DevicePsk[owner(c)]
       /\ verdict[c] \notin {"client-mac", "bad-frame", "bad-record"}
  /\ \A c \in refused : Pinned[owner(c)] # ServerKey

\* When the gateway accepts a handshake, the device has completed the same one:
\* same suite, session id and record key.  No two connections share a key.
AgreeOnKeys ==
  /\ \A c \in Conn : accepted[c] # NotAccepted => accepted[c] = established[c]
  /\ \A c1, c2 \in Conn :
       /\ established[c1] # NotAgreed
       /\ established[c1].c2s = established[c2].c2s
       => c1 = c2

\* AES-GCM never sees one nonce twice under one key, across records, sessions,
\* both modes and resets: two boxes with the same key and nonce are the same.
NonceOnce ==
  \A b1, b2 \in sealed : b1.key = b2.key /\ b1.nonce = b2.nonce => b1 = b2

\* What the gateway delivered from a connection is a prefix of what its device
\* sent on it, and it delivers only from a device whose MAC it has verified.
DeliveredInOrder ==
  \A c \in Conn :
    /\ IsPrefix(delivered[c], sent[c])
    /\ delivered[c] # <<>> => accepted[c] # NotAccepted

\* The server logs "session closed" only when it has every record the device
\* sent on that connection, although it takes the end of the stream for a Close
\* and a device that stops early ends the stream too.
ClosedIsComplete ==
  \A c \in Conn : verdict[c] = "closed" => delivered[c] = sent[c]

\* No ML-KEM work for a peer without the PSK of a registered device: kem_ct is
\* decapsulated only after the key id and the PSK MAC have been checked.
NoWorkForStrangers ==
  \A c \in decapsulated : /\ KeyId[Pinned[owner(c)]] = ServerKeyId
                          /\ looked[c] = DevicePsk[owner(c)]

\* The device encapsulates only to the ephemeral key the pinned server made for
\* this very connection.
EncapsulatesToTheServer ==
  \A e \in encapsulated : /\ e[2] = EphKey(e[1])
                          /\ Pinned[owner(e[1])] = ServerKey
                          /\ e[1] \in decapsulated

\* An ephemeral private key is on disk only between ServerHello and
\* ClientFinished of the connection being handled: "an ephemeral key that
\* outlives its session is no longer ephemeral" (pqc_server.py).
EphemeralErased ==
  \A c \in ephFiles : conn = c /\ spc = "finished"

(***************************************************************************)
(* Liveness.                                                               *)
(***************************************************************************)
\* Every device gets to the end of app_main, whatever fails around it.
RunsEnd == \A d \in Device : <>[](cpc[d] = "done")

\* A connection never holds the server for good: the next one is accepted or
\* the process is gone.
ServerReturns == (spc \notin {"accept", "down"}) ~> (spc \in {"accept", "down"})

\* When pqc_session_run returned true on a connection nothing disturbed, the
\* gateway delivers every record and sees the close.
CleanDelivery ==
  \A c \in Conn :
    (/\ Len(sent[c]) = RecordCount
     /\ link[c].cli = "closed"
     /\ c \notin disturbed)
    ~> (\/ delivered[c] = sent[c] /\ verdict[c] = "closed"
        \/ c \in disturbed)

(***************************************************************************)
(* Refinement.  A connection is a RecordChannel whose secret is the record *)
(* key and session id the handshake agreed on.                             *)
(***************************************************************************)
agreedSecret(a) == [c2s |-> a.c2s, session_id |-> a.session_id]

Channels == INSTANCE RecordChannel WITH
  Channel <- Conn,
  Record <- 0 .. RecordCount - 1,
  NoSecret <- agreedSecret(NotAgreed),
  device <- [c \in Conn |-> agreedSecret(established[c])],
  gateway <- [c \in Conn |-> agreedSecret(accepted[c])],
  ended <- {c \in Conn : verdict[c] # "none"}

\* Every behaviour of the two programs is a behaviour of the record channels.
ChannelSpec == Channels!Spec
=============================================================================
