--------------------------- MODULE RecordChannel ---------------------------
(***************************************************************************)
(* What a PQC-IoT-1 connection promises, without messages or cryptography: *)
(* a one-way channel of telemetry records from a device to the gateway.    *)
(*                                                                         *)
(* The device opens it under a secret no other channel has; the gateway    *)
(* can join only an open channel, and then holds the same secret.  Records *)
(* are delivered one at a time, each exactly once, in the order sent, to a *)
(* gateway that has joined.  Either end may stop at any point, and a       *)
(* channel the gateway has ended delivers nothing more.                    *)
(***************************************************************************)
EXTENDS Naturals, Sequences

CONSTANTS
  Channel,  \* one per connection
  Record,   \* what the device may send
  NoSecret  \* what an end holds before the channel is open at that end

VARIABLES
  device,    \* per channel, the secret its device holds
  gateway,   \* per channel, the secret the gateway holds for it
  ended,     \* channels the gateway has ended
  sent,      \* per channel, the records the device has sent
  delivered  \* per channel, the records the gateway has delivered

vars == <<device, gateway, ended, sent, delivered>>

Init ==
  /\ device = [c \in Channel |-> NoSecret]
  /\ gateway = [c \in Channel |-> NoSecret]
  /\ ended = {}
  /\ sent = [c \in Channel |-> <<>>]
  /\ delivered = [c \in Channel |-> <<>>]

\* The device opens the channel under a secret of its own.
Open(c) ==
  /\ device[c] = NoSecret
  /\ device'[c] # NoSecret
  /\ \A other \in Channel \ {c} : /\ device'[other] = device[other]
                                  /\ device'[c] # device[other]
  /\ DOMAIN device' = Channel
  /\ UNCHANGED <<gateway, ended, sent, delivered>>

Join(c) ==
  /\ device[c] # NoSecret
  /\ gateway[c] = NoSecret
  /\ c \notin ended
  /\ gateway' = [gateway EXCEPT ![c] = device[c]]
  /\ UNCHANGED <<device, ended, sent, delivered>>

Send(c) ==
  /\ device[c] # NoSecret
  /\ \E r \in Record : sent' = [sent EXCEPT ![c] = Append(@, r)]
  /\ UNCHANGED <<device, gateway, ended, delivered>>

Deliver(c) ==
  /\ gateway[c] # NoSecret
  /\ c \notin ended
  /\ Len(delivered[c]) < Len(sent[c])
  /\ delivered' = [delivered EXCEPT ![c] =
                     Append(@, sent[c][Len(delivered[c]) + 1])]
  /\ UNCHANGED <<device, gateway, ended, sent>>

End(c) ==
  /\ c \notin ended
  /\ ended' = ended \cup {c}
  /\ UNCHANGED <<device, gateway, sent, delivered>>

Next == \E c \in Channel :
          Open(c) \/ Join(c) \/ Send(c) \/ Deliver(c) \/ End(c)

Spec == Init /\ [][Next]_vars
=============================================================================
