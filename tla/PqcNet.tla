------------------------------- MODULE PqcNet -------------------------------
(***************************************************************************)
(* The TCP connections between the devices and the server, as the sockets  *)
(* API shows them to the two programs: connect() completes in the server's *)
(* kernel before accept() is called, each direction is a queue of whole    *)
(* frames, and an end can be open, closed, or gone without a FIN.          *)
(*                                                                         *)
(* Frames are whole because both readers treat a frame that stops in the   *)
(* middle exactly as the end of the stream (recv_all and read_exactly fail *)
(* on a short read), and neither writer sends anything after a failed      *)
(* write.                                                                  *)
(***************************************************************************)
EXTENDS Naturals, Sequences, FiniteSets

CONSTANTS
  Device,      \* the provisioned ESP32-S3 nodes
  MaxConn,     \* bound: how many connections one device opens
  Backlog,     \* connections the kernel queues for accept(), srv.listen(4)
  MaxCuts      \* bound: how many connections lose their network path

Conn == Device \X (1 .. MaxConn)
NoConn == <<>>

ASSUME NetAssumption ==
  /\ MaxConn \in Nat \ {0}
  /\ Backlog \in Nat \ {0}
  /\ MaxCuts \in Nat

(* A frame is its type and its payload.  Close carries no payload.         *)
Frame(type, body) == [type |-> type, body |-> body]

VARIABLES
  link,       \* per connection: both directions and both ends
  backlog,    \* connections waiting for accept(), in arrival order
  listening,  \* the server process holds the listening socket
  cut,        \* connections whose network path is gone
  disturbed   \* history: connections a fault or a timeout has touched

netVars == <<link, backlog, listening, cut, disturbed>>

CliEnd == {"none", "open", "closed", "gone"}
SrvEnd == {"none", "queued", "open", "closed"}

NetTypeOK ==
  /\ DOMAIN link = Conn
  /\ \A c \in Conn :
       /\ link[c].cli \in CliEnd
       /\ link[c].srv \in SrvEnd
       /\ DOMAIN link[c] = {"up", "down", "cli", "srv"}
  /\ backlog \in Seq(Conn)
  /\ listening \in BOOLEAN
  /\ cut \subseteq Conn
  /\ disturbed \subseteq Conn

NetInit ==
  /\ link = [c \in Conn |-> [up |-> <<>>, down |-> <<>>,
                             cli |-> "none", srv |-> "none"]]
  /\ backlog = <<>>
  /\ listening = TRUE
  /\ cut = {}
  /\ disturbed = {}

(* The path to the peer is whole, and the peer's socket still takes bytes. *)
ReachesServer(c) == c \notin cut /\ link[c].srv \in {"queued", "open"}
ReachesClient(c) == c \notin cut /\ link[c].cli = "open"

(* What an end sees of its peer's close: a FIN needs the path, and a board *)
(* that lost power never sends one.                                        *)
\* Fault: the server takes a timeout for the end of the stream.
ServerSeesSilence(c) == TRUE
ServerSeesEnd(c) == c \notin cut /\ link[c].cli = "closed"
ClientSeesEnd(c) == c \notin cut /\ link[c].srv = "closed"

(* A write returns as soon as the kernel has the bytes: when the peer is   *)
(* out of reach it still succeeds, and the frame goes nowhere.             *)
PutUp(c, f) == IF ReachesServer(c) THEN Append(link[c].up, f) ELSE link[c].up
PutDown(c, f) ==
  IF ReachesClient(c) THEN Append(link[c].down, f) ELSE link[c].down

(***************************************************************************)
(* The network path of a connection goes away (the access point restarts,  *)
(* a NAT entry expires).  What the receiving kernel already holds stays    *)
(* readable, the rest of each direction is lost.                           *)
(***************************************************************************)
Cut(c) ==
  /\ Cardinality(cut) < MaxCuts
  /\ c \notin cut
  /\ "open" \in {link[c].cli, link[c].srv}
  /\ \E m \in 0 .. Len(link[c].up), n \in 0 .. Len(link[c].down) :
       link' = [link EXCEPT ![c].up = SubSeq(@, 1, m),
                            ![c].down = SubSeq(@, 1, n)]
  /\ cut' = cut \cup {c}
  /\ disturbed' = disturbed \cup {c}
  /\ UNCHANGED <<backlog, listening>>
=============================================================================
