---------------------------- MODULE MCPqcSession ----------------------------
(***************************************************************************)
(* Instances of PqcSession for TLC: what the devices' firmware and the     *)
(* gateway were provisioned with.                                          *)
(***************************************************************************)
EXTENDS PqcSession, TLC

CONSTANTS k1, k2, k3,      \* static key pairs; the gateway holds k1
          p1, p2,          \* PSKs
          d1, d2, d3       \* devices

\* app_main's two runs, and one run of each.
RunsAB == <<"MLKEM768", "MLKEM768_FS">>
RunsA == <<"MLKEM768">>
RunsB == <<"MLKEM768_FS">>

\* A key id is four bytes of a hash: k2's collides with k1's, k3's does not.
KeyIds == (k1 :> 1) @@ (k2 :> 1) @@ (k3 :> 2)

\* Every device pinned and registered as the gateway expects.
PinnedGood == [d \in Device |-> k1]
PskGood == [d \in Device |-> p1]
TableGood == [d \in Device |-> p1]
NoUpdate == <<>>

\* d1 pins another key with the same id and is registered only while the
\* server runs; d2 was registered with a PSK it does not hold, and is registered
\* again; d3 pins a key with another id.
PinnedMixed == (d1 :> k2) @@ (d2 :> k1) @@ (d3 :> k3)
PskMixed == [d \in Device |-> p1]
TableMixed == (d1 :> NoPsk) @@ (d2 :> p2) @@ (d3 :> p1)
UpdateMixed == (d1 :> p1) @@ (d2 :> p1)
=============================================================================
