---------------------------- MODULE MCRejections ----------------------------
(***************************************************************************)
(* Instances of Rejections for TLC: one board, and the test client's own   *)
(* end of its connection.                                                  *)
(***************************************************************************)
EXTENDS Rejections, TLC

CONSTANTS k1, p1,         \* the gateway's key pair, and the board's PSK
          board, tester

RunsAB == <<"MLKEM768", "MLKEM768_FS">>
KeyIds == k1 :> 1
PinnedGood == [d \in Device |-> k1]
PskGood == [d \in Device |-> p1]
TableGood == (board :> p1) @@ (tester :> NoPsk)
NoUpdate == <<>>
=============================================================================
