---------------------------- MODULE MCStackProbe ----------------------------
(***************************************************************************)
(* An instance of StackProbe for TLC: three operations.                    *)
(***************************************************************************)
EXTENDS StackProbe, TLC

CONSTANTS k512, k768, x25519

TwoKems == <<k512, k768>>
OneExchange == <<x25519>>
ThreeCosts == (k512 :> 7) @@ (k768 :> 10) @@ (x25519 :> 10)
=============================================================================
