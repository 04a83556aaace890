------------------------------ MODULE PqcTerms ------------------------------
(***************************************************************************)
(* Symbolic cryptography for PQC-IoT-1.                                    *)
(*                                                                         *)
(* A byte string is a term: a record whose field f names the function that *)
(* made it and whose field a is the tuple of what it was made from.  Two   *)
(* terms are equal exactly when they were made the same way from equal     *)
(* parts, which is what collision resistance, the injectivity of the       *)
(* fixed-length concatenations and the freshness of random draws give.     *)
(* Names such as PSKs and static public keys are model values.             *)
(*                                                                         *)
(* Here and in the modules built on this one, a definition whose comment   *)
(* starts with "Fault:" is no part of the specification.  It is the next   *)
(* definition with a plausible bug in it, kept to see that a property      *)
(* fails when the code has that bug.                                       *)
(***************************************************************************)

(* A random draw is named by what it is used for and the connection it was *)
(* drawn for: esp_fill_random, secrets.token_bytes and the coins of an     *)
(* encapsulation never return the same bytes twice.                        *)
\* Fault: a generator that starts from the same state at every boot.
FreshPerDevice(use, c) == [f |-> use, a |-> c[1]]
Fresh(use, c) == [f |-> use, a |-> c]

Sha256(parts) == [f |-> "sha256", a |-> parts]
Hmac(key, parts) == [f |-> "hmac", a |-> <<key, parts>>]
HkdfExtract(salt, ikm) == [f |-> "extract", a |-> <<salt, ikm>>]
HkdfExpand(prk, label, th) == [f |-> "expand", a |-> <<prk, label, th>>]

(***************************************************************************)
(* ML-KEM.  A key pair is named by its public key.  Decapsulating with the *)
(* wrong private key does not fail: it returns the implicit-rejection      *)
(* secret, a pseudorandom function of the private key and the ciphertext.  *)
(***************************************************************************)
Ciphertext(ek, coins) == [f |-> "ct", a |-> <<ek, coins>>]
Secret(ek, coins) == [f |-> "ss", a |-> <<ek, coins>>]

Decaps(pair, ct) == IF ct.a[1] = pair
                    THEN Secret(ct.a[1], ct.a[2])
                    ELSE [f |-> "reject", a |-> <<pair, ct>>]

(* AES-256-GCM: opening succeeds only with the key, nonce and associated   *)
(* data the box was sealed with.                                           *)
Seal(key, seq, aad, plain) ==
  [key |-> key, nonce |-> seq, aad |-> aad, plain |-> plain]

Opens(box, key, seq, aad) ==
  /\ box.key = key
  /\ box.nonce = seq
  /\ box.aad = aad

\* The absent term: an empty field, a cleared buffer.
NoTerm == [f |-> "none", a |-> <<>>]

\* A bit of a field flipped on purpose, and a payload that is not as long as any
\* message of its type.
Flipped(term) == [f |-> "flipped", a |-> <<term>>]
Ragged == [f |-> "ragged", a |-> <<>>]

\* A ClientHello: the fields its MAC covers, in wire order, and the MAC.
Hello(part, mac) ==
  [suite |-> part[1], device |-> part[2], key_id |-> part[3],
   client_nonce |-> part[4], kem_ct |-> part[5], psk_mac |-> mac]
SignedPart(h) == <<h.suite, h.device, h.key_id, h.client_nonce, h.kem_ct>>

(* The labels both ends derive under.                                      *)
LABEL_HELLO == "hello"
LABEL_SRV_CONFIRM == "server-confirm"
LABEL_CLI_CONFIRM == "client-confirm"
LABEL_C2S == "c2s"
LABEL_S2C == "s2c"
=============================================================================
