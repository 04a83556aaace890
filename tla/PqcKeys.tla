------------------------------ MODULE PqcKeys ------------------------------
(***************************************************************************)
(* The transcripts, MACs and keys of PQC-IoT-1 as server/protocol.py       *)
(* derives them, from the raw ClientHello (h), the PSK (k) and the secrets *)
(* decapsulated (s, sEph).  The gateway, the rogue server and the test     *)
(* client all import these; the firmware has its own (PqcClient).          *)
(***************************************************************************)
EXTENDS PqcTerms

SuiteFs(suite) == suite = "MLKEM768_FS"

transcript_2(h, sn, sid, ek) == Sha256(<<h, sn, sid, ek>>)
transcript_3(th2, ct) == Sha256(<<th2, ct>>)
\* Fault: the MAC without its label.
hello_mac_unlabelled(k, part) == Hmac(k, <<part>>)
hello_mac(k, part) == Hmac(k, <<LABEL_HELLO, part>>)

derive_stage1(s, k, cn, sn, th2) ==
  HkdfExpand(HkdfExtract(<<cn, sn>>, <<s, k>>), LABEL_SRV_CONFIRM, th2)

\* Fault: the two directions' labels exchanged.
derive_keys_swapped(s, k, cn, sn, th2) ==
  LET prk == HkdfExtract(<<cn, sn>>, <<s, k>>)
  IN  [srv_confirm |-> HkdfExpand(prk, LABEL_SRV_CONFIRM, th2),
       cli_confirm |-> HkdfExpand(prk, LABEL_CLI_CONFIRM, th2),
       c2s |-> HkdfExpand(prk, LABEL_S2C, th2)]
derive_keys(s, k, cn, sn, th2) ==
  LET prk == HkdfExtract(<<cn, sn>>, <<s, k>>)
  IN  [srv_confirm |-> HkdfExpand(prk, LABEL_SRV_CONFIRM, th2),
       cli_confirm |-> HkdfExpand(prk, LABEL_CLI_CONFIRM, th2),
       c2s |-> HkdfExpand(prk, LABEL_C2S, th2)]

\* Fault: the two directions' labels exchanged.
derive_stage2_swapped(s, sEph, k, cn, sn, th3) ==
  LET prk == HkdfExtract(<<cn, sn>>, <<s, sEph, k>>)
  IN  [cli_confirm |-> HkdfExpand(prk, LABEL_CLI_CONFIRM, th3),
       c2s |-> HkdfExpand(prk, LABEL_S2C, th3)]
derive_stage2(s, sEph, k, cn, sn, th3) ==
  LET prk == HkdfExtract(<<cn, sn>>, <<s, sEph, k>>)
  IN  [cli_confirm |-> HkdfExpand(prk, LABEL_CLI_CONFIRM, th3),
       c2s |-> HkdfExpand(prk, LABEL_C2S, th3)]
=============================================================================
