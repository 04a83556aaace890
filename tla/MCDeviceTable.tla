--------------------------- MODULE MCDeviceTable ---------------------------
(***************************************************************************)
(* Instances of DeviceTable for TLC: three devices, one of them registered *)
(* from the beginning.                                                     *)
(***************************************************************************)
EXTENDS DeviceTable

CONSTANTS d0, d1, d2, p0, p1, p2, r1, r2

Jobs == [r \in Registrar |-> IF r = r1 THEN [device |-> d1, psk |-> p1]
                                       ELSE [device |-> d2, psk |-> p2]]

OneEntry == [d \in Device |-> IF d = d0 THEN p0 ELSE NoPsk]
HalfTyped == [d \in Device |-> IF d = d1 THEN ShortPsk ELSE OneEntry[d]]

OneDevice == [psks |-> OneEntry, whole |-> TRUE, size |-> 1, private |-> TRUE,
              exists |-> TRUE, mtime |-> 1]
NoFile == [psks |-> NoTable, whole |-> FALSE, size |-> 0, private |-> FALSE,
           exists |-> FALSE, mtime |-> 0]

NoEdits == {}
MidEdit == {[psks |-> HalfTyped, whole |-> TRUE, size |-> 2, private |-> TRUE],
            [psks |-> OneEntry, whole |-> TRUE, size |-> 1, private |-> FALSE]}
=============================================================================
