------------------------------ MODULE MCCmfKeys ------------------------------
(***************************************************************************)
(* Every known build, called with header counts on both sides of the sign  *)
(* bit, with a keytable that takes every byte value and with digests at    *)
(* both ends of a byte.                                                    *)
(***************************************************************************)
EXTENDS CmfKeys

MCHeaders ==
  { [DataCount |-> 7, EntryCount |-> 11, version |-> 20],
    [DataCount |-> MaxInt32, EntryCount |-> -20, version |-> 200] }
MCKeytables == <<[j \in 0..511 |-> (7 * j + 5) % 256]>>
MCDigests   == <<[j \in 0..19 |-> (13 * j + 200) % 256], [j \in 0..19 |-> 0],
                 [j \in 0..19 |-> 255]>>
==============================================================================
