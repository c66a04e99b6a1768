------------------------- MODULE MCDatastoreManager -------------------------
(* Small instances of DatastoreManager for TLC: two keys, the second one only *)
(* for the last transaction and the last repair.                            *)
EXTENDS DatastoreManager

CONSTANTS k1, k2, t1, t2, t3, x1, x2, x3

MCKeyOf == [x \in Writes |-> IF x \in {t3, x3} THEN k2 ELSE k1]
=============================================================================
