-------------------------- MODULE MCStoreWithStops --------------------------
(* Small instances of StoreWithStops for TLC. *)
EXTENDS StoreWithStops

CONSTANTS p1, p2
=============================================================================
