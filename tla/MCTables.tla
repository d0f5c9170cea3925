------------------------------- MODULE MCTables -------------------------------
(* Model checking of Tables: two conns of one address and two of another,  *)
(* in a list of three.  KeySymmetry is sound for the LRUCache too, which   *)
(* is given the keys of the UDP cache.                                     *)
EXTENDS Tables, MCCleanupManager

ConnAddr == <<"a", "a", "b", "b">>

=============================================================================
