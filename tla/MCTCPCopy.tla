------------------------------ MODULE MCTCPCopy ------------------------------
(***************************************************************************)
(* TCPCopy on its own: each peer sends one byte.                           *)
(***************************************************************************)
EXTENDS TCPCopy

OneEach == [d \in Dirs |-> 1]

=============================================================================
