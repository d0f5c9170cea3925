----------------------------- MODULE MCUDPRelay -----------------------------
(* Model checking of UDPRelay: the client addresses are interchangeable.   *)
EXTENDS UDPRelay

ClientSymmetry == Permutations(Clients)

=============================================================================
