--------------------------- MODULE MCCleanupManager ---------------------------
(* Model checking of CleanupManager: the pointers used as keys are          *)
(* interchangeable within a protocol.                                       *)
EXTENDS CleanupManager

KeySymmetry == Permutations(TCPKeys) \cup Permutations(UDPKeys)

=============================================================================
