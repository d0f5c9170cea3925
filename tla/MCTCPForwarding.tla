---------------------------- MODULE MCTCPForwarding ----------------------------
(* Model checking of TCPForwarding: a buffer of two, filled by the remote  *)
(* and half filled by the client.                                          *)
EXTENDS TCPForwarding

RemoteFillsBuffer == [copySrcToDst |-> 1, copyDstToSrc |-> 2]

=============================================================================
