-------------------------------- MODULE MCMux --------------------------------
(* StreamMux on a small instance: an HTTP and a TCP stream, every queue of *)
(* one slot.                                                               *)
EXTENDS StreamMux

CONSTANTS h1, c1
=============================================================================
