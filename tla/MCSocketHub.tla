----------------------------- MODULE MCSocketHub -----------------------------
(* Small instances of SocketHub: two connections with buffers of one.         *)
EXTENDS SocketHub
=============================================================================
