---------------------------- MODULE MCEchoServer ----------------------------
(* A small instance of EchoServer for TLC: one client of each server.  The  *)
(* one that sends more can have a write in pieces behind another.           *)
EXTENDS EchoServer, TLC

CONSTANTS c1, c2

MCClients == {c1, c2}
MCTcpClients == {c1}
MCMaxBytes == c1 :> 3 @@ c2 :> 2
=============================================================================
