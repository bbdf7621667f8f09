-------------------------- MODULE MCClientSession --------------------------
(* Two tabs of one browser, for ClientSession.                             *)
EXTENDS ClientSession
=============================================================================
