------------------------------ MODULE MCProcess ------------------------------
(***************************************************************************)
(* An instance of Process for TLC: each of the three programs, with a few  *)
(* requests, which may come to any of its servers.                         *)
(***************************************************************************)
EXTENDS Process
=============================================================================
