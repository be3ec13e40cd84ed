------------------------------- MODULE MCRelay -------------------------------
(***************************************************************************)
(* An instance of Relay for TLC: three ledger transactions about accounts  *)
(* A, B and C; the ids of the first two interleave, so that one of them    *)
(* becomes visible with ids below and above that of the other, and the     *)
(* third is about an account of the first.                                 *)
(***************************************************************************)
EXTENDS Relay, TLC

CONSTANTS A, B, C, p1, p2

MCAccountOf == <<A, C, B, A>>
MCEvent == DOMAIN MCAccountOf
MCTransaction == {{1, 3}, {2}, {4}}
MCPartitionOf == A :> p1 @@ B :> p1 @@ C :> p2
=============================================================================
