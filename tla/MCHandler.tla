------------------------------ MODULE MCHandler ------------------------------
(***************************************************************************)
(* An instance of Handler for TLC, over the accounts of MCLedger: money    *)
(* comes to A and goes back and forth between A and B, and a client reads  *)
(* the history of A in pages of one or two entries.                        *)
(***************************************************************************)
EXTENDS MCLedger, Handler

MCWatched == {A, None}

(* No limit, two that are valid, and three that are not.                   *)
MCLimitParam == {<<>>, <<1>>, <<2>>, <<0>>, <<-1>>, <<3>>}

(* Three entries of A: money comes in, goes to B and comes back, unless it *)
(* is refused; the transfer to B may be undone, or a request is not valid. *)
Busy ==
  {calls4(deposit(A, 2, k1), transfer(A, B, 1, k2), transfer(B, A, 1, k3),
          w4) : w4 \in {reverse(2, k4), transfer(A, B, 0, k4)}}
=============================================================================
