------------------------------ MODULE MCLedger ------------------------------
(***************************************************************************)
(* Instances of Ledger for TLC: two users with accounts in RUB and one in  *)
(* USD, the system accounts their deposits and withdrawals need, and sets  *)
(* of workloads.                                                           *)
(***************************************************************************)
EXTENDS LedgerInvariant, TLC

CONSTANTS c1, c2, c3, c4, k1, k2, k3, k4

A == 1     \* a user
B == 2     \* a user
U == 3     \* a user with an account in USD
In == 10   \* ATM_IN_RUB
Out == 11  \* ATM_OUT_RUB
None == 99 \* the id of no account

MCAccount == {A, B, U, In, Out}
MCUser == {A, B, U}
MCCurrencyOf == [a \in MCAccount |-> IF a = U THEN "USD" ELSE "RUB"]
MCSystemAccount ==
  [code \in {<<"ATM", "IN", "RUB">>, <<"ATM", "OUT", "RUB">>} |->
     IF code[2] = "IN" THEN In ELSE Out]

transfer(from, to, amount, key) ==
  [type |-> "transfer", from |-> from, to |-> to, amount |-> amount, key |-> key]
deposit(account, amount, key) ==
  [type |-> "deposit", account |-> account, channel |-> "ATM", amount |-> amount,
   key |-> key]
withdraw(account, amount, key) ==
  [type |-> "withdrawal", account |-> account, channel |-> "ATM", amount |-> amount,
   key |-> key]
reverse(target, key) == [type |-> "reversal", target |-> target, key |-> key]

calls4(w1, w2, w3, w4) == c1 :> w1 @@ c2 :> w2 @@ c3 :> w3 @@ c4 :> w4

(* Money comes in and moves to B, against a retry of that transfer, the    *)
(* opposite transfer, a withdrawal or another transfer under the same key, *)
(* and against a reversal of the first or the second transaction, under a  *)
(* key of its own.                                                         *)
Mixed ==
  {calls4(deposit(A, 2, k1), transfer(A, B, 2, k2), w3, w4) :
     w3 \in {transfer(A, B, 2, k2), transfer(B, A, 1, k3), withdraw(A, 1, k3),
             transfer(A, B, 1, k2)},
     w4 \in {reverse(1, k4), reverse(2, k4)}}

(* Reversals race for one transaction, under different keys or the same,   *)
(* while the deposited money may be gone; or one undoes a reversal.        *)
Reversals ==
  {calls4(deposit(A, 2, k1), reverse(1, k2), w3, w4) :
     w3 \in {reverse(1, k2), reverse(1, k3)},
     w4 \in {withdraw(A, 2, k4), reverse(2, k4), reverse(None, k4),
             deposit(A, 2, k1)}}

(* A client repeats a transfer under its key, whatever it is told; another *)
(* client uses the key for something else.                                 *)
Retries ==
  {calls4(deposit(A, 2, k1), transfer(A, B, 1, k2), transfer(A, B, 1, k2), w4) :
     w4 \in {transfer(A, B, 1, k2), transfer(A, B, 2, k2), deposit(A, 2, k1),
             deposit(B, 1, k2)}}

(* Requests the service turns down, one of each reason, beside a deposit   *)
(* and a transfer.                                                         *)
Refusals ==
  {calls4(deposit(A, 2, k1), w2, transfer(A, B, 2, k3), reverse(None, k4)) :
     w2 \in {transfer(A, B, 0, k2), transfer(A, A, 1, k2), transfer(None, A, 1, k2),
             transfer(A, None, 1, k2), transfer(A, In, 1, k2), transfer(A, U, 1, k2),
             transfer(A, B, 1, k1), deposit(A, 0, k2), deposit(None, 1, k2),
             deposit(In, 1, k2), deposit(U, 1, k2), withdraw(A, 0, k2),
             withdraw(None, 1, k2), withdraw(Out, 1, k2), withdraw(U, 1, k2),
             withdraw(A, 1, k1)}}

EveryDay == Mixed \cup Reversals \cup Retries \cup Refusals

(* Amounts close to MaxInt = 3: sums that fit no int64, and a difference   *)
(* that wraps around.                                                      *)
Extremes ==
  {calls4(deposit(A, 3, k1), w2, w3, w4) :
     w2 \in {deposit(A, 3, k2), transfer(A, B, 3, k2)},
     w3 \in {withdraw(A, 1, k3), withdraw(A, 3, k3)},
     w4 \in {reverse(1, k4), transfer(B, A, 3, k4)}}

EveryKind == EveryDay \cup Extremes

(* A reversal under the key of an earlier transfer that moved the same     *)
(* money the same way.                                                     *)
KeyReuse ==
  {calls4(deposit(A, 2, k1), transfer(A, B, 1, k2), transfer(B, A, 1, k3),
          reverse(2, k3))}
=============================================================================
