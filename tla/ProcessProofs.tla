---------------------------- MODULE ProcessProofs ----------------------------
(***************************************************************************)
(* Proofs about Process, for every program and every set of requests.      *)
(* The inductive invariant follows the shutdown: a server whose step of    *)
(* the plan is done without an error accepts nothing and has answered      *)
(* everything, and unless a part has failed, nothing ends or is closed     *)
(* before the signal.                                                      *)
(***************************************************************************)
EXTENDS Process, Integers, SequenceTheorems, TLAPS

USE DEF parts, closer, requests, ending, vars

InTodo(s) == \E i \in 1..Len(todo) : todo[i] = s

PlanInv ==
  /\ \A i \in 1..Len(todo) : todo[i] \in {"hub"} \cup (Server \cap Parts(program))
  /\ "closer" \notin running => todo = <<>>

SignalInv ==
  failed = {} /\ (running # Parts(program) \/ closing # {}) => signaled

ClosedInv ==
  "closer" \notin failed =>
    \A s \in Server \cap Parts(program) : ~InTodo(s) => s \in closing /\ Idle(s)

EndInv == main = "close" => running = {} \/ "api" \in failed

AcceptInv == \A r \in Request : at[r] = "none" => state[r] = "new"

IInv ==
  /\ TypeOK
  /\ PlanInv /\ SignalInv /\ ClosedInv /\ EndInv /\ AcceptInv
  /\ CleanExitAnswersAll /\ DroppedOnlyWhenLate

-----------------------------------------------------------------------------
(* What a step of the plan leaves to do.                                   *)

LEMMA TailFacts ==
  ASSUME NEW S, NEW q \in Seq(S), q # <<>>
  PROVE  /\ Tail(q) \in Seq(S) /\ Len(q) = 1 => Tail(q) = <<>>
         /\ \A i \in 1..Len(Tail(q)) : \E j \in 1..Len(q) : Tail(q)[i] = q[j]
         /\ \A j \in 1..Len(q) : q[j] = Head(q) \/ \E i \in 1..Len(Tail(q)) : Tail(q)[i] = q[j]
<1>1. Tail(q) \in Seq(S) /\ Len(Tail(q)) = Len(q) - 1 /\ Len(q) \in Nat /\ Len(q) > 0
  OBVIOUS
<1>2. \A i \in 1..Len(Tail(q)) : i + 1 \in 1..Len(q) /\ Tail(q)[i] = q[i + 1]
  BY <1>1
<1>3. ASSUME NEW j \in 1..Len(q), j # 1
      PROVE  \E i \in 1..Len(Tail(q)) : Tail(q)[i] = q[j]
  <2>1. j - 1 \in 1..Len(Tail(q))
    BY <1>1, <1>3
  <2>2. Tail(q)[j - 1] = q[j]
    BY <1>2, <2>1
  <2> QED BY <2>1, <2>2
<1>4. Len(q) = 1 => Tail(q) = <<>>
  <2>1. Tail(q) # <<>> => Len(Tail(q)) # 0
    BY <1>1, EmptySeq
  <2>2. Len(q) = 1 => Len(Tail(q)) = 0
    BY <1>1
  <2> QED BY <2>1, <2>2
<1>5. q[1] = Head(q)
  OBVIOUS
<1> QED BY <1>1, <1>2, <1>3, <1>4, <1>5

(* Every program has the goroutine that waits for the end, and its plan    *)
(* names all of its servers.                                               *)
LEMMA PlanFacts ==
  ASSUME NEW p \in Program
  PROVE  /\ "closer" \in Parts(p) /\ Plan(p) \in Seq({"hub"} \cup Server)
         /\ \A i \in 1..Len(Plan(p)) : Plan(p)[i] \in {"hub"} \cup (Server \cap Parts(p))
         /\ \A s \in Server \cap Parts(p) : \E i \in 1..Len(Plan(p)) : Plan(p)[i] = s
<1>1. CASE p = "api"
  BY <1>1 DEF Parts, Plan, Server
<1>2. CASE p = "relay"
  BY <1>2 DEF Parts, Plan, Server
<1>3. CASE p = "notification"
  BY <1>3 DEF Parts, Plan, Server
<1> QED BY <1>1, <1>2, <1>3, ProgramAssumption

LEMMA InitInvariant == Init => IInv
<1> SUFFICES ASSUME Init PROVE IInv
  OBVIOUS
<1> program \in Program
  BY DEF Init
<1>1. TypeOK
  BY PlanFacts DEF Init, TypeOK, State
<1>2. PlanInv
  BY PlanFacts DEF Init, PlanInv
<1>3. SignalInv
  BY DEF Init, SignalInv
<1>4. ClosedInv
  BY PlanFacts DEF Init, ClosedInv, InTodo
<1>5. EndInv /\ AcceptInv /\ CleanExitAnswersAll /\ DroppedOnlyWhenLate
  BY DEF Init, EndInv, AcceptInv, CleanExitAnswersAll, DroppedOnlyWhenLate
<1> QED BY <1>1, <1>2, <1>3, <1>4, <1>5 DEF IInv

-----------------------------------------------------------------------------
(* The steps.  Before each of them, the process has not exited.            *)

(* A part returns: with an error, or because it was told to.               *)
LEMMA ReturnInvariant ==
  ASSUME IInv, exit = "no", NEW x \in Worker \cup Server, NEW error \in BOOLEAN,
         Return(x, error), error \/ Cancelled \/ x \in closing
  PROVE  IInv'
<1> USE DEF IInv, Return
<1>1. x # "closer"
  BY DEF Worker, Server
<1>2. TypeOK'
  BY DEF TypeOK
<1>3. PlanInv'
  BY <1>1 DEF PlanInv
<1>4. SignalInv'
  BY DEF SignalInv, Cancelled
<1>5. ClosedInv'
  BY DEF ClosedInv, InTodo, Idle
<1>6. EndInv'
  BY DEF EndInv
<1>7. AcceptInv' /\ CleanExitAnswersAll' /\ DroppedOnlyWhenLate'
  BY DEF AcceptInv, CleanExitAnswersAll, DroppedOnlyWhenLate
<1> QED BY <1>2, <1>3, <1>4, <1>5, <1>6, <1>7

(* A request comes further: never back to its server.                      *)
LEMMA MoveInvariant ==
  ASSUME IInv, exit = "no", NEW r \in Request, NEW to \in State, Move(r, to),
         state[r] # "new", to \in InServer => state[r] \in InServer
  PROVE  IInv'
<1> USE DEF IInv, Move
<1>1. TypeOK'
  BY DEF TypeOK
<1>2. ASSUME NEW q \in Request PROVE state'[q] = IF q = r THEN to ELSE state[q]
  BY DEF TypeOK
<1>3. \A s : Idle(s) => Idle(s)'
  BY <1>2 DEF Idle
<1>4. ClosedInv'
  BY <1>3 DEF ClosedInv, InTodo
<1>5. AcceptInv'
  BY <1>2 DEF AcceptInv
<1>6. PlanInv' /\ SignalInv' /\ EndInv'
  BY DEF PlanInv, SignalInv, EndInv
<1>7. CleanExitAnswersAll' /\ DroppedOnlyWhenLate'
  BY DEF CleanExitAnswersAll, DroppedOnlyWhenLate
<1> QED BY <1>1, <1>4, <1>5, <1>6, <1>7

LEMMA HandleInvariant ==
  ASSUME IInv, exit = "no", NEW r \in Request, Handle(r) \/ ClientLeaves(r)
  PROVE  IInv'
<1>1. PICK to \in State : /\ Move(r, to) /\ state[r] # "new"
                          /\ to \in InServer => state[r] \in InServer
  BY DEF Handle, BeginTransaction, EndTransaction, Answer, Upgrade, Register, TellAway,
         ClientLeaves, State, InServer
<1> QED BY <1>1, MoveInvariant

(* A server that accepts has not been told to stop, so its shutdown is     *)
(* still to come.                                                          *)
LEMMA AcceptInvariant ==
  ASSUME IInv, exit = "no", NEW r \in Request, NEW s \in Server, Accept(r, s)
  PROVE  IInv'
<1> USE DEF IInv, Accept
<1>1. s \in Server \cap Parts(program)
  BY DEF TypeOK
<1>2. TypeOK'
  BY <1>1 DEF TypeOK, State, InServer
<1>3. \A q \in Request : /\ at'[q] = IF q = r THEN s ELSE at[q]
                         /\ state'[q] = IF q = r THEN "handling" ELSE state[q]
  BY DEF TypeOK
<1>4. \A t : t # s /\ Idle(t) => Idle(t)'
  BY <1>3 DEF Idle
<1>5. ClosedInv'
  BY <1>1, <1>4 DEF ClosedInv, InTodo
<1>6. AcceptInv'
  BY <1>1, <1>3 DEF AcceptInv, Server
<1>7. PlanInv' /\ SignalInv' /\ EndInv'
  BY DEF PlanInv, SignalInv, EndInv
<1>8. CleanExitAnswersAll' /\ DroppedOnlyWhenLate'
  BY DEF CleanExitAnswersAll, DroppedOnlyWhenLate
<1> QED BY <1>2, <1>5, <1>6, <1>7, <1>8

LEMMA CloseAllInvariant ==
  ASSUME IInv, exit = "no", CloseAll
  PROVE  IInv'
<1> USE DEF IInv, CloseAll, Due
<1>1. todo \in Seq({"hub"} \cup Server) /\ todo # <<>> /\ Head(todo) = "hub"
  BY DEF TypeOK
<1>2. \A q \in Request :
        state'[q] = IF state[q] = "registered" THEN "dismissed" ELSE state[q]
  BY DEF TypeOK
<1>3. \A t : Idle(t) => Idle(t)'
  BY <1>2 DEF Idle, InServer
<1>4. TypeOK'
  BY <1>1, <1>2, TailFacts DEF TypeOK, State
<1>5. PlanInv'
  BY <1>1, TailFacts DEF PlanInv
<1>6. \A s \in Server : InTodo(s) => InTodo(s)'
  BY <1>1, TailFacts DEF InTodo, Server
<1>7. ClosedInv'
  BY <1>3, <1>6 DEF ClosedInv
<1>8. AcceptInv'
  BY <1>2 DEF AcceptInv
<1>9. SignalInv' /\ EndInv' /\ CleanExitAnswersAll' /\ DroppedOnlyWhenLate'
  BY DEF SignalInv, EndInv, CleanExitAnswersAll, DroppedOnlyWhenLate
<1> QED BY <1>4, <1>5, <1>7, <1>8, <1>9

LEMMA BeginShutdownInvariant ==
  ASSUME IInv, exit = "no", NEW s \in Server, BeginShutdown(s)
  PROVE  IInv'
<1> USE DEF IInv, BeginShutdown, Due
<1>1. s \in Server \cap Parts(program)
  <2>1. todo \in Seq({"hub"} \cup Server) /\ todo # <<>> /\ Head(todo) = s
    BY DEF TypeOK
  <2>2. 1 \in 1..Len(todo) /\ todo[1] = s
    BY <2>1
  <2> QED BY <2>2 DEF PlanInv, Server
<1>2. TypeOK'
  BY <1>1 DEF TypeOK
<1>3. SignalInv'
  BY DEF SignalInv, Cancelled
<1>4. ClosedInv'
  BY DEF ClosedInv, InTodo, Idle
<1>5. PlanInv' /\ EndInv' /\ AcceptInv'
  BY DEF PlanInv, EndInv, AcceptInv
<1>6. CleanExitAnswersAll' /\ DroppedOnlyWhenLate'
  BY DEF CleanExitAnswersAll, DroppedOnlyWhenLate
<1> QED BY <1>2, <1>3, <1>4, <1>5, <1>6

(* Shutdown returns: its server is idle, or the closer has failed.         *)
LEMMA EndShutdownInvariant ==
  ASSUME IInv, exit = "no", NEW s \in Server, EndShutdown(s)
  PROVE  IInv'
<1> USE DEF IInv, EndShutdown, Due
<1>1. todo \in Seq({"hub"} \cup Server) /\ todo # <<>> /\ Head(todo) = s
  BY DEF TypeOK
<1>2. failed \subseteq failed' /\ ("closer" \notin failed' => Idle(s))
  OBVIOUS
<1>3. TypeOK'
  <2>1. todo' \in Seq({"hub"} \cup Server)
    BY <1>1, TailFacts
  <2>2. failed' \subseteq Parts(program) \ (running' \ {"closer"})
    BY DEF TypeOK
  <2>3. running' \subseteq Parts(program)
    BY DEF TypeOK
  <2> QED BY <2>1, <2>2, <2>3 DEF TypeOK
<1>4. PlanInv'
  BY <1>1, TailFacts DEF PlanInv
<1>5. SignalInv'
  BY <1>2 DEF SignalInv, Cancelled
<1>6. \A t \in Server : t # s /\ InTodo(t) => InTodo(t)'
  BY <1>1, TailFacts DEF InTodo
<1>7. ClosedInv'
  BY <1>2, <1>6 DEF ClosedInv, Idle
<1>8. EndInv'
  BY <1>2 DEF EndInv
<1>9. AcceptInv' /\ CleanExitAnswersAll' /\ DroppedOnlyWhenLate'
  BY DEF AcceptInv, CleanExitAnswersAll, DroppedOnlyWhenLate
<1> QED BY <1>3, <1>4, <1>5, <1>7, <1>8, <1>9

(* The signal, the deadline, and the return of run change none of this.    *)
LEMMA OtherInvariant ==
  ASSUME IInv, exit = "no", Watch \/ Signal \/ Expire \/ ReturnFromRun
  PROVE  IInv'
<1> USE DEF IInv, Watch, Signal, Expire, ReturnFromRun
<1>1. TypeOK'
  BY DEF TypeOK
<1>2. PlanInv'
  BY DEF PlanInv
<1>3. SignalInv'
  BY DEF SignalInv
<1>4. ClosedInv'
  BY DEF ClosedInv, InTodo, Idle
<1>5. EndInv'
  BY DEF EndInv, PartsReturned
<1>6. AcceptInv' /\ CleanExitAnswersAll' /\ DroppedOnlyWhenLate'
  BY DEF AcceptInv, CleanExitAnswersAll, DroppedOnlyWhenLate
<1> QED BY <1>1, <1>2, <1>3, <1>4, <1>5, <1>6

(* Unless the shutdown or api has failed, all parts have returned, so the  *)
(* plan is done, and every server has closed with nothing left in it.      *)
LEMMA ExitInvariant ==
  ASSUME IInv, exit = "no", Exit
  PROVE  IInv'
<1> USE DEF IInv, Exit
<1>1. ASSUME failed \cap {"closer", "api"} = {}
      PROVE  running = {} /\ \A r \in Request : state[r] \notin InServer
  <2>1. running = {}
    BY <1>1 DEF EndInv
  <2>2. todo = <<>> /\ \A s \in Server : ~InTodo(s)
    BY <2>1 DEF PlanInv, InTodo
  <2>3. ASSUME NEW r \in Request PROVE state[r] \notin InServer
    <3>1. CASE at[r] = "none"
      BY <3>1 DEF AcceptInv, InServer
    <3>2. CASE at[r] \in Server \cap Parts(program)
      BY <1>1, <2>2, <3>2 DEF ClosedInv, Idle
    <3> QED BY <3>1, <3>2 DEF TypeOK
  <2> QED BY <2>1, <2>3
<1>2. CleanExitAnswersAll'
  <2>1. ASSUME failed = {} PROVE signaled
    BY <1>1, <2>1, PlanFacts DEF SignalInv, TypeOK
  <2> QED BY <1>1, <2>1 DEF CleanExitAnswersAll
<1>3. DroppedOnlyWhenLate'
  BY <1>1 DEF DroppedOnlyWhenLate
<1>4. TypeOK'
  BY DEF TypeOK
<1>5. PlanInv' /\ SignalInv' /\ EndInv' /\ AcceptInv'
  BY DEF PlanInv, SignalInv, EndInv, AcceptInv
<1>6. ClosedInv'
  BY DEF ClosedInv, InTodo, Idle
<1> QED BY <1>2, <1>3, <1>4, <1>5, <1>6

LEMMA StutterInvariant ==
  ASSUME IInv, UNCHANGED vars
  PROVE  IInv'
BY DEF IInv, TypeOK, PlanInv, SignalInv, ClosedInv, EndInv, AcceptInv, InTodo, Idle,
       CleanExitAnswersAll, DroppedOnlyWhenLate

LEMMA InvStep == IInv /\ [Next]_vars => IInv'
<1> SUFFICES ASSUME IInv, [Next]_vars PROVE IInv'
  OBVIOUS
<1>1. CASE UNCHANGED vars
  BY <1>1, StutterInvariant
<1>2. ASSUME exit = "no", NEW w \in Worker, WorkerStops(w) PROVE IInv'
  BY <1>2, ReturnInvariant DEF WorkerStops
<1>3. ASSUME exit = "no", SubscriberFails PROVE IInv'
  BY <1>3, ReturnInvariant DEF SubscriberFails, Worker
<1>4. ASSUME exit = "no", NEW s \in Server, ServerCloses(s) \/ ServerFails(s) PROVE IInv'
  BY <1>4, ReturnInvariant DEF ServerCloses, ServerFails
<1>5. ASSUME exit = "no", NEW s \in Server, BeginShutdown(s) \/ EndShutdown(s) PROVE IInv'
  BY <1>5, BeginShutdownInvariant, EndShutdownInvariant
<1>6. ASSUME exit = "no", NEW r \in Request, Handle(r) \/ ClientLeaves(r) PROVE IInv'
  BY <1>6, HandleInvariant
<1>7. ASSUME exit = "no", NEW r \in Request, NEW s \in Server, Accept(r, s) PROVE IInv'
  BY <1>7, AcceptInvariant
<1>8. ASSUME exit = "no", Watch \/ Signal \/ Expire \/ ReturnFromRun \/ CloseAll \/ Exit
      PROVE  IInv'
  BY <1>8, OtherInvariant, CloseAllInvariant, ExitInvariant
<1> QED BY <1>1, <1>2, <1>3, <1>4, <1>5, <1>6, <1>7, <1>8 DEF Next, Finish

(* The inductive invariant, for every program and every set of requests.   *)
THEOREM Invariant == Spec => []IInv
BY InitInvariant, InvStep, PTL DEF Spec

(* The type invariant, for every program and every set of requests.        *)
THEOREM TypeCorrect == Spec => []TypeOK
<1>1. IInv => TypeOK
  BY DEF IInv
<1> QED BY <1>1, Invariant, PTL

(* A process that exits with status 0 was told to stop, and has answered   *)
(* every request that it had accepted (server.go: serve).                  *)
THEOREM CleanExit == Spec => []CleanExitAnswersAll
<1>1. IInv => CleanExitAnswersAll
  BY DEF IInv
<1> QED BY <1>1, Invariant, PTL

(* A request is dropped by an exit only if the shutdown ran out of time,   *)
(* or api could no longer listen, whatever else has failed (main.go: run). *)
THEOREM NothingDropped == Spec => []DroppedOnlyWhenLate
<1>1. IInv => DroppedOnlyWhenLate
  BY DEF IInv
<1> QED BY <1>1, Invariant, PTL
=============================================================================
