------------------------------- MODULE Process -------------------------------
(***************************************************************************)
(* The life of one process of api, relay or notification, from the moment  *)
(* its parts are started until it exits: the goroutines, the requests its  *)
(* HTTP servers have accepted, the signal that stops it, and the shutdown. *)
(* What the parts do meanwhile is the subject of the other modules.        *)
(*                                                                         *)
(* relay and notification start their parts in an errgroup; api listens in *)
(* its main goroutine and has one more that waits for the signal.          *)
(***************************************************************************)
EXTENDS Sequences, FiniteSets

CONSTANTS
  Program,     \* the programs a behavior may be of
  Request      \* the requests that may come in

ASSUME ProgramAssumption == Program \subseteq {"api", "relay", "notification"}

VARIABLES
  program,
  watching,    \* whether a signal cancels a context, and does not kill
  signaled,    \* whether SIGINT or SIGTERM has come
  running,     \* the goroutines that have not returned
  failed,      \* the goroutines that have returned an error
  todo,        \* what the goroutine that waits for the end has still to do
  closing,     \* the servers whose Shutdown has been called
  expired,     \* whether the time the shutdown may take is over
  at,          \* at[r]: the server that has accepted r
  state,       \* state[r]: how far r has come
  main,        \* where the function run is
  exit         \* how the process has ended, "no" if it has not

parts == <<running, failed>>
closer == <<todo, closing, expired>>
requests == <<at, state>>
ending == <<main, exit>>
vars == <<program, watching, signaled, parts, closer, requests, ending>>

Server == {"api", "ws", "metrics"}

Worker == {"relay", "consumer", "subscriber"}

Parts(p) ==
  CASE p = "api" -> {"api", "closer"}
    [] p = "relay" -> {"relay", "metrics", "closer"}
    [] p = "notification" -> {"consumer", "subscriber", "ws", "metrics", "closer"}

(* The steps of the shutdown; "hub" is Hub.CloseAll, the others Shutdown.  *)
Plan(p) ==
  CASE p = "api" -> <<"api">>
    [] p = "relay" -> <<"metrics">>
    [] p = "notification" -> <<"hub", "ws", "metrics">>

(* A websocket connection is taken over from its server ("upgraded"), and  *)
(* registered with the hub until it ends or is told to go away.            *)
InServer == {"handling", "transaction", "finishing"}

State ==
  InServer \cup {"new", "answered", "upgraded", "registered", "dismissed", "told", "left"}

TypeOK ==
  /\ program \in Program
  /\ watching \in BOOLEAN /\ signaled \in BOOLEAN /\ expired \in BOOLEAN
  /\ running \subseteq Parts(program)
  /\ failed \subseteq Parts(program) \ (running \ {"closer"})
  /\ todo \in Seq({"hub"} \cup Server) /\ closing \subseteq Server \cap Parts(program)
  /\ at \in [Request -> {"none"} \cup (Server \cap Parts(program))]
  /\ state \in [Request -> State]
  /\ main \in {"wait", "close"}
  /\ exit \in {"no", "ok", "error", "killed"}

(* api asks for the signal in its second goroutine, the others before they *)
(* start their parts.                                                      *)
Init ==
  /\ program \in Program
  /\ watching = (program # "api")
  /\ signaled = FALSE /\ expired = FALSE
  /\ running = Parts(program) /\ failed = {}
  /\ todo = Plan(program) /\ closing = {}
  /\ at = [r \in Request |-> "none"] /\ state = [r \in Request |-> "new"]
  /\ main = "wait" /\ exit = "no"

-----------------------------------------------------------------------------
(* The signal.                                                             *)

Watch ==
  /\ program = "api" /\ ~watching
  /\ watching' = TRUE
  /\ UNCHANGED <<program, signaled, parts, closer, requests, ending>>

(* A signal nobody asked for ends the process.  (A second one is not       *)
(* modelled.)                                                              *)
Signal ==
  /\ ~signaled
  /\ signaled' = TRUE
  /\ exit' = IF watching THEN exit ELSE "killed"
  /\ UNCHANGED <<program, watching, parts, closer, requests, main>>

(* Regression: the closer waits for the context of the signal, not of the  *)
(* group.                                                                  *)
CancelledBySignal == signaled

(* The context of the group; in api, the one of the signal.                *)
Cancelled == signaled \/ (program # "api" /\ failed # {})

-----------------------------------------------------------------------------
(* The goroutines of the workers and the servers.                          *)

(* Regression: the error is sent to the group, and the loop goes on.       *)
ReportAndGoOn(p, error) ==
  /\ p \in running
  /\ failed' = IF error THEN failed \cup {p} ELSE failed
  /\ UNCHANGED <<program, watching, signaled, running, closer, requests, ending>>

Return(p, error) ==
  /\ p \in running
  /\ running' = running \ {p}
  /\ failed' = IF error THEN failed \cup {p} ELSE failed
  /\ UNCHANGED <<program, watching, signaled, closer, requests, ending>>

(* The loops of relay and consumer return nil, and only when the context   *)
(* is cancelled; so does the subscriber.                                   *)
WorkerStops(w) == Cancelled /\ Return(w, FALSE)

(* The subscription is not granted, or is closed.                          *)
SubscriberFails == Return("subscriber", TRUE)

(* ListenAndServe cannot listen, or can no longer accept connections.      *)
ServerFails(s) == s \notin closing /\ Return(s, TRUE)

(* ... or returns ErrServerClosed.                                         *)
ServerCloses(s) == s \in closing /\ Return(s, FALSE)

-----------------------------------------------------------------------------
(* The requests.                                                           *)

Move(r, to) ==
  /\ state' = [state EXCEPT ![r] = to]
  /\ UNCHANGED <<program, watching, signaled, parts, closer, at, ending>>

Accept(r, s) ==
  /\ state[r] = "new" /\ s \in running \ closing
  /\ at' = [at EXCEPT ![r] = s]
  /\ state' = [state EXCEPT ![r] = "handling"]
  /\ UNCHANGED <<program, watching, signaled, parts, closer, ending>>

(* The handlers of api, and the metrics of relay, run one database         *)
(* transaction, which needs a connection of a pool that is not closed.     *)
UsesDatabase(r) == at[r] = "api" \/ (at[r] = "metrics" /\ program = "relay")

BeginTransaction(r) ==
  /\ state[r] = "handling" /\ UsesDatabase(r) /\ main = "wait"
  /\ Move(r, "transaction")

(* The commit or, within rollbackTimeout, the rollback has ended; this may *)
(* take longer than the shutdown.                                          *)
EndTransaction(r) == state[r] = "transaction" /\ Move(r, "finishing")

(* Some requests are answered without a transaction: they are not valid,   *)
(* or none can begin.                                                      *)
Answer(r) == state[r] \in {"handling", "finishing"} /\ Move(r, "answered")

(* websocket.Accept takes the connection away from the server.             *)
Upgrade(r) == state[r] = "handling" /\ at[r] = "ws" /\ Move(r, "upgraded")

Register(r) == state[r] = "upgraded" /\ Move(r, "registered")

(* The goroutine of the connection sees that its client is disconnected.   *)
TellAway(r) == state[r] = "dismissed" /\ Move(r, "told")

ClientLeaves(r) == state[r] \in {"registered", "dismissed"} /\ Move(r, "left")

-----------------------------------------------------------------------------
(* The goroutine that waits for the end.                                   *)

(* Shutdown waits for requests, not for connections that were taken over.  *)
Idle(s) == \A r \in Request : at[r] = s => state[r] \notin InServer

Due(step) == "closer" \in running /\ Cancelled /\ watching /\ todo # <<>> /\ Head(todo) = step

CloseAll ==
  /\ Due("hub")
  /\ todo' = Tail(todo)
  /\ state' = [r \in Request |->
                 IF state[r] = "registered" THEN "dismissed" ELSE state[r]]
  /\ UNCHANGED <<program, watching, signaled, parts, closing, expired, at, ending>>

BeginShutdown(s) ==
  /\ Due(s) /\ s \notin closing
  /\ closing' = closing \cup {s}
  /\ UNCHANGED <<program, watching, signaled, parts, todo, expired, requests, ending>>

(* One deadline for all servers of the process.                            *)
Expire ==
  /\ closing # {} /\ ~expired
  /\ expired' = TRUE
  /\ UNCHANGED <<program, watching, signaled, parts, todo, closing, requests, ending>>

(* Shutdown returns nil, or the error of its context; errors.Join keeps it *)
(* while the next server is shut down.                                     *)
EndShutdown(s) ==
  /\ Due(s) /\ s \in closing
  /\ \/ Idle(s) /\ UNCHANGED failed
     \/ expired /\ failed' = failed \cup {"closer"}
  /\ todo' = Tail(todo)
  /\ running' = IF Len(todo) = 1 THEN running \ {"closer"} ELSE running
  /\ UNCHANGED <<program, watching, signaled, closing, expired, requests, ending>>

-----------------------------------------------------------------------------
(* The end of run and of main.                                             *)

(* Regression: serve does not receive from shutdownError.                  *)
ListenersReturned == running \cap Server = {} /\ running \cap Worker = {}

(* Regression: run returns the first error, and waits for nobody else.     *)
FirstErrorReturned == running = {} \/ failed # {}

(* Wait of the group; serve returns at once if it cannot listen, else with *)
(* what the other goroutine sends.                                         *)
PartsReturned == running = {} \/ "api" \in failed

ReturnFromRun ==
  /\ main = "wait" /\ PartsReturned
  /\ main' = "close"
  /\ watching' = (program = "api" /\ watching)
  /\ UNCHANGED <<program, signaled, parts, closer, requests, exit>>

(* The deferred Close of the pool waits for the connections in use, so no  *)
(* database transaction is cut off.                                        *)
ConnectionsReleased == \A r \in Request : state[r] # "transaction"

Exit ==
  /\ main = "close" /\ ConnectionsReleased
  /\ exit' = IF failed = {} THEN "ok" ELSE "error"
  /\ UNCHANGED <<program, watching, signaled, parts, closer, requests, main>>

-----------------------------------------------------------------------------

Handle(r) ==
  BeginTransaction(r) \/ EndTransaction(r) \/ Answer(r) \/ Upgrade(r) \/ Register(r)
  \/ TellAway(r)

Finish ==
  \/ \E w \in Worker : WorkerStops(w)
  \/ \E s \in Server : ServerCloses(s) \/ BeginShutdown(s) \/ EndShutdown(s)
  \/ CloseAll \/ Expire \/ ReturnFromRun \/ Exit

Next ==
  /\ exit = "no"
  /\ \/ Watch \/ Signal \/ SubscriberFails \/ Finish
     \/ \E s \in Server : ServerFails(s)
     \/ \E r \in Request : Handle(r) \/ ClientLeaves(r) \/ \E s \in Server : Accept(r, s)

Spec == Init /\ [][Next]_vars

(* Goroutines are scheduled, deadlines expire, and a database transaction  *)
(* ends, at the latest with the timeout of its rollback.  No request has   *)
(* to come in, and no signal, and nothing has to fail.                     *)
Fairness ==
  /\ WF_vars(exit = "no" /\ (Watch \/ Finish))
  /\ \A r \in Request : WF_vars(exit = "no" /\ EndTransaction(r))

FairSpec == Spec /\ Fairness

-----------------------------------------------------------------------------
(* Safety.                                                                 *)

(* A process that exits with status 0 was told to stop, all its parts have *)
(* returned, and no request that was accepted is without an answer         *)
(* (server.go, serve: ListenAndServe returns before the requests do).      *)
CleanExitAnswersAll ==
  exit = "ok" => /\ signaled /\ running = {}
                 /\ \A r \in Request : state[r] \notin InServer

(* A process that exits drops a request that it has accepted only if the   *)
(* shutdown has reported that its time is over, or if api can no longer    *)
(* accept connections, for serve does not wait then.  Another part that    *)
(* fails brings the process down, and drops none: its servers, the one     *)
(* that failed included, are shut down all the same, and run waits for it  *)
(* (relay and notification, main.go: errgroup and errors.Join).            *)
DroppedOnlyWhenLate ==
  exit \in {"ok", "error"} /\ failed \cap {"closer", "api"} = {} =>
    \A r \in Request : state[r] \notin InServer

(* No connection of a browser just ends with a process that exits with     *)
(* status 0: its client was told before, or has left (notification,        *)
(* main.go: "close the ws-connections and stop both servers").             *)
ConnectionsClosed ==
  exit = "ok" => \A r \in Request : state[r] \notin {"upgraded", "registered", "dismissed"}

-----------------------------------------------------------------------------
(* No process goes on with some of its parts, and none ignores the signal: *)
(* when a part has returned, or the signal has come, it exits (main.go:    *)
(* an error of any one of them cancels the others).                        *)
NoHalfProcess == signaled \/ running # Parts(program) ~> exit # "no"
=============================================================================
