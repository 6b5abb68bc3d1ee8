----------------------------- MODULE WorkQueue -----------------------------
(***************************************************************************)
(* docs/code/queue-work/main.c and docs/code/queue-cancel/main.c: main     *)
(* queues FIB_UNTIL requests on libuv's thread pool and runs the loop.     *)
(* In queue-cancel (cancels) a SIGINT handler cancels every request and    *)
(* stops itself; queue-work leaves SIGINT to the system, which kills the   *)
(* process.                                                                *)
(*                                                                         *)
(* The pool threads run beside the loop, between any two uv_cancel calls   *)
(* of the handler too.  Pool and signal delivery are external; the order   *)
(* in which the pool takes requests, and in which the loop reports them,   *)
(* is left open, since the program does not rely on it.                    *)
(***************************************************************************)
EXTENDS Integers, FiniteSets

CONSTANTS
  FIB_UNTIL,    \* how many requests
  PoolSize,     \* UV_THREADPOOL_SIZE
  MaxSignals    \* bound: how often SIGINT is raised

ASSUME CountsAssumption ==
  /\ FIB_UNTIL \in Nat
  /\ PoolSize \in Nat \ {0}
  /\ MaxSignals \in Nat

Reqs == 1 .. FIB_UNTIL

VARIABLES
  cancels,     \* the program: TRUE for queue-cancel, FALSE for queue-work
  main,        \* what the loop thread is doing
  k,           \* the next request of the for loop in main or in signal_handler
  queued,      \* requests the pool has not taken
  running,     \* requests whose fib a pool thread is executing
  ran,         \* requests whose fib has returned
  cancelled,   \* requests uv_cancel took from the queue
  after,       \* the status after_fib was called with
  sig,         \* the uv_signal_t: "none", "active", "stopped"
  caught,      \* SIGINTs not yet delivered to the handler
  raised       \* SIGINTs so far

vars == <<cancels, main, k, queued, running, ran, cancelled, after, sig, caught, raised>>
reqVars == <<queued, running, ran, cancelled, after>>
sigVars == <<cancels, sig, caught, raised>>

Init ==
  /\ cancels \in BOOLEAN
  /\ main = "queueing"
  /\ k = 1
  /\ queued = {} /\ running = {} /\ ran = {} /\ cancelled = {}
  /\ after = [r \in Reqs |-> "none"]
  /\ sig = "none" /\ caught = 0 /\ raised = 0

Alive == main \notin {"exited", "killed"}

-----------------------------------------------------------------------------
(* main                                                                    *)

\* Mutant: the loop queues one request too many, i <= FIB_UNTIL.
QueueWork_OneMore ==
  /\ main = "queueing" /\ k <= FIB_UNTIL + 1
  /\ queued' = queued \cup {k}
  /\ k' = k + 1
  /\ UNCHANGED <<main, running, ran, cancelled, after, sigVars>>

QueueWork ==
  /\ main = "queueing" /\ k <= FIB_UNTIL
  /\ queued' = queued \cup {k}
  /\ k' = k + 1
  /\ UNCHANGED <<main, running, ran, cancelled, after, sigVars>>

\* uv_signal_start in queue-cancel, then uv_run.
StartLoop ==
  /\ main = "queueing" /\ k > FIB_UNTIL
  /\ sig' = IF cancels THEN "active" ELSE "none"
  /\ main' = "looping"
  /\ UNCHANGED <<cancels, k, reqVars, caught, raised>>

-----------------------------------------------------------------------------
(* The thread pool.                                                        *)

TakeWork(r) ==
  /\ Alive
  /\ r \in queued /\ Cardinality(running) < PoolSize
  /\ queued' = queued \ {r}
  /\ running' = running \cup {r}
  /\ UNCHANGED <<main, k, ran, cancelled, after, sigVars>>

fib(r) ==
  /\ Alive
  /\ r \in running
  /\ running' = running \ {r}
  /\ ran' = ran \cup {r}
  /\ UNCHANGED <<main, k, queued, cancelled, after, sigVars>>

-----------------------------------------------------------------------------
(* The loop thread.                                                        *)

\* Mutant: after_fib reports success, without a look at its status.
after_fib_IgnoresStatus(r) ==
  /\ main = "looping"
  /\ r \in ran \cup cancelled /\ after[r] = "none"
  /\ after' = [after EXCEPT ![r] = "ok"]
  /\ UNCHANGED <<main, k, queued, running, ran, cancelled, sigVars>>

after_fib(r) ==
  /\ main = "looping"
  /\ r \in ran \cup cancelled /\ after[r] = "none"
  /\ after' = [after EXCEPT ![r] = IF r \in cancelled THEN "ECANCELED" ELSE "ok"]
  /\ UNCHANGED <<main, k, queued, running, ran, cancelled, sigVars>>

\* Without an active uv_signal_t the default action of SIGINT kills.
Sigint ==
  /\ Alive /\ raised < MaxSignals
  /\ raised' = raised + 1
  /\ \/ /\ sig = "active"
        /\ caught' = caught + 1
        /\ main' = main
     \/ /\ sig # "active"
        /\ main' = "killed"
        /\ caught' = caught
  /\ UNCHANGED <<cancels, k, reqVars, sig>>

EnterHandler ==
  /\ main = "looping" /\ sig = "active" /\ caught > 0
  /\ caught' = caught - 1
  /\ main' = "handler"
  /\ k' = 1
  /\ UNCHANGED <<cancels, reqVars, sig, raised>>

\* Mutant: a request that is already running counts as cancelled too.
Cancel_Running ==
  /\ main = "handler" /\ k <= FIB_UNTIL
  /\ queued' = queued \ {k}
  /\ cancelled' = cancelled \cup ((queued \cup running) \cap {k})
  /\ k' = k + 1
  /\ UNCHANGED <<main, running, ran, after, sigVars>>

\* Mutant: the for loop of the handler stops one short.
Cancel_OneShort ==
  /\ main = "handler" /\ k <= FIB_UNTIL
  /\ queued' = IF k < FIB_UNTIL THEN queued \ {k} ELSE queued
  /\ cancelled' = cancelled \cup (queued \ queued')
  /\ k' = k + 1
  /\ UNCHANGED <<main, running, ran, after, sigVars>>

\* uv_cancel succeeds on a request the pool has not taken, and fails with
\* UV_EBUSY, changing nothing, on any other; the result is not looked at.
Cancel ==
  /\ main = "handler" /\ k <= FIB_UNTIL
  /\ queued' = queued \ {k}
  /\ cancelled' = cancelled \cup (queued \cap {k})
  /\ k' = k + 1
  /\ UNCHANGED <<main, running, ran, after, sigVars>>

\* Mutant: the handler does not call uv_signal_stop.
LeaveHandler_NoStop ==
  /\ main = "handler" /\ k > FIB_UNTIL
  /\ main' = "looping"
  /\ UNCHANGED <<k, reqVars, sigVars>>

\* uv_signal_stop: signals caught and not delivered are dropped.
LeaveHandler ==
  /\ main = "handler" /\ k > FIB_UNTIL
  /\ sig' = "stopped"
  /\ caught' = 0
  /\ main' = "looping"
  /\ UNCHANGED <<cancels, k, reqVars, raised>>

\* Mutant: the handler calls uv_stop, so uv_run does not wait for requests.
Exit_OnStop ==
  /\ main = "looping"
  /\ sig = "stopped" \/ (sig = "none" /\ queued = {})
  /\ main' = "exited"
  /\ UNCHANGED <<k, reqVars, sigVars>>

\* uv_run returns when no request is active and no active handle is left.
Exit ==
  /\ main = "looping"
  /\ \A r \in Reqs : after[r] # "none"
  /\ sig # "active"
  /\ main' = "exited"
  /\ UNCHANGED <<k, reqVars, sigVars>>

-----------------------------------------------------------------------------

Pool == \E r \in Reqs : TakeWork(r) \/ fib(r)

Loop ==
  \/ QueueWork \/ StartLoop
  \/ \E r \in Reqs : after_fib(r)
  \/ EnterHandler \/ Cancel \/ LeaveHandler
  \/ Exit

Next == Pool \/ Loop \/ Sigint

Spec == Init /\ [][Next]_vars

\* The pool and the loop thread run whenever they can; nobody has to raise
\* SIGINT.
FairSpec == Spec /\ WF_vars(Pool) /\ WF_vars(Loop)

-----------------------------------------------------------------------------

\* The values the variables take.
TypeOK ==
  /\ cancels \in BOOLEAN
  /\ main \in {"queueing", "looping", "handler", "exited", "killed"}
  /\ k \in 1 .. (FIB_UNTIL + 1)
  /\ queued \subseteq Reqs /\ running \subseteq Reqs
  /\ ran \subseteq Reqs /\ cancelled \subseteq Reqs
  /\ after \in [Reqs -> {"none", "ok", "ECANCELED"}]
  /\ sig \in {"none", "active", "stopped"}
  /\ caught \in 0 .. MaxSignals
  /\ raised \in 0 .. MaxSignals

\* A request uv_cancel took is never run, whatever the pool threads do while
\* the handler is between two calls: no request is in two places.
CancelledNeverRuns ==
  /\ cancelled \cap (queued \cup running \cup ran) = {}
  /\ queued \cap (running \cup ran) = {}
  /\ running \cap ran = {}

\* after_fib prints "cancelled" for the requests whose fib never ran, and for
\* no other.
StatusIsTrue ==
  \A r \in Reqs :
    /\ after[r] = "ok" => r \in ran
    /\ after[r] = "ECANCELED" => r \in cancelled

\* When uv_run returns every request was reported, and queue-cancel has
\* received its signal: until then the handle keeps the loop alive.
ExitIsComplete ==
  main = "exited" =>
    /\ \A r \in Reqs : after[r] # "none"
    /\ queued \cup running = {}
    /\ cancels => sig = "stopped" /\ raised > 0

\* guide/threads.rst:222-224, "it should quit quickly and not wait until all
\* pending requests are run": once the handler is done no request is started.
NoStartAfterHandler == [][sig = "stopped" => running' \subseteq running]_vars

\* queue-work ends by itself; queue-cancel ends once SIGINT is raised.
Terminates == (cancels => raised > 0) ~> ~Alive

\* Where request r is, in the terms of UvWork.
StateOf(r) ==
  IF after[r] = "ok" THEN "after_ok"
  ELSE IF after[r] = "ECANCELED" THEN "after_ECANCELED"
  ELSE IF r \in cancelled THEN "cancelled"
  ELSE IF r \in ran THEN "ran"
  ELSE IF r \in running THEN "running"
  ELSE IF r \in queued THEN "queued"
  ELSE "new"

Work == INSTANCE UvWork WITH state <- [r \in Reqs |-> StateOf(r)]

\* Each request lives the life libuv promises, through every interleaving.
KeepsPromise == Work!Spec

-----------------------------------------------------------------------------
(* The inductive invariant.                                                *)

\* Nothing has happened to the requests main has still to queue.
QueueingInv ==
  main = "queueing" =>
    /\ queued \cup running \cup ran \cup cancelled \subseteq 1 .. (k - 1)
    /\ sig = "none"

\* The handler has left no request in the queue behind it.
HandlerInv ==
  /\ main = "handler" => sig = "active" /\ \A r \in queued : r >= k
  /\ sig = "stopped" => queued = {} /\ main # "queueing"
  /\ sig # "none" => cancels
  /\ main \in {"looping", "handler", "exited"} /\ cancels => sig # "none"

SignalInv ==
  /\ caught <= raised
  /\ main = "handler" \/ sig = "stopped" => raised > 0

\* What the program maintains: every property above follows from it.
IInv ==
  /\ TypeOK
  /\ CancelledNeverRuns /\ StatusIsTrue
  /\ QueueingInv /\ HandlerInv /\ SignalInv
  /\ ExitIsComplete

=============================================================================
