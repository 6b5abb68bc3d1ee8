------------------------------ MODULE MultiEcho ------------------------------
(***************************************************************************)
(* docs/code/multi-echo-server: main.c accepts connections and hands each  *)
(* to one of the worker processes, in turn, over a pipe; worker.c takes    *)
(* them from its pipe and echoes.                                          *)
(*                                                                         *)
(* A worker may fail to start or die at any time, and so may the master;   *)
(* no one starts either again.  The pipes are external: they keep order,   *)
(* and lose what is in them with the worker that should read it.  What a   *)
(* worker echoes is left out: worker.c 11-49 is the text of the pipe echo  *)
(* server, see EchoServer.                                                 *)
(***************************************************************************)
EXTENDS Integers, FiniteSets, Sequences, SequencesExt

CONSTANTS
  Conns,      \* the connections of peers
  CpuCount,   \* how many workers are started
  MaxBatch,   \* how many handles one read of a pipe may return
  Nobody

ASSUME MultiAssumption ==
  /\ CpuCount \in Nat \ {0} /\ MaxBatch \in Nat \ {0}
  /\ Nobody \notin Nat

Workers == 0 .. CpuCount - 1

VARIABLES
  \* of the master
  master,    \* "up" or "down"
  client,    \* its handle of each connection: "none", "open", "closing", "closed", or
             \* "refused": the server was told of an error, and made no handle
  round_robin_counter,
  to,        \* the worker each connection was handed to
  \* of the workers
  worker,    \* "new", "unspawned", "running", "dead", "reaped"
  queue,     \* the pipe handle of each worker: "open", "closed"
  pending,   \* handles received and not accepted
  reading,   \* connections it echoes
  \* outside
  pipe,      \* handles under way to each worker
  peer       \* the other end: "none", "connected", "gone"

masterVars == <<master, client, round_robin_counter, to>>
workerVars == <<worker, queue, pending, reading>>
vars == <<masterVars, workerVars, pipe, peer>>

Init ==
  /\ master = "up"
  /\ client = [c \in Conns |-> "none"]
  /\ round_robin_counter = 0
  /\ to = [c \in Conns |-> Nobody]
  /\ worker = [w \in Workers |-> "new"]
  /\ queue = [w \in Workers |-> "open"]
  /\ pending = [w \in Workers |-> <<>>]
  /\ reading = [w \in Workers |-> {}]
  /\ pipe = [w \in Workers |-> <<>>]
  /\ peer = [c \in Conns |-> "none"]

-----------------------------------------------------------------------------
(* The peers.                                                              *)

Listening == master = "up" /\ \A w \in Workers : worker[w] # "new"

Connect(c) ==
  /\ Listening /\ peer[c] = "none"
  /\ peer' = [peer EXCEPT ![c] = "connected"]
  /\ UNCHANGED <<masterVars, workerVars, pipe>>

Hangup(c) ==
  /\ peer[c] = "connected"
  /\ peer' = [peer EXCEPT ![c] = "gone"]
  /\ UNCHANGED <<masterVars, workerVars, pipe>>

-----------------------------------------------------------------------------
(* The master, main.c.                                                     *)

\* setup_workers counts down, and does not look at what uv_spawn returns.
Spawn(w) ==
  /\ master = "up" /\ worker[w] = "new"
  /\ \A v \in Workers : v > w => worker[v] # "new"
  /\ \E s \in {"running", "unspawned"} : worker' = [worker EXCEPT ![w] = s]
  /\ UNCHANGED <<masterVars, queue, pending, reading, pipe, peer>>

\* A connection waits in the backlog of the server.
Waits(c) == Listening /\ peer[c] # "none" /\ client[c] = "none"

\* The server is given status -1 instead of the connection, and returns.  (Any
\* other error goes on to uv_accept, which finds nothing: AcceptFails.)
Refused(c) ==
  /\ Waits(c)
  /\ client' = [client EXCEPT ![c] = "refused"]
  /\ UNCHANGED <<master, round_robin_counter, to, workerVars, pipe, peer>>

\* The master writes the handle to the worker whose turn it is, and keeps its
\* own.  No callback tells it that the worker is not there, or closed its queue.
HandOver(c) ==
  /\ Waits(c)
  /\ LET w == round_robin_counter IN
       /\ client' = [client EXCEPT ![c] = "open"]
       /\ to' = [to EXCEPT ![c] = w]
       /\ round_robin_counter' = (w + 1) % CpuCount
       /\ pipe' = IF worker[w] = "running" /\ queue[w] = "open"
                    THEN [pipe EXCEPT ![w] = Append(@, c)] ELSE pipe
  /\ UNCHANGED <<master, workerVars, peer>>

\* Mutant: the counter advances although no connection was handed over.
AcceptFails_Advances(c) ==
  /\ Waits(c)
  /\ client' = [client EXCEPT ![c] = "closing"]
  /\ round_robin_counter' = (round_robin_counter + 1) % CpuCount
  /\ UNCHANGED <<master, to, workerVars, pipe, peer>>

\* uv_accept fails: the handle is closed.
AcceptFails(c) ==
  /\ Waits(c)
  /\ client' = [client EXCEPT ![c] = "closing"]
  /\ UNCHANGED <<master, round_robin_counter, to, workerVars, pipe, peer>>

CloseClient(c) ==
  /\ master = "up" /\ client[c] = "closing"
  /\ client' = [client EXCEPT ![c] = "closed"]
  /\ UNCHANGED <<master, round_robin_counter, to, workerVars, pipe, peer>>

\* The exit callback closes the process handle, and leaves the pipe and the
\* turn of the worker as they are.
close_process_handle(w) ==
  /\ master = "up" /\ worker[w] = "dead"
  /\ worker' = [worker EXCEPT ![w] = "reaped"]
  /\ UNCHANGED <<masterVars, queue, pending, reading, pipe, peer>>

\* Killed, or ended by the SIGPIPE that a write to a dead worker may raise, or
\* by a failed uv_listen.  The system closes what the master had open.
MasterDies ==
  /\ master = "up"
  /\ master' = "down"
  /\ client' = [c \in Conns |-> IF client[c] \in {"none", "refused"} THEN client[c] ELSE "closed"]
  /\ UNCHANGED <<round_robin_counter, to, workerVars, pipe, peer>>

-----------------------------------------------------------------------------
(* A worker, worker.c.                                                     *)

\* Its pipe is read: n handles come with n bytes, unless the worker is out of
\* descriptors and the system drops them.  on_new_connection accepts the first
\* handle pending, if there is one.
Received(w, n, kept) ==
  IF kept THEN pending[w] \o SubSeq(pipe[w], 1, n) ELSE pending[w]

\* Mutant: two handles must be pending, uv_pipe_pending_count(pipe) > 1.
ReadQueue_NeedsTwo(w, n, kept) ==
  /\ worker[w] = "running" /\ queue[w] = "open" /\ n <= Len(pipe[w])
  /\ pipe' = [pipe EXCEPT ![w] = SubSeq(@, n + 1, Len(@))]
  /\ LET got == Received(w, n, kept) IN
       IF Len(got) < 2
         THEN pending' = [pending EXCEPT ![w] = got] /\ reading' = reading
         ELSE /\ pending' = [pending EXCEPT ![w] = Tail(got)]
              /\ reading' \in {reading, [reading EXCEPT ![w] = @ \cup {Head(got)}]}
  /\ UNCHANGED <<masterVars, worker, queue, peer>>

ReadQueue(w, n, kept) ==
  /\ worker[w] = "running" /\ queue[w] = "open" /\ n <= Len(pipe[w])
  /\ pipe' = [pipe EXCEPT ![w] = SubSeq(@, n + 1, Len(@))]
  /\ LET got == Received(w, n, kept) IN
       IF got = <<>>
         THEN UNCHANGED <<pending, reading>>
         ELSE /\ pending' = [pending EXCEPT ![w] = Tail(got)]
              /\ reading' \in {reading, [reading EXCEPT ![w] = @ \cup {Head(got)}]}
  /\ UNCHANGED <<masterVars, worker, queue, peer>>

\* Mutant: the end of the queue is not told from an empty read, nread <= 0.
QueueEnd_Ignored(w) ==
  /\ worker[w] = "running" /\ queue[w] = "open"
  /\ master = "down" /\ pipe[w] = <<>>
  /\ UNCHANGED vars

\* The queue is closed, with what was received and with what is under way.
CloseQueue(w) ==
  /\ worker[w] = "running" /\ queue[w] = "open"
  /\ queue' = [queue EXCEPT ![w] = "closed"]
  /\ pending' = [pending EXCEPT ![w] = <<>>] /\ pipe' = [pipe EXCEPT ![w] = <<>>]
  /\ UNCHANGED <<masterVars, worker, reading, peer>>

\* UV_EOF: the master is gone, and all it wrote has been read.
QueueEnd(w) == master = "down" /\ pipe[w] = <<>> /\ CloseQueue(w)

\* Any other nread < 0 closes the queue too, and need not come.
QueueError(w) == CloseQueue(w)

\* echo_read is given the end of the stream, and closes the connection.
EchoEnd(w, c) ==
  /\ worker[w] = "running" /\ c \in reading[w] /\ peer[c] = "gone"
  /\ reading' = [reading EXCEPT ![w] = @ \ {c}]
  /\ UNCHANGED <<masterVars, worker, queue, pending, pipe, peer>>

Ends(w) ==
  /\ worker' = [worker EXCEPT ![w] = "dead"]
  /\ pipe' = [pipe EXCEPT ![w] = <<>>]
  /\ pending' = [pending EXCEPT ![w] = <<>>]
  /\ reading' = [reading EXCEPT ![w] = {}]
  /\ UNCHANGED <<masterVars, queue, peer>>

\* uv_run returns when the queue is closed and no connection is left.
Exit(w) ==
  /\ worker[w] = "running" /\ queue[w] = "closed" /\ reading[w] = {}
  /\ Ends(w)

WorkerDies(w) == worker[w] = "running" /\ Ends(w)

-----------------------------------------------------------------------------

Master ==
  \/ \E w \in Workers : Spawn(w) \/ close_process_handle(w)
  \/ \E c \in Conns : Refused(c) \/ HandOver(c) \/ AcceptFails(c) \/ CloseClient(c)

Worker(w) ==
  \/ \E n \in 1 .. MaxBatch, kept \in BOOLEAN : ReadQueue(w, n, kept)
  \/ QueueEnd(w)
  \/ \E c \in Conns : EchoEnd(w, c)
  \/ Exit(w)

Next ==
  \/ \E c \in Conns : Connect(c) \/ Hangup(c)
  \/ Master \/ MasterDies
  \/ \E w \in Workers : Worker(w) \/ QueueError(w) \/ WorkerDies(w)

Spec == Init /\ [][Next]_vars

\* The loops of the master and of the workers run; nobody has to die.
FairSpec == Spec /\ WF_vars(Master) /\ \A w \in Workers : WF_vars(Worker(w))

-----------------------------------------------------------------------------

\* The values the variables take.
TypeOK ==
  /\ master \in {"up", "down"}
  /\ client \in [Conns -> {"none", "refused", "open", "closing", "closed"}]
  /\ round_robin_counter \in Workers
  /\ to \in [Conns -> Workers \cup {Nobody}]
  /\ worker \in [Workers -> {"new", "unspawned", "running", "dead", "reaped"}]
  /\ queue \in [Workers -> {"open", "closed"}]
  /\ peer \in [Conns -> {"none", "connected", "gone"}]
  /\ pipe \in [Workers -> Seq(Conns)] /\ pending \in [Workers -> Seq(Conns)]
  /\ reading \in [Workers -> SUBSET Conns]

Given(w) == {c \in Conns : to[c] = w}

\* The handles on their way to a worker, in the order they were written.
Line(w) == pending[w] \o pipe[w]

\* A connection has one place at most, and it is with the worker it was handed
\* to: no two workers answer one peer.
OneOwner ==
  \A w \in Workers :
    /\ ToSet(Line(w)) \cup reading[w] \subseteq Given(w)
    /\ IsInjective(Line(w))
    /\ ToSet(Line(w)) \cap reading[w] = {}

\* A connection in the backlog was handed to no one yet.
BacklogIsNew == \A c \in Conns : client[c] = "none" => to[c] = Nobody

\* The round robin is fair: no worker gets two connections more than another
\* (guide/processes.rst:308-310), failed accepts or not.
Balanced ==
  \A v, w \in Workers : Cardinality(Given(v)) <= Cardinality(Given(w)) + 1

\* The workers before the counter have one connection more than the others.
RoundRobin ==
  \A w \in Workers :
    /\ IsFiniteSet(Given(w))
    /\ Cardinality(Given(w)) = Cardinality(Given(CpuCount - 1))
                                 + (IF w < round_robin_counter THEN 1 ELSE 0)

\* A read may bring several handles and its callback accepts one (worker.c:60 is
\* an if), so handles wait for the next read.  They never pile up: a worker
\* accepts one of every MaxBatch handles it is given, at least.
TakenUp ==
  \A w \in Workers :
    Len(pending[w]) * MaxBatch
      <= (MaxBatch - 1) * (Cardinality(Given(w)) - Len(pipe[w]))

\* The hand-over from master to worker, checked as one.
HandOverInv == TypeOK /\ OneOwner /\ Balanced /\ BacklogIsNew /\ RoundRobin /\ TakenUp

\* No connection waits for ever in the backlog, nor in the pipe to a worker that
\* reads it: it is refused, closed, or received by its worker, or lost with it.
\* And with whatever leaves the pipe of a worker the first handle that waits there
\* is accepted, so that it waits for the next connection at most.  (Should none
\* come, it is never accepted.)
ServedInTheEnd ==
  /\ \A c \in Conns :
       peer[c] # "none" ~>
         \/ to[c] = Nobody /\ (master = "down" \/ client[c] \in {"refused", "closed"})
         \/ \E w \in Workers : to[c] = w /\ c \notin ToSet(pipe[w])
  /\ [][\A w \in Workers : pending[w] # <<>> /\ Len(pipe'[w]) < Len(pipe[w])
                             => Head(pending[w]) \notin ToSet(pending'[w])]_vars

\* Workers do not outlive the master and the peers: they read the end of their
\* queue and stop.
OrphansEnd ==
  \A w \in Workers :
    master = "down" /\ (\A c \in Conns : peer[c] # "connected") ~> worker[w] # "running"

=============================================================================
