------------------------------- MODULE Locks -------------------------------
(***************************************************************************)
(* docs/code/locks/main.c: reader threads and writer threads share one     *)
(* counter under a read-write lock; the main thread waits for them at a    *)
(* barrier, then destroys the barrier and the lock.                        *)
(*                                                                         *)
(* The program has two readers, one writer and 20 iterations.  Every step  *)
(* between two calls into libuv is one action, except shared_num++, which  *)
(* is the load and the store it compiles to.  uv_rwlock_t and uv_barrier_t *)
(* are external: the lock is the set of its holders, the barrier counts    *)
(* who has arrived and who has still to leave, as the fields in and out of *)
(* struct _uv_barrier (include/uv/unix.h) do where pthreads has no barrier. *)
(***************************************************************************)
EXTENDS Integers, FiniteSets

CONSTANTS Readers, Writers, Iterations

ASSUME ThreadsAssumption ==
  /\ IsFiniteSet(Readers)
  /\ IsFiniteSet(Writers)
  /\ Readers \cap Writers = {}

ASSUME IterationsAssumption == Iterations \in Nat

Threads == Readers \cup Writers

\* Mutant: uv_barrier_init does not count main.
Threshold_WithoutMain == Cardinality(Threads)

\* The count given to uv_barrier_init: every thread and main itself.
Threshold == Cardinality(Threads) + 1

VARIABLES
  main,        \* where the main thread is
  pc,          \* where each thread is
  i,           \* its loop counter
  reg,         \* the value of shared_num it last loaded
  shared_num,
  numlock,     \* [rd |-> holders for reading, wr |-> for writing, live |-> not destroyed]
  blocker,     \* [in |-> arrived, out |-> still to leave, live |-> not destroyed]
  serializer   \* uv_barrier_wait returned > 0 to main

vars == <<main, pc, i, reg, shared_num, numlock, blocker, serializer>>

Init ==
  /\ main = "creating"
  /\ pc = [t \in Threads |-> "uncreated"]
  /\ i = [t \in Threads |-> 0]
  /\ reg = [t \in Threads |-> 0]
  /\ shared_num = 0
  /\ numlock = [rd |-> {}, wr |-> {}, live |-> TRUE]
  /\ blocker = [in |-> 0, out |-> 0, live |-> TRUE]
  /\ serializer = FALSE

Running == main # "exited"

-----------------------------------------------------------------------------
(* uv_barrier_wait, for a thread and for main: arrive, then leave once the *)
(* last party has arrived.  The last to leave is told so (result > 0).     *)

Arrive ==
  blocker' = IF blocker.in + 1 = Threshold
               THEN [blocker EXCEPT !.in = 0, !.out = Threshold]
               ELSE [blocker EXCEPT !.in = @ + 1]

Leave ==
  /\ blocker.out > 0
  /\ blocker' = [blocker EXCEPT !.out = @ - 1]

IsLast == blocker.out = 1

-----------------------------------------------------------------------------
(* The threads.  A thread leaves the loop with i = 20 and waits.           *)

\* Mutant: the loop runs once more, i <= 20.
Looping_OnceMore(t) == Running /\ pc[t] = "loop" /\ i[t] <= Iterations

Looping(t) == Running /\ pc[t] = "loop" /\ i[t] < Iterations

\* Mutant: the reader does not take the lock before it reads.
RdLock_Missing(t) ==
  /\ t \in Readers /\ Looping(t)
  /\ pc' = [pc EXCEPT ![t] = "locked"]
  /\ UNCHANGED <<main, i, reg, shared_num, numlock, blocker, serializer>>

RdLock(t) ==
  /\ t \in Readers /\ Looping(t)
  /\ numlock.wr = {}
  /\ numlock' = [numlock EXCEPT !.rd = @ \cup {t}]
  /\ pc' = [pc EXCEPT ![t] = "locked"]
  /\ UNCHANGED <<main, i, reg, shared_num, blocker, serializer>>

WrLock(t) ==
  /\ t \in Writers /\ Looping(t)
  /\ numlock.rd = {} /\ numlock.wr = {}
  /\ numlock' = [numlock EXCEPT !.wr = @ \cup {t}]
  /\ pc' = [pc EXCEPT ![t] = "locked"]
  /\ UNCHANGED <<main, i, reg, shared_num, blocker, serializer>>

\* printf of shared_num by a reader; the load of shared_num++ by a writer.
Load(t) ==
  /\ Running /\ pc[t] = "locked"
  /\ reg' = [reg EXCEPT ![t] = shared_num]
  /\ pc' = [pc EXCEPT ![t] = "loaded"]
  /\ UNCHANGED <<main, i, shared_num, numlock, blocker, serializer>>

Store(t) ==
  /\ t \in Writers
  /\ Running /\ pc[t] = "loaded"
  /\ shared_num' = reg[t] + 1
  /\ pc' = [pc EXCEPT ![t] = "stored"]
  /\ UNCHANGED <<main, i, reg, numlock, blocker, serializer>>

\* Mutant: the reader does not release the lock.
RdUnlock_Missing(t) ==
  /\ t \in Readers
  /\ Running /\ pc[t] = "loaded"
  /\ i' = [i EXCEPT ![t] = @ + 1]
  /\ pc' = [pc EXCEPT ![t] = "loop"]
  /\ UNCHANGED <<main, reg, shared_num, numlock, blocker, serializer>>

RdUnlock(t) ==
  /\ t \in Readers
  /\ Running /\ pc[t] = "loaded"
  /\ numlock' = [numlock EXCEPT !.rd = @ \ {t}]
  /\ i' = [i EXCEPT ![t] = @ + 1]
  /\ pc' = [pc EXCEPT ![t] = "loop"]
  /\ UNCHANGED <<main, reg, shared_num, blocker, serializer>>

WrUnlock(t) ==
  /\ t \in Writers
  /\ Running /\ pc[t] = "stored"
  /\ numlock' = [numlock EXCEPT !.wr = @ \ {t}]
  /\ i' = [i EXCEPT ![t] = @ + 1]
  /\ pc' = [pc EXCEPT ![t] = "loop"]
  /\ UNCHANGED <<main, reg, shared_num, blocker, serializer>>

ThreadArrives(t) ==
  /\ Running /\ pc[t] = "loop" /\ i[t] = Iterations
  /\ Arrive
  /\ pc' = [pc EXCEPT ![t] = "waiting"]
  /\ UNCHANGED <<main, i, reg, shared_num, numlock, serializer>>

ThreadLeaves(t) ==
  /\ Running /\ pc[t] = "waiting"
  /\ Leave
  /\ pc' = [pc EXCEPT ![t] = "ended"]
  /\ UNCHANGED <<main, i, reg, shared_num, numlock, serializer>>

ThreadStep(t) ==
  \/ RdLock(t) \/ WrLock(t) \/ Load(t) \/ Store(t)
  \/ RdUnlock(t) \/ WrUnlock(t)
  \/ ThreadArrives(t) \/ ThreadLeaves(t)

-----------------------------------------------------------------------------
(* The main thread.  The readers are created before the writers; a created *)
(* thread runs at once, beside the creation of the others.                 *)

CreateThread(t) ==
  /\ main = "creating"
  /\ pc[t] = "uncreated"
  /\ t \in Writers => \A r \in Readers : pc[r] # "uncreated"
  /\ pc' = [pc EXCEPT ![t] = "loop"]
  /\ UNCHANGED <<main, i, reg, shared_num, numlock, blocker, serializer>>

MainArrives ==
  /\ main = "creating"
  /\ \A t \in Threads : pc[t] # "uncreated"
  /\ Arrive
  /\ main' = "waiting"
  /\ UNCHANGED <<pc, i, reg, shared_num, numlock, serializer>>

MainLeaves ==
  /\ main = "waiting"
  /\ Leave
  /\ serializer' = IsLast
  /\ main' = "released"
  /\ UNCHANGED <<pc, i, reg, shared_num, numlock>>

DestroyBlocker ==
  /\ main = "released"
  /\ blocker' = [blocker EXCEPT !.live = FALSE]
  /\ main' = "destroyed"
  /\ UNCHANGED <<pc, i, reg, shared_num, numlock, serializer>>

\* uv_rwlock_destroy and the return from main, which ends every thread.
DestroyLockAndExit ==
  /\ main = "destroyed"
  /\ numlock' = [numlock EXCEPT !.live = FALSE]
  /\ main' = "exited"
  /\ UNCHANGED <<pc, i, reg, shared_num, blocker, serializer>>

MainStep ==
  \/ \E t \in Threads : CreateThread(t)
  \/ MainArrives \/ MainLeaves \/ DestroyBlocker \/ DestroyLockAndExit

Next ==
  \/ \E t \in Threads : ThreadStep(t)
  \/ MainStep

Spec == Init /\ [][Next]_vars

\* The operating system runs every thread that can run.
FairSpec ==
  /\ Spec
  /\ WF_vars(MainStep)
  /\ \A t \in Threads : WF_vars(ThreadStep(t))

-----------------------------------------------------------------------------

InCritical(t) == pc[t] \in {"locked", "loaded", "stored"}

\* The iterations of the writers whose critical section is over, or in it
\* with the new value already stored.
Increments ==
  {p \in Writers \X (1 .. Iterations) :
     p[2] <= i[p[1]] \/ (pc[p[1]] = "stored" /\ p[2] = i[p[1]] + 1)}

\* The values the variables take.
TypeOK ==
  /\ main \in {"creating", "waiting", "released", "destroyed", "exited"}
  /\ pc \in [Threads -> {"uncreated", "loop", "locked", "loaded", "stored",
                         "waiting", "ended"}]
  /\ i \in [Threads -> 0 .. Iterations]
  /\ reg \in [Threads -> Nat]
  /\ shared_num \in Nat
  /\ numlock \in [rd : SUBSET Readers, wr : SUBSET Writers, live : BOOLEAN]
  /\ blocker \in [in : Nat, out : Nat, live : BOOLEAN]
  /\ serializer \in BOOLEAN

\* While a writer is between its wrlock and its wrunlock no other thread is
\* between its own lock and unlock (main.c:13-16 and 27-31).
RWExclusion ==
  \A t, u \in Threads :
    t # u /\ InCritical(t) /\ InCritical(u) => t \in Readers /\ u \in Readers

\* The value a thread loaded is still the value of shared_num until it stores
\* or unlocks: a reader's printf pair and a writer's increment see one value.
StableSnapshot ==
  \A t \in Threads : pc[t] = "loaded" => reg[t] = shared_num

\* No increment is lost: shared_num counts the increments the writers have
\* done, in every state.
NoLostIncrement == shared_num = Cardinality(Increments)

\* main destroys the barrier and the lock only when no thread will ask for
\* the lock again, or arrive at the barrier again.
NoUseAfterDestroy ==
  ~blocker.live \/ ~numlock.live =>
    \A t \in Threads : pc[t] \in {"waiting", "ended"}

\* What the barrier is for: once uv_barrier_wait has returned to main, every
\* increment of every writer has been done.
AllIncrementsAtExit ==
  main \in {"released", "destroyed", "exited"} =>
    shared_num = Cardinality(Writers) * Iterations

\* Nobody waits for ever: main gets through the barrier and returns.
Termination == <>(main = "exited")

\* docs/src/threading.rst:187-193: the barrier is destroyed by the thread to
\* which uv_barrier_wait returned a value > 0.  main ignores the result.
DestroyedBySerializer == ~blocker.live => serializer

-----------------------------------------------------------------------------
(* The inductive invariant.                                                *)

\* Where a thread is bounds its loop counter.
CounterInv ==
  /\ \A t \in Threads : InCritical(t) => i[t] < Iterations
  /\ \A t \in Threads : pc[t] \in {"waiting", "ended"} => i[t] = Iterations
  /\ \A t \in Threads : pc[t] = "uncreated" => i[t] = 0
  /\ \A r \in Readers : pc[r] # "stored"

\* The lock is held by the threads in their critical section, and by one of
\* them or by readers only.
LockInv ==
  /\ numlock.rd = {r \in Readers : InCritical(r)}
  /\ numlock.wr = {w \in Writers : InCritical(w)}
  /\ numlock.wr # {} => numlock.rd = {}
  /\ \A v, w \in numlock.wr : v = w

\* The last party has arrived at the barrier.
Passed ==
  \/ blocker.out > 0
  \/ main \in {"released", "destroyed", "exited"}
  \/ \E t \in Threads : pc[t] = "ended"

\* Until then the barrier counts those who wait; from then on nobody is
\* left who has not arrived.
BarrierInv ==
  /\ ~Passed =>
       /\ blocker.in = Cardinality({t \in Threads : pc[t] = "waiting"})
                         + (IF main = "waiting" THEN 1 ELSE 0)
       /\ blocker.in < Threshold
  /\ Passed =>
       /\ main # "creating"
       /\ \A t \in Threads : pc[t] \in {"waiting", "ended"}
  /\ ~blocker.live \/ ~numlock.live => main \in {"destroyed", "exited"}

\* What the code maintains: every property above follows from it.
IInv ==
  /\ TypeOK
  /\ CounterInv
  /\ LockInv
  /\ BarrierInv
  /\ StableSnapshot
  /\ NoLostIncrement

=============================================================================
