---------------------------- MODULE LocksProofs ----------------------------
(***************************************************************************)
(* Proofs about Locks, for any finite sets of readers and writers and any  *)
(* number of iterations.                                                   *)
(***************************************************************************)
EXTENDS Locks, FiniteSetTheorems, TLAPS

USE ThreadsAssumption, IterationsAssumption

-----------------------------------------------------------------------------
(* Counting threads and increments.                                        *)

\* The threads are finitely many, so the barrier's count is a number.
LEMMA ThresholdType ==
  /\ IsFiniteSet(Threads)
  /\ Cardinality(Threads) \in Nat
  /\ Threshold \in Nat
  <1>1. IsFiniteSet(Threads)
    BY FS_Union DEF Threads
  <1>2. Cardinality(Threads) \in Nat
    BY <1>1, FS_CardinalityType
  <1>3. QED
    BY <1>1, <1>2 DEF Threshold

\* Every set of increments is finite.
LEMMA IncrementsFinite == IsFiniteSet(Increments)
  <1>1. IsFiniteSet(1 .. Iterations)
    BY FS_Interval
  <1>2. IsFiniteSet(Writers \X (1 .. Iterations))
    BY <1>1, FS_Product
  <1>3. Increments \in SUBSET (Writers \X (1 .. Iterations))
    BY DEF Increments
  <1>4. QED
    BY <1>2, <1>3, FS_Subset

\* Arriving at the barrier leaves its counters natural numbers.
LEMMA ArriveType ==
  ASSUME blocker \in [in : Nat, out : Nat, live : BOOLEAN], Arrive
  PROVE  blocker' \in [in : Nat, out : Nat, live : BOOLEAN]
  <1>1. CASE blocker.in + 1 = Threshold
    BY <1>1, ThresholdType DEF Arrive
  <1>2. CASE blocker.in + 1 # Threshold
    BY <1>2 DEF Arrive
  <1>3. QED
    BY <1>1, <1>2

\* The count of waiting threads when one more arrives; if the barrier is
\* then full, everybody has arrived.
LEMMA OneMoreWaits ==
  ASSUME NEW t \in Threads, NEW W \in SUBSET Threads, t \notin W
  PROVE  /\ Cardinality(W \cup {t}) = Cardinality(W) + 1
         /\ Cardinality(W) \in Nat
         /\ Cardinality(W) + 1 <= Cardinality(Threads)
         /\ Cardinality(W) + 1 = Cardinality(Threads) => W \cup {t} = Threads
  <1>1. IsFiniteSet(W) /\ Cardinality(W) \in Nat
    BY ThresholdType, FS_Subset, FS_CardinalityType
  <1>2. Cardinality(W \cup {t}) = Cardinality(W) + 1
    BY <1>1, FS_AddElement
  <1>3. W \cup {t} \in SUBSET Threads
    OBVIOUS
  <1>4. /\ Cardinality(W \cup {t}) <= Cardinality(Threads)
        /\ Cardinality(Threads) = Cardinality(W \cup {t}) => Threads = W \cup {t}
    BY <1>3, ThresholdType, FS_Subset
  <1>5. QED
    BY <1>1, <1>2, <1>4

-----------------------------------------------------------------------------
(* The initial states.                                                     *)

\* The initial states satisfy the inductive invariant.
LEMMA InitIInv == Init => IInv
  <1> SUFFICES ASSUME Init PROVE IInv
    OBVIOUS
  <1>1. TypeOK
    <2>1. i \in [Threads -> 0 .. Iterations] /\ reg \in [Threads -> Nat]
      BY DEF Init
    <2>2. numlock \in [rd : SUBSET Readers, wr : SUBSET Writers, live : BOOLEAN]
      BY DEF Init
    <2>3. blocker \in [in : Nat, out : Nat, live : BOOLEAN]
      BY DEF Init
    <2>4. QED
      BY <2>1, <2>2, <2>3 DEF Init, TypeOK
  <1>2. CounterInv /\ LockInv /\ StableSnapshot
    BY DEF Init, CounterInv, LockInv, StableSnapshot, InCritical, Threads
  <1>3. NoLostIncrement
    <2>1. Increments = {}
      BY DEF Init, Increments, Threads
    <2>2. QED
      BY <2>1, FS_EmptySet DEF Init, NoLostIncrement
  <1>4. BarrierInv
    <2>1. {t \in Threads : pc[t] = "waiting"} = {}
      BY DEF Init
    <2>2. ~Passed
      BY DEF Init, Passed
    <2>3. QED
      BY <2>1, <2>2, FS_EmptySet, ThresholdType DEF Init, BarrierInv, Threshold
  <1>5. QED
    BY <1>1, <1>2, <1>3, <1>4 DEF IInv

-----------------------------------------------------------------------------
(* Steps that leave shared_num, the barrier and main alone keep the parts  *)
(* of the invariant about them.                                            *)

\* A step of thread t that ends no iteration and stores nothing leaves the
\* set of increments as it is.
LEMMA SameIncrements ==
  ASSUME TypeOK, NEW t \in Threads,
         NEW new, new # "stored", pc[t] # "stored",
         pc' = [pc EXCEPT ![t] = new], i' = i
  PROVE  Increments' = Increments
  BY DEF Increments, TypeOK, Threads

\* A step of thread t outside the barrier leaves the barrier's count right.
LEMMA SameBarrier ==
  ASSUME TypeOK, BarrierInv, NEW t \in Threads,
         NEW new, new \notin {"waiting", "ended"},
         pc[t] \notin {"waiting", "ended"},
         pc' = [pc EXCEPT ![t] = new],
         UNCHANGED <<main, blocker>>, numlock'.live = numlock.live
  PROVE  BarrierInv'
  <1>1. {u \in Threads : pc[u] = "waiting"}' = {u \in Threads : pc[u] = "waiting"}
    BY DEF TypeOK
  <1>2. Passed' <=> Passed
    BY DEF TypeOK, Passed
  <1>3. ~Passed
    BY DEF BarrierInv
  <1>4. QED
    BY <1>1, <1>2, <1>3 DEF BarrierInv
-----------------------------------------------------------------------------
(* One lemma per action of a thread.                                       *)

\* uv_rwlock_rdlock keeps the invariant: no writer holds the lock.
LEMMA RdLockInv ==
  ASSUME IInv, NEW t \in Threads, RdLock(t)
  PROVE  IInv'
  <1> USE DEF RdLock, Looping
  <1>1. TypeOK'
    BY DEF IInv, TypeOK, Threads, CounterInv
  <1>2. CounterInv'
    BY DEF IInv, TypeOK, CounterInv, InCritical, Threads
  <1>3. LockInv'
    BY DEF IInv, TypeOK, CounterInv, LockInv, InCritical, Threads
  <1>4. StableSnapshot'
    BY DEF IInv, TypeOK, LockInv, StableSnapshot, InCritical, Threads
  <1>5. BarrierInv'
    BY SameBarrier DEF IInv, TypeOK
  <1>6. NoLostIncrement'
    BY SameIncrements DEF IInv, TypeOK, NoLostIncrement
  <1>7. QED
    BY <1>1, <1>2, <1>3, <1>4, <1>5, <1>6 DEF IInv

\* uv_rwlock_wrlock keeps the invariant: nobody holds the lock.
LEMMA WrLockInv ==
  ASSUME IInv, NEW t \in Threads, WrLock(t)
  PROVE  IInv'
  <1> USE DEF WrLock, Looping
  <1>1. TypeOK'
    BY DEF IInv, TypeOK, Threads, CounterInv
  <1>2. CounterInv'
    BY DEF IInv, TypeOK, CounterInv, InCritical, Threads
  <1>3. LockInv'
    BY DEF IInv, TypeOK, CounterInv, LockInv, InCritical, Threads
  <1>4. StableSnapshot'
    BY DEF IInv, TypeOK, LockInv, StableSnapshot, InCritical, Threads
  <1>5. BarrierInv'
    BY SameBarrier DEF IInv, TypeOK
  <1>6. NoLostIncrement'
    BY SameIncrements DEF IInv, TypeOK, NoLostIncrement
  <1>7. QED
    BY <1>1, <1>2, <1>3, <1>4, <1>5, <1>6 DEF IInv

\* Loading shared_num keeps the invariant: nobody else may store.
LEMMA LoadInv ==
  ASSUME IInv, NEW t \in Threads, Load(t)
  PROVE  IInv'
  <1> USE DEF Load
  <1>1. TypeOK'
    BY DEF IInv, TypeOK, Threads, CounterInv
  <1>2. CounterInv'
    BY DEF IInv, TypeOK, CounterInv, InCritical, Threads
  <1>3. LockInv'
    BY DEF IInv, TypeOK, CounterInv, LockInv, InCritical, Threads
  <1>4. StableSnapshot'
    BY DEF IInv, TypeOK, LockInv, StableSnapshot, InCritical, Threads
  <1>5. BarrierInv'
    BY SameBarrier DEF IInv, TypeOK
  <1>6. NoLostIncrement'
    BY SameIncrements DEF IInv, TypeOK, NoLostIncrement
  <1>7. QED
    BY <1>1, <1>2, <1>3, <1>4, <1>5, <1>6 DEF IInv

\* The store of shared_num++ adds exactly one increment.
LEMMA StoreInv ==
  ASSUME IInv, NEW t \in Threads, Store(t)
  PROVE  IInv'
  <1> USE DEF Store
  <1>1. TypeOK'
    BY DEF IInv, TypeOK, Threads, CounterInv
  <1>2. CounterInv'
    BY DEF IInv, TypeOK, CounterInv, InCritical, Threads
  <1>3. LockInv'
    BY DEF IInv, TypeOK, CounterInv, LockInv, InCritical, Threads
  <1>4. StableSnapshot'
    BY DEF IInv, TypeOK, LockInv, StableSnapshot, InCritical, Threads
  <1>5. BarrierInv'
    BY SameBarrier DEF IInv, TypeOK
  <1>6. NoLostIncrement'
    <2> DEFINE new == <<t, i[t] + 1>>
    <2>1. i[t] + 1 \in 1 .. Iterations
      BY DEF IInv, TypeOK, CounterInv, InCritical, Threads
    <2>2. new \notin Increments
      BY DEF IInv, TypeOK, Increments, Threads
    <2>3. Increments' = Increments \cup {new}
      <3> SUFFICES ASSUME NEW p \in Writers \X (1 .. Iterations)
                   PROVE  (p \in Increments)' <=> p \in Increments \/ p = new
        BY <2>1 DEF Increments
      <3>1. CASE p[1] = t
        BY <3>1 DEF IInv, TypeOK, Increments, Threads
      <3>2. CASE p[1] # t
        BY <3>2 DEF IInv, TypeOK, Increments, Threads
      <3>3. QED
        BY <3>1, <3>2
    <2>4. Cardinality(Increments') = Cardinality(Increments) + 1
      BY <2>2, <2>3, IncrementsFinite, FS_AddElement
    <2>5. shared_num' = shared_num + 1
      BY DEF IInv, StableSnapshot, Threads
    <2>6. QED
      BY <2>4, <2>5 DEF IInv, NoLostIncrement
  <1>7. QED
    BY <1>1, <1>2, <1>3, <1>4, <1>5, <1>6 DEF IInv

\* uv_rwlock_rdunlock keeps the invariant.
LEMMA RdUnlockInv ==
  ASSUME IInv, NEW t \in Threads, RdUnlock(t)
  PROVE  IInv'
  <1> USE DEF RdUnlock
  <1>1. TypeOK'
    <2>1. i[t] \in 0 .. Iterations /\ i[t] < Iterations
      BY DEF IInv, TypeOK, CounterInv, InCritical
    <2>2. i' \in [Threads -> 0 .. Iterations]
      BY <2>1 DEF IInv, TypeOK
    <2>3. QED
      BY <2>2 DEF IInv, TypeOK, Threads
  <1>2. CounterInv'
    BY DEF IInv, TypeOK, CounterInv, InCritical, Threads
  <1>3. LockInv'
    BY DEF IInv, TypeOK, CounterInv, LockInv, InCritical, Threads
  <1>4. StableSnapshot'
    BY DEF IInv, TypeOK, LockInv, StableSnapshot, InCritical, Threads
  <1>5. BarrierInv'
    BY SameBarrier DEF IInv, TypeOK
  <1>6. NoLostIncrement'
    <2>1. Increments' = Increments
      BY ThreadsAssumption DEF IInv, TypeOK, Increments, Threads
    <2>2. QED
      BY <2>1 DEF IInv, NoLostIncrement
  <1>7. QED
    BY <1>1, <1>2, <1>3, <1>4, <1>5, <1>6 DEF IInv

\* uv_rwlock_wrunlock turns the stored increment into a finished one.
LEMMA WrUnlockInv ==
  ASSUME IInv, NEW t \in Threads, WrUnlock(t)
  PROVE  IInv'
  <1> USE DEF WrUnlock
  <1>1. TypeOK'
    <2>1. i[t] \in 0 .. Iterations /\ i[t] < Iterations
      BY DEF IInv, TypeOK, CounterInv, InCritical
    <2>2. i' \in [Threads -> 0 .. Iterations]
      BY <2>1 DEF IInv, TypeOK
    <2>3. QED
      BY <2>2 DEF IInv, TypeOK, Threads
  <1>2. CounterInv'
    BY DEF IInv, TypeOK, CounterInv, InCritical, Threads
  <1>3. LockInv'
    BY DEF IInv, TypeOK, CounterInv, LockInv, InCritical, Threads
  <1>4. StableSnapshot'
    BY DEF IInv, TypeOK, LockInv, StableSnapshot, InCritical, Threads
  <1>5. BarrierInv'
    BY SameBarrier DEF IInv, TypeOK
  <1>6. NoLostIncrement'
    <2>1. Increments' = Increments
      <3> SUFFICES ASSUME NEW p \in Writers \X (1 .. Iterations)
                   PROVE  (p \in Increments)' <=> p \in Increments
        BY DEF Increments
      <3>1. CASE p[1] = t
        BY <3>1 DEF IInv, TypeOK, Increments, Threads
      <3>2. CASE p[1] # t
        BY <3>2 DEF IInv, TypeOK, Increments, Threads
      <3>3. QED
        BY <3>1, <3>2
    <2>2. QED
      BY <2>1 DEF IInv, NoLostIncrement
  <1>7. QED
    BY <1>1, <1>2, <1>3, <1>4, <1>5, <1>6 DEF IInv

\* A thread that arrives is one more who waits; the last party to arrive,
\* this thread, lets everybody through.
LEMMA ThreadArrivesInv ==
  ASSUME IInv, NEW t \in Threads, ThreadArrives(t)
  PROVE  IInv'
  <1> USE DEF ThreadArrives, Arrive
  <1> DEFINE W == {u \in Threads : pc[u] = "waiting"}
  <1>1. TypeOK'
    <2>1. blocker' \in [in : Nat, out : Nat, live : BOOLEAN]
      BY ArriveType DEF IInv, TypeOK
    <2>2. QED
      BY <2>1 DEF IInv, TypeOK, Threads
  <1>2. CounterInv'
    BY DEF IInv, TypeOK, CounterInv, InCritical, Threads
  <1>3. LockInv'
    BY DEF IInv, TypeOK, LockInv, InCritical, Threads
  <1>4. StableSnapshot'
    BY DEF IInv, TypeOK, StableSnapshot, Threads
  <1>5. BarrierInv'
    <2>1. ~Passed
      BY DEF IInv, BarrierInv
    <2>2. W' = W \cup {t} /\ t \notin W /\ W \in SUBSET Threads
      BY DEF IInv, TypeOK
    <2> HIDE DEF W
    <2>3. /\ Cardinality(W') = Cardinality(W) + 1
          /\ Cardinality(W) \in Nat
          /\ Cardinality(W) + 1 <= Cardinality(Threads)
          /\ Cardinality(W) + 1 = Cardinality(Threads) => W' = Threads
      BY <2>2, OneMoreWaits
    <2>4. blocker.in = Cardinality(W) + (IF main = "waiting" THEN 1 ELSE 0)
      BY <2>1 DEF IInv, BarrierInv, W
    <2>5. blocker \in [in : Nat, out : Nat, live : BOOLEAN]
      BY DEF IInv, TypeOK
    <2>6. CASE blocker.in + 1 = Threshold
      <3>1. main = "waiting" /\ W' = Threads
        BY <2>3, <2>4, <2>6, ThresholdType DEF Threshold
      <3>2. \A u \in Threads : pc'[u] = "waiting"
        BY <3>1 DEF W
      <3>3. Passed'
        BY <2>5, <2>6, ThresholdType DEF Passed, Threshold
      <3>4. QED
        BY <3>1, <3>2, <3>3, <2>5, <2>6 DEF IInv, BarrierInv
    <2>7. CASE blocker.in + 1 # Threshold
      <3>1. blocker.in' = Cardinality(W') + (IF main' = "waiting" THEN 1 ELSE 0)
        BY <2>3, <2>4, <2>5, <2>7
      <3>2. blocker.in' < Threshold
        BY <2>1, <2>5, <2>7, ThresholdType DEF IInv, BarrierInv
      <3>3. ~Passed'
        BY <2>1, <2>5, <2>7 DEF IInv, TypeOK, Passed
      <3>4. QED
        BY <3>1, <3>2, <3>3, <2>5, <2>7 DEF IInv, BarrierInv, W
    <2>8. QED
      BY <2>6, <2>7
  <1>6. NoLostIncrement'
    BY SameIncrements DEF IInv, TypeOK, NoLostIncrement
  <1>7. QED
    BY <1>1, <1>2, <1>3, <1>4, <1>5, <1>6 DEF IInv

\* A thread leaves the barrier only when everybody has arrived.
LEMMA ThreadLeavesInv ==
  ASSUME IInv, NEW t \in Threads, ThreadLeaves(t)
  PROVE  IInv'
  <1> USE DEF ThreadLeaves, Leave
  <1>1. TypeOK'
    <2>1. blocker' \in [in : Nat, out : Nat, live : BOOLEAN]
      BY DEF IInv, TypeOK
    <2>2. QED
      BY <2>1 DEF IInv, TypeOK, Threads
  <1>2. CounterInv'
    BY DEF IInv, TypeOK, CounterInv, InCritical, Threads
  <1>3. LockInv'
    BY DEF IInv, TypeOK, LockInv, InCritical, Threads
  <1>4. StableSnapshot'
    BY DEF IInv, TypeOK, StableSnapshot, Threads
  <1>5. BarrierInv'
    <2>1. Passed /\ Passed'
      BY DEF IInv, TypeOK, Passed
    <2>2. QED
      BY <2>1 DEF IInv, TypeOK, BarrierInv
  <1>6. NoLostIncrement'
    BY SameIncrements DEF IInv, TypeOK, NoLostIncrement
  <1>7. QED
    BY <1>1, <1>2, <1>3, <1>4, <1>5, <1>6 DEF IInv

-----------------------------------------------------------------------------
(* One lemma per action of the main thread.                                *)

\* uv_thread_create keeps the invariant.
LEMMA CreateThreadInv ==
  ASSUME IInv, NEW t \in Threads, CreateThread(t)
  PROVE  IInv'
  <1> USE DEF CreateThread
  <1>1. TypeOK'
    BY DEF IInv, TypeOK, Threads
  <1>2. CounterInv'
    BY DEF IInv, TypeOK, CounterInv, InCritical, Threads
  <1>3. LockInv'
    BY DEF IInv, TypeOK, LockInv, InCritical, Threads
  <1>4. StableSnapshot'
    BY DEF IInv, TypeOK, StableSnapshot, Threads
  <1>5. BarrierInv'
    BY SameBarrier DEF IInv, TypeOK
  <1>6. NoLostIncrement'
    BY SameIncrements DEF IInv, TypeOK, NoLostIncrement
  <1>7. QED
    BY <1>1, <1>2, <1>3, <1>4, <1>5, <1>6 DEF IInv

\* The parts of the invariant that speak of the threads only.
LEMMA SameThreads ==
  ASSUME IInv, UNCHANGED <<pc, i, reg, shared_num>>,
         UNCHANGED <<numlock.rd, numlock.wr>>
  PROVE  CounterInv' /\ LockInv' /\ StableSnapshot' /\ NoLostIncrement'
  <1>1. CounterInv' /\ StableSnapshot'
    BY DEF IInv, CounterInv, StableSnapshot, InCritical
  <1>2. LockInv'
    BY DEF IInv, LockInv, InCritical
  <1>3. NoLostIncrement'
    BY DEF IInv, NoLostIncrement, Increments
  <1>4. QED
    BY <1>1, <1>2, <1>3

\* main arrives at the barrier once, after creating every thread.
LEMMA MainArrivesInv ==
  ASSUME IInv, MainArrives
  PROVE  IInv'
  <1> USE DEF MainArrives, Arrive
  <1> DEFINE W == {u \in Threads : pc[u] = "waiting"}
  <1>1. blocker \in [in : Nat, out : Nat, live : BOOLEAN]
    BY DEF IInv, TypeOK
  <1>2. ~Passed
    BY DEF IInv, BarrierInv
  <1>3. IsFiniteSet(W) /\ Cardinality(W) \in Nat /\ W \subseteq Threads
    BY ThresholdType, FS_Subset, FS_CardinalityType
  <1>4. Cardinality(W) = Cardinality(Threads) => W = Threads
    BY <1>3, ThresholdType, FS_Subset
  <1>5. blocker.in = Cardinality(W)
    BY <1>2, <1>3 DEF IInv, BarrierInv
  <1>6. W' = W
    OBVIOUS
  <1> HIDE DEF W
  <1>7. TypeOK'
    <2>1. blocker' \in [in : Nat, out : Nat, live : BOOLEAN]
      BY <1>1, ArriveType
    <2>2. QED
      BY <2>1 DEF IInv, TypeOK
  <1>8. BarrierInv'
    <2>1. CASE blocker.in + 1 = Threshold
      <3>1. W = Threads
        BY <1>3, <1>4, <1>5, <2>1, ThresholdType DEF Threshold
      <3>2. Passed'
        BY <1>1, <2>1, ThresholdType DEF Passed, Threshold
      <3>3. QED
        BY <1>1, <2>1, <3>1, <3>2 DEF IInv, BarrierInv, W
    <2>2. CASE blocker.in + 1 # Threshold
      <3>1. ~Passed'
        BY <1>1, <1>2, <2>2 DEF Passed
      <3>2. blocker'.in = Cardinality(W') + 1 /\ blocker'.in < Threshold
        BY <1>1, <1>2, <1>3, <1>5, <1>6, <2>2, ThresholdType DEF IInv, BarrierInv
      <3>3. QED
        BY <1>1, <2>2, <3>1, <3>2 DEF IInv, BarrierInv, W
    <2>3. QED
      BY <2>1, <2>2
  <1>9. QED
    BY <1>7, <1>8, SameThreads DEF IInv

\* main leaves the barrier only when everybody has arrived.
LEMMA MainLeavesInv ==
  ASSUME IInv, MainLeaves
  PROVE  IInv'
  <1> USE DEF MainLeaves, Leave
  <1>1. TypeOK'
    <2>1. blocker' \in [in : Nat, out : Nat, live : BOOLEAN]
      BY DEF IInv, TypeOK
    <2>2. QED
      BY <2>1 DEF IInv, TypeOK, IsLast
  <1>2. BarrierInv'
    <2>1. Passed /\ Passed'
      BY DEF IInv, TypeOK, Passed
    <2>2. QED
      BY <2>1 DEF IInv, TypeOK, BarrierInv
  <1>3. QED
    BY <1>1, <1>2, SameThreads DEF IInv

\* main destroys the barrier and the lock only past the barrier.
LEMMA DestroyInv ==
  ASSUME IInv, DestroyBlocker \/ DestroyLockAndExit
  PROVE  IInv'
  <1> USE DEF DestroyBlocker, DestroyLockAndExit
  <1>1. UNCHANGED <<pc, i, reg, shared_num, serializer>>
    OBVIOUS
  <1>2. UNCHANGED <<numlock.rd, numlock.wr, blocker.in, blocker.out>>
    BY DEF IInv, TypeOK
  <1>3. TypeOK'
    BY ZenonT(30) DEF IInv, TypeOK
  <1>4. BarrierInv'
    <2>1. Passed /\ Passed'
      BY DEF Passed
    <2>2. main' \in {"destroyed", "exited"}
      OBVIOUS
    <2>3. QED
      BY <1>1, <2>1, <2>2 DEF IInv, BarrierInv
  <1>5. QED
    BY <1>1, <1>2, <1>3, <1>4, SameThreads DEF IInv

-----------------------------------------------------------------------------
(* The theorems.                                                           *)

\* Every step of the program keeps the inductive invariant.
LEMMA NextIInv == IInv /\ [Next]_vars => IInv'
  <1> SUFFICES ASSUME IInv, [Next]_vars PROVE IInv'
    OBVIOUS
  <1>1. ASSUME NEW t \in Threads, ThreadStep(t) PROVE IInv'
    BY <1>1, RdLockInv, WrLockInv, LoadInv, StoreInv, RdUnlockInv, WrUnlockInv,
       ThreadArrivesInv, ThreadLeavesInv DEF ThreadStep
  <1>2. CASE MainStep
    BY <1>2, CreateThreadInv, MainArrivesInv, MainLeavesInv, DestroyInv DEF MainStep
  <1>3. CASE UNCHANGED vars
    <2>1. TypeOK' /\ BarrierInv'
      BY <1>3 DEF vars, IInv, TypeOK, BarrierInv, Passed
    <2>2. QED
      BY <1>3, <2>1, SameThreads DEF vars, IInv
  <1>4. QED
    BY <1>1, <1>2, <1>3 DEF Next

\* IInv is an invariant of the program for any number of threads.
THEOREM Invariance == Spec => []IInv
  BY InitIInv, NextIInv, PTL DEF Spec

\* Every variable keeps its type.
THEOREM TypeCorrect == Spec => []TypeOK
  <1>1. IInv => TypeOK
    BY DEF IInv
  <1>2. QED
    BY <1>1, Invariance, PTL

\* Writers are alone in their critical sections, for any number of threads.
THEOREM MutualExclusion == Spec => []RWExclusion
  <1>1. IInv => RWExclusion
    BY DEF IInv, LockInv, RWExclusion, Threads
  <1>2. QED
    BY <1>1, Invariance, PTL

\* No increment of shared_num is ever lost.
THEOREM IncrementsKept == Spec => []NoLostIncrement
  <1>1. IInv => NoLostIncrement
    BY DEF IInv
  <1>2. QED
    BY <1>1, Invariance, PTL

\* What a thread reads of shared_num stays true until it leaves its critical
\* section: reader and writer of locks/main.c 8-38 use it under the lock.
THEOREM SnapshotStays == Spec => []StableSnapshot
  <1>1. IInv => StableSnapshot
    BY DEF IInv
  <1>2. QED
    BY <1>1, Invariance, PTL

\* The barrier protects the destruction of the lock and of itself.
THEOREM DestroyedAfterUse == Spec => []NoUseAfterDestroy
  <1>1. IInv => NoUseAfterDestroy
    BY DEF IInv, BarrierInv, Passed, NoUseAfterDestroy
  <1>2. QED
    BY <1>1, Invariance, PTL

\* When main is past the barrier shared_num has its final value.
THEOREM FinalCount == Spec => []AllIncrementsAtExit
  <1>1. IInv => AllIncrementsAtExit
    <2> SUFFICES ASSUME IInv, main \in {"released", "destroyed", "exited"}
                 PROVE  shared_num = Cardinality(Writers) * Iterations
      BY DEF AllIncrementsAtExit
    <2>1. \A t \in Threads : i[t] = Iterations
      BY DEF IInv, BarrierInv, CounterInv, Passed
    <2>2. Increments = Writers \X (1 .. Iterations)
      BY <2>1 DEF Increments, Threads
    <2>3. IsFiniteSet(1 .. Iterations) /\ Cardinality(1 .. Iterations) = Iterations
      BY FS_Interval
    <2>4. Cardinality(Increments) = Cardinality(Writers) * Iterations
      BY <2>2, <2>3, FS_Product
    <2>5. QED
      BY <2>4 DEF IInv, NoLostIncrement
  <1>2. QED
    BY <1>1, Invariance, PTL

=============================================================================
