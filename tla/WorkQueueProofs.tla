-------------------------- MODULE WorkQueueProofs --------------------------
(***************************************************************************)
(* Proofs about WorkQueue, for any number of requests, pool threads and    *)
(* signals, with the signal handler and without it.                        *)
(***************************************************************************)
EXTENDS WorkQueue, TLAPS

USE CountsAssumption DEF Reqs

\* The initial states satisfy the inductive invariant.
LEMMA InitIInv == Init => IInv
  BY DEF Init, IInv, TypeOK, CancelledNeverRuns, StatusIsTrue, QueueingInv,
         HandlerInv, SignalInv, ExitIsComplete

\* The next request is in none of the places yet.
LEMMA QueueWorkInv ==
  ASSUME IInv, QueueWork
  PROVE  IInv'
  <1> USE DEF QueueWork, Alive, reqVars, sigVars
  <1>1. TypeOK'
    BY DEF IInv, TypeOK
  <1>2. CancelledNeverRuns'
    BY DEF IInv, QueueingInv, CancelledNeverRuns
  <1>3. StatusIsTrue'
    BY DEF IInv, StatusIsTrue
  <1>4. QueueingInv'
    BY DEF IInv, TypeOK, QueueingInv
  <1>5. HandlerInv'
    BY DEF IInv, HandlerInv
  <1>6. SignalInv'
    BY DEF IInv, SignalInv
  <1>7. ExitIsComplete'
    BY DEF ExitIsComplete
  <1>8. QED
    BY <1>1, <1>2, <1>3, <1>4, <1>5, <1>6, <1>7 DEF IInv

\* Starting the signal handle and the loop keeps the invariant.
LEMMA StartLoopInv ==
  ASSUME IInv, StartLoop
  PROVE  IInv'
  <1> USE DEF StartLoop, Alive, reqVars, sigVars
  <1>1. TypeOK'
    BY DEF IInv, TypeOK
  <1>2. CancelledNeverRuns'
    BY DEF IInv, CancelledNeverRuns
  <1>3. StatusIsTrue'
    BY DEF IInv, StatusIsTrue
  <1>4. QueueingInv'
    BY DEF QueueingInv
  <1>5. HandlerInv'
    BY DEF HandlerInv
  <1>6. SignalInv'
    BY DEF IInv, SignalInv
  <1>7. ExitIsComplete'
    BY DEF ExitIsComplete
  <1>8. QED
    BY <1>1, <1>2, <1>3, <1>4, <1>5, <1>6, <1>7 DEF IInv

\* A pool thread takes a request out of the queue.
LEMMA TakeWorkInv ==
  ASSUME IInv, NEW r \in Reqs, TakeWork(r)
  PROVE  IInv'
  <1> USE DEF TakeWork, Alive, reqVars, sigVars
  <1>1. TypeOK'
    BY DEF IInv, TypeOK
  <1>2. CancelledNeverRuns'
    BY DEF IInv, CancelledNeverRuns
  <1>3. StatusIsTrue'
    BY DEF IInv, StatusIsTrue
  <1>4. QueueingInv'
    BY DEF IInv, QueueingInv
  <1>5. HandlerInv'
    BY DEF IInv, HandlerInv
  <1>6. SignalInv'
    BY DEF IInv, SignalInv
  <1>7. ExitIsComplete'
    BY DEF ExitIsComplete
  <1>8. QED
    BY <1>1, <1>2, <1>3, <1>4, <1>5, <1>6, <1>7 DEF IInv

\* The work callback of a request returns.
LEMMA fibInv ==
  ASSUME IInv, NEW r \in Reqs, fib(r)
  PROVE  IInv'
  <1> USE DEF fib, Alive, reqVars, sigVars
  <1>1. TypeOK'
    BY DEF IInv, TypeOK
  <1>2. CancelledNeverRuns'
    BY DEF IInv, CancelledNeverRuns
  <1>3. StatusIsTrue'
    BY DEF IInv, StatusIsTrue
  <1>4. QueueingInv'
    BY DEF IInv, QueueingInv
  <1>5. HandlerInv'
    BY DEF IInv, HandlerInv
  <1>6. SignalInv'
    BY DEF IInv, SignalInv
  <1>7. ExitIsComplete'
    BY DEF ExitIsComplete
  <1>8. QED
    BY <1>1, <1>2, <1>3, <1>4, <1>5, <1>6, <1>7 DEF IInv

\* The loop reports a request that ran or was cancelled.
LEMMA after_fibInv ==
  ASSUME IInv, NEW r \in Reqs, after_fib(r)
  PROVE  IInv'
  <1> USE DEF after_fib, Alive, reqVars, sigVars
  <1>1. TypeOK'
    BY DEF IInv, TypeOK
  <1>2. CancelledNeverRuns'
    BY DEF IInv, CancelledNeverRuns
  <1>3. StatusIsTrue'
    BY DEF IInv, StatusIsTrue
  <1>4. QueueingInv'
    BY DEF QueueingInv
  <1>5. HandlerInv'
    BY DEF IInv, HandlerInv
  <1>6. SignalInv'
    BY DEF IInv, SignalInv
  <1>7. ExitIsComplete'
    BY DEF ExitIsComplete
  <1>8. QED
    BY <1>1, <1>2, <1>3, <1>4, <1>5, <1>6, <1>7 DEF IInv

\* A signal is caught, or kills the process.
LEMMA SigintInv ==
  ASSUME IInv, Sigint
  PROVE  IInv'
  <1> USE DEF Sigint, Alive, reqVars, sigVars
  <1>1. TypeOK'
    BY DEF IInv, TypeOK, SignalInv
  <1>2. CancelledNeverRuns'
    BY DEF IInv, CancelledNeverRuns
  <1>3. StatusIsTrue'
    BY DEF IInv, StatusIsTrue
  <1>4. QueueingInv'
    BY DEF IInv, QueueingInv
  <1>5. HandlerInv'
    BY DEF IInv, HandlerInv
  <1>6. SignalInv'
    BY DEF IInv, TypeOK, SignalInv
  <1>7. ExitIsComplete'
    BY DEF ExitIsComplete
  <1>8. QED
    BY <1>1, <1>2, <1>3, <1>4, <1>5, <1>6, <1>7 DEF IInv

\* The handler starts with every queued request ahead of it.
LEMMA EnterHandlerInv ==
  ASSUME IInv, EnterHandler
  PROVE  IInv'
  <1> USE DEF EnterHandler, Alive, reqVars, sigVars
  <1>1. TypeOK'
    BY DEF IInv, TypeOK
  <1>2. CancelledNeverRuns'
    BY DEF IInv, CancelledNeverRuns
  <1>3. StatusIsTrue'
    BY DEF IInv, StatusIsTrue
  <1>4. QueueingInv'
    BY DEF QueueingInv
  <1>5. HandlerInv'
    BY DEF IInv, TypeOK, HandlerInv
  <1>6. SignalInv'
    BY DEF IInv, TypeOK, SignalInv
  <1>7. ExitIsComplete'
    BY DEF ExitIsComplete
  <1>8. QED
    BY <1>1, <1>2, <1>3, <1>4, <1>5, <1>6, <1>7 DEF IInv

\* uv_cancel takes a request out of the queue, or changes nothing.
LEMMA CancelInv ==
  ASSUME IInv, Cancel
  PROVE  IInv'
  <1> USE DEF Cancel, Alive, reqVars, sigVars
  <1>1. TypeOK'
    BY DEF IInv, TypeOK
  <1>2. CancelledNeverRuns'
    BY DEF IInv, CancelledNeverRuns
  <1>3. StatusIsTrue'
    BY DEF IInv, StatusIsTrue
  <1>4. QueueingInv'
    BY DEF QueueingInv
  <1>5. HandlerInv'
    BY DEF IInv, TypeOK, HandlerInv
  <1>6. SignalInv'
    BY DEF IInv, SignalInv
  <1>7. ExitIsComplete'
    BY DEF ExitIsComplete
  <1>8. QED
    BY <1>1, <1>2, <1>3, <1>4, <1>5, <1>6, <1>7 DEF IInv

\* The handler ends with an empty queue behind it.
LEMMA LeaveHandlerInv ==
  ASSUME IInv, LeaveHandler
  PROVE  IInv'
  <1> USE DEF LeaveHandler, Alive, reqVars, sigVars
  <1>1. TypeOK'
    BY DEF IInv, TypeOK
  <1>2. CancelledNeverRuns'
    BY DEF IInv, CancelledNeverRuns
  <1>3. StatusIsTrue'
    BY DEF IInv, StatusIsTrue
  <1>4. QueueingInv'
    BY DEF QueueingInv
  <1>5. HandlerInv'
    BY DEF IInv, TypeOK, HandlerInv
  <1>6. SignalInv'
    BY DEF IInv, TypeOK, SignalInv
  <1>7. ExitIsComplete'
    BY DEF ExitIsComplete
  <1>8. QED
    BY <1>1, <1>2, <1>3, <1>4, <1>5, <1>6, <1>7 DEF IInv

\* uv_run returns when everything was reported.
LEMMA ExitInv ==
  ASSUME IInv, Exit
  PROVE  IInv'
  <1> USE DEF Exit, Alive, reqVars, sigVars
  <1>1. TypeOK'
    BY DEF IInv, TypeOK
  <1>2. CancelledNeverRuns'
    BY DEF IInv, CancelledNeverRuns
  <1>3. StatusIsTrue'
    BY DEF IInv, StatusIsTrue
  <1>4. QueueingInv'
    BY DEF QueueingInv
  <1>5. HandlerInv'
    BY DEF IInv, HandlerInv
  <1>6. SignalInv'
    BY DEF IInv, SignalInv
  <1>7. ExitIsComplete'
    BY DEF IInv, TypeOK, HandlerInv, SignalInv, CancelledNeverRuns,
       StatusIsTrue, ExitIsComplete
  <1>8. QED
    BY <1>1, <1>2, <1>3, <1>4, <1>5, <1>6, <1>7 DEF IInv

-----------------------------------------------------------------------------
(* The theorems.                                                           *)

\* Every step of the program keeps the inductive invariant.
LEMMA NextIInv == IInv /\ [Next]_vars => IInv'
  <1> SUFFICES ASSUME IInv, [Next]_vars PROVE IInv'
    OBVIOUS
  <1>1. CASE Pool
    BY <1>1, TakeWorkInv, fibInv DEF Pool
  <1>2. CASE Loop
    BY <1>2, QueueWorkInv, StartLoopInv, after_fibInv, EnterHandlerInv, CancelInv,
       LeaveHandlerInv, ExitInv DEF Loop
  <1>3. CASE Sigint
    BY <1>3, SigintInv
  <1>4. CASE UNCHANGED vars
    BY <1>4 DEF vars, IInv, TypeOK, CancelledNeverRuns, StatusIsTrue,
                QueueingInv, HandlerInv, SignalInv, ExitIsComplete
  <1>5. QED
    BY <1>1, <1>2, <1>3, <1>4 DEF Next

\* IInv is an invariant of both programs.
THEOREM Invariance == Spec => []IInv
  BY InitIInv, NextIInv, PTL DEF Spec

\* Every variable keeps its type.
THEOREM TypeCorrect == Spec => []TypeOK
  <1>1. IInv => TypeOK
    BY DEF IInv
  <1>2. QED
    BY <1>1, Invariance, PTL

\* No request is in two places: what uv_cancel took is never run.
THEOREM CancelSafe == Spec => []CancelledNeverRuns
  <1>1. IInv => CancelledNeverRuns
    BY DEF IInv
  <1>2. QED
    BY <1>1, Invariance, PTL

\* The status of after_fib tells whether fib ran.
THEOREM StatusSafe == Spec => []StatusIsTrue
  <1>1. IInv => StatusIsTrue
    BY DEF IInv
  <1>2. QED
    BY <1>1, Invariance, PTL

\* uv_run returns when every request was reported and the signal received.
THEOREM ExitSafe == Spec => []ExitIsComplete
  <1>1. IInv => ExitIsComplete
    BY DEF IInv
  <1>2. QED
    BY <1>1, Invariance, PTL

\* Once the handler is done the pool starts no request.
THEOREM NothingStarts == Spec => NoStartAfterHandler
  <1>1. IInv /\ [Next]_vars => (sig = "stopped" => running' \subseteq running)
    <2> SUFFICES ASSUME IInv, [Next]_vars, sig = "stopped"
                 PROVE  running' \subseteq running
      OBVIOUS
    <2>1. queued = {}
      BY DEF IInv, HandlerInv
    <2>2. CASE Pool
      BY <2>1, <2>2 DEF Pool, TakeWork, fib
    <2>3. CASE Loop
      BY <2>3 DEF Loop, QueueWork, StartLoop, after_fib, EnterHandler, Cancel,
                  LeaveHandler, Exit, reqVars
    <2>4. CASE Sigint
      BY <2>4 DEF Sigint, reqVars
    <2>5. CASE UNCHANGED vars
      BY <2>5 DEF vars
    <2>6. QED
      BY <2>2, <2>3, <2>4, <2>5 DEF Next
  <1>2. QED
    BY <1>1, Invariance, PTL DEF Spec, NoStartAfterHandler

-----------------------------------------------------------------------------
(* WorkQueue implements UvWork.                                            *)

\* Initially every request is new.
LEMMA InitRefines == Init => Work!Init
  BY DEF Init, Work!Init, StateOf

\* A step that changes the state of request r alone is one step of its life.
LEMMA OneRequestMoves ==
  ASSUME NEW r \in Reqs, NEW from, NEW to,
         StateOf(r) = from, StateOf(r)' = to,
         \A q \in Reqs : q # r => StateOf(q)' = StateOf(q),
         <<from, to>> \in {<<"new", "queued">>, <<"queued", "running">>,
                          <<"running", "ran">>, <<"queued", "cancelled">>,
                          <<"ran", "after_ok">>, <<"cancelled", "after_ECANCELED">>}
  PROVE  Work!Next
  <1>1. [q \in Reqs |-> StateOf(q)]' = [[q \in Reqs |-> StateOf(q)] EXCEPT ![r] = to]
    OBVIOUS
  <1>2. [q \in Reqs |-> StateOf(q)][r] = from
    OBVIOUS
  <1>3. Work!Go(r, from, to)
    BY <1>1, <1>2 DEF Work!Go
  <1>4. QED
    BY <1>3 DEF Work!Next

\* A step that leaves the requests alone is a stutter of UvWork.
LEMMA NoRequestMoves ==
  ASSUME UNCHANGED reqVars
  PROVE  UNCHANGED [r \in Reqs |-> StateOf(r)]
  BY DEF reqVars, StateOf

\* Every step of the program is a step of UvWork or leaves it unchanged.
LEMMA StepRefines ==
  IInv /\ [Next]_vars => [Work!Next]_[r \in Reqs |-> StateOf(r)]
  <1> SUFFICES ASSUME IInv, [Next]_vars
               PROVE  Work!Next \/ UNCHANGED [r \in Reqs |-> StateOf(r)]
    OBVIOUS
  <1> USE DEF IInv, TypeOK, CancelledNeverRuns, StatusIsTrue, StateOf
  <1>1. ASSUME NEW r \in Reqs, r = k, QueueWork PROVE Work!Next
    <2>1. StateOf(r) = "new" /\ StateOf(r)' = "queued"
      BY <1>1 DEF QueueWork, QueueingInv
    <2>2. \A q \in Reqs : q # r => StateOf(q)' = StateOf(q)
      BY <1>1 DEF QueueWork
    <2>3. QED
      BY <2>1, <2>2, OneRequestMoves
  <1>2. ASSUME NEW r \in Reqs, TakeWork(r) PROVE Work!Next
    <2>1. StateOf(r) = "queued" /\ StateOf(r)' = "running"
      BY <1>2 DEF TakeWork
    <2>2. \A q \in Reqs : q # r => StateOf(q)' = StateOf(q)
      BY <1>2 DEF TakeWork
    <2>3. QED
      BY <2>1, <2>2, OneRequestMoves
  <1>3. ASSUME NEW r \in Reqs, fib(r) PROVE Work!Next
    <2>1. StateOf(r) = "running" /\ StateOf(r)' = "ran"
      BY <1>3 DEF fib
    <2>2. \A q \in Reqs : q # r => StateOf(q)' = StateOf(q)
      BY <1>3 DEF fib
    <2>3. QED
      BY <2>1, <2>2, OneRequestMoves
  <1>4. ASSUME NEW r \in Reqs, after_fib(r) PROVE Work!Next
    <2>1. \A q \in Reqs : q # r => StateOf(q)' = StateOf(q)
      BY <1>4 DEF after_fib
    <2>2. CASE r \in cancelled
      <3>1. StateOf(r) = "cancelled" /\ StateOf(r)' = "after_ECANCELED"
        BY <1>4, <2>2 DEF after_fib
      <3>2. QED
        BY <2>1, <3>1, OneRequestMoves
    <2>3. CASE r \notin cancelled
      <3>1. StateOf(r) = "ran" /\ StateOf(r)' = "after_ok"
        BY <1>4, <2>3 DEF after_fib
      <3>2. QED
        BY <2>1, <3>1, OneRequestMoves
    <2>4. QED
      BY <2>2, <2>3
  <1>5. ASSUME NEW r \in Reqs, r = k, Cancel
        PROVE  Work!Next \/ UNCHANGED [q \in Reqs |-> StateOf(q)]
    <2>1. \A q \in Reqs : q # r => StateOf(q)' = StateOf(q)
      BY <1>5 DEF Cancel
    <2>2. CASE r \in queued
      <3>1. StateOf(r) = "queued" /\ StateOf(r)' = "cancelled"
        BY <1>5, <2>2 DEF Cancel
      <3>2. QED
        BY <2>1, <3>1, OneRequestMoves
    <2>3. CASE r \notin queued
      <3>1. UNCHANGED reqVars
        BY <1>5, <2>3 DEF Cancel, reqVars
      <3>2. QED
        BY <3>1, NoRequestMoves
    <2>4. QED
      BY <2>2, <2>3
  <1>6. CASE StartLoop \/ EnterHandler \/ LeaveHandler \/ Exit \/ Sigint
    <2>1. UNCHANGED reqVars
      BY <1>6 DEF StartLoop, EnterHandler, LeaveHandler, Exit, Sigint
    <2>2. QED
      BY <2>1, NoRequestMoves
  <1>7. CASE UNCHANGED vars
    <2>1. UNCHANGED reqVars
      BY <1>7 DEF vars, reqVars
    <2>2. QED
      BY <2>1, NoRequestMoves
  <1>8. QueueWork \/ Cancel => \E r \in Reqs : r = k
    BY DEF QueueWork, Cancel
  <1>9. QED
    BY <1>1, <1>2, <1>3, <1>4, <1>5, <1>6, <1>7, <1>8 DEF Next, Pool, Loop

\* Each request lives the life libuv promises, for any number of requests.
THEOREM Refinement == Spec => KeepsPromise
  <1>1. Spec => Work!Spec
    BY InitRefines, StepRefines, Invariance, PTL DEF Spec, Work!Spec
  <1>2. QED
    BY <1>1 DEF KeepsPromise

=============================================================================
