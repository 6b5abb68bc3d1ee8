------------------------------- MODULE Signals -------------------------------
(***************************************************************************)
(* docs/code/signal/main.c: SIGUSR1 is watched by four handles, two in the *)
(* loop of one thread and one in each of the two loops of another, which   *)
(* runs them with UV_RUN_NOWAIT, joined by ||.  A handle stops itself in   *)
(* its callback; the threads end when their loops have nothing left.       *)
(*                                                                         *)
(* libuv passes a signal to every handle that watches it at that moment,   *)
(* through a pipe of its loop.  While no handle watches it, SIGUSR1 has    *)
(* its default action, which ends the process.                             *)
(***************************************************************************)
EXTENDS UvLoop

CONSTANT MaxSignals   \* how often SIGUSR1 is sent

Sigs == {"sig1a", "sig1b", "sig2", "sig3"}

ASSUME SignalsAssumption == Sigs \subseteq Handles /\ MaxSignals \in Nat

Threads == {"thread1", "thread2"}

\* The handles of a thread in the order it starts them.
SigsOf == [thread1 |-> <<"sig1a", "sig1b">>, thread2 |-> <<"sig2", "sig3">>]
ThreadOf(h) == IF h \in {"sig1a", "sig1b"} THEN "thread1" ELSE "thread2"

SignalInit ==
  Begin("signal", Sigs,
        [started |-> [t \in Threads |-> 0], ended |-> {},
         calls |-> [h \in Sigs |-> 0]],
        [sent |-> 0, inbox |-> {}, mishap |-> {}])

\* main creates the threads and joins them.
SignalMain ==
  /\ Setup("signal")
  /\ stage' = "many"
  /\ UNCHANGED <<program, handle, pending, memory, own, world>>

Join ==
  /\ Many("signal") /\ own.ended = Threads
  /\ stage' = "done"
  /\ UNCHANGED <<program, handle, pending, memory, own, world>>

\* thread1_worker and thread2_worker start their handles one by one.
Start(t) ==
  /\ Many("signal") /\ own.started[t] < 2
  /\ handle' = Turn({SigsOf[t][own.started[t] + 1]}, "active")
  /\ own' = [own EXCEPT !.started[t] = @ + 1]
  /\ UNCHANGED <<program, stage, pending, memory, world>>

Active(h) == handle[h] = "active"
InUvRun(t) == Many("signal") /\ own.started[t] = 2 /\ t \notin own.ended

\* uv_run(loop3) is evaluated only when uv_run(loop2) has returned 0.
Served_Both(h) ==
  \* Mutant: && for ||: loop3 is run only while loop2 is alive.
  InUvRun(ThreadOf(h)) /\ (h = "sig3" => Active("sig2"))

Served(h) ==
  InUvRun(ThreadOf(h)) /\ (h = "sig3" => ~Active("sig2"))

\* A message for a handle that has stopped is passed over.
signal_handler(h) ==
  /\ Served(h) /\ h \in world.inbox
  /\ own' = IF Active(h) THEN [own EXCEPT !.calls[h] = @ + 1] ELSE own
  /\ handle' = Turn({h}, "idle")
  /\ world' = [world EXCEPT !.inbox = @ \ {h}]
  /\ UNCHANGED <<program, stage, pending, memory>>

\* The loops of t have no active handle left.
End(t) ==
  /\ InUvRun(t)
  /\ \A i \in 1 .. 2 : ~Active(SigsOf[t][i])
  /\ own' = [own EXCEPT !.ended = @ \cup {t}]
  /\ UNCHANGED <<program, stage, handle, pending, memory, world>>

Signal ==
  /\ Many("signal") /\ world.sent < MaxSignals
  /\ \/ /\ \E h \in Sigs : Active(h)
        /\ world' = [world EXCEPT
             !.sent = @ + 1,
             !.inbox = @ \cup {h \in Sigs : Active(h)}]
        /\ UNCHANGED stage
     \/ /\ \A h \in Sigs : ~Active(h)
        /\ world' = [world EXCEPT !.sent = @ + 1]
        /\ stage' = "killed"
  /\ UNCHANGED <<program, handle, pending, memory, own>>

SignalWorld == Signal

SignalStep ==
  \/ SignalMain \/ Join
  \/ \E t \in Threads : Start(t) \/ End(t)
  \/ \E h \in Sigs : signal_handler(h)

-----------------------------------------------------------------------------

\* The handler has run four times, once for each handle.
SignalComplete == \A h \in Sigs : own.calls[h] = 1

\* A signal has reached every handle that has not yet had one.
SignalDue ==
  /\ Many("signal")
  /\ \A h \in Sigs : own.calls[h] = 0 => Active(h) /\ h \in world.inbox

=============================================================================
