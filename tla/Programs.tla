------------------------------ MODULE Programs ------------------------------
(***************************************************************************)
(* The example programs that run one loop in one process, each a module of *)
(* its own over the variables of UvLoop: a behaviour is a run of one of    *)
(* them.  Here are the rules of libuv that all of them are held to, and    *)
(* what each must have done, and must come to do, in the end.              *)
(***************************************************************************)
EXTENDS Uvcat, Uvtee, Cgi, Dns, UdpDhcp, Uvwget, TtyGravity, LoopExamples,
        ProcessExamples, Signals, PipeSocket

Init ==
  \/ UvcatInit \/ UvteeInit \/ CgiInit \/ DnsInit \/ DhcpInit \/ UvwgetInit
  \/ GravityInit \/ TtyInit \/ LoopsInit \/ ProcessInit \/ SignalInit \/ SocketInit

\* The close callbacks that do nothing: all but uvwget's.
CloseCallback(h) ==
  /\ program # "uvwget" /\ CloseDone(h)
  /\ UNCHANGED <<program, stage, pending, memory, own, world>>

\* What the program, the loop and the kernel go on with by themselves.
Step ==
  \/ ~TimersDue /\ UvRunReturns
  \/ \E h \in Handles : CloseCallback(h)
  \/ UvcatStep \/ UvteeStep \/ CgiStep \/ DnsStep \/ DhcpStep \/ UvwgetStep
  \/ GravityStep \/ LoopsStep \/ ProcessStep \/ SignalStep \/ SocketStep

\* What peers, users and other processes may do or not.
World ==
  \/ UvteeWorld \/ CgiWorld \/ DnsWorld \/ DhcpWorld \/ UvwgetWorld
  \/ GravityWorld \/ LoopsWorld \/ ProcessWorld \/ SignalWorld \/ SocketWorld

Next == Step \/ World

Spec == Init /\ [][Next]_vars /\ WF_vars(Step)

-----------------------------------------------------------------------------

\* Shapes: the states of handles, the requests under way, the objects.
TypeOK ==
  /\ stage \in {"setup", "loop", "many", "done", "failed", "crashed", "killed"}
  /\ handle \in [Handles -> {"none", "idle", "active", "background", "closing", "closed"}]
  /\ \A o \in memory : Len(o) = 2 /\ o[2] \in Nat
  /\ \A i \in DOMAIN pending :
       /\ DOMAIN pending[i] = {"req", "on", "buf"}
       /\ pending[i].on \in Handles \cup {"none"}
  /\ world.mishap \subseteq
       {"short_write", "failed", "tail_cut", "write_failed", "overlap", "spawn_failed",
        "peer_ended", "nothing_to_read", "tty_stopped", "timer_lost", "other_action",
        "full_read", "block_ended", "not_a_terminal", "not_polled"}

\* After these the program has broken a rule of libuv: dns frees its socket
\* in the callback that closes it, cgi starts child_req again while it is in
\* use, tty-gravity writes from a buffer and tty with a request that is gone,
\* and idle-compute writes past the end of its buffer.
Broken ==
  world.mishap \cap
    {"peer_ended", "overlap", "tty_stopped", "block_ended", "full_read"} # {}

\* The rules of memory (handle.rst 133-137, request.rst): a handle stays in
\* memory until its close callback has run, a request and its buffer until
\* its callback has run, and no request is submitted twice.  And of poll handles
\* (poll.rst 18): a descriptor has one.
MemoryRules ==
  ~Broken =>
    /\ \A h \in Handles : handle[h] \notin {"none", "closed"} => Object(h) \in memory
    /\ \A i \in DOMAIN pending : pending[i].req \in memory /\ pending[i].buf \in memory
    /\ \A i, j \in DOMAIN pending : i # j => pending[i].req # pending[j].req
    /\ OneWatcher

\* handle.rst 137 says it of every handle: memory is released in the close
\* callback or after it, so what is closing is still there.
FreedAfterClose == \A h \in Handles : handle[h] = "closing" => Object(h) \in memory

\* Every handle of every program lives the life of UvHandle: none is closed
\* twice, or used or given up while it closes, and closing comes to an end.
Life == INSTANCE UvHandle WITH
  state <- [h \in Handles |->
              IF Broken \/ stage = "crashed" THEN "undefined" ELSE handle[h]]

HandleLife == Life!Spec

\* What uvcat and uvtee put out is what they read, in order (main.c 22, 48),
\* and what idle-compute prints is the line just typed (main.c 22).
OutputIsInput ==
  /\ program = "uvcat" => UvcatOutput
  /\ program = "uvtee" => UvteeOutput
  /\ LoopsOutput

\* When uv_run has returned the program has done what it is for.
DoneIsComplete ==
  stage = "done" =>
    /\ program = "uvcat" => UvcatComplete
    /\ program = "uvtee" => UvteeComplete
    /\ program = "udp-dhcp" => DhcpComplete
    /\ program = "uvwget" => UvwgetComplete
    /\ program = "tty-gravity" => GravityComplete
    /\ program = "signal" => SignalComplete
    /\ LoopsComplete /\ ProcessComplete

\* A program that has got all it waits for ends, and a connection whose
\* child has exited is closed.
Due ==
  \/ stage = "loop" /\ program \in {"uvcat", "uvwget"}
  \/ stage = "loop" /\ program \in {"tty-gravity", "tty"} /\ NoMishap
  \/ UvteeDue \/ DnsDue \/ DhcpDue \/ LoopsDue \/ ProcessDue \/ SignalDue

EndsWhenDue ==
  /\ Due ~> (stage \in {"done", "crashed", "killed"} \/ Broken)
  /\ \A c \in Clients : CgiDue(c) ~> (handle[c] = "closed" \/ Broken)

=============================================================================
