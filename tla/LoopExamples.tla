---------------------------- MODULE LoopExamples ----------------------------
(***************************************************************************)
(* Four programs of docs/code that show the loop itself: uvstop,           *)
(* idle-basic, idle-compute and ref-timer.  What they print is left out,   *)
(* but for the text of idle-compute.                                       *)
(***************************************************************************)
EXTENDS UvLoop

CONSTANTS
  IdleLimit,   \* 10e6 in idle-basic
  Lateness     \* bound: by how many ms the loop may be late for a timer

ASSUME IdleAssumption ==
  /\ {"idler", "prep", "gc_req", "fake_job_req"} \subseteq Handles
  /\ IdleLimit \in Nat \ {0} /\ Lateness \subseteq Nat

LoopsInit ==
  \/ Begin("uvstop", {"idler", "prep"},
           [counter |-> 0, prepared |-> 0, stop |-> FALSE, phase |-> "idle"],
           [mishap |-> {}])
  \/ Begin("idle-basic", {"idler"}, [counter |-> 0], [mishap |-> {}])
  \/ Begin("idle-compute", {"idler", "stdin_watcher", "buffer"},
           [buffer |-> [i \in 1 .. BufferSize |-> 0], printed |-> <<>>],
           [lines |-> 0, typed |-> <<>>, mishap |-> {}])
  \/ Begin("ref-timer", {"gc_req", "fake_job_req"},
           [gc |-> 0, fake_job |-> 9000], [now |-> 0, freed |-> 0, mishap |-> {}])

-----------------------------------------------------------------------------
(* uvstop: an iteration runs the idle callback, then the prepare callback, *)
(* and uv_run looks at uv_stop's flag and at the handles before the next.  *)

UvstopMain ==
  /\ Setup("uvstop")
  /\ stage' = "loop"
  /\ handle' = Turn({"idler", "prep"}, "active")
  /\ UNCHANGED <<program, pending, memory, own, world>>

\* counter >= 5: idle_cb calls uv_stop.
Enough(n) == n >= 5

idle_cb ==
  /\ InLoop("uvstop") /\ own.phase = "idle" /\ ~own.stop
  /\ handle["idler"] = "active"
  /\ own' = [own EXCEPT !.counter = @ + 1, !.phase = "prepare",
                        !.stop = Enough(own.counter + 1)]
  /\ UNCHANGED <<program, stage, handle, pending, memory, world>>

prep_cb ==
  /\ InLoop("uvstop") /\ own.phase = "prepare"
  /\ own' = [own EXCEPT !.prepared = @ + 1, !.phase = "idle"]
  /\ UNCHANGED <<program, stage, handle, pending, memory, world>>

\* The handles are still active.
Stopped ==
  /\ InLoop("uvstop") /\ own.phase = "idle" /\ own.stop
  /\ stage' = "done"
  /\ UNCHANGED <<program, handle, pending, memory, own, world>>

-----------------------------------------------------------------------------
(* idle-basic and idle-compute.                                            *)

IdleBasicMain ==
  /\ Setup("idle-basic")
  /\ stage' = "loop"
  /\ handle' = Turn({"idler"}, "active")
  /\ UNCHANGED <<program, pending, memory, own, world>>

wait_for_a_while ==
  /\ InLoop("idle-basic") /\ handle["idler"] = "active"
  /\ own' = [counter |-> own.counter + 1]
  /\ handle' = IF own.counter + 1 >= IdleLimit THEN Turn({"idler"}, "idle") ELSE handle
  /\ UNCHANGED <<program, stage, pending, memory, world>>

ReadStdin == Request(Object("stdin_watcher"), "none", Object("buffer"))

IdleComputeMain ==
  /\ Setup("idle-compute")
  /\ stage' = "loop"
  /\ handle' = Turn({"idler"}, "active")
  /\ pending' = <<ReadStdin>>
  /\ UNCHANGED <<program, memory, own, world>>

crunch_away ==
  /\ InLoop("idle-compute") /\ handle["idler"] = "active"
  /\ handle' = Turn({"idler"}, "idle")
  /\ UNCHANGED <<program, stage, pending, memory, own, world>>

\* The text in buf ends before its first 0, or not at all.
Text(buf) ==
  LET ends == {i \in DOMAIN buf : buf[i] = 0}
  IN IF ends = {} THEN buf ELSE SubSeq(buf, 1, Min(ends) - 1)

\* n bytes of a line were typed, over what the buffer had.  The byte after
\* them is set to 0, wherever that is, and the text is printed.
OnTypeBytes(n) ==
  /\ InLoop("idle-compute") /\ Awaits(ReadStdin.req)
  /\ world.lines < MaxLines
  /\ LET line == world.lines + 1
         read == [i \in 1 .. BufferSize |->
                    IF i <= n THEN line ELSE IF i = n + 1 THEN 0 ELSE own.buffer[i]]
     IN /\ own' = [buffer |-> read, printed |-> Text(read)]
        /\ world' = [world EXCEPT
             !.lines = line,
             !.typed = [i \in 1 .. n |-> line],
             !.mishap = IF n = BufferSize THEN @ \cup {"full_read"} ELSE @]
  /\ pending' = <<ReadStdin>>
  /\ handle' = Turn({"idler"}, "active")
  /\ UNCHANGED <<program, stage, memory>>

\* The end of the input, or an error: nothing is submitted.
OnTypeEnd ==
  /\ InLoop("idle-compute") /\ Awaits(ReadStdin.req)
  /\ pending' = <<>>
  /\ UNCHANGED <<program, stage, handle, memory, own, world>>

-----------------------------------------------------------------------------
(* ref-timer: times are in milliseconds.  The loop sets its clock when it  *)
(* wakes up, at the next time that is due or later, and runs what is due   *)
(* then, the earlier first.  gc_req repeats, counted from that clock, and  *)
(* does not keep the loop alive.                                           *)

RefTimerMain ==
  /\ Setup("ref-timer")
  /\ stage' = "loop"
  /\ handle' = [Turn({"gc_req"}, "background") EXCEPT !["fake_job_req"] = "active"]
  /\ \E late \in Lateness : world' = [world EXCEPT !.now = late]
  /\ UNCHANGED <<program, pending, memory, own>>

JobWaits == handle["fake_job_req"] = "active"

\* The two have started at the same time; of equal times the one that was set
\* first, fake_job's, comes first.
GcDue == own.gc <= world.now /\ (JobWaits => own.gc < own.fake_job)
JobDue == JobWaits /\ own.fake_job <= world.now /\ own.fake_job <= own.gc
TimersDue == program = "ref-timer" /\ (GcDue \/ JobDue)

WakeUp ==
  /\ InLoop("ref-timer") /\ LoopAlive /\ ~TimersDue
  /\ \E late \in Lateness :
       world' = [world EXCEPT !.now = Min({own.gc, own.fake_job}) + late]
  /\ UNCHANGED <<program, stage, handle, pending, memory, own>>

gc ==
  /\ InLoop("ref-timer") /\ GcDue
  /\ world' = [world EXCEPT !.freed = @ + 1]
  /\ own' = [own EXCEPT !.gc = world.now + 2000]
  /\ UNCHANGED <<program, stage, handle, pending, memory>>

fake_job ==
  /\ InLoop("ref-timer") /\ JobDue
  /\ handle' = Turn({"fake_job_req"}, "idle")
  /\ UNCHANGED <<program, stage, pending, memory, own, world>>

-----------------------------------------------------------------------------

LoopsWorld == OnTypeEnd \/ \E n \in 1 .. BufferSize : OnTypeBytes(n)

LoopsStep ==
  \/ UvstopMain \/ idle_cb \/ prep_cb \/ Stopped
  \/ IdleBasicMain \/ wait_for_a_while
  \/ IdleComputeMain \/ crunch_away
  \/ RefTimerMain \/ WakeUp \/ gc \/ fake_job

\* What has been done when uv_run returned: uvstop has finished the
\* iteration that called uv_stop and no other, ref-timer has done its job, not
\* before its time, with the garbage collector still running: it has run since
\* the start, however late the loop was, at intervals of 2000 ms or more.
LoopsComplete ==
  /\ program = "uvstop" => own.counter = 5 /\ own.prepared = own.counter
  /\ program = "idle-basic" => own.counter = IdleLimit
  /\ program = "ref-timer" =>
       /\ world.now >= 9000 /\ handle["gc_req"] = "background"
       /\ world.freed > 0 /\ own.gc \in world.now + 1 .. world.now + 2000
       /\ 2000 * world.freed <= own.gc

\* idle-compute prints just what was typed last, whatever longer line was in
\* the buffer before, unless a line filled it.
LoopsOutput ==
  program = "idle-compute" /\ NoMishap => own.printed = world.typed

LoopsDue ==
  \/ stage = "loop" /\ program \in {"uvstop", "idle-basic", "ref-timer"}
  \/ InLoop("idle-compute") /\ pending = <<>>

=============================================================================
