------------------------------- MODULE UvLoop -------------------------------
(***************************************************************************)
(* What the example programs have in common: a main that sets things up    *)
(* and calls uv_run, handles, requests whose callbacks are still to come,  *)
(* and memory that handles, requests and buffers live in.                  *)
(*                                                                         *)
(* libuv itself is not in the repository: this module says what            *)
(* docs/src/handle.rst, request.rst and design.rst promise of it.  Each    *)
(* program is a module of its own that EXTENDS this one and guards its     *)
(* actions with its name; Programs composes them.                          *)
(***************************************************************************)
EXTENDS Integers, Sequences, FiniteSets, SequencesExt, FiniteSetsExt

CONSTANTS
  Handles,     \* the names of the handles of all programs
  BufferSize,  \* sizeof(buffer), 1024 in uvcat and in idle-compute
  MaxLines,    \* bound: lines that a peer sends to dns, or a user types
  Nobody       \* no client, no server

ASSUME LoopAssumption == BufferSize \in Nat \ {0} /\ MaxLines \in Nat

VARIABLES
  program,   \* the program that runs
  stage,     \* of its main: "setup", "loop" while in uv_run, "many" while
             \* several threads or processes run, "done" after either,
             \* "failed" after an early return, "crashed", "killed"
  handle,    \* the state of each handle, see UvHandle
  pending,   \* the requests whose callback has not run, in their order
  memory,    \* the objects that exist: static, on the heap, on main's stack
  own,       \* the program's own variables
  world      \* what is outside the process, and what has gone wrong there

vars == <<program, stage, handle, pending, memory, own, world>>

-----------------------------------------------------------------------------
(* Objects, requests and handles.                                          *)

Object(name) == <<name, 0>>
Objects(names) == {Object(n) : n \in names}

\* A request of its own name, which works on handle h (or on none) and
\* reads or fills buf.
Request(req, h, buf) == [req |-> req, on |-> h, buf |-> buf]

Awaits(req) == \E i \in DOMAIN pending : pending[i].req = req
Without(req) == RemoveAt(pending, Min({i \in DOMAIN pending : pending[i].req = req}))
Busy(h) == \E i \in DOMAIN pending : pending[i].on = h

Turn(hs, s) == [h \in Handles |-> IF h \in hs THEN s ELSE handle[h]]

\* The first request under way for h: streams do theirs in order.
First(h) == pending[Min({i \in DOMAIN pending : pending[i].on = h})]

\* Something happened outside the process that the program does not stand.
Mishap(what) == [world EXCEPT !.mishap = @ \cup {what}]
NoMishap == world.mishap = {}

-----------------------------------------------------------------------------
(* The loop.                                                               *)

Setup(p) == program = p /\ stage = "setup"
InLoop(p) == program = p /\ stage = "loop"
Many(p) == program = p /\ stage = "many"

LoopAlive ==
  \/ pending # <<>>
  \/ \E h \in Handles : handle[h] \in {"active", "closing"}

\* The close callback of h, after the callbacks of its cancelled requests.
\* Nothing is defined of a handle whose memory was freed.
CloseDone(h) ==
  /\ stage = "loop" /\ handle[h] = "closing"
  /\ ~Busy(h) /\ Object(h) \in memory
  /\ handle' = Turn({h}, "closed")

\* uv_run returns when nothing keeps the loop alive.
UvRunReturns ==
  /\ stage = "loop" /\ ~LoopAlive
  /\ stage' = "done"
  /\ UNCHANGED <<program, handle, pending, memory, own, world>>

\* What every program starts from.
Begin(p, static, mine, outside) ==
  /\ program = p
  /\ stage = "setup"
  /\ handle = [h \in Handles |-> "none"]
  /\ pending = <<>>
  /\ memory = Objects(static)
  /\ own = mine
  /\ world = outside

=============================================================================
