# Verification of the libuv documentation repository

The repository holds the documentation of libuv, its public headers
(`include/`), and the example programs of the user guide (`docs/code/`), which
the guide includes line by line and readers copy. libuv's own implementation is
not in it. The logic that is here, and that this project models, is of two kinds:

* the generic data structures of `include/uv/tree.h`, a splay tree and a
  red-black tree written as C macros, complete in the header;
* the example programs: callbacks, threads, locks, servers and processes on top
  of the library. What they need of libuv is modelled as *external*, from how
  they use it and from what the documentation promises.

The models look for what tests of such code rarely reach: two threads between
two statements, a callback that comes after the close, a tree between two links,
a read cut in an unlucky place. Most of what is stated holds. Three statements of
the documentation do not, and a run shows each.

## 1. The system

| Component | State it keeps | Operations | Interacts through |
|---|---|---|---|
| red-black tree (`tree.h` 298-766) | links, parents and colours in the caller's nodes | INSERT, REMOVE, FIND, NFIND, MIN, MAX, NEXT, PREV, the FOREACH loops | calls; a caller that removes inside a safe loop |
| splay tree (`tree.h` 64-296) | links in the caller's nodes; a scratch node while a splay runs | INSERT, REMOVE, FIND, NEXT, MIN, MAX | calls; every lookup rewrites the tree |
| locks (`locks/main.c`) | `shared_num`, a rwlock, a barrier | `reader`, `writer`, `main` | shared memory between threads |
| queue-work, queue-cancel | the array of requests, a signal handle | `fib` on the pool, `after_fib` and `signal_handler` on the loop | thread pool, `uv_cancel`, SIGINT |
| progress (`progress/main.c`) | `percentage`, an async handle | `fake_download` on the pool, `print_progress`, `after` | an unlocked global, `uv_async_send`, `uv_close` |
| tcp and pipe echo servers | handle, buffers and write requests of each client | `on_new_connection`, `echo_read`, `echo_write`, `on_close` | the loop, the peers |
| multi-echo server | the pipes to the workers, a round-robin counter | accept and pass on, spawn, worker exit; accept from a pipe, echo | processes, handles sent over pipes |
| uvcat, uvtee | one buffer and three requests; three pipes | chains of read and write callbacks | files and streams |
| cgi server | one global process handle and its options | accept, spawn, exit callback | child processes |
| dns client, uvwget, udp-dhcp | a socket; curl contexts and a timer; two sockets | resolve, connect, read; poll, time out; send, receive | sockets, libcurl |
| signal, uvstop, idle-basic, idle-compute, ref-timer, helloworld | handles that keep a loop alive | loop callbacks | loops, SIGUSR1 |
| tty-gravity, tty | a timer and one write request | `update` | the loop |
| spawn, detach, proc-streams, onchange | a process handle; handles of watched files | spawn, exit callback; run a command | child processes, files |
| interfaces, plugin, thread-create, helloworld | nothing that lasts between two callbacks | straight lines | - |
| `errno.h`, `UV_ERRNO_MAP` | a number for every error | conditional definitions | the results of all calls |
| `uv.h` and the platform headers | none | declarations | - |

**What is hard.**
*Interleavings*: pool threads take and finish requests between two `uv_cancel`
calls; the progress worker writes while the loop thread reads; readers and
writers of the locks example meet at a barrier that one of them destroys.
*Ordering*: writes are queued several at a time and complete after `uv_close`;
a send and the end of its worker may be seen in either order.
*Partial states*: between two iterations of a tree macro the tree is in pieces,
or has one black too few on a path.
*Limits*: a signal that comes twice, a pool smaller than the queue, an equal key,
the empty tree, a node with no child.
*Ends*: which handles keep a loop alive and who closes them.
*Failures*: short writes, spawns and connections that fail, a terminal that is
stopped, with callbacks that ignore them.
Nothing is persistent but the socket file of the pipe echo server, which a killed
process leaves behind; otherwise the only processes that die are workers and children.

**What makes each component correct.** The trees are ordered sets, whatever the
sequence of calls, and every loop ends. No increment under the lock is lost and
nothing is used after its destruction. A work request runs at most once, is
reported once, and its status tells the truth. Progress never goes back and is
as new as the signal it answers. An echo is exact, each buffer has one owner until
it is freed once, and a peer that leaves is closed. Every program keeps the rules of
libuv: a handle is in memory until its close callback, a request and its buffer until
their callback, and one request is under way once. When `uv_run` returns the work is
done, and it returns. Two errors never have one number.

## 2. The modules

| Module | Models | Uses |
|---|---|---|
| `Locks`, `LocksProofs` | locks example | - |
| `WorkQueue`, `WorkQueueProofs` | queue-work and queue-cancel | implements `UvWork` |
| `UvWork` | the life of a work request, as the documentation promises it | - |
| `Progress` | progress example | - |
| `EchoServer`, `MCEchoServer`, `EchoServerProofs` | tcp and pipe echo servers, and the echo of the multi-echo workers | - |
| `MultiEcho`, `MultiEchoProofs` | multi-echo server, master and workers | - |
| `RbTree`, `MCRbTree`, `RbTreeProofs` | red-black tree | implements `OrderedSet` |
| `SplayTree`, `MCSplayTree`, `SplayTreeProofs` | splay tree | implements `OrderedSet` |
| `OrderedSet` | a set ordered by a key: what a caller of `tree.h` expects | - |
| `Uvcat`, `Uvtee`, `Cgi`, `Dns`, `UdpDhcp`, `Uvwget` | the program of that name | extend `UvLoop` |
| `TtyGravity` | tty-gravity and tty | extends `UvLoop` |
| `LoopExamples` | uvstop, idle-basic, idle-compute, ref-timer | extends `UvLoop` |
| `ProcessExamples` | spawn, proc-streams, detach, onchange | extends `UvLoop` |
| `Signals` | signal example | extends `UvLoop` |
| `PipeSocket` | the socket file of the pipe echo server | extends `UvLoop` |
| `UvLoop` | what these programs have in common | - |
| `UvHandle` | the life of a handle, as the documentation promises it | - |
| `Programs`, `ProgramsProofs` | all of them, with the rules they are held to | extends them, implements `UvHandle` |
| `Errno`, `MCErrno` | error numbers | - |
| `ErrnoProgressProofs` | the theorems of `Errno` and of `Progress` | extends both |

In every module an operation of the code is an action of the same name where it
has one; the definitions whose name ends in `_Something` and whose comment
begins with "Mutant" are plausible mistakes in the definition that follows them,
kept to show that the properties notice.

### Locks
`reader` and `writer` are one control state per thread (`pc`), their `i`, and
`reg`, the register between the load and the store of `shared_num++`. `Load` is
a reader's `printf` too: the value stays in `reg` until the unlock. `main`
creates the threads, which run at once, arrives at the barrier, leaves it,
destroys the barrier and the lock and returns, which ends every thread. The
rwlock is the sets of its holders. The barrier has the two counters of `struct
_uv_barrier` (`include/uv/unix.h`): who has arrived, who has still to leave; the
last to leave is told so by a result greater than zero.

### WorkQueue and UvWork
Requests are numbered as in `fib_reqs`. `queued`, `running`, `ran` and
`cancelled` say where the pool has them, `after` what `after_fib` was told.
`cancels`, chosen in `Init`, is TRUE for queue-cancel and FALSE for queue-work,
the same program without signal handle and handler. `Cancel` is one
`uv_cancel` of the handler's loop, so that the pool may move between two of them.
A callback is otherwise atomic on the loop thread. Before the handle is started and
after `uv_signal_stop` a SIGINT takes the default action and kills the process.
`StateOf` maps these sets to the state that `UvWork` keeps for each request.

### Progress
`fake_download` is one action per statement, because nothing orders its accesses
to `percentage` against those of `print_progress`. A double is two words when
`AtomicDouble` is FALSE, as on a 32-bit build: then the other thread may run
between the two. Each word records the progress it comes from, so that "older"
can be said of it. Sends are merged: `pending` is a flag. `after` closes the
handle; a send that is pending then is never answered. A turn downloads
`(200+random())%1000`, which may be 0 whatever the comment beside it says, so `Sleep`
adds 0 or more, and `Terminates` has to survive turns without progress (see *Fairness*).

### EchoServer
The two servers differ in what they hand to `uv_close`; a client belongs to one
of them. Bytes are numbered, so an echo is right when the peer holds 1, 2, 3, ...
`ReadData` takes any number of the bytes sent, `WriteSome` gives the kernel any
number of those of the oldest write; a finished request waits in `done` for its
callback. `ReadEnd` is the branch `nread < 0`: after it the writes still queued
come back cancelled, and only then does the close callback run. A buffer in
`heap` is named by the last byte it holds, 0 if it was freed in the same
callback. The peers may hang up or reset whenever they like.

### MultiEcho
Master and workers are processes. `HandOver` is `on_new_connection` of main.c
when `uv_accept` succeeds: the handle goes into the pipe of the worker whose turn
it is, or nowhere if that worker did not start (the result of `uv_spawn` is not looked
at) or has died (the write has no callback). `Refused` is its early return. `ReadQueue` is
`on_new_connection` of worker.c: the handles of one read join those pending, and one is
accepted. A worker that is out of
descriptors receives the byte without the handle, hence the branch with nothing
pending. `CloseQueue` is the branch `nread < 0`: `QueueEnd`, the end of the pipe, which a
worker reads when the master is gone and the pipe empty, or `QueueError`, at any
time. `to` remembers whom a connection was handed to. The echo inside
a worker is the same text as the pipe server's and is left to `EchoServer`.

### RbTree, SplayTree, OrderedSet
One action is one iteration of a loop of a macro, or the straight code before or
after it; the two mirror images of every case in the header are one definition with
a side `d`. `tree` holds the fields of the nodes: those of a node that is not in
the tree are STALE, as the caller may have freed it, so reading one shows.
`content` is the set of nodes that calls which returned have left in the tree,
never the links: it is what a refinement mapping gives `OrderedSet`. In
`OrderedSet` a caller invokes one operation at a time, and its result and effect
come with the response. `RB_REMOVE` is called with a node of the tree, as the
header requires, `SPLAY_REMOVE` with any node that has the key. `loop` is a
caller inside `RB_FOREACH_SAFE` or one of its variants, whose body may remove,
and free, the node it is at.

### UvLoop, the programs and Programs
`UvLoop` is libuv as its documentation tells of it (`handle.rst`, `request.rst`,
`design.rst`): `handle` is the state of each handle, `pending` the requests whose
callbacks are still to come, `memory` the objects that exist, `stage` how far `main` is.
What a program keeps is in `own`, what is outside it in `world`. Every program is a module
with its `Init`, an action for `main` up to `uv_run`, an action for every way through a
callback, and the two disjunctions `...Step`, what the program, the loop and the kernel
do by themselves, and `...World`, what peers, users and other processes may do. A callback
is one action, as the loop runs it without interruption; the threads of signal and the
processes of `PipeSocket` have one action for every step another could see.
`Programs` is the choice of one program. There a behaviour is one run of it, and the same
rules are stated of all: `MemoryRules`; `HandleLife`, that the handles implement
`UvHandle`; `DoneIsComplete` and `EndsWhenDue`.

What goes wrong outside is named in `world.mishap` when it happens, and a property says
which of the names it excuses, so that it says what the program withstands and what it
does not. `Broken` lists the five after which nothing is defined, all from the
code: the dns client frees its socket early (`dns/main.c:19`), the cgi server
starts the one `child_req` for a second connection (`cgi/main.c:44`), tty-gravity writes
from a buffer of a function that has returned when the terminal is stopped
(`tty-gravity/main.c:23`), tty uses a request of a block that has ended (`tty/main.c:21`),
and idle-compute ends a line that fills its buffer one byte behind it
(`idle-compute/main.c:22`). From there a program takes no step whose effect is
undefined. Others are excused by single properties and only as far as they reach:
`short_write` by the completeness of uvcat's output, not by its order; `timer_lost` by
uvwget's downloads that have no socket yet, not by the others nor by the contexts. In
`PipeSocket` nothing is excused for the whole run: `world.lost` names the servers
whose file another one removed and `world.left` says that the owner of the file left
without removing it, and the next server that binds ends both.

*Uvcat*: bytes are numbered and the buffer keeps what no read has overwritten. *Uvtee*: a
copy is a request and its buffer, `<<pipe, chunk>>`. *Cgi*: the data field of `child_req`
decides whom an exit closes. *Uvwget*: libcurl is external, a transfer goes through resolving,
connecting and receiving, and `handle_socket` and `start_timeout` are its calls back;
several transfers may move in one `on_timeout`, one in one `curl_perform`; a context has the
number of its socket until its close callback, and the system gives the number of a closed
socket to the next one (`create_curl_context`), so that two contexts may have one number and
`OneWatcher`, a part of `MemoryRules`, asks that only one of them polls. After a timer is lost
the program goes on. *UdpDhcp*: `uv_udp_recv_start` and `uv_udp_send` may fail unnoticed.
*Signals*: a signal
reaches the handles that are active when it comes; `Served` is the `||` of
`signal/main.c:50`. *LoopExamples*: uvstop's iteration is its idle and prepare callbacks;
times of ref-timer are in milliseconds, its loop wakes up for the next timer or later (`WakeUp`),
and `gc` is set again from the time of the loop, so that a late loop runs it fewer times.
*PipeSocket*: starts, interrupts and kills of two
servers in one directory.

### Errno
`platform` says what libuv is compiled for: Windows, a BSD-like or another system, with
positive or negative `errno`, and with some errors missing. A call fails or succeeds and
returns a number. The tables are rows of names with consecutive numbers, as in the header.
Assumed is that the system's numbers are different, none of them in 3000..4095, where libuv
keeps its own, and 64 that of `EHOSTDOWN`; AIX without `_LINUX_SOURCE_COMPAT`, where `ENOTEMPTY` is `EEXIST`, is
outside the assumption. So is a system with negative numbers that lacks one of the errors, as
`EPROTO` would be positive there (`errno.h:320`).

## 3. The runs

| Run | Instance | Distinct states | Shows |
|---|---|---|---|
| `locks` | 2 readers, 2 writers, 2 iterations | 55,951 | no lost increment past the barrier, no use after destruction, a loaded value stays current, the inductive invariant, and everybody gets through |
| `locks_serializer` | 2 readers, 1 writer, 1 iteration | violation | finding 1 below |
| `work_queue` | both programs; 4 requests, 2 pool threads, 2 signals | 5,874 | cancelled is never run, exit is complete, nothing starts after the handler, `UvWork` is implemented, the process ends |
| `echo_servers` | a tcp client with 3 bytes, a pipe client with 2 | 42,713 | ownership of buffers, exact echo, closing, complete echo while the peer stays |
| `multi_echo` | 3 connections, 2 workers, reads of 1 or 2 handles | 156,584 | one owner for each connection, fair round robin, at most half of the handles received wait, and for the next connection only; nobody waits in a pipe or backlog for a process that runs, workers end after the master |
| `rbtree` | 6 keys and an equal one for every call and loop; 10 keys for insertions and removals | 550,583 | links, order and colours between any two iterations; safe loops; `OrderedSet`; every loop ends |
| `splay` | 7 nodes, 6 keys | 62,373 | no node lost while the tree is in pieces, closest key on top, `OrderedSet`, every call returns |
| `progress` | 5 units by 0, 1 or 2, two-word doubles | 19,942 | the watcher and its data are valid when used, freshness, monotony, the end |
| `progress_last_send` | 3 units | violation | finding 2 below |
| `programs` | 18 programs: a file of 5 bytes read by 3, 3 chunks, 3 connections, 2 downloads, 3 signals, 2 servers started twice, a loop late by 0, 700 or 2500 ms | 7,044 | rules of memory, `UvHandle` implemented, output is input, a child closes its own connection, the socket file is a running server's, complete when done, and the end |
| `programs_freed` | the same | violation | finding 3 below |
| `error_numbers` | 65 sets of missing errors on 4 kinds of platform | 16,072 | negative just for errors, and each number one error |

Deadlock is checked where the system runs for ever (the trees) and not where it
ends (the programs that exit, and the servers once all the peers of an instance have
gone).

**The bounds and why they are enough.**
*Locks.* Two of each kind are needed for two readers inside together and for two
writers to race; with two iterations a thread can be in its last one while
another is in its first. The program's 20 iterations and single writer add
length and remove behaviours; the proofs cover every number.
*WorkQueue.* With four requests and two threads one can be done, two running and
one queued when the handler starts, and all move between the cancellations; the
second signal is the one that may find the handle stopped. Proved for every number.
*EchoServer.* Clients share only the heap, so two are enough; three bytes can be read
as one, two or three buffers, and a write can be half done with two behind it.
*MultiEcho.* Three connections go round two workers once and a half, so that one pipe
holds two and the turn comes back to a worker that has died meanwhile. `MaxBatch` is two: a
read that brings both handles leaves one waiting, as the callback accepts one
(`worker.c:60` is an `if`). The waiting handle is accepted with the next read, and never if no
connection follows: that is what the code does, so it is not called served. `TakenUp` says
how many can wait, one of two received, and the second part of `ServedInTheEnd` that each
read takes the first of them.
*RbTree.* Six keys give every shape in which a case of the fix-up loops begins.
In `RB_REMOVE_COLOR` a missing black that climbs and is then repaired by a rotation
higher up takes ten keys: with nine no sequence of calls reaches it. That
instance inserts and removes only, which keeps it small; lookups do not change the
tree. What ten keys do not reach is a red sibling met after a climb (nor do eleven,
tried once): the code that turns it is the same at every height, and runs at the lowest.
*SplayTree.* Six keys give both double steps on both sides, breaks in the middle of
a rotation, and removals with one, two or no subtrees; the seventh node has a key that is
there already.
*Programs.* A file of five bytes in a buffer of three needs two reads and can be cut
so that old bytes stay in the buffer. Three chunks can be written to one
output, failed on it and still waiting on the other at once. With three connections the cgi server can end one, and
start the next with a third waiting. Two transfers can wait for the same timer, and
share one `curl_perform` at the end of one, and two descriptors let the second use the number
of the first again. A loop late by 700 ms runs `gc` late, one late by 2500 ms leaves out turns of
it and runs it and `fake_job` at one time. Three signals cover
one before all handles are started, one between the two loops of a thread and one too many.
Two servers, each started twice, can find the file of the other and their own.
*Errno.* Fallback numbers are compared with each other and with the system's; two errors
without a number are as different as all of them are, which is the set of all.
*Progress.* Five units, by 0, 1 or 2, allow two sends to be merged more than once, turns
that download nothing, and the last turn to overshoot `size`.

**Fairness.** Threads, pool and loop run when they can: weak fairness of each
thread, of the pool as a whole and of the loop as a whole. Nothing is assumed of
a signal (SIGINT need not come, and `Terminates` starts from one that was raised), nor of a
peer (it may stay for ever and send nothing). Weak fairness is enough for the locks
because the loops are finite. In `Progress` the loop of `fake_download` is not: a turn may
download nothing. Strong fairness of `Download`, a turn that downloads something, says that
`random()` does not give remainder 800 modulo 1000 from some turn on for ever; any number of such
turns in a row remains possible. In `EchoServer` every client is served, since the loop
polls all descriptors. In `MultiEcho` the loops of all processes that live run, and
nobody has to die. In `SplayTree` a call that has begun goes on. For `RbTree`
there is no liveness property: `LoopsEnd` says that every iteration that does not end
its loop makes a number smaller, the nodes below for a descent and the nodes above
for a climb. That needs no fairness and is stronger: it bounds the iterations. In `Programs` there
is weak fairness of `Step`: `uv_run` goes on while it has something to do, the kernel completes
requests, children exit and libcurl goes on; nothing is assumed of `World`, so `EndsWhenDue`
starts from a state in which the program has all it waits for.

**Findings.**
1. `locks_serializer`: `main` ignores the result of `uv_barrier_wait` and calls
   `uv_barrier_destroy` (`locks/main.c:53`), so the barrier may be destroyed
   while other threads are still leaving it; `docs/src/threading.rst:187` gives the
   destruction to the thread for which the result is positive.
2. `progress_last_send`: `after` closes the watcher even if a send is pending,
   so if the loop thread is late the last send is never answered;
   `docs/src/guide/threads.rst:304-305` promises at least one callback.

3. `programs_freed`: `on_read` of the dns client frees its socket in the callback that asks for
   its close (`dns/main.c:17-19`); `docs/src/handle.rst:137` allows that in or after
   the close callback only.

Met while modelling, and covered by the names above rather than by runs: the guide
says of the cgi server that each client is closed when its process exits
(`processes.rst:215`), which is true of one connection at a time (`ChildIsOurs`); a timer that
`curl_perform` stops may be one another transfer waits for; `udp-dhcp` uses `addr` when it is
NULL (`udp.rst:67`, `udp-dhcp/main.c:26`); `remove_sock` removes the socket of another server when it
is interrupted before it has bound its own; on EOF the echo servers give up an echo that is
still queued (`tcp-echo-server/main.c:49`); the comment of `progress/main.c:22`, "at least a 200", does
not hold of the expression beside it, which may be 0; and the master of the multi-echo server
never closes its handle of a connection it has passed on (`multi-echo-server/main.c:43`).

Where a double is two words `print_progress` can print one half of each of two values. The
guide asks for a lock in such programs (`threads.rst:338-340`) and this example has none;
`Fresh` and `NeverBackwards` hold for each half all the same.

## 4. What is proved

TLAPS checks the theorems of the modules `...Proofs`, for every value of the constants
that the named assumptions admit. Every safety property of the passing runs, state invariant or
action property or refinement, is a theorem. The assumptions say what the code's own
constants are (counts are naturals, sets of threads are finite and disjoint, a process has a
CPU, the nodes of a tree are finitely many, as they are in memory) or that names stand for
different things (`Nobody` is no client, `Pending` no result); TLC evaluates each on its
instance.

Every proof has the same layout: facts about the operators, the inductive invariant as a
conjunction of named parts, one lemma per action, `Next...`, and the theorems, each of which
follows from the invariant by temporal rules.

**Locks**, from `ThreadsAssumption` and `IterationsAssumption`. None of the properties is
inductive alone: `NoLostIncrement` needs `StableSnapshot` (the register of a writer about to
store is current), which needs the exclusion in `LockInv`, which needs the holders
to be exactly the threads in their critical section; the properties about
destruction need `BarrierInv`, that until the last arrival the barrier counts those
who wait, and that afterwards nobody is left who has not arrived. `OneMoreWaits` says that one
more thread waiting makes the number one greater, and that when the threshold is reached
all wait. From `Invariance` follow `TypeCorrect`, `MutualExclusion`, `IncrementsKept`,
`SnapshotStays`, `DestroyedAfterUse` and `FinalCount`; the last
uses that past the barrier `Increments` is the whole product of writers and iterations.

**WorkQueue**, from `CountsAssumption`. `IInv` adds to the
properties that main has touched no request it has not reached (`QueueingInv`), that the
handler leaves no queued request behind it (`HandlerInv`), and that a handler ran only
because of a signal (`SignalInv`). From it follow `TypeCorrect`, `CancelSafe`,
`StatusSafe`, `ExitSafe`, the action property `NothingStarts`, and `Refinement`: every
step of the program changes the `UvWork` state of one request as `UvWork` allows
(`OneRequestMoves`) or of none (`NoRequestMoves`).

**Progress**, from `SizeAssumption` and `AtomicAssumption`. `WatcherInv` is inductive as it
stands, because it has a conjunct for each of the two threads and the loop (`WorkerInv`,
`LoopInv`): what the worker has written is ordered as its statements are, and so is what the
loop thread knows of it. `WatcherCorrect` is this invariant. `FreshAlways` follows from it in one state.
`NeverGoesBack` is an action property: the value printed next was written later,
for each half of the double by itself.

**EchoServer**, from `EchoAssumption`. `IInv` says of the queue of write requests,
`done \o wq`, that they carry increasing, disjoint stretches of the bytes received
(`RequestsInOrder`), that what has reached the peer and what is queued meet without a gap
(`NoGap`), that the heap holds their buffers and no others (`HeapInv`), and what of all
this is empty in which state of the handle (`ClientInv`).
`EchoIsPrefix` speaks of a sequence of any length, but a step adds to its end
only, so no induction over it is needed. `MemoryCorrect` and `EchoCorrect` follow. The
long cases are `echo_write`, which takes the head of the queue, and `WriteSome`, which
splits it.

**MultiEcho**, from `MultiAssumption`. `IInv` is `TypeOK`, `Places` (a connection that was
in the pipe of a worker, pending there or read there was handed to that worker, and is in one of
these places once), `BacklogIsNew` and `RoundRobin` (the workers before the counter have
been given one connection more than the others). `HandOverCorrect` follows: `OneOwner` from `Places`, and
`Balanced`, that no worker was given two connections more than another, from `RoundRobin`.
`TakenUp`, that of every `MaxBatch` handles received one is accepted or lost, is
inductive with `Places`: a read adds at most `MaxBatch` handles and takes one off.

**Errno**, from `ErrnoAssumption`. The tables are put together by `Join`, where an earlier
table hides a later one, and `JoinSeparates` says that this keeps numbers different
if the two tables' ranges do not meet. `FromSeparates` does a row of consecutive numbers, whatever the
names in it. The four rows of the header and the
system's table are then intervals that do not meet, for each of the families of platforms
(`NumbersDiffer`), and `ErrorsTold` is that a result names one error. The proof has corrected the
assumption: numbers merely below 4000 would admit a system number in 3000..3014,
which libuv gives to the errors of `getaddrinfo`, and then two errors would be one.

**Programs**, from the assumptions of the program modules. A behaviour is one run of one
program, and a step of one program is no step of another (`OneStart`, `OneProgram`).
`ProgramsInv` is a conjunction with a part for every program, `program = "..." => ...`,
proved for that program's steps in lemmas `...Starts` and `...Kept`. It is true of all
programs (`ProgramsCorrect`), and the rules follow from it:

* `TypesStay`, `MemoryIsSafe`, `WorkDone`: `TypeOK`, `MemoryRules` and `DoneIsComplete`,
  program by program.
* `WorkDone` has no excuse for a call that fails unnoticed or a late timer: udp-dhcp ends with
  its answer, or with none if receiving failed or could not start (`DhcpInv`); ref-timer's job
  runs no earlier than it should, and its other timer before it, and at intervals of 2000 ms or more
  (`RefTimerInv`).
* `OutputCorrect`: for uvcat the bytes of file, buffer and output follow one another
  (`UvcatBytes`), and after a short write are still in order (`UvcatOrder`); for uvtee every copy under way or
  done is of the next chunk (`InOrder`); for idle-compute the line in the buffer
  is what was typed (`TextIs`).
* `OneChild`: of the connections one at most is being served, and it is in `child_req.data`
  (`CgiChildren`).
* `FileServed`: `SocketInv`, of any number of servers; the server that binds finds the name free,
  so those before it that still run have lost theirs. Part of `MemoryIsSafe` is `OneWatcher`: the
  sockets that are polled are open, hence have different numbers (`UvwgetNumbers`).
* `HandlesLive`: every step maps to a step of `UvHandle` or a stutter. It is the safety half
  of `HandleLife`; `Lives` lemmas treat each program.

Minimal counterexamples replace induction: that the first line of a text ends
somewhere, or that there is a first chunk not yet written, is `LeastNat`.

**SplayTree**, from `KeyAssumption` and `FiniteAssumption`. What a walk down the links finds
would need induction over the tree. The invariant speaks instead of `sub`, which gives every
node a set of nodes and is right if each set is the node and the sets of its two children, with
the keys on their sides and only nodes of the tree in it (`Forest`). `SInv` says that there is
such a `sub` (`Shaped`): while a loop runs the two pieces, the tree below the root and the tree
kept apart by a removal are disjoint and in order, and together have every node (`Parted`);
otherwise there is one tree. A rotation, a link, the assembly, an insertion, a split and a join
each change `sub` as they change the links (`RotateIs`, `LinkIs`, `AssembleIs`, `InsertedIs`,
`SplitIs`, `JoinedIs`). `AssembleIs` is where the order of the four assignments of
`SPLAY_ASSEMBLE` matters, as the first two may write the links of the scratch node that the last
two read. `SplayedClosestOnTop` comes from what `Parted` remembers of the pieces, that the search
went past each of their nodes. `SplayTreeIsOrderedSet` maps every return to a response of
`OrderedSet` and every other step of a call to a stutter: the answers follow from
`ClosestOnTop` and `Distinct`, that of `SPLAY_NEXT` from `NextIsBelow`. `TreeWellFormed` is the
step from `sub` to the sequence that the walk `InOrder` finds, see *Walks*; for the walk over the
pieces it needs that the scratch node holds no stale link (`ScratchIsFree`).

**RbTree**, from `KeyAssumption` and `FiniteAssumption`. `RInv` is `CallInv` (which call is
where), `Distinct` (no two equal keys), `LoopInv` (what the caller's loop has saved) and
`Shaped`: some `sub`, as in the splay tree, and some `bh`, the black nodes on the paths below each
node, are right for the links and colours, with the parent links and without reading any walk.
What "right" means depends on the loop that runs:

* no loop, or one that reads: a search tree, balanced, no red node below a red one, the root
  black (`Standing`); and `PlaceIsRight` says of each search which nodes it has
  ruled out, of RB_NEXT on which side of its start it is;
* RB_INSERT_COLOR: all of this but that `elm` may be red below a red parent, or a red root
  (`Reddened`);
* RB_REMOVE_COLOR: the same but that the paths through `elm`, on its side of `parent`, lack one
  black node, and only `elm` and its children may be red below a red parent (`Lacking`, and
  `Deprived` once the loop is known to go on).

None of `RedBlack`, `SafeCursor` and the answers of the calls is inductive without it: that the
sibling of `elm` exists, or the grandparent of a red node, follows from the counts and
the colours together (`SiblingIs`, `GrandExists`). A rotation changes
`sub` of two nodes (`TurnKeeps`) and `bh` of two (`TurnBalance`), a splice that of the nodes above (`UnlinkKeeps`,
`UnlinkStands`), and that the successor takes over place and colour of the removed node is a renaming
(`RenamedStands`, `RenamedLacks`). Each case of the two fix-up loops, for both sides at once, is a
lemma: `UncleKeeps`, `OuterKeeps`, `BothKeep`; `LiftKeeps`, `SiblingKeeps`, `BentKeeps`,
`HealKeeps`. From `RedBlackInvariant` follow `CursorIsSafe`, that a removal in the body of a safe loop
leaves the saved node the next one, and `RbTreeIsOrderedSet`, with the least node for RB_NFIND
and RB_MIN (`NfindRefines`, `MinMaxRefines`) and the next one for RB_NEXT (`NextRefines`).
`LoopsTerminate` is about a number: a search has the nodes of `sub` below it ahead of it, a climb
the nodes above; a child has fewer below (`KidHasFewer`), a parent fewer above
(`ParentHasFewer`). The cases of the fix-up loops that rotate end their loop: after
`RotateGrandparent` the parent of `elm` is black, after a rotation for a red sibling `parent`
is red, so that the recolouring which follows is the last (`RecolorSiblingIs`).

*Walks.* `WellFormed` and `RedBlack` speak of what recursive functions find, `InOrder` and
`BlackCounts`, while the invariants speak of `sub` and `bh`. That they agree is proved by
induction in the form of a least counterexample (`LeastNat`, from the library's
well-foundedness of the naturals): a node whose walk is wrong, with the fewest nodes below it,
has children whose walks are right (`WalkFinds`, `CountFinds`). This
takes a tree of finitely many nodes, hence `FiniteAssumption`, and a proof that the
recursive functions exist (`WalkExists`, `CountExists`).

**Only model-checked.** *Liveness*: `Termination`, `Terminates`, `ClosedInTheEnd`,
`EchoedInTheEnd`, `ServedInTheEnd`, `OrphansEnd`, `EndsWhenDue`, `CallsReturn` and the liveness
half of `HandleLife` (`HandlesLive` is the other half) need rules for WF and ENABLED that the
prover does not have.

## 5. What is not modelled

* The runtime of libuv (not in the repository): the programs' modules contain what they
  need of it, marked external.
* The buffers that the multi-echo worker's `on_new_connection` never frees: nothing refers to
  them again.
* interfaces, plugin, thread-create and helloworld: straight lines around one call, or
  threads that share only a value nobody writes.
* Of the headers, what is not `tree.h`, the error numbers or `_uv_barrier` is
  declarations only, more than half of the lines of the repository's code; the
  documentation build holds no logic of the system.
* What follows undefined behaviour (see `Broken`).
* Contents: bytes of DHCP messages, escape sequences, arguments of children, texts.
* Failing allocations: no program checks `malloc`. Times are left out except in ref-timer; elsewhere a
  timer or a sleep may take any time.
* Overflow of the sum at `progress/main.c:21` where `long` has 32 bits.
* The amortised cost of the splay tree.

## 6. Plan

Done, in this order: locks with its proofs, the work queue with its refinement and
proofs, the echo servers, the two trees and their refinements, progress, the
multi-echo server, the remaining example programs, the error numbers; then the proofs of
the echo servers, progress, the multi-echo server, the error numbers, all programs, and the
refinement of the splay tree; last the invariant of the red-black tree, its
refinement, its walks and those of the splay tree, and the end of its loops.

What is left would need another prover: liveness from fairness. For the trees the
amortised cost of the splay tree could be stated with a potential over `sub`.

## 7. Running

    tlc -config Locks.cfg Locks              # likewise WorkQueue, Progress, MultiEcho, Programs
    tlc -config MCRbTree.cfg MCRbTree        # likewise MCSplayTree, MCEchoServer, MCErrno
    tlc -config LocksSerializer.cfg Locks    # ends in a counterexample
    tlc -config ProgressLastSend.cfg Progress
    tlc -config ProgramsFreed.cfg Programs
    tlapm LocksProofs.tla                    # likewise the other modules ...Proofs

Each run takes less than two minutes on two cores, each proof less than fifteen.
