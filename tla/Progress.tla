------------------------------ MODULE Progress ------------------------------
(***************************************************************************)
(* docs/code/progress/main.c: a pool thread pretends to download and tells *)
(* the loop thread how far it got through a global variable and a          *)
(* uv_async_t, which print_progress serves.  Nothing orders the accesses   *)
(* to percentage: where a double is moved in two words (~AtomicDouble) the *)
(* other thread may run between the two moves.                             *)
(*                                                                         *)
(* A percentage is the amount downloaded when it was computed.             *)
(***************************************************************************)
EXTENDS Integers

CONSTANTS
  Size,          \* size
  MaxStep,       \* the most that is downloaded in a turn, 999
  AtomicDouble   \* a double is read and written at once

ASSUME SizeAssumption == Size \in Nat /\ MaxStep \in Nat \ {0}
ASSUME AtomicAssumption == AtomicDouble \in BOOLEAN

VARIABLES
  main,         \* what the loop thread is doing
  worker,       \* where fake_download is
  downloaded,   \* its local
  percentage,   \* the global double: two words, each the progress it is from
  data,         \* async.data points to percentage
  async,        \* the handle: "active", "closing", "closed"
  pending,      \* an uv_async_send not yet answered
  sent,         \* the progress at the last uv_async_send, -1 before the first
  woken,        \* sent, when the callback that runs was called
  reg,          \* the local percentage of print_progress
  shown         \* what was printed last

vars == <<main, worker, downloaded, percentage, data, async, pending, sent, woken, reg, shown>>
workerVars == <<worker, downloaded, percentage, data, sent>>
loopVars == <<main, async, woken, reg, shown>>

Nothing == [hi |-> -1, lo |-> -1]

Init ==
  /\ main = "poll" /\ worker = "queued"
  /\ downloaded = 0
  /\ percentage = [hi |-> 0, lo |-> 0]
  /\ data = FALSE
  /\ async = "active" /\ pending = FALSE
  /\ sent = -1 /\ woken = -1
  /\ reg = Nothing /\ shown = Nothing

-----------------------------------------------------------------------------
(* fake_download, on a pool thread.                                        *)

Alive == main # "exited"

TakeWork ==
  /\ Alive /\ worker = "queued"
  /\ worker' = "while"
  /\ UNCHANGED <<downloaded, percentage, data, sent, pending, loopVars>>

\* Mutant: the percentage is computed once, before the loop.
While_OutsideLoop ==
  /\ Alive /\ worker = "while"
  /\ worker' = IF sent < 0 THEN "percentage"
                ELSE IF downloaded < Size THEN "data" ELSE "done"
  /\ UNCHANGED <<downloaded, percentage, data, sent, pending, loopVars>>

\* while (downloaded < size)
While ==
  /\ Alive /\ worker = "while"
  /\ worker' = IF downloaded < Size THEN "percentage" ELSE "done"
  /\ UNCHANGED <<downloaded, percentage, data, sent, pending, loopVars>>

\* Mutant: what is left, not what is done.
WritePercentage_Left ==
  /\ Alive /\ worker = "percentage"
  /\ percentage' = [hi |-> Size - downloaded, lo |-> Size - downloaded]
  /\ worker' = "data"
  /\ UNCHANGED <<downloaded, data, sent, pending, loopVars>>

WritePercentage ==
  /\ Alive /\ worker \in {"percentage", "low_word"}
  /\ LET first == worker = "percentage" /\ ~AtomicDouble IN
       /\ worker' = IF first THEN "low_word" ELSE "data"
       /\ percentage' = [percentage EXCEPT !.hi = downloaded,
                                           !.lo = IF first THEN @ ELSE downloaded]
  /\ UNCHANGED <<downloaded, data, sent, pending, loopVars>>

\* Mutant: async.data is set after the first send.
SetData_Late ==
  /\ Alive /\ worker = "data"
  /\ data' = (sent >= 0)
  /\ worker' = "send"
  /\ UNCHANGED <<downloaded, percentage, sent, pending, loopVars>>

SetData ==
  /\ Alive /\ worker = "data"
  /\ data' = TRUE
  /\ worker' = "send"
  /\ UNCHANGED <<downloaded, percentage, sent, pending, loopVars>>

\* A send before the loop answered the last one is merged with it.
AsyncSend ==
  /\ Alive /\ worker = "send"
  /\ pending' = (async = "active")
  /\ sent' = downloaded
  /\ worker' = "sleep"
  /\ UNCHANGED <<downloaded, percentage, data, loopVars>>

\* sleep(1), and a random amount: (200+random())%1000 is 0 when random() ends
\* in 800, whatever the comment beside it says, and may take downloaded past
\* size.  (random() is below 2^31: where long has 64 bits nothing overflows.)
Sleep ==
  /\ Alive /\ worker = "sleep"
  /\ \E n \in 0 .. MaxStep : downloaded' = downloaded + n
  /\ worker' = "while"
  /\ UNCHANGED <<percentage, data, sent, pending, loopVars>>

Work ==
  TakeWork \/ While \/ WritePercentage \/ SetData \/ AsyncSend \/ Sleep

-----------------------------------------------------------------------------
(* The loop thread.                                                        *)

\* libuv clears the flag, then calls print_progress.
AsyncReady ==
  /\ main = "poll" /\ async = "active" /\ pending
  /\ pending' = FALSE
  /\ woken' = sent
  /\ main' = "read"
  /\ UNCHANGED <<workerVars, async, reg, shown>>

\* *((double*) handle->data)
ReadPercentage ==
  /\ main \in {"read", "read_low_word"}
  /\ LET first == main = "read" /\ ~AtomicDouble IN
       /\ main' = IF first THEN "read_low_word" ELSE "print"
       /\ reg' = [hi |-> IF main = "read" THEN percentage.hi ELSE reg.hi,
                  lo |-> IF first THEN reg.lo ELSE percentage.lo]
  /\ UNCHANGED <<workerVars, pending, async, woken, shown>>

print_progress ==
  /\ main = "print"
  /\ shown' = reg /\ reg' = Nothing /\ woken' = -1
  /\ main' = "poll"
  /\ UNCHANGED <<workerVars, pending, async>>

\* Mutant: the watcher is forgotten.
after_NoClose ==
  /\ main = "poll" /\ worker = "done"
  /\ worker' = "reported"
  /\ UNCHANGED <<downloaded, percentage, data, sent, pending, loopVars>>

\* The request is reported: after closes the watcher, pending send or not.
after ==
  /\ main = "poll" /\ worker = "done"
  /\ worker' = "reported"
  /\ async' = "closing"
  /\ UNCHANGED <<main, downloaded, percentage, data, sent, pending, woken, reg, shown>>

CloseAsync ==
  /\ main = "poll" /\ async = "closing"
  /\ async' = "closed"
  /\ UNCHANGED <<main, workerVars, pending, woken, reg, shown>>

\* uv_run returns when no handle and no request is active.
Exit ==
  /\ main = "poll" /\ async = "closed" /\ worker = "reported"
  /\ main' = "exited"
  /\ UNCHANGED <<workerVars, pending, async, woken, reg, shown>>

Loop == AsyncReady \/ ReadPercentage \/ print_progress \/ after \/ CloseAsync \/ Exit

Next == Work \/ Loop

Spec == Init /\ [][Next]_vars

\* A turn in which something is downloaded.
Download == Sleep /\ downloaded' # downloaded

\* Both threads run, and random() does not give an amount of 0 from some turn
\* on for ever: turns without progress may come at any time and any number of
\* them in a row.
FairSpec == Spec /\ WF_vars(Work) /\ WF_vars(Loop) /\ SF_vars(Download)

-----------------------------------------------------------------------------

Progresses == -1 .. Size + MaxStep
Words == [hi : Progresses, lo : Progresses]
Amounts == 0 .. Size + MaxStep - 1

\* The values the variables take.
TypeOK ==
  /\ main \in {"poll", "read", "read_low_word", "print", "exited"}
  /\ worker \in {"queued", "while", "percentage", "low_word", "data", "send", "sleep",
                  "done", "reported"}
  /\ downloaded \in Amounts
  /\ percentage \in Words /\ reg \in Words /\ shown \in Words
  /\ data \in BOOLEAN /\ pending \in BOOLEAN
  /\ async \in {"active", "closing", "closed"}
  /\ sent \in Progresses /\ woken \in Progresses

\* print_progress follows handle->data only after the worker has set it: only
\* the order of two statements sees to that.
DataIsSet == main \in {"read", "read_low_word"} => data

\* The worker never sends to a watcher that was closed: uv_close waits for the
\* report of the request.
SendsToOpenWatcher == worker = "send" => async = "active"

\* The worker goes on only below Size, writes what it has downloaded before it
\* sends, and the high word before the low one.
WorkerInv ==
  /\ worker \in {"percentage", "low_word", "data", "send", "sleep"} => downloaded < Size
  /\ sent <= percentage.lo /\ percentage.lo <= percentage.hi /\ percentage.hi <= downloaded
  /\ worker \in {"low_word", "data", "send", "sleep"} => percentage.hi = downloaded
  /\ worker \in {"data", "send", "sleep"} => percentage.lo = downloaded
  /\ sent >= 0 \/ worker = "send" => data
  /\ pending => sent >= 0
  /\ async # "active" => worker = "reported"

\* The loop thread has read, and shown, no more than was written; what it has
\* read is no older than the send that woke it, nor than what is shown.
LoopInv ==
  /\ woken <= sent
  /\ main \in {"read", "read_low_word"} => sent >= 0
  /\ reg.hi <= percentage.hi /\ shown.hi <= percentage.hi
  /\ reg.lo <= percentage.lo /\ shown.lo <= percentage.lo
  /\ main \in {"read_low_word", "print"} => reg.hi >= woken /\ reg.hi >= shown.hi
  /\ main = "print" => reg.lo >= woken /\ reg.lo >= shown.lo

\* The watcher and its data, whenever one of the threads uses them, and what
\* the two threads maintain to that end.
WatcherInv == TypeOK /\ DataIsSet /\ SendsToOpenWatcher /\ WorkerInv /\ LoopInv

\* What a callback prints is at least as new as the last send it stands for,
\* in both words: merged sends lose no progress.
Fresh == main = "print" => reg.hi >= woken /\ reg.lo >= woken

\* The progress that is printed never goes back, in either word.
NeverBackwards ==
  [][shown'.hi >= shown.hi /\ shown'.lo >= shown.lo]_vars

\* guide/threads.rst:304-305, "The callback function is called at least once
\* after the call to uv_async_send".
AtLeastOnce == pending ~> (main = "read")

\* The watcher, which keeps the loop alive, is closed in the end, however many
\* turns brought nothing and were announced to the loop all the same.
Terminates == <>(main = "exited")

=============================================================================
