------------------------------- MODULE Uvwget -------------------------------
(***************************************************************************)
(* docs/code/uvwget/main.c: libcurl downloads, and the loop tells it when  *)
(* a socket is ready or its timer has expired.  libcurl answers by calling *)
(* handle_socket for each socket it wants polled or is done with, and      *)
(* start_timeout for its timer.                                            *)
(*                                                                         *)
(* libcurl is external: a transfer is queued, may wait for its name to be  *)
(* resolved, connects, receives, and is over at any point when it fails.   *)
(* A transfer that has no socket yet gets on with the timer only.  Each    *)
(* transfer has one socket, whose curl_context_t, with the poll handle in  *)
(* it, has the transfer's name.                                            *)
(***************************************************************************)
EXTENDS UvLoop

CONSTANTS
  Transfers,    \* the URLs on the command line
  Descriptors   \* the numbers of sockets

ASSUME TransfersAssumption ==
  /\ {"timeout"} \cup Transfers \subseteq Handles /\ "timeout" \notin Transfers
  /\ Nobody \notin Descriptors

Polled == {"connecting", "receiving"}   \* a socket is polled, OUT or IN
ByTimer == {"queued", "resolving"}      \* there is no socket yet

UvwgetInit ==
  Begin("uvwget", {"timeout"},
        [socketp |-> [t \in Transfers |-> FALSE], sockfd |-> [t \in Transfers |-> Nobody]],
        [transfer |-> [t \in Transfers |-> "none"], mishap |-> {}])

\* A file that cannot be opened is passed over.  curl_multi_add_handle
\* calls start_timeout.
add_download(files) ==
  /\ world' = [world EXCEPT
       !.transfer = [t \in Transfers |-> IF t \in files THEN "queued" ELSE "none"]]
  /\ handle' = Turn({"timeout"}, IF files = {} THEN "idle" ELSE "active")

\* main returns early without URLs or when libcurl cannot be set up.
UvwgetMain ==
  /\ Setup("uvwget")
  /\ \/ stage' = "failed" /\ UNCHANGED <<handle, world>>
     \/ stage' = "loop" /\ \E files \in SUBSET Transfers : add_download(files)
  /\ UNCHANGED <<program, pending, memory, own>>

-----------------------------------------------------------------------------
(* libcurl.                                                                *)

Following(s) ==
  CASE s = "queued" -> {"resolving", "connecting", "over"}
    [] s = "resolving" -> {"connecting", "over"}
    [] s = "connecting" -> {"receiving", "over"}
    [] s = "receiving" -> {"over"}
    [] OTHER -> {}

\* What curl_multi_socket_action may make of the transfers when the timer
\* has expired, and when the socket of t is ready.
AfterTimeout ==
  {next \in [Transfers -> {"none", "resolving", "connecting", "receiving", "over", "done"}] :
     \A t \in Transfers :
       IF world.transfer[t] \in ByTimer THEN next[t] \in Following(world.transfer[t])
       ELSE next[t] \in {world.transfer[t]} \cup (Following(world.transfer[t]) \cap {"over"})}

AfterEvent(t) ==
  {[world.transfer EXCEPT ![t] = s] : s \in Following(world.transfer[t])}

-----------------------------------------------------------------------------
(* The callbacks libcurl makes while transfers go on to next.              *)

\* The contexts: a new one takes the number of its socket, which is that of no
\* other open socket, but may be that of one whose context still closes.
create_curl_context(next) ==
  \E fd \in [Transfers -> Descriptors \cup {Nobody}] :
    /\ \A t \in Transfers :
         IF next[t] \in Polled /\ ~own.socketp[t] THEN fd[t] # Nobody
         ELSE fd[t] = own.sockfd[t]
    /\ \A t, u \in Transfers :
         t # u /\ next[t] \in Polled /\ next[u] \in Polled => fd[t] # fd[u]
    /\ own' = [socketp |-> [t \in Transfers |-> next[t] \in Polled], sockfd |-> fd]

handle_socket_FreesAtOnce(next, timer) ==
  \* Mutant: the context is freed where it should be closed.
  /\ create_curl_context(next)
  /\ memory' = (memory \ {Object(t) : t \in {u \in Transfers : own.socketp[u] /\ next[u] = "over"}})
                 \cup {Object(t) : t \in {u \in Transfers : next[u] \in Polled}}
  /\ handle' = [h \in Handles |->
       CASE h = "timeout" -> timer
         [] h \in Transfers /\ next[h] \in Polled -> "active"
         [] h \in Transfers /\ next[h] = "over" /\ own.socketp[h] -> "none"
         [] OTHER -> handle[h]]

\* A socket to poll gets a context the first time.  A socket that libcurl is
\* done with has its poll handle stopped and closed; the context stays.
handle_socket(next, timer) ==
  /\ create_curl_context(next)
  /\ memory' = memory \cup {Object(t) : t \in {u \in Transfers : next[u] \in Polled}}
  /\ handle' = [h \in Handles |->
       CASE h = "timeout" -> timer
         [] h \in Transfers /\ next[h] \in Polled -> "active"
         [] h \in Transfers /\ next[h] = "over" /\ own.socketp[h] -> "closing"
         [] OTHER -> handle[h]]

check_multi_info_Once(next) ==
  \* Mutant: one message is read, not all of them.
  LET over == {t \in Transfers : next[t] = "over"}
      read == IF over = {} THEN {} ELSE {CHOOSE t \in over : TRUE}
  IN [t \in Transfers |-> IF t \in read THEN "done" ELSE next[t]]

\* All messages of finished transfers are read, and the transfers removed.
check_multi_info(next) ==
  [t \in Transfers |-> IF next[t] = "over" THEN "done" ELSE next[t]]

-----------------------------------------------------------------------------
(* The callbacks of the loop.                                              *)

Running == InLoop("uvwget")

Needed(next) == \E t \in Transfers : next[t] \in ByTimer

\* The timer is stopped before libcurl hears of the event.  libcurl sets it
\* again when the time it waits for has changed: when it has not, a transfer
\* that gets on with the timer is left alone.
curl_perform(t) ==
  /\ Running /\ handle[t] = "active"
  /\ \E next \in AfterEvent(t), timer \in {"idle", "active"} :
       /\ handle_socket(next, timer)
       /\ world' = [world EXCEPT
            !.transfer = check_multi_info(next),
            !.mishap = IF Needed(next) /\ timer = "idle"
                       THEN @ \cup {"timer_lost"} ELSE @]
  /\ UNCHANGED <<program, stage, pending>>

\* start_timeout takes every value, -1 for no timer among them, for 1 ms or
\* more: there is at most one on_timeout that libcurl did not ask for.
on_timeout ==
  /\ Running /\ handle["timeout"] = "active"
  /\ \E next \in AfterTimeout, timer \in {"idle", "active"} :
       /\ Needed(next) => timer = "active"
       /\ timer = "active" => next # world.transfer
       /\ handle_socket(next, timer)
       /\ world' = [world EXCEPT !.transfer = check_multi_info(next)]
  /\ UNCHANGED <<program, stage, pending>>

curl_close_cb(t) ==
  /\ Running /\ CloseDone(t)
  /\ memory' = memory \ {Object(t)} /\ own' = [own EXCEPT !.sockfd[t] = Nobody]
  /\ UNCHANGED <<program, stage, pending, world>>

\* libcurl may want a socket polled for both, or for neither, yet.
PollBoth ==
  /\ Running
  /\ \E t \in Transfers : world.transfer[t] \in Polled /\ handle[t] = "active"
  /\ stage' = "crashed"
  /\ world' = Mishap("other_action")
  /\ UNCHANGED <<program, handle, pending, memory, own>>

\* uv_poll_init_socket fails for the socket of a new context: assert(r == 0).
AssertFails ==
  /\ Running /\ handle["timeout"] = "active"
  /\ \E t \in Transfers : world.transfer[t] \in ByTimer
  /\ stage' = "crashed"
  /\ world' = Mishap("not_polled")
  /\ UNCHANGED <<program, handle, pending, memory, own>>

UvwgetWorld == PollBoth \/ AssertFails

UvwgetStep ==
  \/ UvwgetMain \/ on_timeout
  \/ \E t \in Transfers : curl_perform(t) \/ curl_close_cb(t)

-----------------------------------------------------------------------------

\* No two poll handles watch one descriptor (docs/src/poll.rst 18), though its
\* number may be used again while the handle that watched it closes.
OneWatcher ==
  program = "uvwget" =>
    \A t, u \in Transfers :
      t # u /\ handle[t] = "active" /\ handle[u] = "active" => own.sockfd[t] # own.sockfd[u]

\* At the end every context is freed, and every download that was added is over
\* or, where curl_perform stopped the timer it waited for, has no socket yet.
UvwgetComplete ==
  \A t \in Transfers :
    /\ Object(t) \notin memory
    /\ \/ world.transfer[t] \in {"none", "done"}
       \/ "timer_lost" \in world.mishap /\ world.transfer[t] \in ByTimer

=============================================================================
