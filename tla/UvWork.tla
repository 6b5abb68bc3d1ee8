------------------------------- MODULE UvWork -------------------------------
(***************************************************************************)
(* What libuv promises of a work request (docs/src/threadpool.rst and      *)
(* guide/threads.rst): the work callback runs at most once, on the pool;   *)
(* a request is cancelled only while it is queued, and is then never run;  *)
(* the after callback is called exactly once, with status 0 or with        *)
(* UV_ECANCELED, after which nothing happens to the request any more.      *)
(***************************************************************************)
CONSTANT Reqs

VARIABLE state   \* where each request is

Init == state = [r \in Reqs |-> "new"]

Go(r, from, to) ==
  /\ state[r] = from
  /\ state' = [state EXCEPT ![r] = to]

Next ==
  \E r \in Reqs :
    \/ Go(r, "new", "queued")
    \/ Go(r, "queued", "running")
    \/ Go(r, "running", "ran")
    \/ Go(r, "queued", "cancelled")
    \/ Go(r, "ran", "after_ok")
    \/ Go(r, "cancelled", "after_ECANCELED")

Spec == Init /\ [][Next]_state

=============================================================================
