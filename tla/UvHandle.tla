------------------------------ MODULE UvHandle ------------------------------
(***************************************************************************)
(* The life of one uv_handle_t as docs/src/handle.rst tells it: a handle   *)
(* is initialised, becomes active and inactive any number of times, is     *)
(* closed with uv_close, and only when its close callback has run is its   *)
(* memory the program's again, to free or to initialise anew.  A closing   *)
(* handle always gets to its close callback.                               *)
(*                                                                         *)
(* One callback may make several of these calls in a row, so a step may    *)
(* go through more than one state.  "undefined" is the life of a handle    *)
(* whose program has broken the rules, or has crashed.                     *)
(***************************************************************************)
CONSTANT Handles

VARIABLE state   \* of each handle

Unused == {"none", "closed"}
Open == {"idle", "active", "background"}   \* background: active, not referenced

Init == state = [h \in Handles |-> "none"]

Initialise(h) == state[h] \in Unused /\ state'[h] \in Open \cup {"closing"}

StartOrStop(h) == state[h] \in Open /\ state'[h] \in Open

Close(h) == state[h] \in Open /\ state'[h] = "closing"

Closed(h) == state[h] = "closing" /\ state'[h] = "closed"

Break(h) == state'[h] = "undefined"

Stay(h) == state'[h] = state[h]

\* One callback may make calls for several handles.
Next ==
  \A h \in Handles :
    \/ Initialise(h) \/ StartOrStop(h) \/ Close(h)
    \/ Closed(h) \/ Break(h) \/ Stay(h)

\* A handle that is closing is closed at last, or its program has come to grief.
ClosesInTheEnd ==
  \A h \in Handles : state[h] = "closing" ~> state[h] # "closing"

Spec == Init /\ [][Next]_state /\ ClosesInTheEnd

=============================================================================
