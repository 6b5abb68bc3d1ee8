--------------------------------- MODULE Cgi ---------------------------------
(***************************************************************************)
(* docs/code/cgi/main.c: every connection gets a child process whose       *)
(* output is the connection; when the child exits both are closed.  There  *)
(* is one uv_process_t, child_req, for all of them, and its data field     *)
(* says which connection to close.                                         *)
(***************************************************************************)
EXTENDS UvLoop

CONSTANT Clients   \* connections that peers make, each the name of its handle

ASSUME CgiAssumption ==
  /\ {"server", "child_req"} \cup Clients \subseteq Handles
  /\ {"server", "child_req", Nobody} \cap Clients = {}

CgiInit ==
  Begin("cgi", {"server", "child_req"},
        [data |-> Nobody],
        [conn |-> [c \in Clients |-> "none"], children |-> {}, mishap |-> {}])

\* uv_listen may fail, and main returns 1.
CgiMain ==
  /\ Setup("cgi")
  /\ \/ stage' = "loop" /\ handle' = Turn({"server"}, "active")
     \/ stage' = "failed" /\ UNCHANGED handle
  /\ UNCHANGED <<program, pending, memory, own, world>>

Connect(c) ==
  /\ InLoop("cgi") /\ world.conn[c] = "none"
  /\ world' = [world EXCEPT !.conn[c] = "waiting"]
  /\ UNCHANGED <<program, stage, handle, pending, memory, own>>

\* uv_spawn initialises child_req, which it may do only when the handle is
\* unused or closed; what follows otherwise is not defined, nor modelled.
InUse == handle["child_req"] \notin {"none", "closed"}
Overlap == "overlap" \in world.mishap

\* Each connection gets a handle on the heap, which is never freed.
Accepting(c) ==
  /\ InLoop("cgi") /\ ~Overlap /\ world.conn[c] = "waiting"
  /\ memory' = memory \cup {Object(c)}
  /\ UNCHANGED <<program, stage, pending>>

invoke_cgi_script_KeepsData(c) ==
  \* Mutant: child_req.data is set only the first time.
  /\ Accepting(c)
  /\ own' = [data |-> IF own.data = Nobody THEN c ELSE own.data]
  /\ handle' = [Turn({c}, "idle") EXCEPT !["child_req"] = "active"]
  /\ world' = [world EXCEPT
       !.conn[c] = "served",
       !.children = @ \cup {c},
       !.mishap = IF InUse THEN @ \cup {"overlap"} ELSE @]

invoke_cgi_script(c) ==
  /\ Accepting(c)
  /\ own' = [data |-> c]
  /\ handle' = [Turn({c}, "idle") EXCEPT !["child_req"] = "active"]
  /\ world' = [world EXCEPT
       !.conn[c] = "served",
       !.children = @ \cup {c},
       !.mishap = IF InUse THEN @ \cup {"overlap"} ELSE @]

\* The server is given status -1 and returns.  (Any other error goes on to
\* uv_accept, which fails.)
NotAccepted(c) ==
  /\ InLoop("cgi") /\ ~Overlap /\ world.conn[c] = "waiting"
  /\ world' = [world EXCEPT !.conn[c] = "gone"]
  /\ UNCHANGED <<program, stage, handle, pending, memory, own>>

\* When uv_spawn fails the connection stays as it is: nothing will close it.
SpawnFails(c) ==
  /\ Accepting(c)
  /\ own' = [data |-> c]
  /\ handle' = [Turn({c}, "idle") EXCEPT !["child_req"] = "idle"]
  /\ world' = [world EXCEPT
       !.conn[c] = "forgotten",
       !.mishap = @ \cup {IF InUse THEN "overlap" ELSE "spawn_failed"}]

\* uv_accept fails: the new handle is closed.
AcceptFails(c) ==
  /\ Accepting(c)
  /\ handle' = Turn({c}, "closing")
  /\ world' = [world EXCEPT !.conn[c] = "gone"]
  /\ UNCHANGED own

\* The child of c exits.
cleanup_handles(c) ==
  /\ InLoop("cgi") /\ ~Overlap /\ c \in world.children
  /\ handle' = Turn({own.data, "child_req"}, "closing")
  /\ world' = [world EXCEPT !.children = @ \ {c}, !.conn[c] = "answered"]
  /\ UNCHANGED <<program, stage, pending, memory, own>>

CgiWorld == \E c \in Clients : Connect(c)

CgiStep ==
  \/ CgiMain
  \/ \E c \in Clients : \/ NotAccepted(c) \/ invoke_cgi_script(c)
                        \/ SpawnFails(c) \/ AcceptFails(c) \/ cleanup_handles(c)

-----------------------------------------------------------------------------

\* While only one connection is served at a time, the child that runs is
\* child_req's, and the connection its exit will close is its own and open.
ChildIsOurs ==
  program = "cgi" /\ NoMishap =>
    \A c \in world.children : /\ handle["child_req"] = "active"
                              /\ own.data = c /\ handle[c] = "idle"

CgiDue(c) == InLoop("cgi") /\ world.conn[c] = "answered"

=============================================================================
