----------------------------- MODULE PipeSocket -----------------------------
(***************************************************************************)
(* docs/code/pipe-echo-server/main.c, main and remove_sock: the server     *)
(* binds a socket in the file system, and removes it when it is            *)
(* interrupted.  Several processes may be started, and started again, in   *)
(* the same directory.  What a server does with its clients is EchoServer. *)
(***************************************************************************)
EXTENDS UvLoop

CONSTANTS
  Servers,     \* the processes
  MaxStarts    \* how often one is started

ASSUME ServersAssumption == Nobody \notin Servers /\ MaxStarts \in Nat

\* The file is absent or is the socket that one of the servers bound.  left says
\* that this server is gone without removing it, lost which servers had theirs
\* removed by another.
SocketInit ==
  Begin("pipe-echo-server", {},
        [at |-> [s \in Servers |-> "off"], starts |-> [s \in Servers |-> 0]],
        [file |-> Nobody, left |-> FALSE, lost |-> {}, mishap |-> {}])

\* The shell is in the directory.
SocketMain ==
  /\ Setup("pipe-echo-server")
  /\ stage' = "many"
  /\ UNCHANGED <<program, handle, pending, memory, own, world>>

At(s, where) == Many("pipe-echo-server") /\ own.at[s] = where

Go(s, where) ==
  /\ own' = [own EXCEPT !.at[s] = where]
  /\ UNCHANGED <<program, stage, handle, pending, memory>>

\* signal(SIGINT, remove_sock) comes before the socket is bound.
SetHandler(s) ==
  /\ At(s, "started") /\ Go(s, "armed")
  /\ UNCHANGED world

Bind_Unlinks(s) ==
  \* Mutant: the file is removed first if it is there.
  /\ At(s, "armed") /\ Go(s, "bound")
  /\ world' = [world EXCEPT !.file = s, !.left = FALSE, !.lost = @ \ {s}]

\* The name must be free, whoever made the file.
Bind(s) ==
  /\ At(s, "armed") /\ world.file = Nobody /\ Go(s, "bound")
  /\ world' = [world EXCEPT !.file = s, !.lost = @ \ {s}]

\* main returns 1.
BindFails(s) ==
  /\ At(s, "armed") /\ Go(s, "returning")
  /\ UNCHANGED world

Listen(s) ==
  /\ At(s, "bound") /\ Go(s, "listening")
  /\ UNCHANGED world

\* s does not remove its file, if it still has one.
Leaves(s) == world' = [world EXCEPT !.left = @ \/ world.file = s]

\* main returns 2, and the file stays.
ListenFails(s) ==
  /\ At(s, "bound") /\ Go(s, "returning") /\ Leaves(s)

Returned(s) ==
  /\ At(s, "returning") /\ Go(s, "off")
  /\ UNCHANGED world

Serving == {"bound", "listening"}

\* The handler is in force until the process is gone.  It removes whatever
\* has the name, and exits.
remove_sock(s) ==
  /\ \E where \in {"armed", "bound", "listening", "returning"} : At(s, where)
  /\ Go(s, "off")
  /\ world' = [world EXCEPT
       !.file = Nobody, !.left = FALSE,
       !.lost = @ \cup {t \in Servers \ {s} : world.file = t /\ own.at[t] \in Serving}]

\* Outside: a process is started, or is killed, or is interrupted too early
\* for the handler.
StartServer(s) ==
  /\ At(s, "off") /\ own.starts[s] < MaxStarts
  /\ own' = [own EXCEPT !.at[s] = "started", !.starts[s] = @ + 1]
  /\ UNCHANGED <<program, stage, handle, pending, memory, world>>

Killed(s) ==
  /\ Many("pipe-echo-server") /\ own.at[s] # "off"
  /\ Go(s, "off") /\ Leaves(s)

SocketWorld == \E s \in Servers : StartServer(s) \/ Killed(s) \/ remove_sock(s)

SocketStep ==
  \/ SocketMain
  \/ \E s \in Servers :
       \/ SetHandler(s) \/ Bind(s) \/ BindFails(s) \/ Listen(s)
       \/ ListenFails(s) \/ Returned(s)

-----------------------------------------------------------------------------

\* A server that listens can be reached by the name, unless just this server's
\* name was removed by another that was interrupted before it had bound one; and
\* the file is a running server's, unless just this one's owner was killed or
\* could not listen.  One server's mishap is no excuse for the next.
SocketIsServed ==
  program = "pipe-echo-server" =>
    \A s \in Servers :
      /\ own.at[s] \in Serving => world.file = s \/ s \in world.lost
      /\ world.file = s => own.at[s] \in Serving \/ world.left

=============================================================================
