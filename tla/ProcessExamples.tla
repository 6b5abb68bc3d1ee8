--------------------------- MODULE ProcessExamples ---------------------------
(***************************************************************************)
(* Four programs of docs/code that start other programs: spawn,            *)
(* proc-streams and detach start one child each, onchange runs a command   *)
(* whenever a watched file changes.                                        *)
(***************************************************************************)
EXTENDS UvLoop

CONSTANTS
  Files,      \* the files onchange watches, each the name of its handle
  MaxChanges  \* changes of files

ASSUME FilesAssumption == {"child_req"} \cup Files \subseteq Handles /\ MaxChanges \in Nat

Spawners == {"spawn", "proc-streams", "detach"}

ProcessInit ==
  \/ \E p \in Spawners :
       Begin(p, {"child_req"}, [pid |-> 0], [child |-> "none", mishap |-> {}])
  \/ Begin("onchange", {}, [runs |-> 0], [changes |-> 0, mishap |-> {}])

-----------------------------------------------------------------------------
(* spawn, proc-streams and detach.                                         *)

\* detach does not let its child keep the loop alive.
Watching == IF program = "detach" THEN "background" ELSE "active"

SpawnMain ==
  /\ program \in Spawners /\ stage = "setup"
  /\ \/ /\ stage' = "loop"
        /\ handle' = Turn({"child_req"}, Watching)
        /\ own' = [pid |-> 1]
        /\ world' = [world EXCEPT !.child = "running"]
     \/ /\ stage' = "failed"
        /\ handle' = Turn({"child_req"}, "idle")
        /\ UNCHANGED <<own, world>>
  /\ UNCHANGED <<program, pending, memory>>

\* The child exits, and libuv calls on_exit.
on_exit ==
  /\ program \in {"spawn", "proc-streams"} /\ stage = "loop"
  /\ world.child = "running"
  /\ handle' = Turn({"child_req"}, "closing")
  /\ world' = [world EXCEPT !.child = "exited"]
  /\ UNCHANGED <<program, stage, pending, memory, own>>

\* The child of detach exits, on its own: there is no exit callback.
DetachedExits ==
  /\ program = "detach" /\ world.child = "running"
  /\ world' = [world EXCEPT !.child = "exited"]
  /\ UNCHANGED <<program, stage, handle, pending, memory, own>>

-----------------------------------------------------------------------------
(* onchange.                                                               *)

\* A file that cannot be watched leaves its handle inactive.
OnchangeMain ==
  /\ Setup("onchange")
  /\ \/ stage' = "failed" /\ UNCHANGED <<handle, memory>>
     \/ \E watched \in SUBSET Files :
          /\ stage' = "loop"
          /\ handle' = [h \in Handles |->
               IF h \in Files THEN IF h \in watched THEN "active" ELSE "idle"
               ELSE handle[h]]
          /\ memory' = memory \cup Objects(Files)
  /\ UNCHANGED <<program, pending, own, world>>

\* run_command waits for the command; the command may itself change a file.
run_command(f) ==
  /\ InLoop("onchange") /\ handle[f] = "active" /\ world.changes > 0
  /\ own' = [runs |-> own.runs + 1]
  /\ \/ world' = [world EXCEPT !.changes = @ - 1]
     \/ own.runs < MaxChanges /\ UNCHANGED world
  /\ UNCHANGED <<program, stage, handle, pending, memory>>

FileChanges ==
  /\ InLoop("onchange") /\ own.runs + world.changes < MaxChanges
  /\ world' = [world EXCEPT !.changes = @ + 1]
  /\ UNCHANGED <<program, stage, handle, pending, memory, own>>

-----------------------------------------------------------------------------

ProcessWorld == DetachedExits \/ FileChanges

ProcessStep ==
  \/ SpawnMain \/ on_exit
  \/ OnchangeMain \/ \E f \in Files : run_command(f)

\* spawn and proc-streams wait for their child and close its handle, detach
\* ends with the handle as it was.
ProcessComplete ==
  /\ program \in {"spawn", "proc-streams"} =>
       world.child = "exited" /\ handle["child_req"] = "closed"
  /\ program = "detach" => handle["child_req"] = "background"

ProcessDue == stage = "loop" /\ program \in Spawners

=============================================================================
