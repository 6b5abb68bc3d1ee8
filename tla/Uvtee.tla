-------------------------------- MODULE Uvtee --------------------------------
(***************************************************************************)
(* docs/code/uvtee/main.c: what is read from standard input is written to  *)
(* standard output and to a file, through three pipe handles.              *)
(*                                                                         *)
(* The input is Chunks chunks, numbered; a copy of chunk k for pipe d is   *)
(* the object <<d, k>>, its write request and its buffer together, which   *)
(* are allocated and freed together.  The buffer a chunk was read into is  *)
(* freed in the callback that gets it, and a callback with nread = 0 does  *)
(* only that: neither is a state of its own.                               *)
(***************************************************************************)
EXTENDS UvLoop

CONSTANT Chunks

Outputs == {"stdout_pipe", "file_pipe"}

ASSUME TeeAssumption == Chunks \in Nat /\ {"stdin_pipe"} \cup Outputs \subseteq Handles

UvteeInit ==
  Begin("uvtee", {"stdin_pipe"} \cup Outputs,
        [file |-> "none"],
        [next |-> 1, input |-> "open", got |-> [d \in Outputs |-> <<>>],
         mishap |-> {}])

\* The result of uv_fs_open is not looked at: uv_pipe_open then fails.
UvteeMain ==
  /\ Setup("uvtee")
  /\ stage' = "loop"
  /\ handle' = [Turn(Outputs, "idle") EXCEPT !["stdin_pipe"] = "active"]
  /\ \E f \in {"open", "missing"} : own' = [file |-> f]
  /\ UNCHANGED <<program, pending, memory, world>>

\* Nothing is defined of a read after an error (docs/src/stream.rst 48).
Reading == InLoop("uvtee") /\ handle["stdin_pipe"] = "active" /\ world.input = "open"

\* uv_write to a pipe without a descriptor fails, its result is not looked
\* at, and its callback will not run.
Submitted(d, k) ==
  IF d = "file_pipe" /\ own.file = "missing" THEN <<>>
  ELSE <<Request(<<d, k>>, d, <<d, k>>)>>

write_data_Shared(k) ==
  \* Mutant: both outputs use the copy made for standard output.
  /\ memory' = memory \cup {<<"stdout_pipe", k>>}
  /\ pending' = pending \o Submitted("stdout_pipe", k)
                  \o <<Request(<<"file_pipe", k>>, "file_pipe", <<"stdout_pipe", k>>)>>

write_data(k) ==
  /\ memory' = memory \cup {<<d, k>> : d \in Outputs}
  /\ pending' = pending \o Submitted("stdout_pipe", k)
                        \o Submitted("file_pipe", k)

ReadChunk ==
  /\ Reading /\ world.next <= Chunks
  /\ write_data(world.next)
  /\ world' = [world EXCEPT !.next = @ + 1]
  /\ UNCHANGED <<program, stage, handle, own>>

\* End of file closes all three, whatever is still to be written.
ReadEnd ==
  /\ Reading
  /\ handle' = Turn({"stdin_pipe"} \cup Outputs, "closing")
  /\ world' = [world EXCEPT
       !.input = "ended",
       !.mishap = IF pending # <<>> THEN @ \cup {"tail_cut"} ELSE @]
  /\ UNCHANGED <<program, stage, pending, memory, own>>

\* After another error nothing is stopped or closed, though docs/src/stream.rst 47
\* leaves that to the caller: libuv has stopped reading, or waits for ever.
ReadError ==
  /\ Reading
  /\ handle' \in {handle, Turn({"stdin_pipe"}, "idle")}
  /\ world' = [world EXCEPT !.input = "failed"]
  /\ UNCHANGED <<program, stage, pending, memory, own>>

\* A write is done, fails, or is cancelled because its pipe is closing;
\* on_stdout_write and on_file_write do not look and free the copy.
OnWrite(d) ==
  /\ InLoop("uvtee") /\ Busy(d)
  /\ LET r == First(d) IN
     /\ pending' = Without(r.req)
     /\ memory' = memory \ {r.req}
     /\ world' \in
          IF handle[d] = "closing" THEN {world}
          ELSE {[world EXCEPT !.got[d] = Append(@, r.buf[2])],
                Mishap("write_failed")}
  /\ UNCHANGED <<program, stage, handle, own>>

UvteeWorld == ReadChunk \/ ReadEnd \/ ReadError

UvteeStep == UvteeMain \/ \E d \in Outputs : OnWrite(d)

-----------------------------------------------------------------------------

\* Both outputs are beginnings of what was read, in order, and what is
\* missing from them is still on its way, unless a write failed, was
\* cancelled or had nowhere to go.
UvteeOutput ==
  "write_failed" \notin world.mishap =>
    \A d \in Outputs :
      /\ IsPrefix(world.got[d], [k \in 1 .. world.next - 1 |-> k])
      /\ "tail_cut" \notin world.mishap /\ Submitted(d, 1) # <<>> =>
           Len(world.got[d]) + Cardinality({i \in DOMAIN pending : pending[i].on = d})
             = world.next - 1

\* At the end every copy that a write was submitted for is freed.
UvteeComplete ==
  \A d \in Outputs, k \in 1 .. Chunks :
    <<d, k>> \in memory => Submitted(d, k) = <<>>

UvteeDue == InLoop("uvtee") /\ handle["stdin_pipe"] # "active"

=============================================================================
