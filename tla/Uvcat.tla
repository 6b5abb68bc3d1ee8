-------------------------------- MODULE Uvcat --------------------------------
(***************************************************************************)
(* docs/code/uvcat/main.c: open, then read and write in turn until a read  *)
(* returns nothing, each step started by the callback of the one before.   *)
(*                                                                         *)
(* The file is a sequence of distinct bytes; the buffer keeps what no read *)
(* has overwritten.  A read may return less than was asked for, a write    *)
(* may take less than was given, and either may fail.                      *)
(***************************************************************************)
EXTENDS UvLoop

CONSTANT FileSize   \* bytes in the file

ASSUME FileAssumption == FileSize \in Nat

Bytes == [i \in 1 .. FileSize |-> i]

UvcatInit ==
  Begin("uvcat", {"open_req", "read_req", "write_req", "buffer"},
        [len |-> 0, buffer |-> [i \in 1 .. BufferSize |-> 0], fd |-> "none"],
        [rest |-> Bytes, output |-> <<>>, mishap |-> {}])

OpenReq == Request(Object("open_req"), "none", Object("open_req"))
ReadReq == Request(Object("read_req"), "none", Object("buffer"))
WriteReq == Request(Object("write_req"), "none", Object("buffer"))

UvcatMain ==
  /\ Setup("uvcat")
  /\ stage' = "loop"
  /\ pending' = <<OpenReq>>
  /\ UNCHANGED <<program, handle, memory, own, world>>

\* The callback of request r runs; next are the requests it submits.
Callback(r, next) ==
  /\ InLoop("uvcat") /\ Awaits(r.req)
  /\ pending' = Without(r.req) \o next
  /\ UNCHANGED <<program, stage, handle, memory>>

on_open ==
  /\ Callback(OpenReq, <<ReadReq>>)
  /\ own' = [own EXCEPT !.len = BufferSize, !.fd = "open"]
  /\ UNCHANGED world

\* The thread pool reads n bytes, and iov.len is cut down to them.
OnReadBytes_KeepsLen(n) ==
  \* Mutant: iov.len is not set to what the read returned.
  /\ Callback(ReadReq, <<WriteReq>>)
  /\ n <= own.len /\ n <= Len(world.rest)
  /\ own' = [own EXCEPT
       !.buffer = [i \in DOMAIN @ |-> IF i <= n THEN world.rest[i] ELSE @[i]]]
  /\ world' = [world EXCEPT !.rest = SubSeq(@, n + 1, Len(@))]

OnReadBytes(n) ==
  /\ Callback(ReadReq, <<WriteReq>>)
  /\ n <= own.len /\ n <= Len(world.rest)
  /\ own' = [own EXCEPT
       !.len = n,
       !.buffer = [i \in DOMAIN @ |-> IF i <= n THEN world.rest[i] ELSE @[i]]]
  /\ world' = [world EXCEPT !.rest = SubSeq(@, n + 1, Len(@))]

OnReadEnd ==
  /\ Callback(ReadReq, <<>>)
  /\ world.rest = <<>>
  /\ own' = [own EXCEPT !.fd = "closed"]
  /\ UNCHANGED world

\* A write of n bytes is never completed: the next read follows whatever n is.
OnWriteBytes(n) ==
  /\ Callback(WriteReq, <<ReadReq>>)
  /\ n <= own.len
  /\ world' = [world EXCEPT
       !.output = @ \o SubSeq(own.buffer, 1, n),
       !.mishap = IF n < own.len THEN @ \cup {"short_write"} ELSE @]
  /\ UNCHANGED own

\* An open, a read or a write fails: the callback reports it, submits
\* nothing, and the descriptor stays open.
OnError(r) ==
  /\ Callback(r, <<>>)
  /\ world' = Mishap("failed")
  /\ UNCHANGED own

UvcatStep ==
  \/ UvcatMain
  \/ on_open
  \/ \E n \in 1 .. BufferSize : OnReadBytes(n) \/ OnWriteBytes(n)
  \/ OnReadEnd
  \/ \E r \in {OpenReq, ReadReq, WriteReq} : OnError(r)

-----------------------------------------------------------------------------

\* No byte is put out twice or behind a later one, even after a short write has
\* left some out; without one the output is the beginning of the file.
UvcatOutput ==
  /\ \A i, j \in DOMAIN world.output : i < j => world.output[i] < world.output[j]
  /\ "short_write" \notin world.mishap => IsPrefix(world.output, Bytes)

\* At the end, unless a request failed, the file is closed and all of it has been
\* put out but what a short write left out.
UvcatComplete ==
  "failed" \notin world.mishap =>
    /\ own.fd = "closed" /\ pending = <<>> /\ world.rest = <<>>
    /\ "short_write" \notin world.mishap => world.output = Bytes

=============================================================================
