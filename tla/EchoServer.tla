----------------------------- MODULE EchoServer -----------------------------
(***************************************************************************)
(* docs/code/tcp-echo-server/main.c and docs/code/pipe-echo-server/main.c: *)
(* one loop accepts clients and writes back to each what it reads from it. *)
(* The two programs differ in one thing that matters here: the tcp server  *)
(* gives uv_close an on_close that frees the client, the pipe server gives *)
(* it NULL.  The clients of both are served side by side here; nothing is  *)
(* shared between two clients but the heap.  A worker of the multi-echo    *)
(* server echoes with the text of the pipe server.                         *)
(*                                                                         *)
(* Callbacks of the loop are atomic.  The peers, the kernel's socket       *)
(* buffers and libuv's queue of write requests are external: a write is    *)
(* sent in any number of pieces, in order, and its callback comes later;   *)
(* uv_close makes the callbacks of the writes still queued fail, and only  *)
(* then calls the close callback.  The bytes of a client are numbered.     *)
(***************************************************************************)
EXTENDS Integers, Sequences, SequencesExt

CONSTANTS
  Clients,
  TcpClients,    \* those of the tcp server; the others use the pipe server
  MaxBytes       \* bound: how many bytes each peer sends

ASSUME EchoAssumption ==
  /\ MaxBytes \in [Clients -> Nat]
  /\ TcpClients \subseteq Clients

VARIABLES
  peer,      \* the other end: "none", "connected", "eof", "reset"
  sent,      \* how many bytes the peer has sent
  client,    \* the handle: "none", "reading", "closing", "closed", "freed"
  rcvd,      \* how many bytes echo_read was given
  wq,        \* write requests libuv has queued, [from, to] still to send
  done,      \* write requests whose callback is due
  heap,      \* buffers malloc'ed by alloc_buffer and not freed
  echoed     \* the bytes that have reached the peer, in order

vars == <<peer, sent, client, rcvd, wq, done, heap, echoed>>

Init ==
  /\ peer = [c \in Clients |-> "none"]
  /\ sent = [c \in Clients |-> 0]
  /\ client = [c \in Clients |-> "none"]
  /\ rcvd = [c \in Clients |-> 0]
  /\ wq = [c \in Clients |-> <<>>]
  /\ done = [c \in Clients |-> <<>>]
  /\ heap = {}
  /\ echoed = [c \in Clients |-> <<>>]

-----------------------------------------------------------------------------
(* The peers.                                                              *)

Send(c) ==
  /\ peer[c] = "connected" /\ sent[c] < MaxBytes[c]
  /\ sent' = [sent EXCEPT ![c] = @ + 1]
  /\ UNCHANGED <<peer, client, rcvd, wq, done, heap, echoed>>

Hangup(c) ==
  /\ peer[c] = "connected"
  /\ peer' = [peer EXCEPT ![c] = "eof"]
  /\ UNCHANGED <<sent, client, rcvd, wq, done, heap, echoed>>

Reset(c) ==
  /\ peer[c] \in {"connected", "eof"}
  /\ peer' = [peer EXCEPT ![c] = "reset"]
  /\ UNCHANGED <<sent, client, rcvd, wq, done, heap, echoed>>

-----------------------------------------------------------------------------
(* on_new_connection                                                       *)

Accept(c) ==
  /\ client[c] = "none"
  /\ peer' = [peer EXCEPT ![c] = "connected"]
  /\ client' = [client EXCEPT ![c] = "reading"]
  /\ UNCHANGED <<sent, rcvd, wq, done, heap, echoed>>

\* uv_accept fails: the handle that was just allocated is closed again.  The
\* pipe server comes here too when it is told of an error other than -1.  (The
\* errors on which the two servers return at once change nothing.)
AcceptFails(c) ==
  /\ client[c] = "none"
  /\ client' = [client EXCEPT ![c] = "closing"]
  /\ UNCHANGED <<peer, sent, rcvd, wq, done, heap, echoed>>

-----------------------------------------------------------------------------
(* echo_read, with the buffer alloc_buffer has just allocated.             *)

\* A buffer is named by the last byte it holds, 0 when it holds none.
Buffer(c, last) == [client |-> c, last |-> last]

\* Mutant: the buffer is freed when uv_write returns.
ReadData_FreesBuffer(c, n) ==
  /\ client[c] = "reading" /\ peer[c] # "reset"
  /\ rcvd[c] + n <= sent[c]
  /\ rcvd' = [rcvd EXCEPT ![c] = @ + n]
  /\ wq' = [wq EXCEPT ![c] =
              Append(@, [from |-> rcvd[c], to |-> rcvd[c] + n, buf |-> Buffer(c, rcvd[c] + n)])]
  /\ UNCHANGED <<peer, sent, client, done, heap, echoed>>

\* Mutant: the request writes the whole buffer, buf->len for nread.
ReadData_WholeBuffer(c, n) ==
  /\ client[c] = "reading" /\ peer[c] # "reset"
  /\ rcvd[c] + n <= sent[c]
  /\ rcvd' = [rcvd EXCEPT ![c] = @ + n]
  /\ heap' = heap \cup {Buffer(c, rcvd[c] + n)}
  /\ wq' = [wq EXCEPT ![c] =
              Append(@, [from |-> rcvd[c], to |-> rcvd[c] + MaxBytes[c], buf |-> Buffer(c, rcvd[c] + n)])]
  /\ UNCHANGED <<peer, sent, client, done, echoed>>

\* Mutant: the request writes one byte less, nread - 1.
ReadData_OneShort(c, n) ==
  /\ client[c] = "reading" /\ peer[c] # "reset"
  /\ rcvd[c] + n <= sent[c]
  /\ rcvd' = [rcvd EXCEPT ![c] = @ + n]
  /\ heap' = heap \cup {Buffer(c, rcvd[c] + n)}
  /\ wq' = [wq EXCEPT ![c] =
              Append(@, [from |-> rcvd[c], to |-> rcvd[c] + n - 1, buf |-> Buffer(c, rcvd[c] + n)])]
  /\ UNCHANGED <<peer, sent, client, done, echoed>>

\* nread > 0: the write request takes the buffer over.
ReadData(c, n) ==
  /\ client[c] = "reading" /\ peer[c] # "reset"
  /\ rcvd[c] + n <= sent[c]
  /\ rcvd' = [rcvd EXCEPT ![c] = @ + n]
  /\ heap' = heap \cup {Buffer(c, rcvd[c] + n)}
  /\ wq' = [wq EXCEPT ![c] =
              Append(@, [from |-> rcvd[c], to |-> rcvd[c] + n, buf |-> Buffer(c, rcvd[c] + n)])]
  /\ UNCHANGED <<peer, sent, client, done, echoed>>

\* nread = 0, EAGAIN: alloc_buffer's buffer is freed at once.
ReadNothing(c) ==
  /\ client[c] = "reading"
  /\ heap' = (heap \cup {Buffer(c, 0)}) \ {Buffer(c, 0)}
  /\ UNCHANGED <<peer, sent, client, rcvd, wq, done, echoed>>

\* Mutant: only UV_EOF closes the client, not a read error.
ReadEnd_OnlyEof(c) ==
  /\ client[c] = "reading"
  /\ peer[c] = "eof" /\ rcvd[c] = sent[c]
  /\ client' = [client EXCEPT ![c] = "closing"]
  /\ done' = [done EXCEPT ![c] = @ \o wq[c]]
  /\ wq' = [wq EXCEPT ![c] = <<>>]
  /\ UNCHANGED <<peer, sent, rcvd, heap, echoed>>

\* nread < 0, UV_EOF or an error: uv_close, and the buffer is freed.
ReadEnd(c) ==
  /\ client[c] = "reading"
  /\ peer[c] = "reset" \/ (peer[c] = "eof" /\ rcvd[c] = sent[c])
  /\ client' = [client EXCEPT ![c] = "closing"]
  /\ done' = [done EXCEPT ![c] = @ \o wq[c]]
  /\ wq' = [wq EXCEPT ![c] = <<>>]
  /\ heap' = (heap \cup {Buffer(c, 0)}) \ {Buffer(c, 0)}
  /\ UNCHANGED <<peer, sent, rcvd, echoed>>

-----------------------------------------------------------------------------
(* The kernel takes n bytes of the oldest write, or refuses it after a     *)
(* reset; a finished request waits for its callback.                       *)

WriteSome(c, n) ==
  /\ wq[c] # <<>> /\ peer[c] # "reset"
  /\ LET r == Head(wq[c]) IN
       /\ r.from + n <= r.to
       /\ echoed' = [echoed EXCEPT ![c] = @ \o [j \in 1 .. n |-> r.from + j]]
       /\ IF r.from + n < r.to
            THEN /\ wq' = [wq EXCEPT ![c] = <<[r EXCEPT !.from = @ + n]>> \o Tail(@)]
                 /\ done' = done
            ELSE /\ wq' = [wq EXCEPT ![c] = Tail(@)]
                 /\ done' = [done EXCEPT ![c] = Append(@, r)]
  /\ UNCHANGED <<peer, sent, client, rcvd, heap>>

WriteFails(c) ==
  /\ wq[c] # <<>> /\ peer[c] = "reset"
  /\ done' = [done EXCEPT ![c] = Append(@, Head(wq[c]))]
  /\ wq' = [wq EXCEPT ![c] = Tail(@)]
  /\ UNCHANGED <<peer, sent, client, rcvd, heap, echoed>>

-----------------------------------------------------------------------------
(* The other callbacks.                                                    *)

\* free_write_req, whatever the status was.
echo_write(c) ==
  /\ done[c] # <<>>
  /\ heap' = heap \ {Head(done[c]).buf}
  /\ done' = [done EXCEPT ![c] = Tail(@)]
  /\ UNCHANGED <<peer, sent, client, rcvd, wq, echoed>>

\* The close callback, after the callbacks of every write.
on_close(c) ==
  /\ client[c] = "closing"
  /\ wq[c] = <<>> /\ done[c] = <<>>
  /\ client' = [client EXCEPT ![c] = IF c \in TcpClients THEN "freed" ELSE "closed"]
  /\ UNCHANGED <<peer, sent, rcvd, wq, done, heap, echoed>>

-----------------------------------------------------------------------------

PeerStep(c) == Send(c) \/ Hangup(c) \/ Reset(c)

Connect(c) == Accept(c) \/ AcceptFails(c)

Serve(c) ==
  \/ \E n \in 1 .. MaxBytes[c] : ReadData(c, n)
  \/ ReadEnd(c)
  \/ \E n \in 1 .. MaxBytes[c] : WriteSome(c, n)
  \/ WriteFails(c)
  \/ echo_write(c)
  \/ on_close(c)

Next == \E c \in Clients : PeerStep(c) \/ Connect(c) \/ ReadNothing(c) \/ Serve(c)

Spec == Init /\ [][Next]_vars

\* The loop polls every descriptor: no client is passed over for ever.
FairSpec == Spec /\ \A c \in Clients : WF_vars(Serve(c))

-----------------------------------------------------------------------------

\* The write requests of a client in the order they were made, and as a set.
Queue(c) == done[c] \o wq[c]
Requests(c) == ToSet(Queue(c))

WriteReq == [from : Nat, to : Nat, buf : [client : Clients, last : Nat]]

\* The values the variables take; no more is read than was sent.
TypeOK ==
  /\ peer \in [Clients -> {"none", "connected", "eof", "reset"}]
  /\ client \in [Clients -> {"none", "reading", "closing", "closed", "freed"}]
  /\ sent \in [Clients -> Nat] /\ rcvd \in [Clients -> Nat]
  /\ \A c \in Clients : rcvd[c] <= sent[c] /\ sent[c] <= MaxBytes[c]
  /\ wq \in [Clients -> Seq(WriteReq)] /\ done \in [Clients -> Seq(WriteReq)]
  /\ echoed \in [Clients -> Seq(Nat)]

\* Every buffer alloc_buffer returned, and that is not freed, belongs to one
\* write request that will free it: none leaks, none is freed twice, and no
\* queued write reads from freed memory.
HeapIsOwned ==
  /\ heap = {r.buf : r \in UNION {Requests(c) : c \in Clients}}
  /\ \A c \in Clients : IsInjective([j \in 1 .. Len(Queue(c)) |-> Queue(c)[j].buf])

\* The peer gets back what it sent, in order and without a gap, however the
\* reads were cut and the writes completed.
EchoIsPrefix ==
  \A c \in Clients :
    /\ Len(echoed[c]) <= rcvd[c]
    /\ \A j \in 1 .. Len(echoed[c]) : echoed[c][j] = j

\* Nothing of a client is left, and no callback of it is due, once its close
\* callback has run; the tcp server frees the handle there and not before.
NothingAfterClose ==
  \A c \in Clients :
    client[c] \in {"closed", "freed"} =>
      /\ Requests(c) = {}
      /\ \A b \in heap : b.client # c

\* The requests of a client hold bytes that were read, in the order of the
\* reads, each in a buffer of its own.
RequestsInOrder ==
  \A c \in Clients :
    /\ \A i \in 1 .. Len(Queue(c)) :
         LET r == Queue(c)[i] IN
           r.from < r.to /\ r.to <= rcvd[c] /\ r.buf = Buffer(c, r.to)
    /\ \A i, j \in 1 .. Len(Queue(c)) : i < j => Queue(c)[i].to <= Queue(c)[j].from

\* Those still to be sent follow one another without a gap, up to the last
\* byte read, and the first begins where the echo ends.
NoGap ==
  \A c \in Clients :
    /\ \A i \in 1 .. Len(wq[c]) :
         wq[c][i].to = IF i = Len(wq[c]) THEN rcvd[c] ELSE wq[c][i + 1].from
    /\ client[c] = "reading" /\ peer[c] # "reset" =>
         Len(echoed[c]) = IF wq[c] = <<>> THEN rcvd[c] ELSE wq[c][1].from

\* A client writes only while it reads, and nothing is left of it at the end.
ClientInv ==
  \A c \in Clients :
    /\ client[c] # "reading" => wq[c] = <<>>
    /\ client[c] \notin {"reading", "closing"} => done[c] = <<>>
    /\ client[c] = "none" => rcvd[c] = 0 /\ echoed[c] = <<>>

\* The memory of the servers, and the order of the requests it rests on.
MemoryInv ==
  /\ TypeOK /\ HeapIsOwned /\ NothingAfterClose
  /\ RequestsInOrder /\ NoGap /\ ClientInv

\* A client that hangs up or resets is closed in the end, and so is the handle of
\* a connection that could not be accepted; the tcp server frees it, the pipe
\* server, which gives uv_close no callback, keeps it for ever.
ClosedInTheEnd ==
  \A c \in Clients :
    client[c] = "closing" \/ (client[c] = "reading" /\ peer[c] \in {"eof", "reset"})
      ~> client[c] = IF c \in TcpClients THEN "freed" ELSE "closed"

\* While the peer stays, everything it sent comes back.
EchoedInTheEnd ==
  \A c \in Clients : \A n \in 1 .. MaxBytes[c] :
    sent[c] = n /\ client[c] = "reading"
      ~> Len(echoed[c]) >= n \/ peer[c] # "connected"

=============================================================================
