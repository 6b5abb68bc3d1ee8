-------------------------- MODULE EchoServerProofs --------------------------
(***************************************************************************)
(* Proofs about EchoServer, for any clients of the two servers and any     *)
(* number of bytes that their peers send.                                  *)
(***************************************************************************)
EXTENDS EchoServer, TLAPS

-----------------------------------------------------------------------------
(* What the queue of write requests, done \o wq, becomes when a request is *)
(* added, sent, failed or reported.                                        *)

\* What a concatenation consists of.
LEMMA ConcatIs ==
  ASSUME NEW S, NEW s \in Seq(S), NEW t \in Seq(S)
  PROVE  /\ s \o t \in Seq(S) /\ Len(s \o t) = Len(s) + Len(t)
         /\ \A i \in 1 .. Len(s) + Len(t) :
              (s \o t)[i] = IF i <= Len(s) THEN s[i] ELSE t[i - Len(s)]
  OBVIOUS

\* The empty sequence is the one of length 0.
LEMMA EmptyIs ==
  ASSUME NEW S, NEW s \in Seq(S)
  PROVE  s = <<>> <=> Len(s) = 0
  OBVIOUS

\* A request that is added to wq is the last of the queue.
LEMMA ConcatAppend ==
  ASSUME NEW S, NEW s \in Seq(S), NEW t \in Seq(S), NEW x \in S
  PROVE  s \o Append(t, x) = Append(s \o t, x)
  OBVIOUS

\* A request that moves from wq to done keeps its place.
LEMMA MoveHead ==
  ASSUME NEW S, NEW s \in Seq(S), NEW t \in Seq(S), t # <<>>
  PROVE  Append(s, Head(t)) \o Tail(t) = s \o t
  OBVIOUS

\* A request that is reported was the first of the queue.
LEMMA TailOfConcat ==
  ASSUME NEW S, NEW s \in Seq(S), NEW t \in Seq(S), s # <<>>
  PROVE  Tail(s) \o t = Tail(s \o t)
  OBVIOUS

\* A request that is sent in part is replaced where it is.
LEMMA ReplaceHead ==
  ASSUME NEW S, NEW s \in Seq(S), NEW t \in Seq(S), NEW x \in S, t # <<>>
  PROVE  /\ Len(s \o (<<x>> \o Tail(t))) = Len(s \o t)
         /\ \A i \in 1 .. Len(s \o t) :
              (s \o (<<x>> \o Tail(t)))[i] = IF i = Len(s) + 1 THEN x ELSE (s \o t)[i]
  OBVIOUS

-----------------------------------------------------------------------------

\* The heap in terms of the queues: buffers are told apart by their client and
\* their last byte.
HeapInv ==
  \A b : b \in heap <=>
    \E c \in Clients : \E i \in 1 .. Len(Queue(c)) : b = Buffer(c, Queue(c)[i].to)

\* What is shown to be inductive; MemoryInv and EchoIsPrefix follow from it.
IInv == TypeOK /\ HeapInv /\ RequestsInOrder /\ NoGap /\ ClientInv /\ EchoIsPrefix

\* Two buffers are the same only when client and last byte are.
LEMMA BuffersDiffer ==
  \A c, d, m, n : Buffer(c, m) = Buffer(d, n) <=> c = d /\ m = n
  BY DEF Buffer

\* The queue of a client is a sequence of write requests.
LEMMA QueueType ==
  ASSUME TypeOK, NEW c \in Clients
  PROVE  Queue(c) \in Seq(WriteReq)
  BY DEF TypeOK, Queue

\* The fields of a queued request are numbers.
LEMMA RequestType ==
  ASSUME TypeOK, NEW c \in Clients, NEW i \in 1 .. Len(Queue(c))
  PROVE  /\ Queue(c)[i] \in WriteReq
         /\ Queue(c)[i].from \in Nat /\ Queue(c)[i].to \in Nat
  <1>1. Queue(c)[i] \in WriteReq
    BY QueueType
  <1>2. QED
    BY <1>1 DEF WriteReq

\* The initial states satisfy the inductive invariant.
LEMMA InitIInv == Init => IInv
  <1> SUFFICES ASSUME Init
               PROVE  IInv
    OBVIOUS
  <1>1. TypeOK
    BY EchoAssumption DEF Init, TypeOK
  <1>2. \A c \in Clients : Queue(c) = <<>>
    BY DEF Init, Queue
  <1>3. HeapInv /\ RequestsInOrder
    BY <1>2 DEF Init, HeapInv, RequestsInOrder
  <1>4. NoGap /\ ClientInv /\ EchoIsPrefix
    BY DEF Init, NoGap, ClientInv, EchoIsPrefix
  <1>5. QED
    BY <1>1, <1>3, <1>4 DEF IInv

\* The buffers and the order of the requests depend on nothing but the queues,
\* what was read and the heap.
LEMMA SameQueues ==
  ASSUME HeapInv, RequestsInOrder, heap' = heap, rcvd' = rcvd,
         \A d \in Clients : Queue(d)' = Queue(d)
  PROVE  HeapInv' /\ RequestsInOrder'
  BY DEF HeapInv, RequestsInOrder

\* A step that changes nothing.
LEMMA StutterInv ==
  ASSUME IInv, UNCHANGED vars
  PROVE  IInv'
  <1> USE DEF vars
  <1>1. TypeOK'
    BY DEF IInv, TypeOK
  <1>2. HeapInv' /\ RequestsInOrder'
    BY SameQueues DEF IInv, Queue
  <1>3. NoGap' /\ ClientInv' /\ EchoIsPrefix'
    BY DEF IInv, NoGap, ClientInv, EchoIsPrefix
  <1>4. QED
    BY <1>1, <1>2, <1>3 DEF IInv

\* The peer sends a byte.
LEMMA SendInv ==
  ASSUME IInv, NEW c \in Clients, Send(c)
  PROVE  IInv'
  <1> USE DEF Send
  <1>1. TypeOK'
    <2>1. sent' \in [Clients -> Nat]
      BY DEF IInv, TypeOK
    <2>2. \A d \in Clients : MaxBytes[d] \in Nat /\ sent[d] \in Nat /\ rcvd[d] \in Nat
      BY EchoAssumption DEF IInv, TypeOK
    <2>3. \A d \in Clients : sent'[d] = IF d = c THEN sent[d] + 1 ELSE sent[d]
      BY DEF IInv, TypeOK
    <2>4. \A d \in Clients : rcvd[d] <= sent'[d] /\ sent'[d] <= MaxBytes[d]
      BY SMTT(30), <2>2, <2>3 DEF IInv, TypeOK
    <2>5. QED
      BY <2>4 DEF IInv, TypeOK
  <1>2. \A d \in Clients : Queue(d)' = Queue(d)
    BY DEF Queue
  <1>3. HeapInv' /\ RequestsInOrder'
    BY <1>2, SameQueues DEF IInv
  <1>4. NoGap'
    BY DEF IInv, NoGap
  <1>5. ClientInv'
    BY DEF IInv, ClientInv
  <1>6. EchoIsPrefix'
    BY DEF IInv, EchoIsPrefix
  <1>7. QED
    BY <1>1, <1>3, <1>4, <1>5, <1>6 DEF IInv

\* The peer hangs up.
LEMMA HangupInv ==
  ASSUME IInv, NEW c \in Clients, Hangup(c)
  PROVE  IInv'
  <1> USE DEF Hangup
  <1>1. TypeOK'
    BY DEF IInv, TypeOK
  <1>2. \A d \in Clients : Queue(d)' = Queue(d)
    BY DEF Queue
  <1>3. HeapInv' /\ RequestsInOrder'
    BY <1>2, SameQueues DEF IInv
  <1>4. NoGap'
    BY DEF IInv, NoGap
  <1>5. ClientInv'
    BY DEF IInv, ClientInv
  <1>6. EchoIsPrefix'
    BY DEF IInv, EchoIsPrefix
  <1>7. QED
    BY <1>1, <1>3, <1>4, <1>5, <1>6 DEF IInv

\* The peer resets the connection.
LEMMA ResetInv ==
  ASSUME IInv, NEW c \in Clients, Reset(c)
  PROVE  IInv'
  <1> USE DEF Reset
  <1>1. TypeOK'
    BY DEF IInv, TypeOK
  <1>2. \A d \in Clients : Queue(d)' = Queue(d)
    BY DEF Queue
  <1>3. HeapInv' /\ RequestsInOrder'
    BY <1>2, SameQueues DEF IInv
  <1>4. NoGap'
    BY DEF IInv, NoGap
  <1>5. ClientInv'
    BY DEF IInv, ClientInv
  <1>6. EchoIsPrefix'
    BY DEF IInv, EchoIsPrefix
  <1>7. QED
    BY <1>1, <1>3, <1>4, <1>5, <1>6 DEF IInv

\* A client is accepted.
LEMMA AcceptInv ==
  ASSUME IInv, NEW c \in Clients, Accept(c)
  PROVE  IInv'
  <1> USE DEF Accept
  <1>1. TypeOK'
    BY DEF IInv, TypeOK
  <1>2. \A d \in Clients : Queue(d)' = Queue(d)
    BY DEF Queue
  <1>3. HeapInv' /\ RequestsInOrder'
    BY <1>2, SameQueues DEF IInv
  <1>4. NoGap'
    BY DEF IInv, NoGap, ClientInv
  <1>5. ClientInv'
    BY DEF IInv, ClientInv
  <1>6. EchoIsPrefix'
    BY DEF IInv, EchoIsPrefix
  <1>7. QED
    BY <1>1, <1>3, <1>4, <1>5, <1>6 DEF IInv

\* A client could not be accepted.
LEMMA AcceptFailsInv ==
  ASSUME IInv, NEW c \in Clients, AcceptFails(c)
  PROVE  IInv'
  <1> USE DEF AcceptFails
  <1>1. TypeOK'
    BY DEF IInv, TypeOK
  <1>2. \A d \in Clients : Queue(d)' = Queue(d)
    BY DEF Queue
  <1>3. HeapInv' /\ RequestsInOrder'
    BY <1>2, SameQueues DEF IInv
  <1>4. NoGap'
    BY DEF IInv, NoGap
  <1>5. ClientInv'
    BY DEF IInv, ClientInv
  <1>6. EchoIsPrefix'
    BY DEF IInv, EchoIsPrefix
  <1>7. QED
    BY <1>1, <1>3, <1>4, <1>5, <1>6 DEF IInv

\* The close callback runs.
LEMMA on_closeInv ==
  ASSUME IInv, NEW c \in Clients, on_close(c)
  PROVE  IInv'
  <1> USE DEF on_close
  <1>1. TypeOK'
    BY DEF IInv, TypeOK
  <1>2. \A d \in Clients : Queue(d)' = Queue(d)
    BY DEF Queue
  <1>3. HeapInv' /\ RequestsInOrder'
    BY <1>2, SameQueues DEF IInv
  <1>4. NoGap'
    BY DEF IInv, NoGap
  <1>5. ClientInv'
    BY DEF IInv, ClientInv
  <1>6. EchoIsPrefix'
    BY DEF IInv, EchoIsPrefix
  <1>7. QED
    BY <1>1, <1>3, <1>4, <1>5, <1>6 DEF IInv

\* echo_read is given n bytes, and a write request takes their buffer over.
LEMMA ReadDataInv ==
  ASSUME IInv, NEW c \in Clients, NEW n \in 1 .. MaxBytes[c], ReadData(c, n)
  PROVE  IInv'
  <1> DEFINE r == [from |-> rcvd[c], to |-> rcvd[c] + n, buf |-> Buffer(c, rcvd[c] + n)]
  <1>1. n \in Nat \ {0} /\ rcvd[c] \in Nat /\ r \in WriteReq
    BY DEF IInv, TypeOK, WriteReq, Buffer
  <1>2. /\ rcvd' = [rcvd EXCEPT ![c] = @ + n] /\ heap' = heap \cup {r.buf}
        /\ wq' = [wq EXCEPT ![c] = Append(@, r)] /\ done' = done
        /\ client[c] = "reading" /\ peer[c] # "reset" /\ rcvd[c] + n <= sent[c]
        /\ UNCHANGED <<peer, sent, client, echoed>>
    BY DEF ReadData
  <1> HIDE DEF r
  <1>3. TypeOK'
    BY <1>1, <1>2 DEF IInv, TypeOK
  <1>4. \A d \in Clients : Queue(d)' = IF d = c THEN Append(Queue(d), r) ELSE Queue(d)
    <2> SUFFICES ASSUME NEW d \in Clients
                 PROVE  Queue(d)' = IF d = c THEN Append(Queue(d), r) ELSE Queue(d)
      OBVIOUS
    <2> DEFINE s == done[d]
               t == wq[d]
    <2>1. done'[d] = s /\ wq'[d] = IF d = c THEN Append(t, r) ELSE t
      BY <1>2 DEF IInv, TypeOK
    <2>2. s \in Seq(WriteReq) /\ t \in Seq(WriteReq)
      BY DEF IInv, TypeOK
    <2>3. Queue(d) = s \o t /\ Queue(d)' = done'[d] \o wq'[d]
      BY DEF Queue
    <2> HIDE DEF s, t
    <2>4. s \o Append(t, r) = Append(s \o t, r)
      OBVIOUS
    <2>5. QED
      BY <2>1, <2>3, <2>4
  <1>5. r.from = rcvd[c] /\ r.to = rcvd[c] + n /\ r.buf = Buffer(c, r.to)
    BY DEF r
  <1>6. /\ \A d \in Clients : d # c => Queue(d)' = Queue(d)
        /\ Len(Queue(c)') = Len(Queue(c)) + 1 /\ Len(Queue(c)) \in Nat
        /\ \A i \in 1 .. Len(Queue(c)) : Queue(c)'[i] = Queue(c)[i]
        /\ Queue(c)'[Len(Queue(c)) + 1] = r
    BY <1>4 DEF IInv
  <1>7. HeapInv'
    <2> SUFFICES ASSUME NEW b
                 PROVE  b \in heap' <=>
                          \E d \in Clients : \E i \in 1 .. Len(Queue(d)') :
                            b = Buffer(d, Queue(d)'[i].to)
      BY DEF HeapInv
    <2>1. (\E i \in 1 .. Len(Queue(c)') : b = Buffer(c, Queue(c)'[i].to))
            <=> \/ \E i \in 1 .. Len(Queue(c)) : b = Buffer(c, Queue(c)[i].to)
                \/ b = r.buf
      BY <1>5, <1>6
    <2>2. \A d \in Clients : d # c =>
            ((\E i \in 1 .. Len(Queue(d)') : b = Buffer(d, Queue(d)'[i].to))
               <=> \E i \in 1 .. Len(Queue(d)) : b = Buffer(d, Queue(d)[i].to))
      BY <1>6
    <2>3. b \in heap' <=> b \in heap \/ b = r.buf
      BY <1>2
    <2>4. b \in heap <=>
            \E d \in Clients : \E i \in 1 .. Len(Queue(d)) : b = Buffer(d, Queue(d)[i].to)
      BY DEF IInv, HeapInv
    <2>5. QED
      BY <2>1, <2>2, <2>3, <2>4
  <1>8. RequestsInOrder'
    <2>1. \A i \in 1 .. Len(Queue(c)) : Queue(c)[i].to \in Nat /\ Queue(c)[i].to <= rcvd[c]
      BY RequestType DEF IInv, RequestsInOrder
    <2>2. \A d \in Clients : rcvd'[d] = IF d = c THEN rcvd[d] + n ELSE rcvd[d]
      BY <1>2 DEF IInv, TypeOK
    <2> SUFFICES ASSUME NEW d \in Clients
                 PROVE  /\ \A i \in 1 .. Len(Queue(d)') :
                             /\ Queue(d)'[i].from < Queue(d)'[i].to
                             /\ Queue(d)'[i].to <= rcvd'[d]
                             /\ Queue(d)'[i].buf = Buffer(d, Queue(d)'[i].to)
                        /\ \A i, j \in 1 .. Len(Queue(d)') :
                             i < j => Queue(d)'[i].to <= Queue(d)'[j].from
      BY DEF RequestsInOrder
    <2>3. CASE d # c
      BY <1>6, <2>2, <2>3 DEF IInv, RequestsInOrder
    <2>4. CASE d = c
      <3> DEFINE L == Len(Queue(c))
      <3>1. \A i \in 1 .. Len(Queue(c)') : i \in 1 .. L \/ i = L + 1
        BY <1>6
      <3>2. \A i \in 1 .. L :
              /\ Queue(c)[i].from < Queue(c)[i].to /\ Queue(c)[i].buf = Buffer(c, Queue(c)[i].to)
              /\ \A j \in 1 .. L : i < j => Queue(c)[i].to <= Queue(c)[j].from
        BY DEF IInv, RequestsInOrder
      <3>3. rcvd[c] < rcvd[c] + n /\ \A m \in Nat : m <= rcvd[c] => m <= rcvd[c] + n
        BY <1>1
      <3>4. \A i \in 1 .. Len(Queue(c)') :
              /\ Queue(c)'[i].from < Queue(c)'[i].to /\ Queue(c)'[i].to <= rcvd[c] + n
              /\ Queue(c)'[i].buf = Buffer(c, Queue(c)'[i].to)
        BY <1>1, <1>5, <1>6, <2>1, <3>2
      <3>5. ASSUME NEW i \in 1 .. Len(Queue(c)'), NEW j \in 1 .. Len(Queue(c)'), i < j
            PROVE  Queue(c)'[i].to <= Queue(c)'[j].from
        <4>1. i \in 1 .. L
          BY <3>1, <3>5
        <4>2. CASE j \in 1 .. L
          BY <1>6, <3>2, <3>5, <4>2
        <4>3. CASE j = L + 1
          BY <1>5, <1>6, <2>1, <4>1, <4>3
        <4>4. QED
          BY <3>1, <4>2, <4>3
      <3>6. QED
        BY <2>2, <2>4, <3>4, <3>5
    <2>5. QED
      BY <2>3, <2>4
  <1>9. NoGap'
    <2> SUFFICES ASSUME NEW d \in Clients
                 PROVE  /\ \A i \in 1 .. Len(wq'[d]) :
                             wq'[d][i].to = IF i = Len(wq'[d]) THEN rcvd'[d] ELSE wq'[d][i + 1].from
                        /\ client'[d] = "reading" /\ peer'[d] # "reset" =>
                             Len(echoed'[d]) = IF wq'[d] = <<>> THEN rcvd'[d] ELSE wq'[d][1].from
      BY DEF NoGap
    <2>1. CASE d # c
      BY <1>2, <2>1 DEF IInv, NoGap
    <2>2. CASE d = c
      <3>1. /\ wq'[c] = Append(wq[c], r) /\ rcvd'[c] = rcvd[c] + n /\ wq[c] \in Seq(WriteReq)
            /\ UNCHANGED <<peer, client, echoed>>
        BY <1>2 DEF IInv, TypeOK
      <3>2. /\ Len(wq'[c]) = Len(wq[c]) + 1 /\ Len(wq[c]) \in Nat /\ wq'[c] # <<>>
            /\ \A i \in 1 .. Len(wq[c]) : wq'[c][i] = wq[c][i]
            /\ wq'[c][Len(wq[c]) + 1] = r
            /\ wq[c] = <<>> <=> Len(wq[c]) = 0
        BY <3>1
      <3>3. /\ \A i \in 1 .. Len(wq[c]) :
                 wq[c][i].to = IF i = Len(wq[c]) THEN rcvd[c] ELSE wq[c][i + 1].from
            /\ client[c] = "reading" /\ peer[c] # "reset" =>
                 Len(echoed[c]) = IF wq[c] = <<>> THEN rcvd[c] ELSE wq[c][1].from
        BY DEF IInv, NoGap
      <3>4. ASSUME NEW i \in 1 .. Len(wq'[c])
            PROVE  wq'[c][i].to = IF i = Len(wq'[c]) THEN rcvd'[c] ELSE wq'[c][i + 1].from
        <4>1. CASE i = Len(wq[c]) + 1
          BY <1>5, <3>1, <4>1
        <4>2. CASE i = Len(wq[c])
          BY <1>5, <3>2, <3>3, <4>2
        <4>3. CASE i < Len(wq[c])
          <5>1. i \in 1 .. Len(wq[c]) /\ i + 1 \in 1 .. Len(wq[c])
            BY <4>3
          <5>2. wq'[c][i] = wq[c][i] /\ wq'[c][i + 1] = wq[c][i + 1]
            BY <3>2, <5>1
          <5>3. wq[c][i].to = wq[c][i + 1].from
            BY <3>3, <5>1
          <5>4. QED
            BY <3>2, <5>1, <5>2, <5>3
        <4>4. QED
          BY <3>2, <3>4, <4>1, <4>2, <4>3
      <3>5. wq'[c][1].from = IF wq[c] = <<>> THEN rcvd[c] ELSE wq[c][1].from
        BY <1>5, <3>2
      <3>6. QED
        BY <2>2, <3>1, <3>2, <3>3, <3>4, <3>5
    <2>3. QED
      BY <2>1, <2>2
  <1>10. ClientInv'
    BY <1>2 DEF IInv, ClientInv
  <1>11. EchoIsPrefix'
    BY <1>1, <1>2 DEF IInv, EchoIsPrefix
  <1>12. QED
    BY <1>3, <1>7, <1>8, <1>9, <1>10, <1>11 DEF IInv

\* A read that returns nothing frees the buffer that was allocated for it.
LEMMA ReadNothingInv ==
  ASSUME IInv, NEW c \in Clients, ReadNothing(c)
  PROVE  IInv'
  <1> USE DEF ReadNothing
  <1>1. Buffer(c, 0) \notin heap
    BY BuffersDiffer, RequestType DEF IInv, HeapInv, RequestsInOrder
  <1>2. UNCHANGED vars
    BY <1>1 DEF vars
  <1>3. QED
    BY <1>2, StutterInv

\* The end of the stream or an error closes the client: the requests that were
\* not sent are done too.
LEMMA ReadEndInv ==
  ASSUME IInv, NEW c \in Clients, ReadEnd(c)
  PROVE  IInv'
  <1> USE DEF ReadEnd
  <1>1. TypeOK'
    BY DEF IInv, TypeOK
  <1>2. \A d \in Clients : Queue(d)' = Queue(d)
    <2> SUFFICES ASSUME NEW d \in Clients
                 PROVE  Queue(d)' = Queue(d)
      OBVIOUS
    <2>1. done[d] \in Seq(WriteReq) /\ wq[d] \in Seq(WriteReq)
      BY DEF IInv, TypeOK
    <2>2. /\ done'[d] = IF d = c THEN done[d] \o wq[d] ELSE done[d]
          /\ wq'[d] = IF d = c THEN <<>> ELSE wq[d]
      BY DEF IInv, TypeOK
    <2>3. (done[d] \o wq[d]) \o <<>> = done[d] \o wq[d]
      OBVIOUS
    <2>4. QED
      BY <2>2, <2>3 DEF Queue
  <1>3. Buffer(c, 0) \notin heap
    BY BuffersDiffer, RequestType DEF IInv, HeapInv, RequestsInOrder
  <1>4. HeapInv' /\ RequestsInOrder'
    BY <1>2, <1>3, SameQueues DEF IInv
  <1>5. NoGap'
    BY DEF IInv, TypeOK, NoGap
  <1>6. ClientInv'
    BY DEF IInv, TypeOK, ClientInv
  <1>7. EchoIsPrefix'
    BY DEF IInv, EchoIsPrefix
  <1>8. QED
    BY <1>1, <1>4, <1>5, <1>6, <1>7 DEF IInv

\* What is said of the oldest write request that is not yet sent.
LEMMA HeadOfWq ==
  ASSUME IInv, NEW c \in Clients, wq[c] # <<>>
  PROVE  /\ Head(wq[c]) = wq[c][1] /\ Head(wq[c]) \in WriteReq
         /\ Len(wq[c]) \in Nat \ {0} /\ Len(Tail(wq[c])) = Len(wq[c]) - 1
         /\ \A i \in 1 .. Len(wq[c]) - 1 : Tail(wq[c])[i] = wq[c][i + 1]
         /\ Head(wq[c]).from \in Nat /\ Head(wq[c]).to \in Nat
         /\ Head(wq[c]).from < Head(wq[c]).to /\ Head(wq[c]).to <= rcvd[c]
         /\ client[c] = "reading"
  <1> DEFINE t == wq[c]
             s == done[c]
  <1>1. t \in Seq(WriteReq) /\ s \in Seq(WriteReq) /\ t # <<>> /\ client[c] = "reading"
    BY DEF IInv, TypeOK, ClientInv
  <1>2. Queue(c) = s \o t
    BY DEF Queue
  <1> HIDE DEF s, t
  <1>3. /\ Head(t) = t[1] /\ Head(t) \in WriteReq /\ Len(t) \in Nat \ {0}
        /\ Len(Tail(t)) = Len(t) - 1
        /\ \A i \in 1 .. Len(t) - 1 : Tail(t)[i] = t[i + 1]
    BY <1>1
  <1>4. /\ (s \o t)[Len(s) + 1] = Head(t) /\ Len(s) + 1 \in 1 .. Len(s \o t)
    BY <1>1
  <1>5. Head(t).from < Head(t).to /\ Head(t).to <= rcvd[c]
    BY <1>2, <1>4 DEF IInv, RequestsInOrder
  <1>6. Head(t).from \in Nat /\ Head(t).to \in Nat
    BY <1>3 DEF WriteReq
  <1>7. QED
    BY <1>1, <1>5, <1>6 DEF t

\* The oldest request that is not yet sent is done, whether it was sent or not.
LEMMA HeadIsDone ==
  ASSUME IInv, NEW c \in Clients, wq[c] # <<>>,
         wq' = [wq EXCEPT ![c] = Tail(@)],
         done' = [done EXCEPT ![c] = Append(@, Head(wq[c]))],
         UNCHANGED <<peer, sent, client, rcvd, heap>>, echoed' \in [Clients -> Seq(Nat)]
  PROVE  /\ TypeOK' /\ HeapInv' /\ RequestsInOrder'
         /\ \A d \in Clients : \A i \in 1 .. Len(wq'[d]) :
              wq'[d][i].to = IF i = Len(wq'[d]) THEN rcvd'[d] ELSE wq'[d][i + 1].from
  <1> DEFINE t == wq[c]
             s == done[c]
  <1>1. t \in Seq(WriteReq) /\ s \in Seq(WriteReq) /\ t # <<>>
    BY DEF IInv, TypeOK
  <1>2. /\ wq'[c] = Tail(t) /\ \A d \in Clients : d # c => wq'[d] = wq[d]
        /\ done'[c] = Append(s, Head(t)) /\ \A d \in Clients : d # c => done'[d] = done[d]
    BY DEF IInv, TypeOK
  <1>3. \A i \in 1 .. Len(t) : t[i].to = IF i = Len(t) THEN rcvd[c] ELSE t[i + 1].from
    BY DEF IInv, NoGap
  <1>4. Queue(c) = s \o t
    BY DEF Queue
  <1> HIDE DEF s, t
  <1>5. Tail(t) \in Seq(WriteReq) /\ Append(s, Head(t)) \in Seq(WriteReq)
    BY <1>1
  <1>6. TypeOK'
    BY <1>2, <1>5 DEF IInv, TypeOK
  <1>7. \A d \in Clients : Queue(d)' = Queue(d)
    <2>1. Append(s, Head(t)) \o Tail(t) = s \o t
      BY <1>1, MoveHead
    <2>2. Queue(c)' = done'[c] \o wq'[c]
      BY DEF Queue
    <2>3. Queue(c)' = Queue(c)
      BY <1>2, <1>4, <2>1, <2>2
    <2>4. QED
      BY <1>2, <2>3 DEF Queue
  <1>8. HeapInv' /\ RequestsInOrder'
    BY <1>7, SameQueues DEF IInv
  <1>9. ASSUME NEW d \in Clients, NEW i \in 1 .. Len(wq'[d])
        PROVE  wq'[d][i].to = IF i = Len(wq'[d]) THEN rcvd'[d] ELSE wq'[d][i + 1].from
    <2>1. CASE d # c
      BY DEF IInv, NoGap
    <2>2. CASE d = c
      <3>1. Len(t) \in Nat /\ Len(Tail(t)) = Len(t) - 1
        BY <1>1
      <3>2. i \in 1 .. Len(t) - 1 /\ i + 1 \in 1 .. Len(t)
        BY <1>2, <2>2, <3>1
      <3>3. \A k \in 1 .. Len(t) - 1 : Tail(t)[k] = t[k + 1]
        OBVIOUS
      <3>4. t[i + 1].to = IF i + 1 = Len(t) THEN rcvd[c] ELSE t[i + 2].from
        BY <1>3, <3>2
      <3>5. Tail(t)[i].to = IF i = Len(Tail(t)) THEN rcvd[c] ELSE Tail(t)[i + 1].from
        <4>1. CASE i + 1 = Len(t)
          BY <3>4, <4>1
        <4>2. CASE i + 1 # Len(t)
          <5>1. i + 1 \in 1 .. Len(t) - 1 /\ (i + 1) + 1 = i + 2
            BY <3>2, <4>2
          <5>2. Tail(t)[i] = t[i + 1] /\ Tail(t)[i + 1] = t[i + 2]
            BY <5>1
          <5>3. QED
            BY <3>2, <3>4
        <4>3. QED
          BY <4>1, <4>2
      <3>6. QED
        BY <1>2, <2>2, <3>5
    <2>3. QED
      BY <2>1, <2>2
  <1>10. QED
    BY <1>6, <1>8, <1>9

\* A write fails after a reset.
LEMMA WriteFailsInv ==
  ASSUME IInv, NEW c \in Clients, WriteFails(c)
  PROVE  IInv'
  <1> USE DEF WriteFails
  <1>1. /\ TypeOK' /\ HeapInv' /\ RequestsInOrder'
        /\ \A d \in Clients : \A i \in 1 .. Len(wq'[d]) :
             wq'[d][i].to = IF i = Len(wq'[d]) THEN rcvd'[d] ELSE wq'[d][i + 1].from
    BY HeadIsDone DEF IInv, TypeOK
  <1>2. \A d \in Clients : d # c => wq'[d] = wq[d] /\ done'[d] = done[d]
    OBVIOUS
  <1>3. NoGap'
    BY DEF IInv, NoGap
  <1>4. ClientInv'
    BY DEF IInv, ClientInv
  <1>5. EchoIsPrefix'
    BY DEF IInv, EchoIsPrefix
  <1>6. QED
    BY <1>1, <1>3, <1>4, <1>5 DEF IInv

\* Some bytes of the oldest write are sent: the last of them or not.
LEMMA WriteSomeInv ==
  ASSUME IInv, NEW c \in Clients, NEW n \in 1 .. MaxBytes[c], WriteSome(c, n)
  PROVE  IInv'
  <1> DEFINE r == Head(wq[c])
             new == [j \in 1 .. n |-> r.from + j]
             x == [r EXCEPT !.from = @ + n]
  <1>1. /\ wq[c] # <<>> /\ peer[c] # "reset" /\ r.from + n <= r.to
        /\ echoed' = [echoed EXCEPT ![c] = @ \o new]
        /\ UNCHANGED <<peer, sent, client, rcvd, heap>>
    BY DEF WriteSome
  <1>2. \/ /\ r.from + n < r.to /\ done' = done
           /\ wq' = [wq EXCEPT ![c] = <<x>> \o Tail(@)]
        \/ /\ ~(r.from + n < r.to) /\ done' = [done EXCEPT ![c] = Append(@, r)]
           /\ wq' = [wq EXCEPT ![c] = Tail(@)]
    BY DEF WriteSome
  <1>3. /\ n \in Nat \ {0} /\ r \in WriteReq /\ r = wq[c][1]
        /\ r.from \in Nat /\ r.to \in Nat /\ r.to <= rcvd[c] /\ rcvd[c] \in Nat
        /\ client[c] = "reading"
    BY <1>1, HeadOfWq DEF IInv, TypeOK
  <1>4. Len(echoed[c]) = r.from
    BY <1>1, <1>3 DEF IInv, NoGap
  <1>5. new \in Seq(Nat) /\ Len(new) = n /\ \A j \in 1 .. n : new[j] = r.from + j
    BY <1>3
  <1>6. x \in WriteReq /\ x.from = r.from + n /\ x.to = r.to /\ x.buf = r.buf
    BY <1>3 DEF WriteReq
  <1> HIDE DEF r, new, x
  <1>7. /\ echoed' \in [Clients -> Seq(Nat)] /\ Len(echoed'[c]) = r.from + n
        /\ \A j \in 1 .. r.from + n : echoed'[c][j] = j
        /\ \A d \in Clients : d # c => echoed'[d] = echoed[d]
    <2> DEFINE e == echoed[c]
    <2>1. e \in Seq(Nat) /\ Len(e) = r.from /\ \A j \in 1 .. Len(e) : e[j] = j
      BY <1>4 DEF IInv, TypeOK, EchoIsPrefix
    <2>2. echoed'[c] = e \o new /\ \A d \in Clients : d # c => echoed'[d] = echoed[d]
      BY <1>1 DEF IInv, TypeOK
    <2> HIDE DEF e
    <2>3. /\ e \o new \in Seq(Nat) /\ Len(e \o new) = r.from + n
          /\ \A j \in 1 .. r.from + n :
               (e \o new)[j] = IF j <= r.from THEN e[j] ELSE new[j - r.from]
      <3>1. /\ e \o new \in Seq(Nat) /\ Len(e \o new) = Len(e) + Len(new)
            /\ \A j \in 1 .. Len(e) + Len(new) :
                 (e \o new)[j] = IF j <= Len(e) THEN e[j] ELSE new[j - Len(e)]
        BY <1>5, <2>1, ConcatIs
      <3>2. QED
        BY <1>5, <2>1, <3>1
    <2>4. ASSUME NEW j \in 1 .. r.from + n
          PROVE  (e \o new)[j] = j
      <3>1. CASE j <= r.from
        BY <2>1, <3>1
      <3>2. CASE ~(j <= r.from)
        <4>1. j - r.from \in 1 .. n /\ r.from + (j - r.from) = j
          BY <1>3, <3>2
        <4>2. QED
          BY <1>5, <2>3, <3>2, <4>1
      <3>3. QED
        BY <3>1, <3>2
    <2>5. echoed' \in [Clients -> Seq(Nat)]
      BY <1>1, <2>3 DEF IInv, TypeOK
    <2>6. QED
      BY <2>2, <2>3, <2>4, <2>5
  <1>8. EchoIsPrefix'
    BY SMTT(30), <1>1, <1>3, <1>7 DEF IInv, EchoIsPrefix
  <1>9. CASE r.from + n < r.to
    <2> DEFINE t == wq[c]
               s == done[c]
               u == <<x>> \o Tail(t)
    <2>1. /\ done' = done /\ wq' = [wq EXCEPT ![c] = u]
      BY <1>2, <1>9
    <2>2. /\ t \in Seq(WriteReq) /\ s \in Seq(WriteReq) /\ t # <<>>
          /\ Len(t) \in Nat \ {0} /\ r = t[1]
      BY <1>1, <1>3 DEF IInv, TypeOK
    <2>3. Queue(c) = s \o t /\ Queue(c)' = done'[c] \o wq'[c]
      BY DEF Queue
    <2> HIDE DEF t, s
    <2>4. /\ u \in Seq(WriteReq) /\ Len(u) = Len(t) /\ u[1] = x
          /\ \A i \in 2 .. Len(t) : u[i] = t[i]
      BY <1>6, <2>2
    <2>5. /\ Len(s \o u) = Len(s \o t) /\ Len(s) \in Nat
          /\ \A i \in 1 .. Len(s \o t) :
               (s \o u)[i] = IF i = Len(s) + 1 THEN x ELSE (s \o t)[i]
      BY <2>2, ReplaceHead
    <2>6. (s \o t)[Len(s) + 1] = r /\ Len(s) + 1 \in 1 .. Len(s \o t)
      BY <2>2
    <2> HIDE DEF u
    <2>7. /\ wq'[c] = u /\ done'[c] = s
          /\ \A d \in Clients : d # c => wq'[d] = wq[d] /\ done'[d] = done[d]
      BY <2>1 DEF IInv, TypeOK, s
    <2>8. TypeOK'
      BY <1>1, <1>7, <2>1, <2>4 DEF IInv, TypeOK
    <2>9. /\ \A d \in Clients : d # c => Queue(d)' = Queue(d)
          /\ Len(Queue(c)') = Len(Queue(c))
          /\ \A i \in 1 .. Len(Queue(c)) :
               Queue(c)'[i] = IF i = Len(s) + 1 THEN x ELSE Queue(c)[i]
          /\ Queue(c)[Len(s) + 1] = r /\ Len(s) + 1 \in 1 .. Len(Queue(c))
      <3>1. Queue(c)' = s \o u
        BY <2>3, <2>7
      <3>2. QED
        BY <2>3, <2>5, <2>6, <2>7 DEF Queue
    <2>10. \A i \in 1 .. Len(Queue(c)) :
             /\ Queue(c)'[i].to = Queue(c)[i].to /\ Queue(c)'[i].buf = Queue(c)[i].buf
             /\ Queue(c)'[i].from >= Queue(c)[i].from /\ Queue(c)'[i].from < Queue(c)'[i].to
      <3>1. \A i \in 1 .. Len(Queue(c)) : Queue(c)[i].from < Queue(c)[i].to
        BY DEF IInv, RequestsInOrder
      <3>2. \A i \in 1 .. Len(Queue(c)) : Queue(c)[i].from \in Nat
        BY RequestType DEF IInv
      <3>3. QED
        BY <1>6, <1>9, <2>9, <3>1, <3>2
    <2>11. HeapInv'
      <3> SUFFICES ASSUME NEW b
                   PROVE  b \in heap' <=>
                            \E d \in Clients : \E i \in 1 .. Len(Queue(d)') :
                              b = Buffer(d, Queue(d)'[i].to)
        BY DEF HeapInv
      <3>1. b \in heap' <=>
              \E d \in Clients : \E i \in 1 .. Len(Queue(d)) : b = Buffer(d, Queue(d)[i].to)
        BY <1>1 DEF IInv, HeapInv
      <3>2. \A d \in Clients :
              (\E i \in 1 .. Len(Queue(d)') : b = Buffer(d, Queue(d)'[i].to))
                <=> \E i \in 1 .. Len(Queue(d)) : b = Buffer(d, Queue(d)[i].to)
        BY <2>9, <2>10
      <3>3. QED
        BY <3>1, <3>2
    <2>12. RequestsInOrder'
      <3>1. ASSUME NEW i \in 1 .. Len(Queue(c)), NEW j \in 1 .. Len(Queue(c)), i < j
            PROVE  Queue(c)'[i].to <= Queue(c)'[j].from
        <4>1. Queue(c)[i].to <= Queue(c)[j].from
          BY <3>1 DEF IInv, RequestsInOrder
        <4>2. Queue(c)[i].to \in Nat /\ Queue(c)[j].from \in Nat
          BY RequestType DEF IInv
        <4>3. Queue(c)'[j].from \in Nat
          BY SMTT(30), <1>3, <1>6, <2>9, <4>2
        <4>4. QED
          BY <2>10, <4>1, <4>2, <4>3
      <3>2. QED
        BY SMTT(30), <1>1, <2>9, <2>10, <3>1 DEF IInv, RequestsInOrder
    <2>13. NoGap'
      <3>1. \A i \in 1 .. Len(t) : t[i].to = IF i = Len(t) THEN rcvd[c] ELSE t[i + 1].from
        BY DEF IInv, NoGap, t
      <3>2. \A i \in 1 .. Len(u) : u[i].to = IF i = Len(u) THEN rcvd[c] ELSE u[i + 1].from
        BY SMTT(30), <1>6, <2>2, <2>4, <3>1
      <3>3. u # <<>> /\ Len(echoed'[c]) = u[1].from
        BY <1>6, <1>7, <2>2, <2>4
      <3>4. ASSUME NEW d \in Clients, d # c
            PROVE  UNCHANGED <<wq[d], rcvd[d], client[d], peer[d], echoed[d]>>
        BY <1>1, <2>7, <3>4
      <3>5. rcvd'[c] = rcvd[c] /\ wq'[c] = u
        BY <1>1, <2>7
      <3>6. QED
        BY SMTT(30), <3>2, <3>3, <3>4, <3>5 DEF IInv, NoGap
    <2>14. ClientInv'
      BY <1>1, <2>7 DEF IInv, ClientInv
    <2>15. QED
      BY <1>8, <2>8, <2>11, <2>12, <2>13, <2>14 DEF IInv
  <1>10. CASE ~(r.from + n < r.to)
    <2>1. /\ TypeOK' /\ HeapInv' /\ RequestsInOrder'
          /\ \A d \in Clients : \A i \in 1 .. Len(wq'[d]) :
               wq'[d][i].to = IF i = Len(wq'[d]) THEN rcvd'[d] ELSE wq'[d][i + 1].from
      BY <1>1, <1>2, <1>7, <1>10, HeadIsDone DEF r
    <2>2. /\ wq'[c] = Tail(wq[c])
          /\ \A d \in Clients : d # c => wq'[d] = wq[d] /\ done'[d] = done[d]
      BY <1>2, <1>10 DEF IInv, TypeOK
    <2>3. Len(echoed'[c]) = r.to
      <3>1. r.from + n = r.to
        BY SMTT(30), <1>1, <1>3, <1>10
      <3>2. QED
        BY <1>7, <3>1
    <2>4. r.to = IF wq'[c] = <<>> THEN rcvd[c] ELSE wq'[c][1].from
      <3> DEFINE t == wq[c]
      <3>1. t \in Seq(WriteReq) /\ t # <<>> /\ r = t[1]
        BY <1>1, <1>3 DEF IInv, TypeOK
      <3>2. \A i \in 1 .. Len(t) : t[i].to = IF i = Len(t) THEN rcvd[c] ELSE t[i + 1].from
        BY DEF IInv, NoGap
      <3> HIDE DEF t
      <3>3. /\ Len(t) \in Nat \ {0} /\ Tail(t) \in Seq(WriteReq) /\ Len(Tail(t)) = Len(t) - 1
            /\ \A i \in 1 .. Len(t) - 1 : Tail(t)[i] = t[i + 1]
        BY <3>1
      <3>4. Tail(t) = <<>> <=> Len(t) = 1
        <4>1. Tail(t) = <<>> <=> Len(Tail(t)) = 0
          BY <3>3, EmptyIs
        <4>2. QED
          BY <3>3, <4>1
      <3>5. Len(t) # 1 => Tail(t)[1] = t[2]
        BY <3>3
      <3>6. t[1].to = IF Tail(t) = <<>> THEN rcvd[c] ELSE Tail(t)[1].from
        <4>1. 1 \in 1 .. Len(t) /\ 1 + 1 = 2
          BY <3>3
        <4>2. t[1].to = IF 1 = Len(t) THEN rcvd[c] ELSE t[2].from
          BY <3>2, <4>1
        <4>3. QED
          BY <3>4, <4>2
      <3>7. QED
        BY <2>2, <3>1, <3>6 DEF t
    <2>5. NoGap'
      <3>1. ASSUME NEW d \in Clients, d # c
            PROVE  UNCHANGED <<wq[d], rcvd[d], client[d], peer[d], echoed[d]>>
        BY <1>1, <2>2, <3>1
      <3>2. rcvd'[c] = rcvd[c]
        BY <1>1
      <3>3. QED
        BY <2>1, <2>3, <2>4, <3>1, <3>2 DEF IInv, NoGap
    <2>6. ClientInv'
      BY <1>1, <2>2 DEF IInv, ClientInv
    <2>7. QED
      BY <1>8, <2>1, <2>5, <2>6 DEF IInv
  <1>11. QED
    BY <1>9, <1>10

\* The callback of a write frees its buffer.
LEMMA echo_writeInv ==
  ASSUME IInv, NEW c \in Clients, echo_write(c)
  PROVE  IInv'
  <1> DEFINE t == wq[c]
             s == done[c]
  <1>1. /\ s \in Seq(WriteReq) /\ t \in Seq(WriteReq) /\ s # <<>>
        /\ done' = [done EXCEPT ![c] = Tail(s)] /\ heap' = heap \ {Head(s).buf}
        /\ UNCHANGED <<peer, sent, client, rcvd, wq, echoed>>
    BY DEF IInv, TypeOK, echo_write
  <1>2. Queue(c) = s \o t /\ Queue(c)' = done'[c] \o wq'[c]
    BY DEF Queue
  <1>3. done'[c] = Tail(s) /\ wq'[c] = t
    BY <1>1 DEF IInv, TypeOK
  <1> HIDE DEF s, t
  <1>4. TypeOK'
    <2>1. Tail(s) \in Seq(WriteReq)
      BY <1>1
    <2>2. QED
      BY <1>1 DEF IInv, TypeOK
  <1>5. /\ \A d \in Clients : d # c => Queue(d)' = Queue(d)
        /\ Len(Queue(c)) \in Nat \ {0} /\ Len(Queue(c)') = Len(Queue(c)) - 1
        /\ \A i \in 1 .. Len(Queue(c)') : Queue(c)'[i] = Queue(c)[i + 1]
        /\ Head(s) = Queue(c)[1]
    <2> DEFINE q == s \o t
    <2>1. q \in Seq(WriteReq) /\ q # <<>> /\ Head(s) = q[1]
      BY <1>1
    <2>2. Queue(c)' = Tail(q) /\ Queue(c) = q
      BY <1>1, <1>2, <1>3, TailOfConcat
    <2> HIDE DEF q
    <2>3. /\ Len(q) \in Nat \ {0} /\ Len(Tail(q)) = Len(q) - 1
          /\ \A i \in 1 .. Len(Tail(q)) : Tail(q)[i] = q[i + 1]
      BY <2>1
    <2>4. \A d \in Clients : d # c => Queue(d)' = Queue(d)
      BY <1>1 DEF IInv, TypeOK, Queue
    <2>5. QED
      BY <2>1, <2>2, <2>4
  <1>6. \A i \in 1 .. Len(Queue(c)) :
          Queue(c)[i].buf = Buffer(c, Queue(c)[i].to)
            /\ (i # 1 => Queue(c)[i].to # Queue(c)[1].to)
    <2>1. \A i \in 1 .. Len(Queue(c)) : Queue(c)[i].buf = Buffer(c, Queue(c)[i].to)
      BY DEF IInv, RequestsInOrder
    <2>2. ASSUME NEW i \in 1 .. Len(Queue(c)), i # 1
          PROVE  Queue(c)[i].to # Queue(c)[1].to
      <3>1. 1 \in 1 .. Len(Queue(c)) /\ 1 < i
        BY <2>2
      <3>2. Queue(c)[1].to <= Queue(c)[i].from /\ Queue(c)[i].from < Queue(c)[i].to
        BY <3>1 DEF IInv, RequestsInOrder
      <3>3. Queue(c)[1].to \in Nat /\ Queue(c)[i].from \in Nat /\ Queue(c)[i].to \in Nat
        BY RequestType DEF IInv
      <3>4. QED
        BY <3>2, <3>3
    <2>3. QED
      BY <2>1, <2>2
  <1>7. HeapInv'
    <2> SUFFICES ASSUME NEW b
                 PROVE  b \in heap' <=>
                          \E d \in Clients : \E i \in 1 .. Len(Queue(d)') :
                            b = Buffer(d, Queue(d)'[i].to)
      BY DEF HeapInv
    <2>1. b \in heap <=>
            \E d \in Clients : \E i \in 1 .. Len(Queue(d)) : b = Buffer(d, Queue(d)[i].to)
      BY DEF IInv, HeapInv
    <2>2. b \in heap' <=> b \in heap /\ b # Buffer(c, Queue(c)[1].to)
      BY <1>1, <1>5, <1>6
    <2>3. (\E i \in 1 .. Len(Queue(c)') : b = Buffer(c, Queue(c)'[i].to))
            <=> /\ \E i \in 1 .. Len(Queue(c)) : b = Buffer(c, Queue(c)[i].to)
                /\ b # Buffer(c, Queue(c)[1].to)
      <3>1. ASSUME NEW i \in 1 .. Len(Queue(c)'), b = Buffer(c, Queue(c)'[i].to)
            PROVE  /\ \E j \in 1 .. Len(Queue(c)) : b = Buffer(c, Queue(c)[j].to)
                   /\ b # Buffer(c, Queue(c)[1].to)
        <4>1. i + 1 \in 1 .. Len(Queue(c)) /\ i + 1 # 1
          BY <1>5
        <4>2. QED
          BY <1>5, <1>6, <3>1, BuffersDiffer
      <3>2. ASSUME NEW j \in 1 .. Len(Queue(c)), b = Buffer(c, Queue(c)[j].to),
                   b # Buffer(c, Queue(c)[1].to)
            PROVE  \E i \in 1 .. Len(Queue(c)') : b = Buffer(c, Queue(c)'[i].to)
        <4>1. j - 1 \in 1 .. Len(Queue(c)') /\ (j - 1) + 1 = j
          BY <1>5, <3>2
        <4>2. QED
          BY <1>5, <3>2, <4>1
      <3>3. QED
        BY <3>1, <3>2
    <2>4. \A d \in Clients : d # c => \A m : Buffer(d, m) # Buffer(c, Queue(c)[1].to)
      BY BuffersDiffer
    <2>5. QED
      BY SMTT(30), <1>5, <2>1, <2>2, <2>3, <2>4
  <1>8. RequestsInOrder'
    <2>1. \A i \in 1 .. Len(Queue(c)') : i \in 1 .. Len(Queue(c)) /\ i + 1 \in 1 .. Len(Queue(c))
      BY <1>5
    <2>2. ASSUME NEW i \in 1 .. Len(Queue(c)'), NEW j \in 1 .. Len(Queue(c)'), i < j
          PROVE  Queue(c)'[i].to <= Queue(c)'[j].from
      <3>1. i + 1 < j + 1
        BY <2>2
      <3>2. QED
        BY <1>5, <2>1, <3>1 DEF IInv, RequestsInOrder
    <2>3. \A i \in 1 .. Len(Queue(c)') :
            /\ Queue(c)'[i].from < Queue(c)'[i].to /\ Queue(c)'[i].to <= rcvd[c]
            /\ Queue(c)'[i].buf = Buffer(c, Queue(c)'[i].to)
      BY SMTT(30), <1>5 DEF IInv, RequestsInOrder
    <2>4. ASSUME NEW d \in Clients, d # c
          PROVE  UNCHANGED <<Queue(d), rcvd[d]>>
      BY <1>1, <1>5, <2>4
    <2>5. rcvd'[c] = rcvd[c]
      BY <1>1
    <2>6. QED
      BY <2>2, <2>3, <2>4, <2>5 DEF IInv, RequestsInOrder
  <1>9. NoGap' /\ EchoIsPrefix'
    BY <1>1 DEF IInv, NoGap, EchoIsPrefix
  <1>10. ClientInv'
    BY <1>1 DEF IInv, ClientInv, s
  <1>11. QED
    BY <1>4, <1>7, <1>8, <1>9, <1>10 DEF IInv

\* Every step keeps the invariant.
LEMMA NextIInv == IInv /\ [Next]_vars => IInv'
  <1> SUFFICES ASSUME IInv, [Next]_vars
               PROVE  IInv'
    OBVIOUS
  <1>1. CASE UNCHANGED vars
    BY <1>1, StutterInv
  <1>2. ASSUME NEW c \in Clients, PeerStep(c) \/ Connect(c) \/ ReadNothing(c)
        PROVE  IInv'
    BY <1>2, SendInv, HangupInv, ResetInv, AcceptInv, AcceptFailsInv,
       ReadNothingInv DEF PeerStep, Connect
  <1>3. ASSUME NEW c \in Clients, Serve(c)
        PROVE  IInv'
    BY <1>3, ReadDataInv, ReadEndInv, WriteSomeInv, WriteFailsInv,
       echo_writeInv, on_closeInv DEF Serve
  <1>4. QED
    BY <1>1, <1>2, <1>3 DEF Next

\* It holds in every state the servers reach.
LEMMA AlwaysIInv == Spec => []IInv
  BY InitIInv, NextIInv, PTL DEF Spec

\* The buffers of the queues are the heap, and different requests have
\* different ones.
LEMMA IInvOwned == IInv => HeapIsOwned
  <1> SUFFICES ASSUME IInv
               PROVE  HeapIsOwned
    OBVIOUS
  <1>1. \A c \in Clients : Requests(c) = {Queue(c)[i] : i \in 1 .. Len(Queue(c))}
    <2>1. \A c \in Clients : DOMAIN Queue(c) = 1 .. Len(Queue(c))
      OBVIOUS
    <2>2. QED
      BY DEF Requests, ToSet
  <1>2. \A c \in Clients : \A i \in 1 .. Len(Queue(c)) :
          Queue(c)[i].buf = Buffer(c, Queue(c)[i].to)
    BY DEF IInv, RequestsInOrder
  <1>3. heap = {r.buf : r \in UNION {Requests(c) : c \in Clients}}
    <2>1. ASSUME NEW b
          PROVE  b \in heap <=> \E c \in Clients : \E i \in 1 .. Len(Queue(c)) : b = Queue(c)[i].buf
      BY <1>2 DEF IInv, HeapInv
    <2>2. ASSUME NEW b
          PROVE  b \in {r.buf : r \in UNION {Requests(c) : c \in Clients}}
                   <=> \E c \in Clients : \E i \in 1 .. Len(Queue(c)) : b = Queue(c)[i].buf
      BY <1>1
    <2>3. QED
      BY <2>1, <2>2
  <1>4. ASSUME NEW c \in Clients, NEW i \in 1 .. Len(Queue(c)), NEW j \in 1 .. Len(Queue(c)), i < j
        PROVE  Queue(c)[i].buf # Queue(c)[j].buf
    <2>1. Queue(c)[i].to <= Queue(c)[j].from /\ Queue(c)[j].from < Queue(c)[j].to
      BY <1>4 DEF IInv, RequestsInOrder
    <2>2. Queue(c)[i].to # Queue(c)[j].to
      BY <2>1, RequestType DEF IInv
    <2>3. QED
      BY <1>2, <2>2, BuffersDiffer
  <1>5. ASSUME NEW c \in Clients, NEW i \in 1 .. Len(Queue(c)), NEW j \in 1 .. Len(Queue(c)),
               Queue(c)[i].buf = Queue(c)[j].buf
        PROVE  i = j
    <2>1. ~(i < j) /\ ~(j < i)
      BY <1>4, <1>5
    <2>2. QED
      BY <2>1
  <1>6. QED
    BY <1>3, <1>5 DEF HeapIsOwned, IsInjective

\* What is closed has no request left, and so no buffer.
LEMMA IInvClosed == IInv => NothingAfterClose
  <1> SUFFICES ASSUME IInv, NEW c \in Clients, client[c] \in {"closed", "freed"}
               PROVE  Requests(c) = {} /\ \A b \in heap : b.client # c
    BY DEF NothingAfterClose
  <1>1. Queue(c) = <<>>
    BY DEF IInv, ClientInv, Queue
  <1>2. Requests(c) = {}
    BY <1>1 DEF Requests, ToSet
  <1>3. ASSUME NEW b \in heap
        PROVE  b.client # c
    <2>1. PICK d \in Clients : \E i \in 1 .. Len(Queue(d)) : b = Buffer(d, Queue(d)[i].to)
      BY DEF IInv, HeapInv
    <2>2. d # c /\ b.client = d
      BY <1>1, <2>1 DEF Buffer
    <2>3. QED
      BY <2>2
  <1>4. QED
    BY <1>2, <1>3

\* The memory of both servers is right, for any clients that come, write, hang
\* up or reset at any time: each buffer of alloc_buffer has one owner, which
\* frees it (echo_read and echo_write); requests are sent in the order they
\* were made; nothing of a client is left when its close callback has run.
THEOREM MemoryCorrect == Spec => []MemoryInv
  <1>1. IInv => MemoryInv
    BY IInvOwned, IInvClosed DEF IInv, MemoryInv
  <1>2. QED
    BY <1>1, AlwaysIInv, PTL

\* The echo is what the peer sent, in order and without a gap, however the
\* reads are cut, the writes completed and the callbacks delayed.
THEOREM EchoCorrect == Spec => []EchoIsPrefix
  <1>1. IInv => EchoIsPrefix
    BY DEF IInv
  <1>2. QED
    BY <1>1, AlwaysIInv, PTL

=============================================================================
