--------------------------- MODULE MultiEchoProofs ---------------------------
(***************************************************************************)
(* Proofs about MultiEcho, for any connections, any number of workers and  *)
(* any batches of handles.                                                 *)
(***************************************************************************)
EXTENDS MultiEcho, FiniteSetTheorems, TLAPS

-----------------------------------------------------------------------------
(* Sequences and turns.                                                    *)

\* What a concatenation consists of.
LEMMA ConcatIs ==
  ASSUME NEW S, NEW s \in Seq(S), NEW t \in Seq(S)
  PROVE  /\ s \o t \in Seq(S) /\ Len(s \o t) = Len(s) + Len(t)
         /\ \A i \in 1 .. Len(s) + Len(t) :
              (s \o t)[i] = IF i <= Len(s) THEN s[i] ELSE t[i - Len(s)]
  OBVIOUS

\* What the head and the tail of a sequence are.
LEMMA TailIs ==
  ASSUME NEW S, NEW s \in Seq(S), s # <<>>
  PROVE  /\ Head(s) = s[1] /\ Len(s) \in Nat \ {0}
         /\ Tail(s) \in Seq(S) /\ Len(Tail(s)) = Len(s) - 1
         /\ \A i \in 1 .. Len(s) - 1 : Tail(s)[i] = s[i + 1]
  OBVIOUS

\* The first n elements of a sequence.
LEMMA FirstIs ==
  ASSUME NEW S, NEW s \in Seq(S), NEW n \in Nat, n <= Len(s)
  PROVE  /\ SubSeq(s, 1, n) \in Seq(S) /\ Len(SubSeq(s, 1, n)) = n
         /\ \A i \in 1 .. n : SubSeq(s, 1, n)[i] = s[i]
  OBVIOUS

\* A sequence without its first n elements.
LEMMA RestIs ==
  ASSUME NEW S, NEW s \in Seq(S), NEW n \in Nat, n <= Len(s)
  PROVE  /\ SubSeq(s, n + 1, Len(s)) \in Seq(S)
         /\ Len(SubSeq(s, n + 1, Len(s))) = Len(s) - n
         /\ \A i \in 1 .. Len(s) - n : SubSeq(s, n + 1, Len(s))[i] = s[n + i]
  OBVIOUS

\* The turn goes round.
LEMMA NextTurn ==
  ASSUME NEW n \in Nat \ {0}, NEW w \in 0 .. n - 1
  PROVE  (w + 1) % n = IF w + 1 = n THEN 0 ELSE w + 1
  OBVIOUS

-----------------------------------------------------------------------------

\* OneOwner by the places in the line of a worker.
Places ==
  \A w \in Workers :
    /\ \A i \in 1 .. Len(Line(w)) : to[Line(w)[i]] = w /\ Line(w)[i] \notin reading[w]
    /\ \A c \in reading[w] : to[c] = w
    /\ \A i, j \in 1 .. Len(Line(w)) : Line(w)[i] = Line(w)[j] => i = j

\* What is shown to be inductive; HandOverInv follows from it.
IInv == TypeOK /\ Places /\ BacklogIsNew /\ RoundRobin /\ TakenUp

\* The line of a worker consists of connections.
LEMMA LineType ==
  ASSUME TypeOK, NEW w \in Workers
  PROVE  /\ Line(w) \in Seq(Conns) /\ Len(Line(w)) \in Nat
         /\ \A i \in 1 .. Len(Line(w)) : Line(w)[i] \in Conns
  <1>1. pending[w] \in Seq(Conns) /\ pipe[w] \in Seq(Conns)
    BY DEF TypeOK
  <1>2. Line(w) \in Seq(Conns)
    BY <1>1 DEF Line
  <1>3. QED
    BY <1>2

\* No worker is nobody.
LEMMA SomeWorker == Nobody \notin Workers /\ 0 \in Workers /\ CpuCount - 1 \in Workers
  BY MultiAssumption DEF Workers

\* The initial states satisfy the inductive invariant.
LEMMA InitIInv == Init => IInv
  <1> SUFFICES ASSUME Init
               PROVE  IInv
    OBVIOUS
  <1> USE DEF Init
  <1>1. TypeOK
    BY SomeWorker DEF TypeOK
  <1>2. \A w \in Workers : Line(w) = <<>>
    BY DEF Line
  <1>3. Places /\ BacklogIsNew
    BY <1>2 DEF Places, BacklogIsNew
  <1>4. \A w \in Workers : Given(w) = {}
    BY SomeWorker DEF Given
  <1>5. RoundRobin
    <2>1. IsFiniteSet({}) /\ Cardinality({}) = 0
      BY FS_EmptySet
    <2>2. round_robin_counter = 0 /\ \A w \in Workers : ~(w < 0)
      BY DEF Workers
    <2>3. QED
      BY <1>4, <2>1, <2>2, SomeWorker DEF RoundRobin
  <1>6. TakenUp
    <2>1. IsFiniteSet({}) /\ Cardinality({}) = 0 /\ MaxBatch \in Nat \ {0}
      BY FS_EmptySet, MultiAssumption
    <2>2. \A w \in Workers : Len(pending[w]) = 0 /\ Len(pipe[w]) = 0
      OBVIOUS
    <2>3. 0 * MaxBatch <= (MaxBatch - 1) * (0 - 0)
      BY <2>1
    <2>4. QED
      BY <1>4, <2>1, <2>2, <2>3 DEF TakenUp
  <1>7. QED
    BY <1>1, <1>3, <1>5, <1>6 DEF IInv

\* Who was handed what depends on to and on the counter alone.
LEMMA SameHands ==
  ASSUME RoundRobin, UNCHANGED <<to, round_robin_counter>>
  PROVE  RoundRobin'
  <1>1. \A w : Given(w)' = Given(w)
    BY DEF Given
  <1>2. QED
    BY <1>1 DEF RoundRobin

\* The places depend on to and on what the workers and the pipes hold.
LEMMA SamePlaces ==
  ASSUME Places, UNCHANGED <<to, pending, pipe, reading>>
  PROVE  Places'
  <1>1. \A w : Line(w)' = Line(w)
    BY DEF Line
  <1>2. QED
    BY <1>1 DEF Places

\* What was taken up depends on to and on the lines.
LEMMA SameTaken ==
  ASSUME TakenUp, UNCHANGED <<to, pending, pipe>>
  PROVE  TakenUp'
  <1>1. \A w : Given(w)' = Given(w)
    BY DEF Given
  <1>2. QED
    BY <1>1 DEF TakenUp

\* A worker that loses its line has taken up enough.
LEMMA EmptyTaken ==
  ASSUME IInv, NEW w \in Workers, to' = to,
         pending'[w] = <<>>, pipe'[w] = <<>>,
         \A v \in Workers : v # w => pending'[v] = pending[v] /\ pipe'[v] = pipe[v]
  PROVE  TakenUp'
  <1>1. \A v : Given(v)' = Given(v)
    BY DEF Given
  <1>2. Cardinality(Given(w)) \in Nat
    BY FS_CardinalityType DEF IInv, RoundRobin
  <1>3. MaxBatch \in Nat \ {0} /\ Len(pending'[w]) = 0 /\ Len(pipe'[w]) = 0
    BY MultiAssumption
  <1>4. 0 * MaxBatch <= (MaxBatch - 1) * (Cardinality(Given(w)) - 0)
    <2>1. ASSUME NEW m \in Nat, NEW k \in Nat PROVE m * k \in Nat
      OBVIOUS
    <2>2. MaxBatch - 1 \in Nat /\ 0 * MaxBatch = 0
      BY <1>3
    <2>3. (MaxBatch - 1) * Cardinality(Given(w)) \in Nat
      BY <1>2, <2>1, <2>2
    <2>4. QED
      BY <1>2, <2>2, <2>3
  <1>5. ASSUME NEW v \in Workers
        PROVE  Len(pending'[v]) * MaxBatch
                 <= (MaxBatch - 1) * (Cardinality(Given(v)') - Len(pipe'[v]))
    <2>1. CASE v = w
      BY <1>1, <1>3, <1>4, <2>1
    <2>2. CASE v # w
      BY <1>1, <2>2 DEF IInv, TakenUp
    <2>3. QED
      BY <2>1, <2>2
  <1>6. QED
    BY <1>5 DEF TakenUp

\* Of a batch of n handles one is accepted: m handles to a read, p of them waiting
\* of the r received.
LEMMA Batch ==
  ASSUME NEW m \in Nat \ {0}, NEW n \in 1 .. m, NEW p \in Int, NEW r \in Int,
         p * m <= (m - 1) * r
  PROVE  (p + n - 1) * m <= (m - 1) * (r + n)
  <1>1. (p + n - 1) * m = p * m + (n * m - m)
    OBVIOUS
  <1>2. (m - 1) * (r + n) = (m - 1) * r + (n * m - n)
    OBVIOUS
  <1>3. QED
    <2> DEFINE a == p * m
               b == (m - 1) * r
               c == n * m
    <2>1. a \in Int /\ b \in Int /\ c \in Int
      OBVIOUS
    <2>2. a <= b
      OBVIOUS
    <2> HIDE DEF a, b, c
    <2>3. a + (c - m) <= b + (c - n)
      BY <2>1, <2>2
    <2>4. QED
      BY <1>1, <1>2, <2>3 DEF a, b, c

\* Receiving more leaves a share that is taken up taken up.
LEMMA MoreTaken ==
  ASSUME NEW m \in Nat \ {0}, NEW p \in Int, NEW q \in Int, NEW r \in Int, NEW s \in Int,
         p * m <= (m - 1) * r, q <= p, r <= s
  PROVE  q * m <= (m - 1) * s
  <1>1. q * m <= p * m
    OBVIOUS
  <1>2. (m - 1) * r <= (m - 1) * s
    OBVIOUS
  <1>3. q * m \in Int /\ p * m \in Int /\ (m - 1) * r \in Int /\ (m - 1) * s \in Int
    OBVIOUS
  <1>4. QED
    BY <1>1, <1>2, <1>3

\* A peer connects.
LEMMA ConnectInv ==
  ASSUME IInv, NEW c \in Conns, Connect(c)
  PROVE  IInv'
  <1> USE DEF Connect, Waits, masterVars, workerVars
  <1>1. TypeOK'
    BY DEF IInv, TypeOK
  <1>2. Places'
    BY SamePlaces DEF IInv
  <1>3. BacklogIsNew'
    BY DEF IInv, TypeOK, BacklogIsNew
  <1>4. RoundRobin' /\ TakenUp'
    BY SameHands, SameTaken DEF IInv
  <1>5. QED
    BY <1>1, <1>2, <1>3, <1>4 DEF IInv

\* A peer hangs up.
LEMMA HangupInv ==
  ASSUME IInv, NEW c \in Conns, Hangup(c)
  PROVE  IInv'
  <1> USE DEF Hangup, Waits, masterVars, workerVars
  <1>1. TypeOK'
    BY DEF IInv, TypeOK
  <1>2. Places'
    BY SamePlaces DEF IInv
  <1>3. BacklogIsNew'
    BY DEF IInv, TypeOK, BacklogIsNew
  <1>4. RoundRobin' /\ TakenUp'
    BY SameHands, SameTaken DEF IInv
  <1>5. QED
    BY <1>1, <1>2, <1>3, <1>4 DEF IInv

\* A worker is started, or not.
LEMMA SpawnInv ==
  ASSUME IInv, NEW w \in Workers, Spawn(w)
  PROVE  IInv'
  <1> USE DEF Spawn, Waits, masterVars, workerVars
  <1>1. TypeOK'
    BY DEF IInv, TypeOK
  <1>2. Places'
    BY SamePlaces DEF IInv
  <1>3. BacklogIsNew'
    BY DEF IInv, TypeOK, BacklogIsNew
  <1>4. RoundRobin' /\ TakenUp'
    BY SameHands, SameTaken DEF IInv
  <1>5. QED
    BY <1>1, <1>2, <1>3, <1>4 DEF IInv

\* The server is told of an error.
LEMMA RefusedInv ==
  ASSUME IInv, NEW c \in Conns, Refused(c)
  PROVE  IInv'
  <1> USE DEF Refused, Waits, masterVars, workerVars
  <1>1. TypeOK'
    BY DEF IInv, TypeOK
  <1>2. Places'
    BY SamePlaces DEF IInv
  <1>3. BacklogIsNew'
    BY DEF IInv, TypeOK, BacklogIsNew
  <1>4. RoundRobin' /\ TakenUp'
    BY SameHands, SameTaken DEF IInv
  <1>5. QED
    BY <1>1, <1>2, <1>3, <1>4 DEF IInv

\* A connection could not be accepted.
LEMMA AcceptFailsInv ==
  ASSUME IInv, NEW c \in Conns, AcceptFails(c)
  PROVE  IInv'
  <1> USE DEF AcceptFails, Waits, masterVars, workerVars
  <1>1. TypeOK'
    BY DEF IInv, TypeOK
  <1>2. Places'
    BY SamePlaces DEF IInv
  <1>3. BacklogIsNew'
    BY DEF IInv, TypeOK, BacklogIsNew
  <1>4. RoundRobin' /\ TakenUp'
    BY SameHands, SameTaken DEF IInv
  <1>5. QED
    BY <1>1, <1>2, <1>3, <1>4 DEF IInv

\* The handle of a failed accept is closed.
LEMMA CloseClientInv ==
  ASSUME IInv, NEW c \in Conns, CloseClient(c)
  PROVE  IInv'
  <1> USE DEF CloseClient, Waits, masterVars, workerVars
  <1>1. TypeOK'
    BY DEF IInv, TypeOK
  <1>2. Places'
    BY SamePlaces DEF IInv
  <1>3. BacklogIsNew'
    BY DEF IInv, TypeOK, BacklogIsNew
  <1>4. RoundRobin' /\ TakenUp'
    BY SameHands, SameTaken DEF IInv
  <1>5. QED
    BY <1>1, <1>2, <1>3, <1>4 DEF IInv

\* The end of a worker is reported.
LEMMA close_process_handleInv ==
  ASSUME IInv, NEW w \in Workers, close_process_handle(w)
  PROVE  IInv'
  <1> USE DEF close_process_handle, Waits, masterVars, workerVars
  <1>1. TypeOK'
    BY DEF IInv, TypeOK
  <1>2. Places'
    BY SamePlaces DEF IInv
  <1>3. BacklogIsNew'
    BY DEF IInv, TypeOK, BacklogIsNew
  <1>4. RoundRobin' /\ TakenUp'
    BY SameHands, SameTaken DEF IInv
  <1>5. QED
    BY <1>1, <1>2, <1>3, <1>4 DEF IInv

\* The master ends.
LEMMA MasterDiesInv ==
  ASSUME IInv, MasterDies
  PROVE  IInv'
  <1> USE DEF MasterDies, Waits, masterVars, workerVars
  <1>1. TypeOK'
    BY DEF IInv, TypeOK
  <1>2. Places'
    BY SamePlaces DEF IInv
  <1>3. BacklogIsNew'
    BY DEF IInv, TypeOK, BacklogIsNew
  <1>4. RoundRobin' /\ TakenUp'
    BY SameHands, SameTaken DEF IInv
  <1>5. QED
    BY <1>1, <1>2, <1>3, <1>4 DEF IInv

\* The handle is written to the worker whose turn it is.
LEMMA HandOverKeepsInv ==
  ASSUME IInv, NEW c \in Conns, HandOver(c)
  PROVE  IInv'
  <1>0. PICK v \in Workers : v = round_robin_counter
    BY DEF IInv, TypeOK
  <1>1. /\ client' = [client EXCEPT ![c] = "open"] /\ to' = [to EXCEPT ![c] = v]
        /\ round_robin_counter' = (v + 1) % CpuCount
        /\ pipe' = IF worker[v] = "running" /\ queue[v] = "open"
                     THEN [pipe EXCEPT ![v] = Append(@, c)] ELSE pipe
        /\ UNCHANGED <<master, worker, queue, pending, reading, peer>>
    BY <1>0 DEF HandOver, workerVars
  <1>2. v \in Workers /\ v \in 0 .. CpuCount - 1 /\ CpuCount \in Nat \ {0}
    BY MultiAssumption DEF Workers
  <1>3. to[c] = Nobody
    BY DEF IInv, BacklogIsNew, HandOver, Waits
  <1>4. /\ round_robin_counter' = IF v + 1 = CpuCount THEN 0 ELSE v + 1
        /\ round_robin_counter' \in Workers
    <2>1. (v + 1) % CpuCount = IF v + 1 = CpuCount THEN 0 ELSE v + 1
      BY <1>2, NextTurn
    <2>2. (IF v + 1 = CpuCount THEN 0 ELSE v + 1) \in 0 .. CpuCount - 1
      BY <1>2
    <2>3. QED
      BY <1>1, <2>1, <2>2 DEF Workers
  <1>5. to'[c] = v /\ \A d \in Conns : d # c => to'[d] = to[d]
    BY <1>1 DEF IInv, TypeOK
  <1>6. TypeOK'
    <2>1. pipe' \in [Workers -> Seq(Conns)]
      BY <1>1, <1>2 DEF IInv, TypeOK
    <2>2. QED
      BY <1>1, <1>2, <1>4, <2>1 DEF IInv, TypeOK
  <1>7. Places'
    <2>1. \A w \in Workers : to[c] # w
      BY <1>3, SomeWorker
    <2>2. ASSUME NEW w \in Workers
          PROVE  Line(w)' \in {Line(w), Append(Line(w), c)} /\ (w # v => Line(w)' = Line(w))
      <3> DEFINE s == pending[w]
                 t == pipe[w]
      <3>1. s \in Seq(Conns) /\ t \in Seq(Conns)
        BY DEF IInv, TypeOK
      <3>2. pending'[w] = s /\ pipe'[w] \in {t, Append(t, c)} /\ (w # v => pipe'[w] = t)
        BY <1>1 DEF IInv, TypeOK
      <3>3. Line(w) = s \o t /\ Line(w)' = pending'[w] \o pipe'[w]
        BY DEF Line
      <3> HIDE DEF s, t
      <3>4. s \o Append(t, c) = Append(s \o t, c)
        BY <3>1
      <3>5. QED
        BY <3>2, <3>3, <3>4
    <2>3. ASSUME NEW w \in Workers
          PROVE  /\ \A i \in 1 .. Len(Line(w)') : /\ to'[Line(w)'[i]] = w
                                                  /\ Line(w)'[i] \notin reading[w]
                 /\ \A i, j \in 1 .. Len(Line(w)') : Line(w)'[i] = Line(w)'[j] => i = j
      <3> DEFINE s == Line(w)
      <3>1. /\ s \in Seq(Conns)
            /\ \A i \in 1 .. Len(s) : s[i] \in Conns /\ to[s[i]] = w /\ s[i] \notin reading[w]
            /\ \A i, j \in 1 .. Len(s) : s[i] = s[j] => i = j
            /\ c \notin reading[w]
        BY <2>1, LineType DEF IInv, Places
      <3> HIDE DEF s
      <3>2. \A i \in 1 .. Len(s) : s[i] # c /\ to'[s[i]] = w
        BY <1>5, <2>1, <3>1
      <3>3. CASE Line(w)' = s
        BY <3>1, <3>2, <3>3
      <3>4. CASE w = v /\ Line(w)' = Append(s, c)
        <4>1. /\ Len(Append(s, c)) = Len(s) + 1 /\ Len(s) \in Nat
              /\ \A i \in 1 .. Len(s) : Append(s, c)[i] = s[i]
              /\ Append(s, c)[Len(s) + 1] = c
          BY <3>1
        <4>2. \A i \in 1 .. Len(s) + 1 : i \in 1 .. Len(s) \/ i = Len(s) + 1
          BY <4>1
        <4>3. QED
          BY <1>5, <3>1, <3>2, <3>4, <4>1, <4>2
      <3>5. QED
        BY <2>2, <3>3, <3>4 DEF s
    <2>4. ASSUME NEW w \in Workers, NEW d \in reading[w]
          PROVE  to'[d] = w
      <3>1. d \in Conns /\ to[d] = w
        BY DEF IInv, TypeOK, Places
      <3>2. QED
        BY <1>5, <2>1, <3>1
    <2>5. QED
      BY <1>1, <2>3, <2>4 DEF Places
  <1>8. BacklogIsNew'
    BY <1>1, <1>5 DEF IInv, TypeOK, BacklogIsNew
  <1>9. RoundRobin'
    <2> DEFINE k == Cardinality(Given(CpuCount - 1))
    <2>1. \A w \in Workers :
            /\ IsFiniteSet(Given(w))
            /\ Cardinality(Given(w)) = k + (IF w < v THEN 1 ELSE 0)
      BY <1>0 DEF IInv, RoundRobin
    <2>2. k \in Nat
      BY <2>1, SomeWorker, FS_CardinalityType
    <2> HIDE DEF k
    <2>3. Given(v)' = Given(v) \cup {c} /\ c \notin Given(v)
      <3>1. Nobody # v
        BY <1>2, SomeWorker
      <3>2. ASSUME NEW d \in Conns
            PROVE  d \in Given(v)' <=> (d \in Given(v) \/ d = c)
        <4>1. d \in Given(v)' <=> to'[d] = v
          BY DEF Given
        <4>2. d \in Given(v) <=> to[d] = v
          BY DEF Given
        <4>3. QED
          BY <1>5, <4>1, <4>2
      <3>3. QED
        BY <1>3, <3>1, <3>2 DEF Given
    <2>4. \A w \in Workers : w # v => Given(w)' = Given(w)
      <3>1. ASSUME NEW w \in Workers, w # v
            PROVE  \A d \in Conns : d \in Given(w)' <=> d \in Given(w)
        BY <1>3, <1>5, <3>1, SomeWorker DEF Given
      <3>2. QED
        BY <3>1 DEF Given
    <2>5. IsFiniteSet(Given(v)') /\ Cardinality(Given(v)') = k + 1
      <3>1. IsFiniteSet(Given(v)) /\ Cardinality(Given(v)) = k
        BY <1>2, <2>1, <2>2
      <3>2. QED
        BY <2>3, <3>1, FS_AddElement
    <2>6. \A w \in Workers :
            /\ IsFiniteSet(Given(w)')
            /\ Cardinality(Given(w)') = k + (IF w < v + 1 THEN 1 ELSE 0)
      <3>1. \A w \in Workers : w \in Int
        BY <1>2 DEF Workers
      <3>2. \A w \in Workers : w # v => (w < v + 1 <=> w < v)
        BY <1>2, <3>1
      <3>3. v < v + 1
        BY <1>2
      <3>4. ASSUME NEW w \in Workers, w # v
            PROVE  /\ IsFiniteSet(Given(w)')
                   /\ Cardinality(Given(w)') = k + (IF w < v + 1 THEN 1 ELSE 0)
        BY <2>1, <2>4, <3>2, <3>4
      <3>5. Cardinality(Given(v)') = k + (IF v < v + 1 THEN 1 ELSE 0)
        BY <2>5, <3>3
      <3>6. QED
        BY <2>5, <3>4, <3>5
    <2>7. \A w \in Workers : w < CpuCount
      BY <1>2 DEF Workers
    <2>8. CASE v + 1 = CpuCount
      <3>1. round_robin_counter' = 0 /\ \A w \in Workers : ~(w < 0)
        BY <1>4, <2>8 DEF Workers
      <3>2. \A w \in Workers : Cardinality(Given(w)') = k + 1
        BY <2>6, <2>7, <2>8
      <3>3. QED
        BY <2>2, <2>6, <3>1, <3>2, SomeWorker DEF RoundRobin
    <2>9. CASE v + 1 # CpuCount
      <3>1. round_robin_counter' = v + 1 /\ ~(CpuCount - 1 < v + 1)
        BY <1>2, <1>4, <2>9
      <3>2. Cardinality(Given(CpuCount - 1)') = k
        BY <2>2, <2>6, <3>1, SomeWorker
      <3>3. QED
        BY <2>6, <3>1, <3>2, SomeWorker DEF RoundRobin
    <2>10. QED
      BY <2>8, <2>9
  <1>10. TakenUp'
    <2>1. Given(v)' = Given(v) \cup {c} /\ c \notin Given(v)
      <3>1. Nobody # v
        BY <1>2, SomeWorker
      <3>2. \A d \in Conns : d \in Given(v)' <=> (d \in Given(v) \/ d = c)
        BY <1>5, <3>1 DEF Given
      <3>3. QED
        BY <1>3, <3>1, <3>2 DEF Given
    <2>2. \A w \in Workers : IsFiniteSet(Given(w)) /\ Cardinality(Given(w)) \in Nat
      BY FS_CardinalityType DEF IInv, RoundRobin
    <2>3. Cardinality(Given(v)') = Cardinality(Given(v)) + 1
      BY <1>2, <2>1, <2>2, FS_AddElement
    <2>4. \A w \in Workers : w # v => Given(w)' = Given(w)
      <3>1. \A w \in Workers : w # v => \A d \in Conns : d \in Given(w)' <=> d \in Given(w)
        BY <1>3, <1>5, SomeWorker DEF Given
      <3>2. QED
        BY <3>1 DEF Given
    <2>5. ASSUME NEW w \in Workers
          PROVE  /\ pending'[w] = pending[w] /\ pipe'[w] \in {pipe[w], Append(pipe[w], c)}
                 /\ w # v => pipe'[w] = pipe[w]
      BY <1>1, <1>2 DEF IInv, TypeOK
    <2>6. ASSUME NEW w \in Workers
          PROVE  Len(pending'[w]) * MaxBatch
                   <= (MaxBatch - 1) * (Cardinality(Given(w)') - Len(pipe'[w]))
      <3> DEFINE p == Len(pending[w])
                 k == Cardinality(Given(w)) - Len(pipe[w])
                 l == Cardinality(Given(w)') - Len(pipe'[w])
      <3>1. pending[w] \in Seq(Conns) /\ pipe[w] \in Seq(Conns)
        BY DEF IInv, TypeOK
      <3>2. p \in Nat /\ k \in Int /\ p * MaxBatch <= (MaxBatch - 1) * k
        BY <2>2, <3>1 DEF IInv, TakenUp
      <3>3. Len(Append(pipe[w], c)) = Len(pipe[w]) + 1 /\ Len(pipe[w]) \in Nat
        BY <3>1
      <3>4. l \in {k, k + 1}
        <4>1. CASE w = v
          BY <2>2, <2>3, <2>5, <3>3, <4>1
        <4>2. CASE w # v
          BY <2>2, <2>4, <2>5, <3>3, <4>2
        <4>3. QED
          BY <4>1, <4>2
      <3> HIDE DEF p, k, l
      <3>5. l \in Int /\ k <= l /\ p \in Int /\ p <= p /\ MaxBatch \in Nat \ {0}
        BY <3>2, <3>4, MultiAssumption
      <3>6. p * MaxBatch <= (MaxBatch - 1) * l
        BY <3>2, <3>5, MoreTaken
      <3>7. QED
        BY <2>5, <3>6 DEF p, l
    <2>7. QED
      BY <2>6 DEF TakenUp
  <1>11. QED
    BY <1>6, <1>7, <1>8, <1>9, <1>10 DEF IInv

\* A worker reads its pipe.
LEMMA ReadQueueInv ==
  ASSUME IInv, NEW w \in Workers, NEW n \in 1 .. MaxBatch, NEW kept \in BOOLEAN,
         ReadQueue(w, n, kept)
  PROVE  IInv'
  <1> DEFINE s == pending[w]
             t == pipe[w]
             first == SubSeq(t, 1, n)
             rest == SubSeq(t, n + 1, Len(t))
             got == IF kept THEN s \o first ELSE s
  <1>1. s \in Seq(Conns) /\ t \in Seq(Conns) /\ n \in Nat \ {0} /\ n <= Len(t)
    BY MultiAssumption DEF IInv, TypeOK, ReadQueue
  <1>2. /\ pipe' = [pipe EXCEPT ![w] = rest]
        /\ \/ got = <<>> /\ UNCHANGED <<pending, reading>>
           \/ /\ got # <<>> /\ pending' = [pending EXCEPT ![w] = Tail(got)]
              /\ reading' \in {reading, [reading EXCEPT ![w] = @ \cup {Head(got)}]}
        /\ UNCHANGED <<masterVars, worker, queue, peer>>
    BY DEF ReadQueue, Received
  <1>3. /\ pipe'[w] = rest
        /\ \/ got = <<>> /\ pending'[w] = s /\ reading'[w] = reading[w]
           \/ /\ got # <<>> /\ pending'[w] = Tail(got)
              /\ reading'[w] \in {reading[w], reading[w] \cup {Head(got)}}
        /\ \A v \in Workers : v # w => /\ pipe'[v] = pipe[v] /\ pending'[v] = pending[v]
                                       /\ reading'[v] = reading[v]
    BY <1>2 DEF IInv, TypeOK
  <1>4. Line(w) = s \o t /\ Line(w)' = pending'[w] \o pipe'[w]
    BY DEF Line
  <1> HIDE DEF s, t
  <1>5. /\ first \in Seq(Conns) /\ Len(first) = n /\ \A i \in 1 .. n : first[i] = t[i]
        /\ rest \in Seq(Conns) /\ Len(rest) = Len(t) - n
        /\ \A i \in 1 .. Len(t) - n : rest[i] = t[n + i]
    <2>1. n \in Nat
      BY <1>1
    <2>2. QED
      BY <1>1, <2>1, FirstIs, RestIs
  <1> HIDE DEF first, rest
  <1>6. /\ Line(w) \in Seq(Conns) /\ Len(Line(w)) = Len(s) + Len(t)
        /\ \A i \in 1 .. Len(s) + Len(t) :
             Line(w)[i] = IF i <= Len(s) THEN s[i] ELSE t[i - Len(s)]
    BY <1>1, <1>4, ConcatIs
  <1>7. Len(s) \in Nat /\ Len(t) \in Nat
    BY <1>1
  <1>8. got \in Seq(Conns)
    BY <1>1, <1>5
  <1>9. got # <<>> => /\ Tail(got) \in Seq(Conns) /\ Head(got) = Line(w)[1]
                      /\ Head(got) \in Conns /\ Len(Line(w)) >= 1
    <2> SUFFICES ASSUME got # <<>>
                 PROVE  /\ Tail(got) \in Seq(Conns) /\ Head(got) = Line(w)[1]
                        /\ Head(got) \in Conns /\ Len(Line(w)) >= 1
      OBVIOUS
    <2>1. CASE s = <<>>
      <3>1. kept /\ Len(s) = 0
        BY <2>1
      <3>2. Len(got) = n /\ got[1] = first[1]
        BY <1>1, <1>5, <2>1, <3>1, ConcatIs
      <3>3. first[1] = t[1] /\ Line(w)[1] = t[1]
        BY <1>1, <1>5, <1>6, <1>7, <3>1
      <3>4. QED
        BY <1>1, <1>6, <1>7, <1>8, <3>2, <3>3, TailIs
    <2>2. CASE s # <<>>
      <3>1. Len(s) \in Nat \ {0}
        BY <1>1, <2>2, TailIs
      <3>2. got[1] = s[1]
        BY <1>1, <1>5, <3>1, ConcatIs
      <3>3. Line(w)[1] = s[1]
        BY <1>6, <1>7, <3>1
      <3>4. QED
        BY <1>1, <1>6, <1>7, <1>8, <3>1, <3>2, <3>3, TailIs
    <2>3. QED
      BY <2>1, <2>2
  <1>10. TypeOK'
    <2>1. pipe' \in [Workers -> Seq(Conns)]
      BY <1>2, <1>5 DEF IInv, TypeOK
    <2>2. pending' \in [Workers -> Seq(Conns)] /\ reading' \in [Workers -> SUBSET Conns]
      <3>1. CASE got = <<>>
        BY <1>2, <3>1 DEF IInv, TypeOK
      <3>2. CASE got # <<>>
        <4> DEFINE h == Head(got)
                   r == Tail(got)
        <4>1. /\ pending' = [pending EXCEPT ![w] = r] /\ r \in Seq(Conns)
              /\ reading' \in {reading, [reading EXCEPT ![w] = @ \cup {h}]} /\ h \in Conns
          BY <1>2, <1>9, <3>2
        <4> HIDE DEF h, r
        <4>2. pending' \in [Workers -> Seq(Conns)]
          BY <4>1 DEF IInv, TypeOK
        <4>3. [reading EXCEPT ![w] = @ \cup {h}] \in [Workers -> SUBSET Conns]
          BY <4>1 DEF IInv, TypeOK
        <4>4. QED
          BY <4>1, <4>2, <4>3 DEF IInv, TypeOK
      <3>3. QED
        BY <3>1, <3>2
    <2>3. QED
      BY <1>2, <2>1, <2>2 DEF IInv, TypeOK, masterVars
  <1>11. Line(w)' \in Seq(Conns) /\
         \E b \in Nat, e \in Nat, d \in Nat :
           /\ d <= e /\ (got # <<>> => d # 0)
           /\ \A i \in 1 .. Len(Line(w)') :
                /\ i + (IF i < b THEN d ELSE e) <= Len(Line(w))
                /\ Line(w)'[i] = Line(w)[i + (IF i < b THEN d ELSE e)]
    <2>1. CASE got = <<>>
      <3>1. s = <<>> /\ ~kept
        BY <1>1, <1>5, <2>1, ConcatIs
      <3>2. Line(w)' = rest
        BY <1>3, <1>4, <1>5, <2>1, <3>1
      <3>3. Len(s) = 0
        BY <3>1
      <3>4. \A i \in 1 .. Len(rest) : /\ i + n <= Len(Line(w))
                                      /\ rest[i] = Line(w)[i + n]
        <4> SUFFICES ASSUME NEW i \in 1 .. Len(rest)
                     PROVE  i + n <= Len(Line(w)) /\ rest[i] = Line(w)[i + n]
          OBVIOUS
        <4>1. rest[i] = t[n + i] /\ i + n \in 1 .. Len(t) /\ i + n = n + i
          BY <1>1, <1>5, <1>7
        <4>2. Line(w)[i + n] = t[i + n]
          BY <1>6, <1>7, <3>3, <4>1
        <4>3. QED
          BY <1>6, <1>7, <3>3, <4>1, <4>2
      <3>5. /\ 0 \in Nat /\ n \in Nat /\ n <= n
            /\ \A i \in 1 .. Len(Line(w)') :
                 /\ i + (IF i < 0 THEN n ELSE n) <= Len(Line(w))
                 /\ Line(w)'[i] = Line(w)[i + (IF i < 0 THEN n ELSE n)]
        BY <1>1, <3>2, <3>4
      <3> HIDE DEF got
      <3>6. QED
        BY ZenonT(30), <1>5, <2>1, <3>2, <3>5
    <2>2. CASE got # <<>> /\ kept
      <3>1. /\ Len(got) = Len(s) + n
            /\ \A i \in 1 .. Len(s) + n : got[i] = IF i <= Len(s) THEN s[i] ELSE first[i - Len(s)]
        BY <1>1, <1>5, <2>2, ConcatIs
      <3>2. \A i \in 1 .. Len(s) + n : got[i] = Line(w)[i]
        BY <1>1, <1>5, <1>6, <1>7, <3>1
      <3> HIDE DEF got
      <3>3. /\ Tail(got) \in Seq(Conns) /\ Len(Tail(got)) = Len(s) + n - 1
            /\ \A i \in 1 .. Len(s) + n - 1 : Tail(got)[i] = got[i + 1]
        BY <1>8, <2>2, <3>1, TailIs
      <3>4. /\ Line(w)' \in Seq(Conns) /\ Len(Line(w)') = Len(Tail(got)) + Len(rest)
            /\ \A i \in 1 .. Len(Tail(got)) + Len(rest) :
                 Line(w)'[i] = IF i <= Len(Tail(got)) THEN Tail(got)[i]
                                                      ELSE rest[i - Len(Tail(got))]
        <4> DEFINE r == Tail(got)
        <4>1. Line(w)' = r \o rest /\ r \in Seq(Conns)
          BY <1>3, <1>4, <2>2, <3>3
        <4> HIDE DEF r
        <4>2. /\ Line(w)' \in Seq(Conns) /\ Len(Line(w)') = Len(r) + Len(rest)
              /\ \A i \in 1 .. Len(r) + Len(rest) :
                   Line(w)'[i] = IF i <= Len(r) THEN r[i] ELSE rest[i - Len(r)]
          <5>1. /\ r \o rest \in Seq(Conns) /\ Len(r \o rest) = Len(r) + Len(rest)
                /\ \A i \in 1 .. Len(r) + Len(rest) :
                     (r \o rest)[i] = IF i <= Len(r) THEN r[i] ELSE rest[i - Len(r)]
            BY <1>5, <4>1, ConcatIs
          <5> DEFINE new == Line(w)'
          <5>2. new = r \o rest
            BY <4>1
          <5> HIDE DEF new
          <5>3. QED
            BY <5>1, <5>2 DEF new
        <4>3. QED
          BY <4>2 DEF r
      <3>5. \A i \in 1 .. Len(Line(w)') : /\ i + 1 <= Len(Line(w))
                                          /\ Line(w)'[i] = Line(w)[i + 1]
        <4> SUFFICES ASSUME NEW i \in 1 .. Len(Line(w)')
                     PROVE  /\ i + 1 <= Len(Line(w)) /\ Line(w)'[i] = Line(w)[i + 1]
          OBVIOUS
        <4>1. i + 1 <= Len(Line(w))
          BY <1>1, <1>5, <1>6, <1>7, <3>3, <3>4
        <4>2. CASE i <= Len(s) + n - 1
          BY <1>1, <1>7, <3>2, <3>3, <3>4, <4>1, <4>2
        <4>3. CASE ~(i <= Len(s) + n - 1)
          <5>1. /\ Line(w)'[i] = rest[i - (Len(s) + n - 1)]
                /\ i - (Len(s) + n - 1) \in 1 .. Len(t) - n
            BY <1>1, <1>5, <1>7, <3>3, <3>4, <4>3
          <5>2. rest[i - (Len(s) + n - 1)] = t[i + 1 - Len(s)]
            <6> DEFINE k == i - (Len(s) + n - 1)
            <6>1. n + k = i + 1 - Len(s) /\ k \in 1 .. Len(t) - n
              BY <1>1, <1>7, <5>1
            <6> HIDE DEF k
            <6>2. rest[k] = t[n + k]
              BY <1>5, <6>1
            <6>3. QED
              BY <6>1, <6>2 DEF k
          <5>3. Line(w)[i + 1] = t[i + 1 - Len(s)]
            BY <1>1, <1>6, <1>7, <4>1, <4>3
          <5>4. QED
            BY <4>1, <5>1, <5>2, <5>3
        <4>4. QED
          BY <4>2, <4>3
      <3>6. \A i \in 1 .. Len(Line(w)') :
              /\ i + (IF i < 0 THEN 1 ELSE 1) <= Len(Line(w))
              /\ Line(w)'[i] = Line(w)[i + (IF i < 0 THEN 1 ELSE 1)]
        BY <3>5
      <3>7. 0 \in Nat /\ 1 \in Nat /\ 1 <= 1 /\ 1 # 0
        OBVIOUS
      <3>8. QED
        BY <3>4, <3>6, <3>7
    <2>3. CASE got # <<>> /\ ~kept
      <3>1. /\ Tail(s) \in Seq(Conns) /\ Len(s) \in Nat \ {0} /\ Len(Tail(s)) = Len(s) - 1
            /\ \A i \in 1 .. Len(s) - 1 : Tail(s)[i] = s[i + 1]
        BY <1>1, <2>3, TailIs
      <3>2. /\ Line(w)' \in Seq(Conns) /\ Len(Line(w)') = Len(Tail(s)) + Len(rest)
            /\ \A i \in 1 .. Len(Tail(s)) + Len(rest) :
                 Line(w)'[i] = IF i <= Len(Tail(s)) THEN Tail(s)[i] ELSE rest[i - Len(Tail(s))]
        <4> DEFINE r == Tail(s)
        <4>1. Line(w)' = r \o rest /\ r \in Seq(Conns)
          BY <1>3, <1>4, <2>3, <3>1
        <4> HIDE DEF r
        <4>2. /\ Line(w)' \in Seq(Conns) /\ Len(Line(w)') = Len(r) + Len(rest)
              /\ \A i \in 1 .. Len(r) + Len(rest) :
                   Line(w)'[i] = IF i <= Len(r) THEN r[i] ELSE rest[i - Len(r)]
          <5>1. /\ r \o rest \in Seq(Conns) /\ Len(r \o rest) = Len(r) + Len(rest)
                /\ \A i \in 1 .. Len(r) + Len(rest) :
                     (r \o rest)[i] = IF i <= Len(r) THEN r[i] ELSE rest[i - Len(r)]
            BY <1>5, <4>1, ConcatIs
          <5> DEFINE new == Line(w)'
          <5>2. new = r \o rest
            BY <4>1
          <5> HIDE DEF new
          <5>3. QED
            BY <5>1, <5>2 DEF new
        <4>3. QED
          BY <4>2 DEF r
      <3>3. \A i \in 1 .. Len(Line(w)') :
              /\ i + (IF i < Len(s) THEN 1 ELSE n + 1) <= Len(Line(w))
              /\ Line(w)'[i] = Line(w)[i + (IF i < Len(s) THEN 1 ELSE n + 1)]
        <4> SUFFICES ASSUME NEW i \in 1 .. Len(Line(w)')
                     PROVE  /\ i + (IF i < Len(s) THEN 1 ELSE n + 1) <= Len(Line(w))
                            /\ Line(w)'[i] = Line(w)[i + (IF i < Len(s) THEN 1 ELSE n + 1)]
          OBVIOUS
        <4>1. CASE i < Len(s)
          BY <1>1, <1>5, <1>6, <1>7, <3>1, <3>2, <4>1
        <4>2. CASE ~(i < Len(s))
          <5>1. /\ Line(w)'[i] = rest[i - (Len(s) - 1)]
                /\ i - (Len(s) - 1) \in 1 .. Len(t) - n
            BY <1>1, <1>5, <1>7, <3>1, <3>2, <4>2
          <5>2. rest[i - (Len(s) - 1)] = t[i + (n + 1) - Len(s)]
            <6> DEFINE k == i - (Len(s) - 1)
            <6>1. n + k = i + (n + 1) - Len(s) /\ k \in 1 .. Len(t) - n
              BY <1>1, <1>7, <5>1
            <6> HIDE DEF k
            <6>2. rest[k] = t[n + k]
              BY <1>5, <6>1
            <6>3. QED
              BY <6>1, <6>2 DEF k
          <5>3. /\ i + (n + 1) <= Len(Line(w))
                /\ Line(w)[i + (n + 1)] = t[i + (n + 1) - Len(s)]
            BY SMTT(30), <1>1, <1>6, <1>7, <4>2, <5>1
          <5>4. QED
            BY <4>2, <5>1, <5>2, <5>3
        <4>3. QED
          BY <4>1, <4>2
      <3>4. Len(s) \in Nat /\ 1 \in Nat /\ n + 1 \in Nat /\ 1 <= n + 1 /\ 1 # 0
        BY <1>1, <3>1
      <3> HIDE DEF got
      <3>5. QED
        BY <3>2, <3>3, <3>4
    <2>4. QED
      BY <2>1, <2>2, <2>3
  <1>12. Places'
    <2>1. /\ \A i \in 1 .. Len(Line(w)) : /\ to[Line(w)[i]] = w
                                          /\ Line(w)[i] \notin reading[w]
          /\ \A c \in reading[w] : to[c] = w
          /\ \A i, j \in 1 .. Len(Line(w)) : Line(w)[i] = Line(w)[j] => i = j
      BY DEF IInv, Places
    <2>2. PICK b \in Nat, e \in Nat, d \in Nat :
            /\ d <= e /\ (got # <<>> => d # 0)
            /\ \A i \in 1 .. Len(Line(w)') :
                 /\ i + (IF i < b THEN d ELSE e) <= Len(Line(w))
                 /\ Line(w)'[i] = Line(w)[i + (IF i < b THEN d ELSE e)]
      BY <1>11
    <2> DEFINE old == Line(w)
               new == Line(w)'
    <2>3. old \in Seq(Conns) /\ new \in Seq(Conns) /\ Len(old) \in Nat /\ Len(new) \in Nat
      BY <1>6, <1>7, <1>11
    <2> HIDE DEF got
    <2> HIDE DEF old, new
    <2>4. /\ \A i \in 1 .. Len(new) : \E k \in 1 .. Len(old) :
               new[i] = old[k] /\ (got # <<>> => k # 1)
          /\ \A i, j \in 1 .. Len(new) : new[i] = new[j] => i = j
      <3>1. /\ \A i \in 1 .. Len(new) : /\ i + (IF i < b THEN d ELSE e) <= Len(old)
                                         /\ new[i] = old[i + (IF i < b THEN d ELSE e)]
            /\ \A i, j \in 1 .. Len(old) : old[i] = old[j] => i = j
        BY <2>1, <2>2 DEF old, new
      <3> DEFINE f(i) == i + (IF i < b THEN d ELSE e)
      <3>2. \A i \in 1 .. Len(new) : /\ f(i) \in 1 .. Len(old) /\ new[i] = old[f(i)]
                                     /\ (got # <<>> => f(i) # 1)
        BY <2>2, <2>3, <3>1
      <3>3. \A i, j \in 1 .. Len(new) : f(i) = f(j) => i = j
        BY <2>2, <2>3
      <3> HIDE DEF f
      <3>4. \A i, j \in 1 .. Len(new) : new[i] = new[j] => i = j
        <4> SUFFICES ASSUME NEW i \in 1 .. Len(new), NEW j \in 1 .. Len(new), new[i] = new[j]
                     PROVE  i = j
          OBVIOUS
        <4>1. old[f(i)] = old[f(j)] /\ f(i) \in 1 .. Len(old) /\ f(j) \in 1 .. Len(old)
          BY <3>2
        <4>2. f(i) = f(j)
          BY <3>1, <4>1
        <4>3. QED
          BY <3>3, <4>2
      <3>5. QED
        BY <3>2, <3>4
    <2>5. /\ \A i \in 1 .. Len(new) : to[new[i]] = w /\ new[i] \notin reading'[w]
          /\ \A c \in reading'[w] : to[c] = w
      <3>1. CASE got = <<>>
        BY SMTT(30), <1>3, <2>1, <2>4, <3>1 DEF old
      <3>2. CASE got # <<>>
        <4>1. Head(got) = old[1] /\ 1 \in 1 .. Len(old)
          BY <1>9, <2>3, <3>2 DEF old
        <4>2. \A i \in 1 .. Len(new) : new[i] # old[1]
          BY <2>1, <2>4, <3>2, <4>1 DEF old
        <4>3. QED
          BY <1>3, <2>1, <2>4, <3>2, <4>1, <4>2 DEF old
      <3>3. QED
        BY <3>1, <3>2
    <2>6. \A v \in Workers : v # w => Line(v)' = Line(v)
      BY <1>3 DEF Line
    <2>7. to' = to
      BY <1>2 DEF masterVars
    <2>8. ASSUME NEW v \in Workers
          PROVE  /\ \A i \in 1 .. Len(Line(v)') : /\ to'[Line(v)'[i]] = v
                                                  /\ Line(v)'[i] \notin reading'[v]
                 /\ \A c \in reading'[v] : to'[c] = v
                 /\ \A i, j \in 1 .. Len(Line(v)') : Line(v)'[i] = Line(v)'[j] => i = j
      <3>1. CASE v = w
        BY <2>4, <2>5, <2>7, <3>1 DEF new
      <3>2. CASE v # w
        BY <1>3, <2>6, <2>7, <3>2 DEF IInv, Places
      <3>3. QED
        BY <3>1, <3>2
    <2>9. QED
      BY <2>8 DEF Places
  <1>13. BacklogIsNew'
    BY <1>2 DEF IInv, BacklogIsNew, masterVars
  <1>14. RoundRobin'
    BY <1>2, SameHands DEF IInv, masterVars
  <1>15. TakenUp'
    <2> DEFINE k == Cardinality(Given(w)) - Len(t)
    <2>1. \A v : Given(v)' = Given(v)
      BY <1>2 DEF Given, masterVars
    <2>2. Cardinality(Given(w)) \in Nat
      BY FS_CardinalityType DEF IInv, RoundRobin
    <2>3. k \in Int /\ Len(s) * MaxBatch <= (MaxBatch - 1) * k
      BY <1>7, <2>2 DEF IInv, TakenUp, s, t
    <2>4. Len(pipe'[w]) = Len(t) - n /\ n \in Int /\ MaxBatch \in Nat \ {0}
      BY <1>1, <1>3, <1>5, MultiAssumption
    <2>5. Cardinality(Given(w)) - Len(pipe'[w]) = k + n
      BY <1>7, <2>2, <2>4
    <2> HIDE DEF k
    <2>6. (Len(s) + n - 1) * MaxBatch <= (MaxBatch - 1) * (k + n)
      BY <1>7, <2>3, <2>4, Batch
    <2>7. Len(pending'[w]) \in Nat /\ Len(pending'[w]) <= Len(s) + n - 1
      <3>1. CASE got = <<>>
        BY <1>1, <1>3, <1>7, <3>1
      <3>2. CASE got # <<>>
        <4>1. Len(got) <= Len(s) + n /\ Len(got) \in Nat
          <5>1. CASE kept
            BY <1>1, <1>5, <1>7, <5>1, ConcatIs
          <5>2. CASE ~kept
            BY <1>1, <1>7, <5>2
          <5>3. QED
            BY <5>1, <5>2
        <4> HIDE DEF got
        <4>2. Len(Tail(got)) = Len(got) - 1 /\ Len(got) \in Nat \ {0}
          BY <1>8, <3>2, TailIs
        <4>3. QED
          BY <1>1, <1>3, <1>7, <3>2, <4>1, <4>2
      <3>3. QED
        BY <3>1, <3>2
    <2>8. Len(pending'[w]) * MaxBatch <= (MaxBatch - 1) * (k + n)
      <3> DEFINE q == Len(pending'[w])
                 p == Len(s) + n - 1
                 l == k + n
      <3>1. q \in Int /\ p \in Int /\ l \in Int /\ q <= p /\ l <= l
        BY <1>7, <2>3, <2>4, <2>7
      <3>2. p * MaxBatch <= (MaxBatch - 1) * l
        BY <2>6
      <3> HIDE DEF p, q, l
      <3>3. q * MaxBatch <= (MaxBatch - 1) * l
        BY <2>4, <3>1, <3>2, MoreTaken
      <3>4. QED
        BY <3>3 DEF q, l
    <2>9. ASSUME NEW v \in Workers
          PROVE  Len(pending'[v]) * MaxBatch
                   <= (MaxBatch - 1) * (Cardinality(Given(v)') - Len(pipe'[v]))
      <3>1. CASE v = w
        BY <2>1, <2>5, <2>8, <3>1
      <3>2. CASE v # w
        BY <1>3, <2>1, <3>2 DEF IInv, TakenUp
      <3>3. QED
        BY <3>1, <3>2
    <2>10. QED
      BY <2>9 DEF TakenUp
  <1>16. QED
    BY <1>10, <1>12, <1>13, <1>14, <1>15 DEF IInv

\* The queue of a worker is closed, with what is in it.
LEMMA CloseQueueInv ==
  ASSUME IInv, NEW w \in Workers, CloseQueue(w)
  PROVE  IInv'
  <1> USE DEF CloseQueue
  <1>1. TypeOK'
    BY DEF IInv, TypeOK, masterVars
  <1>2. Line(w)' = <<>> /\ reading'[w] = reading[w]
    BY DEF IInv, TypeOK, Line
  <1>3. /\ to' = to
        /\ \A v \in Workers : v # w => Line(v)' = Line(v) /\ reading'[v] = reading[v]
    BY DEF IInv, TypeOK, Line, masterVars
  <1>4. Places'
    BY <1>2, <1>3 DEF IInv, Places
  <1>5. BacklogIsNew'
    BY DEF IInv, BacklogIsNew, masterVars
  <1>6. RoundRobin'
    BY SameHands DEF IInv, masterVars
  <1>7. TakenUp'
    BY EmptyTaken DEF IInv, TypeOK, masterVars
  <1>8. QED
    BY <1>1, <1>4, <1>5, <1>6, <1>7 DEF IInv

\* A connection has ended.
LEMMA EchoEndInv ==
  ASSUME IInv, NEW w \in Workers, NEW c \in Conns, EchoEnd(w, c)
  PROVE  IInv'
  <1> USE DEF EchoEnd
  <1>1. TypeOK'
    BY DEF IInv, TypeOK, masterVars
  <1>2. Line(w)' = Line(w) /\ reading'[w] \subseteq reading[w]
    BY DEF IInv, TypeOK, Line
  <1>3. /\ to' = to
        /\ \A v \in Workers : v # w => Line(v)' = Line(v) /\ reading'[v] = reading[v]
    BY DEF IInv, TypeOK, Line, masterVars
  <1>4. Places'
    BY <1>2, <1>3 DEF IInv, Places
  <1>5. BacklogIsNew'
    BY DEF IInv, BacklogIsNew, masterVars
  <1>6. RoundRobin'
    BY SameHands DEF IInv, masterVars
  <1>7. TakenUp'
    BY SameTaken DEF IInv, TypeOK, masterVars
  <1>8. QED
    BY <1>1, <1>4, <1>5, <1>6, <1>7 DEF IInv

\* A worker ends.
LEMMA EndsInv ==
  ASSUME IInv, NEW w \in Workers, Ends(w)
  PROVE  IInv'
  <1> USE DEF Ends
  <1>1. TypeOK'
    BY DEF IInv, TypeOK, masterVars
  <1>2. Line(w)' = <<>> /\ reading'[w] = {}
    BY DEF IInv, TypeOK, Line
  <1>3. /\ to' = to
        /\ \A v \in Workers : v # w => Line(v)' = Line(v) /\ reading'[v] = reading[v]
    BY DEF IInv, TypeOK, Line, masterVars
  <1>4. Places'
    BY <1>2, <1>3 DEF IInv, Places
  <1>5. BacklogIsNew'
    BY DEF IInv, BacklogIsNew, masterVars
  <1>6. RoundRobin'
    BY SameHands DEF IInv, masterVars
  <1>7. TakenUp'
    BY EmptyTaken DEF IInv, TypeOK, masterVars
  <1>8. QED
    BY <1>1, <1>4, <1>5, <1>6, <1>7 DEF IInv

\* Every step keeps the inductive invariant.
LEMMA NextIInv ==
  ASSUME IInv, [Next]_vars
  PROVE  IInv'
  <1>1. CASE \E c \in Conns : Connect(c) \/ Hangup(c)
    BY <1>1, ConnectInv, HangupInv
  <1>2. CASE Master
    BY <1>2, SpawnInv, close_process_handleInv, HandOverKeepsInv, RefusedInv, AcceptFailsInv,
       CloseClientInv DEF Master
  <1>3. CASE MasterDies
    BY <1>3, MasterDiesInv
  <1>4. ASSUME NEW w \in Workers, Worker(w) \/ QueueError(w) \/ WorkerDies(w)
        PROVE  IInv'
    BY <1>4, ReadQueueInv, CloseQueueInv, EchoEndInv, EndsInv
       DEF Worker, QueueEnd, QueueError, Exit, WorkerDies
  <1>5. CASE UNCHANGED vars
    <2>1. TypeOK' /\ BacklogIsNew'
      BY <1>5 DEF IInv, TypeOK, BacklogIsNew, vars, masterVars, workerVars
    <2>2. Places' /\ RoundRobin' /\ TakenUp'
      BY <1>5, SamePlaces, SameHands, SameTaken DEF IInv, vars, masterVars, workerVars
    <2>3. QED
      BY <2>1, <2>2 DEF IInv
  <1>6. QED
    BY <1>1, <1>2, <1>3, <1>4, <1>5 DEF Next

\* The inductive invariant holds of every behaviour.
LEMMA AlwaysIInv == Spec => []IInv
  BY InitIInv, NextIInv, PTL DEF Spec

\* What is where implies that a connection has one place, with its worker.
LEMMA IInvOneOwner == IInv => OneOwner
  <1> SUFFICES ASSUME IInv, NEW w \in Workers
               PROVE  /\ ToSet(Line(w)) \cup reading[w] \subseteq Given(w)
                      /\ IsInjective(Line(w))
                      /\ ToSet(Line(w)) \cap reading[w] = {}
    BY DEF OneOwner
  <1> DEFINE s == Line(w)
  <1>1. /\ s \in Seq(Conns) /\ \A i \in 1 .. Len(s) : s[i] \in Conns
        /\ \A i \in 1 .. Len(s) : to[s[i]] = w /\ s[i] \notin reading[w]
        /\ \A c \in reading[w] : to[c] = w /\ c \in Conns
        /\ \A i, j \in 1 .. Len(s) : s[i] = s[j] => i = j
    BY LineType DEF IInv, TypeOK, Places
  <1> HIDE DEF s
  <1>2. DOMAIN s = 1 .. Len(s)
    BY <1>1
  <1>3. \A c \in ToSet(s) : c \in Conns /\ to[c] = w /\ c \notin reading[w]
    BY <1>1, <1>2 DEF ToSet
  <1>4. IsInjective(s)
    BY <1>1, <1>2 DEF IsInjective
  <1>5. QED
    BY <1>1, <1>3, <1>4 DEF s, Given

\* The turns imply that the shares of two workers differ by one at most.
LEMMA RoundRobinIsFair == RoundRobin => Balanced
  <1> SUFFICES ASSUME RoundRobin, NEW v \in Workers, NEW w \in Workers
               PROVE  Cardinality(Given(v)) <= Cardinality(Given(w)) + 1
    BY DEF Balanced
  <1> DEFINE k == Cardinality(Given(CpuCount - 1))
  <1>1. \A u \in Workers : Cardinality(Given(u)) \in {k, k + 1}
    <2>1. k \in Nat
      BY SomeWorker, FS_CardinalityType DEF RoundRobin
    <2>2. QED
      BY <2>1 DEF RoundRobin
  <1>2. k \in Nat
    BY SomeWorker, FS_CardinalityType DEF RoundRobin
  <1> HIDE DEF k
  <1>3. Cardinality(Given(v)) \in {k, k + 1} /\ Cardinality(Given(w)) \in {k, k + 1}
    BY <1>1
  <1>4. QED
    BY <1>2, <1>3

\* The master hands every connection to one worker and in turn, and what a
\* worker holds, received or under way, is its own: main.c 24-51, worker.c 51-78.
THEOREM HandOverCorrect == Spec => []HandOverInv
  <1>1. IInv => HandOverInv
    BY IInvOneOwner, RoundRobinIsFair DEF IInv, HandOverInv
  <1>2. QED
    BY <1>1, AlwaysIInv, PTL

=============================================================================
