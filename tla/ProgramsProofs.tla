---------------------------- MODULE ProgramsProofs ----------------------------
(***************************************************************************)
(* Proofs about the example programs, for any sizes of buffers and files,  *)
(* any clients, transfers, files and servers, and any numbers of chunks,   *)
(* lines, changes and signals.                                             *)
(*                                                                         *)
(* Every program has an inductive invariant of its own, which is kept by   *)
(* its own steps; a step of one program is no step of another.             *)
(***************************************************************************)
EXTENDS Programs, FiniteSetTheorems, WellFoundedInduction, TLAPS

-----------------------------------------------------------------------------
(* Sequences and least numbers.                                            *)

\* Every set of numbers that is not empty has a least one.
LEMMA LeastNat ==
  ASSUME NEW S, S \subseteq Nat, S # {}
  PROVE  \E n \in S : \A m \in S : n <= m
  <1> DEFINE R == {p \in Nat \X Nat : p[1] < p[2]}
  <1>1. \A x, y \in Nat : <<y, x>> \in R <=> y < x
    OBVIOUS
  <1>2. IsWellFoundedOn(R, Nat)
    BY NatLessThanWellFounded DEF OpToRel
  <1> HIDE DEF R
  <1>3. PICK x \in S : \A y \in S : ~(<<y, x>> \in R)
    BY <1>2, WFMin
  <1>4. \A y \in S : x \in Nat /\ y \in Nat /\ ~(y < x)
    BY <1>1, <1>3
  <1>5. \A y \in S : x <= y
    BY <1>4
  <1>6. QED
    BY <1>5

\* Min is the least of a set of numbers.
LEMMA MinIs ==
  ASSUME NEW S, S \subseteq Nat, S # {}
  PROVE  Min(S) \in S /\ \A m \in S : Min(S) <= m
  BY LeastNat DEF Min

\* The first n elements of a sequence.
LEMMA FirstIs ==
  ASSUME NEW S, NEW s \in Seq(S), NEW n \in Nat, n <= Len(s)
  PROVE  /\ SubSeq(s, 1, n) \in Seq(S) /\ Len(SubSeq(s, 1, n)) = n
         /\ \A i \in 1 .. n : SubSeq(s, 1, n)[i] = s[i]
  OBVIOUS

\* A sequence without its first n elements.
LEMMA RestIs ==
  ASSUME NEW S, NEW s \in Seq(S), NEW n \in Nat, n <= Len(s)
  PROVE  /\ SubSeq(s, n + 1, Len(s)) \in Seq(S)
         /\ Len(SubSeq(s, n + 1, Len(s))) = Len(s) - n
         /\ \A i \in 1 .. Len(s) - n : SubSeq(s, n + 1, Len(s))[i] = s[n + i]
  OBVIOUS

\* What a concatenation consists of.
LEMMA ConcatIs ==
  ASSUME NEW S, NEW s \in Seq(S), NEW t \in Seq(S)
  PROVE  /\ s \o t \in Seq(S) /\ Len(s \o t) = Len(s) + Len(t)
         /\ \A i \in 1 .. Len(s) + Len(t) :
              (s \o t)[i] = IF i <= Len(s) THEN s[i] ELSE t[i - Len(s)]
  OBVIOUS

\* An array is a sequence.
LEMMA ArrayIs ==
  ASSUME NEW S, NEW n \in Nat, NEW f \in [1 .. n -> S]
  PROVE  f \in Seq(S) /\ Len(f) = n
  OBVIOUS

\* What is left of a sequence without its element k.
LEMMA RemoveAtIs ==
  ASSUME NEW S, NEW s \in Seq(S), NEW k \in 1 .. Len(s)
  PROVE  /\ RemoveAt(s, k) \in Seq(S) /\ Len(RemoveAt(s, k)) = Len(s) - 1
         /\ \A i \in 1 .. Len(s) - 1 : RemoveAt(s, k)[i] = s[IF i < k THEN i ELSE i + 1]
  <1> DEFINE first == SubSeq(s, 1, k - 1)
             rest == SubSeq(s, k + 1, Len(s))
  <1>1. k - 1 \in Nat /\ k - 1 <= Len(s) /\ k \in Nat /\ k <= Len(s) /\ Len(s) \in Nat
    OBVIOUS
  <1>2. /\ first \in Seq(S) /\ Len(first) = k - 1
        /\ \A i \in 1 .. k - 1 : first[i] = s[i]
    BY <1>1, FirstIs
  <1>3. /\ rest \in Seq(S) /\ Len(rest) = Len(s) - k
        /\ \A i \in 1 .. Len(s) - k : rest[i] = s[k + i]
    BY <1>1, RestIs
  <1>4. RemoveAt(s, k) = first \o rest
    BY DEF RemoveAt
  <1> HIDE DEF first, rest
  <1>5. /\ first \o rest \in Seq(S) /\ Len(first \o rest) = Len(s) - 1
        /\ \A i \in 1 .. Len(s) - 1 :
             (first \o rest)[i] = IF i <= k - 1 THEN first[i] ELSE rest[i - (k - 1)]
    <2>1. /\ first \o rest \in Seq(S) /\ Len(first \o rest) = Len(first) + Len(rest)
          /\ \A i \in 1 .. Len(first) + Len(rest) :
               (first \o rest)[i] = IF i <= Len(first) THEN first[i] ELSE rest[i - Len(first)]
      BY <1>2, <1>3, ConcatIs
    <2>2. Len(first) + Len(rest) = Len(s) - 1
      BY <1>1, <1>2, <1>3
    <2>3. QED
      BY <1>2, <2>1, <2>2
  <1>6. ASSUME NEW i \in 1 .. Len(s) - 1
        PROVE  (first \o rest)[i] = s[IF i < k THEN i ELSE i + 1]
    <2>1. CASE i < k
      BY <1>1, <1>2, <1>5, <2>1
    <2>2. CASE ~(i < k)
      <3>1. i - (k - 1) \in 1 .. Len(s) - k /\ k + (i - (k - 1)) = i + 1
        BY <1>1, <2>2
      <3>2. rest[i - (k - 1)] = s[i + 1]
        BY <1>3, <3>1
      <3>3. QED
        BY <1>1, <1>5, <2>2, <3>2
    <2>3. QED
      BY <2>1, <2>2
  <1>7. QED
    BY <1>4, <1>5, <1>6

\* A sequence of one element is empty without it.
LEMMA RemoveOnly ==
  ASSUME NEW x
  PROVE  RemoveAt(<<x>>, 1) = <<>>
  <1> DEFINE s == <<x>>
  <1>1. s \in Seq({x}) /\ Len(s) = 1 /\ 1 \in 1 .. Len(s)
    OBVIOUS
  <1> HIDE DEF s
  <1>2. RemoveAt(s, 1) \in Seq({x}) /\ Len(RemoveAt(s, 1)) = 0
    BY SMTT(30), <1>1, RemoveAtIs
  <1>3. RemoveAt(s, 1) = <<>>
    BY <1>2
  <1>4. QED
    BY <1>3 DEF s

\* The only request under way is done.
LEMMA WithoutOnly ==
  ASSUME NEW r, pending = <<r>>
  PROVE  Without(r.req) = <<>>
  <1> DEFINE S == {i \in DOMAIN pending : pending[i].req = r.req}
  <1>1. S = {1}
    OBVIOUS
  <1>2. Min(S) = 1
    BY <1>1, MinIs
  <1>3. QED
    BY <1>2, RemoveOnly DEF Without

-----------------------------------------------------------------------------
(* One program runs.                                                       *)

Names == {"uvcat", "uvtee", "cgi", "dns", "udp-dhcp", "uvwget", "tty-gravity", "tty",
          "uvstop", "idle-basic", "idle-compute", "ref-timer", "spawn", "proc-streams",
          "detach", "onchange", "signal", "pipe-echo-server"}

\* A behaviour starts as the program does that runs.
LEMMA OneStart ==
  ASSUME Init
  PROVE  /\ program = "uvcat" => UvcatInit
         /\ program = "uvtee" => UvteeInit
         /\ program = "cgi" => CgiInit
         /\ program = "dns" => DnsInit
         /\ program = "udp-dhcp" => DhcpInit
         /\ program = "uvwget" => UvwgetInit
         /\ program = "tty-gravity" => GravityInit
         /\ program = "tty" => TtyInit
         /\ program \in {"uvstop", "idle-basic", "idle-compute", "ref-timer"} => LoopsInit
         /\ program \in {"spawn", "proc-streams", "detach", "onchange"} => ProcessInit
         /\ program = "signal" => SignalInit
         /\ program = "pipe-echo-server" => SocketInit
         /\ program \in Names
  BY DEF Init, UvcatInit, UvteeInit, CgiInit, DnsInit, DhcpInit, UvwgetInit, GravityInit, TtyInit,
         LoopsInit, ProcessInit, SignalInit, SocketInit, Begin, Spawners, Names

\* A step is one of the program that runs, or of its loop.
LEMMA OneProgram ==
  ASSUME Next
  PROVE  /\ program' = program
         /\ \/ ~TimersDue /\ UvRunReturns
            \/ \E h \in Handles : CloseCallback(h)
            \/ program = "uvcat" /\ UvcatStep
            \/ program = "uvtee" /\ (UvteeStep \/ UvteeWorld)
            \/ program = "cgi" /\ (CgiStep \/ CgiWorld)
            \/ program = "dns" /\ (DnsStep \/ DnsWorld)
            \/ program = "udp-dhcp" /\ (DhcpStep \/ DhcpWorld)
            \/ program = "uvwget" /\ (UvwgetStep \/ UvwgetWorld)
            \/ program \in {"tty-gravity", "tty"} /\ (GravityStep \/ GravityWorld)
            \/ program \in {"uvstop", "idle-basic", "idle-compute", "ref-timer"}
                 /\ (LoopsStep \/ LoopsWorld)
            \/ program \in {"spawn", "proc-streams", "detach", "onchange"}
                 /\ (ProcessStep \/ ProcessWorld)
            \/ program = "signal" /\ (SignalStep \/ SignalWorld)
            \/ program = "pipe-echo-server" /\ (SocketStep \/ SocketWorld)
  <1> USE DEF Setup, InLoop, Many
  <1>1. CASE (~TimersDue /\ UvRunReturns) \/ \E h \in Handles : CloseCallback(h)
    BY Zenon, <1>1 DEF UvRunReturns, CloseCallback
  <1>2. CASE UvcatStep
    BY <1>2 DEF UvcatStep, UvcatMain, on_open, OnReadBytes, OnWriteBytes, OnReadEnd,
                OnError, Callback
  <1>3. CASE UvteeStep \/ UvteeWorld
    BY <1>3 DEF UvteeStep, UvteeWorld, UvteeMain, OnWrite, ReadChunk, ReadEnd, ReadError,
                Reading
  <1>4. CASE CgiStep \/ CgiWorld
    BY <1>4 DEF CgiStep, CgiWorld, CgiMain, Connect, NotAccepted, invoke_cgi_script,
                SpawnFails, AcceptFails, cleanup_handles, Accepting
  <1>5. CASE DnsStep \/ DnsWorld
    BY <1>5 DEF DnsStep, DnsWorld, DnsMain, on_resolved, ResolveFails, on_connect,
                ConnectFails, OnReadData, OnReadFails, DnsReading, DnsCallback
  <1>6. CASE DhcpStep \/ DhcpWorld
    BY <1>6 DEF DhcpStep, DhcpWorld, DhcpMain, on_send, OnReadDatagram, OnReadError,
                OnReadNothing, Receiving
  <1>7. CASE UvwgetStep \/ UvwgetWorld
    BY <1>7 DEF UvwgetStep, UvwgetWorld, UvwgetMain, on_timeout, curl_perform,
                curl_close_cb, PollBoth, AssertFails, Running
  <1>8. CASE GravityStep \/ GravityWorld
    BY <1>8 DEF GravityStep, GravityWorld, GravityMain, Update, UpdateBlocked, WriteDone,
                TtyMain, TtyWriteDone, Advance, Ticking
  <1>9. CASE LoopsStep \/ LoopsWorld
    <2> DEFINE OfLoops == /\ program \in {"uvstop", "idle-basic", "idle-compute", "ref-timer"}
                          /\ program' = program
    <2>1. ASSUME UvstopMain \/ idle_cb \/ prep_cb \/ Stopped
          PROVE  OfLoops
      BY <2>1 DEF UvstopMain, idle_cb, prep_cb, Stopped
    <2>2. ASSUME IdleBasicMain \/ wait_for_a_while \/ RefTimerMain \/ WakeUp \/ gc \/ fake_job
          PROVE  OfLoops
      BY <2>2 DEF IdleBasicMain, wait_for_a_while, RefTimerMain, WakeUp, gc, fake_job
    <2>3. ASSUME IdleComputeMain \/ crunch_away \/ OnTypeEnd
          PROVE  OfLoops
      BY <2>3 DEF IdleComputeMain, crunch_away, OnTypeEnd
    <2>4. ASSUME NEW n \in 1 .. BufferSize, OnTypeBytes(n)
          PROVE  OfLoops
      BY <2>4 DEF OnTypeBytes
    <2>5. QED
      BY <1>9, <2>1, <2>2, <2>3, <2>4 DEF LoopsStep, LoopsWorld
  <1>10. CASE ProcessStep \/ ProcessWorld
    BY <1>10 DEF ProcessStep, ProcessWorld, SpawnMain, on_exit, OnchangeMain, run_command,
                 DetachedExits, FileChanges, Spawners
  <1>11. CASE SignalStep \/ SignalWorld
    BY <1>11 DEF SignalStep, SignalWorld, SignalMain, Join, Start, End, signal_handler,
                 Signal, Served, InUvRun
  <1>12. CASE SocketStep \/ SocketWorld
    BY <1>12 DEF SocketStep, SocketWorld, SocketMain, SetHandler, Bind, BindFails, Listen,
                 ListenFails, Returned, StartServer, Killed, remove_sock, At, Go
  <1>13. QED
    BY <1>1, <1>2, <1>3, <1>4, <1>5, <1>6, <1>7, <1>8, <1>9, <1>10, <1>11, <1>12
       DEF Next, Step, World

-----------------------------------------------------------------------------
(* What all invariants below say, each of its own program: its handles,    *)
(* requests and objects are what TypeOK and MemoryRules ask for.           *)

States == {"none", "idle", "active", "background", "closing", "closed"}

\* The state of a program that has asked for nothing but what is Static.
Static(names) ==
  /\ handle \in [Handles -> States]
  /\ memory = Objects(names)
  /\ \A h \in Handles : handle[h] # "none" => h \in names

\* Objects are pairs of a name and a number.
LEMMA ObjectIs ==
  ASSUME NEW names, NEW o \in Objects(names)
  PROVE  Len(o) = 2 /\ o[2] \in Nat
  <1>1. PICK n \in names : o = <<n, 0>>
    BY DEF Objects, Object
  <1>2. QED
    BY <1>1

\* What is static is there.
LEMMA StaticIsThere ==
  ASSUME NEW names, Static(names), NEW h \in Handles, handle[h] # "none"
  PROVE  Object(h) \in memory
  BY DEF Static, Objects

\* One handle changes.
LEMMA TurnIs ==
  ASSUME handle \in [Handles -> States], NEW h \in Handles, NEW s
  PROVE  Turn({h}, s) = [handle EXCEPT ![h] = s]
  BY DEF Turn

-----------------------------------------------------------------------------
(* The socket file of pipe-echo-server.                                    *)

SocketInv ==
  program = "pipe-echo-server" =>
  /\ stage \in {"setup", "many"}
  /\ Static({}) /\ pending = <<>>
  /\ own \in [at : [Servers -> {"off", "started", "armed", "bound", "listening", "returning"}],
              starts : [Servers -> Nat]]
  /\ world \in [file : Servers \cup {Nobody}, left : BOOLEAN, lost : SUBSET Servers,
                mishap : {{}}]
  /\ SocketIsServed

\* No server is there, and no file.
LEMMA SocketStarts == Init => SocketInv
  <1> SUFFICES ASSUME Init, program = "pipe-echo-server"
               PROVE  SocketInv
    BY DEF SocketInv
  <1>1. SocketInit
    BY OneStart
  <1>2. QED
    BY <1>1, ServersAssumption
       DEF SocketInit, Begin, SocketInv, Static, States, SocketIsServed, Serving, Objects

\* The server that binds finds the name free, so any other that serves has lost
\* its name; the one that removes the file takes it from itself, or from another,
\* which has lost it then; and what a server leaves is left.
LEMMA SocketKept == SocketInv /\ Next => SocketInv'
  <1> SUFFICES ASSUME SocketInv, Next, program = "pipe-echo-server"
               PROVE  SocketInv'
    BY OneProgram DEF SocketInv
  <1> USE ServersAssumption
      DEF SocketInv, Static, States, SocketIsServed, Serving, At, Go, Many
  <1>1. CASE UvRunReturns \/ \E h \in Handles : CloseCallback(h)
    BY <1>1 DEF UvRunReturns, CloseCallback, CloseDone
  <1>2. CASE SocketMain
    BY <1>2 DEF SocketMain, Setup
  <1>3. ASSUME NEW s \in Servers, SetHandler(s) \/ Listen(s) \/ Returned(s) \/ BindFails(s)
        PROVE  SocketInv'
    BY SMTT(30), <1>3 DEF SetHandler, Listen, Returned, BindFails
  <1>4. ASSUME NEW s \in Servers, Bind(s)
        PROVE  SocketInv'
    <2>1. /\ own.at[s] = "armed" /\ world.file = Nobody
          /\ own' = [own EXCEPT !.at[s] = "bound"]
          /\ world' = [world EXCEPT !.file = s, !.lost = world.lost \ {s}]
          /\ program' = program /\ stage' = stage /\ handle' = handle
          /\ pending' = pending /\ memory' = memory
      BY <1>4 DEF Bind
    <2>2. \A t \in Servers : own.at[t] \notin Serving \/ t \in world.lost
      BY <2>1
    <2>3. QED
      BY <2>1, <2>2
  <1>5. ASSUME NEW s \in Servers, ListenFails(s) \/ Killed(s)
        PROVE  SocketInv'
    <2>1. /\ \E where \in {"off", "returning"} : own' = [own EXCEPT !.at[s] = where]
          /\ world' = [world EXCEPT !.left = world.left \/ world.file = s]
          /\ program' = program /\ stage' = stage /\ handle' = handle
          /\ pending' = pending /\ memory' = memory
      BY <1>5 DEF ListenFails, Killed, Leaves
    <2> DEFINE left == world.left \/ world.file = s
    <2>2. left \in BOOLEAN /\ world' = [world EXCEPT !.left = left]
      BY <2>1
    <2>3. world.file = s => left
      OBVIOUS
    <2>4. world.left => left
      OBVIOUS
    <2> HIDE DEF left
    <2>5. PICK where \in {"off", "returning"} : own' = [own EXCEPT !.at[s] = where]
      BY <2>1
    <2>6. /\ world' \in [file : Servers \cup {Nobody}, left : BOOLEAN, lost : SUBSET Servers,
                         mishap : {{}}]
          /\ world'.file = world.file /\ world'.left = left /\ world'.lost = world.lost
      BY <2>2
    <2>7. /\ own' \in [at : [Servers -> {"off", "started", "armed", "bound", "listening",
                                         "returning"}],
                       starts : [Servers -> Nat]]
          /\ own'.at = [own.at EXCEPT ![s] = where]
      BY <2>5
    <2>8. SocketIsServed'
      BY <2>1, <2>3, <2>4, <2>6, <2>7
    <2>9. QED
      BY <2>1, <2>6, <2>7, <2>8
  <1>6. ASSUME NEW s \in Servers, remove_sock(s)
        PROVE  SocketInv'
    <2> DEFINE lost == world.lost \cup
                         {t \in Servers \ {s} : world.file = t /\ own.at[t] \in Serving}
    <2>1. /\ own' = [own EXCEPT !.at[s] = "off"]
          /\ world' = [world EXCEPT !.file = Nobody, !.left = FALSE, !.lost = lost]
          /\ program' = program /\ stage' = stage /\ handle' = handle
          /\ pending' = pending /\ memory' = memory
      BY <1>6 DEF remove_sock
    <2>2. \A t \in Servers \ {s} : own.at[t] \in Serving => t \in lost
      OBVIOUS
    <2>3. lost \subseteq Servers
      OBVIOUS
    <2> HIDE DEF lost
    <2>4. QED
      BY <2>1, <2>2, <2>3
  <1>7. ASSUME NEW s \in Servers, StartServer(s)
        PROVE  SocketInv'
    <2>1. /\ own.at[s] = "off"
          /\ own' = [at |-> [own.at EXCEPT ![s] = "started"],
                     starts |-> [own.starts EXCEPT ![s] = own.starts[s] + 1]]
          /\ UNCHANGED <<program, stage, handle, pending, memory, world>>
      BY <1>7 DEF StartServer
    <2>2. own' \in [at : [Servers -> {"off", "started", "armed", "bound", "listening",
                                     "returning"}],
                   starts : [Servers -> Nat]]
      BY <2>1
    <2>3. own'.at = [own.at EXCEPT ![s] = "started"]
      BY <2>1
    <2>4. QED
      BY <2>1, <2>2, <2>3
  <1>8. QED
    BY <1>1, <1>2, <1>3, <1>4, <1>5, <1>6, <1>7, OneProgram DEF SocketStep, SocketWorld

-----------------------------------------------------------------------------
(* The cgi server.                                                         *)

CgiTypes ==
  /\ stage \in {"setup", "loop", "failed", "done"}
  /\ handle \in [Handles -> States] /\ pending = <<>>
  /\ stage = "setup" => handle["server"] = "none"
  /\ own \in [data : Clients \cup {Nobody}]
  /\ world \in [conn : [Clients -> {"none", "waiting", "served", "forgotten", "gone",
                                    "answered"}],
                children : SUBSET Clients,
                mishap : SUBSET {"overlap", "spawn_failed"}]

\* What is in use is in memory, and so is the connection child_req.data names.
CgiMemory ==
  /\ Objects({"server", "child_req"}) \subseteq memory
  /\ memory \subseteq Objects({"server", "child_req"} \cup Clients)
  /\ \A h \in Handles : handle[h] # "none" => Object(h) \in memory
  /\ own.data # Nobody => Object(own.data) \in memory

\* While child_req has not been started twice there is at most one child,
\* child_req's, and none after a spawn that failed.
CgiChildren ==
  /\ \A c \in world.children : world.conn[c] = "served"
  /\ own.data = Nobody => world.children = {}
  /\ ~Overlap => \A c \in world.children : /\ handle["child_req"] = "active"
                                           /\ own.data = c /\ handle[c] = "idle"
  /\ ~Overlap /\ "spawn_failed" \in world.mishap => handle["child_req"] = "idle"
  /\ \A c \in Clients : world.conn[c] \in {"none", "waiting"} => handle[c] = "none"

CgiInv == program = "cgi" => CgiTypes /\ CgiMemory /\ CgiChildren

\* The cgi server starts without a child or a connection.
LEMMA CgiStarts == Init => CgiInv
  <1> SUFFICES ASSUME Init, program = "cgi"
               PROVE  CgiInv
    BY DEF CgiInv
  <1>1. CgiInit
    BY OneStart
  <1>2. QED
    BY <1>1, CgiAssumption
       DEF CgiInit, Begin, CgiInv, CgiTypes, CgiMemory, CgiChildren, Overlap, States, Objects

\* A child is started only when child_req is free, and then there is no
\* other child; the callback of its exit closes what data names.
LEMMA CgiKept == CgiInv /\ Next => CgiInv'
  <1> SUFFICES ASSUME CgiTypes, CgiMemory, CgiChildren, Next, program = "cgi"
               PROVE  CgiTypes' /\ CgiMemory' /\ CgiChildren'
    BY OneProgram DEF CgiInv
  <1> USE CgiAssumption
  <1> DEFINE Kept == CgiTypes' /\ CgiMemory' /\ CgiChildren'
  <1>1. CASE UvRunReturns
    BY <1>1 DEF UvRunReturns, CgiTypes, CgiMemory, CgiChildren, Overlap
  <1>2. ASSUME NEW h \in Handles, CloseCallback(h)
        PROVE  Kept
    <2>1. /\ handle[h] = "closing" /\ handle' = [handle EXCEPT ![h] = "closed"]
          /\ UNCHANGED <<stage, pending, memory, own, world>>
      BY <1>2 DEF CloseCallback, CloseDone, CgiTypes, Turn
    <2>2. CgiTypes'
      BY <2>1 DEF CgiTypes, States
    <2>3. CgiMemory'
      BY <2>1 DEF CgiTypes, CgiMemory
    <2>4. CgiChildren'
      BY <2>1 DEF CgiTypes, CgiChildren, Overlap
    <2>5. QED
      BY <2>2, <2>3, <2>4
  <1>3. CASE CgiMain
    <2>1. CgiTypes'
      BY <1>3 DEF CgiMain, CgiTypes, Turn, States
    <2>2. CgiMemory'
      BY <1>3 DEF CgiMain, CgiTypes, CgiMemory, Turn, Objects
    <2>3. CgiChildren'
      BY <1>3 DEF CgiMain, CgiTypes, CgiChildren, Overlap, Turn
    <2>4. QED
      BY <2>1, <2>2, <2>3
  <1>4. ASSUME NEW c \in Clients, Connect(c)
        PROVE  Kept
    BY <1>4 DEF Connect, CgiTypes, CgiMemory, CgiChildren, Overlap
  <1>n. ASSUME NEW c \in Clients, NotAccepted(c)
        PROVE  Kept
    BY <1>n DEF NotAccepted, CgiTypes, CgiMemory, CgiChildren, Overlap
  <1>5. ASSUME NEW c \in Clients, invoke_cgi_script(c)
        PROVE  Kept
    <2>1. /\ world.conn[c] = "waiting" /\ memory' = memory \cup {Object(c)}
          /\ own' = [data |-> c]
          /\ handle' = [[handle EXCEPT ![c] = "idle"] EXCEPT !["child_req"] = "active"]
          /\ world'.conn = [world.conn EXCEPT ![c] = "served"]
          /\ world'.children = world.children \cup {c}
          /\ world'.mishap = IF InUse THEN world.mishap \cup {"overlap"} ELSE world.mishap
          /\ UNCHANGED <<stage, pending>>
      BY <1>5 DEF invoke_cgi_script, Accepting, CgiTypes, Turn
    <2>2. world' \in [conn : [Clients -> {"none", "waiting", "served", "forgotten", "gone",
                                          "answered"}],
                      children : SUBSET Clients,
                      mishap : SUBSET {"overlap", "spawn_failed"}]
      BY <1>5 DEF invoke_cgi_script, CgiTypes
    <2>3. CgiTypes'
      BY <2>1, <2>2 DEF CgiTypes, States
    <2>4. CgiMemory'
      BY <2>1 DEF CgiTypes, CgiMemory, Objects
    <2>5. ~Overlap' => ~Overlap /\ ~InUse
      BY <2>1 DEF Overlap
    <2>6. ~Overlap' => world.children = {} /\ "spawn_failed" \notin world.mishap
      BY <2>5 DEF InUse, CgiChildren
    <2>7. CgiChildren'
      BY <2>1, <2>6 DEF CgiTypes, CgiChildren, Overlap
    <2>8. QED
      BY <2>3, <2>4, <2>7
  <1>6. ASSUME NEW c \in Clients, SpawnFails(c)
        PROVE  Kept
    <2>1. /\ world.conn[c] = "waiting" /\ memory' = memory \cup {Object(c)}
          /\ own' = [data |-> c]
          /\ handle' = [[handle EXCEPT ![c] = "idle"] EXCEPT !["child_req"] = "idle"]
          /\ world'.conn = [world.conn EXCEPT ![c] = "forgotten"]
          /\ world'.children = world.children
          /\ world' = [world EXCEPT !.conn[c] = "forgotten",
                                   !.mishap = @ \cup {IF InUse THEN "overlap"
                                                      ELSE "spawn_failed"}]
          /\ UNCHANGED <<stage, pending>>
      BY <1>6 DEF SpawnFails, Accepting, CgiTypes, Turn
    <2> DEFINE new == world.mishap \cup {IF InUse THEN "overlap" ELSE "spawn_failed"}
    <2>a. new \in SUBSET {"overlap", "spawn_failed"} /\ new # {}
      BY DEF CgiTypes
    <2>b. world' = [world EXCEPT !.conn[c] = "forgotten", !.mishap = new]
      BY <2>1
    <2> HIDE DEF new
    <2>c. world' \in [conn : [Clients -> {"none", "waiting", "served", "forgotten", "gone",
                                          "answered"}],
                      children : SUBSET Clients,
                      mishap : SUBSET {"overlap", "spawn_failed"}]
      BY <2>a, <2>b DEF CgiTypes
    <2>2. CgiTypes'
      BY <2>1, <2>c DEF CgiTypes, States
    <2>3. CgiMemory'
      BY <2>1 DEF CgiTypes, CgiMemory, Objects
    <2>d. /\ ~Overlap' => ~Overlap /\ ~InUse
          /\ world'.children = world.children /\ own'.data = c
      BY <2>1 DEF Overlap, CgiTypes
    <2>e. ~Overlap' => world.children = {}
      BY <2>d DEF InUse, CgiChildren
    <2>4. CgiChildren'
      BY <2>1, <2>d, <2>e DEF CgiTypes, CgiChildren, Overlap
    <2>5. QED
      BY <2>2, <2>3, <2>4
  <1>7. ASSUME NEW c \in Clients, AcceptFails(c)
        PROVE  Kept
    <2>1. /\ world.conn[c] = "waiting" /\ memory' = memory \cup {Object(c)}
          /\ handle' = [handle EXCEPT ![c] = "closing"]
          /\ world' = [world EXCEPT !.conn[c] = "gone"]
          /\ UNCHANGED <<stage, pending, own>>
      BY <1>7 DEF AcceptFails, Accepting, CgiTypes, Turn
    <2>2. CgiTypes'
      BY <2>1 DEF CgiTypes, States
    <2>3. CgiMemory'
      BY <2>1 DEF CgiTypes, CgiMemory, Objects
    <2>4. CgiChildren'
      BY <2>1 DEF CgiTypes, CgiChildren, Overlap
    <2>5. QED
      BY <2>2, <2>3, <2>4
  <1>8. ASSUME NEW c \in Clients, cleanup_handles(c)
        PROVE  Kept
    <2>1. /\ c \in world.children /\ own.data # Nobody
          /\ handle' = [[handle EXCEPT ![own.data] = "closing"]
                          EXCEPT !["child_req"] = "closing"]
          /\ world' = [world EXCEPT !.children = @ \ {c}, !.conn[c] = "answered"]
          /\ UNCHANGED <<stage, pending, memory, own>>
      BY <1>8 DEF cleanup_handles, CgiTypes, CgiChildren, Turn
    <2>a. /\ ~Overlap /\ own.data = c /\ world.children = {c} /\ c # "child_req"
          /\ "spawn_failed" \notin world.mishap
      BY <1>8 DEF cleanup_handles, CgiChildren
    <2>b. /\ world'.children = {} /\ world'.conn = [world.conn EXCEPT ![c] = "answered"]
          /\ world'.mishap = world.mishap
      BY <2>1, <2>a DEF CgiTypes
    <2>2. CgiTypes'
      BY <2>1 DEF CgiTypes, States
    <2>3. CgiMemory'
      BY <2>1 DEF CgiTypes, CgiMemory, Objects
    <2>4. CgiChildren'
      BY <2>1, <2>a, <2>b DEF CgiTypes, CgiChildren, Overlap
    <2>5. QED
      BY <2>2, <2>3, <2>4
  <1>9. QED
    BY <1>1, <1>2, <1>3, <1>4, <1>n, <1>5, <1>6, <1>7, <1>8, OneProgram
       DEF CgiStep, CgiWorld

-----------------------------------------------------------------------------
(* uvcat.                                                                  *)

UvcatRequests == {OpenReq, ReadReq, WriteReq}

UvcatTypes ==
  /\ stage \in {"setup", "loop", "done"}
  /\ Static({"open_req", "read_req", "write_req", "buffer"})
  /\ \A h \in Handles : handle[h] = "none"
  /\ pending \in {<<>>} \cup {<<r>> : r \in UvcatRequests}
  /\ own \in [len : 0 .. BufferSize, buffer : [1 .. BufferSize -> Nat],
              fd : {"none", "open", "closed"}]
  /\ world \in [rest : Seq(Nat), output : Seq(Nat), mishap : SUBSET {"short_write", "failed"}]

\* Byte i of s is byte n + i of the file, of which s has the rest.
RestOf(s, n) == Len(s) = FileSize - n /\ \A i \in 1 .. Len(s) : s[i] = n + i

\* The output, the bytes to be written and the bytes to be read make up the
\* file, until something fails.
UvcatBytes ==
  "short_write" \notin world.mishap =>
    /\ \A i \in 1 .. Len(world.output) : world.output[i] = i
    /\ Len(world.output) <= FileSize
    /\ pending = <<WriteReq>> =>
         /\ \A i \in 1 .. own.len : own.buffer[i] = Len(world.output) + i
         /\ Len(world.output) + own.len <= FileSize
         /\ RestOf(world.rest, Len(world.output) + own.len)
    /\ pending # <<WriteReq>> /\ "failed" \notin world.mishap =>
         RestOf(world.rest, Len(world.output))

\* Nothing is under way only before, at the end of the file, and after a
\* failure.
UvcatStages ==
  /\ stage = "setup" => "failed" \notin world.mishap
  /\ stage \in {"setup", "done"} => pending = <<>>
  /\ "failed" \in world.mishap => pending = <<>>
  /\ stage # "setup" /\ pending = <<>> /\ "failed" \notin world.mishap =>
       world.rest = <<>> /\ own.fd = "closed"

\* How much has been read.
HasRead == FileSize - Len(world.rest)

\* Even after a short write: what was put out comes before what is to be written,
\* which is what was read last.
UvcatOrder ==
  /\ Len(world.rest) <= FileSize /\ RestOf(world.rest, HasRead)
  /\ \A i, j \in 1 .. Len(world.output) : i < j => world.output[i] < world.output[j]
  /\ \A i \in 1 .. Len(world.output) : world.output[i] <= HasRead
  /\ pending = <<WriteReq>> =>
       /\ own.len <= HasRead
       /\ \A i \in 1 .. own.len : own.buffer[i] = (HasRead - own.len) + i
       /\ \A i \in 1 .. Len(world.output) : world.output[i] <= HasRead - own.len

UvcatInv == program = "uvcat" => UvcatTypes /\ UvcatBytes /\ UvcatOrder /\ UvcatStages

\* uvcat starts with the whole file to read.
LEMMA UvcatStarts == Init => UvcatInv
  <1> SUFFICES ASSUME Init, program = "uvcat"
               PROVE  UvcatInv
    BY DEF UvcatInv
  <1>1. UvcatInit
    BY OneStart
  <1>2. UvcatTypes
    BY <1>1, LoopAssumption, FileAssumption
       DEF UvcatInit, Begin, UvcatTypes, Static, States, Bytes
  <1>3. UvcatBytes
    BY <1>1, FileAssumption DEF UvcatInit, Begin, UvcatBytes, RestOf, Bytes
  <1>4. UvcatStages
    BY <1>1 DEF UvcatInit, Begin, UvcatStages
  <1>5. UvcatOrder
    BY <1>1, FileAssumption DEF UvcatInit, Begin, UvcatOrder, HasRead, RestOf, Bytes
  <1>6. QED
    BY <1>2, <1>3, <1>4, <1>5 DEF UvcatInv

\* There is one request at a time.
LEMMA UvcatCallback ==
  ASSUME UvcatTypes, NEW r \in UvcatRequests,
         NEW next \in {<<>>} \cup {<<q>> : q \in UvcatRequests},
         Callback(r, next)
  PROVE  /\ pending = <<r>> /\ pending' = next /\ stage = "loop"
         /\ UNCHANGED <<stage, handle, memory>>
  <1>1. PICK i \in DOMAIN pending : pending[i].req = r.req
    BY DEF Callback, Awaits
  <1>2. PICK q \in UvcatRequests : pending = <<q>>
    BY <1>1 DEF UvcatTypes
  <1>3. q = r
    BY <1>1, <1>2 DEF UvcatRequests, OpenReq, ReadReq, WriteReq, Request, Object
  <1>4. Without(r.req) = <<>>
    BY <1>2, <1>3, WithoutOnly
  <1>5. <<>> \o next = next
    OBVIOUS
  <1>6. QED
    BY <1>2, <1>3, <1>4, <1>5 DEF Callback, InLoop

\* The requests differ.
LEMMA UvcatDiffer ==
  /\ OpenReq # ReadReq /\ ReadReq # WriteReq /\ OpenReq # WriteReq
  /\ \A r, q \in UvcatRequests : <<r>> = <<q>> => r = q
  /\ \A r \in UvcatRequests : <<r>> # <<>>
  BY DEF OpenReq, ReadReq, WriteReq, Request, Object

\* A callback of uvcat takes as many bytes from one place as it puts in another.
LEMMA UvcatKept == UvcatInv /\ Next => UvcatInv'
  <1> SUFFICES ASSUME UvcatTypes, UvcatBytes, UvcatOrder, UvcatStages, Next,
                      program = "uvcat"
               PROVE  UvcatTypes' /\ UvcatBytes' /\ UvcatOrder' /\ UvcatStages'
    BY OneProgram DEF UvcatInv
  <1> USE LoopAssumption, FileAssumption
  <1> DEFINE Kept == UvcatTypes' /\ UvcatBytes' /\ UvcatOrder' /\ UvcatStages'
             Static4 == Static({"open_req", "read_req", "write_req", "buffer"})
  <1>1. CASE UvRunReturns
    <2>1. stage' = "done" /\ pending = <<>> /\ UNCHANGED <<handle, pending, memory, own, world>>
          /\ stage = "loop"
      BY <1>1 DEF UvRunReturns, LoopAlive
    <2>2. QED
      BY <2>1, UvcatDiffer
         DEF UvcatTypes, UvcatBytes, UvcatOrder, HasRead, UvcatStages, Static, RestOf
  <1>2. ASSUME NEW h \in Handles, CloseCallback(h)
        PROVE  Kept
    BY <1>2 DEF CloseCallback, CloseDone, UvcatTypes
  <1>3. CASE UvcatMain
    <2>1. /\ stage = "setup" /\ stage' = "loop" /\ pending' = <<OpenReq>> /\ pending = <<>>
          /\ UNCHANGED <<handle, memory, own, world>>
      BY <1>3 DEF UvcatMain, Setup, UvcatStages
    <2>2. UvcatTypes'
      BY <2>1 DEF UvcatTypes, Static, UvcatRequests
    <2>3. UvcatBytes'
      BY <2>1, UvcatDiffer DEF UvcatBytes, RestOf, UvcatRequests
    <2>4. "failed" \notin world.mishap
      BY <2>1 DEF UvcatStages
    <2>o. UvcatOrder'
      BY <2>1, UvcatDiffer DEF UvcatOrder, HasRead, RestOf, UvcatRequests
    <2>5. QED
      BY <2>1, <2>2, <2>3, <2>4, <2>o, UvcatDiffer DEF UvcatStages, UvcatRequests
  <1>4. CASE on_open
    <2>1. /\ pending = <<OpenReq>> /\ pending' = <<ReadReq>> /\ stage = "loop"
          /\ UNCHANGED <<stage, handle, memory>>
      BY <1>4, UvcatCallback DEF on_open, UvcatRequests
    <2>2. own' = [own EXCEPT !.len = BufferSize, !.fd = "open"] /\ world' = world
      BY <1>4 DEF on_open
    <2>a. own' = [len |-> BufferSize, buffer |-> own.buffer, fd |-> "open"]
      BY <2>2 DEF UvcatTypes
    <2>3. UvcatTypes'
      BY <2>1, <2>2, <2>a DEF UvcatTypes, Static, UvcatRequests
    <2>4. UvcatBytes'
      BY <2>1, <2>2, UvcatDiffer DEF UvcatBytes, RestOf, UvcatRequests
    <2>o. UvcatOrder'
      BY <2>1, <2>2, UvcatDiffer DEF UvcatOrder, HasRead, RestOf, UvcatRequests
    <2>5. QED
      BY <2>1, <2>2, <2>3, <2>4, <2>o, UvcatDiffer DEF UvcatStages, UvcatRequests
  <1>5. ASSUME NEW n \in 1 .. BufferSize, OnReadBytes(n)
        PROVE  Kept
    <2> DEFINE m == Len(world.output)
               rest == SubSeq(world.rest, n + 1, Len(world.rest))
    <2>1. /\ pending = <<ReadReq>> /\ pending' = <<WriteReq>> /\ stage = "loop"
          /\ UNCHANGED <<stage, handle, memory>>
      BY <1>5, UvcatCallback DEF OnReadBytes, UvcatRequests
    <2>a. DOMAIN own.buffer = 1 .. BufferSize
      BY DEF UvcatTypes
    <2>2. /\ n <= own.len /\ n <= Len(world.rest) /\ n \in Nat
          /\ own' = [own EXCEPT !.len = n,
                       !.buffer = [i \in 1 .. BufferSize |->
                                     IF i <= n THEN world.rest[i] ELSE own.buffer[i]]]
          /\ world' = [world EXCEPT !.rest = rest]
      BY <1>5, <2>a DEF OnReadBytes
    <2>3. /\ world.rest \in Seq(Nat) /\ world.output \in Seq(Nat)
          /\ own.buffer \in [1 .. BufferSize -> Nat] /\ "failed" \notin world.mishap
      BY <2>1, UvcatDiffer DEF UvcatTypes, UvcatStages, UvcatRequests
    <2>4. /\ rest \in Seq(Nat) /\ Len(rest) = Len(world.rest) - n
          /\ \A i \in 1 .. Len(world.rest) - n : rest[i] = world.rest[n + i]
      BY <2>2, <2>3, RestIs
    <2> HIDE DEF rest
    <2>5. [i \in 1 .. BufferSize |-> IF i <= n THEN world.rest[i] ELSE own.buffer[i]]
            \in [1 .. BufferSize -> Nat]
      BY SMTT(30), <2>2, <2>3
    <2>b. own' \in [len : 0 .. BufferSize, buffer : [1 .. BufferSize -> Nat],
                   fd : {"none", "open", "closed"}]
      <3> DEFINE read == [i \in 1 .. BufferSize |->
                            IF i <= n THEN world.rest[i] ELSE own.buffer[i]]
      <3>1. read \in [1 .. BufferSize -> Nat] /\ own' = [own EXCEPT !.len = n, !.buffer = read]
        BY <2>2, <2>5
      <3> HIDE DEF read
      <3>2. own' = [len |-> n, buffer |-> read, fd |-> own.fd]
        BY <3>1 DEF UvcatTypes
      <3>3. n \in 0 .. BufferSize /\ own.fd \in {"none", "open", "closed"}
        BY DEF UvcatTypes
      <3>4. QED
        BY <3>1, <3>2, <3>3
    <2>c. world' \in [rest : Seq(Nat), output : Seq(Nat),
                     mishap : SUBSET {"short_write", "failed"}]
      BY <2>2, <2>4 DEF UvcatTypes
    <2>6. UvcatTypes'
      BY <2>1, <2>b, <2>c DEF UvcatTypes, Static, UvcatRequests
    <2>7. UvcatBytes'
      <3> SUFFICES ASSUME "short_write" \notin world.mishap
                   PROVE  UvcatBytes'
        BY <2>2 DEF UvcatBytes, UvcatTypes
      <3>1. /\ m \in Nat /\ m <= FileSize /\ Len(world.rest) = FileSize - m
            /\ \A i \in 1 .. Len(world.rest) : world.rest[i] = m + i
            /\ \A i \in 1 .. m : world.output[i] = i
        BY <2>1, <2>3, UvcatDiffer DEF UvcatBytes, RestOf, UvcatRequests
      <3>2. world'.output = world.output /\ world'.rest = rest /\ own'.len = n
        BY <2>2 DEF UvcatTypes
      <3>3. ASSUME NEW i \in 1 .. n
            PROVE  own'.buffer[i] = m + i
        BY SMTT(30), <2>2, <3>1 DEF UvcatTypes
      <3> HIDE DEF m
      <3>4. m + n <= FileSize /\ Len(rest) = FileSize - (m + n)
        BY <2>2, <2>4, <3>1
      <3>5. ASSUME NEW i \in 1 .. Len(rest)
            PROVE  rest[i] = (m + n) + i
        <4>1. n + i \in 1 .. Len(world.rest) /\ i \in 1 .. Len(world.rest) - n
          BY SMTT(30), <2>2, <2>4, <3>1
        <4>2. rest[i] = m + (n + i)
          BY <2>4, <3>1, <4>1
        <4>3. QED
          BY <4>2, <3>1, <2>2
      <3>6. RestOf(rest, m + n)
        BY <3>4, <3>5 DEF RestOf
      <3>7. QED
        BY <2>1, <3>1, <3>2, <3>3, <3>4, <3>6, UvcatDiffer DEF UvcatBytes, UvcatRequests, m, RestOf
    <2>o. UvcatOrder'
      <3> DEFINE p == HasRead
      <3>1. /\ p \in Nat /\ Len(world.rest) \in Nat /\ Len(world.rest) = FileSize - p
            /\ \A i \in 1 .. Len(world.rest) : world.rest[i] = p + i
            /\ \A i \in 1 .. Len(world.output) : world.output[i] \in Nat /\ world.output[i] <= p
        BY <2>3 DEF UvcatOrder, HasRead, RestOf
      <3>2. /\ world'.output = world.output /\ world'.rest = rest /\ own'.len = n
            /\ \A i \in 1 .. n : own'.buffer[i] = world.rest[i]
        BY <2>2 DEF UvcatTypes
      <3>3. HasRead' = p + n /\ Len(rest) <= FileSize
        <4>1. HasRead' = FileSize - (Len(world.rest) - n) /\ Len(rest) <= FileSize
          BY <2>2, <2>4, <3>1, <3>2 DEF HasRead
        <4>2. FileSize - (Len(world.rest) - n) = (FileSize - Len(world.rest)) + n
          BY <2>2, <3>1
        <4>3. QED
          BY <4>1, <4>2 DEF HasRead
      <3> HIDE DEF p
      <3>4. ASSUME NEW i \in 1 .. Len(rest)
            PROVE  rest[i] = (p + n) + i
        <4>1. n + i \in 1 .. Len(world.rest) /\ i \in 1 .. Len(world.rest) - n
          BY SMTT(30), <2>2, <2>4, <3>1
        <4>2. rest[i] = p + (n + i)
          BY <2>4, <3>1, <4>1
        <4>3. QED
          BY <4>2, <3>1, <2>2
      <3>5. RestOf(rest, p + n)
        BY <3>4, <2>2, <2>4, <3>1 DEF RestOf
      <3>n. n \in Nat /\ n <= Len(world.rest)
        BY <2>2
      <3>6. ASSUME NEW i \in 1 .. n
            PROVE  own'.buffer[i] = p + i
        <4>1. i \in 1 .. Len(world.rest)
          BY <3>n, <3>1
        <4>2. world.rest[i] = p + i /\ own'.buffer[i] = world.rest[i]
          BY <3>1, <3>2, <4>1
        <4>3. QED
          BY <4>2
      <3>7. RestOf(world.rest, HasRead)'
        BY <3>2, <3>3, <3>5 DEF RestOf
      <3>8. (p + n) - n = p /\ n <= p + n
        BY <3>n, <3>1
      <3>9. \A i \in 1 .. Len(world.output) : world.output[i] <= p + n
        BY <3>n, <3>1
      <3>10. QED
        BY <3>1, <3>2, <3>3, <3>6, <3>7, <3>8, <3>9 DEF UvcatOrder
    <2>8. QED
      BY <2>1, <2>2, <2>3, <2>6, <2>7, <2>o, UvcatDiffer
         DEF UvcatStages, UvcatRequests, UvcatTypes
  <1>6. ASSUME NEW n \in 1 .. BufferSize, OnWriteBytes(n)
        PROVE  Kept
    <2> DEFINE old == world.output
               m == Len(old)
               text == SubSeq(own.buffer, 1, n)
               output == old \o text
               mishap == IF n < own.len THEN world.mishap \cup {"short_write"} ELSE world.mishap
    <2>1. /\ pending = <<WriteReq>> /\ pending' = <<ReadReq>> /\ stage = "loop"
          /\ UNCHANGED <<stage, handle, memory>>
      BY <1>6, UvcatCallback DEF OnWriteBytes, UvcatRequests
    <2>2. /\ n <= own.len /\ n \in Nat /\ own' = own
          /\ world' = [world EXCEPT !.output = output, !.mishap = mishap]
      BY <1>6 DEF OnWriteBytes
    <2>3. /\ world.rest \in Seq(Nat) /\ old \in Seq(Nat) /\ own.len \in 0 .. BufferSize
          /\ own.buffer \in [1 .. BufferSize -> Nat] /\ "failed" \notin world.mishap
      BY <2>1, UvcatDiffer DEF UvcatTypes, UvcatStages, UvcatRequests
    <2>4. own.buffer \in Seq(Nat) /\ Len(own.buffer) = BufferSize /\ n <= BufferSize
      BY <2>2, <2>3, ArrayIs
    <2>5. /\ text \in Seq(Nat) /\ Len(text) = n
          /\ \A i \in 1 .. n : text[i] = own.buffer[i]
      <3>1. n \in Nat /\ n <= Len(own.buffer)
        BY <2>2, <2>4
      <3>2. QED
        BY Zenon, <2>4, <3>1, FirstIs
    <2> HIDE DEF text, old
    <2>6. /\ output \in Seq(Nat) /\ Len(output) = m + n
          /\ \A i \in 1 .. m + n : output[i] = IF i <= m THEN old[i] ELSE text[i - m]
      <3>1. /\ output \in Seq(Nat) /\ Len(output) = m + Len(text)
            /\ \A i \in 1 .. m + Len(text) :
                 output[i] = IF i <= m THEN old[i] ELSE text[i - m]
        BY <2>3, <2>5, ConcatIs
      <3>2. QED
        BY <2>5, <3>1
    <2> HIDE DEF output
    <2>7. mishap \in SUBSET {"short_write", "failed"} /\ "failed" \notin mishap
      BY <2>3 DEF UvcatTypes
    <2>8. UvcatTypes'
      BY <2>1, <2>2, <2>6, <2>7 DEF UvcatTypes, Static, UvcatRequests
    <2>9. UvcatBytes'
      <3>1. world'.mishap = mishap /\ world'.output = output /\ world'.rest = world.rest
        BY <2>2 DEF UvcatTypes
      <3> SUFFICES ASSUME "short_write" \notin mishap
                   PROVE  UvcatBytes'
        BY <3>1 DEF UvcatBytes
      <3>2. n = own.len /\ "short_write" \notin world.mishap
        BY <2>2, <2>3
      <3>3. /\ m \in Nat /\ n \in Nat /\ m + n <= FileSize /\ Len(world.rest) = FileSize - (m + n)
            /\ \A i \in 1 .. Len(world.rest) : world.rest[i] = (m + n) + i
            /\ \A i \in 1 .. m : old[i] = i
            /\ \A i \in 1 .. n : own.buffer[i] = m + i
        BY <2>1, <2>2, <2>3, <3>2 DEF UvcatBytes, RestOf, old
      <3> HIDE DEF m, mishap
      <3>4. ASSUME NEW i \in 1 .. m + n
            PROVE  output[i] = i
        <4>1. CASE i <= m
          <5>1. i \in 1 .. m
            BY <3>3, <4>1
          <5>2. old[i] = i
            BY <3>3, <5>1
          <5>3. output[i] = old[i]
            BY <2>6, <4>1
          <5>4. QED
            BY <5>2, <5>3
        <4>2. CASE ~(i <= m)
          <5>1. i - m \in 1 .. n /\ m + (i - m) = i
            BY <3>3, <4>2
          <5>2. QED
            BY <2>5, <2>6, <3>3, <4>2, <5>1
        <4>3. QED
          BY <4>1, <4>2
      <3>5. RestOf(world.rest, m + n)
        BY <3>3 DEF RestOf
      <3>6. QED
        BY <2>1, <2>6, <3>1, <3>3, <3>4, <3>5, UvcatDiffer DEF UvcatBytes, UvcatRequests, RestOf
    <2>o. UvcatOrder'
      <3> DEFINE p == HasRead
                 q == p - own.len
      <3>1. world'.output = output /\ world'.rest = world.rest
        BY <2>2 DEF UvcatTypes
      <3>2. HasRead' = p /\ RestOf(world.rest, p) /\ Len(world.rest) <= FileSize
        BY <3>1 DEF HasRead, UvcatOrder
      <3>3. p \in Int /\ q \in Int /\ q + own.len = p
        BY <2>3 DEF HasRead
      <3>4. /\ \A i, j \in 1 .. m : i < j => old[i] < old[j]
            /\ \A i \in 1 .. m : old[i] \in Nat /\ old[i] <= q
            /\ \A i \in 1 .. own.len : own.buffer[i] = q + i
        BY <2>1, <2>3 DEF UvcatOrder, old
      <3>m. m \in Nat
        BY <2>3
      <3>n. n \in Nat /\ own.len \in Nat /\ n <= own.len
        BY <2>2, <2>3
      <3> HIDE DEF p, q, m
      <3>5. ASSUME NEW i \in 1 .. n
            PROVE  text[i] = q + i
        <4>1. i \in 1 .. own.len
          BY <3>n
        <4>2. text[i] = own.buffer[i] /\ own.buffer[i] = q + i
          BY <2>5, <3>4, <4>1
        <4>3. QED
          BY <4>2
      <3>6. ASSUME NEW i \in 1 .. m + n
            PROVE  output[i] = IF i <= m THEN old[i] ELSE q + (i - m)
        <4>1. output[i] = IF i <= m THEN old[i] ELSE text[i - m]
          BY <2>6 DEF m
        <4>2. ~(i <= m) => i - m \in 1 .. n
          BY <3>n, <3>m
        <4>3. QED
          BY <3>5, <4>1, <4>2
      <3>7. ASSUME NEW i \in 1 .. m + n
            PROVE  output[i] <= p
        <4>1. CASE i <= m
          <5>1. i \in 1 .. m
            BY <3>m, <4>1
          <5>2. old[i] <= q /\ old[i] \in Nat /\ output[i] = old[i]
            BY <3>4, <3>6, <4>1, <5>1
          <5>3. QED
            BY <3>n, <3>3, <5>2
        <4>2. CASE ~(i <= m)
          BY <3>n, <3>m, <3>3, <3>6, <4>2
        <4>3. QED
          BY <4>1, <4>2
      <3>8. \A i, j \in 1 .. m + n : i < j => output[i] < output[j]
        <4> SUFFICES ASSUME NEW i \in 1 .. m + n, NEW j \in 1 .. m + n, i < j
                     PROVE  output[i] < output[j]
          OBVIOUS
        <4>1. /\ output[i] = IF i <= m THEN old[i] ELSE q + (i - m)
              /\ output[j] = IF j <= m THEN old[j] ELSE q + (j - m)
          BY <3>6
        <4>2. CASE j <= m
          <5>1. i \in 1 .. m /\ j \in 1 .. m /\ i <= m
            BY <3>m, <4>2, <2>2
          <5>2. old[i] < old[j]
            BY <3>4, <5>1
          <5>3. QED
            BY <4>1, <4>2, <5>1, <5>2
        <4>3. CASE ~(j <= m) /\ i <= m
          <5>1. i \in 1 .. m
            BY <3>m, <4>3
          <5>2. old[i] <= q /\ old[i] \in Nat
            BY <3>4, <5>1
          <5>3. output[i] = old[i] /\ output[j] = q + (j - m)
            BY <4>1, <4>3
          <5>4. QED
            BY <3>m, <3>3, <4>3, <5>2, <5>3, <2>2
        <4>4. CASE ~(i <= m)
          BY <4>1, <4>4, <3>m, <3>3, <2>2
        <4>5. QED
          BY <4>2, <4>3, <4>4
      <3>9. ReadReq # WriteReq /\ <<ReadReq>> # <<WriteReq>>
        BY UvcatDiffer DEF UvcatRequests
      <3>r. RestOf(world.rest, HasRead)'
        BY <3>1, <3>2 DEF RestOf
      <3>10. QED
        BY <2>1, <2>6, <3>1, <3>2, <3>7, <3>8, <3>9, <3>r DEF UvcatOrder
    <2>10. QED
      BY <2>1, <2>2, <2>7, <2>8, <2>9, <2>o, UvcatDiffer
         DEF UvcatStages, UvcatRequests, UvcatTypes
  <1>7. CASE OnReadEnd
    <2>1. /\ pending = <<ReadReq>> /\ pending' = <<>> /\ stage = "loop"
          /\ UNCHANGED <<stage, handle, memory>>
      BY <1>7, UvcatCallback DEF OnReadEnd, UvcatRequests
    <2>2. world.rest = <<>> /\ own' = [own EXCEPT !.fd = "closed"] /\ world' = world
      BY <1>7 DEF OnReadEnd
    <2>3. UvcatTypes'
      BY <2>1, <2>2 DEF UvcatTypes, Static, UvcatRequests
    <2>4. UvcatBytes'
      BY <2>1, <2>2, UvcatDiffer DEF UvcatBytes, RestOf, UvcatRequests
    <2>o. UvcatOrder'
      BY <2>1, <2>2, UvcatDiffer DEF UvcatOrder, HasRead, RestOf, UvcatRequests
    <2>5. QED
      BY <2>1, <2>2, <2>3, <2>4, <2>o, UvcatDiffer DEF UvcatStages, UvcatRequests, UvcatTypes
  <1>8. ASSUME NEW r \in UvcatRequests, OnError(r)
        PROVE  Kept
    <2>1. /\ pending = <<r>> /\ pending' = <<>> /\ stage = "loop"
          /\ UNCHANGED <<stage, handle, memory>>
      BY <1>8, UvcatCallback DEF OnError
    <2>2. world' = [world EXCEPT !.mishap = @ \cup {"failed"}] /\ own' = own
      BY <1>8 DEF OnError, Mishap
    <2>3. UvcatTypes'
      BY <2>1, <2>2 DEF UvcatTypes, Static, UvcatRequests
    <2>4. UvcatBytes'
      BY <2>1, <2>2, UvcatDiffer DEF UvcatBytes, RestOf, UvcatRequests, UvcatTypes
    <2>o. UvcatOrder'
      BY <2>1, <2>2, UvcatDiffer DEF UvcatOrder, HasRead, RestOf, UvcatRequests, UvcatTypes
    <2>5. QED
      BY <2>1, <2>2, <2>3, <2>4, <2>o, UvcatDiffer DEF UvcatStages, UvcatTypes
  <1>9. QED
    BY <1>1, <1>2, <1>3, <1>4, <1>5, <1>6, <1>7, <1>8, OneProgram DEF UvcatStep, UvcatRequests

-----------------------------------------------------------------------------
(* dns.                                                                    *)

DnsInv ==
  program = "dns" =>
  /\ stage \in {"setup", "loop", "failed", "done"}
  /\ handle \in [Handles -> States] /\ \A h \in Handles \ {"socket"} : handle[h] = "none"
  /\ pending \in {<<>>, <<Resolve>>, <<Connecting>>}
  /\ memory \subseteq Objects({"resolver", "connect_req", "socket"})
  /\ own \in [printed : Nat]
  /\ world \in [peer : {"up", "unknown", "refused", "gone"}, mishap : SUBSET {"peer_ended"}]
  /\ Object("resolver") \in memory
  /\ stage = "setup" => pending = <<>>
  /\ pending = <<Resolve>> \/ stage = "setup" => handle["socket"] = "none"
  /\ pending = <<Connecting>> => Object("connect_req") \in memory /\ handle["socket"] = "idle"
  /\ "peer_ended" \notin world.mishap /\ handle["socket"] # "none" =>
       Object("socket") \in memory

\* dns starts with its resolver request alone.
LEMMA DnsStarts == Init => DnsInv
  <1> SUFFICES ASSUME Init, program = "dns"
               PROVE  DnsInv
    BY DEF DnsInv
  <1>1. DnsInit
    BY OneStart
  <1>2. QED
    BY <1>1, DnsAssumption DEF DnsInit, Begin, DnsInv, States, Objects

\* The socket is freed only by the callback after which nothing is defined,
\* and the request by its own.
LEMMA DnsKept == DnsInv /\ Next => DnsInv'
  <1> SUFFICES ASSUME DnsInv, Next, program = "dns"
               PROVE  DnsInv'
    BY OneProgram DEF DnsInv
  <1> USE DnsAssumption DEF DnsInv, InLoop
  <1>1. CASE UvRunReturns
    BY <1>1 DEF UvRunReturns
  <1>2. ASSUME NEW h \in Handles, CloseCallback(h)
        PROVE  DnsInv'
    <2>1. handle' = [handle EXCEPT ![h] = "closed"] /\ handle[h] = "closing"
          /\ UNCHANGED <<program, stage, pending, memory, own, world>>
      BY <1>2 DEF CloseCallback, CloseDone, Turn
    <2>2. QED
      BY <2>1 DEF States
  <1>3. Connecting # Resolve
    BY DEF Connecting, Resolve, Request, Object
  <1>4. CASE DnsMain
    BY SMTT(30), <1>3, <1>4 DEF DnsMain, Setup
  <1>5. CASE on_resolved
    <2>1. handle' = [handle EXCEPT !["socket"] = "idle"]
      BY <1>5 DEF on_resolved, Turn
    <2>2. /\ pending' \in {<<Connecting>>, <<>>}
          /\ memory' = memory \cup {Object("connect_req"), Object("socket")}
          /\ UNCHANGED <<program, stage, own, world>>
      BY <1>5 DEF on_resolved, DnsCallback, Objects
    <2>3. \A r : r = Resolve => <<Connecting>> # <<r>> /\ <<r>> # <<>>
      BY <1>3
    <2>4. pending' # <<Resolve>> /\ stage = "loop"
      BY <1>5, <2>2, <2>3 DEF on_resolved, DnsCallback
    <2>5. QED
      BY <2>1, <2>2, <2>4 DEF States, Objects
  <1>6. CASE ResolveFails
    BY <1>6 DEF ResolveFails, DnsCallback
  <1>7. CASE on_connect \/ ConnectFails
    <2>1. /\ pending = <<Connecting>> /\ pending' = <<>>
          /\ memory' = memory \ {Object("connect_req")}
          /\ UNCHANGED <<program, stage, own>>
      <3>1. Awaits(Connecting.req) /\ Connecting.req = Object("connect_req")
        BY <1>7 DEF on_connect, ConnectFails, DnsCallback, Connecting, Request
      <3>2. Resolve.req # Object("connect_req")
        BY DEF Resolve, Request, Object
      <3>3. QED
        BY <1>7, <3>1, <3>2 DEF on_connect, ConnectFails, DnsCallback, Awaits
    <2>2. Object("resolver") # Object("connect_req") /\ Object("socket") # Object("connect_req")
      BY DEF Object
    <2>3. CASE on_connect
      <3>1. handle' = [handle EXCEPT !["socket"] = "active"] /\ world' = world
        BY <2>3 DEF on_connect, Turn
      <3>2. "peer_ended" \notin world.mishap => Object("socket") \in memory'
        BY <2>1, <2>2
      <3>3. QED
        BY <2>1, <2>2, <3>1, <3>2 DEF States
    <2>4. CASE ConnectFails
      BY <2>1, <2>2, <2>4 DEF ConnectFails
    <2>5. QED
      BY <1>7, <2>3, <2>4
  <1>8. CASE OnReadData
    BY <1>8 DEF OnReadData, DnsReading
  <1>9. CASE OnReadFails
    <2>1. /\ handle["socket"] = "active" /\ handle' = [handle EXCEPT !["socket"] = "closing"]
          /\ memory' = memory \ {Object("socket")}
          /\ UNCHANGED <<program, stage, pending, own>>
          /\ world' = [world EXCEPT !.mishap = @ \cup {"peer_ended"}, !.peer = "gone"]
      BY <1>9 DEF OnReadFails, DnsReading, Turn, Mishap
    <2>2. Object("resolver") # Object("socket") /\ Object("connect_req") # Object("socket")
      BY DEF Object
    <2>3. QED
      BY <2>1, <2>2 DEF States
  <1>10. QED
    BY <1>1, <1>2, <1>4, <1>5, <1>6, <1>7, <1>8, <1>9, OneProgram DEF DnsStep, DnsWorld

-----------------------------------------------------------------------------
(* udp-dhcp.                                                               *)

DhcpInv ==
  program = "udp-dhcp" =>
  /\ stage \in {"setup", "loop", "crashed", "done"}
  /\ handle \in [Handles -> States]
  /\ \A h \in Handles \ {"recv_socket", "send_socket"} : handle[h] = "none"
  /\ handle["send_socket"] = IF stage = "setup" THEN "none" ELSE "idle"
  /\ handle["recv_socket"] \in
       IF stage = "setup" THEN {"none"} ELSE {"active", "idle", "closing", "closed"}
  /\ pending \in {<<>>, <<Send>>}
  /\ memory \subseteq Objects({"recv_socket", "send_socket", "send_req", "discover_msg"})
  /\ Objects({"recv_socket", "send_socket", "send_req"}) \subseteq memory
  /\ pending # <<>> => make_discover_msg \in memory
  /\ own \in [receives : BOOLEAN]
  /\ ~own.receives => handle["recv_socket"] \in {"none", "idle"}
  /\ world \in [answers : Nat, sent : BOOLEAN, mishap : SUBSET {"nothing_to_read"}]
  /\ world.answers = IF own.receives /\ handle["recv_socket"] = "idle" THEN 1 ELSE 0
  /\ stage = "done" => pending = <<>> /\ handle["recv_socket"] \in {"idle", "closed"}

\* udp-dhcp starts without a message.
LEMMA DhcpStarts == Init => DhcpInv
  <1> SUFFICES ASSUME Init, program = "udp-dhcp"
               PROVE  DhcpInv
    BY DEF DhcpInv
  <1>1. DhcpInit
    BY OneStart
  <1>2. QED
    BY <1>1, DhcpAssumption DEF DhcpInit, Begin, DhcpInv, States, Objects

\* The first datagram stops the reading, so there is no second.
LEMMA DhcpKept == DhcpInv /\ Next => DhcpInv'
  <1> SUFFICES ASSUME DhcpInv, Next, program = "udp-dhcp"
               PROVE  DhcpInv'
    BY OneProgram DEF DhcpInv
  <1> USE DhcpAssumption DEF DhcpInv, InLoop
  <1>1. CASE UvRunReturns
    BY <1>1 DEF UvRunReturns, LoopAlive
  <1>2. ASSUME NEW h \in Handles, CloseCallback(h)
        PROVE  DhcpInv'
    <2>1. /\ handle' = [handle EXCEPT ![h] = "closed"] /\ handle[h] = "closing"
          /\ stage = "loop"
          /\ UNCHANGED <<program, stage, pending, memory, own, world>>
      BY <1>2 DEF CloseCallback, CloseDone, Turn
    <2>2. h = "recv_socket"
      BY <2>1
    <2>3. QED
      BY <2>1, <2>2 DEF States
  <1>3. CASE DhcpMain
    <2>1. /\ stage = "setup" /\ stage' = "loop"
          /\ memory' = memory \cup {Object("discover_msg")} /\ pending' \in {<<Send>>, <<>>}
          /\ UNCHANGED <<program, world>>
      BY <1>3 DEF DhcpMain, Setup, make_discover_msg
    <2>2. PICK r \in BOOLEAN :
            /\ own' = [receives |-> r]
            /\ handle' = [[handle EXCEPT !["send_socket"] = "idle"]
                            EXCEPT !["recv_socket"] = IF r THEN "active" ELSE "idle"]
      BY <1>3 DEF DhcpMain, Turn
    <2>3. CASE r
      BY <2>1, <2>2, <2>3 DEF States, Objects, make_discover_msg
    <2>4. CASE ~r
      BY <2>1, <2>2, <2>4 DEF States, Objects, make_discover_msg
    <2>5. QED
      BY <2>3, <2>4
  <1>4. CASE on_send
    BY <1>4 DEF on_send
  <1>5. CASE OnReadDatagram \/ OnReadError
    <2>1. /\ handle["recv_socket"] = "active" /\ stage = "loop"
          /\ UNCHANGED <<program, stage, pending, memory, own>>
      BY <1>5 DEF OnReadDatagram, OnReadError, Receiving
    <2>2. CASE OnReadDatagram
      <3>1. /\ handle' = [handle EXCEPT !["recv_socket"] = "idle"]
            /\ world' = [world EXCEPT !.answers = @ + 1]
        BY <2>2 DEF OnReadDatagram, Turn
      <3>2. QED
        BY <2>1, <3>1 DEF States
    <2>3. CASE OnReadError
      <3>1. handle' = [handle EXCEPT !["recv_socket"] = "closing"] /\ world' = world
        BY <2>3 DEF OnReadError, Turn
      <3>2. QED
        BY <2>1, <3>1 DEF States
    <2>4. QED
      BY <1>5, <2>2, <2>3
  <1>6. CASE OnReadNothing
    BY <1>6 DEF OnReadNothing, Receiving, Mishap
  <1>7. QED
    BY <1>1, <1>2, <1>3, <1>4, <1>5, <1>6, OneProgram DEF DhcpStep, DhcpWorld

-----------------------------------------------------------------------------
(* tty-gravity and tty.                                                    *)

Drawing == Request(Object("write_req"), "tty", Object("tty"))
Blocked == Request(Object("write_req"), "tty", Object("data"))

GravityTypes ==
  /\ stage \in {"setup", "loop", "failed", "crashed", "done"}
  /\ Static({"tty", "tick", "write_req"})
  /\ pending \in Seq({Drawing, Blocked})
  /\ own \in [pos : Nat, mode : {"set", "reset"}]
  /\ world \in [drawn : Nat, mishap : SUBSET {"tty_stopped", "not_a_terminal"}]

\* The animation is in force while the timer is active, and goes on to the
\* line below the last.
GravityLines ==
  /\ \A h \in Handles : handle[h] # "closing"
  /\ handle["tick"] \in
       CASE stage \in {"setup", "failed", "crashed"} -> {"none"}
         [] stage = "loop" -> {"active", "idle"}
         [] stage = "done" -> {"idle"}
  /\ stage = "setup" => own.pos = 0 /\ own.mode = "set" /\ handle["tty"] = "none"
  /\ handle["tick"] = "active" => own.pos <= Height
  /\ handle["tick"] = "idle" => own.pos = Height + 1 /\ own.mode = "reset"
  /\ NoMishap => world.drawn = own.pos
  /\ "tty_stopped" \notin world.mishap => pending \in {<<>>, <<Drawing>>}

GravityInv == program = "tty-gravity" => GravityTypes /\ GravityLines

\* tty-gravity starts with nothing drawn.
LEMMA GravityStarts == Init => GravityInv
  <1> SUFFICES ASSUME Init, program = "tty-gravity"
               PROVE  GravityInv
    BY DEF GravityInv
  <1>1. GravityInit
    BY OneStart
  <1>2. QED
    BY <1>1, TtyAssumption
       DEF GravityInit, Begin, GravityInv, GravityTypes, GravityLines, Static, States

\* A tick of tty-gravity goes one line on, and the last one ends the timer.
LEMMA GravityKept == GravityInv /\ Next => GravityInv'
  <1> SUFFICES ASSUME GravityTypes, GravityLines, Next, program = "tty-gravity"
               PROVE  GravityTypes' /\ GravityLines'
    BY OneProgram DEF GravityInv
  <1> USE TtyAssumption DEF InLoop
  <1> DEFINE Kept == GravityTypes' /\ GravityLines'
  <1>1. CASE UvRunReturns
    BY <1>1 DEF UvRunReturns, LoopAlive, GravityTypes, GravityLines, Static, NoMishap
  <1>2. ASSUME NEW h \in Handles, CloseCallback(h)
        PROVE  Kept
    BY <1>2 DEF CloseCallback, CloseDone, GravityLines
  <1>3. CASE GravityMain
    <2>1. /\ stage = "setup" /\ UNCHANGED <<program, pending, memory>>
          /\ handle["tick"] = "none" /\ own.pos = 0 /\ own.mode = "set"
      BY <1>3 DEF GravityMain, Setup, GravityLines
    <2>2. CASE /\ stage' = "loop" /\ own' = own /\ world' = world
               /\ handle' = [Turn({"tty"}, "idle") EXCEPT !["tick"] = "active"]
      <3>1. handle' = [[handle EXCEPT !["tty"] = "idle"] EXCEPT !["tick"] = "active"]
        BY <2>2 DEF Turn, GravityTypes, Static
      <3>2. GravityTypes'
        BY <2>1, <2>2, <3>1 DEF GravityTypes, Static, States
      <3>3. GravityLines'
        BY <2>1, <2>2, <3>1 DEF GravityTypes, GravityLines, Static, NoMishap
      <3>4. QED
        BY <3>2, <3>3
    <2>3. CASE /\ stage' = "failed" /\ own' = [own EXCEPT !.mode = "reset"]
               /\ world' = world /\ handle' \in {handle, Turn({"tty"}, "idle")}
      <3>1. handle' \in {handle, [handle EXCEPT !["tty"] = "idle"]}
        BY <2>3 DEF Turn, GravityTypes, Static
      <3>2. GravityTypes'
        BY <2>1, <2>3, <3>1 DEF GravityTypes, Static, States
      <3>3. GravityLines'
        BY <2>1, <2>3, <3>1 DEF GravityTypes, GravityLines, Static, NoMishap
      <3>4. QED
        BY <3>2, <3>3
    <2>4. CASE stage' = "crashed" /\ world' = Mishap("not_a_terminal")
               /\ UNCHANGED <<handle, own>>
      <3>1. world' = [world EXCEPT !.mishap = world.mishap \cup {"not_a_terminal"}]
        BY <2>4 DEF Mishap
      <3>2. GravityTypes'
        BY <2>1, <2>4, <3>1 DEF GravityTypes, Static
      <3>3. GravityLines'
        BY <2>1, <2>4, <3>1 DEF GravityTypes, GravityLines, Static, NoMishap
      <3>4. QED
        BY <3>2, <3>3
    <2>5. QED
      BY <1>3, <2>2, <2>3, <2>4 DEF GravityMain
  <1>4. ASSUME Ticking, Advance
        PROVE  /\ own'.pos = own.pos + 1 /\ own' \in [pos : Nat, mode : {"set", "reset"}]
               /\ handle["tick"] = "active" /\ own.pos <= Height /\ stage = "loop"
               /\ handle' \in [Handles -> States]
               /\ \A h \in Handles \ {"tick"} : handle'[h] = handle[h]
               /\ \/ own.pos + 1 <= Height /\ handle'["tick"] = "active"
                  \/ /\ own.pos + 1 = Height + 1 /\ handle'["tick"] = "idle"
                     /\ own'.mode = "reset"
               /\ UNCHANGED <<program, stage, memory>>
    <2>1. /\ handle["tick"] = "active" /\ own.pos <= Height /\ own.pos \in Nat /\ stage = "loop"
      BY <1>4 DEF Ticking, GravityLines, GravityTypes
    <2>2. /\ own' = [pos |-> own.pos + 1, mode |-> IF LastLine THEN "reset" ELSE own.mode]
          /\ handle' = IF LastLine THEN [handle EXCEPT !["tick"] = "idle"] ELSE handle
          /\ UNCHANGED <<program, stage, memory>>
      BY <1>4 DEF Advance, Turn, GravityTypes, Static
    <2>3. LastLine <=> own.pos + 1 = Height + 1
      BY <2>1 DEF LastLine
    <2>4. handle \in [Handles -> States] /\ own.mode \in {"set", "reset"}
      BY DEF GravityTypes, Static
    <2>5. CASE LastLine
      BY <2>1, <2>2, <2>3, <2>4, <2>5 DEF States
    <2>6. CASE ~LastLine
      BY <2>1, <2>2, <2>3, <2>4, <2>6 DEF States
    <2>7. QED
      BY <2>5, <2>6
  <1>5. CASE Update
    <2>1. /\ Ticking /\ Advance /\ pending' = <<Drawing>>
          /\ world' = [world EXCEPT !.drawn = @ + 1]
      BY <1>5 DEF Update, Drawing
    <2>a. <<Drawing>> \in Seq({Drawing, Blocked})
      OBVIOUS
    <2>b. world' \in [drawn : Nat, mishap : SUBSET {"tty_stopped", "not_a_terminal"}]
      BY SMTT(30), <2>1 DEF GravityTypes
    <2>2. GravityTypes'
      BY <1>4, <2>1, <2>a, <2>b DEF GravityTypes, Static
    <2>3. GravityLines'
      BY <1>4, <2>1 DEF GravityTypes, GravityLines, NoMishap
    <2>4. QED
      BY <2>2, <2>3
  <1>6. CASE UpdateBlocked
    <2>1. /\ Ticking /\ Advance /\ pending' = Append(pending, Blocked)
          /\ world' = [world EXCEPT !.mishap = @ \cup {"tty_stopped"}]
      BY <1>6 DEF UpdateBlocked, Blocked, Mishap
    <2>a. pending' \in Seq({Drawing, Blocked})
      <3> DEFINE S == {Drawing, Blocked}
      <3>1. pending \in Seq(S) /\ Blocked \in S
        BY DEF GravityTypes
      <3> HIDE DEF S
      <3>2. Append(pending, Blocked) \in Seq(S)
        BY <3>1
      <3>3. QED
        BY <2>1, <3>2 DEF S
    <2>2. GravityTypes'
      BY <1>4, <2>1, <2>a DEF GravityTypes, Static
    <2>3. GravityLines'
      BY <1>4, <2>1 DEF GravityTypes, GravityLines, NoMishap
    <2>4. QED
      BY <2>2, <2>3
  <1>7. CASE WriteDone
    BY <1>7 DEF WriteDone, GravityTypes, GravityLines, Static, NoMishap
  <1>8. QED
    BY <1>1, <1>2, <1>3, <1>5, <1>6, <1>7, OneProgram
       DEF GravityStep, GravityWorld, TtyMain, TtyWriteDone, Setup

TtyInv ==
  program = "tty" =>
  /\ stage \in {"setup", "loop", "crashed", "done"}
  /\ Static({"tty", "req"})
  /\ \A h \in Handles : handle[h] \in {"none", "idle"}
  /\ pending \in {<<>>, <<TtyWrite("req")>>, <<TtyWrite("inner_req"), TtyWrite("req")>>}
  /\ world \in [mishap : SUBSET {"block_ended", "not_a_terminal"}]
  /\ "block_ended" \notin world.mishap => pending \in {<<>>, <<TtyWrite("req")>>}

\* tty starts with nothing written.
LEMMA TtyStarts == Init => TtyInv
  <1> SUFFICES ASSUME Init, program = "tty"
               PROVE  TtyInv
    BY DEF TtyInv
  <1>1. TtyInit
    BY OneStart
  <1>2. QED
    BY <1>1, TtyAssumption DEF TtyInit, Begin, TtyInv, Static, States

\* tty writes in main, and its loop only takes the callbacks.
LEMMA TtyKept == TtyInv /\ Next => TtyInv'
  <1> SUFFICES ASSUME TtyInv, Next, program = "tty"
               PROVE  TtyInv'
    BY OneProgram DEF TtyInv
  <1> USE TtyAssumption DEF InLoop, TtyInv, Setup
  <1>1. CASE UvRunReturns
    BY <1>1 DEF UvRunReturns, Static
  <1>2. ASSUME NEW h \in Handles, CloseCallback(h)
        PROVE  TtyInv'
    BY <1>2 DEF CloseCallback, CloseDone
  <1>3. CASE TtyMain
    <2>1. handle' = [handle EXCEPT !["tty"] = "idle"] /\ UNCHANGED <<program, memory>>
      BY <1>3 DEF TtyMain, Turn, Static
    <2>2. Static({"tty", "req"})' /\ \A h \in Handles : handle'[h] \in {"none", "idle"}
      BY <2>1 DEF Static, States
    <2>3. QED
      BY <1>3, <2>1, <2>2 DEF TtyMain, Mishap
  <1>4. CASE TtyWriteDone
    <2>1. pending = <<TtyWrite("req")>> /\ pending' = <<>>
      <3>1. pending # <<>> /\ pending' = Tail(pending) /\ world.mishap = {}
        BY <1>4 DEF TtyWriteDone, NoMishap
      <3>2. pending = <<TtyWrite("req")>>
        BY <3>1
      <3>3. Tail(<<TtyWrite("req")>>) = <<>>
        OBVIOUS
      <3>4. QED
        BY <3>1, <3>2, <3>3
    <2>2. UNCHANGED <<program, stage, handle, memory, own, world>>
      BY <1>4 DEF TtyWriteDone
    <2>3. QED
      BY <2>1, <2>2 DEF Static
  <1>5. QED
    BY <1>1, <1>2, <1>3, <1>4, OneProgram
       DEF GravityStep, GravityWorld, GravityMain, Update, UpdateBlocked, WriteDone, Ticking

-----------------------------------------------------------------------------
(* uvstop, idle-basic, idle-compute and ref-timer.                         *)

\* An iteration runs both callbacks, and the fifth is the last.
UvstopInv ==
  program = "uvstop" =>
  /\ stage \in {"setup", "loop", "done"}
  /\ Static({"idler", "prep"}) /\ pending = <<>>
  /\ \A h \in Handles : handle[h] \in {"none", "active"}
  /\ stage # "setup" => handle["idler"] = "active"
  /\ own \in [counter : 0 .. 5, prepared : Nat, stop : BOOLEAN, phase : {"idle", "prepare"}]
  /\ world.mishap = {}
  /\ own.stop <=> own.counter = 5
  /\ own.counter = own.prepared + IF own.phase = "prepare" THEN 1 ELSE 0
  /\ stage = "done" => own.stop /\ own.phase = "idle"

IdleBasicInv ==
  program = "idle-basic" =>
  /\ stage \in {"setup", "loop", "done"}
  /\ Static({"idler"}) /\ pending = <<>>
  /\ \A h \in Handles : handle[h] \in {"none", "active", "idle"}
  /\ own \in [counter : Nat] /\ world.mishap = {}
  /\ handle["idler"] = "none" <=> stage = "setup"
  /\ handle["idler"] \in {"none", "active"} => own.counter < IdleLimit
  /\ stage = "setup" => own.counter = 0
  /\ handle["idler"] = "idle" => own.counter = IdleLimit
  /\ stage = "done" => handle["idler"] = "idle"

\* What is typed has no 0 in it.
IdleComputeInv ==
  program = "idle-compute" =>
  /\ stage \in {"setup", "loop", "done"}
  /\ Static({"idler", "stdin_watcher", "buffer"})
  /\ \A h \in Handles : handle[h] \in {"none", "active", "idle"}
  /\ pending \in {<<>>, <<ReadStdin>>}
  /\ own.buffer \in [1 .. BufferSize -> Nat]
  /\ world.mishap \subseteq {"full_read"} /\ world.lines \in Nat
  /\ world = [lines |-> world.lines, typed |-> world.typed, mishap |-> world.mishap]
  /\ NoMishap => own.printed = world.typed

\* The timers go off in the order of their times: gc_req, which starts at 0, before
\* fake_job_req, which ends the loop.
RefTimerInv ==
  program = "ref-timer" =>
  /\ stage \in {"setup", "loop", "done"}
  /\ Static({"gc_req", "fake_job_req"}) /\ pending = <<>>
  /\ \A h \in Handles \ {"gc_req", "fake_job_req"} : handle[h] = "none"
  /\ handle["gc_req"] = IF stage = "setup" THEN "none" ELSE "background"
  /\ handle["fake_job_req"] \in IF stage = "setup" THEN {"none"} ELSE {"active", "idle"}
  /\ own \in [gc : Nat, fake_job : {9000}] /\ world \in [now : Nat, freed : Nat, mishap : {{}}]
  /\ 2000 * world.freed <= own.gc
  /\ stage = "setup" => world.freed = 0
  /\ IF world.freed = 0 THEN own.gc = 0 ELSE own.gc <= world.now + 2000
  /\ handle["fake_job_req"] = "idle" => world.now >= 9000 /\ world.freed > 0
  /\ stage = "done" => handle["fake_job_req"] = "idle" /\ world.now < own.gc

LoopsInv == UvstopInv /\ IdleBasicInv /\ IdleComputeInv /\ RefTimerInv

\* The four loop examples start with their counters at 0.
LEMMA LoopsStart == Init => LoopsInv
  <1> SUFFICES ASSUME Init
               PROVE  LoopsInv
    OBVIOUS
  <1> USE IdleAssumption, LoopAssumption DEF Begin
  <1>1. UvstopInv
    <2> SUFFICES ASSUME program = "uvstop"
                 PROVE  UvstopInv
      BY DEF UvstopInv
    <2>1. /\ stage = "setup" /\ handle = [h \in Handles |-> "none"] /\ pending = <<>>
          /\ memory = Objects({"idler", "prep"}) /\ world.mishap = {}
          /\ own = [counter |-> 0, prepared |-> 0, stop |-> FALSE, phase |-> "idle"]
      BY OneStart DEF LoopsInit
    <2>2. QED
      BY <2>1 DEF UvstopInv, Static, States
  <1>2. IdleBasicInv
    BY OneStart DEF LoopsInit, IdleBasicInv, Static, States
  <1>3. IdleComputeInv
    BY OneStart DEF LoopsInit, IdleComputeInv, Static, States, NoMishap
  <1>4. RefTimerInv
    BY OneStart DEF LoopsInit, RefTimerInv, Static, States
  <1>5. QED
    BY <1>1, <1>2, <1>3, <1>4 DEF LoopsInv

\* A step of uvstop keeps both counters in step.
LEMMA UvstopKept == UvstopInv /\ Next => UvstopInv'
  <1> SUFFICES ASSUME UvstopInv, Next, program = "uvstop"
               PROVE  UvstopInv'
    BY OneProgram DEF UvstopInv
  <1> USE IdleAssumption DEF InLoop, UvstopInv, Setup
  <1>1. CASE UvRunReturns
    BY <1>1 DEF UvRunReturns, LoopAlive
  <1>2. ASSUME NEW h \in Handles, CloseCallback(h)
        PROVE  UvstopInv'
    BY <1>2 DEF CloseCallback, CloseDone
  <1>3. CASE UvstopMain
    <2>1. /\ stage' = "loop" /\ UNCHANGED <<program, pending, memory, own, world>>
          /\ handle' = [h \in Handles |->
                          IF h \in {"idler", "prep"} THEN "active" ELSE handle[h]]
      BY <1>3 DEF UvstopMain, Turn
    <2>2. QED
      BY <2>1 DEF Static, States
  <1>4. CASE idle_cb
    <2>1. /\ own.phase = "idle" /\ ~own.stop /\ stage = "loop"
          /\ own' = [own EXCEPT !.counter = own.counter + 1, !.phase = "prepare",
                                !.stop = Enough(own.counter + 1)]
          /\ UNCHANGED <<program, stage, handle, pending, memory, world>>
      BY <1>4 DEF idle_cb
    <2>2. own.counter \in 0 .. 4 /\ own.counter = own.prepared
      BY <2>1
    <2>3. Enough(own.counter + 1) <=> own.counter + 1 = 5
      BY <2>2 DEF Enough
    <2> DEFINE stop == Enough(own.counter + 1)
    <2>4. stop \in BOOLEAN
      BY DEF Enough
    <2> HIDE DEF stop
    <2>5. /\ own'.counter = own.counter + 1 /\ own'.prepared = own.prepared
          /\ own'.stop = stop /\ own'.phase = "prepare"
          /\ own' = [counter |-> own'.counter, prepared |-> own'.prepared, stop |-> own'.stop,
                     phase |-> own'.phase]
      BY <2>1 DEF stop
    <2>6. Static({"idler", "prep"})' /\ (stop <=> own.counter + 1 = 5)
      BY <2>1, <2>3 DEF Static, stop
    <2>7. QED
      BY <2>1, <2>2, <2>4, <2>5, <2>6
  <1>5. CASE prep_cb
    <2>1. /\ own.phase = "prepare" /\ stage = "loop"
          /\ own' = [own EXCEPT !.prepared = own.prepared + 1, !.phase = "idle"]
          /\ UNCHANGED <<program, stage, handle, pending, memory, world>>
      BY <1>5 DEF prep_cb
    <2>2. own.counter = own.prepared + 1
      BY <2>1
    <2>3. own' = [counter |-> own.counter, prepared |-> own.prepared + 1,
                  stop |-> own.stop, phase |-> "idle"]
      BY <2>1
    <2>4. Static({"idler", "prep"})'
      BY <2>1 DEF Static
    <2>5. QED
      BY <2>1, <2>2, <2>3, <2>4
  <1>6. CASE Stopped
    BY <1>6 DEF Stopped, Static
  <1>7. QED
    BY <1>1, <1>2, <1>3, <1>4, <1>5, <1>6, OneProgram
       DEF LoopsStep, LoopsWorld, IdleBasicMain, wait_for_a_while, IdleComputeMain, crunch_away,
           RefTimerMain, WakeUp, gc, fake_job, OnTypeEnd, OnTypeBytes

\* idle-basic counts on until the limit, and then stops.
LEMMA IdleBasicKept == IdleBasicInv /\ Next => IdleBasicInv'
  <1> SUFFICES ASSUME IdleBasicInv, Next, program = "idle-basic"
               PROVE  IdleBasicInv'
    BY OneProgram DEF IdleBasicInv
  <1> USE IdleAssumption DEF InLoop, IdleBasicInv, Setup
  <1>1. CASE UvRunReturns
    BY <1>1 DEF UvRunReturns, LoopAlive, Static
  <1>2. ASSUME NEW h \in Handles, CloseCallback(h)
        PROVE  IdleBasicInv'
    BY <1>2 DEF CloseCallback, CloseDone
  <1>3. CASE IdleBasicMain
    <2>1. /\ stage = "setup" /\ stage' = "loop"
          /\ UNCHANGED <<program, pending, memory, own, world>>
          /\ handle' = [handle EXCEPT !["idler"] = "active"]
      BY <1>3 DEF IdleBasicMain, Turn, Static
    <2>2. QED
      BY <2>1 DEF Static, States
  <1>4. CASE wait_for_a_while
    <2>1. /\ handle["idler"] = "active" /\ own'.counter = own.counter + 1
          /\ own' \in [counter : Nat] /\ stage = "loop"
          /\ UNCHANGED <<program, stage, pending, memory, world>>
      BY <1>4 DEF wait_for_a_while
    <2>2. CASE own.counter + 1 >= IdleLimit
      <3>1. handle' = [handle EXCEPT !["idler"] = "idle"] /\ own.counter + 1 = IdleLimit
        <4>1. handle' = Turn({"idler"}, "idle") /\ own.counter < IdleLimit /\ own.counter \in Nat
          BY <1>4, <2>1, <2>2 DEF wait_for_a_while
        <4>2. own.counter + 1 = IdleLimit
          BY <2>2, <4>1
        <4>3. QED
          BY <4>1, <4>2 DEF Turn, Static
      <3>2. QED
        BY <2>1, <3>1 DEF Static, States
    <2>3. CASE ~(own.counter + 1 >= IdleLimit)
      <3>1. handle' = handle /\ own.counter + 1 < IdleLimit
        BY <1>4, <2>1, <2>3 DEF wait_for_a_while
      <3>2. QED
        BY <2>1, <3>1 DEF Static
    <2>4. QED
      BY <2>2, <2>3
  <1>5. QED
    BY <1>1, <1>2, <1>3, <1>4, OneProgram
       DEF LoopsStep, LoopsWorld, UvstopMain, idle_cb, prep_cb, Stopped, IdleComputeMain,
           crunch_away, RefTimerMain, WakeUp, gc, fake_job, OnTypeEnd, OnTypeBytes

\* gc_req goes off, and 2000 ms or more later again, until fake_job_req has.
LEMMA RefTimerKept == RefTimerInv /\ Next => RefTimerInv'
  <1> SUFFICES ASSUME RefTimerInv, Next, program = "ref-timer"
               PROVE  RefTimerInv'
    BY OneProgram DEF RefTimerInv
  <1>0. handle \in [Handles -> States] /\ \A h \in Handles : handle[h] # "closing"
    BY DEF RefTimerInv, Static
  <1>a. PICK now \in Nat, freed \in Nat, g \in Nat :
          /\ world = [now |-> now, freed |-> freed, mishap |-> {}]
          /\ own = [gc |-> g, fake_job |-> 9000]
    BY DEF RefTimerInv
  <1>c. world.now = now /\ world.freed = freed /\ own.gc = g /\ own.fake_job = 9000
    BY <1>a
  <1>b. handle["gc_req"] # "active" /\ (LoopAlive => JobWaits)
    BY IdleAssumption, <1>0 DEF RefTimerInv, LoopAlive, JobWaits
  <1> USE IdleAssumption DEF InLoop, RefTimerInv, Setup
  <1>1. CASE ~TimersDue /\ UvRunReturns
    <2>1. /\ stage = "loop" /\ stage' = "done" /\ ~JobWaits
          /\ UNCHANGED <<program, handle, pending, memory, own, world>>
      BY <1>1 DEF UvRunReturns, LoopAlive, JobWaits
    <2>2. ~(own.gc <= world.now)
      BY <1>1, <2>1 DEF TimersDue, GcDue
    <2>3. Static({"gc_req", "fake_job_req"})'
      BY <2>1 DEF Static
    <2>4. handle["fake_job_req"] = "idle" /\ world.now < own.gc
      BY <1>c, <2>1, <2>2 DEF JobWaits
    <2>5. QED
      BY <2>1, <2>3, <2>4
  <1>2. ASSUME NEW h \in Handles, CloseCallback(h)
        PROVE  RefTimerInv'
    BY <1>0, <1>2 DEF CloseCallback, CloseDone
  <1>3. CASE RefTimerMain
    <2>1. /\ stage = "setup" /\ stage' = "loop"
          /\ UNCHANGED <<program, pending, memory, own>>
          /\ handle' = [[handle EXCEPT !["gc_req"] = "background"]
                          EXCEPT !["fake_job_req"] = "active"]
      <3>1. /\ stage = "setup" /\ stage' = "loop"
            /\ UNCHANGED <<program, pending, memory, own>>
            /\ handle' = [Turn({"gc_req"}, "background") EXCEPT !["fake_job_req"] = "active"]
        BY <1>3 DEF RefTimerMain
      <3> HIDE DEF RefTimerInv
      <3>a. "gc_req" \in Handles
        OBVIOUS
      <3>2. Turn({"gc_req"}, "background") = [handle EXCEPT !["gc_req"] = "background"]
        BY <1>0, <3>a, TurnIs
      <3>3. QED
        BY <3>1, <3>2
    <2>2. PICK late \in Nat : world' = [now |-> late, freed |-> freed, mishap |-> {}]
      <3> HIDE DEF RefTimerInv
      <3>1. PICK late \in Nat : world' = [world EXCEPT !.now = late]
        BY <1>3 DEF RefTimerMain
      <3>2. QED
        BY <1>a, <3>1
    <2>3. freed = 0 /\ g = 0
      BY <1>c, <2>1
    <2>4. Static({"gc_req", "fake_job_req"})'
      BY <2>1 DEF Static, States
    <2>5. world'.now = late /\ world'.freed = 0 /\ own'.gc = 0
      BY <1>a, <2>1, <2>2, <2>3
    <2>6. own' \in [gc : Nat, fake_job : {9000}] /\ world' \in [now : Nat, freed : Nat, mishap : {{}}]
      BY <1>a, <2>1, <2>2
    <2>7. /\ program' = program /\ pending' = <<>> /\ stage' = "loop"
          /\ handle'["gc_req"] = "background" /\ handle'["fake_job_req"] = "active"
          /\ \A h \in Handles \ {"gc_req", "fake_job_req"} : handle'[h] = "none"
      BY <2>1 DEF Static
    <2>8. 2000 * world'.freed <= own'.gc
      BY <2>5
    <2>9. QED
      BY <2>4, <2>5, <2>6, <2>7, <2>8
  <1>w. CASE WakeUp
    <2>1. /\ stage = "loop" /\ JobWaits /\ ~GcDue /\ ~JobDue
          /\ UNCHANGED <<program, stage, handle, pending, memory, own>>
      BY <1>b, <1>w DEF WakeUp, TimersDue
    <2>2. PICK late \in Nat : world' = [world EXCEPT !.now = Min({g, 9000}) + late]
      BY <1>c, <1>w DEF WakeUp
    <2>3. /\ Min({g, 9000}) \in {g, 9000} /\ Min({g, 9000}) <= g /\ Min({g, 9000}) <= 9000
      <3> HIDE DEF RefTimerInv
      <3> DEFINE S == {g, 9000}
      <3>1. S \subseteq Nat /\ S # {}
        OBVIOUS
      <3>2. Min(S) \in S /\ \A m \in S : Min(S) <= m
        <4> HIDE DEF S
        <4>1. QED
          BY <3>1, MinIs
      <3>3. QED
        BY <3>2
    <2> DEFINE next == Min({g, 9000})
               n == next + late
    <2>4. next \in Nat /\ now <= next
      <3>1. (g > now \/ g >= 9000) /\ (9000 > now \/ 9000 > g)
        BY <1>c, <2>1 DEF GcDue, JobDue
      <3> HIDE DEF next
      <3>2. next \in {g, 9000} /\ next <= g /\ next <= 9000
        BY <2>3 DEF next
      <3>3. QED
        BY <3>1, <3>2
    <2> HIDE DEF next
    <2>5. n \in Nat /\ now <= n
      BY <2>4
    <2>6. world' = [world EXCEPT !.now = n]
      BY <2>2 DEF next
    <2> HIDE DEF n
    <2>7. world' = [now |-> n, freed |-> freed, mishap |-> {}]
      <3> HIDE DEF RefTimerInv
      <3>1. QED
        BY <1>a, <2>6
    <2>8. Static({"gc_req", "fake_job_req"})' /\ handle["fake_job_req"] = "active"
      BY <2>1 DEF Static, JobWaits
    <2>9. /\ world' \in [now : Nat, freed : Nat, mishap : {{}}]
          /\ world'.now = n /\ world'.freed = freed
      BY <2>5, <2>7
    <2>10. QED
      BY <1>c, <2>1, <2>5, <2>8, <2>9
  <1>4. CASE gc
    <2>1. stage = "loop" /\ g <= now
      BY <1>4, <1>c DEF gc, GcDue
    <2>2. /\ own' = [own EXCEPT !.gc = now + 2000]
          /\ world' = [world EXCEPT !.freed = freed + 1]
          /\ UNCHANGED <<program, stage, handle, pending, memory>>
      BY <1>4, <1>c DEF gc
    <2>3. 2000 * freed <= g
      BY <1>c
    <2> DEFINE g1 == now + 2000
               k == freed + 1
    <2>4. own' = [own EXCEPT !.gc = g1] /\ world' = [world EXCEPT !.freed = k]
      BY <2>2
    <2>5. g1 \in Nat /\ k \in Nat /\ 2000 * k <= g1 /\ k > 0 /\ k # 0 /\ g1 <= now + 2000
      BY <2>1, <2>3
    <2> HIDE DEF g1, k
    <2>6. /\ own' \in [gc : Nat, fake_job : {9000}] /\ own'.gc = g1
          /\ world' \in [now : Nat, freed : Nat, mishap : {{}}]
          /\ world'.now = now /\ world'.freed = k
      BY <1>a, <2>4, <2>5
    <2>7. Static({"gc_req", "fake_job_req"})'
      BY <2>2 DEF Static
    <2>8. /\ stage' = "loop" /\ program' = program /\ pending' = <<>> /\ handle' = handle
          /\ handle["gc_req"] = "background" /\ handle["fake_job_req"] \in {"active", "idle"}
          /\ \A h \in Handles \ {"gc_req", "fake_job_req"} : handle[h] = "none"
      BY <2>1, <2>2
    <2>9. /\ 2000 * world'.freed <= own'.gc
          /\ world'.freed # 0 /\ own'.gc <= world'.now + 2000
          /\ handle["fake_job_req"] = "idle" => world'.now >= 9000 /\ world'.freed > 0
      <3>1. handle["fake_job_req"] = "idle" => now >= 9000
        BY <1>c
      <3> HIDE DEF RefTimerInv
      <3>2. QED
        BY <2>5, <2>6, <3>1
    <2>10. QED
      BY <2>6, <2>7, <2>8, <2>9
  <1>5. CASE fake_job
    <2>1. /\ stage = "loop" /\ 9000 <= world.now /\ 9000 <= own.gc
          /\ UNCHANGED <<program, stage, pending, memory, own, world>>
      BY <1>5, <1>c DEF fake_job, JobDue
    <2>2. handle' = [handle EXCEPT !["fake_job_req"] = "idle"]
      <3>1. "fake_job_req" \in Handles /\ handle' = Turn({"fake_job_req"}, "idle")
        BY <1>5 DEF fake_job
      <3> HIDE DEF RefTimerInv
      <3>2. Turn({"fake_job_req"}, "idle") = [handle EXCEPT !["fake_job_req"] = "idle"]
        BY <1>0, <3>1, TurnIs
      <3>3. QED
        BY <3>1, <3>2
    <2>3. world.freed > 0
      BY <1>c, <2>1
    <2>4. Static({"gc_req", "fake_job_req"})'
      BY <2>1, <2>2 DEF Static, States
    <2>5. QED
      BY <1>c, <2>1, <2>2, <2>3, <2>4
  <1>6. QED
    BY <1>1, <1>2, <1>3, <1>w, <1>4, <1>5, OneProgram
       DEF LoopsStep, LoopsWorld, UvstopMain, idle_cb, prep_cb, Stopped, IdleComputeMain,
           crunch_away, IdleBasicMain, wait_for_a_while, OnTypeEnd, OnTypeBytes

\* A line that does not fill the buffer is followed by the 0 that is written
\* after it.
LEMMA TextIs ==
  ASSUME NEW line \in Nat \ {0}, NEW n \in 1 .. BufferSize, n < BufferSize,
         NEW read \in [1 .. BufferSize -> Nat],
         \A i \in 1 .. n : read[i] = line, read[n + 1] = 0
  PROVE  Text(read) = [i \in 1 .. n |-> line]
  <1> USE LoopAssumption
  <1> DEFINE ends == {i \in DOMAIN read : read[i] = 0}
             line_n == [i \in 1 .. n |-> line]
  <1>1. n \in Nat /\ n <= BufferSize /\ n + 1 \in 1 .. BufferSize
    OBVIOUS
  <1>2. n + 1 \in ends /\ ends \subseteq Nat /\ \A i \in ends : n + 1 <= i
    BY <1>1
  <1>3. ends # {} /\ Min(ends) \in ends /\ Min(ends) <= n + 1
    BY <1>2, MinIs
  <1>4. Min(ends) = n + 1
    BY <1>1, <1>2, <1>3
  <1>5. Text(read) = SubSeq(read, 1, n)
    <2>1. (n + 1) - 1 = n
      BY <1>1
    <2>2. Text(read) = SubSeq(read, 1, Min(ends) - 1)
      BY <1>3 DEF Text
    <2>3. QED
      BY <1>4, <2>1, <2>2
  <1>6. read \in Seq(Nat) /\ Len(read) = BufferSize
    BY ArrayIs
  <1>7. /\ SubSeq(read, 1, n) \in Seq(Nat) /\ Len(SubSeq(read, 1, n)) = n
        /\ \A i \in 1 .. n : SubSeq(read, 1, n)[i] = read[i]
    BY <1>1, <1>6, FirstIs
  <1>8. line_n \in Seq(Nat) /\ Len(line_n) = n /\ \A i \in 1 .. n : line_n[i] = line
    <2>1. line_n \in [1 .. n -> Nat]
      OBVIOUS
    <2>2. QED
      BY <1>1, <2>1, ArrayIs
  <1> DEFINE text == SubSeq(read, 1, n)
  <1>9. text = line_n
    <2>1. text \in Seq(Nat) /\ Len(text) = n /\ \A i \in 1 .. n : text[i] = line_n[i]
      BY <1>7, <1>8
    <2> HIDE DEF text, line_n
    <2>2. QED
      BY <1>8, <2>1
  <1>10. QED
    BY <1>5, <1>9

\* A line that is typed is what is printed next.
LEMMA IdleComputeKept == IdleComputeInv /\ Next => IdleComputeInv'
  <1> SUFFICES ASSUME IdleComputeInv, Next, program = "idle-compute"
               PROVE  IdleComputeInv'
    BY OneProgram DEF IdleComputeInv
  <1> USE IdleAssumption, LoopAssumption DEF InLoop, IdleComputeInv, Setup
  <1>1. CASE UvRunReturns
    BY <1>1 DEF UvRunReturns, Static, NoMishap
  <1>2. ASSUME NEW h \in Handles, CloseCallback(h)
        PROVE  IdleComputeInv'
    BY <1>2 DEF CloseCallback, CloseDone
  <1>3. ASSUME NEW s \in {"active", "idle"}, handle' = Turn({"idler"}, s), memory' = memory
        PROVE  /\ Static({"idler", "stdin_watcher", "buffer"})'
               /\ \A h \in Handles : handle'[h] \in {"none", "active", "idle"}
    <2>1. handle' = [handle EXCEPT !["idler"] = s]
      BY <1>3 DEF Turn, Static
    <2>2. QED
      BY <1>3, <2>1 DEF Static, States
  <1>4. CASE IdleComputeMain
    BY <1>3, <1>4 DEF IdleComputeMain, NoMishap
  <1>5. CASE crunch_away
    BY <1>3, <1>5 DEF crunch_away, NoMishap
  <1>6. CASE OnTypeEnd
    BY <1>6 DEF OnTypeEnd, Static, NoMishap
  <1>7. ASSUME NEW n \in 1 .. BufferSize, OnTypeBytes(n)
        PROVE  IdleComputeInv'
    <2> DEFINE line == world.lines + 1
               read == [i \in 1 .. BufferSize |->
                          IF i <= n THEN line ELSE IF i = n + 1 THEN 0 ELSE own.buffer[i]]
               mishap == IF n = BufferSize THEN world.mishap \cup {"full_read"}
                         ELSE world.mishap
               typed == [i \in 1 .. n |-> line]
    <2>1. /\ own' = [buffer |-> read, printed |-> Text(read)]
          /\ world' = [world EXCEPT !.lines = line, !.typed = typed, !.mishap = mishap]
          /\ pending' = <<ReadStdin>> /\ handle' = Turn({"idler"}, "active")
          /\ UNCHANGED <<program, stage, memory>>
      BY <1>7 DEF OnTypeBytes
    <2>2. line \in Nat \ {0} /\ read \in [1 .. BufferSize -> Nat]
      OBVIOUS
    <2>3. /\ \A i \in 1 .. n : read[i] = line
          /\ n < BufferSize => read[n + 1] = 0
      OBVIOUS
    <2>4. n < BufferSize => Text(read) = typed
      BY <2>2, <2>3, TextIs
    <2>5. mishap \subseteq {"full_read"} /\ (mishap = {} => n < BufferSize)
      <3>1. n = BufferSize \/ n < BufferSize
        OBVIOUS
      <3>2. QED
        BY <3>1
    <2> HIDE DEF line, read, mishap, typed
    <2>6. /\ world'.lines = line /\ world'.typed = typed /\ world'.mishap = mishap
          /\ world' = [lines |-> line, typed |-> typed, mishap |-> mishap]
      BY <2>1
    <2>7. QED
      BY <1>3, <2>1, <2>2, <2>4, <2>5, <2>6 DEF NoMishap
  <1>8. QED
    BY <1>1, <1>2, <1>4, <1>5, <1>6, <1>7, OneProgram
       DEF LoopsStep, LoopsWorld, UvstopMain, idle_cb, prep_cb, Stopped, IdleBasicMain,
           wait_for_a_while, RefTimerMain, WakeUp, gc, fake_job

\* The four loop examples together.
LEMMA LoopsKept == LoopsInv /\ Next => LoopsInv'
  BY UvstopKept, IdleBasicKept, IdleComputeKept, RefTimerKept DEF LoopsInv

-----------------------------------------------------------------------------
(* spawn, proc-streams, detach and onchange.                               *)

\* The handle of the child is in use for as long as the child runs.
SpawnInv ==
  program \in Spawners =>
  /\ stage \in {"setup", "loop", "failed", "done"}
  /\ Static({"child_req"}) /\ pending = <<>>
  /\ world \in [child : {"none", "running", "exited"}, mishap : {{}}]
  /\ stage \in {"setup", "failed"} <=> world.child = "none"
  /\ stage = "setup" => handle["child_req"] = "none"
  /\ program = "detach" /\ stage \in {"loop", "done"} => handle["child_req"] = "background"
  /\ program # "detach" /\ world.child = "running" =>
       handle["child_req"] = "active" /\ stage = "loop"
  /\ program # "detach" /\ world.child = "exited" =>
       handle["child_req"] \in {"closing", "closed"}
  /\ program # "detach" /\ stage = "done" => handle["child_req"] = "closed"

OnchangeInv ==
  program = "onchange" =>
  /\ stage \in {"setup", "loop", "failed", "done"}
  /\ handle \in [Handles -> States] /\ pending = <<>>
  /\ world \in [changes : Nat, mishap : {{}}]
  /\ memory = IF stage \in {"setup", "failed"} THEN {} ELSE Objects(Files)
  /\ \A h \in Handles :
       /\ handle[h] \in {"none", "active", "idle"}
       /\ handle[h] # "none" => h \in Files /\ stage \in {"loop", "done"}

\* The process examples start without a child.
LEMMA ProcessStarts == Init => SpawnInv /\ OnchangeInv
  <1> SUFFICES ASSUME Init
               PROVE  SpawnInv /\ OnchangeInv
    OBVIOUS
  <1>1. SpawnInv
    BY OneStart, FilesAssumption DEF ProcessInit, Begin, SpawnInv, Static, States, Spawners
  <1>2. OnchangeInv
    BY OneStart, FilesAssumption DEF ProcessInit, Begin, OnchangeInv, Objects, States, Spawners
  <1>3. QED
    BY <1>1, <1>2

\* A child is spawned once and exits once.
LEMMA SpawnKept == SpawnInv /\ Next => SpawnInv'
  <1> SUFFICES ASSUME SpawnInv, Next, program \in Spawners
               PROVE  SpawnInv'
    BY OneProgram DEF SpawnInv
  <1>1. "child_req" \in Handles /\ handle \in [Handles -> States]
    BY FilesAssumption DEF SpawnInv, Static
  <1>2. CASE UvRunReturns
    <2>1. /\ stage = "loop" /\ stage' = "done" /\ handle["child_req"] \notin {"active", "closing"}
          /\ UNCHANGED <<program, handle, pending, memory, own, world>>
      BY <1>1, <1>2 DEF UvRunReturns, LoopAlive
    <2>2. QED
      BY <1>1, <2>1 DEF SpawnInv, Static, Spawners
  <1>3. ASSUME NEW h \in Handles, CloseCallback(h)
        PROVE  SpawnInv'
    <2>1. /\ handle[h] = "closing" /\ handle' = Turn({h}, "closed")
          /\ UNCHANGED <<program, stage, pending, memory, own, world>>
      BY <1>3 DEF CloseCallback, CloseDone
    <2>2. Turn({h}, "closed") = [handle EXCEPT ![h] = "closed"]
      BY <1>1, TurnIs
    <2>3. handle' = [handle EXCEPT !["child_req"] = "closed"]
      BY <2>1, <2>2 DEF SpawnInv, Static
    <2>4. QED
      BY <1>1, <2>1, <2>3 DEF SpawnInv, Static, States
  <1>4. CASE SpawnMain
    <2>1. stage = "setup" /\ UNCHANGED <<program, pending, memory>>
      BY <1>4 DEF SpawnMain
    <2>2. CASE /\ stage' = "loop" /\ handle' = Turn({"child_req"}, Watching)
               /\ world' = [world EXCEPT !.child = "running"]
      <3>1. Turn({"child_req"}, Watching) = [handle EXCEPT !["child_req"] = Watching]
        BY <1>1, TurnIs
      <3>2. handle' = [handle EXCEPT !["child_req"] = Watching]
        BY <2>2, <3>1
      <3>3. QED
        BY <1>1, <2>1, <2>2, <3>2 DEF SpawnInv, Static, States, Watching
    <2>3. CASE stage' = "failed" /\ handle' = Turn({"child_req"}, "idle") /\ world' = world
      <3>1. Turn({"child_req"}, "idle") = [handle EXCEPT !["child_req"] = "idle"]
        BY <1>1, TurnIs
      <3>2. handle' = [handle EXCEPT !["child_req"] = "idle"]
        BY <2>3, <3>1
      <3>3. QED
        BY <1>1, <2>1, <2>3, <3>2 DEF SpawnInv, Static, States
    <2>4. QED
      BY <1>4, <2>2, <2>3 DEF SpawnMain
  <1>5. CASE on_exit
    <2>1. /\ program # "detach" /\ stage = "loop" /\ handle' = Turn({"child_req"}, "closing")
          /\ world' = [world EXCEPT !.child = "exited"]
          /\ UNCHANGED <<program, stage, pending, memory, own>>
      BY <1>5 DEF on_exit
    <2>2. Turn({"child_req"}, "closing") = [handle EXCEPT !["child_req"] = "closing"]
      BY <1>1, TurnIs
    <2>3. handle' = [handle EXCEPT !["child_req"] = "closing"]
      BY <2>1, <2>2
    <2>4. QED
      BY <1>1, <2>1, <2>3 DEF SpawnInv, Static, States
  <1>6. CASE DetachedExits
    BY <1>6 DEF DetachedExits, SpawnInv, Static
  <1>7. QED
    BY <1>2, <1>3, <1>4, <1>5, <1>6, OneProgram
       DEF ProcessStep, ProcessWorld, OnchangeMain, run_command, FileChanges, Setup, InLoop,
           Spawners

\* onchange watches its files for as long as it runs.
LEMMA OnchangeKept == OnchangeInv /\ Next => OnchangeInv'
  <1> SUFFICES ASSUME OnchangeInv, Next, program = "onchange"
               PROVE  OnchangeInv'
    BY OneProgram DEF OnchangeInv
  <1> USE FilesAssumption DEF OnchangeInv
  <1>1. CASE UvRunReturns
    BY <1>1 DEF UvRunReturns
  <1>2. ASSUME NEW h \in Handles, CloseCallback(h)
        PROVE  OnchangeInv'
    BY <1>2 DEF CloseCallback, CloseDone
  <1>3. CASE OnchangeMain
    <2>1. stage = "setup" /\ memory = {} /\ UNCHANGED <<program, pending, own, world>>
      BY <1>3 DEF OnchangeMain, Setup
    <2>2. CASE stage' = "failed" /\ UNCHANGED <<handle, memory>>
      BY <2>1, <2>2
    <2>3. ASSUME NEW watched \in SUBSET Files, stage' = "loop",
                 memory' = memory \cup Objects(Files),
                 handle' = [h \in Handles |->
                              IF h \in Files THEN IF h \in watched THEN "active" ELSE "idle"
                              ELSE handle[h]]
          PROVE  OnchangeInv'
      BY <2>1, <2>3 DEF States
    <2>4. QED
      BY <1>3, <2>2, <2>3 DEF OnchangeMain
  <1>4. ASSUME NEW f \in Files, run_command(f)
        PROVE  OnchangeInv'
    <2>1. /\ UNCHANGED <<program, stage, handle, pending, memory>> /\ world.changes > 0
          /\ world' = [world EXCEPT !.changes = world.changes - 1] \/ world' = world
      BY <1>4 DEF run_command
    <2>2. world' \in [changes : Nat, mishap : {{}}]
      BY <2>1
    <2>3. QED
      BY <2>1, <2>2
  <1>5. CASE FileChanges
    BY <1>5 DEF FileChanges
  <1>6. QED
    BY <1>1, <1>2, <1>3, <1>4, <1>5, OneProgram
       DEF ProcessStep, ProcessWorld, SpawnMain, on_exit, DetachedExits, Spawners

-----------------------------------------------------------------------------
(* signal.                                                                 *)

\* The place of a handle among those its thread starts.
Place(h) == IF h \in {"sig1a", "sig2"} THEN 1 ELSE 2

SignalTypes ==
  /\ stage \in {"setup", "many", "killed", "done"}
  /\ Static(Sigs) /\ pending = <<>>
  /\ own \in [started : [Threads -> 0 .. 2], ended : SUBSET Threads, calls : [Sigs -> Nat]]
  /\ world \in [sent : Nat, inbox : SUBSET Sigs, mishap : {{}}]

\* A handle is started in its turn, is active until its callback has run,
\* and then has run once; a thread ends after both of its handles.
SignalCalls ==
  /\ \A h \in Sigs :
       IF own.started[ThreadOf(h)] < Place(h) THEN handle[h] = "none" /\ own.calls[h] = 0
       ELSE \/ handle[h] = "active" /\ own.calls[h] = 0
            \/ handle[h] = "idle" /\ own.calls[h] = 1
  /\ \A h \in world.inbox : own.started[ThreadOf(h)] >= Place(h)
  /\ \A h \in Sigs : ThreadOf(h) \in own.ended => own.calls[h] = 1
  /\ stage = "done" => own.ended = Threads

SignalInv == program = "signal" => SignalTypes /\ SignalCalls

\* signal starts with no thread at its first handle.
LEMMA SignalStarts == Init => SignalInv
  <1> SUFFICES ASSUME Init, program = "signal"
               PROVE  SignalInv
    BY DEF SignalInv
  <1>1. SignalInit
    BY OneStart
  <1>2. QED
    BY <1>1, SignalsAssumption
       DEF SignalInit, Begin, SignalInv, SignalTypes, SignalCalls, Static, States, Place,
           ThreadOf, Threads, Sigs

\* A handle of signal is started, receives a signal and is stopped, in this order.
LEMMA SignalKept == SignalInv /\ Next => SignalInv'
  <1> SUFFICES ASSUME SignalTypes, SignalCalls, Next, program = "signal"
               PROVE  SignalTypes' /\ SignalCalls'
    BY OneProgram DEF SignalInv
  <1> USE SignalsAssumption
  <1> DEFINE Kept == SignalTypes' /\ SignalCalls'
  <1>1. handle \in [Handles -> States]
    BY DEF SignalTypes, Static
  <1>2. CASE UvRunReturns \/ \E h \in Handles : CloseCallback(h)
    BY <1>2 DEF UvRunReturns, CloseCallback, CloseDone, SignalTypes
  <1>3. CASE SignalMain
    BY <1>3 DEF SignalMain, Setup, SignalTypes, SignalCalls, Static
  <1>4. CASE Join
    BY <1>4 DEF Join, Many, SignalTypes, SignalCalls, Static
  <1>5. ASSUME NEW t \in Threads, Start(t)
        PROVE  Kept
    <2>1. PICK h \in Sigs : SigsOf[t][own.started[t] + 1] = h /\ ThreadOf(h) = t
                              /\ Place(h) = own.started[t] + 1
      <3>1. own.started[t] = 0 \/ own.started[t] = 1
        BY <1>5 DEF Start, SignalTypes
      <3>2. CASE t = "thread1"
        BY <3>1, <3>2 DEF SigsOf, Sigs, ThreadOf, Place
      <3>3. CASE t = "thread2"
        BY <3>1, <3>3 DEF SigsOf, Sigs, ThreadOf, Place
      <3>4. QED
        BY <3>2, <3>3 DEF Threads
    <2>2. /\ stage = "many" /\ own.started[t] < 2 /\ handle' = Turn({h}, "active")
          /\ own' = [own EXCEPT !.started[t] = own.started[t] + 1]
          /\ UNCHANGED <<program, stage, pending, memory, world>>
      BY <1>5, <2>1 DEF Start, Many
    <2>3. h \in Handles /\ Turn({h}, "active") = [handle EXCEPT ![h] = "active"]
      BY <1>1, TurnIs DEF Sigs
    <2>4. handle' = [handle EXCEPT ![h] = "active"]
      BY <2>2, <2>3
    <2>5. /\ own' = [started |-> [own.started EXCEPT ![t] = own.started[t] + 1],
                     ended |-> own.ended, calls |-> own.calls]
          /\ [own.started EXCEPT ![t] = own.started[t] + 1] \in [Threads -> 0 .. 2]
      <3>1. own.started[t] + 1 \in 0 .. 2
        BY <2>2 DEF SignalTypes
      <3> DEFINE k == own.started[t] + 1
      <3> HIDE DEF k
      <3>2. own' = [own EXCEPT !.started[t] = k] /\ k \in 0 .. 2
        BY <2>2, <3>1 DEF k
      <3>3. /\ own' = [started |-> [own.started EXCEPT ![t] = k], ended |-> own.ended,
                       calls |-> own.calls]
            /\ [own.started EXCEPT ![t] = k] \in [Threads -> 0 .. 2]
        BY <3>2 DEF SignalTypes
      <3>4. QED
        BY <3>3 DEF k
    <2>6. SignalTypes'
      BY <2>2, <2>3, <2>4, <2>5 DEF SignalTypes, Static, States
    <2>7. \A g \in Sigs \ {h} : ThreadOf(g) = t => Place(g) # Place(h)
      BY <2>1 DEF Sigs, ThreadOf, Place
    <2>8. \A g \in Sigs : Place(g) \in {1, 2} /\ ThreadOf(g) \in Threads
      BY DEF Place, ThreadOf, Threads
    <2>9. \A g \in Sigs : own'.started[ThreadOf(g)] =
                            IF ThreadOf(g) = t THEN Place(h) ELSE own.started[ThreadOf(g)]
      BY <2>1, <2>5, <2>8 DEF SignalTypes
    <2>10. handle[h] = "none" /\ own.calls[h] = 0
      BY <2>1, <2>2 DEF SignalCalls, SignalTypes
    <2>11. ASSUME NEW g \in Sigs
           PROVE  IF own'.started[ThreadOf(g)] < Place(g)
                  THEN handle'[g] = "none" /\ own'.calls[g] = 0
                  ELSE \/ handle'[g] = "active" /\ own'.calls[g] = 0
                       \/ handle'[g] = "idle" /\ own'.calls[g] = 1
      <3>1. g \in Handles /\ own'.calls[g] = own.calls[g]
        BY <2>5 DEF Sigs
      <3>2. CASE g = h
        BY <1>1, <2>1, <2>3, <2>4, <2>8, <2>9, <2>10, <3>1, <3>2
      <3>3. CASE g # h /\ ThreadOf(g) # t
        BY <2>4, <2>9, <3>1, <3>3 DEF SignalCalls
      <3>4. CASE g # h /\ ThreadOf(g) = t
        <4>1. handle'[g] = handle[g]
          BY <2>4, <3>4
        <4>2. own.started[t] < Place(g) <=> Place(h) < Place(g)
          BY SMTT(30), <2>1, <2>2, <2>7, <2>8, <3>4 DEF SignalTypes
        <4>3. QED
          BY <2>9, <3>1, <3>4, <4>1, <4>2 DEF SignalCalls
      <3>5. QED
        BY <3>2, <3>3, <3>4
    <2>12. \A g \in world.inbox : own'.started[ThreadOf(g)] >= Place(g)
      BY <2>1, <2>2, <2>8, <2>9 DEF SignalCalls, SignalTypes
    <2>13. SignalCalls'
      BY <2>2, <2>5, <2>11, <2>12 DEF SignalCalls
    <2>14. QED
      BY <2>6, <2>13
  <1>6. ASSUME NEW h \in Sigs, signal_handler(h)
        PROVE  Kept
    <2>1. /\ h \in world.inbox /\ handle' = Turn({h}, "idle")
          /\ own' = IF Active(h) THEN [own EXCEPT !.calls[h] = own.calls[h] + 1] ELSE own
          /\ world' = [world EXCEPT !.inbox = @ \ {h}]
          /\ UNCHANGED <<program, stage, pending, memory>>
      BY <1>6 DEF signal_handler
    <2>2. h \in Handles /\ Turn({h}, "idle") = [handle EXCEPT ![h] = "idle"]
      BY <1>1, TurnIs DEF Sigs
    <2>3. handle' = [handle EXCEPT ![h] = "idle"]
      BY <2>1, <2>2
    <2>4. world' \in [sent : Nat, inbox : SUBSET Sigs, mishap : {{}}]
            /\ world'.inbox \subseteq world.inbox
      BY <2>1 DEF SignalTypes
    <2>5. ThreadOf(h) \in Threads /\ Place(h) \in {1, 2}
      BY DEF ThreadOf, Threads, Place
    <2>6. ~(own.started[ThreadOf(h)] < Place(h))
      BY SMTT(30), <2>1, <2>5 DEF SignalCalls, SignalTypes
    <2>7. CASE Active(h)
      <3>1. own' = [started |-> own.started, ended |-> own.ended,
                    calls |-> [own.calls EXCEPT ![h] = own.calls[h] + 1]]
        BY <2>1, <2>7 DEF SignalTypes
      <3>2. own.calls[h] = 0
        BY <2>6, <2>7 DEF SignalCalls, Active
      <3>3. own'.calls = [own.calls EXCEPT ![h] = 1] /\ own'.started = own.started
              /\ own'.ended = own.ended
        BY <3>1, <3>2
      <3>4. SignalTypes'
        <4>1. own' \in [started : [Threads -> 0 .. 2], ended : SUBSET Threads,
                        calls : [Sigs -> Nat]]
          BY <3>1, <3>2 DEF SignalTypes
        <4>2. Static(Sigs)'
          BY <2>1, <2>2, <2>3 DEF SignalTypes, Static, States
        <4>3. QED
          BY <2>1, <2>4, <4>1, <4>2 DEF SignalTypes
      <3>5. own.calls \in [Sigs -> Nat] /\ \A g \in Sigs : g \in Handles
        BY DEF SignalTypes
      <3>6. SignalCalls'
        <4>1. ASSUME NEW g \in Sigs
              PROVE  IF own'.started[ThreadOf(g)] < Place(g)
                     THEN handle'[g] = "none" /\ own'.calls[g] = 0
                     ELSE \/ handle'[g] = "active" /\ own'.calls[g] = 0
                          \/ handle'[g] = "idle" /\ own'.calls[g] = 1
          <5>1. CASE g = h
            BY <1>1, <2>3, <2>6, <3>3, <3>5, <5>1
          <5>2. CASE g # h
            <6>1. handle'[g] = handle[g] /\ own'.calls[g] = own.calls[g]
              BY <1>1, <2>3, <3>3, <3>5, <5>2
            <6>2. QED
              BY <3>3, <6>1 DEF SignalCalls
          <5>3. QED
            BY <5>1, <5>2
        <4>2. \A g \in world'.inbox : own'.started[ThreadOf(g)] >= Place(g)
          BY <2>4, <3>3 DEF SignalCalls
        <4>3. \A g \in Sigs : ThreadOf(g) \in own'.ended => own'.calls[g] = 1
          BY <3>3, <3>5 DEF SignalCalls
        <4>4. QED
          BY <2>1, <3>3, <4>1, <4>2, <4>3 DEF SignalCalls
      <3>7. QED
        BY <3>4, <3>6
    <2>8. CASE ~Active(h)
      <3>1. own' = own
        BY <2>1, <2>8
      <3>2. handle[h] = "idle"
        BY <2>6, <2>8 DEF SignalCalls, Active
      <3>3. handle' = handle
        BY <1>1, <2>2, <2>3, <3>2
      <3>4. QED
        BY <2>1, <2>4, <3>1, <3>3 DEF SignalTypes, SignalCalls, Static
    <2>9. QED
      BY <2>7, <2>8
  <1>7. ASSUME NEW t \in Threads, End(t)
        PROVE  Kept
    <2>1. /\ own.started[t] = 2 /\ ~Active(SigsOf[t][1]) /\ ~Active(SigsOf[t][2])
          /\ own' = [own EXCEPT !.ended = own.ended \cup {t}] /\ stage = "many"
          /\ UNCHANGED <<program, stage, handle, pending, memory, world>>
      BY <1>7 DEF End, InUvRun, Many
    <2>2. own' = [started |-> own.started, ended |-> own.ended \cup {t}, calls |-> own.calls]
      BY <2>1 DEF SignalTypes
    <2>3. ASSUME NEW h \in Sigs, ThreadOf(h) = t
          PROVE  own.calls[h] = 1
      <3>1. ~Active(h)
        BY <2>1, <2>3 DEF SigsOf, ThreadOf, Sigs
      <3>2. ~(own.started[ThreadOf(h)] < Place(h))
        BY <2>1, <2>3 DEF Place
      <3>3. QED
        BY <3>1, <3>2 DEF SignalCalls, Active
    <2>4. SignalTypes'
      BY <2>1, <2>2 DEF SignalTypes, Static
    <2>5. SignalCalls'
      BY <2>1, <2>2, <2>3 DEF SignalCalls
    <2>6. QED
      BY <2>4, <2>5
  <1>8. CASE Signal
    <2>1. /\ UNCHANGED <<program, handle, pending, memory, own>> /\ stage = "many"
          /\ stage' \in {"many", "killed"}
          /\ \/ world' = [world EXCEPT !.sent = @ + 1,
                                       !.inbox = @ \cup {h \in Sigs : Active(h)}]
             \/ world' = [world EXCEPT !.sent = @ + 1]
      BY <1>8 DEF Signal, Many
    <2>a. /\ world' \in [sent : Nat, inbox : SUBSET Sigs, mishap : {{}}]
          /\ \A h \in world'.inbox : h \in world.inbox \/ Active(h)
      <3> DEFINE n == world.sent + 1
                 old == world.inbox
                 active == {h \in Sigs : Active(h)}
                 inbox == old \cup active
      <3>1. /\ n \in Nat /\ old \in SUBSET Sigs
            /\ \A h \in active : h \in Sigs /\ Active(h)
        BY DEF SignalTypes
      <3>2. \/ world' = [world EXCEPT !.sent = n, !.inbox = inbox]
            \/ world' = [world EXCEPT !.sent = n]
        BY <2>1
      <3> HIDE DEF n, active
      <3>3. inbox \in SUBSET Sigs /\ \A h \in inbox : h \in old \/ Active(h)
        BY <3>1
      <3> HIDE DEF inbox
      <3>4. \/ world' = [sent |-> n, inbox |-> inbox, mishap |-> {}]
            \/ world' = [sent |-> n, inbox |-> old, mishap |-> {}]
        BY <3>2 DEF SignalTypes
      <3> HIDE DEF old
      <3>5. /\ world' \in [sent : Nat, inbox : SUBSET Sigs, mishap : {{}}]
            /\ \A h \in world'.inbox : h \in old \/ Active(h)
        BY <3>1, <3>3, <3>4
      <3>6. QED
        BY <3>5 DEF old
    <2>2. \A h \in Sigs : Active(h) => own.started[ThreadOf(h)] >= Place(h)
      <3>1. \A h \in Sigs : own.started[ThreadOf(h)] \in 0 .. 2 /\ Place(h) \in {1, 2}
        BY DEF SignalTypes, ThreadOf, Threads, Place
      <3>2. QED
        BY <3>1 DEF SignalCalls, Active
    <2>3. QED
      BY <2>1, <2>a, <2>2 DEF SignalTypes, SignalCalls, Static
  <1>9. QED
    BY <1>2, <1>3, <1>4, <1>5, <1>6, <1>7, <1>8, OneProgram DEF SignalStep, SignalWorld

-----------------------------------------------------------------------------
(* uvwget.                                                                 *)

Going == {"none", "queued", "resolving", "connecting", "receiving", "done"}

UvwgetTypes ==
  /\ stage \in {"setup", "loop", "failed", "crashed", "done"}
  /\ handle \in [Handles -> States] /\ pending = <<>>
  /\ own \in [socketp : [Transfers -> BOOLEAN],
              sockfd : [Transfers -> Descriptors \cup {Nobody}]]
  /\ world \in [transfer : [Transfers -> Going],
                mishap : SUBSET {"timer_lost", "other_action", "not_polled"}]
  /\ memory \subseteq Objects({"timeout"} \cup Transfers) /\ Object("timeout") \in memory
  /\ \A h \in Handles \ ({"timeout"} \cup Transfers) : handle[h] = "none"
  /\ stage = "setup" => \A t \in Transfers : world.transfer[t] = "none"

\* A transfer has a context with an active handle while its socket is
\* polled, and the context stays until its handle is closed.
UvwgetSocket(t) ==
  /\ own.socketp[t] <=> world.transfer[t] \in Polled
  /\ handle[t] = "active" <=> world.transfer[t] \in Polled
  /\ handle[t] \in {"none", "active", "closing", "closed"}
  /\ world.transfer[t] \notin Polled \cup {"done"} => handle[t] = "none"
  /\ Object(t) \in memory <=> handle[t] \in {"active", "closing"}

\* What has no socket waits for the timer, unless that was lost.
UvwgetTimer ==
  /\ handle["timeout"] \in {"none", "idle", "active"}
  /\ stage # "setup" /\ "timer_lost" \notin world.mishap /\ Needed(world.transfer) =>
       handle["timeout"] = "active"
  /\ stage = "done" => handle["timeout"] # "active"
                       /\ \A t \in Transfers : handle[t] \notin {"active", "closing"}

\* The open sockets have numbers of their own.
UvwgetNumbers ==
  \A t, u \in Transfers :
    t # u /\ world.transfer[t] \in Polled /\ world.transfer[u] \in Polled =>
      own.sockfd[t] # own.sockfd[u]

UvwgetInv ==
  program = "uvwget" =>
    /\ UvwgetTypes /\ UvwgetTimer /\ UvwgetNumbers
    /\ \A t \in Transfers : UvwgetSocket(t)

\* uvwget starts with no transfer added.
LEMMA UvwgetStarts == Init => UvwgetInv
  <1> SUFFICES ASSUME Init, program = "uvwget"
               PROVE  UvwgetInv
    BY DEF UvwgetInv
  <1> USE TransfersAssumption
  <1>1. UvwgetInit
    BY OneStart
  <1>2. UvwgetTypes
    BY <1>1 DEF UvwgetInit, Begin, UvwgetTypes, States, Going, Objects
  <1>3. UvwgetTimer
    BY <1>1 DEF UvwgetInit, Begin, UvwgetTimer
  <1>4. \A t \in Transfers : UvwgetSocket(t)
    BY <1>1 DEF UvwgetInit, Begin, UvwgetSocket, Polled, Objects, Object
  <1>5. UvwgetNumbers
    BY <1>1 DEF UvwgetInit, Begin, UvwgetNumbers, Polled
  <1>6. QED
    BY <1>2, <1>3, <1>4, <1>5 DEF UvwgetInv

\* libcurl takes each transfer on, or leaves it, or gives it up.
LEMMA AfterIs ==
  /\ \A s \in Going : Following(s) \subseteq {"resolving", "connecting", "receiving", "over"}
  /\ \A s \in Going : s \in Polled => Following(s) \subseteq {"receiving", "over"}
  /\ \A s \in {"none", "done"} : Following(s) = {}
  BY DEF Following, Going, Polled

\* Both callbacks leave every transfer with the handle and the context that
\* its new state asks for.
LEMMA SocketsHandled ==
  ASSUME UvwgetTypes, \A t \in Transfers : UvwgetSocket(t),
         NEW next \in [Transfers -> Going \cup {"over"}], NEW timer \in {"idle", "active"},
         \A t \in Transfers : \/ next[t] = world.transfer[t]
                              \/ next[t] \in Following(world.transfer[t]),
         handle_socket(next, timer),
         world'.transfer = check_multi_info(next)
  PROVE  /\ handle' \in [Handles -> States] /\ handle'["timeout"] = timer
         /\ own' \in [socketp : [Transfers -> BOOLEAN],
                     sockfd : [Transfers -> Descriptors \cup {Nobody}]]
         /\ UvwgetNumbers'
         /\ world'.transfer \in [Transfers -> Going]
         /\ memory' \subseteq Objects({"timeout"} \cup Transfers) /\ Object("timeout") \in memory'
         /\ \A h \in Handles \ ({"timeout"} \cup Transfers) : handle'[h] = "none"
         /\ \A t \in Transfers : UvwgetSocket(t)'
         /\ Needed(world'.transfer) <=> Needed(next)
  <1> USE TransfersAssumption
  <1>0. PICK fd \in [Transfers -> Descriptors \cup {Nobody}] :
          /\ \A t, u \in Transfers :
               t # u /\ next[t] \in Polled /\ next[u] \in Polled => fd[t] # fd[u]
          /\ own' = [socketp |-> [t \in Transfers |-> next[t] \in Polled], sockfd |-> fd]
    BY DEF handle_socket, create_curl_context
  <1>1. /\ own'.socketp = [t \in Transfers |-> next[t] \in Polled] /\ own'.sockfd = fd
        /\ memory' = memory \cup {Object(t) : t \in {u \in Transfers : next[u] \in Polled}}
        /\ handle' = [h \in Handles |->
             CASE h = "timeout" -> timer
               [] h \in Transfers /\ next[h] \in Polled -> "active"
               [] h \in Transfers /\ next[h] = "over" /\ own.socketp[h] -> "closing"
               [] OTHER -> handle[h]]
    BY <1>0 DEF handle_socket
  <1>2. handle \in [Handles -> States] /\ world.transfer \in [Transfers -> Going]
    BY DEF UvwgetTypes
  <1>3. \A t \in Transfers : /\ t \in Handles /\ t # "timeout"
                             /\ own'.socketp[t] <=> next[t] \in Polled
                             /\ world'.transfer[t] = IF next[t] = "over" THEN "done" ELSE next[t]
    BY <1>1 DEF check_multi_info
  <1>4. handle'["timeout"] = timer
    BY <1>1
  <1>5. ASSUME NEW t \in Transfers
        PROVE  handle'[t] = IF next[t] \in Polled THEN "active"
                            ELSE IF next[t] = "over" /\ own.socketp[t] THEN "closing"
                            ELSE handle[t]
    <2>1. CASE next[t] \in Polled
      BY <1>1, <1>3, <2>1 DEF Polled
    <2>2. CASE next[t] \notin Polled /\ next[t] = "over" /\ own.socketp[t]
      BY <1>1, <1>3, <2>2 DEF Polled
    <2>3. CASE next[t] \notin Polled /\ ~(next[t] = "over" /\ own.socketp[t])
      BY <1>1, <1>3, <2>3
    <2>4. QED
      BY <2>1, <2>2, <2>3
  <1>6. \A h \in Handles \ ({"timeout"} \cup Transfers) : handle'[h] = handle[h]
    BY <1>1
  <1>7. handle' \in [Handles -> States]
    <2>1. ASSUME NEW h \in Handles
          PROVE  handle'[h] \in States
      BY <1>2, <1>4, <1>5, <1>6 DEF States
    <2>2. QED
      BY <1>1, <2>1
  <1>8. \A t \in Transfers : Object(t) \in memory' <=> Object(t) \in memory \/ next[t] \in Polled
    BY <1>1 DEF Object
  <1>9. ASSUME NEW t \in Transfers
        PROVE  UvwgetSocket(t)'
    <2>1. world.transfer[t] \in Going /\ next[t] \in Going \cup {"over"}
      BY <1>2
    <2>2. UvwgetSocket(t)
      OBVIOUS
    <2>3. world'.transfer[t] \in Polled <=> next[t] \in Polled
      BY <1>3 DEF Polled
    <2>4. CASE next[t] \in Polled
      <3>1. handle'[t] = "active" /\ own'.socketp[t] /\ Object(t) \in memory'
        BY <1>3, <1>5, <1>8, <2>4
      <3>2. QED
        BY <2>3, <2>4, <3>1 DEF UvwgetSocket
    <2>5. CASE next[t] = "over" /\ own.socketp[t]
      <3>1. /\ handle'[t] = "closing" /\ ~own'.socketp[t] /\ world'.transfer[t] = "done"
            /\ next[t] \notin Polled
        BY <1>3, <1>5, <2>5 DEF Polled
      <3>2. Object(t) \in memory
        BY <2>2, <2>5 DEF UvwgetSocket
      <3>3. QED
        BY <1>8, <2>3, <3>1, <3>2 DEF UvwgetSocket
    <2>6. CASE next[t] \notin Polled /\ ~(next[t] = "over" /\ own.socketp[t])
      <3>1. /\ handle'[t] = handle[t] /\ ~own'.socketp[t]
            /\ Object(t) \in memory' <=> Object(t) \in memory
        BY <1>3, <1>5, <1>8, <2>6
      <3>2. world.transfer[t] \notin Polled
        BY <2>1, <2>2, <2>6, AfterIs DEF UvwgetSocket, Polled
      <3>3. world'.transfer[t] \notin Polled \cup {"done"} =>
              world.transfer[t] \notin Polled \cup {"done"}
        BY <1>3, <2>1, <2>6, <3>2, AfterIs
      <3>4. QED
        BY <2>2, <2>3, <2>6, <3>1, <3>2, <3>3 DEF UvwgetSocket
    <2>7. QED
      BY <2>4, <2>5, <2>6
  <1>10. own' \in [socketp : [Transfers -> BOOLEAN],
                sockfd : [Transfers -> Descriptors \cup {Nobody}]]
    BY <1>0
  <1>11. world'.transfer \in [Transfers -> Going]
    BY DEF check_multi_info, Going
  <1>12. memory' \subseteq Objects({"timeout"} \cup Transfers) /\ Object("timeout") \in memory'
    BY <1>1 DEF UvwgetTypes, Objects
  <1>13. Needed(world'.transfer) <=> Needed(next)
    BY <1>3 DEF Needed, ByTimer
  <1>14. UvwgetNumbers'
    BY <1>0, <1>1, <1>3 DEF UvwgetNumbers, Polled
  <1>15. QED
    BY <1>4, <1>6, <1>7, <1>9, <1>10, <1>11, <1>12, <1>13, <1>14 DEF UvwgetTypes

\* A call of libcurl leaves each transfer with its socket, or waiting for the timer.
LEMMA UvwgetKept == UvwgetInv /\ Next => UvwgetInv'
  <1> SUFFICES ASSUME UvwgetTypes, UvwgetTimer, UvwgetNumbers,
                      \A t \in Transfers : UvwgetSocket(t), Next, program = "uvwget"
               PROVE  /\ UvwgetTypes' /\ UvwgetTimer' /\ UvwgetNumbers'
                      /\ \A t \in Transfers : UvwgetSocket(t)'
    BY OneProgram DEF UvwgetInv
  <1> USE TransfersAssumption
  <1> DEFINE Kept == /\ UvwgetTypes' /\ UvwgetTimer' /\ UvwgetNumbers'
                     /\ \A t \in Transfers : UvwgetSocket(t)'
  <1>1. handle \in [Handles -> States] /\ "timeout" \in Handles /\ Transfers \subseteq Handles
    BY DEF UvwgetTypes
  <1>2. CASE UvRunReturns
    <2>1. /\ stage' = "done" /\ UNCHANGED <<program, handle, pending, memory, own, world>>
          /\ \A h \in Handles : handle[h] \notin {"active", "closing"} /\ stage = "loop"
      BY <1>2 DEF UvRunReturns, LoopAlive
    <2>2. UvwgetTypes'
      BY <2>1 DEF UvwgetTypes
    <2>3. UvwgetTimer'
      BY <1>1, <2>1 DEF UvwgetTimer
    <2>4. UvwgetNumbers' /\ \A t \in Transfers : UvwgetSocket(t)'
      BY <2>1 DEF UvwgetNumbers, UvwgetSocket
    <2>5. QED
      BY <2>2, <2>3, <2>4
  <1>3. ~(\E h \in Handles : CloseCallback(h))
    BY DEF CloseCallback
  <1>4. CASE UvwgetMain
    <2>1. stage = "setup" /\ UNCHANGED <<program, pending, memory, own>>
      BY <1>4 DEF UvwgetMain, Setup
    <2>2. CASE stage' = "failed" /\ UNCHANGED <<handle, world>>
      <3>1. ~Needed(world.transfer)
        BY <2>1 DEF UvwgetTypes, Needed, ByTimer
      <3>2. UvwgetTypes'
        BY <2>1, <2>2 DEF UvwgetTypes
      <3>3. UvwgetTimer'
        BY <2>1, <2>2, <3>1 DEF UvwgetTimer
      <3>4. UvwgetNumbers' /\ \A t \in Transfers : UvwgetSocket(t)'
        BY <2>1, <2>2 DEF UvwgetNumbers, UvwgetSocket
      <3>5. QED
        BY <3>2, <3>3, <3>4
    <2>3. ASSUME NEW files \in SUBSET Transfers, add_download(files), stage' = "loop"
          PROVE  Kept
      <3> DEFINE timer == IF files = {} THEN "idle" ELSE "active"
                 transfer == [t \in Transfers |-> IF t \in files THEN "queued" ELSE "none"]
      <3>1. Turn({"timeout"}, timer) = [handle EXCEPT !["timeout"] = timer]
        BY <1>1, TurnIs
      <3>2. handle' = [handle EXCEPT !["timeout"] = timer]
        BY <2>3, <3>1 DEF add_download
      <3>3. world' = [world EXCEPT !.transfer = transfer]
        BY <2>3 DEF add_download
      <3>4. /\ transfer \in [Transfers -> Going] /\ timer \in States /\ timer \in {"idle", "active"}
            /\ \A t \in Transfers : transfer[t] \in {"queued", "none"}
            /\ Needed(transfer) => timer = "active"
        BY DEF Going, States, Needed, ByTimer
      <3>5. \A t \in Transfers : world.transfer[t] = "none"
        BY <2>1 DEF UvwgetTypes
      <3> HIDE DEF timer, transfer
      <3>6. world'.transfer = transfer /\ world'.mishap = world.mishap
        BY <3>3 DEF UvwgetTypes
      <3>7. UvwgetTypes'
        <4>1. world' \in [transfer : [Transfers -> Going],
                          mishap : SUBSET {"timer_lost", "other_action", "not_polled"}]
          BY <3>3, <3>4 DEF UvwgetTypes
        <4>2. QED
          BY <1>1, <2>1, <2>3, <3>2, <3>4, <4>1 DEF UvwgetTypes
      <3>8. UvwgetTimer'
        BY <1>1, <2>3, <3>2, <3>4, <3>6 DEF UvwgetTimer
      <3>9. ASSUME NEW t \in Transfers
            PROVE  UvwgetSocket(t)'
        <4>1. handle'[t] = handle[t]
          BY <1>1, <3>2
        <4>2. transfer[t] \notin Polled /\ world.transfer[t] \notin Polled \cup {"done"}
          BY <3>4, <3>5 DEF Polled
        <4>3. QED
          BY <2>1, <3>6, <4>1, <4>2 DEF UvwgetSocket
      <3>10. UvwgetNumbers'
        BY <3>4, <3>6 DEF UvwgetNumbers, Polled
      <3>11. QED
        BY <3>7, <3>8, <3>9, <3>10
    <2>4. QED
      BY <1>4, <2>2, <2>3 DEF UvwgetMain
  <1>5. CASE on_timeout
    <2>1. PICK next \in AfterTimeout, timer \in {"idle", "active"} :
            /\ Needed(next) => timer = "active"
            /\ handle_socket(next, timer)
            /\ world' = [world EXCEPT !.transfer = check_multi_info(next)]
      BY <1>5 DEF on_timeout
    <2>2. stage = "loop" /\ UNCHANGED <<program, stage, pending>>
      BY <1>5 DEF on_timeout, Running, InLoop
    <2>3. /\ next \in [Transfers -> Going \cup {"over"}]
          /\ \A t \in Transfers : \/ next[t] = world.transfer[t]
                                  \/ next[t] \in Following(world.transfer[t])
      BY <2>1 DEF AfterTimeout, Going
    <2>4. /\ world'.transfer = check_multi_info(next) /\ world'.mishap = world.mishap
          /\ world' = [transfer |-> world'.transfer, mishap |-> world.mishap]
      BY <2>1 DEF UvwgetTypes
    <2> DEFINE Handled ==
           /\ handle' \in [Handles -> States] /\ handle'["timeout"] = timer
           /\ own' \in [socketp : [Transfers -> BOOLEAN],
                       sockfd : [Transfers -> Descriptors \cup {Nobody}]]
           /\ UvwgetNumbers'
           /\ world'.transfer \in [Transfers -> Going]
           /\ memory' \subseteq Objects({"timeout"} \cup Transfers) /\ Object("timeout") \in memory'
           /\ \A h \in Handles \ ({"timeout"} \cup Transfers) : handle'[h] = "none"
           /\ \A t \in Transfers : UvwgetSocket(t)'
           /\ Needed(world'.transfer) <=> Needed(next)
    <2>5. Handled
      BY <2>1, <2>3, <2>4, SocketsHandled
    <2>6. UvwgetTypes'
      BY <2>2, <2>4, <2>5 DEF UvwgetTypes
    <2>7. UvwgetTimer'
      BY <2>1, <2>2, <2>5 DEF UvwgetTimer
    <2>8. QED
      BY <2>5, <2>6, <2>7
  <1>6. ASSUME NEW u \in Transfers, curl_perform(u)
        PROVE  Kept
    <2>1. PICK next \in AfterEvent(u), timer \in {"idle", "active"} :
            /\ handle_socket(next, timer)
            /\ world' = [world EXCEPT
                 !.transfer = check_multi_info(next),
                 !.mishap = IF Needed(next) /\ timer = "idle"
                            THEN @ \cup {"timer_lost"} ELSE @]
      BY <1>6 DEF curl_perform
    <2>2. stage = "loop" /\ UNCHANGED <<program, stage, pending>>
      BY <1>6 DEF curl_perform, Running, InLoop
    <2>3. /\ next \in [Transfers -> Going \cup {"over"}]
          /\ \A t \in Transfers : \/ next[t] = world.transfer[t]
                                  \/ next[t] \in Following(world.transfer[t])
      <3>1. PICK s \in Following(world.transfer[u]) : next = [world.transfer EXCEPT ![u] = s]
        BY <2>1 DEF AfterEvent
      <3>2. world.transfer \in [Transfers -> Going]
        BY DEF UvwgetTypes
      <3>3. s \in Going \cup {"over"}
        BY <3>2, AfterIs DEF Going
      <3>4. QED
        BY <3>1, <3>2, <3>3
    <2> DEFINE mishap == IF Needed(next) /\ timer = "idle"
                         THEN world.mishap \cup {"timer_lost"} ELSE world.mishap
    <2>4. /\ world'.transfer = check_multi_info(next) /\ world'.mishap = mishap
          /\ world' = [transfer |-> world'.transfer, mishap |-> mishap]
      BY <2>1 DEF UvwgetTypes
    <2> DEFINE Handled ==
           /\ handle' \in [Handles -> States] /\ handle'["timeout"] = timer
           /\ own' \in [socketp : [Transfers -> BOOLEAN],
                       sockfd : [Transfers -> Descriptors \cup {Nobody}]]
           /\ UvwgetNumbers'
           /\ world'.transfer \in [Transfers -> Going]
           /\ memory' \subseteq Objects({"timeout"} \cup Transfers) /\ Object("timeout") \in memory'
           /\ \A h \in Handles \ ({"timeout"} \cup Transfers) : handle'[h] = "none"
           /\ \A t \in Transfers : UvwgetSocket(t)'
           /\ Needed(world'.transfer) <=> Needed(next)
    <2>5. Handled
      BY <2>1, <2>3, <2>4, SocketsHandled
    <2>6. /\ mishap \in SUBSET {"timer_lost", "other_action", "not_polled"}
          /\ "timer_lost" \notin mishap /\ Needed(next) => timer = "active"
      BY DEF UvwgetTypes
    <2> HIDE DEF mishap
    <2>7. UvwgetTypes'
      BY <2>2, <2>4, <2>5, <2>6 DEF UvwgetTypes
    <2>8. UvwgetTimer'
      BY <2>2, <2>4, <2>5, <2>6 DEF UvwgetTimer
    <2>9. QED
      BY <2>5, <2>7, <2>8
  <1>7. ASSUME NEW u \in Transfers, curl_close_cb(u)
        PROVE  Kept
    <2>1. /\ stage = "loop" /\ handle[u] = "closing" /\ handle' = Turn({u}, "closed")
          /\ memory' = memory \ {Object(u)} /\ own' = [own EXCEPT !.sockfd[u] = Nobody]
          /\ UNCHANGED <<program, stage, pending, world>>
      BY <1>7 DEF curl_close_cb, CloseDone
    <2>2. u \in Handles /\ u # "timeout"
      BY <1>1
    <2>3. Turn({u}, "closed") = [handle EXCEPT ![u] = "closed"]
      BY <1>1, <2>2, TurnIs
    <2>4. handle' = [handle EXCEPT ![u] = "closed"]
      BY <2>1, <2>3
    <2>5. \A t \in Transfers \cup {"timeout"} : t # u => Object(t) # Object(u)
      BY DEF Object
    <2>a. /\ own' \in [socketp : [Transfers -> BOOLEAN],
                       sockfd : [Transfers -> Descriptors \cup {Nobody}]]
          /\ own'.socketp = own.socketp
          /\ \A t \in Transfers : t # u => own'.sockfd[t] = own.sockfd[t]
      BY <2>1 DEF UvwgetTypes
    <2>6. UvwgetTypes'
      <3>1. /\ memory' \subseteq Objects({"timeout"} \cup Transfers)
            /\ Object("timeout") \in memory'
        BY <2>1, <2>2, <2>5 DEF UvwgetTypes
      <3>2. /\ handle' \in [Handles -> States]
            /\ \A h \in Handles \ ({"timeout"} \cup Transfers) : handle'[h] = "none"
        BY <1>1, <2>2, <2>4 DEF UvwgetTypes, States
      <3>3. QED
        BY <2>1, <2>a, <3>1, <3>2 DEF UvwgetTypes
    <2>7. UvwgetTimer'
      BY <1>1, <2>1, <2>2, <2>4 DEF UvwgetTimer
    <2>b. UvwgetNumbers'
      <3>1. world.transfer[u] \notin Polled
        BY <2>1 DEF UvwgetSocket
      <3>2. QED
        BY <2>1, <2>a, <3>1 DEF UvwgetNumbers
    <2>8. ASSUME NEW t \in Transfers
          PROVE  UvwgetSocket(t)'
      <3>1. UvwgetSocket(t)
        OBVIOUS
      <3>2. CASE t = u
        BY <1>1, <2>1, <2>2, <2>4, <2>a, <3>1, <3>2 DEF UvwgetSocket
      <3>3. CASE t # u
        BY <1>1, <2>1, <2>4, <2>5, <2>a, <3>1, <3>3 DEF UvwgetSocket
      <3>4. QED
        BY <3>2, <3>3
    <2>9. QED
      BY <2>6, <2>7, <2>8, <2>b
  <1>8. CASE PollBoth \/ AssertFails
    <2>1. PICK what \in {"other_action", "not_polled"} :
            /\ stage = "loop" /\ stage' = "crashed"
            /\ world' = [world EXCEPT !.mishap = @ \cup {what}]
            /\ UNCHANGED <<program, handle, pending, memory, own>>
      BY <1>8 DEF PollBoth, AssertFails, Running, InLoop, Mishap
    <2>2. world'.transfer = world.transfer /\ world'.mishap = world.mishap \cup {what}
      BY <2>1 DEF UvwgetTypes
    <2>3. UvwgetTypes'
      BY <2>1 DEF UvwgetTypes
    <2>4. UvwgetTimer'
      BY <2>1, <2>2 DEF UvwgetTimer
    <2>5. UvwgetNumbers' /\ \A t \in Transfers : UvwgetSocket(t)'
      BY <2>1, <2>2 DEF UvwgetNumbers, UvwgetSocket
    <2>6. QED
      BY <2>3, <2>4, <2>5
  <1>9. QED
    BY <1>2, <1>3, <1>4, <1>5, <1>6, <1>7, <1>8, OneProgram DEF UvwgetStep, UvwgetWorld

-----------------------------------------------------------------------------
(* uvtee: the requests under way as a set.                                 *)

\* The write request of the copy of chunk k for output d, with its buffer.
Copy(d, k) == Request(<<d, k>>, d, <<d, k>>)
Copies == {Copy(d, k) : d \in Outputs, k \in 1 .. Chunks}

Under(p) == {p[i] : i \in 1 .. Len(p)}

\* The requests for one output follow the chunks.
InOrder(p) ==
  \A i, j \in 1 .. Len(p) : i < j /\ p[i].on = p[j].on => p[i].buf[2] < p[j].buf[2]

\* What a copy consists of.
LEMMA CopyIs ==
  ASSUME NEW d, NEW k
  PROVE  /\ Copy(d, k).req = <<d, k>> /\ Copy(d, k).on = d
         /\ Copy(d, k).buf = <<d, k>> /\ Copy(d, k).buf[2] = k
  BY DEF Copy, Request

\* Copies for other outputs, or of other chunks, differ.
LEMMA CopyDiffers ==
  \A d, e, k, m : Copy(d, k) = Copy(e, m) => d = e /\ k = m
  <1> TAKE d, e, k, m
  <1>1. Copy(d, k).on = d /\ Copy(e, m).on = e /\ Copy(d, k).buf[2] = k /\ Copy(e, m).buf[2] = m
    BY CopyIs
  <1>2. QED
    BY <1>1

\* The copy of a new chunk comes last.
LEMMA CopyAdded ==
  ASSUME NEW p \in Seq(Copies), InOrder(p), NEW d \in Outputs, NEW n \in 1 .. Chunks,
         \A r \in Under(p) : r.on = d => r.buf[2] < n
  PROVE  LET q == p \o <<Copy(d, n)>>
         IN q \in Seq(Copies) /\ InOrder(q) /\ Under(q) = Under(p) \cup {Copy(d, n)}
  <1> DEFINE c == Copy(d, n)
             q == p \o <<c>>
             m == Len(p)
  <1>1. c \in Copies /\ c.on = d /\ c.buf[2] = n /\ m \in Nat
    BY CopyIs DEF Copies
  <1>2. p \in Seq(Copies) /\ (\A i \in 1 .. m : p[i] \in Under(p))
    BY DEF Under
  <1> HIDE DEF c
  <1>3. /\ q \in Seq(Copies) /\ Len(q) = m + 1
        /\ \A i \in 1 .. m : q[i] = p[i]
        /\ q[m + 1] = c
    BY <1>1, <1>2
  <1> HIDE DEF q
  <1>4. InOrder(q)
    <2>1. SUFFICES ASSUME NEW i \in 1 .. m + 1, NEW j \in 1 .. m + 1, i < j, q[i].on = q[j].on
                   PROVE  q[i].buf[2] < q[j].buf[2]
      BY <1>3 DEF InOrder
    <2>2. i \in 1 .. m /\ q[i] = p[i] /\ p[i] \in Under(p)
      BY <1>1, <1>2, <1>3, <2>1
    <2>3. CASE j = m + 1
      BY <1>1, <1>3, <2>1, <2>2, <2>3
    <2>4. CASE j # m + 1
      <3>1. j \in 1 .. m /\ q[j] = p[j]
        BY <1>1, <1>3, <2>4
      <3>2. QED
        BY <2>1, <2>2, <3>1 DEF InOrder
    <2>5. QED
      BY <2>3, <2>4
  <1>5. Under(q) = Under(p) \cup {c}
    <2>1. ASSUME NEW r \in Under(q)
          PROVE  r \in Under(p) \cup {c}
      <3>1. PICK i \in 1 .. m + 1 : r = q[i]
        BY <1>3 DEF Under
      <3>2. CASE i = m + 1
        BY <1>3, <3>1, <3>2
      <3>3. CASE i # m + 1
        <4>1. i \in 1 .. m
          BY <1>1, <3>3
        <4>2. QED
          BY <1>2, <1>3, <3>1, <4>1
      <3>4. QED
        BY <3>2, <3>3
    <2>2. ASSUME NEW r \in Under(p)
          PROVE  r \in Under(q)
      <3>1. PICK i \in 1 .. m : r = p[i]
        BY DEF Under
      <3>2. i \in 1 .. Len(q) /\ r = q[i]
        BY <1>1, <1>3, <3>1
      <3>3. QED
        BY <3>2 DEF Under
    <2>3. c \in Under(q)
      <3>1. m + 1 \in 1 .. Len(q)
        BY <1>1, <1>3
      <3>2. QED
        BY <1>3, <3>1 DEF Under
    <2>4. QED
      BY <2>1, <2>2, <2>3
  <1>6. QED
    BY <1>3, <1>4, <1>5 DEF q, c

\* The first request of an output is of its first chunk, and it alone goes.
LEMMA FirstGone ==
  ASSUME pending \in Seq(Copies), InOrder(pending), NEW d \in Outputs, Busy(d)
  PROVE  \E k \in 1 .. Chunks :
           /\ First(d) = Copy(d, k) /\ Copy(d, k) \in Under(pending)
           /\ \A m \in 1 .. Chunks : Copy(d, m) \in Under(pending) => k <= m
           /\ Without(First(d).req) \in Seq(Copies)
           /\ InOrder(Without(First(d).req))
           /\ Under(Without(First(d).req)) = Under(pending) \ {Copy(d, k)}
  <1> DEFINE S == {i \in DOMAIN pending : pending[i].on = d}
             f == Min(S)
             n == Len(pending)
  <1>1. n \in Nat /\ DOMAIN pending = 1 .. n /\ \A i \in 1 .. n : pending[i] \in Copies
    OBVIOUS
  <1>2. S \subseteq Nat /\ S # {}
    BY <1>1 DEF Busy
  <1>3. f \in S /\ \A i \in S : f <= i
    BY <1>2, MinIs
  <1>4. First(d) = pending[f]
    BY DEF First
  <1>5. f \in 1 .. n /\ pending[f].on = d
    BY <1>1, <1>3
  <1>6. \A i \in 1 .. n : pending[i].on = d => f <= i
    BY <1>1, <1>3
  <1> HIDE DEF f, S
  <1>7. PICK k \in 1 .. Chunks : pending[f] = Copy(d, k)
    <2>1. PICK e \in Outputs, k \in 1 .. Chunks : pending[f] = Copy(e, k)
      BY <1>1, <1>5 DEF Copies
    <2>2. e = d
      BY <1>5, <2>1, CopyIs
    <2>3. QED
      BY <2>1, <2>2
  <1>8. ASSUME NEW i \in 1 .. n, i # f
        PROVE  pending[i].req # pending[f].req /\ pending[i] # pending[f]
    <2>1. PICK e \in Outputs, m \in 1 .. Chunks : pending[i] = Copy(e, m)
      BY <1>1 DEF Copies
    <2>2. pending[i].req = <<e, m>> /\ pending[i].on = e /\ pending[i].buf[2] = m
      BY <2>1, CopyIs
    <2>3. pending[f].req = <<d, k>> /\ pending[f].on = d /\ pending[f].buf[2] = k
      BY <1>7, CopyIs
    <2>4. e = d => f < i
      BY <1>1, <1>5, <1>6, <1>8, <2>2
    <2>5. e = d => k < m
      BY <1>5, <2>2, <2>3, <2>4 DEF InOrder
    <2>6. QED
      BY <2>2, <2>3, <2>5
  <1> DEFINE T == {i \in DOMAIN pending : pending[i].req = First(d).req}
             p == RemoveAt(pending, f)
             g(i) == IF i < f THEN i ELSE i + 1
  <1>9. Without(First(d).req) = p
    <2>1. T = {f}
      BY <1>1, <1>4, <1>5, <1>8
    <2> HIDE DEF T
    <2>2. T \subseteq Nat /\ T # {}
      BY <1>5, <2>1
    <2>3. Min(T) = f
      BY <2>1, <2>2, MinIs
    <2>4. QED
      BY <2>3 DEF Without, T
  <1>10. /\ p \in Seq(Copies) /\ Len(p) = n - 1
         /\ \A i \in 1 .. n - 1 : p[i] = pending[g(i)]
    BY <1>5, RemoveAtIs
  <1>11. \A i \in 1 .. n - 1 : g(i) \in 1 .. n /\ g(i) # f
    BY <1>1, <1>5
  <1>12. \A i, j \in 1 .. n - 1 : i < j => g(i) < g(j)
    BY <1>1, <1>5
  <1>13. \A j \in 1 .. n : j # f => \E i \in 1 .. n - 1 : g(i) = j
    <2>1. SUFFICES ASSUME NEW j \in 1 .. n, j # f
                   PROVE  \E i \in 1 .. n - 1 : g(i) = j
      OBVIOUS
    <2>2. CASE j < f
      <3>1. j \in 1 .. n - 1 /\ g(j) = j
        BY <1>1, <1>5, <2>2
      <3>2. QED
        BY <3>1
    <2>3. CASE f < j
      <3>1. j - 1 \in 1 .. n - 1 /\ g(j - 1) = j
        BY <1>1, <1>5, <2>3
      <3>2. QED
        BY <3>1
    <2>4. QED
      BY <1>1, <1>5, <2>1, <2>2, <2>3
  <1> HIDE DEF p, g
  <1>14. InOrder(p)
    <2>1. SUFFICES ASSUME NEW i \in 1 .. n - 1, NEW j \in 1 .. n - 1, i < j, p[i].on = p[j].on
                   PROVE  p[i].buf[2] < p[j].buf[2]
      BY <1>10 DEF InOrder
    <2>2. g(i) \in 1 .. n /\ g(j) \in 1 .. n /\ g(i) < g(j)
      BY <1>11, <1>12, <2>1
    <2>3. p[i] = pending[g(i)] /\ p[j] = pending[g(j)]
      BY <1>10
    <2>4. QED
      BY <2>1, <2>2, <2>3 DEF InOrder
  <1>15. Under(p) = Under(pending) \ {pending[f]}
    <2>1. ASSUME NEW r \in Under(p)
          PROVE  r \in Under(pending) /\ r # pending[f]
      <3>1. PICK i \in 1 .. n - 1 : r = p[i]
        BY <1>10 DEF Under
      <3>2. r = pending[g(i)] /\ g(i) \in 1 .. n /\ g(i) # f
        BY <1>10, <1>11, <3>1
      <3>3. QED
        BY <1>8, <3>2 DEF Under
    <2>2. ASSUME NEW r \in Under(pending), r # pending[f]
          PROVE  r \in Under(p)
      <3>1. PICK j \in 1 .. n : r = pending[j]
        BY DEF Under
      <3>2. PICK i \in 1 .. n - 1 : g(i) = j
        BY <1>13, <2>2, <3>1
      <3>3. r = p[i] /\ i \in 1 .. Len(p)
        BY <1>10, <3>1, <3>2
      <3>4. QED
        BY <3>3 DEF Under
    <2>3. QED
      BY <2>1, <2>2
  <1>16. ASSUME NEW m \in 1 .. Chunks, Copy(d, m) \in Under(pending)
         PROVE  k <= m
    <2>1. PICK i \in 1 .. n : pending[i] = Copy(d, m)
      BY <1>16 DEF Under
    <2>2. pending[i].on = d /\ pending[i].buf[2] = m
      BY <2>1, CopyIs
    <2>3. pending[f].on = d /\ pending[f].buf[2] = k
      BY <1>7, CopyIs
    <2>4. CASE i = f
      BY <2>2, <2>3, <2>4
    <2>5. CASE i # f
      <3>1. f < i
        BY <1>1, <1>5, <1>6, <2>2, <2>5
      <3>2. k < m
        BY <1>5, <2>2, <2>3, <3>1 DEF InOrder
      <3>3. QED
        BY <3>2
    <2>6. QED
      BY <2>4, <2>5
  <1>17. Copy(d, k) \in Under(pending)
    BY <1>5, <1>7 DEF Under
  <1>18. QED
    BY <1>4, <1>7, <1>9, <1>10, <1>14, <1>15, <1>16, <1>17

\* An output is busy when a copy for it is under way.
LEMMA BusyIs ==
  ASSUME pending \in Seq(Copies), NEW h
  PROVE  /\ Busy(h) <=> \E d \in Outputs, k \in 1 .. Chunks :
                           h = d /\ Copy(d, k) \in Under(pending)
         /\ pending = <<>> <=> Under(pending) = {}
  <1>1. ASSUME Busy(h)
        PROVE  \E d \in Outputs, k \in 1 .. Chunks : h = d /\ Copy(d, k) \in Under(pending)
    <2>1. PICK i \in 1 .. Len(pending) : pending[i].on = h /\ pending[i] \in Copies
      BY <1>1 DEF Busy
    <2>2. PICK d \in Outputs, k \in 1 .. Chunks : pending[i] = Copy(d, k)
      BY <2>1 DEF Copies
    <2>3. h = d /\ Copy(d, k) \in Under(pending)
      BY <2>1, <2>2, CopyIs DEF Under
    <2>4. QED
      BY <2>3
  <1>2. ASSUME NEW d \in Outputs, NEW k \in 1 .. Chunks, h = d, Copy(d, k) \in Under(pending)
        PROVE  Busy(h)
    <2>1. PICK i \in 1 .. Len(pending) : pending[i] = Copy(d, k)
      BY <1>2 DEF Under
    <2>2. pending[i].on = h /\ i \in DOMAIN pending
      BY <1>2, <2>1, CopyIs
    <2>3. QED
      BY <2>2 DEF Busy
  <1>3. pending = <<>> <=> Under(pending) = {}
    <2>1. ASSUME Under(pending) = {}
          PROVE  Len(pending) = 0
      <3>1. \A i \in 1 .. Len(pending) : pending[i] \in Under(pending)
        BY DEF Under
      <3>2. ~(1 \in 1 .. Len(pending))
        BY <2>1, <3>1
      <3>3. QED
        BY <3>2
    <2>2. ASSUME pending = <<>>
          PROVE  Under(pending) = {}
      BY <2>2 DEF Under
    <2>3. QED
      BY <2>1, <2>2
  <1>4. QED
    BY <1>1, <1>2, <1>3

\* How many requests are under way for an output.
LEMMA HowMany ==
  ASSUME pending \in Seq(Copies), InOrder(pending), NEW d \in Outputs, NEW a \in Nat, NEW b \in Nat,
         a <= b, b <= Chunks, Chunks \in Nat,
         \A k \in 1 .. Chunks : Copy(d, k) \in Under(pending) <=> a < k /\ k <= b
  PROVE  Cardinality({i \in DOMAIN pending : pending[i].on = d}) = b - a
  <1> DEFINE S == {i \in DOMAIN pending : pending[i].on = d}
             T == a + 1 .. b
             f == [i \in S |-> pending[i].buf[2]]
  <1>1. \A i \in S : i \in 1 .. Len(pending) /\ pending[i].on = d
    OBVIOUS
  <1>2. ASSUME NEW i \in S
        PROVE  pending[i].buf[2] \in T /\ pending[i] = Copy(d, pending[i].buf[2])
    <2>1. PICK e \in Outputs, k \in 1 .. Chunks : pending[i] = Copy(e, k)
      BY <1>1 DEF Copies
    <2>2. pending[i].on = e /\ pending[i].buf[2] = k
      BY <2>1, CopyIs
    <2>3. e = d /\ Copy(d, k) \in Under(pending)
      BY <1>1, <2>1, <2>2 DEF Under
    <2>4. a < k /\ k <= b
      BY <2>3
    <2>5. QED
      BY <2>1, <2>2, <2>3, <2>4
  <1>3. \A i, j \in S : i # j => pending[i].buf[2] # pending[j].buf[2]
    <2>1. ASSUME NEW i \in S, NEW j \in S, i < j
          PROVE  pending[i].buf[2] # pending[j].buf[2]
      <3>1. pending[i].buf[2] < pending[j].buf[2]
        BY <1>1, <2>1 DEF InOrder
      <3>2. pending[i].buf[2] \in T /\ pending[j].buf[2] \in T
        BY <1>2
      <3>3. QED
        BY <3>1, <3>2
    <2>2. \A i, j \in S : i # j => i < j \/ j < i
      BY <1>1
    <2>3. QED
      BY <2>1, <2>2
  <1>4. ASSUME NEW k \in T
        PROVE  \E i \in S : pending[i].buf[2] = k
    <2>1. k \in 1 .. Chunks /\ a < k /\ k <= b
      OBVIOUS
    <2>2. PICK i \in 1 .. Len(pending) : pending[i] = Copy(d, k)
      BY <2>1 DEF Under
    <2>3. pending[i].on = d /\ pending[i].buf[2] = k
      BY <2>2, CopyIs
    <2>4. QED
      BY <2>2, <2>3
  <1> HIDE DEF S, T
  <1>5. f \in Bijection(S, T)
    <2>1. f \in [S -> T] /\ \A i \in S : f[i] = pending[i].buf[2]
      BY <1>2
    <2> HIDE DEF f
    <2>2. f \in Injection(S, T)
      BY <1>3, <2>1 DEF Injection, IsInjective
    <2>3. f \in Surjection(S, T)
      BY <1>4, <2>1 DEF Surjection
    <2>4. QED
      BY <2>2, <2>3 DEF Bijection
  <1>6. IsFiniteSet(T) /\ Cardinality(T) = b - a
    <2>1. a + 1 \in Int /\ b \in Int
      OBVIOUS
    <2>2. IsFiniteSet(T) /\ Cardinality(T) = IF a + 1 > b THEN 0 ELSE b - (a + 1) + 1
      BY <2>1, FS_Interval DEF T
    <2>3. QED
      BY <2>2
  <1>7. S \subseteq 1 .. Len(pending) /\ IsFiniteSet(1 .. Len(pending))
    BY <1>1, FS_Interval
  <1>8. IsFiniteSet(S)
    BY <1>7, FS_Subset
  <1>9. Cardinality(S) = Cardinality(T)
    <2>1. ExistsBijection(S, T)
      BY <1>5 DEF ExistsBijection
    <2>2. QED
      BY <1>6, <1>8, <2>1, FS_Bijection
  <1>10. QED
    BY <1>6, <1>9 DEF S


-----------------------------------------------------------------------------
(* uvtee.                                                                  *)

UvteeHandlesAre == {"stdin_pipe"} \cup Outputs

\* Nothing is submitted for a file that could not be opened.
Gone(d) == d = "file_pipe" /\ own.file = "missing"

UvteeTypes ==
  /\ stage \in {"setup", "loop", "done"}
  /\ handle \in [Handles -> States]
  /\ \A h \in Handles \ UvteeHandlesAre : handle[h] = "none"
  /\ own \in [file : {"none", "open", "missing"}]
  /\ world \in [next : 1 .. Chunks + 1, input : {"open", "ended", "failed"},
                got : [Outputs -> Seq(Nat)], mishap : SUBSET {"tail_cut", "write_failed"}]

\* The copies that are to be written are those in memory.
UvteePending ==
  /\ pending \in Seq(Copies) /\ InOrder(pending)
  /\ \A d \in Outputs, k \in 1 .. Chunks :
       Copy(d, k) \in Under(pending) => k < world.next /\ <<d, k>> \in memory /\ ~Gone(d)
  /\ \A d \in Outputs, k \in 1 .. Chunks :
       <<d, k>> \in memory /\ ~Gone(d) => Copy(d, k) \in Under(pending)
  /\ Objects(UvteeHandlesAre) \subseteq memory
  /\ \A o \in memory :
       o \in Objects(UvteeHandlesAre) \/ \E d \in Outputs, k \in 1 .. Chunks : o = <<d, k>>
  /\ stage = "setup" =>
       pending = <<>> /\ world.next = 1 /\ memory = Objects(UvteeHandlesAre)

\* Nothing is written, or under way, on a pipe that is closed.
UvteeHandles ==
  /\ stage = "setup" =>
       (\A h \in UvteeHandlesAre : handle[h] = "none") /\ world.input = "open"
  /\ stage # "setup" /\ world.input = "open" =>
       handle["stdin_pipe"] = "active" /\ \A d \in Outputs : handle[d] = "idle"
  /\ stage # "setup" /\ world.input = "failed" =>
       handle["stdin_pipe"] \in {"active", "idle"} /\ \A d \in Outputs : handle[d] = "idle"
  /\ stage # "setup" /\ world.input = "ended" =>
       \A h \in UvteeHandlesAre : handle[h] \in {"closing", "closed"}
  /\ "tail_cut" \in world.mishap => world.input = "ended"
  /\ world.input = "ended" /\ "tail_cut" \notin world.mishap => pending = <<>>
  /\ stage = "done" => pending = <<>>
  /\ \A d \in Outputs, k \in 1 .. Chunks :
       handle[d] = "closed" => Copy(d, k) \notin Under(pending)

\* What an output got and what is under way for it make up what was read.
UvteeGot ==
  "write_failed" \notin world.mishap =>
    \A d \in Outputs :
      /\ Len(world.got[d]) < world.next
      /\ \A i \in 1 .. Len(world.got[d]) : world.got[d][i] = i
      /\ "tail_cut" \notin world.mishap /\ ~Gone(d) =>
           \A k \in 1 .. Chunks :
             Copy(d, k) \in Under(pending) <=> Len(world.got[d]) < k /\ k < world.next

UvteeInv == program = "uvtee" => UvteeTypes /\ UvteePending /\ UvteeHandles /\ UvteeGot

\* No copy is an object of a handle.
LEMMA CopiesApart ==
  \A d, k : k \in 1 .. Chunks => <<d, k>> \notin Objects(UvteeHandlesAre)
  BY TeeAssumption DEF Objects, Object

\* uvtee starts with nothing read.
LEMMA UvteeStarts == Init => UvteeInv
  <1> SUFFICES ASSUME Init, program = "uvtee"
               PROVE  UvteeTypes /\ UvteePending /\ UvteeHandles /\ UvteeGot
    BY DEF UvteeInv
  <1>1. UvteeInit
    BY OneStart
  <1>2. UvteeHandlesAre \subseteq Handles
    BY TeeAssumption DEF UvteeHandlesAre
  <1>a. /\ stage = "setup" /\ handle = [h \in Handles |-> "none"] /\ pending = <<>>
        /\ memory = Objects(UvteeHandlesAre) /\ own = [file |-> "none"]
        /\ world = [next |-> 1, input |-> "open", got |-> [d \in Outputs |-> <<>>], mishap |-> {}]
    BY <1>1 DEF UvteeInit, Begin, UvteeHandlesAre
  <1>b. Under(pending) = {}
    BY <1>a DEF Under
  <1>3. UvteeTypes
    BY <1>a, TeeAssumption DEF UvteeTypes, States
  <1>4. UvteePending
    <2>1. pending \in Seq(Copies) /\ InOrder(pending)
      BY <1>a DEF InOrder
    <2>2. QED
      BY <1>a, <1>b, <2>1, CopiesApart DEF UvteePending
  <1>5. UvteeHandles
    BY <1>2, <1>a, <1>b DEF UvteeHandles
  <1>6. UvteeGot
    <2>1. \A d \in Outputs : world.got[d] = <<>> /\ world.next = 1
      BY <1>a
    <2>2. \A k \in 1 .. Chunks : ~(k < 1)
      BY TeeAssumption
    <2>3. QED
      BY <1>b, <2>1, <2>2 DEF UvteeGot
  <1>7. QED
    BY <1>3, <1>4, <1>5, <1>6

\* write_data submits the copies of a chunk, in order, where it can.
LEMMA WriteData ==
  ASSUME UvteeTypes, UvteePending, NEW n \in 1 .. Chunks, n = world.next, write_data(n)
  PROVE  /\ pending' \in Seq(Copies) /\ InOrder(pending')
         /\ \A d \in Outputs, k \in 1 .. Chunks :
              Copy(d, k) \in Under(pending') <=>
                (Copy(d, k) \in Under(pending) \/ (k = n /\ ~Gone(d)))
         /\ \A o : o \in memory' <=> (o \in memory \/ \E d \in Outputs : o = <<d, n>>)
  <1> DEFINE a == pending \o <<Copy("stdout_pipe", n)>>
             b == a \o <<Copy("file_pipe", n)>>
  <1>1. ASSUME NEW r \in Under(pending)
        PROVE  r.buf[2] < n
    <2>1. PICK i \in 1 .. Len(pending) : r = pending[i] /\ pending[i] \in Copies
      BY DEF Under, UvteePending
    <2>2. PICK d \in Outputs, k \in 1 .. Chunks : r = Copy(d, k)
      BY <2>1 DEF Copies
    <2>3. k < world.next
      BY <2>2 DEF UvteePending
    <2>4. QED
      BY <2>2, <2>3, CopyIs
  <1>2. "stdout_pipe" \in Outputs /\ "file_pipe" \in Outputs /\ "stdout_pipe" # "file_pipe"
    BY DEF Outputs
  <1>3. a \in Seq(Copies) /\ InOrder(a) /\ Under(a) = Under(pending) \cup {Copy("stdout_pipe", n)}
    BY <1>1, <1>2, CopyAdded DEF UvteePending
  <1> HIDE DEF a
  <1>4. ASSUME NEW r \in Under(a), r.on = "file_pipe"
        PROVE  r.buf[2] < n
    <2>1. Copy("stdout_pipe", n).on = "stdout_pipe"
      BY CopyIs
    <2>2. r \in Under(pending)
      BY <1>3, <1>4, <1>2, <2>1
    <2>3. QED
      BY <1>1, <2>2
  <1>5. b \in Seq(Copies) /\ InOrder(b) /\ Under(b) = Under(a) \cup {Copy("file_pipe", n)}
    BY <1>2, <1>3, <1>4, CopyAdded
  <1> HIDE DEF b
  <1>6. pending' = IF own.file = "missing" THEN a ELSE b
    <2>1. a \o <<>> = a
      BY <1>3
    <2>2. QED
      BY <2>1 DEF write_data, Submitted, a, b, Copy
  <1>7. \A d \in Outputs : d = "stdout_pipe" \/ d = "file_pipe"
    BY DEF Outputs
  <1>8. ASSUME NEW d \in Outputs, NEW k \in 1 .. Chunks
        PROVE  Copy(d, k) \in Under(pending') <=>
                 (Copy(d, k) \in Under(pending) \/ (k = n /\ ~Gone(d)))
    BY <1>2, <1>3, <1>5, <1>6, <1>7, CopyDiffers DEF Gone
  <1>9. \A o : o \in memory' <=> (o \in memory \/ \E d \in Outputs : o = <<d, n>>)
    BY DEF write_data
  <1>10. QED
    BY <1>3, <1>5, <1>6, <1>8, <1>9

\* The fields of the world after one of them has changed.
LEMMA WorldIs ==
  ASSUME NEW A, NEW B, NEW C, NEW D, NEW w \in [next : A, input : B, got : C, mishap : D], NEW x
  PROVE  /\ [w EXCEPT !.got = x] =
              [next |-> w.next, input |-> w.input, got |-> x, mishap |-> w.mishap]
         /\ [w EXCEPT !.mishap = x] =
              [next |-> w.next, input |-> w.input, got |-> w.got, mishap |-> x]
  OBVIOUS

\* A step of uvtee, or of its loop, keeps what is under way and what got out
\* in agreement with what was read.
LEMMA UvteeKept == UvteeInv /\ Next => UvteeInv'
  <1> SUFFICES ASSUME UvteeTypes, UvteePending, UvteeHandles, UvteeGot, Next, program = "uvtee"
               PROVE  UvteeTypes' /\ UvteePending' /\ UvteeHandles' /\ UvteeGot'
    BY OneProgram DEF UvteeInv
  <1> USE TeeAssumption
  <1> DEFINE Kept == UvteeTypes' /\ UvteePending' /\ UvteeHandles' /\ UvteeGot'
  <1>a. UvteeHandlesAre \subseteq Handles /\ "stdin_pipe" \in UvteeHandlesAre
        /\ Outputs \subseteq UvteeHandlesAre /\ "stdin_pipe" \notin Outputs
    BY DEF UvteeHandlesAre, Outputs
  <1>1. CASE UvRunReturns
    <2>1. stage' = "done" /\ pending = <<>> /\ UNCHANGED <<handle, pending, memory, own, world>>
          /\ stage = "loop"
      BY <1>1 DEF UvRunReturns, LoopAlive
    <2>2. UvteeTypes'
      BY <2>1 DEF UvteeTypes
    <2>3. UvteePending' /\ UvteeGot'
      BY <2>1 DEF UvteePending, UvteeGot, InOrder, Under, Gone
    <2>4. UvteeHandles'
      BY <2>1 DEF UvteeHandles, Under
    <2>5. QED
      BY <2>2, <2>3, <2>4
  <1>2. ASSUME NEW h \in Handles, CloseCallback(h)
        PROVE  Kept
    <2>1. /\ stage = "loop" /\ handle[h] = "closing" /\ ~Busy(h) /\ handle' = Turn({h}, "closed")
          /\ UNCHANGED <<stage, pending, memory, own, world>>
      BY <1>2 DEF CloseCallback, CloseDone
    <2>2. handle' = [handle EXCEPT ![h] = "closed"]
      BY <2>1, TurnIs DEF UvteeTypes
    <2>3. h \in UvteeHandlesAre
      BY <2>1 DEF UvteeTypes
    <2>4. world.input = "ended"
      BY <1>a, <2>1, <2>3 DEF UvteeHandles, UvteeTypes, UvteeHandlesAre
    <2>5. UvteeTypes'
      BY <2>1, <2>2, <2>3 DEF UvteeTypes, States
    <2>6. UvteePending' /\ UvteeGot'
      BY <2>1 DEF UvteePending, UvteeGot, InOrder, Under, Gone
    <2>7. \A d \in Outputs, k \in 1 .. Chunks :
            handle'[d] = "closed" => Copy(d, k) \notin Under(pending)
      BY <1>a, <2>1, <2>2, BusyIs DEF UvteeHandles, UvteePending, UvteeTypes
    <2>8. \A g \in UvteeHandlesAre : handle'[g] \in {"closing", "closed"}
      BY <1>a, <2>1, <2>2, <2>4 DEF UvteeHandles, UvteeTypes
    <2>b. Under(pending') = Under(pending)
      BY <2>1
    <2>9. UvteeHandles'
      BY <2>1, <2>4, <2>7, <2>8, <2>b DEF UvteeHandles
    <2>10. QED
      BY <2>5, <2>6, <2>9
  <1>3. CASE UvteeMain
    <2>1. /\ stage = "setup" /\ stage' = "loop" /\ UNCHANGED <<pending, memory, world>>
          /\ handle' = [Turn(Outputs, "idle") EXCEPT !["stdin_pipe"] = "active"]
          /\ own' \in [file : {"open", "missing"}]
      BY <1>3 DEF UvteeMain, Setup
    <2>2. pending = <<>> /\ world.next = 1 /\ memory = Objects(UvteeHandlesAre)
          /\ Under(pending) = {}
      BY <2>1 DEF UvteePending, Under
    <2>3. \A h \in Handles : handle'[h] = IF h = "stdin_pipe" THEN "active"
                                         ELSE IF h \in Outputs THEN "idle" ELSE handle[h]
      BY <1>a, <2>1 DEF Turn
    <2>4. handle' \in [Handles -> States]
      BY <2>1 DEF UvteeTypes, States, Turn
    <2>5. UvteeTypes'
      BY <1>a, <2>1, <2>3, <2>4 DEF UvteeTypes, UvteeHandlesAre
    <2>6. UvteePending'
      BY <2>1, <2>2, CopiesApart DEF UvteePending, InOrder, Under
    <2>7. world.input = "open"
      BY <2>1 DEF UvteeHandles
    <2>8. UvteeHandles'
      BY <1>a, <2>1, <2>2, <2>3, <2>7 DEF UvteeHandles
    <2>9. UvteeGot'
      <3>1. "write_failed" \notin world.mishap =>
              \A d \in Outputs : Len(world.got[d]) < 1 /\
                \A i \in 1 .. Len(world.got[d]) : world.got[d][i] = i
        BY <2>2 DEF UvteeGot
      <3>2. \A d \in Outputs : Len(world.got[d]) \in Nat
        BY DEF UvteeTypes
      <3>3. \A d \in Outputs, k \in 1 .. Chunks : ~(Len(world.got[d]) < k /\ k < 1)
        BY <3>2
      <3>4. Under(pending') = {} /\ world' = world
        BY <2>1, <2>2
      <3>5. QED
        BY <2>2, <3>1, <3>3, <3>4 DEF UvteeGot
    <2>10. QED
      BY <2>5, <2>6, <2>8, <2>9
  <1>4. CASE ReadChunk
    <2> DEFINE n == world.next
    <2>1. /\ stage = "loop" /\ handle["stdin_pipe"] = "active" /\ n \in 1 .. Chunks
          /\ write_data(n) /\ world' = [world EXCEPT !.next = n + 1]
          /\ UNCHANGED <<stage, handle, own>>
      BY <1>4 DEF ReadChunk, Reading, InLoop, UvteeTypes
    <2>2. world'.next = n + 1 /\ world'.input = world.input /\ world'.got = world.got
          /\ world'.mishap = world.mishap
      BY <2>1 DEF UvteeTypes
    <2> HIDE DEF n
    <2>3. /\ pending' \in Seq(Copies) /\ InOrder(pending')
          /\ \A d \in Outputs, k \in 1 .. Chunks :
               Copy(d, k) \in Under(pending') <=>
                 (Copy(d, k) \in Under(pending) \/ (k = n /\ ~Gone(d)))
          /\ \A o : o \in memory' <=> (o \in memory \/ \E d \in Outputs : o = <<d, n>>)
      BY <2>1, WriteData DEF n
    <2>4. \A d : Gone(d)' <=> Gone(d)
      BY <2>1 DEF Gone
    <2>5. \A d, e, k, m : <<d, k>> = <<e, m>> => d = e /\ k = m
      OBVIOUS
    <2>6. \A k \in 1 .. Chunks : k < n + 1 <=> (k < n \/ k = n)
      BY <2>1
    <2>7. UvteeTypes'
      <3>1. n + 1 \in 1 .. Chunks + 1
        BY <2>1
      <3>2. world' = [next |-> n + 1, input |-> world.input, got |-> world.got,
                      mishap |-> world.mishap]
        BY <2>1 DEF UvteeTypes
      <3>3. world' \in [next : 1 .. Chunks + 1, input : {"open", "ended", "failed"},
                       got : [Outputs -> Seq(Nat)], mishap : SUBSET {"tail_cut", "write_failed"}]
        BY <3>1, <3>2 DEF UvteeTypes
      <3>4. QED
        BY <2>1, <3>3 DEF UvteeTypes
    <2>b. stage' = stage /\ stage # "setup" /\ own' = own
      BY <2>1
    <2>8. UvteePending'
      <3>1. ASSUME NEW d \in Outputs, NEW k \in 1 .. Chunks, Copy(d, k) \in Under(pending')
            PROVE  k < n + 1 /\ <<d, k>> \in memory' /\ ~Gone(d)
        BY <2>3, <2>6, <3>1 DEF UvteePending, n
      <3>2. ASSUME NEW d \in Outputs, NEW k \in 1 .. Chunks, <<d, k>> \in memory', ~Gone(d)
            PROVE  Copy(d, k) \in Under(pending')
        BY <2>3, <2>5, <3>2 DEF UvteePending
      <3>3. Objects(UvteeHandlesAre) \subseteq memory'
        BY <2>3 DEF UvteePending
      <3>4. \A o \in memory' :
              o \in Objects(UvteeHandlesAre) \/ \E d \in Outputs, k \in 1 .. Chunks : o = <<d, k>>
        BY <2>1, <2>3 DEF UvteePending
      <3>5. QED
        BY <2>2, <2>3, <2>4, <2>b, <3>1, <3>2, <3>3, <3>4 DEF UvteePending
    <2>9. world.input = "open"
      BY <1>4 DEF ReadChunk, Reading
    <2>10. \A d \in Outputs : handle[d] = "idle"
      BY <2>1, <2>9 DEF UvteeHandles
    <2>11. UvteeHandles'
      BY <2>1, <2>2, <2>9, <2>10 DEF UvteeHandles
    <2>12. UvteeGot'
      <3> SUFFICES ASSUME "write_failed" \notin world.mishap, NEW d \in Outputs
                   PROVE  /\ Len(world.got[d]) < n + 1
                          /\ \A i \in 1 .. Len(world.got[d]) : world.got[d][i] = i
                          /\ "tail_cut" \notin world.mishap /\ ~Gone(d) =>
                               \A k \in 1 .. Chunks :
                                 Copy(d, k) \in Under(pending') <=>
                                   (Len(world.got[d]) < k /\ k < n + 1)
        BY <2>2, <2>4 DEF UvteeGot
      <3> DEFINE m == Len(world.got[d])
      <3>1. m \in Nat /\ n \in Nat
        BY <2>1 DEF UvteeTypes
      <3>2. m < n /\ \A i \in 1 .. m : world.got[d][i] = i
        BY DEF UvteeGot, n
      <3>3. "tail_cut" \notin world.mishap /\ ~Gone(d) =>
               \A k \in 1 .. Chunks : Copy(d, k) \in Under(pending) <=> (m < k /\ k < n)
        BY DEF UvteeGot, n
      <3> HIDE DEF m
      <3>4. "tail_cut" \notin world.mishap /\ ~Gone(d) =>
               \A k \in 1 .. Chunks : Copy(d, k) \in Under(pending') <=> (m < k /\ k < n + 1)
        BY <2>3, <2>6, <3>1, <3>2, <3>3
      <3>5. m < n + 1
        BY <3>1, <3>2
      <3>6. QED
        BY <3>2, <3>4, <3>5 DEF m
    <2>13. QED
      BY <2>7, <2>8, <2>11, <2>12
  <1>5. CASE ReadEnd
    <2> DEFINE mishap == IF pending # <<>> THEN world.mishap \cup {"tail_cut"} ELSE world.mishap
    <2>1. /\ stage = "loop" /\ handle["stdin_pipe"] = "active"
          /\ handle' = Turn(UvteeHandlesAre, "closing")
          /\ world' = [world EXCEPT !.input = "ended", !.mishap = mishap]
          /\ UNCHANGED <<stage, pending, memory, own>>
      BY <1>5 DEF ReadEnd, Reading, InLoop, UvteeHandlesAre
    <2>2. mishap \in SUBSET {"tail_cut", "write_failed"}
          /\ ("write_failed" \in mishap <=> "write_failed" \in world.mishap)
          /\ ("tail_cut" \notin mishap => pending = <<>> /\ "tail_cut" \notin world.mishap)
      BY DEF UvteeTypes
    <2> HIDE DEF mishap
    <2>3. world' = [next |-> world.next, input |-> "ended", got |-> world.got, mishap |-> mishap]
      BY <2>1 DEF UvteeTypes
    <2>4. \A h \in Handles : handle'[h] = IF h \in UvteeHandlesAre THEN "closing" ELSE handle[h]
      BY <2>1 DEF Turn
    <2>5. handle' \in [Handles -> States]
      BY <2>1 DEF UvteeTypes, States, Turn
    <2>6. world' \in [next : 1 .. Chunks + 1, input : {"open", "ended", "failed"},
                     got : [Outputs -> Seq(Nat)], mishap : SUBSET {"tail_cut", "write_failed"}]
      BY <2>2, <2>3 DEF UvteeTypes
    <2>7. UvteeTypes'
      BY <2>1, <2>4, <2>5, <2>6 DEF UvteeTypes
    <2>8. UvteePending'
      BY <2>1, <2>3 DEF UvteePending, InOrder, Under, Gone
    <2>9. UvteeHandles'
      BY <1>a, <2>1, <2>2, <2>3, <2>4 DEF UvteeHandles
    <2>10. UvteeGot'
      BY <2>1, <2>2, <2>3 DEF UvteeGot, Under, Gone
    <2>11. QED
      BY <2>7, <2>8, <2>9, <2>10
  <1>6. CASE ReadError
    <2>1. /\ stage = "loop" /\ handle["stdin_pipe"] = "active" /\ world.input = "open"
          /\ handle' \in {handle, Turn({"stdin_pipe"}, "idle")}
          /\ world' = [world EXCEPT !.input = "failed"]
          /\ UNCHANGED <<stage, pending, memory, own>>
      BY <1>6 DEF ReadError, Reading, InLoop
    <2>a. Turn({"stdin_pipe"}, "idle") = [handle EXCEPT !["stdin_pipe"] = "idle"]
      BY <1>a, TurnIs DEF UvteeTypes
    <2>2. PICK s \in {"active", "idle"} : handle' = [handle EXCEPT !["stdin_pipe"] = s]
      <3>1. [handle EXCEPT !["stdin_pipe"] = "active"] = handle
        BY <2>1 DEF UvteeTypes
      <3>2. QED
        BY <2>1, <2>a, <3>1
    <2>3. world' = [next |-> world.next, input |-> "failed", got |-> world.got,
                    mishap |-> world.mishap]
      BY <2>1 DEF UvteeTypes
    <2>4. world.input = "open"
      BY <2>1
    <2>5. world' \in [next : 1 .. Chunks + 1, input : {"open", "ended", "failed"},
                     got : [Outputs -> Seq(Nat)], mishap : SUBSET {"tail_cut", "write_failed"}]
      BY <2>3 DEF UvteeTypes
    <2>6. UvteeTypes'
      BY <1>a, <2>1, <2>2, <2>5 DEF UvteeTypes, States
    <2>7. UvteePending' /\ UvteeGot'
      BY <2>1, <2>3 DEF UvteePending, UvteeGot, InOrder, Under, Gone
    <2>8. handle'["stdin_pipe"] \in {"active", "idle"} /\ \A d \in Outputs : handle'[d] = "idle"
      BY <1>a, <2>1, <2>2, <2>4 DEF UvteeHandles, UvteeTypes, UvteeHandlesAre
    <2>9. UvteeHandles'
      BY <1>a, <2>1, <2>3, <2>4, <2>8 DEF UvteeHandles
    <2>10. QED
      BY <2>6, <2>7, <2>9
  <1>7. ASSUME NEW d \in Outputs, OnWrite(d)
        PROVE  Kept
    <2> DEFINE r == First(d)
    <2>1. PICK k \in 1 .. Chunks :
            /\ r = Copy(d, k) /\ Copy(d, k) \in Under(pending)
            /\ \A m \in 1 .. Chunks : Copy(d, m) \in Under(pending) => k <= m
            /\ Without(r.req) \in Seq(Copies)
            /\ InOrder(Without(r.req))
            /\ Under(Without(r.req)) = Under(pending) \ {Copy(d, k)}
      BY <1>7, FirstGone DEF OnWrite, UvteePending
    <2>2. r.req = <<d, k>> /\ r.buf[2] = k
      BY <2>1, CopyIs
    <2>3. /\ stage = "loop" /\ pending' = Without(r.req) /\ memory' = memory \ {<<d, k>>}
          /\ UNCHANGED <<stage, handle, own>>
      BY <1>7, <2>2 DEF OnWrite, InLoop
    <2> DEFINE written == [world EXCEPT !.got[d] = Append(@, k)]
               failed == [world EXCEPT !.mishap = @ \cup {"write_failed"}]
    <2>4. world' \in IF handle[d] = "closing" THEN {world} ELSE {written, failed}
      BY <1>7, <2>2 DEF OnWrite, Mishap
    <2> HIDE DEF r, written, failed
    <2>5. /\ pending' \in Seq(Copies) /\ InOrder(pending')
          /\ Under(pending') = Under(pending) \ {Copy(d, k)}
      BY <2>1, <2>3
    <2>6. \A e \in Outputs, m \in 1 .. Chunks :
            Copy(e, m) \in Under(pending') <=>
              (Copy(e, m) \in Under(pending) /\ ~(e = d /\ m = k))
      BY <2>5, CopyDiffers
    <2>7. ~Gone(d) /\ k < world.next
      BY <2>1 DEF UvteePending
    <2>8. \A e : Gone(e)' <=> Gone(e)
      BY <2>3 DEF Gone
    <2>9. stage # "setup" /\ pending # <<>>
      BY <2>1, <2>3, BusyIs DEF UvteePending
    <2>10. handle[d] # "closed"
      BY <2>1 DEF UvteeHandles
    <2>11. /\ world.input = "ended" => handle[d] = "closing"
           /\ "tail_cut" \in world.mishap => handle[d] = "closing"
      BY <1>a, <2>9, <2>10 DEF UvteeHandles
    <2>12. written = [next |-> world.next, input |-> world.input,
                      got |-> [world.got EXCEPT ![d] = Append(@, k)], mishap |-> world.mishap]
      <3> DEFINE got == [world.got EXCEPT ![d] = Append(@, k)]
      <3>1. written = [world EXCEPT !.got = got]
        BY DEF written
      <3> HIDE DEF got
      <3>2. QED
        BY <3>1, WorldIs DEF got, UvteeTypes
    <2>13. failed = [next |-> world.next, input |-> world.input, got |-> world.got,
                     mishap |-> world.mishap \cup {"write_failed"}]
      <3> DEFINE mishap == world.mishap \cup {"write_failed"}
      <3> HIDE DEF mishap
      <3>1. failed = [world EXCEPT !.mishap = mishap]
        BY DEF mishap, failed
      <3>2. QED
        BY <3>1, WorldIs DEF mishap, UvteeTypes
    <2>14. world'.next = world.next /\ world'.input = world.input
           /\ ("tail_cut" \in world'.mishap <=> "tail_cut" \in world.mishap)
           /\ world'.mishap \in SUBSET {"tail_cut", "write_failed"}
           /\ world.mishap \subseteq world'.mishap
      <3>1. CASE world' = world
        BY <3>1 DEF UvteeTypes
      <3>2. CASE world' = written
        BY <2>12, <3>2 DEF UvteeTypes
      <3>3. CASE world' = failed
        BY <2>13, <3>3 DEF UvteeTypes
      <3>4. QED
        BY <2>4, <3>1, <3>2, <3>3
    <2>15. world' \in [next : 1 .. Chunks + 1, input : {"open", "ended", "failed"},
                     got : [Outputs -> Seq(Nat)], mishap : SUBSET {"tail_cut", "write_failed"}]
      <3>1. Append(world.got[d], k) \in Seq(Nat)
        BY DEF UvteeTypes
      <3>2. [world.got EXCEPT ![d] = Append(@, k)] \in [Outputs -> Seq(Nat)]
        BY <3>1 DEF UvteeTypes
      <3>3. CASE world' = written
        BY <2>12, <3>2, <3>3 DEF UvteeTypes
      <3>4. CASE world' = failed
        BY <2>13, <3>4 DEF UvteeTypes
      <3>5. QED
        BY <2>4, <3>3, <3>4 DEF UvteeTypes
    <2>16. UvteeTypes'
      BY <2>3, <2>15 DEF UvteeTypes
    <2>17. UvteePending'
      <3>1. ASSUME NEW e \in Outputs, NEW m \in 1 .. Chunks, Copy(e, m) \in Under(pending')
            PROVE  m < world.next /\ <<e, m>> \in memory' /\ ~Gone(e)
        <4>1. Copy(e, m) \in Under(pending) /\ <<e, m>> # <<d, k>>
          BY <2>6, <3>1
        <4>2. QED
          BY <2>3, <4>1 DEF UvteePending
      <3>2. ASSUME NEW e \in Outputs, NEW m \in 1 .. Chunks, <<e, m>> \in memory', ~Gone(e)
            PROVE  Copy(e, m) \in Under(pending')
        BY <2>3, <2>6, <3>2 DEF UvteePending
      <3>3. Objects(UvteeHandlesAre) \subseteq memory'
        BY <2>3, CopiesApart DEF UvteePending
      <3>4. \A o \in memory' :
              o \in Objects(UvteeHandlesAre) \/ \E e \in Outputs, m \in 1 .. Chunks : o = <<e, m>>
        BY <2>3 DEF UvteePending
      <3>5. stage' # "setup"
        BY <2>3, <2>9
      <3>6. QED
        BY <2>5, <2>8, <2>14, <3>1, <3>2, <3>3, <3>4, <3>5 DEF UvteePending
    <2>18. UvteeHandles'
      <3>1. \A e \in Outputs, m \in 1 .. Chunks :
              handle'[e] = "closed" => Copy(e, m) \notin Under(pending')
        BY <2>3, <2>6 DEF UvteeHandles
      <3>2. ~(world.input = "ended" /\ "tail_cut" \notin world.mishap) /\ stage # "done"
        BY <2>9 DEF UvteeHandles
      <3>3. QED
        BY <2>3, <2>9, <2>14, <3>1, <3>2 DEF UvteeHandles
    <2>19. UvteeGot'
      <3> SUFFICES ASSUME "write_failed" \notin world'.mishap, NEW e \in Outputs
                   PROVE  /\ Len(world'.got[e]) < world'.next
                          /\ \A i \in 1 .. Len(world'.got[e]) : world'.got[e][i] = i
                          /\ "tail_cut" \notin world'.mishap /\ ~Gone(e) =>
                               \A m \in 1 .. Chunks :
                                 Copy(e, m) \in Under(pending') <=>
                                   (Len(world'.got[e]) < m /\ m < world'.next)
        BY <2>8 DEF UvteeGot
      <3>1. /\ "write_failed" \notin world.mishap
            /\ world' = IF handle[d] = "closing" THEN world ELSE written
        BY <2>4, <2>13, <2>14
      <3> DEFINE s == world.got[e]
      <3>2. /\ s \in Seq(Nat) /\ Len(s) \in Nat /\ world.next \in Nat
            /\ Len(s) < world.next
            /\ \A i \in 1 .. Len(s) : s[i] = i
        BY <3>1 DEF UvteeGot, UvteeTypes
      <3>3. "tail_cut" \notin world.mishap /\ ~Gone(e) =>
              \A m \in 1 .. Chunks :
                Copy(e, m) \in Under(pending) <=> (Len(s) < m /\ m < world.next)
        BY <3>1 DEF UvteeGot
      <3> HIDE DEF s
      <3>4. CASE handle[d] = "closing"
        <4>1. world'.got[e] = s
          BY <3>1, <3>4 DEF s
        <4>2. "tail_cut" \in world.mishap
          BY <1>a, <2>9, <3>4 DEF UvteeHandles, UvteeTypes
        <4>3. QED
          BY <2>14, <3>2, <4>1, <4>2
      <3>5. CASE handle[d] # "closing"
        <4>1. /\ world'.got = [world.got EXCEPT ![d] = Append(@, k)]
              /\ world.got \in [Outputs -> Seq(Nat)]
          BY <2>12, <3>1, <3>5 DEF UvteeTypes
        <4>2. "tail_cut" \notin world.mishap
          BY <2>11, <3>5
        <4>3. CASE e # d
          <5>1. world'.got[e] = s
            BY <4>1, <4>3 DEF s
          <5>2. QED
            BY <2>6, <2>14, <3>2, <3>3, <4>3, <5>1
        <4>4. CASE e = d
          <5>1. world'.got[e] = Append(s, k)
            BY <4>1, <4>4 DEF s
          <5>2. \A m \in 1 .. Chunks :
                  Copy(d, m) \in Under(pending) <=> (Len(s) < m /\ m < world.next)
            BY <2>7, <3>3, <4>2, <4>4
          <5>3. Len(s) < k
            BY <2>1, <5>2
          <5>4. Len(s) + 1 \in 1 .. Chunks /\ Len(s) + 1 < world.next
            BY <2>7, <3>2, <5>3
          <5>5. k <= Len(s) + 1
            BY <2>1, <3>2, <5>2, <5>4
          <5>6. k = Len(s) + 1
            BY <3>2, <5>3, <5>5
          <5>7. /\ Len(Append(s, k)) = k
                /\ \A i \in 1 .. Len(Append(s, k)) : Append(s, k)[i] = i
            BY <3>2, <5>6
          <5>8. \A m \in 1 .. Chunks :
                  Copy(d, m) \in Under(pending') <=> (k < m /\ m < world.next)
            BY <2>1, <2>6, <3>2, <5>2, <5>6
          <5>9. QED
            BY <2>7, <2>14, <4>4, <5>1, <5>7, <5>8
        <4>5. QED
          BY <4>3, <4>4
      <3>6. QED
        BY <3>4, <3>5
    <2>20. QED
      BY <2>16, <2>17, <2>18, <2>19
  <1>8. QED
    BY <1>1, <1>2, <1>3, <1>4, <1>5, <1>6, <1>7, OneProgram DEF UvteeStep, UvteeWorld

-----------------------------------------------------------------------------
(* What the invariants of the programs come to: the rules of libuv, and    *)
(* what each program is for.                                               *)

Stages == {"setup", "loop", "many", "done", "failed", "crashed", "killed"}
Mishaps ==
  {"short_write", "failed", "tail_cut", "write_failed", "overlap", "spawn_failed",
   "peer_ended", "nothing_to_read", "tty_stopped", "timer_lost", "other_action",
   "full_read", "block_ended", "not_a_terminal", "not_polled"}

\* A request as libuv sees it: its handle is one, or there is none.
Sound(r) == DOMAIN r = {"req", "on", "buf"} /\ r.on \in Handles \cup {"none"}

\* What Request makes is sound.
LEMMA RequestIs ==
  ASSUME NEW o, NEW h \in Handles \cup {"none"}, NEW b
  PROVE  /\ Sound(Request(o, h, b))
         /\ Request(o, h, b).req = o /\ Request(o, h, b).buf = b
  BY DEF Sound, Request

\* The shapes, from what the invariants say of handles, memory and requests.
LEMMA ShapesAre ==
  ASSUME stage \in Stages, handle \in [Handles -> States],
         \A o \in memory : Len(o) = 2 /\ o[2] \in Nat,
         \A i \in DOMAIN pending : Sound(pending[i]),
         world.mishap \subseteq Mishaps
  PROVE  TypeOK
  BY DEF TypeOK, Stages, States, Sound, Mishaps

\* Only uvwget polls.
LEMMA Unwatched == program # "uvwget" => OneWatcher
  BY DEF OneWatcher

\* The rules of memory where nothing is under way, or one request.
LEMMA OneAtMost ==
  ASSUME OneWatcher,
         \A h \in Handles : handle[h] \notin {"none", "closed"} => Object(h) \in memory,
         pending = <<>> \/ \E r : pending = <<r>> /\ r.req \in memory /\ r.buf \in memory
  PROVE  MemoryRules
  <1>1. CASE pending = <<>>
    BY <1>1 DEF MemoryRules
  <1>2. ASSUME NEW r, pending = <<r>>, r.req \in memory, r.buf \in memory
        PROVE  MemoryRules
    <2>1. \A i \in DOMAIN pending : i = 1 /\ pending[i] = r
      BY <1>2
    <2>2. QED
      BY <1>2, <2>1 DEF MemoryRules
  <1>3. QED
    BY <1>1, <1>2

\* The shapes where there is at most one request.
LEMMA OneShape ==
  ASSUME stage \in Stages, handle \in [Handles -> States], NEW names,
         memory \subseteq Objects(names),
         pending = <<>> \/ \E r : pending = <<r>> /\ Sound(r),
         world.mishap \subseteq Mishaps
  PROVE  TypeOK
  <1>1. \A o \in memory : Len(o) = 2 /\ o[2] \in Nat
    BY ObjectIs
  <1>2. \A i \in DOMAIN pending : Sound(pending[i])
    <2>1. CASE pending = <<>>
      BY <2>1
    <2>2. ASSUME NEW r, pending = <<r>>, Sound(r)
          PROVE  \A i \in DOMAIN pending : Sound(pending[i])
      BY <2>2
    <2>3. QED
      BY <2>1, <2>2
  <1>3. QED
    BY <1>1, <1>2, ShapesAre

\* uvcat keeps the rules, and puts out the file.
LEMMA UvcatGives ==
  ASSUME UvcatInv, program = "uvcat"
  PROVE  TypeOK /\ MemoryRules /\ UvcatOutput /\ (stage = "done" => UvcatComplete)
  <1> USE FileAssumption
  <1>1. UvcatTypes /\ UvcatBytes /\ UvcatOrder /\ UvcatStages
    BY DEF UvcatInv
  <1>2. \A r \in UvcatRequests : Sound(r) /\ r.req \in memory /\ r.buf \in memory
    BY <1>1, RequestIs
       DEF UvcatTypes, Static, Objects, UvcatRequests, OpenReq, ReadReq, WriteReq
  <1>3. pending = <<>> \/ \E r \in UvcatRequests : pending = <<r>>
    BY <1>1 DEF UvcatTypes
  <1>4. world.mishap \subseteq Mishaps /\ stage \in Stages
    BY <1>1 DEF UvcatTypes, Mishaps, Stages
  <1>5. TypeOK
    BY <1>1, <1>2, <1>3, <1>4, OneShape DEF UvcatTypes, Static
  <1>6. MemoryRules
    BY <1>1, <1>2, <1>3, OneAtMost, Unwatched DEF UvcatTypes
  <1>7. world.output \in Seq(Nat) /\ Bytes \in Seq(Nat) /\ Len(Bytes) = FileSize
        /\ \A i \in 1 .. FileSize : Bytes[i] = i
    BY <1>1 DEF UvcatTypes, Bytes
  <1>8. UvcatOutput
    <2> DEFINE s == world.output
    <2>1. \A i, j \in DOMAIN s : i < j => s[i] < s[j]
      BY <1>1, <1>7 DEF UvcatOrder
    <2>2. ASSUME "short_write" \notin world.mishap
          PROVE  IsPrefix(s, Bytes)
      <3>1. /\ s \in Seq(Nat) /\ Len(s) \in Nat /\ Len(s) <= Len(Bytes)
            /\ \A i \in 1 .. Len(s) : s[i] = Bytes[i]
        BY <1>1, <1>7, <2>2 DEF UvcatBytes
      <3> HIDE DEF s
      <3>2. SubSeq(s, 1, Len(s)) = SubSeq(Bytes, 1, Len(s))
        BY <1>7, <3>1
      <3>3. QED
        BY <3>1, <3>2 DEF IsPrefix
    <2>3. QED
      BY <2>1, <2>2 DEF UvcatOutput
  <1>9. ASSUME stage = "done", "failed" \notin world.mishap
        PROVE  pending = <<>> /\ world.rest = <<>> /\ own.fd = "closed"
    BY <1>1, <1>9 DEF UvcatStages
  <1>a. ASSUME stage = "done", world.mishap \cap {"failed", "short_write"} = {}
        PROVE  world.output = Bytes
    <2>1. pending = <<>> /\ world.rest = <<>> /\ "short_write" \notin world.mishap
          /\ "failed" \notin world.mishap
      BY <1>9, <1>a
    <2>2. RestOf(world.rest, Len(world.output))
      BY <1>1, <2>1 DEF UvcatBytes
    <2>3. Len(world.output) = FileSize
      BY <1>7, <2>1, <2>2 DEF RestOf
    <2>4. \A i \in 1 .. FileSize : world.output[i] = Bytes[i]
      BY <1>1, <1>7, <2>1, <2>3 DEF UvcatBytes
    <2>5. QED
      BY <1>7, <2>3, <2>4
  <1>10. stage = "done" => UvcatComplete
    BY <1>9, <1>a DEF UvcatComplete
  <1>11. QED
    BY <1>5, <1>6, <1>8, <1>10

\* uvtee keeps the rules, and each output is a beginning of the input.
LEMMA UvteeGives ==
  ASSUME UvteeInv, program = "uvtee"
  PROVE  TypeOK /\ MemoryRules /\ UvteeOutput /\ (stage = "done" => UvteeComplete)
  <1> USE TeeAssumption
  <1>1. UvteeTypes /\ UvteePending /\ UvteeHandles /\ UvteeGot
    BY DEF UvteeInv
  <1>2. \A i \in 1 .. Len(pending) :
          \E d \in Outputs, k \in 1 .. Chunks : pending[i] = Copy(d, k)
    BY <1>1 DEF UvteePending, Copies
  <1>3. Outputs \subseteq Handles /\ DOMAIN pending = 1 .. Len(pending)
    BY <1>1 DEF UvteePending
  <1>4. TypeOK
    <2>1. \A o \in memory : Len(o) = 2 /\ o[2] \in Nat
      <3>1. ASSUME NEW d \in Outputs, NEW k \in 1 .. Chunks
            PROVE  Len(<<d, k>>) = 2 /\ <<d, k>>[2] \in Nat
        OBVIOUS
      <3>2. QED
        BY <1>1, <3>1, ObjectIs DEF UvteePending
    <2>2. \A i \in DOMAIN pending : Sound(pending[i])
      <3>1. SUFFICES ASSUME NEW i \in 1 .. Len(pending)
                     PROVE  Sound(pending[i])
        BY <1>3
      <3>2. PICK d \in Outputs, k \in 1 .. Chunks : pending[i] = Copy(d, k)
        BY <1>2
      <3>3. Sound(Request(<<d, k>>, d, <<d, k>>))
        BY <1>3, RequestIs
      <3>4. QED
        BY <3>2, <3>3 DEF Copy
    <2>3. world.mishap \subseteq Mishaps /\ stage \in Stages
      BY <1>1 DEF UvteeTypes, Mishaps, Stages
    <2>4. QED
      BY <1>1, <2>1, <2>2, <2>3, ShapesAre DEF UvteeTypes
  <1>5. MemoryRules
    <2>1. \A h \in Handles : handle[h] # "none" => Object(h) \in memory
      BY <1>1 DEF UvteeTypes, UvteePending, Objects
    <2>2. \A i \in 1 .. Len(pending) : pending[i].req \in memory /\ pending[i].buf \in memory
      <3>1. SUFFICES ASSUME NEW i \in 1 .. Len(pending)
                     PROVE  pending[i].req \in memory /\ pending[i].buf \in memory
        OBVIOUS
      <3>2. PICK d \in Outputs, k \in 1 .. Chunks : pending[i] = Copy(d, k)
        BY <1>2
      <3>3. <<d, k>> \in memory
        BY <1>1, <3>2 DEF UvteePending, Under
      <3>4. QED
        BY <3>2, <3>3, CopyIs
    <2>3. ASSUME NEW i \in 1 .. Len(pending), NEW j \in 1 .. Len(pending), i # j
          PROVE  pending[i].req # pending[j].req
      <3>1. PICK d \in Outputs, k \in 1 .. Chunks : pending[i] = Copy(d, k)
        BY <1>2
      <3>2. PICK e \in Outputs, m \in 1 .. Chunks : pending[j] = Copy(e, m)
        BY <1>2
      <3>3. pending[i].req = <<d, k>> /\ pending[i].on = d /\ pending[i].buf[2] = k
        BY <3>1, CopyIs
      <3>4. pending[j].req = <<e, m>> /\ pending[j].on = e /\ pending[j].buf[2] = m
        BY <3>2, CopyIs
      <3>5. i < j \/ j < i
        BY <2>3
      <3>6. d = e => k < m \/ m < k
        BY <1>1, <3>3, <3>4, <3>5 DEF UvteePending, InOrder
      <3>7. d = e => k # m
        BY <3>6
      <3>8. QED
        BY <3>3, <3>4, <3>7
    <2>4. QED
      BY <1>3, <2>1, <2>2, <2>3, Unwatched DEF MemoryRules
  <1>6. UvteeOutput
    <2>1. SUFFICES ASSUME "write_failed" \notin world.mishap, NEW d \in Outputs
                   PROVE  /\ IsPrefix(world.got[d], [k \in 1 .. world.next - 1 |-> k])
                          /\ "tail_cut" \notin world.mishap /\ Submitted(d, 1) # <<>> =>
                               Len(world.got[d])
                                 + Cardinality({i \in DOMAIN pending : pending[i].on = d})
                                 = world.next - 1
      BY DEF UvteeOutput
    <2> DEFINE s == world.got[d]
               n == world.next - 1
               t == [k \in 1 .. n |-> k]
    <2>2. /\ n \in Nat /\ n <= Chunks /\ world.next = n + 1
          /\ s \in Seq(Nat) /\ Len(s) \in Nat
      BY <1>1 DEF UvteeTypes
    <2>3. Len(s) <= n /\ \A i \in 1 .. Len(s) : s[i] = i
      BY <1>1, <2>1, <2>2 DEF UvteeGot
    <2>4. \A k \in 1 .. Chunks : k < world.next <=> k <= n
      BY <2>2
    <2>5. "tail_cut" \notin world.mishap /\ ~Gone(d) =>
            \A k \in 1 .. Chunks : Copy(d, k) \in Under(pending) <=> (Len(s) < k /\ k <= n)
      BY <1>1, <2>1, <2>4 DEF UvteeGot
    <2> HIDE DEF s, n
    <2>6. t \in Seq(Nat) /\ Len(t) = n /\ \A i \in 1 .. n : t[i] = i
      BY <2>2
    <2> HIDE DEF t
    <2>7. IsPrefix(s, t)
      <3>1. SubSeq(s, 1, Len(s)) = SubSeq(t, 1, Len(s))
        <4> DEFINE a == SubSeq(s, 1, Len(s))
                   b == SubSeq(t, 1, Len(s))
        <4>1. /\ a \in Seq(Nat) /\ Len(a) = Len(s)
              /\ \A i \in 1 .. Len(s) : a[i] = s[i]
          BY <2>2, FirstIs
        <4>2. /\ b \in Seq(Nat) /\ Len(b) = Len(s)
              /\ \A i \in 1 .. Len(s) : b[i] = t[i]
          BY <2>2, <2>3, <2>6, FirstIs
        <4> HIDE DEF a, b
        <4>3. \A i \in 1 .. Len(s) : a[i] = b[i]
          BY <2>2, <2>3, <2>6, <4>1, <4>2
        <4>4. a = b
          BY SMTT(30), <4>1, <4>2, <4>3
        <4>5. QED
          BY <4>4 DEF a, b
      <3>2. QED
        BY <2>3, <2>6, <3>1 DEF IsPrefix
    <2>8. ASSUME "tail_cut" \notin world.mishap, ~Gone(d)
          PROVE  Len(s) + Cardinality({i \in DOMAIN pending : pending[i].on = d}) = n
      <3>1. Cardinality({i \in DOMAIN pending : pending[i].on = d}) = n - Len(s)
        BY <1>1, <2>2, <2>3, <2>5, <2>8, HowMany DEF UvteePending
      <3>2. QED
        BY <2>2, <3>1
    <2>9. Submitted(d, 1) # <<>> => ~Gone(d)
      BY DEF Submitted, Gone
    <2>10. QED
      BY <2>7, <2>8, <2>9 DEF s, t, n
  <1>7. ASSUME stage = "done"
        PROVE  UvteeComplete
    <2>1. Under(pending) = {}
      BY <1>1, <1>7, BusyIs DEF UvteeHandles, UvteePending
    <2>2. \A d \in Outputs, k \in 1 .. Chunks : <<d, k>> \in memory => Gone(d)
      BY <1>1, <2>1 DEF UvteePending
    <2>3. QED
      BY <2>2 DEF UvteeComplete, Submitted, Gone
  <1>8. QED
    BY <1>4, <1>5, <1>6, <1>7

\* The cgi server keeps the rules, and child_req is its child's.
LEMMA CgiGives ==
  ASSUME CgiInv, program = "cgi"
  PROVE  TypeOK /\ MemoryRules /\ ChildIsOurs
  <1>1. CgiTypes /\ CgiMemory /\ CgiChildren
    BY DEF CgiInv
  <1>2. world.mishap \subseteq Mishaps /\ stage \in Stages
    BY <1>1 DEF CgiTypes, Mishaps, Stages
  <1>3. TypeOK
    BY <1>1, <1>2, OneShape DEF CgiTypes, CgiMemory
  <1>4. MemoryRules
    BY <1>1, OneAtMost, Unwatched DEF CgiTypes, CgiMemory
  <1>5. QED
    BY <1>1, <1>3, <1>4 DEF CgiChildren, Overlap, NoMishap, ChildIsOurs

\* dns keeps the rules until its peer ends the connection.
LEMMA DnsGives ==
  ASSUME DnsInv, program = "dns"
  PROVE  TypeOK /\ MemoryRules
  <1> USE DnsAssumption
  <1>1. stage \in Stages /\ world.mishap \subseteq Mishaps
    BY DEF DnsInv, Stages, Mishaps
  <1>2. Sound(Resolve) /\ Resolve.req = Object("resolver") /\ Resolve.buf = Object("resolver")
    BY RequestIs DEF Resolve
  <1>3. /\ Sound(Connecting) /\ Connecting.req = Object("connect_req")
        /\ Connecting.buf = Object("connect_req")
    BY RequestIs DEF Connecting
  <1>4. TypeOK
    BY <1>1, <1>2, <1>3, OneShape DEF DnsInv
  <1>5. CASE "peer_ended" \in world.mishap
    BY <1>4, <1>5 DEF MemoryRules, Broken
  <1>6. CASE "peer_ended" \notin world.mishap
    <2>1. \A h \in Handles : handle[h] \notin {"none", "closed"} => Object(h) \in memory
      BY <1>6 DEF DnsInv
    <2>2. \/ pending = <<>>
          \/ \E r : pending = <<r>> /\ r.req \in memory /\ r.buf \in memory
      BY <1>2, <1>3 DEF DnsInv
    <2>3. QED
      BY <1>4, <2>1, <2>2, OneAtMost, Unwatched
  <1>7. QED
    BY <1>5, <1>6

\* udp-dhcp keeps the rules, and has one answer or none in the end.
LEMMA DhcpGives ==
  ASSUME DhcpInv, program = "udp-dhcp"
  PROVE  TypeOK /\ MemoryRules /\ (stage = "done" => DhcpComplete)
  <1> USE DhcpAssumption
  <1>1. stage \in Stages /\ world.mishap \subseteq Mishaps
    BY DEF DhcpInv, Stages, Mishaps
  <1>2. Sound(Send) /\ Send.req = Object("send_req") /\ Send.buf = make_discover_msg
    BY RequestIs DEF Send
  <1>3. TypeOK
    BY <1>1, <1>2, OneShape DEF DhcpInv
  <1>4. MemoryRules
    <2>1. Object("send_req") \in memory
      BY DEF DhcpInv, Objects
    <2>2. \A h \in Handles : handle[h] # "none" => Object(h) \in memory
      BY DEF DhcpInv, Objects
    <2>3. \/ pending = <<>>
          \/ \E r : pending = <<r>> /\ r.req \in memory /\ r.buf \in memory
      BY <1>2, <2>1 DEF DhcpInv
    <2>4. QED
      BY <2>2, <2>3, OneAtMost, Unwatched
  <1>5. stage = "done" => DhcpComplete
    BY DEF DhcpInv, DhcpComplete, Awaits
  <1>6. QED
    BY <1>3, <1>4, <1>5

\* uvwget keeps the rules, and ends with no transfer under way.
LEMMA UvwgetGives ==
  ASSUME UvwgetInv, program = "uvwget"
  PROVE  TypeOK /\ MemoryRules /\ (stage = "done" => UvwgetComplete)
  <1> USE TransfersAssumption
  <1>1. /\ UvwgetTypes /\ UvwgetTimer /\ UvwgetNumbers
        /\ \A t \in Transfers : UvwgetSocket(t)
    BY DEF UvwgetInv
  <1>2. stage \in Stages /\ world.mishap \subseteq Mishaps
    BY <1>1 DEF UvwgetTypes, Stages, Mishaps
  <1>3. TypeOK
    BY <1>1, <1>2, OneShape DEF UvwgetTypes
  <1>4. \A h \in Handles : handle[h] \notin {"none", "closed"} => Object(h) \in memory
    BY <1>1 DEF UvwgetTypes, UvwgetSocket
  <1>a. OneWatcher
    BY <1>1 DEF OneWatcher, UvwgetNumbers, UvwgetSocket
  <1>5. MemoryRules
    BY <1>1, <1>4, <1>a, OneAtMost DEF UvwgetTypes
  <1>6. ASSUME stage = "done", NEW t \in Transfers
        PROVE  /\ Object(t) \notin memory
               /\ \/ world.transfer[t] \in {"none", "done"}
                  \/ "timer_lost" \in world.mishap /\ world.transfer[t] \in ByTimer
    <2>1. handle[t] \notin {"active", "closing"} /\ handle["timeout"] # "active"
      BY <1>1, <1>6 DEF UvwgetTimer
    <2>2. "timer_lost" \in world.mishap \/ ~Needed(world.transfer)
      BY <1>1, <1>6, <2>1 DEF UvwgetTimer
    <2>3. /\ world.transfer[t] \notin Polled
          /\ "timer_lost" \in world.mishap \/ world.transfer[t] \notin ByTimer
      BY <1>1, <2>1, <2>2 DEF UvwgetSocket, Needed
    <2>4. world.transfer[t] \in Going
      BY <1>1 DEF UvwgetTypes
    <2>5. QED
      BY <1>1, <2>1, <2>3, <2>4 DEF UvwgetSocket, Going, ByTimer, Polled
  <1>7. QED
    BY <1>3, <1>5, <1>6 DEF UvwgetComplete

\* tty-gravity keeps the rules while its terminal takes what it writes, and
\* ends below the last line.
LEMMA GravityGives ==
  ASSUME GravityInv, program = "tty-gravity"
  PROVE  TypeOK /\ MemoryRules /\ (stage = "done" => GravityComplete)
  <1> USE TtyAssumption
  <1>1. GravityTypes /\ GravityLines
    BY DEF GravityInv
  <1>2. stage \in Stages /\ world.mishap \subseteq Mishaps
    BY <1>1 DEF GravityTypes, Stages, Mishaps
  <1>3. Sound(Drawing) /\ Drawing.req = Object("write_req") /\ Drawing.buf = Object("tty")
    BY RequestIs DEF Drawing
  <1>4. Sound(Blocked)
    BY RequestIs DEF Blocked
  <1>5. TypeOK
    <2>1. \A i \in DOMAIN pending : Sound(pending[i])
      BY <1>1, <1>3, <1>4 DEF GravityTypes
    <2>2. \A o \in memory : Len(o) = 2 /\ o[2] \in Nat
      BY <1>1, ObjectIs DEF GravityTypes, Static
    <2>3. QED
      BY <1>1, <1>2, <2>1, <2>2, ShapesAre DEF GravityTypes, Static
  <1>6. "tty_stopped" \in world.mishap => MemoryRules
    BY DEF MemoryRules, Broken
  <1>7. ASSUME "tty_stopped" \notin world.mishap
        PROVE  MemoryRules
    <2>2. pending \in {<<>>, <<Drawing>>}
      BY <1>1, <1>7 DEF GravityLines
    <2>3. \A h \in Handles : handle[h] # "none" => Object(h) \in memory
      BY <1>1, StaticIsThere DEF GravityTypes
    <2>4. Object("write_req") \in memory /\ Object("tty") \in memory
      BY <1>1 DEF GravityTypes, Static, Objects
    <2>5. QED
      BY <1>3, <2>2, <2>3, <2>4, OneAtMost, Unwatched
  <1>8. stage = "done" => GravityComplete
    BY <1>1 DEF GravityLines, GravityComplete
  <1>9. QED
    BY <1>5, <1>6, <1>7, <1>8

\* tty keeps the rules where it does not write its colours.
LEMMA TtyGives ==
  ASSUME TtyInv, program = "tty"
  PROVE  TypeOK /\ MemoryRules
  <1> USE TtyAssumption
  <1>1. /\ stage \in Stages /\ world.mishap \subseteq Mishaps /\ Static({"tty", "req"})
        /\ pending \in {<<>>, <<TtyWrite("req")>>, <<TtyWrite("inner_req"), TtyWrite("req")>>}
    BY DEF TtyInv, Stages, Mishaps
  <1>2. \A o : Sound(TtyWrite(o)) /\ TtyWrite(o).req = Object(o) /\ TtyWrite(o).buf = Object("tty")
    BY RequestIs DEF TtyWrite
  <1>3. TypeOK
    <2>1. \A i \in DOMAIN pending : Sound(pending[i])
      BY <1>1, <1>2
    <2>2. \A o \in memory : Len(o) = 2 /\ o[2] \in Nat
      BY <1>1, ObjectIs DEF Static
    <2>3. QED
      BY <1>1, <2>1, <2>2, ShapesAre DEF Static
  <1>4. "block_ended" \in world.mishap => MemoryRules
    BY DEF MemoryRules, Broken
  <1>5. ASSUME "block_ended" \notin world.mishap
        PROVE  MemoryRules
    <2>1. pending \in {<<>>, <<TtyWrite("req")>>}
      BY <1>5 DEF TtyInv
    <2>2. \A h \in Handles : handle[h] # "none" => Object(h) \in memory
      BY <1>1, StaticIsThere
    <2>3. Object("req") \in memory /\ Object("tty") \in memory
      BY <1>1 DEF Static, Objects
    <2>4. QED
      BY <1>2, <2>1, <2>2, <2>3, OneAtMost, Unwatched
  <1>6. QED
    BY <1>3, <1>4, <1>5

\* Nothing is under way and nothing was allocated.
LEMMA QuietGives ==
  ASSUME NEW names, Static(names), pending = <<>>, stage \in Stages,
         world.mishap \subseteq Mishaps, program # "uvwget"
  PROVE  TypeOK /\ MemoryRules
  <1>1. TypeOK
    BY OneShape DEF Static
  <1>2. MemoryRules
    BY StaticIsThere, OneAtMost, Unwatched
  <1>3. QED
    BY <1>1, <1>2

\* The four loop examples keep the rules, and do what they show.
LEMMA LoopsGive ==
  ASSUME LoopsInv, program \in {"uvstop", "idle-basic", "idle-compute", "ref-timer"}
  PROVE  TypeOK /\ MemoryRules /\ LoopsOutput /\ (stage = "done" => LoopsComplete)
  <1>1. CASE program = "uvstop"
    <2>1. /\ stage \in Stages /\ Static({"idler", "prep"}) /\ pending = <<>>
          /\ world.mishap \subseteq Mishaps
      BY <1>1 DEF LoopsInv, UvstopInv, Stages
    <2>2. stage = "done" => LoopsComplete
      BY <1>1 DEF LoopsInv, UvstopInv, LoopsComplete
    <2>3. QED
      BY <1>1, <2>1, <2>2, QuietGives DEF LoopsOutput
  <1>2. CASE program = "idle-basic"
    <2>1. /\ stage \in Stages /\ Static({"idler"}) /\ pending = <<>>
          /\ world.mishap \subseteq Mishaps
      BY <1>2 DEF LoopsInv, IdleBasicInv, Stages
    <2>2. stage = "done" => LoopsComplete
      BY <1>2 DEF LoopsInv, IdleBasicInv, LoopsComplete
    <2>3. QED
      BY <1>2, <2>1, <2>2, QuietGives DEF LoopsOutput
  <1>3. CASE program = "ref-timer"
    <2>1. /\ stage \in Stages /\ Static({"gc_req", "fake_job_req"}) /\ pending = <<>>
          /\ world.mishap \subseteq Mishaps
      BY <1>3 DEF LoopsInv, RefTimerInv, Stages
    <2>2. stage = "done" => LoopsComplete
      BY <1>3 DEF LoopsInv, RefTimerInv, LoopsComplete
    <2>3. QED
      BY <1>3, <2>1, <2>2, QuietGives DEF LoopsOutput
  <1>4. CASE program = "idle-compute"
    <2>1. /\ stage \in Stages /\ Static({"idler", "stdin_watcher", "buffer"})
          /\ pending \in {<<>>, <<ReadStdin>>} /\ world.mishap \subseteq Mishaps
          /\ (NoMishap => own.printed = world.typed)
      BY <1>4 DEF LoopsInv, IdleComputeInv, Stages, Mishaps
    <2>2. /\ Sound(ReadStdin) /\ ReadStdin.req = Object("stdin_watcher")
          /\ ReadStdin.buf = Object("buffer")
      BY RequestIs DEF ReadStdin
    <2>3. Object("stdin_watcher") \in memory /\ Object("buffer") \in memory
      BY <2>1 DEF Static, Objects
    <2>4. TypeOK
      BY <2>1, <2>2, OneShape DEF Static
    <2>5. MemoryRules
      BY <2>1, <2>2, <2>3, StaticIsThere, OneAtMost, Unwatched
    <2>6. QED
      BY <1>4, <2>1, <2>4, <2>5 DEF LoopsOutput, LoopsComplete
  <1>5. QED
    BY <1>1, <1>2, <1>3, <1>4

\* spawn, proc-streams, detach and onchange keep the rules; the handle of a
\* child is closed in the end, or the child runs on without it.
LEMMA ProcessGives ==
  ASSUME SpawnInv, OnchangeInv, program \in Spawners \cup {"onchange"}
  PROVE  TypeOK /\ MemoryRules /\ (stage = "done" => ProcessComplete)
  <1>1. CASE program \in Spawners
    <2>1. /\ stage \in Stages /\ Static({"child_req"}) /\ pending = <<>>
          /\ world.mishap \subseteq Mishaps
      BY <1>1 DEF SpawnInv, Stages
    <2>2. stage = "done" => ProcessComplete
      BY <1>1 DEF SpawnInv, ProcessComplete, Spawners
    <2>3. QED
      BY <1>1, <2>1, <2>2, QuietGives DEF Spawners
  <1>2. CASE program = "onchange"
    <2>1. /\ stage \in Stages /\ handle \in [Handles -> States] /\ pending = <<>>
          /\ memory \subseteq Objects(Files) /\ world.mishap \subseteq Mishaps
      BY <1>2 DEF OnchangeInv, Stages
    <2>2. \A h \in Handles : handle[h] # "none" => Object(h) \in memory
      BY <1>2 DEF OnchangeInv, Objects
    <2>3. QED
      BY <1>2, <2>1, <2>2, OneShape, OneAtMost, Unwatched DEF ProcessComplete
  <1>3. QED
    BY <1>1, <1>2

\* signal keeps the rules, and every handler has run once in the end.
LEMMA SignalGives ==
  ASSUME SignalInv, program = "signal"
  PROVE  TypeOK /\ MemoryRules /\ (stage = "done" => SignalComplete)
  <1>1. SignalTypes /\ SignalCalls
    BY DEF SignalInv
  <1>2. /\ stage \in Stages /\ Static(Sigs) /\ pending = <<>> /\ world.mishap \subseteq Mishaps
    BY <1>1 DEF SignalTypes, Stages
  <1>3. stage = "done" => SignalComplete
    BY <1>1 DEF SignalCalls, SignalComplete, ThreadOf, Threads
  <1>4. QED
    BY <1>2, <1>3, QuietGives

\* pipe-echo-server keeps the rules, and its file is the one in use.
LEMMA SocketGives ==
  ASSUME SocketInv, program = "pipe-echo-server"
  PROVE  TypeOK /\ MemoryRules /\ SocketIsServed
  <1>1. /\ stage \in Stages /\ Static({}) /\ pending = <<>> /\ world.mishap \subseteq Mishaps
        /\ SocketIsServed
    BY DEF SocketInv, Stages, Mishaps
  <1>2. QED
    BY <1>1, QuietGives

-----------------------------------------------------------------------------
(* All programs.                                                           *)

ProgramsInv ==
  /\ program \in Names
  /\ UvcatInv /\ UvteeInv /\ CgiInv /\ DnsInv /\ DhcpInv /\ UvwgetInv
  /\ GravityInv /\ TtyInv /\ LoopsInv /\ SpawnInv /\ OnchangeInv
  /\ SignalInv /\ SocketInv

\* What the inductive invariant is for.
Promised ==
  TypeOK /\ MemoryRules /\ OutputIsInput /\ ChildIsOurs /\ SocketIsServed /\ DoneIsComplete

\* The inductive invariant gives what the runs check.
LEMMA InvGives == ProgramsInv => Promised
  <1> SUFFICES ASSUME ProgramsInv
               PROVE  Promised
    OBVIOUS
  <1> USE DEF Promised, OutputIsInput, DoneIsComplete, LoopsOutput, LoopsComplete, ProcessComplete,
              ChildIsOurs, SocketIsServed, Spawners
  <1>1. CASE program = "uvcat"
    BY <1>1, UvcatGives DEF ProgramsInv
  <1>2. CASE program = "uvtee"
    BY <1>2, UvteeGives DEF ProgramsInv
  <1>3. CASE program = "cgi"
    BY <1>3, CgiGives DEF ProgramsInv
  <1>4. CASE program = "dns"
    BY <1>4, DnsGives DEF ProgramsInv
  <1>5. CASE program = "udp-dhcp"
    BY <1>5, DhcpGives DEF ProgramsInv
  <1>6. CASE program = "uvwget"
    BY <1>6, UvwgetGives DEF ProgramsInv
  <1>7. CASE program = "tty-gravity"
    BY <1>7, GravityGives DEF ProgramsInv
  <1>8. CASE program = "tty"
    BY <1>8, TtyGives DEF ProgramsInv
  <1>9. CASE program \in {"uvstop", "idle-basic", "idle-compute", "ref-timer"}
    BY <1>9, LoopsGive DEF ProgramsInv
  <1>10. CASE program \in Spawners \cup {"onchange"}
    BY <1>10, ProcessGives DEF ProgramsInv
  <1>11. CASE program = "signal"
    BY <1>11, SignalGives DEF ProgramsInv
  <1>12. CASE program = "pipe-echo-server"
    BY <1>12, SocketGives DEF ProgramsInv
  <1>13. QED
    BY <1>1, <1>2, <1>3, <1>4, <1>5, <1>6, <1>7, <1>8, <1>9, <1>10, <1>11, <1>12
       DEF ProgramsInv, Names

\* The invariants speak of the variables alone.
LEMMA InvStutters == ProgramsInv /\ UNCHANGED vars => ProgramsInv'
  <1> SUFFICES ASSUME ProgramsInv, UNCHANGED vars
               PROVE  ProgramsInv'
    OBVIOUS
  <1>1. UNCHANGED <<program, stage, handle, pending, memory, own, world>>
    BY DEF vars
  <1> USE <1>1 DEF NoMishap, Static
  <1>2. (program \in Names)' /\ UvcatInv'
    BY DEF ProgramsInv, UvcatInv, UvcatTypes, UvcatBytes, UvcatOrder, HasRead, UvcatStages,
           RestOf
  <1>3. UvteeInv'
    BY DEF ProgramsInv, UvteeInv, UvteeTypes, UvteePending, UvteeHandles, UvteeGot, InOrder,
           Under, Gone
  <1>4. CgiInv'
    BY DEF ProgramsInv, CgiInv, CgiTypes, CgiMemory, CgiChildren, Overlap
  <1>5. DnsInv' /\ DhcpInv'
    BY DEF ProgramsInv, DnsInv, DhcpInv
  <1>6. UvwgetInv'
    BY DEF ProgramsInv, UvwgetInv, UvwgetTypes, UvwgetTimer, UvwgetNumbers, UvwgetSocket, Needed
  <1>7. GravityInv' /\ TtyInv'
    BY DEF ProgramsInv, GravityInv, GravityTypes, GravityLines, TtyInv
  <1>8. LoopsInv'
    BY DEF ProgramsInv, LoopsInv, UvstopInv, IdleBasicInv, IdleComputeInv, RefTimerInv
  <1>9. SpawnInv' /\ OnchangeInv'
    BY DEF ProgramsInv, SpawnInv, OnchangeInv
  <1>10. SignalInv'
    BY DEF ProgramsInv, SignalInv, SignalTypes, SignalCalls
  <1>11. SocketInv'
    BY DEF ProgramsInv, SocketInv, SocketIsServed
  <1>12. QED
    BY <1>2, <1>3, <1>4, <1>5, <1>6, <1>7, <1>8, <1>9, <1>10, <1>11 DEF ProgramsInv

\* The inductive invariant holds of whichever program runs.
THEOREM ProgramsCorrect == Spec => []ProgramsInv
  <1>1. Init => ProgramsInv
    BY OneStart, UvcatStarts, UvteeStarts, CgiStarts, DnsStarts, DhcpStarts, UvwgetStarts,
       GravityStarts, TtyStarts, LoopsStart, ProcessStarts, SignalStarts, SocketStarts
       DEF ProgramsInv
  <1>2. ProgramsInv /\ Next => ProgramsInv'
    BY OneProgram, UvcatKept, UvteeKept, CgiKept, DnsKept, DhcpKept, UvwgetKept, GravityKept,
       TtyKept, LoopsKept, SpawnKept, OnchangeKept, SignalKept, SocketKept DEF ProgramsInv
  <1>3. ProgramsInv /\ UNCHANGED vars => ProgramsInv'
    BY InvStutters
  <1>4. QED
    BY <1>1, <1>2, <1>3, PTL DEF Spec

\* What every program promises, of every reachable state.
LEMMA PromisesKept == Spec => []Promised
  BY ProgramsCorrect, InvGives, PTL

\* The variables of every program keep their shapes.
THEOREM TypesStay == Spec => []TypeOK
  <1>1. Promised => TypeOK
    BY DEF Promised
  <1>2. QED
    BY PromisesKept, <1>1, PTL

\* Handles, requests and buffers stay in memory for as long as libuv may use
\* them, and no request is submitted twice, in every program that has not
\* come to its known mistake.
THEOREM MemoryIsSafe == Spec => []MemoryRules
  <1>1. Promised => MemoryRules
    BY DEF Promised
  <1>2. QED
    BY PromisesKept, <1>1, PTL

\* uvcat, uvtee and idle-compute put out what they read, in order.
THEOREM OutputCorrect == Spec => []OutputIsInput
  <1>1. Promised => OutputIsInput
    BY DEF Promised
  <1>2. QED
    BY PromisesKept, <1>1, PTL

\* While the cgi server serves one connection at a time, its one child is that of
\* child_req, and the connection that cleanup_handles will close is that child's.
THEOREM OneChild == Spec => []ChildIsOurs
  <1>1. Promised => ChildIsOurs
    BY DEF Promised
  <1>2. QED
    BY PromisesKept, <1>1, PTL

\* The socket file of pipe-echo-server is that of a server that runs, unless just
\* that one was killed or could not listen, and a server that listens has the name,
\* unless just its name was removed by another.
THEOREM FileServed == Spec => []SocketIsServed
  <1>1. Promised => SocketIsServed
    BY DEF Promised
  <1>2. QED
    BY PromisesKept, <1>1, PTL

\* A program whose uv_run returned has done what it is for, whichever calls failed
\* and however late its timers were: what it leaves out is what uvcat's failed or
\* short requests, a terminal that was stopped, and a timer that uvwget stopped
\* itself, make it leave out.
THEOREM WorkDone == Spec => []DoneIsComplete
  <1>1. Promised => DoneIsComplete
    BY DEF Promised
  <1>2. QED
    BY PromisesKept, <1>1, PTL

-----------------------------------------------------------------------------
(* The programs implement UvHandle: no handle is initialised, started,     *)
(* stopped or closed but as its state allows.                              *)

\* What a step may do to a handle.
May(h) ==
  \/ handle[h] \in {"none", "closed"}
       /\ handle'[h] \in {"idle", "active", "background", "closing"}
  \/ handle[h] \in {"idle", "active", "background"}
       /\ handle'[h] \in {"idle", "active", "background", "closing"}
  \/ handle[h] = "closing" /\ handle'[h] = "closed"
  \/ handle'[h] = handle[h]

\* A step lets the handles live, or is the one that breaks the rules, and
\* rules that are broken stay so.
Lives ==
  /\ stage # "crashed" /\ world.mishap \subseteq world'.mishap
  /\ Broken' \/ stage' = "crashed" \/ \A h \in Handles : May(h)

\* Such a step is one of UvHandle.
LEMMA LivesIs ==
  ASSUME Lives
  PROVE  Life!Next
  <1> DEFINE life == [h \in Handles |->
                        IF Broken \/ stage = "crashed" THEN "undefined" ELSE handle[h]]
  <1>1. CASE Broken' \/ stage' = "crashed"
    <2>1. \A h \in Handles : life'[h] = "undefined"
      BY <1>1
    <2>2. QED
      BY <2>1 DEF Life!Next, Life!Break
  <1>2. CASE ~(Broken' \/ stage' = "crashed")
    <2>1. ~Broken /\ stage # "crashed"
      BY <1>2 DEF Lives, Broken
    <2>2. \A h \in Handles : life[h] = handle[h] /\ life'[h] = handle'[h]
      BY <1>2, <2>1
    <2>3. \A h \in Handles : May(h)
      BY <1>2 DEF Lives
    <2> HIDE DEF life
    <2>4. ASSUME NEW h \in Handles
          PROVE  \/ life[h] \in {"none", "closed"}
                      /\ life'[h] \in {"idle", "active", "background", "closing"}
                 \/ life[h] \in {"idle", "active", "background"}
                      /\ life'[h] \in {"idle", "active", "background", "closing"}
                 \/ life[h] = "closing" /\ life'[h] = "closed"
                 \/ life'[h] = life[h]
      BY <2>2, <2>3 DEF May
    <2>5. QED
      BY <2>4 DEF life, Life!Next, Life!Initialise, Life!StartOrStop, Life!Close, Life!Closed,
         Life!Stay, Life!Unused, Life!Open
  <1>3. QED
    BY <1>1, <1>2

\* A step that changes one handle, or none, and no mishap.
LEMMA OneLives ==
  ASSUME stage # "crashed", world.mishap \subseteq world'.mishap,
         \/ handle' = handle
         \/ \E h \in Handles : \E s :
              /\ handle' = Turn({h}, s)
              /\ handle[h] = "closing" => s = "closed"
              /\ handle[h] # "closing" => s \in {"idle", "active", "background", "closing"}
              /\ handle[h] \in States
  PROVE  Lives
  <1>1. CASE handle' = handle
    BY <1>1 DEF Lives, May
  <1>2. ASSUME NEW h \in Handles, NEW s, handle' = Turn({h}, s),
               handle[h] = "closing" => s = "closed",
               handle[h] # "closing" => s \in {"idle", "active", "background", "closing"},
               handle[h] \in States
        PROVE  Lives
    BY <1>2 DEF Lives, May, Turn, States
  <1>3. QED
    BY <1>1, <1>2

\* The steps of the loop that all programs share.
LEMMA LoopLives ==
  ASSUME UvRunReturns \/ \E h \in Handles : CloseCallback(h)
  PROVE  Lives
  <1>1. CASE UvRunReturns
    BY <1>1, OneLives DEF UvRunReturns
  <1>2. ASSUME NEW h \in Handles, CloseCallback(h)
        PROVE  Lives
    BY <1>2, OneLives DEF CloseCallback, CloseDone, States
  <1>3. QED
    BY <1>1, <1>2

\* uvcat has no handles, and pipe-echo-server's are in EchoServer.
LEMMA UvcatLives ==
  ASSUME UvcatInv, program = "uvcat", UvcatStep
  PROVE  Lives
  <1> DEFINE types == [rest : Seq(Nat), output : Seq(Nat),
                       mishap : SUBSET {"short_write", "failed"}]
  <1>1. stage # "crashed" /\ world \in types
    BY DEF UvcatInv, UvcatTypes
  <1>2. handle' = handle
    BY DEF UvcatStep, UvcatMain, on_open, OnReadBytes, OnWriteBytes, OnReadEnd, OnError, Callback
  <1>3. \/ world' = world
        \/ \E r : world' = [world EXCEPT !.rest = r]
        \/ \E o, m : world' = [world EXCEPT !.output = o, !.mishap = m] /\ world.mishap \subseteq m
        \/ \E m : world' = [world EXCEPT !.mishap = m] /\ world.mishap \subseteq m
    <2>1. CASE UvcatMain \/ on_open \/ OnReadEnd
      BY <2>1 DEF UvcatMain, on_open, OnReadEnd
    <2>2. ASSUME NEW n \in 1 .. BufferSize, OnReadBytes(n)
          PROVE  \E r : world' = [world EXCEPT !.rest = r]
      BY <2>2 DEF OnReadBytes
    <2>3. ASSUME NEW n \in 1 .. BufferSize, OnWriteBytes(n)
          PROVE  \E o, m : world' = [world EXCEPT !.output = o, !.mishap = m]
                           /\ world.mishap \subseteq m
      BY <2>3 DEF OnWriteBytes
    <2>4. ASSUME NEW r, OnError(r)
          PROVE  \E m : world' = [world EXCEPT !.mishap = m] /\ world.mishap \subseteq m
      BY <2>4 DEF OnError, Mishap
    <2>5. QED
      BY <2>1, <2>2, <2>3, <2>4 DEF UvcatStep
  <1>4. world.mishap \subseteq world'.mishap
    BY <1>1, <1>3
  <1>5. QED
    BY <1>1, <1>2, <1>4, OneLives

\* pipe-echo-server's other module has no handles: only its socket file.
LEMMA SocketLives ==
  ASSUME SocketInv, program = "pipe-echo-server", SocketStep \/ SocketWorld
  PROVE  Lives
  <1>1. /\ stage # "crashed"
        /\ world \in [file : Servers \cup {Nobody}, left : BOOLEAN, lost : SUBSET Servers,
                      mishap : {{}}]
    BY DEF SocketInv
  <1>2. handle' = handle
    BY DEF SocketStep, SocketWorld, SocketMain, SetHandler, Bind, BindFails, Listen, ListenFails,
           Returned, StartServer, Killed, remove_sock, At, Go
  <1>3. world'.mishap = world.mishap
    <2>1. \/ world' = world
          \/ \E f, l, m : world' = [world EXCEPT !.file = f, !.left = l, !.lost = m]
          \/ \E f, m : world' = [world EXCEPT !.file = f, !.lost = m]
          \/ \E l : world' = [world EXCEPT !.left = l]
      <3>1. CASE SocketMain \/ \E s \in Servers : SetHandler(s) \/ BindFails(s)
        BY <3>1 DEF SocketMain, SetHandler, BindFails
      <3>2. CASE \E s \in Servers : Listen(s) \/ Returned(s) \/ StartServer(s)
        BY <3>2 DEF Listen, Returned, StartServer
      <3>3. ASSUME NEW s \in Servers, Bind(s)
            PROVE  \E f, m : world' = [world EXCEPT !.file = f, !.lost = m]
        BY <3>3 DEF Bind
      <3>4. ASSUME NEW s \in Servers, ListenFails(s) \/ Killed(s)
            PROVE  \E l : world' = [world EXCEPT !.left = l]
        BY <3>4 DEF ListenFails, Killed, Leaves
      <3>5. ASSUME NEW s \in Servers, remove_sock(s)
            PROVE  \E f, l, m : world' = [world EXCEPT !.file = f, !.left = l, !.lost = m]
        BY <3>5 DEF remove_sock
      <3>6. QED
        BY <3>1, <3>2, <3>3, <3>4, <3>5 DEF SocketStep, SocketWorld
    <2>2. QED
      BY <1>1, <2>1
  <1>4. QED
    BY <1>1, <1>2, <1>3, OneLives

\* uvtee opens its pipes in main and closes all of them when its input ends.
LEMMA UvteeLives ==
  ASSUME UvteeInv, program = "uvtee", UvteeStep \/ UvteeWorld
  PROVE  Lives
  <1> USE TeeAssumption
  <1>1. UvteeTypes /\ UvteeHandles
    BY DEF UvteeInv
  <1>2. stage # "crashed" /\ UvteeHandlesAre \subseteq Handles /\ "stdin_pipe" \in UvteeHandlesAre
        /\ Outputs \subseteq UvteeHandlesAre /\ "stdin_pipe" \notin Outputs
    BY <1>1 DEF UvteeTypes, UvteeHandlesAre, Outputs
  <1>3. CASE UvteeMain
    <2>1. \A h \in Handles : handle'[h] = IF h = "stdin_pipe" THEN "active"
                                         ELSE IF h \in Outputs THEN "idle" ELSE handle[h]
      BY <1>2, <1>3 DEF UvteeMain, Turn
    <2>2. \A h \in UvteeHandlesAre : handle[h] = "none"
      BY <1>1, <1>3 DEF UvteeMain, UvteeHandles, Setup
    <2>3. QED
      BY <1>2, <1>3, <2>1, <2>2 DEF UvteeMain, Lives, May
  <1>4. CASE ReadChunk
    <2>1. world'.mishap = world.mishap /\ handle' = handle
      BY <1>1, <1>4 DEF ReadChunk, UvteeTypes
    <2>2. QED
      BY <1>2, <2>1, OneLives
  <1>5. CASE ReadEnd
    <2>1. world.mishap \subseteq world'.mishap
      BY <1>1, <1>5 DEF ReadEnd, UvteeTypes
    <2>2. /\ \A h \in Handles : handle'[h] = IF h \in UvteeHandlesAre THEN "closing" ELSE handle[h]
          /\ stage # "setup" /\ handle["stdin_pipe"] = "active"
      BY <1>5 DEF ReadEnd, Reading, InLoop, Turn, UvteeHandlesAre
    <2>3. \A h \in UvteeHandlesAre : handle[h] \in {"active", "idle"}
      BY <1>1, <1>2, <2>2 DEF UvteeHandles, UvteeTypes, UvteeHandlesAre
    <2>4. QED
      BY <1>2, <2>1, <2>2, <2>3 DEF Lives, May
  <1>6. CASE ReadError
    <2>1. world.mishap \subseteq world'.mishap
      BY <1>1, <1>6 DEF ReadError, UvteeTypes
    <2>2. handle' \in {handle, Turn({"stdin_pipe"}, "idle")} /\ handle["stdin_pipe"] = "active"
      BY <1>6 DEF ReadError, Reading
    <2>3. QED
      BY <1>2, <2>1, <2>2, OneLives DEF States
  <1>7. ASSUME NEW d \in Outputs, OnWrite(d)
        PROVE  Lives
    <2>1. world.mishap \subseteq world'.mishap
      <3>1. \/ world' = world
            \/ \E g : world' = [world EXCEPT !.got = g]
            \/ \E m : world' = [world EXCEPT !.mishap = m] /\ world.mishap \subseteq m
        BY <1>7 DEF OnWrite, Mishap
      <3>2. QED
        BY <1>1, <3>1 DEF UvteeTypes
    <2>2. QED
      BY <1>2, <1>7, <2>1, OneLives DEF OnWrite
  <1>8. QED
    BY <1>3, <1>4, <1>5, <1>6, <1>7 DEF UvteeStep, UvteeWorld

\* cgi initialises a client when it accepts, and closes it when its child
\* exits; child_req is initialised again while it is in use only by the
\* mistake that overlap stands for.
LEMMA CgiLives ==
  ASSUME CgiInv, program = "cgi", CgiStep \/ CgiWorld
  PROVE  Lives
  <1> USE CgiAssumption
  <1>1. CgiTypes /\ CgiChildren /\ stage # "crashed" /\ handle \in [Handles -> States]
    BY DEF CgiInv, CgiTypes
  <1>2. CASE CgiMain
    BY <1>1, <1>2, OneLives DEF CgiMain, Setup, CgiTypes, States
  <1>3. ASSUME NEW c \in Clients, Connect(c)
        PROVE  Lives
    <2>1. world'.mishap = world.mishap /\ handle' = handle
      BY <1>1, <1>3 DEF Connect, CgiTypes
    <2>2. QED
      BY <1>1, <2>1, OneLives
  <1>4. ASSUME NEW c \in Clients, invoke_cgi_script(c) \/ SpawnFails(c)
        PROVE  Lives
    <2>1. /\ handle[c] = "none" /\ c # "child_req"
          /\ \E s \in {"active", "idle"} :
               handle' = [[handle EXCEPT ![c] = "idle"] EXCEPT !["child_req"] = s]
      BY <1>1, <1>4 DEF invoke_cgi_script, SpawnFails, Accepting, CgiChildren, Turn
    <2>2. /\ world.mishap \subseteq world'.mishap
          /\ InUse => "overlap" \in world'.mishap
      <3>1. CASE invoke_cgi_script(c)
        BY <1>1, <3>1 DEF invoke_cgi_script, CgiTypes
      <3>2. CASE SpawnFails(c)
        <4> DEFINE m == world.mishap \cup {IF InUse THEN "overlap" ELSE "spawn_failed"}
        <4>1. world' = [world EXCEPT !.conn[c] = "forgotten", !.mishap = m]
          BY <3>2 DEF SpawnFails
        <4>2. world.mishap \subseteq m
          OBVIOUS
        <4>3. InUse => "overlap" \in m
          OBVIOUS
        <4> HIDE DEF m
        <4>4. world'.mishap = m
          BY <1>1, <4>1 DEF CgiTypes
        <4>5. QED
          BY <4>2, <4>3, <4>4
      <3>3. QED
        BY <1>4, <3>1, <3>2
    <2>3. CASE InUse
      BY <1>1, <2>2, <2>3 DEF Lives, Broken
    <2>4. CASE ~InUse
      <3>1. handle["child_req"] \in {"none", "closed"}
        BY <2>4 DEF InUse
      <3>2. QED
        BY <1>1, <2>1, <2>2, <3>1 DEF Lives, May
    <2>5. QED
      BY <2>3, <2>4
  <1>5. ASSUME NEW c \in Clients, AcceptFails(c)
        PROVE  Lives
    <2>1. world'.mishap = world.mishap /\ handle' = Turn({c}, "closing") /\ handle[c] = "none"
      BY <1>1, <1>5 DEF AcceptFails, Accepting, CgiTypes, CgiChildren
    <2>2. QED
      BY <1>1, <2>1, OneLives DEF States
  <1>6. ASSUME NEW c \in Clients, cleanup_handles(c)
        PROVE  Lives
    <2>1. own.data = c /\ handle[c] = "idle" /\ handle["child_req"] = "active"
      BY <1>1, <1>6 DEF cleanup_handles, CgiChildren
    <2>2. /\ handle' = [[handle EXCEPT ![c] = "closing"] EXCEPT !["child_req"] = "closing"]
          /\ world'.mishap = world.mishap
      BY <1>1, <1>6, <2>1 DEF cleanup_handles, Turn, CgiTypes
    <2>3. QED
      BY <1>1, <2>1, <2>2 DEF Lives, May
  <1>7. ASSUME NEW c \in Clients, NotAccepted(c)
        PROVE  Lives
    <2>1. world'.mishap = world.mishap /\ handle' = handle
      BY <1>1, <1>7 DEF NotAccepted, CgiTypes
    <2>2. QED
      BY <1>1, <2>1, OneLives
  <1>8. QED
    BY <1>2, <1>3, <1>4, <1>5, <1>6, <1>7 DEF CgiStep, CgiWorld

\* dns closes its socket when the peer ends, which is its known mistake.
LEMMA DnsLives ==
  ASSUME DnsInv, program = "dns", DnsStep \/ DnsWorld
  PROVE  Lives
  <1> USE DnsAssumption DEF DnsCallback, InLoop
  <1>1. /\ stage # "crashed" /\ handle \in [Handles -> States]
        /\ world \in [peer : {"up", "unknown", "refused", "gone"}, mishap : SUBSET {"peer_ended"}]
        /\ pending \in {<<>>, <<Resolve>>, <<Connecting>>}
        /\ pending = <<Resolve>> => handle["socket"] = "none"
        /\ pending = <<Connecting>> => handle["socket"] = "idle"
    BY DEF DnsInv
  <1>2. Resolve.req # Connecting.req
    BY DEF Resolve, Connecting, Request, Object
  <1>3. CASE DnsMain
    BY <1>1, <1>3, OneLives DEF DnsMain
  <1>4. CASE on_resolved
    <2>1. pending = <<Resolve>>
      BY <1>1, <1>2, <1>4 DEF on_resolved, Awaits
    <2>2. QED
      BY <1>1, <1>4, <2>1, OneLives DEF on_resolved
  <1>5. CASE ResolveFails \/ ConnectFails
    BY <1>1, <1>5, OneLives DEF ResolveFails, ConnectFails
  <1>6. CASE on_connect
    <2>1. pending = <<Connecting>>
      BY <1>1, <1>2, <1>6 DEF on_connect, Awaits
    <2>2. QED
      BY <1>1, <1>6, <2>1, OneLives DEF on_connect
  <1>7. CASE OnReadData
    BY <1>1, <1>7, OneLives DEF OnReadData
  <1>8. CASE OnReadFails
    <2>1. world.mishap \subseteq world'.mishap /\ "peer_ended" \in world'.mishap
      BY <1>1, <1>8 DEF OnReadFails, Mishap
    <2>2. QED
      BY <1>1, <2>1 DEF Lives, Broken
  <1>9. QED
    BY <1>3, <1>4, <1>5, <1>6, <1>7, <1>8 DEF DnsStep, DnsWorld

\* udp-dhcp binds two sockets; the one that receives is stopped, or closed on an error.
LEMMA DhcpLives ==
  ASSUME DhcpInv, program = "udp-dhcp", DhcpStep \/ DhcpWorld
  PROVE  Lives
  <1> USE DhcpAssumption DEF InLoop, Setup
  <1>1. /\ handle \in [Handles -> States]
        /\ world \in [answers : Nat, sent : BOOLEAN, mishap : SUBSET {"nothing_to_read"}]
        /\ stage = "setup" => handle["recv_socket"] = "none" /\ handle["send_socket"] = "none"
    BY DEF DhcpInv
  <1>2. CASE DhcpMain
    <2>1. PICK s \in {"active", "idle"} :
            handle' = [[handle EXCEPT !["send_socket"] = "idle"] EXCEPT !["recv_socket"] = s]
      BY <1>1, <1>2 DEF DhcpMain, Turn
    <2>2. QED
      BY <1>1, <1>2, <2>1 DEF DhcpMain, Lives, May
  <1>3. CASE on_send
    BY <1>1, <1>3, OneLives DEF on_send
  <1>4. CASE OnReadDatagram \/ OnReadError
    BY <1>1, <1>4, OneLives DEF OnReadDatagram, OnReadError, Receiving, States
  <1>5. CASE OnReadNothing
    BY <1>1, <1>5 DEF OnReadNothing, Receiving, Mishap, Lives
  <1>6. QED
    BY <1>2, <1>3, <1>4, <1>5 DEF DhcpStep, DhcpWorld

\* uvwget's polls are closed by curl and initialised anew for the next socket.
LEMMA UvwgetLives ==
  ASSUME UvwgetInv, program = "uvwget", UvwgetStep \/ UvwgetWorld
  PROVE  Lives
  <1> USE TransfersAssumption
  <1>1. /\ UvwgetTypes /\ UvwgetTimer /\ UvwgetNumbers
        /\ \A t \in Transfers : UvwgetSocket(t)
    BY DEF UvwgetInv
  <1>2. /\ handle \in [Handles -> States] /\ handle["timeout"] \in {"none", "idle", "active"}
        /\ world \in [transfer : [Transfers -> Going],
                      mishap : SUBSET {"timer_lost", "other_action", "not_polled"}]
    BY <1>1 DEF UvwgetTypes, UvwgetTimer
  \* What libcurl makes of the sockets.
  <1>3. ASSUME NEW next \in [Transfers -> Going \cup {"over"}], NEW timer \in {"idle", "active"},
               \A t \in Transfers : \/ next[t] = world.transfer[t]
                                    \/ next[t] \in Following(world.transfer[t]),
               handle_socket(next, timer), stage # "crashed",
               world.mishap \subseteq world'.mishap
        PROVE  Lives
    <2>1. handle' = [h \in Handles |->
             CASE h = "timeout" -> timer
               [] h \in Transfers /\ next[h] \in Polled -> "active"
               [] h \in Transfers /\ next[h] = "over" /\ own.socketp[h] -> "closing"
               [] OTHER -> handle[h]]
      BY <1>3 DEF handle_socket
    <2>2. May("timeout")
      BY <1>2, <2>1 DEF May
    <2>3. ASSUME NEW t \in Transfers
          PROVE  May(t)
      <3>1. t # "timeout" /\ t \in Handles /\ UvwgetSocket(t) /\ world.transfer[t] \in Going
        BY <1>1, <1>2
      <3>2. CASE next[t] \in Polled
        <4>1. handle'[t] = "active"
          BY <2>1, <3>1, <3>2 DEF Polled
        <4>2. world.transfer[t] \notin {"none", "done"}
          BY <1>3, <3>1, <3>2, AfterIs DEF Polled
        <4>3. handle[t] \in {"active", "none"}
          BY <3>1, <4>2 DEF UvwgetSocket
        <4>4. QED
          BY <4>1, <4>3 DEF May
      <3>3. CASE next[t] \notin Polled /\ next[t] = "over" /\ own.socketp[t]
        <4>1. handle'[t] = "closing"
          BY <2>1, <3>1, <3>3
        <4>2. handle[t] = "active"
          BY <3>1, <3>3 DEF UvwgetSocket
        <4>3. QED
          BY <4>1, <4>2 DEF May
      <3>4. CASE next[t] \notin Polled /\ ~(next[t] = "over" /\ own.socketp[t])
        BY <2>1, <3>1, <3>4 DEF May
      <3>5. QED
        BY <3>2, <3>3, <3>4
    <2>4. ASSUME NEW h \in Handles, h # "timeout", h \notin Transfers
          PROVE  May(h)
      BY <2>1, <2>4 DEF May
    <2>5. QED
      BY <1>3, <2>2, <2>3, <2>4 DEF Lives
  <1>4. CASE UvwgetMain
    <2>1. stage # "crashed" /\ world'.mishap = world.mishap
      BY <1>2, <1>4 DEF UvwgetMain, add_download, Setup
    <2>2. handle' = handle \/ \E s \in {"idle", "active"} : handle' = Turn({"timeout"}, s)
      BY <1>4 DEF UvwgetMain, add_download
    <2>3. QED
      BY <1>2, <2>1, <2>2, OneLives
  <1>5. CASE on_timeout
    <2>1. PICK next \in AfterTimeout, timer \in {"idle", "active"} :
            /\ handle_socket(next, timer)
            /\ world' = [world EXCEPT !.transfer = check_multi_info(next)]
      BY <1>5 DEF on_timeout
    <2>2. /\ next \in [Transfers -> Going \cup {"over"}]
          /\ \A t \in Transfers : \/ next[t] = world.transfer[t]
                                  \/ next[t] \in Following(world.transfer[t])
      BY DEF AfterTimeout, Going
    <2>3. stage # "crashed" /\ world'.mishap = world.mishap
      BY <1>2, <1>5, <2>1 DEF on_timeout, Running, InLoop
    <2>4. QED
      BY <1>3, <2>1, <2>2, <2>3
  <1>6. ASSUME NEW u \in Transfers, curl_perform(u)
        PROVE  Lives
    <2>1. PICK next \in AfterEvent(u), timer \in {"idle", "active"} :
            /\ handle_socket(next, timer)
            /\ world' = [world EXCEPT
                 !.transfer = check_multi_info(next),
                 !.mishap = IF Needed(next) /\ timer = "idle"
                            THEN @ \cup {"timer_lost"} ELSE @]
      BY <1>6 DEF curl_perform
    <2>2. world.mishap \subseteq world'.mishap /\ stage # "crashed"
      BY <1>2, <1>6, <2>1 DEF curl_perform, Running, InLoop
    <2>3. PICK s \in Following(world.transfer[u]) : next = [world.transfer EXCEPT ![u] = s]
      BY DEF AfterEvent
    <2>4. world.transfer[u] \in Going /\ s \in Going \cup {"over"}
      BY <1>2, AfterIs DEF Going
    <2>5. /\ next \in [Transfers -> Going \cup {"over"}]
          /\ \A t \in Transfers : \/ next[t] = world.transfer[t]
                                  \/ next[t] \in Following(world.transfer[t])
      BY <1>2, <2>3, <2>4
    <2>6. QED
      BY <1>3, <2>1, <2>2, <2>5
  <1>7. ASSUME NEW t \in Transfers, curl_close_cb(t)
        PROVE  Lives
    BY <1>2, <1>7, OneLives DEF curl_close_cb, CloseDone, States
  <1>8. CASE PollBoth \/ AssertFails
    BY <1>2, <1>8 DEF PollBoth, AssertFails, Running, InLoop, Mishap, Lives
  <1>9. QED
    BY <1>4, <1>5, <1>6, <1>7, <1>8 DEF UvwgetStep, UvwgetWorld

\* tty-gravity has its terminal and a timer that it stops.
LEMMA GravityLives ==
  ASSUME GravityInv, program = "tty-gravity", GravityStep \/ GravityWorld
  PROVE  Lives
  <1> USE TtyAssumption DEF InLoop, Setup
  <1>1. /\ handle \in [Handles -> States]
        /\ world \in [drawn : Nat, mishap : SUBSET {"tty_stopped", "not_a_terminal"}]
        /\ stage = "setup" => handle["tty"] = "none" /\ handle["tick"] = "none"
    BY DEF GravityInv, GravityTypes, GravityLines, Static
  <1>2. CASE GravityMain
    <2>1. CASE handle' \in {handle, Turn({"tty"}, "idle")}
      <3>1. world.mishap \subseteq world'.mishap /\ stage # "crashed"
        BY <1>1, <1>2 DEF GravityMain, Mishap
      <3>2. QED
        BY <1>1, <1>2, <2>1, <3>1, OneLives DEF GravityMain
    <2>2. CASE handle' = [Turn({"tty"}, "idle") EXCEPT !["tick"] = "active"]
      <3>1. handle' = [[handle EXCEPT !["tty"] = "idle"] EXCEPT !["tick"] = "active"]
        BY <1>1, <2>2 DEF Turn
      <3>2. QED
        BY <1>1, <1>2, <3>1 DEF GravityMain, Lives, May
    <2>3. QED
      BY <1>2, <2>1, <2>2 DEF GravityMain
  <1>3. ASSUME Ticking, Advance, world.mishap \subseteq world'.mishap
        PROVE  Lives
    BY <1>1, <1>3, OneLives DEF Ticking, Advance
  <1>4. CASE Update
    BY <1>1, <1>3, <1>4 DEF Update
  <1>5. CASE UpdateBlocked
    <2>1. world.mishap \subseteq world'.mishap
      BY <1>1, <1>5 DEF UpdateBlocked, Mishap
    <2>2. QED
      BY <1>3, <1>5, <2>1 DEF UpdateBlocked
  <1>6. CASE WriteDone
    BY <1>1, <1>6, OneLives DEF WriteDone
  <1>7. QED
    BY <1>2, <1>4, <1>5, <1>6 DEF GravityStep, GravityWorld, TtyMain, TtyWriteDone

\* tty has its terminal only.
LEMMA TtyLives ==
  ASSUME TtyInv, program = "tty", GravityStep \/ GravityWorld
  PROVE  Lives
  <1> USE TtyAssumption DEF InLoop, Setup
  <1>1. /\ handle["tty"] \in {"none", "idle"}
        /\ world \in [mishap : SUBSET {"block_ended", "not_a_terminal"}]
    BY DEF TtyInv
  <1>2. CASE TtyMain
    <2>1. world.mishap \subseteq world'.mishap
      BY <1>1, <1>2 DEF TtyMain, Mishap
    <2>2. QED
      BY <1>1, <1>2, <2>1, OneLives DEF TtyMain, States
  <1>3. CASE TtyWriteDone
    BY <1>3, OneLives DEF TtyWriteDone
  <1>4. QED
    BY <1>2, <1>3 DEF GravityStep, GravityWorld, GravityMain, Update, UpdateBlocked, WriteDone,
                      Ticking

\* The loop examples start and stop their watchers, and close none.
LEMMA LoopsLive ==
  ASSUME LoopsInv, program \in {"uvstop", "idle-basic", "idle-compute", "ref-timer"},
         LoopsStep \/ LoopsWorld
  PROVE  Lives
  <1> USE IdleAssumption DEF InLoop, Setup
  <1>1. /\ stage # "crashed" /\ handle \in [Handles -> States]
    BY DEF LoopsInv, UvstopInv, IdleBasicInv, IdleComputeInv, RefTimerInv, Static
  <1>2. program # "ref-timer" => \A h \in Handles : handle[h] \in {"none", "active", "idle"}
    BY DEF LoopsInv, UvstopInv, IdleBasicInv, IdleComputeInv
  <1>3. program = "ref-timer" =>
          /\ stage = "setup" => handle["gc_req"] = "none" /\ handle["fake_job_req"] = "none"
          /\ world \in [now : Nat, freed : Nat, mishap : {{}}]
    BY DEF LoopsInv, RefTimerInv
  <1>4. ASSUME UvstopMain \/ idle_cb \/ prep_cb \/ Stopped
        PROVE  Lives
    <2>1. /\ world' = world
          /\ handle' = handle \/ handle' = Turn({"idler", "prep"}, "active")
          /\ program = "uvstop"
      BY <1>4 DEF UvstopMain, idle_cb, prep_cb, Stopped
    <2>2. QED
      BY <1>1, <1>2, <2>1 DEF Lives, May, Turn
  <1>5. ASSUME IdleBasicMain \/ wait_for_a_while \/ IdleComputeMain \/ crunch_away \/ OnTypeEnd
        PROVE  Lives
    <2>1. /\ world' = world /\ program \in {"idle-basic", "idle-compute"}
          /\ \/ handle' = handle
             \/ \E s \in {"active", "idle"} :
                  handle' = Turn({"idler"}, s) /\ (s = "idle" => handle["idler"] = "active")
      BY <1>5 DEF IdleBasicMain, wait_for_a_while, IdleComputeMain, crunch_away, OnTypeEnd
    <2>2. QED
      BY <1>1, <1>2, <2>1, OneLives
  <1>6. ASSUME NEW n \in 1 .. BufferSize, OnTypeBytes(n)
        PROVE  Lives
    <2>1. world.mishap \subseteq world'.mishap
      <3> DEFINE line == world.lines + 1
                 typed == [i \in 1 .. n |-> line]
                 m == IF n = BufferSize THEN world.mishap \cup {"full_read"} ELSE world.mishap
      <3>1. world = [lines |-> world.lines, typed |-> world.typed, mishap |-> world.mishap]
        BY <1>6 DEF OnTypeBytes, LoopsInv, IdleComputeInv
      <3>2. world' = [world EXCEPT !.lines = line, !.typed = typed, !.mishap = m]
        BY <1>6 DEF OnTypeBytes
      <3>3. world.mishap \subseteq m
        OBVIOUS
      <3> HIDE DEF line, typed, m
      <3>4. world'.mishap = m
        BY <3>1, <3>2
      <3>5. QED
        BY <3>3, <3>4
    <2>2. handle["idler"] \in {"none", "active", "idle"}
      BY <1>2, <1>6 DEF OnTypeBytes
    <2>3. QED
      BY <1>1, <1>6, <2>1, <2>2, OneLives DEF OnTypeBytes
  <1>7. CASE RefTimerMain
    <2>1. handle' = [[handle EXCEPT !["gc_req"] = "background"] EXCEPT !["fake_job_req"] = "active"]
      BY <1>1, <1>7 DEF RefTimerMain, Turn
    <2>2. QED
      BY <1>1, <1>3, <1>7, <2>1 DEF RefTimerMain, Lives, May
  <1>8. CASE gc \/ WakeUp
    BY <1>1, <1>3, <1>8, OneLives DEF gc, WakeUp
  <1>9. CASE fake_job
    BY <1>1, <1>3, <1>9, OneLives DEF fake_job, JobDue, JobWaits
  <1>10. QED
    BY <1>4, <1>5, <1>6, <1>7, <1>8, <1>9 DEF LoopsStep, LoopsWorld

\* A spawner closes its process handle when the child has exited; onchange only watches.
LEMMA ProcessLives ==
  ASSUME SpawnInv, OnchangeInv, program \in Spawners \cup {"onchange"},
         ProcessStep \/ ProcessWorld
  PROVE  Lives
  <1> USE FilesAssumption DEF InLoop, Setup
  <1>1. program \in Spawners =>
          /\ stage # "crashed" /\ handle \in [Handles -> States]
          /\ world \in [child : {"none", "running", "exited"}, mishap : {{}}]
          /\ stage = "setup" => handle["child_req"] = "none"
          /\ program # "detach" /\ world.child = "running" => handle["child_req"] = "active"
    BY DEF SpawnInv, Static
  <1>2. program = "onchange" =>
          /\ stage # "crashed" /\ world \in [changes : Nat, mishap : {{}}]
          /\ \A h \in Handles : handle[h] \in {"none", "active", "idle"}
          /\ stage = "setup" => \A h \in Handles : handle[h] = "none"
    BY DEF OnchangeInv
  <1>3. CASE SpawnMain
    <2>1. world'.mishap = world.mishap
      BY <1>1, <1>3 DEF SpawnMain
    <2>2. QED
      BY <1>1, <1>3, <2>1, OneLives DEF SpawnMain, Watching
  <1>4. CASE on_exit
    <2>1. program \in Spawners /\ world'.mishap = world.mishap
      BY <1>1, <1>4 DEF on_exit, Spawners
    <2>2. QED
      BY <1>1, <1>4, <2>1, OneLives DEF on_exit
  <1>5. CASE DetachedExits
    <2>1. program \in Spawners /\ world'.mishap = world.mishap
      BY <1>1, <1>5 DEF DetachedExits, Spawners
    <2>2. QED
      BY <1>1, <1>5, <2>1, OneLives DEF DetachedExits
  <1>6. CASE OnchangeMain
    BY <1>2, <1>6 DEF OnchangeMain, Lives, May
  <1>7. ASSUME NEW f \in Files, run_command(f)
        PROVE  Lives
    <2>1. world'.mishap = world.mishap
      BY <1>2, <1>7 DEF run_command
    <2>2. QED
      BY <1>2, <1>7, <2>1, OneLives DEF run_command
  <1>8. CASE FileChanges
    <2>1. world'.mishap = world.mishap
      BY <1>2, <1>8 DEF FileChanges
    <2>2. QED
      BY <1>2, <1>8, <2>1, OneLives DEF FileChanges
  <1>9. QED
    BY <1>3, <1>4, <1>5, <1>6, <1>7, <1>8 DEF ProcessStep, ProcessWorld

\* signal stops its watchers, each from its own callback.
LEMMA SignalLives ==
  ASSUME SignalInv, program = "signal", SignalStep \/ SignalWorld
  PROVE  Lives
  <1> USE SignalsAssumption DEF Many, Setup
  <1>1. /\ stage # "crashed" /\ handle \in [Handles -> States]
        /\ world \in [sent : Nat, inbox : SUBSET Sigs, mishap : {{}}]
        /\ \A h \in Sigs : handle[h] \in {"none", "active", "idle"}
    BY DEF SignalInv, SignalTypes, SignalCalls, Static
  <1>2. CASE SignalMain \/ Join \/ \E t \in Threads : End(t)
    BY <1>1, <1>2, OneLives DEF SignalMain, Join, End
  <1>3. ASSUME NEW t \in Threads, Start(t)
        PROVE  Lives
    <2>1. own.started[t] \in {0, 1}
      BY <1>3 DEF Start, SignalInv, SignalTypes
    <2>2. SigsOf[t][own.started[t] + 1] \in Sigs
      BY <2>1 DEF SigsOf, Sigs, Threads
    <2>3. QED
      BY <1>1, <1>3, <2>2, OneLives DEF Start
  <1>4. ASSUME NEW h \in Sigs, signal_handler(h)
        PROVE  Lives
    <2>1. handle[h] \in {"active", "idle"}
      BY <1>4 DEF signal_handler, Served, InUvRun, SignalInv, SignalCalls, Place, ThreadOf, Sigs
    <2>2. world'.mishap = world.mishap
      BY <1>1, <1>4 DEF signal_handler
    <2>3. QED
      BY <1>1, <1>4, <2>1, <2>2, OneLives DEF signal_handler
  <1>5. CASE Signal
    <2>1. world'.mishap = world.mishap
      BY <1>1, <1>5 DEF Signal
    <2>2. QED
      BY <1>1, <1>5, <2>1, OneLives DEF Signal
  <1>6. QED
    BY <1>2, <1>3, <1>4, <1>5 DEF SignalStep, SignalWorld

\* Every step of every program lets the handles live.
LEMMA StepLives == ProgramsInv /\ Next => Lives
  <1> SUFFICES ASSUME ProgramsInv, Next
               PROVE  Lives
    OBVIOUS
  <1>1. QED
    BY OneProgram, LoopLives, UvcatLives, UvteeLives, CgiLives, DnsLives, DhcpLives, UvwgetLives,
       GravityLives, TtyLives, LoopsLive, ProcessLives, SignalLives, SocketLives
       DEF ProgramsInv, Spawners

\* When a program starts it has no handle yet.
LEMMA InitLives == Init => Life!Init
  <1> SUFFICES ASSUME Init
               PROVE  Life!Init
    OBVIOUS
  <1> USE DEF Begin
  <1>1. stage = "setup" /\ \A h \in Handles : handle[h] = "none"
    BY DEF Init, UvcatInit, UvteeInit, CgiInit, DnsInit, DhcpInit, UvwgetInit, GravityInit,
           TtyInit, LoopsInit, ProcessInit, SignalInit, SocketInit
  <1>2. world.mishap = {}
    <2>1. CASE UvcatInit \/ UvteeInit \/ CgiInit \/ DnsInit \/ DhcpInit \/ UvwgetInit
      BY <2>1 DEF UvcatInit, UvteeInit, CgiInit, DnsInit, DhcpInit, UvwgetInit
    <2>2. CASE GravityInit \/ TtyInit \/ LoopsInit \/ ProcessInit \/ SignalInit \/ SocketInit
      BY <2>2 DEF GravityInit, TtyInit, LoopsInit, ProcessInit, SignalInit, SocketInit
    <2>3. QED
      BY <2>1, <2>2 DEF Init
  <1>3. QED
    BY <1>1, <1>2 DEF Life!Init, Broken

\* A step that changes nothing changes no handle's life.
LEMMA LifeStutters ==
  ASSUME UNCHANGED vars
  PROVE  UNCHANGED [h \in Handles |->
                      IF Broken \/ stage = "crashed" THEN "undefined" ELSE handle[h]]
  BY DEF vars, Broken

\* Every handle of every program, for any number of requests, clients and
\* lines, goes through the states of UvHandle and no others: it is used only
\* while it is open, is closed once, and is initialised again only after its
\* close callback.  HandleLife says that, and that closing comes to an end.
THEOREM HandlesLive ==
  Spec => /\ Life!Init
          /\ [][Life!Next]_([h \in Handles |->
                 IF Broken \/ stage = "crashed" THEN "undefined" ELSE handle[h]])
  BY InitLives, StepLives, LivesIs, LifeStutters, ProgramsCorrect, PTL DEF Spec
=============================================================================
