--------------------------------- MODULE Dns ---------------------------------
(***************************************************************************)
(* docs/code/dns/main.c: resolve a name, connect to it, print what comes.  *)
(*                                                                         *)
(* The buffer of a read is allocated before and freed in its callback, on  *)
(* every path of it, and is no state.  The first three fields of hints     *)
(* and its flags are set and the rest is not: uv_getaddrinfo may fail.     *)
(***************************************************************************)
EXTENDS UvLoop

ASSUME DnsAssumption == "socket" \in Handles

DnsInit ==
  Begin("dns", {"resolver"}, [printed |-> 0], [peer |-> "up", mishap |-> {}])

Resolve == Request(Object("resolver"), "none", Object("resolver"))

Connecting_Swapped ==
  \* Mutant: the request and the handle of uv_tcp_connect change places.
  Request(Object("socket"), "connect_req", Object("connect_req"))

Connecting == Request(Object("connect_req"), "socket", Object("connect_req"))

DnsMain ==
  /\ Setup("dns")
  /\ \/ stage' = "loop" /\ pending' = <<Resolve>>
     \/ stage' = "failed" /\ UNCHANGED pending
  /\ UNCHANGED <<program, handle, memory, own, world>>

DnsCallback(r) ==
  /\ InLoop("dns") /\ Awaits(r.req)
  /\ UNCHANGED <<program, stage, own>>

\* The result of uv_tcp_connect is not looked at: when it fails there is
\* nothing to wait for.
on_resolved ==
  /\ DnsCallback(Resolve)
  /\ pending' \in {<<Connecting>>, <<>>}
  /\ memory' = memory \cup Objects({"connect_req", "socket"})
  /\ handle' = Turn({"socket"}, "idle")
  /\ UNCHANGED world

ResolveFails ==
  /\ DnsCallback(Resolve)
  /\ pending' = <<>>
  /\ world' = [world EXCEPT !.peer = "unknown"]
  /\ UNCHANGED <<handle, memory>>

on_connect ==
  /\ DnsCallback(Connecting)
  /\ pending' = <<>>
  /\ memory' = memory \ {Connecting.req}
  /\ handle' = Turn({"socket"}, "active")
  /\ UNCHANGED world

\* The request is freed; the socket is neither closed nor freed.
ConnectFails ==
  /\ DnsCallback(Connecting)
  /\ pending' = <<>>
  /\ memory' = memory \ {Connecting.req}
  /\ world' = [world EXCEPT !.peer = "refused"]
  /\ UNCHANGED handle

DnsReading == InLoop("dns") /\ handle["socket"] = "active"

OnReadData ==
  /\ DnsReading /\ own.printed < MaxLines
  /\ own' = [printed |-> own.printed + 1]
  /\ UNCHANGED <<program, stage, handle, pending, memory, world>>

\* The end of the stream, or an error: the socket is closed and, in the
\* same callback, its memory is freed.
OnReadFails ==
  /\ DnsReading
  /\ handle' = Turn({"socket"}, "closing")
  /\ memory' = memory \ {Object("socket")}
  /\ world' = [Mishap("peer_ended") EXCEPT !.peer = "gone"]
  /\ UNCHANGED <<program, stage, pending, own>>

DnsWorld == OnReadData \/ OnReadFails

DnsStep ==
  \/ DnsMain \/ on_resolved \/ ResolveFails \/ on_connect \/ ConnectFails

-----------------------------------------------------------------------------

DnsDue == InLoop("dns") /\ world.peer \in {"unknown", "refused"}

=============================================================================
