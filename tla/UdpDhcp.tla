------------------------------- MODULE UdpDhcp -------------------------------
(***************************************************************************)
(* docs/code/udp-dhcp/main.c: broadcast one DHCP request and print the     *)
(* first answer.  The message is a block of memory; what its bytes are is  *)
(* left out, and so is the printing of the address, except that it reads   *)
(* through addr, which libuv passes as NULL when there was nothing to read *)
(* (docs/src/udp.rst).                                                     *)
(***************************************************************************)
EXTENDS UvLoop

ASSUME DhcpAssumption == {"recv_socket", "send_socket"} \subseteq Handles

DhcpInit ==
  Begin("udp-dhcp", {"recv_socket", "send_socket", "send_req"},
        [receives |-> FALSE], [answers |-> 0, sent |-> FALSE, mishap |-> {}])

\* The block that make_discover_msg allocates and nobody frees.
make_discover_msg == Object("discover_msg")

Send == Request(Object("send_req"), "send_socket", make_discover_msg)

\* No result is looked at: uv_udp_recv_start and uv_udp_send may fail, and the
\* loop runs for what is left.  When the first uv_udp_bind fails, as it does
\* for an ordinary user, uv_udp_recv_start binds the socket to another port,
\* where datagrams of others may come.
DhcpMain ==
  /\ Setup("udp-dhcp")
  /\ stage' = "loop"
  /\ \E r \in BOOLEAN :
       /\ own' = [receives |-> r]
       /\ handle' = [Turn({"send_socket"}, "idle") EXCEPT
                       !["recv_socket"] = IF r THEN "active" ELSE "idle"]
  /\ memory' = memory \cup {make_discover_msg}
  /\ pending' \in {<<Send>>, <<>>}
  /\ UNCHANGED <<program, world>>

on_send ==
  /\ InLoop("udp-dhcp") /\ Awaits(Send.req)
  /\ pending' = <<>>
  /\ \E s \in BOOLEAN : world' = [world EXCEPT !.sent = s]
  /\ UNCHANGED <<program, stage, handle, memory, own>>

Receiving == InLoop("udp-dhcp") /\ handle["recv_socket"] = "active"

\* A datagram, maybe an empty one, comes: uv_udp_recv_stop ends the program.
OnReadDatagram ==
  /\ Receiving
  /\ handle' = Turn({"recv_socket"}, "idle")
  /\ world' = [world EXCEPT !.answers = @ + 1]
  /\ UNCHANGED <<program, stage, pending, memory, own>>

OnReadError ==
  /\ Receiving
  /\ handle' = Turn({"recv_socket"}, "closing")
  /\ UNCHANGED <<program, stage, pending, memory, own, world>>

\* The socket was readable and there was nothing to read: nread is 0, which
\* is not < 0, and addr is NULL.
OnReadNothing ==
  /\ Receiving
  /\ stage' = "crashed"
  /\ world' = Mishap("nothing_to_read")
  /\ UNCHANGED <<program, handle, pending, memory, own>>

DhcpWorld == OnReadDatagram \/ OnReadError \/ OnReadNothing

DhcpStep == DhcpMain \/ on_send

-----------------------------------------------------------------------------

\* It ends with one answer read, or with none after an error: then the socket is
\* closed, or receiving could not be started.  Nothing is left to send.
DhcpComplete ==
  /\ handle["recv_socket"] \in {"idle", "closed"} /\ ~Awaits(Send.req)
  /\ world.answers = IF own.receives /\ handle["recv_socket"] = "idle" THEN 1 ELSE 0

DhcpDue == InLoop("udp-dhcp") /\ handle["recv_socket"] # "active"

=============================================================================
