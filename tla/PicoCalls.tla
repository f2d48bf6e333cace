------------------------------ MODULE PicoCalls ------------------------------
(* The calls of components/PicoServer (remote-drivers/picotcp-socket-sync/      *)
(* server/server.c), as its clients make them: which client the server takes    *)
(* the caller for, and which socket and shared buffer the call then reaches.    *)
(* The three interfaces of a client, pico_control, pico_send and pico_recv, are *)
(* served by one thread; each client has one pico_send and one pico_recv buffer. *)
(* The tables behind client_get_socket, events and the asynchronous queues are  *)
(* in PicoSockets. Outside the repository: the stack.                           *)
EXTENDS SingleThreaded

CONSTANT SocketFds      \* the fds a client's table gives out

PicoInterfaces == {"pico_control", "pico_send", "pico_recv"}

(* picotcp_socket_sync_client_connections connects a client to all three.       *)
ASSUME PicoAssumption ==
    /\ SocketFds \subseteq Nat \ {0}
    /\ \A i \in PicoInterfaces : ServerOf[i] = "pico" /\ from_ends[i] = from_ends["pico_control"]

Numbers == 0..(Len(from_ends["pico_control"]) - 1)
NumberOf(t) == PlaceOf("pico_control", t) - 1
PicoSocket == Numbers \X SocketFds

VARIABLES
    socket_table,   \* per client number: its fds
    socket_user,    \* history, per socket: the thread whose call reached it last
    sent_from,      \* per socket: the thread whose buffer it last sent from, or None
    recv_buf,       \* per thread: the socket its receive buffer was last filled from
    socks           \* per thread: the fds it has open

picoVars == <<socket_table, socket_user, sent_from, recv_buf, socks>>

PicoInit ==
    /\ socket_table = [c \in Numbers |-> {}]
    /\ socket_user = [s \in PicoSocket |-> None]
    /\ sent_from = [s \in PicoSocket |-> None]
    /\ recv_buf = [t \in Threads |-> <<>>]
    /\ socks = [t \in Threads |-> {}]

PicoTypeOK ==
    /\ socket_table \in [Numbers -> SUBSET SocketFds]
    /\ socket_user \in [PicoSocket -> Threads \cup {None}]
    /\ sent_from \in [PicoSocket -> Threads \cup {None}]
    /\ recv_buf \in [Threads -> PicoSocket \cup {<<>>}]
    /\ socks \in [Threads -> SUBSET SocketFds]

-------------------------------------------------------------------------------
(* client_check: every call, of whichever interface, asks pico_control for the  *)
(* sender. A number out of range fails an assertion.                            *)
client_check == get_sender_id("pico_control")

(* server_control_common: the client has the socket.                            *)
server_control_common(client, fd) == fd \in socket_table[client]

(* pico_control_open.                                                           *)
pico_open ==
    /\ Receives("pico_control", "open") /\ handle_message("pico_control")
    /\ client_check \in Numbers
    /\ \/ ReplyRecv("pico", -1) /\ UNCHANGED <<socket_table, socket_user, sent_from>>
       \/ \E fd \in SocketFds \ socket_table[client_check] :
          /\ socket_table' = [socket_table EXCEPT ![client_check] = @ \cup {fd}]
          /\ socket_user' = [socket_user EXCEPT ![<<client_check, fd>>] = Caller("pico")]
          /\ sent_from' = [sent_from EXCEPT ![<<client_check, fd>>] = None]
          /\ ReplyRecv("pico", fd)
    /\ UNCHANGED <<recv_buf, socks>>

(* pico_control_close.                                                          *)
pico_close ==
    /\ Receives("pico_control", "close") /\ handle_message("pico_control")
    /\ client_check \in Numbers
    /\ LET fd == msg[Caller("pico")].fd IN
       IF server_control_common(client_check, fd)
       THEN /\ socket_table' = [socket_table EXCEPT ![client_check] = @ \ {fd}]
            /\ socket_user' = [socket_user EXCEPT ![<<client_check, fd>>] = None]
            /\ sent_from' = [sent_from EXCEPT ![<<client_check, fd>>] = None]
            /\ ReplyRecv("pico", 0)
       ELSE ReplyRecv("pico", -1) /\ UNCHANGED <<socket_table, socket_user, sent_from>>
    /\ UNCHANGED <<recv_buf, socks>>

(* The stack does it or not.                                                    *)
PassesOn(op) ==
    /\ Receives("pico_control", op) /\ handle_message("pico_control")
    /\ client_check \in Numbers
    /\ LET t == Caller("pico")
           fd == msg[t].fd
       IN  IF server_control_common(client_check, fd)
           THEN /\ socket_user' = [socket_user EXCEPT ![<<client_check, fd>>] = t]
                /\ \E r \in {0, -1} : ReplyRecv("pico", r)
           ELSE ReplyRecv("pico", -1) /\ UNCHANGED socket_user
    /\ UNCHANGED <<socket_table, sent_from, recv_buf, socks>>

(* pico_control_bind, connect and listen; and shutdown, which is no close.      *)
pico_pass_on == PassesOn("pass_on")
pico_control_shutdown == PassesOn("shutdown")

(* pico_control_get_ipv4 asks for no sender.                                    *)
pico_get_ipv4 ==
    /\ Receives("pico_control", "get_ipv4") /\ handle_message("pico_control")
    /\ \E r \in {0, -1} : ReplyRecv("pico", r)
    /\ UNCHANGED picoVars

(* server_communication_common: the transfer lies within the buffer, and the    *)
(* client has the socket.                                                       *)
server_communication_common(client, m) == m.fits /\ m.fd \in socket_table[client]

\* Mutant: the buffer is the caller's, whatever client client_check has found.
transfer_buf_of_caller(i, client) == buf(i, ReceivedBadge("pico"))
transfer_buf(i, client) == buf(i, enumerate_badge(i, client))

(* pico_send_write, send and sendto; pico_recv_read, recv and recvfrom.         *)
Transfer(i) ==
    /\ Receives(i, "transfer") /\ handle_message(i)
    /\ client_check \in Numbers
    /\ LET t == Caller("pico")
           client == client_check
           s == <<client, msg[t].fd>>
       IN  IF server_communication_common(client, msg[t])
           THEN /\ socket_user' = [socket_user EXCEPT ![s] = t]
                /\ \/ ReplyRecv("pico", -1) /\ UNCHANGED <<sent_from, recv_buf>>
                   \/ /\ ReplyRecv("pico", 1)
                      /\ sent_from' = IF i = "pico_recv" THEN sent_from
                            ELSE [sent_from EXCEPT ![s] = transfer_buf(i, client)]
                      /\ recv_buf' = IF i = "pico_send" THEN recv_buf
                            ELSE [u \in Threads |->
                                     IF u = transfer_buf(i, client) THEN s ELSE recv_buf[u]]
           ELSE ReplyRecv("pico", -1) /\ UNCHANGED <<socket_user, sent_from, recv_buf>>
    /\ UNCHANGED <<socket_table, socks>>

pico_send == Transfer("pico_send")
pico_recv == Transfer("pico_recv")

PicoServerNext ==
    pico_open \/ pico_close \/ pico_pass_on \/ pico_control_shutdown \/ pico_get_ipv4 \/ pico_send \/ pico_recv

-------------------------------------------------------------------------------
(* The clients: they use the fds they have been given.                          *)
PicoCalls(t) ==
    {[iface |-> "pico_control", op |-> "open"], [iface |-> "pico_control", op |-> "get_ipv4"]}
    \cup {[iface |-> "pico_control", op |-> o, fd |-> fd] : o \in {"close", "pass_on", "shutdown"}, fd \in socks[t]}
    \cup {[iface |-> i, op |-> "transfer", fd |-> fd, fits |-> fits] :
             i \in {"pico_send", "pico_recv"}, fd \in socks[t], fits \in BOOLEAN}

PicoCall(t) ==
    \E m \in PicoCalls(t) :
        /\ Call(t, m)
        /\ socks' = IF m.op = "close" THEN [socks EXCEPT ![t] = @ \ {m.fd}] ELSE socks
        /\ UNCHANGED <<socket_table, socket_user, sent_from, recv_buf>>

PicoReturn(t) ==
    /\ Return(t) /\ msg[t].iface \in PicoInterfaces
    /\ socks' = IF msg[t].op = "open" /\ ret[t] # -1
                THEN [socks EXCEPT ![t] = @ \cup {ret[t]}] ELSE socks
    /\ UNCHANGED <<socket_table, socket_user, sent_from, recv_buf>>
===============================================================================
