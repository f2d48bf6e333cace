------------------------------ MODULE PicoSockets ------------------------------
(* remote-drivers/picotcp-socket-sync/server: server.c offers the sockets of    *)
(* the picoTCP stack to clients, picoserver_client.c keeps their tables. The    *)
(* component has one thread: a call, or a callback of the stack, runs to its    *)
(* end before the next. The loops over queued messages are taken one message    *)
(* at a time (work), since the client fills its queues meanwhile.               *)
(* Outside the repository: the stack, which owns the pico_sockets (an address   *)
(* each), and the virtqueues, two queues of messages of the first client.       *)
EXTENDS Integers, FiniteSets, SequencesExt

CONSTANTS
    Clients,    \* 0..n-1, as pico_control_get_sender_id() numbers them
    Addresses,  \* addresses of struct pico_socket
    EventBits,  \* PICO_SOCK_EV_*: "RD", "WR" and others
    MaxFd,      \* INT_MAX; the number after it is INT_MIN
    MaxMsgs,    \* bound: messages the client sends, over both queues
    MsgLen,     \* total_len of a message, in parts the stack takes at once
    Uses        \* bound: how the server may be used

Fds == 1..(MaxFd + 1)
Sockets == Clients \X Fds
Queues == {"tx", "rx"}
Msgs == 1..MaxMsgs      \* numbered in the order the client sends them
NoSocket == <<>>
NoAddress == "NULL"     \* where no pico_socket lies

(* Of the bounds of one use: "opens" sockets are made by a client, "msgs"       *)
(* messages sent by the first one; "reuse" tells whom the stack may give an     *)
(* address again that the server still holds.                                   *)
ASSUME ConstantsAssumption ==
    /\ 0 \in Clients /\ NoAddress \notin Addresses
    /\ MaxFd \in Nat \ {0} /\ MaxMsgs \in Nat /\ MsgLen \in Nat \ {0}
    /\ Uses \subseteq [clients : SUBSET Clients, addresses : SUBSET Addresses,
                       events : SUBSET EventBits, opens : 1..(MaxFd + 1),
                       msgs : 0..MaxMsgs, reuse : {"nobody", "owner", "anybody"}]

(* Where the tables are meant to agree: an address that the stack gives again,  *)
(* though the server holds it, goes to its own client, and the entry of the old *)
(* socket is one that kh_del finds (see Deleted). Where the queued messages are *)
(* meant to be kept: none waits at a socket whose address is given again, since *)
(* client_put_socket frees the record it waits in.                              *)
AddressesKept(u) == u.reuse = "nobody" \/ (u.reuse = "owner" /\ u.opens < 4)
QueuesKept(u) == u.reuse = "nobody" \/ u.msgs = 0

VARIABLES
    socket_table,       \* per client: the fds with an entry
    socket_event_set,   \* per client: the fds with events to report
    bump_index,
    socket_addr_table,  \* address -> the socket the entry points to
    record,             \* the picoserver_socket_t of a socket
    pico,               \* the stack's state of an address
    work,               \* what the thread has left of its handler
    emit_client, emit_client_async,
    signalled,          \* per client: its notification
    client,             \* per client: "waiting" or "polling" for events
    available, used,    \* per queue: what the client offers, what it gets back
    pending,            \* per queue and fd: the messages of client 0 kept waiting
    msg_fd, done_len,   \* per queue: fields of the messages
    stream,             \* history, per queue and fd: whose parts the stack took
    fatal,              \* a ZF_LOGF assertion has failed
    use                 \* the one of Uses that this behaviour shows

tables == <<socket_table, socket_event_set, bump_index, socket_addr_table, record>>
clients == <<signalled, client>>
messages == <<available, used, pending, msg_fd, done_len, stream>>
vars == <<tables, pico, work, emit_client, emit_client_async, clients, messages, fatal>>

Freed == [socket |-> NoAddress, protocol |-> "none", events |-> {}, async |-> FALSE]
Records == [socket : Addresses, protocol : {"udp", "tcp"},
            events : SUBSET EventBits, async : BOOLEAN] \cup {Freed}
Tasks == (Queues \X {"queue"}) \cup (Queues \X {"socket"} \X Sockets)
         \cup ({"event"} \X Sockets \X SUBSET EventBits)

TypeOK ==
    /\ socket_table \in [Clients -> SUBSET Fds]
    /\ socket_event_set \in [Clients -> SUBSET Fds]
    /\ bump_index \in [Clients -> 1..(MaxFd + 2)]
    /\ socket_addr_table \in [Addresses -> Sockets \cup {NoSocket}]
    /\ record \in [Sockets -> Records]
    /\ pico \in [Addresses -> {"free", "open", "listening", "incoming", "closing"}]
    /\ \A i \in 1..Len(work) : work[i] \in Tasks
    /\ emit_client \in BOOLEAN /\ emit_client_async \in BOOLEAN /\ fatal \in BOOLEAN
    /\ signalled \in [Clients -> BOOLEAN]
    /\ client \in [Clients -> {"waiting", "polling"}]
    /\ \A q \in Queues :
          /\ available[q] \in Seq(Msgs) /\ used[q] \in Seq(Msgs)
          /\ \A fd \in Fds : pending[q][fd] \in Seq(Msgs) /\ stream[q][fd] \in Seq(Msgs)
          /\ msg_fd[q] \in [Msgs -> Fds \cup {0}] /\ done_len[q] \in [Msgs -> -1..MsgLen]

-------------------------------------------------------------------------------
(* The tables: picoserver_client.c.                                             *)

Least(S) == CHOOSE x \in S : \A y \in S : x <= y

(* find_free_id. It steps from INT_MAX to 1, but only while it searches: the    *)
(* bump index itself may already be the number after INT_MAX.                   *)
find_free_id(c) ==
    LET ahead == {fd \in bump_index[c]..MaxFd : fd \notin socket_table[c]}
        behind == {fd \in 1..(bump_index[c] - 1) : fd \notin socket_table[c]}
    IN  IF bump_index[c] \notin socket_table[c] THEN bump_index[c]
        ELSE IF ahead # {} THEN Least(ahead)
        ELSE IF behind # {} THEN Least(behind)
        ELSE 0

(* kh_del(socket, table, fd) is given a key where it wants the entry's place.   *)
(* Small keys lie at the place of their number (a table has at least 4 places); *)
(* others may, and otherwise nothing is deleted.                                *)
Deleted(fd) == IF fd < 4 THEN {{fd}} ELSE {{fd}, {}}

\* Mutant: the events of a socket outlive it.
Events_kept(c, fd) == socket_event_set[c]
(* client_put_socket and client_delete_socket drop the events of a socket.       *)
Events_without(c, fd) == socket_event_set[c] \ {fd}

\* Mutant: the new socket is not entered under its address.
PutSocket_addr_kept(c, a, protocol) ==
    LET fd == find_free_id(c) IN
    /\ fd # 0
    /\ bump_index' = [bump_index EXCEPT ![c] = fd + 1]
    /\ record' = [record EXCEPT ![<<c, fd>>] =
                      [socket |-> a, protocol |-> protocol, events |-> {}, async |-> FALSE]]
    /\ socket_table' = [socket_table EXCEPT ![c] = @ \cup {fd}]
    /\ UNCHANGED <<socket_addr_table, socket_event_set, fatal>>

(* client_put_socket, for a new record with the stack's socket a. An address    *)
(* that is in the table already is one the stack has freed and uses again: the  *)
(* old socket is looked up, and its entry and events are dropped, in the tables *)
(* of the new socket's client.                                                  *)
PutSocket(c, a, protocol) ==
    LET fd == find_free_id(c)
        new == [socket |-> a, protocol |-> protocol, events |-> {}, async |-> FALSE]
        old == socket_addr_table[a]
        with_new == socket_table[c] \cup {fd}
    IN
    /\ fd # 0
    /\ bump_index' = [bump_index EXCEPT ![c] = fd + 1]
    /\ socket_addr_table' = [socket_addr_table EXCEPT ![a] = <<c, fd>>]
    /\ IF old = NoSocket
       THEN /\ record' = [record EXCEPT ![<<c, fd>>] = new]
            /\ socket_table' = [socket_table EXCEPT ![c] = with_new]
            /\ UNCHANGED <<socket_event_set, fatal>>
       ELSE /\ fatal' = (old[2] \notin with_new)
            /\ \E gone \in Deleted(old[2]) :
                   socket_table' = [socket_table EXCEPT ![c] = with_new \ gone]
            /\ record' = [record EXCEPT ![<<c, fd>>] = new, ![old] = Freed]
            /\ socket_event_set' =
                   [socket_event_set EXCEPT ![c] = Events_without(c, old[2])]

(* client_delete_socket; the stack goes on closing.                             *)
DeleteSocket(c, fd) ==
    LET a == record[<<c, fd>>].socket IN
    /\ fatal' = (a = NoAddress \/ socket_addr_table[a] = NoSocket)
    /\ pico' = [pico EXCEPT ![a] = IF @ \in {"open", "listening"} THEN "closing" ELSE @]
    /\ record' = [record EXCEPT ![<<c, fd>>] = Freed]
    /\ socket_table' = [socket_table EXCEPT ![c] = @ \ {fd}]
    /\ socket_addr_table' = [socket_addr_table EXCEPT ![a] = NoSocket]
    /\ socket_event_set' = [socket_event_set EXCEPT ![c] = Events_without(c, fd)]
    /\ UNCHANGED bump_index

-------------------------------------------------------------------------------
(* The asynchronous queues: server.c. The two directions differ in three        *)
(* places only: Finished, and what follows a failed transfer.                   *)

(* The socket a queued message names; queued messages are client 0's.           *)
SocketOf(q, m) == <<0, msg_fd[q][m]>>

Async(s) == s[2] \in socket_table[s[1]] /\ record[s].async

\* Mutant: after a partial transfer the whole message is offered again.
Results_whole(q, m) == -1..MsgLen
(* What the stack answers to a transfer: -1, or how many parts it took.         *)
Results(q, m) == -1..(MsgLen - done_len[q][m])

(* A datagram is received whole, whatever its length.                           *)
Finished(q, s, m, ret) ==
    IF q = "rx" /\ record[s].protocol = "udp" THEN ret # 0 ELSE done_len[q][m] + ret = MsgLen

(* tx_complete, rx_complete: the message goes back to the client, by either     *)
(* queue it is told through the transmit queue's notification.                  *)
Complete(q, m) ==
    /\ used' = [used EXCEPT ![q] = Append(@, m)]
    /\ emit_client_async' = TRUE

Keep(q, fd, msgs) == pending' = [pending EXCEPT ![q][fd] = msgs]

\* Mutant: what earlier attempts transferred is not counted.
Taken_afresh(q, m, ret) ==
    /\ done_len' = [done_len EXCEPT ![q][m] = ret]
    /\ stream' = [stream EXCEPT ![q][msg_fd[q][m]] = @ \o [i \in 1..ret |-> m]]

Taken(q, m, ret) ==
    /\ done_len' = [done_len EXCEPT ![q][m] = IF ret = -1 THEN -1 ELSE @ + ret]
    /\ stream' = [stream EXCEPT ![q][msg_fd[q][m]] = @ \o [i \in 1..ret |-> m]]

\* Mutant: a message overtakes the pending ones.
MustWait_never(q, m) == FALSE
(* Behind a message that waits, a message waits.                                *)
MustWait(q, m) == pending[q][msg_fd[q][m]] # <<>>

(* tx_queue_handle, rx_queue_handle: one offered message.                       *)
queue_handle(q) ==
    /\ work # <<>> /\ Head(work) = <<q, "queue">>
    /\ UNCHANGED <<tables, pico, emit_client, clients, msg_fd, fatal>>
    /\ IF available[q] = <<>>
       THEN work' = Tail(work) /\ UNCHANGED <<messages, emit_client_async>>
       ELSE LET m == Head(available[q])
                s == SocketOf(q, m)
            IN  /\ available' = [available EXCEPT ![q] = Tail(@)]
                /\ UNCHANGED work
                /\ IF ~Async(s)
                   THEN /\ done_len' = [done_len EXCEPT ![q][m] = -1]
                        /\ Complete(q, m)
                        /\ UNCHANGED <<pending, stream>>
                   ELSE IF MustWait(q, m)
                   THEN /\ Keep(q, s[2], Append(pending[q][s[2]], m))
                        /\ UNCHANGED <<used, emit_client_async, done_len, stream>>
                   ELSE \E ret \in Results(q, m) :
                        /\ Taken(q, m, ret)
                        /\ IF ret = -1 \/ Finished(q, s, m, ret)
                           THEN Complete(q, m) /\ UNCHANGED pending
                           ELSE /\ Keep(q, s[2], <<m>>)
                                /\ UNCHANGED <<used, emit_client_async>>

(* tx_socket, rx_socket: the first pending message of the socket. A transfer    *)
(* that fails ends rx_socket; tx_socket goes on to the next message.            *)
handle_socket(q) ==
    /\ work # <<>> /\ \E s \in Sockets : Head(work) = <<q, "socket", s>>
    /\ UNCHANGED <<tables, pico, emit_client, clients, available, msg_fd, fatal>>
    /\ LET s == Head(work)[3]
           waiting == pending[q][s[2]]
       IN IF s[1] # 0 \/ waiting = <<>>
          THEN /\ work' = Tail(work)
               /\ UNCHANGED <<used, pending, done_len, stream, emit_client_async>>
          ELSE LET m == Head(waiting) IN
               \E ret \in Results(q, m) :
                  /\ Taken(q, m, ret)
                  /\ IF ret = -1 \/ Finished(q, s, m, ret)
                     THEN /\ Keep(q, s[2], Tail(waiting))
                          /\ Complete(q, m)
                          /\ work' = IF ret = -1 /\ q = "rx" THEN Tail(work) ELSE work
                     ELSE /\ work' = Tail(work)
                          /\ UNCHANGED <<used, pending, emit_client_async>>

\* Mutant: the messages kept waiting are dropped with the socket.
Cleanup_drops(s) ==
    IF s[1] = 0
    THEN /\ pending' = [q \in Queues |-> [pending[q] EXCEPT ![s[2]] = <<>>]]
         /\ UNCHANGED <<used, done_len, emit_client_async>>
    ELSE UNCHANGED <<pending, used, done_len, emit_client_async>>

(* cleanup_async_socket: everything kept waiting fails.                         *)
Cleanup(s) ==
    IF s[1] = 0
    THEN LET kept(q) == pending[q][s[2]] IN
         /\ pending' = [q \in Queues |-> [pending[q] EXCEPT ![s[2]] = <<>>]]
         /\ used' = [q \in Queues |-> used[q] \o kept(q)]
         /\ done_len' = [q \in Queues |-> [m \in Msgs |->
                             IF Contains(kept(q), m) THEN -1 ELSE done_len[q][m]]]
         /\ emit_client_async' = (emit_client_async \/ \E q \in Queues : kept(q) # <<>>)
    ELSE UNCHANGED <<pending, used, done_len, emit_client_async>>

-------------------------------------------------------------------------------
(* The calls: server.c. A bad fd, or a failing stack, answers -1 and changes    *)
(* nothing. bind, connect, shutdown, and the synchronous transfers only pass    *)
(* the call on to the stack.                                                    *)
Idle == work = <<>>
Known(c, fd) == fd \in socket_table[c]
Opens(c) == bump_index[c] <= use.opens

(* Whom the stack may give an address that the server still holds, if at all.   *)
Given(c, a) ==
    LET owner == socket_addr_table[a] IN
    owner # NoSocket => CASE use.reuse = "nobody"  -> FALSE
                          [] use.reuse = "owner"   -> owner[1] = c
                          [] use.reuse = "anybody" -> TRUE

pico_control_open(c, protocol) ==
    /\ Idle /\ Opens(c)
    /\ \E a \in use.addresses :
          /\ pico[a] = "free" /\ Given(c, a)
          /\ pico' = [pico EXCEPT ![a] = "open"]
          /\ PutSocket(c, a, protocol)
    /\ UNCHANGED <<work, emit_client, emit_client_async, clients, messages>>

pico_control_listen(c, fd) ==
    /\ Idle /\ Known(c, fd)
    /\ record[<<c, fd>>].socket # NoAddress
    /\ pico[record[<<c, fd>>].socket] = "open"
    /\ pico' = [pico EXCEPT ![record[<<c, fd>>].socket] = "listening"]
    /\ UNCHANGED <<tables, work, emit_client, emit_client_async, clients, messages, fatal>>

pico_control_accept(c, fd) ==
    /\ Idle /\ Known(c, fd) /\ Opens(c)
    /\ record[<<c, fd>>].socket # NoAddress
    /\ pico[record[<<c, fd>>].socket] = "listening"
    /\ \E a \in use.addresses :
          /\ pico[a] = "incoming" /\ Given(c, a)
          /\ pico' = [pico EXCEPT ![a] = "open"]
          /\ PutSocket(c, a, "tcp")
    /\ UNCHANGED <<work, emit_client, emit_client_async, clients, messages>>

pico_control_close(c, fd) ==
    /\ Idle /\ Known(c, fd)
    /\ Cleanup(<<c, fd>>)
    /\ DeleteSocket(c, fd)
    /\ UNCHANGED <<work, emit_client, clients, available, msg_fd, stream>>

pico_control_set_async(c, fd, enabled) ==
    /\ Idle /\ Known(c, fd)
    /\ record[<<c, fd>>] # Freed /\ record[<<c, fd>>].async # enabled
    /\ record' = [record EXCEPT ![<<c, fd>>].async = enabled]
    /\ IF enabled
       THEN UNCHANGED <<pending, used, done_len, emit_client_async>>
       ELSE Cleanup(<<c, fd>>)
    /\ UNCHANGED <<socket_table, socket_event_set, bump_index, socket_addr_table, pico,
                   work, emit_client, clients, available, msg_fd, stream, fatal>>

(* The client learns the events of one socket, and how many sockets have more.  *)
pico_control_event_poll(c) ==
    /\ Idle /\ client[c] = "polling"
    /\ IF socket_event_set[c] = {}
       THEN /\ client' = [client EXCEPT ![c] = "waiting"]
            /\ UNCHANGED <<socket_event_set, record, fatal>>
       ELSE \E fd \in socket_event_set[c] :
            /\ socket_event_set' = [socket_event_set EXCEPT ![c] = @ \ {fd}]
            /\ fatal' = ~Known(c, fd)
            /\ record' = [record EXCEPT ![<<c, fd>>].events = {}]
            /\ client' = [client EXCEPT ![c] =
                              IF socket_event_set[c] = {fd} THEN "waiting" ELSE "polling"]
    /\ UNCHANGED <<socket_table, bump_index, socket_addr_table, pico, work, emit_client,
                   emit_client_async, signalled, messages>>

-------------------------------------------------------------------------------
(* The thread's other handlers.                                                 *)

(* The flags a socket reports: an asynchronous one takes data by its queues.    *)
Left(s, ev) == IF record[s].async THEN ev \ {"RD", "WR"} ELSE ev

(* socket_cb. Addresses the server does not know are those of sockets not yet   *)
(* accepted, or closed.                                                         *)
socket_cb(a, ev) ==
    /\ Idle
    /\ pico[a] # "free" /\ ev # {} /\ socket_addr_table[a] # NoSocket
    /\ LET s == socket_addr_table[a]
           moves(bit, q) == IF record[s].async /\ bit \in ev
                            THEN <<<<q, "queue">>, <<q, "socket", s>>>> ELSE <<>>
           events == IF Left(s, ev) # {} THEN <<<<"event", s, Left(s, ev)>>>> ELSE <<>>
       IN  work' = moves("RD", "rx") \o moves("WR", "tx") \o events
    /\ UNCHANGED <<tables, pico, emit_client, emit_client_async, clients, messages, fatal>>

(* client_put_event, and the flag that notify_client looks at.                  *)
put_event ==
    /\ work # <<>> /\ Head(work)[1] = "event"
    /\ LET s == Head(work)[2] IN
       /\ fatal' = ~Known(s[1], s[2])
       /\ record' = [record EXCEPT ![s].events = @ \cup Head(work)[3]]
       /\ socket_event_set' = [socket_event_set EXCEPT ![s[1]] = @ \cup {s[2]}]
    /\ emit_client' = TRUE
    /\ work' = Tail(work)
    /\ UNCHANGED <<socket_table, bump_index, socket_addr_table, pico, emit_client_async,
                   clients, messages>>

(* The badge notify_client signals: always the first client's.                  *)
Emitted == 0

(* The event loop runs it after the handlers of any notification, the stack's    *)
(* tick included, but not after a call: other calls may come first.             *)
notify_client ==
    /\ Idle /\ (emit_client \/ emit_client_async)
    /\ signalled' = [c \in Clients |-> signalled[c] \/ (emit_client /\ c = Emitted)]
    /\ emit_client' = FALSE /\ emit_client_async' = FALSE
    /\ UNCHANGED <<tables, pico, work, client, messages, fatal>>

(* tx_queue_handle_irq: the client has put something into its queues.           *)
tx_queue_handle_irq ==
    /\ Idle /\ \E q \in Queues : available[q] # <<>>
    /\ work' = <<<<"rx", "queue">>, <<"tx", "queue">>>>
    /\ UNCHANGED <<tables, pico, emit_client, emit_client_async, clients, messages, fatal>>

-------------------------------------------------------------------------------
(* The clients and the stack.                                                   *)
Wake(c) ==
    /\ client[c] = "waiting" /\ signalled[c]
    /\ client' = [client EXCEPT ![c] = "polling"]
    /\ signalled' = [signalled EXCEPT ![c] = FALSE]
    /\ UNCHANGED <<tables, pico, work, emit_client, emit_client_async, messages, fatal>>

Sent(q) == {m \in Msgs : msg_fd[q][m] # 0}

(* Client 0 queues a message, with done_len 0, for a socket it was once given.   *)
Submit(q, fd) ==
    /\ fd < bump_index[0]
    /\ LET m == Cardinality(Sent("tx") \cup Sent("rx")) + 1 IN
       /\ m <= use.msgs
       /\ msg_fd' = [msg_fd EXCEPT ![q][m] = fd]
       /\ available' = [available EXCEPT ![q] = Append(@, m)]
    /\ UNCHANGED <<tables, pico, work, emit_client, emit_client_async, clients, used,
                   pending, done_len, stream, fatal>>

(* A connection arrives; one that was closed is forgotten; and the stack may    *)
(* drop a socket of its own accord, whose address it will use again.            *)
Stack(a) ==
    /\ Idle
    /\ \/ /\ pico[a] = "free" /\ \E l \in Addresses : pico[l] = "listening"
          /\ pico' = [pico EXCEPT ![a] = "incoming"]
       \/ /\ pico[a] = "closing" \/ (use.reuse # "nobody" /\ pico[a] = "open")
          /\ pico' = [pico EXCEPT ![a] = "free"]
    /\ UNCHANGED <<tables, work, emit_client, emit_client_async, clients, messages, fatal>>

-------------------------------------------------------------------------------
Init ==
    /\ socket_table = [c \in Clients |-> {}]
    /\ socket_event_set = [c \in Clients |-> {}]
    /\ bump_index = [c \in Clients |-> 1]
    /\ socket_addr_table = [a \in Addresses |-> NoSocket]
    /\ record = [s \in Sockets |-> Freed]
    /\ pico = [a \in Addresses |-> "free"]
    /\ work = <<>>
    /\ emit_client = FALSE /\ emit_client_async = FALSE
    /\ signalled = [c \in Clients |-> FALSE]
    /\ client = [c \in Clients |-> "waiting"]
    /\ available = [q \in Queues |-> <<>>] /\ used = [q \in Queues |-> <<>>]
    /\ pending = [q \in Queues |-> [fd \in Fds |-> <<>>]]
    /\ msg_fd = [q \in Queues |-> [m \in Msgs |-> 0]]
    /\ done_len = [q \in Queues |-> [m \in Msgs |-> 0]]
    /\ stream = [q \in Queues |-> [fd \in Fds |-> <<>>]]
    /\ fatal = FALSE
    /\ use \in Uses

Calls(c) ==
    \/ \E protocol \in {"udp", "tcp"} : pico_control_open(c, protocol)
    \/ \E fd \in Fds :
          \/ pico_control_listen(c, fd)
          \/ pico_control_accept(c, fd)
          \/ pico_control_close(c, fd)
          \/ \E enabled \in BOOLEAN : pico_control_set_async(c, fd, enabled)
    \/ pico_control_event_poll(c)

Handlers ==
    \/ \E q \in Queues : queue_handle(q) \/ handle_socket(q)
    \/ put_event
    \/ \E a \in use.addresses, ev \in SUBSET use.events : socket_cb(a, ev)
    \/ notify_client
    \/ tx_queue_handle_irq

Next ==
    /\ ~fatal /\ UNCHANGED use
    /\ \/ \E c \in use.clients : Calls(c) \/ Wake(c)
       \/ Handlers
       \/ \E q \in Queues, fd \in Fds : Submit(q, fd)
       \/ \E a \in use.addresses : Stack(a)

Spec == Init /\ [][Next]_<<vars, use>>

-------------------------------------------------------------------------------
(* The address table and the clients' tables describe the same sockets: each    *)
(* entry of the one leads to an entry of the other and back, and no entry       *)
(* points to a freed record, though the stack uses addresses again. The set of  *)
(* sockets with events holds those, and only those, that have flags to report.  *)
TablesAgree ==
    /\ \A c \in Clients : \A fd \in socket_table[c] :
          record[<<c, fd>>] # Freed
          /\ socket_addr_table[record[<<c, fd>>].socket] = <<c, fd>>
    /\ \A a \in Addresses : socket_addr_table[a] # NoSocket =>
          /\ record[socket_addr_table[a]].socket = a
          /\ socket_addr_table[a][2] \in socket_table[socket_addr_table[a][1]]
    /\ \A c \in Clients :
          socket_event_set[c] = {fd \in socket_table[c] : record[<<c, fd>>].events # {}}

(* None of the assertions of the tables (ZF_LOGF) ever fails.                   *)
AssertionsHold == ~fatal

(* A client that sleeps while a socket of its has events is signalled, or will  *)
(* be at the next notification.                                                 *)
EventsAnnounced ==
    \A c \in Clients :
        socket_event_set[c] # {} /\ client[c] = "waiting" => signalled[c] \/ emit_client

(* Every queued message is in one place: still offered, kept waiting at a live  *)
(* asynchronous socket, or given back.                                          *)
PlacesOf(q, m) ==
    {<<"available", i>> : i \in {i \in 1..Len(available[q]) : available[q][i] = m}}
    \cup {<<"used", i>> : i \in {i \in 1..Len(used[q]) : used[q][i] = m}}
    \cup UNION {{<<fd, i>> : i \in {i \in 1..Len(pending[q][fd]) : pending[q][fd][i] = m}} :
                   fd \in {fd \in Fds : Async(<<0, fd>>)}}

MessagesKept == \A q \in Queues : \A m \in Sent(q) : Cardinality(PlacesOf(q, m)) = 1

(* The stack takes, and fills, the messages of a socket in the order in which   *)
(* the client queued them, whatever of them had to wait.                        *)
InOrder ==
    \A q \in Queues, fd \in Fds :
        \A i \in 1..(Len(stream[q][fd]) - 1) : stream[q][fd][i] <= stream[q][fd][i + 1]

(* A message given back as transferred was taken by the stack whole and once,   *)
(* over any number of attempts and waits, and done_len says so. Only a datagram *)
(* received may be shorter than its message.                                    *)
GivenBackWhole ==
    \A q \in Queues : \A m \in Sent(q) :
        LET taken == stream[q][msg_fd[q][m]]
            parts == Cardinality({i \in 1..Len(taken) : taken[i] = m})
            datagram == q = "rx" /\ record[SocketOf(q, m)].protocol # "tcp"
        IN  Contains(used[q], m) /\ done_len[q][m] # -1 =>
                /\ parts = done_len[q][m]
                /\ parts = MsgLen \/ (datagram /\ parts > 0)
===============================================================================
