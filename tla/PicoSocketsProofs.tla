--------------------------- MODULE PicoSocketsProofs ---------------------------
(* Proofs about the sockets of PicoServer, for any number of clients, sockets   *)
(* and messages: the tables agree and no assertion on them fails, and the       *)
(* queued messages are kept, in order, and given back for what became of them.  *)
EXTENDS PicoSockets, FiniteSetTheorems, SequenceTheorems, TLAPS

-------------------------------------------------------------------------------
(* The inductive invariant of the tables.                                       *)

TablesTyped ==
    /\ socket_table \in [Clients -> SUBSET Fds]
    /\ socket_event_set \in [Clients -> SUBSET Fds]
    /\ bump_index \in [Clients -> 1..(MaxFd + 2)]
    /\ socket_addr_table \in [Addresses -> Sockets \cup {NoSocket}]
    /\ record \in [Sockets -> Records]
    /\ fatal \in BOOLEAN

OthersTyped ==
    /\ pico \in [Addresses -> {"free", "open", "listening", "incoming", "closing"}]
    /\ emit_client \in BOOLEAN /\ emit_client_async \in BOOLEAN
    /\ signalled \in [Clients -> BOOLEAN]
    /\ client \in [Clients -> {"waiting", "polling"}]
    /\ use \in Uses

QueuesTyped ==
    /\ available \in [Queues -> Seq(Msgs)] /\ used \in [Queues -> Seq(Msgs)]
    /\ pending \in [Queues -> [Fds -> Seq(Msgs)]]
    /\ stream \in [Queues -> [Fds -> Seq(Msgs)]]
    /\ msg_fd \in [Queues -> [Msgs -> Fds \cup {0}]]
    /\ done_len \in [Queues -> [Msgs -> -1..MsgLen]]

Typed == TablesTyped /\ OthersTyped /\ QueuesTyped /\ work \in Seq(Tasks)

(* An fd is given once: the search always starts behind the last one given.     *)
FdsFresh ==
    \A c \in Clients :
        /\ bump_index[c] <= use.opens + 1
        /\ \A fd \in socket_table[c] : fd < bump_index[c]

(* An event to be recorded is one of a socket the tables still hold.            *)
TasksLive ==
    \A i \in 1..Len(work) : \A s \in Sockets, ev \in SUBSET EventBits :
        work[i] = <<"event", s, ev>> => Known(s[1], s[2]) /\ ev # {}

TablesInv == Typed /\ TablesAgree /\ AssertionsHold /\ FdsFresh /\ TasksLive

-------------------------------------------------------------------------------
(* The inductive invariant of the queued messages.                              *)

(* The first n numbers are those of the messages sent, n at most use.msgs.      *)
Numbered ==
    \E n \in 0..use.msgs :
        /\ Sent("tx") \cup Sent("rx") = 1..n
        /\ Sent("tx") \cap Sent("rx") = {}

(* Of a socket that was given to client 0.                                      *)
FdsGiven == \A q \in Queues : \A m \in Sent(q) : msg_fd[q][m] < bump_index[0]

Increasing(s) == \A i, j \in 1..Len(s) : i < j => s[i] < s[j]
Ordered(s) == \A i, j \in 1..Len(s) : i <= j => s[i] <= s[j]
Once(s) == \A i, j \in 1..Len(s) : s[i] = s[j] => i = j
Parts(s, m) == Cardinality({i \in 1..Len(s) : s[i] = m})

(* A sent message is in one of the three places of its queue, and no other is.  *)
Placed(q) ==
    /\ Increasing(available[q]) /\ Once(used[q])
    /\ \A fd \in Fds : /\ Increasing(pending[q][fd])
                       /\ pending[q][fd] # <<>> => Async(<<0, fd>>)
                       /\ \A m \in Msgs : Contains(pending[q][fd], m) => msg_fd[q][m] = fd
    /\ \A m \in Sent(q) : \/ Contains(available[q], m) \/ Contains(used[q], m)
                          \/ Contains(pending[q][msg_fd[q][m]], m)
    /\ \A m \in Msgs :
          /\ Contains(available[q], m) \/ Contains(used[q], m) => m \in Sent(q)
          /\ Contains(used[q], m) => /\ ~Contains(available[q], m)
                                     /\ \A fd \in Fds : ~Contains(pending[q][fd], m)

(* What is offered is behind all that waits, and both behind what was taken.    *)
Queued(q) ==
    \A fd \in Fds :
        /\ Ordered(stream[q][fd])
        /\ \A m \in Msgs : Contains(stream[q][fd], m) =>
              /\ msg_fd[q][m] = fd
              /\ \A n \in Msgs : /\ Contains(available[q], n) => m < n
                                 /\ Contains(pending[q][fd], n) => m <= n
        /\ \A m, n \in Msgs :
              Contains(pending[q][fd], m) /\ Contains(available[q], n) => m < n

(* done_len counts what the stack took; it is 0 until a message is sent.        *)
Datagram(q, m) == q = "rx" /\ record[SocketOf(q, m)].protocol # "tcp"
Counted(q) ==
    /\ \A m \in Msgs \ Sent(q) : done_len[q][m] = 0
    /\ \A m \in Sent(q) :
        LET parts == Parts(stream[q][msg_fd[q][m]], m) IN
        /\ Contains(available[q], m) => done_len[q][m] = 0
        /\ Contains(pending[q][msg_fd[q][m]], m) =>
              done_len[q][m] = parts /\ parts < MsgLen
        /\ Contains(used[q], m) /\ done_len[q][m] # -1 =>
              /\ done_len[q][m] = parts
              /\ parts = MsgLen \/ (Datagram(q, m) /\ parts > 0)

MessagesInv ==
    /\ Numbered /\ FdsGiven
    /\ \A q \in Queues : Placed(q) /\ Queued(q) /\ Counted(q)
-------------------------------------------------------------------------------
(* The operators of the tables.                                                 *)

(* The uses are as the constants say.                                           *)
LEMMA UseTyped ==
  ASSUME use \in Uses
  PROVE  /\ use.clients \subseteq Clients /\ use.addresses \subseteq Addresses
         /\ use.events \subseteq EventBits /\ use.opens \in 1..(MaxFd + 1)
         /\ use.msgs \in 0..MaxMsgs /\ MaxFd \in Nat
         /\ use.reuse \in {"nobody", "owner", "anybody"}
BY ConstantsAssumption

(* A socket is a client and an fd.                                              *)
LEMMA SocketParts ==
  ASSUME NEW s \in Sockets
  PROVE  s[1] \in Clients /\ s[2] \in Fds /\ s = <<s[1], s[2]>> /\ s # NoSocket
BY DEF Sockets, NoSocket

(* The invariant's types are those the runs check.                              *)
LEMMA TypedTypeOK == Typed => TypeOK
<1>. SUFFICES ASSUME Typed PROVE TypeOK
  OBVIOUS
<1>1. \A i \in 1..Len(work) : work[i] \in Tasks
  BY DEF Typed
<1>2. \A q \in Queues :
          /\ available[q] \in Seq(Msgs) /\ used[q] \in Seq(Msgs)
          /\ \A fd \in Fds : pending[q][fd] \in Seq(Msgs) /\ stream[q][fd] \in Seq(Msgs)
          /\ msg_fd[q] \in [Msgs -> Fds \cup {0}] /\ done_len[q] \in [Msgs -> -1..MsgLen]
  BY DEF Typed, QueuesTyped
<1>. QED  BY <1>1, <1>2 DEF Typed, TablesTyped, OthersTyped, TypeOK

(* The fds a client holds lie below its bump index: it is the next free one.    *)
LEMMA NextFd ==
  ASSUME TablesTyped, FdsFresh, use \in Uses, NEW c \in Clients, Opens(c)
  PROVE  /\ find_free_id(c) = bump_index[c] /\ bump_index[c] \in Fds
         /\ bump_index[c] \notin socket_table[c]
         /\ bump_index[c] <= use.opens /\ bump_index[c] # 0
<1>1. bump_index[c] \in Nat /\ bump_index[c] >= 1 /\ use.opens \in 1..(MaxFd + 1)
  BY UseTyped, ConstantsAssumption DEF TablesTyped
<1>2. bump_index[c] <= use.opens
  BY DEF Opens
<1>3. bump_index[c] \notin socket_table[c]
  BY <1>1 DEF FdsFresh
<1>4. bump_index[c] \in Fds
  BY <1>1, <1>2, ConstantsAssumption DEF Fds
<1>. QED  BY <1>1, <1>2, <1>3, <1>4 DEF find_free_id

\* What client_put_socket does to the tables, where it finds the address free
PutFresh(c, fd, a, protocol) ==
    /\ bump_index' = [bump_index EXCEPT ![c] = fd + 1]
    /\ socket_addr_table' = [socket_addr_table EXCEPT ![a] = <<c, fd>>]
    /\ record' = [record EXCEPT ![<<c, fd>>] =
                      [socket |-> a, protocol |-> protocol, events |-> {}, async |-> FALSE]]
    /\ socket_table' = [socket_table EXCEPT ![c] = socket_table[c] \cup {fd}]
    /\ UNCHANGED <<socket_event_set, fatal>>

\* and where it finds the client's own socket g under it.
PutAgain(c, fd, a, protocol, g) ==
    /\ bump_index' = [bump_index EXCEPT ![c] = fd + 1]
    /\ socket_addr_table' = [socket_addr_table EXCEPT ![a] = <<c, fd>>]
    /\ record' = [record EXCEPT
                      ![<<c, fd>>] = [socket |-> a, protocol |-> protocol,
                                      events |-> {}, async |-> FALSE],
                      ![<<c, g>>] = Freed]
    /\ socket_table' = [socket_table EXCEPT ![c] = (socket_table[c] \cup {fd}) \ {g}]
    /\ socket_event_set' = [socket_event_set EXCEPT ![c] = socket_event_set[c] \ {g}]
    /\ fatal' = FALSE

(* client_put_socket takes the next fd. An address the server still holds is    *)
(* the client's own, and its old socket goes.                                   *)
LEMMA PutSocketCases ==
  ASSUME TablesInv, AddressesKept(use), NEW c \in Clients, Opens(c),
         NEW a \in Addresses, Given(c, a), NEW protocol, PutSocket(c, a, protocol)
  PROVE  /\ bump_index[c] \in Fds /\ bump_index[c] \notin socket_table[c]
         /\ bump_index[c] <= use.opens
         /\ \/ socket_addr_table[a] = NoSocket /\ PutFresh(c, bump_index[c], a, protocol)
            \/ /\ use.reuse # "nobody"
               /\ \E g \in socket_table[c] :
                     /\ socket_addr_table[a] = <<c, g>>
                     /\ PutAgain(c, bump_index[c], a, protocol, g)
<1>. TablesTyped /\ FdsFresh /\ use \in Uses /\ TablesAgree
  BY DEF TablesInv, Typed, OthersTyped
<1>1. /\ find_free_id(c) = bump_index[c] /\ bump_index[c] \in Fds
      /\ bump_index[c] \notin socket_table[c] /\ bump_index[c] <= use.opens
  BY NextFd
<1>2. CASE socket_addr_table[a] = NoSocket
  <2>1. PutFresh(c, bump_index[c], a, protocol)
    BY <1>1, <1>2 DEF PutSocket, PutFresh
  <2>. QED  BY <1>1, <1>2, <2>1
<1>3. CASE socket_addr_table[a] # NoSocket
  <2>1. socket_addr_table[a] \in Sockets
    BY <1>3 DEF TablesTyped
  <2>2. use.reuse = "owner" /\ use.opens < 4 /\ socket_addr_table[a][1] = c
    BY <1>3 DEF AddressesKept, Given
  <2>3. PICK g : g = socket_addr_table[a][2]
    OBVIOUS
  <2>4. socket_addr_table[a] = <<c, g>> /\ g \in Fds
    BY <2>1, <2>2, <2>3, SocketParts
  <2>5. g \in socket_table[c]
    BY <1>3, <2>2, <2>3 DEF TablesAgree
  <2>6. g < 4
    BY <1>1, <2>2, <2>4, <2>5, UseTyped, ConstantsAssumption DEF FdsFresh, Fds, TablesTyped
  <2>7. Deleted(g) = {{g}}
    BY <2>6 DEF Deleted
  <2>8. PutAgain(c, bump_index[c], a, protocol, g)
    BY <1>1, <1>3, <2>2, <2>3, <2>4, <2>5, <2>7 DEF PutSocket, PutAgain, Events_without
  <2>. QED  BY <1>1, <2>2, <2>4, <2>5, <2>8
<1>. QED  BY <1>2, <1>3

(* A record that was filled is not a freed one.                                 *)
LEMMA RecordFilled ==
  ASSUME NEW a \in Addresses, NEW protocol \in {"udp", "tcp"},
         NEW ev \in SUBSET EventBits, NEW b \in BOOLEAN, NEW r,
         r = [socket |-> a, protocol |-> protocol, events |-> ev, async |-> b]
  PROVE  r \in Records /\ r # Freed /\ r.socket = a /\ r.events = ev /\ r.async = b
         /\ r.protocol = protocol
BY ConstantsAssumption DEF Records, Freed

(* The fields of a record that is not freed, and of one that is.                *)
LEMMA RecordFields ==
  ASSUME NEW r \in Records
  PROVE  /\ r # Freed => /\ r.socket \in Addresses /\ r.protocol \in {"udp", "tcp"}
                         /\ r.events \in SUBSET EventBits /\ r.async \in BOOLEAN
                         /\ r = [socket |-> r.socket, protocol |-> r.protocol,
                                 events |-> r.events, async |-> r.async]
         /\ r = Freed => r.socket = NoAddress /\ r.events = {} /\ r.async = FALSE
BY DEF Records, Freed

\* What the tables promise, without the work left to do.
TablesGood == TablesTyped /\ TablesAgree /\ AssertionsHold /\ FdsFresh

(* A socket with an address of its own is added.                                *)
LEMMA PutFreshGood ==
  ASSUME TablesGood, use' = use, use \in Uses, NEW c \in Clients,
         NEW a \in Addresses, NEW protocol \in {"udp", "tcp"}, NEW fd \in Fds,
         fd = bump_index[c], fd \notin socket_table[c], fd <= use.opens,
         socket_addr_table[a] = NoSocket, PutFresh(c, fd, a, protocol)
  PROVE  TablesGood'
<1>. DEFINE new == [socket |-> a, protocol |-> protocol, events |-> {}, async |-> FALSE]
<1>1. new \in Records /\ new # Freed /\ new.socket = a /\ new.events = {}
  BY ConstantsAssumption DEF Records, Freed
<1>2. PICK r : r = new
  OBVIOUS
<1>3. /\ record' = [record EXCEPT ![<<c, fd>>] = r] /\ r \in Records /\ r # Freed
      /\ r.socket = a /\ r.events = {}
  BY <1>1, <1>2 DEF PutFresh
<1>. HIDE DEF new
<1>4. <<c, fd>> \in Sockets /\ <<c, fd>> # NoSocket
  BY DEF Sockets, NoSocket
<1>5. /\ record' \in [Sockets -> Records] /\ record'[<<c, fd>>] = r
      /\ \A c2 \in Clients, f \in Fds :
            <<c2, f>> # <<c, fd>> => record'[<<c2, f>>] = record[<<c2, f>>]
  BY <1>3, <1>4 DEF TablesGood, TablesTyped, Sockets
<1>6. /\ socket_table' \in [Clients -> SUBSET Fds]
      /\ \A c2 \in Clients, f \in Fds :
            f \in socket_table'[c2] <=> f \in socket_table[c2] \/ <<c2, f>> = <<c, fd>>
  BY DEF TablesGood, TablesTyped, PutFresh
<1>7. /\ socket_addr_table' \in [Addresses -> Sockets \cup {NoSocket}]
      /\ socket_addr_table'[a] = <<c, fd>>
      /\ \A x \in Addresses : x # a => socket_addr_table'[x] = socket_addr_table[x]
  BY <1>4 DEF TablesGood, TablesTyped, PutFresh
<1>8. /\ bump_index' \in [Clients -> 1..(MaxFd + 2)]
      /\ \A x \in Clients : bump_index'[x] = IF x = c THEN fd + 1 ELSE bump_index[x]
  BY ConstantsAssumption DEF TablesGood, TablesTyped, PutFresh, Fds
<1>9. socket_event_set' = socket_event_set /\ fatal' = fatal
  BY DEF PutFresh
<1>10. TablesTyped'
  BY <1>5, <1>6, <1>7, <1>8, <1>9 DEF TablesGood, TablesTyped
<1>11. FdsFresh'
  BY <1>6, <1>8, UseTyped, ConstantsAssumption DEF TablesGood, FdsFresh, TablesTyped, Fds
<1>12. ASSUME NEW x \in Clients, NEW f \in socket_table[x]
       PROVE  /\ <<x, f>> # <<c, fd>> /\ f \in Fds /\ <<x, f>> # NoSocket
              /\ record[<<x, f>>] # Freed /\ record[<<x, f>>].socket \in Addresses
              /\ record[<<x, f>>].socket # a
              /\ socket_addr_table[record[<<x, f>>].socket] = <<x, f>>
  <2>1. f \in Fds /\ <<x, f>> \in Sockets /\ <<x, f>> # NoSocket
    BY DEF TablesGood, TablesTyped, Sockets, NoSocket
  <2>2. /\ record[<<x, f>>] # Freed
        /\ socket_addr_table[record[<<x, f>>].socket] = <<x, f>>
    BY DEF TablesGood, TablesAgree
  <2>3. record[<<x, f>>] \in Records
    BY <2>1 DEF TablesGood, TablesTyped
  <2>4. record[<<x, f>>].socket \in Addresses
    BY <2>2, <2>3, RecordFields
  <2>. QED  BY <2>1, <2>2, <2>4
<1>13. ASSUME NEW x \in Clients, NEW f \in socket_table'[x]
       PROVE  /\ record'[<<x, f>>] # Freed
              /\ socket_addr_table'[record'[<<x, f>>].socket] = <<x, f>>
  <2>1. f \in Fds
    BY <1>6
  <2>2. CASE <<x, f>> = <<c, fd>>
    BY <2>2, <1>3, <1>5, <1>7
  <2>3. CASE <<x, f>> # <<c, fd>>
    <3>1. f \in socket_table[x]
      BY <2>1, <2>3, <1>6
    <3>2. record'[<<x, f>>] = record[<<x, f>>]
      BY <2>1, <2>3, <1>5
    <3>. QED  BY <3>1, <3>2, <1>7, <1>12
  <2>. QED  BY <2>2, <2>3
<1>14. ASSUME NEW x \in Addresses, socket_addr_table'[x] # NoSocket
       PROVE  /\ record'[socket_addr_table'[x]].socket = x
              /\ socket_addr_table'[x][2] \in socket_table'[socket_addr_table'[x][1]]
  <2>1. CASE x = a
    BY <2>1, <1>3, <1>5, <1>6, <1>7
  <2>2. CASE x # a
    <3>1. PICK s \in Sockets : s = socket_addr_table[x] /\ s = socket_addr_table'[x]
      BY <2>2, <1>7, <1>14 DEF TablesGood, TablesTyped
    <3>2. s[1] \in Clients /\ s[2] \in Fds /\ s = <<s[1], s[2]>> /\ s # NoSocket
      BY SocketParts
    <3>3. record[s].socket = x /\ s[2] \in socket_table[s[1]]
      BY <3>1, <3>2 DEF TablesGood, TablesAgree
    <3>4. s # <<c, fd>>
      BY <3>3, <3>2
    <3>5. record'[s] = record[s]
      BY <3>2, <3>4, <1>5
    <3>6. s[2] \in socket_table'[s[1]]
      BY <3>2, <3>3, <1>6
    <3>. QED  BY <3>1, <3>3, <3>5, <3>6
  <2>. QED  BY <2>1, <2>2
<1>15. ASSUME NEW x \in Clients
       PROVE  socket_event_set'[x] =
                 {f \in socket_table'[x] : record'[<<x, f>>].events # {}}
  <2>1. socket_event_set[x] = {f \in socket_table[x] : record[<<x, f>>].events # {}}
    BY DEF TablesGood, TablesAgree
  <2>2. \A f \in Fds : f \in socket_event_set[x] <=>
                       f \in socket_table'[x] /\ record'[<<x, f>>].events # {}
    BY <2>1, <1>3, <1>5, <1>6, <1>12
  <2>3. socket_event_set[x] \subseteq Fds /\ socket_table'[x] \subseteq Fds
    BY <1>6 DEF TablesGood, TablesTyped
  <2>. QED  BY <2>2, <2>3, <1>9
<1>16. TablesAgree'
  BY <1>13, <1>14, <1>15 DEF TablesAgree
<1>. QED  BY <1>10, <1>11, <1>16, <1>9 DEF TablesGood, AssertionsHold

(* A socket whose address the stack gives again to its client is replaced.      *)
LEMMA PutAgainGood ==
  ASSUME TablesGood, use' = use, use \in Uses, NEW c \in Clients,
         NEW a \in Addresses, NEW protocol \in {"udp", "tcp"}, NEW fd \in Fds,
         fd = bump_index[c], fd \notin socket_table[c], fd <= use.opens,
         NEW g \in socket_table[c], socket_addr_table[a] = <<c, g>>,
         PutAgain(c, fd, a, protocol, g)
  PROVE  TablesGood'
<1>. DEFINE new == [socket |-> a, protocol |-> protocol, events |-> {}, async |-> FALSE]
<1>1. new \in Records /\ new # Freed /\ new.socket = a /\ new.events = {}
  BY ConstantsAssumption DEF Records, Freed
<1>2. PICK r : r = new
  OBVIOUS
<1>3. /\ record' = [record EXCEPT ![<<c, fd>>] = r, ![<<c, g>>] = Freed]
      /\ r \in Records /\ r # Freed /\ r.socket = a /\ r.events = {}
  BY <1>1, <1>2 DEF PutAgain
<1>. HIDE DEF new
<1>4. /\ <<c, fd>> \in Sockets /\ <<c, fd>> # NoSocket /\ g \in Fds /\ g # fd
      /\ <<c, g>> \in Sockets /\ <<c, g>> # <<c, fd>> /\ Freed \in Records
  BY DEF Sockets, NoSocket, TablesGood, TablesTyped, Records
<1>5. /\ record' \in [Sockets -> Records] /\ record'[<<c, fd>>] = r
      /\ \A x \in Clients, f \in Fds :
            <<x, f>> # <<c, fd>> /\ <<x, f>> # <<c, g>> =>
               record'[<<x, f>>] = record[<<x, f>>]
  BY <1>3, <1>4 DEF TablesGood, TablesTyped, Sockets
<1>6. /\ socket_table' \in [Clients -> SUBSET Fds]
      /\ \A x \in Clients, f \in Fds :
            f \in socket_table'[x] <=>
               (f \in socket_table[x] /\ <<x, f>> # <<c, g>>) \/ <<x, f>> = <<c, fd>>
  BY <1>4 DEF TablesGood, TablesTyped, PutAgain
<1>7. /\ socket_addr_table' \in [Addresses -> Sockets \cup {NoSocket}]
      /\ socket_addr_table'[a] = <<c, fd>>
      /\ \A x \in Addresses : x # a => socket_addr_table'[x] = socket_addr_table[x]
  BY <1>4 DEF TablesGood, TablesTyped, PutAgain
<1>8. /\ bump_index' \in [Clients -> 1..(MaxFd + 2)]
      /\ \A x \in Clients : bump_index'[x] = IF x = c THEN fd + 1 ELSE bump_index[x]
  BY ConstantsAssumption DEF TablesGood, TablesTyped, PutAgain, Fds
<1>9. /\ socket_event_set' \in [Clients -> SUBSET Fds] /\ fatal' = FALSE
      /\ \A x \in Clients, f \in Fds :
            f \in socket_event_set'[x] <=> f \in socket_event_set[x] /\ <<x, f>> # <<c, g>>
  BY <1>4 DEF PutAgain, TablesGood, TablesTyped
<1>10. TablesTyped'
  BY <1>5, <1>6, <1>7, <1>8, <1>9 DEF TablesGood, TablesTyped
<1>11. FdsFresh'
  BY <1>6, <1>8, UseTyped, ConstantsAssumption DEF TablesGood, FdsFresh, TablesTyped, Fds
<1>12. ASSUME NEW x \in Clients, NEW f \in socket_table[x], <<x, f>> # <<c, g>>
       PROVE  /\ <<x, f>> # <<c, fd>> /\ f \in Fds /\ <<x, f>> # NoSocket
              /\ record[<<x, f>>] # Freed /\ record[<<x, f>>].socket \in Addresses
              /\ record[<<x, f>>].socket # a
              /\ socket_addr_table[record[<<x, f>>].socket] = <<x, f>>
  <2>1. f \in Fds /\ <<x, f>> \in Sockets /\ <<x, f>> # NoSocket
    BY DEF TablesGood, TablesTyped, Sockets, NoSocket
  <2>2. /\ record[<<x, f>>] # Freed
        /\ socket_addr_table[record[<<x, f>>].socket] = <<x, f>>
    BY DEF TablesGood, TablesAgree
  <2>3. record[<<x, f>>] \in Records
    BY <2>1 DEF TablesGood, TablesTyped
  <2>4. record[<<x, f>>].socket \in Addresses
    BY <2>2, <2>3, RecordFields
  <2>. QED  BY <2>1, <2>2, <2>4, <1>12
<1>13. ASSUME NEW x \in Clients, NEW f \in socket_table'[x]
       PROVE  /\ record'[<<x, f>>] # Freed
              /\ socket_addr_table'[record'[<<x, f>>].socket] = <<x, f>>
  <2>1. f \in Fds
    BY <1>6
  <2>2. CASE <<x, f>> = <<c, fd>>
    BY <2>2, <1>3, <1>5, <1>7
  <2>3. CASE <<x, f>> # <<c, fd>>
    <3>1. f \in socket_table[x] /\ <<x, f>> # <<c, g>>
      BY <2>1, <2>3, <1>6
    <3>2. record'[<<x, f>>] = record[<<x, f>>]
      BY <2>1, <2>3, <3>1, <1>5
    <3>. QED  BY <3>1, <3>2, <1>7, <1>12
  <2>. QED  BY <2>2, <2>3
<1>14. ASSUME NEW x \in Addresses, socket_addr_table'[x] # NoSocket
       PROVE  /\ record'[socket_addr_table'[x]].socket = x
              /\ socket_addr_table'[x][2] \in socket_table'[socket_addr_table'[x][1]]
  <2>1. CASE x = a
    <3>1. fd \in socket_table'[c]
      BY <1>6
    <3>2. socket_addr_table'[x] = <<c, fd>> /\ record'[<<c, fd>>].socket = x
      BY <2>1, <1>3, <1>5, <1>7
    <3>. QED  BY <3>1, <3>2
  <2>2. CASE x # a
    <3>1. PICK s \in Sockets : s = socket_addr_table[x] /\ s = socket_addr_table'[x]
      BY <2>2, <1>7, <1>14 DEF TablesGood, TablesTyped
    <3>2. s[1] \in Clients /\ s[2] \in Fds /\ s = <<s[1], s[2]>> /\ s # NoSocket
      BY SocketParts
    <3>3. record[s].socket = x /\ s[2] \in socket_table[s[1]]
      BY <3>1, <3>2 DEF TablesGood, TablesAgree
    <3>4. s # <<c, fd>>
      BY <3>3, <3>2
    <3>5. record[<<c, g>>].socket = a
      BY <1>4 DEF TablesGood, TablesAgree, NoSocket
    <3>6. s # <<c, g>>
      BY <3>3, <3>5, <2>2
    <3>7. record'[s] = record[s]
      BY <3>2, <3>4, <3>6, <1>5
    <3>8. s[2] \in socket_table'[s[1]]
      BY <3>2, <3>3, <3>6, <1>6
    <3>. QED  BY <3>1, <3>3, <3>7, <3>8
  <2>. QED  BY <2>1, <2>2
<1>15. ASSUME NEW x \in Clients
       PROVE  socket_event_set'[x] =
                 {f \in socket_table'[x] : record'[<<x, f>>].events # {}}
  <2>1. socket_event_set[x] = {f \in socket_table[x] : record[<<x, f>>].events # {}}
    BY DEF TablesGood, TablesAgree
  <2>2. ASSUME NEW f \in Fds
        PROVE  f \in socket_event_set'[x] <=>
                   f \in socket_table'[x] /\ record'[<<x, f>>].events # {}
    <3>1. CASE <<x, f>> = <<c, fd>>
      BY <3>1, <2>1, <1>3, <1>5, <1>6, <1>9
    <3>2. CASE <<x, f>> # <<c, fd>> /\ <<x, f>> = <<c, g>>
      BY <3>2, <1>6, <1>9
    <3>3. CASE <<x, f>> # <<c, fd>> /\ <<x, f>> # <<c, g>>
      BY <3>3, <2>1, <1>5, <1>6, <1>9
    <3>. QED  BY <3>1, <3>2, <3>3
  <2>3. socket_event_set'[x] \subseteq Fds /\ socket_table'[x] \subseteq Fds
    BY <1>6, <1>9
  <2>. QED  BY <2>2, <2>3
<1>16. TablesAgree'
  BY <1>13, <1>14, <1>15 DEF TablesAgree
<1>. QED  BY <1>10, <1>11, <1>16, <1>9 DEF TablesGood, AssertionsHold

(* client_put_socket.                                                           *)
LEMMA PutSocketGood ==
  ASSUME TablesInv, AddressesKept(use), use' = use, NEW c \in Clients, Opens(c),
         NEW a \in Addresses, Given(c, a), NEW protocol \in {"udp", "tcp"},
         PutSocket(c, a, protocol)
  PROVE  TablesGood'
<1>. TablesGood /\ use \in Uses
  BY DEF TablesGood, TablesInv, Typed, OthersTyped
<1>1. /\ bump_index[c] \in Fds /\ bump_index[c] \notin socket_table[c]
      /\ bump_index[c] <= use.opens
      /\ \/ socket_addr_table[a] = NoSocket /\ PutFresh(c, bump_index[c], a, protocol)
         \/ \E g \in socket_table[c] : /\ socket_addr_table[a] = <<c, g>>
                                       /\ PutAgain(c, bump_index[c], a, protocol, g)
  BY PutSocketCases
<1>2. PICK fd \in Fds : fd = bump_index[c]
  BY <1>1
<1>3. CASE socket_addr_table[a] = NoSocket /\ PutFresh(c, fd, a, protocol)
  BY <1>1, <1>2, <1>3, PutFreshGood
<1>4. ASSUME NEW g \in socket_table[c], socket_addr_table[a] = <<c, g>>,
             PutAgain(c, fd, a, protocol, g)
      PROVE  TablesGood'
  BY <1>1, <1>2, <1>4, PutAgainGood
<1>. QED  BY <1>1, <1>2, <1>3, <1>4

(* client_delete_socket. None of its assertions fails.                          *)
LEMMA DeleteSocketGood ==
  ASSUME TablesGood, use' = use, use \in Uses, NEW c \in Clients,
         NEW fd \in socket_table[c], DeleteSocket(c, fd)
  PROVE  TablesGood'
<1>1. PICK a : a = record[<<c, fd>>].socket
  OBVIOUS
<1>2. fd \in Fds /\ <<c, fd>> \in Sockets /\ <<c, fd>> # NoSocket /\ Freed \in Records
  BY DEF TablesGood, TablesTyped, Sockets, NoSocket, Records
<1>3. a \in Addresses /\ a # NoAddress /\ socket_addr_table[a] = <<c, fd>>
  <2>1. record[<<c, fd>>] \in Records /\ record[<<c, fd>>] # Freed
    BY <1>2 DEF TablesGood, TablesTyped, TablesAgree
  <2>2. a \in Addresses
    BY <1>1, <2>1, RecordFields
  <2>. QED  BY <1>1, <2>2, ConstantsAssumption DEF TablesGood, TablesAgree
<1>4. /\ fatal' = FALSE /\ bump_index' = bump_index
      /\ record' = [record EXCEPT ![<<c, fd>>] = Freed]
      /\ socket_table' = [socket_table EXCEPT ![c] = socket_table[c] \ {fd}]
      /\ socket_addr_table' = [socket_addr_table EXCEPT ![a] = NoSocket]
      /\ socket_event_set' = [socket_event_set EXCEPT ![c] = socket_event_set[c] \ {fd}]
  BY <1>1, <1>2, <1>3 DEF DeleteSocket, Events_without
<1>5. /\ record' \in [Sockets -> Records]
      /\ \A x \in Clients, f \in Fds :
            <<x, f>> # <<c, fd>> => record'[<<x, f>>] = record[<<x, f>>]
  BY <1>2, <1>4 DEF TablesGood, TablesTyped, Sockets
<1>6. /\ socket_table' \in [Clients -> SUBSET Fds]
      /\ \A x \in Clients, f \in Fds :
            f \in socket_table'[x] <=> f \in socket_table[x] /\ <<x, f>> # <<c, fd>>
  BY <1>4 DEF TablesGood, TablesTyped
<1>7. /\ socket_addr_table' \in [Addresses -> Sockets \cup {NoSocket}]
      /\ socket_addr_table'[a] = NoSocket
      /\ \A x \in Addresses : x # a => socket_addr_table'[x] = socket_addr_table[x]
  BY <1>3, <1>4 DEF TablesGood, TablesTyped
<1>8. /\ socket_event_set' \in [Clients -> SUBSET Fds]
      /\ \A x \in Clients, f \in Fds :
            f \in socket_event_set'[x] <=> f \in socket_event_set[x] /\ <<x, f>> # <<c, fd>>
  BY <1>4 DEF TablesGood, TablesTyped
<1>9. TablesTyped' /\ FdsFresh'
  BY <1>4, <1>5, <1>6, <1>7, <1>8 DEF TablesGood, TablesTyped, FdsFresh
<1>10. ASSUME NEW x \in Clients, NEW f \in socket_table'[x]
       PROVE  /\ record'[<<x, f>>] # Freed
              /\ socket_addr_table'[record'[<<x, f>>].socket] = <<x, f>>
  <2>1. f \in Fds /\ f \in socket_table[x] /\ <<x, f>> # <<c, fd>>
    BY <1>6
  <2>2. record'[<<x, f>>] = record[<<x, f>>] /\ record[<<x, f>>] \in Records
    BY <2>1, <1>5 DEF TablesGood, TablesTyped, Sockets
  <2>3. /\ record[<<x, f>>] # Freed
        /\ socket_addr_table[record[<<x, f>>].socket] = <<x, f>>
    BY <2>1 DEF TablesGood, TablesAgree
  <2>4. record[<<x, f>>].socket \in Addresses /\ record[<<x, f>>].socket # a
    BY <2>1, <2>2, <2>3, <1>3, RecordFields
  <2>. QED  BY <2>2, <2>3, <2>4, <1>7
<1>11. ASSUME NEW x \in Addresses, socket_addr_table'[x] # NoSocket
       PROVE  /\ record'[socket_addr_table'[x]].socket = x
              /\ socket_addr_table'[x][2] \in socket_table'[socket_addr_table'[x][1]]
  <2>1. x # a
    BY <1>7, <1>11
  <2>2. PICK s \in Sockets : s = socket_addr_table[x] /\ s = socket_addr_table'[x]
    BY <2>1, <1>7, <1>11 DEF TablesGood, TablesTyped
  <2>3. s[1] \in Clients /\ s[2] \in Fds /\ s = <<s[1], s[2]>> /\ s # NoSocket
    BY SocketParts
  <2>4. record[s].socket = x /\ s[2] \in socket_table[s[1]]
    BY <2>2, <2>3 DEF TablesGood, TablesAgree
  <2>5. s # <<c, fd>>
    BY <2>1, <2>4, <1>1
  <2>. QED  BY <2>2, <2>3, <2>4, <2>5, <1>5, <1>6
<1>12. ASSUME NEW x \in Clients
       PROVE  socket_event_set'[x] =
                 {f \in socket_table'[x] : record'[<<x, f>>].events # {}}
  <2>1. socket_event_set[x] = {f \in socket_table[x] : record[<<x, f>>].events # {}}
    BY DEF TablesGood, TablesAgree
  <2>2. \A f \in Fds : f \in socket_event_set'[x] <=>
                       f \in socket_table'[x] /\ record'[<<x, f>>].events # {}
    BY <2>1, <1>5, <1>6, <1>8
  <2>. QED  BY <2>2, <1>6, <1>8
<1>13. TablesAgree'
  BY <1>10, <1>11, <1>12 DEF TablesAgree
<1>. QED  BY <1>4, <1>9, <1>13 DEF TablesGood, AssertionsHold

(* A handler that changes the flags in the records of sockets, and the sets of  *)
(* sockets with events alike.                                                   *)
LEMMA RecordsGood ==
  ASSUME TablesGood, use' = use, record' \in [Sockets -> Records], fatal' = FALSE,
         UNCHANGED <<socket_table, bump_index, socket_addr_table>>,
         \A x \in Clients : \A f \in socket_table[x] :
            /\ record'[<<x, f>>] # Freed
            /\ record'[<<x, f>>].socket = record[<<x, f>>].socket,
         socket_event_set' \in [Clients -> SUBSET Fds],
         \A x \in Clients, f \in Fds :
            f \in socket_event_set'[x] <=>
               f \in socket_table[x] /\ record'[<<x, f>>].events # {}
  PROVE  TablesGood'
<1>1. TablesTyped' /\ FdsFresh'
  BY DEF TablesGood, TablesTyped, FdsFresh
<1>2. ASSUME NEW x \in Clients, NEW f \in socket_table'[x]
      PROVE  /\ record'[<<x, f>>] # Freed
             /\ socket_addr_table'[record'[<<x, f>>].socket] = <<x, f>>
  <2>1. f \in socket_table[x]
    OBVIOUS
  <2>2. socket_addr_table[record[<<x, f>>].socket] = <<x, f>>
    BY <2>1 DEF TablesGood, TablesAgree
  <2>. QED  BY <2>1, <2>2
<1>3. ASSUME NEW x \in Addresses, socket_addr_table'[x] # NoSocket
      PROVE  /\ record'[socket_addr_table'[x]].socket = x
             /\ socket_addr_table'[x][2] \in socket_table'[socket_addr_table'[x][1]]
  <2>1. PICK s \in Sockets : s = socket_addr_table[x] /\ s = socket_addr_table'[x]
    BY <1>3 DEF TablesGood, TablesTyped
  <2>2. s[1] \in Clients /\ s[2] \in Fds /\ s = <<s[1], s[2]>> /\ s # NoSocket
    BY SocketParts
  <2>3. record[s].socket = x /\ s[2] \in socket_table[s[1]]
    BY <2>1, <2>2 DEF TablesGood, TablesAgree
  <2>. QED  BY <2>1, <2>2, <2>3
<1>4. ASSUME NEW x \in Clients
      PROVE  socket_event_set'[x] =
                {f \in socket_table'[x] : record'[<<x, f>>].events # {}}
  BY DEF TablesGood, TablesTyped
<1>5. TablesAgree'
  BY <1>2, <1>3, <1>4 DEF TablesAgree
<1>. QED  BY <1>1, <1>5 DEF TablesGood, AssertionsHold

-------------------------------------------------------------------------------
(* The queues keep their types.                                                 *)

(* So many parts of one message.                                                *)
LEMMA Copies ==
  ASSUME NEW S, NEW m \in S, NEW ret \in Int, ret >= -1
  PROVE  /\ [i \in 1..ret |-> m] \in Seq(S)
         /\ Len([i \in 1..ret |-> m]) = IF ret = -1 THEN 0 ELSE ret
         /\ \A i \in 1..ret : [j \in 1..ret |-> m][i] = m
<1>1. CASE ret = -1
  <2>1. [i \in 1..ret |-> m] = <<>>
    BY <1>1
  <2>. QED  BY <1>1, <2>1
<1>2. CASE ret # -1
  <2>1. ret \in Nat
    BY <1>2
  <2>2. [i \in 1..ret |-> m] \in [1..ret -> S]
    OBVIOUS
  <2>3. [i \in 1..ret |-> m] \in Seq(S) /\ Len([i \in 1..ret |-> m]) = ret
    BY <2>1, <2>2, IsASeq, LenProperties
  <2>. QED  BY <1>2, <2>3
<1>. QED  BY <1>1, <1>2

(* The oldest of a queue and the others.                                        *)
LEMMA SeqOldest ==
  ASSUME NEW S, NEW s \in Seq(S), s # <<>>
  PROVE  /\ Len(s) \in Nat /\ Len(s) >= 1 /\ Head(s) = s[1] /\ Head(s) \in S
         /\ Tail(s) \in Seq(S) /\ Len(Tail(s)) = Len(s) - 1
         /\ \A i \in 1..Len(s) - 1 : Tail(s)[i] = s[i + 1]
OBVIOUS

(* The stack takes parts of a message, or fails.                                *)
LEMMA TakenTyped ==
  ASSUME QueuesTyped, NEW q \in Queues, NEW m \in Msgs, NEW ret \in Results(q, m),
         Taken(q, m, ret)
  PROVE  /\ done_len' \in [Queues -> [Msgs -> -1..MsgLen]]
         /\ stream' \in [Queues -> [Fds -> Seq(Msgs)]]
<1>1. /\ MsgLen \in Nat /\ done_len[q][m] \in -1..MsgLen /\ ret \in Int /\ ret >= -1
      /\ ret <= MsgLen - done_len[q][m]
  BY ConstantsAssumption DEF QueuesTyped, Results
<1>2. PICK d : d = IF ret = -1 THEN -1 ELSE done_len[q][m] + ret
  OBVIOUS
<1>3. d \in -1..MsgLen
  BY <1>1, <1>2
<1>4. done_len' = [done_len EXCEPT ![q][m] = d]
  BY <1>2 DEF Taken
<1>5. PICK p : p = [i \in 1..ret |-> m]
  OBVIOUS
<1>6. p \in Seq(Msgs) /\ stream' = [stream EXCEPT ![q][msg_fd[q][m]] = @ \o p]
  BY <1>1, <1>5, Copies DEF Taken
<1>7. done_len' \in [Queues -> [Msgs -> -1..MsgLen]]
  BY <1>3, <1>4 DEF QueuesTyped
<1>8. ASSUME NEW r \in Queues
      PROVE  stream'[r] \in [Fds -> Seq(Msgs)]
  <2>1. stream[r] \in [Fds -> Seq(Msgs)]
    BY DEF QueuesTyped
  <2>2. CASE r = q
    <3>1. PICK f0 : f0 = msg_fd[q][m]
      OBVIOUS
    <3>2. stream'[q] = [x \in Fds |-> IF x = f0 THEN stream[q][x] \o p ELSE stream[q][x]]
      BY <1>6, <3>1 DEF QueuesTyped
    <3>3. \A x \in Fds : stream[q][x] \in Seq(Msgs) /\ stream[q][x] \o p \in Seq(Msgs)
      BY <2>1, <2>2, <1>6
    <3>. QED  BY <2>2, <3>2, <3>3
  <2>3. CASE r # q
    BY <2>1, <2>3, <1>6 DEF QueuesTyped
  <2>. QED  BY <2>2, <2>3
<1>9. stream' \in [Queues -> [Fds -> Seq(Msgs)]]
  BY <1>6, <1>8 DEF QueuesTyped
<1>. QED  BY <1>7, <1>9

(* A message is given back; a queue of waiting messages is set.                 *)
LEMMA CompleteTyped ==
  ASSUME QueuesTyped, NEW q \in Queues, NEW m \in Msgs, Complete(q, m)
  PROVE  used' \in [Queues -> Seq(Msgs)] /\ emit_client_async' \in BOOLEAN
BY DEF QueuesTyped, Complete

LEMMA KeepTyped ==
  ASSUME QueuesTyped, NEW q \in Queues, NEW fd, NEW s \in Seq(Msgs), Keep(q, fd, s)
  PROVE  pending' \in [Queues -> [Fds -> Seq(Msgs)]]
BY DEF QueuesTyped, Keep

(* cleanup_async_socket.                                                        *)
LEMMA CleanupTyped ==
  ASSUME QueuesTyped, NEW s \in Sockets, Cleanup(s), emit_client_async \in BOOLEAN,
         UNCHANGED <<available, msg_fd, stream>>
  PROVE  QueuesTyped' /\ emit_client_async' \in BOOLEAN
<1>1. CASE s[1] = 0
  <2>1. s[2] \in Fds
    BY SocketParts
  <2>2. /\ pending' = [q \in Queues |-> [pending[q] EXCEPT ![s[2]] = <<>>]]
        /\ used' = [q \in Queues |-> used[q] \o pending[q][s[2]]]
        /\ done_len' = [q \in Queues |-> [m \in Msgs |->
                            IF Contains(pending[q][s[2]], m) THEN -1 ELSE done_len[q][m]]]
        /\ emit_client_async' \in BOOLEAN
    BY <1>1 DEF Cleanup
  <2>3. pending' \in [Queues -> [Fds -> Seq(Msgs)]]
    <3>1. <<>> \in Seq(Msgs)
      OBVIOUS
    <3>2. ASSUME NEW q \in Queues
          PROVE  [pending[q] EXCEPT ![s[2]] = <<>>] \in [Fds -> Seq(Msgs)]
      <4>1. pending[q] \in [Fds -> Seq(Msgs)]
        BY DEF QueuesTyped
      <4>. QED  BY <3>1, <4>1
    <3>. QED  BY <2>2, <3>2
  <2>4. used' \in [Queues -> Seq(Msgs)]
    BY <2>1, <2>2 DEF QueuesTyped
  <2>5. done_len' \in [Queues -> [Msgs -> -1..MsgLen]]
    BY <2>2, ConstantsAssumption DEF QueuesTyped
  <2>. QED  BY <2>2, <2>3, <2>4, <2>5 DEF QueuesTyped
<1>2. CASE s[1] # 0
  BY <1>2 DEF Cleanup, QueuesTyped
<1>. QED  BY <1>1, <1>2

-------------------------------------------------------------------------------
(* The handlers of queued messages, unfolded.                                   *)

\* The oldest offered message is given back as failed,
Refused(q, m) ==
    /\ ~Async(SocketOf(q, m))
    /\ done_len' = [done_len EXCEPT ![q][m] = -1]
    /\ Complete(q, m)
    /\ UNCHANGED <<pending, stream>>

\* or waits behind others,
Delayed(q, m) ==
    /\ Async(SocketOf(q, m)) /\ MustWait(q, m)
    /\ Keep(q, msg_fd[q][m], Append(pending[q][msg_fd[q][m]], m))
    /\ UNCHANGED <<used, emit_client_async, done_len, stream>>

\* or is passed to the stack, and given back
Transferred(q, m, ret) ==
    /\ Async(SocketOf(q, m)) /\ ~MustWait(q, m)
    /\ Taken(q, m, ret)
    /\ ret = -1 \/ Finished(q, SocketOf(q, m), m, ret)
    /\ Complete(q, m) /\ UNCHANGED pending

\* or kept for its rest.
Retained(q, m, ret) ==
    /\ Async(SocketOf(q, m)) /\ ~MustWait(q, m)
    /\ Taken(q, m, ret)
    /\ ret # -1 /\ ~Finished(q, SocketOf(q, m), m, ret)
    /\ Keep(q, msg_fd[q][m], <<m>>)
    /\ UNCHANGED <<used, emit_client_async>>

LEMMA QueueHandleCases ==
  ASSUME NEW q \in Queues, queue_handle(q), available[q] # <<>>,
         NEW m, m = Head(available[q])
  PROVE  /\ available' = [available EXCEPT ![q] = Tail(available[q])] /\ work' = work
         /\ \/ Refused(q, m) \/ Delayed(q, m)
            \/ \E ret \in Results(q, m) : Transferred(q, m, ret) \/ Retained(q, m, ret)
<1>1. SocketOf(q, m)[2] = msg_fd[q][m]
  BY DEF SocketOf
<1>. QED  BY <1>1 DEF queue_handle, Refused, Delayed, Transferred, Retained

\* The oldest message that waits at a socket is given back, or waits on.
Resumed(q, s, m, ret) ==
    /\ Taken(q, m, ret)
    /\ ret = -1 \/ Finished(q, s, m, ret)
    /\ Keep(q, s[2], Tail(pending[q][s[2]])) /\ Complete(q, m)

Restarted(q, s, m, ret) ==
    /\ Taken(q, m, ret)
    /\ ret # -1 /\ ~Finished(q, s, m, ret)
    /\ UNCHANGED <<used, pending, emit_client_async>>

LEMMA HandleSocketCases ==
  ASSUME NEW q \in Queues, handle_socket(q)
  PROVE  \E s \in Sockets :
            /\ Head(work) = <<q, "socket", s>> /\ work' \in {work, Tail(work)}
            /\ \/ UNCHANGED <<used, pending, done_len, stream, emit_client_async>>
               \/ /\ s[1] = 0 /\ pending[q][s[2]] # <<>>
                  /\ \E ret \in Results(q, Head(pending[q][s[2]])) :
                        \/ Resumed(q, s, Head(pending[q][s[2]]), ret)
                        \/ Restarted(q, s, Head(pending[q][s[2]]), ret)
<1>1. PICK s \in Sockets : Head(work) = <<q, "socket", s>>
  BY DEF handle_socket
<1>2. Head(work)[3] = s
  BY <1>1
<1>3. CASE s[1] # 0 \/ pending[q][s[2]] = <<>>
  <2>1. /\ work' = Tail(work)
        /\ UNCHANGED <<used, pending, done_len, stream, emit_client_async>>
    BY <1>2, <1>3 DEF handle_socket
  <2>. QED  BY <1>1, <2>1
<1>4. CASE s[1] = 0 /\ pending[q][s[2]] # <<>>
  <2>1. PICK m : m = Head(pending[q][s[2]])
    OBVIOUS
  <2>2. \E ret \in Results(q, m) :
           /\ Taken(q, m, ret)
           /\ IF ret = -1 \/ Finished(q, s, m, ret)
              THEN /\ Keep(q, s[2], Tail(pending[q][s[2]]))
                   /\ Complete(q, m)
                   /\ work' = IF ret = -1 /\ q = "rx" THEN Tail(work) ELSE work
              ELSE /\ work' = Tail(work)
                   /\ UNCHANGED <<used, pending, emit_client_async>>
    BY <1>2, <1>4, <2>1 DEF handle_socket
  <2>3. PICK ret \in Results(q, m) :
           work' \in {work, Tail(work)} /\ (Resumed(q, s, m, ret) \/ Restarted(q, s, m, ret))
    BY <2>2 DEF Resumed, Restarted
  <2>. QED  BY <1>1, <1>4, <2>1, <2>3
<1>. QED  BY <1>3, <1>4

-------------------------------------------------------------------------------
(* Every step keeps the tables: one lemma per call and per handler.             *)

(* What the steps that leave the tables alone have to show.                     *)
LEMMA TablesLeft ==
  ASSUME TablesInv, use' = use, UNCHANGED <<tables, fatal>>,
         OthersTyped', QueuesTyped', work' \in Seq(Tasks),
         \A i \in 1..Len(work') : \A s \in Sockets, ev \in SUBSET EventBits :
            work'[i] = <<"event", s, ev>> => Known(s[1], s[2]) /\ ev # {}
  PROVE  TablesInv'
<1>1. TablesTyped'
  BY DEF TablesInv, Typed, TablesTyped, tables
<1>2. TablesAgree' /\ AssertionsHold' /\ FdsFresh'
  BY DEF TablesInv, TablesAgree, AssertionsHold, FdsFresh, tables
<1>3. TasksLive'
  BY DEF TasksLive, Known, tables
<1>. QED  BY <1>1, <1>2, <1>3 DEF TablesInv, Typed

(* What the calls have to show: nothing is left to do after one.                *)
LEMMA TablesCalled ==
  ASSUME TablesInv, Idle, work' = work, TablesGood', OthersTyped', QueuesTyped'
  PROVE  TablesInv'
<1>1. work' = <<>> /\ <<>> \in Seq(Tasks) /\ Len(<<>>) = 0
  BY DEF Idle
<1>2. TasksLive'
  BY <1>1 DEF TasksLive
<1>. QED  BY <1>1, <1>2 DEF TablesInv, Typed, TablesGood

LEMMA TablesInvParts ==
  ASSUME TablesInv
  PROVE  TablesGood /\ OthersTyped /\ QueuesTyped /\ work \in Seq(Tasks) /\ use \in Uses
BY DEF TablesInv, TablesGood, Typed, OthersTyped

(* The sets of sockets with events, one fd at a time.                           *)
LEMMA EventSets ==
  ASSUME TablesGood
  PROVE  \A x \in Clients, f \in Fds :
            f \in socket_event_set[x] <=> f \in socket_table[x] /\ record[<<x, f>>].events # {}
<1>1. ASSUME NEW x \in Clients
      PROVE  socket_event_set[x] = {f \in socket_table[x] : record[<<x, f>>].events # {}}
  BY DEF TablesGood, TablesAgree
<1>. QED  BY <1>1

LEMMA OpenTables ==
  ASSUME TablesInv, AddressesKept(use), use' = use, NEW c \in use.clients,
         NEW protocol \in {"udp", "tcp"}, pico_control_open(c, protocol)
  PROVE  TablesInv'
<1>. TablesGood /\ OthersTyped /\ QueuesTyped /\ work \in Seq(Tasks) /\ use \in Uses
  BY TablesInvParts
<1>1. PICK a \in use.addresses : /\ Given(c, a) /\ PutSocket(c, a, protocol)
                                 /\ pico' = [pico EXCEPT ![a] = "open"]
  BY DEF pico_control_open
<1>2. c \in Clients /\ a \in Addresses /\ Opens(c) /\ Idle
  BY UseTyped DEF pico_control_open
<1>3. TablesGood'
  BY <1>1, <1>2, PutSocketGood
<1>4. OthersTyped' /\ QueuesTyped' /\ work' = work
  BY <1>1, <1>2 DEF pico_control_open, OthersTyped, QueuesTyped, clients, messages
<1>. QED  BY <1>2, <1>3, <1>4, TablesCalled

LEMMA AcceptTables ==
  ASSUME TablesInv, AddressesKept(use), use' = use, NEW c \in use.clients,
         NEW fd \in Fds, pico_control_accept(c, fd)
  PROVE  TablesInv'
<1>. TablesGood /\ OthersTyped /\ QueuesTyped /\ work \in Seq(Tasks) /\ use \in Uses
  BY TablesInvParts
<1>1. PICK a \in use.addresses : /\ Given(c, a) /\ PutSocket(c, a, "tcp")
                                 /\ pico' = [pico EXCEPT ![a] = "open"]
  BY DEF pico_control_accept
<1>2. c \in Clients /\ a \in Addresses /\ Opens(c) /\ Idle
  BY UseTyped DEF pico_control_accept
<1>3. TablesGood'
  BY <1>1, <1>2, PutSocketGood
<1>4. OthersTyped' /\ QueuesTyped' /\ work' = work
  BY <1>1, <1>2 DEF pico_control_accept, OthersTyped, QueuesTyped, clients, messages
<1>. QED  BY <1>2, <1>3, <1>4, TablesCalled

LEMMA ListenTables ==
  ASSUME TablesInv, use' = use, NEW c, NEW fd, pico_control_listen(c, fd)
  PROVE  TablesInv'
<1>. TablesGood /\ OthersTyped /\ QueuesTyped /\ work \in Seq(Tasks) /\ use \in Uses
  BY TablesInvParts
<1>1. Idle /\ work' = work /\ UNCHANGED <<tables, fatal, use>>
  BY DEF pico_control_listen
<1>2. TablesGood'
  BY <1>1 DEF TablesGood, TablesTyped, TablesAgree, AssertionsHold, FdsFresh, tables
<1>3. OthersTyped' /\ QueuesTyped'
  BY DEF pico_control_listen, OthersTyped, QueuesTyped, clients, messages
<1>. QED  BY <1>1, <1>2, <1>3, TablesCalled

LEMMA CloseTables ==
  ASSUME TablesInv, use' = use, NEW c \in use.clients, NEW fd \in Fds,
         pico_control_close(c, fd)
  PROVE  TablesInv'
<1>. TablesGood /\ OthersTyped /\ QueuesTyped /\ work \in Seq(Tasks) /\ use \in Uses
  BY TablesInvParts
<1>1. /\ c \in Clients /\ fd \in socket_table[c] /\ <<c, fd>> \in Sockets
      /\ Idle /\ work' = work
  BY UseTyped DEF pico_control_close, Known, Sockets
<1>2. TablesGood'
  BY <1>1, DeleteSocketGood DEF pico_control_close
<1>3. QueuesTyped' /\ emit_client_async' \in BOOLEAN
  BY <1>1, CleanupTyped DEF pico_control_close, OthersTyped
<1>4. OthersTyped'
  BY <1>3 DEF pico_control_close, DeleteSocket, OthersTyped, clients
<1>. QED  BY <1>1, <1>2, <1>3, <1>4, TablesCalled

LEMMA SetAsyncTables ==
  ASSUME TablesInv, use' = use, NEW c \in use.clients, NEW fd \in Fds,
         NEW enabled \in BOOLEAN, pico_control_set_async(c, fd, enabled)
  PROVE  TablesInv'
<1>. TablesGood /\ OthersTyped /\ QueuesTyped /\ work \in Seq(Tasks) /\ use \in Uses
  BY TablesInvParts
<1>1. /\ c \in Clients /\ fd \in socket_table[c] /\ <<c, fd>> \in Sockets
      /\ Idle /\ work' = work /\ fatal' = fatal
      /\ UNCHANGED <<socket_table, socket_event_set, bump_index, socket_addr_table>>
  BY UseTyped DEF pico_control_set_async, Known, Sockets
<1>2. PICK r : r = record[<<c, fd>>]
  OBVIOUS
<1>3. r \in Records /\ r # Freed
  BY <1>1, <1>2 DEF TablesGood, TablesTyped, TablesAgree
<1>4. PICK new : new = [r EXCEPT !.async = enabled]
  OBVIOUS
<1>5. new \in Records /\ new # Freed /\ new.socket = r.socket /\ new.events = r.events
  BY <1>3, <1>4 DEF Records, Freed
<1>6. record' = [record EXCEPT ![<<c, fd>>] = new]
  BY <1>1, <1>2, <1>4 DEF pico_control_set_async, TablesGood, TablesTyped
<1>7. /\ record' \in [Sockets -> Records] /\ record'[<<c, fd>>] = new
      /\ \A x \in Clients, f \in Fds :
            <<x, f>> # <<c, fd>> => record'[<<x, f>>] = record[<<x, f>>]
  BY <1>1, <1>5, <1>6 DEF TablesGood, TablesTyped, Sockets
<1>8. \A x \in Clients : \A f \in socket_table[x] :
         /\ f \in Fds /\ record'[<<x, f>>] # Freed
         /\ record'[<<x, f>>].socket = record[<<x, f>>].socket
         /\ record'[<<x, f>>].events = record[<<x, f>>].events
  <2>1. \A x \in Clients : \A f \in socket_table[x] : f \in Fds /\ record[<<x, f>>] # Freed
    BY DEF TablesGood, TablesTyped, TablesAgree
  <2>2. ASSUME NEW x \in Clients, NEW f \in socket_table[x]
        PROVE  /\ f \in Fds /\ record'[<<x, f>>] # Freed
               /\ record'[<<x, f>>].socket = record[<<x, f>>].socket
               /\ record'[<<x, f>>].events = record[<<x, f>>].events
    <3>1. CASE <<x, f>> = <<c, fd>>
      BY <1>2, <1>5, <1>7, <2>1, <3>1
    <3>2. CASE <<x, f>> # <<c, fd>>
      BY <1>7, <2>1, <3>2
    <3>. QED  BY <3>1, <3>2
  <2>. QED  BY <2>2
<1>9. \A x \in Clients, f \in Fds :
         f \in socket_event_set'[x] <=> f \in socket_table[x] /\ record'[<<x, f>>].events # {}
  BY <1>1, <1>8, EventSets
<1>10. fatal' = FALSE /\ socket_event_set' \in [Clients -> SUBSET Fds]
  BY <1>1 DEF TablesGood, TablesTyped, AssertionsHold
<1>11. TablesGood'
  BY <1>1, <1>7, <1>8, <1>9, <1>10, RecordsGood
<1>12. QueuesTyped' /\ emit_client_async' \in BOOLEAN
  <2>1. CASE enabled
    BY <2>1 DEF pico_control_set_async, QueuesTyped, OthersTyped
  <2>2. CASE ~enabled
    BY <2>2, <1>1, CleanupTyped DEF pico_control_set_async, OthersTyped
  <2>. QED  BY <2>1, <2>2
<1>13. OthersTyped'
  BY <1>12 DEF pico_control_set_async, OthersTyped, clients
<1>. QED  BY <1>1, <1>11, <1>12, <1>13, TablesCalled

LEMMA EventPollTables ==
  ASSUME TablesInv, use' = use, NEW c \in use.clients, pico_control_event_poll(c)
  PROVE  TablesInv'
<1>. TablesGood /\ OthersTyped /\ QueuesTyped /\ work \in Seq(Tasks) /\ use \in Uses
  BY TablesInvParts
<1>1. /\ c \in Clients /\ Idle /\ work' = work
      /\ UNCHANGED <<socket_table, bump_index, socket_addr_table>>
  BY UseTyped DEF pico_control_event_poll
<1>2. OthersTyped' /\ QueuesTyped'
  BY DEF pico_control_event_poll, OthersTyped, QueuesTyped, messages
<1>3. TablesGood'
  <2>1. CASE socket_event_set[c] = {}
    <3>1. UNCHANGED <<socket_event_set, record, fatal, use>>
      BY <2>1 DEF pico_control_event_poll
    <3>. QED  BY <1>1, <3>1 DEF TablesGood, TablesTyped, TablesAgree, AssertionsHold, FdsFresh
  <2>2. CASE socket_event_set[c] # {}
    <3>1. PICK fd \in socket_event_set[c] :
             /\ socket_event_set' = [socket_event_set EXCEPT ![c] = @ \ {fd}]
             /\ fatal' = ~Known(c, fd)
             /\ record' = [record EXCEPT ![<<c, fd>>].events = {}]
      BY <2>2 DEF pico_control_event_poll
    <3>2. fd \in Fds /\ fd \in socket_table[c] /\ <<c, fd>> \in Sockets /\ fatal' = FALSE
      BY <1>1, <3>1 DEF TablesGood, TablesTyped, TablesAgree, Sockets, Known
    <3>3. PICK r : r = record[<<c, fd>>]
      OBVIOUS
    <3>4. r \in Records /\ r # Freed
      BY <1>1, <3>2, <3>3 DEF TablesGood, TablesTyped, TablesAgree
    <3>5. PICK new : new = [r EXCEPT !.events = {}]
      OBVIOUS
    <3>6. new \in Records /\ new # Freed /\ new.socket = r.socket /\ new.events = {}
      BY <3>4, <3>5 DEF Records, Freed
    <3>7. record' = [record EXCEPT ![<<c, fd>>] = new]
      BY <3>1, <3>2, <3>3, <3>5 DEF TablesGood, TablesTyped
    <3>8. /\ record' \in [Sockets -> Records] /\ record'[<<c, fd>>] = new
          /\ \A x \in Clients, f \in Fds :
                <<x, f>> # <<c, fd>> => record'[<<x, f>>] = record[<<x, f>>]
      BY <3>2, <3>6, <3>7 DEF TablesGood, TablesTyped, Sockets
    <3>9. \A x \in Clients : \A f \in socket_table[x] :
             /\ f \in Fds /\ record'[<<x, f>>] # Freed
             /\ record'[<<x, f>>].socket = record[<<x, f>>].socket
      <4>1. \A x \in Clients : \A f \in socket_table[x] :
               f \in Fds /\ record[<<x, f>>] # Freed
        BY DEF TablesGood, TablesTyped, TablesAgree
      <4>2. ASSUME NEW x \in Clients, NEW f \in socket_table[x]
            PROVE  /\ f \in Fds /\ record'[<<x, f>>] # Freed
                   /\ record'[<<x, f>>].socket = record[<<x, f>>].socket
        <5>1. CASE <<x, f>> = <<c, fd>>
          BY <3>3, <3>6, <3>8, <4>1, <5>1
        <5>2. CASE <<x, f>> # <<c, fd>>
          BY <3>8, <4>1, <5>2
        <5>. QED  BY <5>1, <5>2
      <4>. QED  BY <4>2
    <3>10. /\ socket_event_set' \in [Clients -> SUBSET Fds]
           /\ \A x \in Clients, f \in Fds :
                 f \in socket_event_set'[x] <=>
                    f \in socket_event_set[x] /\ <<x, f>> # <<c, fd>>
      BY <1>1, <3>1 DEF TablesGood, TablesTyped
    <3>11. \A x \in Clients, f \in Fds :
              f \in socket_event_set'[x] <=>
                 f \in socket_table[x] /\ record'[<<x, f>>].events # {}
      <4>. SUFFICES ASSUME NEW x \in Clients, NEW f \in Fds
                    PROVE  f \in socket_event_set'[x] <=>
                              f \in socket_table[x] /\ record'[<<x, f>>].events # {}
        OBVIOUS
      <4>1. CASE <<x, f>> = <<c, fd>>
        BY <3>6, <3>8, <3>10, <4>1
      <4>2. CASE <<x, f>> # <<c, fd>>
        BY <3>8, <3>10, <4>2, EventSets
      <4>. QED  BY <4>1, <4>2
    <3>. QED  BY <1>1, <3>2, <3>8, <3>9, <3>10, <3>11, RecordsGood
  <2>. QED  BY <2>1, <2>2
<1>. QED  BY <1>1, <1>2, <1>3, TablesCalled

(* What is left to do of a handler is what was left before it, or less.         *)
LEMMA TasksFewer ==
  ASSUME TablesInv, work # <<>>, work' \in {work, Tail(work)},
         UNCHANGED socket_table
  PROVE  /\ work' \in Seq(Tasks)
         /\ \A i \in 1..Len(work') : \A s \in Sockets, ev \in SUBSET EventBits :
               work'[i] = <<"event", s, ev>> => Known(s[1], s[2])' /\ ev # {}
<1>. work \in Seq(Tasks)
  BY TablesInvParts
<1>1. CASE work' = work
  BY <1>1 DEF TablesInv, TasksLive, Known
<1>2. CASE work' = Tail(work)
  <2>1. /\ Len(work) \in Nat /\ Tail(work) \in Seq(Tasks) /\ Len(Tail(work)) = Len(work) - 1
        /\ \A i \in 1..Len(work) - 1 : Tail(work)[i] = work[i + 1]
    BY SeqOldest
  <2>2. \A i \in 1..Len(work') : i + 1 \in 1..Len(work) /\ work'[i] = work[i + 1]
    BY <1>2, <2>1
  <2>. QED  BY <1>2, <2>1, <2>2 DEF TablesInv, TasksLive, Known
<1>. QED  BY <1>1, <1>2

MovedTyped ==
    /\ used \in [Queues -> Seq(Msgs)] /\ pending \in [Queues -> [Fds -> Seq(Msgs)]]
    /\ stream \in [Queues -> [Fds -> Seq(Msgs)]]
    /\ done_len \in [Queues -> [Msgs -> -1..MsgLen]] /\ emit_client_async \in BOOLEAN

LEMMA QueueHandleTables ==
  ASSUME TablesInv, use' = use, NEW q \in Queues, queue_handle(q)
  PROVE  TablesInv'
<1>. TablesGood /\ OthersTyped /\ QueuesTyped /\ work \in Seq(Tasks) /\ use \in Uses
  BY TablesInvParts
<1>1. /\ UNCHANGED <<tables, fatal>> /\ work # <<>>
      /\ UNCHANGED <<pico, emit_client, signalled, client, msg_fd, socket_table>>
  BY DEF queue_handle, clients, tables
<1>2. CASE available[q] = <<>>
  <2>1. work' \in {work, Tail(work)} /\ QueuesTyped' /\ OthersTyped'
    BY <1>1, <1>2 DEF queue_handle, messages, QueuesTyped, OthersTyped
  <2>. QED  BY <1>1, <2>1, TasksFewer, TablesLeft DEF Known
<1>3. CASE available[q] # <<>>
  <2>1. PICK m : m = Head(available[q])
    OBVIOUS
  <2>2. m \in Msgs /\ Tail(available[q]) \in Seq(Msgs) /\ available[q] \in Seq(Msgs)
    BY <1>3, <2>1, SeqOldest DEF QueuesTyped
  <2>3. /\ available' = [available EXCEPT ![q] = Tail(available[q])] /\ work' = work
        /\ \/ Refused(q, m) \/ Delayed(q, m)
           \/ \E ret \in Results(q, m) : Transferred(q, m, ret) \/ Retained(q, m, ret)
    BY <1>3, <2>1, QueueHandleCases
  <2>4. available' \in [Queues -> Seq(Msgs)]
    BY <2>2, <2>3 DEF QueuesTyped
  <2>5. MovedTyped'
    <3>1. CASE Refused(q, m)
      <4>1. used' \in [Queues -> Seq(Msgs)] /\ emit_client_async' \in BOOLEAN
        BY <2>2, <3>1, CompleteTyped DEF Refused
      <4>2. done_len' \in [Queues -> [Msgs -> -1..MsgLen]]
        BY <2>2, <3>1, ConstantsAssumption DEF Refused, QueuesTyped
      <4>. QED  BY <3>1, <4>1, <4>2 DEF Refused, QueuesTyped, MovedTyped
    <3>2. CASE Delayed(q, m)
      <4>1. Async(SocketOf(q, m)) /\ msg_fd[q][m] \in Fds
        BY <1>1, <2>2, <3>2, ConstantsAssumption
        DEF Delayed, Async, SocketOf, TablesGood, TablesTyped
      <4>2. Append(pending[q][msg_fd[q][m]], m) \in Seq(Msgs)
        BY <2>2, <4>1 DEF QueuesTyped
      <4>3. pending' \in [Queues -> [Fds -> Seq(Msgs)]]
        BY <3>2, <4>2, KeepTyped DEF Delayed
      <4>. QED  BY <3>2, <4>3 DEF Delayed, QueuesTyped, MovedTyped, OthersTyped
    <3>3. ASSUME NEW ret \in Results(q, m), Transferred(q, m, ret)
          PROVE  MovedTyped'
      BY <2>2, <3>3, TakenTyped, CompleteTyped DEF Transferred, QueuesTyped, MovedTyped
    <3>4. ASSUME NEW ret \in Results(q, m), Retained(q, m, ret)
          PROVE  MovedTyped'
      <4>1. <<m>> \in Seq(Msgs)
        BY <2>2
      <4>. QED  BY <2>2, <3>4, <4>1, TakenTyped, KeepTyped
                DEF Retained, QueuesTyped, MovedTyped, OthersTyped
    <3>. QED  BY <2>3, <3>1, <3>2, <3>3, <3>4
  <2>6. QueuesTyped' /\ OthersTyped'
    BY <1>1, <2>4, <2>5 DEF QueuesTyped, OthersTyped, MovedTyped
  <2>. QED  BY <1>1, <2>3, <2>6, TasksFewer, TablesLeft DEF Known
<1>. QED  BY <1>2, <1>3

LEMMA HandleSocketTables ==
  ASSUME TablesInv, use' = use, NEW q \in Queues, handle_socket(q)
  PROVE  TablesInv'
<1>. TablesGood /\ OthersTyped /\ QueuesTyped /\ work \in Seq(Tasks) /\ use \in Uses
  BY TablesInvParts
<1>1. /\ UNCHANGED <<tables, fatal>> /\ work # <<>>
      /\ UNCHANGED <<pico, emit_client, signalled, client, available, msg_fd, socket_table>>
  BY DEF handle_socket, clients, tables
<1>2. PICK s \in Sockets :
         /\ work' \in {work, Tail(work)}
         /\ \/ UNCHANGED <<used, pending, done_len, stream, emit_client_async>>
            \/ /\ s[1] = 0 /\ pending[q][s[2]] # <<>>
               /\ \E ret \in Results(q, Head(pending[q][s[2]])) :
                     \/ Resumed(q, s, Head(pending[q][s[2]]), ret)
                     \/ Restarted(q, s, Head(pending[q][s[2]]), ret)
  BY HandleSocketCases
<1>3. QueuesTyped' /\ OthersTyped'
  <2>1. CASE UNCHANGED <<used, pending, done_len, stream, emit_client_async>>
    BY <1>1, <2>1 DEF QueuesTyped, OthersTyped
  <2>2. ASSUME pending[q][s[2]] # <<>>, NEW ret \in Results(q, Head(pending[q][s[2]])),
               \/ Resumed(q, s, Head(pending[q][s[2]]), ret)
               \/ Restarted(q, s, Head(pending[q][s[2]]), ret)
        PROVE  QueuesTyped' /\ OthersTyped'
    <3>1. PICK m : m = Head(pending[q][s[2]])
      OBVIOUS
    <3>2. pending[q][s[2]] \in Seq(Msgs)
      BY SocketParts DEF QueuesTyped
    <3>3. m \in Msgs /\ Tail(pending[q][s[2]]) \in Seq(Msgs) /\ ret \in Results(q, m)
      BY <2>2, <3>1, <3>2, SeqOldest
    <3>4. CASE Resumed(q, s, m, ret)
      <4>1. /\ done_len' \in [Queues -> [Msgs -> -1..MsgLen]]
            /\ stream' \in [Queues -> [Fds -> Seq(Msgs)]]
        BY <3>3, <3>4, TakenTyped DEF Resumed
      <4>2. pending' \in [Queues -> [Fds -> Seq(Msgs)]]
        BY <3>3, <3>4, KeepTyped DEF Resumed
      <4>3. used' \in [Queues -> Seq(Msgs)] /\ emit_client_async' \in BOOLEAN
        BY <3>3, <3>4, CompleteTyped DEF Resumed
      <4>. QED  BY <1>1, <4>1, <4>2, <4>3 DEF QueuesTyped, OthersTyped
    <3>5. CASE Restarted(q, s, m, ret)
      <4>1. /\ done_len' \in [Queues -> [Msgs -> -1..MsgLen]]
            /\ stream' \in [Queues -> [Fds -> Seq(Msgs)]]
        BY <3>3, <3>5, TakenTyped DEF Restarted
      <4>. QED  BY <1>1, <3>5, <4>1 DEF Restarted, QueuesTyped, OthersTyped
    <3>. QED  BY <2>2, <3>1, <3>4, <3>5
  <2>. QED  BY <1>2, <2>1, <2>2
<1>. QED  BY <1>1, <1>2, <1>3, TasksFewer, TablesLeft DEF Known

(* What a callback for the socket s leaves to do.                               *)
CallbackTasks(s) ==
    {<<"rx", "queue">>, <<"tx", "queue">>, <<"rx", "socket", s>>, <<"tx", "socket", s>>}
    \cup {<<"event", s, ev>> : ev \in (SUBSET EventBits) \ {{}}}

LEMMA CallbackTasksTyped ==
  ASSUME NEW s \in Sockets
  PROVE  /\ CallbackTasks(s) \subseteq Tasks
         /\ \A t \in Sockets, ev \in SUBSET EventBits :
               <<"event", t, ev>> \in CallbackTasks(s) => t = s /\ ev # {}
BY DEF CallbackTasks, Tasks, Queues

LEMMA SocketCbTables ==
  ASSUME TablesInv, use' = use, NEW a \in use.addresses, NEW ev \in SUBSET use.events,
         socket_cb(a, ev)
  PROVE  TablesInv'
<1>. TablesGood /\ OthersTyped /\ QueuesTyped /\ work \in Seq(Tasks) /\ use \in Uses
  BY TablesInvParts
<1>1. /\ a \in Addresses /\ ev \in SUBSET EventBits /\ socket_addr_table[a] # NoSocket
      /\ UNCHANGED <<tables, pico, emit_client, emit_client_async, clients, messages, fatal>>
  BY UseTyped DEF socket_cb
<1>2. PICK s \in Sockets : s = socket_addr_table[a]
  BY <1>1 DEF TablesGood, TablesTyped
<1>3. Known(s[1], s[2])
  BY <1>1, <1>2 DEF TablesGood, TablesAgree, Known
<1>4. PICK W : W = CallbackTasks(s)
  OBVIOUS
<1>5. \E p1, p2, p3 \in Seq(W) : work' = p1 \o p2 \o p3
  <2>1. /\ <<>> \in Seq(W)
        /\ <<<<"rx", "queue">>, <<"rx", "socket", s>>>> \in Seq(W)
        /\ <<<<"tx", "queue">>, <<"tx", "socket", s>>>> \in Seq(W)
    BY <1>4 DEF CallbackTasks
  <2>2. Left(s, ev) # {} => <<<<"event", s, Left(s, ev)>>>> \in Seq(W)
    <3>1. Left(s, ev) \in SUBSET EventBits
      BY <1>1 DEF Left
    <3>2. Left(s, ev) # {} => <<"event", s, Left(s, ev)>> \in W
      BY <1>4, <3>1 DEF CallbackTasks
    <3>. QED  BY <3>2
  <2>3. PICK p1 : p1 = IF record[s].async /\ "RD" \in ev
                       THEN <<<<"rx", "queue">>, <<"rx", "socket", s>>>> ELSE <<>>
    OBVIOUS
  <2>4. PICK p2 : p2 = IF record[s].async /\ "WR" \in ev
                       THEN <<<<"tx", "queue">>, <<"tx", "socket", s>>>> ELSE <<>>
    OBVIOUS
  <2>5. PICK p3 : p3 = IF Left(s, ev) # {} THEN <<<<"event", s, Left(s, ev)>>>> ELSE <<>>
    OBVIOUS
  <2>6. work' = p1 \o p2 \o p3
    BY <1>2, <2>3, <2>4, <2>5, Zenon DEF socket_cb
  <2>7. p1 \in Seq(W) /\ p2 \in Seq(W) /\ p3 \in Seq(W)
    BY <2>1, <2>2, <2>3, <2>4, <2>5
  <2>. QED  BY <2>6, <2>7
<1>6. work' \in Seq(W)
  <2>1. PICK p1, p2, p3 \in Seq(W) : work' = p1 \o p2 \o p3
    BY <1>5
  <2>2. p1 \o p2 \in Seq(W)
    BY ConcatProperties
  <2>3. (p1 \o p2) \o p3 \in Seq(W)
    BY <2>2, ConcatProperties
  <2>. QED  BY <2>1, <2>3
<1>7. \A i \in 1..Len(work') : work'[i] \in W
  BY <1>6
<1>8. work' \in Seq(Tasks)
  BY <1>4, <1>6, CallbackTasksTyped, SeqMonotonic
<1>9. OthersTyped' /\ QueuesTyped'
  BY <1>1 DEF OthersTyped, QueuesTyped, clients, messages
<1>10. \A i \in 1..Len(work') : \A t \in Sockets, e \in SUBSET EventBits :
          work'[i] = <<"event", t, e>> => Known(t[1], t[2]) /\ e # {}
  <2>. SUFFICES ASSUME NEW i \in 1..Len(work'), NEW t \in Sockets,
                       NEW e \in SUBSET EventBits, work'[i] = <<"event", t, e>>
                PROVE  Known(t[1], t[2]) /\ e # {}
    OBVIOUS
  <2>1. <<"event", t, e>> \in CallbackTasks(s)
    BY <1>4, <1>7
  <2>2. t = s /\ e # {}
    BY <2>1, CallbackTasksTyped
  <2>. QED  BY <2>2, <1>3
<1>. QED  BY <1>1, <1>8, <1>9, <1>10, TablesLeft

(* client_put_event: the socket of the event is still in the tables.            *)
LEMMA PutEventTables ==
  ASSUME TablesInv, use' = use, put_event
  PROVE  TablesInv'
<1>. TablesGood /\ OthersTyped /\ QueuesTyped /\ work \in Seq(Tasks) /\ use \in Uses
  BY TablesInvParts
<1>1. /\ work # <<>> /\ work' = Tail(work)
      /\ UNCHANGED <<socket_table, bump_index, socket_addr_table, pico, emit_client_async,
                     clients, messages>>
      /\ Head(work) \in Tasks /\ Head(work)[1] = "event" /\ Head(work) = work[1]
      /\ 1 \in 1..Len(work)
  BY SeqOldest DEF put_event
<1>2. PICK s \in Sockets, ev \in SUBSET EventBits : Head(work) = <<"event", s, ev>>
  BY <1>1 DEF Tasks, Queues
<1>3. Known(s[1], s[2]) /\ ev # {} /\ s[1] \in Clients /\ s[2] \in Fds /\ s = <<s[1], s[2]>>
  BY <1>1, <1>2, SocketParts DEF TablesInv, TasksLive
<1>4. /\ fatal' = FALSE /\ emit_client' = TRUE
      /\ record' = [record EXCEPT ![s].events = @ \cup ev]
      /\ socket_event_set' = [socket_event_set EXCEPT ![s[1]] = @ \cup {s[2]}]
  <2>1. Head(work)[2] = s /\ Head(work)[3] = ev
    BY <1>2
  <2>. QED  BY <2>1, <1>3 DEF put_event
<1>5. PICK r : r = record[s]
  OBVIOUS
<1>6. r \in Records /\ r # Freed
  BY <1>3, <1>5 DEF TablesGood, TablesTyped, TablesAgree, Known
<1>7. PICK new : new = [r EXCEPT !.events = r.events \cup ev]
  OBVIOUS
<1>8. new \in Records /\ new # Freed /\ new.socket = r.socket /\ new.events # {}
  BY <1>3, <1>6, <1>7 DEF Records, Freed
<1>9. record' = [record EXCEPT ![s] = new]
  BY <1>4, <1>5, <1>7 DEF TablesGood, TablesTyped
<1>10. /\ record' \in [Sockets -> Records] /\ record'[s] = new
       /\ \A x \in Clients, f \in Fds : <<x, f>> # s => record'[<<x, f>>] = record[<<x, f>>]
  BY <1>8, <1>9 DEF TablesGood, TablesTyped, Sockets
<1>11. \A x \in Clients : \A f \in socket_table[x] :
          /\ f \in Fds /\ record'[<<x, f>>] # Freed
          /\ record'[<<x, f>>].socket = record[<<x, f>>].socket
  <2>. SUFFICES ASSUME NEW x \in Clients, NEW f \in socket_table[x]
                PROVE  /\ f \in Fds /\ record'[<<x, f>>] # Freed
                       /\ record'[<<x, f>>].socket = record[<<x, f>>].socket
    OBVIOUS
  <2>1. f \in Fds /\ record[<<x, f>>] # Freed
    BY DEF TablesGood, TablesTyped, TablesAgree
  <2>2. CASE <<x, f>> = s
    BY <2>1, <2>2, <1>5, <1>8, <1>10
  <2>3. CASE <<x, f>> # s
    BY <2>1, <2>3, <1>10
  <2>. QED  BY <2>1, <2>2, <2>3
<1>12. /\ socket_event_set' \in [Clients -> SUBSET Fds]
       /\ \A x \in Clients, f \in Fds :
             f \in socket_event_set'[x] <=> f \in socket_event_set[x] \/ <<x, f>> = s
  <2>1. PICK c \in Clients, fd \in Fds : s = <<c, fd>> /\ s[1] = c /\ s[2] = fd
    BY <1>3
  <2>2. socket_event_set' = [socket_event_set EXCEPT ![c] = @ \cup {fd}]
    BY <1>4, <2>1
  <2>. QED  BY <2>1, <2>2 DEF TablesGood, TablesTyped
<1>13. ASSUME NEW x \in Clients, NEW f \in Fds
       PROVE  f \in socket_event_set'[x] <=>
                 f \in socket_table[x] /\ record'[<<x, f>>].events # {}
  <2>1. CASE <<x, f>> = s
    BY <1>3, <1>8, <1>10, <1>12, <2>1 DEF Known
  <2>2. CASE <<x, f>> # s
    BY <1>10, <1>12, <2>2, EventSets
  <2>. QED  BY <2>1, <2>2
<1>14. TablesGood'
  BY <1>1, <1>4, <1>10, <1>11, <1>12, <1>13, RecordsGood
<1>15. OthersTyped' /\ QueuesTyped'
  BY <1>1, <1>4 DEF OthersTyped, QueuesTyped, clients, messages
<1>16. work' \in Seq(Tasks) /\ TasksLive'
  BY <1>1, TasksFewer DEF TasksLive, Known
<1>. QED  BY <1>14, <1>15, <1>16 DEF TablesInv, Typed, TablesGood

(* The other handlers, the clients and the stack leave the tables alone.        *)
LEMMA NotifyTables ==
  ASSUME TablesInv, use' = use, notify_client
  PROVE  TablesInv'
<1>. TablesGood /\ OthersTyped /\ QueuesTyped /\ work \in Seq(Tasks) /\ use \in Uses
  BY TablesInvParts
<1>1. /\ UNCHANGED <<tables, pico, work, client, messages, fatal>>
      /\ signalled' \in [Clients -> BOOLEAN]
      /\ emit_client' = FALSE /\ emit_client_async' = FALSE /\ Len(work) = 0
  BY DEF notify_client, OthersTyped, Idle
<1>2. OthersTyped' /\ QueuesTyped'
  BY <1>1 DEF OthersTyped, QueuesTyped, messages
<1>. QED  BY <1>1, <1>2, TablesLeft

LEMMA QueueIrqTables ==
  ASSUME TablesInv, use' = use, tx_queue_handle_irq
  PROVE  TablesInv'
<1>. TablesGood /\ OthersTyped /\ QueuesTyped /\ work \in Seq(Tasks) /\ use \in Uses
  BY TablesInvParts
<1>1. UNCHANGED <<tables, pico, emit_client, emit_client_async, clients, messages, fatal>>
  BY DEF tx_queue_handle_irq
<1>2. OthersTyped' /\ QueuesTyped'
  BY <1>1 DEF OthersTyped, QueuesTyped, messages, clients
<1>3. work' = <<<<"rx", "queue">>, <<"tx", "queue">>>>
  BY DEF tx_queue_handle_irq
<1>4. <<"rx", "queue">> \in Tasks /\ <<"tx", "queue">> \in Tasks
  BY DEF Tasks, Queues
<1>5. work' \in Seq(Tasks) /\ \A i \in 1..Len(work') : work'[i][1] # "event"
  BY <1>3, <1>4
<1>. QED  BY <1>1, <1>2, <1>5, TablesLeft

LEMMA WakeTables ==
  ASSUME TablesInv, use' = use, NEW c \in use.clients, Wake(c)
  PROVE  TablesInv'
<1>. TablesGood /\ OthersTyped /\ QueuesTyped /\ work \in Seq(Tasks) /\ use \in Uses
  BY TablesInvParts
<1>1. /\ UNCHANGED <<tables, pico, work, emit_client, emit_client_async, messages, fatal>>
      /\ signalled' \in [Clients -> BOOLEAN] /\ client' \in [Clients -> {"waiting", "polling"}]
  BY DEF Wake, OthersTyped
<1>2. OthersTyped' /\ QueuesTyped'
  BY <1>1 DEF OthersTyped, QueuesTyped, messages
<1>. QED  BY <1>1, <1>2, TablesLeft DEF TablesInv, TasksLive

(* The messages sent so far are finitely many.                                  *)
LEMMA SentFinite ==
  /\ Sent("tx") \cup Sent("rx") \subseteq Msgs /\ IsFiniteSet(Sent("tx") \cup Sent("rx"))
  /\ Cardinality(Sent("tx") \cup Sent("rx")) \in Nat
<1>1. Sent("tx") \cup Sent("rx") \subseteq Msgs
  BY DEF Sent
<1>2. IsFiniteSet(Msgs)
  BY ConstantsAssumption, FS_Interval DEF Msgs
<1>. QED  BY <1>1, <1>2, FS_Subset, FS_CardinalityType

LEMMA SubmitTables ==
  ASSUME TablesInv, use' = use, NEW q \in Queues, NEW fd \in Fds, Submit(q, fd)
  PROVE  TablesInv'
<1>. TablesGood /\ OthersTyped /\ QueuesTyped /\ work \in Seq(Tasks) /\ use \in Uses
  BY TablesInvParts
<1>1. PICK m : m = Cardinality(Sent("tx") \cup Sent("rx")) + 1
  OBVIOUS
<1>2. /\ m <= use.msgs
      /\ msg_fd' = [msg_fd EXCEPT ![q][m] = fd]
      /\ available' = [available EXCEPT ![q] = Append(@, m)]
      /\ UNCHANGED <<tables, pico, work, emit_client, emit_client_async, clients, used,
                     pending, done_len, stream, fatal>>
  BY <1>1 DEF Submit
<1>3. m \in Msgs
  BY <1>1, <1>2, SentFinite, UseTyped, ConstantsAssumption DEF Msgs
<1>4. OthersTyped' /\ QueuesTyped'
  BY <1>2, <1>3 DEF OthersTyped, QueuesTyped, clients
<1>. QED  BY <1>2, <1>4, TablesLeft DEF TablesInv, TasksLive

LEMMA StackTables ==
  ASSUME TablesInv, use' = use, NEW a \in use.addresses, Stack(a)
  PROVE  TablesInv'
<1>. TablesGood /\ OthersTyped /\ QueuesTyped /\ work \in Seq(Tasks) /\ use \in Uses
  BY TablesInvParts
<1>1. /\ UNCHANGED <<tables, work, emit_client, emit_client_async, clients, messages, fatal>>
      /\ pico' \in [Addresses -> {"free", "open", "listening", "incoming", "closing"}]
  BY UseTyped DEF Stack, OthersTyped
<1>2. OthersTyped' /\ QueuesTyped'
  BY <1>1 DEF OthersTyped, QueuesTyped, clients, messages
<1>. QED  BY <1>1, <1>2, TablesLeft DEF TablesInv, TasksLive

(* Nothing is in the tables at first.                                           *)
LEMMA TablesInit ==
  ASSUME Init
  PROVE  TablesInv
<1>1. TablesTyped /\ OthersTyped
  <2>1. 1 \in 1..(MaxFd + 2) /\ Freed \in Records
    BY ConstantsAssumption DEF Records
  <2>2. TablesTyped
    BY <2>1 DEF Init, TablesTyped
  <2>3. OthersTyped
    BY DEF Init, OthersTyped
  <2>. QED  BY <2>2, <2>3
<1>2. QueuesTyped /\ work \in Seq(Tasks) /\ Len(work) = 0
  <2>1. <<>> \in Seq(Msgs) /\ <<>> \in Seq(Tasks) /\ Len(<<>>) = 0
    OBVIOUS
  <2>. QED  BY <2>1, ConstantsAssumption DEF Init, QueuesTyped
<1>3. TablesAgree /\ AssertionsHold /\ FdsFresh
  BY UseTyped, ConstantsAssumption DEF Init, TablesAgree, AssertionsHold, FdsFresh
<1>4. TasksLive
  BY <1>2 DEF TasksLive
<1>. QED  BY <1>1, <1>2, <1>3, <1>4 DEF TablesInv, Typed

LEMMA TablesStep ==
  ASSUME TablesInv, AddressesKept(use), [Next]_<<vars, use>>
  PROVE  TablesInv'
<1>1. CASE UNCHANGED <<vars, use>>
  <2>1. /\ UNCHANGED <<socket_table, socket_event_set, bump_index, socket_addr_table, record>>
        /\ UNCHANGED <<pico, work, emit_client, emit_client_async, signalled, client>>
        /\ UNCHANGED <<available, used, pending, msg_fd, done_len, stream, fatal, use>>
    BY <1>1 DEF vars, tables, clients, messages
  <2>2. Typed'
    BY <2>1 DEF TablesInv, Typed, TablesTyped, OthersTyped, QueuesTyped
  <2>3. TablesAgree' /\ AssertionsHold' /\ FdsFresh'
    BY <2>1 DEF TablesInv, TablesAgree, AssertionsHold, FdsFresh
  <2>4. TasksLive'
    BY <2>1 DEF TablesInv, TasksLive, Known
  <2>. QED  BY <2>2, <2>3, <2>4 DEF TablesInv
<1>2. CASE Next
  <2>. use' = use
    BY <1>2 DEF Next
  <2>1. ASSUME NEW c \in use.clients, Calls(c)
        PROVE  TablesInv'
    BY <2>1, OpenTables, AcceptTables, ListenTables, CloseTables, SetAsyncTables,
       EventPollTables DEF Calls
  <2>2. ASSUME NEW c \in use.clients, Wake(c)
        PROVE  TablesInv'
    BY <2>2, WakeTables
  <2>3. CASE Handlers
    BY <2>3, QueueHandleTables, HandleSocketTables, PutEventTables, SocketCbTables,
       NotifyTables, QueueIrqTables DEF Handlers
  <2>4. ASSUME NEW q \in Queues, NEW fd \in Fds, Submit(q, fd)
        PROVE  TablesInv'
    BY <2>4, SubmitTables
  <2>5. ASSUME NEW a \in use.addresses, Stack(a)
        PROVE  TablesInv'
    BY <2>5, StackTables
  <2>. QED  BY <1>2, <2>1, <2>2, <2>3, <2>4, <2>5 DEF Next
<1>. QED  BY <1>1, <1>2

-------------------------------------------------------------------------------
(* Sequences of messages.                                                       *)

LEMMA SeqBehind ==
  ASSUME NEW S, NEW s \in Seq(S), NEW t \in Seq(S)
  PROVE  /\ s \o t \in Seq(S) /\ Len(s \o t) = Len(s) + Len(t)
         /\ \A i \in 1..Len(s) : (s \o t)[i] = s[i]
         /\ \A i \in 1..Len(t) : (s \o t)[Len(s) + i] = t[i]
OBVIOUS

LEMMA ContainsAppend ==
  ASSUME NEW s \in Seq(Msgs), NEW m \in Msgs
  PROVE  /\ Append(s, m) \in Seq(Msgs)
         /\ \A x : Contains(Append(s, m), x) <=> Contains(s, x) \/ x = m
<1>1. /\ Append(s, m) \in Seq(Msgs) /\ Len(s) \in Nat /\ Len(Append(s, m)) = Len(s) + 1
      /\ \A i \in 1..Len(s) : Append(s, m)[i] = s[i]
      /\ Append(s, m)[Len(s) + 1] = m
  BY AppendProperties
<1>2. PICK t : t = Append(s, m)
  OBVIOUS
<1>3. /\ Len(s) \in Nat /\ Len(t) = Len(s) + 1 /\ t[Len(s) + 1] = m
      /\ \A i \in 1..Len(s) : t[i] = s[i]
  BY <1>1, <1>2
<1>4. \A x : Contains(t, x) <=> Contains(s, x) \/ x = m
  <2>1. ASSUME NEW x, Contains(t, x)
        PROVE  Contains(s, x) \/ x = m
    <3>1. PICK i \in 1..Len(t) : t[i] = x
      BY <2>1 DEF Contains
    <3>2. i \in 1..Len(s) \/ i = Len(s) + 1
      BY <1>3
    <3>. QED  BY <1>3, <3>1, <3>2 DEF Contains
  <2>2. ASSUME NEW x, Contains(s, x)
        PROVE  Contains(t, x)
    <3>1. PICK i \in 1..Len(s) : s[i] = x
      BY <2>2 DEF Contains
    <3>2. i \in 1..Len(t) /\ t[i] = x
      BY <1>3, <3>1
    <3>. QED  BY <3>2 DEF Contains
  <2>3. Contains(t, m)
    <3>1. Len(s) + 1 \in 1..Len(t)
      BY <1>3
    <3>. QED  BY <1>3, <3>1 DEF Contains
  <2>. QED  BY <2>1, <2>2, <2>3
<1>. QED  BY <1>1, <1>2, <1>4

LEMMA ContainsConcat ==
  ASSUME NEW s \in Seq(Msgs), NEW t \in Seq(Msgs)
  PROVE  /\ s \o t \in Seq(Msgs)
         /\ \A x : Contains(s \o t, x) <=> Contains(s, x) \/ Contains(t, x)
<1>1. PICK u : u = s \o t
  OBVIOUS
<1>2. /\ u \in Seq(Msgs) /\ Len(s) \in Nat /\ Len(t) \in Nat /\ Len(u) = Len(s) + Len(t)
      /\ \A i \in 1..Len(s) : u[i] = s[i]
      /\ \A i \in 1..Len(t) : u[Len(s) + i] = t[i]
  BY <1>1, ConcatProperties
<1>3. \A x : Contains(u, x) <=> Contains(s, x) \/ Contains(t, x)
  <2>1. ASSUME NEW x, Contains(u, x)
        PROVE  Contains(s, x) \/ Contains(t, x)
    <3>1. PICK i \in 1..Len(u) : u[i] = x
      BY <2>1 DEF Contains
    <3>2. CASE i <= Len(s)
      <4>1. i \in 1..Len(s)
        BY <1>2, <3>2
      <4>. QED  BY <1>2, <3>1, <4>1 DEF Contains
    <3>3. CASE i > Len(s)
      <4>1. i - Len(s) \in 1..Len(t) /\ Len(s) + (i - Len(s)) = i
        BY <1>2, <3>3
      <4>2. u[Len(s) + (i - Len(s))] = t[i - Len(s)]
        BY <1>2, <4>1
      <4>. QED  BY <3>1, <4>1, <4>2 DEF Contains
    <3>. QED  BY <1>2, <3>2, <3>3
  <2>2. ASSUME NEW x, Contains(s, x)
        PROVE  Contains(u, x)
    <3>1. PICK i \in 1..Len(s) : s[i] = x
      BY <2>2 DEF Contains
    <3>2. i \in 1..Len(u) /\ u[i] = x
      BY <1>2, <3>1
    <3>. QED  BY <3>2 DEF Contains
  <2>3. ASSUME NEW x, Contains(t, x)
        PROVE  Contains(u, x)
    <3>1. PICK i \in 1..Len(t) : t[i] = x
      BY <2>3 DEF Contains
    <3>2. Len(s) + i \in 1..Len(u) /\ u[Len(s) + i] = x
      BY <1>2, <3>1
    <3>. QED  BY <3>2 DEF Contains
  <2>. QED  BY <2>1, <2>2, <2>3
<1>. QED  BY <1>1, <1>2, <1>3

(* Taking the oldest message of a queue.                                        *)
LEMMA IncreasingTail ==
  ASSUME NEW s \in Seq(Msgs), s # <<>>, Increasing(s), NEW m, m = Head(s)
  PROVE  /\ m \in Msgs /\ Contains(s, m)
         /\ Tail(s) \in Seq(Msgs) /\ Increasing(Tail(s))
         /\ \A x \in Msgs : /\ Contains(Tail(s), x) <=> Contains(s, x) /\ x # m
                            /\ Contains(Tail(s), x) => m < x
                            /\ Contains(s, x) => m <= x
<1>1. PICK t : t = Tail(s)
  OBVIOUS
<1>2. /\ Len(s) \in Nat /\ Len(s) >= 1 /\ m = s[1] /\ m \in Msgs
      /\ t \in Seq(Msgs) /\ Len(t) = Len(s) - 1
      /\ \A i \in 1..Len(s) - 1 : t[i] = s[i + 1]
  BY <1>1, SeqOldest
<1>3. Contains(s, m)
  BY <1>2 DEF Contains
<1>4. Increasing(t)
  <2>. SUFFICES ASSUME NEW i \in 1..Len(t), NEW j \in 1..Len(t), i < j
                PROVE  t[i] < t[j]
    BY DEF Increasing
  <2>1. i + 1 \in 1..Len(s) /\ j + 1 \in 1..Len(s) /\ i + 1 < j + 1
    BY <1>2
  <2>2. s[i + 1] < s[j + 1]
    BY <2>1 DEF Increasing
  <2>. QED  BY <1>2, <2>2
<1>5. ASSUME NEW x \in Msgs
      PROVE  /\ Contains(t, x) <=> Contains(s, x) /\ x # m
             /\ Contains(t, x) => m < x
             /\ Contains(s, x) => m <= x
  <2>0. x \in Nat /\ m \in Nat
    BY <1>2 DEF Msgs
  <2>1. ASSUME Contains(t, x)
        PROVE  Contains(s, x) /\ m < x
    <3>1. PICK i \in 1..Len(t) : t[i] = x
      BY <2>1 DEF Contains
    <3>2. i + 1 \in 1..Len(s) /\ 1 \in 1..Len(s) /\ 1 < i + 1 /\ s[i + 1] = x
      BY <1>2, <3>1
    <3>3. s[1] < s[i + 1]
      BY <3>2 DEF Increasing
    <3>. QED  BY <1>2, <3>2, <3>3 DEF Contains
  <2>2. ASSUME Contains(s, x), x # m
        PROVE  Contains(t, x)
    <3>1. PICK i \in 1..Len(s) : s[i] = x
      BY <2>2 DEF Contains
    <3>2. i # 1
      BY <1>2, <2>2, <3>1
    <3>3. i - 1 \in 1..Len(t) /\ (i - 1) + 1 = i
      BY <1>2, <3>2
    <3>4. t[i - 1] = x
      BY <1>2, <3>1, <3>3
    <3>. QED  BY <3>3, <3>4 DEF Contains
  <2>. QED  BY <2>0, <2>1, <2>2
<1>. QED  BY <1>1, <1>2, <1>3, <1>4, <1>5

(* A message behind all of a queue.                                             *)
LEMMA IncreasingAppend ==
  ASSUME NEW s \in Seq(Msgs), Increasing(s), NEW m \in Msgs,
         \A x \in Msgs : Contains(s, x) => x < m
  PROVE  Increasing(Append(s, m))
<1>1. PICK t : t = Append(s, m)
  OBVIOUS
<1>2. /\ Len(s) \in Nat /\ Len(t) = Len(s) + 1 /\ t[Len(s) + 1] = m
      /\ \A i \in 1..Len(s) : t[i] = s[i] /\ s[i] \in Msgs
  BY <1>1, AppendProperties
<1>3. ASSUME NEW i \in 1..Len(t), NEW j \in 1..Len(t), i < j
      PROVE  t[i] < t[j]
  <2>1. i \in 1..Len(s) /\ (j \in 1..Len(s) \/ j = Len(s) + 1)
    BY <1>2, <1>3
  <2>2. CASE j \in 1..Len(s)
    BY <1>2, <1>3, <2>1, <2>2 DEF Increasing
  <2>3. CASE j = Len(s) + 1
    <3>1. Contains(s, s[i])
      BY <2>1 DEF Contains
    <3>. QED  BY <1>2, <2>1, <2>3, <3>1
  <2>. QED  BY <2>1, <2>2, <2>3
<1>. QED  BY <1>1, <1>3 DEF Increasing

(* Messages given back behind those that were given back before.                *)
LEMMA OnceConcat ==
  ASSUME NEW s \in Seq(Msgs), Once(s), NEW t \in Seq(Msgs), Increasing(t),
         \A x \in Msgs : ~(Contains(s, x) /\ Contains(t, x))
  PROVE  Once(s \o t)
<1>1. PICK u : u = s \o t
  OBVIOUS
<1>2. /\ u \in Seq(Msgs) /\ Len(s) \in Nat /\ Len(t) \in Nat /\ Len(u) = Len(s) + Len(t)
      /\ \A i \in 1..Len(s) : u[i] = s[i] /\ s[i] \in Msgs
      /\ \A i \in 1..Len(t) : u[Len(s) + i] = t[i] /\ t[i] \in Msgs
  BY <1>1, ConcatProperties
<1>3. ASSUME NEW i \in 1..Len(t), NEW j \in 1..Len(t), t[i] = t[j]
      PROVE  i = j
  <2>1. t[i] \in Nat /\ ~(t[i] < t[i])
    BY <1>2 DEF Msgs
  <2>2. ~(i < j) /\ ~(j < i)
    BY <1>3, <2>1 DEF Increasing
  <2>. QED  BY <2>2
<1>4. ASSUME NEW i \in 1..Len(u), NEW j \in 1..Len(u), u[i] = u[j]
      PROVE  i = j
  <2>1. ASSUME NEW k \in 1..Len(u), k > Len(s)
        PROVE  k - Len(s) \in 1..Len(t) /\ u[k] = t[k - Len(s)]
    <3>1. k - Len(s) \in 1..Len(t) /\ Len(s) + (k - Len(s)) = k
      BY <1>2, <2>1
    <3>2. u[Len(s) + (k - Len(s))] = t[k - Len(s)]
      BY <1>2, <3>1
    <3>. QED  BY <3>1, <3>2
  <2>2. ASSUME NEW k \in 1..Len(u), k <= Len(s)
        PROVE  k \in 1..Len(s) /\ u[k] = s[k]
    BY <1>2, <2>2
  <2>3. CASE i <= Len(s) /\ j <= Len(s)
    BY <1>4, <2>2, <2>3 DEF Once
  <2>4. CASE i > Len(s) /\ j > Len(s)
    <3>1. i - Len(s) = j - Len(s)
      BY <1>3, <1>4, <2>1, <2>4
    <3>. QED  BY <1>2, <3>1
  <2>5. CASE i <= Len(s) /\ j > Len(s)
    <3>1. u[i] \in Msgs /\ Contains(s, u[i]) /\ Contains(t, u[i])
      BY <1>2, <1>4, <2>1, <2>2, <2>5 DEF Contains
    <3>. QED  BY <3>1
  <2>6. CASE i > Len(s) /\ j <= Len(s)
    <3>1. u[i] \in Msgs /\ Contains(s, u[i]) /\ Contains(t, u[i])
      BY <1>2, <1>4, <2>1, <2>2, <2>6 DEF Contains
    <3>. QED  BY <3>1
  <2>. QED  BY <1>2, <2>3, <2>4, <2>5, <2>6
<1>. QED  BY <1>1, <1>4 DEF Once

LEMMA OnceAppend ==
  ASSUME NEW s \in Seq(Msgs), Once(s), NEW m \in Msgs, ~Contains(s, m)
  PROVE  Once(Append(s, m))
<1>1. PICK t : t = <<m>>
  OBVIOUS
<1>2. t \in Seq(Msgs) /\ Len(t) = 1 /\ t[1] = m
  BY <1>1
<1>3. Increasing(t) /\ \A x : Contains(t, x) => x = m
  BY <1>2 DEF Increasing, Contains
<1>4. Once(s \o t)
  BY <1>2, <1>3, OnceConcat
<1>5. Append(s, m) = s \o t
  BY <1>1, AppendIsConcat
<1>. QED  BY <1>4, <1>5

(* How often a message was taken from.                                          *)
LEMMA PartsType ==
  ASSUME NEW s \in Seq(Msgs), NEW m
  PROVE  /\ Parts(s, m) \in Nat /\ IsFiniteSet({i \in 1..Len(s) : s[i] = m})
         /\ ~Contains(s, m) => Parts(s, m) = 0
<1>1. IsFiniteSet(1..Len(s))
  BY FS_Interval
<1>2. IsFiniteSet({i \in 1..Len(s) : s[i] = m})
  BY <1>1, FS_Subset
<1>3. ~Contains(s, m) => {i \in 1..Len(s) : s[i] = m} = {}
  BY DEF Contains
<1>. QED  BY <1>2, <1>3, FS_CardinalityType, FS_EmptySet DEF Parts

(* So many more parts of a message that none is ahead of.                       *)
LEMMA PartsTaken ==
  ASSUME NEW s \in Seq(Msgs), NEW m \in Msgs, NEW k \in Nat, NEW p \in Seq(Msgs),
         Len(p) = k, \A i \in 1..k : p[i] = m
  PROVE  /\ Parts(s \o p, m) = Parts(s, m) + k
         /\ \A x \in Msgs : x # m => Parts(s \o p, x) = Parts(s, x)
         /\ \A x \in Msgs : Contains(s \o p, x) => Contains(s, x) \/ x = m
         /\ (Ordered(s) /\ \A x \in Msgs : Contains(s, x) => x <= m) => Ordered(s \o p)
<1>1. PICK u : u = s \o p
  OBVIOUS
<1>2. PICK l : l = Len(s)
  OBVIOUS
<1>3. /\ u \in Seq(Msgs) /\ l \in Nat /\ Len(u) = l + k
      /\ \A i \in 1..l : u[i] = s[i] /\ s[i] \in Msgs
  <2>1. /\ s \o p \in Seq(Msgs) /\ Len(s \o p) = Len(s) + Len(p)
        /\ \A i \in 1..Len(s) : (s \o p)[i] = s[i]
    BY SeqBehind
  <2>2. Len(s) \in Nat /\ \A i \in 1..Len(s) : s[i] \in Msgs
    OBVIOUS
  <2>. QED  BY <1>1, <1>2, <2>1, <2>2
<1>4. \A i \in (l + 1)..(l + k) : u[i] = m
  <2>. SUFFICES ASSUME NEW i \in (l + 1)..(l + k) PROVE u[i] = m
    OBVIOUS
  <2>1. i - l \in 1..k /\ l + (i - l) = i
    BY <1>3
  <2>2. u[l + (i - l)] = p[i - l]
    BY <1>1, <1>2, <2>1, SeqBehind
  <2>. QED  BY <2>1, <2>2
<1>5. \A i \in 1..Len(u) : i \in 1..l \/ i \in (l + 1)..(l + k)
  BY <1>3
<1>6. \A i \in 1..l : i \in 1..Len(u)
  BY <1>3
<1>7. Parts(u, m) = Parts(s, m) + k
  <2>1. PICK A : A = {i \in 1..l : s[i] = m}
    OBVIOUS
  <2>2. PICK B : B = (l + 1)..(l + k)
    OBVIOUS
  <2>3. {i \in 1..Len(u) : u[i] = m} = A \cup B
    BY <1>3, <1>4, <1>5, <1>6, <2>1, <2>2
  <2>4. A \cap B = {} /\ IsFiniteSet(A) /\ Cardinality(A) = Parts(s, m)
    <3>1. A \cap B = {}
      BY <1>3, <2>1, <2>2
    <3>. QED  BY <1>2, <2>1, <3>1, PartsType DEF Parts
  <2>5. IsFiniteSet(B) /\ Cardinality(B) = k
    BY <1>3, <2>2, FS_Interval
  <2>6. Cardinality(A \cup B) = Cardinality(A) + Cardinality(B)
    <3>1. Cardinality(A \cap B) = 0
      BY <2>4, FS_EmptySet
    <3>2. Cardinality(A \cup B) = Cardinality(A) + Cardinality(B) - Cardinality(A \cap B)
      BY <2>4, <2>5, FS_Union
    <3>3. Cardinality(A) \in Nat
      BY <2>4, FS_CardinalityType
    <3>. QED  BY <2>5, <3>1, <3>2, <3>3
  <2>. QED  BY <2>3, <2>4, <2>5, <2>6 DEF Parts
<1>8. ASSUME NEW x \in Msgs, x # m
      PROVE  Parts(u, x) = Parts(s, x)
  <2>1. {i \in 1..Len(u) : u[i] = x} = {i \in 1..Len(s) : s[i] = x}
    BY <1>2, <1>3, <1>4, <1>5, <1>6, <1>8
  <2>. QED  BY <2>1 DEF Parts
<1>9. ASSUME NEW x \in Msgs, Contains(u, x)
      PROVE  Contains(s, x) \/ x = m
  BY <1>2, <1>3, <1>4, <1>5, <1>9 DEF Contains
<1>10. ASSUME Ordered(s), \A x \in Msgs : Contains(s, x) => x <= m
       PROVE  Ordered(u)
  <2>. SUFFICES ASSUME NEW i \in 1..Len(u), NEW j \in 1..Len(u), i <= j
                PROVE  u[i] <= u[j]
    BY DEF Ordered
  <2>1. CASE i \in 1..l /\ j \in 1..l
    BY <1>2, <1>3, <1>10, <2>1 DEF Ordered
  <2>2. CASE i \in 1..l /\ j \in (l + 1)..(l + k)
    <3>1. Contains(s, s[i]) /\ s[i] \in Msgs
      BY <1>2, <1>3, <2>2 DEF Contains
    <3>. QED  BY <1>3, <1>4, <1>10, <2>2, <3>1
  <2>3. CASE i \in (l + 1)..(l + k) /\ j \in (l + 1)..(l + k)
    BY <1>4, <2>3 DEF Msgs
  <2>4. ~(i \in (l + 1)..(l + k) /\ j \in 1..l)
    BY <1>3
  <2>. QED  BY <1>5, <2>1, <2>2, <2>3, <2>4
<1>. QED  BY <1>1, <1>7, <1>8, <1>9, <1>10

(* What the stack takes of a message that it has taken no later one before.     *)
LEMMA TakenFacts ==
  ASSUME QueuesTyped, NEW q \in Queues, NEW m \in Msgs, NEW f \in Fds, f = msg_fd[q][m],
         NEW ret \in Results(q, m), Taken(q, m, ret), Ordered(stream[q][f]),
         \A x \in Msgs : Contains(stream[q][f], x) => x <= m
  PROVE  /\ \A r \in Queues : r # q => stream'[r] = stream[r] /\ done_len'[r] = done_len[r]
         /\ \A fd \in Fds : fd # f => stream'[q][fd] = stream[q][fd]
         /\ Ordered(stream'[q][f])
         /\ \A x \in Msgs : Contains(stream'[q][f], x) => Contains(stream[q][f], x) \/ x = m
         /\ \A x \in Msgs : x # m => /\ Parts(stream'[q][f], x) = Parts(stream[q][f], x)
                                     /\ done_len'[q][x] = done_len[q][x]
         /\ ret = -1 => done_len'[q][m] = -1
         /\ ret # -1 => /\ done_len'[q][m] = done_len[q][m] + ret
                        /\ Parts(stream'[q][f], m) = Parts(stream[q][f], m) + ret
<1>1. /\ MsgLen \in Nat /\ done_len[q][m] \in -1..MsgLen /\ ret \in Int /\ ret >= -1
  BY ConstantsAssumption DEF QueuesTyped, Results
<1>2. PICK p : p = [i \in 1..ret |-> m]
  OBVIOUS
<1>3. PICK k : k = IF ret = -1 THEN 0 ELSE ret
  OBVIOUS
<1>4. k \in Nat /\ p \in Seq(Msgs) /\ Len(p) = k /\ \A i \in 1..k : p[i] = m
  <2>1. p \in Seq(Msgs) /\ Len(p) = IF ret = -1 THEN 0 ELSE ret
    BY <1>1, <1>2, Copies
  <2>2. k \in Nat
    BY <1>1, <1>3
  <2>3. \A i \in 1..k : i \in 1..ret
    BY <1>1, <1>3
  <2>. QED  BY <1>2, <1>3, <2>1, <2>2, <2>3
<1>5. stream' = [stream EXCEPT ![q][f] = @ \o p]
  BY <1>2 DEF Taken
<1>6. stream[q][f] \in Seq(Msgs) /\ stream'[q][f] = stream[q][f] \o p
  BY <1>5 DEF QueuesTyped
<1>7. /\ \A r \in Queues : r # q => stream'[r] = stream[r]
      /\ \A fd \in Fds : fd # f => stream'[q][fd] = stream[q][fd]
  BY <1>5 DEF QueuesTyped
<1>8. PICK d : d = IF ret = -1 THEN -1 ELSE done_len[q][m] + ret
  OBVIOUS
<1>9. done_len' = [done_len EXCEPT ![q][m] = d]
  BY <1>8 DEF Taken
<1>10. /\ \A r \in Queues : r # q => done_len'[r] = done_len[r]
       /\ done_len'[q][m] = d
       /\ \A x \in Msgs : x # m => done_len'[q][x] = done_len[q][x]
  BY <1>9 DEF QueuesTyped
<1>11. PICK s : s = stream[q][f]
  OBVIOUS
<1>12. /\ Parts(s \o p, m) = Parts(s, m) + k
       /\ \A x \in Msgs : x # m => Parts(s \o p, x) = Parts(s, x)
       /\ \A x \in Msgs : Contains(s \o p, x) => Contains(s, x) \/ x = m
       /\ Ordered(s \o p)
  BY <1>4, <1>6, <1>11, PartsTaken
<1>. QED  BY <1>3, <1>6, <1>7, <1>8, <1>10, <1>11, <1>12

-------------------------------------------------------------------------------
(* A message moves.                                                             *)

QueueGood(q) == Placed(q) /\ Queued(q) /\ Counted(q)

(* A queue nobody touches, as long as its waiting sockets stay asynchronous and *)
(* nobody learns that a datagram was none.                                      *)
LEMMA QueueLeft ==
  ASSUME QueuesTyped, NEW q \in Queues, QueueGood(q),
         available'[q] = available[q], used'[q] = used[q], pending'[q] = pending[q],
         stream'[q] = stream[q], msg_fd'[q] = msg_fd[q], done_len'[q] = done_len[q],
         \A fd \in Fds : pending[q][fd] # <<>> => Async(<<0, fd>>)',
         \A m \in Sent(q) : Datagram(q, m) => Datagram(q, m)'
  PROVE  QueueGood(q)'
<1>1. Sent(q)' = Sent(q)
  BY DEF Sent
<1>2. Placed(q)'
  BY <1>1 DEF Placed, QueueGood
<1>3. Queued(q)'
  BY DEF Queued, QueueGood
<1>4. Counted(q)'
  BY <1>1 DEF Counted, QueueGood
<1>. QED  BY <1>2, <1>3, <1>4 DEF QueueGood

\* The message m of the socket f leaves its place in the queue q, whose other
\* messages stay where they are;
Moved(q, m, f) ==
    /\ Increasing(available'[q]) /\ Once(used'[q])
    /\ ~Contains(available'[q], m)
    /\ \A x \in Msgs \ {m} :
          /\ Contains(available'[q], x) <=> Contains(available[q], x)
          /\ Contains(available[q], x) => m < x
          /\ Contains(used'[q], x) <=> Contains(used[q], x)
          /\ done_len'[q][x] = done_len[q][x]
    /\ \A fd \in Fds :
          /\ Increasing(pending'[q][fd]) /\ Ordered(stream'[q][fd])
          /\ fd # f => ~Contains(pending'[q][fd], m) /\ ~Contains(stream'[q][fd], m)
          /\ \A x \in Msgs \ {m} :
                /\ Contains(pending'[q][fd], x) <=> Contains(pending[q][fd], x)
                /\ Contains(stream'[q][fd], x) => Contains(stream[q][fd], x)
                /\ Parts(stream'[q][fd], x) = Parts(stream[q][fd], x)
    /\ Contains(stream'[q][f], m) =>
          \A x \in Msgs \ {m} : Contains(pending[q][f], x) => m < x

\* it is given back,
MovedBack(q, m, f) ==
    /\ Contains(used'[q], m) /\ ~Contains(pending'[q][f], m)
    /\ done_len'[q][m] # -1 =>
          /\ done_len'[q][m] = Parts(stream'[q][f], m)
          /\ \/ Parts(stream'[q][f], m) = MsgLen
             \/ Datagram(q, m) /\ Parts(stream'[q][f], m) > 0

\* or waits.
MovedOn(q, m, f) ==
    /\ ~Contains(used'[q], m) /\ Contains(pending'[q][f], m) /\ Async(<<0, f>>)
    /\ done_len'[q][m] = Parts(stream'[q][f], m) /\ Parts(stream'[q][f], m) < MsgLen
    /\ \A x \in Msgs : Contains(stream[q][f], x) => x <= m

LEMMA MovedGood ==
  ASSUME QueuesTyped, QueuesTyped', NEW q \in Queues, QueueGood(q),
         NEW m \in Sent(q), NEW f \in Fds, f = msg_fd[q][m],
         UNCHANGED <<socket_table, record, msg_fd>>,
         Moved(q, m, f), MovedBack(q, m, f) \/ MovedOn(q, m, f)
  PROVE  QueueGood(q)'
<1>0. m \in Msgs /\ m \in Nat /\ \A x \in Msgs : x \in Nat
  BY ConstantsAssumption DEF Sent, Msgs
<1>1. /\ Sent(q)' = Sent(q) /\ msg_fd' = msg_fd
      /\ \A fd \in Fds : Async(<<0, fd>>)' <=> Async(<<0, fd>>)
      /\ \A x \in Msgs : Datagram(q, x)' <=> Datagram(q, x)
  BY DEF Sent, Async, Datagram, SocketOf
<1>2. ASSUME NEW fd \in Fds, pending'[q][fd] # <<>>
      PROVE  Async(<<0, fd>>)
  <2>1. PICK x \in Msgs : Contains(pending'[q][fd], x)
    <3>1. pending'[q][fd] \in Seq(Msgs)
      BY DEF QueuesTyped
    <3>2. PICK s \in Seq(Msgs) : s = pending'[q][fd]
      BY <3>1
    <3>3. 1 \in 1..Len(s) /\ s[1] \in Msgs
      BY <1>2, <3>2
    <3>. QED  BY <3>2, <3>3 DEF Contains
  <2>2. CASE x = m
    <3>1. fd = f /\ ~MovedBack(q, m, f)
      BY <2>1, <2>2 DEF Moved, MovedBack
    <3>. QED  BY <3>1 DEF MovedOn
  <2>3. CASE x # m
    <3>1. Contains(pending[q][fd], x)
      BY <2>1, <2>3 DEF Moved
    <3>2. pending[q][fd] # <<>>
      BY <3>1 DEF Contains
    <3>. QED  BY <3>2 DEF QueueGood, Placed
  <2>. QED  BY <2>2, <2>3
<1>3. ASSUME NEW fd \in Fds
      PROVE  /\ Increasing(pending'[q][fd])
             /\ \A x \in Msgs : Contains(pending'[q][fd], x) => msg_fd[q][x] = fd
  <2>1. Increasing(pending'[q][fd])
    BY DEF Moved
  <2>2. ASSUME NEW x \in Msgs, Contains(pending'[q][fd], x)
        PROVE  msg_fd[q][x] = fd
    <3>1. CASE x = m
      BY <2>2, <3>1 DEF Moved
    <3>2. CASE x # m
      <4>1. Contains(pending[q][fd], x)
        BY <2>2, <3>2 DEF Moved
      <4>. QED  BY <4>1 DEF QueueGood, Placed
    <3>. QED  BY <3>1, <3>2
  <2>. QED  BY <2>1, <2>2
<1>4. ASSUME NEW x \in Sent(q)
      PROVE  \/ Contains(available'[q], x) \/ Contains(used'[q], x)
             \/ Contains(pending'[q][msg_fd[q][x]], x)
  <2>1. x \in Msgs /\ msg_fd[q][x] \in Fds
    BY DEF Sent, QueuesTyped
  <2>2. CASE x = m
    BY <2>2 DEF MovedBack, MovedOn
  <2>3. CASE x # m
    BY <2>1, <2>3 DEF Moved, QueueGood, Placed
  <2>. QED  BY <2>2, <2>3
<1>5. ASSUME NEW x \in Msgs
      PROVE  /\ Contains(available'[q], x) \/ Contains(used'[q], x) => x \in Sent(q)
             /\ Contains(used'[q], x) => /\ ~Contains(available'[q], x)
                                         /\ \A fd \in Fds : ~Contains(pending'[q][fd], x)
  <2>1. CASE x = m
    BY <2>1 DEF MovedBack, MovedOn, Moved
  <2>2. CASE x # m
    BY <2>2 DEF Moved, QueueGood, Placed
  <2>. QED  BY <2>1, <2>2
<1>6. Placed(q)'
  <2>1. Increasing(available'[q]) /\ Once(used'[q])
    BY DEF Moved
  <2>. QED  BY <1>1, <1>2, <1>3, <1>4, <1>5, <2>1 DEF Placed
<1>7. ASSUME NEW fd \in Fds, NEW x \in Msgs, Contains(stream'[q][fd], x)
      PROVE  /\ msg_fd[q][x] = fd
             /\ \A n \in Msgs : /\ Contains(available'[q], n) => x < n
                                /\ Contains(pending'[q][fd], n) => x <= n
  <2>1. CASE x = m
    <3>1. fd = f
      BY <1>7, <2>1 DEF Moved
    <3>2. ASSUME NEW n \in Msgs, Contains(available'[q], n)
          PROVE  x < n
      <4>1. n # m
        BY <3>2 DEF Moved
      <4>. QED  BY <3>2, <4>1, <2>1 DEF Moved
    <3>3. ASSUME NEW n \in Msgs, Contains(pending'[q][fd], n)
          PROVE  x <= n
      <4>1. CASE n = m
        BY <1>0, <2>1, <4>1
      <4>2. CASE n # m
        <5>1. m < n
          BY <1>7, <2>1, <3>1, <3>3, <4>2 DEF Moved
        <5>. QED  BY <1>0, <2>1, <5>1
      <4>. QED  BY <4>1, <4>2
    <3>. QED  BY <2>1, <3>1, <3>2, <3>3
  <2>2. CASE x # m
    <3>1. Contains(stream[q][fd], x)
      BY <1>7, <2>2 DEF Moved
    <3>2. /\ msg_fd[q][x] = fd
          /\ \A n \in Msgs : /\ Contains(available[q], n) => x < n
                             /\ Contains(pending[q][fd], n) => x <= n
      BY <3>1 DEF QueueGood, Queued
    <3>3. ASSUME NEW n \in Msgs, Contains(available'[q], n)
          PROVE  x < n
      <4>1. n # m
        BY <3>3 DEF Moved
      <4>. QED  BY <3>2, <3>3, <4>1 DEF Moved
    <3>4. ASSUME NEW n \in Msgs, Contains(pending'[q][fd], n)
          PROVE  x <= n
      <4>1. CASE n = m
        <5>1. fd = f /\ ~MovedBack(q, m, f)
          BY <3>4, <4>1 DEF Moved, MovedBack
        <5>. QED  BY <3>1, <4>1, <5>1 DEF MovedOn
      <4>2. CASE n # m
        BY <3>2, <3>4, <4>2 DEF Moved
      <4>. QED  BY <4>1, <4>2
    <3>. QED  BY <3>2, <3>3, <3>4
  <2>. QED  BY <2>1, <2>2
<1>8. ASSUME NEW fd \in Fds, NEW x \in Msgs, NEW n \in Msgs,
             Contains(pending'[q][fd], x), Contains(available'[q], n)
      PROVE  x < n
  <2>1. n # m /\ Contains(available[q], n) /\ m < n
    BY <1>8 DEF Moved
  <2>2. CASE x = m
    BY <2>1, <2>2
  <2>3. CASE x # m
    BY <1>8, <2>1, <2>3 DEF Moved, QueueGood, Queued
  <2>. QED  BY <2>2, <2>3
<1>9. Queued(q)'
  <2>1. \A fd \in Fds : Ordered(stream'[q][fd])
    BY DEF Moved
  <2>. QED  BY <1>1, <1>7, <1>8, <2>1 DEF Queued
<1>10. ASSUME NEW x \in Sent(q), NEW parts, parts = Parts(stream'[q][msg_fd[q][x]], x)
       PROVE  /\ Contains(available'[q], x) => done_len'[q][x] = 0
              /\ Contains(pending'[q][msg_fd[q][x]], x) =>
                    done_len'[q][x] = parts /\ parts < MsgLen
              /\ Contains(used'[q], x) /\ done_len'[q][x] # -1 =>
                    /\ done_len'[q][x] = parts
                    /\ parts = MsgLen \/ (Datagram(q, x) /\ parts > 0)
  <2>1. x \in Msgs /\ msg_fd[q][x] \in Fds
    BY DEF Sent, QueuesTyped
  <2>2. CASE x = m
    <3>1. ~Contains(available'[q], m)
      BY DEF Moved
    <3>2. CASE MovedBack(q, m, f)
      BY <1>10, <2>2, <3>1, <3>2 DEF MovedBack
    <3>3. CASE MovedOn(q, m, f)
      BY <1>10, <2>2, <3>1, <3>3 DEF MovedOn
    <3>. QED  BY <3>2, <3>3
  <2>3. CASE x # m
    <3>1. /\ parts = Parts(stream[q][msg_fd[q][x]], x)
          /\ done_len'[q][x] = done_len[q][x]
          /\ Contains(available'[q], x) <=> Contains(available[q], x)
          /\ Contains(used'[q], x) <=> Contains(used[q], x)
          /\ Contains(pending'[q][msg_fd[q][x]], x) <=> Contains(pending[q][msg_fd[q][x]], x)
      BY <1>10, <2>1, <2>3 DEF Moved
    <3>. QED  BY <3>1 DEF QueueGood, Counted
  <2>. QED  BY <2>2, <2>3
<1>11. \A x \in Msgs \ Sent(q) : done_len'[q][x] = 0
  <2>. SUFFICES ASSUME NEW x \in Msgs \ Sent(q)
                PROVE  done_len'[q][x] = 0
    OBVIOUS
  <2>1. x # m /\ done_len[q][x] = 0
    BY DEF QueueGood, Counted
  <2>. QED  BY <2>1 DEF Moved
<1>12. Counted(q)'
  <2>. SUFFICES ASSUME NEW x \in Sent(q)'
                PROVE  LET parts == Parts(stream[q][msg_fd[q][x]], x)' IN
                       /\ Contains(available'[q], x) => done_len'[q][x] = 0
                       /\ Contains(pending'[q][msg_fd'[q][x]], x) =>
                             done_len'[q][x] = parts /\ parts < MsgLen
                       /\ Contains(used'[q], x) /\ done_len'[q][x] # -1 =>
                             /\ done_len'[q][x] = parts
                             /\ parts = MsgLen \/ (Datagram(q, x)' /\ parts > 0)
    BY <1>1, <1>11 DEF Counted
  <2>1. x \in Sent(q) /\ x \in Msgs
    BY <1>1 DEF Sent
  <2>2. PICK parts : parts = Parts(stream'[q][msg_fd[q][x]], x)
    OBVIOUS
  <2>. QED  BY <1>1, <1>10, <2>1, <2>2
<1>. QED  BY <1>6, <1>9, <1>12 DEF QueueGood

(* The oldest offered message: all that is known of it.                         *)
LEMMA OldestOffered ==
  ASSUME QueuesTyped, NEW q \in Queues, QueueGood(q), available[q] # <<>>,
         NEW m, m = Head(available[q])
  PROVE  /\ m \in Sent(q) /\ msg_fd[q][m] \in Fds
         /\ Increasing(Tail(available[q]))
         /\ \A x \in Msgs : /\ Contains(Tail(available[q]), x) <=>
                                  Contains(available[q], x) /\ x # m
                            /\ Contains(available[q], x) /\ x # m => m < x
         /\ ~Contains(used[q], m)
         /\ \A fd \in Fds : ~Contains(pending[q][fd], m) /\ ~Contains(stream[q][fd], m)
         /\ \A x \in Msgs : /\ Contains(pending[q][msg_fd[q][m]], x) => x < m
                            /\ Contains(stream[q][msg_fd[q][m]], x) => x < m
         /\ done_len[q][m] = 0 /\ Parts(stream[q][msg_fd[q][m]], m) = 0
<1>1. available[q] \in Seq(Msgs) /\ Increasing(available[q])
  BY DEF QueuesTyped, QueueGood, Placed
<1>2. /\ m \in Msgs /\ Contains(available[q], m)
      /\ Increasing(Tail(available[q]))
      /\ \A x \in Msgs : /\ Contains(Tail(available[q]), x) <=>
                               Contains(available[q], x) /\ x # m
                         /\ Contains(Tail(available[q]), x) => m < x
  BY <1>1, IncreasingTail
<1>3. m \in Sent(q) /\ m \in Nat
  BY <1>2 DEF QueueGood, Placed, Msgs
<1>4. msg_fd[q][m] \in Fds
  BY <1>2, <1>3 DEF Sent, QueuesTyped
<1>5. /\ \A fd \in Fds : \A x \in Msgs :
            /\ Contains(pending[q][fd], x) => x < m
            /\ Contains(stream[q][fd], x) => x < m
  BY <1>2 DEF QueueGood, Queued
<1>6. \A fd \in Fds : ~Contains(pending[q][fd], m) /\ ~Contains(stream[q][fd], m)
  BY <1>2, <1>3, <1>5
<1>7. ~Contains(used[q], m)
  BY <1>2 DEF QueueGood, Placed
<1>8. done_len[q][m] = 0
  BY <1>2, <1>3 DEF QueueGood, Counted
<1>9. Parts(stream[q][msg_fd[q][m]], m) = 0
  <2>1. stream[q][msg_fd[q][m]] \in Seq(Msgs)
    BY <1>4 DEF QueuesTyped
  <2>. QED  BY <1>4, <1>6, <2>1, PartsType
<1>. QED  BY <1>2, <1>3, <1>4, <1>5, <1>6, <1>7, <1>8, <1>9

(* The oldest message that waits at a socket.                                   *)
LEMMA OldestWaiting ==
  ASSUME QueuesTyped, NEW q \in Queues, QueueGood(q), NEW f \in Fds,
         pending[q][f] # <<>>, NEW m, m = Head(pending[q][f])
  PROVE  /\ m \in Sent(q) /\ msg_fd[q][m] = f /\ Async(<<0, f>>)
         /\ Tail(pending[q][f]) \in Seq(Msgs) /\ Increasing(Tail(pending[q][f]))
         /\ Contains(pending[q][f], m)
         /\ \A x \in Msgs : /\ Contains(Tail(pending[q][f]), x) <=>
                                  Contains(pending[q][f], x) /\ x # m
                            /\ Contains(pending[q][f], x) /\ x # m => m < x
                            /\ Contains(available[q], x) => m < x
                            /\ Contains(stream[q][f], x) => x <= m
         /\ ~Contains(used[q], m) /\ ~Contains(available[q], m)
         /\ \A fd \in Fds : fd # f => /\ ~Contains(pending[q][fd], m)
                                      /\ ~Contains(stream[q][fd], m)
         /\ done_len[q][m] = Parts(stream[q][f], m) /\ done_len[q][m] < MsgLen
<1>1. pending[q][f] \in Seq(Msgs) /\ Increasing(pending[q][f]) /\ Async(<<0, f>>)
  BY DEF QueuesTyped, QueueGood, Placed
<1>2. /\ m \in Msgs /\ Contains(pending[q][f], m)
      /\ Tail(pending[q][f]) \in Seq(Msgs) /\ Increasing(Tail(pending[q][f]))
      /\ \A x \in Msgs : /\ Contains(Tail(pending[q][f]), x) <=>
                               Contains(pending[q][f], x) /\ x # m
                         /\ Contains(Tail(pending[q][f]), x) => m < x
  BY <1>1, IncreasingTail
<1>3. msg_fd[q][m] = f
  BY <1>2 DEF QueueGood, Placed
<1>4. m \in Sent(q) /\ m \in Nat
  BY <1>2, <1>3, ConstantsAssumption DEF Sent, Msgs, Fds
<1>5. \A x \in Msgs : /\ Contains(available[q], x) => m < x
                      /\ Contains(stream[q][f], x) => x <= m
  BY <1>2 DEF QueueGood, Queued
<1>6. ~Contains(used[q], m)
  BY <1>2 DEF QueueGood, Placed
<1>7. ~Contains(available[q], m)
  BY <1>2, <1>4, <1>5
<1>8. \A fd \in Fds : fd # f => /\ ~Contains(pending[q][fd], m)
                                /\ ~Contains(stream[q][fd], m)
  <2>1. \A fd \in Fds : Contains(pending[q][fd], m) => msg_fd[q][m] = fd
    BY <1>2 DEF QueueGood, Placed
  <2>2. \A fd \in Fds : Contains(stream[q][fd], m) => msg_fd[q][m] = fd
    BY <1>2 DEF QueueGood, Queued
  <2>. QED  BY <1>3, <2>1, <2>2
<1>9. done_len[q][m] = Parts(stream[q][f], m) /\ done_len[q][m] < MsgLen
  BY <1>2, <1>3, <1>4 DEF QueueGood, Counted
<1>. QED  BY <1>1, <1>2, <1>3, <1>4, <1>5, <1>6, <1>7, <1>8, <1>9

(* Giving a message back, in the queue that is given back to.                   *)
LEMMA CompleteFacts ==
  ASSUME QueuesTyped, NEW q \in Queues, Once(used[q]), NEW m \in Msgs,
         ~Contains(used[q], m), Complete(q, m)
  PROVE  /\ Once(used'[q])
         /\ \A x \in Msgs : Contains(used'[q], x) <=> Contains(used[q], x) \/ x = m
         /\ \A r \in Queues : r # q => used'[r] = used[r]
<1>1. used[q] \in Seq(Msgs)
  BY DEF QueuesTyped
<1>2. used'[q] = Append(used[q], m) /\ \A r \in Queues : r # q => used'[r] = used[r]
  BY DEF Complete, QueuesTyped
<1>. QED  BY <1>1, <1>2, OnceAppend, ContainsAppend

(* The transfer of the oldest message of its socket leaves of the message what  *)
(* the stack has not taken, or all of it taken, or the failure.                 *)
LEMMA FinishedParts ==
  ASSUME QueuesTyped, NEW q \in Queues, NEW m \in Msgs, NEW f \in Fds, f = msg_fd[q][m],
         NEW ret \in Results(q, m), Async(<<0, f>>), TablesTyped,
         done_len[q][m] = Parts(stream[q][f], m), done_len[q][m] < MsgLen,
         done_len[q][m] >= 0,
         ret = -1 => done_len'[q][m] = -1,
         ret # -1 => /\ done_len'[q][m] = done_len[q][m] + ret
                     /\ Parts(stream'[q][f], m) = Parts(stream[q][f], m) + ret
  PROVE  /\ (ret = -1 \/ Finished(q, <<0, f>>, m, ret)) /\ done_len'[q][m] # -1 =>
                  /\ done_len'[q][m] = Parts(stream'[q][f], m)
                  /\ \/ Parts(stream'[q][f], m) = MsgLen
                     \/ Datagram(q, m) /\ Parts(stream'[q][f], m) > 0
         /\ ret # -1 /\ ~Finished(q, <<0, f>>, m, ret) =>
               /\ done_len'[q][m] = Parts(stream'[q][f], m)
               /\ Parts(stream'[q][f], m) < MsgLen
<1>1. /\ MsgLen \in Nat /\ done_len[q][m] \in 0..MsgLen - 1
      /\ ret \in Int /\ ret >= -1 /\ ret <= MsgLen - done_len[q][m]
  BY ConstantsAssumption DEF QueuesTyped, Results
<1>2. SocketOf(q, m) = <<0, f>>
  BY DEF SocketOf
<1>3. CASE ret = -1
  BY <1>3
<1>4. CASE ret # -1
  <2>1. /\ done_len'[q][m] = Parts(stream'[q][f], m)
        /\ done_len'[q][m] = done_len[q][m] + ret /\ ret \in Nat
    BY <1>1, <1>4
  <2>2. CASE q = "rx" /\ record[<<0, f>>].protocol = "udp"
    <3>1. Datagram(q, m)
      BY <1>2, <2>2 DEF Datagram
    <3>2. Finished(q, <<0, f>>, m, ret) <=> ret # 0
      BY <2>2 DEF Finished
    <3>. QED  BY <1>1, <1>4, <2>1, <3>1, <3>2
  <2>3. CASE ~(q = "rx" /\ record[<<0, f>>].protocol = "udp")
    <3>1. Finished(q, <<0, f>>, m, ret) <=> done_len[q][m] + ret = MsgLen
      BY <2>3 DEF Finished
    <3>. QED  BY <1>1, <1>4, <2>1, <3>1
  <2>. QED  BY <2>2, <2>3
<1>. QED  BY <1>3, <1>4

-------------------------------------------------------------------------------
(* The handlers of queued messages keep the queues.                             *)

LEMMA RefusedGood ==
  ASSUME QueuesTyped, QueuesTyped', NEW q \in Queues, QueueGood(q), available[q] # <<>>,
         NEW m, m = Head(available[q]), Refused(q, m),
         available' = [available EXCEPT ![q] = Tail(available[q])],
         UNCHANGED <<socket_table, record, msg_fd>>
  PROVE  QueueGood(q)'
<1>1. PICK f : f = msg_fd[q][m]
  OBVIOUS
<1>2. /\ m \in Sent(q) /\ f \in Fds /\ m \in Msgs
      /\ Increasing(Tail(available[q]))
      /\ \A x \in Msgs : /\ Contains(Tail(available[q]), x) <=>
                               Contains(available[q], x) /\ x # m
                         /\ Contains(available[q], x) /\ x # m => m < x
      /\ ~Contains(used[q], m)
      /\ \A fd \in Fds : ~Contains(pending[q][fd], m) /\ ~Contains(stream[q][fd], m)
  BY <1>1, OldestOffered DEF Sent
<1>3. available'[q] = Tail(available[q]) /\ UNCHANGED <<pending, stream>>
  BY DEF QueuesTyped, Refused
<1>4. /\ Once(used'[q])
      /\ \A x \in Msgs : Contains(used'[q], x) <=> Contains(used[q], x) \/ x = m
  BY <1>2, CompleteFacts DEF Refused, QueueGood, Placed
<1>5. done_len'[q][m] = -1 /\ \A x \in Msgs : x # m => done_len'[q][x] = done_len[q][x]
  BY <1>2 DEF Refused, QueuesTyped
<1>6. \A fd \in Fds : Increasing(pending[q][fd]) /\ Ordered(stream[q][fd])
  BY DEF QueueGood, Placed, Queued
<1>7. Moved(q, m, f)
  BY <1>2, <1>3, <1>4, <1>5, <1>6 DEF Moved
<1>8. MovedBack(q, m, f)
  BY <1>2, <1>3, <1>4, <1>5 DEF MovedBack
<1>. QED  BY <1>1, <1>2, <1>7, <1>8, MovedGood

LEMMA DelayedGood ==
  ASSUME QueuesTyped, QueuesTyped', NEW q \in Queues, QueueGood(q), available[q] # <<>>,
         NEW m, m = Head(available[q]), Delayed(q, m),
         available' = [available EXCEPT ![q] = Tail(available[q])],
         UNCHANGED <<socket_table, record, msg_fd>>
  PROVE  QueueGood(q)'
<1>1. PICK f : f = msg_fd[q][m]
  OBVIOUS
<1>2. /\ m \in Sent(q) /\ f \in Fds /\ m \in Msgs /\ m \in Nat
      /\ Increasing(Tail(available[q]))
      /\ \A x \in Msgs : /\ Contains(Tail(available[q]), x) <=>
                               Contains(available[q], x) /\ x # m
                         /\ Contains(available[q], x) /\ x # m => m < x
                         /\ Contains(pending[q][f], x) => x < m
                         /\ Contains(stream[q][f], x) => x < m
      /\ ~Contains(used[q], m)
      /\ \A fd \in Fds : ~Contains(pending[q][fd], m) /\ ~Contains(stream[q][fd], m)
      /\ done_len[q][m] = 0 /\ Parts(stream[q][f], m) = 0
  BY <1>1, OldestOffered DEF Sent, Msgs
<1>3. available'[q] = Tail(available[q]) /\ UNCHANGED <<used, done_len, stream>>
  BY DEF QueuesTyped, Delayed
<1>4. PICK s \in Seq(Msgs) : s = pending[q][f]
  BY <1>2 DEF QueuesTyped
<1>5. PICK t : t = Append(s, m)
  OBVIOUS
<1>6. pending'[q][f] = t /\ \A fd \in Fds : fd # f => pending'[q][fd] = pending[q][fd]
  BY <1>1, <1>2, <1>4, <1>5 DEF Delayed, Keep, QueuesTyped
<1>7. \A fd \in Fds : Increasing(pending[q][fd]) /\ Ordered(stream[q][fd])
  BY DEF QueueGood, Placed, Queued
<1>8. Increasing(t) /\ \A x : Contains(t, x) <=> Contains(s, x) \/ x = m
  BY <1>2, <1>4, <1>5, <1>7, IncreasingAppend, ContainsAppend
<1>9. Async(<<0, f>>) /\ MsgLen > 0
  BY <1>1, ConstantsAssumption DEF Delayed, SocketOf
<1>10. Once(used[q])
  BY DEF QueueGood, Placed
<1>11. Moved(q, m, f)
  BY <1>2, <1>3, <1>4, <1>6, <1>7, <1>8, <1>10 DEF Moved
<1>12. MovedOn(q, m, f)
  BY <1>2, <1>3, <1>6, <1>8, <1>9 DEF MovedOn, Msgs
<1>. QED  BY <1>1, <1>2, <1>11, <1>12, MovedGood

LEMMA TransferGood ==
  ASSUME QueuesTyped, QueuesTyped', TablesTyped, NEW q \in Queues, QueueGood(q),
         available[q] # <<>>, NEW m, m = Head(available[q]), NEW ret \in Results(q, m),
         Transferred(q, m, ret) \/ Retained(q, m, ret),
         available' = [available EXCEPT ![q] = Tail(available[q])],
         UNCHANGED <<socket_table, record, msg_fd>>
  PROVE  QueueGood(q)'
<1>1. PICK f : f = msg_fd[q][m]
  OBVIOUS
<1>2. /\ m \in Sent(q) /\ f \in Fds /\ m \in Msgs /\ m \in Nat
      /\ Increasing(Tail(available[q]))
      /\ \A x \in Msgs : /\ Contains(Tail(available[q]), x) <=>
                               Contains(available[q], x) /\ x # m
                         /\ Contains(available[q], x) /\ x # m => m < x
                         /\ Contains(stream[q][f], x) => x < m
                         /\ x \in Nat
      /\ ~Contains(used[q], m)
      /\ \A fd \in Fds : ~Contains(pending[q][fd], m) /\ ~Contains(stream[q][fd], m)
      /\ done_len[q][m] = 0 /\ Parts(stream[q][f], m) = 0
  BY <1>1, OldestOffered DEF Sent, Msgs
<1>3. /\ available'[q] = Tail(available[q]) /\ Taken(q, m, ret) /\ Async(<<0, f>>)
      /\ pending[q][f] = <<>> /\ SocketOf(q, m) = <<0, f>>
  BY <1>1 DEF QueuesTyped, Transferred, Retained, SocketOf, MustWait
<1>4. \A fd \in Fds : Increasing(pending[q][fd]) /\ Ordered(stream[q][fd])
  BY DEF QueueGood, Placed, Queued
<1>5. \A x \in Msgs : Contains(stream[q][f], x) => x <= m
  BY <1>2
<1>6. /\ \A fd \in Fds : fd # f => stream'[q][fd] = stream[q][fd]
      /\ Ordered(stream'[q][f])
      /\ \A x \in Msgs : Contains(stream'[q][f], x) => Contains(stream[q][f], x) \/ x = m
      /\ \A x \in Msgs : x # m => /\ Parts(stream'[q][f], x) = Parts(stream[q][f], x)
                                  /\ done_len'[q][x] = done_len[q][x]
      /\ ret = -1 => done_len'[q][m] = -1
      /\ ret # -1 => /\ done_len'[q][m] = done_len[q][m] + ret
                     /\ Parts(stream'[q][f], m) = Parts(stream[q][f], m) + ret
  <2>1. /\ m \in Msgs /\ f \in Fds /\ f = msg_fd[q][m] /\ Taken(q, m, ret)
        /\ Ordered(stream[q][f])
    BY <1>1, <1>2, <1>3, <1>4
  <2>2. ret \in Results(q, m)
    BY <1>1
  <2>3. \A x \in Msgs : x # m => done_len'[q][x] = done_len[q][x]
    BY <2>1, <2>2, <1>5, TakenFacts
  <2>4. \A x \in Msgs : x # m => Parts(stream'[q][f], x) = Parts(stream[q][f], x)
    BY <2>1, <2>2, <1>5, TakenFacts
  <2>5. /\ \A fd \in Fds : fd # f => stream'[q][fd] = stream[q][fd]
        /\ Ordered(stream'[q][f])
        /\ \A x \in Msgs : Contains(stream'[q][f], x) => Contains(stream[q][f], x) \/ x = m
    BY <2>1, <2>2, <1>5, TakenFacts
  <2>6. /\ ret = -1 => done_len'[q][m] = -1
        /\ ret # -1 => /\ done_len'[q][m] = done_len[q][m] + ret
                       /\ Parts(stream'[q][f], m) = Parts(stream[q][f], m) + ret
    BY <2>1, <2>2, <1>5, TakenFacts
  <2>. QED  BY <2>3, <2>4, <2>5, <2>6
<1>7. MsgLen > 0 /\ MsgLen \in Nat
  BY ConstantsAssumption
<1>8. /\ (ret = -1 \/ Finished(q, <<0, f>>, m, ret)) /\ done_len'[q][m] # -1 =>
               /\ done_len'[q][m] = Parts(stream'[q][f], m)
               /\ \/ Parts(stream'[q][f], m) = MsgLen
                  \/ Datagram(q, m) /\ Parts(stream'[q][f], m) > 0
      /\ ret # -1 /\ ~Finished(q, <<0, f>>, m, ret) =>
            /\ done_len'[q][m] = Parts(stream'[q][f], m)
            /\ Parts(stream'[q][f], m) < MsgLen
  <2>1. done_len[q][m] = Parts(stream[q][f], m) /\ done_len[q][m] < MsgLen
        /\ done_len[q][m] >= 0
    BY <1>2, <1>7
  <2>. QED  BY <1>1, <1>2, <1>3, <1>6, <2>1, FinishedParts
<1>9. \A x \in Msgs : ~Contains(pending[q][f], x)
  BY <1>3 DEF Contains
<1>10. Once(used[q])
  BY DEF QueueGood, Placed
<1>11. CASE Transferred(q, m, ret)
  <2>1. pending' = pending /\ (ret = -1 \/ Finished(q, <<0, f>>, m, ret))
    BY <1>3, <1>11 DEF Transferred
  <2>2. /\ Once(used'[q])
        /\ \A x \in Msgs : Contains(used'[q], x) <=> Contains(used[q], x) \/ x = m
    BY <1>2, <1>10, <1>11, CompleteFacts DEF Transferred
  <2>3. Moved(q, m, f)
    BY <1>2, <1>3, <1>4, <1>6, <1>9, <2>1, <2>2 DEF Moved
  <2>4. MovedBack(q, m, f)
    BY <1>2, <1>8, <2>1, <2>2 DEF MovedBack
  <2>. QED  BY <1>1, <1>2, <2>3, <2>4, MovedGood
<1>12. CASE Retained(q, m, ret)
  <2>1. /\ ret # -1 /\ ~Finished(q, <<0, f>>, m, ret) /\ used' = used
        /\ Keep(q, f, <<m>>)
    BY <1>1, <1>3, <1>12 DEF Retained
  <2>2. PICK t : t = <<m>>
    OBVIOUS
  <2>3. pending'[q][f] = t /\ \A fd \in Fds : fd # f => pending'[q][fd] = pending[q][fd]
    BY <1>2, <2>1, <2>2 DEF Keep, QueuesTyped
  <2>4. Len(t) = 1 /\ t[1] = m
    BY <2>2
  <2>5. Increasing(t) /\ \A x : Contains(t, x) <=> x = m
    BY <2>4 DEF Increasing, Contains
  <2>6. Moved(q, m, f)
    BY <1>2, <1>3, <1>4, <1>6, <1>9, <1>10, <2>1, <2>3, <2>5 DEF Moved
  <2>7. MovedOn(q, m, f)
    BY <1>2, <1>3, <1>5, <1>8, <2>1, <2>3, <2>5 DEF MovedOn
  <2>. QED  BY <1>1, <1>2, <2>6, <2>7, MovedGood
<1>. QED  BY <1>11, <1>12

LEMMA ResumeGood ==
  ASSUME QueuesTyped, QueuesTyped', TablesTyped, NEW q \in Queues, QueueGood(q),
         NEW s \in Sockets, s[1] = 0, pending[q][s[2]] # <<>>,
         NEW m, m = Head(pending[q][s[2]]), NEW ret \in Results(q, m),
         Resumed(q, s, m, ret) \/ Restarted(q, s, m, ret),
         UNCHANGED <<available, socket_table, record, msg_fd>>
  PROVE  QueueGood(q)'
<1>1. PICK f \in Fds : f = s[2] /\ s = <<0, f>>
  BY SocketParts
<1>2. /\ m \in Sent(q) /\ msg_fd[q][m] = f /\ Async(<<0, f>>) /\ m \in Msgs
      /\ Tail(pending[q][f]) \in Seq(Msgs) /\ Increasing(Tail(pending[q][f]))
      /\ Contains(pending[q][f], m)
      /\ \A x \in Msgs : /\ Contains(Tail(pending[q][f]), x) <=>
                               Contains(pending[q][f], x) /\ x # m
                         /\ Contains(pending[q][f], x) /\ x # m => m < x
                         /\ Contains(available[q], x) => m < x
                         /\ Contains(stream[q][f], x) => x <= m
      /\ ~Contains(used[q], m) /\ ~Contains(available[q], m)
      /\ \A fd \in Fds : fd # f => /\ ~Contains(pending[q][fd], m)
                                   /\ ~Contains(stream[q][fd], m)
      /\ done_len[q][m] = Parts(stream[q][f], m) /\ done_len[q][m] < MsgLen
  BY <1>1, OldestWaiting DEF Sent
<1>3. Taken(q, m, ret)
  BY DEF Resumed, Restarted
<1>4. /\ \A fd \in Fds : Increasing(pending[q][fd]) /\ Ordered(stream[q][fd])
      /\ Increasing(available[q]) /\ Once(used[q])
  BY DEF QueueGood, Placed, Queued
<1>5. /\ \A fd \in Fds : fd # f => stream'[q][fd] = stream[q][fd]
      /\ Ordered(stream'[q][f])
      /\ \A x \in Msgs : Contains(stream'[q][f], x) => Contains(stream[q][f], x) \/ x = m
      /\ \A x \in Msgs : x # m => /\ Parts(stream'[q][f], x) = Parts(stream[q][f], x)
                                  /\ done_len'[q][x] = done_len[q][x]
      /\ ret = -1 => done_len'[q][m] = -1
      /\ ret # -1 => /\ done_len'[q][m] = done_len[q][m] + ret
                     /\ Parts(stream'[q][f], m) = Parts(stream[q][f], m) + ret
  BY <1>1, <1>2, <1>3, <1>4, TakenFacts
<1>6. /\ (ret = -1 \/ Finished(q, <<0, f>>, m, ret)) /\ done_len'[q][m] # -1 =>
               /\ done_len'[q][m] = Parts(stream'[q][f], m)
               /\ \/ Parts(stream'[q][f], m) = MsgLen
                  \/ Datagram(q, m) /\ Parts(stream'[q][f], m) > 0
      /\ ret # -1 /\ ~Finished(q, <<0, f>>, m, ret) =>
            /\ done_len'[q][m] = Parts(stream'[q][f], m)
            /\ Parts(stream'[q][f], m) < MsgLen
  <2>1. done_len[q][m] >= 0
    <3>1. stream[q][f] \in Seq(Msgs)
      BY DEF QueuesTyped
    <3>2. Parts(stream[q][f], m) \in Nat
      BY <3>1, PartsType
    <3>. QED  BY <1>2, <3>2
  <2>. QED  BY <1>2, <1>5, <2>1, FinishedParts
<1>7. CASE Resumed(q, s, m, ret)
  <2>1. ret = -1 \/ Finished(q, <<0, f>>, m, ret)
    BY <1>1, <1>7 DEF Resumed
  <2>2. /\ pending'[q][f] = Tail(pending[q][f])
        /\ \A fd \in Fds : fd # f => pending'[q][fd] = pending[q][fd]
    BY <1>1, <1>7 DEF Resumed, Keep, QueuesTyped
  <2>3. /\ Once(used'[q])
        /\ \A x \in Msgs : Contains(used'[q], x) <=> Contains(used[q], x) \/ x = m
    BY <1>2, <1>4, <1>7, CompleteFacts DEF Resumed
  <2>4. Moved(q, m, f)
    BY <1>2, <1>4, <1>5, <2>2, <2>3 DEF Moved
  <2>5. MovedBack(q, m, f)
    BY <1>2, <1>6, <2>1, <2>2, <2>3 DEF MovedBack
  <2>. QED  BY <1>2, <2>4, <2>5, MovedGood
<1>8. CASE Restarted(q, s, m, ret)
  <2>1. ret # -1 /\ ~Finished(q, <<0, f>>, m, ret) /\ UNCHANGED <<used, pending>>
    BY <1>1, <1>8 DEF Restarted
  <2>2. Moved(q, m, f)
    BY <1>2, <1>4, <1>5, <2>1 DEF Moved
  <2>3. MovedOn(q, m, f)
    BY <1>2, <1>6, <2>1 DEF MovedOn
  <2>. QED  BY <1>2, <2>2, <2>3, MovedGood
<1>. QED  BY <1>7, <1>8

-------------------------------------------------------------------------------
(* Every step keeps the messages.                                               *)

(* The messages sent, and their sockets, are known to be what they were.        *)
LEMMA NumbersLeft ==
  ASSUME MessagesInv, use' = use, msg_fd' = msg_fd, bump_index[0] <= bump_index'[0],
         bump_index[0] \in Int, bump_index'[0] \in Int, QueuesTyped
  PROVE  Numbered' /\ FdsGiven'
<1>1. Sent("tx")' = Sent("tx") /\ Sent("rx")' = Sent("rx") /\ \A q : Sent(q)' = Sent(q)
  BY DEF Sent
<1>2. Numbered'
  BY <1>1 DEF MessagesInv, Numbered
<1>3. ASSUME NEW q \in Queues, NEW m \in Sent(q)
      PROVE  msg_fd[q][m] < bump_index'[0]
  <2>1. msg_fd[q][m] < bump_index[0]
    BY <1>3 DEF MessagesInv, FdsGiven
  <2>2. msg_fd[q][m] \in Int
    BY DEF QueuesTyped, Sent, Fds
  <2>. QED  BY <2>1, <2>2
<1>4. FdsGiven'
  BY <1>1, <1>3 DEF FdsGiven
<1>. QED  BY <1>2, <1>4

LEMMA FirstClient ==
  ASSUME TablesInv
  PROVE  bump_index[0] \in Int /\ bump_index[0] \in 1..(MaxFd + 2) /\ 0 \in Clients
BY ConstantsAssumption DEF TablesInv, Typed, TablesTyped

(* The steps that move no message and change neither whether a socket that is   *)
(* there is asynchronous, nor its protocol.                                     *)
LEMMA MessagesLeft ==
  ASSUME TablesInv, MessagesInv, use' = use, UNCHANGED messages,
         bump_index[0] <= bump_index'[0], bump_index'[0] \in Int,
         \A fd \in Fds : Async(<<0, fd>>) => Async(<<0, fd>>)',
         \A fd \in Fds : fd < bump_index[0] /\ record[<<0, fd>>].protocol # "tcp" =>
            record'[<<0, fd>>].protocol # "tcp"
  PROVE  MessagesInv'
<1>. QueuesTyped
  BY TablesInvParts
<1>1. Numbered' /\ FdsGiven'
  BY NumbersLeft, FirstClient DEF messages
<1>2. ASSUME NEW q \in Queues
      PROVE  QueueGood(q)'
  <2>1. QueueGood(q)
    BY DEF MessagesInv, QueueGood
  <2>2. \A fd \in Fds : pending[q][fd] # <<>> => Async(<<0, fd>>)'
    BY <2>1 DEF QueueGood, Placed
  <2>3. ASSUME NEW m \in Sent(q), Datagram(q, m)
        PROVE  Datagram(q, m)'
    <3>1. msg_fd[q][m] \in Fds /\ msg_fd[q][m] < bump_index[0]
      BY DEF Sent, QueuesTyped, MessagesInv, FdsGiven
    <3>2. SocketOf(q, m) = <<0, msg_fd[q][m]>> /\ SocketOf(q, m)' = <<0, msg_fd[q][m]>>
      BY DEF SocketOf, messages
    <3>. QED  BY <2>3, <3>1, <3>2 DEF Datagram
  <2>4. /\ available'[q] = available[q] /\ used'[q] = used[q] /\ pending'[q] = pending[q]
        /\ stream'[q] = stream[q] /\ msg_fd'[q] = msg_fd[q] /\ done_len'[q] = done_len[q]
    BY DEF messages
  <2>. QED  BY <2>1, <2>2, <2>3, <2>4, QueueLeft
<1>. QED  BY <1>1, <1>2 DEF MessagesInv, QueueGood

(* No message is sent where none may be.                                        *)
LEMMA NoMessages ==
  ASSUME TablesInv, MessagesInv, use.msgs = 0, NEW q \in Queues
  PROVE  /\ Sent(q) = {}
         /\ \A fd \in Fds : pending[q][fd] = <<>>
<1>. QueuesTyped /\ QueueGood(q)
  BY TablesInvParts DEF MessagesInv, QueueGood
<1>1. Sent(q) = {}
  BY DEF MessagesInv, Numbered, Queues
<1>2. ASSUME NEW fd \in Fds, pending[q][fd] # <<>>
      PROVE  FALSE
  <2>1. PICK s \in Seq(Msgs) : s = pending[q][fd]
    BY DEF QueuesTyped
  <2>2. PICK m \in Msgs : Contains(s, m)
    <3>1. s[1] \in Msgs /\ 1 \in 1..Len(s)
      BY <1>2, <2>1
    <3>. QED  BY <3>1 DEF Contains
  <2>3. msg_fd[q][m] = fd
    BY <2>1, <2>2 DEF QueueGood, Placed
  <2>4. m \in Sent(q)
    BY <2>3, ConstantsAssumption DEF Sent, Fds
  <2>. QED  BY <1>1, <2>4
<1>. QED  BY <1>1, <1>2

(* client_put_socket: the new socket has no message yet, and neither has one    *)
(* that is replaced.                                                            *)
LEMMA PutSocketMessages ==
  ASSUME TablesInv, MessagesInv, AddressesKept(use), QueuesKept(use), use' = use,
         UNCHANGED messages, NEW c \in Clients, Opens(c), NEW a \in Addresses,
         Given(c, a), NEW protocol \in {"udp", "tcp"}, PutSocket(c, a, protocol)
  PROVE  MessagesInv'
<1>. TablesGood /\ QueuesTyped /\ use \in Uses
  BY TablesInvParts
<1>1. PICK fd \in Fds :
         /\ fd = bump_index[c] /\ fd \notin socket_table[c]
         /\ \/ PutFresh(c, fd, a, protocol)
            \/ /\ use.reuse # "nobody"
               /\ \E g \in socket_table[c] : PutAgain(c, fd, a, protocol, g)
  BY PutSocketCases
<1>2. bump_index' = [bump_index EXCEPT ![c] = fd + 1]
  BY <1>1 DEF PutFresh, PutAgain
<1>3. bump_index[0] <= bump_index'[0] /\ bump_index'[0] \in Int
  BY <1>1, <1>2, FirstClient DEF TablesGood, TablesTyped, Fds
<1>4. CASE PutFresh(c, fd, a, protocol)
  <2>1. /\ \A f \in Fds : <<0, f>> # <<c, fd>> => record'[<<0, f>>] = record[<<0, f>>]
        /\ \A f \in Fds : f \in socket_table[0] => f \in socket_table'[0]
    BY <1>4, FirstClient DEF PutFresh, TablesGood, TablesTyped, Sockets
  <2>2. ASSUME NEW f \in Fds, Async(<<0, f>>)
        PROVE  Async(<<0, f>>)'
    <3>1. f \in socket_table[0] /\ record[<<0, f>>].async
      BY <2>2 DEF Async
    <3>2. <<0, f>> # <<c, fd>>
      BY <1>1, <3>1
    <3>. QED  BY <2>1, <3>1, <3>2 DEF Async
  <2>3. ASSUME NEW f \in Fds, f < bump_index[0]
        PROVE  record'[<<0, f>>] = record[<<0, f>>]
    <3>1. <<0, f>> # <<c, fd>>
      BY <1>1, <2>3, FirstClient
    <3>. QED  BY <2>1, <3>1
  <2>. QED  BY <1>3, <2>2, <2>3, MessagesLeft
<1>5. CASE use.reuse # "nobody"
  <2>1. use.msgs = 0
    BY <1>5 DEF QueuesKept
  <2>2. Numbered' /\ FdsGiven'
    BY <1>3, FirstClient, NumbersLeft DEF messages
  <2>3. ASSUME NEW q \in Queues
        PROVE  QueueGood(q)'
    <3>1. QueueGood(q) /\ Sent(q) = {} /\ \A f \in Fds : pending[q][f] = <<>>
      BY <2>1, NoMessages DEF MessagesInv, QueueGood
    <3>2. /\ available'[q] = available[q] /\ used'[q] = used[q] /\ pending'[q] = pending[q]
          /\ stream'[q] = stream[q] /\ msg_fd'[q] = msg_fd[q] /\ done_len'[q] = done_len[q]
      BY DEF messages
    <3>. QED  BY <3>1, <3>2, QueueLeft
  <2>. QED  BY <2>2, <2>3 DEF MessagesInv, QueueGood
<1>. QED  BY <1>1, <1>4, <1>5

(* cleanup_async_socket gives all that waits back as failed, and leaves nothing *)
(* that could wait any longer.                                                  *)
LEMMA CleanupGood ==
  ASSUME QueuesTyped, NEW q \in Queues, QueueGood(q), NEW f \in Fds,
         Cleanup(<<0, f>>), UNCHANGED <<available, msg_fd, stream>>,
         \A fd \in Fds : fd # f /\ Async(<<0, fd>>) => Async(<<0, fd>>)',
         \A m \in Sent(q) : Datagram(q, m) => Datagram(q, m)'
  PROVE  QueueGood(q)'
<1>1. PICK kept \in Seq(Msgs) : kept = pending[q][f]
  BY DEF QueuesTyped
<1>2. /\ pending' = [r \in Queues |-> [pending[r] EXCEPT ![f] = <<>>]]
      /\ used' = [r \in Queues |-> used[r] \o pending[r][f]]
      /\ done_len' = [r \in Queues |-> [m \in Msgs |->
                          IF Contains(pending[r][f], m) THEN -1 ELSE done_len[r][m]]]
  BY DEF Cleanup
<1>3. /\ pending'[q][f] = <<>> /\ \A fd \in Fds : fd # f => pending'[q][fd] = pending[q][fd]
      /\ used'[q] = used[q] \o kept
      /\ \A m \in Msgs : done_len'[q][m] = IF Contains(kept, m) THEN -1 ELSE done_len[q][m]
  BY <1>1, <1>2 DEF QueuesTyped
<1>4. /\ Increasing(available[q]) /\ Once(used[q]) /\ Increasing(kept)
      /\ \A m \in Msgs : Contains(kept, m) => msg_fd[q][m] = f /\ ~Contains(used[q], m)
                                              /\ ~Contains(available[q], m)
  <2>1. Increasing(available[q]) /\ Once(used[q]) /\ Increasing(kept)
    BY <1>1 DEF QueueGood, Placed
  <2>2. ASSUME NEW m \in Msgs, Contains(kept, m)
        PROVE  msg_fd[q][m] = f /\ ~Contains(used[q], m)
    BY <1>1, <2>2 DEF QueueGood, Placed
  <2>3. ASSUME NEW m \in Msgs, Contains(kept, m)
        PROVE  ~Contains(available[q], m)
    <3>1. Contains(available[q], m) => m < m
      BY <1>1, <2>3 DEF QueueGood, Queued
    <3>. QED  BY <3>1 DEF Msgs
  <2>. QED  BY <2>1, <2>2, <2>3
<1>5. /\ Once(used'[q])
      /\ \A x : Contains(used'[q], x) <=> Contains(used[q], x) \/ Contains(kept, x)
  <2>1. used[q] \in Seq(Msgs)
    BY DEF QueuesTyped
  <2>. QED  BY <1>3, <1>4, <2>1, OnceConcat, ContainsConcat
<1>6. Sent(q)' = Sent(q) /\ msg_fd' = msg_fd /\ available' = available /\ stream' = stream
  BY DEF Sent
<1>7. /\ \A x : ~Contains(pending'[q][f], x)
      /\ Increasing(pending'[q][f])
  BY <1>3 DEF Contains, Increasing
<1>8. ASSUME NEW fd \in Fds
      PROVE  /\ Increasing(pending'[q][fd])
             /\ pending'[q][fd] # <<>> => Async(<<0, fd>>)'
             /\ \A m \in Msgs : Contains(pending'[q][fd], m) =>
                                   msg_fd[q][m] = fd /\ Contains(pending[q][fd], m)
                                   /\ ~Contains(kept, m)
  <2>1. CASE fd = f
    BY <1>3, <1>7, <2>1
  <2>2. CASE fd # f
    <3>1. pending'[q][fd] = pending[q][fd]
      BY <1>3, <2>2
    <3>2. \A m \in Msgs : Contains(pending[q][fd], m) => msg_fd[q][m] = fd
      BY DEF QueueGood, Placed
    <3>3. /\ Increasing(pending[q][fd])
          /\ pending[q][fd] # <<>> => Async(<<0, fd>>)
      BY DEF QueueGood, Placed
    <3>. QED  BY <1>4, <2>2, <3>1, <3>2, <3>3
  <2>. QED  BY <2>1, <2>2
<1>9. ASSUME NEW m \in Sent(q)
      PROVE  \/ Contains(available[q], m) \/ Contains(used'[q], m)
             \/ Contains(pending'[q][msg_fd[q][m]], m)
  <2>1. m \in Msgs /\ msg_fd[q][m] \in Fds
    BY DEF Sent, QueuesTyped
  <2>2. \/ Contains(available[q], m) \/ Contains(used[q], m)
        \/ Contains(pending[q][msg_fd[q][m]], m)
    BY DEF QueueGood, Placed
  <2>3. CASE msg_fd[q][m] = f
    BY <1>1, <1>5, <2>2, <2>3
  <2>4. CASE msg_fd[q][m] # f
    BY <1>3, <1>5, <2>1, <2>2, <2>4
  <2>. QED  BY <2>3, <2>4
<1>10. ASSUME NEW m \in Msgs
       PROVE  /\ Contains(available[q], m) \/ Contains(used'[q], m) => m \in Sent(q)
              /\ Contains(used'[q], m) => /\ ~Contains(available[q], m)
                                          /\ \A fd \in Fds : ~Contains(pending'[q][fd], m)
  <2>1. Contains(kept, m) => m \in Sent(q)
    BY <1>4, ConstantsAssumption DEF Sent, Fds
  <2>2. /\ Contains(available[q], m) \/ Contains(used[q], m) => m \in Sent(q)
        /\ Contains(used[q], m) => /\ ~Contains(available[q], m)
                                   /\ \A fd \in Fds : ~Contains(pending[q][fd], m)
    BY DEF QueueGood, Placed
  <2>. QED  BY <1>4, <1>5, <1>8, <2>1, <2>2
<1>11. Placed(q)'
  BY <1>4, <1>5, <1>6, <1>8, <1>9, <1>10 DEF Placed
<1>12. Queued(q)'
  <2>1. ASSUME NEW fd \in Fds
        PROVE  /\ Ordered(stream[q][fd])
               /\ \A m \in Msgs : Contains(stream[q][fd], m) =>
                     /\ msg_fd[q][m] = fd
                     /\ \A n \in Msgs : /\ Contains(available[q], n) => m < n
                                        /\ Contains(pending'[q][fd], n) => m <= n
               /\ \A m, n \in Msgs :
                     Contains(pending'[q][fd], m) /\ Contains(available[q], n) => m < n
    BY <1>8 DEF QueueGood, Queued
  <2>. QED  BY <1>6, <2>1 DEF Queued
<1>13. ASSUME NEW m \in Sent(q), NEW parts, parts = Parts(stream[q][msg_fd[q][m]], m)
       PROVE  /\ Contains(available[q], m) => done_len'[q][m] = 0
              /\ Contains(pending'[q][msg_fd[q][m]], m) =>
                    done_len'[q][m] = parts /\ parts < MsgLen
              /\ Contains(used'[q], m) /\ done_len'[q][m] # -1 =>
                    /\ done_len'[q][m] = parts
                    /\ parts = MsgLen \/ (Datagram(q, m)' /\ parts > 0)
  <2>1. m \in Msgs /\ msg_fd[q][m] \in Fds
    BY DEF Sent, QueuesTyped
  <2>2. /\ Contains(available[q], m) => done_len[q][m] = 0
        /\ Contains(pending[q][msg_fd[q][m]], m) => done_len[q][m] = parts /\ parts < MsgLen
        /\ Contains(used[q], m) /\ done_len[q][m] # -1 =>
              /\ done_len[q][m] = parts
              /\ parts = MsgLen \/ (Datagram(q, m) /\ parts > 0)
    BY <1>13 DEF QueueGood, Counted
  <2>3. Contains(kept, m) => done_len'[q][m] = -1 /\ ~Contains(available[q], m)
    BY <1>3, <1>4, <2>1
  <2>4. ~Contains(kept, m) => done_len'[q][m] = done_len[q][m]
    BY <1>3, <2>1
  <2>. QED  BY <1>5, <1>8, <2>1, <2>2, <2>3, <2>4
<1>14. \A m \in Msgs \ Sent(q) : done_len'[q][m] = 0
  <2>. SUFFICES ASSUME NEW m \in Msgs \ Sent(q)
                PROVE  done_len'[q][m] = 0
    OBVIOUS
  <2>1. ~Contains(kept, m)
    BY <1>4, ConstantsAssumption DEF Sent, Fds
  <2>. QED  BY <1>3, <2>1 DEF QueueGood, Counted
<1>15. Counted(q)'
  BY <1>6, <1>13, <1>14 DEF Counted
<1>. QED  BY <1>11, <1>12, <1>15 DEF QueueGood

LEMMA QueueHandleMessages ==
  ASSUME TablesInv, TablesInv', MessagesInv, use' = use, NEW q \in Queues, queue_handle(q)
  PROVE  MessagesInv'
<1>. QueuesTyped /\ QueuesTyped' /\ TablesTyped
  BY TablesInvParts DEF TablesInv, Typed
<1>1. UNCHANGED <<socket_table, record, bump_index, msg_fd>>
  BY DEF queue_handle, tables
<1>2. Numbered' /\ FdsGiven'
  BY <1>1, NumbersLeft, FirstClient
<1>3. CASE available[q] = <<>>
  <2>1. UNCHANGED messages
    BY <1>3 DEF queue_handle
  <2>. QED  BY <1>1, <2>1, MessagesLeft, FirstClient DEF Async
<1>4. CASE available[q] # <<>>
  <2>1. PICK m : m = Head(available[q])
    OBVIOUS
  <2>2. QueueGood(q)
    BY DEF MessagesInv, QueueGood
  <2>3. /\ available' = [available EXCEPT ![q] = Tail(available[q])]
        /\ \/ Refused(q, m) \/ Delayed(q, m)
           \/ \E ret \in Results(q, m) : Transferred(q, m, ret) \/ Retained(q, m, ret)
    BY <1>4, <2>1, QueueHandleCases
  <2>4. QueueGood(q)'
    BY <1>1, <1>4, <2>1, <2>2, <2>3, RefusedGood, DelayedGood, TransferGood
  <2>5. m \in Sent(q) /\ m \in Msgs /\ msg_fd[q][m] \in Fds
    BY <1>4, <2>1, <2>2, OldestOffered DEF Sent
  <2>6. ASSUME NEW r \in Queues, r # q
        PROVE  /\ available'[r] = available[r] /\ used'[r] = used[r]
               /\ pending'[r] = pending[r] /\ stream'[r] = stream[r]
               /\ done_len'[r] = done_len[r]
    <3>1. available'[r] = available[r]
      BY <2>3, <2>6 DEF QueuesTyped
    <3>2. CASE Refused(q, m)
      BY <2>6, <3>1, <3>2 DEF Refused, Complete, QueuesTyped
    <3>3. CASE Delayed(q, m)
      BY <2>6, <3>1, <3>3 DEF Delayed, Keep, QueuesTyped
    <3>4. ASSUME NEW ret \in Results(q, m), Transferred(q, m, ret) \/ Retained(q, m, ret)
          PROVE  /\ available'[r] = available[r] /\ used'[r] = used[r]
                 /\ pending'[r] = pending[r] /\ stream'[r] = stream[r]
                 /\ done_len'[r] = done_len[r]
      <4>1. stream'[r] = stream[r] /\ done_len'[r] = done_len[r]
        BY <2>6, <3>4 DEF Transferred, Retained, Taken, QueuesTyped
      <4>2. used'[r] = used[r] /\ pending'[r] = pending[r]
        <5>1. CASE Transferred(q, m, ret)
          BY <2>6, <5>1 DEF Transferred, Complete, QueuesTyped
        <5>2. CASE Retained(q, m, ret)
          BY <2>6, <5>2 DEF Retained, Keep, QueuesTyped
        <5>. QED  BY <3>4, <5>1, <5>2
      <4>. QED  BY <3>1, <4>1, <4>2
    <3>. QED  BY <2>3, <3>2, <3>3, <3>4
  <2>7. ASSUME NEW r \in Queues
        PROVE  QueueGood(r)'
    <3>1. CASE r = q
      BY <2>4, <3>1
    <3>2. CASE r # q
      <4>1. QueueGood(r)
        BY DEF MessagesInv, QueueGood
      <4>2. \A fd \in Fds : pending[r][fd] # <<>> => Async(<<0, fd>>)'
        BY <1>1, <4>1 DEF QueueGood, Placed, Async
      <4>3. \A n \in Sent(r) : Datagram(r, n) => Datagram(r, n)'
        BY <1>1 DEF Datagram, SocketOf
      <4>. QED  BY <1>1, <2>6, <3>2, <4>1, <4>2, <4>3, QueueLeft
    <3>. QED  BY <3>1, <3>2
  <2>. QED  BY <1>2, <2>7 DEF MessagesInv, QueueGood
<1>. QED  BY <1>3, <1>4

LEMMA HandleSocketMessages ==
  ASSUME TablesInv, TablesInv', MessagesInv, use' = use, NEW q \in Queues, handle_socket(q)
  PROVE  MessagesInv'
<1>. QueuesTyped /\ QueuesTyped' /\ TablesTyped
  BY TablesInvParts DEF TablesInv, Typed
<1>1. UNCHANGED <<socket_table, record, bump_index, msg_fd, available>>
  BY DEF handle_socket, tables
<1>2. Numbered' /\ FdsGiven'
  BY <1>1, NumbersLeft, FirstClient
<1>3. PICK s \in Sockets :
         \/ UNCHANGED <<used, pending, done_len, stream>>
         \/ /\ s[1] = 0 /\ pending[q][s[2]] # <<>>
            /\ \E ret \in Results(q, Head(pending[q][s[2]])) :
                  \/ Resumed(q, s, Head(pending[q][s[2]]), ret)
                  \/ Restarted(q, s, Head(pending[q][s[2]]), ret)
  BY HandleSocketCases
<1>4. CASE UNCHANGED <<used, pending, done_len, stream>>
  BY <1>1, <1>4, MessagesLeft, FirstClient DEF Async, messages
<1>5. ASSUME s[1] = 0, pending[q][s[2]] # <<>>, NEW m, m = Head(pending[q][s[2]]),
             NEW ret \in Results(q, m), Resumed(q, s, m, ret) \/ Restarted(q, s, m, ret)
      PROVE  MessagesInv'
  <2>1. QueueGood(q)
    BY DEF MessagesInv, QueueGood
  <2>2. QueueGood(q)'
    BY <1>1, <1>5, <2>1, ResumeGood
  <2>3. ASSUME NEW r \in Queues, r # q
        PROVE  /\ used'[r] = used[r] /\ pending'[r] = pending[r]
               /\ stream'[r] = stream[r] /\ done_len'[r] = done_len[r]
    <3>1. stream'[r] = stream[r] /\ done_len'[r] = done_len[r]
      BY <2>3, <1>5 DEF Resumed, Restarted, Taken, QueuesTyped
    <3>2. used'[r] = used[r] /\ pending'[r] = pending[r]
      BY <2>3, <1>5 DEF Resumed, Restarted, Complete, Keep, QueuesTyped
    <3>. QED  BY <3>1, <3>2
  <2>4. ASSUME NEW r \in Queues
        PROVE  QueueGood(r)'
    <3>1. CASE r = q
      BY <2>2, <3>1
    <3>2. CASE r # q
      <4>1. QueueGood(r)
        BY DEF MessagesInv, QueueGood
      <4>2. \A fd \in Fds : pending[r][fd] # <<>> => Async(<<0, fd>>)'
        BY <1>1, <4>1 DEF QueueGood, Placed, Async
      <4>3. \A n \in Sent(r) : Datagram(r, n) => Datagram(r, n)'
        BY <1>1 DEF Datagram, SocketOf
      <4>. QED  BY <1>1, <2>3, <3>2, <4>1, <4>2, <4>3, QueueLeft
    <3>. QED  BY <3>1, <3>2
  <2>. QED  BY <1>2, <2>4 DEF MessagesInv, QueueGood
<1>. QED  BY <1>3, <1>4, <1>5

LEMMA OpenMessages ==
  ASSUME TablesInv, MessagesInv, AddressesKept(use), QueuesKept(use), use' = use,
         NEW c \in use.clients, NEW protocol \in {"udp", "tcp"},
         pico_control_open(c, protocol)
  PROVE  MessagesInv'
<1>. TablesGood /\ OthersTyped /\ QueuesTyped /\ work \in Seq(Tasks) /\ use \in Uses
  BY TablesInvParts
<1>1. PICK a \in use.addresses : Given(c, a) /\ PutSocket(c, a, protocol)
  BY DEF pico_control_open
<1>2. c \in Clients /\ a \in Addresses /\ Opens(c) /\ UNCHANGED messages
  BY UseTyped DEF pico_control_open
<1>. QED  BY <1>1, <1>2, PutSocketMessages

LEMMA AcceptMessages ==
  ASSUME TablesInv, MessagesInv, AddressesKept(use), QueuesKept(use), use' = use,
         NEW c \in use.clients, NEW fd \in Fds, pico_control_accept(c, fd)
  PROVE  MessagesInv'
<1>. TablesGood /\ OthersTyped /\ QueuesTyped /\ work \in Seq(Tasks) /\ use \in Uses
  BY TablesInvParts
<1>1. PICK a \in use.addresses : Given(c, a) /\ PutSocket(c, a, "tcp")
  BY DEF pico_control_accept
<1>2. c \in Clients /\ a \in Addresses /\ Opens(c) /\ UNCHANGED messages
  BY UseTyped DEF pico_control_accept
<1>. QED  BY <1>1, <1>2, PutSocketMessages

(* What the messages need of a step that cleans up the socket <<c, fd>>: the    *)
(* others are as asynchronous as before, and it is no other protocol's.         *)
LEMMA CleanupMessages ==
  ASSUME TablesInv, MessagesInv, use' = use, NEW c \in Clients, NEW fd \in Fds,
         Cleanup(<<c, fd>>), UNCHANGED <<available, msg_fd, stream, bump_index>>,
         \A f \in Fds : <<0, f>> # <<c, fd>> /\ Async(<<0, f>>) => Async(<<0, f>>)',
         \A f \in Fds : record[<<0, f>>].protocol # "tcp" =>
                           record'[<<0, f>>].protocol # "tcp"
  PROVE  MessagesInv'
<1>. QueuesTyped
  BY TablesInvParts
<1>1. Numbered' /\ FdsGiven'
  BY NumbersLeft, FirstClient
<1>2. CASE c = 0
  <2>1. ASSUME NEW q \in Queues
        PROVE  QueueGood(q)'
    <3>1. QueueGood(q)
      BY DEF MessagesInv, QueueGood
    <3>2. ASSUME NEW m \in Sent(q), Datagram(q, m)
          PROVE  Datagram(q, m)'
      <4>1. msg_fd[q][m] \in Fds
        BY DEF Sent, QueuesTyped
      <4>. QED  BY <3>2, <4>1 DEF Datagram, SocketOf
    <3>3. \A f \in Fds : f # fd /\ Async(<<0, f>>) => Async(<<0, f>>)'
      BY <1>2
    <3>4. Cleanup(<<0, fd>>)
      BY <1>2
    <3>. QED  BY <3>1, <3>2, <3>3, <3>4, CleanupGood
  <2>. QED  BY <1>1, <2>1 DEF MessagesInv, QueueGood
<1>3. CASE c # 0
  <2>1. UNCHANGED <<pending, used, done_len>>
    BY <1>3 DEF Cleanup
  <2>2. \A f \in Fds : <<0, f>> # <<c, fd>>
    BY <1>3
  <2>. QED  BY <2>1, <2>2, MessagesLeft, FirstClient DEF messages
<1>. QED  BY <1>2, <1>3

LEMMA CloseMessages ==
  ASSUME TablesInv, MessagesInv, use' = use, NEW c \in use.clients, NEW fd \in Fds,
         pico_control_close(c, fd)
  PROVE  MessagesInv'
<1>. TablesTyped
  BY DEF TablesInv, Typed
<1>1. /\ c \in Clients /\ Cleanup(<<c, fd>>) /\ <<c, fd>> \in Sockets
      /\ UNCHANGED <<available, msg_fd, stream, bump_index>>
      /\ record' = [record EXCEPT ![<<c, fd>>] = Freed]
      /\ socket_table' = [socket_table EXCEPT ![c] = @ \ {fd}]
  BY UseTyped, TablesInvParts DEF pico_control_close, DeleteSocket, Sockets
<1>2. \A f \in Fds : <<0, f>> # <<c, fd>> => /\ record'[<<0, f>>] = record[<<0, f>>]
                                             /\ f \in socket_table[0] => f \in socket_table'[0]
  BY <1>1, FirstClient DEF TablesTyped, Sockets
<1>3. record'[<<c, fd>>].protocol # "tcp"
  BY <1>1 DEF TablesTyped, Freed
<1>4. \A f \in Fds : <<0, f>> # <<c, fd>> /\ Async(<<0, f>>) => Async(<<0, f>>)'
  BY <1>2 DEF Async
<1>5. \A f \in Fds : record[<<0, f>>].protocol # "tcp" => record'[<<0, f>>].protocol # "tcp"
  BY <1>2, <1>3
<1>. QED  BY <1>1, <1>4, <1>5, CleanupMessages

LEMMA SetAsyncMessages ==
  ASSUME TablesInv, MessagesInv, use' = use, NEW c \in use.clients, NEW fd \in Fds,
         NEW enabled \in BOOLEAN, pico_control_set_async(c, fd, enabled)
  PROVE  MessagesInv'
<1>. TablesTyped
  BY DEF TablesInv, Typed
<1>1. /\ c \in Clients /\ <<c, fd>> \in Sockets /\ record[<<c, fd>>] # Freed
      /\ UNCHANGED <<available, msg_fd, stream, bump_index, socket_table>>
      /\ record' = [record EXCEPT ![<<c, fd>>].async = enabled]
  BY UseTyped, TablesInvParts DEF pico_control_set_async, Sockets
<1>2. PICK r \in Records : r = record[<<c, fd>>] /\ r # Freed
  BY <1>1 DEF TablesTyped
<1>3. PICK new : new = [r EXCEPT !.async = enabled]
  OBVIOUS
<1>4. new.async = enabled /\ new.protocol = r.protocol
  BY <1>2, <1>3 DEF Records, Freed
<1>5. record' = [record EXCEPT ![<<c, fd>>] = new]
  BY <1>1, <1>2, <1>3 DEF TablesTyped
<1>6. /\ record'[<<c, fd>>] = new
      /\ \A f \in Fds : <<0, f>> # <<c, fd>> => record'[<<0, f>>] = record[<<0, f>>]
  BY <1>1, <1>5, FirstClient DEF TablesTyped, Sockets
<1>7. \A f \in Fds : record[<<0, f>>].protocol # "tcp" => record'[<<0, f>>].protocol # "tcp"
  BY <1>2, <1>4, <1>6
<1>8. \A f \in Fds : <<0, f>> # <<c, fd>> /\ Async(<<0, f>>) => Async(<<0, f>>)'
  BY <1>1, <1>6 DEF Async
<1>9. CASE enabled
  <2>1. UNCHANGED messages
    BY <1>1, <1>9 DEF pico_control_set_async, messages
  <2>2. \A f \in Fds : Async(<<0, f>>) => Async(<<0, f>>)'
    BY <1>1, <1>4, <1>6, <1>8, <1>9 DEF Async
  <2>. QED  BY <1>1, <1>7, <2>1, <2>2, MessagesLeft, FirstClient
<1>10. CASE ~enabled
  <2>1. Cleanup(<<c, fd>>)
    BY <1>10 DEF pico_control_set_async
  <2>. QED  BY <1>1, <1>7, <1>8, <2>1, CleanupMessages
<1>. QED  BY <1>9, <1>10

(* The client queues a message behind all it has queued.                        *)
LEMMA SubmitMessages ==
  ASSUME TablesInv, TablesInv', MessagesInv, use' = use, NEW q \in Queues, NEW fd \in Fds,
         Submit(q, fd)
  PROVE  MessagesInv'
<1>. QueuesTyped /\ TablesTyped /\ use \in Uses
  BY TablesInvParts DEF TablesInv, Typed
<1>1. PICK n \in 0..use.msgs : /\ Sent("tx") \cup Sent("rx") = 1..n
                               /\ Sent("tx") \cap Sent("rx") = {}
  BY DEF MessagesInv, Numbered
<1>2. PICK m : m = Cardinality(Sent("tx") \cup Sent("rx")) + 1
  OBVIOUS
<1>3. m = n + 1 /\ n \in Nat /\ use.msgs \in Nat
  <2>1. use.msgs \in Nat
    BY UseTyped, ConstantsAssumption
  <2>2. n \in Nat
    BY <2>1
  <2>3. Cardinality(1..n) = n
    BY <2>2, FS_Interval
  <2>. QED  BY <1>1, <1>2, <2>1, <2>2, <2>3
<1>4. /\ fd < bump_index[0] /\ m <= use.msgs
      /\ msg_fd' = [msg_fd EXCEPT ![q][m] = fd]
      /\ available' = [available EXCEPT ![q] = Append(available[q], m)]
      /\ UNCHANGED <<socket_table, record, bump_index, used, pending, done_len, stream>>
  BY <1>2 DEF Submit, tables
<1>5. m \in Msgs /\ m \in Nat /\ fd # 0
  BY <1>3, <1>4, UseTyped, ConstantsAssumption DEF Msgs, Fds
<1>6. /\ m \notin Sent(q) /\ msg_fd[q][m] = 0
      /\ \A r \in Queues : m \notin Sent(r) /\ \A x \in Sent(r) : x \in Msgs /\ x < m
  <2>1. \A r \in Queues : \A x \in Sent(r) : x \in 1..n /\ x \in Msgs
    BY <1>1 DEF Queues, Sent
  <2>2. \A r \in Queues : m \notin Sent(r)
    BY <1>3, <2>1
  <2>3. \A r \in Queues : \A x \in Sent(r) : x \in Msgs /\ x < m
    BY <1>3, <2>1
  <2>4. msg_fd[q][m] = 0
    BY <1>5, <2>2 DEF Sent
  <2>. QED  BY <2>2, <2>3, <2>4
<1>7. /\ msg_fd'[q][m] = fd
      /\ \A x \in Msgs : x # m => msg_fd'[q][x] = msg_fd[q][x]
      /\ \A r \in Queues : r # q => msg_fd'[r] = msg_fd[r] /\ available'[r] = available[r]
      /\ available'[q] = Append(available[q], m)
  BY <1>4, <1>5 DEF QueuesTyped
<1>8. Sent(q)' = Sent(q) \cup {m} /\ \A r \in Queues : r # q => Sent(r)' = Sent(r)
  BY <1>5, <1>7 DEF Sent
<1>9. Numbered'
  <2>1. Sent("tx")' \cup Sent("rx")' = 1..(n + 1)
    <3>1. 1..(n + 1) = (1..n) \cup {n + 1}
      BY <1>3
    <3>. QED  BY <1>1, <1>3, <1>8, <3>1 DEF Queues
  <2>2. Sent("tx")' \cap Sent("rx")' = {}
    BY <1>1, <1>6, <1>8 DEF Queues
  <2>3. n + 1 \in 0..use.msgs
    BY <1>3, <1>4
  <2>. QED  BY <2>1, <2>2, <2>3 DEF Numbered
<1>10. FdsGiven'
  <2>1. ASSUME NEW r \in Queues, NEW x \in Sent(r)'
        PROVE  msg_fd'[r][x] < bump_index[0]
    <3>1. CASE r = q /\ x = m
      BY <1>4, <1>7, <3>1
    <3>2. CASE ~(r = q /\ x = m)
      <4>1. x \in Sent(r) /\ msg_fd'[r][x] = msg_fd[r][x]
        BY <1>6, <1>7, <1>8, <3>2
      <4>. QED  BY <4>1 DEF MessagesInv, FdsGiven
    <3>. QED  BY <3>1, <3>2
  <2>. QED  BY <1>4, <2>1 DEF FdsGiven
<1>11. QueueGood(q)
  BY DEF MessagesInv, QueueGood
<1>12. /\ \A f \in Fds : Async(<<0, f>>)' <=> Async(<<0, f>>)
       /\ \A x \in Msgs : x # m => (Datagram(q, x)' <=> Datagram(q, x))
  BY <1>4, <1>7 DEF Async, Datagram, SocketOf
<1>13. /\ ~Contains(available[q], m) /\ ~Contains(used[q], m)
       /\ \A f \in Fds : ~Contains(pending[q][f], m) /\ ~Contains(stream[q][f], m)
  <2>1. ~Contains(available[q], m) /\ ~Contains(used[q], m)
    BY <1>5, <1>6, <1>11 DEF QueueGood, Placed
  <2>2. \A f \in Fds : f # 0
    BY DEF Fds
  <2>3. \A f \in Fds : Contains(pending[q][f], m) => msg_fd[q][m] = f
    BY <1>5, <1>11 DEF QueueGood, Placed
  <2>4. \A f \in Fds : Contains(stream[q][f], m) => msg_fd[q][m] = f
    BY <1>5, <1>11 DEF QueueGood, Queued
  <2>. QED  BY <1>6, <2>1, <2>2, <2>3, <2>4
<1>14. /\ \A x \in Msgs : Contains(available[q], x) => x < m
       /\ \A f \in Fds : \A x \in Msgs : /\ Contains(pending[q][f], x) => x < m
                                         /\ Contains(stream[q][f], x) => x < m
  <2>1. \A x \in Msgs : Contains(available[q], x) => x < m
    BY <1>6, <1>11 DEF QueueGood, Placed
  <2>2. ASSUME NEW f \in Fds, NEW x \in Msgs,
               Contains(pending[q][f], x) \/ Contains(stream[q][f], x)
        PROVE  x < m
    <3>1. msg_fd[q][x] = f
      BY <1>11, <2>2 DEF QueueGood, Placed, Queued
    <3>2. x \in Sent(q)
      BY <3>1 DEF Sent, Fds
    <3>. QED  BY <1>6, <3>2
  <2>. QED  BY <2>1, <2>2
<1>15. /\ Increasing(available'[q])
       /\ \A x : Contains(available'[q], x) <=> Contains(available[q], x) \/ x = m
  <2>1. available[q] \in Seq(Msgs) /\ Increasing(available[q])
    BY <1>11 DEF QueuesTyped, QueueGood, Placed
  <2>. QED  BY <1>5, <1>7, <1>14, <2>1, IncreasingAppend, ContainsAppend
<1>16. Placed(q)'
  <2>1. ASSUME NEW f \in Fds
        PROVE  /\ Increasing(pending[q][f])
               /\ pending[q][f] # <<>> => Async(<<0, f>>)
               /\ \A x \in Msgs : Contains(pending[q][f], x) => msg_fd'[q][x] = f
    BY <1>7, <1>11, <1>13 DEF QueueGood, Placed
  <2>2. ASSUME NEW x \in Sent(q)'
        PROVE  \/ Contains(available'[q], x) \/ Contains(used[q], x)
               \/ Contains(pending[q][msg_fd'[q][x]], x)
    <3>1. CASE x = m
      BY <1>15, <3>1
    <3>2. CASE x # m
      <4>1. x \in Sent(q) /\ x \in Msgs /\ msg_fd'[q][x] = msg_fd[q][x]
        BY <1>6, <1>7, <1>8, <3>2
      <4>. QED  BY <1>11, <1>15, <4>1 DEF QueueGood, Placed
    <3>. QED  BY <3>1, <3>2
  <2>3. ASSUME NEW x \in Msgs
        PROVE  /\ Contains(available'[q], x) \/ Contains(used[q], x) => x \in Sent(q)'
               /\ Contains(used[q], x) => /\ ~Contains(available'[q], x)
                                          /\ \A f \in Fds : ~Contains(pending[q][f], x)
    BY <1>8, <1>11, <1>13, <1>15 DEF QueueGood, Placed
  <2>4. Once(used[q])
    BY <1>11 DEF QueueGood, Placed
  <2>. QED  BY <1>4, <1>12, <1>15, <2>1, <2>2, <2>3, <2>4 DEF Placed
<1>17. Queued(q)'
  <2>1. ASSUME NEW f \in Fds
        PROVE  /\ Ordered(stream[q][f])
               /\ \A x \in Msgs : Contains(stream[q][f], x) =>
                     /\ msg_fd'[q][x] = f
                     /\ \A y \in Msgs : /\ Contains(available'[q], y) => x < y
                                        /\ Contains(pending[q][f], y) => x <= y
               /\ \A x, y \in Msgs :
                     Contains(pending[q][f], x) /\ Contains(available'[q], y) => x < y
    BY <1>7, <1>11, <1>13, <1>14, <1>15 DEF QueueGood, Queued
  <2>. QED  BY <1>4, <2>1 DEF Queued
<1>18. Counted(q)'
  <2>1. \A x \in Msgs \ Sent(q)' : done_len[q][x] = 0
    BY <1>8, <1>11 DEF QueueGood, Counted
  <2>2. ASSUME NEW x \in Sent(q)', NEW parts, parts = Parts(stream[q][msg_fd'[q][x]], x)
        PROVE  /\ Contains(available'[q], x) => done_len[q][x] = 0
               /\ Contains(pending[q][msg_fd'[q][x]], x) =>
                     done_len[q][x] = parts /\ parts < MsgLen
               /\ Contains(used[q], x) /\ done_len[q][x] # -1 =>
                     /\ done_len[q][x] = parts
                     /\ parts = MsgLen \/ (Datagram(q, x)' /\ parts > 0)
    <3>1. CASE x = m
      BY <1>5, <1>6, <1>7, <1>11, <1>13, <3>1 DEF QueueGood, Counted
    <3>2. CASE x # m
      <4>1. x \in Sent(q) /\ x \in Msgs /\ msg_fd'[q][x] = msg_fd[q][x]
        BY <1>6, <1>7, <1>8, <3>2
      <4>. QED  BY <1>11, <1>12, <1>15, <2>2, <3>2, <4>1 DEF QueueGood, Counted
    <3>. QED  BY <3>1, <3>2
  <2>. QED  BY <1>4, <2>1, <2>2 DEF Counted
<1>19. ASSUME NEW r \in Queues, r # q
       PROVE  QueueGood(r)'
  <2>1. QueueGood(r)
    BY DEF MessagesInv, QueueGood
  <2>2. \A f \in Fds : pending[r][f] # <<>> => Async(<<0, f>>)'
    BY <1>12, <2>1 DEF QueueGood, Placed
  <2>3. \A x \in Sent(r) : Datagram(r, x) => Datagram(r, x)'
    BY <1>4, <1>7, <1>19 DEF Datagram, SocketOf
  <2>. QED  BY <1>4, <1>7, <1>19, <2>1, <2>2, <2>3, QueueLeft
<1>. QED  BY <1>9, <1>10, <1>16, <1>17, <1>18, <1>19 DEF MessagesInv, QueueGood

(* A step that changes the flags in one record changes nothing else in any.     *)
LEMMA EventsOnly ==
  ASSUME record \in [Sockets -> Records], NEW s, NEW ev, NEW t \in Sockets,
         record' = [record EXCEPT ![s].events = ev]
  PROVE  record'[t].async = record[t].async /\ record'[t].protocol = record[t].protocol
<1>1. PICK r \in Records : r = record[t]
  OBVIOUS
<1>2. PICK new : new = [r EXCEPT !.events = ev]
  OBVIOUS
<1>3. new.async = r.async /\ new.protocol = r.protocol
  BY <1>2 DEF Records, Freed
<1>4. record'[t] = IF t = s THEN new ELSE r
  BY <1>1, <1>2
<1>. QED  BY <1>1, <1>3, <1>4

LEMMA MessagesInit ==
  ASSUME Init
  PROVE  MessagesInv
<1>1. \A q \in Queues : Sent(q) = {}
  BY DEF Init, Sent
<1>2. Numbered /\ FdsGiven
  <2>1. Sent("tx") \cup Sent("rx") = 1..0 /\ Sent("tx") \cap Sent("rx") = {}
    BY <1>1 DEF Queues
  <2>2. 0 \in 0..use.msgs
    BY UseTyped, ConstantsAssumption DEF Init
  <2>. QED  BY <1>1, <2>1, <2>2 DEF Numbered, FdsGiven
<1>3. \A x : ~Contains(<<>>, x)
  BY DEF Contains
<1>4. Increasing(<<>>) /\ Ordered(<<>>) /\ Once(<<>>)
  BY DEF Increasing, Ordered, Once
<1>5. ASSUME NEW q \in Queues
      PROVE  Placed(q) /\ Queued(q) /\ Counted(q)
  <2>1. /\ available[q] = <<>> /\ used[q] = <<>>
        /\ \A fd \in Fds : pending[q][fd] = <<>> /\ stream[q][fd] = <<>>
        /\ \A m \in Msgs : done_len[q][m] = 0
    BY DEF Init
  <2>. QED  BY <1>1, <1>3, <1>4, <2>1 DEF Placed, Queued, Counted
<1>. QED  BY <1>2, <1>5 DEF MessagesInv

LEMMA MessagesStep ==
  ASSUME TablesInv, TablesInv', MessagesInv, AddressesKept(use), QueuesKept(use),
         [Next]_<<vars, use>>
  PROVE  MessagesInv'
<1>1. CASE UNCHANGED <<vars, use>>
  <2>1. UNCHANGED <<messages, bump_index, record, socket_table, use>>
    BY <1>1 DEF vars, tables
  <2>. QED  BY <2>1, MessagesLeft, FirstClient DEF Async
<1>2. CASE Next
  <2>. use' = use
    BY <1>2 DEF Next
  <2>1. ASSUME NEW c \in use.clients, Calls(c)
        PROVE  MessagesInv'
    <3>1. ASSUME NEW fd \in Fds, pico_control_listen(c, fd)
          PROVE  MessagesInv'
      <4>1. UNCHANGED <<messages, bump_index, record, socket_table>>
        BY <3>1 DEF pico_control_listen, tables
      <4>. QED  BY <4>1, MessagesLeft, FirstClient DEF Async
    <3>2. CASE pico_control_event_poll(c)
      <4>1. UNCHANGED <<messages, bump_index, socket_table>>
        BY <3>2 DEF pico_control_event_poll
      <4>2. \A f \in Fds : /\ record'[<<0, f>>].async = record[<<0, f>>].async
                           /\ record'[<<0, f>>].protocol = record[<<0, f>>].protocol
        <5>1. CASE record' = record
          BY <5>1
        <5>2. ASSUME NEW fd, record' = [record EXCEPT ![<<c, fd>>].events = {}]
              PROVE  <4>2
          <6>. SUFFICES ASSUME NEW f \in Fds
                        PROVE  /\ record'[<<0, f>>].async = record[<<0, f>>].async
                               /\ record'[<<0, f>>].protocol = record[<<0, f>>].protocol
            OBVIOUS
          <6>1. <<0, f>> \in Sockets /\ record \in [Sockets -> Records]
            BY FirstClient DEF TablesInv, Typed, TablesTyped, Sockets
          <6>. QED  BY <5>2, <6>1, EventsOnly
        <5>. QED  BY <3>2, <5>1, <5>2 DEF pico_control_event_poll
      <4>. QED  BY <4>1, <4>2, MessagesLeft, FirstClient DEF Async
    <3>. QED  BY <2>1, <3>1, <3>2, OpenMessages, AcceptMessages, CloseMessages,
              SetAsyncMessages DEF Calls
  <2>2. ASSUME NEW c \in use.clients, Wake(c)
        PROVE  MessagesInv'
    <3>1. UNCHANGED <<messages, bump_index, record, socket_table>>
      BY <2>2 DEF Wake, tables
    <3>. QED  BY <3>1, MessagesLeft, FirstClient DEF Async
  <2>3. CASE Handlers
    <3>1. CASE put_event
      <4>1. UNCHANGED <<messages, bump_index, socket_table>>
        BY <3>1 DEF put_event
      <4>2. \A f \in Fds : /\ record'[<<0, f>>].async = record[<<0, f>>].async
                           /\ record'[<<0, f>>].protocol = record[<<0, f>>].protocol
        <5>1. PICK s, ev : record' = [record EXCEPT ![s].events = ev]
          BY <3>1 DEF put_event
        <5>. SUFFICES ASSUME NEW f \in Fds
                      PROVE  /\ record'[<<0, f>>].async = record[<<0, f>>].async
                             /\ record'[<<0, f>>].protocol = record[<<0, f>>].protocol
          OBVIOUS
        <5>2. <<0, f>> \in Sockets /\ record \in [Sockets -> Records]
          BY FirstClient DEF TablesInv, Typed, TablesTyped, Sockets
        <5>. QED  BY <5>1, <5>2, EventsOnly
      <4>. QED  BY <4>1, <4>2, MessagesLeft, FirstClient DEF Async
    <3>2. CASE (\E a \in use.addresses, ev \in SUBSET use.events : socket_cb(a, ev))
               \/ notify_client \/ tx_queue_handle_irq
      <4>1. UNCHANGED <<messages, bump_index, record, socket_table>>
        BY <3>2 DEF socket_cb, notify_client, tx_queue_handle_irq, tables
      <4>. QED  BY <4>1, MessagesLeft, FirstClient DEF Async
    <3>. QED  BY <2>3, <3>1, <3>2, QueueHandleMessages, HandleSocketMessages DEF Handlers
  <2>4. ASSUME NEW q \in Queues, NEW fd \in Fds, Submit(q, fd)
        PROVE  MessagesInv'
    BY <2>4, SubmitMessages
  <2>5. ASSUME NEW a \in use.addresses, Stack(a)
        PROVE  MessagesInv'
    <3>1. UNCHANGED <<messages, bump_index, record, socket_table>>
      BY <2>5 DEF Stack, tables
    <3>. QED  BY <3>1, MessagesLeft, FirstClient DEF Async
  <2>. QED  BY <1>2, <2>1, <2>2, <2>3, <2>4, <2>5 DEF Next
<1>. QED  BY <1>1, <1>2

-------------------------------------------------------------------------------
(* What the invariants say to the clients.                                      *)

(* A queue that increases holds a message once, and at one place.               *)
LEMMA PlaceOnce ==
  ASSUME NEW s \in Seq(Msgs), Increasing(s) \/ Once(s), NEW m \in Msgs, Contains(s, m)
  PROVE  \E i \in 1..Len(s) : {j \in 1..Len(s) : s[j] = m} = {i}
<1>1. PICK i \in 1..Len(s) : s[i] = m
  BY DEF Contains
<1>2. ASSUME NEW j \in 1..Len(s), s[j] = m
      PROVE  j = i
  <2>1. CASE Once(s)
    BY <1>1, <1>2, <2>1 DEF Once
  <2>2. CASE Increasing(s)
    <3>1. m \in Nat /\ ~(m < m)
      BY DEF Msgs
    <3>2. ~(i < j) /\ ~(j < i)
      BY <1>1, <1>2, <2>2, <3>1 DEF Increasing
    <3>. QED  BY <3>2
  <2>. QED  BY <2>1, <2>2
<1>. QED  BY <1>1, <1>2

LEMMA PlacedKept ==
  ASSUME QueuesTyped, NEW q \in Queues, QueueGood(q), NEW m \in Sent(q)
  PROVE  Cardinality(PlacesOf(q, m)) = 1
<1>1. PICK f \in Fds : f = msg_fd[q][m]
  BY DEF Sent, QueuesTyped
<1>2. m \in Msgs
  BY DEF Sent
<1>3. PICK A : A = {<<"available", i>> :
                       i \in {i \in 1..Len(available[q]) : available[q][i] = m}}
  OBVIOUS
<1>4. PICK U : U = {<<"used", i>> : i \in {i \in 1..Len(used[q]) : used[q][i] = m}}
  OBVIOUS
<1>5. DEFINE P(fd) == {<<fd, i>> :
                          i \in {i \in 1..Len(pending[q][fd]) : pending[q][fd][i] = m}}
<1>6. PlacesOf(q, m) = A \cup U \cup UNION {P(fd) : fd \in {fd \in Fds : Async(<<0, fd>>)}}
  BY <1>3, <1>4 DEF PlacesOf
<1>7. /\ ~Contains(available[q], m) => A = {}
      /\ ~Contains(used[q], m) => U = {}
      /\ \A fd \in Fds : ~Contains(pending[q][fd], m) => P(fd) = {}
  BY <1>3, <1>4 DEF Contains
<1>8. /\ available[q] \in Seq(Msgs) /\ Increasing(available[q])
      /\ used[q] \in Seq(Msgs) /\ Once(used[q])
      /\ pending[q][f] \in Seq(Msgs) /\ Increasing(pending[q][f])
  BY DEF QueuesTyped, QueueGood, Placed
<1>9. \A fd \in Fds : Contains(pending[q][fd], m) => fd = f
  BY <1>1, <1>2 DEF QueueGood, Placed
<1>10. Contains(pending[q][f], m) => ~Contains(available[q], m)
  <2>1. Contains(pending[q][f], m) /\ Contains(available[q], m) => m < m
    BY <1>2 DEF QueueGood, Queued
  <2>. QED  BY <1>2, <2>1 DEF Msgs
<1>11. Contains(used[q], m) => ~Contains(available[q], m) /\ ~Contains(pending[q][f], m)
  BY <1>2 DEF QueueGood, Placed
<1>12. Contains(available[q], m) \/ Contains(used[q], m) \/ Contains(pending[q][f], m)
  BY <1>1 DEF QueueGood, Placed
<1>13. \E p : PlacesOf(q, m) = {p}
  <2>1. CASE Contains(available[q], m)
    <3>. available[q] \in Seq(Msgs) /\ Increasing(available[q])
      BY <1>8
    <3>1. PICK i \in 1..Len(available[q]) : {j \in 1..Len(available[q]) : available[q][j] = m} = {i}
      BY <1>2, <2>1, PlaceOnce
    <3>2. A = {<<"available", i>>} /\ U = {} /\ \A fd \in Fds : P(fd) = {}
      BY <1>3, <1>7, <1>9, <1>10, <1>11, <2>1, <3>1
    <3>. HIDE DEF P
    <3>3. PlacesOf(q, m) = {<<"available", i>>}
      BY <1>6, <3>2
    <3>. QED  BY <3>3
  <2>2. CASE Contains(used[q], m)
    <3>. used[q] \in Seq(Msgs) /\ Once(used[q])
      BY <1>8
    <3>1. PICK i \in 1..Len(used[q]) : {j \in 1..Len(used[q]) : used[q][j] = m} = {i}
      BY <1>2, <2>2, PlaceOnce
    <3>2. U = {<<"used", i>>} /\ A = {} /\ \A fd \in Fds : P(fd) = {}
      BY <1>4, <1>7, <1>9, <1>11, <2>2, <3>1
    <3>. HIDE DEF P
    <3>3. PlacesOf(q, m) = {<<"used", i>>}
      BY <1>6, <3>2
    <3>. QED  BY <3>3
  <2>3. CASE Contains(pending[q][f], m)
    <3>. pending[q][f] \in Seq(Msgs) /\ Increasing(pending[q][f])
      BY <1>8
    <3>1. PICK i \in 1..Len(pending[q][f]) : {j \in 1..Len(pending[q][f]) : pending[q][f][j] = m} = {i}
      BY <1>2, <2>3, PlaceOnce
    <3>2. P(f) = {<<f, i>>} /\ A = {} /\ U = {} /\ \A fd \in Fds : fd # f => P(fd) = {}
      BY <1>7, <1>9, <1>10, <1>11, <2>3, <3>1
    <3>3. Async(<<0, f>>)
      BY <1>8, <2>3 DEF QueueGood, Placed, Contains
    <3>. HIDE DEF P
    <3>4. PlacesOf(q, m) = {<<f, i>>}
      BY <1>6, <3>2, <3>3
    <3>. QED  BY <3>4
  <2>. QED  BY <1>12, <2>1, <2>2, <2>3
<1>. QED  BY <1>13, FS_Singleton

LEMMA MessagesImply ==
  ASSUME TablesInv, MessagesInv
  PROVE  MessagesKept /\ InOrder /\ GivenBackWhole
<1>. QueuesTyped
  BY TablesInvParts
<1>1. MessagesKept
  BY PlacedKept DEF MessagesKept, MessagesInv, QueueGood
<1>2. ASSUME NEW q \in Queues, NEW fd \in Fds, NEW i \in 1..(Len(stream[q][fd]) - 1)
      PROVE  stream[q][fd][i] <= stream[q][fd][i + 1]
  <2>1. Ordered(stream[q][fd]) /\ Len(stream[q][fd]) \in Nat
    BY DEF MessagesInv, Queued, QueuesTyped
  <2>2. i \in 1..Len(stream[q][fd]) /\ i + 1 \in 1..Len(stream[q][fd]) /\ i <= i + 1
    BY <2>1
  <2>. QED  BY <2>1, <2>2 DEF Ordered
<1>3. ASSUME NEW q \in Queues, NEW m \in Sent(q), NEW taken, taken = stream[q][msg_fd[q][m]],
             Contains(used[q], m), done_len[q][m] # -1
      PROVE  /\ Cardinality({i \in 1..Len(taken) : taken[i] = m}) = done_len[q][m]
             /\ \/ Cardinality({i \in 1..Len(taken) : taken[i] = m}) = MsgLen
                \/ /\ q = "rx" /\ record[SocketOf(q, m)].protocol # "tcp"
                   /\ Cardinality({i \in 1..Len(taken) : taken[i] = m}) > 0
  BY <1>3 DEF MessagesInv, Counted, Datagram, Parts
<1>. QED  BY <1>1, <1>2, <1>3 DEF InOrder, GivenBackWhole

-------------------------------------------------------------------------------
(* The theorems. Which uses of the server they speak of is their hypothesis,    *)
(* for the reasons given at AddressesKept and QueuesKept.                       *)

(* The tables' invariant holds while the stack gives an address that the server *)
(* still holds to nobody, or to a client of so few sockets that kh_del finds    *)
(* the old one.                                                                 *)
THEOREM TablesHold ==
  ASSUME \A u \in Uses : AddressesKept(u)
  PROVE  Spec => []TablesInv
<1>1. TablesInv /\ [Next]_<<vars, use>> => TablesInv'
  <2>. SUFFICES ASSUME TablesInv, [Next]_<<vars, use>> PROVE TablesInv'
    OBVIOUS
  <2>1. AddressesKept(use)
    BY DEF TablesInv, Typed, OthersTyped
  <2>. QED  BY <2>1, TablesStep
<1>2. Init => TablesInv
  BY TablesInit
<1>. QED  BY <1>1, <1>2, PTL DEF Spec

(* The tables, the queues and the messages keep within their types: no fd is    *)
(* past INT_MAX + 1, and no message has more parts done than it has.            *)
THEOREM TypeCorrect ==
  ASSUME \A u \in Uses : AddressesKept(u)
  PROVE  Spec => []TypeOK
<1>1. TablesInv => TypeOK
  BY TypedTypeOK DEF TablesInv
<1>. QED  BY <1>1, TablesHold, PTL

(* The address table and the clients' tables describe the same sockets, none of *)
(* them freed, and the sockets with events are those that have flags to report, *)
(* after any opens, accepts, closes, polls and drops by the stack.              *)
THEOREM TablesConsistent ==
  ASSUME \A u \in Uses : AddressesKept(u)
  PROVE  Spec => []TablesAgree
<1>1. TablesInv => TablesAgree
  BY DEF TablesInv
<1>. QED  BY <1>1, TablesHold, PTL

(* No ZF_LOGF assertion on the tables fails: every fd with an event to report   *)
(* and every socket the stack calls back for is one the tables hold.            *)
THEOREM NoAssertionFails ==
  ASSUME \A u \in Uses : AddressesKept(u)
  PROVE  Spec => []AssertionsHold
<1>1. TablesInv => AssertionsHold
  BY DEF TablesInv
<1>. QED  BY <1>1, TablesHold, PTL

(* The messages' invariant holds with it while no message waits at a socket     *)
(* whose address the stack gives again.                                         *)
THEOREM MessagesHold ==
  ASSUME \A u \in Uses : AddressesKept(u) /\ QueuesKept(u)
  PROVE  Spec => [](TablesInv /\ MessagesInv)
<1>1. TablesInv /\ TablesInv' /\ MessagesInv /\ [Next]_<<vars, use>> => MessagesInv'
  <2>. SUFFICES ASSUME TablesInv, TablesInv', MessagesInv, [Next]_<<vars, use>>
                PROVE  MessagesInv'
    OBVIOUS
  <2>1. AddressesKept(use) /\ QueuesKept(use)
    BY DEF TablesInv, Typed, OthersTyped
  <2>. QED  BY <2>1, MessagesStep
<1>2. Init => MessagesInv
  BY MessagesInit
<1>3. Spec => []TablesInv
  BY TablesHold
<1>. QED  BY <1>1, <1>2, <1>3, PTL DEF Spec

(* No queued message is lost or given back twice, in whatever order the stack   *)
(* takes parts, fails, and the socket is closed or made synchronous again.      *)
THEOREM MessagesStayPut ==
  ASSUME \A u \in Uses : AddressesKept(u) /\ QueuesKept(u)
  PROVE  Spec => []MessagesKept
<1>. QED  BY MessagesImply, MessagesHold, PTL

(* The stack takes the messages of a socket in the order the client sent them,  *)
(* those that had to wait before those that came meanwhile.                     *)
THEOREM SentInOrder ==
  ASSUME \A u \in Uses : AddressesKept(u) /\ QueuesKept(u)
  PROVE  Spec => []InOrder
<1>. QED  BY MessagesImply, MessagesHold, PTL

(* A message that comes back as done was taken whole, each part once, unless a  *)
(* datagram ended it.                                                           *)
THEOREM GivenBack ==
  ASSUME \A u \in Uses : AddressesKept(u) /\ QueuesKept(u)
  PROVE  Spec => []GivenBackWhole
<1>. QED  BY MessagesImply, MessagesHold, PTL
===============================================================================
