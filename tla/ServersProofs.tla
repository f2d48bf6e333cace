---------------------------- MODULE ServersProofs ----------------------------
(* Proofs about the servers of single-threaded components, for every number of  *)
(* clients, pins, clocks and fds and every wiring of the connections: what waits*)
(* in the endpoints and behind the saved reply capabilities, that the sender an *)
(* implementation asks for is the caller, and that the servers implement the    *)
(* ownership of pins, clocks and open files.                                    *)
EXTENDS Servers, TLAPS, WellFoundedInduction

In(t, q) == \E n \in 1..Len(q) : q[n] = t
Once(q) == \A n, l \in 1..Len(q) : q[n] = q[l] => n = l

(* Who waits in an endpoint when one more caller has come.                    *)
LEMMA QueueAppend ==
  ASSUME NEW S, NEW q \in Seq(S), NEW t \in S
  PROVE  /\ Append(q, t) \in Seq(S)
         /\ \A u : In(u, Append(q, t)) <=> In(u, q) \/ u = t
         /\ Once(q) /\ ~In(t, q) => Once(Append(q, t))
<1>. DEFINE p == Append(q, t)
<1>1. p \in Seq(S) /\ Len(p) = Len(q) + 1 /\ Len(q) \in Nat
  OBVIOUS
<1>2. p[Len(q) + 1] = t /\ \A n \in 1..Len(q) : p[n] = q[n]
  OBVIOUS
<1>3. \A u : In(u, p) <=> In(u, q) \/ u = t
  BY <1>1, <1>2 DEF In
<1>4. Once(q) /\ ~In(t, q) => Once(p)
  BY <1>1, <1>2 DEF In, Once
<1>. QED  BY <1>1, <1>3, <1>4

(* Who waits in an endpoint when the first caller has been taken.             *)
LEMMA QueueTail ==
  ASSUME NEW S, NEW q \in Seq(S), q # <<>>
  PROVE  /\ Tail(q) \in Seq(S) /\ Head(q) \in S
         /\ In(Head(q), q)
         /\ \A u : In(u, Tail(q)) => In(u, q)
         /\ Once(q) => Once(Tail(q)) /\ ~In(Head(q), Tail(q))
<1>. DEFINE p == Tail(q)
<1>1. p \in Seq(S) /\ Len(p) = Len(q) - 1 /\ Len(q) \in Nat \ {0} /\ Head(q) = q[1]
  OBVIOUS
<1>2. \A n \in 1..Len(p) : p[n] = q[n + 1]
  OBVIOUS
<1>3. \A u : In(u, p) => In(u, q)
  BY <1>1, <1>2 DEF In
<1>4. Head(q) \in S /\ In(Head(q), q)
  BY <1>1 DEF In
<1>5. ASSUME Once(q) PROVE Once(p) /\ ~In(Head(q), p)
  BY <1>1, <1>2, <1>5 DEF In, Once
<1>. QED  BY <1>1, <1>3, <1>4, <1>5

-------------------------------------------------------------------------------
CallersOf(i) == {from_ends[i][k] : k \in Places(i)}

(* The servers and their interfaces.                                            *)
LEMMA Connections ==
  /\ Servers = {"gpiomux", "clock", "reset", "fs", "bpmp", "pico"}
  /\ Interfaces = {"gpio", "mux", "clock", "reset", "fs", "bpmp",
                   "pico_control", "pico_send", "pico_recv"}
  /\ ServerOf["gpio"] = "gpiomux" /\ ServerOf["mux"] = "gpiomux"
  /\ ServerOf["clock"] = "clock" /\ ServerOf["reset"] = "reset"
  /\ ServerOf["fs"] = "fs" /\ ServerOf["bpmp"] = "bpmp"
  /\ \A i \in PicoInterfaces : ServerOf[i] = "pico"
  /\ \A i \in Interfaces \ {"bpmp"} : CallersOf(i) = Clients
  /\ CallersOf("bpmp") = BpmpClients
  /\ Threads = Clients \cup BpmpClients /\ Clients \cap BpmpClients = {}
  /\ None \notin Threads
<1>1. Interfaces = {"gpio", "mux", "clock", "reset", "fs", "bpmp",
                   "pico_control", "pico_send", "pico_recv"}
  BY ServersAssumption DEF PicoInterfaces
<1>2. /\ ServerOf["gpio"] = "gpiomux" /\ ServerOf["mux"] = "gpiomux"
      /\ ServerOf["clock"] = "clock" /\ ServerOf["reset"] = "reset"
      /\ ServerOf["fs"] = "fs" /\ ServerOf["bpmp"] = "bpmp"
      /\ \A i \in PicoInterfaces : ServerOf[i] = "pico"
  BY <1>1, ServersAssumption DEF PicoInterfaces
<1>3. Servers = {"gpiomux", "clock", "reset", "fs", "bpmp", "pico"}
  BY <1>1, <1>2 DEF Servers, PicoInterfaces
<1>. QED  BY <1>1, <1>2, <1>3, ServersAssumption, BpmpAssumption, NoneAssumption DEF CallersOf

(* The places of an interface and the badges of its clients.                    *)
LEMMA PlaceOfCaller ==
  ASSUME NEW i \in Interfaces, NEW k \in Places(i)
  PROVE  /\ PlaceOf(i, from_ends[i][k]) = k
         /\ BadgeOf(i, from_ends[i][k]) = badges[i][k]
         /\ badges[i][k] \in Nat \ {0} /\ badges[i][k] \in Badges(i)
<1>1. \A l \in Places(i) : from_ends[i][l] = from_ends[i][k] => l = k
  BY ConnectionsAssumption
<1>2. badges[i] \in Seq(Nat \ {0}) /\ Len(badges[i]) = Len(from_ends[i])
  BY ConnectionsAssumption
<1>3. PlaceOf(i, from_ends[i][k]) = k
  BY <1>1 DEF PlaceOf
<1>. QED  BY <1>2, <1>3 DEF BadgeOf, Badges, Places

(* A client of an interface has a place and a badge there.                    *)
LEMMA CallerPlace ==
  ASSUME NEW i \in Interfaces, NEW t \in CallersOf(i)
  PROVE  /\ PlaceOf(i, t) \in Places(i) /\ from_ends[i][PlaceOf(i, t)] = t
         /\ BadgeOf(i, t) = badges[i][PlaceOf(i, t)]
         /\ BadgeOf(i, t) \in Nat \ {0} /\ BadgeOf(i, t) \in Badges(i)
<1>1. PICK k \in Places(i) : t = from_ends[i][k]
  BY DEF CallersOf
<1>. QED  BY <1>1, PlaceOfCaller

(* Badges tell interfaces of one component, and their clients, apart.           *)
LEMMA BadgesDiffer ==
  ASSUME NEW i \in Interfaces, NEW j \in Interfaces, ServerOf[i] = ServerOf[j],
         NEW k \in Places(i), NEW l \in Places(j), badges[i][k] = badges[j][l]
  PROVE  i = j /\ k = l
BY ConnectionsAssumption

-------------------------------------------------------------------------------
(* t has called the component s.                                                *)
Calling(t, s) ==
    /\ msg[t] # NoCall
    /\ msg[t].iface \in Interfaces /\ ServerOf[msg[t].iface] = s
    /\ t \in CallersOf(msg[t].iface)

(* A message to an interface is not the mark that there is none.              *)
LEMMA CallsDiffer ==
  ASSUME NEW m, m.iface \in Interfaces
  PROVE  m # NoCall
BY NoneAssumption DEF NoCall

(* A thread that has called waits in the endpoint, or behind the reply          *)
(* capability that its server has saved, or its answer is there. A component    *)
(* holds a saved capability just as long as its own call is out.                *)
RpcTypes ==
    /\ endpoint \in [Servers -> Seq(Threads)]
    /\ reply_cap \in [Servers -> Threads \cup {None}]
    /\ DOMAIN msg = Threads /\ DOMAIN ret = Threads
    /\ \A s \in Servers : Once(endpoint[s])

Waiting ==
    \A s \in Servers, t \in Threads : In(t, endpoint[s]) =>
        /\ Calling(t, s) /\ ret[t] = None
        /\ \A u \in Servers : reply_cap[u] # t

Saved ==
    \A s \in Servers, t \in Threads : reply_cap[s] = t =>
        /\ s \in BpmpClients /\ Calling(s, "bpmp")
        /\ Calling(t, s) /\ ret[t] = None

Idle ==
    /\ \A s \in BpmpClients : reply_cap[s] = None => msg[s] = NoCall
    /\ \A t \in Threads : msg[t] = NoCall => ret[t] = None

RpcInv == RpcTypes /\ Waiting /\ Saved /\ Idle

(* Nobody has called at the start.                                            *)
LEMMA RpcInitial == RpcInit => RpcInv
<1>. SUFFICES ASSUME RpcInit PROVE RpcInv
  OBVIOUS
<1>1. \A s \in Servers : endpoint[s] = <<>> /\ reply_cap[s] = None
  BY DEF RpcInit
<1>2. \A s \in Servers, t \in Threads : ~In(t, endpoint[s])
  BY <1>1 DEF In
<1>3. \A s \in Servers : Once(endpoint[s])
  BY <1>1 DEF Once
<1>4. BpmpClients \subseteq Threads /\ None \notin Threads
  BY Connections
<1>. QED  BY <1>1, <1>2, <1>3, <1>4 DEF RpcInit, RpcInv, RpcTypes, Waiting, Saved, Idle

(* A thread that is neither in an endpoint nor behind a reply capability: what  *)
(* changes its message only keeps the others where they are.                    *)
Free(t) == \A s \in Servers : ~In(t, endpoint[s]) /\ reply_cap[s] # t

(* A thread without a call, or with its answer, waits nowhere.                *)
LEMMA FreeThreads ==
  ASSUME RpcInv, NEW t \in Threads, msg[t] = NoCall \/ ret[t] # None
  PROVE  Free(t)
BY DEF RpcInv, Waiting, Saved, Idle, Free, Calling

(* The calls of the threads whose messages stay are the same.                 *)
LEMMA OthersKept ==
  ASSUME NEW t \in Threads,
         \A u \in Threads \ {t} : msg'[u] = msg[u]
  PROVE  \A u \in Threads \ {t} : \A s : Calling(u, s) => Calling(u, s)'
BY DEF Calling, CallersOf, Places

(* A call joins the endpoint of its server.                                   *)
LEMMA CallKeeps ==
  ASSUME RpcInv, NEW t \in Clients, NEW m, Call(t, m),
         m.iface \in Interfaces \ {"bpmp"}
  PROVE  RpcInv'
<1>. DEFINE s == ServerOf[m.iface]
<1>0. s \in Servers /\ t \in Threads /\ t \in CallersOf(m.iface) /\ t \notin BpmpClients /\ m # NoCall
  BY Connections, CallsDiffer DEF Servers
<1>1. msg[t] = NoCall /\ ret[t] = None /\ Free(t)
  BY <1>0, FreeThreads DEF RpcInv, Idle, Call
<1>2. /\ endpoint' = [endpoint EXCEPT ![s] = Append(endpoint[s], t)]
      /\ msg' = [msg EXCEPT ![t] = m]
      /\ UNCHANGED <<reply_cap, ret>>
  BY DEF Call
<1>3. endpoint[s] \in Seq(Threads) /\ DOMAIN msg = Threads
  BY <1>0 DEF RpcInv, RpcTypes
<1>4. /\ \A u \in Servers : Once(endpoint[u])'
      /\ endpoint' \in [Servers -> Seq(Threads)]
      /\ \A u \in Servers, v \in Threads : In(v, endpoint'[u]) => In(v, endpoint[u]) \/ (u = s /\ v = t)
  BY <1>0, <1>1, <1>2, <1>3, QueueAppend DEF RpcInv, RpcTypes, Free
<1>5. /\ \A u \in Threads \ {t} : msg'[u] = msg[u]
      /\ msg'[t] = m /\ DOMAIN msg' = Threads
  BY <1>0, <1>2, <1>3
<1>6. /\ Calling(t, s)'
      /\ \A u \in Threads \ {t} : \A v : Calling(u, v) => Calling(u, v)'
  BY <1>0, <1>5, OthersKept DEF Calling, CallersOf, Places
<1>7. Waiting'
  BY <1>0, <1>1, <1>2, <1>4, <1>6 DEF RpcInv, Waiting, Free
<1>8. Saved'
  BY <1>0, <1>1, <1>2, <1>6, Connections DEF RpcInv, Saved, Free
<1>9. RpcTypes' /\ Idle'
  BY <1>0, <1>2, <1>4, <1>5, Connections DEF RpcInv, RpcTypes, Idle
<1>. QED  BY <1>7, <1>8, <1>9 DEF RpcInv

(* A call that has its answer ends.                                           *)
LEMMA ReturnKeeps ==
  ASSUME RpcInv, NEW t \in Clients, Return(t)
  PROVE  RpcInv'
<1>0. t \in Threads /\ t \notin BpmpClients
  BY Connections
<1>1. ret[t] # None /\ Free(t)
  BY <1>0, FreeThreads DEF Return, HasAnswer
<1>2. /\ msg' = [msg EXCEPT ![t] = NoCall] /\ ret' = [ret EXCEPT ![t] = None]
      /\ UNCHANGED <<endpoint, reply_cap>>
  BY DEF Return
<1>3. /\ \A u \in Threads \ {t} : msg'[u] = msg[u] /\ ret'[u] = ret[u]
      /\ DOMAIN msg' = Threads /\ DOMAIN ret' = Threads
      /\ msg'[t] = NoCall /\ ret'[t] = None
  BY <1>0, <1>2 DEF RpcInv, RpcTypes
<1>4. \A u \in Threads \ {t} : \A v : Calling(u, v) => Calling(u, v)'
  BY <1>0, <1>3, OthersKept
<1>5. Waiting'
  <2>. SUFFICES ASSUME NEW s \in Servers, NEW v \in Threads, In(v, endpoint[s])
                PROVE  /\ Calling(v, s)' /\ ret'[v] = None
                       /\ \A u \in Servers : reply_cap[u] # v
    BY <1>2 DEF Waiting
  <2>. QED  BY <1>1, <1>3, <1>4 DEF RpcInv, Waiting, Free
<1>6. Saved'
  BY <1>0, <1>1, <1>2, <1>3, <1>4, Connections DEF RpcInv, Saved, Free
<1>7. RpcTypes' /\ Idle'
  BY <1>0, <1>2, <1>3, Connections DEF RpcInv, RpcTypes, Idle
<1>. QED  BY <1>5, <1>6, <1>7 DEF RpcInv

(* The caller at the head of an endpoint.                                       *)
LEMMA CallerWaits ==
  ASSUME RpcInv, NEW s \in Servers, endpoint[s] # <<>>
  PROVE  /\ Caller(s) \in Threads /\ In(Caller(s), endpoint[s])
         /\ Calling(Caller(s), s) /\ ret[Caller(s)] = None
         /\ \A u \in Servers : reply_cap[u] # Caller(s)
         /\ \A u \in Servers \ {s} : ~In(Caller(s), endpoint[u])
         /\ Tail(endpoint[s]) \in Seq(Threads) /\ Once(Tail(endpoint[s]))
         /\ ~In(Caller(s), Tail(endpoint[s]))
         /\ \A v : In(v, Tail(endpoint[s])) => In(v, endpoint[s])
<1>. DEFINE c == Caller(s)
<1>1. endpoint[s] \in Seq(Threads) /\ Once(endpoint[s])
  BY DEF RpcInv, RpcTypes
<1>2. /\ c \in Threads /\ In(c, endpoint[s])
      /\ Tail(endpoint[s]) \in Seq(Threads) /\ Once(Tail(endpoint[s]))
      /\ ~In(c, Tail(endpoint[s]))
      /\ \A v : In(v, Tail(endpoint[s])) => In(v, endpoint[s])
  BY <1>1, QueueTail DEF Caller
<1>3. /\ Calling(c, s) /\ ret[c] = None
      /\ \A u \in Servers : reply_cap[u] # c
  BY <1>2 DEF RpcInv, Waiting
<1>4. \A u \in Servers : In(c, endpoint[u]) => Calling(c, u)
  BY <1>2 DEF RpcInv, Waiting
<1>5. \A u : Calling(c, u) => u = s
  BY <1>3 DEF Calling
<1>. QED  BY <1>2, <1>3, <1>4, <1>5

(* Which interface a message is of is known by its badge.                       *)
LEMMA ReceivedInterface ==
  ASSUME RpcInv, NEW i \in Interfaces, NEW op, Receives(i, op)
  PROVE  /\ ServerOf[i] \in Servers /\ reply_cap[ServerOf[i]] = None
         /\ endpoint[ServerOf[i]] # <<>>
         /\ Caller(ServerOf[i]) \in CallersOf(i)
         /\ msg[Caller(ServerOf[i])].iface = i /\ msg[Caller(ServerOf[i])].op = op
         /\ ReceivedBadge(ServerOf[i]) = BadgeOf(i, Caller(ServerOf[i]))
<1>. DEFINE s == ServerOf[i]
            c == Caller(s)
            j == msg[c].iface
<1>1. /\ s \in Servers /\ reply_cap[s] = None /\ endpoint[s] # <<>>
      /\ ReceivedBadge(s) \in Badges(i) /\ msg[c].op = op
  BY DEF Receives, Servers
<1>2. Calling(c, s)
  BY <1>1, CallerWaits
<1>3. j \in Interfaces /\ ServerOf[j] = s /\ c \in CallersOf(j)
  BY <1>2 DEF Calling
<1>4. /\ PlaceOf(j, c) \in Places(j)
      /\ BadgeOf(j, c) = badges[j][PlaceOf(j, c)]
  BY <1>3, CallerPlace
<1>5. ReceivedBadge(s) = BadgeOf(j, c)
  BY DEF ReceivedBadge
<1>6. PICK k \in Places(i) : ReceivedBadge(s) = badges[i][k]
  BY <1>1 DEF Badges
<1>7. i = j
  <2>1. ServerOf[i] = ServerOf[j] /\ badges[i][k] = badges[j][PlaceOf(j, c)]
    BY <1>3, <1>4, <1>5, <1>6
  <2>. HIDE DEF j, c
  <2>. QED  BY <1>3, <1>4, <2>1, BadgesDiffer
<1>. QED  BY <1>1, <1>3, <1>5, <1>7

(* The sender that an implementation asks for is the caller: its number is the  *)
(* caller's place at the interface, and its badge the caller's.                 *)
LEMMA SenderIsCaller ==
  ASSUME RpcInv, NEW i \in Asking, NEW op, Receives(i, op), handle_message(i)
  PROVE  /\ get_sender_id(i) = PlaceOf(i, Caller(ServerOf[i])) - 1
         /\ get_sender_id(i) \in 0..(Len(from_ends[i]) - 1)
         /\ from_ends[i][get_sender_id(i) + 1] = Caller(ServerOf[i])
         /\ interface_badge'[i] = BadgeOf(i, Caller(ServerOf[i]))
<1>. DEFINE c == Caller(ServerOf[i])
            k == PlaceOf(i, c)
<1>0. i \in Interfaces
  BY NoneAssumption
<1>1. c \in CallersOf(i) /\ interface_badge'[i] = BadgeOf(i, c)
  BY <1>0, ReceivedInterface DEF handle_message
<1>2. k \in Places(i) /\ from_ends[i][k] = c /\ interface_badge'[i] = badges[i][k]
  BY <1>0, <1>1, CallerPlace
<1>3. \A l \in Places(i) : badges[i][l] = badges[i][k] => l = k
  BY <1>0, <1>2, BadgesDiffer
<1>4. get_sender_id(i) = k - 1
  BY <1>2, <1>3 DEF get_sender_id
<1>5. Len(from_ends[i]) \in Nat
  BY <1>0, ConnectionsAssumption
<1>. QED  BY <1>1, <1>2, <1>4, <1>5 DEF Places

(* A reply: the caller leaves the endpoint with its answer.                   *)
LEMMA ReplyKeeps ==
  ASSUME RpcInv, NEW i \in Interfaces, NEW op, Receives(i, op), NEW r,
         ReplyRecv(ServerOf[i], r)
  PROVE  RpcInv'
<1>. DEFINE s == ServerOf[i]
            c == Caller(s)
<1>0. s \in Servers /\ endpoint[s] # <<>>
  BY ReceivedInterface
<1>1. /\ c \in Threads /\ In(c, endpoint[s]) /\ msg[c] # NoCall
      /\ \A u \in Servers : reply_cap[u] # c
      /\ \A u \in Servers \ {s} : ~In(c, endpoint[u])
      /\ Tail(endpoint[s]) \in Seq(Threads) /\ Once(Tail(endpoint[s]))
      /\ ~In(c, Tail(endpoint[s]))
      /\ \A v : In(v, Tail(endpoint[s])) => In(v, endpoint[s])
  BY <1>0, CallerWaits DEF Calling
<1>2. /\ ret' = [ret EXCEPT ![c] = r]
      /\ endpoint' = [endpoint EXCEPT ![s] = Tail(endpoint[s])]
      /\ UNCHANGED <<reply_cap, msg>>
  BY DEF ReplyRecv, reply_recv
<1>3. /\ \A u \in Threads \ {c} : ret'[u] = ret[u]
      /\ DOMAIN ret' = Threads
  BY <1>1, <1>2 DEF RpcInv, RpcTypes
<1>4. /\ endpoint' \in [Servers -> Seq(Threads)]
      /\ endpoint'[s] = Tail(endpoint[s])
      /\ \A u \in Servers \ {s} : endpoint'[u] = endpoint[u]
  BY <1>0, <1>1, <1>2 DEF RpcInv, RpcTypes
<1>5. \A u \in Servers, v \in Threads : In(v, endpoint'[u]) => In(v, endpoint[u]) /\ v # c
  BY <1>0, <1>1, <1>4
<1>6. \A u \in Servers : Once(endpoint[u])'
  BY <1>0, <1>1, <1>4 DEF RpcInv, RpcTypes
<1>7. \A u \in Threads : \A v : Calling(u, v) => Calling(u, v)'
  BY <1>2 DEF Calling, CallersOf, Places
<1>8. Waiting'
  BY <1>2, <1>3, <1>5, <1>7 DEF RpcInv, Waiting
<1>9. Saved'
  BY <1>1, <1>2, <1>3, <1>7, Connections DEF RpcInv, Saved
<1>10. RpcTypes' /\ Idle'
  BY <1>1, <1>2, <1>3, <1>4, <1>6, Connections DEF RpcInv, RpcTypes, Idle
<1>. QED  BY <1>8, <1>9, <1>10 DEF RpcInv

(* A nested call: the caller's reply capability is saved, and the server waits. *)
LEMMA CallsOutKeeps ==
  ASSUME RpcInv, NEW i \in {"clock", "reset"}, NEW op, Receives(i, op),
         NEW m, m.iface = "bpmp", CallsOut(i, m)
  PROVE  RpcInv'
<1>. DEFINE c == Caller(i)
<1>0. /\ i \in Servers /\ i \in Interfaces /\ ServerOf[i] = i /\ i \in BpmpClients /\ i # "bpmp"
      /\ i \in Threads /\ "bpmp" \in Servers /\ ServerOf[m.iface] = "bpmp" /\ None \notin Threads
      /\ i \in CallersOf("bpmp") /\ "bpmp" \in Interfaces /\ m # NoCall
  BY Connections, CallsDiffer DEF BpmpClients
<1>1. endpoint[i] # <<>> /\ reply_cap[i] = None /\ c \in CallersOf(i)
  BY <1>0, ReceivedInterface
<1>2. /\ c \in Threads /\ In(c, endpoint[i]) /\ Calling(c, i) /\ ret[c] = None
      /\ \A u \in Servers : reply_cap[u] # c
      /\ \A u \in Servers \ {i} : ~In(c, endpoint[u])
      /\ Tail(endpoint[i]) \in Seq(Threads) /\ Once(Tail(endpoint[i]))
      /\ ~In(c, Tail(endpoint[i]))
      /\ \A v : In(v, Tail(endpoint[i])) => In(v, endpoint[i])
  BY <1>0, <1>1, CallerWaits
<1>3. msg[i] = NoCall /\ ret[i] = None /\ Free(i) /\ c # i
  BY <1>0, <1>1, <1>2, FreeThreads DEF RpcInv, Idle, Calling
<1>4. /\ endpoint' = [endpoint EXCEPT ![i] = Tail(endpoint[i]), !["bpmp"] = Append(endpoint["bpmp"], i)]
      /\ reply_cap' = [reply_cap EXCEPT ![i] = c]
      /\ msg' = [msg EXCEPT ![i] = m]
      /\ UNCHANGED ret
  BY <1>0 DEF CallsOut, RpcInv, RpcTypes
<1>5. /\ endpoint["bpmp"] \in Seq(Threads) /\ Once(endpoint["bpmp"])
      /\ ~In(i, endpoint["bpmp"])
  BY <1>0, <1>3 DEF RpcInv, RpcTypes, Free
<1>6. /\ Append(endpoint["bpmp"], i) \in Seq(Threads)
      /\ Once(Append(endpoint["bpmp"], i))
      /\ \A v : In(v, Append(endpoint["bpmp"], i)) => In(v, endpoint["bpmp"]) \/ v = i
  BY <1>0, <1>5, QueueAppend
<1>7. /\ endpoint' \in [Servers -> Seq(Threads)]
      /\ endpoint'[i] = Tail(endpoint[i]) /\ endpoint'["bpmp"] = Append(endpoint["bpmp"], i)
      /\ \A u \in Servers \ {i, "bpmp"} : endpoint'[u] = endpoint[u]
  BY <1>0, <1>2, <1>4, <1>6 DEF RpcInv, RpcTypes
<1>8. \A u \in Servers, v \in Threads : In(v, endpoint'[u]) =>
          v # c /\ (In(v, endpoint[u]) \/ (v = i /\ u = "bpmp"))
  BY <1>0, <1>2, <1>3, <1>6, <1>7
<1>9. \A u \in Servers : Once(endpoint[u])'
  BY <1>0, <1>2, <1>6, <1>7 DEF RpcInv, RpcTypes
<1>10. /\ \A u \in Threads \ {i} : msg'[u] = msg[u]
       /\ msg'[i] = m /\ DOMAIN msg' = Threads
  BY <1>0, <1>4 DEF RpcInv, RpcTypes
<1>11. /\ Calling(i, "bpmp")'
       /\ \A u \in Threads \ {i} : \A v : Calling(u, v) => Calling(u, v)'
  <2>1. Calling(i, "bpmp")'
    BY <1>0, <1>10 DEF Calling, CallersOf, Places
  <2>2. i \in Threads
    BY <1>0
  <2>. QED  BY <1>10, <2>1, <2>2, OthersKept
<1>12. /\ reply_cap' \in [Servers -> Threads \cup {None}]
       /\ reply_cap'[i] = c /\ \A u \in Servers \ {i} : reply_cap'[u] = reply_cap[u]
  BY <1>0, <1>2, <1>4 DEF RpcInv, RpcTypes
<1>13. Waiting'
  BY <1>0, <1>3, <1>4, <1>8, <1>11, <1>12 DEF RpcInv, Waiting, Free
<1>14. Saved'
  <2>. SUFFICES ASSUME NEW s \in Servers, NEW t \in Threads, reply_cap'[s] = t
                PROVE  /\ s \in BpmpClients /\ Calling(s, "bpmp")'
                       /\ Calling(t, s)' /\ ret'[t] = None
    BY DEF Saved
  <2>1. CASE s = i
    BY <1>0, <1>2, <1>3, <1>4, <1>11, <1>12, <2>1
  <2>2. CASE s # i
    <3>1. /\ s \in BpmpClients /\ Calling(s, "bpmp")
          /\ Calling(t, s) /\ ret[t] = None
      BY <1>12, <2>2 DEF RpcInv, Saved
    <3>2. t # i /\ s \in Threads
      BY <1>3, <1>12, <2>2, <3>1, Connections DEF Free
    <3>. QED  BY <1>4, <1>11, <2>2, <3>1, <3>2
  <2>. QED  BY <2>1, <2>2
<1>15. RpcTypes'
  BY <1>4, <1>7, <1>9, <1>10, <1>12 DEF RpcInv, RpcTypes
<1>16. Idle'
  <2>1. \A s \in BpmpClients : s \in Servers /\ s \in Threads
    BY Connections DEF BpmpClients
  <2>2. c # None
    BY <1>0, <1>2
  <2>. QED  BY <1>3, <1>4, <1>10, <1>12, <2>1, <2>2 DEF RpcInv, Idle
<1>. QED  BY <1>13, <1>14, <1>15, <1>16 DEF RpcInv

(* The answer to a nested call: the saved caller gets its own.                *)
LEMMA AnswersKeeps ==
  ASSUME RpcInv, NEW s \in BpmpClients, HasAnswer(s), NEW r, Answers(s, r)
  PROVE  RpcInv'
<1>. DEFINE c == reply_cap[s]
<1>0. s \in Servers /\ s \in Threads /\ None \notin Threads
  BY Connections DEF BpmpClients
<1>1. /\ c \in Threads /\ Calling(c, s) /\ ret[c] = None /\ Free(s)
      /\ msg[s] # NoCall /\ ret[s] # None
  BY <1>0, FreeThreads DEF RpcInv, RpcTypes, Saved, Idle, HasAnswer
<1>2. /\ reply_cap' = [reply_cap EXCEPT ![s] = None]
      /\ ret' = [ret EXCEPT ![s] = None, ![c] = r]
      /\ msg' = [msg EXCEPT ![s] = NoCall]
      /\ UNCHANGED endpoint
  BY DEF Answers
<1>3. /\ \A u \in Servers : ~In(c, endpoint[u])
      /\ \A u \in Servers \ {s} : reply_cap[u] # c
      /\ c # s /\ msg[c] # NoCall
  BY <1>0, <1>1 DEF RpcInv, Waiting, Saved, Calling
<1>4. /\ \A u \in Threads \ {s} : msg'[u] = msg[u]
      /\ \A u \in Threads \ {s, c} : ret'[u] = ret[u]
      /\ DOMAIN msg' = Threads /\ DOMAIN ret' = Threads
      /\ msg'[s] = NoCall /\ ret'[s] = None
  BY <1>0, <1>1, <1>2, <1>3 DEF RpcInv, RpcTypes
<1>5. \A u \in Threads \ {s} : \A v : Calling(u, v) => Calling(u, v)'
  BY <1>0, <1>4, OthersKept
<1>6. /\ reply_cap' \in [Servers -> Threads \cup {None}]
      /\ reply_cap'[s] = None /\ \A u \in Servers \ {s} : reply_cap'[u] = reply_cap[u]
  BY <1>0, <1>2 DEF RpcInv, RpcTypes
<1>7. Waiting'
  <2>. SUFFICES ASSUME NEW u \in Servers, NEW v \in Threads, In(v, endpoint[u])
                PROVE  /\ Calling(v, u)' /\ ret'[v] = None
                       /\ \A w \in Servers : reply_cap'[w] # v
    BY <1>2 DEF Waiting
  <2>1. v # s /\ v # c
    BY <1>1, <1>3 DEF Free
  <2>. QED  BY <1>0, <1>4, <1>5, <1>6, <2>1 DEF RpcInv, Waiting
<1>8. Saved'
  <2>. SUFFICES ASSUME NEW u \in Servers, NEW t \in Threads, reply_cap'[u] = t
                PROVE  /\ u \in BpmpClients /\ Calling(u, "bpmp")'
                       /\ Calling(t, u)' /\ ret'[t] = None
    BY DEF Saved
  <2>1. u # s /\ reply_cap[u] = t
    BY <1>0, <1>6
  <2>2. /\ u \in BpmpClients /\ Calling(u, "bpmp")
        /\ Calling(t, u) /\ ret[t] = None
    BY <2>1 DEF RpcInv, Saved
  <2>3. t # s /\ t # c /\ u \in Threads
    BY <1>1, <1>3, <2>1, <2>2, Connections DEF Free
  <2>. QED  BY <1>4, <1>5, <2>1, <2>2, <2>3
<1>9. RpcTypes'
  BY <1>2, <1>4, <1>6 DEF RpcInv, RpcTypes
<1>10. Idle'
  <2>1. \A u \in BpmpClients : u \in Servers /\ u \in Threads
    BY Connections DEF BpmpClients
  <2>. QED  BY <1>1, <1>3, <1>4, <1>6, <2>1 DEF RpcInv, Idle
<1>. QED  BY <1>7, <1>8, <1>9, <1>10 DEF RpcInv

(* The next call of a read() of several.                                      *)
LEMMA ReadMoreKeeps ==
  ASSUME RpcInv, NEW t \in Clients, ReadMore(t)
  PROVE  RpcInv'
<1>. DEFINE m == Read(reading[t].fd, Remain(t))
<1>0. /\ "fs" \in Servers /\ "fs" \in Interfaces /\ ServerOf["fs"] = "fs"
      /\ t \in Threads /\ t \in CallersOf("fs") /\ t \notin BpmpClients /\ None \notin Threads
  BY Connections
<1>1. ret[t] # None /\ Free(t)
  BY <1>0, FreeThreads DEF ReadMore, HasAnswer
<1>2. /\ msg' = [msg EXCEPT ![t] = m]
      /\ ret' = [ret EXCEPT ![t] = None]
      /\ endpoint' = [endpoint EXCEPT !["fs"] = Append(endpoint["fs"], t)]
      /\ UNCHANGED reply_cap
  BY DEF ReadMore
<1>3. m.iface = "fs" /\ m # NoCall
  BY <1>0, CallsDiffer DEF Read
<1>4. endpoint["fs"] \in Seq(Threads)
  BY <1>0 DEF RpcInv, RpcTypes
<1>5. /\ \A u \in Servers : Once(endpoint[u])'
      /\ endpoint' \in [Servers -> Seq(Threads)]
      /\ \A u \in Servers, v \in Threads : In(v, endpoint'[u]) => In(v, endpoint[u]) \/ (u = "fs" /\ v = t)
  BY <1>0, <1>1, <1>2, <1>4, QueueAppend DEF RpcInv, RpcTypes, Free
<1>6. /\ \A u \in Threads \ {t} : msg'[u] = msg[u]
      /\ \A u \in Threads \ {t} : ret'[u] = ret[u]
      /\ msg'[t] = m /\ DOMAIN msg' = Threads
      /\ ret'[t] = None /\ DOMAIN ret' = Threads
  BY <1>0, <1>2 DEF RpcInv, RpcTypes
<1>7. /\ Calling(t, "fs")'
      /\ \A u \in Threads \ {t} : \A v : Calling(u, v) => Calling(u, v)'
  BY <1>0, <1>3, <1>6, OthersKept DEF Calling, CallersOf, Places
<1>8. Waiting'
  BY <1>0, <1>1, <1>2, <1>5, <1>6, <1>7 DEF RpcInv, Waiting, Free
<1>9. Saved'
  BY <1>0, <1>1, <1>2, <1>6, <1>7, Connections DEF RpcInv, Saved, Free
<1>10. RpcTypes'
  BY <1>2, <1>5, <1>6 DEF RpcInv, RpcTypes
<1>11. Idle'
  BY <1>0, <1>2, <1>6, Connections DEF RpcInv, Idle
<1>. QED  BY <1>8, <1>9, <1>10, <1>11 DEF RpcInv

-------------------------------------------------------------------------------
(* Every step makes, receives or answers one call, or none.                     *)
LEMMA ClientKeeps ==
  ASSUME RpcInv, NEW t \in Clients, ClientStep(t)
  PROVE  RpcInv'
<1>. USE Connections
<1>1. ASSUME NEW m \in GpioCalls(t) \cup ClockCalls(t) \cup ResetCalls(t), Call(t, m)
      PROVE  RpcInv'
  <2>1. m.iface \in {"gpio", "mux", "clock", "reset"}
    BY DEF GpioCalls, ClockCalls, ResetCalls
  <2>. QED  BY <1>1, <2>1, CallKeeps
<1>2. ASSUME NEW m \in FileCalls(t), Call(t, m)
      PROVE  RpcInv'
  <2>1. m.iface = "fs"
    BY DEF FileCalls
  <2>. QED  BY <1>2, <2>1, CallKeeps
<1>3. ASSUME NEW f, NEW count, Call(t, Read(f, count))
      PROVE  RpcInv'
  BY <1>3, CallKeeps DEF Read
<1>4. ASSUME NEW m \in PicoCalls(t), Call(t, m)
      PROVE  RpcInv'
  <2>1. m.iface \in PicoInterfaces
    BY DEF PicoCalls, PicoInterfaces
  <2>. QED  BY <1>4, <2>1, CallKeeps DEF PicoInterfaces
<1>5. FileClient(t) => RpcInv'
  BY <1>2, <1>3, ReturnKeeps, ReadMoreKeeps
     DEF FileClient, FileCall, StartRead, ReadReturn, FileReturn
<1>. QED  BY <1>1, <1>4, <1>5, ReturnKeeps
          DEF ClientStep, GpioReturn, ClockReturn, PicoCall, PicoReturn

(* Every step of a server's thread keeps the calls in their places.           *)
LEMMA ServersKeep ==
  ASSUME RpcInv, ServerStep
  PROVE  RpcInv'
<1>. USE Connections
<1>1. ASSUME NEW i \in Interfaces, NEW op, Receives(i, op), NEW r, ReplyRecv(ServerOf[i], r)
      PROVE  RpcInv'
  BY <1>1, ReplyKeeps
<1>2. ASSUME NEW i \in {"clock", "reset"}, NEW op, Receives(i, op), NEW req, bpmp_call(i, req)
      PROVE  RpcInv'
  BY <1>2, CallsOutKeeps DEF bpmp_call
<1>3. GpioThread => RpcInv'
  BY <1>1 DEF GpioThread, GpioServer, gpio_init_pin, gpio_set_level, gpio_read_level, mux_feature, Grant
<1>4. the_bpmp_call => RpcInv'
  BY <1>1 DEF the_bpmp_call
<1>5. ClockServerNext => RpcInv'
  <2>1. clock_init_clock => RpcInv'
    BY <1>1 DEF clock_init_clock
  <2>2. ASSUME NEW op, clock_freq_call(op) PROVE RpcInv'
    BY <1>1, <1>2, <2>2 DEF clock_freq_call
  <2>3. clock_register_child => RpcInv'
    BY <1>1 DEF clock_register_child
  <2>4. PassedOn("clock", "gate") => RpcInv'
    BY <1>2 DEF PassedOn
  <2>. QED  BY <2>1, <2>2, <2>3, <2>4 DEF ClockServerNext
<1>6. ResetServerNext => RpcInv'
  BY <1>2 DEF PassedOn, ResetServerNext
<1>7. \A s \in BpmpClients : Driver(s) => RpcInv'
  BY AnswersKeeps DEF Driver
<1>8. FileServerNext => RpcInv'
  BY <1>1 DEF FileServerNext, fs_open, fs_seek, fs_read, fs_close
<1>9. PicoServerNext => RpcInv'
  <2>1. ASSUME NEW i \in PicoInterfaces, Transfer(i) PROVE RpcInv'
    BY <1>1, <2>1 DEF Transfer, PicoInterfaces
  <2>2. ASSUME NEW op, PassesOn(op) PROVE RpcInv'
    BY <1>1, <2>2 DEF PassesOn, PicoInterfaces
  <2>3. pico_open \/ pico_close \/ pico_get_ipv4 => RpcInv'
    BY <1>1 DEF pico_open, pico_close, pico_get_ipv4, PicoInterfaces
  <2>. QED  BY <2>1, <2>2, <2>3 DEF PicoServerNext, pico_pass_on, pico_control_shutdown, pico_send, pico_recv, PicoInterfaces
<1>. QED  BY <1>3, <1>4, <1>5, <1>6, <1>7, <1>8, <1>9
          DEF ServerStep, ClockThread, ResetThread, BpmpThread, FileThread, PicoThread, BpmpClients

(* A call that waits for its answer waits in one place, in an endpoint or behind *)
(* a saved reply capability, and a component is in a call of its own exactly     *)
(* while it has saved one: seL4SingleThreadedComponent's nested calls.           *)
THEOREM CallsInPlace == Spec => []RpcInv
<1>1. Init => RpcInv
  BY RpcInitial DEF Init
<1>2. RpcInv /\ [Next]_vars => RpcInv'
  <2>. SUFFICES ASSUME RpcInv, [Next]_vars PROVE RpcInv'
    OBVIOUS
  <2>1. CASE Next
    BY <2>1, ClientKeeps, ServersKeep DEF Next
  <2>2. CASE UNCHANGED vars
    BY <2>2 DEF vars, rpc, RpcInv, RpcTypes, Waiting, Saved, Idle, Calling, CallersOf, Places
  <2>. QED  BY <2>1, <2>2
<1>. QED  BY <1>1, <1>2, PTL DEF Spec

------------------------------------------------------------------------------
(* The servers implement the ownership of their resources.                      *)

Owner == [r \in Resources |-> OwnerOf(r)]
User == [r \in Resources |-> UserOf(r)]

(* The tables hold numbers and badges of clients.                               *)
PinsInv ==
    /\ gpio_table \in [Pins -> [initialised : BOOLEAN, owner : Int]]
    /\ pin_user \in [Pins -> Threads \cup {None}]
    /\ \A p \in Pins :
          /\ ~gpio_table[p].initialised => gpio_table[p].owner = -1
          /\ gpio_table[p].initialised => gpio_table[p].owner \in 0..(Len(from_ends["gpio"]) - 1)

ClocksInv ==
    /\ clock_table \in [Clocks -> [initialised : BOOLEAN, owner : Int]]
    /\ clock_user \in [Clocks -> Threads \cup {None}]
    /\ \A k \in Clocks : clock_table[k].initialised => clock_table[k].owner \in Owners

FdsInv ==
    /\ DOMAIN fd_table = Fds
    /\ fd_user \in [Fds -> Threads \cup {None}]
    /\ \A f \in Fds :
          /\ fd_table[f] = [client |-> fd_table[f].client, offset |-> fd_table[f].offset]
          /\ fd_table[f] # Closed => fd_table[f].client \in Badges("fs")

TablesInv == PinsInv /\ ClocksInv /\ FdsInv

PinValues ==
    \A p \in Pins :
        /\ gpio_table[p].initialised => Owner[<<"pin", p>>] = Client("gpio", gpio_table[p].owner)
        /\ ~gpio_table[p].initialised => Owner[<<"pin", p>>] = None
        /\ User[<<"pin", p>>] = pin_user[p]

ClockValues ==
    \A k \in Clocks :
        /\ clock_table[k].initialised => Owner[<<"clock", k>>] = Client("clock", clock_table[k].owner)
        /\ ~clock_table[k].initialised => Owner[<<"clock", k>>] = None
        /\ User[<<"clock", k>>] = clock_user[k]

FdValues ==
    \A f \in Fds :
        /\ \A b : fd_table[f] # Closed /\ fd_table[f].client = b => Owner[<<"fd", f>>] = ClientOf(b)
        /\ fd_table[f] = Closed => Owner[<<"fd", f>>] = None
        /\ User[<<"fd", f>>] = fd_user[f]

(* A resource is a pin, a clock or an fd.                                     *)
LEMMA ResourceKinds ==
  /\ \A p \in Pins : <<"pin", p>> \in Resources
  /\ \A k \in Clocks : <<"clock", k>> \in Resources
  /\ \A f \in Fds : <<"fd", f>> \in Resources
  /\ \A r \in Resources : \/ \E p \in Pins : r = <<"pin", p>>
                          \/ \E k \in Clocks : r = <<"clock", k>>
                          \/ \E f \in Fds : r = <<"fd", f>>
BY DEF Resources

(* Owner and user of a pin, before a step and after it.                       *)
LEMMA PinsValue == PinValues /\ PinValues'
<1>1. PinValues
  BY ResourceKinds DEF PinValues, Owner, User, OwnerOf, UserOf
<1>2. PinValues'
  BY ResourceKinds DEF PinValues, Owner, User, OwnerOf, UserOf
<1>. QED  BY <1>1, <1>2

(* Owner and user of a clock, before a step and after it.                     *)
LEMMA ClocksValue == ClockValues /\ ClockValues'
<1>1. ClockValues
  BY ResourceKinds DEF ClockValues, Owner, User, OwnerOf, UserOf
<1>2. ClockValues'
  BY ResourceKinds DEF ClockValues, Owner, User, OwnerOf, UserOf
<1>. QED  BY <1>1, <1>2

(* Owner and user of an fd, before a step and after it.                       *)
LEMMA FdsValue == FdValues /\ FdValues'
<1>1. FdValues
  BY ResourceKinds DEF FdValues, Owner, User, OwnerOf, UserOf
<1>2. FdValues'
  BY ResourceKinds DEF FdValues, Owner, User, OwnerOf, UserOf
<1>. QED  BY <1>1, <1>2

(* The steps of Ownership, resource by resource.                                *)
LEMMA AcquireStep ==
  ASSUME NEW r \in Resources, NEW c \in Clients, Owner[r] = None,
         \A x \in Resources : /\ Owner'[x] = IF x = r THEN c ELSE Owner[x]
                              /\ User'[x] = IF x = r THEN c ELSE User[x]
  PROVE  Owned!Next
<1>1. Owner' = [Owner EXCEPT ![r] = c] /\ User' = [User EXCEPT ![r] = c]
  BY DEF Owner, User
<1>2. Owned!Acquire(r, c)
  BY <1>1 DEF Owned!Acquire, Owner, User
<1>. QED  BY <1>2 DEF Owned!Next

(* A use of resources by their owner.                                         *)
LEMMA UseStep ==
  ASSUME NEW c \in Clients,
         \A x \in Resources : /\ Owner'[x] = Owner[x]
                              /\ User'[x] # User[x] => Owner[x] = c /\ User'[x] = c
  PROVE  Owned!Next
<1>1. Owner' = Owner /\ User' = [x \in Resources |-> User'[x]]
  BY DEF Owner, User
<1>2. Owned!Use(c)
  BY <1>1 DEF Owned!Use, Owner, User
<1>. QED  BY <1>2 DEF Owned!Next

(* The release of an fd.                                                      *)
LEMMA ReleaseStep ==
  ASSUME NEW f \in Fds, NEW c \in Clients, Owner[<<"fd", f>>] = c,
         \A x \in Resources : /\ Owner'[x] = IF x = <<"fd", f>> THEN None ELSE Owner[x]
                              /\ User'[x] = IF x = <<"fd", f>> THEN c ELSE User[x]
  PROVE  Owned!Next
<1>. DEFINE r == <<"fd", f>>
<1>1. Owner' = [Owner EXCEPT ![r] = None] /\ User' = [User EXCEPT ![r] = c]
  BY DEF Owner, User
<1>2. Owned!Release(r, c)
  BY <1>1 DEF Owned!Release, Owner, User
<1>3. r \in Resources
  BY ResourceKinds
<1>. QED  BY <1>2, <1>3 DEF Owned!Next

(* A step that the owners and users do not see.                               *)
LEMMA StutterStep ==
  ASSUME \A x \in Resources : Owner'[x] = Owner[x] /\ User'[x] = User[x]
  PROVE  UNCHANGED <<Owner, User>>
BY DEF Owner, User

(* What a server leaves alone.                                                  *)
LEMMA PinsLeft ==
  ASSUME UNCHANGED <<gpio_table, pin_user>>
  PROVE  /\ \A p \in Pins : Owner'[<<"pin", p>>] = Owner[<<"pin", p>>] /\ User'[<<"pin", p>>] = User[<<"pin", p>>]
         /\ PinsInv => PinsInv'
BY PinsValue DEF PinValues, PinsInv, Pins, Client

(* The same for the clocks.                                                   *)
LEMMA ClocksLeft ==
  ASSUME UNCHANGED <<clock_table, clock_user>>
  PROVE  /\ \A k \in Clocks : Owner'[<<"clock", k>>] = Owner[<<"clock", k>>] /\ User'[<<"clock", k>>] = User[<<"clock", k>>]
         /\ ClocksInv => ClocksInv'
BY ClocksValue DEF ClockValues, ClocksInv, Clocks, Owners, Client

(* The same for the fds.                                                      *)
LEMMA FdsLeft ==
  ASSUME UNCHANGED <<fd_table, fd_user>>
  PROVE  /\ \A f \in Fds : Owner'[<<"fd", f>>] = Owner[<<"fd", f>>] /\ User'[<<"fd", f>>] = User[<<"fd", f>>]
         /\ FdsInv => FdsInv'
<1>1. ASSUME NEW f \in Fds
      PROVE  Owner'[<<"fd", f>>] = Owner[<<"fd", f>>] /\ User'[<<"fd", f>>] = User[<<"fd", f>>]
  <2>1. User'[<<"fd", f>>] = User[<<"fd", f>>]
    BY FdsValue DEF FdValues
  <2>2. CASE fd_table[f] = Closed
    BY <2>1, <2>2, FdsValue DEF FdValues, Closed
  <2>3. CASE fd_table[f] # Closed
    BY <2>1, <2>3, FdsValue DEF FdValues, Closed
  <2>. QED  BY <2>2, <2>3
<1>2. FdsInv => FdsInv'
  BY DEF FdsInv, Closed, Badges, Places
<1>. QED  BY <1>1, <1>2

(* A step that reaches one pin, one clock or one fd.                            *)
LEMMA OnlyPin ==
  ASSUME UNCHANGED <<clock_table, clock_user, fd_table, fd_user>>, NEW r \in Pins, NEW o, NEW u,
         \A x \in Pins :
            /\ Owner'[<<"pin", x>>] = IF x = r THEN o ELSE Owner[<<"pin", x>>]
            /\ User'[<<"pin", x>>] = IF x = r THEN u ELSE User[<<"pin", x>>]
  PROVE  \A x \in Resources :
            /\ Owner'[x] = IF x = <<"pin", r>> THEN o ELSE Owner[x]
            /\ User'[x] = IF x = <<"pin", r>> THEN u ELSE User[x]
<1>. SUFFICES ASSUME NEW x \in Resources
              PROVE  /\ Owner'[x] = IF x = <<"pin", r>> THEN o ELSE Owner[x]
                     /\ User'[x] = IF x = <<"pin", r>> THEN u ELSE User[x]
  OBVIOUS
<1>1. CASE \E y \in Pins : x = <<"pin", y>>
  BY <1>1
<1>2. CASE \E y \in Clocks : x = <<"clock", y>>
  BY <1>2, ClocksLeft
<1>3. CASE \E y \in Fds : x = <<"fd", y>>
  BY <1>3, FdsLeft
<1>. QED  BY <1>1, <1>2, <1>3, ResourceKinds

(* The same for a clock.                                                      *)
LEMMA OnlyClock ==
  ASSUME UNCHANGED <<gpio_table, pin_user, fd_table, fd_user>>, NEW r \in Clocks, NEW o, NEW u,
         \A x \in Clocks :
            /\ Owner'[<<"clock", x>>] = IF x = r THEN o ELSE Owner[<<"clock", x>>]
            /\ User'[<<"clock", x>>] = IF x = r THEN u ELSE User[<<"clock", x>>]
  PROVE  \A x \in Resources :
            /\ Owner'[x] = IF x = <<"clock", r>> THEN o ELSE Owner[x]
            /\ User'[x] = IF x = <<"clock", r>> THEN u ELSE User[x]
<1>. SUFFICES ASSUME NEW x \in Resources
              PROVE  /\ Owner'[x] = IF x = <<"clock", r>> THEN o ELSE Owner[x]
                     /\ User'[x] = IF x = <<"clock", r>> THEN u ELSE User[x]
  OBVIOUS
<1>1. CASE \E y \in Clocks : x = <<"clock", y>>
  BY <1>1
<1>2. CASE \E y \in Pins : x = <<"pin", y>>
  BY <1>2, PinsLeft
<1>3. CASE \E y \in Fds : x = <<"fd", y>>
  BY <1>3, FdsLeft
<1>. QED  BY <1>1, <1>2, <1>3, ResourceKinds

(* The same for an fd.                                                        *)
LEMMA OnlyFd ==
  ASSUME UNCHANGED <<gpio_table, pin_user, clock_table, clock_user>>, NEW r \in Fds, NEW o, NEW u,
         \A x \in Fds :
            /\ Owner'[<<"fd", x>>] = IF x = r THEN o ELSE Owner[<<"fd", x>>]
            /\ User'[<<"fd", x>>] = IF x = r THEN u ELSE User[<<"fd", x>>]
  PROVE  \A x \in Resources :
            /\ Owner'[x] = IF x = <<"fd", r>> THEN o ELSE Owner[x]
            /\ User'[x] = IF x = <<"fd", r>> THEN u ELSE User[x]
<1>. SUFFICES ASSUME NEW x \in Resources
              PROVE  /\ Owner'[x] = IF x = <<"fd", r>> THEN o ELSE Owner[x]
                     /\ User'[x] = IF x = <<"fd", r>> THEN u ELSE User[x]
  OBVIOUS
<1>1. CASE \E y \in Fds : x = <<"fd", y>>
  BY <1>1
<1>2. CASE \E y \in Pins : x = <<"pin", y>>
  BY <1>2, PinsLeft
<1>3. CASE \E y \in Clocks : x = <<"clock", y>>
  BY <1>3, ClocksLeft
<1>. QED  BY <1>1, <1>2, <1>3, ResourceKinds

-------------------------------------------------------------------------------
(* GPIOMUXServer.                                                               *)
OwnedStep == Owned!Next \/ UNCHANGED <<Owner, User>>

(* A step that leaves all three tables alone.                                 *)
LEMMA AllLeft ==
  ASSUME UNCHANGED <<gpio_table, pin_user, clock_table, clock_user, fd_table, fd_user>>
  PROVE  /\ OwnedStep
         /\ TablesInv => TablesInv'
<1>1. \A x \in Resources : Owner'[x] = Owner[x] /\ User'[x] = User[x]
  BY PinsLeft, ClocksLeft, FdsLeft, ResourceKinds
<1>. QED  BY <1>1, StutterStep, PinsLeft, ClocksLeft, FdsLeft DEF OwnedStep, TablesInv

(* The caller of an interface whose implementation asks for the sender.         *)
LEMMA GpioCaller ==
  ASSUME RpcInv, NEW op, Receives("gpio", op), handle_message("gpio")
  PROVE  /\ Caller("gpiomux") \in Clients
         /\ get_sender_id("gpio") \in 0..(Len(from_ends["gpio"]) - 1)
         /\ Client("gpio", get_sender_id("gpio")) = Caller("gpiomux")
BY SenderIsCaller, ReceivedInterface, Connections, ServersAssumption DEF Client

(* A pin that is granted to a caller or used by it is recorded as its own.    *)
LEMMA PinReached ==
  ASSUME PinsInv, NEW p \in Pins, NEW n \in 0..(Len(from_ends["gpio"]) - 1), NEW t \in Threads,
         t = Client("gpio", n),
         gpio_table' = [gpio_table EXCEPT ![p] = [initialised |-> TRUE, owner |-> n]],
         pin_user' = [pin_user EXCEPT ![p] = t]
  PROVE  /\ PinsInv'
         /\ \A x \in Pins :
            /\ Owner'[<<"pin", x>>] = IF x = p THEN t ELSE Owner[<<"pin", x>>]
            /\ User'[<<"pin", x>>] = IF x = p THEN t ELSE User[<<"pin", x>>]
<1>1. /\ gpio_table'[p].initialised /\ gpio_table'[p].owner = n /\ pin_user'[p] = t
      /\ \A x \in Pins \ {p} : gpio_table'[x] = gpio_table[x] /\ pin_user'[x] = pin_user[x]
  BY DEF PinsInv
<1>2. PinsInv'
  BY DEF PinsInv, Pins
<1>3. Owner'[<<"pin", p>>] = t /\ User'[<<"pin", p>>] = t
  BY <1>1, PinsValue DEF PinValues, Client
<1>4. ASSUME NEW x \in Pins \ {p}
      PROVE  /\ Owner'[<<"pin", x>>] = Owner[<<"pin", x>>]
             /\ User'[<<"pin", x>>] = User[<<"pin", x>>]
  <2>1. gpio_table'[x] = gpio_table[x] /\ pin_user'[x] = pin_user[x] /\ x \in Pins
    BY <1>1
  <2>2. User'[<<"pin", x>>] = User[<<"pin", x>>]
    BY <2>1, PinsValue DEF PinValues
  <2>3. Owner'[<<"pin", x>>] = Owner[<<"pin", x>>]
    BY <2>1, PinsValue DEF PinValues, Client
  <2>. QED  BY <2>2, <2>3
<1>. QED  BY <1>2, <1>3, <1>4

(* gpio_init_pin grants a pin that nobody has, or changes nothing.            *)
LEMMA PinGranted ==
  ASSUME RpcInv, PinsInv, gpio_init_pin,
         UNCHANGED <<clock_table, clock_user, fd_table, fd_user>>
  PROVE  PinsInv' /\ OwnedStep
<1>. DEFINE t == Caller("gpiomux")
            pin == msg[t].pin
            client == get_sender_id("gpio")
<1>1. /\ t \in Clients /\ t \in Threads /\ client \in 0..(Len(from_ends["gpio"]) - 1)
      /\ Client("gpio", client) = t
  BY GpioCaller, Connections DEF gpio_init_pin
<1>2. CASE UNCHANGED <<gpio_table, pin_user>>
  BY <1>2, AllLeft, PinsLeft
<1>3. CASE ~UNCHANGED <<gpio_table, pin_user>>
  <2>1. /\ pin \in Pins /\ ~gpio_table[pin].initialised
        /\ gpio_table' = [gpio_table EXCEPT ![pin] = [initialised |-> TRUE, owner |-> client]]
        /\ pin_user' = [pin_user EXCEPT ![pin] = t]
    BY <1>3 DEF gpio_init_pin, Grant, check_pin_initialised
  <2>2. /\ PinsInv'
        /\ \A x \in Pins :
            /\ Owner'[<<"pin", x>>] = IF x = pin THEN t ELSE Owner[<<"pin", x>>]
            /\ User'[<<"pin", x>>] = IF x = pin THEN t ELSE User[<<"pin", x>>]
    BY <1>1, <2>1, PinReached
  <2>4. Owner[<<"pin", pin>>] = None
    BY <2>1, PinsValue DEF PinValues
  <2>5. \A x \in Resources :
            /\ Owner'[x] = IF x = <<"pin", pin>> THEN t ELSE Owner[x]
            /\ User'[x] = IF x = <<"pin", pin>> THEN t ELSE User[x]
    <3>1. UNCHANGED <<clock_table, clock_user, fd_table, fd_user>> /\ pin \in Pins
      BY <2>1
    <3>. QED  BY <2>2, <3>1, OnlyPin
  <2>6. Owned!Next
    BY <1>1, <2>1, <2>4, <2>5, ResourceKinds, AcquireStep
  <2>. QED  BY <2>2, <2>6 DEF OwnedStep
<1>. QED  BY <1>2, <1>3

(* gpio_set_level and gpio_read_level use a pin of the caller only.           *)
LEMMA PinUsed ==
  ASSUME RpcInv, PinsInv, gpio_set_level \/ gpio_read_level,
         UNCHANGED <<clock_table, clock_user, fd_table, fd_user>>
  PROVE  PinsInv' /\ OwnedStep
<1>. DEFINE t == Caller("gpiomux")
            pin == msg[t].pin
            client == get_sender_id("gpio")
<1>1. /\ t \in Clients /\ t \in Threads /\ client \in 0..(Len(from_ends["gpio"]) - 1)
      /\ Client("gpio", client) = t
  BY GpioCaller, Connections DEF gpio_set_level, gpio_read_level
<1>2. CASE UNCHANGED <<gpio_table, pin_user>>
  BY <1>2, AllLeft, PinsLeft
<1>3. CASE ~UNCHANGED <<gpio_table, pin_user>>
  <2>1. /\ pin \in Pins /\ gpio_table[pin].owner = client
        /\ UNCHANGED gpio_table
        /\ pin_user' = [pin_user EXCEPT ![pin] = t]
    BY <1>3 DEF gpio_set_level, gpio_read_level, check_client_owns_pin
  <2>2. gpio_table' = [gpio_table EXCEPT ![pin] = [initialised |-> TRUE, owner |-> client]]
    <3>1. gpio_table[pin].initialised /\ gpio_table[pin].owner = client
      BY <1>1, <2>1 DEF PinsInv
    <3>2. gpio_table[pin] = [initialised |-> TRUE, owner |-> client]
      BY <2>1, <3>1 DEF PinsInv
    <3>. QED  BY <2>1, <3>2 DEF PinsInv
  <2>3. Owner[<<"pin", pin>>] = t
    BY <1>1, <2>1, PinsValue DEF PinValues, PinsInv
  <2>. HIDE DEF t, pin, client
  <2>4. /\ PinsInv'
        /\ \A x \in Pins :
            /\ Owner'[<<"pin", x>>] = IF x = pin THEN t ELSE Owner[<<"pin", x>>]
            /\ User'[<<"pin", x>>] = IF x = pin THEN t ELSE User[<<"pin", x>>]
    BY <1>1, <2>1, <2>2, PinReached
  <2>5. \A x \in Resources :
            /\ Owner'[x] = IF x = <<"pin", pin>> THEN t ELSE Owner[x]
            /\ User'[x] = IF x = <<"pin", pin>> THEN t ELSE User[x]
    BY <2>1, <2>4, OnlyPin
  <2>6. Owned!Next
    BY <1>1, <2>3, <2>5, UseStep
  <2>. QED  BY <2>4, <2>6 DEF OwnedStep
<1>. QED  BY <1>2, <1>3

-------------------------------------------------------------------------------
(* ClockServer.                                                                 *)
LEMMA ClockCaller ==
  ASSUME RpcInv, NEW op, Receives("clock", op), handle_message("clock")
  PROVE  /\ Caller("clock") \in Clients /\ Caller("clock") \in Threads
         /\ get_sender_id("clock") \in Owners
         /\ Client("clock", get_sender_id("clock")) = Caller("clock")
BY SenderIsCaller, ReceivedInterface, Connections, ServersAssumption DEF Client, Owners

(* A clock that is granted to a caller is recorded as its own.                *)
LEMMA ClockReached ==
  ASSUME ClocksInv, NEW k \in Clocks, NEW n \in Owners, NEW t \in Threads,
         t = Client("clock", n),
         clock_table' = [clock_table EXCEPT ![k] = [initialised |-> TRUE, owner |-> n]],
         clock_user' = [clock_user EXCEPT ![k] = t]
  PROVE  /\ ClocksInv'
         /\ \A x \in Clocks :
            /\ Owner'[<<"clock", x>>] = IF x = k THEN t ELSE Owner[<<"clock", x>>]
            /\ User'[<<"clock", x>>] = IF x = k THEN t ELSE User[<<"clock", x>>]
<1>1. /\ clock_table'[k].initialised /\ clock_table'[k].owner = n /\ clock_user'[k] = t
      /\ \A x \in Clocks \ {k} : clock_table'[x] = clock_table[x] /\ clock_user'[x] = clock_user[x]
  BY DEF ClocksInv
<1>2. ClocksInv'
  BY DEF ClocksInv, Clocks, Owners
<1>3. Owner'[<<"clock", k>>] = t /\ User'[<<"clock", k>>] = t
  BY <1>1, ClocksValue DEF ClockValues, Client
<1>4. ASSUME NEW x \in Clocks \ {k}
      PROVE  /\ Owner'[<<"clock", x>>] = Owner[<<"clock", x>>]
             /\ User'[<<"clock", x>>] = User[<<"clock", x>>]
  <2>1. clock_table'[x] = clock_table[x] /\ clock_user'[x] = clock_user[x] /\ x \in Clocks
    BY <1>1
  <2>2. User'[<<"clock", x>>] = User[<<"clock", x>>]
    BY <2>1, ClocksValue DEF ClockValues
  <2>3. Owner'[<<"clock", x>>] = Owner[<<"clock", x>>]
    BY <2>1, ClocksValue DEF ClockValues, Client
  <2>. QED  BY <2>2, <2>3
<1>. QED  BY <1>2, <1>3, <1>4

(* clock_init_clock grants a clock that nobody has, or changes nothing.       *)
LEMMA ClockGranted ==
  ASSUME RpcInv, ClocksInv, clock_init_clock,
         UNCHANGED <<gpio_table, pin_user, fd_table, fd_user>>
  PROVE  ClocksInv' /\ OwnedStep
<1>. DEFINE t == Caller("clock")
            k == msg[t].id
            client == get_sender_id("clock")
<1>1. t \in Clients /\ t \in Threads /\ client \in Owners /\ Client("clock", client) = t
  BY ClockCaller DEF clock_init_clock
<1>2. CASE UNCHANGED <<clock_table, clock_user>>
  BY <1>2, AllLeft, ClocksLeft
<1>3. CASE ~UNCHANGED <<clock_table, clock_user>>
  <2>1. /\ k \in Clocks /\ ~clock_table[k].initialised
        /\ clock_table' = [clock_table EXCEPT ![k] = [initialised |-> TRUE, owner |-> client]]
        /\ clock_user' = [clock_user EXCEPT ![k] = t]
    BY <1>3 DEF clock_init_clock
  <2>2. /\ ClocksInv'
        /\ \A x \in Clocks :
            /\ Owner'[<<"clock", x>>] = IF x = k THEN t ELSE Owner[<<"clock", x>>]
            /\ User'[<<"clock", x>>] = IF x = k THEN t ELSE User[<<"clock", x>>]
    BY <1>1, <2>1, ClockReached
  <2>3. Owner[<<"clock", k>>] = None
    BY <2>1, ClocksValue DEF ClockValues
  <2>4. \A x \in Resources :
            /\ Owner'[x] = IF x = <<"clock", k>> THEN t ELSE Owner[x]
            /\ User'[x] = IF x = <<"clock", k>> THEN t ELSE User[x]
    <3>1. UNCHANGED <<gpio_table, pin_user, fd_table, fd_user>> /\ k \in Clocks
      BY <2>1
    <3>. QED  BY <2>2, <3>1, OnlyClock
  <2>5. Owned!Next
    BY <1>1, <2>1, <2>3, <2>4, ResourceKinds, AcquireStep
  <2>. QED  BY <2>2, <2>5 DEF OwnedStep
<1>. QED  BY <1>2, <1>3

(* A call that reaches clocks of the caller.                                    *)
LEMMA ClocksReached ==
  ASSUME ClocksInv, NEW ks \in SUBSET Clocks, NEW t \in Clients,
         NEW n \in Owners, t = Client("clock", n),
         \A k \in ks : clock_table[k].initialised /\ clock_table[k].owner = n,
         UNCHANGED clock_table,
         clock_user' = [k \in Clocks |-> IF k \in ks THEN t ELSE clock_user[k]],
         UNCHANGED <<gpio_table, pin_user, fd_table, fd_user>>
  PROVE  ClocksInv' /\ Owned!Next
<1>1. ClocksInv'
  BY Connections DEF ClocksInv, Clocks, Owners
<1>2. ASSUME NEW x \in Clocks
      PROVE  /\ Owner'[<<"clock", x>>] = Owner[<<"clock", x>>]
             /\ User'[<<"clock", x>>] # User[<<"clock", x>>] =>
                    Owner[<<"clock", x>>] = t /\ User'[<<"clock", x>>] = t
  <2>1. Owner'[<<"clock", x>>] = Owner[<<"clock", x>>]
    BY ClocksValue DEF ClockValues, Client
  <2>2. CASE x \in ks
    <3>1. Owner[<<"clock", x>>] = t
      BY <2>2, ClocksValue DEF ClockValues
    <3>2. User'[<<"clock", x>>] = t
      BY <2>2, ClocksValue DEF ClockValues
    <3>. QED  BY <2>1, <3>1, <3>2
  <2>3. CASE x \notin ks
    BY <2>1, <2>3, ClocksValue DEF ClockValues
  <2>. QED  BY <2>2, <2>3
<1>3. ASSUME NEW x \in Resources
      PROVE  /\ Owner'[x] = Owner[x]
             /\ User'[x] # User[x] => Owner[x] = t /\ User'[x] = t
  BY <1>2, PinsLeft, FdsLeft, ResourceKinds
<1>4. Owned!Next
  BY <1>3, UseStep
<1>. QED  BY <1>1, <1>4

(* The calls on clocks use those of the caller only.                          *)
LEMMA ClockUsed ==
  ASSUME RpcInv, ClocksInv, NEW op, clock_freq_call(op) \/ clock_register_child,
         UNCHANGED <<gpio_table, pin_user, fd_table, fd_user>>
  PROVE  ClocksInv' /\ OwnedStep
<1>. DEFINE t == Caller("clock")
            client == get_sender_id("clock")
<1>1. t \in Clients /\ t \in Threads /\ client \in Owners /\ Client("clock", client) = t
  BY ClockCaller DEF clock_freq_call, clock_register_child
<1>2. CASE UNCHANGED <<clock_table, clock_user>>
  BY <1>2, AllLeft, ClocksLeft
<1>3. CASE clock_freq_call(op) /\ ~UNCHANGED <<clock_table, clock_user>>
  <2>. DEFINE k == msg[t].id
  <2>1. /\ k \in Clocks /\ clock_table[k].initialised /\ clock_table[k].owner = client
        /\ UNCHANGED clock_table
        /\ clock_user' = [clock_user EXCEPT ![k] = t]
    BY <1>3 DEF clock_freq_call, MayUse, check_is_owner
  <2>2. clock_user' = [x \in Clocks |-> IF x \in {k} THEN t ELSE clock_user[x]]
    BY <2>1 DEF ClocksInv
  <2>. DEFINE ks == {k}
  <2>3. ks \in SUBSET Clocks /\ \A x \in ks : clock_table[x].initialised /\ clock_table[x].owner = client
    BY <2>1
  <2>4. clock_user' = [x \in Clocks |-> IF x \in ks THEN t ELSE clock_user[x]]
    BY <2>2
  <2>. HIDE DEF ks, t, client
  <2>5. /\ t \in Clients /\ client \in Owners /\ t = Client("clock", client)
        /\ UNCHANGED <<clock_table, gpio_table, pin_user, fd_table, fd_user>>
    BY <1>1, <2>1
  <2>6. ClocksInv' /\ Owned!Next
    BY <2>3, <2>4, <2>5, ClocksReached
  <2>. QED  BY <2>6 DEF OwnedStep
<1>4. CASE clock_register_child /\ ~UNCHANGED <<clock_table, clock_user>>
  <2>. DEFINE ks == {msg[t].parent, msg[t].child}
  <2>1. /\ \A k \in ks : k \in Clocks /\ clock_table[k].initialised /\ clock_table[k].owner = client
        /\ UNCHANGED clock_table
        /\ clock_user' = [k \in Clocks |-> IF k \in ks THEN t ELSE clock_user[k]]
    BY <1>4 DEF clock_register_child, MayUse, check_is_owner
  <2>. HIDE DEF ks
  <2>. QED  BY <1>1, <2>1, ClocksReached DEF OwnedStep
<1>. QED  BY <1>2, <1>3, <1>4

-------------------------------------------------------------------------------
(* FileServer.                                                                  *)
(* The least fd that is free is one of those that are free.                     *)
LEMMA LeastFd ==
  ASSUME FreeFds # {}
  PROVE  Min(FreeFds) \in FreeFds
<1>1. FreeFds \subseteq Nat
  BY FilesAssumption DEF FreeFds
<1>2. IsWellFoundedOn(OpToRel(<, Nat), Nat)
  BY NatLessThanWellFounded
<1>3. PICK x \in FreeFds : \A y \in FreeFds : ~(<<y, x>> \in OpToRel(<, Nat))
  BY <1>1, <1>2, WFMin
<1>4. \A p \in Nat \X Nat : p[1] < p[2] => p \in OpToRel(<, Nat)
  BY DEF OpToRel
<1>5. ASSUME NEW y \in FreeFds PROVE x =< y
  <2>1. <<y, x>> \in Nat \X Nat /\ <<y, x>>[1] = y /\ <<y, x>>[2] = x
    BY <1>1
  <2>2. ~(y < x)
    BY <1>3, <1>4, <2>1
  <2>. QED  BY <1>1, <2>2
<1>. QED  BY <1>5 DEF Min

(* A badge at the FileServer tells whose it is.                                 *)
LEMMA FileBadges ==
  /\ \A u, v \in Clients : BadgeOf("fs", u) = BadgeOf("fs", v) => u = v
  /\ \A u \in Clients : ClientOf(BadgeOf("fs", u)) = u /\ BadgeOf("fs", u) \in Badges("fs") /\ BadgeOf("fs", u) # 0
<1>1. "fs" \in Interfaces /\ CallersOf("fs") = Clients
  BY Connections
<1>2. ASSUME NEW u \in Clients, NEW v \in Clients, BadgeOf("fs", u) = BadgeOf("fs", v)
      PROVE  u = v
  BY <1>1, <1>2, CallerPlace, BadgesDiffer
<1>3. \A u \in Clients : ClientOf(BadgeOf("fs", u)) = u
  BY <1>2 DEF ClientOf
<1>4. \A u \in Clients : BadgeOf("fs", u) \in Badges("fs") /\ BadgeOf("fs", u) # 0
  BY <1>1, CallerPlace
<1>. QED  BY <1>2, <1>3, <1>4

(* The badge that the FileServer asks for is that of the caller.              *)
LEMMA FileSender ==
  ASSUME RpcInv, NEW op, Receives("fs", op), handle_message("fs")
  PROVE  Caller("fs") \in Clients /\ fs_sender = BadgeOf("fs", Caller("fs"))
<1>1. "fs" \in Interfaces /\ "fs" \in Asking /\ ServerOf["fs"] = "fs" /\ CallersOf("fs") = Clients
  BY Connections, ServersAssumption
<1>. QED  BY <1>1, SenderIsCaller, ReceivedInterface DEF fs_sender

(* It is the badge of a client, and tells which.                              *)
LEMMA FileCaller ==
  ASSUME RpcInv, NEW op, Receives("fs", op), handle_message("fs")
  PROVE  /\ Caller("fs") \in Clients
         /\ fs_sender \in Badges("fs") /\ fs_sender # 0
         /\ ClientOf(fs_sender) = Caller("fs")
<1>1. PICK t \in Clients : t = Caller("fs") /\ fs_sender = BadgeOf("fs", t)
  BY FileSender
<1>. QED  BY <1>1, FileBadges

(* An fd that a caller opens or uses is recorded as its own.                  *)
LEMMA FdReached ==
  ASSUME FdsInv, NEW f \in Fds, NEW b \in Badges("fs"), b # 0, NEW t \in Threads, t = ClientOf(b),
         NEW n, fd_table' = [fd_table EXCEPT ![f] = [client |-> b, offset |-> n]],
         fd_user' = [fd_user EXCEPT ![f] = t]
  PROVE  /\ FdsInv'
         /\ \A x \in Fds :
            /\ Owner'[<<"fd", x>>] = IF x = f THEN t ELSE Owner[<<"fd", x>>]
            /\ User'[<<"fd", x>>] = IF x = f THEN t ELSE User[<<"fd", x>>]
<1>1. /\ fd_table'[f] = [client |-> b, offset |-> n] /\ fd_user'[f] = t
      /\ \A x \in Fds \ {f} : fd_table'[x] = fd_table[x] /\ fd_user'[x] = fd_user[x]
      /\ DOMAIN fd_table' = Fds
  BY DEF FdsInv
<1>2. fd_table'[f] # Closed /\ fd_table'[f].client = b
  BY <1>1 DEF Closed
<1>3. FdsInv'
  BY <1>1, <1>2 DEF FdsInv, Badges, Places, Closed
<1>4. Owner'[<<"fd", f>>] = t /\ User'[<<"fd", f>>] = t
  BY <1>1, <1>2, FdsValue DEF FdValues, Closed
<1>5. ASSUME NEW x \in Fds \ {f}
      PROVE  Owner'[<<"fd", x>>] = Owner[<<"fd", x>>] /\ User'[<<"fd", x>>] = User[<<"fd", x>>]
  <2>1. fd_table'[x] = fd_table[x] /\ fd_user'[x] = fd_user[x] /\ x \in Fds
    BY <1>1
  <2>2. User'[<<"fd", x>>] = User[<<"fd", x>>]
    BY <2>1, FdsValue DEF FdValues
  <2>3. CASE fd_table[x] = Closed
    BY <2>1, <2>2, <2>3, FdsValue DEF FdValues, Closed
  <2>4. CASE fd_table[x] # Closed
    BY <2>1, <2>2, <2>4, FdsValue DEF FdValues, Closed
  <2>. QED  BY <2>3, <2>4
<1>. QED  BY <1>3, <1>4, <1>5

(* fs_open grants an fd that nobody has, or changes nothing.                  *)
LEMMA FdOpened ==
  ASSUME RpcInv, FdsInv, fs_open,
         UNCHANGED <<gpio_table, pin_user, clock_table, clock_user>>
  PROVE  FdsInv' /\ OwnedStep
<1>. DEFINE t == Caller("fs")
            f == Min(FreeFds)
<1>1. /\ t \in Clients /\ t \in Threads
      /\ fs_sender \in Badges("fs") /\ fs_sender # 0 /\ ClientOf(fs_sender) = t
  BY FileCaller, Connections DEF fs_open
<1>2. CASE UNCHANGED <<fd_table, fd_user>>
  BY <1>2, AllLeft, FdsLeft
<1>3. CASE ~UNCHANGED <<fd_table, fd_user>>
  <2>1. /\ FreeFds # {}
        /\ fd_table' = [fd_table EXCEPT ![f] = [client |-> fs_sender, offset |-> 0]]
        /\ fd_user' = [fd_user EXCEPT ![f] = t]
    BY <1>3 DEF fs_open
  <2>2. f \in Fds /\ fd_table[f] = Closed
    BY <2>1, LeastFd DEF FreeFds
  <2>. HIDE DEF f
  <2>3. /\ FdsInv'
        /\ \A x \in Fds :
            /\ Owner'[<<"fd", x>>] = IF x = f THEN t ELSE Owner[<<"fd", x>>]
            /\ User'[<<"fd", x>>] = IF x = f THEN t ELSE User[<<"fd", x>>]
    BY <1>1, <2>1, <2>2, FdReached
  <2>4. Owner[<<"fd", f>>] = None
    BY <2>2, FdsValue DEF FdValues
  <2>5. \A x \in Resources :
            /\ Owner'[x] = IF x = <<"fd", f>> THEN t ELSE Owner[x]
            /\ User'[x] = IF x = <<"fd", f>> THEN t ELSE User[x]
    BY <2>2, <2>3, OnlyFd
  <2>6. Owned!Next
    BY <1>1, <2>2, <2>4, <2>5, ResourceKinds, AcquireStep
  <2>. QED  BY <2>3, <2>6 DEF OwnedStep
<1>. QED  BY <1>2, <1>3

(* fs_seek and fs_read use an fd of the caller only.                          *)
LEMMA FdUsed ==
  ASSUME RpcInv, FdsInv, fs_seek \/ fs_read,
         UNCHANGED <<gpio_table, pin_user, clock_table, clock_user>>
  PROVE  FdsInv' /\ OwnedStep
<1>. DEFINE t == Caller("fs")
            f == msg[t].fd
<1>1. /\ t \in Clients /\ t \in Threads
      /\ fs_sender \in Badges("fs") /\ fs_sender # 0 /\ ClientOf(fs_sender) = t
  BY FileCaller, Connections DEF fs_seek, fs_read
<1>2. CASE UNCHANGED <<fd_table, fd_user>>
  BY <1>2, AllLeft, FdsLeft
<1>3. CASE ~UNCHANGED <<fd_table, fd_user>>
  <2>1. PICK n : /\ f \in Fds /\ fd_table[f] # Closed /\ fd_table[f].client = fs_sender
                 /\ fd_table' = [fd_table EXCEPT ![f].offset = n]
                 /\ fd_user' = [fd_user EXCEPT ![f] = t]
    <3>1. CASE fs_seek
      BY <1>3, <3>1 DEF fs_seek, validate_client_fd
    <3>2. CASE fs_read
      BY <1>3, <3>2 DEF fs_read, validate_client_fd
    <3>. QED  BY <3>1, <3>2
  <2>2. /\ f \in Fds /\ fd_user' = [fd_user EXCEPT ![f] = t]
        /\ fd_table' = [fd_table EXCEPT ![f] = [client |-> fs_sender, offset |-> n]]
    <3>1. fd_table[f] = [client |-> fs_sender, offset |-> fd_table[f].offset]
      BY <2>1 DEF FdsInv
    <3>2. [fd_table[f] EXCEPT !.offset = n] = [client |-> fs_sender, offset |-> n]
      BY <3>1
    <3>3. fd_table' = [fd_table EXCEPT ![f] = [fd_table[f] EXCEPT !.offset = n]]
      BY <2>1
    <3>. QED  BY <2>1, <3>2, <3>3
  <2>. HIDE DEF f
  <2>3. /\ FdsInv'
        /\ \A x \in Fds :
            /\ Owner'[<<"fd", x>>] = IF x = f THEN t ELSE Owner[<<"fd", x>>]
            /\ User'[<<"fd", x>>] = IF x = f THEN t ELSE User[<<"fd", x>>]
    BY <1>1, <2>2, FdReached
  <2>4. Owner[<<"fd", f>>] = t
    BY <1>1, <2>1, FdsValue DEF FdValues
  <2>5. \A x \in Resources :
            /\ Owner'[x] = IF x = <<"fd", f>> THEN t ELSE Owner[x]
            /\ User'[x] = IF x = <<"fd", f>> THEN t ELSE User[x]
    BY <2>1, <2>3, OnlyFd
  <2>6. Owned!Next
    BY <1>1, <2>4, <2>5, UseStep
  <2>. QED  BY <2>3, <2>6 DEF OwnedStep
<1>. QED  BY <1>2, <1>3

(* fs_close releases one fd of the caller, or changes nothing.                *)
LEMMA FdClosed ==
  ASSUME RpcInv, FdsInv, fs_close,
         UNCHANGED <<gpio_table, pin_user, clock_table, clock_user>>
  PROVE  FdsInv' /\ OwnedStep
<1>. DEFINE t == Caller("fs")
            f == msg[t].fd
<1>0. t \in Clients /\ t \in Threads /\ ClientOf(fs_sender) = t
  BY FileCaller, Connections DEF fs_close
<1>1. CASE UNCHANGED <<fd_table, fd_user>>
  BY <1>1, AllLeft, FdsLeft
<1>2. CASE ~UNCHANGED <<fd_table, fd_user>>
  <2>1. /\ f \in Fds /\ fd_table[f] # Closed /\ fd_table[f].client = fs_sender
        /\ fd_table' = [fd_table EXCEPT ![f] = Closed]
        /\ fd_user' = [fd_user EXCEPT ![f] = t]
    BY <1>2 DEF fs_close, validate_client_fd
  <2>. HIDE DEF f, t
  <2>9. Owner[<<"fd", f>>] = t
    BY <1>0, <2>1, FdsValue DEF FdValues
  <2>2. /\ fd_table'[f] = Closed /\ fd_user'[f] = t
        /\ \A x \in Fds \ {f} : fd_table'[x] = fd_table[x] /\ fd_user'[x] = fd_user[x]
        /\ DOMAIN fd_table' = Fds
    BY <2>1 DEF FdsInv
  <2>3. FdsInv'
    BY <1>0, <2>1, <2>2 DEF FdsInv, Badges, Places, Closed
  <2>4. Owner'[<<"fd", f>>] = None /\ User'[<<"fd", f>>] = t
    BY <2>1, <2>2, FdsValue DEF FdValues, Closed
  <2>5. ASSUME NEW x \in Fds \ {f}
        PROVE  Owner'[<<"fd", x>>] = Owner[<<"fd", x>>] /\ User'[<<"fd", x>>] = User[<<"fd", x>>]
    <3>1. fd_table'[x] = fd_table[x] /\ fd_user'[x] = fd_user[x] /\ x \in Fds
      BY <2>2
    <3>2. User'[<<"fd", x>>] = User[<<"fd", x>>]
      BY <3>1, FdsValue DEF FdValues
    <3>3. CASE fd_table[x] = Closed
      BY <3>1, <3>2, <3>3, FdsValue DEF FdValues, Closed
    <3>4. CASE fd_table[x] # Closed
      BY <3>1, <3>2, <3>4, FdsValue DEF FdValues, Closed
    <3>. QED  BY <3>3, <3>4
  <2>6. \A x \in Fds :
            /\ Owner'[<<"fd", x>>] = IF x = f THEN None ELSE Owner[<<"fd", x>>]
            /\ User'[<<"fd", x>>] = IF x = f THEN t ELSE User[<<"fd", x>>]
    BY <2>4, <2>5
  <2>7. \A x \in Resources :
            /\ Owner'[x] = IF x = <<"fd", f>> THEN None ELSE Owner[x]
            /\ User'[x] = IF x = <<"fd", f>> THEN t ELSE User[x]
    BY <2>1, <2>6, OnlyFd
  <2>8. Owned!Next
    BY <1>0, <2>1, <2>7, <2>9, ReleaseStep
  <2>. QED  BY <2>3, <2>8 DEF OwnedStep
<1>. QED  BY <1>1, <1>2

-------------------------------------------------------------------------------
(* Every step.                                                                  *)
LEMMA ClientOwned ==
  ASSUME TablesInv, NEW t \in Clients, ClientStep(t)
  PROVE  TablesInv' /\ OwnedStep
<1>1. UNCHANGED <<gpio_table, pin_user, clock_table, clock_user, fd_table, fd_user>>
  BY DEF ClientStep, gpioVars, clockVars, fileVars, hardware, GpioReturn, ClockReturn,
         FileClient, FileCall, StartRead, ReadMore, ReadReturn, FileReturn
<1>. QED  BY <1>1, AllLeft

(* A step of a server's thread is a step of Ownership, or one it does not see. *)
LEMMA ServersOwned ==
  ASSUME RpcInv, TablesInv, ServerStep
  PROVE  TablesInv' /\ OwnedStep
<1>1. CASE GpioThread
  <2>1. UNCHANGED <<clock_table, clock_user, fd_table, fd_user>>
    BY <1>1 DEF GpioThread, clockVars, fileVars
  <2>2. CASE gpio_init_pin
    BY <2>1, <2>2, PinGranted, ClocksLeft, FdsLeft DEF TablesInv
  <2>3. CASE gpio_set_level \/ gpio_read_level
    BY <2>1, <2>3, PinUsed, ClocksLeft, FdsLeft DEF TablesInv
  <2>4. CASE mux_feature
    BY <2>1, <2>4, AllLeft DEF mux_feature
  <2>. QED  BY <1>1, <2>2, <2>3, <2>4 DEF GpioThread, GpioServer
<1>2. CASE ClockThread
  <2>1. UNCHANGED <<gpio_table, pin_user, fd_table, fd_user>>
    BY <1>2 DEF ClockThread, gpioVars, fileVars
  <2>2. CASE clock_init_clock
    BY <2>1, <2>2, ClockGranted, PinsLeft, FdsLeft DEF TablesInv
  <2>3. ASSUME NEW op, clock_freq_call(op) \/ clock_register_child
        PROVE  TablesInv' /\ OwnedStep
    BY <2>1, <2>3, ClockUsed, PinsLeft, FdsLeft DEF TablesInv
  <2>4. CASE PassedOn("clock", "gate") \/ Driver("clock")
    BY <2>1, <2>4, AllLeft DEF PassedOn, Driver
  <2>. QED  BY <1>2, <2>2, <2>3, <2>4 DEF ClockThread, ClockServerNext
<1>3. CASE ResetThread \/ BpmpThread
  BY <1>3, AllLeft DEF ResetThread, BpmpThread, ResetServerNext, PassedOn, Driver, the_bpmp_call,
                       gpioVars, fileVars
<1>4. CASE FileThread
  <2>1. UNCHANGED <<gpio_table, pin_user, clock_table, clock_user>>
    BY <1>4 DEF FileThread, gpioVars, clockVars
  <2>2. CASE fs_open
    BY <2>1, <2>2, FdOpened, PinsLeft, ClocksLeft DEF TablesInv
  <2>3. CASE fs_seek \/ fs_read
    BY <2>1, <2>3, FdUsed, PinsLeft, ClocksLeft DEF TablesInv
  <2>4. CASE fs_close
    BY <2>1, <2>4, FdClosed, PinsLeft, ClocksLeft DEF TablesInv
  <2>. QED  BY <1>4, <2>2, <2>3, <2>4 DEF FileThread, FileServerNext
<1>5. CASE PicoThread
  BY <1>5, AllLeft DEF PicoThread, gpioVars, clockVars, fileVars
<1>. QED  BY <1>1, <1>2, <1>3, <1>4, <1>5 DEF ServerStep

(* Nothing is granted at the start.                                           *)
LEMMA InitialTables ==
  ASSUME Init
  PROVE  TablesInv /\ Owned!Init
<1>1. /\ \A p \in Pins : ~gpio_table[p].initialised /\ gpio_table[p].owner = -1 /\ pin_user[p] = None
      /\ \A k \in Clocks : ~clock_table[k].initialised /\ clock_user[k] = None
      /\ \A f \in Fds : fd_table[f] = Closed /\ fd_user[f] = None
  BY DEF Init, GpioInit, ClockInit, FileInit
<1>2. PinsInv
  BY <1>1 DEF Init, GpioInit, PinsInv
<1>3. ClocksInv
  BY <1>1 DEF Init, ClockInit, ClocksInv
<1>4. FdsInv
  BY <1>1 DEF Init, FileInit, FdsInv, Closed
<1>5. ASSUME NEW r \in Resources
      PROVE  Owner[r] = None /\ User[r] = None
  BY <1>1, ResourceKinds, PinsValue, ClocksValue, FdsValue DEF PinValues, ClockValues, FdValues
<1>6. Owner = [r \in Resources |-> None] /\ User = [r \in Resources |-> None]
  BY <1>5 DEF Owner, User
<1>7. Owned!Init
  BY <1>6 DEF Owned!Init, Owner, User
<1>. QED  BY <1>2, <1>3, <1>4, <1>7 DEF TablesInv

(* The servers implement the ownership of pins, clocks and open files.          *)
THEOREM OwnershipKept == Spec => Exclusive
<1>1. Init => TablesInv /\ Owned!Init
  BY InitialTables
<1>2. RpcInv /\ TablesInv /\ [Next]_vars => TablesInv' /\ [Owned!Next]_<<Owner, User>>
  <2>. SUFFICES ASSUME RpcInv, TablesInv, [Next]_vars
                PROVE  TablesInv' /\ OwnedStep
    BY DEF OwnedStep
  <2>1. CASE Next
    BY <2>1, ClientOwned, ServersOwned DEF Next
  <2>2. CASE UNCHANGED vars
    BY <2>2, AllLeft DEF vars, gpioVars, clockVars, fileVars
  <2>. QED  BY <2>1, <2>2
<1>3. Spec => []RpcInv
  BY CallsInPlace
<1>4. RpcInv /\ TablesInv /\ [Next]_vars =>
          TablesInv' /\ [Owned!Next]_<<[r \in Resources |-> OwnerOf(r)], [r \in Resources |-> UserOf(r)]>>
  BY <1>2 DEF Owner, User
<1>. QED  BY <1>1, <1>3, <1>4, PTL DEF Spec, Exclusive, Owned!Spec

-------------------------------------------------------------------------------
(* PicoServer. The buffer of client number n at an interface is that of the     *)
(* thread whose number is n.                                                    *)
LEMMA BufferOfNumber ==
  ASSUME NEW i \in PicoInterfaces, NEW n \in Numbers
  PROVE  /\ transfer_buf(i, n) \in Threads
         /\ NumberOf(transfer_buf(i, n)) = n
<1>1. i \in Interfaces /\ "pico_control" \in Interfaces /\ from_ends[i] = from_ends["pico_control"]
  BY Connections, PicoAssumption DEF PicoInterfaces
<1>2. /\ from_ends[i] \in Seq(Threads) /\ Len(from_ends[i]) \in Nat
      /\ \A k, l \in Places(i) : badges[i][k] = badges[i][l] => k = l
  BY <1>1, ConnectionsAssumption
<1>3. n + 1 \in Places(i) /\ n + 1 \in Places("pico_control") /\ (n + 1) - 1 = n
  BY <1>1, <1>2 DEF Numbers, Places
<1>4. transfer_buf(i, n) = from_ends[i][n + 1]
  BY <1>2, <1>3 DEF transfer_buf, enumerate_badge, buf, Badges
<1>5. PlaceOf("pico_control", from_ends["pico_control"][n + 1]) = n + 1
  BY <1>1, <1>3, PlaceOfCaller
<1>6. from_ends[i][n + 1] \in Threads
  BY <1>2, <1>3 DEF Places
<1>. QED  BY <1>1, <1>3, <1>4, <1>5, <1>6 DEF NumberOf

BuffersInv ==
    /\ DOMAIN sent_from = PicoSocket /\ DOMAIN recv_buf = Threads
    /\ \A s \in PicoSocket : sent_from[s] # None => NumberOf(sent_from[s]) = s[1]
    /\ \A t \in Threads : recv_buf[t] # <<>> => recv_buf[t][1] = NumberOf(t)

(* A step that makes no transfer.                                             *)
LEMMA BuffersLeft ==
  ASSUME BuffersInv, UNCHANGED <<sent_from, recv_buf>>
  PROVE  BuffersInv'
BY DEF BuffersInv, PicoSocket, Numbers, NumberOf, PlaceOf, Places

(* A transfer, through the buffer of the number that client_check has found.    *)
LEMMA TransferKeeps ==
  ASSUME BuffersInv, NEW i \in PicoInterfaces, Transfer(i)
  PROVE  BuffersInv'
<1>1. CASE UNCHANGED <<sent_from, recv_buf>>
  BY <1>1, BuffersLeft
<1>2. CASE ~UNCHANGED <<sent_from, recv_buf>>
  <2>1. PICK n \in Numbers : \E fd :
           /\ \/ UNCHANGED sent_from
              \/ sent_from' = [sent_from EXCEPT ![<<n, fd>>] = transfer_buf(i, n)]
           /\ \/ UNCHANGED recv_buf
              \/ recv_buf' = [u \in Threads |-> IF u = transfer_buf(i, n) THEN <<n, fd>> ELSE recv_buf[u]]
    BY <1>2 DEF Transfer
  <2>2. PICK fd :
           /\ \/ UNCHANGED sent_from
              \/ sent_from' = [sent_from EXCEPT ![<<n, fd>>] = transfer_buf(i, n)]
           /\ \/ UNCHANGED recv_buf
              \/ recv_buf' = [u \in Threads |-> IF u = transfer_buf(i, n) THEN <<n, fd>> ELSE recv_buf[u]]
    BY <2>1
  <2>3. PICK b \in Threads : b = transfer_buf(i, n) /\ NumberOf(b) = n
    BY BufferOfNumber
  <2>4. /\ DOMAIN sent_from' = PicoSocket /\ DOMAIN recv_buf' = Threads
        /\ \A s \in PicoSocket : sent_from'[s] = sent_from[s] \/ (s[1] = n /\ sent_from'[s] = b)
        /\ \A t \in Threads : recv_buf'[t] = recv_buf[t] \/ (t = b /\ recv_buf'[t][1] = n)
    BY <2>2, <2>3 DEF BuffersInv
  <2>5. \A s \in PicoSocket : sent_from'[s] # None => NumberOf(sent_from'[s]) = s[1]
    BY <2>3, <2>4 DEF BuffersInv
  <2>6. \A t \in Threads : recv_buf'[t] # <<>> => recv_buf'[t][1] = NumberOf(t)
    BY <2>3, <2>4 DEF BuffersInv
  <2>. QED  BY <2>4, <2>5, <2>6 DEF BuffersInv, PicoSocket, Numbers, NumberOf, PlaceOf, Places
<1>. QED  BY <1>1, <1>2

(* A socket sends only from the buffer of the client that has it and receives   *)
(* only into it, whoever the server takes for the caller.                       *)
THEOREM BuffersKept == Spec => []BuffersMatch
<1>1. Init => BuffersInv
  BY DEF Init, PicoInit, BuffersInv
<1>2. BuffersInv /\ [Next]_vars => BuffersInv'
  <2>. SUFFICES ASSUME BuffersInv, [Next]_vars PROVE BuffersInv'
    OBVIOUS
  <2>1. CASE PicoThread
    <3>1. CASE \E i \in PicoInterfaces : Transfer(i)
      BY <3>1, TransferKeeps
    <3>2. CASE pico_open \/ pico_close
      <4>1. PICK s : /\ UNCHANGED recv_buf
                     /\ UNCHANGED sent_from \/ sent_from' = [sent_from EXCEPT ![s] = None]
        <5>1. ASSUME pico_open
              PROVE  \E s : UNCHANGED sent_from \/ sent_from' = [sent_from EXCEPT ![s] = None]
          BY <5>1 DEF pico_open
        <5>2. ASSUME pico_close
              PROVE  \E s : UNCHANGED sent_from \/ sent_from' = [sent_from EXCEPT ![s] = None]
          <6>1. \/ UNCHANGED sent_from
                \/ sent_from' = [sent_from EXCEPT ![<<client_check, msg[Caller("pico")].fd>>] = None]
            BY <5>2 DEF pico_close
          <6>. QED  BY <6>1
        <5>3. UNCHANGED recv_buf
          BY <3>2 DEF pico_open, pico_close
        <5>. QED  BY <3>2, <5>1, <5>2, <5>3
      <4>2. /\ DOMAIN sent_from' = PicoSocket
            /\ \A x \in PicoSocket : sent_from'[x] = sent_from[x] \/ sent_from'[x] = None
        BY <4>1 DEF BuffersInv
      <4>3. \A x \in PicoSocket : sent_from'[x] # None => NumberOf(sent_from'[x]) = x[1]
        BY <4>2 DEF BuffersInv
      <4>. QED  BY <4>1, <4>2, <4>3 DEF BuffersInv, PicoSocket, Numbers, NumberOf, PlaceOf, Places
    <3>3. CASE (\E op : PassesOn(op)) \/ pico_get_ipv4
      BY <3>3, BuffersLeft DEF PassesOn, pico_get_ipv4, picoVars
    <3>. QED  BY <2>1, <3>1, <3>2, <3>3
              DEF PicoThread, PicoServerNext, pico_pass_on, pico_control_shutdown, pico_send, pico_recv, PicoInterfaces
  <2>2. CASE GpioThread \/ ClockThread \/ ResetThread \/ BpmpThread \/ FileThread
    BY <2>2, BuffersLeft DEF GpioThread, ClockThread, ResetThread, BpmpThread, FileThread, picoVars
  <2>3. CASE \E t \in Clients : ClientStep(t)
    <3>1. UNCHANGED <<sent_from, recv_buf>>
      BY <2>3 DEF ClientStep, picoVars, PicoCall, PicoReturn
    <3>. QED  BY <3>1, BuffersLeft
  <2>4. CASE UNCHANGED vars
    BY <2>4, BuffersLeft DEF vars, picoVars
  <2>. QED  BY <2>1, <2>2, <2>3, <2>4 DEF Next, ServerStep
<1>3. BuffersInv => BuffersMatch
  BY Connections DEF BuffersInv, BuffersMatch
<1>. QED  BY <1>1, <1>2, <1>3, PTL DEF Spec
===============================================================================
