---------------------------- MODULE HoldersProofs ----------------------------
(* Proofs about what the clients of the servers hold and what they are          *)
(* answered, for every number of clients: a pin, a clock, a file or a socket    *)
(* that a client has been told it has, or of which the answer is on its way, is *)
(* its own in the server's table; a component finds its own response in the     *)
(* memory it shares with the BPMPServer; a read() returns the file's bytes; and *)
(* every variable keeps its type.                                               *)
EXTENDS ServersProofs, SequenceTheorems

(* A server's step answers only a caller of that server.                        *)
AnsweredBy(s) ==
    \A t \in Clients : /\ msg'[t] = msg[t]
                       /\ ret'[t] # ret[t] => ServerOf[msg[t].iface] = s

(* A reply goes to the caller and to nobody else.                             *)
LEMMA Replied ==
  ASSUME RpcInv, NEW i \in Interfaces, NEW op, Receives(i, op), NEW r, ReplyRecv(ServerOf[i], r)
  PROVE  /\ UNCHANGED msg
         /\ msg[Caller(ServerOf[i])].iface = i /\ msg[Caller(ServerOf[i])].op = op
         /\ \A t \in Threads : ret'[t] = IF t = Caller(ServerOf[i]) THEN r ELSE ret[t]
         /\ AnsweredBy(ServerOf[i])
<1>. DEFINE c == Caller(ServerOf[i])
<1>1. msg[c].iface = i /\ msg[c].op = op
  BY ReceivedInterface
<1>2. UNCHANGED msg /\ ret' = [ret EXCEPT ![c] = r] /\ DOMAIN ret = Threads
  BY DEF ReplyRecv, reply_recv, RpcInv, RpcTypes
<1>3. \A t \in Threads : ret'[t] = IF t = c THEN r ELSE ret[t]
  BY <1>2
<1>4. AnsweredBy(ServerOf[i])
  BY <1>1, <1>2, <1>3, Connections DEF AnsweredBy
<1>. QED  BY <1>1, <1>2, <1>3, <1>4

(* A nested call answers nobody.                                              *)
LEMMA CalledOut ==
  ASSUME RpcInv, NEW i \in BpmpClients, NEW m, CallsOut(i, m), NEW s
  PROVE  AnsweredBy(s)
<1>1. UNCHANGED ret /\ msg' = [msg EXCEPT ![i] = m] /\ DOMAIN msg = Threads
  BY DEF CallsOut, RpcInv, RpcTypes
<1>. QED  BY <1>1, Connections DEF AnsweredBy

(* The end of a nested call answers the caller of the same server.            *)
LEMMA AnsweredCaller ==
  ASSUME RpcInv, NEW s \in BpmpClients, s \in Servers, NEW r, HasAnswer(s), Answers(s, r)
  PROVE  AnsweredBy(s)
<1>1. reply_cap[s] # None
  BY DEF RpcInv, Idle, HasAnswer
<1>2. PICK c \in Threads : reply_cap[s] = c /\ Calling(c, s)
  BY <1>1 DEF RpcInv, RpcTypes, Saved
<1>3. /\ msg' = [msg EXCEPT ![s] = NoCall] /\ DOMAIN msg = Threads
      /\ ret' = [ret EXCEPT ![s] = None, ![c] = r] /\ DOMAIN ret = Threads
  BY <1>2 DEF Answers, RpcInv, RpcTypes
<1>4. \A t \in Clients : /\ t \in Threads /\ t # s /\ msg'[t] = msg[t]
                         /\ t # c => ret'[t] = ret[t]
  BY <1>3, Connections
<1>5. ServerOf[msg[c].iface] = s
  BY <1>2 DEF Calling
<1>. QED  BY <1>4, <1>5 DEF AnsweredBy

(* The thread of each server answers callers of that server.                  *)
LEMMA ThreadAnswers ==
  ASSUME RpcInv
  PROVE  /\ GpioThread => AnsweredBy("gpiomux")
         /\ ClockThread => AnsweredBy("clock")
         /\ ResetThread => AnsweredBy("reset")
         /\ BpmpThread => AnsweredBy("bpmp")
         /\ FileThread => AnsweredBy("fs")
         /\ PicoThread => AnsweredBy("pico")
<1>. USE Connections
<1>1. ASSUME NEW i \in Interfaces, NEW op, Receives(i, op), NEW r, ReplyRecv(ServerOf[i], r)
      PROVE  AnsweredBy(ServerOf[i])
  BY <1>1, Replied
<1>2. "clock" \in BpmpClients /\ "reset" \in BpmpClients /\ "clock" \in Servers /\ "reset" \in Servers
  BY DEF BpmpClients
<1>3. ASSUME NEW i \in {"clock", "reset"}, NEW req, bpmp_call(i, req)
      PROVE  AnsweredBy(i)
  BY <1>2, <1>3, CalledOut DEF bpmp_call
<1>4. ASSUME NEW s \in {"clock", "reset"}, Driver(s) PROVE AnsweredBy(s)
  BY <1>2, <1>4, AnsweredCaller DEF Driver
<1>5. GpioThread => AnsweredBy("gpiomux")
  BY <1>1 DEF GpioThread, GpioServer, gpio_init_pin, gpio_set_level, gpio_read_level, mux_feature, Grant
<1>6. ClockServerNext => AnsweredBy("clock")
  <2>1. clock_init_clock => AnsweredBy("clock")
    BY <1>1 DEF clock_init_clock
  <2>2. ASSUME NEW op, clock_freq_call(op) PROVE AnsweredBy("clock")
    BY <1>1, <1>3, <2>2 DEF clock_freq_call
  <2>3. clock_register_child => AnsweredBy("clock")
    BY <1>1 DEF clock_register_child
  <2>4. PassedOn("clock", "gate") => AnsweredBy("clock")
    BY <1>3 DEF PassedOn
  <2>. QED  BY <2>1, <2>2, <2>3, <2>4 DEF ClockServerNext
<1>7. ResetServerNext => AnsweredBy("reset")
  BY <1>3 DEF PassedOn, ResetServerNext
<1>8. the_bpmp_call => AnsweredBy("bpmp")
  BY <1>1 DEF the_bpmp_call
<1>9. FileServerNext => AnsweredBy("fs")
  BY <1>1 DEF FileServerNext, fs_open, fs_seek, fs_read, fs_close
<1>10. PicoServerNext => AnsweredBy("pico")
  <2>1. ASSUME NEW i \in PicoInterfaces, Transfer(i) PROVE AnsweredBy("pico")
    BY <1>1, <2>1 DEF Transfer, PicoInterfaces
  <2>2. ASSUME NEW op, PassesOn(op) PROVE AnsweredBy("pico")
    BY <1>1, <2>2 DEF PassesOn, PicoInterfaces
  <2>3. pico_open \/ pico_close \/ pico_get_ipv4 => AnsweredBy("pico")
    BY <1>1 DEF pico_open, pico_close, pico_get_ipv4, PicoInterfaces
  <2>. QED  BY <2>1, <2>2, <2>3 DEF PicoServerNext, pico_pass_on, pico_control_shutdown, pico_send, pico_recv, PicoInterfaces
<1>. QED  BY <1>4, <1>5, <1>6, <1>7, <1>8, <1>9, <1>10
          DEF ClockThread, ResetThread, BpmpThread, FileThread, PicoThread

(* A client's step: it has a call out or none, no answer, and the others wait   *)
(* as before.                                                                   *)
LEMMA ClientMoves ==
  ASSUME RpcInv, NEW t \in Clients, ClientStep(t)
  PROVE  /\ ret'[t] = None
         /\ \A u \in Clients \ {t} : msg'[u] = msg[u] /\ ret'[u] = ret[u]
<1>0. t \in Threads /\ DOMAIN msg = Threads /\ DOMAIN ret = Threads
  BY Connections DEF RpcInv, RpcTypes
<1>1. ASSUME NEW m, Call(t, m)
      PROVE  ret'[t] = None /\ \A u \in Clients \ {t} : msg'[u] = msg[u] /\ ret'[u] = ret[u]
  BY <1>0, <1>1, Connections DEF Call, RpcInv, Idle
<1>2. ASSUME Return(t)
      PROVE  ret'[t] = None /\ \A u \in Clients \ {t} : msg'[u] = msg[u] /\ ret'[u] = ret[u]
  BY <1>0, <1>2, Connections DEF Return
<1>3. ASSUME ReadMore(t)
      PROVE  ret'[t] = None /\ \A u \in Clients \ {t} : msg'[u] = msg[u] /\ ret'[u] = ret[u]
  BY <1>0, <1>3, Connections DEF ReadMore
<1>. QED  BY <1>1, <1>2, <1>3 DEF ClientStep, GpioReturn, ClockReturn, FileClient, FileCall, StartRead,
                                  ReadReturn, FileReturn, PicoCall, PicoReturn

(* Which calls ask to be granted something.                                     *)
Shapes ==
    \A t \in Clients : msg[t] # NoCall =>
        /\ msg[t].op = "init_pin" => msg[t].iface = "gpio"
        /\ msg[t].op = "init_clock" => msg[t].iface = "clock"
        /\ msg[t].op = "open" /\ msg[t].iface \in PicoInterfaces => msg[t].iface = "pico_control"

(* Pins are asked for at gpio, clocks at clock and sockets at pico_control.   *)
LEMMA ShapesKept ==
  ASSUME RpcInv, Shapes, [Next]_vars
  PROVE  Shapes'
<1>1. CASE ServerStep
  <2>1. \A t \in Clients : msg'[t] = msg[t]
    BY <1>1, ThreadAnswers DEF ServerStep, AnsweredBy
  <2>. QED  BY <2>1 DEF Shapes, Clients, Places
<1>2. ASSUME NEW t \in Clients, ClientStep(t) PROVE Shapes'
  <2>0. t \in Threads /\ DOMAIN msg = Threads
    BY Connections DEF RpcInv, RpcTypes
  <2>1. ASSUME NEW m, msg' = [msg EXCEPT ![t] = m],
               /\ m.op = "init_pin" => m.iface = "gpio"
               /\ m.op = "init_clock" => m.iface = "clock"
               /\ m.op = "open" /\ m.iface \in PicoInterfaces => m.iface = "pico_control"
        PROVE  Shapes'
    <3>1. msg'[t] = m /\ \A u \in Clients \ {t} : msg'[u] = msg[u]
      BY <2>0, <2>1, Connections
    <3>. QED  BY <2>1, <3>1 DEF Shapes, Clients, Places
  <2>2. ASSUME Return(t) PROVE Shapes'
    <3>1. msg'[t] = NoCall /\ \A u \in Clients \ {t} : msg'[u] = msg[u]
      BY <2>0, <2>2, Connections DEF Return
    <3>. QED  BY <3>1 DEF Shapes, Clients, Places
  <2>3. ASSUME NEW m \in GpioCalls(t) \cup ClockCalls(t) \cup ResetCalls(t), Call(t, m) PROVE Shapes'
    <3>1. CASE m \in GpioCalls(t)
      <4>1. \/ m.iface = "gpio" /\ m.op \in {"init_pin", "set_level", "read_level"}
            \/ m.iface = "mux" /\ m.op = "feature"
        BY <3>1 DEF GpioCalls
      <4>. QED  BY <2>1, <2>3, <4>1 DEF Call, PicoInterfaces
    <3>2. CASE m \in ClockCalls(t)
      <4>1. m.iface = "clock" /\ m.op \in {"init_clock", "get_freq", "set_freq", "register_child", "gate"}
        BY <3>2 DEF ClockCalls
      <4>. QED  BY <2>1, <2>3, <4>1 DEF Call, PicoInterfaces
    <3>3. CASE m \in ResetCalls(t)
      <4>1. m.iface = "reset" /\ m.op = "reset"
        BY <3>3 DEF ResetCalls
      <4>. QED  BY <2>1, <2>3, <4>1 DEF Call, PicoInterfaces
    <3>. QED  BY <2>3, <3>1, <3>2, <3>3
  <2>4. ASSUME NEW m \in FileCalls(t), Call(t, m) PROVE Shapes'
    <3>1. m.iface = "fs" /\ m.op \in {"open", "seek", "close"}
      BY <2>4 DEF FileCalls
    <3>. QED  BY <2>1, <2>4, <3>1 DEF Call, PicoInterfaces
  <2>5. ASSUME NEW f, NEW n, msg' = [msg EXCEPT ![t] = Read(f, n)] PROVE Shapes'
    BY <2>1, <2>5 DEF Read
  <2>6. ASSUME NEW m \in PicoCalls(t), Call(t, m) PROVE Shapes'
    <3>1. \/ m.iface = "pico_control" /\ m.op \in {"open", "get_ipv4", "close", "pass_on", "shutdown"}
          \/ m.iface \in {"pico_send", "pico_recv"} /\ m.op = "transfer"
      BY <2>6 DEF PicoCalls
    <3>. QED  BY <2>1, <2>6, <3>1 DEF Call
  <2>. QED  BY <1>2, <2>2, <2>3, <2>4, <2>5, <2>6
            DEF ClientStep, GpioReturn, ClockReturn, FileClient, FileCall, StartRead, ReadMore,
                ReadReturn, FileReturn, PicoCall, PicoReturn, Call
<1>3. CASE UNCHANGED vars
  BY <1>3 DEF vars, rpc, Shapes, Clients, Places
<1>. QED  BY <1>1, <1>2, <1>3 DEF Next
-------------------------------------------------------------------------------
(* Pins.                                                                        *)
PinOf(p, t) ==
    p \in Pins /\ gpio_table[p].initialised /\ from_ends["gpio"][gpio_table[p].owner + 1] = t

PinHolders ==
    /\ DOMAIN gpios = Threads
    /\ \A t \in Clients : \A p \in gpios[t] : PinOf(p, t)
    /\ \A t \in Clients : \A p : Told(t, "gpio", "init_pin") /\ ret[t] = 0 /\ msg[t].pin = p => PinOf(p, t)

(* Pins are whose they were when the table is left alone.                     *)
LEMMA PinsSame ==
  ASSUME UNCHANGED gpio_table, NEW p, NEW t, PinOf(p, t)
  PROVE  PinOf(p, t)'
BY DEF PinOf, Pins

(* A client that takes its answer holds a pin that it has been granted.       *)
LEMMA PinHoldersClient ==
  ASSUME RpcInv, Shapes, PinHolders, NEW t \in Clients, ClientStep(t)
  PROVE  PinHolders'
<1>0. UNCHANGED gpio_table /\ t \in Threads /\ Clients \subseteq Threads
  BY Connections DEF ClientStep, gpioVars, GpioReturn
<1>1. ret'[t] = None /\ \A u \in Clients \ {t} : msg'[u] = msg[u] /\ ret'[u] = ret[u]
  BY ClientMoves
<1>2. \/ UNCHANGED gpios
      \/ /\ Told(t, "gpio", "init_pin") /\ ret[t] = 0
         /\ gpios' = [gpios EXCEPT ![t] = gpios[t] \cup {msg[t].pin}]
  BY DEF ClientStep, gpioVars, GpioReturn, Return, Shapes, Told, HasAnswer
<1>3. /\ DOMAIN gpios' = Threads
      /\ \A u \in Clients : \A p \in gpios'[u] : p \in gpios[u] \/ (u = t /\ PinOf(p, t))
  BY <1>0, <1>2 DEF PinHolders
<1>4. ASSUME NEW u \in Clients, NEW p \in gpios'[u] PROVE PinOf(p, u)'
  BY <1>0, <1>3, PinsSame DEF PinHolders
<1>5. ASSUME NEW u \in Clients, NEW p, Told(u, "gpio", "init_pin")', ret'[u] = 0, msg'[u].pin = p
      PROVE  PinOf(p, u)'
  <2>1. u # t /\ msg'[u] = msg[u] /\ ret'[u] = ret[u]
    BY <1>1, <1>5 DEF Told, HasAnswer
  <2>2. PinOf(p, u)
    BY <1>5, <2>1 DEF PinHolders, Told, HasAnswer
  <2>. QED  BY <1>0, <2>2, PinsSame
<1>. QED  BY <1>3, <1>4, <1>5 DEF PinHolders, Clients, Places, PinOf, Pins, Told, HasAnswer

(* What is granted stays so.                                                    *)
LEMMA PinsStay ==
  ASSUME PinsInv, ServerStep
  PROVE  UNCHANGED gpios /\ \A p \in Pins : gpio_table[p].initialised => gpio_table'[p] = gpio_table[p]
<1>1. CASE gpio_init_pin
  <2>. DEFINE q == msg[Caller("gpiomux")].pin
              e == [initialised |-> TRUE, owner |-> get_sender_id("gpio")]
  <2>1. \/ UNCHANGED gpio_table
        \/ ~gpio_table[q].initialised /\ gpio_table' = [gpio_table EXCEPT ![q] = e]
    BY <1>1 DEF gpio_init_pin, Grant, check_pin_initialised
  <2>. HIDE DEF q, e
  <2>. QED  BY <1>1, <2>1 DEF gpio_init_pin, PinsInv
<1>2. CASE gpio_set_level \/ gpio_read_level \/ mux_feature
  BY <1>2 DEF gpio_set_level, gpio_read_level, mux_feature
<1>3. CASE ~GpioThread
  BY <1>3 DEF ServerStep, ClockThread, ResetThread, BpmpThread, FileThread, PicoThread, gpioVars
<1>. QED  BY <1>1, <1>2, <1>3 DEF GpioThread, GpioServer

(* Success is answered about a pin of the caller only.                          *)
LEMMA PinAnswer ==
  ASSUME RpcInv, PinsInv, gpio_init_pin, NEW t \in Clients, msg[t].iface = "gpio", msg[t].op = "init_pin",
         ret'[t] # ret[t], ret'[t] = 0,
         NEW p, msg[t].pin = p
  PROVE  PinOf(p, t)'
<1>. DEFINE c == Caller("gpiomux")
            pin == msg[c].pin
            client == get_sender_id("gpio")
<1>1. /\ client \in 0..(Len(from_ends["gpio"]) - 1)
      /\ from_ends["gpio"][client + 1] = c
  BY GpioCaller DEF gpio_init_pin, Client
<1>2. "gpio" \in Interfaces /\ ServerOf["gpio"] = "gpiomux" /\ t \in Threads
  BY Connections
<1>3. PICK r : ReplyRecv("gpiomux", r)
  BY DEF gpio_init_pin, Grant
<1>4. \A u \in Threads : ret'[u] = IF u = c THEN r ELSE ret[u]
  BY <1>2, <1>3, Replied DEF gpio_init_pin
<1>5. t = c /\ r = 0
  BY <1>2, <1>4
<1>6. /\ pin \in Pins
      /\ \/ UNCHANGED gpio_table /\ gpio_table[pin].owner = client
         \/ gpio_table' = [gpio_table EXCEPT ![pin] = [initialised |-> TRUE, owner |-> client]]
  <2>1. ~ReplyRecv("gpiomux", -1)
    BY <1>2, <1>4, <1>5 DEF ReplyRecv, reply_recv, RpcInv, RpcTypes
  <2>. QED  BY <2>1 DEF gpio_init_pin, Grant, check_client_owns_pin
<1>7. gpio_table'[pin].initialised /\ gpio_table'[pin].owner = client /\ UNCHANGED msg
  <2>1. UNCHANGED msg
    BY <1>3 DEF ReplyRecv
  <2>. QED  BY <1>1, <1>6, <2>1 DEF PinsInv
<1>. QED  BY <1>1, <1>5, <1>6, <1>7 DEF PinOf, Pins

(* A server's step leaves holders their pins and tells the truth about new ones. *)
LEMMA PinHoldersServer ==
  ASSUME RpcInv, PinsInv, PinHolders, ServerStep
  PROVE  PinHolders'
<1>1. /\ UNCHANGED gpios
      /\ \A p \in Pins : gpio_table[p].initialised => gpio_table'[p] = gpio_table[p]
  BY PinsStay
<1>2. ASSUME NEW u, NEW p, PinOf(p, u) PROVE PinOf(p, u)'
  BY <1>1, <1>2 DEF PinOf, Pins
<1>3. \A u \in Clients : msg'[u] = msg[u]
  BY ThreadAnswers DEF ServerStep, AnsweredBy
<1>4. ASSUME NEW u \in Clients, NEW p, Told(u, "gpio", "init_pin")', ret'[u] = 0, msg'[u].pin = p
      PROVE  PinOf(p, u)'
  <2>1. msg[u].iface = "gpio" /\ msg[u].op = "init_pin" /\ msg[u] # NoCall /\ msg[u].pin = p
    BY <1>3, <1>4 DEF Told, HasAnswer
  <2>2. CASE ret'[u] = ret[u]
    <3>1. PinOf(p, u)
      BY <1>4, <2>1, <2>2 DEF PinHolders, Told, HasAnswer
    <3>. QED  BY <1>2, <3>1
  <2>3. CASE ret'[u] # ret[u]
    <3>1. GpioThread
      BY <2>1, <2>3, ThreadAnswers, Connections DEF ServerStep, AnsweredBy
    <3>2. ASSUME NEW op, Receives("gpio", op), NEW r, ReplyRecv("gpiomux", r) PROVE op = "init_pin"
      BY <2>1, <2>3, <3>2, Replied, Connections
    <3>3. ~(gpio_set_level \/ gpio_read_level)
      BY <3>2 DEF gpio_set_level, gpio_read_level
    <3>4. ASSUME mux_feature PROVE FALSE
      <4>1. PICK r : Receives("mux", "feature") /\ ReplyRecv("gpiomux", r)
        BY <3>4 DEF mux_feature
      <4>. QED  BY <2>1, <2>3, <4>1, Replied, Connections
    <3>5. gpio_init_pin
      BY <3>1, <3>3, <3>4 DEF GpioThread, GpioServer
    <3>. QED  BY <1>4, <2>1, <2>3, <3>5, PinAnswer
  <2>. QED  BY <2>2, <2>3
<1>6. \A u \in Clients : \A p \in gpios'[u] : PinOf(p, u)'
  BY <1>1, <1>2 DEF PinHolders
<1>. QED  BY <1>1, <1>4, <1>6 DEF PinHolders, Clients, Places, PinOf, Pins, Told, HasAnswer

-------------------------------------------------------------------------------
(* Clocks.                                                                      *)
ClockOf(k, t) ==
    k \in Clocks /\ clock_table[k].initialised /\ from_ends["clock"][clock_table[k].owner + 1] = t

ClockHolders ==
    /\ DOMAIN clks = Threads
    /\ \A t \in Clients : \A k \in clks[t] : ClockOf(k, t)
    /\ \A t \in Clients : \A k : Told(t, "clock", "init_clock") /\ ret[t] = 0 /\ msg[t].id = k => ClockOf(k, t)

(* A call that the ClockServer passes on asks for no clock.                     *)
NestedInv == reply_cap["clock"] # None => msg[reply_cap["clock"]].op # "init_clock"

(* The caller behind the saved reply capability of the ClockServer is a client. *)
LEMMA NestedClient ==
  ASSUME RpcInv
  PROVE  reply_cap["clock"] # None => reply_cap["clock"] \in Clients
<1>. SUFFICES ASSUME reply_cap["clock"] # None PROVE reply_cap["clock"] \in Clients
  OBVIOUS
<1>1. PICK t \in Threads : reply_cap["clock"] = t /\ Calling(t, "clock")
  BY Connections DEF RpcInv, RpcTypes, Saved
<1>. QED  BY <1>1, Connections DEF Calling

(* Every step keeps it so.                                                    *)
LEMMA NestedKept ==
  ASSUME RpcInv, NestedInv, [Next]_vars
  PROVE  NestedInv'
<1>1. ASSUME NEW t \in Clients, ClientStep(t) PROVE NestedInv'
  <2>1. UNCHANGED reply_cap
    BY <1>1 DEF ClientStep, GpioReturn, ClockReturn, FileClient, FileCall, StartRead, ReadMore, ReadReturn,
                FileReturn, PicoCall, PicoReturn, Call, Return
  <2>2. msg[t] = NoCall \/ ret[t] # None
    BY <1>1 DEF ClientStep, GpioReturn, ClockReturn, FileClient, FileCall, StartRead, ReadMore, ReadReturn,
                FileReturn, PicoCall, PicoReturn, Call, Return, HasAnswer
  <2>3. reply_cap["clock"] # t
    BY <2>2, FreeThreads, Connections DEF Free
  <2>4. \A u \in Clients \ {t} : msg'[u] = msg[u]
    BY <1>1, ClientMoves
  <2>. QED  BY <2>1, <2>3, <2>4, NestedClient DEF NestedInv
<1>2. CASE ServerStep
  <2>1. \A u \in Clients : msg'[u] = msg[u]
    BY <1>2, ThreadAnswers DEF ServerStep, AnsweredBy
  <2>2. CASE reply_cap'["clock"] = reply_cap["clock"] \/ reply_cap'["clock"] = None
    BY <2>1, <2>2, NestedClient DEF NestedInv
  <2>3. ASSUME NEW op, op # "init_clock", Receives("clock", op), NEW req, bpmp_call("clock", req)
        PROVE  NestedInv'
    <3>1. Caller("clock") \in Clients /\ msg[Caller("clock")].op = op
      BY <2>3, ReceivedInterface, Connections
    <3>2. reply_cap'["clock"] = Caller("clock")
      BY <2>3, Connections DEF bpmp_call, CallsOut, RpcInv, RpcTypes
    <3>. QED  BY <2>1, <2>3, <3>1, <3>2 DEF NestedInv
  <2>4. ASSUME NEW i \in Interfaces, NEW r, ReplyRecv(ServerOf[i], r) PROVE NestedInv'
    BY <2>2, <2>4 DEF ReplyRecv
  <2>. HIDE DEF NestedInv
  <2>5. GpioThread => NestedInv'
    BY <2>4, Connections DEF GpioThread, GpioServer, gpio_init_pin, gpio_set_level, gpio_read_level, mux_feature, Grant
  <2>6. ClockServerNext => NestedInv'
    <3>1. clock_init_clock => NestedInv'
      BY <2>4, Connections DEF clock_init_clock
    <3>2. clock_freq_call("get_freq") \/ clock_freq_call("set_freq") => NestedInv'
      BY <2>3, <2>4, Connections DEF clock_freq_call
    <3>3. clock_register_child => NestedInv'
      BY <2>4, Connections DEF clock_register_child
    <3>4. PassedOn("clock", "gate") => NestedInv'
      BY <2>3 DEF PassedOn
    <3>. QED  BY <3>1, <3>2, <3>3, <3>4 DEF ClockServerNext
  <2>7. ResetServerNext => NestedInv'
    BY <2>2 DEF ResetServerNext, PassedOn, bpmp_call, CallsOut
  <2>8. \A s \in {"clock", "reset"} : Driver(s) => NestedInv'
    BY <2>2, Connections DEF Driver, Answers, RpcInv, RpcTypes
  <2>9. the_bpmp_call => NestedInv'
    BY <2>4, Connections DEF the_bpmp_call
  <2>10. FileServerNext => NestedInv'
    BY <2>4, Connections DEF FileServerNext, fs_open, fs_seek, fs_read, fs_close
  <2>11. PicoServerNext => NestedInv'
    <3>1. ASSUME NEW i, Transfer(i) PROVE NestedInv'
      BY <2>2, <3>1 DEF Transfer, ReplyRecv
    <3>2. ASSUME NEW op, PassesOn(op) PROVE NestedInv'
      BY <2>2, <3>2 DEF PassesOn, ReplyRecv
    <3>3. pico_open \/ pico_close \/ pico_get_ipv4 => NestedInv'
      BY <2>2 DEF pico_open, pico_close, pico_get_ipv4, ReplyRecv
    <3>. QED  BY <3>1, <3>2, <3>3 DEF PicoServerNext, pico_pass_on, pico_control_shutdown, pico_send, pico_recv
  <2>. QED  BY <1>2, <2>5, <2>6, <2>7, <2>8, <2>9, <2>10, <2>11
            DEF ServerStep, ClockThread, ResetThread, BpmpThread, FileThread, PicoThread
<1>3. CASE UNCHANGED vars
  BY <1>3 DEF vars, rpc, NestedInv
<1>. QED  BY <1>1, <1>2, <1>3 DEF Next

(* Clocks are whose they were when the table is left alone.                   *)
LEMMA ClocksSame ==
  ASSUME UNCHANGED clock_table, NEW k, NEW t, ClockOf(k, t)
  PROVE  ClockOf(k, t)'
BY DEF ClockOf, Clocks

(* A client that takes its answer holds a clock that it has been granted.     *)
LEMMA ClockHoldersClient ==
  ASSUME RpcInv, Shapes, ClockHolders, NEW t \in Clients, ClientStep(t)
  PROVE  ClockHolders'
<1>0. UNCHANGED clock_table /\ t \in Threads /\ Clients \subseteq Threads
  BY Connections DEF ClientStep, clockVars, ClockReturn
<1>1. ret'[t] = None /\ \A u \in Clients \ {t} : msg'[u] = msg[u] /\ ret'[u] = ret[u]
  BY ClientMoves
<1>2. \/ UNCHANGED clks
      \/ /\ Told(t, "clock", "init_clock") /\ ret[t] = 0
         /\ clks' = [clks EXCEPT ![t] = clks[t] \cup {msg[t].id}]
  BY DEF ClientStep, clockVars, ClockReturn, Return, Shapes, Told, HasAnswer
<1>3. /\ DOMAIN clks' = Threads
      /\ \A u \in Clients : \A k \in clks'[u] : k \in clks[u] \/ (u = t /\ ClockOf(k, t))
  BY <1>0, <1>2 DEF ClockHolders
<1>4. ASSUME NEW u \in Clients, NEW k \in clks'[u] PROVE ClockOf(k, u)'
  BY <1>0, <1>3, ClocksSame DEF ClockHolders
<1>5. ASSUME NEW u \in Clients, NEW k, Told(u, "clock", "init_clock")', ret'[u] = 0, msg'[u].id = k
      PROVE  ClockOf(k, u)'
  <2>1. u # t /\ msg'[u] = msg[u] /\ ret'[u] = ret[u]
    BY <1>1, <1>5 DEF Told, HasAnswer
  <2>2. ClockOf(k, u)
    BY <1>5, <2>1 DEF ClockHolders, Told, HasAnswer
  <2>. QED  BY <1>0, <2>2, ClocksSame
<1>. QED  BY <1>3, <1>4, <1>5 DEF ClockHolders, Clients, Places, ClockOf, Clocks, Told, HasAnswer

(* What is granted stays so.                                                    *)
LEMMA ClocksStay ==
  ASSUME ClocksInv, ServerStep
  PROVE  UNCHANGED clks /\ \A k \in Clocks : clock_table[k].initialised => clock_table'[k] = clock_table[k]
<1>1. CASE clock_init_clock
  <2>. DEFINE q == msg[Caller("clock")].id
              e == [initialised |-> TRUE, owner |-> get_sender_id("clock")]
  <2>1. \/ UNCHANGED clock_table
        \/ ~clock_table[q].initialised /\ clock_table' = [clock_table EXCEPT ![q] = e]
    BY <1>1 DEF clock_init_clock
  <2>. HIDE DEF q, e
  <2>. QED  BY <1>1, <2>1 DEF clock_init_clock, Handled, ClocksInv
<1>2. ASSUME NEW op, clock_freq_call(op) PROVE UNCHANGED <<clks, clock_table>>
  BY <1>2 DEF clock_freq_call, Handled
<1>3. CASE clock_register_child
  BY <1>3 DEF clock_register_child, Handled
<1>4. ASSUME NEW s, NEW op, PassedOn(s, op) PROVE UNCHANGED <<clks, clock_table>>
  BY <1>4 DEF PassedOn
<1>5. ASSUME NEW s, Driver(s) PROVE UNCHANGED <<clks, clock_table>>
  BY <1>5 DEF Driver
<1>6. CASE GpioThread \/ FileThread \/ PicoThread
  BY <1>6 DEF GpioThread, FileThread, PicoThread, clockVars
<1>7. CASE BpmpThread
  BY <1>7 DEF BpmpThread, the_bpmp_call
<1>. QED  BY <1>1, <1>2, <1>3, <1>4, <1>5, <1>6, <1>7
          DEF ServerStep, ClockThread, ClockServerNext, ResetThread, ResetServerNext

(* Success is answered about a clock of the caller only.                        *)
LEMMA ClockAnswer ==
  ASSUME RpcInv, ClocksInv, clock_init_clock, NEW t \in Clients, msg[t].iface = "clock",
         msg[t].op = "init_clock", ret'[t] # ret[t], ret'[t] = 0,
         NEW k0, msg[t].id = k0
  PROVE  ClockOf(k0, t)'
<1>. DEFINE c == Caller("clock")
            k == msg[c].id
            client == get_sender_id("clock")
<1>1. client \in Owners /\ from_ends["clock"][client + 1] = c
  BY ClockCaller DEF clock_init_clock, Client
<1>2. "clock" \in Interfaces /\ ServerOf["clock"] = "clock" /\ t \in Threads
  BY Connections
<1>3. PICK r : ReplyRecv("clock", r)
  BY DEF clock_init_clock
<1>4. \A u \in Threads : ret'[u] = IF u = c THEN r ELSE ret[u]
  BY <1>2, <1>3, Replied DEF clock_init_clock
<1>5. t = c /\ r = 0
  BY <1>2, <1>4
<1>6. /\ k \in Clocks
      /\ \/ UNCHANGED clock_table /\ clock_table[k].initialised /\ clock_table[k].owner = client
         \/ clock_table' = [clock_table EXCEPT ![k] = [initialised |-> TRUE, owner |-> client]]
  <2>1. ~ReplyRecv("clock", -1)
    BY <1>2, <1>4, <1>5 DEF ReplyRecv, reply_recv, RpcInv, RpcTypes
  <2>. QED  BY <2>1 DEF clock_init_clock, check_is_owner
<1>7. clock_table'[k].initialised /\ clock_table'[k].owner = client /\ UNCHANGED msg
  <2>1. UNCHANGED msg
    BY <1>3 DEF ReplyRecv
  <2>. QED  BY <1>1, <1>6, <2>1 DEF ClocksInv
<1>. QED  BY <1>1, <1>5, <1>6, <1>7 DEF ClockOf, Clocks

(* A server's step leaves holders their clocks and tells the truth about new ones. *)
LEMMA ClockHoldersServer ==
  ASSUME RpcInv, NestedInv, ClocksInv, ClockHolders, ServerStep
  PROVE  ClockHolders'
<1>1. /\ UNCHANGED clks
      /\ \A k \in Clocks : clock_table[k].initialised => clock_table'[k] = clock_table[k]
  BY ClocksStay
<1>2. ASSUME NEW u, NEW k, ClockOf(k, u) PROVE ClockOf(k, u)'
  BY <1>1, <1>2 DEF ClockOf, Clocks
<1>3. \A u \in Clients : msg'[u] = msg[u]
  BY ThreadAnswers DEF ServerStep, AnsweredBy
<1>4. ASSUME NEW u \in Clients, NEW k, Told(u, "clock", "init_clock")', ret'[u] = 0, msg'[u].id = k
      PROVE  ClockOf(k, u)'
  <2>1. msg[u].iface = "clock" /\ msg[u].op = "init_clock" /\ msg[u] # NoCall /\ msg[u].id = k
    BY <1>3, <1>4 DEF Told, HasAnswer
  <2>2. CASE ret'[u] = ret[u]
    <3>1. ClockOf(k, u)
      BY <1>4, <2>1, <2>2 DEF ClockHolders, Told, HasAnswer
    <3>. QED  BY <1>2, <3>1
  <2>3. CASE ret'[u] # ret[u]
    <3>1. ClockThread
      BY <2>1, <2>3, ThreadAnswers, Connections DEF ServerStep, AnsweredBy
    <3>2. ASSUME NEW op, Receives("clock", op), NEW r, ReplyRecv("clock", r) PROVE op = "init_clock"
      BY <2>1, <2>3, <3>2, Replied, Connections
    <3>3. u \in Threads /\ u # "clock"
      BY Connections DEF BpmpClients
    <3>4. ASSUME NEW req, bpmp_call("clock", req) PROVE FALSE
      BY <2>3, <3>4 DEF bpmp_call, CallsOut
    <3>5. ASSUME NEW op, clock_freq_call(op), op # "init_clock" PROVE FALSE
      BY <3>2, <3>4, <3>5 DEF clock_freq_call
    <3>6. ~clock_register_child
      BY <3>2 DEF clock_register_child
    <3>7. ~PassedOn("clock", "gate")
      BY <3>4 DEF PassedOn
    <3>8. ASSUME Driver("clock") PROVE FALSE
      <4>1. reply_cap["clock"] # u
        BY <2>1, Connections DEF NestedInv
      <4>2. ret'[u] = ret[u]
        BY <3>3, <3>8, <4>1 DEF Driver, Answers, RpcInv, RpcTypes
      <4>. QED  BY <2>3, <4>2
    <3>9. clock_init_clock
      BY <3>1, <3>5, <3>6, <3>7, <3>8 DEF ClockThread, ClockServerNext
    <3>. QED  BY <1>4, <2>1, <2>3, <3>9, ClockAnswer
  <2>. QED  BY <2>2, <2>3
<1>6. \A u \in Clients : \A k \in clks'[u] : ClockOf(k, u)'
  BY <1>1, <1>2 DEF ClockHolders
<1>. QED  BY <1>1, <1>4, <1>6 DEF ClockHolders, Clients, Places, ClockOf, Clocks, Told, HasAnswer
-------------------------------------------------------------------------------
(* Files.                                                                       *)
FdOf(f, t) == f \in Fds /\ fd_table[f].client = BadgeOf("fs", t)

(* A file that a client is closing it holds no more.                            *)
FdHolders ==
    /\ DOMAIN fds = Threads
    /\ \A t \in Clients : \A f \in fds[t] : FdOf(f, t)
    /\ \A t \in Clients : \A f : Told(t, "fs", "open") /\ ret[t] # -1 /\ ret[t] = f => FdOf(f, t)
    /\ \A t \in Clients :
          msg[t] # NoCall /\ msg[t].iface = "fs" /\ msg[t].op = "close" => msg[t].fd \notin fds[t]

(* Fds are whose they were when the table is left alone.                      *)
LEMMA FdsSame ==
  ASSUME UNCHANGED fd_table, NEW f, NEW t, FdOf(f, t)
  PROVE  FdOf(f, t)'
BY DEF FdOf

(* What a call or a return does to the fds that the client holds.             *)
LEMMA FdCallsClient ==
  ASSUME RpcInv, FdHolders, NEW t \in Clients, ClientStep(t)
  PROVE  /\ DOMAIN fds' = Threads
         /\ \A u \in Clients \ {t} : fds'[u] = fds[u]
         /\ \A f \in fds'[t] : f \in fds[t] \/ FdOf(f, t)
         /\ msg'[t] # NoCall /\ msg'[t].iface = "fs" /\ msg'[t].op = "close" => msg'[t].fd \notin fds'[t]
<1>0. t \in Threads /\ DOMAIN msg = Threads /\ DOMAIN fds = Threads /\ Clients \subseteq Threads
  BY Connections DEF RpcInv, RpcTypes, FdHolders
<1>1. ASSUME Return(t) PROVE msg'[t] = NoCall
  BY <1>0, <1>1 DEF Return
<1>2. ASSUME NEW m, Call(t, m) PROVE msg'[t] = m
  BY <1>0, <1>2 DEF Call
<1>3. CASE FileCall(t)
  <2>1. PICK m \in FileCalls(t) :
           /\ Call(t, m)
           /\ fds' = IF m.op = "close" THEN [fds EXCEPT ![t] = @ \ {m.fd}] ELSE fds
    BY <1>3 DEF FileCall
  <2>. QED  BY <1>0, <1>2, <2>1
<1>4. CASE FileReturn(t)
  <2>1. CASE UNCHANGED fds
    BY <1>0, <1>1, <1>4, <2>1 DEF FileReturn
  <2>2. CASE ~UNCHANGED fds
    <3>1. Told(t, "fs", "open") /\ ret[t] # -1 /\ fds' = [fds EXCEPT ![t] = fds[t] \cup {ret[t]}]
      BY <1>4, <2>2 DEF FileReturn, Return, Told
    <3>2. FdOf(ret[t], t)
      BY <3>1 DEF FdHolders
    <3>. QED  BY <1>0, <1>1, <1>4, <3>1, <3>2 DEF FileReturn
  <2>. QED  BY <2>1, <2>2
<1>5. ASSUME NEW f, NEW n, UNCHANGED fds, msg' = [msg EXCEPT ![t] = Read(f, n)]
      PROVE  UNCHANGED fds /\ msg'[t].op # "close"
  BY <1>0, <1>5 DEF Read
<1>6. CASE (\E f \in Fds, n \in Counts : StartRead(t, f, n)) \/ ReadMore(t)
  BY <1>0, <1>5, <1>6 DEF StartRead, ReadMore, Call
<1>7. CASE ReadReturn(t)
  BY <1>0, <1>1, <1>7 DEF ReadReturn
<1>8. ASSUME NEW m \in GpioCalls(t) \cup ClockCalls(t) \cup ResetCalls(t) \cup PicoCalls(t), Call(t, m)
      PROVE  msg'[t].iface # "fs"
  <2>1. m.iface # "fs"
    BY <1>8 DEF GpioCalls, ClockCalls, ResetCalls, PicoCalls
  <2>. QED  BY <1>2, <1>8, <2>1
<1>9. CASE UNCHANGED fds /\ (msg'[t] = NoCall \/ msg'[t].iface # "fs")
  BY <1>0, <1>9
<1>10. CASE ~FileClient(t)
  <2>1. UNCHANGED fds
    BY <1>10 DEF ClientStep, fileVars
  <2>2. msg'[t] = NoCall \/ msg'[t].iface # "fs"
    BY <1>1, <1>8, <1>10 DEF ClientStep, GpioReturn, ClockReturn, PicoCall, PicoReturn
  <2>. QED  BY <1>9, <2>1, <2>2
<1>. QED  BY <1>3, <1>4, <1>6, <1>7, <1>10 DEF FileClient

(* A client holds fds of its own, and gives one up as it calls close.         *)
LEMMA FdHoldersClient ==
  ASSUME RpcInv, FdHolders, NEW t \in Clients, ClientStep(t)
  PROVE  FdHolders'
<1>0. UNCHANGED fd_table
  BY DEF ClientStep, fileVars, FileClient, FileCall, StartRead, ReadMore, ReadReturn, FileReturn
<1>1. ret'[t] = None /\ \A u \in Clients \ {t} : msg'[u] = msg[u] /\ ret'[u] = ret[u]
  BY ClientMoves
<1>2. /\ DOMAIN fds' = Threads
      /\ \A u \in Clients \ {t} : fds'[u] = fds[u]
      /\ \A f \in fds'[t] : f \in fds[t] \/ FdOf(f, t)
      /\ msg'[t] # NoCall /\ msg'[t].iface = "fs" /\ msg'[t].op = "close" => msg'[t].fd \notin fds'[t]
  BY FdCallsClient
<1>3. ASSUME NEW u \in Clients, NEW f \in fds'[u] PROVE FdOf(f, u)'
  <2>1. FdOf(f, u)
    BY <1>2, <1>3 DEF FdHolders
  <2>. QED  BY <1>0, <2>1, FdsSame
<1>4. ASSUME NEW u \in Clients, NEW f, Told(u, "fs", "open")', ret'[u] # -1, ret'[u] = f
      PROVE  FdOf(f, u)'
  <2>1. u # t /\ msg'[u] = msg[u] /\ ret'[u] = ret[u]
    BY <1>1, <1>4 DEF Told, HasAnswer
  <2>2. FdOf(f, u)
    BY <1>4, <2>1 DEF FdHolders, Told, HasAnswer
  <2>. QED  BY <1>0, <2>2, FdsSame
<1>5. ASSUME NEW u \in Clients, msg'[u] # NoCall, msg'[u].iface = "fs", msg'[u].op = "close"
      PROVE  msg'[u].fd \notin fds'[u]
  BY <1>1, <1>2, <1>5 DEF FdHolders
<1>. QED  BY <1>2, <1>3, <1>4, <1>5 DEF FdHolders, Clients, Places, Told, HasAnswer

(* An fd stays its client's until that client closes it.                        *)
LEMMA FdStays ==
  ASSUME RpcInv, FdsInv, ServerStep, NEW f, NEW t \in Clients, FdOf(f, t)
  PROVE  FdOf(f, t)' \/ (fs_close /\ Caller("fs") = t /\ msg[t].fd = f)
<1>0. f \in Fds /\ fd_table[f].client = BadgeOf("fs", t) /\ fd_table[f] # Closed
  BY FileBadges DEF FdOf, Closed
<1>1. ASSUME fd_table'[f].client = fd_table[f].client PROVE FdOf(f, t)'
  BY <1>0, <1>1 DEF FdOf
<1>2. CASE UNCHANGED fd_table
  BY <1>1, <1>2
<1>3. CASE fs_open /\ ~UNCHANGED fd_table
  <2>1. /\ FreeFds # {}
        /\ fd_table' = [fd_table EXCEPT ![Min(FreeFds)] = [client |-> fs_sender, offset |-> 0]]
    BY <1>3 DEF fs_open
  <2>2. Min(FreeFds) # f
    BY <1>0, <2>1, LeastFd DEF FreeFds
  <2>3. fd_table'[f] = fd_table[f]
    BY <1>0, <2>1, <2>2 DEF FdsInv
  <2>. QED  BY <1>1, <2>3
<1>4. CASE (fs_seek \/ fs_read) /\ ~UNCHANGED fd_table
  <2>. DEFINE q == msg[Caller("fs")].fd
  <2>1. PICK n : q \in Fds /\ fd_table' = [fd_table EXCEPT ![q].offset = n]
    <3>1. CASE fs_seek
      BY <1>4, <3>1 DEF fs_seek, validate_client_fd
    <3>2. CASE fs_read
      BY <1>4, <3>2 DEF fs_read, validate_client_fd
    <3>. QED  BY <1>4, <3>1, <3>2
  <2>. HIDE DEF q
  <2>2. fd_table' = [fd_table EXCEPT ![q] = [fd_table[q] EXCEPT !.offset = n]]
    BY <2>1
  <2>3. [fd_table[q] EXCEPT !.offset = n] = [client |-> fd_table[q].client, offset |-> n]
    <3>1. fd_table[q] = [client |-> fd_table[q].client, offset |-> fd_table[q].offset]
      BY <2>1 DEF FdsInv
    <3>. QED  BY <3>1
  <2>4. fd_table'[f].client = fd_table[f].client
    BY <1>0, <2>2, <2>3 DEF FdsInv
  <2>. QED  BY <1>1, <2>4
<1>5. CASE fs_close /\ ~UNCHANGED fd_table
  <2>. DEFINE c == Caller("fs")
              q == msg[c].fd
  <2>1. /\ fd_table[q].client = fs_sender
        /\ fd_table' = [fd_table EXCEPT ![q] = Closed]
    BY <1>5 DEF fs_close, validate_client_fd
  <2>2. c \in Clients /\ fs_sender = BadgeOf("fs", c)
    BY <1>5, FileSender DEF fs_close
  <2>3. CASE q = f
    BY <1>0, <1>5, <2>1, <2>2, <2>3, FileBadges
  <2>4. CASE q # f
    <3>. HIDE DEF q
    <3>1. fd_table'[f] = fd_table[f]
      BY <1>0, <2>1, <2>4 DEF FdsInv
    <3>. QED  BY <1>1, <3>1
  <2>. QED  BY <2>3, <2>4
<1>6. CASE ~FileThread
  <2>1. UNCHANGED fd_table
    BY <1>6 DEF ServerStep, GpioThread, ClockThread, ResetThread, BpmpThread, PicoThread, fileVars
  <2>. QED  BY <1>2, <2>1
<1>. QED  BY <1>2, <1>3, <1>4, <1>5, <1>6 DEF FileThread, FileServerNext

(* The answer to an open is an fd of the caller.                                *)
LEMMA FdAnswer ==
  ASSUME RpcInv, FdsInv, fs_open, NEW t \in Clients, ret'[t] # ret[t], ret'[t] # -1,
         NEW f, ret'[t] = f
  PROVE  FdOf(f, t)'
<1>. DEFINE c == Caller("fs")
<1>1. c \in Clients /\ fs_sender = BadgeOf("fs", c)
  BY FileSender DEF fs_open
<1>2. "fs" \in Interfaces /\ ServerOf["fs"] = "fs" /\ t \in Threads
  BY Connections
<1>3. ASSUME NEW r, ReplyRecv("fs", r) PROVE t = c /\ r = f
  <2>1. \A u \in Threads : ret'[u] = IF u = c THEN r ELSE ret[u]
    BY <1>2, <1>3, Replied DEF fs_open
  <2>. QED  BY <1>2, <2>1
<1>4. /\ FreeFds # {} /\ f = Min(FreeFds) /\ t = c
      /\ fd_table' = [fd_table EXCEPT ![Min(FreeFds)] = [client |-> fs_sender, offset |-> 0]]
  BY <1>3 DEF fs_open
<1>5. f \in Fds
  BY <1>4, LeastFd DEF FreeFds
<1>6. fd_table'[f] = [client |-> fs_sender, offset |-> 0]
  BY <1>4, <1>5 DEF FdsInv
<1>7. fd_table'[f].client = BadgeOf("fs", t)
  BY <1>1, <1>4, <1>6
<1>. QED  BY <1>5, <1>7 DEF FdOf

(* A server's step leaves holders their fds and tells the truth about new ones. *)
LEMMA FdHoldersServer ==
  ASSUME RpcInv, FdsInv, FdHolders, ServerStep
  PROVE  FdHolders'
<1>0. UNCHANGED fds
  BY DEF ServerStep, GpioThread, ClockThread, ResetThread, BpmpThread, FileThread, PicoThread, fileVars,
         FileServerNext, fs_open, fs_seek, fs_read, fs_close
<1>1. \A u \in Clients : msg'[u] = msg[u]
  BY ThreadAnswers DEF ServerStep, AnsweredBy
<1>2. ASSUME NEW u \in Clients, fs_close, Caller("fs") = u
      PROVE  msg[u] # NoCall /\ msg[u].iface = "fs" /\ msg[u].op = "close"
  <2>1. msg[u].iface = "fs" /\ msg[u].op = "close"
    BY <1>2, ReceivedInterface, Connections DEF fs_close
  <2>. QED  BY <2>1, CallsDiffer, Connections
<1>3. ASSUME NEW u \in Clients, NEW f \in fds[u] PROVE FdOf(f, u)'
  BY <1>2, <1>3, FdStays DEF FdHolders
<1>4. ASSUME NEW u \in Clients, NEW f, Told(u, "fs", "open")', ret'[u] # -1, ret'[u] = f
      PROVE  FdOf(f, u)'
  <2>1. msg[u].iface = "fs" /\ msg[u].op = "open" /\ msg[u] # NoCall
    BY <1>1, <1>4 DEF Told, HasAnswer
  <2>2. CASE ret'[u] = ret[u]
    <3>1. FdOf(f, u)
      BY <1>4, <2>1, <2>2 DEF FdHolders, Told, HasAnswer
    <3>. QED  BY <1>2, <2>1, <3>1, FdStays
  <2>3. CASE ret'[u] # ret[u]
    <3>1. FileThread
      BY <2>1, <2>3, ThreadAnswers, Connections DEF ServerStep, AnsweredBy
    <3>2. ASSUME NEW op, Receives("fs", op), NEW r, ReplyRecv("fs", r) PROVE op = "open"
      BY <2>1, <2>3, <3>2, Replied, Connections
    <3>3. ~(fs_seek \/ fs_read \/ fs_close)
      BY <3>2 DEF fs_seek, fs_read, fs_close
    <3>4. fs_open
      BY <3>1, <3>3 DEF FileThread, FileServerNext
    <3>. QED  BY <1>4, <2>3, <3>4, FdAnswer
  <2>. QED  BY <2>2, <2>3
<1>5. ASSUME NEW u \in Clients, msg'[u] # NoCall, msg'[u].iface = "fs", msg'[u].op = "close"
      PROVE  msg'[u].fd \notin fds'[u]
  BY <1>0, <1>1, <1>5 DEF FdHolders
<1>6. ASSUME NEW u \in Clients, NEW f \in fds'[u] PROVE FdOf(f, u)'
  BY <1>0, <1>3
<1>7. DOMAIN fds' = Threads
  BY <1>0 DEF FdHolders
<1>. QED  BY <1>4, <1>5, <1>6, <1>7 DEF FdHolders, Clients, Places, Told, HasAnswer
-------------------------------------------------------------------------------
(* Sockets.                                                                     *)
SocketHolders ==
    /\ DOMAIN socks = Threads /\ DOMAIN socket_table = Numbers
    /\ \A t \in Clients : socks[t] \subseteq socket_table[NumberOf(t)]
    /\ \A t \in Clients :
          Told(t, "pico_control", "open") /\ ret[t] # -1 => ret[t] \in socket_table[NumberOf(t)]
    /\ \A t \in Clients :
          msg[t] # NoCall /\ msg[t].iface = "pico_control" /\ msg[t].op = "close" => msg[t].fd \notin socks[t]

(* What a call or a return does to the sockets that the client holds.         *)
LEMMA SocketCallsClient ==
  ASSUME RpcInv, Shapes, SocketHolders, NEW t \in Clients, ClientStep(t)
  PROVE  /\ DOMAIN socks' = Threads
         /\ \A u \in Clients \ {t} : socks'[u] = socks[u]
         /\ socks'[t] \subseteq socket_table[NumberOf(t)]
         /\ msg'[t] # NoCall /\ msg'[t].iface = "pico_control" /\ msg'[t].op = "close" =>
                msg'[t].fd \notin socks'[t]
<1>0. t \in Threads /\ DOMAIN msg = Threads /\ DOMAIN socks = Threads /\ Clients \subseteq Threads
  BY Connections DEF RpcInv, RpcTypes, SocketHolders
<1>1. ASSUME Return(t) PROVE msg'[t] = NoCall
  BY <1>0, <1>1 DEF Return
<1>2. ASSUME NEW m, Call(t, m) PROVE msg'[t] = m
  BY <1>0, <1>2 DEF Call
<1>3. CASE PicoCall(t)
  <2>1. PICK m \in PicoCalls(t) :
           /\ Call(t, m)
           /\ socks' = IF m.op = "close" THEN [socks EXCEPT ![t] = @ \ {m.fd}] ELSE socks
    BY <1>3 DEF PicoCall
  <2>. QED  BY <1>0, <1>2, <2>1 DEF SocketHolders
<1>4. CASE PicoReturn(t)
  <2>1. CASE UNCHANGED socks
    BY <1>0, <1>1, <1>4, <2>1 DEF PicoReturn, SocketHolders
  <2>2. CASE ~UNCHANGED socks
    <3>1. Told(t, "pico_control", "open") /\ ret[t] # -1 /\ socks' = [socks EXCEPT ![t] = socks[t] \cup {ret[t]}]
      BY <1>4, <2>2 DEF PicoReturn, Return, Told, HasAnswer, Shapes
    <3>2. ret[t] \in socket_table[NumberOf(t)]
      BY <3>1 DEF SocketHolders
    <3>. QED  BY <1>0, <1>1, <1>4, <3>1, <3>2 DEF PicoReturn, SocketHolders
  <2>. QED  BY <2>1, <2>2
<1>5. ASSUME NEW f, NEW n, msg' = [msg EXCEPT ![t] = Read(f, n)] PROVE msg'[t].iface # "pico_control"
  BY <1>0, <1>5 DEF Read
<1>6. ASSUME NEW m \in GpioCalls(t) \cup ClockCalls(t) \cup ResetCalls(t) \cup FileCalls(t), Call(t, m)
      PROVE  msg'[t].iface # "pico_control"
  <2>1. m.iface # "pico_control"
    BY <1>6 DEF GpioCalls, ClockCalls, ResetCalls, FileCalls
  <2>. QED  BY <1>2, <1>6, <2>1
<1>7. CASE UNCHANGED socks /\ (msg'[t] = NoCall \/ msg'[t].iface # "pico_control")
  BY <1>0, <1>7 DEF SocketHolders
<1>8. CASE ~PicoCall(t) /\ ~PicoReturn(t)
  <2>1. UNCHANGED socks
    BY <1>8 DEF ClientStep, picoVars
  <2>2. CASE FileClient(t)
    <3>1. msg'[t] = NoCall \/ msg'[t].iface # "pico_control"
      BY <1>1, <1>5, <1>6, <2>2 DEF FileClient, FileCall, StartRead, ReadMore, ReadReturn, FileReturn, Call
    <3>. QED  BY <1>7, <2>1, <3>1
  <2>3. CASE ~FileClient(t)
    <3>1. msg'[t] = NoCall \/ msg'[t].iface # "pico_control"
      BY <1>1, <1>6, <1>8, <2>3 DEF ClientStep, GpioReturn, ClockReturn
    <3>. QED  BY <1>7, <2>1, <3>1
  <2>. QED  BY <2>2, <2>3
<1>. QED  BY <1>3, <1>4, <1>8

(* A client holds sockets of its own, and gives one up as it calls close.     *)
LEMMA SocketHoldersClient ==
  ASSUME RpcInv, Shapes, SocketHolders, NEW t \in Clients, ClientStep(t)
  PROVE  SocketHolders'
<1>0. UNCHANGED socket_table
  BY DEF ClientStep, picoVars, PicoCall, PicoReturn
<1>1. ret'[t] = None /\ \A u \in Clients \ {t} : msg'[u] = msg[u] /\ ret'[u] = ret[u]
  BY ClientMoves
<1>2. /\ DOMAIN socks' = Threads
      /\ \A u \in Clients \ {t} : socks'[u] = socks[u]
      /\ socks'[t] \subseteq socket_table[NumberOf(t)]
      /\ msg'[t] # NoCall /\ msg'[t].iface = "pico_control" /\ msg'[t].op = "close" =>
             msg'[t].fd \notin socks'[t]
  BY SocketCallsClient
<1>3. \A u \in Clients : socks'[u] \subseteq socket_table'[NumberOf(u)]
  BY <1>0, <1>2 DEF SocketHolders
<1>4. ASSUME NEW u \in Clients, Told(u, "pico_control", "open")', ret'[u] # -1
      PROVE  ret'[u] \in socket_table'[NumberOf(u)]
  <2>1. u # t /\ msg'[u] = msg[u] /\ ret'[u] = ret[u]
    BY <1>1, <1>4 DEF Told, HasAnswer
  <2>. QED  BY <1>0, <1>4, <2>1 DEF SocketHolders, Told, HasAnswer
<1>5. ASSUME NEW u \in Clients, msg'[u] # NoCall, msg'[u].iface = "pico_control", msg'[u].op = "close"
      PROVE  msg'[u].fd \notin socks'[u]
  BY <1>1, <1>2, <1>5 DEF SocketHolders
<1>. QED  BY <1>0, <1>2, <1>3, <1>4, <1>5
          DEF SocketHolders, Told, HasAnswer

(* For a call of pico_control, client_check finds the caller.                   *)
LEMMA PicoCaller ==
  ASSUME RpcInv, NEW op, Receives("pico_control", op), handle_message("pico_control")
  PROVE  /\ Caller("pico") \in Clients /\ client_check = NumberOf(Caller("pico")) /\ client_check \in Numbers
         /\ \A u \in Clients : NumberOf(u) = NumberOf(Caller("pico")) => u = Caller("pico")
<1>. DEFINE c == Caller("pico")
<1>1. /\ "pico_control" \in Interfaces /\ "pico_control" \in Asking /\ ServerOf["pico_control"] = "pico"
      /\ CallersOf("pico_control") = Clients
  BY Connections, ServersAssumption DEF PicoInterfaces
<1>2. c \in Clients /\ client_check = PlaceOf("pico_control", c) - 1 /\ client_check \in Numbers
  BY <1>1, SenderIsCaller, ReceivedInterface DEF client_check, Numbers
<1>3. \A u \in Clients : /\ PlaceOf("pico_control", u) \in Places("pico_control")
                         /\ from_ends["pico_control"][PlaceOf("pico_control", u)] = u
  BY <1>1, CallerPlace
<1>4. \A u \in Clients : PlaceOf("pico_control", u) \in Int
  BY <1>3 DEF Places
<1>5. ASSUME NEW u \in Clients, NumberOf(u) = NumberOf(c) PROVE u = c
  <2>1. PlaceOf("pico_control", u) = PlaceOf("pico_control", c)
    BY <1>2, <1>4, <1>5 DEF NumberOf
  <2>. QED  BY <1>2, <1>3, <2>1
<1>. QED  BY <1>2, <1>5 DEF NumberOf

(* A socket stays in its client's table until that client closes it.            *)
LEMMA SocketStays ==
  ASSUME RpcInv, SocketHolders, ServerStep, NEW t \in Clients, NEW fd \in socket_table[NumberOf(t)]
  PROVE  \/ fd \in socket_table'[NumberOf(t)]
         \/ pico_close /\ Caller("pico") = t /\ msg[t].fd = fd
<1>. DEFINE n == NumberOf(t)
<1>1. CASE UNCHANGED socket_table
  BY <1>1
<1>2. CASE pico_open /\ ~UNCHANGED socket_table
  <2>. DEFINE k == client_check
  <2>1. PICK e : socket_table' = [socket_table EXCEPT ![k] = socket_table[k] \cup {e}]
    BY <1>2 DEF pico_open
  <2>2. k \in Numbers
    BY <1>2 DEF pico_open
  <2>. HIDE DEF k
  <2>3. CASE n = k
    BY <2>1, <2>2, <2>3 DEF SocketHolders
  <2>4. CASE n # k
    BY <2>1, <2>4
  <2>. QED  BY <2>3, <2>4
<1>3. CASE pico_close /\ ~UNCHANGED socket_table
  <2>. DEFINE c == Caller("pico")
              k == client_check
              e == msg[c].fd
  <2>1. socket_table' = [socket_table EXCEPT ![k] = socket_table[k] \ {e}] /\ k \in Numbers
    BY <1>3 DEF pico_close
  <2>2. c \in Clients /\ k = NumberOf(c) /\ (n = k => t = c)
    BY <1>3, PicoCaller DEF pico_close
  <2>. HIDE DEF k, e, n
  <2>3. CASE n = k /\ fd = e
    BY <1>3, <2>2, <2>3 DEF e
  <2>4. CASE n = k /\ fd # e
    BY <2>1, <2>4 DEF SocketHolders, n
  <2>5. CASE n # k
    BY <2>1, <2>5 DEF n
  <2>. QED  BY <2>3, <2>4, <2>5
<1>4. CASE pico_get_ipv4 \/ (\E op : PassesOn(op)) \/ (\E i : Transfer(i))
  BY <1>1, <1>4 DEF pico_get_ipv4, PassesOn, Transfer, picoVars
<1>5. CASE ~PicoThread
  <2>1. UNCHANGED socket_table
    BY <1>5 DEF ServerStep, GpioThread, ClockThread, ResetThread, BpmpThread, FileThread, picoVars
  <2>. QED  BY <1>1, <2>1
<1>. QED  BY <1>1, <1>2, <1>3, <1>4, <1>5
          DEF PicoThread, PicoServerNext, pico_pass_on, pico_control_shutdown, pico_send, pico_recv

(* The answer to an open is in the table of the caller.                         *)
LEMMA SocketAnswer ==
  ASSUME RpcInv, SocketHolders, pico_open, NEW t \in Clients, ret'[t] # ret[t], ret'[t] # -1
  PROVE  ret'[t] \in socket_table'[NumberOf(t)]
<1>. DEFINE c == Caller("pico")
            k == client_check
<1>1. c \in Clients /\ k = NumberOf(c) /\ k \in Numbers
  BY PicoCaller DEF pico_open
<1>2. "pico_control" \in Interfaces /\ ServerOf["pico_control"] = "pico" /\ t \in Threads
  BY Connections DEF PicoInterfaces
<1>3. ASSUME NEW r, ReplyRecv("pico", r) PROVE t = c /\ r = ret'[t]
  <2>1. \A u \in Threads : ret'[u] = IF u = c THEN r ELSE ret[u]
    BY <1>2, <1>3, Replied DEF pico_open
  <2>. QED  BY <1>2, <2>1
<1>4. PICK e : /\ socket_table' = [socket_table EXCEPT ![k] = socket_table[k] \cup {e}]
               /\ ReplyRecv("pico", e)
  BY <1>3 DEF pico_open
<1>5. t = c /\ e = ret'[t]
  BY <1>3, <1>4
<1>. HIDE DEF k
<1>6. e \in socket_table'[k]
  BY <1>1, <1>4 DEF SocketHolders
<1>. QED  BY <1>1, <1>5, <1>6

(* A server's step leaves holders their sockets and tells the truth about new ones. *)
LEMMA SocketHoldersServer ==
  ASSUME RpcInv, SocketHolders, ServerStep
  PROVE  SocketHolders'
<1>0. UNCHANGED socks
  BY DEF ServerStep, GpioThread, ClockThread, ResetThread, BpmpThread, FileThread, PicoThread, picoVars,
         PicoServerNext, pico_open, pico_close, pico_pass_on, pico_control_shutdown, PassesOn, pico_get_ipv4,
         pico_send, pico_recv, Transfer
<1>1. \A u \in Clients : msg'[u] = msg[u]
  BY ThreadAnswers DEF ServerStep, AnsweredBy
<1>2. ASSUME NEW u \in Clients, pico_close, Caller("pico") = u
      PROVE  msg[u] # NoCall /\ msg[u].iface = "pico_control" /\ msg[u].op = "close"
  <2>1. msg[u].iface = "pico_control" /\ msg[u].op = "close"
    BY <1>2, ReceivedInterface, Connections DEF pico_close, PicoInterfaces
  <2>. QED  BY <2>1, CallsDiffer, Connections
<1>3. ASSUME NEW u \in Clients, NEW fd \in socks[u] PROVE fd \in socket_table'[NumberOf(u)]
  <2>1. fd \in socket_table[NumberOf(u)]
    BY <1>3 DEF SocketHolders
  <2>2. ~(pico_close /\ Caller("pico") = u /\ msg[u].fd = fd)
    BY <1>2, <1>3 DEF SocketHolders
  <2>. QED  BY <2>1, <2>2, SocketStays
<1>4. ASSUME NEW u \in Clients, Told(u, "pico_control", "open")', ret'[u] # -1
      PROVE  ret'[u] \in socket_table'[NumberOf(u)]
  <2>1. msg[u].iface = "pico_control" /\ msg[u].op = "open" /\ msg[u] # NoCall
    BY <1>1, <1>4 DEF Told, HasAnswer
  <2>2. CASE ret'[u] = ret[u]
    <3>1. ret[u] \in socket_table[NumberOf(u)]
      BY <1>4, <2>1, <2>2 DEF SocketHolders, Told, HasAnswer
    <3>2. ~(pico_close /\ Caller("pico") = u)
      BY <1>2, <2>1
    <3>. QED  BY <2>2, <3>1, <3>2, SocketStays
  <2>3. CASE ret'[u] # ret[u]
    <3>1. PicoThread
      BY <2>1, <2>3, ThreadAnswers, Connections DEF ServerStep, AnsweredBy, PicoInterfaces
    <3>2. ASSUME NEW i \in PicoInterfaces, NEW op, Receives(i, op), NEW r, ReplyRecv("pico", r)
          PROVE  op = "open"
      BY <2>1, <2>3, <3>2, Replied, Connections DEF PicoInterfaces
    <3>3. ~(pico_close \/ pico_get_ipv4)
      BY <3>2 DEF pico_close, pico_get_ipv4, PicoInterfaces
    <3>4. ASSUME NEW op, op # "open", PassesOn(op) PROVE FALSE
      BY <3>2, <3>4 DEF PassesOn, PicoInterfaces
    <3>5. ASSUME NEW i \in PicoInterfaces, Transfer(i) PROVE FALSE
      BY <3>2, <3>5 DEF Transfer
    <3>6. pico_open
      BY <3>1, <3>3, <3>4, <3>5
         DEF PicoThread, PicoServerNext, pico_pass_on, pico_control_shutdown, pico_send, pico_recv, PicoInterfaces
    <3>. QED  BY <1>4, <2>3, <3>6, SocketAnswer
  <2>. QED  BY <2>2, <2>3
<1>5. ASSUME NEW u \in Clients, msg'[u] # NoCall, msg'[u].iface = "pico_control", msg'[u].op = "close"
      PROVE  msg'[u].fd \notin socks'[u]
  BY <1>0, <1>1, <1>5 DEF SocketHolders
<1>6. DOMAIN socket_table' = Numbers /\ DOMAIN socks' = Threads
  <2>1. CASE pico_open
    BY <1>0, <2>1 DEF pico_open, SocketHolders
  <2>2. CASE pico_close
    BY <1>0, <2>2 DEF pico_close, SocketHolders
  <2>3. CASE ~pico_open /\ ~pico_close
    <3>1. UNCHANGED socket_table
      BY <2>3 DEF ServerStep, GpioThread, ClockThread, ResetThread, BpmpThread, FileThread, PicoThread, picoVars,
         PicoServerNext, pico_pass_on, pico_control_shutdown, PassesOn, pico_get_ipv4, pico_send, pico_recv, Transfer
    <3>. QED  BY <1>0, <3>1 DEF SocketHolders
  <2>. QED  BY <2>1, <2>2, <2>3
<1>7. \A u \in Clients : socks'[u] \subseteq socket_table'[NumberOf(u)]
  BY <1>0, <1>3
<1>. QED  BY <1>4, <1>5, <1>6, <1>7
          DEF SocketHolders, Told, HasAnswer

-------------------------------------------------------------------------------
HoldersInv ==
    /\ RpcInv /\ TablesInv
    /\ Shapes /\ NestedInv
    /\ PinHolders /\ ClockHolders /\ FdHolders /\ SocketHolders

(* Nobody holds anything at the start.                                        *)
LEMMA InitialHolders ==
  ASSUME Init
  PROVE  HoldersInv
<1>1. \A t \in Threads : msg[t] = NoCall /\ ret[t] = None /\ gpios[t] = {} /\ clks[t] = {} /\ fds[t] = {} /\ socks[t] = {}
  BY DEF Init, RpcInit, GpioInit, ClockInit, FileInit, PicoInit
<1>2. Clients \subseteq Threads /\ reply_cap["clock"] = None
  BY Connections DEF Init, RpcInit
<1>3. DOMAIN gpios = Threads /\ DOMAIN clks = Threads /\ DOMAIN fds = Threads /\ DOMAIN socks = Threads
  BY DEF Init, GpioInit, ClockInit, FileInit, PicoInit
<1>4. DOMAIN socket_table = Numbers
  BY DEF Init, PicoInit
<1>5. Shapes /\ NestedInv
  BY <1>1, <1>2 DEF Shapes, NestedInv
<1>6. PinHolders /\ ClockHolders
  BY <1>1, <1>2, <1>3 DEF PinHolders, ClockHolders, Told, HasAnswer
<1>7. FdHolders /\ SocketHolders
  BY <1>1, <1>2, <1>3, <1>4 DEF FdHolders, SocketHolders, Told, HasAnswer
<1>. QED  BY <1>5, <1>6, <1>7, RpcInitial, InitialTables DEF Init, HoldersInv

(* Every step keeps the inductive invariant.                                  *)
LEMMA HoldersStep ==
  ASSUME HoldersInv, [Next]_vars
  PROVE  HoldersInv'
<1>. USE DEF HoldersInv
<1>1. RpcInv'
  <2>1. CASE Next
    BY <2>1, ClientKeeps, ServersKeep DEF Next
  <2>2. CASE UNCHANGED vars
    BY <2>2 DEF vars, rpc, RpcInv, RpcTypes, Waiting, Saved, Idle, Calling, CallersOf, Places
  <2>. QED  BY <2>1, <2>2
<1>2. TablesInv'
  <2>1. CASE Next
    BY <2>1, ClientOwned, ServersOwned DEF Next
  <2>2. CASE UNCHANGED vars
    BY <2>2, AllLeft DEF vars, gpioVars, clockVars, fileVars
  <2>. QED  BY <2>1, <2>2
<1>3. Shapes' /\ NestedInv'
  BY ShapesKept, NestedKept
<1>4. PinHolders' /\ ClockHolders' /\ FdHolders' /\ SocketHolders'
  <2>1. CASE \E t \in Clients : ClientStep(t)
    BY <2>1, PinHoldersClient, ClockHoldersClient, FdHoldersClient, SocketHoldersClient
  <2>2. CASE ServerStep
    BY <2>2, PinHoldersServer, ClockHoldersServer, FdHoldersServer, SocketHoldersServer DEF TablesInv
  <2>3. CASE UNCHANGED vars
    <3>1. UNCHANGED <<rpc, gpioVars, clockVars, fileVars, picoVars>>
      BY <2>3 DEF vars
    <3>2. PinHolders'
      BY <3>1 DEF rpc, gpioVars, PinHolders, PinOf, Pins, Clients, Places, Told, HasAnswer
    <3>3. ClockHolders'
      BY <3>1 DEF rpc, clockVars, ClockHolders, ClockOf, Clocks, Clients, Places, Told, HasAnswer
    <3>4. FdHolders'
      BY <3>1 DEF rpc, fileVars, FdHolders, FdOf, Clients, Places, Told, HasAnswer
    <3>5. SocketHolders'
      BY <3>1 DEF rpc, picoVars, SocketHolders, Told, HasAnswer
    <3>. QED  BY <3>2, <3>3, <3>4, <3>5
  <2>. QED  BY <2>1, <2>2, <2>3 DEF Next
<1>. QED  BY <1>1, <1>2, <1>3, <1>4

(* The inductive invariant says that holders own.                             *)
LEMMA HoldersMatch ==
  ASSUME HoldersInv
  PROVE  HoldersOwn
<1>1. ASSUME NEW t \in Clients, NEW p, PinOf(p, t) PROVE OwnerOf(<<"pin", p>>) = t
  BY <1>1 DEF PinOf, OwnerOf, Client
<1>2. ASSUME NEW t \in Clients, NEW k, ClockOf(k, t) PROVE OwnerOf(<<"clock", k>>) = t
  BY <1>2 DEF ClockOf, OwnerOf, Client
<1>3. ASSUME NEW t \in Clients, NEW f, FdOf(f, t) PROVE OwnerOf(<<"fd", f>>) = t
  <2>1. fd_table[f] # Closed /\ ClientOf(fd_table[f].client) = t
    BY <1>3, FileBadges DEF FdOf, Closed
  <2>. QED  BY <2>1 DEF OwnerOf
<1>4. ASSUME NEW t \in Clients, NEW r \in Holds(t) PROVE OwnerOf(r) = t
  <2>1. \/ \E p : r = <<"pin", p>> /\ PinOf(p, t)
        \/ \E k : r = <<"clock", k>> /\ ClockOf(k, t)
        \/ \E f : r = <<"fd", f>> /\ FdOf(f, t)
    BY DEF Holds, HoldersInv, PinHolders, ClockHolders, FdHolders
  <2>. QED  BY <1>1, <1>2, <1>3, <2>1
<1>5. ASSUME NEW t \in Clients PROVE HoldsSockets(t) \subseteq socket_table[NumberOf(t)]
  BY DEF HoldsSockets, HoldersInv, SocketHolders
<1>. QED  BY <1>4, <1>5 DEF HoldersOwn

(* A client that holds a gpio_t, a clk_t, an fd or a socket, or whose answer to *)
(* that effect is on its way, has it in the table of the server.                *)
THEOREM HoldersKept == Spec => []HoldersOwn
BY InitialHolders, HoldersStep, HoldersMatch, PTL DEF Spec

-------------------------------------------------------------------------------
(* What a step leaves of the calls. A client's step moves its own call alone.   *)
LEMMA ClientElsewhere ==
  ASSUME RpcInv, NEW t \in Clients, ClientStep(t)
  PROVE  /\ UNCHANGED reply_cap
         /\ msg[t] = NoCall \/ ret[t] # None
         /\ endpoint'["bpmp"] = endpoint["bpmp"]
         /\ \A u \in Threads \ {t} : msg'[u] = msg[u] /\ ret'[u] = ret[u]
         /\ \A u \in Threads \ {t} : In(u, endpoint'["fs"]) => In(u, endpoint["fs"])
<1>0. /\ t \in Threads /\ DOMAIN msg = Threads /\ DOMAIN ret = Threads
      /\ endpoint \in [Servers -> Seq(Threads)] /\ "bpmp" \in Servers /\ "fs" \in Servers
  BY Connections DEF RpcInv, RpcTypes
<1>. DEFINE Moved == /\ UNCHANGED reply_cap
                     /\ msg[t] = NoCall \/ ret[t] # None
                     /\ endpoint'["bpmp"] = endpoint["bpmp"]
                     /\ \A u \in Threads \ {t} : msg'[u] = msg[u] /\ ret'[u] = ret[u]
                     /\ \A u \in Threads \ {t} : In(u, endpoint'["fs"]) => In(u, endpoint["fs"])
<1>1. ASSUME NEW s \in {"gpiomux", "clock", "reset", "fs", "pico"},
             endpoint' = [endpoint EXCEPT ![s] = Append(endpoint[s], t)]
      PROVE  /\ endpoint'["bpmp"] = endpoint["bpmp"]
             /\ \A u \in Threads \ {t} : In(u, endpoint'["fs"]) => In(u, endpoint["fs"])
  <2>1. CASE s = "fs"
    <3>1. endpoint["fs"] \in Seq(Threads)
      BY <1>0
    <3>2. \A u \in Threads \ {t} : In(u, Append(endpoint["fs"], t)) => In(u, endpoint["fs"])
      BY <1>0, <3>1, QueueAppend
    <3>. QED  BY <1>0, <1>1, <2>1, <3>2
  <2>2. CASE s # "fs"
    BY <1>0, <1>1, <2>2
  <2>. QED  BY <2>1, <2>2
<1>2. ASSUME NEW m, m.iface \in Interfaces \ {"bpmp"}, Call(t, m) PROVE Moved
  <2>1. ServerOf[m.iface] \in {"gpiomux", "clock", "reset", "fs", "pico"}
    BY <1>2, Connections DEF PicoInterfaces
  <2>. QED  BY <1>0, <1>1, <1>2, <2>1 DEF Call
<1>3. ASSUME Return(t) PROVE Moved
  BY <1>0, <1>3 DEF Return, HasAnswer
<1>4. ASSUME ReadMore(t) PROVE Moved
  BY <1>0, <1>1, <1>4 DEF ReadMore, HasAnswer
<1>5. ASSUME NEW m \in GpioCalls(t) \cup ClockCalls(t) \cup ResetCalls(t) \cup FileCalls(t) \cup PicoCalls(t)
      PROVE  m.iface \in Interfaces \ {"bpmp"}
  <2>1. m.iface \in {"gpio", "mux", "clock", "reset", "fs", "pico_control", "pico_send", "pico_recv"}
    BY DEF GpioCalls, ClockCalls, ResetCalls, FileCalls, PicoCalls
  <2>. QED  BY <2>1, Connections
<1>6. \A f, n : Read(f, n).iface \in Interfaces \ {"bpmp"}
  BY Connections DEF Read
<1>. HIDE DEF Moved
<1>7. Moved
  BY <1>2, <1>3, <1>4, <1>5, <1>6
     DEF ClientStep, GpioReturn, ClockReturn, FileClient, FileCall, StartRead, ReadReturn, FileReturn,
         PicoCall, PicoReturn
<1>. QED  BY <1>7 DEF Moved

(* A reply takes its caller from the endpoint, and nobody comes.                *)
LEMMA RepliedElsewhere ==
  ASSUME RpcInv, NEW i \in Interfaces, NEW op, Receives(i, op), NEW r, ReplyRecv(ServerOf[i], r)
  PROVE  /\ UNCHANGED <<reply_cap, msg>>
         /\ \A u \in Threads, s \in Servers : In(u, endpoint'[s]) => In(u, endpoint[s])
         /\ ~In(Caller(ServerOf[i]), endpoint'[ServerOf[i]])
<1>. DEFINE s0 == ServerOf[i]
<1>1. s0 \in Servers /\ endpoint[s0] # <<>>
  BY ReceivedInterface
<1>2. /\ ~In(Caller(s0), Tail(endpoint[s0]))
      /\ \A v : In(v, Tail(endpoint[s0])) => In(v, endpoint[s0])
  BY <1>1, CallerWaits
<1>3. /\ endpoint' = [endpoint EXCEPT ![s0] = Tail(endpoint[s0])]
      /\ DOMAIN endpoint = Servers /\ UNCHANGED <<reply_cap, msg>>
  BY DEF ReplyRecv, RpcInv, RpcTypes
<1>. HIDE DEF s0
<1>4. /\ endpoint'[s0] = Tail(endpoint[s0])
      /\ \A s \in Servers \ {s0} : endpoint'[s] = endpoint[s]
  BY <1>1, <1>3
<1>5. \A u \in Threads, s \in Servers : In(u, endpoint'[s]) => In(u, endpoint[s])
  BY <1>2, <1>4
<1>. QED  BY <1>2, <1>3, <1>4, <1>5 DEF s0

-------------------------------------------------------------------------------
(* BPMPServer. What a component asks of it, for its own caller's message m.     *)
Asked(m) ==
    IF m.op \in {"get_freq", "set_freq"}
    THEN Request(m.op, m.id, IF m.op = "set_freq" THEN m.hz ELSE 0)
    ELSE Request(m.op, 0, m.mode)

(* The response and the hardware are as m asked.                                *)
Served(s, m) ==
    /\ shared_mem[s].kind = "response"
    /\ m.op = "get_freq" => shared_mem[s].val = clock_freq[m.id]
    /\ m.op = "set_freq" => shared_mem[s].val = m.hz /\ clock_freq[m.id] = m.hz
    /\ m.op = "gate" => gate = (m.mode = 1)
    /\ m.op = "reset" => reset_line = (m.mode = 1)

OpsOf(s) == IF s = "clock" THEN {"get_freq", "set_freq", "gate"} ELSE {"reset"}

(* A component in a call to the BPMPServer, and the message it serves by it.    *)
Nested(s, m) ==
    /\ m.op \in OpsOf(s)
    /\ m.op \in {"get_freq", "set_freq"} => m.id \in Clocks
    /\ m.op = "set_freq" => m.hz \in Freqs
    /\ In(s, endpoint["bpmp"]) => shared_mem[s] = Asked(m)
    /\ HasAnswer(s) /\ ret[s] = 0 => Served(s, m)

BpmpInv ==
    /\ DOMAIN shared_mem = BpmpClients
    /\ clock_freq \in [Clocks -> Freqs \cup {0}]
    /\ gate \in BOOLEAN /\ reset_line \in BOOLEAN
    /\ \A s \in BpmpClients : \A m : reply_cap[s] # None /\ msg[reply_cap[s]] = m => Nested(s, m)

(* A call to the BPMPServer stays as it is.                                     *)
LEMMA NestedSame ==
  ASSUME NEW s, NEW m, Nested(s, m), UNCHANGED hardware,
         msg'[s] = msg[s], ret'[s] = ret[s],
         In(s, endpoint'["bpmp"]) => In(s, endpoint["bpmp"])
  PROVE  Nested(s, m)'
BY DEF Nested, Clocks, Asked, Request, Served, HasAnswer, hardware, OpsOf

(* So do all, when no component and no caller of one moves.                     *)
LEMMA BpmpSame ==
  ASSUME BpmpInv, UNCHANGED <<reply_cap, hardware>>,
         \A s \in BpmpClients :
            /\ msg'[s] = msg[s] /\ ret'[s] = ret[s]
            /\ In(s, endpoint'["bpmp"]) => In(s, endpoint["bpmp"])
            /\ reply_cap[s] # None => msg'[reply_cap[s]] = msg[reply_cap[s]]
  PROVE  BpmpInv'
<1>1. ASSUME NEW s \in BpmpClients, NEW m, reply_cap'[s] # None, msg'[reply_cap'[s]] = m
      PROVE  Nested(s, m)'
  <2>1. Nested(s, m)
    BY <1>1 DEF BpmpInv
  <2>. QED  BY <2>1, NestedSame
<1>2. /\ DOMAIN shared_mem' = BpmpClients
      /\ clock_freq' \in [Clocks -> Freqs \cup {0}]
      /\ gate' \in BOOLEAN /\ reset_line' \in BOOLEAN
  BY DEF BpmpInv, hardware
<1>. QED  BY <1>1, <1>2 DEF BpmpInv, BpmpClients, Clocks

(* The caller a component serves is a client; the component is another thread.  *)
LEMMA ServedCaller ==
  ASSUME RpcInv, NEW s \in BpmpClients, reply_cap[s] # None
  PROVE  /\ reply_cap[s] \in Clients /\ ret[reply_cap[s]] = None /\ msg[reply_cap[s]] # NoCall
         /\ ServerOf[msg[reply_cap[s]].iface] = s
         /\ s \in Threads /\ s \in Servers /\ s \notin Clients
<1>1. s \in Servers /\ s \in Threads /\ s \notin Clients /\ s \in {"clock", "reset"}
  BY Connections DEF BpmpClients
<1>2. PICK t \in Threads : reply_cap[s] = t /\ Calling(t, s) /\ ret[t] = None
  BY <1>1 DEF RpcInv, RpcTypes, Saved
<1>. QED  BY <1>1, <1>2, Connections DEF Calling

(* What clients pass, where the servers do not check it.                        *)
WellFormed(m) ==
    /\ m.iface = "fs" /\ m.op = "seek" => m.offset \in 0..FileLen
    /\ m.iface = "clock" /\ m.op = "set_freq" => m.hz \in Freqs
    /\ m.iface = "mux" => m.feature \in Features
    /\ m.iface = "fs" /\ m.op = "read" => m.size \in Nat \ {0}

Messages == \A t \in Clients : \A m : msg[t] = m /\ m # NoCall => WellFormed(m)

(* Every call passes such arguments.                                            *)
LEMMA MessagesKept ==
  ASSUME RpcInv, Messages, [Next]_vars,
         \A t \in Clients : ReadMore(t) => Remain(t) \in Nat \ {0}
  PROVE  Messages'
<1>1. CASE ServerStep
  <2>1. \A t \in Clients : msg'[t] = msg[t]
    BY <1>1, ThreadAnswers DEF ServerStep, AnsweredBy
  <2>. QED  BY <2>1 DEF Messages, Clients, Places, WellFormed
<1>2. ASSUME NEW t \in Clients, ClientStep(t) PROVE Messages'
  <2>0. t \in Threads /\ DOMAIN msg = Threads /\ Clients \subseteq Threads
    BY Connections DEF RpcInv, RpcTypes
  <2>1. ASSUME NEW m, msg' = [msg EXCEPT ![t] = m], m = NoCall \/ WellFormed(m)
        PROVE  Messages'
    <3>1. msg'[t] = m /\ \A u \in Clients \ {t} : msg'[u] = msg[u]
      BY <2>0, <2>1
    <3>. QED  BY <2>1, <3>1 DEF Messages, Clients, Places, WellFormed
  <2>2. ASSUME Return(t) PROVE Messages'
    BY <2>1, <2>2 DEF Return
  <2>3. ASSUME NEW m \in GpioCalls(t), Call(t, m) PROVE Messages'
    <3>1. \/ m.iface = "gpio"
          \/ m.iface = "mux" /\ m.feature \in Features
      BY DEF GpioCalls
    <3>2. WellFormed(m)
      BY <3>1 DEF WellFormed
    <3>. QED  BY <2>1, <2>3, <3>2 DEF Call
  <2>4. ASSUME NEW m \in ClockCalls(t), Call(t, m) PROVE Messages'
    <3>1. m.iface = "clock" /\ (m.op = "set_freq" => m.hz \in Freqs)
      BY DEF ClockCalls
    <3>2. WellFormed(m)
      BY <3>1 DEF WellFormed
    <3>. QED  BY <2>1, <2>4, <3>2 DEF Call
  <2>5. ASSUME NEW m \in FileCalls(t), Call(t, m) PROVE Messages'
    <3>1. m.iface = "fs" /\ m.op # "read" /\ (m.op = "seek" => m.offset \in 0..FileLen)
      BY DEF FileCalls
    <3>2. WellFormed(m)
      BY <3>1 DEF WellFormed
    <3>. QED  BY <2>1, <2>5, <3>2 DEF Call
  <2>6. ASSUME NEW m \in ResetCalls(t) \cup PicoCalls(t), Call(t, m) PROVE Messages'
    <3>1. m.iface \in {"reset", "pico_control", "pico_send", "pico_recv"}
      BY DEF ResetCalls, PicoCalls
    <3>2. WellFormed(m)
      BY <3>1 DEF WellFormed
    <3>. QED  BY <2>1, <2>6, <3>2 DEF Call
  <2>7. ASSUME NEW f, NEW n \in Nat \ {0}, msg' = [msg EXCEPT ![t] = Read(f, n)] PROVE Messages'
    <3>1. WellFormed(Read(f, n))
      BY DEF WellFormed, Read
    <3>. QED  BY <2>1, <2>7, <3>1
  <2>8. Counts \subseteq Nat \ {0}
    BY FilesAssumption
  <2>. QED  BY <1>2, <2>2, <2>3, <2>4, <2>5, <2>6, <2>7, <2>8
            DEF ClientStep, GpioReturn, ClockReturn, FileClient, FileCall, StartRead, ReadMore,
                ReadReturn, FileReturn, PicoCall, PicoReturn, Call
<1>3. CASE UNCHANGED vars
  BY <1>3 DEF vars, rpc, Messages, Clients, Places, WellFormed
<1>. QED  BY <1>1, <1>2, <1>3 DEF Next

(* A client does not touch the calls to the BPMPServer.                         *)
LEMMA BpmpClient ==
  ASSUME RpcInv, BpmpInv, NEW t \in Clients, ClientStep(t)
  PROVE  BpmpInv'
<1>1. UNCHANGED hardware
  BY DEF ClientStep, clockVars, hardware, ClockReturn
<1>2. /\ UNCHANGED reply_cap /\ endpoint'["bpmp"] = endpoint["bpmp"]
      /\ msg[t] = NoCall \/ ret[t] # None
      /\ \A u \in Threads \ {t} : msg'[u] = msg[u] /\ ret'[u] = ret[u]
  BY ClientElsewhere
<1>3. ASSUME NEW s \in BpmpClients
      PROVE  /\ msg'[s] = msg[s] /\ ret'[s] = ret[s]
             /\ reply_cap[s] # None => msg'[reply_cap[s]] = msg[reply_cap[s]]
  <2>1. s \in Threads \ {t}
    BY Connections
  <2>2. ASSUME reply_cap[s] # None PROVE reply_cap[s] \in Threads \ {t}
    BY <1>2, <2>2, ServedCaller, Connections
  <2>. QED  BY <1>2, <2>1, <2>2
<1>. QED  BY <1>1, <1>2, <1>3, BpmpSame

(* Nor does a reply of another server.                                          *)
LEMMA BpmpReply ==
  ASSUME RpcInv, BpmpInv, UNCHANGED hardware,
         NEW i \in Interfaces \ {"bpmp"}, NEW op, Receives(i, op), NEW r, ReplyRecv(ServerOf[i], r)
  PROVE  BpmpInv'
<1>1. /\ UNCHANGED <<reply_cap, msg>>
      /\ \A u \in Threads, s \in Servers : In(u, endpoint'[s]) => In(u, endpoint[s])
  BY RepliedElsewhere
<1>2. /\ Caller(ServerOf[i]) \in Clients
      /\ \A u \in Threads : ret'[u] = IF u = Caller(ServerOf[i]) THEN r ELSE ret[u]
  BY Replied, ReceivedInterface, Connections
<1>3. \A s \in BpmpClients : /\ s \in Threads /\ s # Caller(ServerOf[i])
                             /\ In(s, endpoint'["bpmp"]) => In(s, endpoint["bpmp"])
  BY <1>1, <1>2, Connections
<1>. QED  BY <1>1, <1>2, <1>3, BpmpSame

(* A component puts its request in the memory and calls.                        *)
LEMMA BpmpCalled ==
  ASSUME RpcInv, BpmpInv, NEW s \in BpmpClients, NEW op, Receives(s, op), NEW req, bpmp_call(s, req),
         UNCHANGED <<clock_freq, gate, reset_line>>,
         NEW m, m = msg[Caller(s)], req = Asked(m), m.op \in OpsOf(s),
         m.op \in {"get_freq", "set_freq"} => m.id \in Clocks,
         m.op = "set_freq" => m.hz \in Freqs
  PROVE  BpmpInv'
<1>. DEFINE c == Caller(s)
            call == [iface |-> "bpmp", op |-> "call"]
<1>0. /\ s \in {"clock", "reset"} /\ s \in Servers /\ s \in Threads /\ s \in Interfaces /\ ServerOf[s] = s
      /\ "bpmp" \in Servers /\ ServerOf["bpmp"] = "bpmp" /\ s # "bpmp"
  BY Connections DEF BpmpClients
<1>1. endpoint[s] # <<>> /\ reply_cap[s] = None /\ c \in Clients /\ c \in Threads /\ c # s
  BY <1>0, ReceivedInterface, Connections
<1>2. msg[s] = NoCall /\ ret[s] = None /\ ~In(s, endpoint["bpmp"])
  BY <1>0, <1>1, FreeThreads DEF RpcInv, Idle, Free
<1>3. /\ shared_mem' = [shared_mem EXCEPT ![s] = req]
      /\ endpoint' = [endpoint EXCEPT ![s] = Tail(endpoint[s]), !["bpmp"] = Append(endpoint["bpmp"], s)]
      /\ reply_cap' = [reply_cap EXCEPT ![s] = c]
      /\ msg' = [msg EXCEPT ![s] = call]
      /\ UNCHANGED ret
  BY <1>0 DEF bpmp_call, CallsOut, RpcInv, RpcTypes
<1>4. endpoint["bpmp"] \in Seq(Threads) /\ DOMAIN endpoint = Servers /\ DOMAIN msg = Threads /\ DOMAIN reply_cap = Servers
  BY <1>0 DEF RpcInv, RpcTypes
<1>5. \A u : In(u, endpoint'["bpmp"]) <=> In(u, endpoint["bpmp"]) \/ u = s
  BY <1>0, <1>3, <1>4, QueueAppend
<1>6. ASSUME NEW n, msg'[reply_cap'[s]] = n PROVE Nested(s, n)'
  <2>1. reply_cap'[s] = c /\ msg'[c] = msg[c]
    BY <1>0, <1>1, <1>3, <1>4
  <2>2. n = m
    BY <1>6, <2>1
  <2>3. shared_mem'[s] = Asked(n) /\ ret'[s] = None
    BY <1>2, <1>3, <2>2 DEF BpmpInv
  <2>. QED  BY <2>2, <2>3 DEF Nested, Clocks, OpsOf, Asked, Request, HasAnswer
<1>7. ASSUME NEW x \in BpmpClients \ {s}, NEW n, reply_cap'[x] # None, msg'[reply_cap'[x]] = n
      PROVE  Nested(x, n)'
  <2>1. x \in Threads /\ x \in Servers
    BY Connections DEF BpmpClients
  <2>2. reply_cap'[x] = reply_cap[x] /\ msg'[x] = msg[x] /\ shared_mem'[x] = shared_mem[x]
    BY <1>3, <1>4, <2>1 DEF BpmpInv
  <2>3. reply_cap[x] \in Clients /\ reply_cap[x] # s
    BY <1>7, <2>2, ServedCaller, Connections
  <2>4. msg'[reply_cap[x]] = msg[reply_cap[x]]
    BY <1>3, <1>4, <2>3, Connections
  <2>5. Nested(x, n)
    BY <1>7, <2>2, <2>4 DEF BpmpInv
  <2>6. In(x, endpoint'["bpmp"]) => In(x, endpoint["bpmp"])
    BY <1>5
  <2>. QED  BY <1>3, <2>2, <2>5, <2>6 DEF Nested, Clocks, Asked, Request, Served, HasAnswer, OpsOf
<1>8. /\ DOMAIN shared_mem' = BpmpClients
      /\ clock_freq' \in [Clocks -> Freqs \cup {0}]
      /\ gate' \in BOOLEAN /\ reset_line' \in BOOLEAN
  BY <1>3 DEF BpmpInv
<1>. QED  BY <1>6, <1>7, <1>8 DEF BpmpInv, BpmpClients, Clocks

(* A component that has its answer gives its own, and is in no call.            *)
LEMMA BpmpAnswered ==
  ASSUME RpcInv, BpmpInv, NEW s \in BpmpClients, Driver(s)
  PROVE  BpmpInv'
<1>. DEFINE c == reply_cap[s]
<1>1. HasAnswer(s) /\ reply_cap[s] # None
  BY DEF Driver, HasAnswer, RpcInv, Idle
<1>2. c \in Clients /\ c # s /\ c \in Threads /\ s \in Threads /\ s \in Servers
  BY <1>1, ServedCaller, Connections
<1>3. PICK r : /\ ret' = [ret EXCEPT ![s] = None, ![c] = r]
               /\ reply_cap' = [reply_cap EXCEPT ![s] = None]
               /\ msg' = [msg EXCEPT ![s] = NoCall]
               /\ UNCHANGED endpoint
               /\ shared_mem' = [shared_mem EXCEPT ![s] = Zeroed]
               /\ UNCHANGED <<clock_freq, gate, reset_line>>
  BY DEF Driver, Answers
<1>4. DOMAIN msg = Threads /\ DOMAIN reply_cap = Servers /\ DOMAIN ret = Threads
  BY DEF RpcInv, RpcTypes
<1>5. reply_cap'[s] = None
  BY <1>2, <1>3, <1>4
<1>6. ASSUME NEW x \in BpmpClients \ {s}, NEW n, reply_cap'[x] # None, msg'[reply_cap'[x]] = n
      PROVE  Nested(x, n)'
  <2>1. x \in Threads /\ x \in Servers /\ x # c
    BY <1>2, Connections DEF BpmpClients
  <2>2. /\ reply_cap'[x] = reply_cap[x] /\ msg'[x] = msg[x] /\ shared_mem'[x] = shared_mem[x]
        /\ ret'[x] = ret[x]
    BY <1>2, <1>3, <1>4, <2>1 DEF BpmpInv
  <2>3. reply_cap[x] \in Clients /\ reply_cap[x] # s
    BY <1>6, <2>2, ServedCaller, Connections
  <2>4. msg'[reply_cap[x]] = msg[reply_cap[x]]
    BY <1>3, <1>4, <2>3, Connections
  <2>5. Nested(x, n)
    BY <1>6, <2>2, <2>4 DEF BpmpInv
  <2>. QED  BY <1>3, <2>2, <2>5 DEF Nested, Clocks, Asked, Request, Served, HasAnswer, OpsOf
<1>7. /\ DOMAIN shared_mem' = BpmpClients
      /\ clock_freq' \in [Clocks -> Freqs \cup {0}]
      /\ gate' \in BOOLEAN /\ reset_line' \in BOOLEAN
  BY <1>3 DEF BpmpInv
<1>. QED  BY <1>5, <1>6, <1>7 DEF BpmpInv, BpmpClients, Clocks

(* The memory that the BPMPServer looks up is the caller's.                     *)
LEMMA BpmpBuffer ==
  ASSUME RpcInv, Receives("bpmp", "call"), handle_message("bpmp")
  PROVE  Caller("bpmp") \in BpmpClients /\ client_buf = Caller("bpmp")
<1>. DEFINE c == Caller("bpmp")
            n == get_sender_id("bpmp")
<1>1. /\ "bpmp" \in Interfaces /\ "bpmp" \in Asking /\ ServerOf["bpmp"] = "bpmp"
      /\ CallersOf("bpmp") = BpmpClients
  BY Connections, ServersAssumption
<1>2. /\ c \in BpmpClients /\ n \in 0..(Len(from_ends["bpmp"]) - 1)
      /\ from_ends["bpmp"][n + 1] = c
  BY <1>1, SenderIsCaller, ReceivedInterface
<1>3. /\ Len(from_ends["bpmp"]) \in Nat
      /\ \A k, l \in Places("bpmp") : badges["bpmp"][k] = badges["bpmp"][l] => k = l
  BY <1>1, ConnectionsAssumption
<1>. HIDE DEF n
<1>4. n + 1 \in Places("bpmp")
  BY <1>2, <1>3 DEF Places
<1>5. buf("bpmp", badges["bpmp"][n + 1]) = from_ends["bpmp"][n + 1]
  BY <1>3, <1>4 DEF buf, Badges
<1>. QED  BY <1>2, <1>5 DEF client_buf, enumerate_badge, n

(* It serves the caller, and nobody else's hardware or memory is touched.       *)
LEMMA BpmpServed ==
  ASSUME RpcInv, BpmpInv, the_bpmp_call
  PROVE  BpmpInv'
<1>1. Receives("bpmp", "call") /\ handle_message("bpmp")
  BY DEF the_bpmp_call
<1>0. PICK c \in BpmpClients : c = Caller("bpmp") /\ client_buf = c
  BY <1>1, BpmpBuffer
<1>2. PICK req : c = Caller("bpmp") /\ client_buf = c /\ req = shared_mem[c]
  BY <1>0
<1>3. "bpmp" \in Interfaces /\ ServerOf["bpmp"] = "bpmp" /\ "bpmp" \in Servers /\ endpoint["bpmp"] # <<>>
  BY <1>1, Connections DEF Receives
<1>4. In(c, endpoint["bpmp"]) /\ msg[c] # NoCall /\ c \in Threads
  BY <1>2, <1>3, CallerWaits DEF Calling
<1>5. reply_cap[c] # None
  BY <1>2, <1>4 DEF RpcInv, Idle
<1>6. PICK m : m = msg[reply_cap[c]]
  OBVIOUS
<1>7. Nested(c, m) /\ req = Asked(m)
  BY <1>2, <1>4, <1>5, <1>6 DEF BpmpInv, Nested
<1>8. PICK r : /\ ReplyRecv("bpmp", r)
               /\ \/ /\ r = 0 /\ Performed(req)
                     /\ shared_mem' = [shared_mem EXCEPT ![c] = Response(Responded(req))]
                  \/ r = -1 /\ UNCHANGED hardware
  BY <1>2 DEF the_bpmp_call
<1>9. /\ UNCHANGED <<reply_cap, msg>>
      /\ \A u \in Threads : In(u, endpoint'["bpmp"]) => In(u, endpoint["bpmp"])
      /\ ~In(c, endpoint'["bpmp"])
      /\ \A u \in Threads : ret'[u] = IF u = c THEN r ELSE ret[u]
  BY <1>1, <1>2, <1>3, <1>8, RepliedElsewhere, Replied
<1>10. /\ DOMAIN shared_mem' = BpmpClients
       /\ clock_freq' \in [Clocks -> Freqs \cup {0}]
       /\ gate' \in BOOLEAN /\ reset_line' \in BOOLEAN
  <2>1. CASE UNCHANGED hardware
    BY <2>1 DEF hardware, BpmpInv
  <2>2. CASE Performed(req) /\ shared_mem' = [shared_mem EXCEPT ![c] = Response(Responded(req))]
    <3>1. req.what = "set_freq" => req.id \in Clocks /\ req.val \in Freqs
      BY <1>7 DEF Nested, Asked, Request
    <3>2. clock_freq' \in [Clocks -> Freqs \cup {0}]
      <4>1. CASE req.what = "set_freq"
        BY <2>2, <3>1, <4>1 DEF Performed, BpmpInv
      <4>2. CASE req.what # "set_freq"
        BY <2>2, <4>2 DEF Performed, BpmpInv
      <4>. QED  BY <4>1, <4>2
    <3>3. (req.val = 1) \in BOOLEAN
      OBVIOUS
    <3>4. gate' \in BOOLEAN /\ reset_line' \in BOOLEAN
      BY <2>2, <3>3, Zenon DEF Performed, BpmpInv
    <3>. QED  BY <2>2, <3>2, <3>4 DEF BpmpInv
  <2>. QED  BY <1>8, <2>1, <2>2
<1>11. Nested(c, m)'
  <2>1. ASSUME r = 0 PROVE Served(c, m)'
    <3>1. /\ Performed(req)
          /\ shared_mem' = [shared_mem EXCEPT ![c] = Response(Responded(req))]
      BY <1>8, <2>1
    <3>2. PICK v : v = Responded(req) /\ shared_mem'[c].kind = "response" /\ shared_mem'[c].val = v
      <4>1. PICK v : v = Responded(req)
        OBVIOUS
      <4>2. shared_mem'[c] = Response(v)
        BY <1>2, <3>1, <4>1 DEF BpmpInv
      <4>3. Response(v).kind = "response" /\ Response(v).val = v
        BY DEF Response
      <4>. QED  BY <4>1, <4>2, <4>3, Zenon
    <3>3. CASE m.op = "get_freq"
      <4>1. req.what = "get_freq" /\ req.id = m.id
        BY <1>7, <3>3 DEF Asked, Request
      <4>2. UNCHANGED clock_freq /\ shared_mem'[c].kind = "response" /\ shared_mem'[c].val = clock_freq[m.id]
        <5>1. v = clock_freq[req.id]
          BY <3>2, <4>1, Zenon DEF Responded
        <5>2. UNCHANGED clock_freq
          BY <3>1, <4>1 DEF Performed
        <5>. QED  BY <3>2, <4>1, <5>1, <5>2, Zenon
      <4>. QED  BY <3>3, <4>2 DEF Served
    <3>4. CASE m.op = "set_freq"
      <4>1. req.what = "set_freq" /\ req.id = m.id /\ req.val = m.hz /\ m.id \in Clocks
        BY <1>7, <3>4 DEF Asked, Request, Nested
      <4>2. clock_freq'[m.id] = m.hz /\ shared_mem'[c].kind = "response" /\ shared_mem'[c].val = m.hz
        BY <3>1, <3>2, <4>1 DEF Performed, Responded, BpmpInv
      <4>. QED  BY <3>4, <4>2 DEF Served
    <3>5. CASE m.op \in {"gate", "reset"}
      <4>1. req.what = m.op /\ req.val = m.mode
        BY <1>7, <3>5 DEF Asked, Request
      <4>2. /\ m.op = "gate" => gate' = (m.mode = 1)
            /\ m.op = "reset" => reset_line' = (m.mode = 1)
        BY <3>1, <4>1, Zenon DEF Performed
      <4>3. shared_mem'[c].kind = "response"
        BY <3>2
      <4>. QED  BY <3>5, <4>2, <4>3 DEF Served
    <3>. QED  BY <1>7, <3>3, <3>4, <3>5 DEF Nested, OpsOf
  <2>2. ret'[c] = r /\ (r # 0 => r = -1)
    BY <1>4, <1>8, <1>9
  <2>. QED  BY <1>7, <1>9, <2>1, <2>2 DEF Nested, Clocks, OpsOf, HasAnswer
<1>12. ASSUME NEW x \in BpmpClients \ {c}, NEW n, reply_cap[x] # None, msg[reply_cap[x]] = n
       PROVE  Nested(x, n)'
  <2>1. x \in Threads /\ Nested(x, n) /\ ret'[x] = ret[x]
    BY <1>9, <1>12, Connections DEF BpmpInv
  <2>2. CASE UNCHANGED hardware
    BY <1>9, <2>1, <2>2, NestedSame
  <2>3. CASE Performed(req) /\ shared_mem' = [shared_mem EXCEPT ![c] = Response(Responded(req))]
    <3>1. req.what = m.op /\ m.op \in OpsOf(c) /\ n.op \in OpsOf(x)
      BY <1>7, <2>1 DEF Nested, Asked, Request, OpsOf
    <3>2. shared_mem'[x] = shared_mem[x]
      BY <2>3 DEF BpmpInv
    <3>3. \/ x = "clock" /\ c = "reset" /\ UNCHANGED <<clock_freq, gate>>
          \/ x = "reset" /\ c = "clock" /\ UNCHANGED reset_line
      BY <1>2, <2>3, <3>1 DEF BpmpClients, OpsOf, Performed
    <3>4. Served(x, n) => Served(x, n)'
      BY <3>1, <3>2, <3>3 DEF Served, OpsOf
    <3>5. In(x, endpoint'["bpmp"]) => In(x, endpoint["bpmp"])
      BY <1>9, <2>1
    <3>. QED  BY <1>9, <2>1, <3>2, <3>4, <3>5 DEF Nested, Clocks, Asked, Request, HasAnswer, OpsOf
  <2>. QED  BY <1>8, <2>2, <2>3
<1>13. ASSUME NEW x \in BpmpClients, NEW n, reply_cap'[x] # None, msg'[reply_cap'[x]] = n
       PROVE  Nested(x, n)'
  BY <1>6, <1>9, <1>11, <1>12, <1>13
<1>. QED  BY <1>10, <1>13 DEF BpmpInv, BpmpClients, Clocks

(* Every step keeps the calls to the BPMPServer.                                *)
LEMMA BpmpKept ==
  ASSUME RpcInv, Messages, BpmpInv, [Next]_vars
  PROVE  BpmpInv'
<1>. USE Connections
<1>1. CASE \E t \in Clients : ClientStep(t)
  BY <1>1, BpmpClient
<1>2. CASE UNCHANGED vars
  BY <1>2, BpmpSame DEF vars, rpc, clockVars, hardware
<1>3. CASE ServerStep
  <2>1. ASSUME NEW i \in Interfaces \ {"bpmp"}, NEW op, Receives(i, op), NEW r, ReplyRecv(ServerOf[i], r),
               UNCHANGED hardware
        PROVE  BpmpInv'
    BY <2>1, BpmpReply
  <2>. HIDE DEF BpmpInv
  <2>2. GpioThread => BpmpInv'
    <3>1. GpioThread => GpioServer /\ UNCHANGED hardware
      BY DEF GpioThread, clockVars, hardware
    <3>. QED  BY <2>1, <3>1
              DEF GpioServer, gpio_init_pin, gpio_set_level, gpio_read_level, mux_feature, Grant
  <2>3. FileThread => BpmpInv'
    <3>1. FileThread => FileServerNext /\ UNCHANGED hardware
      BY DEF FileThread, clockVars, hardware
    <3>2. (fs_open \/ fs_close) /\ UNCHANGED hardware => BpmpInv'
      BY <2>1 DEF fs_open, fs_close
    <3>3. fs_seek /\ UNCHANGED hardware => BpmpInv'
      BY <2>1 DEF fs_seek
    <3>4. ASSUME fs_read, UNCHANGED hardware PROVE BpmpInv'
      <4>1. Receives("fs", "read")
        BY <3>4 DEF fs_read
      <4>2. \E r : ReplyRecv("fs", r)
        <5>1. CASE validate_client_fd(msg[Caller("fs")].fd, fs_sender)
          BY <3>4, <5>1, Zenon DEF fs_read
        <5>2. CASE ~validate_client_fd(msg[Caller("fs")].fd, fs_sender)
          BY <3>4, <5>2, Zenon DEF fs_read
        <5>. QED  BY <5>1, <5>2
      <4>. QED  BY <2>1, <3>4, <4>1, <4>2
    <3>. QED  BY <3>1, <3>2, <3>3, <3>4 DEF FileServerNext
  <2>4. PicoThread => BpmpInv'
    <3>1. PicoThread => UNCHANGED hardware
      BY DEF PicoThread, clockVars, hardware
    <3>2. ASSUME NEW i \in PicoInterfaces, Transfer(i), UNCHANGED hardware PROVE BpmpInv'
      BY <2>1, <3>2 DEF Transfer, PicoInterfaces
    <3>3. ASSUME NEW op, PassesOn(op), UNCHANGED hardware PROVE BpmpInv'
      BY <2>1, <3>3 DEF PassesOn, PicoInterfaces
    <3>4. ASSUME pico_open \/ pico_close \/ pico_get_ipv4, UNCHANGED hardware PROVE BpmpInv'
      <4>1. \E op, r : Receives("pico_control", op) /\ ReplyRecv("pico", r)
        <5>1. CASE pico_open
          BY <5>1, Zenon DEF pico_open
        <5>2. CASE pico_close
          BY <5>2, Zenon DEF pico_close
        <5>3. CASE pico_get_ipv4
          BY <5>3 DEF pico_get_ipv4
        <5>. QED  BY <3>4, <5>1, <5>2, <5>3
      <4>. QED  BY <2>1, <3>4, <4>1 DEF PicoInterfaces
    <3>. QED  BY <3>1, <3>2, <3>3, <3>4
              DEF PicoThread, PicoServerNext, pico_pass_on, pico_control_shutdown, pico_send, pico_recv, PicoInterfaces
  <2>5. BpmpThread => BpmpInv'
    BY BpmpServed DEF BpmpThread
  <2>6. \A s \in BpmpClients : Driver(s) => BpmpInv'
    BY BpmpAnswered
  <2>7. clock_init_clock \/ clock_register_child => BpmpInv'
    BY <2>1 DEF clock_init_clock, clock_register_child, Handled
  <2>8. ASSUME NEW op \in {"get_freq", "set_freq"}, clock_freq_call(op) PROVE BpmpInv'
    <3>. DEFINE t == Caller("clock")
    <3>1. /\ Receives("clock", op) /\ t \in Clients /\ msg[t].op = op /\ msg[t].iface = "clock"
          /\ msg[t] # NoCall
      BY <2>8, ReceivedInterface, CallsDiffer DEF clock_freq_call
    <3>2. op = "set_freq" => msg[t].hz \in Freqs
      BY <3>1 DEF Messages, WellFormed
    <3>3. CASE MayUse(msg[t].id, get_sender_id("clock"))
      <4>1. /\ bpmp_call("clock", Asked(msg[t])) /\ msg[t].id \in Clocks
            /\ UNCHANGED <<clock_freq, gate, reset_line>>
        BY <2>8, <3>1, <3>3 DEF clock_freq_call, MayUse, Asked
      <4>2. PICK m : m = msg[t]
        OBVIOUS
      <4>. HIDE DEF t
      <4>3. "clock" \in BpmpClients /\ m.op \in OpsOf("clock")
        BY <3>1, <4>2 DEF BpmpClients, OpsOf
      <4>. QED  BY <3>1, <3>2, <4>1, <4>2, <4>3, BpmpCalled DEF t
    <3>4. CASE ~MayUse(msg[t].id, get_sender_id("clock"))
      <4>1. ReplyRecv("clock", 0) /\ UNCHANGED hardware
        BY <2>8, <3>4 DEF clock_freq_call, Handled
      <4>. QED  BY <2>1, <3>1, <4>1
    <3>. QED  BY <3>3, <3>4
  <2>9. ASSUME NEW s \in BpmpClients, NEW op, op = (IF s = "clock" THEN "gate" ELSE "reset"), PassedOn(s, op)
        PROVE  BpmpInv'
    <3>. DEFINE t == Caller(s)
    <3>0. s \in {"clock", "reset"} /\ ServerOf[s] = s /\ s \in Interfaces
      BY DEF BpmpClients
    <3>1. Receives(s, op) /\ msg[t].op = op
      BY <2>9, <3>0, ReceivedInterface DEF PassedOn
    <3>2. PICK m : m = msg[t]
      OBVIOUS
    <3>3. m.op \in OpsOf(s) /\ m.op \notin {"get_freq", "set_freq"}
      BY <2>9, <3>0, <3>1, <3>2 DEF OpsOf
    <3>4. bpmp_call(s, Asked(m)) /\ UNCHANGED <<clock_freq, gate, reset_line>>
      BY <2>9, <3>1, <3>2, <3>3 DEF PassedOn, Asked
    <3>. QED  BY <3>1, <3>2, <3>3, <3>4, BpmpCalled
  <2>10. PassedOn("clock", "gate") \/ PassedOn("reset", "reset") => BpmpInv'
    BY <2>9 DEF BpmpClients
  <2>. QED  BY <1>3, <2>2, <2>3, <2>4, <2>5, <2>6, <2>7, <2>8, <2>10
            DEF ServerStep, ClockThread, ClockServerNext, ResetThread, ResetServerNext, BpmpClients
<1>. QED  BY <1>1, <1>2, <1>3 DEF Next

(* A component finds the response that is meant for it.                         *)
LEMMA BpmpMatch ==
  ASSUME RpcInv, BpmpInv
  PROVE  OwnResponse
<1>. SUFFICES ASSUME NEW s \in BpmpClients, HasAnswer(s), ret[s] = 0,
                     NEW m, m = msg[reply_cap[s]]
              PROVE  /\ shared_mem[s].kind = "response"
                     /\ CASE m.op = "get_freq" -> shared_mem[s].val = clock_freq[m.id]
                          [] m.op = "set_freq" -> shared_mem[s].val = m.hz /\ clock_freq[m.id] = m.hz
                          [] m.op = "gate"     -> gate = (m.mode = 1)
                          [] m.op = "reset"    -> reset_line = (m.mode = 1)
  BY DEF OwnResponse
<1>1. reply_cap[s] # None
  BY DEF RpcInv, Idle, HasAnswer
<1>2. Served(s, m) /\ m.op \in {"get_freq", "set_freq", "gate", "reset"}
  BY <1>1 DEF BpmpInv, Nested, OpsOf
<1>3. CASE m.op = "get_freq"
  BY <1>2, <1>3, Zenon DEF Served
<1>4. CASE m.op = "set_freq"
  BY <1>2, <1>4 DEF Served
<1>5. CASE m.op = "gate"
  BY <1>2, <1>5 DEF Served
<1>6. CASE m.op = "reset"
  BY <1>2, <1>6 DEF Served
<1>. QED  BY <1>2, <1>3, <1>4, <1>5, <1>6

-------------------------------------------------------------------------------
(* FileServer. n bytes of the file, after the first at.                         *)
Piece(at, n) == SubSeq(File, at + 1, at + n)

(* They are there.                                                              *)
LEMMA PieceOfFile ==
  ASSUME NEW at \in Nat, NEW n \in Nat, at + n =< FileLen
  PROVE  /\ Piece(at, n) \in Seq(1..FileLen) /\ Len(Piece(at, n)) = n
         /\ \A k \in 1..n : Piece(at, n)[k] = at + k
<1>1. FileLen \in Nat
  BY FilesAssumption
<1>2. File \in [1..FileLen -> 1..FileLen] /\ \A k \in 1..FileLen : File[k] = k
  BY <1>1 DEF File
<1>3. File \in Seq(1..FileLen)
  BY <1>1, <1>2, SeqDef
<1>4. Len(File) = FileLen
  <2>1. DOMAIN File = 1..FileLen /\ DOMAIN File = 1..Len(File) /\ Len(File) \in Nat
    BY <1>2, <1>3, LenProperties
  <2>. QED  BY <1>1, <2>1
<1>5. PICK f \in Seq(1..FileLen) : /\ f = File /\ Len(f) = FileLen
                                   /\ \A k \in 1..FileLen : f[k] = k
  BY <1>2, <1>3, <1>4, Zenon
<1>6. Len(f) = FileLen /\ \A k \in 1..FileLen : f[k] = k
  BY <1>5, Zenon
<1>7. /\ at + 1 \in 1..(Len(f) + 1) /\ at + n \in 0..Len(f) /\ at + 1 =< at + n + 1
      /\ (at + n) - (at + 1) + 1 = n
  BY <1>1, <1>6
<1>8. /\ SubSeq(f, at + 1, at + n) \in Seq(1..FileLen)
      /\ Len(SubSeq(f, at + 1, at + n)) = n
      /\ \A k \in 1..n : SubSeq(f, at + 1, at + n)[k] = at + k
  BY <1>1, <1>6, <1>7
<1>. QED  BY <1>5, <1>8, Zenon DEF Piece

(* Two pieces, one after the other.                                             *)
LEMMA PiecesJoin ==
  ASSUME NEW at \in Nat, NEW n \in Nat, NEW m \in Nat, at + n + m =< FileLen
  PROVE  Piece(at, n) \o Piece(at + n, m) = Piece(at, n + m)
<1>0. FileLen \in Nat /\ at + n \in Nat /\ n + m \in Nat /\ at + n =< FileLen
      /\ at + (n + m) =< FileLen /\ (at + n) + m =< FileLen
  BY FilesAssumption
<1>1. PICK s \in Seq(1..FileLen) : /\ s = Piece(at, n) /\ Len(s) = n
                                   /\ \A k \in 1..n : s[k] = at + k
  <2>1. /\ Piece(at, n) \in Seq(1..FileLen) /\ Len(Piece(at, n)) = n
        /\ \A k \in 1..n : Piece(at, n)[k] = at + k
    BY <1>0, PieceOfFile
  <2>. QED  BY <2>1, Zenon
<1>2. PICK u \in Seq(1..FileLen) : /\ u = Piece(at + n, m) /\ Len(u) = m
                                   /\ \A k \in 1..m : u[k] = at + n + k
  <2>1. /\ Piece(at + n, m) \in Seq(1..FileLen) /\ Len(Piece(at + n, m)) = m
        /\ \A k \in 1..m : Piece(at + n, m)[k] = at + n + k
    BY <1>0, PieceOfFile
  <2>. QED  BY <2>1, Zenon
<1>3. PICK v \in Seq(1..FileLen) : /\ v = Piece(at, n + m) /\ Len(v) = n + m
                                   /\ \A k \in 1..(n + m) : v[k] = at + k
  <2>1. /\ Piece(at, n + m) \in Seq(1..FileLen) /\ Len(Piece(at, n + m)) = n + m
        /\ \A k \in 1..(n + m) : Piece(at, n + m)[k] = at + k
    BY <1>0, PieceOfFile
  <2>. QED  BY <2>1, Zenon
<1>4. /\ Len(s) = n /\ Len(u) = m /\ Len(v) = n + m
      /\ \A k \in 1..n : s[k] = at + k
      /\ \A k \in 1..m : u[k] = at + n + k
      /\ \A k \in 1..(n + m) : v[k] = at + k
  BY <1>1, <1>2, <1>3, Zenon
<1>5. PICK w \in Seq(1..FileLen) : /\ w = s \o u /\ Len(w) = n + m
                                   /\ \A k \in 1..(n + m) : w[k] = IF k =< n THEN s[k] ELSE u[k - n]
  <2>1. /\ s \o u \in Seq(1..FileLen) /\ Len(s \o u) = n + m
        /\ \A k \in 1..(n + m) : (s \o u)[k] = IF k =< n THEN s[k] ELSE u[k - n]
    BY <1>4
  <2>. QED  BY <2>1, Zenon
<1>6. Len(w) = n + m /\ \A k \in 1..(n + m) : w[k] = IF k =< n THEN s[k] ELSE u[k - n]
  BY <1>5, Zenon
<1>7. ASSUME NEW k \in 1..Len(w) PROVE w[k] = v[k]
  <2>1. CASE k =< n
    BY <1>4, <1>6, <2>1
  <2>2. CASE k > n
    <3>1. k - n \in 1..m /\ k \in 1..(n + m) /\ at + n + (k - n) = at + k
      BY <1>6, <2>2
    <3>. QED  BY <1>4, <1>6, <2>2, <3>1
  <2>. QED  BY <1>6, <2>1, <2>2
<1>8. w = v
  BY <1>4, <1>6, <1>7, SeqEqual
<1>. QED  BY <1>1, <1>2, <1>3, <1>5, <1>8, Zenon

(* The least of a few numbers.                                                  *)
LEMMA LeastOf ==
  ASSUME NEW a \in Nat, NEW b \in Nat, NEW c \in Nat
  PROVE  /\ Min({a, b, c}) \in {a, b, c} /\ Min({a, b, c}) =< a /\ Min({a, b, c}) =< b /\ Min({a, b, c}) =< c
         /\ Min({a, b}) \in {a, b} /\ Min({a, b}) =< a /\ Min({a, b}) =< b
<1>1. PICK x \in {a, b, c} : \A y \in {a, b, c} : x =< y
  OBVIOUS
<1>2. PICK z \in {a, b} : \A y \in {a, b} : z =< y
  OBVIOUS
<1>3. Min({a, b, c}) \in {a, b, c} /\ \A y \in {a, b, c} : Min({a, b, c}) =< y
  BY <1>1, Zenon DEF Min
<1>4. Min({a, b}) \in {a, b} /\ \A y \in {a, b} : Min({a, b}) =< y
  BY <1>2, Zenon DEF Min
<1>. QED  BY <1>3, <1>4

FilesTyped ==
    /\ fd_table = [f \in Fds |-> fd_table[f]]
    /\ \A f \in Fds : fd_table[f].offset \in 0..FileLen
    /\ DOMAIN ext_buf = Threads
    /\ \A t \in Threads : ext_buf[t] \in Seq(1..FileLen) /\ Len(ext_buf[t]) =< BufSize
    /\ fds \in [Threads -> SUBSET Fds]

(* Where a read() stands on a file that its client holds.                       *)
Halfway(t, r) ==
    LET at == r.from + Len(r.buf) IN
    /\ at =< FileLen /\ r.buf = Piece(r.from, Len(r.buf))
    /\ In(t, endpoint["fs"]) => fd_table[r.fd].offset = at
    /\ HasAnswer(t) =>
          /\ ret[t] = Min({r.count - Len(r.buf), BufSize, FileLen - at})
          /\ ext_buf[t] = Piece(at, ret[t])
          /\ fd_table[r.fd].offset = at + ret[t]

(* What is kept of a read(), whatever becomes of it: more is wanted, and an     *)
(* answer brings no more than was asked for.                                    *)
Reading(t, r) ==
    /\ r = [fd |-> r.fd, count |-> r.count, from |-> r.from, buf |-> r.buf]
    /\ r.fd \in Fds /\ r.count \in Nat /\ r.from \in 0..FileLen /\ r.buf \in Seq(1..FileLen)
    /\ Len(r.buf) < r.count
    /\ msg[t] = Read(r.fd, r.count - Len(r.buf))
    /\ HasAnswer(t) => ret[t] = -1 \/ (ret[t] \in 0..(r.count - Len(r.buf)) /\ Len(ext_buf[t]) = ret[t])
    /\ r.fd \in fds[t] => Halfway(t, r)

ReadsInv ==
    /\ DOMAIN reading = Threads
    /\ \A t \in Clients : \A r : reading[t] = r /\ r # None => Reading(t, r)

(* The buffer that the FileServer fills is the one it shares with its caller.   *)
LEMMA SharedBuffer ==
  ASSUME NEW t \in Clients
  PROVE  buf("fs", BadgeOf("fs", t)) = t
<1>1. "fs" \in Interfaces /\ t \in CallersOf("fs")
  BY Connections
<1>2. PICK k : /\ k \in Places("fs") /\ from_ends["fs"][k] = t /\ BadgeOf("fs", t) = badges["fs"][k]
  BY <1>1, CallerPlace
<1>3. \A l \in Places("fs") : badges["fs"][l] = badges["fs"][k] => l = k
  BY <1>1, <1>2, BadgesDiffer
<1>4. (CHOOSE l \in Places("fs") : badges["fs"][l] = badges["fs"][k]) = k
  BY <1>2, <1>3
<1>. QED  BY <1>2, <1>4 DEF buf, Badges

(* What fs_ctrl_read does for its caller c, whose message is m.                 *)
ReadDone(c, m) ==
    \/ /\ ~FdOf(m.fd, c) /\ ReplyRecv("fs", -1) /\ UNCHANGED <<fd_table, ext_buf>>
    \/ \E at \in 0..FileLen, n \in Nat :
         /\ FdOf(m.fd, c) /\ ReplyRecv("fs", n)
         /\ at = fd_table[m.fd].offset
         /\ n = Min({m.size, BufSize, FileLen - at})
         /\ n =< m.size /\ n =< BufSize /\ at + n =< FileLen
         /\ fd_table' = [fd_table EXCEPT ![m.fd].offset = at + n]
         /\ ext_buf' = [ext_buf EXCEPT ![c] = Piece(at, n)]

(* It refuses an fd that is not the caller's.                                   *)
LEMMA ReadServed ==
  ASSUME RpcInv, FdsInv, FilesTyped, Messages, fs_read, NEW c, c = Caller("fs"), NEW m, m = msg[c]
  PROVE  /\ c \in Clients /\ m.iface = "fs" /\ m.op = "read" /\ In(c, endpoint["fs"])
         /\ ReadDone(c, m)
<1>0. "fs" \in Interfaces /\ "fs" \in Servers /\ ServerOf["fs"] = "fs" /\ endpoint["fs"] # <<>>
  BY Connections, ReceivedInterface DEF fs_read
<1>1. c \in Clients /\ fs_sender = BadgeOf("fs", c) /\ buf("fs", fs_sender) = c
  BY FileSender, SharedBuffer DEF fs_read
<1>2. m.iface = "fs" /\ m.op = "read" /\ In(c, endpoint["fs"]) /\ m # NoCall
  BY <1>0, ReceivedInterface, CallerWaits, CallsDiffer DEF fs_read
<1>3. m.size \in Nat
  BY <1>1, <1>2 DEF Messages, WellFormed
<1>4. validate_client_fd(m.fd, fs_sender) <=> FdOf(m.fd, c)
  BY <1>1, FileBadges DEF FdOf, validate_client_fd, Closed
<1>5. CASE ~FdOf(m.fd, c)
  <2>1. ReplyRecv("fs", -1) /\ UNCHANGED <<fd_table, ext_buf>>
    BY <1>4, <1>5, Zenon DEF fs_read
  <2>. QED  BY <1>1, <1>2, <1>5, <2>1 DEF ReadDone
<1>6. CASE FdOf(m.fd, c)
  <2>1. PICK at \in 0..FileLen : at = fd_table[m.fd].offset
    BY <1>6 DEF FdOf, FilesTyped
  <2>2. FileLen - at \in Nat /\ BufSize \in Nat /\ FileLen \in Nat
    BY FilesAssumption
  <2>3. PICK n \in Nat : /\ n = Min({m.size, BufSize, FileLen - at})
                         /\ n =< m.size /\ n =< BufSize /\ n =< FileLen - at
    <3>1. /\ Min({m.size, BufSize, FileLen - at}) \in {m.size, BufSize, FileLen - at}
          /\ Min({m.size, BufSize, FileLen - at}) =< m.size
          /\ Min({m.size, BufSize, FileLen - at}) =< BufSize
          /\ Min({m.size, BufSize, FileLen - at}) =< FileLen - at
      BY <1>3, <2>2, LeastOf, Zenon
    <3>2. Min({m.size, BufSize, FileLen - at}) \in Nat
      BY <1>3, <2>2, <3>1
    <3>. QED  BY <3>1, <3>2, Zenon
  <2>4. n = Readable(m.fd, m.size)
    BY <2>1, <2>3 DEF Readable
  <2>5. /\ ReplyRecv("fs", n)
        /\ fd_table' = [fd_table EXCEPT ![m.fd].offset = at + n]
        /\ ext_buf' = [ext_buf EXCEPT ![c] = Piece(at, n)]
    BY <1>1, <1>4, <1>6, <2>1, <2>4, Zenon DEF fs_read, Piece
  <2>6. at + n =< FileLen
    BY <2>2, <2>3
  <2>. QED  BY <1>1, <1>2, <1>6, <2>1, <2>3, <2>5, <2>6 DEF ReadDone
<1>. QED  BY <1>5, <1>6

(* A read() stays where it is.                                                  *)
LEMMA ReadingSame ==
  ASSUME NEW t, NEW r, Reading(t, r), msg'[t] = msg[t], ret'[t] = ret[t],
         ext_buf'[t] = ext_buf[t], fds'[t] = fds[t],
         r.fd \in fds[t] => fd_table'[r.fd] = fd_table[r.fd],
         In(t, endpoint'["fs"]) => In(t, endpoint["fs"])
  PROVE  Reading(t, r)'
<1>1. Halfway(t, r) /\ fd_table'[r.fd] = fd_table[r.fd] => Halfway(t, r)'
  BY DEF Halfway, HasAnswer, Piece
<1>. QED  BY <1>1 DEF Reading, HasAnswer

(* The first call of a read().                                                  *)
LEMMA ReadStarts ==
  ASSUME RpcInv, FilesTyped, NEW t \in Clients, NEW f \in Fds, NEW count \in Counts,
         StartRead(t, f, count), DOMAIN reading = Threads, NEW r, reading'[t] = r
  PROVE  Reading(t, r)'
<1>0. t \in Threads /\ DOMAIN msg = Threads /\ ret[t] = None /\ count \in Nat \ {0}
  BY Connections, FilesAssumption DEF StartRead, Call, RpcInv, RpcTypes, Idle
<1>1. PICK from \in 0..FileLen : from = fd_table[f].offset
  BY DEF FilesTyped
<1>2. r = [fd |-> f, count |-> count, from |-> from, buf |-> <<>>]
  BY <1>0, <1>1 DEF StartRead
<1>3. r.fd = f /\ r.count = count /\ r.from = from /\ r.buf = <<>>
  BY <1>2
<1>4. Len(r.buf) = 0 /\ r.buf \in Seq(1..FileLen)
  BY <1>3
<1>5. msg'[t] = Read(f, count) /\ ret'[t] = None /\ UNCHANGED fd_table
  BY <1>0 DEF StartRead, Call
<1>6. Piece(from, 0) = <<>>
  BY FilesAssumption, PieceOfFile
<1>7. FileLen \in Nat
  BY FilesAssumption
<1>8. from + 0 = from /\ count - 0 = count /\ from =< FileLen /\ 0 < count /\ count \in Nat
  BY <1>0, <1>7
<1>9. ~HasAnswer(t)'
  BY <1>5 DEF HasAnswer
<1>10. Halfway(t, r)'
  BY <1>1, <1>3, <1>4, <1>5, <1>6, <1>8, <1>9 DEF Halfway, Piece
<1>. QED  BY <1>2, <1>3, <1>4, <1>5, <1>8, <1>9, <1>10 DEF Reading

(* What has been read when an answer has come that is no failure.               *)
LEMMA CopiedOnce ==
  ASSUME FilesTyped, NEW t \in Clients, NEW r, r = reading[t], Reading(t, r),
         HasAnswer(t), ret[t] > 0
  PROVE  /\ Copied(t) = r.buf \o ext_buf[t] /\ Copied(t) \in Seq(1..FileLen)
         /\ ret[t] \in 1..(r.count - Len(r.buf)) /\ Len(Copied(t)) = Len(r.buf) + ret[t]
         /\ r.fd \in fds[t] =>
               /\ Copied(t) = Piece(r.from, Len(r.buf) + ret[t])
               /\ r.from + Len(r.buf) + ret[t] =< FileLen
               /\ fd_table[r.fd].offset = r.from + Len(r.buf) + ret[t]
<1>0. t \in Threads /\ FileLen \in Nat /\ BufSize \in Nat
  BY Connections, FilesAssumption
<1>1. PICK n : n = ret[t]
  OBVIOUS
<1>2. PICK b \in Seq(1..FileLen) : b = r.buf
  BY DEF Reading
<1>3. PICK e \in Seq(1..FileLen) : e = ext_buf[t]
  BY <1>0 DEF FilesTyped
<1>4. n \in 1..(r.count - Len(b)) /\ Len(e) = n /\ r.count \in Nat
  <2>1. n = -1 \/ (n \in 0..(r.count - Len(b)) /\ Len(e) = n)
    BY <1>1, <1>2, <1>3 DEF Reading
  <2>2. n > 0 /\ r.count \in Nat
    BY <1>1 DEF Reading
  <2>. QED  BY <2>1, <2>2
<1>5. SubSeq(e, 1, n) = e
  BY <1>4
<1>6. Copied(t) = b \o e
  <2>1. ~(ret[t] =< 0)
    BY <1>1, <1>4
  <2>. QED  BY <1>1, <1>2, <1>3, <1>5, <2>1 DEF Copied
<1>7. b \o e \in Seq(1..FileLen) /\ Len(b \o e) = Len(b) + n
  BY <1>4
<1>8. ASSUME r.fd \in fds[t]
      PROVE  /\ b \o e = Piece(r.from, Len(b) + n)
             /\ r.from + Len(b) + n =< FileLen
             /\ fd_table[r.fd].offset = r.from + Len(b) + n
  <2>1. PICK at : at = r.from + Len(b)
    OBVIOUS
  <2>2. r.from \in Nat /\ Len(b) \in Nat /\ n \in Nat /\ at \in Nat
    <3>1. r.from \in 0..FileLen /\ b \in Seq(1..FileLen)
      BY DEF Reading
    <3>2. Len(b) \in Nat
      BY <3>1
    <3>3. n \in Nat
      BY <1>4, <3>2
    <3>. QED  BY <1>0, <2>1, <3>1, <3>2, <3>3
  <2>3. /\ at =< FileLen /\ b = Piece(r.from, Len(b))
        /\ n = Min({r.count - Len(b), BufSize, FileLen - at})
        /\ e = Piece(at, n)
        /\ fd_table[r.fd].offset = at + n
    BY <1>1, <1>2, <1>3, <1>8, <2>1 DEF Reading, Halfway
  <2>4. n =< FileLen - at
    <3>0. at =< FileLen
      BY <2>3
    <3>1. r.count - Len(b) \in Nat /\ FileLen - at \in Nat
      <4>1. FileLen - at \in Nat
        BY <1>0, <2>2, <3>0
      <4>2. r.count - Len(b) \in Nat
        BY <1>4, <2>2
      <4>. QED  BY <4>1, <4>2
    <3>2. Min({r.count - Len(b), BufSize, FileLen - at}) =< FileLen - at
      BY <1>0, <3>1, LeastOf, Zenon
    <3>. QED  BY <2>3, <3>2, Zenon
  <2>5. r.from + Len(b) + n =< FileLen
    BY <1>0, <2>1, <2>2, <2>4
  <2>6. Piece(r.from, Len(b)) \o Piece(r.from + Len(b), n) = Piece(r.from, Len(b) + n)
    BY <2>2, <2>5, PiecesJoin
  <2>7. b \o e = Piece(r.from, Len(b) + n)
    BY <2>1, <2>3, <2>6, Zenon
  <2>8. fd_table[r.fd].offset = r.from + Len(b) + n
    BY <2>1, <2>3
  <2>. QED  BY <2>5, <2>7, <2>8
<1>9. n = ret[t] /\ b = r.buf /\ e = ext_buf[t]
  BY <1>1, <1>2, <1>3
<1>. QED  BY <1>4, <1>6, <1>7, <1>8, <1>9, Zenon

(* Another round: what has come is kept, and the rest is asked for.             *)
LEMMA ReadGoesOn ==
  ASSUME RpcInv, FilesTyped, NEW t \in Clients, ReadMore(t), DOMAIN reading = Threads,
         NEW r, r = reading[t], Reading(t, r), NEW q, q = reading'[t]
  PROVE  /\ Remain(t) \in Nat \ {0}
         /\ Reading(t, q)'
<1>0. t \in Threads /\ DOMAIN msg = Threads /\ DOMAIN ret = Threads
  BY Connections DEF RpcInv, RpcTypes
<1>1. HasAnswer(t) /\ ret[t] > 0 /\ Len(Copied(t)) < r.count /\ Remain(t) = r.count - Len(Copied(t))
  BY DEF ReadMore, Remain
<1>2. PICK b \in Seq(1..FileLen) : b = Copied(t) /\ Len(b) = Len(r.buf) + ret[t]
  BY <1>1, CopiedOnce
<1>3. /\ Len(b) = Len(r.buf) + ret[t]
      /\ r.fd \in fds[t] => /\ b = Piece(r.from, Len(b))
                            /\ r.from + Len(b) =< FileLen
                            /\ fd_table[r.fd].offset = r.from + Len(b)
  <2>1. ASSUME r.fd \in fds[t]
        PROVE  /\ Copied(t) = Piece(r.from, Len(r.buf) + ret[t])
               /\ r.from + Len(r.buf) + ret[t] =< FileLen
               /\ fd_table[r.fd].offset = r.from + Len(r.buf) + ret[t]
    BY <1>1, <2>1, CopiedOnce
  <2>2. Len(r.buf) \in Nat /\ r.from \in Int
    BY FilesAssumption DEF Reading
  <2>3. ret[t] \in Nat
    BY <1>1 DEF Reading
  <2>4. r.from + (Len(r.buf) + ret[t]) = r.from + Len(r.buf) + ret[t]
    BY <2>2, <2>3
  <2>. QED  BY <1>2, <2>1, <2>4, Zenon
<1>4. q = [r EXCEPT !.buf = b]
  BY <1>0, <1>2 DEF ReadMore
<1>5. q = [fd |-> r.fd, count |-> r.count, from |-> r.from, buf |-> b]
  <2>1. r = [fd |-> r.fd, count |-> r.count, from |-> r.from, buf |-> r.buf]
    BY DEF Reading
  <2>. QED  BY <1>4, <2>1
<1>6. q.fd = r.fd /\ q.count = r.count /\ q.from = r.from /\ q.buf = b
  BY <1>5
<1>7. Remain(t) = r.count - Len(b) /\ Len(b) < r.count
  BY <1>1, <1>2
<1>8. r.fd \in Fds /\ r.count \in Nat /\ r.from \in 0..FileLen
  BY DEF Reading
<1>9. Remain(t) \in Nat \ {0}
  BY <1>7, <1>8
<1>10. msg'[t] = Read(r.fd, r.count - Len(b)) /\ ret'[t] = None /\ UNCHANGED <<fd_table, fds>>
  BY <1>0, <1>7 DEF ReadMore
<1>11. ~HasAnswer(t)'
  BY <1>10 DEF HasAnswer
<1>12. r.fd \in fds[t] => Halfway(t, q)'
  BY <1>3, <1>6, <1>10, <1>11 DEF Halfway, Piece
<1>. QED  BY <1>5, <1>6, <1>7, <1>8, <1>9, <1>10, <1>11, <1>12 DEF Reading

(* A client's step begins a read(), goes on with it or ends it, and no read()   *)
(* of another client is touched.                                                *)
LEMMA ReadsClient ==
  ASSUME RpcInv, FdHolders, FilesTyped, ReadsInv, NEW t \in Clients, ClientStep(t)
  PROVE  ReadsInv' /\ (ReadMore(t) => Remain(t) \in Nat \ {0})
<1>0. /\ t \in Threads /\ Clients \subseteq Threads /\ DOMAIN reading = Threads /\ DOMAIN ext_buf = Threads
  BY Connections DEF ReadsInv, FilesTyped
<1>1. /\ UNCHANGED fd_table
      /\ \A u \in Clients \ {t} : fds'[u] = fds[u]
  BY FdCallsClient DEF ClientStep, fileVars, FileClient, FileCall, StartRead, ReadMore, ReadReturn, FileReturn
<1>2. \A u \in Clients \ {t} : /\ msg'[u] = msg[u] /\ ret'[u] = ret[u]
                               /\ In(u, endpoint'["fs"]) => In(u, endpoint["fs"])
  BY <1>0, ClientElsewhere
<1>3. UNCHANGED <<reading, ext_buf>> \/ ReadMore(t) \/ ReadReturn(t) \/ \E f \in Fds, n \in Counts : StartRead(t, f, n)
  BY DEF ClientStep, fileVars, FileClient, FileCall, FileReturn
<1>4. /\ DOMAIN reading' = Threads
      /\ \A u \in Clients \ {t} : reading'[u] = reading[u] /\ ext_buf'[u] = ext_buf[u]
  BY <1>0, <1>3 DEF ReadMore, ReadReturn, StartRead
<1>5. ReadMore(t) => Remain(t) \in Nat \ {0}
  <2>1. ASSUME ReadMore(t) PROVE Remain(t) \in Nat \ {0}
    <3>1. Reading(t, reading[t])
      BY <2>1 DEF ReadsInv, ReadMore
    <3>. QED  BY <1>0, <2>1, <3>1, ReadGoesOn
  <2>. QED  BY <2>1
<1>6. ASSUME NEW r, reading'[t] = r, r # None PROVE Reading(t, r)'
  <2>1. CASE \E f \in Fds, n \in Counts : StartRead(t, f, n)
    BY <1>0, <1>6, <2>1, ReadStarts
  <2>2. CASE ReadMore(t)
    <3>1. Reading(t, reading[t])
      BY <2>2 DEF ReadsInv, ReadMore
    <3>. QED  BY <1>0, <1>6, <2>2, <3>1, ReadGoesOn
  <2>3. CASE ReadReturn(t)
    BY <1>0, <1>6, <2>3 DEF ReadReturn
  <2>4. CASE ~(\E f \in Fds, n \in Counts : StartRead(t, f, n)) /\ ~ReadMore(t) /\ ~ReadReturn(t)
    <3>1. reading[t] = r
      BY <1>3, <1>6, <2>4
    <3>2. Reading(t, r)
      BY <1>6, <3>1 DEF ReadsInv
    <3>3. msg[t].iface = "fs" /\ msg[t] # NoCall
      <4>1. msg[t].iface = "fs"
        BY <3>2 DEF Reading, Read
      <4>. QED  BY <4>1, CallsDiffer, Connections
    <3>4. ~GpioReturn(t) /\ ~ClockReturn(t) /\ ~PicoReturn(t)
      BY <3>3 DEF GpioReturn, ClockReturn, PicoReturn, PicoInterfaces
    <3>5. ~FileCall(t) /\ ~PicoCall(t) /\ \A m : ~Call(t, m)
      BY <3>3 DEF FileCall, PicoCall, Call
    <3>. QED  BY <1>6, <2>4, <3>1, <3>4, <3>5 DEF ClientStep, FileClient, FileReturn
  <2>. QED  BY <2>1, <2>2, <2>3, <2>4
<1>7. ReadsInv'
  <2>1. ASSUME NEW u \in Clients, NEW r, reading'[u] = r, r # None PROVE Reading(u, r)'
    <3>1. CASE u = t
      BY <1>6, <2>1, <3>1
    <3>2. CASE u # t
      <4>1. Reading(u, r)
        BY <1>4, <2>1, <3>2 DEF ReadsInv
      <4>. QED  BY <1>1, <1>2, <1>4, <3>2, <4>1, ReadingSame
    <3>. QED  BY <3>1, <3>2
  <2>. QED  BY <1>4, <2>1 DEF ReadsInv, Clients, Places
<1>. QED  BY <1>5, <1>7

(* Only the FileServer takes callers from its endpoint.                         *)
LEMMA ReadersWait ==
  ASSUME RpcInv, ServerStep, ~FileThread
  PROVE  endpoint'["fs"] = endpoint["fs"]
<1>. USE Connections
<1>0. DOMAIN endpoint = Servers
  BY DEF RpcInv, RpcTypes
<1>1. ASSUME NEW s \in Servers \ {"fs"}, NEW r, ReplyRecv(s, r) PROVE endpoint'["fs"] = endpoint["fs"]
  BY <1>0, <1>1 DEF ReplyRecv
<1>2. ASSUME NEW s \in BpmpClients, NEW req, bpmp_call(s, req) PROVE endpoint'["fs"] = endpoint["fs"]
  <2>1. PICK m : CallsOut(s, m) /\ ServerOf[m.iface] = "bpmp"
    BY <1>2 DEF bpmp_call
  <2>. QED  BY <1>0, <2>1 DEF CallsOut, BpmpClients
<1>3. ASSUME NEW s, Driver(s) PROVE endpoint'["fs"] = endpoint["fs"]
  BY <1>3 DEF Driver, Answers
<1>4. GpioThread => endpoint'["fs"] = endpoint["fs"]
  BY <1>1 DEF GpioThread, GpioServer, gpio_init_pin, gpio_set_level, gpio_read_level, mux_feature, Grant
<1>5. ClockThread => endpoint'["fs"] = endpoint["fs"]
  <2>1. clock_init_clock \/ clock_register_child => endpoint'["fs"] = endpoint["fs"]
    BY <1>1 DEF clock_init_clock, clock_register_child
  <2>2. ASSUME NEW op, clock_freq_call(op) PROVE endpoint'["fs"] = endpoint["fs"]
    BY <1>1, <1>2, <2>2 DEF clock_freq_call, BpmpClients
  <2>3. PassedOn("clock", "gate") => endpoint'["fs"] = endpoint["fs"]
    BY <1>2 DEF PassedOn, BpmpClients
  <2>. QED  BY <1>3, <2>1, <2>2, <2>3 DEF ClockThread, ClockServerNext
<1>6. ResetThread => endpoint'["fs"] = endpoint["fs"]
  BY <1>2, <1>3 DEF PassedOn, ResetThread, ResetServerNext, BpmpClients
<1>7. BpmpThread => endpoint'["fs"] = endpoint["fs"]
  BY <1>1 DEF BpmpThread, the_bpmp_call
<1>8. PicoThread => endpoint'["fs"] = endpoint["fs"]
  <2>1. ASSUME NEW i \in PicoInterfaces, Transfer(i) PROVE endpoint'["fs"] = endpoint["fs"]
    BY <1>1, <2>1 DEF Transfer
  <2>2. ASSUME NEW op, PassesOn(op) PROVE endpoint'["fs"] = endpoint["fs"]
    BY <1>1, <2>2 DEF PassesOn
  <2>3. pico_open => endpoint'["fs"] = endpoint["fs"]
    <3>1. pico_open => \E r : ReplyRecv("pico", r)
      BY Zenon DEF pico_open
    <3>. QED  BY <1>1, <3>1
  <2>4. pico_close => endpoint'["fs"] = endpoint["fs"]
    <3>1. pico_close => \E r : ReplyRecv("pico", r)
      BY Zenon DEF pico_close
    <3>. QED  BY <1>1, <3>1
  <2>5. pico_get_ipv4 => endpoint'["fs"] = endpoint["fs"]
    BY <1>1 DEF pico_get_ipv4
  <2>. QED  BY <2>1, <2>2, <2>3, <2>4, <2>5
            DEF PicoThread, PicoServerNext, pico_pass_on, pico_control_shutdown, pico_send, pico_recv, PicoInterfaces
<1>. QED  BY <1>4, <1>5, <1>6, <1>7, <1>8 DEF ServerStep

(* Somebody else's call at the FileServer leaves a held fd where it stands.     *)
LEMMA OffsetStays ==
  ASSUME RpcInv, FdsInv, FileServerNext, NEW f, NEW t \in Clients, FdOf(f, t), t # Caller("fs")
  PROVE  fd_table'[f] = fd_table[f]
<1>0. f \in Fds /\ fd_table[f].client = BadgeOf("fs", t) /\ fd_table[f] # Closed
  BY FileBadges DEF FdOf, Closed
<1>1. CASE UNCHANGED fd_table
  BY <1>1
<1>2. CASE fs_open /\ ~UNCHANGED fd_table
  <2>1. /\ FreeFds # {}
        /\ fd_table' = [fd_table EXCEPT ![Min(FreeFds)] = [client |-> fs_sender, offset |-> 0]]
    BY <1>2 DEF fs_open
  <2>2. Min(FreeFds) # f
    BY <1>0, <2>1, LeastFd DEF FreeFds
  <2>. QED  BY <1>0, <2>1, <2>2 DEF FdsInv
<1>3. CASE (fs_seek \/ fs_read \/ fs_close) /\ ~UNCHANGED fd_table
  <2>. DEFINE q == msg[Caller("fs")].fd
  <2>1. validate_client_fd(q, fs_sender) /\ \E x : fd_table' = [fd_table EXCEPT ![q] = x]
    BY <1>3 DEF fs_seek, fs_read, fs_close
  <2>2. Caller("fs") \in Clients /\ fs_sender = BadgeOf("fs", Caller("fs"))
    BY <1>3, FileSender DEF fs_seek, fs_read, fs_close
  <2>3. q # f
    BY <1>0, <2>1, <2>2, FileBadges DEF validate_client_fd
  <2>. HIDE DEF q
  <2>. QED  BY <1>0, <2>1, <2>3 DEF FdsInv
<1>. QED  BY <1>1, <1>2, <1>3 DEF FileServerNext

(* The offsets stay in the file and the buffers hold pieces of it.              *)
LEMMA FilesTypedClient ==
  ASSUME RpcInv, FdHolders, FilesTyped, NEW t \in Clients, ClientStep(t)
  PROVE  FilesTyped'
<1>0. t \in Threads /\ Clients \subseteq Threads /\ BufSize \in Nat /\ DOMAIN fds = Threads
  BY Connections, FilesAssumption DEF FdHolders
<1>1. UNCHANGED fd_table
  BY DEF ClientStep, fileVars, FileClient, FileCall, StartRead, ReadMore, ReadReturn, FileReturn
<1>2. UNCHANGED ext_buf \/ ext_buf' = [ext_buf EXCEPT ![t] = <<>>]
  BY DEF ClientStep, fileVars, FileClient, FileCall, StartRead, ReadMore, ReadReturn, FileReturn
<1>3. DOMAIN ext_buf' = Threads /\ \A u \in Threads : ext_buf'[u] = ext_buf[u] \/ ext_buf'[u] = <<>>
  BY <1>0, <1>2 DEF FilesTyped
<1>4. <<>> \in Seq(1..FileLen) /\ Len(<<>>) =< BufSize
  BY <1>0
<1>5. \A u \in Threads : ext_buf'[u] \in Seq(1..FileLen) /\ Len(ext_buf'[u]) =< BufSize
  BY <1>3, <1>4 DEF FilesTyped
<1>6. \/ UNCHANGED fds
      \/ \E f : fds' = [fds EXCEPT ![t] = fds[t] \ {f}]
      \/ ret[t] \in Fds /\ fds' = [fds EXCEPT ![t] = fds[t] \cup {ret[t]}]
  <2>1. CASE FileCall(t)
    BY <2>1 DEF FileCall
  <2>2. CASE FileReturn(t)
    <3>1. FileReturn(t) /\ ~UNCHANGED fds => Told(t, "fs", "open") /\ ret[t] # -1 /\ fds' = [fds EXCEPT ![t] = fds[t] \cup {ret[t]}]
      BY DEF FileReturn, Return, Told
    <3>. QED  BY <2>2, <3>1 DEF FdHolders, FdOf
  <2>3. CASE ~FileCall(t) /\ ~FileReturn(t)
    BY <2>3 DEF ClientStep, fileVars, FileClient, StartRead, ReadMore, ReadReturn
  <2>. QED  BY <2>1, <2>2, <2>3
<1>7. fds' \in [Threads -> SUBSET Fds]
  BY <1>6 DEF FilesTyped
<1>. QED  BY <1>1, <1>3, <1>5, <1>7 DEF FilesTyped

(* The servers keep them so too.                                                *)
LEMMA FilesTypedServer ==
  ASSUME RpcInv, FdsInv, Messages, FilesTyped, ServerStep
  PROVE  FilesTyped'
<1>0. /\ Clients \subseteq Threads /\ BufSize \in Nat /\ FileLen \in Nat
      /\ "fs" \in Interfaces /\ ServerOf["fs"] = "fs"
  BY Connections, FilesAssumption
<1>1. UNCHANGED fds
  BY DEF ServerStep, GpioThread, ClockThread, ResetThread, BpmpThread, FileThread, PicoThread, fileVars,
         FileServerNext, fs_open, fs_seek, fs_read, fs_close
<1>. DEFINE Offsets == /\ fd_table' = [f \in Fds |-> fd_table'[f]]
                       /\ \A f \in Fds : fd_table'[f].offset \in 0..FileLen
<1>2. ASSUME UNCHANGED ext_buf, Offsets PROVE FilesTyped'
  BY <1>1, <1>2 DEF FilesTyped
<1>3. CASE UNCHANGED fd_table /\ UNCHANGED ext_buf
  BY <1>2, <1>3 DEF FilesTyped
<1>4. ASSUME NEW q, NEW c, NEW n \in 0..FileLen, fd_table' = [fd_table EXCEPT ![q] = [client |-> c, offset |-> n]]
      PROVE  Offsets
  <2>1. \A f \in Fds : fd_table'[f] = IF f = q THEN [client |-> c, offset |-> n] ELSE fd_table[f]
    BY <1>4 DEF FdsInv
  <2>2. fd_table' = [f \in Fds |-> fd_table'[f]]
    BY <1>4 DEF FdsInv
  <2>. QED  BY <1>4, <2>1, <2>2 DEF FilesTyped
<1>5. ASSUME NEW q \in Fds, NEW n \in 0..FileLen, fd_table' = [fd_table EXCEPT ![q].offset = n]
      PROVE  Offsets
  <2>1. fd_table[q] = [client |-> fd_table[q].client, offset |-> fd_table[q].offset]
    BY <1>5 DEF FdsInv
  <2>2. [fd_table[q] EXCEPT !.offset = n] = [client |-> fd_table[q].client, offset |-> n]
    BY <2>1
  <2>3. fd_table' = [fd_table EXCEPT ![q] = [client |-> fd_table[q].client, offset |-> n]]
    BY <1>5, <2>2
  <2>. QED  BY <1>4, <2>3
<1>6. CASE fs_open /\ ~UNCHANGED fd_table
  <2>1. UNCHANGED ext_buf /\ fd_table' = [fd_table EXCEPT ![Min(FreeFds)] = [client |-> fs_sender, offset |-> 0]]
    BY <1>6 DEF fs_open
  <2>2. 0 \in 0..FileLen
    BY <1>0
  <2>. QED  BY <1>2, <1>4, <2>1, <2>2
<1>7. CASE fs_seek /\ ~UNCHANGED fd_table
  <2>. DEFINE c == Caller("fs")
  <2>1. c \in Clients /\ msg[c].iface = "fs" /\ msg[c].op = "seek"
    BY <1>0, <1>7, FileSender, ReceivedInterface DEF fs_seek
  <2>2. msg[c] # NoCall
    BY <1>0, <2>1, CallsDiffer
  <2>3. msg[c].offset \in 0..FileLen
    BY <2>1, <2>2 DEF Messages, WellFormed
  <2>4. UNCHANGED ext_buf /\ msg[c].fd \in Fds /\ fd_table' = [fd_table EXCEPT ![msg[c].fd].offset = msg[c].offset]
    BY <1>7 DEF fs_seek, validate_client_fd
  <2>. QED  BY <1>2, <1>5, <2>3, <2>4
<1>8. CASE fs_read
  <2>1. PICK c, m : c = Caller("fs") /\ m = msg[c]
    OBVIOUS
  <2>2. \/ UNCHANGED <<fd_table, ext_buf>>
        \/ \E at \in 0..FileLen, n \in Nat :
             /\ c \in Clients /\ FdOf(m.fd, c) /\ n =< BufSize /\ at + n =< FileLen
             /\ fd_table' = [fd_table EXCEPT ![m.fd].offset = at + n]
             /\ ext_buf' = [ext_buf EXCEPT ![c] = Piece(at, n)]
    <3>1. c \in Clients /\ ReadDone(c, m)
      BY <1>8, <2>1, ReadServed
    <3>. QED  BY <3>1, Zenon DEF ReadDone
  <2>3. ASSUME NEW at \in 0..FileLen, NEW n \in Nat,
               c \in Clients, FdOf(m.fd, c), n =< BufSize, at + n =< FileLen,
               fd_table' = [fd_table EXCEPT ![m.fd].offset = at + n],
               ext_buf' = [ext_buf EXCEPT ![c] = Piece(at, n)]
        PROVE  FilesTyped'
    <3>1. m.fd \in Fds /\ at + n \in 0..FileLen
      BY <1>0, <2>3 DEF FdOf
    <3>2. Offsets
      BY <1>5, <2>3, <3>1
    <3>3. Piece(at, n) \in Seq(1..FileLen) /\ Len(Piece(at, n)) =< BufSize
      BY <1>0, <2>3, PieceOfFile
    <3>4. DOMAIN ext_buf' = Threads /\ \A u \in Threads : ext_buf'[u] = ext_buf[u] \/ ext_buf'[u] = Piece(at, n)
      BY <2>3 DEF FilesTyped
    <3>5. \A u \in Threads : ext_buf'[u] \in Seq(1..FileLen) /\ Len(ext_buf'[u]) =< BufSize
      BY <3>3, <3>4 DEF FilesTyped
    <3>. QED  BY <1>1, <3>2, <3>4, <3>5 DEF FilesTyped
  <2>. QED  BY <1>3, <2>2, <2>3
<1>9. CASE fs_close /\ ~UNCHANGED fd_table
  <2>1. UNCHANGED ext_buf /\ fd_table' = [fd_table EXCEPT ![msg[Caller("fs")].fd] = [client |-> 0, offset |-> 0]]
    BY <1>9 DEF fs_close, Closed
  <2>2. 0 \in 0..FileLen
    BY <1>0
  <2>. QED  BY <1>2, <1>4, <2>1, <2>2
<1>10. CASE (fs_open \/ fs_seek \/ fs_close) /\ UNCHANGED fd_table
  <2>1. UNCHANGED ext_buf
    BY <1>10 DEF fs_open, fs_seek, fs_close
  <2>. QED  BY <1>3, <1>10, <2>1
<1>11. CASE ~FileThread
  <2>1. UNCHANGED <<fd_table, ext_buf>>
    BY <1>11 DEF ServerStep, GpioThread, ClockThread, ResetThread, BpmpThread, PicoThread, fileVars
  <2>. QED  BY <1>3, <2>1
<1>. QED  BY <1>6, <1>7, <1>8, <1>9, <1>10, <1>11 DEF FileThread, FileServerNext

(* A call of the FileServer: whom it answers.                                   *)
LEMMA FileReplies ==
  ASSUME FileServerNext
  PROVE  \E op \in {"open", "seek", "read", "close"} : \E r :
            /\ Receives("fs", op) /\ handle_message("fs") /\ ReplyRecv("fs", r)
            /\ op = "read" => fs_read
<1>1. fs_open => \E r : ReplyRecv("fs", r)
  BY Zenon DEF fs_open
<1>2. fs_seek => \E r : ReplyRecv("fs", r)
  BY Zenon DEF fs_seek
<1>3. fs_read => \E r : ReplyRecv("fs", r)
  <2>1. CASE validate_client_fd(msg[Caller("fs")].fd, fs_sender)
    BY <2>1, Zenon DEF fs_read
  <2>2. CASE ~validate_client_fd(msg[Caller("fs")].fd, fs_sender)
    BY <2>2, Zenon DEF fs_read
  <2>. QED  BY <2>1, <2>2
<1>4. fs_close => \E r : ReplyRecv("fs", r)
  BY Zenon DEF fs_close
<1>5. /\ fs_open => Receives("fs", "open") /\ handle_message("fs")
      /\ fs_seek => Receives("fs", "seek") /\ handle_message("fs")
      /\ fs_read => Receives("fs", "read") /\ handle_message("fs")
      /\ fs_close => Receives("fs", "close") /\ handle_message("fs")
  BY DEF fs_open, fs_seek, fs_read, fs_close
<1>. HIDE DEF fs_open, fs_seek, fs_read, fs_close
<1>6. fs_open \/ fs_seek \/ fs_read \/ fs_close
  BY DEF FileServerNext
<1>. QED  BY <1>1, <1>2, <1>3, <1>4, <1>5, <1>6, Zenon

(* The answer to the read() of the caller itself.                               *)
LEMMA ReadAnswered ==
  ASSUME RpcInv, FdsInv, FdHolders, FilesTyped, Messages, fs_read, NEW c, c = Caller("fs"),
         NEW r, Reading(c, r), UNCHANGED fds
  PROVE  Reading(c, r)'
<1>. USE Connections
<1>0. /\ c \in Clients /\ c \in Threads /\ In(c, endpoint["fs"]) /\ "fs" \in Interfaces
      /\ ReadDone(c, Read(r.fd, r.count - Len(r.buf)))
  <2>1. PICK m : m = msg[c]
    OBVIOUS
  <2>2. c \in Clients /\ In(c, endpoint["fs"]) /\ ReadDone(c, m)
    BY <2>1, ReadServed
  <2>3. m = Read(r.fd, r.count - Len(r.buf))
    BY <2>1 DEF Reading
  <2>. QED  BY <2>2, <2>3
<1>1. /\ r = [fd |-> r.fd, count |-> r.count, from |-> r.from, buf |-> r.buf]
      /\ r.fd \in Fds /\ r.count \in Nat /\ r.from \in 0..FileLen /\ r.buf \in Seq(1..FileLen)
      /\ Len(r.buf) < r.count
      /\ msg[c] = Read(r.fd, r.count - Len(r.buf))
      /\ r.fd \in fds[c] => Halfway(c, r)
  BY DEF Reading
<1>2. ASSUME NEW x, ReplyRecv("fs", x)
      PROVE  UNCHANGED msg /\ ret'[c] = x /\ ~In(c, endpoint'["fs"])
  <2>1. Receives("fs", "read") /\ ReplyRecv(ServerOf["fs"], x)
    BY <1>2 DEF fs_read
  <2>. QED  BY <1>0, <2>1, Replied, RepliedElsewhere
<1>3. PICK m : ReadDone(c, m) /\ m.fd = r.fd /\ m.size = r.count - Len(r.buf)
  BY <1>0 DEF Read
<1>4. CASE ~FdOf(m.fd, c) /\ ReplyRecv("fs", -1)
  <2>1. r.fd \notin fds[c]
    BY <1>0, <1>3, <1>4 DEF FdHolders
  <2>2. UNCHANGED msg /\ ret'[c] = -1
    BY <1>2, <1>4
  <2>. QED  BY <1>1, <2>1, <2>2 DEF Reading
<1>5. ASSUME NEW at \in 0..FileLen, NEW n \in Nat,
             FdOf(m.fd, c), ReplyRecv("fs", n),
             at = fd_table[m.fd].offset,
             n = Min({m.size, BufSize, FileLen - at}),
             n =< m.size, n =< BufSize, at + n =< FileLen,
             fd_table' = [fd_table EXCEPT ![m.fd].offset = at + n],
             ext_buf' = [ext_buf EXCEPT ![c] = Piece(at, n)]
      PROVE  Reading(c, r)'
  <2>0. /\ at = fd_table[r.fd].offset /\ n = Min({r.count - Len(r.buf), BufSize, FileLen - at})
        /\ n =< r.count - Len(r.buf) /\ fd_table' = [fd_table EXCEPT ![r.fd].offset = at + n]
    BY <1>3, <1>5, Zenon
  <2>1. UNCHANGED msg /\ ret'[c] = n /\ ~In(c, endpoint'["fs"])
    BY <1>2, <1>5
  <2>2. ext_buf'[c] = Piece(at, n)
    BY <1>0, <1>5 DEF FilesTyped
  <2>3. Len(Piece(at, n)) = n
    <3>1. at \in Nat
      BY FilesAssumption
    <3>. QED  BY <1>5, <3>1, PieceOfFile
  <2>4. fd_table'[r.fd].offset = at + n
    <3>1. fd_table[r.fd] = [client |-> fd_table[r.fd].client, offset |-> fd_table[r.fd].offset]
      BY <1>1 DEF FdsInv
    <3>2. [fd_table[r.fd] EXCEPT !.offset = at + n] = [client |-> fd_table[r.fd].client, offset |-> at + n]
      BY <3>1
    <3>. QED  BY <1>1, <2>0, <3>2 DEF FdsInv
  <2>5. n \in 0..(r.count - Len(r.buf))
    BY <1>1, <1>5, <2>0
  <2>6. ASSUME r.fd \in fds[c] PROVE Halfway(c, r)'
    <3>1. r.from + Len(r.buf) = at /\ at =< FileLen /\ r.buf = Piece(r.from, Len(r.buf))
      BY <1>0, <1>1, <2>0, <2>6 DEF Halfway
    <3>. QED  BY <2>0, <2>1, <2>2, <2>4, <3>1 DEF Halfway, Piece
  <2>. QED  BY <1>1, <2>1, <2>2, <2>3, <2>5, <2>6 DEF Reading
<1>. QED  BY <1>3, <1>4, <1>5, Zenon DEF ReadDone

(* A server's step answers the read() it serves and leaves the others.          *)
LEMMA ReadsServer ==
  ASSUME RpcInv, FdsInv, FdHolders, FilesTyped, Messages, ReadsInv, ServerStep
  PROVE  ReadsInv'
<1>. USE Connections
<1>0. UNCHANGED <<fds, reading>> /\ Clients \subseteq Threads /\ "fs" \in Interfaces /\ ServerOf["fs"] = "fs"
  BY DEF ServerStep, GpioThread, ClockThread, ResetThread, BpmpThread, FileThread, PicoThread, fileVars,
         FileServerNext, fs_open, fs_seek, fs_read, fs_close
<1>1. ASSUME NEW u \in Clients, NEW r, reading[u] = r, r # None PROVE Reading(u, r)'
  <2>0. Reading(u, r) /\ msg[u].iface = "fs" /\ msg[u].op = "read" /\ msg'[u] = msg[u]
    <3>1. Reading(u, r)
      BY <1>1 DEF ReadsInv
    <3>2. msg'[u] = msg[u]
      BY ThreadAnswers DEF ServerStep, AnsweredBy
    <3>. QED  BY <3>1, <3>2 DEF Reading, Read
  <2>1. CASE ~FileThread
    <3>1. UNCHANGED <<fd_table, ext_buf>>
      BY <2>1 DEF ServerStep, GpioThread, ClockThread, ResetThread, BpmpThread, PicoThread, fileVars
    <3>2. ret'[u] = ret[u]
      BY <2>0, <2>1, ThreadAnswers DEF ServerStep, AnsweredBy
    <3>. QED  BY <1>0, <2>0, <2>1, <3>1, <3>2, ReadersWait, ReadingSame
  <2>2. CASE FileThread
    <3>0. FileServerNext
      BY <2>2 DEF FileThread
    <3>1. PICK op, x : Receives("fs", op) /\ ReplyRecv("fs", x) /\ (op = "read" => fs_read)
      BY <3>0, FileReplies
    <3>2. PICK c : c = Caller("fs")
      OBVIOUS
    <3>3. /\ msg[c].op = op /\ (u # c => ret'[u] = ret[u])
          /\ In(u, endpoint'["fs"]) => In(u, endpoint["fs"])
      BY <1>0, <3>1, <3>2, Replied, RepliedElsewhere
    <3>4. CASE u = c
      BY <1>0, <2>0, <3>1, <3>2, <3>3, <3>4, ReadAnswered
    <3>5. CASE u # c
      <4>1. ext_buf'[u] = ext_buf[u]
        <5>1. CASE UNCHANGED ext_buf
          BY <5>1
        <5>2. CASE ~UNCHANGED ext_buf
          <6>1. fs_read
            BY <3>0, <5>2 DEF FileServerNext, fs_open, fs_seek, fs_close
          <6>2. PICK m : m = msg[c]
            OBVIOUS
          <6>3. ReadDone(c, m)
            BY <3>2, <6>1, <6>2, ReadServed
          <6>4. \E e : ext_buf' = [ext_buf EXCEPT ![c] = e]
            BY <5>2, <6>3 DEF ReadDone
          <6>. QED  BY <1>0, <3>5, <6>4 DEF FilesTyped
        <5>. QED  BY <5>1, <5>2
      <4>2. ASSUME r.fd \in fds[u] PROVE fd_table'[r.fd] = fd_table[r.fd]
        <5>1. FdOf(r.fd, u)
          BY <4>2 DEF FdHolders
        <5>. QED  BY <3>0, <3>2, <3>5, <5>1, OffsetStays
      <4>. QED  BY <1>0, <2>0, <3>3, <3>5, <4>1, <4>2, ReadingSame
    <3>. QED  BY <3>4, <3>5
  <2>. QED  BY <2>1, <2>2
<1>. QED  BY <1>0, <1>1 DEF ReadsInv, Clients, Places

(* What a read() returns is the file's bytes.                                   *)
LEMMA ReadsMatch ==
  ASSUME FdHolders, FilesTyped, ReadsInv
  PROVE  ReadsWhole
<1>. SUFFICES ASSUME NEW t \in Clients, EndsRead(t), NEW r, r = reading[t], r.fd \in fds[t]
              PROVE  Copied(t) = SubSeq(File, r.from + 1, Min({r.from + r.count, FileLen}))
  BY DEF ReadsWhole
<1>0. FileLen \in Nat /\ BufSize \in Nat \ {0}
  BY FilesAssumption
<1>1. Reading(t, r) /\ HasAnswer(t) /\ (ret[t] =< 0 \/ Len(Copied(t)) >= r.count)
  BY DEF ReadsInv, EndsRead
<1>2. PICK at, n, l, rest : at = r.from + Len(r.buf) /\ n = ret[t] /\ l = Len(r.buf) /\ rest = r.count - Len(r.buf)
  OBVIOUS
<1>3. /\ at =< FileLen /\ r.buf = Piece(r.from, l)
      /\ n = Min({rest, BufSize, FileLen - at})
      /\ r.from \in Nat /\ l \in Nat /\ at = r.from + l /\ r.count \in Nat /\ l < r.count /\ rest = r.count - l
  BY <1>0, <1>1, <1>2 DEF Reading, Halfway
<1>4. rest \in Nat \ {0} /\ FileLen - at \in Nat /\ at \in Nat
  BY <1>0, <1>3
<1>5. /\ n \in {rest, BufSize, FileLen - at} /\ n =< rest /\ n =< BufSize /\ n =< FileLen - at
  BY <1>0, <1>3, <1>4, LeastOf, Zenon
<1>6. /\ r.from + r.count \in Nat
      /\ Min({r.from + r.count, FileLen}) \in {r.from + r.count, FileLen}
      /\ Min({r.from + r.count, FileLen}) =< r.from + r.count
      /\ Min({r.from + r.count, FileLen}) =< FileLen
  <2>1. r.from + r.count \in Nat
    BY <1>3
  <2>. QED  BY <1>0, <2>1, LeastOf, Zenon
<1>7. PICK e : e = Min({r.from + r.count, FileLen})
  OBVIOUS
<1>8. e \in {r.from + r.count, FileLen} /\ e =< r.from + r.count /\ e =< FileLen
  BY <1>6, <1>7, Zenon
<1>9. CASE n =< 0
  <2>1. Copied(t) = Piece(r.from, l)
    BY <1>2, <1>3, <1>9 DEF Copied
  <2>2. n = FileLen - at
    BY <1>0, <1>4, <1>5, <1>9
  <2>3. e = r.from + l
    <3>1. /\ r.from \in Nat /\ l \in Nat /\ r.count \in Nat /\ l < r.count /\ FileLen = r.from + l
          /\ e \in {r.from + r.count, FileLen} /\ e =< FileLen
      <4>1. FileLen - at = 0 /\ at \in Nat
        BY <1>4, <1>9, <2>2
      <4>2. r.from \in Nat /\ l \in Nat /\ r.count \in Nat /\ l < r.count /\ at = r.from + l
        BY <1>3, Zenon
      <4>3. FileLen = r.from + l
        BY <1>0, <4>1, <4>2
      <4>. QED  BY <1>8, <4>2, <4>3, Zenon
    <3>. QED  BY <3>1
  <2>. QED  BY <1>7, <2>1, <2>3 DEF Piece
<1>10. CASE n > 0
  <2>1. /\ Copied(t) = Piece(r.from, Len(r.buf) + ret[t]) /\ Len(Copied(t)) = Len(r.buf) + ret[t]
        /\ r.from + Len(r.buf) + ret[t] =< FileLen
    BY <1>1, <1>2, <1>10, CopiedOnce
  <2>2. Copied(t) = Piece(r.from, l + n) /\ r.from + l + n =< FileLen /\ (n =< 0 \/ l + n >= r.count)
    BY <1>1, <1>2, <2>1
  <2>3. n \in Nat
    BY <1>0, <1>4, <1>5
  <2>4. l + n = r.count
    BY <1>3, <1>5, <1>10, <2>2, <2>3
  <2>5. e = r.from + (l + n)
    BY <1>0, <1>3, <1>8, <2>2, <2>3, <2>4
  <2>. QED  BY <1>7, <2>2, <2>5 DEF Piece
<1>11. n =< 0 \/ n > 0
  BY <1>0, <1>4, <1>5
<1>. QED  BY <1>9, <1>10, <1>11

-------------------------------------------------------------------------------
(* The types of what the other invariants leave out.                            *)
GpioTyped ==
    /\ level \in [Pins -> {0, 1}] /\ features \subseteq Features
    /\ gpios \in [Threads -> SUBSET Pins]

ClockTyped ==
    /\ \A k \in Clocks : clock_table[k].owner \in Owners \cup {0}
    /\ clks \in [Threads -> SUBSET Clocks]

PicoTyped ==
    /\ socket_table \in [Numbers -> SUBSET SocketFds]
    /\ socket_user \in [PicoSocket -> Threads \cup {None}]
    /\ sent_from \in [PicoSocket -> Threads \cup {None}]
    /\ recv_buf \in [Threads -> PicoSocket \cup {<<>>}]
    /\ socks \in [Threads -> SUBSET SocketFds]

(* Levels are 0 or 1, and clients hold pins.                                    *)
LEMMA GpioTypedKept ==
  ASSUME RpcInv, Shapes, Messages, PinHolders, GpioTyped, [Next]_vars
  PROVE  GpioTyped'
<1>. USE Connections
<1>1. CASE UNCHANGED <<level, features, gpios>>
  BY <1>1 DEF GpioTyped, Pins
<1>2. CASE \E t \in Clients : GpioReturn(t)
  <2>1. PICK t \in Clients : GpioReturn(t)
    BY <1>2
  <2>2. UNCHANGED <<level, features>>
    BY <2>1 DEF GpioReturn
  <2>3. CASE UNCHANGED gpios
    BY <1>1, <2>2, <2>3
  <2>4. CASE ~UNCHANGED gpios
    <3>1. /\ msg[t] # NoCall /\ msg[t].op = "init_pin" /\ HasAnswer(t) /\ ret[t] = 0
          /\ gpios' = [gpios EXCEPT ![t] = gpios[t] \cup {msg[t].pin}]
      BY <2>1, <2>4 DEF GpioReturn, Return, HasAnswer
    <3>2. Told(t, "gpio", "init_pin")
      BY <3>1 DEF Told, Shapes
    <3>3. msg[t].pin \in Pins
      BY <3>1, <3>2 DEF PinHolders, PinOf
    <3>4. gpios' \in [Threads -> SUBSET Pins]
      BY <3>1, <3>3 DEF GpioTyped
    <3>. QED  BY <2>2, <3>4 DEF GpioTyped, Pins
  <2>. QED  BY <2>3, <2>4
<1>3. CASE GpioServer
  <2>. DEFINE c == Caller("gpiomux")
  <2>1. UNCHANGED gpios
    BY <1>3 DEF GpioServer, gpio_init_pin, gpio_set_level, gpio_read_level, mux_feature
  <2>2. level' \in [Pins -> {0, 1}]
    <3>1. CASE UNCHANGED level
      BY <3>1 DEF GpioTyped
    <3>2. CASE ~UNCHANGED level
      <4>1. msg[c].level \in {0, 1} /\ level' = [level EXCEPT ![msg[c].pin] = msg[c].level]
        BY <1>3, <3>2 DEF GpioServer, gpio_init_pin, gpio_set_level, gpio_read_level, mux_feature
      <4>. QED  BY <4>1 DEF GpioTyped
    <3>. QED  BY <3>1, <3>2
  <2>3. features' \subseteq Features
    <3>1. CASE UNCHANGED features
      BY <3>1 DEF GpioTyped
    <3>2. CASE ~UNCHANGED features
      <4>1. /\ Receives("mux", "feature")
            /\ features' \subseteq features \cup {msg[c].feature}
        BY <1>3, <3>2 DEF GpioServer, gpio_init_pin, gpio_set_level, gpio_read_level, mux_feature
      <4>2. c \in Clients /\ msg[c].iface = "mux" /\ msg[c] # NoCall
        BY <4>1, ReceivedInterface, CallsDiffer
      <4>3. msg[c].feature \in Features
        BY <4>2 DEF Messages, WellFormed
      <4>. QED  BY <4>1, <4>3 DEF GpioTyped
    <3>. QED  BY <3>1, <3>2
  <2>. QED  BY <2>1, <2>2, <2>3 DEF GpioTyped, Pins
<1>4. CASE ~GpioServer /\ ~(\E t \in Clients : GpioReturn(t))
  <2>1. UNCHANGED <<level, features, gpios>>
    BY <1>4 DEF vars, Next, ClientStep, ServerStep, GpioThread, ClockThread, ResetThread, BpmpThread, FileThread,
                PicoThread, gpioVars
  <2>. QED  BY <1>1, <2>1
<1>. QED  BY <1>2, <1>3, <1>4

(* Owners are numbers of clients, and clients hold clocks.                      *)
LEMMA ClockTypedKept ==
  ASSUME RpcInv, ClocksInv, Shapes, ClockHolders, ClockTyped, [Next]_vars
  PROVE  ClockTyped'
<1>. USE Connections
<1>1. CASE UNCHANGED <<clock_table, clks>>
  BY <1>1 DEF ClockTyped, Clocks, Owners
<1>2. CASE \E t \in Clients : ClockReturn(t)
  <2>1. PICK t \in Clients : ClockReturn(t)
    BY <1>2
  <2>2. UNCHANGED clock_table
    BY <2>1 DEF ClockReturn
  <2>3. CASE UNCHANGED clks
    BY <1>1, <2>2, <2>3
  <2>4. CASE ~UNCHANGED clks
    <3>1. /\ msg[t] # NoCall /\ msg[t].op = "init_clock" /\ HasAnswer(t) /\ ret[t] = 0
          /\ clks' = [clks EXCEPT ![t] = clks[t] \cup {msg[t].id}]
      BY <2>1, <2>4 DEF ClockReturn, Return, HasAnswer
    <3>2. Told(t, "clock", "init_clock")
      BY <3>1 DEF Told, Shapes
    <3>3. msg[t].id \in Clocks
      BY <3>1, <3>2 DEF ClockHolders, ClockOf
    <3>4. clks' \in [Threads -> SUBSET Clocks]
      BY <3>1, <3>3 DEF ClockTyped
    <3>. QED  BY <2>2, <3>4 DEF ClockTyped, Clocks, Owners
  <2>. QED  BY <2>3, <2>4
<1>3. CASE clock_init_clock
  <2>1. CASE UNCHANGED clock_table
    BY <1>1, <1>3, <2>1 DEF clock_init_clock, Handled
  <2>2. CASE ~UNCHANGED clock_table
    <3>. DEFINE k == msg[Caller("clock")].id
    <3>1. PICK o : o = get_sender_id("clock") /\ clock_table' = [clock_table EXCEPT ![k] = [initialised |-> TRUE, owner |-> o]]
      BY <1>3, <2>2 DEF clock_init_clock
    <3>2. o \in Owners
      BY <1>3, <3>1, SenderIsCaller, ServersAssumption DEF clock_init_clock, Owners
    <3>. HIDE DEF k
    <3>3. \A x \in Clocks : clock_table'[x] = clock_table[x] \/ clock_table'[x] = [initialised |-> TRUE, owner |-> o]
      BY <3>1 DEF ClocksInv
    <3>4. \A x \in Clocks : clock_table'[x].owner \in Owners \cup {0}
      BY <3>2, <3>3 DEF ClockTyped
    <3>5. UNCHANGED clks
      BY <1>3 DEF clock_init_clock, Handled
    <3>. QED  BY <3>4, <3>5 DEF ClockTyped, Clocks, Owners
  <2>. QED  BY <2>1, <2>2
<1>4. CASE ~clock_init_clock /\ ~(\E t \in Clients : ClockReturn(t))
  <2>1. CASE \E t \in Clients : ClientStep(t)
    BY <1>1, <1>4, <2>1 DEF ClientStep, clockVars
  <2>2. CASE ServerStep
    <3>1. UNCHANGED <<clock_table, clks>>
      BY <1>4, <2>2 DEF ServerStep, GpioThread, ClockThread, ResetThread, BpmpThread, FileThread, PicoThread,
                        ClockServerNext, ResetServerNext, clock_freq_call, clock_register_child, PassedOn, Driver,
                        the_bpmp_call, clockVars, Handled
    <3>. QED  BY <1>1, <3>1
  <2>3. CASE UNCHANGED vars
    BY <1>1, <2>3 DEF vars, clockVars
  <2>. QED  BY <2>1, <2>2, <2>3 DEF Next
<1>. QED  BY <1>2, <1>3, <1>4

(* A call of the PicoServer reaches sockets of numbers of clients only.         *)
LEMMA PicoTypedServer ==
  ASSUME RpcInv, PicoTyped, PicoServerNext
  PROVE  PicoTyped'
<1>. USE Connections
<1>0. UNCHANGED socks
  BY DEF PicoServerNext, pico_open, pico_close, pico_pass_on, pico_control_shutdown, PassesOn, pico_get_ipv4,
         pico_send, pico_recv, Transfer, picoVars
<1>1. ASSUME socket_table' \in [Numbers -> SUBSET SocketFds],
             socket_user' \in [PicoSocket -> Threads \cup {None}],
             sent_from' \in [PicoSocket -> Threads \cup {None}],
             recv_buf' \in [Threads -> PicoSocket \cup {<<>>}]
      PROVE  PicoTyped'
  BY <1>0, <1>1 DEF PicoTyped, PicoSocket, Numbers
<1>2. ASSUME NEW i \in PicoInterfaces, NEW op, Receives(i, op) PROVE Caller("pico") \in Threads
  BY <1>2, ReceivedInterface DEF PicoInterfaces
<1>3. CASE UNCHANGED <<socket_table, socket_user, sent_from, recv_buf>>
  BY <1>1, <1>3 DEF PicoTyped
<1>4. CASE pico_open
  <2>1. PICK n \in Numbers : n = client_check
    BY <1>4 DEF pico_open
  <2>2. UNCHANGED recv_buf /\ Caller("pico") \in Threads
    BY <1>2, <1>4 DEF pico_open, PicoInterfaces
  <2>3. CASE UNCHANGED <<socket_table, socket_user, sent_from>>
    BY <1>3, <2>2, <2>3
  <2>4. ASSUME NEW fd \in SocketFds \ socket_table[n],
               socket_table' = [socket_table EXCEPT ![n] = socket_table[n] \cup {fd}],
               socket_user' = [socket_user EXCEPT ![<<n, fd>>] = Caller("pico")],
               sent_from' = [sent_from EXCEPT ![<<n, fd>>] = None]
        PROVE  PicoTyped'
    <3>1. socket_table' \in [Numbers -> SUBSET SocketFds]
      BY <2>4 DEF PicoTyped
    <3>2. socket_user' \in [PicoSocket -> Threads \cup {None}] /\ sent_from' \in [PicoSocket -> Threads \cup {None}]
      BY <2>2, <2>4 DEF PicoTyped
    <3>. QED  BY <1>1, <2>2, <3>1, <3>2 DEF PicoTyped
  <2>. QED  BY <1>4, <2>1, <2>3, <2>4, Zenon DEF pico_open
<1>5. CASE pico_close
  <2>1. PICK n \in Numbers : n = client_check
    BY <1>5 DEF pico_close
  <2>2. PICK fd : fd = msg[Caller("pico")].fd
    OBVIOUS
  <2>3. \/ UNCHANGED <<socket_table, socket_user, sent_from, recv_buf>>
        \/ /\ socket_table' = [socket_table EXCEPT ![n] = socket_table[n] \ {fd}]
           /\ socket_user' = [socket_user EXCEPT ![<<n, fd>>] = None]
           /\ sent_from' = [sent_from EXCEPT ![<<n, fd>>] = None]
           /\ UNCHANGED recv_buf
    BY <1>5, <2>1, <2>2 DEF pico_close
  <2>4. CASE /\ socket_table' = [socket_table EXCEPT ![n] = socket_table[n] \ {fd}]
             /\ socket_user' = [socket_user EXCEPT ![<<n, fd>>] = None]
             /\ sent_from' = [sent_from EXCEPT ![<<n, fd>>] = None]
             /\ UNCHANGED recv_buf
    BY <1>1, <2>4 DEF PicoTyped
  <2>. QED  BY <1>3, <2>3, <2>4
<1>6. ASSUME NEW op, PassesOn(op) PROVE PicoTyped'
  <2>1. PICK c \in Threads : c = Caller("pico")
    BY <1>2, <1>6 DEF PassesOn, PicoInterfaces
  <2>2. PICK s : socket_user' = [socket_user EXCEPT ![s] = c] \/ UNCHANGED socket_user
    BY <1>6, <2>1 DEF PassesOn
  <2>3. UNCHANGED <<socket_table, sent_from, recv_buf>>
    BY <1>6 DEF PassesOn
  <2>. QED  BY <1>1, <2>2, <2>3 DEF PicoTyped
<1>7. ASSUME NEW i \in PicoInterfaces, Transfer(i) PROVE PicoTyped'
  <2>1. PICK c \in Threads : c = Caller("pico")
    BY <1>2, <1>7 DEF Transfer
  <2>2. PICK n \in Numbers : n = client_check
    BY <1>7 DEF Transfer
  <2>3. PICK b \in Threads : b = transfer_buf(i, n)
    BY BufferOfNumber
  <2>4. PICK fd : fd = msg[c].fd
    OBVIOUS
  <2>5. CASE UNCHANGED <<socket_user, sent_from, recv_buf>>
    BY <1>3, <1>7, <2>5 DEF Transfer
  <2>6. CASE ~UNCHANGED <<socket_user, sent_from, recv_buf>>
    <3>1. /\ fd \in socket_table[n] /\ UNCHANGED socket_table
          /\ socket_user' = [socket_user EXCEPT ![<<n, fd>>] = c]
          /\ UNCHANGED sent_from \/ sent_from' = [sent_from EXCEPT ![<<n, fd>>] = b]
          /\ UNCHANGED recv_buf \/ recv_buf' = [u \in Threads |-> IF u = b THEN <<n, fd>> ELSE recv_buf[u]]
      BY <1>7, <2>1, <2>2, <2>3, <2>4, <2>6 DEF Transfer, server_communication_common
    <3>2. <<n, fd>> \in PicoSocket
      BY <3>1 DEF PicoTyped, PicoSocket
    <3>3. /\ socket_user' \in [PicoSocket -> Threads \cup {None}]
          /\ sent_from' \in [PicoSocket -> Threads \cup {None}]
      <4>1. socket_user' \in [PicoSocket -> Threads \cup {None}]
        BY <3>1 DEF PicoTyped
      <4>2. sent_from' \in [PicoSocket -> Threads \cup {None}]
        BY <3>1 DEF PicoTyped
      <4>. QED  BY <4>1, <4>2
    <3>4. recv_buf' \in [Threads -> PicoSocket \cup {<<>>}]
      BY <3>1, <3>2 DEF PicoTyped
    <3>. QED  BY <1>1, <3>1, <3>3, <3>4 DEF PicoTyped
  <2>. QED  BY <2>5, <2>6
<1>8. CASE pico_get_ipv4
  BY <1>3, <1>8 DEF pico_get_ipv4, picoVars
<1>. QED  BY <1>4, <1>5, <1>6, <1>7, <1>8
          DEF PicoServerNext, pico_pass_on, pico_control_shutdown, pico_send, pico_recv, PicoInterfaces

(* The PicoServer's tables and what clients hold of them.                       *)
LEMMA PicoTypedKept ==
  ASSUME RpcInv, Shapes, SocketHolders, PicoTyped, [Next]_vars
  PROVE  PicoTyped'
<1>. USE Connections
<1>1. ASSUME UNCHANGED <<socket_table, socket_user, sent_from, recv_buf>>,
             socks' \in [Threads -> SUBSET SocketFds]
      PROVE  PicoTyped'
  BY <1>1 DEF PicoTyped, PicoSocket, Numbers
<1>2. CASE UNCHANGED picoVars
  BY <1>1, <1>2 DEF PicoTyped, picoVars
<1>3. CASE \E t \in Clients : PicoCall(t) \/ PicoReturn(t)
  <2>1. PICK t \in Clients : PicoCall(t) \/ PicoReturn(t)
    BY <1>3
  <2>2. UNCHANGED <<socket_table, socket_user, sent_from, recv_buf>>
    BY <2>1 DEF PicoCall, PicoReturn
  <2>3. CASE PicoCall(t)
    <3>1. UNCHANGED socks \/ \E x : socks' = [socks EXCEPT ![t] = socks[t] \ {x}]
      BY <2>3 DEF PicoCall
    <3>. QED  BY <1>1, <2>2, <3>1 DEF PicoTyped
  <2>4. CASE PicoReturn(t) /\ ~UNCHANGED socks
    <3>1. /\ Told(t, "pico_control", "open") /\ ret[t] # -1
          /\ socks' = [socks EXCEPT ![t] = socks[t] \cup {ret[t]}]
      BY <2>4 DEF PicoReturn, Return, Told, HasAnswer, Shapes
    <3>2. ret[t] \in socket_table[NumberOf(t)]
      BY <3>1 DEF SocketHolders
    <3>3. NumberOf(t) \in Numbers
      <4>1. "pico_control" \in Interfaces /\ t \in CallersOf("pico_control")
        OBVIOUS
      <4>2. PlaceOf("pico_control", t) \in Places("pico_control")
        BY <4>1, CallerPlace
      <4>3. Len(from_ends["pico_control"]) \in Nat
        BY <4>1, ConnectionsAssumption
      <4>. QED  BY <4>2, <4>3 DEF NumberOf, Numbers, Places
    <3>4. ret[t] \in SocketFds
      BY <3>2, <3>3 DEF PicoTyped
    <3>. QED  BY <1>1, <2>2, <3>1, <3>4 DEF PicoTyped
  <2>5. CASE PicoReturn(t) /\ UNCHANGED socks
    BY <1>1, <2>2, <2>5 DEF PicoTyped
  <2>. QED  BY <2>1, <2>3, <2>4, <2>5
<1>4. CASE PicoServerNext
  BY <1>4, PicoTypedServer
<1>5. CASE ~PicoServerNext /\ ~(\E t \in Clients : PicoCall(t) \/ PicoReturn(t))
  <2>1. UNCHANGED picoVars
    BY <1>5 DEF vars, Next, ClientStep, ServerStep, GpioThread, ClockThread, ResetThread, BpmpThread, FileThread,
                PicoThread
  <2>. QED  BY <1>2, <2>1
<1>. QED  BY <1>3, <1>4, <1>5

-------------------------------------------------------------------------------
(* All of it together.                                                          *)
ServersInv ==
    /\ HoldersInv /\ Messages /\ BpmpInv
    /\ FilesTyped /\ ReadsInv
    /\ GpioTyped /\ ClockTyped /\ PicoTyped

(* At the start there is no call, no read() and nothing granted.                *)
LEMMA InitialServers ==
  ASSUME Init
  PROVE  ServersInv
<1>. USE Connections
<1>1. HoldersInv
  BY InitialHolders
<1>2. \A t \in Threads : msg[t] = NoCall /\ ret[t] = None /\ reading[t] = None /\ fds[t] = {} /\ ext_buf[t] = <<>>
  BY DEF Init, RpcInit, FileInit
<1>3. Messages
  BY <1>2 DEF Messages
<1>4. BpmpInv
  <2>1. \A s \in BpmpClients : reply_cap[s] = None
    BY DEF Init, RpcInit, BpmpClients
  <2>2. 0 \in Freqs \cup {0} /\ DOMAIN shared_mem = BpmpClients /\ gate \in BOOLEAN /\ reset_line \in BOOLEAN
    BY DEF Init, ClockInit
  <2>3. clock_freq \in [Clocks -> Freqs \cup {0}]
    BY DEF Init, ClockInit
  <2>. QED  BY <2>1, <2>2, <2>3 DEF BpmpInv
<1>5. FilesTyped
  <2>1. 0 \in 0..FileLen /\ 0 =< BufSize
    BY FilesAssumption
  <2>2. fd_table = [f \in Fds |-> fd_table[f]] /\ \A f \in Fds : fd_table[f].offset = 0
    BY DEF Init, FileInit, Closed
  <2>3. DOMAIN ext_buf = Threads /\ fds = [t \in Threads |-> {}]
    BY DEF Init, FileInit
  <2>4. <<>> \in Seq(1..FileLen) /\ Len(<<>>) = 0
    OBVIOUS
  <2>. QED  BY <1>2, <2>1, <2>2, <2>3, <2>4 DEF FilesTyped
<1>6. ReadsInv
  <2>1. DOMAIN reading = Threads
    BY DEF Init, FileInit
  <2>. QED  BY <1>2, <2>1 DEF ReadsInv
<1>7. GpioTyped
  BY DEF Init, GpioInit, GpioTyped
<1>8. ClockTyped
  BY DEF Init, ClockInit, ClockTyped
<1>9. PicoTyped
  BY DEF Init, PicoInit, PicoTyped
<1>. QED  BY <1>1, <1>3, <1>4, <1>5, <1>6, <1>7, <1>8, <1>9 DEF ServersInv

(* Every step keeps it.                                                         *)
LEMMA ServersStep ==
  ASSUME ServersInv, [Next]_vars
  PROVE  ServersInv'
<1>0. RpcInv /\ PinsInv /\ ClocksInv /\ FdsInv /\ Shapes /\ PinHolders /\ ClockHolders /\ FdHolders /\ SocketHolders
  BY DEF ServersInv, HoldersInv, TablesInv
<1>1. Messages /\ BpmpInv /\ FilesTyped /\ ReadsInv /\ GpioTyped /\ ClockTyped /\ PicoTyped /\ HoldersInv
  BY DEF ServersInv
<1>2. HoldersInv'
  BY <1>1, HoldersStep
<1>3. Messages'
  <2>1. ASSUME NEW t \in Clients, ReadMore(t) PROVE Remain(t) \in Nat \ {0}
    <3>1. DOMAIN reading = Threads /\ Reading(t, reading[t])
      BY <1>1, <2>1 DEF ReadsInv, ReadMore
    <3>. QED  BY <1>0, <1>1, <2>1, <3>1, ReadGoesOn
  <2>. QED  BY <1>0, <1>1, <2>1, MessagesKept
<1>4. BpmpInv'
  BY <1>0, <1>1, BpmpKept
<1>5. FilesTyped' /\ ReadsInv'
  <2>1. CASE \E t \in Clients : ClientStep(t)
    BY <1>0, <1>1, <2>1, FilesTypedClient, ReadsClient
  <2>2. CASE ServerStep
    BY <1>0, <1>1, <2>2, FilesTypedServer, ReadsServer
  <2>3. CASE UNCHANGED vars
    <3>1. UNCHANGED <<rpc, fileVars>>
      BY <2>3 DEF vars
    <3>2. FilesTyped'
      BY <1>1, <3>1 DEF FilesTyped, fileVars
    <3>3. ASSUME NEW t \in Clients, NEW r, reading'[t] = r, r # None PROVE Reading(t, r)'
      <4>1. Reading(t, r) /\ UNCHANGED <<msg, ret, endpoint, ext_buf, fds, fd_table>>
        BY <1>1, <3>1, <3>3 DEF ReadsInv, rpc, fileVars
      <4>. QED  BY <4>1, ReadingSame
    <3>4. DOMAIN reading' = Threads
      BY <1>1, <3>1 DEF ReadsInv, fileVars
    <3>. QED  BY <3>2, <3>3, <3>4 DEF ReadsInv, Clients, Places
  <2>. QED  BY <2>1, <2>2, <2>3 DEF Next
<1>6. GpioTyped' /\ ClockTyped' /\ PicoTyped'
  BY <1>0, <1>1, GpioTypedKept, ClockTypedKept, PicoTypedKept
<1>. QED  BY <1>2, <1>3, <1>4, <1>5, <1>6 DEF ServersInv

(* The inductive invariant gives every variable its type.                       *)
LEMMA TypesMatch ==
  ASSUME ServersInv
  PROVE  TypeOK
<1>0. RpcInv /\ PinsInv /\ ClocksInv /\ FdsInv /\ FdHolders /\ BpmpInv
      /\ FilesTyped /\ GpioTyped /\ ClockTyped /\ PicoTyped
  BY DEF ServersInv, HoldersInv, TablesInv
<1>1. GpioTypeOK
  <2>1. gpio_table \in [Pins -> [initialised : BOOLEAN, owner : -1..(Len(from_ends["gpio"]) - 1)]]
    <3>1. Len(from_ends["gpio"]) \in Nat
      BY Connections, ConnectionsAssumption
    <3>2. ASSUME NEW p \in Pins
          PROVE  gpio_table[p] \in [initialised : BOOLEAN, owner : -1..(Len(from_ends["gpio"]) - 1)]
      <4>1. gpio_table[p] \in [initialised : BOOLEAN, owner : Int]
        BY <1>0 DEF PinsInv
      <4>2. gpio_table[p].owner \in -1..(Len(from_ends["gpio"]) - 1)
        BY <1>0, <3>1, <4>1 DEF PinsInv
      <4>. QED  BY <4>1, <4>2
    <3>3. gpio_table \in [Pins -> [initialised : BOOLEAN, owner : Int]]
      BY <1>0 DEF PinsInv
    <3>. QED  BY <3>2, <3>3
  <2>. QED  BY <1>0, <2>1 DEF GpioTypeOK, GpioTyped, PinsInv
<1>2. ClockTypeOK
  <2>1. clock_table \in [Clocks -> [initialised : BOOLEAN, owner : Owners \cup {0}]]
    <3>1. clock_table \in [Clocks -> [initialised : BOOLEAN, owner : Int]]
      BY <1>0 DEF ClocksInv
    <3>2. \A k \in Clocks : clock_table[k].owner \in Owners \cup {0}
      BY <1>0 DEF ClockTyped
    <3>. QED  BY <3>1, <3>2
  <2>. QED  BY <1>0, <2>1 DEF ClockTypeOK, ClockTyped, ClocksInv, BpmpInv
<1>3. FileTypeOK
  <2>1. fd_table \in [Fds -> [client : Badges("fs") \cup {0}, offset : 0..FileLen]]
    <3>1. ASSUME NEW f \in Fds PROVE fd_table[f] \in [client : Badges("fs") \cup {0}, offset : 0..FileLen]
      <4>1. PICK c, o : c = fd_table[f].client /\ o = fd_table[f].offset
        OBVIOUS
      <4>2. fd_table[f] = [client |-> c, offset |-> o] /\ o \in 0..FileLen
        BY <1>0, <4>1 DEF FdsInv, FilesTyped
      <4>3. c \in Badges("fs") \cup {0}
        BY <1>0, <4>1 DEF FdsInv, Closed
      <4>. QED  BY <4>2, <4>3
    <3>2. fd_table = [f \in Fds |-> fd_table[f]]
      BY <1>0 DEF FilesTyped
    <3>. QED  BY <3>1, <3>2
  <2>. QED  BY <1>0, <2>1 DEF FileTypeOK, FilesTyped, FdsInv
<1>4. PicoTypeOK
  BY <1>0 DEF PicoTypeOK, PicoTyped
<1>. QED  BY <1>1, <1>2, <1>3, <1>4 DEF TypeOK

(* The clients, the servers and their tables keep within their types, whatever  *)
(* the clients pass: pins, clocks, fds and sockets are the tables' own.         *)
THEOREM ServersTyped == Spec => []TypeOK
BY InitialServers, ServersStep, TypesMatch, PTL DEF Spec

(* A component that has called the BPMPServer finds, in the memory that the two *)
(* share, the response to what its own caller asked for, and the hardware is as *)
(* that caller asked.                                                           *)
THEOREM ResponseKept == Spec => []OwnResponse
<1>1. ServersInv => OwnResponse
  BY BpmpMatch DEF ServersInv, HoldersInv
<1>. QED  BY InitialServers, ServersStep, <1>1, PTL DEF Spec

(* A read() of a file the client has open returns its bytes from where it       *)
(* stood, however many calls it takes and whoever else calls in between.        *)
THEOREM ReadsKept == Spec => []ReadsWhole
<1>1. ServersInv => ReadsWhole
  BY ReadsMatch DEF ServersInv, HoldersInv
<1>. QED  BY InitialServers, ServersStep, <1>1, PTL DEF Spec
===============================================================================
