------------------------------- MODULE Servers -------------------------------
(* The servers that share hardware and files between client components, and     *)
(* their clients. A client has one thread and makes one call at a time; what    *)
(* keeps the clients apart is the servers' bookkeeping, by sender ids.          *)
EXTENDS GPIOMuxServer, ClockServer, FileServer, PicoCalls

CONSTANT Scopes     \* bound: which interfaces the clients use, each its own

Clients == {from_ends[i][k] : i \in {"gpio"}, k \in Places("gpio")}

(* Every client is connected to every server, except to the BPMPServer. The     *)
(* implementations of five interfaces ask who calls.                            *)
ASSUME ServersAssumption ==
    /\ Interfaces = {"gpio", "mux", "clock", "reset", "fs", "bpmp"} \cup PicoInterfaces
    /\ ServerOf = [i \in Interfaces |-> CASE i \in {"gpio", "mux"} -> "gpiomux"
                                          [] i \in PicoInterfaces -> "pico"
                                          [] OTHER -> i]
    /\ \A i \in Interfaces \ {"bpmp"} :
          Clients = {from_ends[i][k] : k \in Places(i)}
    /\ Threads = Clients \cup BpmpClients /\ Clients \cap BpmpClients = {}
    /\ Asking = {"gpio", "clock", "fs", "bpmp", "pico_control"}

VARIABLE scope

vars == <<rpc, gpioVars, clockVars, fileVars, picoVars, scope>>

Init ==
    /\ RpcInit /\ GpioInit /\ ClockInit /\ FileInit /\ PicoInit
    /\ scope \in Scopes

ClientStep(t) ==
    \/ /\ \E m \in GpioCalls(t) \cup ClockCalls(t) \cup ResetCalls(t) : m.iface \in scope[t] /\ Call(t, m)
       /\ UNCHANGED <<gpioVars, clockVars, fileVars, picoVars>>
    \/ GpioReturn(t) /\ UNCHANGED <<clockVars, fileVars, picoVars>>
    \/ ClockReturn(t) /\ UNCHANGED <<gpioVars, fileVars, picoVars>>
    \/ "fs" \in scope[t] /\ FileClient(t) /\ UNCHANGED <<gpioVars, clockVars, picoVars>>
    \/ "pico_control" \in scope[t] /\ PicoCall(t) /\ UNCHANGED <<gpioVars, clockVars, fileVars>>
    \/ PicoReturn(t) /\ UNCHANGED <<gpioVars, clockVars, fileVars>>

(* The servers' threads.                                                        *)
GpioThread == GpioServer /\ UNCHANGED <<clockVars, fileVars, picoVars>>
ClockThread == (ClockServerNext \/ Driver("clock")) /\ UNCHANGED <<gpioVars, fileVars, picoVars>>
ResetThread == (ResetServerNext \/ Driver("reset")) /\ UNCHANGED <<gpioVars, fileVars, picoVars>>
BpmpThread == the_bpmp_call /\ UNCHANGED <<gpioVars, fileVars, picoVars>>
FileThread == FileServerNext /\ UNCHANGED <<gpioVars, clockVars, picoVars>>
PicoThread == PicoServerNext /\ UNCHANGED <<gpioVars, clockVars, fileVars>>

ServerStep == GpioThread \/ ClockThread \/ ResetThread \/ BpmpThread \/ FileThread \/ PicoThread

Next ==
    /\ \/ \E t \in Clients : ClientStep(t)
       \/ ServerStep
    /\ UNCHANGED scope

Spec == Init /\ [][Next]_vars

(* The servers' threads run. Each takes the oldest call first, so weak fairness *)
(* of each is enough.                                                           *)
Runs(step) == step /\ UNCHANGED scope
FairSpec ==
    /\ Spec
    /\ WF_vars(Runs(GpioThread))
    /\ WF_vars(Runs(ClockThread))
    /\ WF_vars(Runs(ResetThread))
    /\ WF_vars(Runs(BpmpThread))
    /\ WF_vars(Runs(FileThread))
    /\ WF_vars(Runs(PicoThread))

-------------------------------------------------------------------------------
TypeOK == GpioTypeOK /\ ClockTypeOK /\ FileTypeOK /\ PicoTypeOK

Client(i, id) == from_ends[i][id + 1]
ClientOf(badge) == CHOOSE t \in Clients : BadgeOf("fs", t) = badge

Resources == ({"pin"} \X Pins) \cup ({"clock"} \X Clocks) \cup ({"fd"} \X Fds)

OwnerOf(r) ==
    CASE r[1] = "pin" -> IF gpio_table[r[2]].initialised
                         THEN Client("gpio", gpio_table[r[2]].owner) ELSE None
      [] r[1] = "clock" -> IF clock_table[r[2]].initialised
                           THEN Client("clock", clock_table[r[2]].owner) ELSE None
      [] r[1] = "fd" -> IF fd_table[r[2]] # Closed
                        THEN ClientOf(fd_table[r[2]].client) ELSE None

UserOf(r) == CASE r[1] = "pin" -> pin_user[r[2]]
               [] r[1] = "clock" -> clock_user[r[2]]
               [] r[1] = "fd" -> fd_user[r[2]]

Owned == INSTANCE Ownership WITH
    Kept <- ({"pin"} \X Pins) \cup ({"clock"} \X Clocks),
    Nobody <- None,
    owner <- [r \in Resources |-> OwnerOf(r)],
    user <- [r \in Resources |-> UserOf(r)]

(* The servers implement the ownership of pins, clocks and open files: whatever *)
(* calls of other clients come in between, only the owner's reach the hardware. *)
Exclusive == Owned!Spec

(* What a client believes: it has been told that it holds the resource, or the  *)
(* answer that says so is on its way.                                           *)
Told(t, i, op) == HasAnswer(t) /\ msg[t].iface = i /\ msg[t].op = op
Holds(t) ==
    ({"pin"} \X (gpios[t] \cup IF Told(t, "gpio", "init_pin") /\ ret[t] = 0 THEN {msg[t].pin} ELSE {}))
    \cup ({"clock"} \X (clks[t] \cup IF Told(t, "clock", "init_clock") /\ ret[t] = 0 THEN {msg[t].id} ELSE {}))
    \cup ({"fd"} \X (fds[t] \cup IF Told(t, "fs", "open") /\ ret[t] # -1 THEN {ret[t]} ELSE {}))

HoldsSockets(t) ==
    socks[t] \cup IF Told(t, "pico_control", "open") /\ ret[t] # -1 THEN {ret[t]} ELSE {}

(* A client that holds a gpio_t, a clk_t or an fd is the owner of it in the     *)
(* server's table, and the server will do as it asks; the sockets it holds are  *)
(* in its own table.                                                            *)
HoldersOwn ==
    \A t \in Clients :
        /\ \A r \in Holds(t) : OwnerOf(r) = t
        /\ HoldsSockets(t) \subseteq socket_table[NumberOf(t)]

(* A component that has an answer from the BPMPServer finds, in the memory it   *)
(* shares with it, the response to the request of the client it is serving, and *)
(* the hardware is as that client asked.                                        *)
OwnResponse ==
    \A s \in BpmpClients : HasAnswer(s) /\ ret[s] = 0 =>
        LET m == msg[reply_cap[s]] IN
        /\ shared_mem[s].kind = "response"
        /\ CASE m.op = "get_freq" -> shared_mem[s].val = clock_freq[m.id]
             [] m.op = "set_freq" -> shared_mem[s].val = m.hz /\ clock_freq[m.id] = m.hz
             [] m.op = "gate"     -> gate = (m.mode = 1)
             [] m.op = "reset"    -> reset_line = (m.mode = 1)

(* A read() of an open file returns the file's bytes from where it stood, as    *)
(* many as were asked for or as there are, however many calls it takes and      *)
(* whatever other clients read meanwhile.                                       *)
ReadsWhole ==
    \A t \in Clients :
        EndsRead(t) /\ reading[t].fd \in fds[t] =>
            LET r == reading[t] IN
            Copied(t) = SubSeq(File, r.from + 1, Min({r.from + r.count, FileLen}))

(* A socket sends only from the buffer of the client that has it, and receives  *)
(* only into it, whoever is taken for the caller.                               *)
BuffersMatch ==
    /\ \A s \in PicoSocket : sent_from[s] # None => NumberOf(sent_from[s]) = s[1]
    /\ \A t \in Clients : recv_buf[t] # <<>> => recv_buf[t][1] = NumberOf(t)

(* server.c:53, of client_check, with which every transfer begins: "Gets the    *)
(* client's ID and checks that it is valid." A socket is reached by the calls   *)
(* of the client that has it.                                                   *)
CallersOwnSockets ==
    \A s \in PicoSocket : socket_user[s] # None => NumberOf(socket_user[s]) = s[1]

(* Every call is answered, those that end up in a call of another component and *)
(* those that are refused included.                                             *)
Answered == \A t \in Clients : msg[t] # NoCall ~> HasAnswer(t)
===============================================================================
