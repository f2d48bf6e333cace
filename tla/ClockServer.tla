----------------------------- MODULE ClockServer -----------------------------
(* components/ClockServer (clock_server.c and libClockServer-client) and        *)
(* components/ResetServer (reset.c and libResetServer-client) as they run on    *)
(* the TX2: their drivers reach the hardware by calls to                        *)
(* plat_components/tx2/BPMPServer (server.c, libBPMPServer-client), a component *)
(* of the same kind. A request and its response share the memory of one         *)
(* connection (templates/seL4MultiSharedData-to.template.c).                    *)
(* Outside the repository: the drivers, which make one request for a call.      *)
EXTENDS SingleThreaded

CONSTANTS
    NCLOCKS,
    Freqs       \* frequencies a client asks for

Clocks == 0..(NCLOCKS - 1)
ClockIds == Clocks \cup BadIds   \* what a client passes
BpmpClients == {"clock", "reset"}

ASSUME ClocksAssumption == NCLOCKS \in Nat \ {0} /\ Freqs \subseteq Nat \ {0} /\ BadIds \cap Clocks = {}
ASSUME BpmpAssumption == BpmpClients = {from_ends["bpmp"][k] : k \in Places("bpmp")}

VARIABLES
    clock_table,    \* per clock: the owner's number, and whether initialised
    clock_freq,     \* hardware, per clock
    gate,           \* hardware: the one clock gate is open
    reset_line,     \* hardware: the one reset line is asserted
    shared_mem,     \* per client of the BPMPServer: a request, or its response
    clock_user,     \* history, per clock: the thread whose call reached it last
    clks            \* per thread: the clocks it holds a clk_t of

clockVars == <<clock_table, clock_freq, gate, reset_line, shared_mem, clock_user, clks>>
hardware == <<clock_freq, gate, reset_line, shared_mem>>

Request(what, id, val) == [kind |-> "request", what |-> what, id |-> id, val |-> val]
Response(val) == [kind |-> "response", what |-> "", id |-> 0, val |-> val]
Zeroed == [kind |-> "zeroed", what |-> "", id |-> 0, val |-> 0]

ClockInit ==
    /\ clock_table = [k \in Clocks |-> [initialised |-> FALSE, owner |-> 0]]
    /\ clock_freq = [k \in Clocks |-> 0]
    /\ gate = FALSE /\ reset_line = FALSE
    /\ shared_mem = [t \in BpmpClients |-> Zeroed]
    /\ clock_user = [k \in Clocks |-> None]
    /\ clks = [t \in Threads |-> {}]

Owners == 0..(Len(from_ends["clock"]) - 1)

ClockTypeOK ==
    /\ clock_table \in [Clocks -> [initialised : BOOLEAN, owner : Owners \cup {0}]]
    /\ clock_freq \in [Clocks -> Freqs \cup {0}]
    /\ gate \in BOOLEAN /\ reset_line \in BOOLEAN
    /\ clock_user \in [Clocks -> Threads \cup {None}]
    /\ clks \in [Threads -> SUBSET Clocks]

-------------------------------------------------------------------------------
(* bpmpserver_call_wrapper, up to the call, in the thread of server s. A        *)
(* request is smaller than the shared memory, which is zeroed for it.           *)
bpmp_call(s, req) ==
    /\ shared_mem' = [shared_mem EXCEPT ![s] = req]
    /\ CallsOut(s, [iface |-> "bpmp", op |-> "call"])

\* Mutant: the memory is looked up by the client's number, not its badge.
client_buf_by_id == buf("bpmp", get_sender_id("bpmp"))
client_buf == buf("bpmp", enumerate_badge("bpmp", get_sender_id("bpmp")))

(* tx2_bpmp_call: what the request does, and what is answered.                  *)
Performed(req) ==
    /\ clock_freq' = IF req.what = "set_freq" THEN [clock_freq EXCEPT ![req.id] = req.val]
                                              ELSE clock_freq
    /\ gate' = IF req.what = "gate" THEN req.val = 1 ELSE gate
    /\ reset_line' = IF req.what = "reset" THEN req.val = 1 ELSE reset_line
Responded(req) == CASE req.what = "get_freq" -> clock_freq[req.id]
                    [] req.what = "set_freq" -> req.val
                    [] OTHER -> 0

(* the_bpmp_call. The response takes the request's place; a failed call leaves  *)
(* the request there.                                                           *)
the_bpmp_call ==
    /\ Receives("bpmp", "call") /\ handle_message("bpmp")
    /\ client_buf \in BpmpClients       \* assert(client_buf)
    /\ LET req == shared_mem[client_buf] IN
       \/ /\ Performed(req)
          /\ shared_mem' = [shared_mem EXCEPT ![client_buf] = Response(Responded(req))]
          /\ ReplyRecv("bpmp", 0)
       \/ ReplyRecv("bpmp", -1) /\ UNCHANGED hardware
    /\ UNCHANGED <<clock_table, clock_user, clks>>

-------------------------------------------------------------------------------
(* clock_server.c.                                                              *)
check_is_owner(k, client) == clock_table[k].owner = client

(* The checks of the_clock_get_freq and the_clock_set_freq.                     *)
MayUse(k, client) ==
    k \in Clocks /\ clock_table[k].initialised /\ check_is_owner(k, client)

(* A handler that makes no call of its own.                                     *)
Handled == UNCHANGED <<hardware, clks>>

clock_init_clock ==
    /\ Receives("clock", "init_clock") /\ handle_message("clock")
    /\ LET t == Caller("clock")
           k == msg[t].id
           client == get_sender_id("clock")
       IN  IF k \notin Clocks
           THEN ReplyRecv("clock", -1) /\ UNCHANGED <<clock_table, clock_user>>
           ELSE IF clock_table[k].initialised
           THEN /\ ReplyRecv("clock", IF check_is_owner(k, client) THEN 0 ELSE -1)
                /\ UNCHANGED <<clock_table, clock_user>>
           ELSE \/ ReplyRecv("clock", -1) /\ UNCHANGED <<clock_table, clock_user>>
                \/ /\ clock_table' = [clock_table EXCEPT ![k] =
                                          [initialised |-> TRUE, owner |-> client]]
                   /\ clock_user' = [clock_user EXCEPT ![k] = t]
                   /\ ReplyRecv("clock", 0)
    /\ Handled

(* the_clock_get_freq, the_clock_set_freq: 0 is the answer to who may not.      *)
clock_freq_call(op) ==
    /\ Receives("clock", op) /\ handle_message("clock")
    /\ LET t == Caller("clock")
           k == msg[t].id
       IN  IF MayUse(k, get_sender_id("clock"))
           THEN /\ bpmp_call("clock", Request(op, k, IF op = "set_freq" THEN msg[t].hz ELSE 0))
                /\ clock_user' = [clock_user EXCEPT ![k] = t]
                /\ UNCHANGED <<clock_freq, gate, reset_line, clks>>
           ELSE ReplyRecv("clock", 0) /\ UNCHANGED clock_user /\ Handled
    /\ UNCHANGED clock_table

(* the_clock_register_child: both clocks are the caller's.                      *)
clock_register_child ==
    /\ Receives("clock", "register_child") /\ handle_message("clock")
    /\ LET t == Caller("clock")
           client == get_sender_id("clock")
           both == {msg[t].parent, msg[t].child}
       IN  IF \A k \in both : MayUse(k, client)
           THEN /\ ReplyRecv("clock", 0)
                /\ clock_user' = [k \in Clocks |-> IF k \in both THEN t ELSE clock_user[k]]
           ELSE ReplyRecv("clock", -1) /\ UNCHANGED clock_user
    /\ UNCHANGED clock_table /\ Handled

(* the_clock_set_gate_mode, the_reset_assert_reset, the_reset_deassert_reset:   *)
(* whoever calls.                                                               *)
PassedOn(s, op) ==
    /\ Receives(s, op) /\ handle_message(s)
    /\ bpmp_call(s, Request(op, 0, msg[Caller(s)].mode))
    /\ UNCHANGED <<clock_table, clock_user, clock_freq, gate, reset_line, clks>>

(* The driver's result, once the BPMPServer has answered: the response that     *)
(* bpmpserver_call_wrapper finds in the shared memory. (The next call zeroes    *)
(* it; nothing reads it before, and here it is zeroed at once.)                 *)
Result(s) == CASE ret[s] = 0 -> shared_mem[s].val
               [] msg[reply_cap[s]].op = "get_freq" \/ msg[reply_cap[s]].op = "set_freq" -> 0
               [] OTHER -> -1
Driver(s) ==
    /\ HasAnswer(s)
    /\ Answers(s, Result(s))
    /\ shared_mem' = [shared_mem EXCEPT ![s] = Zeroed]
    /\ UNCHANGED <<clock_table, clock_user, clock_freq, gate, reset_line, clks>>

ClockServerNext ==
    \/ clock_init_clock
    \/ clock_freq_call("get_freq")
    \/ clock_freq_call("set_freq")
    \/ clock_register_child
    \/ PassedOn("clock", "gate")

ResetServerNext == PassedOn("reset", "reset")

-------------------------------------------------------------------------------
(* The clients. clockserver_get_clock_wrapper may fail to allocate the clk_t    *)
(* when the server has granted the clock.                                       *)
ClockCalls(t) ==
    {[iface |-> "clock", op |-> "init_clock", id |-> k] : k \in ClockIds}
    \cup {[iface |-> "clock", op |-> "get_freq", id |-> k] : k \in ClockIds}
    \cup {[iface |-> "clock", op |-> "set_freq", id |-> k, hz |-> hz] : k \in ClockIds, hz \in Freqs}
    \cup {[iface |-> "clock", op |-> "register_child", parent |-> k, child |-> l] :
             k \in ClockIds, l \in Clocks}
    \cup {[iface |-> "clock", op |-> "gate", mode |-> 1]}

(* resetserver_assert_wrapper and resetserver_deassert_wrapper.                 *)
ResetCalls(t) == {[iface |-> "reset", op |-> "reset", mode |-> m] : m \in {0, 1}}

ClockReturn(t) ==
    /\ Return(t) /\ msg[t].iface \in {"clock", "reset"}
    /\ \/ clks' = IF msg[t].op = "init_clock" /\ ret[t] = 0
                  THEN [clks EXCEPT ![t] = @ \cup {msg[t].id}] ELSE clks
       \/ msg[t].op = "init_clock" /\ UNCHANGED clks
    /\ UNCHANGED <<clock_table, hardware, clock_user>>
===============================================================================
