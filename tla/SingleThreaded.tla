---------------------------- MODULE SingleThreaded ----------------------------
(* The calls of single-threaded components.                                     *)
(* templates/seL4SingleThreadedComponent.template.c, run, waits at one endpoint *)
(* for the calls of all interfaces of the component and tells them apart by     *)
(* their badges; templates/seL4RPCNoThreads-to.template.c, <interface>_handle_- *)
(* message, notes the badge for <interface>_get_sender_id and calls the         *)
(* implementation. The other half of run, notifications, is in EthAsync.        *)
(* A component may be a client of another: while it waits for its own call it   *)
(* holds its caller's reply capability and receives nothing.                    *)
EXTENDS Integers, SequencesExt

CONSTANTS
    Interfaces,     \* the provided RPC interfaces
    ServerOf,       \* interface -> the component that provides it
    Threads,        \* of the clients and of the components
    from_ends,      \* interface -> its clients' threads, in the connection's order
    badges,         \* interface -> the badges of those clients, in the same order
    Asking,         \* the interfaces whose implementation asks for the sender id
    BadIds,         \* numbers of no pin or clock, which clients pass as well
    None

Servers == {ServerOf[i] : i \in Interfaces}
Places(i) == 1..Len(from_ends[i])
Badges(i) == {badges[i][k] : k \in Places(i)}

(* macros.global_rpc_endpoint_badges numbers the clients of all interfaces of a *)
(* component apart, from 1 on.                                                  *)
ASSUME ConnectionsAssumption ==
    /\ from_ends \in [Interfaces -> Seq(Threads)]
    /\ badges \in [Interfaces -> Seq(Nat \ {0})]
    /\ \A i \in Interfaces :
          /\ Len(badges[i]) = Len(from_ends[i])
          /\ \A k, l \in Places(i) : from_ends[i][k] = from_ends[i][l] => k = l
    /\ \A i, j \in Interfaces : ServerOf[i] = ServerOf[j] =>
          \A k \in Places(i), l \in Places(j) :
              badges[i][k] = badges[j][l] => i = j /\ k = l

ASSUME NoneAssumption == None \notin Threads \cup Interfaces /\ Asking \subseteq Interfaces

VARIABLES
    endpoint,           \* per component: the threads whose calls wait, oldest first
    reply_cap,          \* per component: the caller while a nested call is out, or None
    interface_badge,    \* per asking interface: the static <interface>_badge
    msg,                \* per thread: the message of its call, or NoCall
    ret                 \* per thread: the answer, once it is there

rpc == <<endpoint, reply_cap, interface_badge, msg, ret>>

NoCall == [iface |-> None]

RpcInit ==
    /\ endpoint = [s \in Servers |-> <<>>]
    /\ reply_cap = [s \in Servers |-> None]
    /\ interface_badge = [i \in Asking |-> 0]
    /\ msg = [t \in Threads |-> NoCall]
    /\ ret = [t \in Threads |-> None]

-------------------------------------------------------------------------------
(* The badge of the capability by which t calls i.                              *)
PlaceOf(i, t) == CHOOSE k \in Places(i) : from_ends[i][k] = t
BadgeOf(i, t) == badges[i][PlaceOf(i, t)]

(* seL4_Call: t is blocked until the answer is there.                           *)
Call(t, m) ==
    /\ msg[t] = NoCall
    /\ msg' = [msg EXCEPT ![t] = m]
    /\ endpoint' = [endpoint EXCEPT ![ServerOf[m.iface]] = Append(@, t)]
    /\ UNCHANGED <<reply_cap, interface_badge, ret>>

HasAnswer(t) == msg[t] # NoCall /\ ret[t] # None

(* The caller's stub returns.                                                   *)
Return(t) ==
    /\ HasAnswer(t)
    /\ msg' = [msg EXCEPT ![t] = NoCall]
    /\ ret' = [ret EXCEPT ![t] = None]
    /\ UNCHANGED <<endpoint, reply_cap, interface_badge>>

(* run: the component is at its Recv, and the oldest call is one of method op   *)
(* of interface i. switch (badge) finds the interface.                          *)
Caller(s) == Head(endpoint[s])
ReceivedBadge(s) == BadgeOf(msg[Caller(s)].iface, Caller(s))

Receives(i, op) ==
    LET s == ServerOf[i] IN
    /\ reply_cap[s] = None
    /\ endpoint[s] # <<>>
    /\ ReceivedBadge(s) \in Badges(i)
    /\ msg[Caller(s)].op = op

\* Mutant: the badge is stored at the first call only.
handle_message_first(i) ==
    interface_badge' = [j \in Asking |-> IF j = i /\ interface_badge[j] = 0
                                        THEN ReceivedBadge(ServerOf[i]) ELSE interface_badge[j]]

(* <interface>_handle_message.                                                  *)
handle_message(i) ==
    interface_badge' = [j \in Asking |-> IF j = i THEN ReceivedBadge(ServerOf[i])
                                                 ELSE interface_badge[j]]

(* <interface>_get_sender_id, asked while the message is handled.               *)
get_sender_id(i) ==
    IF \E k \in Places(i) : badges[i][k] = interface_badge'[i]
    THEN (CHOOSE k \in Places(i) : badges[i][k] = interface_badge'[i]) - 1
    ELSE -1

(* <interface>_enumerate_badge and <interface>_buf, of an interface whose       *)
(* clients share memory with the component, one piece each: the thread it is    *)
(* shared with.                                                                 *)
enumerate_badge(i, k) == badges[i][k + 1]
buf(i, badge) == IF badge \in Badges(i)
                 THEN from_ends[i][CHOOSE k \in Places(i) : badges[i][k] = badge]
                 ELSE None

(* The implementation has run to its end: its result r is marshalled into the   *)
(* reply to the caller.                                                         *)
reply_recv(s, r) == ret' = [ret EXCEPT ![Caller(s)] = r]

(* run sends the reply and receives again.                                      *)
ReplyRecv(s, r) ==
    /\ reply_recv(s, r)
    /\ endpoint' = [endpoint EXCEPT ![s] = Tail(@)]
    /\ UNCHANGED <<reply_cap, msg>>

(* The implementation makes a call of its own: m, in the component's thread s.  *)
(* Its caller's reply capability is saved (camkes_declare_reply_cap).           *)
CallsOut(s, m) ==
    /\ endpoint' = [endpoint EXCEPT ![s] = Tail(@), ![ServerOf[m.iface]] = Append(@, s)]
    /\ reply_cap' = [reply_cap EXCEPT ![s] = Caller(s)]
    /\ msg' = [msg EXCEPT ![s] = m]
    /\ UNCHANGED ret

\* Mutant: the caller gets an answer only if the nested call was no failure.
Answers_success(s, r) ==
    /\ reply_cap' = [reply_cap EXCEPT ![s] = None]
    /\ ret' = IF ret[s] = 0 THEN [ret EXCEPT ![s] = None, ![reply_cap[s]] = r]
                            ELSE [ret EXCEPT ![s] = None]
    /\ msg' = [msg EXCEPT ![s] = NoCall]
    /\ UNCHANGED <<endpoint, interface_badge>>

(* It has its answer, and then gives its own, r, which run sends on the saved   *)
(* reply capability.                                                            *)
Answers(s, r) ==
    /\ reply_cap' = [reply_cap EXCEPT ![s] = None]
    /\ ret' = [ret EXCEPT ![s] = None, ![reply_cap[s]] = r]
    /\ msg' = [msg EXCEPT ![s] = NoCall]
    /\ UNCHANGED <<endpoint, interface_badge>>
===============================================================================
