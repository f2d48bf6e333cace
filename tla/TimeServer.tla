------------------------------ MODULE TimeServer ------------------------------
(* components/TimeServer/src/time_server.c: timers_per_client timers for every  *)
(* client, multiplexed on one hardware timer. A timer of a client is the token  *)
(* cid * timers_per_client + tid of the time manager (libplatsupport, outside   *)
(* the repository), which calls signal_client(token) when it expires. The client *)
(* gets a notification and asks with completed() which of its timers it was for. *)
(* Every handler holds the component's lock from its first to its last access.  *)
(* A client is known by its badge; the server numbers clients from 0.           *)
EXTENDS Integers

CONSTANTS
    Badges,             \* badges of the connected clients
    LargestBadge,       \* the_timer_largest_badge()
    timers_per_client,
    Delays,             \* delays a client asks for: ns of the calls
    MaxTime             \* bound: the clock stops here

ASSUME BadgesAssumption == LargestBadge \in Nat /\ Badges \subseteq 1..LargestBadge
(* client_state is a uint32_t: BIT(tid) is lost from the 33rd timer on.         *)
ASSUME TimersAssumption == timers_per_client \in 1..32
ASSUME TimesAssumption == Delays \subseteq Nat \ {0} /\ MaxTime \in Nat

Cids == 0..(LargestBadge - 1)
Tids == 0..(timers_per_client - 1)
Tokens == 0..(timers_per_client * LargestBadge - 1)

Never == [at |-> -1, period |-> 0]
Timeouts == [at : Nat, period : {0} \cup Delays] \cup {Never}

VARIABLES
    client_state,   \* client_state[cid]: timers completed and not yet reported
    timeouts,       \* the time manager's table, by token
    notification,   \* per badge: the client's notification is signalled
    pc,             \* per badge: "waiting", "woken" or "running"
    now,            \* the clock
    asked,          \* history: what the client of a badge last asked of a timer
    expired         \* history: its timers that expired since its last completed()

vars == <<client_state, timeouts, notification, pc, now, asked, expired>>
server == <<client_state, timeouts, notification>>
history == <<asked, expired>>

TypeOK ==
    /\ client_state \in [Cids -> SUBSET Tids]
    /\ timeouts \in [Tokens -> Timeouts]
    /\ notification \in [Badges -> BOOLEAN]
    /\ pc \in [Badges -> {"waiting", "woken", "running"}]
    /\ now \in 0..MaxTime
    /\ asked \in [Badges -> [Tids -> Timeouts]]
    /\ expired \in [Badges -> SUBSET Tids]

-------------------------------------------------------------------------------
\* Mutant: the stride is one short.
get_time_token_stride(cid, tid) == cid * (timers_per_client - 1) + tid
get_time_token(cid, tid) == cid * timers_per_client + tid

Cid(token) == token \div timers_per_client
Tid(token) == token % timers_per_client

\* Mutants: the badge is not shifted; a tid one too large is accepted.
Emitted_unshifted(cid) == cid
ValidTid_le(tid) == tid >= 0 /\ tid <= timers_per_client

(* The badge the_timer_emit is given for a client.                              *)
Emitted(cid) == cid + 1

ValidTid(tid) == tid \in Int /\ ~(tid >= timers_per_client \/ tid < 0)

\* Mutant: the mask is assigned, not or-ed.
signal_client_assigns(tokens) ==
    /\ client_state' = [c \in Cids |->
                           IF \E k \in tokens : Cid(k) = c
                           THEN {Tid(k) : k \in {j \in tokens : Cid(j) = c}}
                           ELSE client_state[c]]
    /\ notification' = [b \in Badges |->
                           notification[b] \/ \E k \in tokens : Emitted(Cid(k)) = b]

(* signal_client, called for each of a set of tokens.                           *)
signal_client(tokens) ==
    /\ client_state' = [c \in Cids |->
                           client_state[c] \cup {Tid(k) : k \in {j \in tokens : Cid(j) = c}}]
    /\ notification' = [b \in Badges |->
                           notification[b] \/ \E k \in tokens : Emitted(Cid(k)) = b]

(* What a client has coming: a timer of its own whose time is reached.          *)
DueOf(b) == {t \in Tids : asked[b][t] # Never /\ asked[b][t].at <= now}

(* After an expiry a periodic timer is next due at the first multiple of its    *)
(* period that is still ahead.                                                  *)
Again(timeout) ==
    IF timeout.period = 0
    THEN Never
    ELSE [timeout EXCEPT !.at = @ + timeout.period * ((now - @) \div timeout.period + 1)]

Expires(timeout) == timeout # Never /\ timeout.at <= now

-------------------------------------------------------------------------------
(* tm_register_*_cb: one timeout per token, the latest request.                 *)
Register(cid, tid, timeout) ==
    timeouts' = [timeouts EXCEPT ![get_time_token(cid, tid)] = timeout]

Unregistered(token) == timeouts' = [timeouts EXCEPT ![token] = Never]

Ask(b, tid, timeout) == asked' = [asked EXCEPT ![b][tid] = timeout]

(* The three calls that set a timer. A call with a bad tid returns -1.          *)
the_timer_oneshot_relative(b, tid, ns) ==
    /\ ValidTid(tid)
    /\ Register(b - 1, tid, [at |-> now + ns, period |-> 0])
    /\ Ask(b, tid, [at |-> now + ns, period |-> 0])
    /\ UNCHANGED <<client_state, notification, pc, now, expired>>

the_timer_periodic(b, tid, ns) ==
    /\ ValidTid(tid)
    /\ Register(b - 1, tid, [at |-> now + ns, period |-> ns])
    /\ Ask(b, tid, [at |-> now + ns, period |-> ns])
    /\ UNCHANGED <<client_state, notification, pc, now, expired>>

(* A time ahead is registered; for one that has passed the time manager answers *)
(* ETIME, with or without forgetting the timer's earlier timeout, and the client *)
(* is signalled from here.                                                      *)
the_timer_oneshot_absolute(b, tid, ns) ==
    /\ ValidTid(tid)
    /\ \/ /\ ns > now
          /\ Register(b - 1, tid, [at |-> ns, period |-> 0])
          /\ Ask(b, tid, [at |-> ns, period |-> 0])
          /\ UNCHANGED <<client_state, notification, expired>>
       \/ /\ ns <= now
          /\ signal_client({get_time_token(b - 1, tid)})
          /\ expired' = [expired EXCEPT ![b] = @ \cup {tid}]
          /\ \/ UNCHANGED <<timeouts, asked>>
             \/ Register(b - 1, tid, Never) /\ Ask(b, tid, Never)
    /\ UNCHANGED <<pc, now>>

(* Stopping a timer does not withdraw a completion it has already reached.      *)
the_timer_stop(b, tid) ==
    /\ ValidTid(tid)
    /\ Unregistered(get_time_token(b - 1, tid))
    /\ Ask(b, tid, Never)
    /\ UNCHANGED <<client_state, notification, pc, now, expired>>

(* The client learns client_state[b - 1] and the server forgets it.             *)
the_timer_completed(b) ==
    /\ client_state' = [client_state EXCEPT ![b - 1] = {}]
    /\ expired' = [expired EXCEPT ![b] = {}]
    /\ pc' = [pc EXCEPT ![b] = "running"]
    /\ UNCHANGED <<timeouts, notification, now, asked>>

(* The timer interrupt: tm_update calls back every timeout that has expired.    *)
time_server_ltimer_handle ==
    /\ \E k \in Tokens : Expires(timeouts[k])
    /\ signal_client({k \in Tokens : Expires(timeouts[k])})
    /\ timeouts' = [k \in Tokens |->
                       IF Expires(timeouts[k]) THEN Again(timeouts[k]) ELSE timeouts[k]]
    /\ expired' = [b \in Badges |-> expired[b] \cup DueOf(b)]
    /\ asked' = [b \in Badges |-> [t \in Tids |->
                       IF t \in DueOf(b) THEN Again(asked[b][t]) ELSE asked[b][t]]]
    /\ UNCHANGED <<pc, now>>

-------------------------------------------------------------------------------
(* The clients: each sleeps on its notification, and collects when it wakes.    *)
Wake(b) ==
    /\ pc[b] = "waiting" /\ notification[b]
    /\ pc' = [pc EXCEPT ![b] = "woken"]
    /\ notification' = [notification EXCEPT ![b] = FALSE]
    /\ UNCHANGED <<client_state, timeouts, now, history>>

Sleep(b) ==
    /\ pc[b] = "running"
    /\ pc' = [pc EXCEPT ![b] = "waiting"]
    /\ UNCHANGED <<server, now, history>>

Collect(b) == pc[b] # "waiting" /\ the_timer_completed(b)

Call(b) ==
    /\ pc[b] = "running"
    /\ \E tid \in -1..timers_per_client :
           \/ \E ns \in Delays : the_timer_oneshot_relative(b, tid, ns)
           \/ \E ns \in Delays : the_timer_periodic(b, tid, ns)
           \/ \E ns \in 0..MaxTime : the_timer_oneshot_absolute(b, tid, ns)
           \/ the_timer_stop(b, tid)

Tick ==
    /\ now < MaxTime
    /\ now' = now + 1
    /\ UNCHANGED <<server, pc, history>>

-------------------------------------------------------------------------------
Init ==
    /\ client_state = [c \in Cids |-> {}]
    /\ timeouts = [k \in Tokens |-> Never]
    /\ notification = [b \in Badges |-> FALSE]
    /\ pc = [b \in Badges |-> "running"]
    /\ now = 0
    /\ asked = [b \in Badges |-> [t \in Tids |-> Never]]
    /\ expired = [b \in Badges |-> {}]

Next ==
    \/ \E b \in Badges : Wake(b) \/ Sleep(b) \/ Collect(b) \/ Call(b)
    \/ time_server_ltimer_handle
    \/ Tick

Spec == Init /\ [][Next]_vars

-------------------------------------------------------------------------------
(* Multiplexing: the time manager's entry of a timer is what that timer's own   *)
(* client last asked for, whatever the others ask of theirs.                    *)
OwnTimers ==
    \A b \in Badges, t \in Tids : timeouts[(b - 1) * timers_per_client + t] = asked[b][t]

(* What completed() will report to a client are those of its own timers that    *)
(* expired since it last asked: none lost, none of another client, none twice.  *)
ReportsExpired == \A b \in Badges : client_state[b - 1] = expired[b]

(* A client with something to collect is signalled or already awake: it never   *)
(* sleeps through a completion.                                                 *)
Wakeable ==
    \A b \in Badges : client_state[b - 1] # {} => notification[b] \/ pc[b] = "woken"
===============================================================================
