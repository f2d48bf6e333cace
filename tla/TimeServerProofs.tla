--------------------------- MODULE TimeServerProofs ---------------------------
(* The safety of the TimeServer for every number of clients, timers and delays. *)
(* The invariant is inductive as it stands; what carries it is that the tokens  *)
(* of different timers differ, and that signal_client finds the client and the  *)
(* timer back from the token.                                                   *)
EXTENDS TimeServer, TLAPS

(* Division with remainder.                                                     *)
LEMMA Division ==
    ASSUME NEW a \in Nat, NEW d \in Nat \ {0}
    PROVE  /\ a \div d \in Nat
           /\ a % d \in 0..(d - 1)
           /\ a = (a \div d) * d + (a % d)
<1>1. a \div d \in Int /\ a % d \in 0..(d - 1)
  OBVIOUS
<1>2. a = d * (a \div d) + (a % d)
  OBVIOUS
<1>3. a \div d \in Nat
  OBVIOUS
<1> QED BY <1>1, <1>2, <1>3

(* A larger factor is larger by the divisor at least.                           *)
LEMMA Spread ==
    ASSUME NEW a \in Nat, NEW b \in Nat, NEW d \in Nat, a < b
    PROVE  a * d + d <= b * d
<1>1. b - a - 1 \in Nat
  OBVIOUS
<1>2. (b - a - 1) * d \in Nat
  BY <1>1
<1> QED BY <1>2

(* Quotient and remainder are unique.                                           *)
LEMMA DivisionUnique ==
    ASSUME NEW a \in Nat, NEW b \in Nat, NEW d \in Nat \ {0},
           NEW r \in 0..(d - 1), NEW s \in 0..(d - 1),
           a * d + r = b * d + s
    PROVE  a = b /\ r = s
<1>1. ~(a < b)
  BY Spread
<1>2. ~(b < a)
  BY Spread
<1> QED BY <1>1, <1>2

(* get_time_token numbers the timers within the table tm_init allocates, and    *)
(* signal_client takes the number apart again.                                  *)
LEMMA TokenOfTimer ==
    ASSUME NEW c \in Cids, NEW t \in Tids
    PROVE  /\ get_time_token(c, t) \in Tokens
           /\ Cid(get_time_token(c, t)) = c
           /\ Tid(get_time_token(c, t)) = t
<1> DEFINE k == c * timers_per_client + t
<1>1. /\ timers_per_client \in Nat \ {0} /\ LargestBadge \in Nat
      /\ c \in Nat /\ c < LargestBadge /\ t \in 0..(timers_per_client - 1)
  BY TimersAssumption, BadgesAssumption DEF Cids, Tids
<1>2. k \in Nat
  <2>1. c * timers_per_client \in Nat
    BY <1>1
  <2> QED BY <2>1, <1>1
<1>3. k < LargestBadge * timers_per_client
  <2>1. c * timers_per_client + timers_per_client <= LargestBadge * timers_per_client
    BY <1>1, Spread
  <2> QED BY <2>1, <1>1
<1>4. k \in Tokens
  BY <1>1, <1>2, <1>3 DEF Tokens
<1>5. /\ k \div timers_per_client \in Nat
      /\ k % timers_per_client \in 0..(timers_per_client - 1)
      /\ k = (k \div timers_per_client) * timers_per_client + (k % timers_per_client)
  BY <1>1, <1>2, Division
<1>6. k \div timers_per_client = c /\ k % timers_per_client = t
  <2> HIDE DEF k
  <2>1. c * timers_per_client + t
          = (k \div timers_per_client) * timers_per_client + (k % timers_per_client)
    BY <1>5 DEF k
  <2> QED BY <1>1, <1>5, <2>1, DivisionUnique
<1> QED BY <1>4, <1>6 DEF get_time_token, Cid, Tid

(* A token of the table is the token of its client and its timer.             *)
LEMMA TimerOfToken ==
    ASSUME NEW k \in Tokens
    PROVE  Cid(k) \in Nat /\ Tid(k) \in Tids /\ k = get_time_token(Cid(k), Tid(k))
<1>1. k \in Nat /\ timers_per_client \in Nat \ {0}
  BY TimersAssumption DEF Tokens
<1> QED BY <1>1, Division DEF Cid, Tid, Tids, get_time_token

(* Different timers have different tokens.                                      *)
LEMMA TokensDiffer ==
    ASSUME NEW c \in Cids, NEW t \in Tids, NEW d \in Cids, NEW u \in Tids,
           get_time_token(c, t) = get_time_token(d, u)
    PROVE  c = d /\ t = u
BY TokenOfTimer

(* A badge less one is the number of a client.                                *)
LEMMA BadgeIsCid == ASSUME NEW b \in Badges PROVE b - 1 \in Cids /\ b \in Int
BY BadgesAssumption DEF Cids

-------------------------------------------------------------------------------
IInv == TypeOK /\ OwnTimers /\ ReportsExpired /\ Wakeable

(* OwnTimers in terms of get_time_token.                                        *)
LEMMA OwnTimer ==
    ASSUME OwnTimers, NEW b \in Badges, NEW t \in Tids
    PROVE  timeouts[get_time_token(b - 1, t)] = asked[b][t]
BY DEF OwnTimers, get_time_token

(* A timer that is not set is a value of the table.                           *)
LEMMA NeverIsTimeout == Never \in Timeouts
BY DEF Timeouts

(* A time that is set is a time of the table.                                   *)
LEMMA SetIsTimeout ==
    ASSUME NEW at \in Nat, NEW period \in {0} \cup Delays
    PROVE  [at |-> at, period |-> period] \in Timeouts
BY DEF Timeouts

(* Some multiple of the period later.                                           *)
LEMMA LaterMultiple ==
    ASSUME NEW a \in Nat, NEW p \in Nat, NEW q \in Nat
    PROVE  a + p * (q + 1) \in Nat
<1>1. p * (q + 1) \in Nat
  OBVIOUS
<1> QED BY <1>1

(* A periodic timer's next time is a time of the table.                         *)
LEMMA AgainIsTimeout ==
    ASSUME now \in Nat, NEW timeout \in Timeouts, Expires(timeout)
    PROVE  Again(timeout) \in Timeouts
<1>1. CASE timeout.period = 0
  BY <1>1, NeverIsTimeout DEF Again
<1>2. CASE timeout.period # 0
  <2>1. timeout \in [at : Nat, period : {0} \cup Delays] /\ timeout.at <= now
    BY DEF Expires, Timeouts
  <2> DEFINE p == timeout.period
             a == timeout.at
  <2>2. p \in Delays /\ p \in Nat \ {0} /\ a \in Nat /\ now - a \in Nat
    <3>1. p \in {0} \cup Delays /\ a \in Nat
      BY <2>1
    <3>2. p \in Delays /\ p \in Nat \ {0}
      BY <1>2, <3>1, TimesAssumption
    <3>3. now - a \in Nat
      <4> HIDE DEF a
      <4>1. a <= now
        BY <2>1 DEF a
      <4> QED BY <3>1, <4>1
    <3> QED BY <3>1, <3>2, <3>3
  <2>3. (now - a) \div p \in Nat
    <3> HIDE DEF p, a
    <3> QED BY <2>2, Division
  <2>4. a + p * ((now - a) \div p + 1) \in Nat
    <3> HIDE DEF p, a
    <3> QED BY <2>2, <2>3, LaterMultiple
  <2>5. Again(timeout) = [timeout EXCEPT !.at = a + p * ((now - a) \div p + 1)]
    BY <1>2 DEF Again
  <2> QED BY <2>1, <2>4, <2>5 DEF Timeouts
<1> QED BY <1>1, <1>2

-------------------------------------------------------------------------------
LEMMA InitInv == Init => IInv
<1> SUFFICES ASSUME Init PROVE IInv
  OBVIOUS
<1>1. TypeOK
  BY TimesAssumption, NeverIsTimeout DEF Init, TypeOK
<1>2. OwnTimers
  <2> SUFFICES ASSUME NEW b \in Badges, NEW t \in Tids
               PROVE  timeouts[get_time_token(b - 1, t)] = asked[b][t]
    BY DEF OwnTimers, get_time_token
  <2>1. get_time_token(b - 1, t) \in Tokens
    BY BadgeIsCid, TokenOfTimer
  <2> QED BY <2>1 DEF Init
<1>3. ReportsExpired /\ Wakeable
  BY BadgeIsCid DEF Init, ReportsExpired, Wakeable
<1> QED BY <1>1, <1>2, <1>3 DEF IInv

(* Setting or stopping timer tid of client b, with what the client asked kept   *)
(* in step, disturbs no other timer.                                            *)
LEMMA RegisterKeepsOwnTimers ==
    ASSUME IInv, NEW b \in Badges, NEW tid \in Tids, NEW timeout \in Timeouts,
           timeouts' = [timeouts EXCEPT ![get_time_token(b - 1, tid)] = timeout],
           Ask(b, tid, timeout)
    PROVE  /\ OwnTimers'
           /\ timeouts' \in [Tokens -> Timeouts]
           /\ asked' \in [Badges -> [Tids -> Timeouts]]
<1>1. timeouts \in [Tokens -> Timeouts] /\ asked \in [Badges -> [Tids -> Timeouts]]
  BY DEF IInv, TypeOK
<1>2. timeouts' \in [Tokens -> Timeouts] /\ asked' \in [Badges -> [Tids -> Timeouts]]
  BY <1>1 DEF Ask
<1>3. ASSUME NEW c \in Badges, NEW t \in Tids
      PROVE  timeouts'[get_time_token(c - 1, t)] = asked'[c][t]
  <2>1. /\ get_time_token(c - 1, t) \in Tokens
        /\ timeouts[get_time_token(c - 1, t)] = asked[c][t]
    BY BadgeIsCid, TokenOfTimer, OwnTimer DEF IInv
  <2>2. CASE c = b /\ t = tid
    BY <1>1, <2>1, <2>2 DEF Ask
  <2>3. CASE ~(c = b /\ t = tid)
    <3>1. get_time_token(c - 1, t) # get_time_token(b - 1, tid)
      <4> SUFFICES ASSUME get_time_token(c - 1, t) = get_time_token(b - 1, tid)
                   PROVE  FALSE
        OBVIOUS
      <4>1. c - 1 = b - 1 /\ t = tid
        BY BadgeIsCid, TokensDiffer
      <4> QED BY <4>1, <2>3, BadgeIsCid
    <3>2. asked'[c][t] = asked[c][t]
      BY <1>1, <2>3 DEF Ask
    <3> QED BY <1>1, <2>1, <3>1, <3>2
  <2> QED BY <2>2, <2>3
<1> QED BY <1>2, <1>3 DEF OwnTimers, get_time_token

(* A call that only sets or stops a timer.                                      *)
LEMMA RegisterKeepsInv ==
    ASSUME IInv, NEW b \in Badges, NEW tid \in Tids, NEW timeout \in Timeouts,
           timeouts' = [timeouts EXCEPT ![get_time_token(b - 1, tid)] = timeout],
           Ask(b, tid, timeout),
           UNCHANGED <<client_state, notification, pc, now, expired>>
    PROVE  IInv'
BY RegisterKeepsOwnTimers DEF IInv, TypeOK, ReportsExpired, Wakeable

(* signal_client gives a client the timers of its tokens, and signals the       *)
(* clients that get one.                                                        *)
LEMMA Signalled ==
    ASSUME TypeOK, NEW tokens \in SUBSET Tokens, signal_client(tokens)
    PROVE  /\ client_state' \in [Cids -> SUBSET Tids]
           /\ notification' \in [Badges -> BOOLEAN]
           /\ \A b \in Badges :
                 /\ client_state'[b - 1] =
                       client_state[b - 1]
                       \cup {t \in Tids : get_time_token(b - 1, t) \in tokens}
                 /\ notification'[b] <=>
                       notification[b] \/ \E t \in Tids : get_time_token(b - 1, t) \in tokens
<1>1. client_state' \in [Cids -> SUBSET Tids]
  <2>1. \A k \in tokens : Tid(k) \in Tids
    BY TimerOfToken
  <2> QED BY <2>1 DEF signal_client, TypeOK
<1>2. notification' \in [Badges -> BOOLEAN]
  BY DEF signal_client, TypeOK
<1>3. ASSUME NEW b \in Badges
      PROVE  {Tid(k) : k \in {j \in tokens : Cid(j) = b - 1}}
               = {t \in Tids : get_time_token(b - 1, t) \in tokens}
  <2>1. ASSUME NEW k \in tokens, Cid(k) = b - 1
        PROVE  Tid(k) \in Tids /\ get_time_token(b - 1, Tid(k)) \in tokens
    BY <2>1, TimerOfToken
  <2>2. ASSUME NEW t \in Tids, get_time_token(b - 1, t) \in tokens
        PROVE  \E k \in tokens : Cid(k) = b - 1 /\ t = Tid(k)
    BY <2>2, BadgeIsCid, TokenOfTimer
  <2> QED BY <2>1, <2>2
<1>4. ASSUME NEW b \in Badges
      PROVE  (\E k \in tokens : Emitted(Cid(k)) = b)
               <=> \E t \in Tids : get_time_token(b - 1, t) \in tokens
  <2>1. ASSUME NEW k \in tokens, Emitted(Cid(k)) = b
        PROVE  \E t \in Tids : get_time_token(b - 1, t) \in tokens
    <3>1. Cid(k) = b - 1 /\ Tid(k) \in Tids /\ k = get_time_token(Cid(k), Tid(k))
      BY <2>1, TimerOfToken, BadgeIsCid DEF Emitted
    <3> QED BY <3>1
  <2>2. ASSUME NEW t \in Tids, get_time_token(b - 1, t) \in tokens
        PROVE  \E k \in tokens : Emitted(Cid(k)) = b
    <3>1. Cid(get_time_token(b - 1, t)) = b - 1 /\ b \in Int
      BY BadgeIsCid, TokenOfTimer
    <3>2. Emitted(Cid(get_time_token(b - 1, t))) = b
      BY <3>1 DEF Emitted
    <3> QED BY <2>2, <3>2
  <2> QED BY <2>1, <2>2
<1>5. ASSUME NEW b \in Badges
      PROVE  /\ client_state'[b - 1] =
                   client_state[b - 1] \cup {t \in Tids : get_time_token(b - 1, t) \in tokens}
             /\ notification'[b] <=>
                   notification[b] \/ \E t \in Tids : get_time_token(b - 1, t) \in tokens
  BY <1>3, <1>4, BadgeIsCid DEF signal_client
<1> QED BY <1>1, <1>2, <1>5

-------------------------------------------------------------------------------
(* The interrupt reports to each client exactly its own expired timers.         *)
LEMMA HandleKeepsInv == ASSUME IInv, time_server_ltimer_handle PROVE IInv'
<1> DEFINE due == {k \in Tokens : Expires(timeouts[k])}
<1>1. TypeOK /\ due \in SUBSET Tokens /\ signal_client(due)
  BY DEF IInv, time_server_ltimer_handle
<1>2. ASSUME NEW b \in Badges, NEW t \in Tids
      PROVE  /\ get_time_token(b - 1, t) \in Tokens
             /\ timeouts[get_time_token(b - 1, t)] = asked[b][t]
             /\ get_time_token(b - 1, t) \in due <=> t \in DueOf(b)
  BY BadgeIsCid, TokenOfTimer, OwnTimer DEF IInv, DueOf, Expires
<1>3. ASSUME NEW b \in Badges
      PROVE  {t \in Tids : get_time_token(b - 1, t) \in due} = DueOf(b)
  BY <1>2 DEF DueOf
<1>4. OwnTimers'
  <2> SUFFICES ASSUME NEW b \in Badges, NEW t \in Tids
               PROVE  timeouts'[get_time_token(b - 1, t)] = asked'[b][t]
    BY DEF OwnTimers, get_time_token
  <2>1. timeouts'[get_time_token(b - 1, t)] =
           IF Expires(asked[b][t]) THEN Again(asked[b][t]) ELSE asked[b][t]
    BY <1>2 DEF time_server_ltimer_handle
  <2>2. asked'[b][t] = IF Expires(asked[b][t]) THEN Again(asked[b][t]) ELSE asked[b][t]
    BY DEF time_server_ltimer_handle, DueOf, Expires
  <2> QED BY <2>1, <2>2
<1> HIDE DEF due
<1>5. ReportsExpired'
  <2> SUFFICES ASSUME NEW b \in Badges PROVE client_state'[b - 1] = expired'[b]
    BY DEF ReportsExpired
  <2>1. client_state'[b - 1] = client_state[b - 1] \cup DueOf(b)
    BY <1>1, <1>3, Signalled
  <2> QED BY <2>1 DEF time_server_ltimer_handle, IInv, ReportsExpired
<1>6. Wakeable'
  <2> SUFFICES ASSUME NEW b \in Badges, client_state'[b - 1] # {}
               PROVE  notification'[b] \/ pc'[b] = "woken"
    BY DEF Wakeable
  <2>1. /\ client_state'[b - 1] =
              client_state[b - 1] \cup {t \in Tids : get_time_token(b - 1, t) \in due}
        /\ notification'[b] <=>
              notification[b] \/ \E t \in Tids : get_time_token(b - 1, t) \in due
    BY <1>1, Signalled
  <2>2. CASE client_state[b - 1] # {}
    BY <2>1, <2>2 DEF IInv, Wakeable, time_server_ltimer_handle
  <2>3. CASE client_state[b - 1] = {}
    BY <2>1, <2>3
  <2> QED BY <2>2, <2>3
<1>7. TypeOK'
  <2>1. now \in Nat
    BY <1>1, TimesAssumption DEF TypeOK
  <2>2. timeouts' \in [Tokens -> Timeouts]
    BY <1>1, <2>1, AgainIsTimeout DEF time_server_ltimer_handle, TypeOK
  <2>3. asked' \in [Badges -> [Tids -> Timeouts]]
    <3>1. ASSUME NEW b \in Badges, NEW t \in Tids
          PROVE  (IF t \in DueOf(b) THEN Again(asked[b][t]) ELSE asked[b][t]) \in Timeouts
      <4>1. asked[b][t] \in Timeouts
        BY <1>1 DEF TypeOK
      <4> QED BY <2>1, <4>1, AgainIsTimeout DEF DueOf, Expires
    <3> QED BY <3>1 DEF time_server_ltimer_handle
  <2>4. expired' \in [Badges -> SUBSET Tids]
    BY <1>1 DEF time_server_ltimer_handle, TypeOK, DueOf
  <2> QED BY <1>1, <2>2, <2>3, <2>4, Signalled DEF time_server_ltimer_handle, TypeOK
<1> QED BY <1>4, <1>5, <1>6, <1>7 DEF IInv

(* A time that has passed: the client is signalled for this timer alone.        *)
LEMMA AbsoluteKeepsInv ==
    ASSUME IInv, NEW b \in Badges, NEW tid, NEW ns \in Nat,
           the_timer_oneshot_absolute(b, tid, ns)
    PROVE  IInv'
<1>1. tid \in Tids
  BY TimersAssumption DEF the_timer_oneshot_absolute, ValidTid, Tids
<1>2. CASE /\ Register(b - 1, tid, [at |-> ns, period |-> 0])
           /\ Ask(b, tid, [at |-> ns, period |-> 0])
           /\ UNCHANGED <<client_state, notification, expired>>
  <2>1. UNCHANGED <<client_state, notification, pc, now, expired>>
    BY <1>2 DEF the_timer_oneshot_absolute
  <2> QED BY <1>1, <1>2, <2>1, SetIsTimeout, RegisterKeepsInv DEF Register
<1>3. CASE /\ signal_client({get_time_token(b - 1, tid)})
           /\ expired' = [expired EXCEPT ![b] = @ \cup {tid}]
           /\ \/ UNCHANGED <<timeouts, asked>>
              \/ Register(b - 1, tid, Never) /\ Ask(b, tid, Never)
  <2> DEFINE k == get_time_token(b - 1, tid)
  <2>1. TypeOK /\ k \in Tokens /\ UNCHANGED <<pc, now>>
    BY <1>1, BadgeIsCid, TokenOfTimer DEF IInv, the_timer_oneshot_absolute
  <2>2. ASSUME NEW c \in Badges
        PROVE  {t \in Tids : get_time_token(c - 1, t) \in {k}}
                 = IF c = b THEN {tid} ELSE {}
    <3>1. ASSUME NEW t \in Tids, get_time_token(c - 1, t) = k
          PROVE  c = b /\ t = tid
      <4>1. c - 1 = b - 1 /\ t = tid
        BY <1>1, <3>1, BadgeIsCid, TokensDiffer
      <4> QED BY <4>1, BadgeIsCid
    <3> QED BY <1>1, <3>1
  <2>3. /\ OwnTimers'
        /\ timeouts' \in [Tokens -> Timeouts]
        /\ asked' \in [Badges -> [Tids -> Timeouts]]
    <3>1. CASE UNCHANGED <<timeouts, asked>>
      BY <3>1 DEF IInv, TypeOK, OwnTimers
    <3>2. CASE Register(b - 1, tid, Never) /\ Ask(b, tid, Never)
      BY <1>1, <3>2, NeverIsTimeout, RegisterKeepsOwnTimers DEF Register
    <3> QED BY <1>3, <3>1, <3>2
  <2> HIDE DEF k
  <2>4. ASSUME NEW c \in Badges
        PROVE  /\ client_state'[c - 1] =
                     client_state[c - 1] \cup (IF c = b THEN {tid} ELSE {})
               /\ notification'[c] <=>
                     notification[c] \/ \E t \in Tids : get_time_token(c - 1, t) \in {k}
    <3>1. signal_client({k}) /\ {k} \in SUBSET Tokens
      BY <1>3, <2>1 DEF k
    <3> QED BY <2>1, <2>2, <3>1, Signalled
  <2>5. ReportsExpired'
    <3> SUFFICES ASSUME NEW c \in Badges PROVE client_state'[c - 1] = expired'[c]
      BY DEF ReportsExpired
    <3>1. client_state[c - 1] = expired[c]
      BY DEF IInv, ReportsExpired
    <3>2. expired'[c] = expired[c] \cup (IF c = b THEN {tid} ELSE {})
      BY <1>3, <2>1 DEF TypeOK
    <3> QED BY <2>4, <3>1, <3>2
  <2>6. Wakeable'
    <3> SUFFICES ASSUME NEW c \in Badges, client_state'[c - 1] # {}
                 PROVE  notification'[c] \/ pc'[c] = "woken"
      BY DEF Wakeable
    <3>1. CASE client_state[c - 1] # {}
      BY <2>1, <2>4, <3>1 DEF IInv, Wakeable
    <3>2. CASE client_state[c - 1] = {}
      BY <1>1, <2>2, <2>4, <3>2
    <3> QED BY <3>1, <3>2
  <2>7. TypeOK'
    <3>1. signal_client({k}) /\ {k} \in SUBSET Tokens
      BY <1>3, <2>1 DEF k
    <3>2. client_state' \in [Cids -> SUBSET Tids] /\ notification' \in [Badges -> BOOLEAN]
      BY <2>1, <3>1, Signalled
    <3> QED BY <1>1, <1>3, <2>1, <2>3, <3>2 DEF TypeOK
  <2> QED BY <2>3, <2>5, <2>6, <2>7 DEF IInv
<1> QED BY <1>2, <1>3 DEF the_timer_oneshot_absolute

(* The calls that set a timer ahead, and the one that stops it.                 *)
LEMMA CallKeepsInv == ASSUME IInv, NEW b \in Badges, Call(b) PROVE IInv'
<1>1. now \in Nat /\ MaxTime \in Nat /\ Delays \subseteq Nat \ {0}
  BY TimesAssumption DEF IInv, TypeOK
<1>2. PICK tid \in -1..timers_per_client :
         \/ \E ns \in Delays : the_timer_oneshot_relative(b, tid, ns)
         \/ \E ns \in Delays : the_timer_periodic(b, tid, ns)
         \/ \E ns \in 0..MaxTime : the_timer_oneshot_absolute(b, tid, ns)
         \/ the_timer_stop(b, tid)
  BY DEF Call
<1>3. ValidTid(tid) => tid \in Tids
  BY TimersAssumption DEF ValidTid, Tids
<1>4. ASSUME NEW ns \in Delays, the_timer_oneshot_relative(b, tid, ns) PROVE IInv'
  <2>1. now + ns \in Nat
    BY <1>1
  <2> QED BY <1>3, <1>4, <2>1, SetIsTimeout, RegisterKeepsInv
          DEF the_timer_oneshot_relative, Register
<1>5. ASSUME NEW ns \in Delays, the_timer_periodic(b, tid, ns) PROVE IInv'
  <2>1. now + ns \in Nat
    BY <1>1
  <2> QED BY <1>3, <1>5, <2>1, SetIsTimeout, RegisterKeepsInv
          DEF the_timer_periodic, Register
<1>6. ASSUME NEW ns \in 0..MaxTime, the_timer_oneshot_absolute(b, tid, ns) PROVE IInv'
  BY <1>1, <1>6, AbsoluteKeepsInv
<1>7. ASSUME the_timer_stop(b, tid) PROVE IInv'
  BY <1>3, <1>7, NeverIsTimeout, RegisterKeepsInv DEF the_timer_stop, Unregistered
<1> QED BY <1>2, <1>4, <1>5, <1>6, <1>7

(* Every step keeps the inductive invariant.                                  *)
LEMMA NextInv == IInv /\ [Next]_vars => IInv'
<1> SUFFICES ASSUME IInv, [Next]_vars PROVE IInv'
  OBVIOUS
<1> USE DEF IInv
<1>1. ASSUME NEW b \in Badges, Wake(b) PROVE IInv'
  BY <1>1 DEF Wake, history, TypeOK, OwnTimers, ReportsExpired, Wakeable
<1>2. ASSUME NEW b \in Badges, Sleep(b) PROVE IInv'
  BY <1>2 DEF Sleep, server, history, TypeOK, OwnTimers, ReportsExpired, Wakeable
<1>3. ASSUME NEW b \in Badges, Collect(b) PROVE IInv'
  <2>1. ASSUME NEW c \in Badges, c # b
        PROVE  client_state'[c - 1] = client_state[c - 1]
    <3>1. c - 1 # b - 1
      BY <2>1, BadgeIsCid
    <3> QED BY <1>3, <3>1, BadgeIsCid DEF Collect, the_timer_completed, TypeOK
  <2>2. client_state'[b - 1] = {}
    BY <1>3, BadgeIsCid DEF Collect, the_timer_completed, TypeOK
  <2>3. TypeOK' /\ OwnTimers'
    BY <1>3 DEF Collect, the_timer_completed, TypeOK, OwnTimers
  <2>4. ReportsExpired' /\ Wakeable'
    BY <1>3, <2>1, <2>2
       DEF Collect, the_timer_completed, TypeOK, ReportsExpired, Wakeable
  <2> QED BY <2>3, <2>4
<1>4. ASSUME NEW b \in Badges, Call(b) PROVE IInv'
  BY <1>4, CallKeepsInv
<1>5. CASE time_server_ltimer_handle
  BY <1>5, HandleKeepsInv
<1>6. CASE Tick
  BY <1>6, TimesAssumption DEF Tick, server, history, TypeOK, OwnTimers, ReportsExpired, Wakeable
<1>7. CASE UNCHANGED vars
  BY <1>7 DEF vars, TypeOK, OwnTimers, ReportsExpired, Wakeable
<1> QED BY <1>1, <1>2, <1>3, <1>4, <1>5, <1>6, <1>7 DEF Next

(* The inductive invariant holds in every reachable state.                    *)
LEMMA Invariance == Spec => []IInv
BY InitInv, NextInv, PTL DEF Spec

-------------------------------------------------------------------------------
(* The server's tables keep their types: masks hold valid timers only, and      *)
(* every token lies in the table that tm_init allocated.                        *)
THEOREM TypeCorrect == Spec => []TypeOK
<1>1. IInv => TypeOK
  BY DEF IInv
<1> QED BY <1>1, Invariance, PTL

(* A timer's entry in the time manager is what its own client last asked for.   *)
THEOREM TimersIsolated == Spec => []OwnTimers
<1>1. IInv => OwnTimers
  BY DEF IInv
<1> QED BY <1>1, Invariance, PTL

(* completed() reports the client's own timers that expired since its last      *)
(* call: all of them, once.                                                     *)
THEOREM CompletionsExact == Spec => []ReportsExpired
<1>1. IInv => ReportsExpired
  BY DEF IInv
<1> QED BY <1>1, Invariance, PTL

(* No client sleeps unsignalled while it has a completion to collect.           *)
THEOREM NoSleepThrough == Spec => []Wakeable
<1>1. IInv => Wakeable
  BY DEF IInv
<1> QED BY <1>1, Invariance, PTL
===============================================================================
