------------------------------- MODULE EthAsync -------------------------------
(* remote-drivers/picotcp-ethernet-async: a picoTCP stack (client.c) and the     *)
(* driver of a network card (server.c) in two components, with a virtqueue of    *)
(* buffers for each direction. Neither end ever waits for the other: each leaves *)
(* flags for itself and signals the other's event loop.                          *)
(*                                                                               *)
(* Each component has a single thread, the event loop of                         *)
(* templates/seL4SingleThreadedComponent.template.c: a notification runs the     *)
(* handlers of its badges and then those of badge 0 (notify_client,              *)
(* notify_server), a call does not. The steps are those the other end can see.   *)
(* notify_server counts as the last handler registered, as its late registration *)
(* intends; before the tick's, it would serve what this sends a tick later.      *)
(* Outside the repository: the virtqueues, a queue of offered (available) and    *)
(* one of returned (used) buffers; the card and its driver, which handles        *)
(* everything the card has done when it is called; the stack.                    *)
EXTENDS Integers, FiniteSets, SequencesExt

CONSTANTS
    NUM_RX_BUFS, NUM_TX_BUFS,   \* 254 each, of 512 entries of a virtqueue
    RxRing, TxRing,             \* descriptors of the card's rings
    Frames, Packets,            \* what is received and what is sent
    LoopScore,                  \* frames a tick of the stack may fetch
    None                        \* no frame: the length 0 of a dropped one

ASSUME AsyncAssumption ==
    /\ NUM_RX_BUFS \in Nat \ {0} /\ NUM_TX_BUFS \in Nat \ {0}
    /\ RxRing \in Nat \ {0} /\ TxRing \in Nat \ {0} /\ LoopScore \in Nat \ {0}
    /\ None \notin Frames \cup Packets

RxBufs == 1..NUM_RX_BUFS
TxBufs == 1..NUM_TX_BUFS

VARIABLES
    rx_avail, rx_used,      \* rx_virtqueue: buffers
    tx_avail, tx_used,      \* tx_virtqueue: buffers
    rxData, txData,         \* what the buffers hold, while it matters
    work,                   \* the server's thread: what is left to do
    server_action, blocked_tx, no_rx_bufs,
    server_signals,         \* pending badges: "irq", "tx"
    client,                 \* the client's thread: "init", "wait", "stack"
    num_tx,                 \* buffers 1..num_tx have never been used
    client_action,
    ticks, loop_score,      \* further ticks of the stack, frames this one may fetch
    client_signals,         \* pending badges: "eth", "tick"
    nicRx, nicTx,           \* buffers in the card's rings, oldest first
    arrived,                \* per buffer of nicRx that the card has filled: the frame,
                            \* and whether it is the frame's last buffer
    sent                    \* how many of nicTx the card has sent

rings == <<rx_avail, rx_used, tx_avail, tx_used, rxData, txData>>
flags == <<server_action, blocked_tx, no_rx_bufs>>
card == <<nicRx, nicTx, arrived, sent>>
stack == <<client, num_tx, client_action, ticks, loop_score>>
signals == <<server_signals, client_signals>>
vars == <<rings, work, flags, stack, signals, card>>

-------------------------------------------------------------------------------
(* server.c                                                                      *)

Doing(task) == work # <<>> /\ Head(work) = task
(* The task at hand is over, and others come first.                              *)
Then(tasks) == work' = tasks \o Tail(work)
Done == Then(<<>>)

(* run: a notification wakes the thread.                                         *)
server_run ==
    /\ work = <<>> /\ server_signals # {}
    /\ server_signals' = {}
    /\ work' = (IF "irq" \in server_signals THEN <<"complete", "fill">> ELSE <<>>)
               \o (IF "tx" \in server_signals THEN <<"handle">> ELSE <<>>)
               \o <<"notify">>
    /\ UNCHANGED <<rings, flags, stack, client_signals, card>>

(* The card leaves a frame in one buffer or in two: those of the oldest frame.   *)
num_bufs == IF Head(arrived).last THEN 1 ELSE 2
cookies == SubSeq(nicRx, 1, num_bufs)

(* The descriptors of its buffers are free again.                                *)
Released ==
    /\ nicRx' = SubSeq(nicRx, num_bufs + 1, Len(nicRx))
    /\ arrived' = SubSeq(arrived, num_bufs + 1, Len(arrived))

\* Mutant: a frame in several buffers is not dropped.
eth_rx_complete_whole ==
    /\ Doing("complete") /\ arrived # <<>>
    /\ rx_used' = rx_used \o cookies
    /\ rxData' = [b \in RxBufs |-> IF Contains(cookies, b) THEN Head(arrived).frame ELSE rxData[b]]
    /\ Released
    /\ server_action' = TRUE
    /\ UNCHANGED <<rx_avail, tx_avail, tx_used, txData, work, blocked_tx, no_rx_bufs,
                   stack, signals, nicTx, sent>>

(* One frame, in one buffer; a frame in several is dropped, and its buffers go   *)
(* back with length 0.                                                           *)
eth_rx_complete ==
    /\ Doing("complete") /\ arrived # <<>>
    /\ rx_used' = rx_used \o cookies
    /\ rxData' = [b \in RxBufs |-> IF ~Contains(cookies, b) THEN rxData[b]
                                   ELSE IF num_bufs = 1 THEN Head(arrived).frame ELSE None]
    /\ Released
    /\ server_action' = TRUE
    /\ UNCHANGED <<rx_avail, tx_avail, tx_used, txData, work, blocked_tx, no_rx_bufs,
                   stack, signals, nicTx, sent>>

\* Mutant: the count of what the card has sent is not taken down.
eth_tx_complete_again ==
    /\ Doing("complete") \/ (Doing("drain") /\ tx_avail # <<>>)
    /\ sent > 0
    /\ tx_used' = Append(tx_used, Head(nicTx))
    /\ txData' = [txData EXCEPT ![Head(nicTx)] = None]
    /\ nicTx' = Tail(nicTx)
    /\ sent' = sent
    /\ server_action' = (server_action \/ blocked_tx)
    /\ UNCHANGED <<rx_avail, rx_used, tx_avail, rxData, work, blocked_tx,
                   no_rx_bufs, stack, signals, nicRx, arrived>>

(* Called by the interrupt, by raw_poll, and by raw_tx when it makes room.       *)
eth_tx_complete ==
    /\ Doing("complete") \/ (Doing("drain") /\ tx_avail # <<>>)
    /\ sent > 0
    /\ tx_used' = Append(tx_used, Head(nicTx))
    /\ txData' = [txData EXCEPT ![Head(nicTx)] = None]
    /\ nicTx' = Tail(nicTx)
    /\ sent' = sent - 1
    /\ server_action' = (server_action \/ blocked_tx)
    /\ UNCHANGED <<rx_avail, rx_used, tx_avail, rxData, work, blocked_tx,
                   no_rx_bufs, stack, signals, nicRx, arrived>>

raw_completed ==
    /\ Doing("complete") /\ arrived = <<>> /\ sent = 0
    /\ Done
    /\ UNCHANGED <<rings, flags, stack, signals, card>>

(* The driver fills its ring, until it is full or this fails.                    *)
eth_allocate_rx_buf ==
    /\ Doing("fill") /\ Len(nicRx) < RxRing
    /\ IF rx_avail = <<>>
       THEN no_rx_bufs' = TRUE /\ Done /\ UNCHANGED <<rx_avail, nicRx>>
       ELSE /\ nicRx' = Append(nicRx, Head(rx_avail))
            /\ rx_avail' = Tail(rx_avail)
            /\ no_rx_bufs' = FALSE
            /\ UNCHANGED work
    /\ UNCHANGED <<rx_used, tx_avail, tx_used, rxData, txData, server_action, blocked_tx,
                   stack, signals, nicTx, arrived, sent>>

raw_filled ==
    /\ Doing("fill") /\ Len(nicRx) = RxRing
    /\ Done
    /\ UNCHANGED <<rings, flags, stack, signals, card>>

(* virt_queue_handle_irq up to its loop: raw_poll, if buffers were wanting.      *)
virt_queue_handle_irq ==
    /\ Doing("handle")
    /\ Then(IF no_rx_bufs THEN <<"complete", "fill", "drain">> ELSE <<"drain">>)
    /\ UNCHANGED <<rings, flags, stack, signals, card>>

(* Its loop ends when the queue is empty.                                        *)
drained ==
    /\ Doing("drain") /\ tx_avail = <<>>
    /\ Done
    /\ UNCHANGED <<rings, flags, stack, signals, card>>

\* Mutant: the buffer is left in the queue.
raw_tx_enqueued_kept ==
    /\ Doing("drain") /\ tx_avail # <<>> /\ Len(nicTx) < TxRing
    /\ nicTx' = Append(nicTx, Head(tx_avail))
    /\ blocked_tx' = FALSE
    /\ UNCHANGED <<rings, work, server_action, no_rx_bufs, stack, signals, nicRx, arrived, sent>>

(* raw_tx is called with the oldest packet, which stays in the queue until it    *)
(* has been enqueued.                                                            *)
raw_tx_enqueued ==
    /\ Doing("drain") /\ tx_avail # <<>> /\ Len(nicTx) < TxRing
    /\ nicTx' = Append(nicTx, Head(tx_avail))
    /\ tx_avail' = Tail(tx_avail)
    /\ blocked_tx' = FALSE
    /\ UNCHANGED <<rx_avail, rx_used, tx_used, rxData, txData, work, server_action,
                   no_rx_bufs, stack, signals, nicRx, arrived, sent>>

(* raw_tx fails for want of room in the ring: the loop ends.                     *)
raw_tx_refused ==
    /\ Doing("drain") /\ tx_avail # <<>> /\ Len(nicTx) = TxRing
    /\ blocked_tx' = TRUE
    /\ Done
    /\ UNCHANGED <<rings, server_action, no_rx_bufs, stack, signals, card>>

\* Mutant: a blocked transmission is not taken up.
notify_client_now ==
    /\ Doing("notify") \/ Doing("signal")
    /\ client_signals' = client_signals \cup IF server_action THEN {"eth"} ELSE {}
    /\ server_action' = FALSE
    /\ Done
    /\ UNCHANGED <<rings, blocked_tx, no_rx_bufs, stack, server_signals, card>>

(* notify_client, badge 0: first a blocked transmission is taken up.             *)
notify_client_blocked ==
    /\ Doing("notify") /\ server_action /\ blocked_tx
    /\ Then(<<"handle", "signal">>)
    /\ UNCHANGED <<rings, flags, stack, signals, card>>

notify_client ==
    /\ Doing("signal") \/ (Doing("notify") /\ ~(server_action /\ blocked_tx))
    /\ client_signals' = client_signals \cup IF server_action THEN {"eth"} ELSE {}
    /\ server_action' = FALSE
    /\ Done
    /\ UNCHANGED <<rings, blocked_tx, no_rx_bufs, stack, server_signals, card>>

-------------------------------------------------------------------------------
(* client.c                                                                      *)

Offered == Len(rx_avail) + Len(nicRx) + Len(rx_used)

(* picotcp_ethernet_async_client_init: the buffers are offered one by one, while *)
(* the server starts, and then the server is notified.                           *)
client_init ==
    /\ client = "init"
    /\ IF Offered < NUM_RX_BUFS
       THEN /\ rx_avail' = Append(rx_avail, Offered + 1)
            /\ UNCHANGED <<client, server_signals>>
       ELSE /\ client' = "wait"
            /\ server_signals' = server_signals \cup {"tx"}
            /\ UNCHANGED rx_avail
    /\ UNCHANGED <<rx_used, tx_avail, tx_used, rxData, txData, work, flags, num_tx,
                   client_action, ticks, loop_score, client_signals, card>>

(* run: a notification wakes the thread; irq_from_ethernet and                   *)
(* stack_tick_callback each let the stack work.                                  *)
client_run ==
    /\ client = "wait" /\ client_signals # {}
    /\ client' = "stack"
    /\ ticks' = Cardinality(client_signals) - 1
    /\ loop_score' = LoopScore
    /\ client_signals' = {}
    /\ UNCHANGED <<rings, work, flags, num_tx, client_action, server_signals, card>>

pico_stack_tick ==
    /\ client = "stack" /\ loop_score = 0 /\ ticks > 0
    /\ ticks' = ticks - 1
    /\ loop_score' = LoopScore
    /\ UNCHANGED <<rings, work, flags, client, num_tx, client_action, signals, card>>

(* pico_eth_send: the packet goes into a buffer that has come back, or else into *)
(* a new one; without either it is refused, and nothing changes. The stack sends *)
(* when it works, and when the thread that waits serves a call.                  *)
Send(b, p) ==
    /\ txData' = [txData EXCEPT ![b] = p]
    /\ tx_avail' = Append(tx_avail, b)
    /\ client_action' = TRUE

\* Mutant: num_tx is not counted down.
pico_eth_send_again(p) ==
    /\ client # "init"
    /\ \/ /\ tx_used # <<>>
          /\ tx_used' = Tail(tx_used)
          /\ Send(Head(tx_used), p)
          /\ UNCHANGED num_tx
       \/ /\ tx_used = <<>> /\ num_tx # 0
          /\ Send(num_tx, p)
          /\ UNCHANGED <<tx_used, num_tx>>
    /\ UNCHANGED <<rx_avail, rx_used, rxData, work, flags, client, ticks, loop_score, signals, card>>

pico_eth_send(p) ==
    /\ client # "init"
    /\ \/ /\ tx_used # <<>>
          /\ tx_used' = Tail(tx_used)
          /\ Send(Head(tx_used), p)
          /\ UNCHANGED num_tx
       \/ /\ tx_used = <<>> /\ num_tx # 0
          /\ num_tx' = num_tx - 1
          /\ Send(num_tx, p)
          /\ UNCHANGED tx_used
    /\ UNCHANGED <<rx_avail, rx_used, rxData, work, flags, client, ticks, loop_score, signals, card>>

(* A round of pico_eth_poll: the oldest frame goes to the stack, and its buffer, *)
(* by pico_free_buf, back to the server.                                         *)
pico_eth_poll ==
    /\ client = "stack" /\ loop_score > 0 /\ rx_used # <<>>
    /\ loop_score' = loop_score - 1
    /\ rx_used' = Tail(rx_used)
    /\ rx_avail' = Append(rx_avail, Head(rx_used))
    /\ rxData' = [rxData EXCEPT ![Head(rx_used)] = None]
    /\ UNCHANGED <<tx_avail, tx_used, txData, work, flags, client, num_tx,
                   client_action, ticks, signals, card>>

(* Its other ends: nothing there, or the stack does not take the frame, which    *)
(* then stays where it is.                                                       *)
pico_eth_poll_break ==
    /\ client = "stack" /\ loop_score > 0
    /\ rx_used # <<>> => rxData[Head(rx_used)] # None
    /\ loop_score' = 0
    /\ UNCHANGED <<rings, work, flags, client, num_tx, client_action, ticks, signals, card>>

\* Mutant: the flag is cleared without a notification when the server has a buffer to
\* send already.
notify_server_seldom ==
    /\ client = "stack" /\ loop_score = 0 /\ ticks = 0
    /\ client' = "wait"
    /\ client_action' = FALSE
    /\ server_signals' = IF client_action /\ Len(tx_avail) = 1
                         THEN server_signals \cup {"tx"} ELSE server_signals
    /\ UNCHANGED <<rings, work, flags, num_tx, ticks, loop_score, client_signals, card>>

(* notify_server, badge 0, which a call does not run, and back to waiting.       *)
notify_server ==
    /\ client = "stack" /\ loop_score = 0 /\ ticks = 0
    /\ client' = "wait"
    /\ client_action' = FALSE
    /\ server_signals' = IF client_action THEN server_signals \cup {"tx"} ELSE server_signals
    /\ UNCHANGED <<rings, work, flags, num_tx, ticks, loop_score, client_signals, card>>

(* The 10 ms timer of init_pico_post.                                            *)
tick ==
    /\ client # "init" /\ "tick" \notin client_signals
    /\ client_signals' = client_signals \cup {"tick"}
    /\ UNCHANGED <<rings, work, flags, stack, server_signals, card>>

-------------------------------------------------------------------------------
(* The card: what it has done it announces by its interrupt.                     *)
Interrupt == server_signals' = server_signals \cup {"irq"}

receive(f) ==
    /\ \E n \in 1..2 :
          /\ Len(arrived) + n <= Len(nicRx)
          /\ arrived' = arrived \o [k \in 1..n |-> [frame |-> f, last |-> k = n]]
    /\ Interrupt
    /\ UNCHANGED <<rings, work, flags, stack, client_signals, nicRx, nicTx, sent>>

send ==
    /\ sent < Len(nicTx)
    /\ sent' = sent + 1
    /\ Interrupt
    /\ UNCHANGED <<rings, work, flags, stack, client_signals, nicRx, nicTx, arrived>>

-------------------------------------------------------------------------------
(* The server starts with the raw_poll of its initialisation.                    *)
Init ==
    /\ rx_avail = <<>> /\ rx_used = <<>> /\ tx_avail = <<>> /\ tx_used = <<>>
    /\ rxData = [b \in RxBufs |-> None] /\ txData = [b \in TxBufs |-> None]
    /\ work = <<"complete", "fill">>
    /\ server_action = FALSE /\ blocked_tx = FALSE /\ no_rx_bufs = FALSE
    /\ server_signals = {} /\ client_signals = {}
    /\ client = "init" /\ num_tx = NUM_TX_BUFS /\ client_action = FALSE
    /\ ticks = 0 /\ loop_score = 0
    /\ nicRx = <<>> /\ nicTx = <<>> /\ arrived = <<>> /\ sent = 0

Server ==
    \/ server_run
    \/ eth_rx_complete
    \/ eth_tx_complete
    \/ raw_completed
    \/ eth_allocate_rx_buf
    \/ raw_filled
    \/ virt_queue_handle_irq
    \/ drained
    \/ raw_tx_enqueued
    \/ raw_tx_refused
    \/ notify_client_blocked
    \/ notify_client

Next ==
    \/ Server
    \/ client_init
    \/ client_run
    \/ pico_stack_tick
    \/ \E p \in Packets : pico_eth_send(p)
    \/ pico_eth_poll
    \/ pico_eth_poll_break
    \/ notify_server
    \/ tick
    \/ \E f \in Frames : receive(f)
    \/ send

(* The threads and the timer run, the card sends what it was given, and the      *)
(* stack does not refuse every frame. Nobody needs to send or receive anything.  *)
Fairness ==
    /\ WF_vars(Server) /\ WF_vars(send) /\ WF_vars(tick)
    /\ WF_vars(client_init) /\ WF_vars(client_run) /\ WF_vars(pico_stack_tick)
    /\ WF_vars(notify_server) /\ WF_vars(pico_eth_poll_break)
    /\ SF_vars(pico_eth_poll)

Spec == Init /\ [][Next]_vars /\ Fairness

-------------------------------------------------------------------------------
Tasks == {"complete", "fill", "handle", "drain", "notify", "signal"}

TypeOK ==
    /\ rx_avail \in Seq(RxBufs) /\ rx_used \in Seq(RxBufs) /\ nicRx \in Seq(RxBufs)
    /\ tx_avail \in Seq(TxBufs) /\ tx_used \in Seq(TxBufs) /\ nicTx \in Seq(TxBufs)
    /\ rxData \in [RxBufs -> Frames \cup {None}]
    /\ txData \in [TxBufs -> Packets \cup {None}]
    /\ arrived \in Seq([frame : Frames, last : BOOLEAN])
    /\ Len(arrived) <= Len(nicRx) /\ Len(nicRx) <= RxRing
    /\ sent \in 0..Len(nicTx) /\ Len(nicTx) <= TxRing
    /\ work \in Seq(Tasks)
    /\ server_action \in BOOLEAN /\ blocked_tx \in BOOLEAN /\ no_rx_bufs \in BOOLEAN
    /\ client_action \in BOOLEAN
    /\ server_signals \subseteq {"irq", "tx"} /\ client_signals \subseteq {"eth", "tick"}
    /\ client \in {"init", "wait", "stack"}
    /\ num_tx \in 0..NUM_TX_BUFS /\ ticks \in 0..1 /\ loop_score \in 0..LoopScore

(* Every receive buffer the client has offered is in one place, whatever its     *)
(* frame has come to; and every transmit buffer is new, or in one place: a       *)
(* refused packet is neither lost nor sent twice.                                *)
InOnePlace ==
    LET rx == rx_avail \o nicRx \o rx_used
        tx == [i \in 1..num_tx |-> i] \o tx_avail \o nicTx \o tx_used
    IN  /\ \A b \in RxBufs : client # "init" => Contains(rx, b)
        /\ \A b \in TxBufs : Contains(tx, b)
        /\ IsInjective(rx) /\ IsInjective(tx)

(* No packet is forgotten: while the server waits, one that is still queued is   *)
(* announced to it, or will be when the client next waits for a notification, or *)
(* is noted as blocked, by packets whose completion will take it up.             *)
TxRemembered ==
    work = <<>> /\ tx_avail # <<>> =>
        "tx" \in server_signals \/ client_action \/ (blocked_tx /\ nicTx # <<>>)

(* Room in the card's ring is not forgotten: the next interrupt, or any          *)
(* notification of the client, lets the driver fill it.                          *)
RefillRemembered == work = <<>> /\ Len(nicRx) < RxRing => no_rx_bufs

(* Nothing that waits is forgotten, in either direction.                         *)
Remembered == TxRemembered /\ RefillRemembered

(* Each direction is an EthFrames with one client: a bounded queue of frames     *)
(* that are accepted by the card and taken by the stack, and one of packets      *)
(* accepted from the stack and taken by the card, unaltered, in order, once.     *)
Reals == {i \in 1..Len(rx_used) : rxData[rx_used[i]] # None}
Rank(i) == Cardinality({j \in Reals : j <= i})
RealFrame(k) == rxData[rx_used[CHOOSE i \in Reals : Rank(i) = k]]
Received == INSTANCE EthFrames WITH
    NumClients <- 1, Capacity <- NUM_RX_BUFS, Group <- None,
    FrameDst <- [f \in Frames |-> None], MacOf <- [c \in {0} |-> None],
    queue <- [c \in {0} |-> [k \in 1..Cardinality(Reals) |-> RealFrame(k)]]
Transmitted == INSTANCE EthFrames WITH
    NumClients <- 1, Capacity <- NUM_TX_BUFS, Group <- None, Frames <- Packets,
    FrameDst <- [p \in Packets |-> None], MacOf <- [c \in {0} |-> None],
    queue <- [c \in {0} |-> [i \in 1..Len(tx_avail) |-> txData[tx_avail[i]]]]
DeliversFrames == Received!Spec
DeliversPackets == Transmitted!Spec

(* What the stack hands over is sent, although the ring may be full, and the     *)
(* packet may come from a call, after which the server is not notified: the      *)
(* queue is empty again and again, or else goes on moving.                       *)
PacketSent == []<>(tx_avail = <<>>) \/ []<><<raw_tx_enqueued>>_vars
===============================================================================
