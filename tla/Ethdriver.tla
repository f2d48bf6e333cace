----------------------------- MODULE Ethdriver -----------------------------
(***************************************************************************)
(* The Ethdriver component (components/Ethdriver/src/ethdriver.c): one     *)
(* network card shared by several clients.                                 *)
(*                                                                         *)
(* The component owns RX_BUFS receive buffers, kept in a LIFO pool, lent   *)
(* to the card, and queued per client in a cyclic array until the client   *)
(* fetches the frame with the RPC client_rx.  Each client has its own LIFO *)
(* pool of transmit buffers, which are lent to the card by client_tx and   *)
(* come back through the callback eth_tx_complete.                         *)
(*                                                                         *)
(* The component has a single thread: an RPC and an interrupt exclude each *)
(* other.  An interrupt runs the card driver (libethdrivers, not part of   *)
(* this repository), which calls back: first eth_rx_complete and           *)
(* eth_tx_complete for what the card has finished, then                    *)
(* eth_allocate_rx_buf until its ring is full or the pool is empty.        *)
(* raw_tx, called from client_tx, may call eth_tx_complete as well.        *)
(* `phase' says which of these calls the thread is executing.              *)
(***************************************************************************)
EXTENDS Integers, Sequences, FiniteSets

CONSTANTS
  NumClients,      \* num_clients, the number of badges of the interface
  RX_BUFS,         \* 256 in the source
  CLIENT_RX_BUFS,  \* 128: slots of a client's cyclic queue
  CLIENT_TX_BUFS,  \* 128: transmit buffers of a client
  RxRing, TxRing,  \* descriptors of the card's rings (external)
  Frames,          \* what a received frame may be
  FrameDst,        \* the destination address each frame carries
  Packets,         \* what a client may send
  MacOf,           \* the mac each client is given by server_init
  Group,           \* a broadcast address, or a multicast IP header
  None             \* no frame, no buffer

Clients == 0 .. NumClients - 1
RxBufs  == 0 .. RX_BUFS - 1
RxSlots == 0 .. CLIENT_RX_BUFS - 1
TxSlots == 0 .. CLIENT_TX_BUFS - 1
TxBufs  == Clients \X TxSlots    \* clients[c].tx_mem[i]; b[1] is buf->client

ASSUME EthAssumption ==
  /\ NumClients \in Nat \ {0}
  /\ RX_BUFS \in Nat \ {0}
  /\ CLIENT_RX_BUFS \in Nat \ {0}
  /\ CLIENT_TX_BUFS \in Nat \ {0}
  /\ RxRing \in Nat \ {0}
  /\ TxRing \in Nat \ {0}
  /\ None \notin Frames \cup Packets \cup RxBufs \cup TxBufs

VARIABLES
  phase,            \* what the thread executes: see Phases
  done_init,
  rx_buf_pool,      \* rx_buf_pool[0 .. num_rx_bufs - 1], the top is the last
  nicRx,            \* receive buffers in the card's ring
  rxData,           \* the frame each queued buffer holds
  pending_rx, pending_rx_head, pending_rx_tail,
  should_notify,
  ntfn,             \* client_emit: the client's notification is pending
  pending_tx, num_tx,
  nicTx,            \* transmit buffers in the card's ring
  txData,           \* the packet each transmit buffer holds
  txBuf,            \* the buffer raw_tx was called with
  reclaimed         \* raw_tx has called eth_tx_complete

rxVars == << rx_buf_pool, nicRx, rxData, pending_rx, pending_rx_head,
             pending_rx_tail, should_notify, ntfn >>
txVars == << pending_tx, num_tx, nicTx, txData, txBuf, reclaimed >>
vars   == << phase, done_init, rxVars, txVars >>

(***************************************************************************)
(* "idle": waiting for an RPC or an interrupt.  "complete" and "fill": in  *)
(* the interrupt handler, or in the raw_poll of server_init.  "tx": in     *)
(* the raw_tx that client_tx called.                                       *)
(***************************************************************************)
Phases == {"idle", "complete", "fill", "tx"}

-----------------------------------------------------------------------------
(* A client's queue: the slots from tail up to, not including, head.       *)

NextSlot(i) == (i + 1) % CLIENT_RX_BUFS

Empty(c) == pending_rx_head[c] = pending_rx_tail[c]
Full(c)  == NextSlot(pending_rx_head[c]) = pending_rx_tail[c]

InWindow(i, tail, head) ==
  IF tail <= head THEN tail <= i /\ i < head ELSE tail <= i \/ i < head

Queued(c) ==
  {i \in RxSlots : InWindow(i, pending_rx_tail[c], pending_rx_head[c])}

-----------------------------------------------------------------------------
(* Receiving.  The content of a buffer that is in the pool or in the       *)
(* card's ring is left unspecified: None.                                  *)

num_rx_bufs == Len(rx_buf_pool)

(* detect_client: the first client whose mac is the destination.           *)
Matches(f)       == {c \in Clients : MacOf[c] = FrameDst[f]}
detect_client(f) == CHOOSE c \in Matches(f) : \A d \in Matches(f) : c <= d

(* The loop that copies a broadcast to the clients 1, 2, ...: those with   *)
(* room, in order, as long as the pool lasts.  CopyRank(c) is the number   *)
(* of buffers the clients before c want.                                   *)
WithRoom     == {c \in Clients \ {0} : ~Full(c)}
CopyRank(c)  == Cardinality({d \in WithRoom : d < c})
CopiedTo     == {c \in WithRoom : CopyRank(c) < num_rx_bufs}
CopyBuf(c)   == rx_buf_pool[num_rx_bufs - CopyRank(c)]

(* give_client_buf, for the set To of clients, c getting the buffer buf[c] *)
give_client_buf(To, buf) ==
  /\ pending_rx' =
       [c \in Clients |->
          IF c \in To THEN [pending_rx[c] EXCEPT ![pending_rx_head[c]] = buf[c]]
                      ELSE pending_rx[c]]
  /\ pending_rx_head' =
       [c \in Clients |-> IF c \in To THEN NextSlot(pending_rx_head[c])
                                      ELSE pending_rx_head[c]]
  /\ ntfn' = [c \in Clients |-> ntfn[c] \/ (c \in To /\ should_notify[c])]
  /\ should_notify' = [c \in Clients |-> should_notify[c] /\ c \notin To]

(* Mutant: no return after give_client_buf, into the error path.           *)
RxUnicastFallsThrough(b, f) ==
  LET c == detect_client(f) IN
  /\ Matches(f) # {}
  /\ rx_buf_pool' = Append(rx_buf_pool, b)
  /\ IF Full(c)
     THEN UNCHANGED << rxData, pending_rx, pending_rx_head, ntfn, should_notify >>
     ELSE /\ give_client_buf({c}, [d \in {c} |-> b])
          /\ rxData' = [rxData EXCEPT ![b] = f]

(* eth_rx_complete for one buffer b in which the card has put the frame f, *)
(* when the frame is for one client.                                       *)
RxUnicast(b, f) ==
  LET c == detect_client(f) IN
  /\ Matches(f) # {}
  /\ IF Full(c)
     THEN /\ rx_buf_pool' = Append(rx_buf_pool, b)
          /\ UNCHANGED << rxData, pending_rx, pending_rx_head, ntfn, should_notify >>
     ELSE /\ give_client_buf({c}, [d \in {c} |-> b])
          /\ rxData' = [rxData EXCEPT ![b] = f]
          /\ UNCHANGED rx_buf_pool

(* Mutant: the buffer itself is dropped when client 0 has no room.         *)
RxGroupDropsLast(b, f) ==
  LET To   == IF Full(0) THEN CopiedTo ELSE CopiedTo \cup {0}
      buf  == [c \in To |-> IF c = 0 THEN b ELSE CopyBuf(c)]
  IN
  /\ Matches(f) = {}
  /\ FrameDst[f] = Group
  /\ give_client_buf(To, buf)
  /\ rx_buf_pool' = SubSeq(rx_buf_pool, 1, num_rx_bufs - Cardinality(CopiedTo))
  /\ rxData' = [x \in RxBufs |-> IF \E c \in To : x = buf[c] THEN f ELSE rxData[x]]

(* ... when it is for everyone: a copy for each other client, the buffer   *)
(* itself for client 0, or back to the pool if client 0 has no room.       *)
RxGroup(b, f) ==
  LET To   == IF Full(0) THEN CopiedTo ELSE CopiedTo \cup {0}
      buf  == [c \in To |-> IF c = 0 THEN b ELSE CopyBuf(c)]
      left == SubSeq(rx_buf_pool, 1, num_rx_bufs - Cardinality(CopiedTo))
  IN
  /\ Matches(f) = {}
  /\ FrameDst[f] = Group
  /\ give_client_buf(To, buf)
  /\ rx_buf_pool' = IF Full(0) THEN Append(left, b) ELSE left
  /\ rxData' = [x \in RxBufs |-> IF \E c \in To : x = buf[c] THEN f ELSE rxData[x]]

(* ... when it is for nobody: the buffer goes back to the pool.            *)
RxReject(b, f) ==
  /\ Matches(f) = {}
  /\ FrameDst[f] # Group
  /\ rx_buf_pool' = Append(rx_buf_pool, b)
  /\ UNCHANGED << rxData, pending_rx, pending_rx_head, ntfn, should_notify >>

eth_rx_complete(b, f) ==
  /\ phase = "complete"
  /\ b \in nicRx
  /\ nicRx' = nicRx \ {b}
  /\ \/ RxUnicast(b, f)
     \/ RxGroup(b, f)
     \/ RxReject(b, f)
  /\ UNCHANGED << phase, done_init, pending_rx_tail, txVars >>

(* eth_rx_complete for a frame spread over two buffers: not supported, the *)
(* buffers go back to the pool in their order.                             *)
eth_rx_complete_chain(a, b) ==
  /\ phase = "complete"
  /\ a \in nicRx /\ b \in nicRx /\ a # b
  /\ nicRx' = nicRx \ {a, b}
  /\ rx_buf_pool' = rx_buf_pool \o << a, b >>
  /\ UNCHANGED << phase, done_init, rxData, pending_rx, pending_rx_head,
                  pending_rx_tail, should_notify, ntfn, txVars >>

(* The driver's refill of its ring with eth_allocate_rx_buf, one buffer.   *)
eth_allocate_rx_buf ==
  /\ phase = "fill"
  /\ num_rx_bufs # 0
  /\ Cardinality(nicRx) < RxRing
  /\ nicRx' = nicRx \cup {rx_buf_pool[num_rx_bufs]}
  /\ rx_buf_pool' = SubSeq(rx_buf_pool, 1, num_rx_bufs - 1)
  /\ UNCHANGED << phase, done_init, rxData, pending_rx, pending_rx_head,
                  pending_rx_tail, should_notify, ntfn, txVars >>

(* Mutants of RxTake: the tail stays; the client is not notified again;    *)
(* the buffer is not returned to the pool; the newest frame is taken.      *)
RxTakeStays(c) ==
  LET b == pending_rx[c][pending_rx_tail[c]] IN
  /\ ~Empty(c)
  /\ rx_buf_pool' = Append(rx_buf_pool, b)
  /\ rxData' = [rxData EXCEPT ![b] = None]
  /\ UNCHANGED << pending_rx_tail, should_notify >>

RxTakeUnarmed(c) ==
  LET b == pending_rx[c][pending_rx_tail[c]] IN
  /\ ~Empty(c)
  /\ pending_rx_tail' = [pending_rx_tail EXCEPT ![c] = NextSlot(pending_rx_tail[c])]
  /\ rx_buf_pool' = Append(rx_buf_pool, b)
  /\ rxData' = [rxData EXCEPT ![b] = None]
  /\ UNCHANGED should_notify

RxTakeLeaks(c) ==
  LET tail == NextSlot(pending_rx_tail[c]) IN
  /\ ~Empty(c)
  /\ pending_rx_tail' = [pending_rx_tail EXCEPT ![c] = tail]
  /\ should_notify' =
       [should_notify EXCEPT ![c] = should_notify[c] \/ tail = pending_rx_head[c]]
  /\ UNCHANGED << rx_buf_pool, rxData >>

RxTakeNewest(c) ==
  LET b    == pending_rx[c][(pending_rx_head[c] - 1) % CLIENT_RX_BUFS]
      tail == NextSlot(pending_rx_tail[c])
  IN
  /\ ~Empty(c)
  /\ pending_rx_tail' = [pending_rx_tail EXCEPT ![c] = tail]
  /\ should_notify' =
       [should_notify EXCEPT ![c] = should_notify[c] \/ tail = pending_rx_head[c]]
  /\ rx_buf_pool' = Append(rx_buf_pool, b)
  /\ rxData' = [rxData EXCEPT ![b] = None]

(* client_rx when the queue holds a frame: the client gets a copy of the   *)
(* oldest, and the buffer goes back to the pool.                           *)
RxTake(c) ==
  LET b    == pending_rx[c][pending_rx_tail[c]]
      tail == NextSlot(pending_rx_tail[c])
  IN
  /\ ~Empty(c)
  /\ pending_rx_tail' = [pending_rx_tail EXCEPT ![c] = tail]
  /\ should_notify' =
       [should_notify EXCEPT ![c] = should_notify[c] \/ tail = pending_rx_head[c]]
  /\ rx_buf_pool' = Append(rx_buf_pool, b)
  /\ rxData' = [rxData EXCEPT ![b] = None]

(* client_rx when it does not: the client is to be notified of the next.   *)
RxNothing(c) ==
  /\ Empty(c)
  /\ should_notify' = [should_notify EXCEPT ![c] = TRUE]
  /\ UNCHANGED << pending_rx_tail, rxData, rx_buf_pool >>

client_rx(c) ==
  /\ phase = "idle"
  /\ done_init
  /\ RxTake(c) \/ RxNothing(c)
  /\ UNCHANGED << phase, done_init, nicRx, pending_rx, pending_rx_head, ntfn, txVars >>

(* What client_rx returns: nothing there, the last frame, or more to come. *)
RxStatus(c) ==
  IF Empty(c) THEN -1
  ELSE IF NextSlot(pending_rx_tail[c]) = pending_rx_head[c] THEN 0 ELSE 1

-----------------------------------------------------------------------------
(* Transmitting.  The content of a free buffer is unspecified: None.       *)

(* Mutant: the buffer is taken from the wrong end of the pool.             *)
client_tx_first(c, p) ==
  /\ phase = "idle"
  /\ done_init
  /\ num_tx[c] # 0
  /\ num_tx' = [num_tx EXCEPT ![c] = num_tx[c] - 1]
  /\ txBuf' = pending_tx[c][0]
  /\ txData' = [txData EXCEPT ![pending_tx[c][0]] = p]
  /\ phase' = "tx"
  /\ UNCHANGED << done_init, rxVars, pending_tx, nicTx, reclaimed >>

(* client_tx up to the call of raw_tx: the top buffer of the client's pool *)
(* is taken and filled.  With an empty pool the packet is dropped, and     *)
(* nothing changes.                                                        *)
client_tx(c, p) ==
  /\ phase = "idle"
  /\ done_init
  /\ num_tx[c] # 0
  /\ num_tx' = [num_tx EXCEPT ![c] = num_tx[c] - 1]
  /\ txBuf' = pending_tx[c][num_tx[c] - 1]
  /\ txData' = [txData EXCEPT ![pending_tx[c][num_tx[c] - 1]] = p]
  /\ phase' = "tx"
  /\ UNCHANGED << done_init, rxVars, pending_tx, nicTx, reclaimed >>

(* Mutant: client_tx frees the buffer although raw_tx has enqueued it.     *)
raw_tx_enqueued_freed ==
  /\ phase = "tx"
  /\ Cardinality(nicTx) < TxRing
  /\ nicTx' = nicTx \cup {txBuf}
  /\ num_tx' = [num_tx EXCEPT ![txBuf[1]] = num_tx[txBuf[1]] + 1]
  /\ phase' = "idle"
  /\ txBuf' = None
  /\ reclaimed' = FALSE
  /\ UNCHANGED << done_init, rxVars, pending_tx, txData >>

(* raw_tx has put the buffer in the card's ring: ETHIF_TX_ENQUEUED.        *)
raw_tx_enqueued ==
  /\ phase = "tx"
  /\ Cardinality(nicTx) < TxRing
  /\ nicTx' = nicTx \cup {txBuf}
  /\ phase' = "idle"
  /\ txBuf' = None
  /\ reclaimed' = FALSE
  /\ UNCHANGED << done_init, rxVars, pending_tx, num_tx, txData >>

(* raw_tx returns ETHIF_TX_FAILED or ETHIF_TX_COMPLETE: client_tx takes    *)
(* the buffer back by moving num_tx over its slot.  A driver that made     *)
(* room in its ring during the call does not fail for want of room.        *)
raw_tx_refused ==
  /\ phase = "tx"
  /\ ~reclaimed
  /\ num_tx' = [num_tx EXCEPT ![txBuf[1]] = num_tx[txBuf[1]] + 1]
  /\ phase' = "idle"
  /\ txBuf' = None
  /\ txData' = [txData EXCEPT ![txBuf] = None]
  /\ UNCHANGED << done_init, rxVars, pending_tx, nicTx, reclaimed >>

(* The card has sent b: called by the interrupt handler and by raw_tx.     *)
eth_tx_complete(b) ==
  LET c == b[1] IN
  /\ phase \in {"complete", "tx"}
  /\ b \in nicTx
  /\ nicTx' = nicTx \ {b}
  /\ pending_tx' = [pending_tx EXCEPT ![c] = [pending_tx[c] EXCEPT ![num_tx[c]] = b]]
  /\ num_tx' = [num_tx EXCEPT ![c] = num_tx[c] + 1]
  /\ txData' = [txData EXCEPT ![b] = None]
  /\ reclaimed' = (phase = "tx")
  /\ UNCHANGED << phase, done_init, rxVars, txBuf >>

-----------------------------------------------------------------------------
(* The thread                                                              *)

(* The card raises its interrupt for a received or a sent frame only: with *)
(* both rings empty there is none.                                         *)
raw_irq ==
  /\ phase = "idle"
  /\ nicRx # {} \/ nicTx # {}
  /\ phase' = "complete"
  /\ UNCHANGED << done_init, rxVars, txVars >>

raw_fill ==
  /\ phase = "complete"
  /\ phase' = "fill"
  /\ UNCHANGED << done_init, rxVars, txVars >>

(* The refill stops with a full ring or an empty pool.  The first one      *)
(* ends the raw_poll of server_init, which then sets the macs and          *)
(* done_init.                                                              *)
raw_done ==
  /\ phase = "fill"
  /\ num_rx_bufs = 0 \/ Cardinality(nicRx) = RxRing
  /\ phase' = "idle"
  /\ done_init' = TRUE
  /\ UNCHANGED << rxVars, txVars >>

(* The client's wait on its notification returns.                          *)
client_wait(c) ==
  /\ ntfn[c]
  /\ ntfn' = [ntfn EXCEPT ![c] = FALSE]
  /\ UNCHANGED << phase, done_init, rx_buf_pool, nicRx, rxData, pending_rx,
                  pending_rx_head, pending_rx_tail, should_notify, txVars >>

(* server_init up to its call of raw_poll.                                 *)
Init ==
  /\ phase = "complete"
  /\ done_init = FALSE
  /\ rx_buf_pool = [i \in 1 .. RX_BUFS |-> i - 1]
  /\ nicRx = {}
  /\ rxData = [b \in RxBufs |-> None]
  /\ pending_rx = [c \in Clients |-> [i \in RxSlots |-> None]]
  /\ pending_rx_head = [c \in Clients |-> 0]
  /\ pending_rx_tail = [c \in Clients |-> 0]
  /\ should_notify = [c \in Clients |-> TRUE]
  /\ ntfn = [c \in Clients |-> FALSE]
  /\ pending_tx = [c \in Clients |-> [i \in TxSlots |-> << c, i >>]]
  /\ num_tx = [c \in Clients |-> CLIENT_TX_BUFS]
  /\ nicTx = {}
  /\ txData = [b \in TxBufs |-> None]
  /\ txBuf = None
  /\ reclaimed = FALSE

Driver ==
  \/ raw_irq
  \/ raw_fill
  \/ raw_done
  \/ eth_allocate_rx_buf
  \/ \E b \in RxBufs, f \in Frames : eth_rx_complete(b, f)
  \/ \E a, b \in RxBufs : eth_rx_complete_chain(a, b)
  \/ \E b \in TxBufs : eth_tx_complete(b)
  \/ raw_tx_enqueued
  \/ raw_tx_refused

Next ==
  \/ Driver
  \/ \E c \in Clients : client_rx(c)
  \/ \E c \in Clients, p \in Packets : client_tx(c, p)
  \/ \E c \in Clients : client_wait(c)

Spec == Init /\ [][Next]_vars
-----------------------------------------------------------------------------
(* Properties                                                              *)

PoolSlots == 1 .. num_rx_bufs
FreeTx(c) == 0 .. num_tx[c] - 1

RxTypeOK ==
  /\ rx_buf_pool \in Seq(RxBufs)
  /\ num_rx_bufs <= RX_BUFS
  /\ nicRx \in SUBSET RxBufs
  /\ rxData \in [RxBufs -> Frames \cup {None}]
  /\ pending_rx \in [Clients -> [RxSlots -> RxBufs \cup {None}]]
  /\ pending_rx_head \in [Clients -> RxSlots]
  /\ pending_rx_tail \in [Clients -> RxSlots]
  /\ should_notify \in [Clients -> BOOLEAN]
  /\ ntfn \in [Clients -> BOOLEAN]

TxTypeOK ==
  /\ pending_tx \in [Clients -> [TxSlots -> TxBufs]]
  /\ num_tx \in [Clients -> 0 .. CLIENT_TX_BUFS]
  /\ nicTx \in SUBSET TxBufs
  /\ txData \in [TxBufs -> Packets \cup {None}]
  /\ txBuf \in TxBufs \cup {None}
  /\ reclaimed \in BOOLEAN

(* The type of every variable.  It bounds num_rx_bufs and num_tx by the    *)
(* sizes of the arrays they index, which the code never checks.            *)
TypeOK ==
  /\ phase \in Phases
  /\ done_init \in BOOLEAN
  /\ RxTypeOK
  /\ TxTypeOK

(* No receive buffer is in two places: two slots of the pool, the card's   *)
(* ring, two slots of the clients' queues.  The buffers pass by pointer    *)
(* through eth_allocate_rx_buf, eth_rx_complete (its copies and its error  *)
(* path) and client_rx.                                                    *)
RxExclusive ==
  /\ \A i, j \in PoolSlots : rx_buf_pool[i] = rx_buf_pool[j] => i = j
  /\ \A i \in PoolSlots : rx_buf_pool[i] \notin nicRx
  /\ \A c \in Clients : \A i \in Queued(c) :
       /\ pending_rx[c][i] \in RxBufs \ nicRx
       /\ \A j \in PoolSlots : rx_buf_pool[j] # pending_rx[c][i]
       /\ \A d \in Clients : \A j \in Queued(d) :
            pending_rx[c][i] = pending_rx[d][j] => c = d /\ i = j

(* No receive buffer is lost: each is in the pool, in the card's ring or   *)
(* in a queue.                                                             *)
RxConserved ==
  \A b \in RxBufs :
    \/ b \in nicRx
    \/ \E i \in PoolSlots : rx_buf_pool[i] = b
    \/ \E c \in Clients : \E i \in Queued(c) : pending_rx[c][i] = b

(* Every receive buffer is in exactly one place.                           *)
RxOwned == RxExclusive /\ RxConserved

(* A client is to be notified exactly when its queue is empty: the flag    *)
(* is set on the last frame taken, and cleared by the next one given.      *)
NotifyArmed == \A c \in Clients : should_notify[c] <=> Empty(c)

(* Each transmit buffer is in one place, and it is its own client's: a     *)
(* slot of the pool below num_tx, the card's ring, or the call of raw_tx.  *)
TxExclusive ==
  /\ \A c \in Clients : \A i \in FreeTx(c) :
       /\ pending_tx[c][i][1] = c
       /\ pending_tx[c][i] \notin nicTx
       /\ pending_tx[c][i] # txBuf
       /\ \A j \in FreeTx(c) : pending_tx[c][i] = pending_tx[c][j] => i = j
  /\ txBuf \notin nicTx
  /\ phase = "tx" <=> txBuf # None

(* No transmit buffer is lost, whatever raw_tx completes or refuses.       *)
TxConserved ==
  \A b \in TxBufs :
    \/ b \in nicTx
    \/ b = txBuf
    \/ \E i \in FreeTx(b[1]) : pending_tx[b[1]][i] = b

(* As long as raw_tx has called nothing back, the slot above the pool      *)
(* still holds the buffer it was called with: client_tx takes that buffer  *)
(* back by incrementing num_tx, without storing it again.                  *)
TxSlotKept ==
  phase = "tx" /\ ~reclaimed =>
    /\ num_tx[txBuf[1]] < CLIENT_TX_BUFS
    /\ pending_tx[txBuf[1]][num_tx[txBuf[1]]] = txBuf

(* Every transmit buffer is in exactly one place, its own client's, and    *)
(* client_tx can take back the buffer that raw_tx refuses.                 *)
TxOwned == TxExclusive /\ TxConserved /\ TxSlotKept

(* client_tx never writes to a buffer the card is sending.                 *)
TxInFlightStable ==
  [][\A b \in nicTx \cap nicTx' : txData'[b] = txData[b]]_vars

(* With fewer queue slots than buffers (two clients of 127 and 256), the   *)
(* card is never left without a buffer when the handler returns: there     *)
(* would be no interrupt to refill its ring, since client_rx returns a     *)
(* buffer to the pool without telling the card.                            *)
CardArmed == phase = "idle" /\ done_init => nicRx # {}

-----------------------------------------------------------------------------
(* What a client sees of it: an EthFrames, the frames being those in the   *)
(* buffers of its queue, oldest first.                                     *)
QueueLen(c) == (pending_rx_head[c] - pending_rx_tail[c]) % CLIENT_RX_BUFS

FramesOf(c) ==
  [i \in 1 .. QueueLen(c) |->
     rxData[pending_rx[c][(pending_rx_tail[c] + i - 1) % CLIENT_RX_BUFS]]]

Abs == INSTANCE EthFrames WITH
         Capacity <- CLIENT_RX_BUFS - 1,
         queue    <- [c \in Clients |-> FramesOf(c)]

(* Every client receives the frames accepted for it, unaltered, in order,  *)
(* once.                                                                   *)
DeliversFrames == Abs!Spec
=============================================================================
