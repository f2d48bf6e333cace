-------------------------- MODULE EthdriverProofs --------------------------
(***************************************************************************)
(* Proofs about Ethdriver, for every number of clients and buffers: the    *)
(* ownership of the receive and transmit buffers, the arming of the        *)
(* notifications, and the frames that its clients see.                     *)
(***************************************************************************)
EXTENDS EthLink, FiniteSetTheorems, SequenceTheorems, WellFoundedInduction, TLAPS

-----------------------------------------------------------------------------
(* The cyclic queue.                                                       *)

(* The successor of a slot, without the modulo.                            *)
LEMMA NextSlotValue ==
  ASSUME NEW i \in RxSlots
  PROVE  /\ NextSlot(i) = IF i = CLIENT_RX_BUFS - 1 THEN 0 ELSE i + 1
         /\ NextSlot(i) \in RxSlots
<1>1. CLIENT_RX_BUFS \in Nat \ {0}
  BY EthAssumption
<1>2. CASE i = CLIENT_RX_BUFS - 1
  BY <1>1, <1>2 DEF NextSlot, RxSlots
<1>3. CASE i # CLIENT_RX_BUFS - 1
  BY <1>1, <1>3 DEF NextSlot, RxSlots
<1>. QED  BY <1>2, <1>3

(* Giving a buffer to a client with room adds the head slot to its queue.  *)
LEMMA WindowPush ==
  ASSUME NEW h \in RxSlots, NEW t \in RxSlots, NextSlot(h) # t
  PROVE  /\ ~InWindow(h, t, h)
         /\ \A i \in RxSlots :
              InWindow(i, t, NextSlot(h)) <=> InWindow(i, t, h) \/ i = h
<1>1. CLIENT_RX_BUFS \in Nat \ {0}
  BY EthAssumption
<1>. QED  BY <1>1, NextSlotValue DEF InWindow, RxSlots

(* Taking a frame removes the tail slot from the queue.                    *)
LEMMA WindowPop ==
  ASSUME NEW h \in RxSlots, NEW t \in RxSlots, h # t
  PROVE  /\ InWindow(t, t, h)
         /\ \A i \in RxSlots :
              InWindow(i, NextSlot(t), h) <=> InWindow(i, t, h) /\ i # t
<1>1. CLIENT_RX_BUFS \in Nat \ {0}
  BY EthAssumption
<1>. QED  BY <1>1, NextSlotValue DEF InWindow, RxSlots

(* The number of indices below k.                                          *)
LEMMA IndexCount ==
  ASSUME NEW k \in Nat
  PROVE  /\ IsFiniteSet(0 .. k - 1) /\ Cardinality(0 .. k - 1) = k
         /\ IsFiniteSet(0 .. k) /\ Cardinality(0 .. k) = k + 1
<1>1. 0 \in Int /\ k - 1 \in Int /\ k \in Int
  OBVIOUS
<1>2. IsFiniteSet(0 .. k - 1) /\ Cardinality(0 .. k - 1) = IF 0 > k - 1 THEN 0 ELSE (k - 1) - 0 + 1
  BY <1>1, FS_Interval
<1>3. IsFiniteSet(0 .. k) /\ Cardinality(0 .. k) = IF 0 > k THEN 0 ELSE k - 0 + 1
  BY <1>1, FS_Interval
<1>. QED  BY <1>2, <1>3

(* A pool without duplicates fits in the array.                            *)
LEMMA PoolBound ==
  ASSUME NEW s \in Seq(RxBufs),
         \A i, j \in 1 .. Len(s) : s[i] = s[j] => i = j
  PROVE  Len(s) <= RX_BUFS
<1>1. RX_BUFS \in Nat \ {0}
  BY EthAssumption
<1>2. IsFiniteSet(RxBufs) /\ Cardinality(RxBufs) = RX_BUFS
  BY <1>1, FS_Interval DEF RxBufs
<1>3. s \in Injection(1 .. Len(s), RxBufs)
  BY DEF Injection, IsInjective
<1>4. Cardinality(1 .. Len(s)) <= Cardinality(RxBufs)
  BY <1>2, <1>3, FS_Injection
<1>5. Cardinality(1 .. Len(s)) = Len(s)
  BY FS_Interval
<1>. QED  BY <1>2, <1>4, <1>5

-----------------------------------------------------------------------------
(* Receive buffers.                                                        *)

InQueue(x) == \E c \in Clients : \E i \in Queued(c) : pending_rx[c][i] = x
InPool(x)  == \E i \in PoolSlots : rx_buf_pool[i] = x

(* What a handler that does not touch the queues has to establish about    *)
(* the pool and the card's ring to keep every buffer in one place.         *)
LEMMA PoolStep ==
  ASSUME RxTypeOK, RxExclusive,
         UNCHANGED << pending_rx, pending_rx_head, pending_rx_tail >>,
         nicRx' \in SUBSET RxBufs,
         rx_buf_pool' \in Seq(RxBufs),
         \A i, j \in PoolSlots' : rx_buf_pool'[i] = rx_buf_pool'[j] => i = j,
         \A i \in PoolSlots' : rx_buf_pool'[i] \notin nicRx' /\ ~InQueue(rx_buf_pool'[i]),
         \A x \in nicRx' : ~InQueue(x),
         \A x \in RxBufs : ~InQueue(x) => x \in nicRx' \/ InPool(x)'
  PROVE  RxExclusive' /\ RxConserved'
<1>1. \A c \in Clients : Queued(c)' = Queued(c)
  BY DEF Queued
<1>2. RxExclusive'
  BY <1>1 DEF RxExclusive, InQueue, Queued, PoolSlots
<1>3. RxConserved'
  BY <1>1 DEF RxConserved, InQueue, InPool, PoolSlots
<1>. QED  BY <1>2, <1>3

(* The same for a handler that gives the buffers buf to the clients To.    *)
LEMMA GiveStep ==
  ASSUME RxTypeOK, RxExclusive,
         NEW To \in SUBSET Clients, NEW buf \in [To -> RxBufs],
         \A c \in To : ~Full(c),
         \A c, d \in To : buf[c] = buf[d] => c = d,
         give_client_buf(To, buf),
         UNCHANGED pending_rx_tail,
         nicRx' \in SUBSET RxBufs,
         rx_buf_pool' \in Seq(RxBufs),
         \A i, j \in PoolSlots' : rx_buf_pool'[i] = rx_buf_pool'[j] => i = j,
         \A i \in PoolSlots' :
            /\ rx_buf_pool'[i] \notin nicRx'
            /\ ~InQueue(rx_buf_pool'[i])
            /\ \A c \in To : buf[c] # rx_buf_pool'[i],
         \A x \in nicRx' : ~InQueue(x),
         \A c \in To : buf[c] \notin nicRx' /\ ~InQueue(buf[c]),
         \A x \in RxBufs : ~InQueue(x) =>
            x \in nicRx' \/ InPool(x)' \/ \E c \in To : buf[c] = x
  PROVE  RxExclusive' /\ RxConserved'
<1>1. \A c \in Clients : c \in To =>
        /\ Queued(c)' = Queued(c) \cup {pending_rx_head[c]}
        /\ pending_rx_head[c] \notin Queued(c)
        /\ pending_rx'[c][pending_rx_head[c]] = buf[c]
        /\ \A i \in Queued(c) : pending_rx'[c][i] = pending_rx[c][i]
  <2>. SUFFICES ASSUME NEW c \in Clients, c \in To
                PROVE  /\ Queued(c)' = Queued(c) \cup {pending_rx_head[c]}
                       /\ pending_rx_head[c] \notin Queued(c)
                       /\ pending_rx'[c][pending_rx_head[c]] = buf[c]
                       /\ \A i \in Queued(c) : pending_rx'[c][i] = pending_rx[c][i]
    OBVIOUS
  <2>1. pending_rx_head[c] \in RxSlots /\ pending_rx_tail[c] \in RxSlots
    BY DEF RxTypeOK
  <2>2. NextSlot(pending_rx_head[c]) # pending_rx_tail[c]
    BY DEF Full
  <2>3. pending_rx_head'[c] = NextSlot(pending_rx_head[c])
    BY DEF give_client_buf
  <2>4. Queued(c)' = Queued(c) \cup {pending_rx_head[c]} /\ pending_rx_head[c] \notin Queued(c)
    BY <2>1, <2>2, <2>3, WindowPush DEF Queued
  <2>5. pending_rx'[c] = [pending_rx[c] EXCEPT ![pending_rx_head[c]] = buf[c]]
    BY DEF give_client_buf
  <2>6. pending_rx[c] \in [RxSlots -> RxBufs \cup {None}]
    BY DEF RxTypeOK
  <2>. QED  BY <2>1, <2>4, <2>5, <2>6 DEF Queued
<1>2. \A c \in Clients : c \notin To =>
        /\ Queued(c)' = Queued(c)
        /\ pending_rx'[c] = pending_rx[c]
  BY DEF Queued, give_client_buf
<1>3. \A c \in Clients : \A i \in Queued(c)' :
        \/ i \in Queued(c) /\ pending_rx'[c][i] = pending_rx[c][i]
        \/ c \in To /\ i = pending_rx_head[c] /\ i \notin Queued(c) /\ pending_rx'[c][i] = buf[c]
  BY <1>1, <1>2
<1>4. RxExclusive'
  <2>1. \A i \in PoolSlots' : rx_buf_pool'[i] \notin nicRx'
    OBVIOUS
  <2>2. ASSUME NEW c \in Clients, NEW i \in Queued(c)'
        PROVE  /\ pending_rx'[c][i] \in RxBufs \ nicRx'
               /\ \A j \in PoolSlots' : rx_buf_pool'[j] # pending_rx'[c][i]
               /\ \A d \in Clients : \A j \in Queued(d)' :
                    pending_rx'[c][i] = pending_rx'[d][j] => c = d /\ i = j
    <3>1. CASE i \in Queued(c) /\ pending_rx'[c][i] = pending_rx[c][i]
      BY <3>1, <1>3 DEF RxExclusive, InQueue
    <3>2. CASE c \in To /\ i = pending_rx_head[c] /\ i \notin Queued(c) /\ pending_rx'[c][i] = buf[c]
      BY <3>2, <1>3 DEF RxExclusive, InQueue
    <3>. QED  BY <1>3, <2>2, <3>1, <3>2
  <2>. QED  BY <2>1, <2>2 DEF RxExclusive, PoolSlots
<1>5. RxConserved'
  <2>. SUFFICES ASSUME NEW x \in RxBufs
                PROVE  x \in nicRx' \/ InPool(x)' \/ InQueue(x)'
    BY DEF RxConserved, InPool, InQueue
  <2>1. CASE InQueue(x)
    BY <2>1, <1>1, <1>2 DEF InQueue
  <2>2. CASE \E c \in To : buf[c] = x
    BY <2>2, <1>1 DEF InQueue
  <2>. QED  BY <2>1, <2>2
<1>. QED  BY <1>4, <1>5

-----------------------------------------------------------------------------
(* The copies of a broadcast.                                              *)

(* The clients with room are numbered without gaps, and CopiedTo is the    *)
(* first num_rx_bufs of them: each takes its own buffer from the top of    *)
(* the pool.                                                               *)
LEMMA CopyRanks ==
  ASSUME RxTypeOK
  PROVE  /\ Cardinality(CopiedTo) \in 0 .. num_rx_bufs
         /\ \A c \in CopiedTo : CopyRank(c) \in 0 .. Cardinality(CopiedTo) - 1
         /\ \A c, d \in CopiedTo : CopyRank(c) = CopyRank(d) => c = d
         /\ \A k \in 0 .. Cardinality(CopiedTo) - 1 : \E c \in CopiedTo : CopyRank(c) = k
<1>. DEFINE Below(c) == {d \in WithRoom : d < c}
            K == Cardinality(CopiedTo)
<1>0. WithRoom \subseteq Clients /\ Clients \subseteq Int /\ num_rx_bufs \in Nat
  BY EthAssumption DEF WithRoom, Clients, num_rx_bufs, RxTypeOK
<1>1. IsFiniteSet(WithRoom)
  <2>1. IsFiniteSet(Clients)
    BY EthAssumption, FS_Interval DEF Clients
  <2>. QED  BY <1>0, <2>1, FS_Subset
<1>2. IsFiniteSet(CopiedTo) /\ K \in Nat
  <2>1. CopiedTo \in SUBSET WithRoom
    BY DEF CopiedTo
  <2>2. IsFiniteSet(CopiedTo)
    BY <1>1, <2>1, FS_Subset
  <2>. QED  BY <2>2, FS_CardinalityType
<1>3. ASSUME NEW c \in WithRoom
      PROVE  /\ IsFiniteSet(Below(c))
             /\ CopyRank(c) = Cardinality(Below(c))
             /\ CopyRank(c) \in Nat
  <2>1. IsFiniteSet(Below(c))
    BY <1>1, FS_Subset
  <2>. QED  BY <2>1, FS_CardinalityType DEF CopyRank
<1>4. ASSUME NEW c \in WithRoom, NEW d \in WithRoom, c < d
      PROVE  CopyRank(c) < CopyRank(d)
  <2>1. Below(c) \in SUBSET Below(d) /\ Below(c) # Below(d)
    <3>1. c \in Int /\ d \in Int /\ \A x \in WithRoom : x \in Int
      BY <1>0
    <3>2. \A x \in WithRoom : x < c => x < d
      BY <1>4, <3>1
    <3>3. c \in Below(d) /\ c \notin Below(c)
      BY <1>4, <3>1
    <3>. QED  BY <3>2, <3>3
  <2>2. Cardinality(Below(c)) <= Cardinality(Below(d)) /\ Cardinality(Below(c)) # Cardinality(Below(d))
    BY <1>3, <2>1, FS_Subset
  <2>3. CopyRank(c) = Cardinality(Below(c)) /\ CopyRank(c) \in Nat
    BY <1>3
  <2>4. CopyRank(d) = Cardinality(Below(d)) /\ CopyRank(d) \in Nat
    BY <1>3
  <2>. QED  BY <2>2, <2>3, <2>4
<1>5. ASSUME NEW c \in CopiedTo, NEW d \in CopiedTo, CopyRank(c) = CopyRank(d)
      PROVE  c = d
  <2>1. c \in WithRoom /\ d \in WithRoom
    BY DEF CopiedTo
  <2>2. CopyRank(c) \in Nat /\ CopyRank(d) \in Nat
    BY <1>3, <2>1
  <2>. QED  BY <1>0, <1>4, <1>5, <2>1, <2>2
<1>6. ASSUME NEW c \in CopiedTo
      PROVE  CopyRank(c) \in 0 .. K - 1
  <2>1. c \in WithRoom /\ CopyRank(c) < num_rx_bufs
    BY DEF CopiedTo
  <2>2. Below(c) \in SUBSET CopiedTo /\ Below(c) # CopiedTo
    <3>1. ASSUME NEW d \in Below(c)
          PROVE  d \in CopiedTo
      <4>1. d \in WithRoom /\ CopyRank(d) < CopyRank(c)
        BY <1>4, <2>1
      <4>2. CopyRank(d) \in Nat /\ CopyRank(c) \in Nat
        BY <1>3, <2>1, <4>1
      <4>. QED  BY <1>0, <2>1, <4>1, <4>2 DEF CopiedTo
    <3>2. c \notin Below(c)
      BY <1>0, <2>1
    <3>. QED  BY <3>1, <3>2
  <2>3. Cardinality(Below(c)) <= K /\ Cardinality(Below(c)) # K
    BY <1>2, <2>2, FS_Subset
  <2>4. CopyRank(c) = Cardinality(Below(c)) /\ CopyRank(c) \in Nat
    BY <1>3, <2>1
  <2>. QED  BY <1>2, <2>3, <2>4
<1>7. K <= num_rx_bufs
  <2>. DEFINE f == [c \in CopiedTo |-> CopyRank(c)]
  <2>1. ASSUME NEW c \in CopiedTo
        PROVE  CopyRank(c) \in 0 .. num_rx_bufs - 1
    <3>1. c \in WithRoom /\ CopyRank(c) < num_rx_bufs
      BY DEF CopiedTo
    <3>2. CopyRank(c) \in Nat
      BY <1>3, <3>1
    <3>. QED  BY <1>0, <3>1, <3>2
  <2>2. f \in Injection(CopiedTo, 0 .. num_rx_bufs - 1)
    BY <1>5, <2>1 DEF Injection, IsInjective
  <2>3. IsFiniteSet(0 .. num_rx_bufs - 1) /\ Cardinality(0 .. num_rx_bufs - 1) = num_rx_bufs
    BY <1>0, FS_Interval
  <2>. QED  BY <2>2, <2>3, FS_Injection
<1>8. ASSUME NEW k \in 0 .. K - 1
      PROVE  \E c \in CopiedTo : CopyRank(c) = k
  <2>. DEFINE f == [c \in CopiedTo |-> CopyRank(c)]
  <2>1. f \in Injection(CopiedTo, 0 .. K - 1)
    BY <1>5, <1>6 DEF Injection, IsInjective
  <2>2. IsFiniteSet(0 .. K - 1) /\ Cardinality(0 .. K - 1) = K
    BY <1>2, FS_Interval
  <2>3. f \in Surjection(CopiedTo, 0 .. K - 1)
    BY <2>1, <2>2, FS_Injection
  <2>. QED  BY <2>3 DEF Surjection
<1>. QED  BY <1>2, <1>5, <1>6, <1>7, <1>8

(* The search of detect_client ends at a client, when there is one.        *)
LEMMA DetectClient ==
  ASSUME NEW f, Matches(f) # {}
  PROVE  detect_client(f) \in Matches(f) /\ \A d \in Matches(f) : detect_client(f) <= d
<1>1. Matches(f) \subseteq Nat
  BY EthAssumption DEF Matches, Clients
<1>2. PICK c \in Matches(f) : \A d \in Matches(f) : ~(<< d, c >> \in OpToRel(<, Nat))
  BY <1>1, NatLessThanWellFounded, WFMin
<1>3. ASSUME NEW d \in Matches(f)
      PROVE  c <= d
  <2>1. c \in Nat /\ d \in Nat
    BY <1>1
  <2>2. d < c => << d, c >> \in OpToRel(<, Nat)
    BY <2>1, Zenon DEF OpToRel
  <2>3. ~(d < c)
    BY <1>2, <2>2
  <2>. QED  BY <2>1, <2>3
<1>. QED  BY <1>3 DEF detect_client

-----------------------------------------------------------------------------
(* The handlers of reception.                                              *)

RxInv == RxTypeOK /\ RxExclusive /\ RxConserved /\ NotifyArmed

(* The pool never outgrows its array: it has no duplicates.                *)
LEMMA RxBound ==
  ASSUME rx_buf_pool' \in Seq(RxBufs), RxExclusive'
  PROVE  num_rx_bufs' <= RX_BUFS
BY PoolBound DEF RxExclusive, PoolSlots, num_rx_bufs

(* A buffer that is in no pool slot is put back.                           *)
LEMMA PoolPush ==
  ASSUME NEW s \in Seq(RxBufs), NEW b \in RxBufs
  PROVE  /\ Append(s, b) \in Seq(RxBufs)
         /\ Len(Append(s, b)) = Len(s) + 1
         /\ Len(s) \in Nat
         /\ Append(s, b)[Len(s) + 1] = b
         /\ \A i \in 1 .. Len(s) : Append(s, b)[i] = s[i]
OBVIOUS

(* A frame nobody wants: its buffer goes from the card back to the pool.      *)
LEMMA RxRejectStep ==
  ASSUME RxInv, NEW b \in nicRx, nicRx' = nicRx \ {b},
         rx_buf_pool' = Append(rx_buf_pool, b),
         UNCHANGED << rxData, pending_rx, pending_rx_head, pending_rx_tail,
                      should_notify, ntfn >>
  PROVE  RxInv'
<1>. USE DEF RxInv
<1>0. b \in RxBufs /\ rx_buf_pool \in Seq(RxBufs) /\ nicRx \in SUBSET RxBufs
  BY DEF RxTypeOK
<1>1. /\ rx_buf_pool' \in Seq(RxBufs)
      /\ num_rx_bufs' = num_rx_bufs + 1 /\ num_rx_bufs \in Nat
      /\ rx_buf_pool'[num_rx_bufs + 1] = b
      /\ \A i \in PoolSlots : rx_buf_pool'[i] = rx_buf_pool[i]
  BY <1>0, PoolPush DEF num_rx_bufs, PoolSlots
<1>2. /\ \A i \in PoolSlots' :
           \/ i \in PoolSlots /\ rx_buf_pool'[i] = rx_buf_pool[i]
           \/ i = num_rx_bufs + 1 /\ rx_buf_pool'[i] = b
      /\ num_rx_bufs + 1 \in PoolSlots'
      /\ \A i \in PoolSlots : i \in PoolSlots'
  <2>1. PoolSlots' = 1 .. num_rx_bufs + 1 /\ PoolSlots = 1 .. num_rx_bufs
    BY <1>1 DEF PoolSlots
  <2>2. /\ \A i \in 1 .. num_rx_bufs + 1 : i \in 1 .. num_rx_bufs \/ i = num_rx_bufs + 1
        /\ num_rx_bufs + 1 \in 1 .. num_rx_bufs + 1
        /\ \A i \in 1 .. num_rx_bufs : i \in 1 .. num_rx_bufs + 1
    BY <1>1
  <2>3. /\ \A i \in PoolSlots' : i \in PoolSlots \/ i = num_rx_bufs + 1
        /\ num_rx_bufs + 1 \in PoolSlots'
        /\ \A i \in PoolSlots : i \in PoolSlots'
    BY <2>1, <2>2, Zenon
  <2>. QED  BY <1>1, <2>3, Zenon
<1>3. ~InQueue(b) /\ ~InPool(b)
  BY DEF RxExclusive, InQueue, InPool
<1>4. ASSUME NEW i \in PoolSlots', NEW j \in PoolSlots', rx_buf_pool'[i] = rx_buf_pool'[j]
      PROVE  i = j
  <2>0. \A m, n \in PoolSlots : rx_buf_pool[m] = rx_buf_pool[n] => m = n
    BY DEF RxExclusive
  <2>1. \A k \in PoolSlots : rx_buf_pool[k] # b
    BY <1>3 DEF InPool
  <2>2. CASE i \in PoolSlots /\ rx_buf_pool'[i] = rx_buf_pool[i]
    BY <2>0, <2>1, <2>2, <1>2, <1>4, Zenon
  <2>3. CASE i = num_rx_bufs + 1 /\ rx_buf_pool'[i] = b
    BY <2>1, <2>3, <1>2, <1>4
  <2>. QED  BY <1>2, <2>2, <2>3
<1>5. \A i \in PoolSlots' : rx_buf_pool'[i] \notin nicRx' /\ ~InQueue(rx_buf_pool'[i])
  <2>. SUFFICES ASSUME NEW i \in PoolSlots'
                PROVE  rx_buf_pool'[i] \notin nicRx' /\ ~InQueue(rx_buf_pool'[i])
    OBVIOUS
  <2>1. CASE i \in PoolSlots /\ rx_buf_pool'[i] = rx_buf_pool[i]
    BY <2>1 DEF RxExclusive, InQueue
  <2>. QED  BY <2>1, <1>2, <1>3
<1>6. \A x \in nicRx' : ~InQueue(x)
  BY DEF RxExclusive, InQueue
<1>7. ASSUME NEW x \in RxBufs, ~InQueue(x)
      PROVE  x \in nicRx' \/ InPool(x)'
  <2>1. x \in nicRx \/ InPool(x)
    BY <1>7 DEF RxConserved, InQueue, InPool
  <2>. QED  BY <2>1, <1>1, <1>2 DEF InPool
<1>8. RxExclusive' /\ RxConserved'
  BY <1>0, <1>1, <1>4, <1>5, <1>6, <1>7, PoolStep
<1>9. RxTypeOK'
  BY <1>0, <1>1, <1>8, RxBound DEF RxTypeOK
<1>. QED  BY <1>8, <1>9 DEF NotifyArmed, Empty

(* A frame in two buffers: both go from the card back to the pool.            *)
LEMMA RxChainStep ==
  ASSUME RxInv, NEW a, NEW b, eth_rx_complete_chain(a, b)
  PROVE  RxInv'
<1>. USE DEF RxInv
<1>0. /\ a \in RxBufs /\ b \in RxBufs /\ rx_buf_pool \in Seq(RxBufs) /\ nicRx \in SUBSET RxBufs
      /\ a \in nicRx /\ b \in nicRx /\ a # b /\ nicRx' = nicRx \ {a, b}
      /\ UNCHANGED << rxData, pending_rx, pending_rx_head, pending_rx_tail,
                      should_notify, ntfn >>
      /\ rx_buf_pool' = rx_buf_pool \o << a, b >>
  BY DEF RxTypeOK, eth_rx_complete_chain
<1>1. /\ rx_buf_pool' \in Seq(RxBufs)
      /\ num_rx_bufs' = num_rx_bufs + 2 /\ num_rx_bufs \in Nat
      /\ rx_buf_pool'[num_rx_bufs + 1] = a
      /\ rx_buf_pool'[num_rx_bufs + 2] = b
      /\ \A i \in PoolSlots : rx_buf_pool'[i] = rx_buf_pool[i]
  <2>1. << a, b >> \in Seq(RxBufs) /\ Len(<< a, b >>) = 2
    BY <1>0
  <2>. QED  BY <1>0, <2>1, ConcatProperties DEF num_rx_bufs, PoolSlots
<1>2. /\ \A i \in PoolSlots' :
           \/ i \in PoolSlots /\ rx_buf_pool'[i] = rx_buf_pool[i]
           \/ i = num_rx_bufs + 1 /\ rx_buf_pool'[i] = a
           \/ i = num_rx_bufs + 2 /\ rx_buf_pool'[i] = b
      /\ num_rx_bufs + 1 \in PoolSlots' /\ num_rx_bufs + 2 \in PoolSlots'
      /\ \A i \in PoolSlots : i \in PoolSlots'
  BY <1>1 DEF PoolSlots
<1>3. ~InQueue(a) /\ ~InPool(a) /\ ~InQueue(b) /\ ~InPool(b)
  BY <1>0 DEF RxExclusive, InQueue, InPool
<1>4. ASSUME NEW i \in PoolSlots', NEW j \in PoolSlots', rx_buf_pool'[i] = rx_buf_pool'[j]
      PROVE  i = j
  <2>1. \A k \in PoolSlots : rx_buf_pool[k] # a /\ rx_buf_pool[k] # b
    BY <1>3 DEF InPool
  <2>2. CASE i \in PoolSlots /\ rx_buf_pool'[i] = rx_buf_pool[i]
    BY <2>1, <2>2, <1>2, <1>4 DEF RxExclusive
  <2>3. CASE i = num_rx_bufs + 1 /\ rx_buf_pool'[i] = a
    BY <2>1, <2>3, <1>0, <1>2, <1>4
  <2>4. CASE i = num_rx_bufs + 2 /\ rx_buf_pool'[i] = b
    BY <2>1, <2>4, <1>0, <1>2, <1>4
  <2>. QED  BY <1>2, <2>2, <2>3, <2>4
<1>5. \A i \in PoolSlots' : rx_buf_pool'[i] \notin nicRx' /\ ~InQueue(rx_buf_pool'[i])
  <2>. SUFFICES ASSUME NEW i \in PoolSlots'
                PROVE  rx_buf_pool'[i] \notin nicRx' /\ ~InQueue(rx_buf_pool'[i])
    OBVIOUS
  <2>1. CASE i \in PoolSlots /\ rx_buf_pool'[i] = rx_buf_pool[i]
    BY <2>1, <1>0 DEF RxExclusive, InQueue
  <2>. QED  BY <2>1, <1>0, <1>2, <1>3
<1>6. \A x \in nicRx' : ~InQueue(x)
  BY <1>0 DEF RxExclusive, InQueue
<1>7. ASSUME NEW x \in RxBufs, ~InQueue(x)
      PROVE  x \in nicRx' \/ InPool(x)'
  <2>1. x \in nicRx \/ InPool(x)
    BY <1>7 DEF RxConserved, InQueue, InPool
  <2>. QED  BY <2>1, <1>0, <1>1, <1>2 DEF InPool
<1>8. RxExclusive' /\ RxConserved'
  BY <1>0, <1>1, <1>4, <1>5, <1>6, <1>7, PoolStep
<1>9. RxTypeOK'
  BY <1>0, <1>1, <1>8, RxBound DEF RxTypeOK
<1>. QED  BY <1>0, <1>8, <1>9 DEF NotifyArmed, Empty

(* The card is given a buffer of the pool.                                    *)
LEMMA RxAllocateStep ==
  ASSUME RxInv, eth_allocate_rx_buf
  PROVE  RxInv'
<1>. USE DEF RxInv
<1>. DEFINE b == rx_buf_pool[num_rx_bufs]
<1>0. /\ rx_buf_pool \in Seq(RxBufs) /\ nicRx \in SUBSET RxBufs
      /\ num_rx_bufs \in Nat \ {0}
      /\ num_rx_bufs \in PoolSlots
      /\ b \in RxBufs
      /\ nicRx' = nicRx \cup {b}
      /\ rx_buf_pool' = SubSeq(rx_buf_pool, 1, num_rx_bufs - 1)
      /\ UNCHANGED << rxData, pending_rx, pending_rx_head, pending_rx_tail,
                      should_notify, ntfn >>
  BY DEF RxTypeOK, eth_allocate_rx_buf, num_rx_bufs, PoolSlots
<1>1. /\ rx_buf_pool' \in Seq(RxBufs)
      /\ num_rx_bufs' = num_rx_bufs - 1
      /\ \A i \in 1 .. num_rx_bufs - 1 : rx_buf_pool'[i] = rx_buf_pool[i]
  <2>1. \A i \in 1 .. num_rx_bufs - 1 : rx_buf_pool[i] \in RxBufs
    BY <1>0 DEF num_rx_bufs
  <2>2. /\ SubSeq(rx_buf_pool, 1, num_rx_bufs - 1) \in Seq(RxBufs)
        /\ Len(SubSeq(rx_buf_pool, 1, num_rx_bufs - 1)) = num_rx_bufs - 1
        /\ \A i \in 1 .. num_rx_bufs - 1 :
             SubSeq(rx_buf_pool, 1, num_rx_bufs - 1)[i] = rx_buf_pool[i]
    BY <1>0, <2>1, SubSeqProperties
  <2>3. num_rx_bufs' = Len(rx_buf_pool')
    BY DEF num_rx_bufs
  <2>. QED  BY <1>0, <2>2, <2>3
<1>2. /\ PoolSlots' = 1 .. num_rx_bufs - 1
      /\ \A i \in PoolSlots : i \in PoolSlots' \/ i = num_rx_bufs
      /\ \A i \in PoolSlots' : i \in PoolSlots /\ i # num_rx_bufs
  BY <1>0, <1>1 DEF PoolSlots
<1>3. ~InQueue(b)
  BY <1>0 DEF RxExclusive, InQueue
<1>4. \A i, j \in PoolSlots' : rx_buf_pool'[i] = rx_buf_pool'[j] => i = j
  BY <1>1, <1>2 DEF RxExclusive
<1>5. \A i \in PoolSlots' : rx_buf_pool'[i] \notin nicRx' /\ ~InQueue(rx_buf_pool'[i])
  BY <1>0, <1>1, <1>2, <1>3 DEF RxExclusive, InQueue
<1>6. \A x \in nicRx' : ~InQueue(x)
  BY <1>0, <1>3 DEF RxExclusive, InQueue
<1>7. ASSUME NEW x \in RxBufs, ~InQueue(x)
      PROVE  x \in nicRx' \/ InPool(x)'
  <2>1. x \in nicRx \/ InPool(x)
    BY <1>7 DEF RxConserved, InQueue, InPool
  <2>. QED  BY <2>1, <1>0, <1>1, <1>2 DEF InPool
<1>8. RxExclusive' /\ RxConserved'
  BY <1>0, <1>1, <1>4, <1>5, <1>6, <1>7, PoolStep
<1>9. RxTypeOK'
  BY <1>0, <1>1, <1>8, RxBound DEF RxTypeOK
<1>. QED  BY <1>0, <1>8, <1>9 DEF NotifyArmed, Empty

(* client_rx gives the buffer of the oldest frame back to the pool.           *)
LEMMA RxTakeStep ==
  ASSUME RxInv, NEW c \in Clients, RxTake(c),
         UNCHANGED << nicRx, pending_rx, pending_rx_head, ntfn >>
  PROVE  RxInv'
<1>. USE DEF RxInv
<1>. DEFINE t == pending_rx_tail[c]
            h == pending_rx_head[c]
            b == pending_rx[c][t]
<1>0. /\ t \in RxSlots /\ h \in RxSlots /\ h # t
      /\ rx_buf_pool \in Seq(RxBufs) /\ nicRx \in SUBSET RxBufs
      /\ pending_rx_tail' = [pending_rx_tail EXCEPT ![c] = NextSlot(t)]
      /\ rx_buf_pool' = Append(rx_buf_pool, b)
      /\ rxData' = [rxData EXCEPT ![b] = None]
      /\ should_notify' =
           [should_notify EXCEPT ![c] = should_notify[c] \/ NextSlot(t) = h]
  BY DEF RxTake, RxTypeOK, Empty
<1>1. /\ t \in Queued(c)
      /\ Queued(c)' = Queued(c) \ {t}
      /\ NextSlot(t) \in RxSlots
  <2>1. pending_rx_tail'[c] = NextSlot(t) /\ pending_rx_head'[c] = h
    BY <1>0 DEF RxTypeOK
  <2>. QED  BY <1>0, <2>1, WindowPop, NextSlotValue DEF Queued
<1>2. \A d \in Clients : d # c => Queued(d)' = Queued(d)
  BY <1>0 DEF Queued, RxTypeOK
<1>3. /\ b \in RxBufs /\ b \notin nicRx /\ ~InPool(b)
      /\ \A d \in Clients : \A i \in Queued(d)' : pending_rx[d][i] # b /\ i \in Queued(d)
  BY <1>1, <1>2 DEF RxExclusive, InPool
<1>4. /\ rx_buf_pool' \in Seq(RxBufs)
      /\ num_rx_bufs' = num_rx_bufs + 1 /\ num_rx_bufs \in Nat
      /\ rx_buf_pool'[num_rx_bufs + 1] = b
      /\ \A i \in PoolSlots : rx_buf_pool'[i] = rx_buf_pool[i]
  BY <1>0, <1>3, PoolPush DEF num_rx_bufs, PoolSlots
<1>5. /\ \A i \in PoolSlots' :
           \/ i \in PoolSlots /\ rx_buf_pool'[i] = rx_buf_pool[i]
           \/ i = num_rx_bufs + 1 /\ rx_buf_pool'[i] = b
      /\ num_rx_bufs + 1 \in PoolSlots'
      /\ \A i \in PoolSlots : i \in PoolSlots'
  <2>1. PoolSlots' = 1 .. num_rx_bufs + 1 /\ PoolSlots = 1 .. num_rx_bufs
    BY <1>4 DEF PoolSlots
  <2>2. /\ \A i \in 1 .. num_rx_bufs + 1 : i \in 1 .. num_rx_bufs \/ i = num_rx_bufs + 1
        /\ num_rx_bufs + 1 \in 1 .. num_rx_bufs + 1
        /\ \A i \in 1 .. num_rx_bufs : i \in 1 .. num_rx_bufs + 1
    BY <1>4
  <2>3. /\ \A i \in PoolSlots' : i \in PoolSlots \/ i = num_rx_bufs + 1
        /\ num_rx_bufs + 1 \in PoolSlots'
        /\ \A i \in PoolSlots : i \in PoolSlots'
    BY <2>1, <2>2, Zenon
  <2>. QED  BY <1>4, <2>3, Zenon
<1>6. RxExclusive'
  <2>1. \A i, j \in PoolSlots' : rx_buf_pool'[i] = rx_buf_pool'[j] => i = j
    BY <1>3, <1>5 DEF RxExclusive, InPool
  <2>2. \A i \in PoolSlots' : rx_buf_pool'[i] \notin nicRx'
    BY <1>3, <1>5 DEF RxExclusive
  <2>3. ASSUME NEW d \in Clients, NEW i \in Queued(d)'
        PROVE  /\ pending_rx'[d][i] \in RxBufs \ nicRx'
               /\ \A j \in PoolSlots' : rx_buf_pool'[j] # pending_rx'[d][i]
               /\ \A e \in Clients : \A j \in Queued(e)' :
                    pending_rx'[d][i] = pending_rx'[e][j] => d = e /\ i = j
    <3>1. i \in Queued(d) /\ pending_rx[d][i] # b
      BY <1>3, <2>3
    <3>2. /\ pending_rx[d][i] \in RxBufs \ nicRx
          /\ \A j \in PoolSlots : rx_buf_pool[j] # pending_rx[d][i]
          /\ \A e \in Clients : \A j \in Queued(e) :
               pending_rx[d][i] = pending_rx[e][j] => d = e /\ i = j
      BY <3>1 DEF RxExclusive
    <3>. QED  BY <1>3, <1>5, <3>1, <3>2
  <2>. QED  BY <2>1, <2>2, <2>3 DEF RxExclusive
<1>7. RxConserved'
  <2>. SUFFICES ASSUME NEW x \in RxBufs
                PROVE  x \in nicRx' \/ InPool(x)' \/ InQueue(x)'
    BY DEF RxConserved, InPool, InQueue
  <2>1. CASE x = b
    BY <2>1, <1>4, <1>5 DEF InPool
  <2>2. CASE InPool(x)
    BY <2>2, <1>4, <1>5 DEF InPool
  <2>3. CASE InQueue(x) /\ x # b
    BY <2>3, <1>1, <1>2 DEF InQueue
  <2>. QED  BY <2>1, <2>2, <2>3 DEF RxConserved, InPool, InQueue
<1>8. RxTypeOK'
  <2>1. num_rx_bufs' <= RX_BUFS
    BY <1>4, <1>6, RxBound
  <2>. QED  BY <1>0, <1>1, <1>4, <2>1 DEF RxTypeOK
<1>9. NotifyArmed'
  <2>. SUFFICES ASSUME NEW d \in Clients
                PROVE  should_notify'[d] <=> Empty(d)'
    BY DEF NotifyArmed
  <2>1. CASE d = c
    <3>1. ~should_notify[c]
      BY <1>0 DEF NotifyArmed, Empty
    <3>2. should_notify'[c] <=> NextSlot(t) = h
      BY <1>0, <3>1 DEF RxTypeOK
    <3>3. Empty(c)' <=> h = NextSlot(t)
      BY <1>0 DEF Empty, RxTypeOK
    <3>. QED  BY <2>1, <3>2, <3>3
  <2>2. CASE d # c
    BY <2>2, <1>0 DEF NotifyArmed, Empty, RxTypeOK
  <2>. QED  BY <2>1, <2>2
<1>. QED  BY <1>6, <1>7, <1>8, <1>9

(* The rest of the invariant after give_client_buf.                        *)
LEMMA GiveTypes ==
  ASSUME RxTypeOK, NotifyArmed,
         NEW To \in SUBSET Clients, NEW buf \in [To -> RxBufs],
         \A c \in To : ~Full(c),
         give_client_buf(To, buf), UNCHANGED pending_rx_tail
  PROVE  /\ pending_rx' \in [Clients -> [RxSlots -> RxBufs \cup {None}]]
         /\ pending_rx_head' \in [Clients -> RxSlots]
         /\ should_notify' \in [Clients -> BOOLEAN]
         /\ ntfn' \in [Clients -> BOOLEAN]
         /\ NotifyArmed'
<1>1. pending_rx' \in [Clients -> [RxSlots -> RxBufs \cup {None}]]
  BY DEF give_client_buf, RxTypeOK
<1>2. pending_rx_head' \in [Clients -> RxSlots]
  BY NextSlotValue DEF give_client_buf, RxTypeOK
<1>3. should_notify' \in [Clients -> BOOLEAN] /\ ntfn' \in [Clients -> BOOLEAN]
  BY DEF give_client_buf, RxTypeOK
<1>4. NotifyArmed'
  <2>. SUFFICES ASSUME NEW c \in Clients
                PROVE  should_notify'[c] <=> Empty(c)'
    BY DEF NotifyArmed
  <2>1. CASE c \in To
    <3>1. ~should_notify'[c]
      BY <2>1 DEF give_client_buf
    <3>2. ~Empty(c)'
      BY <2>1 DEF give_client_buf, Empty, Full
    <3>. QED  BY <3>1, <3>2
  <2>2. CASE c \notin To
    BY <2>2 DEF give_client_buf, NotifyArmed, Empty
  <2>. QED  BY <2>1, <2>2
<1>. QED  BY <1>1, <1>2, <1>3, <1>4

(* A frame for one client goes into its queue, or its buffer to the pool.     *)
LEMMA RxUnicastStep ==
  ASSUME RxInv, NEW f \in Frames, NEW b \in nicRx, nicRx' = nicRx \ {b},
         RxUnicast(b, f), UNCHANGED pending_rx_tail
  PROVE  RxInv'
<1>. USE DEF RxInv
<1>. DEFINE c == detect_client(f)
            To == {c}
            buf == [d \in {c} |-> b]
<1>0. c \in Clients /\ b \in RxBufs /\ rx_buf_pool \in Seq(RxBufs) /\ nicRx \in SUBSET RxBufs
  BY DetectClient DEF RxUnicast, Matches, RxTypeOK
<1>1. CASE Full(c)
  BY <1>1, RxRejectStep DEF RxUnicast
<1>2. CASE ~Full(c)
  <2>0. /\ give_client_buf(To, buf)
        /\ rxData' = [rxData EXCEPT ![b] = f]
        /\ UNCHANGED rx_buf_pool
    BY <1>2 DEF RxUnicast
  <2>1. To \in SUBSET Clients /\ buf \in [To -> RxBufs] /\ buf[c] = b /\ \A d \in To : d = c
    BY <1>0
  <2>2. PoolSlots' = PoolSlots
    BY <2>0 DEF PoolSlots, num_rx_bufs
  <2>3. ~InQueue(b) /\ ~InPool(b)
    BY DEF RxExclusive, InQueue, InPool
  <2>4. \A i, j \in PoolSlots' : rx_buf_pool'[i] = rx_buf_pool'[j] => i = j
    BY <2>0, <2>2 DEF RxExclusive
  <2>5. \A i \in PoolSlots' : /\ rx_buf_pool'[i] \notin nicRx'
                              /\ ~InQueue(rx_buf_pool'[i])
                              /\ \A d \in To : buf[d] # rx_buf_pool'[i]
    <3>1. \A i \in PoolSlots : rx_buf_pool[i] \notin nicRx /\ ~InQueue(rx_buf_pool[i])
      BY DEF RxExclusive, InQueue
    <3>2. \A i \in PoolSlots : rx_buf_pool[i] # b
      BY <2>3 DEF InPool
    <3>. QED  BY <2>0, <2>1, <2>2, <3>1, <3>2
  <2>6. \A x \in nicRx' : ~InQueue(x)
    BY DEF RxExclusive, InQueue
  <2>7. ASSUME NEW x \in RxBufs, ~InQueue(x)
        PROVE  x \in nicRx' \/ InPool(x)' \/ \E d \in To : buf[d] = x
    <3>1. x \in nicRx \/ InPool(x)
      BY <2>7 DEF RxConserved, InQueue, InPool
    <3>2. InPool(x)' <=> InPool(x)
      BY <2>0, <2>2 DEF InPool
    <3>. QED  BY <2>1, <3>1, <3>2
  <2>8. \A d \in To : ~Full(d) /\ buf[d] \notin nicRx' /\ ~InQueue(buf[d])
    BY <1>2, <2>1, <2>3
  <2>. HIDE DEF To, buf
  <2>9. RxExclusive' /\ RxConserved'
    <3>1. \A d, e \in To : buf[d] = buf[e] => d = e
      BY <2>1
    <3>2. nicRx' \in SUBSET RxBufs /\ rx_buf_pool' \in Seq(RxBufs)
      BY <1>0, <2>0
    <3>. QED  BY <2>0, <2>1, <2>4, <2>5, <2>6, <2>7, <2>8, <3>1, <3>2, GiveStep
  <2>10. RxTypeOK' /\ NotifyArmed'
    <3>1. /\ pending_rx' \in [Clients -> [RxSlots -> RxBufs \cup {None}]]
          /\ pending_rx_head' \in [Clients -> RxSlots]
          /\ should_notify' \in [Clients -> BOOLEAN]
          /\ ntfn' \in [Clients -> BOOLEAN]
          /\ NotifyArmed'
      BY <2>0, <2>1, <2>8, GiveTypes
    <3>2. num_rx_bufs' <= RX_BUFS
      BY <2>0 DEF RxTypeOK, num_rx_bufs
    <3>. QED  BY <1>0, <2>0, <3>1, <3>2 DEF RxTypeOK
  <2>. QED  BY <2>9, <2>10
<1>. QED  BY <1>1, <1>2

(* A frame for all clients is copied to those that have room.                 *)
LEMMA RxGroupStep ==
  ASSUME RxInv, NEW f \in Frames, NEW b \in nicRx, nicRx' = nicRx \ {b},
         RxGroup(b, f), UNCHANGED pending_rx_tail
  PROVE  RxInv'
<1>. USE DEF RxInv
<1>. DEFINE To   == IF Full(0) THEN CopiedTo ELSE CopiedTo \cup {0}
            buf  == [c \in To |-> IF c = 0 THEN b ELSE CopyBuf(c)]
            k    == Cardinality(CopiedTo)
            left == SubSeq(rx_buf_pool, 1, num_rx_bufs - k)
<1>0. /\ b \in RxBufs /\ rx_buf_pool \in Seq(RxBufs) /\ nicRx \in SUBSET RxBufs
      /\ num_rx_bufs \in Nat /\ k \in 0 .. num_rx_bufs /\ 0 \in Clients
      /\ give_client_buf(To, buf)
      /\ rx_buf_pool' = IF Full(0) THEN Append(left, b) ELSE left
      /\ rxData' = [x \in RxBufs |-> IF \E c \in To : x = buf[c] THEN f ELSE rxData[x]]
  BY EthAssumption, CopyRanks DEF RxGroup, RxTypeOK, num_rx_bufs, Clients
<1>1. /\ left \in Seq(RxBufs)
      /\ Len(left) = num_rx_bufs - k
      /\ \A i \in 1 .. num_rx_bufs - k : left[i] = rx_buf_pool[i]
  <2>1. \A i \in 1 .. num_rx_bufs - k : rx_buf_pool[i] \in RxBufs
    BY <1>0 DEF num_rx_bufs
  <2>. QED  BY <1>0, <2>1, SubSeqProperties
<1>2. ASSUME NEW c \in CopiedTo
      PROVE  /\ c \in Clients /\ c # 0 /\ ~Full(c)
             /\ num_rx_bufs - CopyRank(c) \in PoolSlots
             /\ num_rx_bufs - CopyRank(c) \notin 1 .. num_rx_bufs - k
             /\ CopyBuf(c) = rx_buf_pool[num_rx_bufs - CopyRank(c)]
             /\ CopyBuf(c) \in RxBufs
  <2>1. CopyRank(c) \in 0 .. k - 1
    BY CopyRanks
  <2>2. num_rx_bufs - CopyRank(c) \in 1 .. num_rx_bufs
    BY <1>0, <2>1
  <2>3. rx_buf_pool[num_rx_bufs - CopyRank(c)] \in RxBufs
    BY <1>0, <2>2 DEF num_rx_bufs
  <2>4. num_rx_bufs - CopyRank(c) \notin 1 .. num_rx_bufs - k
    BY <1>0, <2>1
  <2>. QED  BY <2>2, <2>3, <2>4 DEF CopiedTo, WithRoom, PoolSlots, CopyBuf
<1>3. ASSUME NEW c \in CopiedTo, NEW d \in CopiedTo, CopyBuf(c) = CopyBuf(d)
      PROVE  c = d
  <2>1. num_rx_bufs - CopyRank(c) = num_rx_bufs - CopyRank(d)
    BY <1>2, <1>3 DEF RxExclusive
  <2>2. CopyRank(c) \in Int /\ CopyRank(d) \in Int
    BY CopyRanks
  <2>. QED  BY <1>0, <2>1, <2>2, CopyRanks
<1>4. ASSUME NEW i \in PoolSlots, i \notin 1 .. num_rx_bufs - k
      PROVE  \E c \in CopiedTo : rx_buf_pool[i] = CopyBuf(c)
  <2>1. num_rx_bufs - i \in 0 .. k - 1 /\ i \in Int
    BY <1>0, <1>4 DEF PoolSlots
  <2>2. PICK c \in CopiedTo : CopyRank(c) = num_rx_bufs - i
    BY <2>1, CopyRanks
  <2>3. num_rx_bufs - CopyRank(c) = i
    BY <1>0, <2>1, <2>2
  <2>. QED  BY <1>2, <2>3
<1>5. /\ ~InQueue(b) /\ ~InPool(b)
      /\ \A i \in PoolSlots : rx_buf_pool[i] \notin nicRx /\ ~InQueue(rx_buf_pool[i]) /\ rx_buf_pool[i] # b
  BY DEF RxExclusive, InQueue, InPool
<1>6. /\ To \in SUBSET Clients
      /\ \A c \in To : ~Full(c)
      /\ \A c \in To : \/ c = 0 /\ buf[c] = b /\ ~Full(0)
                       \/ c \in CopiedTo /\ buf[c] = CopyBuf(c)
      /\ \A c \in CopiedTo : c \in To /\ buf[c] = CopyBuf(c)
      /\ ~Full(0) => 0 \in To /\ buf[0] = b
  BY <1>0, <1>2
<1>7. buf \in [To -> RxBufs]
  BY <1>0, <1>2, <1>6
<1>8. \A c, d \in To : buf[c] = buf[d] => c = d
  <2>1. \A c \in CopiedTo : CopyBuf(c) # b
    BY <1>2, <1>5
  <2>. QED  BY <1>3, <1>6, <2>1
<1>9. \A c \in To : buf[c] \notin nicRx' /\ ~InQueue(buf[c])
  BY <1>2, <1>5, <1>6
<1>10. /\ rx_buf_pool' \in Seq(RxBufs)
       /\ \A i \in PoolSlots' :
            \/ i \in 1 .. num_rx_bufs - k /\ i \in PoolSlots /\ rx_buf_pool'[i] = rx_buf_pool[i]
            \/ Full(0) /\ i = num_rx_bufs - k + 1 /\ rx_buf_pool'[i] = b
       /\ \A i \in 1 .. num_rx_bufs - k : i \in PoolSlots' /\ rx_buf_pool'[i] = rx_buf_pool[i]
       /\ Full(0) => InPool(b)'
  <2>0. num_rx_bufs - k \in Nat /\ \A i \in 1 .. num_rx_bufs - k : i \in PoolSlots
    BY <1>0 DEF PoolSlots
  <2>1. CASE Full(0)
    <3>1. /\ rx_buf_pool' \in Seq(RxBufs)
          /\ Len(rx_buf_pool') = num_rx_bufs - k + 1
          /\ rx_buf_pool'[num_rx_bufs - k + 1] = b
          /\ \A i \in 1 .. num_rx_bufs - k : rx_buf_pool'[i] = left[i]
      BY <1>0, <1>1, <2>1, PoolPush
    <3>2. PoolSlots' = 1 .. num_rx_bufs - k + 1
      BY <3>1 DEF PoolSlots, num_rx_bufs
    <3>3. \A i \in 1 .. num_rx_bufs - k + 1 : i \in 1 .. num_rx_bufs - k \/ i = num_rx_bufs - k + 1
      BY <2>0
    <3>4. /\ num_rx_bufs - k + 1 \in 1 .. num_rx_bufs - k + 1
          /\ \A i \in 1 .. num_rx_bufs - k : i \in 1 .. num_rx_bufs - k + 1
      BY <2>0
    <3>5. InPool(b)'
      BY <3>1, <3>2, <3>4 DEF InPool
    <3>. QED  BY <1>1, <2>0, <2>1, <3>1, <3>2, <3>3, <3>4, <3>5, Zenon
  <2>2. CASE ~Full(0)
    <3>1. rx_buf_pool' = left
      BY <1>0, <2>2
    <3>2. PoolSlots' = 1 .. num_rx_bufs - k
      BY <1>1, <3>1 DEF PoolSlots, num_rx_bufs
    <3>. QED  BY <1>1, <2>0, <2>2, <3>1, <3>2, Zenon
  <2>. QED  BY <2>1, <2>2
<1>11. \A i, j \in PoolSlots' : rx_buf_pool'[i] = rx_buf_pool'[j] => i = j
  BY <1>5, <1>10 DEF RxExclusive
<1>12. ASSUME NEW i \in PoolSlots'
       PROVE  /\ rx_buf_pool'[i] \notin nicRx'
              /\ ~InQueue(rx_buf_pool'[i])
              /\ \A c \in To : buf[c] # rx_buf_pool'[i]
  <2>1. CASE i \in 1 .. num_rx_bufs - k /\ i \in PoolSlots /\ rx_buf_pool'[i] = rx_buf_pool[i]
    <3>1. ASSUME NEW c \in CopiedTo
          PROVE  CopyBuf(c) # rx_buf_pool[i]
      <4>1. num_rx_bufs - CopyRank(c) # i
        BY <1>2, <2>1
      <4>2. \A m, n \in PoolSlots : rx_buf_pool[m] = rx_buf_pool[n] => m = n
        BY DEF RxExclusive
      <4>3. i \in PoolSlots /\ num_rx_bufs - CopyRank(c) \in PoolSlots
        BY <1>2, <2>1
      <4>4. CopyBuf(c) = rx_buf_pool[num_rx_bufs - CopyRank(c)]
        BY DEF CopyBuf
      <4>. QED  BY <4>1, <4>2, <4>3, <4>4, Zenon
    <3>. QED  BY <1>5, <1>6, <2>1, <3>1
  <2>2. CASE Full(0) /\ i = num_rx_bufs - k + 1 /\ rx_buf_pool'[i] = b
    <3>1. \A c \in CopiedTo : CopyBuf(c) # b
      BY <1>2, <1>5
    <3>. QED  BY <1>5, <1>6, <2>2, <3>1
  <2>. QED  BY <1>10, <2>1, <2>2
<1>13. \A x \in nicRx' : ~InQueue(x)
  BY DEF RxExclusive, InQueue
<1>14. ASSUME NEW x \in RxBufs, ~InQueue(x)
       PROVE  x \in nicRx' \/ InPool(x)' \/ \E c \in To : buf[c] = x
  <2>1. CASE x \in nicRx
    BY <1>6, <1>10, <2>1
  <2>2. CASE InPool(x)
    <3>1. PICK i \in PoolSlots : rx_buf_pool[i] = x
      BY <2>2 DEF InPool
    <3>2. CASE i \in 1 .. num_rx_bufs - k
      BY <1>10, <3>1, <3>2 DEF InPool
    <3>3. CASE i \notin 1 .. num_rx_bufs - k
      BY <1>4, <1>6, <3>1, <3>3
    <3>. QED  BY <3>2, <3>3
  <2>. QED  BY <1>14, <2>1, <2>2 DEF RxConserved, InQueue, InPool
<1>. HIDE DEF To, buf, k, left
<1>15. RxExclusive' /\ RxConserved'
  <2>1. nicRx' \in SUBSET RxBufs
    BY <1>0
  <2>. QED  BY <1>0, <1>6, <1>7, <1>8, <1>9, <1>10, <1>11, <1>12, <1>13, <1>14, <2>1, GiveStep, ZenonT(150)
<1>16. RxTypeOK' /\ NotifyArmed'
  <2>1. /\ pending_rx' \in [Clients -> [RxSlots -> RxBufs \cup {None}]]
        /\ pending_rx_head' \in [Clients -> RxSlots]
        /\ should_notify' \in [Clients -> BOOLEAN]
        /\ ntfn' \in [Clients -> BOOLEAN]
        /\ NotifyArmed'
    BY <1>0, <1>6, <1>7, GiveTypes
  <2>2. num_rx_bufs' <= RX_BUFS
    BY <1>10, <1>15, RxBound
  <2>3. rxData' \in [RxBufs -> Frames \cup {None}]
    BY <1>0 DEF RxTypeOK
  <2>. QED  BY <1>0, <1>10, <2>1, <2>2, <2>3 DEF RxTypeOK
<1>. QED  BY <1>15, <1>16

-----------------------------------------------------------------------------
(* Transmit buffers.                                                       *)

TxInv == TxTypeOK /\ TxExclusive /\ TxConserved /\ TxSlotKept

(* A client's pool that misses one of its buffers has a free slot.         *)
LEMMA TxBound ==
  ASSUME TxTypeOK, TxExclusive,
         NEW b \in TxBufs, \A i \in FreeTx(b[1]) : pending_tx[b[1]][i] # b
  PROVE  num_tx[b[1]] \in TxSlots
<1>. DEFINE c == b[1]
            n == num_tx[c]
            p == pending_tx[c]
            g == [i \in 0 .. n |-> IF i = n THEN b[2] ELSE p[i][2]]
<1>0. /\ c \in Clients /\ b[2] \in TxSlots /\ b = << c, b[2] >>
      /\ n \in 0 .. CLIENT_TX_BUFS /\ n \in Nat
      /\ p \in [TxSlots -> TxBufs]
      /\ CLIENT_TX_BUFS \in Nat \ {0}
  BY EthAssumption DEF TxTypeOK, TxBufs
<1>1. ASSUME NEW i \in 0 .. n, i # n
      PROVE  i \in FreeTx(c) /\ p[i] \in TxBufs /\ p[i] = << c, p[i][2] >> /\ p[i][2] \in TxSlots
  <2>1. i \in FreeTx(c) /\ i \in TxSlots
    BY <1>0, <1>1 DEF FreeTx, TxSlots
  <2>2. p[i] \in TxBufs /\ p[i][1] = c
    BY <1>0, <2>1 DEF TxExclusive
  <2>. QED  BY <2>1, <2>2 DEF TxBufs
<1>2. g \in [0 .. n -> TxSlots]
  BY <1>0, <1>1
<1>3. ASSUME NEW i \in 0 .. n, NEW j \in 0 .. n, g[i] = g[j]
      PROVE  i = j
  <2>1. CASE i # n /\ j # n
    <3>1. p[i] = p[j]
      BY <1>1, <1>3, <2>1
    <3>. QED  BY <1>0, <1>1, <2>1, <3>1 DEF TxExclusive
  <2>2. CASE i = n /\ j # n
    BY <1>0, <1>1, <1>3, <2>2
  <2>3. CASE i # n /\ j = n
    BY <1>0, <1>1, <1>3, <2>3
  <2>. QED  BY <2>1, <2>2, <2>3
<1>4. g \in Injection(0 .. n, TxSlots)
  BY <1>2, <1>3 DEF Injection, IsInjective
<1>5. IsFiniteSet(TxSlots) /\ Cardinality(TxSlots) = CLIENT_TX_BUFS /\ Cardinality(0 .. n) = n + 1
  <2>1. IsFiniteSet(0 .. CLIENT_TX_BUFS - 1) /\ Cardinality(0 .. CLIENT_TX_BUFS - 1) = CLIENT_TX_BUFS
    BY <1>0, IndexCount
  <2>2. Cardinality(0 .. n) = n + 1
    BY <1>0, IndexCount
  <2>. QED  BY <2>1, <2>2 DEF TxSlots
<1>6. n + 1 <= CLIENT_TX_BUFS
  BY <1>4, <1>5, FS_Injection
<1>. QED  BY <1>0, <1>6 DEF TxSlots

(* client_tx takes a transmit buffer, or refuses.                             *)
LEMMA TxTakeStep ==
  ASSUME TxInv, NEW c \in Clients, NEW q \in Packets, client_tx(c, q)
  PROVE  TxInv'
<1>. USE DEF TxInv
<1>. DEFINE n == num_tx[c]
            b == pending_tx[c][n - 1]
<1>0. /\ n \in 1 .. CLIENT_TX_BUFS /\ n - 1 \in TxSlots /\ n - 1 \in FreeTx(c)
      /\ b \in TxBufs /\ b[1] = c /\ b \notin nicTx /\ b # None
      /\ num_tx' = [num_tx EXCEPT ![c] = n - 1]
      /\ txBuf' = b /\ phase' = "tx" /\ txBuf = None
      /\ txData' = [txData EXCEPT ![b] = q]
      /\ UNCHANGED << pending_tx, nicTx, reclaimed >>
  <2>1. n \in 1 .. CLIENT_TX_BUFS
    BY EthAssumption DEF client_tx, TxTypeOK
  <2>2. n - 1 \in TxSlots /\ n - 1 \in FreeTx(c)
    BY <2>1, EthAssumption DEF TxSlots, FreeTx
  <2>3. b \in TxBufs /\ b[1] = c /\ b \notin nicTx /\ b # None
    BY <2>2, EthAssumption DEF TxTypeOK, TxExclusive
  <2>. QED  BY <2>1, <2>2, <2>3 DEF client_tx, TxExclusive
<1>1. /\ \A i \in FreeTx(c) : i \in FreeTx(c)' \/ i = n - 1
      /\ \A i \in FreeTx(c)' : i \in FreeTx(c) /\ i # n - 1
      /\ \A d \in Clients : d # c => FreeTx(d)' = FreeTx(d)
  <2>1. num_tx'[c] = n - 1 /\ \A d \in Clients : d # c => num_tx'[d] = num_tx[d]
    BY <1>0 DEF TxTypeOK
  <2>2. /\ \A i \in 0 .. n - 1 : i \in 0 .. (n - 1) - 1 \/ i = n - 1
        /\ \A i \in 0 .. (n - 1) - 1 : i \in 0 .. n - 1 /\ i # n - 1
    BY <1>0, EthAssumption
  <2>. QED  BY <2>1, <2>2 DEF FreeTx
<1>2. TxTypeOK'
  <2>1. num_tx' \in [Clients -> 0 .. CLIENT_TX_BUFS]
    <3>1. n - 1 \in 0 .. CLIENT_TX_BUFS
      BY <1>0, EthAssumption
    <3>. QED  BY <1>0, <3>1 DEF TxTypeOK
  <2>. QED  BY <1>0, <2>1 DEF TxTypeOK
<1>3. TxExclusive'
  <2>1. ASSUME NEW d \in Clients, NEW i \in FreeTx(d)'
        PROVE  /\ pending_tx'[d][i][1] = d
               /\ pending_tx'[d][i] \notin nicTx'
               /\ pending_tx'[d][i] # txBuf'
               /\ \A j \in FreeTx(d)' : pending_tx'[d][i] = pending_tx'[d][j] => i = j
    <3>1. i \in FreeTx(d) /\ \A j \in FreeTx(d)' : j \in FreeTx(d)
      BY <1>1, <2>1
    <3>2. pending_tx[d][i] # b
      <4>1. CASE d = c
        BY <1>0, <1>1, <2>1, <3>1, <4>1 DEF TxExclusive
      <4>2. CASE d # c
        BY <1>0, <3>1, <4>2 DEF TxExclusive
      <4>. QED  BY <4>1, <4>2
    <3>. QED  BY <1>0, <3>1, <3>2 DEF TxExclusive
  <2>. QED  BY <1>0, <2>1 DEF TxExclusive
<1>4. TxConserved'
  <2>. SUFFICES ASSUME NEW x \in TxBufs
                PROVE  x \in nicTx' \/ x = txBuf' \/ \E i \in FreeTx(x[1])' : pending_tx'[x[1]][i] = x
    BY DEF TxConserved
  <2>1. CASE x \in nicTx
    BY <1>0, <2>1
  <2>2. CASE \E i \in FreeTx(x[1]) : pending_tx[x[1]][i] = x
    <3>1. PICK i \in FreeTx(x[1]) : pending_tx[x[1]][i] = x
      BY <2>2
    <3>2. x[1] \in Clients
      BY DEF TxBufs
    <3>3. CASE x[1] = c /\ i = n - 1
      BY <1>0, <3>1, <3>3
    <3>4. CASE ~(x[1] = c /\ i = n - 1)
      BY <1>0, <1>1, <3>1, <3>2, <3>4
    <3>. QED  BY <3>3, <3>4
  <2>3. x # txBuf
    BY <1>0, EthAssumption
  <2>. QED  BY <2>1, <2>2, <2>3 DEF TxConserved
<1>5. TxSlotKept'
  <2>1. txBuf'[1] = c /\ num_tx'[c] = n - 1 /\ pending_tx'[c][n - 1] = b
    BY <1>0 DEF TxTypeOK
  <2>2. n - 1 < CLIENT_TX_BUFS
    BY <1>0, EthAssumption
  <2>. QED  BY <1>0, <2>1, <2>2 DEF TxSlotKept
<1>. QED  BY <1>2, <1>3, <1>4, <1>5

(* Both ways back to the pool, for a buffer b that is neither there nor,   *)
(* after the step, in the card's ring or in raw_tx: it ends in the slot    *)
(* num_tx, where it is written (p) or still was.                           *)
LEMMA TxReturn ==
  ASSUME TxInv, NEW b \in TxBufs,
         num_tx[b[1]] \in TxSlots,
         \A i \in FreeTx(b[1]) : pending_tx[b[1]][i] # b,
         num_tx' = [num_tx EXCEPT ![b[1]] = num_tx[b[1]] + 1],
         \/ pending_tx' = [pending_tx EXCEPT ![b[1]] = [pending_tx[b[1]] EXCEPT ![num_tx[b[1]]] = b]]
         \/ pending_tx' = pending_tx /\ pending_tx[b[1]][num_tx[b[1]]] = b,
         nicTx' \in SUBSET nicTx, b \notin nicTx',
         (txBuf' = txBuf /\ b # txBuf) \/ (txBuf' = None /\ txBuf \in {None, b}),
         \A x \in nicTx : x \in nicTx' \/ x = b,
         phase' = "tx" <=> txBuf' # None,
         txData' \in [TxBufs -> Packets \cup {None}],
         reclaimed' \in BOOLEAN,
         phase' = "tx" => reclaimed'
  PROVE  TxInv'
<1>. USE DEF TxInv
<1>. DEFINE c == b[1]
            n == num_tx[c]
<1>0. c \in Clients /\ n \in Nat /\ n + 1 \in 0 .. CLIENT_TX_BUFS /\ b # None
  BY EthAssumption DEF TxBufs, TxSlots
<1>1. /\ FreeTx(c)' = FreeTx(c) \cup {n} /\ n \notin FreeTx(c)
      /\ \A d \in Clients : d # c => FreeTx(d)' = FreeTx(d)
  <2>1. num_tx'[c] = n + 1 /\ \A d \in Clients : d # c => num_tx'[d] = num_tx[d]
    BY <1>0 DEF TxTypeOK
  <2>2. 0 .. (n + 1) - 1 = (0 .. n - 1) \cup {n} /\ n \notin 0 .. n - 1
    BY <1>0
  <2>. QED  BY <2>1, <2>2 DEF FreeTx
<1>2. /\ \A d \in Clients : \A i \in FreeTx(d) : pending_tx'[d][i] = pending_tx[d][i]
      /\ pending_tx'[c][n] = b
      /\ pending_tx' \in [Clients -> [TxSlots -> TxBufs]]
  <2>1. CASE pending_tx' = [pending_tx EXCEPT ![c] = [pending_tx[c] EXCEPT ![n] = b]]
    <3>1. pending_tx'[c] = [pending_tx[c] EXCEPT ![n] = b]
      BY <1>0, <2>1 DEF TxTypeOK
    <3>2. \A d \in Clients : d # c => pending_tx'[d] = pending_tx[d]
      BY <1>0, <2>1 DEF TxTypeOK
    <3>3. \A i \in FreeTx(c) : pending_tx'[c][i] = pending_tx[c][i]
      BY <1>0, <1>1, <3>1 DEF TxTypeOK
    <3>4. pending_tx[c] \in [TxSlots -> TxBufs]
      BY <1>0 DEF TxTypeOK
    <3>5. pending_tx'[c][n] = b /\ pending_tx'[c] \in [TxSlots -> TxBufs]
      BY <3>1, <3>4
    <3>. QED  BY <1>0, <2>1, <3>1, <3>2, <3>3, <3>5 DEF TxTypeOK
  <2>2. CASE pending_tx' = pending_tx /\ pending_tx[c][n] = b
    BY <2>2 DEF TxTypeOK
  <2>. QED  BY <2>1, <2>2
<1>3. TxTypeOK'
  BY <1>0, <1>2 DEF TxTypeOK
<1>4. TxExclusive'
  <2>1. ASSUME NEW d \in Clients, NEW i \in FreeTx(d)'
        PROVE  /\ pending_tx'[d][i][1] = d
               /\ pending_tx'[d][i] \notin nicTx'
               /\ pending_tx'[d][i] # txBuf'
               /\ \A j \in FreeTx(d)' : pending_tx'[d][i] = pending_tx'[d][j] => i = j
    <3>1. CASE d = c /\ i = n
      BY <1>0, <1>1, <1>2, <3>1 DEF TxExclusive
    <3>2. CASE i \in FreeTx(d)
      <4>1. /\ pending_tx'[d][i] = pending_tx[d][i] /\ pending_tx[d][i][1] = d
            /\ pending_tx[d][i] \notin nicTx /\ pending_tx[d][i] # txBuf
            /\ \A j \in FreeTx(d) : pending_tx[d][i] = pending_tx[d][j] => i = j
        BY <1>2, <3>2 DEF TxExclusive
      <4>2. pending_tx[d][i] # b
        BY <3>2, <4>1
      <4>3. pending_tx[d][i] # None
        <5>1. i \in TxSlots
          BY <3>2, EthAssumption DEF FreeTx, TxSlots, TxTypeOK
        <5>. QED  BY <5>1, EthAssumption DEF TxTypeOK
      <4>4. \A j \in FreeTx(d)' : j \in FreeTx(d) \/ (d = c /\ j = n)
        BY <1>1
      <4>. QED  BY <1>2, <4>1, <4>2, <4>3, <4>4
    <3>. QED  BY <1>1, <2>1, <3>1, <3>2
  <2>2. txBuf' \notin nicTx'
    BY EthAssumption DEF TxExclusive, TxTypeOK
  <2>. QED  BY <2>1, <2>2 DEF TxExclusive
<1>5. TxConserved'
  <2>. SUFFICES ASSUME NEW x \in TxBufs
                PROVE  x \in nicTx' \/ x = txBuf' \/ \E i \in FreeTx(x[1])' : pending_tx'[x[1]][i] = x
    BY DEF TxConserved
  <2>1. CASE x = b
    BY <1>1, <1>2, <2>1
  <2>2. CASE x # b /\ (x \in nicTx \/ x = txBuf)
    BY <2>2, EthAssumption
  <2>3. CASE \E i \in FreeTx(x[1]) : pending_tx[x[1]][i] = x
    <3>1. x[1] \in Clients
      BY DEF TxBufs
    <3>. QED  BY <1>1, <1>2, <2>3, <3>1
  <2>. QED  BY <2>1, <2>2, <2>3 DEF TxConserved
<1>6. TxSlotKept'
  BY DEF TxSlotKept
<1>. QED  BY <1>3, <1>4, <1>5, <1>6

-----------------------------------------------------------------------------
(* The specification.                                                      *)

IInv == /\ phase \in Phases
        /\ done_init \in BOOLEAN
        /\ RxInv
        /\ TxInv

(* The initial state satisfies the inductive invariant.                       *)
LEMMA InitInv == Init => IInv
<1>. SUFFICES ASSUME Init PROVE IInv
  OBVIOUS
<1>0. /\ RX_BUFS \in Nat \ {0} /\ CLIENT_RX_BUFS \in Nat \ {0} /\ CLIENT_TX_BUFS \in Nat \ {0}
      /\ None \notin TxBufs
  BY EthAssumption
<1>1. /\ rx_buf_pool \in Seq(RxBufs) /\ Len(rx_buf_pool) = RX_BUFS
      /\ \A i \in 1 .. RX_BUFS : rx_buf_pool[i] = i - 1
  BY <1>0 DEF Init, RxBufs
<1>2. \A c \in Clients : Queued(c) = {}
  BY <1>0 DEF Init, Queued, InWindow, RxSlots
<1>3. RxTypeOK
  BY <1>0, <1>1 DEF Init, RxTypeOK, num_rx_bufs, RxSlots
<1>4. RxExclusive
  <2>1. \A i, j \in PoolSlots : rx_buf_pool[i] = rx_buf_pool[j] => i = j
    BY <1>0, <1>1 DEF PoolSlots, num_rx_bufs
  <2>. QED  BY <1>2, <2>1 DEF RxExclusive, Init
<1>5. RxConserved
  <2>. SUFFICES ASSUME NEW b \in RxBufs
                PROVE  \E i \in PoolSlots : rx_buf_pool[i] = b
    BY DEF RxConserved
  <2>1. b + 1 \in 1 .. RX_BUFS /\ (b + 1) - 1 = b
    BY <1>0 DEF RxBufs
  <2>. QED  BY <1>1, <2>1 DEF PoolSlots, num_rx_bufs
<1>6. NotifyArmed
  BY DEF Init, NotifyArmed, Empty
<1>7. TxTypeOK
  <2>1. pending_tx \in [Clients -> [TxSlots -> TxBufs]]
    BY DEF Init, TxBufs
  <2>2. num_tx \in [Clients -> 0 .. CLIENT_TX_BUFS]
    BY <1>0 DEF Init
  <2>. QED  BY <2>1, <2>2 DEF Init, TxTypeOK
<1>8. TxExclusive /\ TxConserved
  <2>1. ASSUME NEW c \in Clients
        PROVE  FreeTx(c) = TxSlots /\ \A i \in TxSlots : pending_tx[c][i] = << c, i >>
    BY <1>0 DEF Init, FreeTx, TxSlots
  <2>2. TxExclusive
    BY <1>0, <1>7, <2>1 DEF Init, TxExclusive, TxTypeOK
  <2>3. TxConserved
    BY <2>1 DEF TxConserved, TxBufs
  <2>. QED  BY <2>2, <2>3
<1>9. TxSlotKept
  BY DEF Init, TxSlotKept
<1>. QED  BY <1>3, <1>4, <1>5, <1>6, <1>7, <1>8, <1>9 DEF IInv, RxInv, TxInv, Init, Phases

(* Steps that leave one side of the component alone.                       *)
LEMMA RxFrame ==
  ASSUME RxInv, UNCHANGED rxVars
  PROVE  RxInv'
BY DEF RxInv, rxVars, RxTypeOK, RxExclusive, RxConserved, NotifyArmed, PoolSlots,
       Queued, Empty, num_rx_bufs

(* A step that is none of the transmitting side keeps its invariant.          *)
LEMMA TxFrame ==
  ASSUME TxInv, UNCHANGED txVars, phase # "tx", phase' # "tx"
  PROVE  TxInv'
<1>1. TxTypeOK'
  BY DEF TxInv, txVars, TxTypeOK
<1>2. TxExclusive'
  BY DEF TxInv, txVars, TxExclusive, FreeTx
<1>3. TxConserved'
  BY DEF TxInv, txVars, TxConserved, FreeTx
<1>4. TxSlotKept'
  BY DEF TxSlotKept
<1>. QED  BY <1>1, <1>2, <1>3, <1>4 DEF TxInv

(* Every step keeps the inductive invariant.                                  *)
LEMMA NextInv == IInv /\ [Next]_vars => IInv'
<1>. SUFFICES ASSUME IInv, [Next]_vars PROVE IInv'
  OBVIOUS
<1>. USE DEF IInv, Phases
<1>1. CASE raw_irq
  <2>1. /\ UNCHANGED rxVars /\ UNCHANGED txVars
        /\ phase # "tx" /\ phase' # "tx" /\ phase' \in Phases /\ done_init' \in BOOLEAN
    BY <1>1 DEF raw_irq
  <2>2. RxInv'
    BY <2>1, RxFrame
  <2>3. TxInv'
    BY <2>1, TxFrame
  <2>. QED  BY <2>1, <2>2, <2>3
<1>2. CASE raw_fill
  <2>1. /\ UNCHANGED rxVars /\ UNCHANGED txVars
        /\ phase # "tx" /\ phase' # "tx" /\ phase' \in Phases /\ done_init' \in BOOLEAN
    BY <1>2 DEF raw_fill
  <2>2. RxInv'
    BY <2>1, RxFrame
  <2>3. TxInv'
    BY <2>1, TxFrame
  <2>. QED  BY <2>1, <2>2, <2>3
<1>3. CASE raw_done
  <2>1. /\ UNCHANGED rxVars /\ UNCHANGED txVars
        /\ phase # "tx" /\ phase' # "tx" /\ phase' \in Phases /\ done_init' \in BOOLEAN
    BY <1>3 DEF raw_done
  <2>2. RxInv'
    BY <2>1, RxFrame
  <2>3. TxInv'
    BY <2>1, TxFrame
  <2>. QED  BY <2>1, <2>2, <2>3
<1>4. CASE eth_allocate_rx_buf
  BY <1>4, RxAllocateStep, TxFrame DEF eth_allocate_rx_buf
<1>5. ASSUME NEW b \in RxBufs, NEW f \in Frames, eth_rx_complete(b, f)
      PROVE  IInv'
  <2>1. /\ b \in nicRx /\ nicRx' = nicRx \ {b} /\ UNCHANGED pending_rx_tail
        /\ RxUnicast(b, f) \/ RxGroup(b, f) \/ RxReject(b, f)
    BY <1>5 DEF eth_rx_complete
  <2>2. ASSUME RxUnicast(b, f) PROVE RxInv'
    BY <2>1, <2>2, RxUnicastStep
  <2>3. ASSUME RxGroup(b, f) PROVE RxInv'
    BY <2>1, <2>3, RxGroupStep
  <2>4. ASSUME RxReject(b, f) PROVE RxInv'
    BY <2>1, <2>4, RxRejectStep DEF RxReject
  <2>5. RxInv'
    BY <2>1, <2>2, <2>3, <2>4 DEF RxInv
  <2>. QED  BY <1>5, <2>5, TxFrame DEF eth_rx_complete
<1>6. ASSUME NEW a \in RxBufs, NEW b \in RxBufs, eth_rx_complete_chain(a, b)
      PROVE  IInv'
  BY <1>6, RxChainStep, TxFrame DEF eth_rx_complete_chain
<1>7. ASSUME NEW b \in TxBufs, eth_tx_complete(b)
      PROVE  IInv'
  <2>1. \A i \in FreeTx(b[1]) : pending_tx[b[1]][i] # b
    BY <1>7 DEF eth_tx_complete, TxInv, TxExclusive, TxBufs
  <2>2. num_tx[b[1]] \in TxSlots
    BY <2>1, TxBound DEF TxInv
  <2>3. nicTx' \in SUBSET nicTx /\ b \notin nicTx' /\ \A x \in nicTx : x \in nicTx' \/ x = b
    BY <1>7 DEF eth_tx_complete
  <2>4. txBuf' = txBuf /\ b # txBuf /\ (phase' = "tx" <=> txBuf' # None)
    BY <1>7 DEF eth_tx_complete, TxInv, TxExclusive
  <2>5. txData' \in [TxBufs -> Packets \cup {None}] /\ reclaimed' \in BOOLEAN /\ (phase' = "tx" => reclaimed')
    BY <1>7 DEF eth_tx_complete, TxInv, TxTypeOK
  <2>6. /\ num_tx' = [num_tx EXCEPT ![b[1]] = num_tx[b[1]] + 1]
        /\ pending_tx' = [pending_tx EXCEPT ![b[1]] = [pending_tx[b[1]] EXCEPT ![num_tx[b[1]]] = b]]
    BY <1>7 DEF eth_tx_complete
  <2>7. TxInv'
    BY <2>1, <2>2, <2>3, <2>4, <2>5, <2>6, TxReturn
  <2>. QED  BY <1>7, <2>7, RxFrame DEF eth_tx_complete
<1>8. CASE raw_tx_enqueued
  <2>1. txBuf \in TxBufs /\ txBuf # None /\ txBuf \notin nicTx
    BY <1>8 DEF raw_tx_enqueued, TxInv, TxTypeOK, TxExclusive
  <2>2. /\ nicTx' = nicTx \cup {txBuf} /\ txBuf' = None /\ phase' = "idle" /\ reclaimed' = FALSE
        /\ UNCHANGED << rxVars, done_init, pending_tx, num_tx, txData >>
    BY <1>8 DEF raw_tx_enqueued
  <2>3. \A c \in Clients : FreeTx(c)' = FreeTx(c)
    BY <2>2 DEF FreeTx
  <2>4. TxTypeOK'
    BY <2>1, <2>2 DEF TxInv, TxTypeOK
  <2>5. TxExclusive'
    <3>1. ASSUME NEW c \in Clients, NEW i \in FreeTx(c)
          PROVE  pending_tx[c][i] # None
      <4>1. i \in TxSlots
        BY EthAssumption DEF TxInv, TxTypeOK, FreeTx, TxSlots
      <4>. QED  BY <4>1, EthAssumption DEF TxInv, TxTypeOK
    <3>2. None \notin nicTx'
      BY <2>4, EthAssumption DEF TxTypeOK
    <3>. QED  BY <2>1, <2>2, <2>3, <3>1, <3>2 DEF TxInv, TxExclusive
  <2>6. TxConserved'
    <3>. SUFFICES ASSUME NEW x \in TxBufs
                  PROVE  x \in nicTx' \/ x = txBuf' \/ \E i \in FreeTx(x[1])' : pending_tx'[x[1]][i] = x
      BY DEF TxConserved
    <3>1. x[1] \in Clients
      BY DEF TxBufs
    <3>. QED  BY <2>2, <2>3, <3>1 DEF TxInv, TxConserved
  <2>7. TxSlotKept'
    BY <2>2 DEF TxSlotKept
  <2>. QED  BY <2>2, <2>4, <2>5, <2>6, <2>7, RxFrame DEF TxInv
<1>9. CASE raw_tx_refused
  <2>. DEFINE b == txBuf
  <2>1. /\ b \in TxBufs /\ b # None /\ b \notin nicTx /\ ~reclaimed /\ phase = "tx"
    BY <1>9 DEF raw_tx_refused, TxInv, TxTypeOK, TxExclusive
  <2>2. /\ b[1] \in Clients
        /\ \A i \in FreeTx(b[1]) : pending_tx[b[1]][i] # b
    BY <2>1 DEF TxInv, TxExclusive, TxBufs
  <2>3. num_tx[b[1]] \in TxSlots /\ pending_tx[b[1]][num_tx[b[1]]] = b
    <3>1. num_tx[b[1]] \in 0 .. CLIENT_TX_BUFS
      BY <2>2 DEF TxInv, TxTypeOK
    <3>2. num_tx[b[1]] < CLIENT_TX_BUFS /\ pending_tx[b[1]][num_tx[b[1]]] = b
      BY <2>1 DEF TxInv, TxSlotKept
    <3>. QED  BY <3>1, <3>2, EthAssumption DEF TxSlots
  <2>4. /\ num_tx' = [num_tx EXCEPT ![b[1]] = num_tx[b[1]] + 1]
        /\ pending_tx' = pending_tx /\ nicTx' = nicTx /\ txBuf' = None /\ phase' = "idle"
        /\ reclaimed' = reclaimed /\ UNCHANGED << rxVars, done_init >>
        /\ txData' = [txData EXCEPT ![b] = None]
    BY <1>9 DEF raw_tx_refused
  <2>5. txData' \in [TxBufs -> Packets \cup {None}] /\ reclaimed' \in BOOLEAN
    BY <2>4 DEF TxInv, TxTypeOK
  <2>6. TxInv'
    BY <2>1, <2>2, <2>3, <2>4, <2>5, TxReturn
  <2>. QED  BY <2>4, <2>6, RxFrame
<1>10. ASSUME NEW c \in Clients, client_rx(c)
       PROVE  IInv'
  <2>1. ASSUME RxTake(c) PROVE RxInv'
    BY <1>10, <2>1, RxTakeStep DEF client_rx
  <2>2. ASSUME RxNothing(c) PROVE RxInv'
    <3>1. should_notify' = should_notify
      BY <2>2 DEF RxNothing, RxInv, NotifyArmed, RxTypeOK
    <3>. QED  BY <1>10, <2>2, <3>1, RxFrame DEF client_rx, RxNothing, rxVars
  <2>3. RxInv'
    BY <1>10, <2>1, <2>2 DEF client_rx
  <2>4. /\ UNCHANGED txVars /\ UNCHANGED << phase, done_init >>
        /\ phase = "idle"
    BY <1>10 DEF client_rx
  <2>5. TxInv'
    BY <2>4, TxFrame
  <2>. QED  BY <2>3, <2>4, <2>5
<1>11. ASSUME NEW c \in Clients, NEW q \in Packets, client_tx(c, q)
       PROVE  IInv'
  <2>1. TxInv'
    BY <1>11, TxTakeStep
  <2>2. UNCHANGED rxVars /\ UNCHANGED done_init /\ phase' = "tx"
    BY <1>11 DEF client_tx
  <2>3. RxInv'
    BY <2>2, RxFrame
  <2>. QED  BY <2>1, <2>2, <2>3
<1>12. ASSUME NEW c \in Clients, client_wait(c)
       PROVE  IInv'
  <2>1. /\ ntfn' \in [Clients -> BOOLEAN]
        /\ UNCHANGED << phase, done_init, rx_buf_pool, nicRx, rxData, pending_rx,
                        pending_rx_head, pending_rx_tail, should_notify, txVars >>
    BY <1>12 DEF client_wait, RxInv, RxTypeOK
  <2>2. RxInv'
    BY <2>1 DEF RxInv, RxTypeOK, RxExclusive, RxConserved, NotifyArmed, PoolSlots,
                Queued, Empty, num_rx_bufs
  <2>3. TxInv'
    BY <2>1 DEF txVars, TxInv, TxTypeOK, TxExclusive, TxConserved, TxSlotKept, FreeTx
  <2>. QED  BY <2>1, <2>2, <2>3
<1>13. CASE UNCHANGED vars
  <2>1. TxInv'
    BY <1>13 DEF vars, txVars, TxInv, TxTypeOK, TxExclusive, TxConserved, TxSlotKept, FreeTx
  <2>. QED  BY <1>13, <2>1, RxFrame DEF vars
<1>. QED  BY <1>1, <1>2, <1>3, <1>4, <1>5, <1>6, <1>7, <1>8, <1>9, <1>10, <1>11, <1>12, <1>13
           DEF Next, Driver

(* The inductive invariant holds in every reachable state.                    *)
LEMMA Invariance == Spec => []IInv
BY InitInv, NextInv, PTL DEF Spec

(* The array indices stay within the arrays, and every variable in its     *)
(* type, for any number of clients and buffers.                            *)
THEOREM TypeCorrect == Spec => []TypeOK
<1>1. IInv => TypeOK
  BY DEF IInv, RxInv, TxInv, TypeOK
<1>. QED  BY <1>1, Invariance, PTL

(* No receive buffer is ever in two places, and none is ever lost.         *)
THEOREM RxBuffersOwned == Spec => []RxOwned
<1>1. IInv => RxOwned
  BY DEF IInv, RxInv, RxOwned
<1>. QED  BY <1>1, Invariance, PTL

(* No transmit buffer is ever in two places, and none is ever lost.        *)
THEOREM TxBuffersOwned == Spec => []TxOwned
<1>1. IInv => TxOwned
  BY DEF IInv, TxInv, TxOwned
<1>. QED  BY <1>1, Invariance, PTL

(* A client is armed for a notification exactly when its queue is empty.   *)
THEOREM NotificationsArmed == Spec => []NotifyArmed
<1>1. IInv => NotifyArmed
  BY DEF IInv, RxInv
<1>. QED  BY <1>1, Invariance, PTL

(* client_tx and the callbacks never write to a buffer being sent.         *)
THEOREM SentUnaltered == Spec => TxInFlightStable
<1>1. IInv /\ [Next]_vars => [\A b \in nicTx \cap nicTx' : txData'[b] = txData[b]]_vars
  <2>. SUFFICES ASSUME IInv, Next, NEW b \in nicTx \cap nicTx'
                PROVE  txData'[b] = txData[b]
    BY DEF vars
  <2>0. txData \in [TxBufs -> Packets \cup {None}] /\ b \in TxBufs
    BY DEF IInv, TxInv, TxTypeOK
  <2>1. ASSUME NEW c \in Clients, NEW q \in Packets, client_tx(c, q)
        PROVE  txData'[b] = txData[b]
    <3>1. num_tx[c] - 1 \in FreeTx(c)
      <4>1. num_tx[c] \in 0 .. CLIENT_TX_BUFS /\ num_tx[c] # 0
        BY <2>1 DEF client_tx, IInv, TxInv, TxTypeOK
      <4>. QED  BY <4>1, EthAssumption DEF FreeTx
    <3>2. pending_tx[c][num_tx[c] - 1] # b
      BY <3>1 DEF IInv, TxInv, TxExclusive
    <3>. QED  BY <2>0, <2>1, <3>2 DEF client_tx
  <2>2. ASSUME NEW d \in TxBufs, eth_tx_complete(d)
        PROVE  txData'[b] = txData[b]
    BY <2>0, <2>2 DEF eth_tx_complete
  <2>3. CASE raw_tx_refused
    BY <2>0, <2>3 DEF raw_tx_refused, IInv, TxInv, TxExclusive
  <2>4. CASE UNCHANGED txData
    BY <2>4
  <2>. QED  BY <2>1, <2>2, <2>3, <2>4
            DEF Next, Driver, raw_irq, raw_fill, raw_done, eth_allocate_rx_buf,
                eth_rx_complete, eth_rx_complete_chain, raw_tx_enqueued, client_rx,
                client_wait, txVars
<1>. QED  BY <1>1, Invariance, PTL DEF Spec, TxInFlightStable

-----------------------------------------------------------------------------
(* Reception does not stall.                                               *)

(* The place of a queued slot, counted from the tail: the queue never      *)
(* holds more than CLIENT_RX_BUFS - 1 buffers.                             *)
Place(c, i) ==
  IF pending_rx_tail[c] <= i THEN i - pending_rx_tail[c]
                             ELSE i - pending_rx_tail[c] + CLIENT_RX_BUFS

(* Queued frames have different places in the queue, each less than its size. *)
LEMMA PlaceInjective ==
  ASSUME RxTypeOK, NEW c \in Clients, NEW i \in Queued(c), NEW j \in Queued(c)
  PROVE  /\ Place(c, i) \in 0 .. CLIENT_RX_BUFS - 2
         /\ Place(c, i) = Place(c, j) => i = j
<1>1. /\ CLIENT_RX_BUFS \in Nat \ {0}
      /\ pending_rx_tail[c] \in 0 .. CLIENT_RX_BUFS - 1
      /\ pending_rx_head[c] \in 0 .. CLIENT_RX_BUFS - 1
      /\ i \in 0 .. CLIENT_RX_BUFS - 1 /\ InWindow(i, pending_rx_tail[c], pending_rx_head[c])
      /\ j \in 0 .. CLIENT_RX_BUFS - 1 /\ InWindow(j, pending_rx_tail[c], pending_rx_head[c])
  BY EthAssumption DEF RxTypeOK, RxSlots, Queued
<1>. QED  BY <1>1 DEF InWindow, Place

(* The queues of all clients cannot hold all the buffers.                  *)
LEMMA QueuesAreSmaller ==
  ASSUME NumClients * (CLIENT_RX_BUFS - 1) < RX_BUFS, RxTypeOK, RxExclusive
  PROVE  \E b \in RxBufs : ~InQueue(b)
<1>. SUFFICES ASSUME \A b \in RxBufs : InQueue(b)
              PROVE  FALSE
  OBVIOUS
<1>. DEFINE P == Clients \X (0 .. CLIENT_RX_BUFS - 2)
            own(b) == CHOOSE c \in Clients : \E i \in Queued(c) : pending_rx[c][i] = b
            slot(b) == CHOOSE i \in Queued(own(b)) : pending_rx[own(b)][i] = b
            loc(b) == Place(own(b), slot(b))
            g == [b \in RxBufs |-> << own(b), loc(b) >>]
<1>1. ASSUME NEW b \in RxBufs
      PROVE  own(b) \in Clients /\ slot(b) \in Queued(own(b)) /\ pending_rx[own(b)][slot(b)] = b
  <2>1. own(b) \in Clients /\ \E i \in Queued(own(b)) : pending_rx[own(b)][i] = b
    BY DEF InQueue
  <2>. QED  BY <2>1
<1>. HIDE DEF own, slot
<1>2. g \in [RxBufs -> P]
  BY <1>1, PlaceInjective
<1>3. ASSUME NEW a \in RxBufs, NEW b \in RxBufs, g[a] = g[b]
      PROVE  a = b
  <2>0. << own(a), loc(a) >> = << own(b), loc(b) >>
    BY <1>3
  <2>1. own(a) = own(b) /\ Place(own(a), slot(a)) = Place(own(a), slot(b))
    BY <2>0
  <2>2. slot(a) = slot(b)
    <3>1. slot(b) \in Queued(own(a)) /\ slot(a) \in Queued(own(a)) /\ own(a) \in Clients
      BY <1>1, <2>1
    <3>. QED  BY <2>1, <3>1, PlaceInjective
  <2>. QED  BY <1>1, <2>1, <2>2
<1>4. g \in Injection(RxBufs, P)
  BY <1>2, <1>3 DEF Injection, IsInjective
<1>5. IsFiniteSet(RxBufs) /\ Cardinality(RxBufs) = RX_BUFS
  BY EthAssumption, IndexCount DEF RxBufs
<1>6. IsFiniteSet(P) /\ Cardinality(P) = NumClients * (CLIENT_RX_BUFS - 1)
  <2>1. IsFiniteSet(Clients) /\ Cardinality(Clients) = NumClients
    BY EthAssumption, IndexCount DEF Clients
  <2>2. /\ IsFiniteSet(0 .. CLIENT_RX_BUFS - 2)
        /\ Cardinality(0 .. CLIENT_RX_BUFS - 2) = CLIENT_RX_BUFS - 1
    <3>1. CLIENT_RX_BUFS - 1 \in Nat /\ (CLIENT_RX_BUFS - 1) - 1 = CLIENT_RX_BUFS - 2
      BY EthAssumption
    <3>2. /\ IsFiniteSet(0 .. (CLIENT_RX_BUFS - 1) - 1)
          /\ Cardinality(0 .. (CLIENT_RX_BUFS - 1) - 1) = CLIENT_RX_BUFS - 1
      BY <3>1, IndexCount
    <3>. QED  BY <3>1, <3>2
  <2>. QED  BY <2>1, <2>2, FS_Product
<1>7. RX_BUFS <= NumClients * (CLIENT_RX_BUFS - 1)
  BY <1>4, <1>5, <1>6, FS_Injection
<1>8. NumClients * (CLIENT_RX_BUFS - 1) \in Int
  BY EthAssumption
<1>. QED  BY <1>7, <1>8, EthAssumption

CardInv == phase \in {"idle", "tx"} => nicRx # {}

(* With the sizes of the source and at most two clients, the card always   *)
(* has a buffer to receive into when the handler returns: slow clients     *)
(* cannot bring reception to a halt.                                       *)
THEOREM ReceptionNeverHalts ==
  ASSUME NumClients * (CLIENT_RX_BUFS - 1) < RX_BUFS
  PROVE  Spec => []CardArmed
<1>1. Init => CardInv
  BY DEF Init, CardInv
<1>2. IInv /\ CardInv /\ [Next]_vars => CardInv'
  <2>. SUFFICES ASSUME IInv, CardInv, [Next]_vars PROVE CardInv'
    OBVIOUS
  <2>1. CASE raw_done
    <3>1. CASE Cardinality(nicRx) = RxRing
      <4>1. nicRx # {}
        BY <3>1, EthAssumption, FS_EmptySet
      <4>. QED  BY <2>1, <4>1 DEF raw_done, CardInv, rxVars
    <3>2. CASE num_rx_bufs = 0
      <4>1. PICK b \in RxBufs : ~InQueue(b)
        BY QueuesAreSmaller DEF IInv, RxInv
      <4>2. ~InPool(b)
        BY <3>2 DEF InPool, PoolSlots
      <4>3. b \in nicRx
        BY <4>1, <4>2 DEF IInv, RxInv, RxConserved, InQueue, InPool
      <4>. QED  BY <2>1, <4>3 DEF raw_done, CardInv, rxVars
    <3>. QED  BY <2>1, <3>1, <3>2 DEF raw_done
  <2>2. CASE UNCHANGED nicRx /\ (phase' \in {"idle", "tx"} => phase \in {"idle", "tx"})
    BY <2>2 DEF CardInv
  <2>3. CASE phase' \notin {"idle", "tx"}
    BY <2>3 DEF CardInv
  <2>. QED
    BY <2>1, <2>2, <2>3
    DEF Next, Driver, raw_irq, raw_fill, eth_allocate_rx_buf, eth_rx_complete,
        eth_rx_complete_chain, eth_tx_complete, raw_tx_enqueued, raw_tx_refused,
        client_rx, client_tx, client_wait, vars, rxVars, txVars
<1>3. CardInv => CardArmed
  BY DEF CardInv, CardArmed
<1>. QED  BY <1>1, <1>2, <1>3, Invariance, PTL DEF Spec

-----------------------------------------------------------------------------
(* What a client sees is an EthFrames.                                     *)

Slot(t, i) == (t + i - 1) % CLIENT_RX_BUFS
Span(t, h) == (h - t) % CLIENT_RX_BUFS

(* A number less than twice the size of the queue, as a slot.              *)
LEMMA Wrapped ==
  ASSUME NEW x \in Int, 0 - CLIENT_RX_BUFS <= x, x < 2 * CLIENT_RX_BUFS
  PROVE  /\ x < 0 => x % CLIENT_RX_BUFS = x + CLIENT_RX_BUFS
         /\ 0 <= x /\ x < CLIENT_RX_BUFS => x % CLIENT_RX_BUFS = x
         /\ CLIENT_RX_BUFS <= x => x % CLIENT_RX_BUFS = x - CLIENT_RX_BUFS
<1>0. CLIENT_RX_BUFS \in Nat \ {0}
  BY EthAssumption
<1>1. CASE x < 0
  BY <1>0, <1>1
<1>2. CASE 0 <= x /\ x < CLIENT_RX_BUFS
  BY <1>0, <1>2
<1>3. CASE CLIENT_RX_BUFS <= x
  BY <1>0, <1>3
<1>. QED  BY <1>0, <1>1, <1>2, <1>3

(* The length of a queue and its slots, without the modulo.                *)
LEMMA Spans ==
  ASSUME NEW t \in RxSlots, NEW h \in RxSlots
  PROVE  /\ CLIENT_RX_BUFS \in Nat \ {0}
         /\ t \in 0 .. CLIENT_RX_BUFS - 1 /\ h \in 0 .. CLIENT_RX_BUFS - 1
         /\ Span(t, h) = IF t <= h THEN h - t ELSE h - t + CLIENT_RX_BUFS
         /\ \A i \in 1 .. CLIENT_RX_BUFS :
              Slot(t, i) = IF t + i - 1 < CLIENT_RX_BUFS THEN t + i - 1
                           ELSE t + i - 1 - CLIENT_RX_BUFS
<1>0. CLIENT_RX_BUFS \in Nat \ {0}
  BY EthAssumption
<1>1. t \in 0 .. CLIENT_RX_BUFS - 1 /\ h \in 0 .. CLIENT_RX_BUFS - 1
  BY DEF RxSlots
<1>2. Span(t, h) = IF t <= h THEN h - t ELSE h - t + CLIENT_RX_BUFS
  <2>1. h - t \in Int /\ 0 - CLIENT_RX_BUFS <= h - t /\ h - t < CLIENT_RX_BUFS
        /\ h - t < 2 * CLIENT_RX_BUFS
    BY <1>0, <1>1
  <2>2. /\ h - t < 0 => Span(t, h) = h - t + CLIENT_RX_BUFS
        /\ 0 <= h - t => Span(t, h) = h - t
    BY <2>1, Wrapped DEF Span
  <2>. QED  BY <1>0, <1>1, <2>2
<1>3. ASSUME NEW i \in 1 .. CLIENT_RX_BUFS
      PROVE  Slot(t, i) = IF t + i - 1 < CLIENT_RX_BUFS THEN t + i - 1
                          ELSE t + i - 1 - CLIENT_RX_BUFS
  <2>1. /\ t + i - 1 \in Int /\ 0 <= t + i - 1 /\ 0 - CLIENT_RX_BUFS <= t + i - 1
        /\ t + i - 1 < 2 * CLIENT_RX_BUFS
    BY <1>0, <1>1
  <2>2. PICK x \in Int : x = t + i - 1
    BY <2>1
  <2>3. /\ x < CLIENT_RX_BUFS => x % CLIENT_RX_BUFS = x
        /\ CLIENT_RX_BUFS <= x => x % CLIENT_RX_BUFS = x - CLIENT_RX_BUFS
    BY <2>1, <2>2, Wrapped
  <2>4. Slot(t, i) = x % CLIENT_RX_BUFS
    BY <2>2 DEF Slot
  <2>. QED  BY <1>0, <1>1, <2>2, <2>3, <2>4
<1>. QED  BY <1>0, <1>1, <1>2, <1>3

(* The slots of a queue are those of its window.                           *)
LEMMA SpanWindow ==
  ASSUME NEW t \in RxSlots, NEW h \in RxSlots
  PROVE  /\ Span(t, h) \in 0 .. CLIENT_RX_BUFS - 1
         /\ Span(t, h) = 0 <=> h = t
         /\ \A i \in 1 .. Span(t, h) : Slot(t, i) \in RxSlots /\ InWindow(Slot(t, i), t, h)
<1>1. /\ CLIENT_RX_BUFS \in Nat \ {0}
      /\ t \in 0 .. CLIENT_RX_BUFS - 1 /\ h \in 0 .. CLIENT_RX_BUFS - 1
      /\ Span(t, h) = IF t <= h THEN h - t ELSE h - t + CLIENT_RX_BUFS
      /\ \A i \in 1 .. CLIENT_RX_BUFS :
              Slot(t, i) = IF t + i - 1 < CLIENT_RX_BUFS THEN t + i - 1
                           ELSE t + i - 1 - CLIENT_RX_BUFS
  BY Spans
<1>2. ASSUME NEW i \in 1 .. Span(t, h)
      PROVE  Slot(t, i) \in RxSlots /\ InWindow(Slot(t, i), t, h)
  <2>1. i \in 1 .. CLIENT_RX_BUFS /\ i <= Span(t, h)
    BY <1>1
  <2>2. Slot(t, i) = IF t + i - 1 < CLIENT_RX_BUFS THEN t + i - 1
                     ELSE t + i - 1 - CLIENT_RX_BUFS
    BY <1>1, <2>1
  <2>. QED  BY <1>1, <2>1, <2>2 DEF InWindow, RxSlots
<1>. QED  BY <1>1, <1>2

(* A buffer given goes behind the others.                                  *)
LEMMA SpanPush ==
  ASSUME NEW t \in RxSlots, NEW h \in RxSlots, NextSlot(h) # t
  PROVE  /\ Span(t, NextSlot(h)) = Span(t, h) + 1
         /\ Slot(t, Span(t, h) + 1) = h
         /\ Span(t, h) < CLIENT_RX_BUFS - 1
<1>1. NextSlot(h) \in RxSlots /\ NextSlot(h) = IF h = CLIENT_RX_BUFS - 1 THEN 0 ELSE h + 1
  BY NextSlotValue
<1>2. /\ CLIENT_RX_BUFS \in Nat \ {0}
      /\ t \in 0 .. CLIENT_RX_BUFS - 1 /\ h \in 0 .. CLIENT_RX_BUFS - 1
      /\ Span(t, h) = IF t <= h THEN h - t ELSE h - t + CLIENT_RX_BUFS
      /\ \A i \in 1 .. CLIENT_RX_BUFS :
              Slot(t, i) = IF t + i - 1 < CLIENT_RX_BUFS THEN t + i - 1
                           ELSE t + i - 1 - CLIENT_RX_BUFS
  BY Spans
<1>3. Span(t, NextSlot(h)) = IF t <= NextSlot(h) THEN NextSlot(h) - t
                             ELSE NextSlot(h) - t + CLIENT_RX_BUFS
  BY <1>1, Spans
<1>4. Span(t, NextSlot(h)) = Span(t, h) + 1 /\ Span(t, h) < CLIENT_RX_BUFS - 1
  BY <1>1, <1>2, <1>3
<1>5. Slot(t, Span(t, h) + 1) = h
  <2>1. Span(t, h) + 1 \in 1 .. CLIENT_RX_BUFS
    BY <1>2, <1>4
  <2>2. Slot(t, Span(t, h) + 1) = IF t + (Span(t, h) + 1) - 1 < CLIENT_RX_BUFS
                                  THEN t + (Span(t, h) + 1) - 1
                                  ELSE t + (Span(t, h) + 1) - 1 - CLIENT_RX_BUFS
    BY <1>2, <2>1
  <2>. QED  BY <1>2, <2>2
<1>. QED  BY <1>4, <1>5

(* Without the oldest, the others come one place earlier.                  *)
LEMMA SpanPop ==
  ASSUME NEW t \in RxSlots, NEW h \in RxSlots, h # t
  PROVE  /\ Span(NextSlot(t), h) = Span(t, h) - 1
         /\ \A i \in 1 .. Span(t, h) - 1 : Slot(NextSlot(t), i) = Slot(t, i + 1)
<1>1. NextSlot(t) \in RxSlots /\ NextSlot(t) = IF t = CLIENT_RX_BUFS - 1 THEN 0 ELSE t + 1
  BY NextSlotValue
<1>2. /\ CLIENT_RX_BUFS \in Nat \ {0}
      /\ t \in 0 .. CLIENT_RX_BUFS - 1 /\ h \in 0 .. CLIENT_RX_BUFS - 1
      /\ Span(t, h) = IF t <= h THEN h - t ELSE h - t + CLIENT_RX_BUFS
      /\ \A i \in 1 .. CLIENT_RX_BUFS :
              Slot(t, i) = IF t + i - 1 < CLIENT_RX_BUFS THEN t + i - 1
                           ELSE t + i - 1 - CLIENT_RX_BUFS
  BY Spans
<1>3. /\ Span(NextSlot(t), h) = IF NextSlot(t) <= h THEN h - NextSlot(t)
                                ELSE h - NextSlot(t) + CLIENT_RX_BUFS
      /\ \A i \in 1 .. CLIENT_RX_BUFS :
              Slot(NextSlot(t), i) = IF NextSlot(t) + i - 1 < CLIENT_RX_BUFS
                                     THEN NextSlot(t) + i - 1
                                     ELSE NextSlot(t) + i - 1 - CLIENT_RX_BUFS
  BY <1>1, Spans
<1>4. Span(NextSlot(t), h) = Span(t, h) - 1
  BY <1>1, <1>2, <1>3
<1>5. ASSUME NEW i \in 1 .. Span(t, h) - 1
      PROVE  Slot(NextSlot(t), i) = Slot(t, i + 1)
  <2>1. i \in 1 .. CLIENT_RX_BUFS /\ i + 1 \in 1 .. CLIENT_RX_BUFS
    BY <1>2
  <2>2. Slot(t, i + 1) = IF t + (i + 1) - 1 < CLIENT_RX_BUFS THEN t + (i + 1) - 1
                         ELSE t + (i + 1) - 1 - CLIENT_RX_BUFS
    BY <1>2, <2>1
  <2>3. Slot(NextSlot(t), i) = IF NextSlot(t) + i - 1 < CLIENT_RX_BUFS
                               THEN NextSlot(t) + i - 1
                               ELSE NextSlot(t) + i - 1 - CLIENT_RX_BUFS
    BY <1>3, <2>1
  <2>. QED  BY <1>1, <1>2, <2>1, <2>2, <2>3
<1>. QED  BY <1>4, <1>5

(* A sequence that is another one with an element behind it.               *)
LEMMA OneMore ==
  ASSUME NEW D, NEW s \in Seq(D), NEW v \in D, NEW t \in Seq(D),
         Len(t) = Len(s) + 1, \A i \in 1 .. Len(s) : t[i] = s[i], t[Len(s) + 1] = v
  PROVE  t = Append(s, v)
<1>1. PICK u \in Seq(D) : /\ u = Append(s, v) /\ Len(u) = Len(s) + 1
                          /\ \A i \in 1 .. Len(s) : u[i] = s[i]
                          /\ u[Len(s) + 1] = v
  <2>1. /\ Append(s, v) \in Seq(D) /\ Len(Append(s, v)) = Len(s) + 1
        /\ \A i \in 1 .. Len(s) : Append(s, v)[i] = s[i]
        /\ Append(s, v)[Len(s) + 1] = v
    BY AppendProperties
  <2>. QED  BY <2>1, Zenon
<1>2. Len(u) = Len(s) + 1 /\ (\A i \in 1 .. Len(s) : u[i] = s[i]) /\ u[Len(s) + 1] = v
  BY <1>1, Zenon
<1>3. ASSUME NEW i \in 1 .. Len(t) PROVE t[i] = u[i]
  <2>1. i \in 1 .. Len(s) \/ i = Len(s) + 1
    OBVIOUS
  <2>. QED  BY <1>2, <2>1
<1>4. Len(t) = Len(u)
  BY <1>2
<1>5. t = u
  BY <1>3, <1>4, SeqEqual
<1>. QED  BY <1>1, <1>5, Zenon

(* A sequence that is another one without its first element.               *)
LEMMA OneLess ==
  ASSUME NEW D, NEW s \in Seq(D), NEW t \in Seq(D),
         Len(s) >= 1, Len(t) = Len(s) - 1, \A i \in 1 .. Len(s) - 1 : t[i] = s[i + 1]
  PROVE  s # << >> /\ t = Tail(s)
<1>1. s # << >>
  OBVIOUS
<1>2. PICK u \in Seq(D) : /\ u = Tail(s) /\ Len(u) = Len(s) - 1
                          /\ \A i \in 1 .. Len(s) - 1 : u[i] = s[i + 1]
  <2>1. /\ Tail(s) \in Seq(D) /\ Len(Tail(s)) = Len(s) - 1
        /\ \A i \in 1 .. Len(s) - 1 : Tail(s)[i] = s[i + 1]
    BY <1>1
  <2>. QED  BY <2>1, Zenon
<1>3. Len(u) = Len(s) - 1 /\ \A i \in 1 .. Len(s) - 1 : u[i] = s[i + 1]
  BY <1>2, Zenon
<1>4. Len(t) = Len(u) /\ \A i \in 1 .. Len(t) : t[i] = u[i]
  BY <1>3
<1>5. t = u
  BY <1>4, SeqEqual
<1>. QED  BY <1>1, <1>2, <1>5, Zenon

(* What the buffers of the slots of a queue hold, in the queue's order.    *)
FramesAt(t, h, p, d) == [i \in 1 .. Span(t, h) |-> d[p[Slot(t, i)]]]

(* What a buffer may hold.                                                 *)
Held == Frames \cup {None}

(* It is a sequence as long as the queue.                                  *)
LEMMA FramesAtSeq ==
  ASSUME NEW t \in RxSlots, NEW h \in RxSlots, NEW p, NEW d,
         \A i \in RxSlots : InWindow(i, t, h) => d[p[i]] \in Held
  PROVE  /\ FramesAt(t, h, p, d) \in Seq(Held)
         /\ Len(FramesAt(t, h, p, d)) = Span(t, h) /\ Span(t, h) \in Nat
         /\ \A i \in 1 .. Span(t, h) : FramesAt(t, h, p, d)[i] = d[p[Slot(t, i)]]
<1>1. /\ CLIENT_RX_BUFS \in Nat \ {0} /\ Span(t, h) \in 0 .. CLIENT_RX_BUFS - 1
      /\ \A i \in 1 .. Span(t, h) : Slot(t, i) \in RxSlots /\ InWindow(Slot(t, i), t, h)
  BY SpanWindow, EthAssumption
<1>2. Span(t, h) \in Nat
  BY <1>1
<1>3. PICK s : s = FramesAt(t, h, p, d)
  OBVIOUS
<1>4. /\ s \in [1 .. Span(t, h) -> Held]
      /\ \A i \in 1 .. Span(t, h) : s[i] = d[p[Slot(t, i)]]
  BY <1>1, <1>3 DEF FramesAt
<1>5. s \in Seq(Held)
  BY <1>2, <1>4, SeqDef
<1>6. Len(s) = Span(t, h)
  <2>1. DOMAIN s = 1 .. Span(t, h) /\ DOMAIN s = 1 .. Len(s) /\ Len(s) \in Nat
    BY <1>4, <1>5, LenProperties
  <2>. QED  BY <1>2, <2>1
<1>. QED  BY <1>2, <1>3, <1>4, <1>5, <1>6

(* It depends on the buffers of the window alone.                          *)
LEMMA FramesKept ==
  ASSUME NEW t \in RxSlots, NEW h \in RxSlots, NEW p, NEW d, NEW q, NEW e,
         \A i \in RxSlots : InWindow(i, t, h) => e[q[i]] = d[p[i]]
  PROVE  FramesAt(t, h, q, e) = FramesAt(t, h, p, d)
<1>1. \A i \in 1 .. Span(t, h) : Slot(t, i) \in RxSlots /\ InWindow(Slot(t, i), t, h)
  BY SpanWindow
<1>. QED  BY <1>1 DEF FramesAt

(* A buffer given to the client adds its frame behind the others.          *)
LEMMA FramesPushed ==
  ASSUME NEW t \in RxSlots, NEW h \in RxSlots, NextSlot(h) # t,
         NEW p, NEW d, NEW q, NEW e, NEW v \in Held, v = e[q[h]],
         \A i \in RxSlots : InWindow(i, t, h) => d[p[i]] \in Held,
         \A i \in RxSlots : InWindow(i, t, h) => e[q[i]] = d[p[i]]
  PROVE  /\ FramesAt(t, NextSlot(h), q, e) = Append(FramesAt(t, h, p, d), v)
         /\ Len(FramesAt(t, h, p, d)) < CLIENT_RX_BUFS - 1
<1>1. PICK s \in Seq(Held) : /\ s = FramesAt(t, h, p, d)
                          /\ Len(s) = Span(t, h) /\ Span(t, h) \in Nat
                          /\ \A i \in 1 .. Span(t, h) : s[i] = d[p[Slot(t, i)]]
  <2>1. /\ FramesAt(t, h, p, d) \in Seq(Held)
        /\ Len(FramesAt(t, h, p, d)) = Span(t, h) /\ Span(t, h) \in Nat
        /\ \A i \in 1 .. Span(t, h) : FramesAt(t, h, p, d)[i] = d[p[Slot(t, i)]]
    BY FramesAtSeq
  <2>. QED  BY <2>1, Zenon
<1>2. NextSlot(h) \in RxSlots
  BY NextSlotValue
<1>3. \A i \in RxSlots : InWindow(i, t, NextSlot(h)) => e[q[i]] \in Held
  BY WindowPush
<1>4. PICK u \in Seq(Held) : /\ u = FramesAt(t, NextSlot(h), q, e)
                          /\ Len(u) = Span(t, NextSlot(h))
                          /\ \A i \in 1 .. Span(t, NextSlot(h)) : u[i] = e[q[Slot(t, i)]]
  <2>1. /\ FramesAt(t, NextSlot(h), q, e) \in Seq(Held)
        /\ Len(FramesAt(t, NextSlot(h), q, e)) = Span(t, NextSlot(h))
        /\ \A i \in 1 .. Span(t, NextSlot(h)) :
              FramesAt(t, NextSlot(h), q, e)[i] = e[q[Slot(t, i)]]
    BY <1>2, <1>3, FramesAtSeq
  <2>. QED  BY <2>1, Zenon
<1>5. /\ Len(s) = Span(t, h) /\ Span(t, h) \in Nat
      /\ \A i \in 1 .. Span(t, h) : s[i] = d[p[Slot(t, i)]]
  BY <1>1, Zenon
<1>6. /\ Len(u) = Span(t, NextSlot(h))
      /\ \A i \in 1 .. Span(t, NextSlot(h)) : u[i] = e[q[Slot(t, i)]]
  BY <1>4, Zenon
<1>7. /\ Span(t, NextSlot(h)) = Span(t, h) + 1
      /\ Slot(t, Span(t, h) + 1) = h /\ Span(t, h) < CLIENT_RX_BUFS - 1
  BY SpanPush
<1>8. \A i \in 1 .. Span(t, h) : e[q[Slot(t, i)]] = d[p[Slot(t, i)]]
  BY SpanWindow
<1>9. \A i \in 1 .. Len(s) : u[i] = s[i]
  BY <1>5, <1>6, <1>7, <1>8
<1>10. u[Len(s) + 1] = e[q[h]]
  <2>1. Span(t, h) + 1 \in 1 .. Span(t, NextSlot(h))
    BY <1>5, <1>7
  <2>. QED  BY <1>5, <1>6, <1>7, <2>1
<1>11. Len(u) = Len(s) + 1
  BY <1>5, <1>6, <1>7
<1>12. v \in Held /\ v = e[q[h]]
  OBVIOUS
<1>13. u = Append(s, v)
  BY <1>9, <1>10, <1>11, <1>12, OneMore
<1>. QED  BY <1>1, <1>4, <1>7, <1>12, <1>13, Zenon

(* A buffer taken by the client removes the oldest frame.                  *)
LEMMA FramesPopped ==
  ASSUME NEW t \in RxSlots, NEW h \in RxSlots, h # t,
         NEW p, NEW d, NEW e,
         \A i \in RxSlots : InWindow(i, t, h) => d[p[i]] \in Held,
         \A i \in RxSlots : InWindow(i, t, h) /\ i # t => e[p[i]] = d[p[i]]
  PROVE  /\ FramesAt(t, h, p, d) # << >>
         /\ FramesAt(NextSlot(t), h, p, e) = Tail(FramesAt(t, h, p, d))
<1>1. PICK s \in Seq(Held) : /\ s = FramesAt(t, h, p, d)
                          /\ Len(s) = Span(t, h) /\ Span(t, h) \in Nat
                          /\ \A i \in 1 .. Span(t, h) : s[i] = d[p[Slot(t, i)]]
  <2>1. /\ FramesAt(t, h, p, d) \in Seq(Held)
        /\ Len(FramesAt(t, h, p, d)) = Span(t, h) /\ Span(t, h) \in Nat
        /\ \A i \in 1 .. Span(t, h) : FramesAt(t, h, p, d)[i] = d[p[Slot(t, i)]]
    BY FramesAtSeq
  <2>. QED  BY <2>1, Zenon
<1>2. NextSlot(t) \in RxSlots
  BY NextSlotValue
<1>3. \A i \in RxSlots : InWindow(i, NextSlot(t), h) =>
                           e[p[i]] \in Held /\ e[p[i]] = d[p[i]]
  BY WindowPop
<1>4. PICK u \in Seq(Held) : /\ u = FramesAt(NextSlot(t), h, p, e)
                          /\ Len(u) = Span(NextSlot(t), h)
                          /\ \A i \in 1 .. Span(NextSlot(t), h) : u[i] = e[p[Slot(NextSlot(t), i)]]
  <2>1. /\ FramesAt(NextSlot(t), h, p, e) \in Seq(Held)
        /\ Len(FramesAt(NextSlot(t), h, p, e)) = Span(NextSlot(t), h)
        /\ \A i \in 1 .. Span(NextSlot(t), h) :
              FramesAt(NextSlot(t), h, p, e)[i] = e[p[Slot(NextSlot(t), i)]]
    BY <1>2, <1>3, FramesAtSeq
  <2>. QED  BY <2>1, Zenon
<1>5. /\ Len(s) = Span(t, h) /\ Span(t, h) \in Nat
      /\ \A i \in 1 .. Span(t, h) : s[i] = d[p[Slot(t, i)]]
  BY <1>1, Zenon
<1>6. /\ Len(u) = Span(NextSlot(t), h)
      /\ \A i \in 1 .. Span(NextSlot(t), h) : u[i] = e[p[Slot(NextSlot(t), i)]]
  BY <1>4, Zenon
<1>7. /\ Span(NextSlot(t), h) = Span(t, h) - 1
      /\ \A i \in 1 .. Span(t, h) - 1 : Slot(NextSlot(t), i) = Slot(t, i + 1)
  BY SpanPop
<1>8. \A i \in 1 .. Span(NextSlot(t), h) :
        e[p[Slot(NextSlot(t), i)]] = d[p[Slot(NextSlot(t), i)]]
  BY <1>2, <1>3, SpanWindow
<1>9. Len(s) >= 1 /\ Len(u) = Len(s) - 1
  BY <1>5, <1>6, <1>7, SpanWindow
<1>10. ASSUME NEW i \in 1 .. Len(s) - 1 PROVE u[i] = s[i + 1]
  <2>1. i \in 1 .. Span(NextSlot(t), h) /\ i + 1 \in 1 .. Span(t, h) /\ i \in 1 .. Span(t, h) - 1
    BY <1>5, <1>7
  <2>2. u[i] = d[p[Slot(NextSlot(t), i)]]
    BY <1>6, <1>8, <2>1
  <2>3. Slot(NextSlot(t), i) = Slot(t, i + 1)
    BY <1>7, <2>1
  <2>4. s[i + 1] = d[p[Slot(t, i + 1)]]
    BY <1>5, <2>1
  <2>. QED  BY <2>2, <2>3, <2>4
<1>11. s # << >> /\ u = Tail(s)
  BY <1>9, <1>10, OneLess
<1>. QED  BY <1>1, <1>4, <1>11, Zenon

(* The queues of all the clients, as in the substitution of Ethdriver.     *)
AllFrames == [c \in Clients |-> FramesOf(c)]

(* The queue of a client, by its slots, and what a queued buffer may hold. *)
LEMMA QueueFrames ==
  ASSUME RxTypeOK, RxExclusive, NEW c \in Clients
  PROVE  /\ FramesOf(c) = FramesAt(pending_rx_tail[c], pending_rx_head[c], pending_rx[c], rxData)
         /\ pending_rx_tail[c] \in RxSlots /\ pending_rx_head[c] \in RxSlots
         /\ \A i \in RxSlots : InWindow(i, pending_rx_tail[c], pending_rx_head[c]) =>
              /\ i \in Queued(c) /\ InQueue(pending_rx[c][i]) /\ pending_rx[c][i] \in RxBufs
              /\ rxData[pending_rx[c][i]] \in Frames \cup {None}
<1>1. FramesOf(c) = FramesAt(pending_rx_tail[c], pending_rx_head[c], pending_rx[c], rxData)
  BY DEF FramesOf, FramesAt, QueueLen, Span, Slot
<1>2. pending_rx_tail[c] \in RxSlots /\ pending_rx_head[c] \in RxSlots
  BY DEF RxTypeOK
<1>3. ASSUME NEW i \in RxSlots, InWindow(i, pending_rx_tail[c], pending_rx_head[c])
      PROVE  /\ i \in Queued(c) /\ InQueue(pending_rx[c][i]) /\ pending_rx[c][i] \in RxBufs
             /\ rxData[pending_rx[c][i]] \in Frames \cup {None}
  <2>1. i \in Queued(c)
    BY <1>3 DEF Queued
  <2>. QED  BY <2>1 DEF InQueue, RxExclusive, RxTypeOK
<1>. QED  BY <1>1, <1>2, <1>3

(* give_client_buf appends the frame to the queue of each of the clients.  *)
LEMMA GiveFrames ==
  ASSUME RxTypeOK, RxExclusive,
         NEW To \in SUBSET Clients, NEW buf \in [To -> RxBufs], NEW f \in Frames,
         \A c \in To : ~Full(c),
         \A c \in To : ~InQueue(buf[c]),
         give_client_buf(To, buf), UNCHANGED pending_rx_tail,
         \A x \in RxBufs : InQueue(x) => rxData'[x] = rxData[x],
         \A c \in To : rxData'[buf[c]] = f
  PROVE  /\ \A c \in To : /\ FramesOf(c)' = Append(FramesOf(c), f)
                          /\ Len(FramesOf(c)) < CLIENT_RX_BUFS - 1
         /\ \A c \in Clients \ To : FramesOf(c)' = FramesOf(c)
<1>1. \A c \in Clients :
        FramesOf(c)' = FramesAt(pending_rx_tail'[c], pending_rx_head'[c], pending_rx'[c], rxData')
  BY DEF FramesOf, FramesAt, QueueLen, Span, Slot
<1>2. ASSUME NEW c \in To
      PROVE  /\ FramesOf(c)' = Append(FramesOf(c), f)
             /\ Len(FramesOf(c)) < CLIENT_RX_BUFS - 1
  <2>. DEFINE t == pending_rx_tail[c]
              h == pending_rx_head[c]
              p == pending_rx[c]
              q == pending_rx'[c]
  <2>1. /\ FramesOf(c) = FramesAt(t, h, p, rxData)
        /\ t \in RxSlots /\ h \in RxSlots
        /\ \A i \in RxSlots : InWindow(i, t, h) =>
              /\ InQueue(p[i]) /\ p[i] \in RxBufs /\ rxData[p[i]] \in Frames \cup {None}
    BY QueueFrames
  <2>2. pending_rx_tail'[c] = t /\ pending_rx_head'[c] = NextSlot(h)
    BY DEF give_client_buf
  <2>3. q = [p EXCEPT ![h] = buf[c]] /\ p \in [RxSlots -> RxBufs \cup {None}]
    BY DEF give_client_buf, RxTypeOK
  <2>4. NextSlot(h) # t
    BY DEF Full
  <2>5. ~InWindow(h, t, h)
    BY <2>1, <2>4, WindowPush
  <2>6. q[h] = buf[c] /\ \A i \in RxSlots : InWindow(i, t, h) => q[i] = p[i]
    BY <2>1, <2>3, <2>5
  <2>7. /\ rxData'[q[h]] = f /\ f \in Frames \cup {None}
        /\ \A i \in RxSlots : InWindow(i, t, h) =>
              rxData[p[i]] \in Frames \cup {None} /\ rxData'[q[i]] = rxData[p[i]]
    BY <2>1, <2>6
  <2>. HIDE DEF t, h, p, q
  <2>8. /\ FramesAt(t, NextSlot(h), q, rxData') = Append(FramesAt(t, h, p, rxData), rxData'[q[h]])
        /\ Len(FramesAt(t, h, p, rxData)) < CLIENT_RX_BUFS - 1
    <3>1. PICK t0, h0, p0, d0, q0, e0 :
             /\ t0 = t /\ h0 = h
             /\ p0 = p /\ d0 = rxData /\ q0 = q /\ e0 = rxData'
      OBVIOUS
    <3>2. /\ t0 \in RxSlots /\ h0 \in RxSlots /\ NextSlot(h0) # t0 /\ e0[q0[h0]] \in Held
          /\ \A i \in RxSlots : InWindow(i, t0, h0) => d0[p0[i]] \in Held
          /\ \A i \in RxSlots : InWindow(i, t0, h0) => e0[q0[i]] = d0[p0[i]]
      BY <2>1, <2>4, <2>7, <3>1, Zenon DEF Held
    <3>3. /\ FramesAt(t0, NextSlot(h0), q0, e0) = Append(FramesAt(t0, h0, p0, d0), e0[q0[h0]])
          /\ Len(FramesAt(t0, h0, p0, d0)) < CLIENT_RX_BUFS - 1
      <4>1. /\ e0[q0[h0]] \in Held
            /\ \A i \in RxSlots : InWindow(i, t0, h0) => d0[p0[i]] \in Held
            /\ \A i \in RxSlots : InWindow(i, t0, h0) => e0[q0[i]] = d0[p0[i]]
        BY <3>2, Zenon
      <4>2. PICK v : v = e0[q0[h0]]
        OBVIOUS
      <4>. QED  BY <3>2, <4>1, <4>2, FramesPushed
    <3>. QED  BY <3>1, <3>3, Zenon
  <2>9. FramesOf(c)' = FramesAt(t, NextSlot(h), q, rxData')
    BY <1>1, <2>2 DEF q
  <2>. QED  BY <2>1, <2>7, <2>8, <2>9
<1>3. ASSUME NEW c \in Clients \ To
      PROVE  FramesOf(c)' = FramesOf(c)
  <2>. DEFINE t == pending_rx_tail[c]
              h == pending_rx_head[c]
              p == pending_rx[c]
  <2>1. /\ FramesOf(c) = FramesAt(t, h, p, rxData)
        /\ t \in RxSlots /\ h \in RxSlots
        /\ \A i \in RxSlots : InWindow(i, t, h) => InQueue(p[i]) /\ p[i] \in RxBufs
    BY QueueFrames
  <2>2. /\ pending_rx_tail'[c] = t /\ pending_rx_head'[c] = h /\ pending_rx'[c] = p
    BY DEF give_client_buf
  <2>3. \A i \in RxSlots : InWindow(i, t, h) => rxData'[p[i]] = rxData[p[i]]
    BY <2>1
  <2>. HIDE DEF t, h, p
  <2>4. FramesAt(t, h, p, rxData') = FramesAt(t, h, p, rxData)
    BY <2>1, <2>3, FramesKept
  <2>. QED  BY <1>1, <2>1, <2>2, <2>4
<1>. QED  BY <1>2, <1>3

(* Then the frame has been accepted by the queues of those clients.        *)
LEMMA Accepted ==
  ASSUME NEW f \in Frames, NEW To \in SUBSET Abs!Receivers(f), Clients = Abs!Clients,
         \A c \in To : /\ FramesOf(c)' = Append(FramesOf(c), f)
                       /\ Len(FramesOf(c)) < CLIENT_RX_BUFS - 1,
         \A c \in Clients \ To : FramesOf(c)' = FramesOf(c)
  PROVE  Abs!Next
<1>1. AllFrames' = [c \in Abs!Clients |-> IF c \in To THEN Append(AllFrames[c], f)
                                                       ELSE AllFrames[c]]
  BY DEF AllFrames
<1>2. To \subseteq Clients
  BY DEF Abs!Receivers, Abs!Addressed
<1>3. \A c \in To : Len(AllFrames[c]) < CLIENT_RX_BUFS - 1
  BY <1>2 DEF AllFrames
<1>4. Abs!Accept(f)
  BY <1>1, <1>3 DEF Abs!Accept, AllFrames
<1>. QED  BY <1>4 DEF Abs!Next

(* eth_rx_complete, for one client: it is the one the frame is for.        *)
LEMMA UnicastFrames ==
  ASSUME RxInv, NEW f \in Frames, NEW b \in nicRx, RxUnicast(b, f),
         UNCHANGED pending_rx_tail
  PROVE  Abs!Next \/ UNCHANGED AllFrames
<1>. DEFINE c == detect_client(f)
<1>0. /\ c \in Matches(f) /\ (\A d \in Matches(f) : c <= d) /\ c \in Clients
      /\ Clients = Abs!Clients /\ b \in RxBufs
  BY DetectClient DEF RxUnicast, Matches, Abs!Clients, Clients, RxInv, RxTypeOK
<1>1. CASE Full(c)
  BY <1>1 DEF RxUnicast, AllFrames, FramesOf, QueueLen
<1>2. CASE ~Full(c)
  <2>. DEFINE To == {c}
              buf == [d \in {c} |-> b]
  <2>1. /\ give_client_buf(To, buf) /\ rxData' = [rxData EXCEPT ![b] = f]
        /\ rxData \in [RxBufs -> Frames \cup {None}]
    BY <1>2 DEF RxUnicast, RxInv, RxTypeOK
  <2>2. ~InQueue(b)
    BY DEF RxInv, RxExclusive, InQueue
  <2>3. To \in SUBSET Clients /\ buf \in [To -> RxBufs] /\ \A d \in To : d = c /\ buf[d] = b
    BY <1>0
  <2>4. /\ \A x \in RxBufs : InQueue(x) => rxData'[x] = rxData[x]
        /\ \A d \in To : rxData'[buf[d]] = f /\ ~InQueue(buf[d]) /\ ~Full(d)
    BY <1>0, <1>2, <2>1, <2>2, <2>3
  <2>. HIDE DEF To, buf
  <2>5. /\ \A d \in To : /\ FramesOf(d)' = Append(FramesOf(d), f)
                         /\ Len(FramesOf(d)) < CLIENT_RX_BUFS - 1
        /\ \A d \in Clients \ To : FramesOf(d)' = FramesOf(d)
    BY <2>1, <2>3, <2>4, GiveFrames DEF RxInv
  <2>6. To \in SUBSET Abs!Receivers(f)
    <3>1. Abs!Addressed(f) = Matches(f)
      BY <1>0 DEF Abs!Addressed, Matches
    <3>2. c \in Abs!Receivers(f)
      BY <1>0, <3>1 DEF Abs!Receivers
    <3>. QED  BY <3>2 DEF To
  <2>. QED  BY <1>0, <2>5, <2>6, Accepted
<1>. QED  BY <1>1, <1>2

(* eth_rx_complete, for all: it is accepted by those that have room.       *)
LEMMA GroupFrames ==
  ASSUME RxInv, NEW f \in Frames, NEW b \in nicRx, RxGroup(b, f),
         UNCHANGED pending_rx_tail
  PROVE  Abs!Next
<1>. DEFINE To  == IF Full(0) THEN CopiedTo ELSE CopiedTo \cup {0}
            buf == [c \in To |-> IF c = 0 THEN b ELSE CopyBuf(c)]
<1>0. /\ Clients = Abs!Clients /\ b \in RxBufs /\ 0 \in Clients
      /\ give_client_buf(To, buf)
      /\ rxData' = [x \in RxBufs |-> IF \E c \in To : x = buf[c] THEN f ELSE rxData[x]]
      /\ rx_buf_pool \in Seq(RxBufs) /\ num_rx_bufs \in Nat
  BY EthAssumption DEF RxGroup, Abs!Clients, Clients, RxInv, RxTypeOK, num_rx_bufs
<1>1. ASSUME NEW c \in CopiedTo
      PROVE  c \in Clients /\ ~Full(c) /\ c # 0 /\ CopyBuf(c) \in RxBufs /\ ~InQueue(CopyBuf(c))
  <2>1. CopyRank(c) \in 0 .. Cardinality(CopiedTo) - 1 /\ Cardinality(CopiedTo) \in 0 .. num_rx_bufs
    BY CopyRanks DEF RxInv
  <2>2. num_rx_bufs - CopyRank(c) \in 1 .. num_rx_bufs
    BY <1>0, <2>1
  <2>3. num_rx_bufs - CopyRank(c) \in PoolSlots /\ CopyBuf(c) = rx_buf_pool[num_rx_bufs - CopyRank(c)]
    BY <2>2 DEF PoolSlots, CopyBuf
  <2>4. CopyBuf(c) \in RxBufs
    BY <1>0, <2>2, <2>3 DEF num_rx_bufs
  <2>5. ~InQueue(CopyBuf(c))
    BY <2>3 DEF RxInv, RxExclusive, InQueue
  <2>. QED  BY <2>4, <2>5 DEF CopiedTo, WithRoom
<1>2. ~InQueue(b)
  BY DEF RxInv, RxExclusive, InQueue
<1>3. /\ To \in SUBSET Clients
      /\ \A c \in To : ~Full(c) /\ buf[c] \in RxBufs /\ ~InQueue(buf[c])
  <2>1. \A c \in To : (c \in CopiedTo /\ c # 0) \/ (c = 0 /\ ~Full(0))
    BY <1>1
  <2>2. ASSUME NEW c \in To
        PROVE  c \in Clients /\ ~Full(c) /\ buf[c] \in RxBufs /\ ~InQueue(buf[c])
    <3>1. CASE c \in CopiedTo /\ c # 0
      <4>1. buf[c] = CopyBuf(c)
        BY <3>1
      <4>. QED  BY <1>1, <3>1, <4>1
    <3>2. CASE c = 0 /\ ~Full(0)
      <4>1. buf[c] = b
        BY <3>2
      <4>. QED  BY <1>0, <1>2, <3>2, <4>1
    <3>. QED  BY <2>1, <3>1, <3>2
  <2>. QED  BY <2>2
<1>4. buf \in [To -> RxBufs]
  BY <1>3
<1>. HIDE DEF To, buf
<1>5. /\ \A x \in RxBufs : InQueue(x) => rxData'[x] = rxData[x]
      /\ \A c \in To : rxData'[buf[c]] = f
  BY <1>0, <1>3
<1>6. /\ \A c \in To : /\ FramesOf(c)' = Append(FramesOf(c), f)
                       /\ Len(FramesOf(c)) < CLIENT_RX_BUFS - 1
      /\ \A c \in Clients \ To : FramesOf(c)' = FramesOf(c)
  BY <1>0, <1>3, <1>4, <1>5, GiveFrames DEF RxInv
<1>7. To \in SUBSET Abs!Receivers(f)
  <2>1. Abs!Addressed(f) = {} /\ FrameDst[f] = Group
    BY <1>0 DEF RxGroup, Abs!Addressed, Matches
  <2>2. Abs!Receivers(f) = Clients
    BY <1>0, <2>1 DEF Abs!Receivers
  <2>. QED  BY <1>3, <2>2
<1>. QED  BY <1>0, <1>6, <1>7, Accepted

(* client_rx takes the oldest frame of its client's queue.                 *)
LEMMA TakeFrames ==
  ASSUME RxInv, NEW c \in Clients, RxTake(c),
         UNCHANGED << pending_rx, pending_rx_head >>
  PROVE  Abs!Next
<1>. DEFINE t == pending_rx_tail[c]
            h == pending_rx_head[c]
            p == pending_rx[c]
            b == p[t]
<1>1. /\ FramesOf(c) = FramesAt(t, h, p, rxData)
      /\ t \in RxSlots /\ h \in RxSlots /\ h # t
      /\ \A i \in RxSlots : InWindow(i, t, h) =>
            /\ i \in Queued(c) /\ p[i] \in RxBufs /\ rxData[p[i]] \in Frames \cup {None}
      /\ pending_rx_tail' = [pending_rx_tail EXCEPT ![c] = NextSlot(t)]
      /\ pending_rx_tail \in [Clients -> RxSlots]
      /\ rxData' = [rxData EXCEPT ![b] = None] /\ rxData \in [RxBufs -> Frames \cup {None}]
  BY QueueFrames DEF RxInv, RxTypeOK, RxTake, Empty
<1>2. t \in Queued(c) /\ \A x \in RxBufs : x # b => rxData'[x] = rxData[x]
  BY <1>1, WindowPop
<1>3. ASSUME NEW d \in Clients, d # c
      PROVE  FramesOf(d)' = FramesOf(d)
  <2>1. /\ FramesOf(d) = FramesAt(pending_rx_tail[d], pending_rx_head[d], pending_rx[d], rxData)
        /\ pending_rx_tail[d] \in RxSlots /\ pending_rx_head[d] \in RxSlots
        /\ \A i \in RxSlots : InWindow(i, pending_rx_tail[d], pending_rx_head[d]) =>
              i \in Queued(d) /\ pending_rx[d][i] \in RxBufs
    BY QueueFrames DEF RxInv
  <2>2. \A i \in Queued(d) : pending_rx[d][i] # b
    BY <1>2, <1>3 DEF RxInv, RxExclusive
  <2>3. \A i \in RxSlots : InWindow(i, pending_rx_tail[d], pending_rx_head[d]) =>
              rxData'[pending_rx[d][i]] = rxData[pending_rx[d][i]]
    BY <1>2, <2>1, <2>2
  <2>4. FramesAt(pending_rx_tail[d], pending_rx_head[d], pending_rx[d], rxData')
          = FramesAt(pending_rx_tail[d], pending_rx_head[d], pending_rx[d], rxData)
    BY <2>1, <2>3, FramesKept
  <2>5. FramesOf(d)' = FramesAt(pending_rx_tail'[d], pending_rx_head'[d], pending_rx'[d], rxData')
    BY DEF FramesOf, FramesAt, QueueLen, Span, Slot
  <2>6. pending_rx_tail'[d] = pending_rx_tail[d]
    BY <1>1, <1>3
  <2>. QED  BY <2>1, <2>4, <2>5, <2>6
<1>4. FramesOf(c) # << >> /\ FramesOf(c)' = Tail(FramesOf(c))
  <2>1. \A i \in Queued(c) : i # t => p[i] # b
    BY <1>2 DEF RxInv, RxExclusive
  <2>2. \A i \in RxSlots : InWindow(i, t, h) /\ i # t => rxData'[p[i]] = rxData[p[i]]
    BY <1>1, <1>2, <2>1
  <2>3. \A i \in RxSlots : InWindow(i, t, h) => rxData[p[i]] \in Frames \cup {None}
    BY <1>1
  <2>4. FramesOf(c)' = FramesAt(pending_rx_tail'[c], pending_rx_head'[c], pending_rx'[c], rxData')
    BY DEF FramesOf, FramesAt, QueueLen, Span, Slot
  <2>5. pending_rx_tail'[c] = NextSlot(t) /\ pending_rx_head'[c] = h /\ pending_rx'[c] = p
    BY <1>1
  <2>. HIDE DEF t, h, p, b
  <2>6. /\ FramesAt(t, h, p, rxData) # << >>
        /\ FramesAt(NextSlot(t), h, p, rxData') = Tail(FramesAt(t, h, p, rxData))
    <3>1. PICK t0, h0, p0, d0, e0 :
             /\ t0 = t /\ h0 = h
             /\ p0 = p /\ d0 = rxData /\ e0 = rxData'
      OBVIOUS
    <3>2. /\ t0 \in RxSlots /\ h0 \in RxSlots /\ h0 # t0
          /\ \A i \in RxSlots : InWindow(i, t0, h0) => d0[p0[i]] \in Held
          /\ \A i \in RxSlots : InWindow(i, t0, h0) /\ i # t0 => e0[p0[i]] = d0[p0[i]]
      BY <1>1, <2>2, <2>3, <3>1, Zenon DEF Held
    <3>3. /\ FramesAt(t0, h0, p0, d0) # << >>
          /\ FramesAt(NextSlot(t0), h0, p0, e0) = Tail(FramesAt(t0, h0, p0, d0))
      BY <3>2, FramesPopped
    <3>. QED  BY <3>1, <3>3, Zenon
  <2>. QED  BY <1>1, <2>4, <2>5, <2>6
<1>5. AllFrames' = [AllFrames EXCEPT ![c] = Tail(AllFrames[c])] /\ AllFrames[c] # << >>
  BY <1>3, <1>4 DEF AllFrames
<1>6. Abs!Take(c) /\ c \in Abs!Clients
  BY <1>5 DEF Abs!Take, AllFrames, Abs!Clients, Clients
<1>. QED  BY <1>6 DEF Abs!Next

(* Every client receives the frames accepted for it, unaltered, in order,  *)
(* once: the cyclic queues and the shared pool of buffers implement a      *)
(* bounded queue for each client.                                          *)
THEOREM FramesDelivered == Spec => DeliversFrames
<1>1. Init => Abs!Init
  <2>. SUFFICES ASSUME Init PROVE AllFrames = [c \in Abs!Clients |-> << >>]
    BY DEF Abs!Init, AllFrames
  <2>1. ASSUME NEW c \in Clients PROVE FramesOf(c) = << >>
    <3>1. 0 \in RxSlots /\ pending_rx_head[c] = 0 /\ pending_rx_tail[c] = 0
      BY EthAssumption DEF Init, RxSlots
    <3>2. Span(0, 0) = 0
      BY <3>1, SpanWindow
    <3>3. QueueLen(c) = 0
      BY <3>1, <3>2 DEF QueueLen, Span
    <3>. QED  BY <3>3 DEF FramesOf
  <2>. QED  BY <2>1 DEF AllFrames, Abs!Clients, Clients
<1>2. IInv /\ [Next]_vars => [Abs!Next]_AllFrames
  <2>. SUFFICES ASSUME IInv, [Next]_vars PROVE Abs!Next \/ UNCHANGED AllFrames
    OBVIOUS
  <2>0. RxInv
    BY DEF IInv
  <2>1. ASSUME UNCHANGED << rxData, pending_rx, pending_rx_head, pending_rx_tail >>
        PROVE  UNCHANGED AllFrames
    BY <2>1 DEF AllFrames, FramesOf, QueueLen
  <2>2. ASSUME NEW b \in RxBufs, NEW f \in Frames, eth_rx_complete(b, f)
        PROVE  Abs!Next \/ UNCHANGED AllFrames
    <3>1. CASE RxUnicast(b, f)
      BY <2>0, <2>2, <3>1, UnicastFrames DEF eth_rx_complete
    <3>2. CASE RxGroup(b, f)
      BY <2>0, <2>2, <3>2, GroupFrames DEF eth_rx_complete
    <3>3. CASE RxReject(b, f)
      BY <2>1, <2>2, <3>3 DEF eth_rx_complete, RxReject
    <3>. QED  BY <2>2, <3>1, <3>2, <3>3 DEF eth_rx_complete
  <2>3. ASSUME NEW c \in Clients, client_rx(c)
        PROVE  Abs!Next \/ UNCHANGED AllFrames
    <3>1. CASE RxTake(c)
      BY <2>0, <2>3, <3>1, TakeFrames DEF client_rx
    <3>2. CASE RxNothing(c)
      BY <2>1, <2>3, <3>2 DEF client_rx, RxNothing
    <3>. QED  BY <2>3, <3>1, <3>2 DEF client_rx
  <2>4. CASE raw_irq \/ raw_fill \/ raw_done \/ raw_tx_enqueued \/ raw_tx_refused
    BY <2>1, <2>4 DEF raw_irq, raw_fill, raw_done, raw_tx_enqueued, raw_tx_refused, rxVars
  <2>5. CASE eth_allocate_rx_buf \/ \E a, b \in RxBufs : eth_rx_complete_chain(a, b)
    BY <2>1, <2>5 DEF eth_allocate_rx_buf, eth_rx_complete_chain
  <2>6. CASE \E b \in TxBufs : eth_tx_complete(b)
    BY <2>1, <2>6 DEF eth_tx_complete, rxVars
  <2>7. CASE \E c \in Clients, q \in Packets : client_tx(c, q)
    BY <2>1, <2>7 DEF client_tx, rxVars
  <2>8. CASE \E c \in Clients : client_wait(c)
    BY <2>1, <2>8 DEF client_wait
  <2>9. CASE UNCHANGED vars
    BY <2>1, <2>9 DEF vars, rxVars
  <2>. QED  BY <2>2, <2>3, <2>4, <2>5, <2>6, <2>7, <2>8, <2>9 DEF Next, Driver
<1>3. IInv /\ [Next]_vars => [Abs!Next]_[c \in Clients |-> FramesOf(c)]
  BY <1>2 DEF AllFrames
<1>. QED  BY <1>1, <1>3, Invariance, PTL DEF Spec, DeliversFrames, Abs!Spec

-----------------------------------------------------------------------------
(* With the clients' threads and timers                                    *)

(* Whatever the clients' threads do between their notifications, Ethdriver *)
(* takes its own steps: EthLink is an Ethdriver.                           *)
THEOREM LinkImplements == LinkSpec => Spec
<1>1. LinkInit => Init
  BY DEF LinkInit
<1>2. [LinkNext]_linkVars => [Next]_vars
  <2>. SUFFICES ASSUME LinkNext PROVE Next \/ UNCHANGED vars
    BY DEF linkVars
  <2>1. CASE Driver
    BY <2>1 DEF Next
  <2>2. ASSUME NEW c \in Clients, timer_periodic(c) \/ stack_tick_callback(c)
        PROVE  UNCHANGED vars
    BY <2>2 DEF timer_periodic, stack_tick_callback
  <2>3. ASSUME NEW c \in Clients, pico_eth_poll(c) PROVE Next
    BY <2>3 DEF pico_eth_poll, Next
  <2>4. ASSUME NEW c \in Clients, ethdriver_notification(c) PROVE Next
    BY <2>4 DEF ethdriver_notification, Next
  <2>5. ASSUME NEW c \in Clients, NEW p \in Packets, pico_eth_send(c, p) PROVE Next
    BY <2>5 DEF pico_eth_send, Next
  <2>. QED  BY <2>1, <2>2, <2>3, <2>4, <2>5 DEF LinkNext
<1>. QED  BY <1>1, <1>2, PTL DEF LinkSpec, Spec

(* The frames a PicoServer's thread polls for are those accepted for it,   *)
(* unaltered, in order and once, however its polls, its notifications and  *)
(* its own sending interleave with the driver.                             *)
THEOREM LinkDelivers == LinkSpec => DeliversFrames
BY LinkImplements, FramesDelivered

(* Nor do the threads leave the card without a buffer.                     *)
THEOREM LinkNeverHalts ==
  ASSUME NumClients * (CLIENT_RX_BUFS - 1) < RX_BUFS
  PROVE  LinkSpec => []CardArmed
BY LinkImplements, ReceptionNeverHalts
=============================================================================
