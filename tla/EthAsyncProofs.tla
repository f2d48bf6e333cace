---------------------------- MODULE EthAsyncProofs ----------------------------
(* Proofs about both ends of picotcp-ethernet-async, for every number of        *)
(* buffers and descriptors: each buffer is in one place, no wakeup is lost, and *)
(* each direction is a bounded queue of unaltered frames.                       *)
EXTENDS EthAsync, FiniteSetTheorems, SequenceTheorems, TLAPS

-------------------------------------------------------------------------------
(* Queues of buffers.                                                           *)

(* The oldest n of a queue and the rest.                                        *)
LEMMA SeqParts ==
  ASSUME NEW S, NEW q \in Seq(S), NEW n \in 0..Len(q)
  PROVE  /\ SubSeq(q, 1, n) \in Seq(S) /\ Len(SubSeq(q, 1, n)) = n
         /\ \A i \in 1..n : SubSeq(q, 1, n)[i] = q[i]
         /\ SubSeq(q, n + 1, Len(q)) \in Seq(S)
         /\ Len(SubSeq(q, n + 1, Len(q))) = Len(q) - n
         /\ \A i \in 1..Len(q) - n : SubSeq(q, n + 1, Len(q))[i] = q[n + i]
OBVIOUS

(* The oldest of a queue and the others.                                        *)
LEMMA SeqOldest ==
  ASSUME NEW S, NEW q \in Seq(S), q # <<>>
  PROVE  /\ Len(q) \in Nat /\ Len(q) >= 1 /\ Head(q) = q[1] /\ Head(q) \in S
         /\ Tail(q) \in Seq(S) /\ Len(Tail(q)) = Len(q) - 1
         /\ \A i \in 1..Len(q) - 1 : Tail(q)[i] = q[i + 1]
OBVIOUS

(* A queue with another behind it.                                              *)
LEMMA SeqBehind ==
  ASSUME NEW S, NEW q \in Seq(S), NEW p \in Seq(S)
  PROVE  /\ q \o p \in Seq(S) /\ Len(q \o p) = Len(q) + Len(p)
         /\ \A i \in 1..Len(q) : (q \o p)[i] = q[i]
         /\ \A i \in 1..Len(p) : (q \o p)[Len(q) + i] = p[i]
OBVIOUS

(* A queue in two parts holds what they hold, and nothing twice if neither does *)
(* and they have nothing in common.                                             *)
LEMMA HoldsParts ==
  ASSUME NEW S, NEW q \in Seq(S), NEW p \in Seq(S), NEW r \in Seq(S),
         Len(q) = Len(p) + Len(r),
         \A i \in 1..Len(p) : q[i] = p[i],
         \A i \in 1..Len(r) : q[Len(p) + i] = r[i]
  PROVE  /\ \A x : Contains(q, x) <=> Contains(p, x) \/ Contains(r, x)
         /\ IsInjective(q) <=> /\ IsInjective(p) /\ IsInjective(r)
                               /\ \A x : ~(Contains(p, x) /\ Contains(r, x))
<1>1. /\ Len(q) \in Nat /\ Len(p) \in Nat /\ Len(r) \in Nat
      /\ DOMAIN q = 1..Len(q) /\ DOMAIN p = 1..Len(p) /\ DOMAIN r = 1..Len(r)
  OBVIOUS
<1>2. \A i \in 1..Len(q) : \/ i \in 1..Len(p) /\ q[i] = p[i]
                           \/ i - Len(p) \in 1..Len(r) /\ q[i] = r[i - Len(p)]
  <2>. SUFFICES ASSUME NEW i \in 1..Len(q), i \notin 1..Len(p)
                PROVE  i - Len(p) \in 1..Len(r) /\ q[i] = r[i - Len(p)]
    OBVIOUS
  <2>1. i - Len(p) \in 1..Len(r) /\ Len(p) + (i - Len(p)) = i
    BY <1>1
  <2>2. q[Len(p) + (i - Len(p))] = r[i - Len(p)]
    BY <2>1
  <2>. QED  BY <2>1, <2>2
<1>3. /\ \A i \in 1..Len(p) : i \in 1..Len(q)
      /\ \A i \in 1..Len(r) : Len(p) + i \in 1..Len(q)
  BY <1>1
<1>4. ASSUME NEW x PROVE Contains(q, x) <=> Contains(p, x) \/ Contains(r, x)
  BY <1>2, <1>3 DEF Contains
<1>5. ASSUME IsInjective(q)
      PROVE  /\ IsInjective(p) /\ IsInjective(r)
             /\ \A x : ~(Contains(p, x) /\ Contains(r, x))
  <2>1. \A i, j \in 1..Len(q) : q[i] = q[j] => i = j
    BY <1>1, <1>5 DEF IsInjective
  <2>2. IsInjective(p)
    BY <1>1, <1>3, <2>1 DEF IsInjective
  <2>3. IsInjective(r)
    BY <1>1, <1>3, <2>1 DEF IsInjective
  <2>4. \A i \in 1..Len(p), j \in 1..Len(r) : p[i] # r[j]
    BY <1>1, <1>3, <2>1
  <2>. QED  BY <2>2, <2>3, <2>4 DEF Contains
<1>6. ASSUME IsInjective(p), IsInjective(r), \A x : ~(Contains(p, x) /\ Contains(r, x))
      PROVE  IsInjective(q)
  <2>. SUFFICES ASSUME NEW i \in 1..Len(q), NEW j \in 1..Len(q), q[i] = q[j]
                PROVE  i = j
    BY <1>1 DEF IsInjective
  <2>1. /\ \A k, l \in 1..Len(p) : p[k] = p[l] => k = l
        /\ \A k, l \in 1..Len(r) : r[k] = r[l] => k = l
    BY <1>1, <1>6 DEF IsInjective
  <2>2. \A k \in 1..Len(p), l \in 1..Len(r) : p[k] # r[l]
    BY <1>6 DEF Contains
  <2>. QED  BY <1>1, <1>2, <2>1, <2>2
<1>. QED  BY <1>4, <1>5, <1>6

(* A queue of one buffer.                                                       *)
LEMMA HoldsOne ==
  ASSUME NEW S, NEW b \in S
  PROVE  /\ <<b>> \in Seq(S) /\ Len(<<b>>) = 1 /\ IsInjective(<<b>>)
         /\ \A x : Contains(<<b>>, x) <=> x = b
<1>1. /\ <<b>> \in Seq(S) /\ Len(<<b>>) = 1 /\ <<b>>[1] = b /\ DOMAIN <<b>> = 1..1
      /\ \A i \in 1..1 : i = 1
  OBVIOUS
<1>2. IsInjective(<<b>>)
  BY <1>1 DEF IsInjective
<1>3. \A x : Contains(<<b>>, x) <=> x = b
  BY <1>1 DEF Contains
<1>. QED  BY <1>1, <1>2, <1>3

(* What a queue holds when one more buffer has come.                            *)
LEMMA HoldsAppend ==
  ASSUME NEW S, NEW q \in Seq(S), NEW b \in S
  PROVE  /\ Append(q, b) \in Seq(S) /\ Len(Append(q, b)) = Len(q) + 1
         /\ \A x : Contains(Append(q, b), x) <=> Contains(q, x) \/ x = b
         /\ IsInjective(q) /\ ~Contains(q, b) => IsInjective(Append(q, b))
<1>1. /\ Append(q, b) \in Seq(S) /\ Len(Append(q, b)) = Len(q) + Len(<<b>>)
      /\ \A i \in 1..Len(q) : Append(q, b)[i] = q[i]
      /\ \A i \in 1..Len(<<b>>) : Append(q, b)[Len(q) + i] = <<b>>[i]
      /\ <<b>> \in Seq(S) /\ Len(<<b>>) = 1
  OBVIOUS
<1>2. PICK p \in Seq(S), r \in Seq(S) :
          /\ p = <<b>> /\ r = Append(q, b)
          /\ Len(r) = Len(q) + Len(p)
          /\ \A i \in 1..Len(q) : r[i] = q[i]
          /\ \A i \in 1..Len(p) : r[Len(q) + i] = p[i]
  BY <1>1, Zenon
<1>3. /\ Len(r) = Len(q) + Len(p)
      /\ \A i \in 1..Len(q) : r[i] = q[i]
      /\ \A i \in 1..Len(p) : r[Len(q) + i] = p[i]
  BY <1>2
<1>4. /\ \A x : Contains(r, x) <=> Contains(q, x) \/ Contains(p, x)
      /\ IsInjective(r) <=> /\ IsInjective(q) /\ IsInjective(p)
                            /\ \A x : ~(Contains(q, x) /\ Contains(p, x))
  BY <1>3, HoldsParts
<1>5. IsInjective(p) /\ \A x : Contains(p, x) <=> x = b
  BY <1>2, HoldsOne
<1>. QED  BY <1>1, <1>2, <1>4, <1>5

(* ... when the oldest n have been taken.                                       *)
LEMMA HoldsRest ==
  ASSUME NEW S, NEW q \in Seq(S), NEW n \in 0..Len(q), IsInjective(q)
  PROVE  LET p == SubSeq(q, 1, n)
             r == SubSeq(q, n + 1, Len(q))
         IN  /\ p \in Seq(S) /\ Len(p) = n /\ IsInjective(p)
             /\ r \in Seq(S) /\ Len(r) = Len(q) - n /\ IsInjective(r)
             /\ \A x : Contains(q, x) <=> Contains(p, x) \/ Contains(r, x)
             /\ \A x : ~(Contains(p, x) /\ Contains(r, x))
<1>0. Len(q) \in Nat /\ n \in Nat /\ n <= Len(q)
  OBVIOUS
<1>1. /\ SubSeq(q, 1, n) \in Seq(S) /\ Len(SubSeq(q, 1, n)) = n
      /\ \A i \in 1..n : SubSeq(q, 1, n)[i] = q[i]
  OBVIOUS
<1>2. /\ SubSeq(q, n + 1, Len(q)) \in Seq(S) /\ Len(SubSeq(q, n + 1, Len(q))) = Len(q) - n
      /\ \A i \in 1..Len(q) - n : SubSeq(q, n + 1, Len(q))[i] = q[n + i]
  OBVIOUS
<1>3. PICK p \in Seq(S) : p = SubSeq(q, 1, n) /\ Len(p) = n /\ \A i \in 1..n : p[i] = q[i]
  BY <1>1, Zenon
<1>4. PICK r \in Seq(S) : /\ r = SubSeq(q, n + 1, Len(q)) /\ Len(r) = Len(q) - n
                          /\ \A i \in 1..Len(q) - n : r[i] = q[n + i]
  BY <1>2, Zenon
<1>5. /\ Len(p) = n /\ \A i \in 1..n : p[i] = q[i]
      /\ Len(r) = Len(q) - n /\ \A i \in 1..Len(q) - n : r[i] = q[n + i]
  BY <1>3, <1>4, Zenon
<1>6. /\ Len(q) = Len(p) + Len(r)
      /\ \A i \in 1..Len(p) : q[i] = p[i]
      /\ \A i \in 1..Len(r) : q[Len(p) + i] = r[i]
  BY <1>0, <1>5
<1>7. /\ \A x : Contains(q, x) <=> Contains(p, x) \/ Contains(r, x)
      /\ IsInjective(q) <=> /\ IsInjective(p) /\ IsInjective(r)
                            /\ \A x : ~(Contains(p, x) /\ Contains(r, x))
  BY <1>6, HoldsParts, ZenonT(60)
<1>. QED  BY <1>3, <1>4, <1>7

(* ... when only the oldest has been taken.                                     *)
LEMMA HoldsTail ==
  ASSUME NEW S, NEW q \in Seq(S), IsInjective(q), q # <<>>
  PROVE  /\ Head(q) \in S /\ Contains(q, Head(q))
         /\ Tail(q) \in Seq(S) /\ Len(Tail(q)) = Len(q) - 1 /\ IsInjective(Tail(q))
         /\ \A x : Contains(Tail(q), x) <=> Contains(q, x) /\ x # Head(q)
<1>0. /\ <<Head(q)>> \in Seq(S) /\ Tail(q) \in Seq(S) /\ Head(q) \in S
      /\ Len(Tail(q)) = Len(q) - 1 /\ Len(q) = Len(<<Head(q)>>) + Len(Tail(q))
      /\ \A i \in 1..Len(<<Head(q)>>) : q[i] = <<Head(q)>>[i]
      /\ \A i \in 1..Len(Tail(q)) : q[Len(<<Head(q)>>) + i] = Tail(q)[i]
  OBVIOUS
<1>1. PICK p \in Seq(S), r \in Seq(S) :
          /\ p = <<Head(q)>> /\ Head(q) \in S /\ r = Tail(q) /\ Len(r) = Len(q) - 1
          /\ Len(q) = Len(p) + Len(r)
          /\ \A i \in 1..Len(p) : q[i] = p[i]
          /\ \A i \in 1..Len(r) : q[Len(p) + i] = r[i]
  BY <1>0, Zenon
<1>2. /\ Len(q) = Len(p) + Len(r)
      /\ \A i \in 1..Len(p) : q[i] = p[i]
      /\ \A i \in 1..Len(r) : q[Len(p) + i] = r[i]
  BY <1>1
<1>3. /\ \A x : Contains(q, x) <=> Contains(p, x) \/ Contains(r, x)
      /\ IsInjective(r) /\ \A x : ~(Contains(p, x) /\ Contains(r, x))
  BY <1>2, HoldsParts
<1>4. \A x : Contains(p, x) <=> x = Head(q)
  BY <1>1, HoldsOne
<1>. QED  BY <1>0, <1>1, <1>3, <1>4

(* ... when those of another have been put behind it.                           *)
LEMMA HoldsConcat ==
  ASSUME NEW S, NEW q \in Seq(S), NEW p \in Seq(S)
  PROVE  /\ q \o p \in Seq(S) /\ Len(q \o p) = Len(q) + Len(p)
         /\ \A x : Contains(q \o p, x) <=> Contains(q, x) \/ Contains(p, x)
         /\ IsInjective(q \o p) <=> /\ IsInjective(q) /\ IsInjective(p)
                                    /\ \A x : ~(Contains(q, x) /\ Contains(p, x))
<1>0. /\ q \o p \in Seq(S) /\ Len(q \o p) = Len(q) + Len(p)
      /\ \A i \in 1..Len(q) : (q \o p)[i] = q[i]
      /\ \A i \in 1..Len(p) : (q \o p)[Len(q) + i] = p[i]
  OBVIOUS
<1>1. PICK r \in Seq(S) :
          /\ r = q \o p /\ Len(r) = Len(q) + Len(p)
          /\ \A i \in 1..Len(q) : r[i] = q[i]
          /\ \A i \in 1..Len(p) : r[Len(q) + i] = p[i]
  BY <1>0, Zenon
<1>2. /\ \A x : Contains(r, x) <=> Contains(q, x) \/ Contains(p, x)
      /\ IsInjective(r) <=> /\ IsInjective(q) /\ IsInjective(p)
                            /\ \A x : ~(Contains(q, x) /\ Contains(p, x))
  BY <1>1, HoldsParts
<1>. QED  BY <1>1, <1>2

(* Two queues with nothing in common, one behind the other.                     *)
LEMMA HoldsJoin ==
  ASSUME NEW S, NEW q \in Seq(S), NEW p \in Seq(S), IsInjective(q), IsInjective(p),
         \A x : ~(Contains(q, x) /\ Contains(p, x))
  PROVE  /\ q \o p \in Seq(S) /\ IsInjective(q \o p)
         /\ \A x : Contains(q \o p, x) <=> Contains(q, x) \/ Contains(p, x)
BY HoldsConcat

-------------------------------------------------------------------------------
(* The server's thread.                                                         *)

(* What is left to do when the task at hand has been replaced by others.        *)
LEMMA WorkThen ==
  ASSUME work \in Seq(Tasks), work # <<>>, NEW tasks \in Seq(Tasks), Then(tasks)
  PROVE  /\ work' \in Seq(Tasks)
         /\ Len(work') = Len(tasks) + Len(work) - 1
         /\ Len(work) \in Nat \ {0} /\ Len(tasks) \in Nat
         /\ \A i \in 1..Len(tasks) : work'[i] = tasks[i]
         /\ \A i \in 2..Len(work) : work'[i - 1 + Len(tasks)] = work[i]
<1>1. /\ Tail(work) \in Seq(Tasks) /\ Len(Tail(work)) = Len(work) - 1
      /\ Len(work) \in Nat \ {0} /\ Len(tasks) \in Nat
      /\ \A i \in 1..Len(work) - 1 : Tail(work)[i] = work[i + 1]
  OBVIOUS
<1>2. work' = tasks \o Tail(work)
  BY DEF Then
<1>3. /\ work' \in Seq(Tasks) /\ Len(work') = Len(tasks) + Len(work) - 1
      /\ \A i \in 1..Len(tasks) : work'[i] = tasks[i]
      /\ \A i \in 1..Len(work) - 1 : work'[i + Len(tasks)] = Tail(work)[i]
  BY <1>1, <1>2
<1>4. ASSUME NEW i \in 2..Len(work) PROVE work'[i - 1 + Len(tasks)] = work[i]
  <2>1. i - 1 \in 1..Len(work) - 1 /\ (i - 1) + 1 = i
    BY <1>1
  <2>. QED  BY <1>1, <1>3, <2>1
<1>. QED  BY <1>1, <1>3, <1>4

(* The same, for a task that is over.                                           *)
LEMMA WorkDone ==
  ASSUME work \in Seq(Tasks), work # <<>>, Done
  PROVE  /\ work' \in Seq(Tasks)
         /\ Len(work') = Len(work) - 1 /\ Len(work) \in Nat \ {0}
         /\ \A i \in 1..Len(work') : work'[i] = work[i + 1]
         /\ \A t : t # Head(work) => (Contains(work', t) <=> Contains(work, t))
<1>1. work' = Tail(work)
  BY DEF Done, Then
<1>2. /\ work' \in Seq(Tasks) /\ Len(work') = Len(work) - 1 /\ Len(work) \in Nat \ {0}
      /\ \A i \in 1..Len(work') : work'[i] = work[i + 1]
      /\ Head(work) = work[1]
  BY <1>1
<1>3. ASSUME NEW t, t # Head(work) PROVE Contains(work', t) <=> Contains(work, t)
  <2>1. Contains(work', t) => Contains(work, t)
    BY <1>2 DEF Contains
  <2>2. ASSUME Contains(work, t) PROVE Contains(work', t)
    <3>1. PICK i \in 1..Len(work) : work[i] = t
      BY <2>2 DEF Contains
    <3>2. i - 1 \in 1..Len(work') /\ work'[i - 1] = t
      BY <3>1, <1>2, <1>3
    <3>. QED  BY <3>2 DEF Contains
  <2>. QED  BY <2>1, <2>2
<1>. QED  BY <1>2, <1>3
-------------------------------------------------------------------------------
(* The inductive invariant.                                                     *)

(* A frame's last buffer has been filled if its first one has.                  *)
Whole == \A i \in 1..Len(arrived) : ~arrived[i].last => i < Len(arrived)

(* What the server's thread does in a row: raw_poll fills the ring once it has  *)
(* completed; the queue is drained just before the thread waits, and the client *)
(* is notified last; what completes without either, at the start, finds nothing *)
(* that was sent.                                                               *)
WorkShape ==
  /\ \A i \in 1..Len(work) :
       /\ work[i] = "complete" => i < Len(work) /\ work[i + 1] = "fill"
       /\ work[i] \in {"handle", "drain"} => i + 1 = Len(work)
       /\ work[i] \in {"notify", "signal"} => i = Len(work)
  /\ Contains(work, "complete") =>
       Contains(work, "notify") \/ Contains(work, "drain") \/ nicTx = <<>>

(* Room in the card's ring is noted, or about to be filled.                     *)
RefillKept == Len(nicRx) < RxRing /\ ~no_rx_bufs => Contains(work, "fill")

(* A queued packet is announced, about to be taken, or noted as blocked: then   *)
(* by packets still to complete, or else their completion is to be acted upon.  *)
TxKept ==
  tx_avail # <<>> =>
    \/ "tx" \in server_signals \/ client_action
    \/ Contains(work, "handle") \/ Contains(work, "drain")
    \/ blocked_tx /\ (nicTx # <<>> \/ (server_action /\ Contains(work, "notify")))

Apart(q, p) == \A x : ~(Contains(q, x) /\ Contains(p, x))

(* Where the receive buffers are.                                               *)
RxHeld(b) == Contains(rx_avail, b) \/ Contains(nicRx, b) \/ Contains(rx_used, b)
RxPlaces ==
  /\ IsInjective(rx_avail) /\ IsInjective(nicRx) /\ IsInjective(rx_used)
  /\ Apart(rx_avail, nicRx) /\ Apart(rx_avail, rx_used) /\ Apart(nicRx, rx_used)
  /\ client = "init" => /\ Offered <= NUM_RX_BUFS
                        /\ \A b \in RxBufs : RxHeld(b) <=> b <= Offered
  /\ client # "init" => \A b \in RxBufs : RxHeld(b)

(* Where the transmit buffers are.                                              *)
TxHeld(b) == Contains(tx_avail, b) \/ Contains(nicTx, b) \/ Contains(tx_used, b)
TxPlaces ==
  /\ IsInjective(tx_avail) /\ IsInjective(nicTx) /\ IsInjective(tx_used)
  /\ Apart(tx_avail, nicTx) /\ Apart(tx_avail, tx_used) /\ Apart(nicTx, tx_used)
  /\ \A b \in TxBufs : TxHeld(b) <=> b > num_tx

IInv == TypeOK /\ Whole /\ WorkShape /\ RefillKept /\ TxKept /\ RxPlaces /\ TxPlaces

(* The numbers, as numbers.                                                     *)
LEMMA AsyncNats ==
  /\ NUM_RX_BUFS \in Nat /\ NUM_RX_BUFS > 0 /\ NUM_TX_BUFS \in Nat /\ NUM_TX_BUFS > 0
  /\ RxRing \in Nat /\ RxRing > 0 /\ TxRing \in Nat /\ TxRing > 0
  /\ LoopScore \in Nat /\ LoopScore > 0
  /\ None \notin Frames /\ None \notin Packets
BY AsyncAssumption

(* The buffers of the oldest frame are in the ring; the rest stays there.       *)
LEMMA Cookies ==
  ASSUME TypeOK, Whole, arrived # <<>>
  PROVE  /\ num_bufs \in 1..2 /\ num_bufs <= Len(arrived) /\ num_bufs \in 0..Len(nicRx)
         /\ cookies \in Seq(RxBufs) /\ Len(cookies) = num_bufs
         /\ SubSeq(nicRx, num_bufs + 1, Len(nicRx)) \in Seq(RxBufs)
         /\ Len(SubSeq(nicRx, num_bufs + 1, Len(nicRx))) = Len(nicRx) - num_bufs
         /\ SubSeq(arrived, num_bufs + 1, Len(arrived)) \in Seq([frame : Frames, last : BOOLEAN])
         /\ Len(SubSeq(arrived, num_bufs + 1, Len(arrived))) = Len(arrived) - num_bufs
         /\ \A i \in 1..Len(arrived) - num_bufs :
               SubSeq(arrived, num_bufs + 1, Len(arrived))[i] = arrived[num_bufs + i]
         /\ Head(arrived).frame \in Frames
<1>1. /\ arrived \in Seq([frame : Frames, last : BOOLEAN]) /\ nicRx \in Seq(RxBufs)
      /\ Len(arrived) \in Nat /\ Len(nicRx) \in Nat /\ Len(arrived) <= Len(nicRx)
  BY DEF TypeOK
<1>2. /\ Len(arrived) >= 1 /\ Head(arrived) = arrived[1]
      /\ Head(arrived) \in [frame : Frames, last : BOOLEAN]
  BY <1>1, SeqOldest
<1>3. num_bufs \in 1..2 /\ num_bufs <= Len(arrived)
  BY <1>1, <1>2 DEF num_bufs, Whole
<1>4. PICK n \in 1..2 : n = num_bufs
  BY <1>3
<1>5. n \in 0..Len(arrived) /\ n \in 0..Len(nicRx)
  BY <1>1, <1>3, <1>4
<1>6. /\ SubSeq(nicRx, 1, n) \in Seq(RxBufs) /\ Len(SubSeq(nicRx, 1, n)) = n
      /\ SubSeq(nicRx, n + 1, Len(nicRx)) \in Seq(RxBufs)
      /\ Len(SubSeq(nicRx, n + 1, Len(nicRx))) = Len(nicRx) - n
  BY <1>1, <1>5, SeqParts
<1>7. /\ SubSeq(arrived, n + 1, Len(arrived)) \in Seq([frame : Frames, last : BOOLEAN])
      /\ Len(SubSeq(arrived, n + 1, Len(arrived))) = Len(arrived) - n
      /\ \A i \in 1..Len(arrived) - n :
               SubSeq(arrived, n + 1, Len(arrived))[i] = arrived[n + i]
  BY <1>1, <1>5, SeqParts, Zenon
<1>8. Head(arrived).frame \in Frames
  BY <1>2
<1>. QED  BY <1>3, <1>4, <1>5, <1>6, <1>7, <1>8, Zenon DEF cookies

-------------------------------------------------------------------------------
(* Types.                                                                       *)

(* What a notification gives the server to do.                                  *)
LEMMA RunTasks ==
  ASSUME NEW sig
  PROVE  LET w == (IF "irq" \in sig THEN <<"complete", "fill">> ELSE <<>>)
                  \o (IF "tx" \in sig THEN <<"handle">> ELSE <<>>) \o <<"notify">>
             k == IF "irq" \in sig THEN 2 ELSE 0
         IN  /\ w \in Seq(Tasks) /\ Len(w) = k + (IF "tx" \in sig THEN 2 ELSE 1)
             /\ "irq" \in sig => w[1] = "complete" /\ w[2] = "fill"
             /\ "tx" \in sig => w[k + 1] = "handle"
             /\ w[Len(w)] = "notify"
<1>1. PICK a \in Seq(Tasks) :
        /\ a = IF "irq" \in sig THEN <<"complete", "fill">> ELSE <<>>
        /\ Len(a) = IF "irq" \in sig THEN 2 ELSE 0
        /\ "irq" \in sig => a[1] = "complete" /\ a[2] = "fill"
  <2>1. /\ <<"complete", "fill">> \in Seq(Tasks) /\ Len(<<"complete", "fill">>) = 2
        /\ <<"complete", "fill">>[1] = "complete" /\ <<"complete", "fill">>[2] = "fill"
    BY DEF Tasks
  <2>2. <<>> \in Seq(Tasks) /\ Len(<<>>) = 0
    OBVIOUS
  <2>3. CASE "irq" \in sig
    BY <2>1, <2>3, Zenon
  <2>4. CASE "irq" \notin sig
    <3>1. /\ <<>> = IF "irq" \in sig THEN <<"complete", "fill">> ELSE <<>>
          /\ Len(<<>>) = IF "irq" \in sig THEN 2 ELSE 0
          /\ "irq" \in sig => <<>>[1] = "complete" /\ <<>>[2] = "fill"
      BY <2>2, <2>4
    <3>. WITNESS <<>> \in Seq(Tasks)
    <3>. QED  BY <3>1
  <2>. QED  BY <2>3, <2>4
<1>2. PICK b \in Seq(Tasks) :
        /\ b = IF "tx" \in sig THEN <<"handle">> ELSE <<>>
        /\ Len(b) = IF "tx" \in sig THEN 1 ELSE 0
        /\ "tx" \in sig => b[1] = "handle"
  <2>1. <<"handle">> \in Seq(Tasks) /\ Len(<<"handle">>) = 1 /\ <<"handle">>[1] = "handle"
    BY DEF Tasks
  <2>2. <<>> \in Seq(Tasks) /\ Len(<<>>) = 0
    OBVIOUS
  <2>3. CASE "tx" \in sig
    BY <2>1, <2>3, Zenon
  <2>4. CASE "tx" \notin sig
    <3>1. /\ <<>> = IF "tx" \in sig THEN <<"handle">> ELSE <<>>
          /\ Len(<<>>) = IF "tx" \in sig THEN 1 ELSE 0
          /\ "tx" \in sig => <<>>[1] = "handle"
      BY <2>2, <2>4
    <3>. WITNESS <<>> \in Seq(Tasks)
    <3>. QED  BY <3>1
  <2>. QED  BY <2>3, <2>4
<1>3. PICK c \in Seq(Tasks) : c = <<"notify">> /\ Len(c) = 1 /\ c[1] = "notify"
  <2>1. <<"notify">> \in Seq(Tasks) /\ Len(<<"notify">>) = 1 /\ <<"notify">>[1] = "notify"
    BY DEF Tasks
  <2>. QED  BY <2>1, Zenon
<1>4. PICK ab \in Seq(Tasks) :
        /\ ab = a \o b /\ Len(ab) = Len(a) + Len(b)
        /\ \A i \in 1..Len(a) : ab[i] = a[i]
        /\ \A i \in 1..Len(b) : ab[Len(a) + i] = b[i]
  <2>1. /\ a \o b \in Seq(Tasks) /\ Len(a \o b) = Len(a) + Len(b)
        /\ \A i \in 1..Len(a) : (a \o b)[i] = a[i]
        /\ \A i \in 1..Len(b) : (a \o b)[Len(a) + i] = b[i]
    BY SeqBehind
  <2>. QED  BY <2>1, Zenon
<1>5. PICK w \in Seq(Tasks) :
        /\ w = ab \o c /\ Len(w) = Len(ab) + Len(c)
        /\ \A i \in 1..Len(ab) : w[i] = ab[i]
        /\ \A i \in 1..Len(c) : w[Len(ab) + i] = c[i]
  <2>1. /\ ab \o c \in Seq(Tasks) /\ Len(ab \o c) = Len(ab) + Len(c)
        /\ \A i \in 1..Len(ab) : (ab \o c)[i] = ab[i]
        /\ \A i \in 1..Len(c) : (ab \o c)[Len(ab) + i] = c[i]
    BY SeqBehind
  <2>. QED  BY <2>1, Zenon
<1>6. /\ Len(w) = (IF "irq" \in sig THEN 2 ELSE 0) + (IF "tx" \in sig THEN 2 ELSE 1)
      /\ "irq" \in sig => w[1] = "complete" /\ w[2] = "fill"
      /\ "tx" \in sig => w[(IF "irq" \in sig THEN 2 ELSE 0) + 1] = "handle"
      /\ w[Len(w)] = "notify"
  <2>1. /\ Len(a) = IF "irq" \in sig THEN 2 ELSE 0
        /\ "irq" \in sig => a[1] = "complete" /\ a[2] = "fill"
        /\ Len(b) = IF "tx" \in sig THEN 1 ELSE 0
        /\ "tx" \in sig => b[1] = "handle"
        /\ Len(c) = 1 /\ c[1] = "notify"
    BY <1>1, <1>2, <1>3, Zenon
  <2>2. /\ Len(ab) = Len(a) + Len(b) /\ Len(w) = Len(ab) + Len(c)
        /\ \A i \in 1..Len(a) : ab[i] = a[i]
        /\ \A i \in 1..Len(b) : ab[Len(a) + i] = b[i]
        /\ \A i \in 1..Len(ab) : w[i] = ab[i]
        /\ \A i \in 1..Len(c) : w[Len(ab) + i] = c[i]
    BY <1>4, <1>5, Zenon
  <2>. QED  BY <2>1, <2>2
<1>7. w = (IF "irq" \in sig THEN <<"complete", "fill">> ELSE <<>>)
          \o (IF "tx" \in sig THEN <<"handle">> ELSE <<>>) \o <<"notify">>
  BY <1>1, <1>2, <1>3, <1>4, <1>5, Zenon
<1>. QED  BY <1>6, <1>7, Zenon

(* The server's steps keep the types.                                           *)
LEMMA ServerType ==
  ASSUME TypeOK, Whole, Server
  PROVE  TypeOK'
<1>. USE AsyncNats
<1>1. CASE server_run
  <2>1. work' \in Seq(Tasks)
    BY <1>1, RunTasks DEF server_run
  <2>. QED  BY <1>1, <2>1 DEF server_run, TypeOK, rings, flags, card, stack
<1>2. CASE eth_rx_complete
  <2>1. arrived # <<>>
    BY <1>2 DEF eth_rx_complete
  <2>2. rxData' \in [RxBufs -> Frames \cup {None}]
    BY <1>2, <2>1, Cookies DEF eth_rx_complete, TypeOK
  <2>3. rx_used' \in Seq(RxBufs)
    BY <1>2, <2>1, Cookies DEF eth_rx_complete, TypeOK
  <2>4. /\ nicRx' \in Seq(RxBufs) /\ arrived' \in Seq([frame : Frames, last : BOOLEAN])
        /\ Len(arrived') <= Len(nicRx') /\ Len(nicRx') <= RxRing
    <3>1. PICK n \in 1..2 : n = num_bufs
      BY <2>1, Cookies
    <3>2. /\ nicRx' \in Seq(RxBufs) /\ arrived' \in Seq([frame : Frames, last : BOOLEAN])
          /\ Len(nicRx') = Len(nicRx) - n /\ Len(arrived') = Len(arrived) - n
      BY <1>2, <2>1, <3>1, Cookies, Zenon DEF eth_rx_complete, Released
    <3>. QED  BY <3>2 DEF TypeOK
  <2>. QED  BY <1>2, <2>2, <2>3, <2>4 DEF eth_rx_complete, TypeOK, stack, signals
<1>3. CASE eth_tx_complete
  BY <1>3 DEF eth_tx_complete, TypeOK, stack, signals
<1>4. CASE raw_completed
  <2>1. work' \in Seq(Tasks)
    BY <1>4, WorkDone DEF raw_completed, Doing, TypeOK
  <2>. QED  BY <1>4, <2>1 DEF raw_completed, TypeOK, rings, flags, card, stack, signals
<1>5. CASE eth_allocate_rx_buf
  <2>1. work' \in Seq(Tasks)
    BY <1>5, WorkDone DEF eth_allocate_rx_buf, Doing, TypeOK
  <2>2. CASE rx_avail = <<>>
    BY <1>5, <2>1, <2>2 DEF eth_allocate_rx_buf, TypeOK, stack, signals
  <2>3. CASE rx_avail # <<>>
    <3>1. /\ rx_avail \in Seq(RxBufs) /\ nicRx \in Seq(RxBufs)
          /\ nicRx' = Append(nicRx, Head(rx_avail)) /\ rx_avail' = Tail(rx_avail)
      BY <1>5, <2>3 DEF eth_allocate_rx_buf, TypeOK
    <3>2. Head(rx_avail) \in RxBufs /\ rx_avail' \in Seq(RxBufs)
      BY <2>3, <3>1, SeqOldest
    <3>3. nicRx' \in Seq(RxBufs) /\ Len(nicRx') = Len(nicRx) + 1
      BY <3>1, <3>2, AppendProperties
    <3>4. Len(arrived) <= Len(nicRx') /\ Len(nicRx') <= RxRing
      <4>1. Len(nicRx) < RxRing /\ Len(arrived) <= Len(nicRx)
        BY <1>5 DEF eth_allocate_rx_buf, TypeOK
      <4>2. Len(nicRx) \in Nat /\ Len(arrived) \in Nat
        BY <3>1 DEF TypeOK
      <4>. QED  BY <3>3, <4>1, <4>2
    <3>. QED  BY <1>5, <2>1, <2>3, <3>2, <3>3, <3>4 DEF eth_allocate_rx_buf, TypeOK, stack, signals
  <2>. QED  BY <2>2, <2>3
<1>6. CASE raw_filled
  <2>1. work' \in Seq(Tasks)
    BY <1>6, WorkDone DEF raw_filled, Doing, TypeOK
  <2>. QED  BY <1>6, <2>1 DEF raw_filled, TypeOK, rings, flags, card, stack, signals
<1>7. CASE virt_queue_handle_irq
  <2>1. work' \in Seq(Tasks)
    <3>1. <<"complete", "fill", "drain">> \in Seq(Tasks) /\ <<"drain">> \in Seq(Tasks)
      BY DEF Tasks
    <3>. QED  BY <1>7, <3>1, WorkThen DEF virt_queue_handle_irq, Doing, TypeOK
  <2>. QED  BY <1>7, <2>1 DEF virt_queue_handle_irq, TypeOK, rings, flags, card, stack, signals
<1>8. CASE drained
  <2>1. work' \in Seq(Tasks)
    BY <1>8, WorkDone DEF drained, Doing, TypeOK
  <2>. QED  BY <1>8, <2>1 DEF drained, TypeOK, rings, flags, card, stack, signals
<1>9. CASE raw_tx_enqueued
  <2>1. Head(tx_avail) \in TxBufs /\ tx_avail' \in Seq(TxBufs)
    BY <1>9, SeqOldest DEF raw_tx_enqueued, TypeOK
  <2>2. nicTx \in Seq(TxBufs) /\ nicTx' = Append(nicTx, Head(tx_avail))
    BY <1>9 DEF raw_tx_enqueued, TypeOK
  <2>3. nicTx' \in Seq(TxBufs) /\ Len(nicTx') = Len(nicTx) + 1
    BY <2>1, <2>2, AppendProperties
  <2>4. sent \in 0..Len(nicTx') /\ Len(nicTx') <= TxRing
    <3>1. Len(nicTx) < TxRing /\ sent \in 0..Len(nicTx)
      BY <1>9 DEF raw_tx_enqueued, TypeOK
    <3>2. Len(nicTx) \in Nat
      BY <2>2
    <3>. QED  BY <2>3, <3>1, <3>2
  <2>. QED  BY <1>9, <2>1, <2>3, <2>4 DEF raw_tx_enqueued, TypeOK, stack, signals
<1>10. CASE raw_tx_refused
  <2>1. work' \in Seq(Tasks)
    BY <1>10, WorkDone DEF raw_tx_refused, Doing, TypeOK
  <2>. QED  BY <1>10, <2>1 DEF raw_tx_refused, TypeOK, rings, card, stack, signals
<1>11. CASE notify_client_blocked
  <2>1. work' \in Seq(Tasks)
    <3>1. <<"handle", "signal">> \in Seq(Tasks)
      BY DEF Tasks
    <3>. QED  BY <1>11, <3>1, WorkThen DEF notify_client_blocked, Doing, TypeOK
  <2>. QED  BY <1>11, <2>1 DEF notify_client_blocked, TypeOK, rings, flags, card, stack, signals
<1>12. CASE notify_client
  <2>1. work' \in Seq(Tasks)
    BY <1>12, WorkDone DEF notify_client, Doing, TypeOK
  <2>. QED  BY <1>12, <2>1 DEF notify_client, TypeOK, rings, card, stack
<1>. QED
  BY <1>1, <1>2, <1>3, <1>4, <1>5, <1>6, <1>7, <1>8, <1>9, <1>10, <1>11, <1>12
  DEF Server

(* What the server does not do.                                                 *)
Others ==
  \/ client_init \/ client_run \/ pico_stack_tick
  \/ \E p \in Packets : pico_eth_send(p)
  \/ pico_eth_poll \/ pico_eth_poll_break \/ notify_server \/ tick
  \/ \E f \in Frames : receive(f)
  \/ send

(* The buffers that one frame fills.                                            *)
LEMMA Arrives ==
  ASSUME TypeOK, NEW f \in Frames, receive(f)
  PROVE  /\ arrived' \in Seq([frame : Frames, last : BOOLEAN])
         /\ Len(arrived') <= Len(nicRx)
         /\ Whole => Whole'
<1>1. PICK n \in 1..2 :
        /\ Len(arrived) + n <= Len(nicRx)
        /\ arrived' = arrived \o [k \in 1..n |-> [frame |-> f, last |-> k = n]]
  BY DEF receive
<1>2. PICK new : new = [k \in 1..n |-> [frame |-> f, last |-> k = n]]
  OBVIOUS
<1>3. /\ new \in Seq([frame : Frames, last : BOOLEAN]) /\ Len(new) = n
      /\ \A k \in 1..n : new[k].last <=> k = n
  <2>1. /\ new \in [1..n -> [frame : Frames, last : BOOLEAN]]
        /\ \A k \in 1..n : new[k].last <=> k = n
    BY <1>2
  <2>2. n \in Nat
    OBVIOUS
  <2>3. new \in Seq([frame : Frames, last : BOOLEAN]) /\ Len(new) = n
    <3>1. \E m \in Nat : new \in [1..m -> [frame : Frames, last : BOOLEAN]]
      BY <2>1, <2>2
    <3>2. new \in Seq([frame : Frames, last : BOOLEAN])
      BY <3>1, SeqDef
    <3>3. DOMAIN new = 1..n /\ DOMAIN new = 1..Len(new) /\ Len(new) \in Nat
      BY <2>1, <3>2, LenProperties
    <3>. QED  BY <2>2, <3>2, <3>3
  <2>. QED  BY <2>1, <2>3
<1>4. /\ arrived \in Seq([frame : Frames, last : BOOLEAN]) /\ Len(arrived) \in Nat
      /\ arrived' = arrived \o new
  BY <1>1, <1>2 DEF TypeOK
<1>5. /\ arrived' \in Seq([frame : Frames, last : BOOLEAN]) /\ Len(arrived') = Len(arrived) + n
      /\ \A i \in 1..Len(arrived) : arrived'[i] = arrived[i]
      /\ \A i \in 1..n : arrived'[Len(arrived) + i] = new[i]
  BY <1>3, <1>4
<1>6. ASSUME Whole PROVE Whole'
  <2>. SUFFICES ASSUME NEW i \in 1..Len(arrived'), ~arrived'[i].last
                PROVE  i < Len(arrived')
    BY DEF Whole
  <2>1. CASE i \in 1..Len(arrived)
    BY <1>4, <1>5, <2>1
  <2>2. CASE i \notin 1..Len(arrived)
    <3>1. PICK k \in 1..n : i = Len(arrived) + k
      <4>1. i - Len(arrived) \in 1..n /\ i = Len(arrived) + (i - Len(arrived))
        BY <1>4, <1>5, <2>2
      <4>. QED  BY <4>1
    <3>2. k # n
      BY <1>3, <1>5, <3>1
    <3>. QED  BY <1>4, <1>5, <3>1, <3>2
  <2>. QED  BY <2>1, <2>2
<1>. QED  BY <1>1, <1>5, <1>6

(* So do the steps of the client, the stack and the card.                       *)
LEMMA OthersType ==
  ASSUME TypeOK, RxPlaces, Others
  PROVE  TypeOK'
<1>. USE AsyncNats
<1>1. CASE client_init
  <2>1. Offered \in Nat
    BY DEF Offered, TypeOK
  <2>2. Offered < NUM_RX_BUFS => Offered + 1 \in RxBufs
    BY <2>1 DEF RxBufs
  <2>3. rx_avail' \in Seq(RxBufs)
    <3>1. rx_avail \in Seq(RxBufs)
      BY DEF TypeOK
    <3>. QED  BY <1>1, <2>2, <3>1, AppendProperties DEF client_init
  <2>. QED  BY <1>1, <2>3 DEF client_init, TypeOK, flags, card
<1>2. CASE client_run
  <2>1. Cardinality(client_signals) - 1 \in 0..1
    <3>1. client_signals \subseteq {"eth", "tick"} /\ client_signals # {}
      BY <1>2 DEF client_run, TypeOK
    <3>2. client_signals \in {{"eth"}, {"tick"}, {"eth", "tick"}}
      BY <3>1
    <3>3. /\ Cardinality({"eth"}) = 1 /\ Cardinality({"tick"}) = 1
          /\ IsFiniteSet({"eth"})
      BY FS_Singleton
    <3>4. Cardinality({"eth", "tick"}) = 2
      <4>1. {"eth", "tick"} = {"eth"} \cup {"tick"} /\ "tick" \notin {"eth"}
        OBVIOUS
      <4>. QED  BY <3>3, <4>1, FS_AddElement
    <3>. QED  BY <3>2, <3>3, <3>4
  <2>. QED  BY <1>2, <2>1 DEF client_run, TypeOK, rings, flags, card
<1>3. CASE pico_stack_tick
  BY <1>3 DEF pico_stack_tick, TypeOK, rings, flags, card, signals
<1>4. ASSUME NEW p \in Packets, pico_eth_send(p) PROVE TypeOK'
  <2>1. PICK b \in TxBufs :
          /\ Send(b, p) /\ num_tx' \in 0..NUM_TX_BUFS /\ tx_used' \in Seq(TxBufs)
    <3>1. CASE tx_used # <<>>
      <4>1. Head(tx_used) \in TxBufs /\ Tail(tx_used) \in Seq(TxBufs)
        BY <3>1, SeqOldest DEF TypeOK
      <4>. QED  BY <1>4, <3>1, <4>1 DEF pico_eth_send, TypeOK
    <3>2. CASE tx_used = <<>>
      <4>1. num_tx \in TxBufs /\ num_tx - 1 \in 0..NUM_TX_BUFS
        BY <1>4, <3>2 DEF pico_eth_send, TypeOK, TxBufs
      <4>. QED  BY <1>4, <3>2, <4>1 DEF pico_eth_send, TypeOK
    <3>. QED  BY <3>1, <3>2
  <2>2. /\ txData' \in [TxBufs -> Packets \cup {None}]
        /\ tx_avail' \in Seq(TxBufs) /\ client_action' \in BOOLEAN
    BY <2>1 DEF Send, TypeOK
  <2>. QED  BY <1>4, <2>1, <2>2 DEF pico_eth_send, TypeOK, flags, card, signals
<1>5. CASE pico_eth_poll
  BY <1>5 DEF pico_eth_poll, TypeOK, flags, card, signals
<1>6. CASE pico_eth_poll_break
  BY <1>6 DEF pico_eth_poll_break, TypeOK, rings, flags, card, signals
<1>7. CASE notify_server
  BY <1>7 DEF notify_server, TypeOK, rings, flags, card
<1>8. CASE tick
  BY <1>8 DEF tick, TypeOK, rings, flags, card, stack
<1>9. ASSUME NEW f \in Frames, receive(f) PROVE TypeOK'
  BY <1>9, Arrives DEF receive, Interrupt, TypeOK, rings, flags, stack
<1>10. CASE send
  BY <1>10 DEF send, Interrupt, TypeOK, rings, flags, stack
<1>. QED  BY <1>1, <1>2, <1>3, <1>4, <1>5, <1>6, <1>7, <1>8, <1>9, <1>10 DEF Others

-------------------------------------------------------------------------------
(* What the threads have left to do.                                            *)

(* The task at hand is left to do.                                              *)
LEMMA DoingHeld ==
  ASSUME TypeOK, NEW t, Doing(t)
  PROVE  Contains(work, t) /\ work # <<>> /\ Len(work) \in Nat /\ work[1] = t
<1>1. work \in Seq(Tasks) /\ work # <<>> /\ Head(work) = t
  BY DEF TypeOK, Doing
<1>2. Len(work) \in Nat /\ Len(work) >= 1 /\ work[1] = t
  BY <1>1, SeqOldest
<1>. QED  BY <1>1, <1>2 DEF Contains

(* A task that is over leaves the shape of the rest as it was.                  *)
LEMMA DoneShape ==
  ASSUME TypeOK, WorkShape, work # <<>>, Done, nicTx' = nicTx
  PROVE  WorkShape'
<1>0. /\ work \in Seq(Tasks) /\ work' \in Seq(Tasks)
      /\ Len(work') = Len(work) - 1 /\ Len(work) \in Nat \ {0}
      /\ \A i \in 1..Len(work') : work'[i] = work[i + 1]
      /\ \A t : t # Head(work) => (Contains(work', t) <=> Contains(work, t))
      /\ Head(work) = work[1]
  BY WorkDone, SeqOldest DEF TypeOK
<1>1. ASSUME NEW i \in 1..Len(work')
      PROVE  /\ work'[i] = "complete" => i < Len(work') /\ work'[i + 1] = "fill"
             /\ work'[i] \in {"handle", "drain"} => i + 1 = Len(work')
             /\ work'[i] \in {"notify", "signal"} => i = Len(work')
  <2>1. i + 1 \in 1..Len(work) /\ work'[i] = work[i + 1] /\ i \in Nat
    BY <1>0
  <2>2. /\ work'[i] = "complete" => i + 1 < Len(work) /\ work[(i + 1) + 1] = "fill"
        /\ work'[i] \in {"handle", "drain"} => (i + 1) + 1 = Len(work)
        /\ work'[i] \in {"notify", "signal"} => i + 1 = Len(work)
    BY <2>1 DEF WorkShape
  <2>3. i + 1 < Len(work) => i + 1 \in 1..Len(work')
    BY <1>0, <2>1
  <2>4. i + 1 < Len(work) => work'[i + 1] = work[(i + 1) + 1]
    BY <1>0, <2>3
  <2>. QED  BY <1>0, <2>1, <2>2, <2>4
<1>2. ASSUME Contains(work', "complete")
      PROVE  Contains(work', "notify") \/ Contains(work', "drain") \/ nicTx' = <<>>
  <2>1. PICK i \in 1..Len(work') : work'[i] = "complete"
    BY <1>2 DEF Contains
  <2>2. Len(work') >= 2
    BY <1>0, <1>1, <2>1
  <2>3. Head(work) \notin {"notify", "drain"}
    BY <1>0, <2>2 DEF WorkShape
  <2>4. Contains(work, "complete")
    BY <1>0, <2>1 DEF Contains
  <2>. QED  BY <1>0, <2>3, <2>4 DEF WorkShape
<1>. QED  BY <1>1, <1>2 DEF WorkShape

(* A step that leaves the thread's tasks alone.                                 *)
LEMMA SameShape ==
  ASSUME WorkShape, work' = work,
         nicTx = <<>> => nicTx' = <<>> \/ Contains(work, "drain")
  PROVE  WorkShape'
<1>1. \A t : Contains(work', t) <=> Contains(work, t)
  OBVIOUS
<1>. QED  BY <1>1 DEF WorkShape

(* Every step keeps the shape of what the server's thread does in a row.        *)
LEMMA ShapeStep ==
  ASSUME TypeOK, WorkShape, Next
  PROVE  WorkShape'
<1>1. CASE server_run
  <2>1. PICK sig : sig = server_signals
    OBVIOUS
  <2>2. work' = (IF "irq" \in sig THEN <<"complete", "fill">> ELSE <<>>)
                \o (IF "tx" \in sig THEN <<"handle">> ELSE <<>>) \o <<"notify">>
    BY <1>1, <2>1 DEF server_run
  <2>3. /\ work' \in Seq(Tasks)
        /\ Len(work') = (IF "irq" \in sig THEN 2 ELSE 0) + (IF "tx" \in sig THEN 2 ELSE 1)
        /\ "irq" \in sig => work'[1] = "complete" /\ work'[2] = "fill"
        /\ "tx" \in sig => work'[(IF "irq" \in sig THEN 2 ELSE 0) + 1] = "handle"
        /\ work'[Len(work')] = "notify"
    BY <2>2, RunTasks, Zenon
  <2>4. Contains(work', "notify")
    BY <2>3 DEF Contains
  <2>5. ASSUME NEW i \in 1..Len(work')
        PROVE  /\ work'[i] = "complete" => i < Len(work') /\ work'[i + 1] = "fill"
               /\ work'[i] \in {"handle", "drain"} => i + 1 = Len(work')
               /\ work'[i] \in {"notify", "signal"} => i = Len(work')
    BY <2>3
  <2>. QED  BY <2>4, <2>5 DEF WorkShape
<1>2. CASE eth_rx_complete
  BY <1>2, SameShape DEF eth_rx_complete
<1>3. CASE eth_tx_complete
  <2>1. nicTx # <<>>
    BY <1>3 DEF eth_tx_complete, TypeOK
  <2>. QED  BY <1>3, <2>1, SameShape DEF eth_tx_complete
<1>4. CASE raw_completed \/ raw_filled \/ drained \/ raw_tx_refused \/ notify_client
  <2>1. work # <<>> /\ Done /\ nicTx' = nicTx
    BY <1>4 DEF raw_completed, raw_filled, drained, raw_tx_refused, notify_client, Doing, card
  <2>. QED  BY <2>1, DoneShape
<1>5. CASE eth_allocate_rx_buf
  <2>1. CASE rx_avail = <<>>
    BY <1>5, <2>1, DoneShape DEF eth_allocate_rx_buf, Doing
  <2>2. CASE rx_avail # <<>>
    BY <1>5, <2>2, SameShape DEF eth_allocate_rx_buf
  <2>. QED  BY <2>1, <2>2
<1>6. CASE virt_queue_handle_irq
  <2>1. /\ work \in Seq(Tasks) /\ Len(work) = 2 /\ work[1] = "handle"
        /\ work[2] \notin {"complete", "handle", "drain"} /\ work # <<>>
    <3>1. work \in Seq(Tasks) /\ work # <<>> /\ work[1] = "handle" /\ Len(work) \in Nat /\ Len(work) >= 1
      BY <1>6, SeqOldest DEF virt_queue_handle_irq, Doing, TypeOK
    <3>2. Len(work) = 2
      <4>1. 1 \in 1..Len(work)
        BY <3>1
      <4>2. 1 + 1 = Len(work)
        BY <3>1, <4>1 DEF WorkShape
      <4>. QED  BY <4>2
    <3>3. 2 \in 1..Len(work) /\ ~(2 < Len(work)) /\ 2 + 1 # Len(work)
      BY <3>2
    <3>. QED  BY <3>1, <3>2, <3>3 DEF WorkShape
  <2>2. CASE no_rx_bufs
    <3>1. PICK tasks \in Seq(Tasks) : /\ tasks = <<"complete", "fill", "drain">> /\ Len(tasks) = 3
                                      /\ tasks[1] = "complete" /\ tasks[2] = "fill"
                                      /\ tasks[3] = "drain"
      <4>1. LET t == <<"complete", "fill", "drain">>
            IN  /\ t \in Seq(Tasks) /\ Len(t) = 3
                /\ t[1] = "complete" /\ t[2] = "fill" /\ t[3] = "drain"
        BY DEF Tasks
      <4>. QED  BY <4>1, Zenon
    <3>2. Then(tasks)
      BY <1>6, <2>2, <3>1 DEF virt_queue_handle_irq
    <3>3. /\ Len(work') = Len(tasks) + Len(work) - 1
          /\ \A i \in 1..Len(tasks) : work'[i] = tasks[i]
          /\ \A i \in 2..Len(work) : work'[i - 1 + Len(tasks)] = work[i]
      BY <2>1, <3>2, WorkThen
    <3>4. Len(tasks) = 3 /\ tasks[1] = "complete" /\ tasks[2] = "fill" /\ tasks[3] = "drain"
      BY <3>1
    <3>5. /\ Len(work') = 4 /\ work'[1] = "complete" /\ work'[2] = "fill" /\ work'[3] = "drain"
          /\ work'[4] = work[2]
      BY <2>1, <3>4, <3>3
    <3>6. Contains(work', "drain")
      BY <3>5 DEF Contains
    <3>7. \A i \in 1..Len(work') : i \in {1, 2, 3, 4}
      BY <3>5
    <3>. QED  BY <2>1, <3>5, <3>6, <3>7 DEF WorkShape
  <2>3. CASE ~no_rx_bufs
    <3>1. PICK tasks \in Seq(Tasks) : /\ tasks = <<"drain">> /\ Len(tasks) = 1
                                      /\ tasks[1] = "drain"
      <4>1. <<"drain">> \in Seq(Tasks) /\ Len(<<"drain">>) = 1 /\ <<"drain">>[1] = "drain"
        BY DEF Tasks
      <4>. QED  BY <4>1, Zenon
    <3>2. Then(tasks)
      BY <1>6, <2>3, <3>1 DEF virt_queue_handle_irq
    <3>3. /\ Len(work') = Len(tasks) + Len(work) - 1
          /\ \A i \in 1..Len(tasks) : work'[i] = tasks[i]
          /\ \A i \in 2..Len(work) : work'[i - 1 + Len(tasks)] = work[i]
      BY <2>1, <3>2, WorkThen
    <3>4. Len(tasks) = 1 /\ tasks[1] = "drain"
      BY <3>1
    <3>5. Len(work') = 2 /\ work'[1] = "drain" /\ work'[2] = work[2]
      BY <2>1, <3>4, <3>3
    <3>6. Contains(work', "drain")
      BY <3>5 DEF Contains
    <3>7. \A i \in 1..Len(work') : i \in {1, 2}
      BY <3>5
    <3>. QED  BY <2>1, <3>5, <3>6, <3>7 DEF WorkShape
  <2>. QED  BY <2>2, <2>3
<1>7. CASE raw_tx_enqueued
  <2>1. Contains(work, "drain")
    BY <1>7, DoingHeld DEF raw_tx_enqueued
  <2>. QED  BY <1>7, <2>1, SameShape DEF raw_tx_enqueued
<1>8. CASE notify_client_blocked
  <2>1. work \in Seq(Tasks) /\ work # <<>> /\ work[1] = "notify" /\ Len(work) \in Nat /\ Len(work) >= 1
    BY <1>8, SeqOldest DEF notify_client_blocked, Doing, TypeOK
  <2>2. Len(work) = 1
    <3>1. 1 \in 1..Len(work)
      BY <2>1
    <3>. QED  BY <2>1, <3>1 DEF WorkShape
  <2>3. PICK tasks \in Seq(Tasks) : /\ tasks = <<"handle", "signal">> /\ Len(tasks) = 2
                                    /\ tasks[1] = "handle" /\ tasks[2] = "signal"
    <3>1. LET t == <<"handle", "signal">>
          IN  t \in Seq(Tasks) /\ Len(t) = 2 /\ t[1] = "handle" /\ t[2] = "signal"
      BY DEF Tasks
    <3>. QED  BY <3>1, Zenon
  <2>4. Then(tasks)
    BY <1>8, <2>3 DEF notify_client_blocked
  <2>5. /\ Len(work') = Len(tasks) + Len(work) - 1
        /\ \A i \in 1..Len(tasks) : work'[i] = tasks[i]
    BY <2>1, <2>4, WorkThen
  <2>6. Len(tasks) = 2 /\ tasks[1] = "handle" /\ tasks[2] = "signal"
    BY <2>3
  <2>7. Len(work') = 2 /\ work'[1] = "handle" /\ work'[2] = "signal"
    BY <2>2, <2>6, <2>5
  <2>8. \A i \in 1..Len(work') : i \in {1, 2}
    BY <2>7
  <2>9. ~Contains(work', "complete")
    BY <2>7, <2>8 DEF Contains
  <2>. QED  BY <2>7, <2>8, <2>9 DEF WorkShape
<1>9. CASE Others
  <2>1. work' = work /\ nicTx' = nicTx
    BY <1>9 DEF Others, client_init, client_run, pico_stack_tick, pico_eth_send, pico_eth_poll,
                pico_eth_poll_break, notify_server, tick, receive, send, card
  <2>. QED  BY <2>1, SameShape
<1>. QED
  BY <1>1, <1>2, <1>3, <1>4, <1>5, <1>6, <1>7, <1>8, <1>9
  DEF Next, Server, Others

-------------------------------------------------------------------------------
(* What is remembered.                                                          *)

(* The task that a step of the thread does is over, or others take its place:   *)
(* the others that were left to do still are.                                   *)
LEMMA HeldThen ==
  ASSUME TypeOK, NEW tasks \in Seq(Tasks), work # <<>>, Then(tasks)
  PROVE  /\ \A t : t # Head(work) /\ Contains(work, t) => Contains(work', t)
         /\ \A t : Contains(tasks, t) => Contains(work', t)
<1>1. /\ work \in Seq(Tasks) /\ Head(work) = work[1]
      /\ Len(work') = Len(tasks) + Len(work) - 1
      /\ Len(work) \in Nat \ {0} /\ Len(tasks) \in Nat
      /\ \A i \in 1..Len(tasks) : work'[i] = tasks[i]
      /\ \A i \in 2..Len(work) : work'[i - 1 + Len(tasks)] = work[i]
  BY WorkThen, SeqOldest DEF TypeOK
<1>2. ASSUME NEW t, t # Head(work), Contains(work, t) PROVE Contains(work', t)
  <2>1. PICK i \in 1..Len(work) : work[i] = t
    BY <1>2 DEF Contains
  <2>2. i \in 2..Len(work)
    BY <1>1, <1>2, <2>1
  <2>3. i - 1 + Len(tasks) \in 1..Len(work')
    BY <1>1, <2>2
  <2>. QED  BY <1>1, <2>1, <2>2, <2>3 DEF Contains
<1>3. ASSUME NEW t, Contains(tasks, t) PROVE Contains(work', t)
  <2>1. PICK i \in 1..Len(tasks) : tasks[i] = t
    BY <1>3 DEF Contains
  <2>2. i \in 1..Len(work')
    BY <1>1
  <2>. QED  BY <1>1, <2>1, <2>2 DEF Contains
<1>. QED  BY <1>2, <1>3

(* virt_queue_handle_irq is going to drain the queue of packets.                *)
LEMMA HandleTasks ==
  ASSUME TypeOK, virt_queue_handle_irq
  PROVE  /\ Contains(work', "drain")
         /\ \A t : t # "handle" /\ Contains(work, t) => Contains(work', t)
<1>0. work # <<>> /\ Head(work) = "handle"
  BY DEF virt_queue_handle_irq, Doing
<1>1. PICK tasks \in Seq(Tasks) : Then(tasks) /\ Contains(tasks, "drain")
  <2>1. CASE no_rx_bufs
    <3>1. LET t == <<"complete", "fill", "drain">>
          IN  t \in Seq(Tasks) /\ Len(t) = 3 /\ t[3] = "drain"
      BY DEF Tasks
    <3>2. Contains(<<"complete", "fill", "drain">>, "drain")
      BY <3>1, 3 \in 1..3 DEF Contains
    <3>. QED  BY <2>1, <3>1, <3>2, Zenon DEF virt_queue_handle_irq
  <2>2. CASE ~no_rx_bufs
    <3>1. "drain" \in Tasks
      BY DEF Tasks
    <3>2. <<"drain">> \in Seq(Tasks) /\ Contains(<<"drain">>, "drain")
      BY <3>1, HoldsOne
    <3>. QED  BY <2>2, <3>2, Zenon DEF virt_queue_handle_irq
  <2>. QED  BY <2>1, <2>2
<1>. QED  BY <1>0, <1>1, HeldThen

(* notify_client_blocked is going to handle the queue of packets.               *)
LEMMA BlockedTasks ==
  ASSUME TypeOK, notify_client_blocked
  PROVE  /\ Contains(work', "handle")
         /\ \A t : t # "notify" /\ Contains(work, t) => Contains(work', t)
<1>0. work # <<>> /\ Head(work) = "notify" /\ Then(<<"handle", "signal">>)
  BY DEF notify_client_blocked, Doing
<1>1. LET t == <<"handle", "signal">>
      IN  t \in Seq(Tasks) /\ Len(t) = 2 /\ t[1] = "handle"
  BY DEF Tasks
<1>2. Contains(<<"handle", "signal">>, "handle")
  BY <1>1, 1 \in 1..2 DEF Contains
<1>. QED  BY <1>0, <1>1, <1>2, HeldThen

(* What is left to do when a task is over.                                      *)
LEMMA DoneTasks ==
  ASSUME TypeOK, work # <<>>, Done
  PROVE  \A t : t # Head(work) /\ Contains(work, t) => Contains(work', t)
BY WorkDone DEF TypeOK

(* Every step keeps room in the card's ring noted.                              *)
LEMMA RefillStep ==
  ASSUME TypeOK, Whole, WorkShape, RefillKept, Next
  PROVE  RefillKept'
<1>1. CASE server_run
  <2>1. work = <<>> /\ ~Contains(work, "fill")
    BY <1>1 DEF server_run, Contains
  <2>. QED  BY <1>1, <2>1 DEF server_run, RefillKept, card, flags
<1>2. CASE eth_rx_complete
  <2>1. Contains(work, "fill")
    <3>1. work[1] = "complete" /\ 1 \in 1..Len(work)
      BY <1>2, DoingHeld DEF eth_rx_complete, Contains
    <3>2. work[2] = "fill" /\ 2 \in 1..Len(work)
      BY <3>1 DEF WorkShape
    <3>. QED  BY <3>2 DEF Contains
  <2>. QED  BY <1>2, <2>1 DEF eth_rx_complete, RefillKept
<1>3. CASE eth_tx_complete \/ raw_tx_enqueued
  BY <1>3 DEF eth_tx_complete, raw_tx_enqueued, RefillKept
<1>4. CASE raw_completed \/ drained \/ raw_tx_refused \/ notify_client
  <2>1. /\ work # <<>> /\ Head(work) # "fill" /\ Done
        /\ nicRx' = nicRx /\ no_rx_bufs' = no_rx_bufs
    BY <1>4 DEF raw_completed, drained, raw_tx_refused, notify_client, Doing, card, flags
  <2>. QED  BY <2>1, DoneTasks DEF RefillKept
<1>5. CASE eth_allocate_rx_buf
  <2>1. CASE rx_avail = <<>>
    BY <1>5, <2>1 DEF eth_allocate_rx_buf, RefillKept
  <2>2. CASE rx_avail # <<>>
    <3>1. Contains(work, "fill") /\ work' = work
      BY <1>5, <2>2, DoingHeld DEF eth_allocate_rx_buf
    <3>. QED  BY <3>1 DEF RefillKept
  <2>. QED  BY <2>1, <2>2
<1>6. CASE raw_filled
  BY <1>6 DEF raw_filled, RefillKept, card, TypeOK
<1>7. CASE virt_queue_handle_irq
  BY <1>7, HandleTasks DEF virt_queue_handle_irq, RefillKept, card, flags
<1>8. CASE notify_client_blocked
  BY <1>8, BlockedTasks DEF notify_client_blocked, RefillKept, card, flags
<1>9. CASE Others
  <2>1. work' = work /\ nicRx' = nicRx /\ no_rx_bufs' = no_rx_bufs
    BY <1>9 DEF Others, client_init, client_run, pico_stack_tick, pico_eth_send, pico_eth_poll,
                pico_eth_poll_break, notify_server, tick, receive, send, card, flags
  <2>. QED  BY <2>1 DEF RefillKept
<1>. QED
  BY <1>1, <1>2, <1>3, <1>4, <1>5, <1>6, <1>7, <1>8, <1>9
  DEF Next, Server, Others

(* Every step keeps a queued packet announced, or noted as blocked.             *)
LEMMA TxKeptStep ==
  ASSUME TypeOK, WorkShape, TxKept, Next
  PROVE  TxKept'
<1>. USE AsyncNats
<1>1. CASE server_run
  <2>1. work = <<>> /\ \A t : ~Contains(work, t)
    BY <1>1 DEF server_run, Contains
  <2>2. "tx" \in server_signals => Contains(work', "handle")
    <3>1. PICK sig : sig = server_signals
      OBVIOUS
    <3>2. work' = (IF "irq" \in sig THEN <<"complete", "fill">> ELSE <<>>)
                  \o (IF "tx" \in sig THEN <<"handle">> ELSE <<>>) \o <<"notify">>
      BY <1>1, <3>1 DEF server_run
    <3>3. /\ work' \in Seq(Tasks)
          /\ Len(work') = (IF "irq" \in sig THEN 2 ELSE 0) + (IF "tx" \in sig THEN 2 ELSE 1)
          /\ "tx" \in sig => work'[(IF "irq" \in sig THEN 2 ELSE 0) + 1] = "handle"
      BY <3>2, RunTasks, Zenon
    <3>4. "tx" \in sig => Contains(work', "handle")
      BY <3>3 DEF Contains
    <3>. QED  BY <3>1, <3>4
  <2>. QED  BY <1>1, <2>1, <2>2 DEF server_run, TxKept, rings, flags, card, stack
<1>2. CASE eth_rx_complete
  BY <1>2 DEF eth_rx_complete, TxKept, stack, signals
<1>3. CASE eth_tx_complete
  <2>1. Contains(work, "drain") \/ Contains(work, "notify")
    <3>1. Contains(work, "complete") \/ Contains(work, "drain")
      BY <1>3, DoingHeld DEF eth_tx_complete
    <3>2. nicTx # <<>>
      BY <1>3 DEF eth_tx_complete, TypeOK
    <3>. QED  BY <3>1, <3>2 DEF WorkShape
  <2>. QED  BY <1>3, <2>1 DEF eth_tx_complete, TxKept, stack, signals
<1>4. CASE raw_completed \/ raw_filled
  <2>1. /\ work # <<>> /\ Head(work) \notin {"handle", "drain", "notify"} /\ Done
        /\ UNCHANGED <<tx_avail, server_signals, client_action, blocked_tx, nicTx, server_action>>
    BY <1>4 DEF raw_completed, raw_filled, Doing, rings, flags, card, stack, signals
  <2>. QED  BY <2>1, DoneTasks DEF TxKept
<1>5. CASE eth_allocate_rx_buf
  <2>1. UNCHANGED <<tx_avail, server_signals, client_action, blocked_tx, nicTx, server_action>>
    BY <1>5 DEF eth_allocate_rx_buf, stack, signals
  <2>2. CASE rx_avail = <<>>
    <3>1. work # <<>> /\ Head(work) \notin {"handle", "drain", "notify"} /\ Done
      BY <1>5, <2>2 DEF eth_allocate_rx_buf, Doing
    <3>. QED  BY <2>1, <3>1, DoneTasks DEF TxKept
  <2>3. CASE rx_avail # <<>>
    BY <1>5, <2>1, <2>3 DEF eth_allocate_rx_buf, TxKept
  <2>. QED  BY <2>2, <2>3
<1>6. CASE virt_queue_handle_irq
  BY <1>6, HandleTasks DEF TxKept
<1>7. CASE drained
  BY <1>7 DEF drained, TxKept, rings
<1>8. CASE raw_tx_enqueued
  <2>1. Contains(work, "drain") /\ work' = work
    BY <1>8, DoingHeld DEF raw_tx_enqueued
  <2>. QED  BY <2>1 DEF TxKept
<1>9. CASE raw_tx_refused
  <2>1. nicTx' # <<>> /\ blocked_tx'
    BY <1>9 DEF raw_tx_refused, card, TypeOK
  <2>. QED  BY <2>1 DEF TxKept
<1>10. CASE notify_client_blocked
  BY <1>10, BlockedTasks DEF TxKept
<1>11. CASE notify_client
  <2>1. /\ work # <<>> /\ Head(work) \in {"notify", "signal"} /\ Done
        /\ UNCHANGED <<tx_avail, server_signals, client_action, blocked_tx, nicTx>>
    BY <1>11 DEF notify_client, Doing, rings, stack, card
  <2>2. \A t \in {"handle", "drain"} : Contains(work, t) => Contains(work', t)
    BY <2>1, DoneTasks
  <2>3. ~(blocked_tx /\ server_action /\ Contains(work, "notify"))
    <3>1. CASE Doing("notify")
      BY <1>11, <3>1 DEF notify_client, Doing
    <3>2. CASE Doing("signal")
      <4>1. work[1] = "signal" /\ work # <<>> /\ Len(work) \in Nat /\ 1 \in 1..Len(work)
        BY <3>2, DoingHeld DEF Contains
      <4>2. Len(work) = 1
        BY <4>1 DEF WorkShape
      <4>. QED  BY <4>1, <4>2 DEF Contains
    <3>. QED  BY <1>11, <3>1, <3>2 DEF notify_client
  <2>. QED  BY <2>1, <2>2, <2>3 DEF TxKept
<1>12. CASE notify_server
  BY <1>12 DEF notify_server, TxKept, rings, flags, card
<1>13. ASSUME NEW p \in Packets, pico_eth_send(p) PROVE TxKept'
  BY <1>13 DEF pico_eth_send, Send, TxKept
<1>14. CASE client_init
  BY <1>14 DEF client_init, TxKept, flags, card
<1>15. CASE client_run \/ pico_stack_tick \/ pico_eth_poll \/ pico_eth_poll_break \/ tick
  BY <1>15 DEF client_run, pico_stack_tick, pico_eth_poll, pico_eth_poll_break, tick,
               TxKept, rings, flags, card, stack, signals
<1>16. ASSUME send \/ \E f \in Frames : receive(f) PROVE TxKept'
  BY <1>16 DEF send, receive, Interrupt, TxKept, rings, flags, stack
<1>. QED
  BY <1>1, <1>2, <1>3, <1>4, <1>5, <1>6, <1>7, <1>8, <1>9, <1>10, <1>11, <1>12, <1>13,
     <1>14, <1>15, <1>16
  DEF Next, Server

-------------------------------------------------------------------------------
(* Where the buffers are.                                                       *)

(* The oldest buffer of a queue goes to the end of another.                     *)
LEMMA HoldsMove ==
  ASSUME NEW S, NEW q \in Seq(S), NEW p \in Seq(S), q # <<>>,
         IsInjective(q), IsInjective(p), Apart(q, p)
  PROVE  /\ Tail(q) \in Seq(S) /\ Len(Tail(q)) = Len(q) - 1
         /\ Append(p, Head(q)) \in Seq(S) /\ Len(Append(p, Head(q))) = Len(p) + 1
         /\ IsInjective(Tail(q)) /\ IsInjective(Append(p, Head(q)))
         /\ Apart(Tail(q), Append(p, Head(q)))
         /\ \A x : Contains(Tail(q), x) => Contains(q, x)
         /\ \A x : Contains(Tail(q), x) \/ Contains(Append(p, Head(q)), x)
                   <=> Contains(q, x) \/ Contains(p, x)
<1>1. /\ Head(q) \in S /\ Contains(q, Head(q))
      /\ Tail(q) \in Seq(S) /\ Len(Tail(q)) = Len(q) - 1 /\ IsInjective(Tail(q))
      /\ \A x : Contains(Tail(q), x) <=> Contains(q, x) /\ x # Head(q)
  BY HoldsTail
<1>2. ~Contains(p, Head(q))
  BY <1>1 DEF Apart
<1>3. PICK b \in S : b = Head(q)
  BY <1>1
<1>4. /\ Append(p, b) \in Seq(S) /\ Len(Append(p, b)) = Len(p) + 1
      /\ \A x : Contains(Append(p, b), x) <=> Contains(p, x) \/ x = b
      /\ IsInjective(p) /\ ~Contains(p, b) => IsInjective(Append(p, b))
  BY HoldsAppend
<1>5. /\ Append(p, Head(q)) \in Seq(S) /\ Len(Append(p, Head(q))) = Len(p) + 1
      /\ IsInjective(Append(p, Head(q)))
      /\ \A x : Contains(Append(p, Head(q)), x) <=> Contains(p, x) \/ x = Head(q)
  BY <1>2, <1>3, <1>4, Zenon
<1>. QED  BY <1>1, <1>5, Zenon DEF Apart

(* Two queues that have exchanged buffers are as far from a third as before.    *)
LEMMA ApartMoved ==
  ASSUME NEW q, NEW p, NEW r, NEW q1, NEW p1, Apart(q, r), Apart(p, r),
         \A x : Contains(q1, x) \/ Contains(p1, x) <=> Contains(q, x) \/ Contains(p, x)
  PROVE  Apart(q1, r) /\ Apart(p1, r)
BY Zenon DEF Apart

(* That two queues have nothing in common goes both ways.                       *)
LEMMA ApartSym ==
  ASSUME NEW q, NEW p, Apart(q, p)
  PROVE  Apart(p, q)
BY Zenon DEF Apart

(* What keeps the receive buffers in their places: no two queues come to hold   *)
(* the same, and the same are held as before.                                   *)
LEMMA RxPlacesKept ==
  ASSUME RxPlaces,
         client' = client \/ (client # "init" /\ client' # "init"),
         Offered' = Offered,
         IsInjective(rx_avail') /\ IsInjective(nicRx') /\ IsInjective(rx_used'),
         Apart(rx_avail', nicRx') /\ Apart(rx_avail', rx_used') /\ Apart(nicRx', rx_used'),
         \A b : Contains(rx_avail', b) \/ Contains(nicRx', b) \/ Contains(rx_used', b)
                <=> Contains(rx_avail, b) \/ Contains(nicRx, b) \/ Contains(rx_used, b)
  PROVE  RxPlaces'
<1>1. CASE client' = "init"
  <2>1. client = "init"
    BY <1>1
  <2>. QED  BY <1>1, <2>1 DEF RxPlaces, RxHeld
<1>2. CASE client' # "init"
  <2>1. client # "init"
    BY <1>2
  <2>. QED  BY <1>2, <2>1 DEF RxPlaces, RxHeld
<1>. QED  BY <1>1, <1>2

(* Every step keeps the receive buffers in their places.                        *)
LEMMA RxPlacesStep ==
  ASSUME TypeOK, Whole, RxPlaces, Next
  PROVE  RxPlaces'
<1>. USE AsyncNats
<1>0. /\ rx_avail \in Seq(RxBufs) /\ nicRx \in Seq(RxBufs) /\ rx_used \in Seq(RxBufs)
      /\ Len(rx_avail) \in Nat /\ Len(nicRx) \in Nat /\ Len(rx_used) \in Nat
      /\ Offered \in Nat
      /\ IsInjective(rx_avail) /\ IsInjective(nicRx) /\ IsInjective(rx_used)
      /\ Apart(rx_avail, nicRx) /\ Apart(rx_avail, rx_used) /\ Apart(nicRx, rx_used)
  BY DEF TypeOK, RxPlaces, Offered
<1>1. ASSUME UNCHANGED <<rx_avail, nicRx, rx_used>>,
             client' = client \/ (client # "init" /\ client' # "init")
      PROVE  RxPlaces'
  BY <1>1, RxPlacesKept, <1>0 DEF Offered
<1>2. CASE eth_rx_complete
  <2>1. arrived # <<>>
    BY <1>2 DEF eth_rx_complete
  <2>2. PICK n \in 0..Len(nicRx) : n = num_bufs
    BY <2>1, Cookies
  <2>3. PICK p \in Seq(RxBufs), r \in Seq(RxBufs) :
          /\ p = cookies /\ r = nicRx'
          /\ Len(p) = n /\ IsInjective(p) /\ Len(r) = Len(nicRx) - n /\ IsInjective(r)
          /\ \A x : Contains(nicRx, x) <=> Contains(p, x) \/ Contains(r, x)
          /\ \A x : ~(Contains(p, x) /\ Contains(r, x))
    <3>1. cookies = SubSeq(nicRx, 1, n) /\ nicRx' = SubSeq(nicRx, n + 1, Len(nicRx))
      BY <1>2, <2>2, Zenon DEF eth_rx_complete, Released, cookies
    <3>2. /\ SubSeq(nicRx, 1, n) \in Seq(RxBufs) /\ Len(SubSeq(nicRx, 1, n)) = n
          /\ IsInjective(SubSeq(nicRx, 1, n))
          /\ SubSeq(nicRx, n + 1, Len(nicRx)) \in Seq(RxBufs)
          /\ Len(SubSeq(nicRx, n + 1, Len(nicRx))) = Len(nicRx) - n
          /\ IsInjective(SubSeq(nicRx, n + 1, Len(nicRx)))
          /\ \A x : Contains(nicRx, x) <=> \/ Contains(SubSeq(nicRx, 1, n), x)
                                           \/ Contains(SubSeq(nicRx, n + 1, Len(nicRx)), x)
          /\ \A x : ~(/\ Contains(SubSeq(nicRx, 1, n), x)
                      /\ Contains(SubSeq(nicRx, n + 1, Len(nicRx)), x))
      BY <1>0, HoldsRest, Zenon
    <3>. QED  BY <3>1, <3>2, Zenon
  <2>4. rx_used' = rx_used \o p /\ rx_avail' = rx_avail /\ client' = client
    BY <1>2, <2>3, Zenon DEF eth_rx_complete, stack
  <2>5. \A x : ~(Contains(rx_used, x) /\ Contains(p, x))
    BY <1>0, <2>3, Zenon DEF Apart
  <2>6. /\ Len(rx_used') = Len(rx_used) + Len(p)
        /\ \A x : Contains(rx_used', x) <=> Contains(rx_used, x) \/ Contains(p, x)
        /\ IsInjective(rx_used')
    BY <1>0, <2>3, <2>4, <2>5, HoldsConcat, ZenonT(40)
  <2>7. Len(nicRx') = Len(nicRx) - n /\ Len(rx_used') = Len(rx_used) + n
    BY <2>3, <2>6, Zenon
  <2>8. Offered' = Offered
    BY <1>0, <2>4, <2>7 DEF Offered
  <2>9. /\ IsInjective(nicRx')
        /\ \A x : Contains(nicRx, x) <=> Contains(p, x) \/ Contains(nicRx', x)
        /\ \A x : ~(Contains(p, x) /\ Contains(nicRx', x))
    BY <2>3, Zenon
  <2>10. Apart(rx_avail', nicRx') /\ Apart(rx_avail', rx_used') /\ Apart(nicRx', rx_used')
    <3>1. Apart(rx_avail, nicRx')
      BY <1>0, <2>9, Zenon DEF Apart
    <3>2. Apart(rx_avail, rx_used')
      BY <1>0, <2>6, <2>9, Zenon DEF Apart
    <3>3. Apart(nicRx', rx_used')
      BY <1>0, <2>6, <2>9, Zenon DEF Apart
    <3>. QED  BY <2>4, <3>1, <3>2, <3>3
  <2>11. \A b : Contains(rx_avail', b) \/ Contains(nicRx', b) \/ Contains(rx_used', b)
               <=> Contains(rx_avail, b) \/ Contains(nicRx, b) \/ Contains(rx_used, b)
    BY <2>4, <2>6, <2>9, Zenon
  <2>. QED  BY <1>0, <2>4, <2>6, <2>8, <2>9, <2>10, <2>11, RxPlacesKept, Zenon
<1>3. CASE eth_allocate_rx_buf
  <2>1. CASE rx_avail = <<>>
    BY <1>1, <1>3, <2>1 DEF eth_allocate_rx_buf, stack
  <2>2. CASE rx_avail # <<>>
    <3>1. /\ nicRx' = Append(nicRx, Head(rx_avail)) /\ rx_avail' = Tail(rx_avail)
          /\ rx_used' = rx_used /\ client' = client
      BY <1>3, <2>2 DEF eth_allocate_rx_buf, stack
    <3>2. /\ Len(rx_avail') = Len(rx_avail) - 1 /\ Len(nicRx') = Len(nicRx) + 1
          /\ IsInjective(rx_avail') /\ IsInjective(nicRx') /\ Apart(rx_avail', nicRx')
          /\ \A x : Contains(rx_avail', x) \/ Contains(nicRx', x)
                    <=> Contains(rx_avail, x) \/ Contains(nicRx, x)
      BY <1>0, <2>2, <3>1, HoldsMove, Zenon
    <3>3. Apart(rx_avail', rx_used) /\ Apart(nicRx', rx_used)
      BY <1>0, <3>2, ApartMoved, ZenonT(40)
    <3>4. Offered' = Offered
      <4>1. /\ Len(rx_avail') = Len(rx_avail) - 1 /\ Len(nicRx') = Len(nicRx) + 1
            /\ Len(rx_used') = Len(rx_used)
        BY <3>1, <3>2, Zenon
      <4>. QED  BY <1>0, <4>1 DEF Offered
    <3>5. \A b : Contains(rx_avail', b) \/ Contains(nicRx', b) \/ Contains(rx_used', b)
                 <=> Contains(rx_avail, b) \/ Contains(nicRx, b) \/ Contains(rx_used, b)
      BY <3>1, <3>2, Zenon
    <3>. QED  BY <1>0, <3>1, <3>2, <3>3, <3>4, <3>5, RxPlacesKept
  <2>. QED  BY <2>1, <2>2
<1>4. CASE pico_eth_poll
  <2>1. /\ rx_used # <<>> /\ rx_used' = Tail(rx_used) /\ rx_avail' = Append(rx_avail, Head(rx_used))
        /\ nicRx' = nicRx /\ client' = client
    BY <1>4 DEF pico_eth_poll, card
  <2>2. Apart(rx_used, rx_avail) /\ Apart(rx_used, nicRx)
    BY <1>0, ApartSym
  <2>3. /\ Len(rx_used') = Len(rx_used) - 1 /\ Len(rx_avail') = Len(rx_avail) + 1
        /\ IsInjective(rx_used') /\ IsInjective(rx_avail') /\ Apart(rx_used', rx_avail')
        /\ \A x : Contains(rx_used', x) \/ Contains(rx_avail', x)
                  <=> Contains(rx_used, x) \/ Contains(rx_avail, x)
    BY <1>0, <2>1, <2>2, HoldsMove, Zenon
  <2>4. Apart(rx_used', nicRx) /\ Apart(rx_avail', nicRx)
    BY <1>0, <2>2, <2>3, ApartMoved, Zenon
  <2>5. Apart(rx_avail', rx_used') /\ Apart(nicRx, rx_used')
    BY <2>3, <2>4, ApartSym
  <2>6. Offered' = Offered
    BY <1>0, <2>1, <2>3 DEF Offered
  <2>7. \A b : Contains(rx_avail', b) \/ Contains(nicRx', b) \/ Contains(rx_used', b)
               <=> Contains(rx_avail, b) \/ Contains(nicRx, b) \/ Contains(rx_used, b)
    BY <2>1, <2>3, Zenon
  <2>. QED  BY <1>0, <2>1, <2>3, <2>4, <2>5, <2>6, <2>7, RxPlacesKept
<1>5. CASE client_init
  <2>1. client = "init" /\ nicRx' = nicRx /\ rx_used' = rx_used
    BY <1>5 DEF client_init, card
  <2>2. CASE Offered < NUM_RX_BUFS
    <3>1. PICK b \in RxBufs : b = Offered + 1
      BY <1>0, <2>2 DEF RxBufs
    <3>2. rx_avail' = Append(rx_avail, b) /\ client' = "init"
      BY <1>5, <2>1, <2>2, <3>1 DEF client_init
    <3>3. ~RxHeld(b)
      BY <1>0, <2>1, <3>1 DEF RxPlaces
    <3>4. /\ Len(rx_avail') = Len(rx_avail) + 1 /\ IsInjective(rx_avail')
          /\ \A x : Contains(rx_avail', x) <=> Contains(rx_avail, x) \/ x = b
      BY <1>0, <3>2, <3>3, HoldsAppend, Zenon DEF RxHeld
    <3>5. Apart(rx_avail', nicRx) /\ Apart(rx_avail', rx_used)
      BY <1>0, <3>3, <3>4, Zenon DEF Apart, RxHeld
    <3>6. Offered' = Offered + 1
      BY <1>0, <2>1, <3>4 DEF Offered
    <3>7. \A x \in RxBufs : RxHeld(x)' <=> x <= Offered'
      <4>. SUFFICES ASSUME NEW x \in RxBufs PROVE RxHeld(x)' <=> x <= Offered'
        OBVIOUS
      <4>1. RxHeld(x)' <=> RxHeld(x) \/ x = b
        BY <2>1, <3>4, Zenon DEF RxHeld
      <4>2. RxHeld(x) <=> x <= Offered
        BY <2>1 DEF RxPlaces
      <4>3. x <= Offered + 1 <=> x <= Offered \/ x = Offered + 1
        BY <1>0 DEF RxBufs
      <4>. QED  BY <3>1, <3>6, <4>1, <4>2, <4>3
    <3>8. Offered' <= NUM_RX_BUFS
      BY <1>0, <2>2, <3>6
    <3>. QED  BY <1>0, <2>1, <3>2, <3>4, <3>5, <3>7, <3>8, Zenon DEF RxPlaces
  <2>3. CASE ~(Offered < NUM_RX_BUFS)
    <3>1. rx_avail' = rx_avail /\ client' = "wait"
      BY <1>5, <2>3 DEF client_init
    <3>2. \A b \in RxBufs : RxHeld(b)
      BY <1>0, <2>1, <2>3 DEF RxPlaces, RxBufs
    <3>3. \A b \in RxBufs : RxHeld(b)'
      BY <2>1, <3>1, <3>2 DEF RxHeld
    <3>. QED  BY <1>0, <2>1, <3>1, <3>3 DEF RxPlaces
  <2>. QED  BY <2>2, <2>3
<1>6. CASE Server /\ ~eth_rx_complete /\ ~eth_allocate_rx_buf
  BY <1>1, <1>6 DEF Server, server_run, eth_tx_complete, raw_completed, raw_filled,
     virt_queue_handle_irq, drained, raw_tx_enqueued, raw_tx_refused,
     notify_client_blocked, notify_client, rings, stack, card
<1>7. CASE Others /\ ~client_init /\ ~pico_eth_poll
  BY <1>1, <1>7 DEF Others, client_run, pico_stack_tick, pico_eth_send,
     pico_eth_poll_break, notify_server, tick, receive, send, rings, stack, card
<1>. QED
  BY <1>2, <1>3, <1>4, <1>5, <1>6, <1>7 DEF Next, Others

(* Every step keeps the transmit buffers in their places.                       *)
LEMMA TxPlacesStep ==
  ASSUME TypeOK, TxPlaces, Next
  PROVE  TxPlaces'
<1>. USE AsyncNats
<1>0. /\ tx_avail \in Seq(TxBufs) /\ nicTx \in Seq(TxBufs) /\ tx_used \in Seq(TxBufs)
      /\ IsInjective(tx_avail) /\ IsInjective(nicTx) /\ IsInjective(tx_used)
      /\ Apart(tx_avail, nicTx) /\ Apart(tx_avail, tx_used) /\ Apart(nicTx, tx_used)
      /\ Apart(nicTx, tx_avail) /\ Apart(tx_used, tx_avail) /\ Apart(tx_used, nicTx)
      /\ \A b \in TxBufs : TxHeld(b) <=> b > num_tx
  BY ApartSym DEF TypeOK, TxPlaces
<1>1. ASSUME UNCHANGED <<tx_avail, nicTx, tx_used, num_tx>>
      PROVE  TxPlaces'
  BY <1>1, <1>0 DEF TxPlaces, TxHeld
<1>2. CASE eth_tx_complete
  <2>1. /\ nicTx # <<>> /\ nicTx' = Tail(nicTx) /\ tx_used' = Append(tx_used, Head(nicTx))
        /\ tx_avail' = tx_avail /\ num_tx' = num_tx
    BY <1>2 DEF eth_tx_complete, stack, TypeOK
  <2>2. /\ IsInjective(nicTx') /\ IsInjective(tx_used') /\ Apart(nicTx', tx_used')
        /\ \A x : Contains(nicTx', x) \/ Contains(tx_used', x)
                  <=> Contains(nicTx, x) \/ Contains(tx_used, x)
    BY <1>0, <2>1, HoldsMove, Zenon
  <2>3. Apart(nicTx', tx_avail) /\ Apart(tx_used', tx_avail)
    BY <1>0, <2>2, ApartMoved, Zenon
  <2>4. Apart(tx_avail', nicTx') /\ Apart(tx_avail', tx_used')
    BY <2>1, <2>3, ApartSym
  <2>5. \A b : TxHeld(b)' <=> TxHeld(b)
    BY <2>1, <2>2, Zenon DEF TxHeld
  <2>. QED  BY <1>0, <2>1, <2>2, <2>4, <2>5 DEF TxPlaces
<1>3. CASE raw_tx_enqueued
  <2>1. /\ tx_avail # <<>> /\ tx_avail' = Tail(tx_avail) /\ nicTx' = Append(nicTx, Head(tx_avail))
        /\ tx_used' = tx_used /\ num_tx' = num_tx
    BY <1>3 DEF raw_tx_enqueued, stack
  <2>2. /\ IsInjective(tx_avail') /\ IsInjective(nicTx') /\ Apart(tx_avail', nicTx')
        /\ \A x : Contains(tx_avail', x) \/ Contains(nicTx', x)
                  <=> Contains(tx_avail, x) \/ Contains(nicTx, x)
    BY <1>0, <2>1, HoldsMove, Zenon
  <2>3. Apart(tx_avail', tx_used) /\ Apart(nicTx', tx_used)
    BY <1>0, <2>2, ApartMoved, Zenon
  <2>4. \A b : TxHeld(b)' <=> TxHeld(b)
    BY <2>1, <2>2, Zenon DEF TxHeld
  <2>. QED  BY <1>0, <2>1, <2>2, <2>3, <2>4 DEF TxPlaces
<1>4. ASSUME NEW p \in Packets, pico_eth_send(p) PROVE TxPlaces'
  <2>1. nicTx' = nicTx
    BY <1>4 DEF pico_eth_send, card
  <2>2. CASE tx_used # <<>>
    <3>1. /\ tx_used' = Tail(tx_used) /\ tx_avail' = Append(tx_avail, Head(tx_used))
          /\ num_tx' = num_tx
      BY <1>4, <2>2 DEF pico_eth_send, Send
    <3>2. /\ IsInjective(tx_used') /\ IsInjective(tx_avail') /\ Apart(tx_used', tx_avail')
          /\ \A x : Contains(tx_used', x) \/ Contains(tx_avail', x)
                    <=> Contains(tx_used, x) \/ Contains(tx_avail, x)
      BY <1>0, <2>2, <3>1, HoldsMove, Zenon
    <3>3. Apart(tx_used', nicTx) /\ Apart(tx_avail', nicTx)
      BY <1>0, <3>2, ApartMoved, Zenon
    <3>4. Apart(tx_avail', tx_used') /\ Apart(nicTx, tx_used')
      BY <3>2, <3>3, ApartSym
    <3>5. \A b : TxHeld(b)' <=> TxHeld(b)
      BY <2>1, <3>2, Zenon DEF TxHeld
    <3>. QED  BY <1>0, <2>1, <3>1, <3>2, <3>3, <3>4, <3>5 DEF TxPlaces
  <2>3. CASE tx_used = <<>>
    <3>1. PICK b \in TxBufs : b = num_tx
      BY <1>4, <2>3 DEF pico_eth_send, TypeOK, TxBufs
    <3>2. /\ tx_avail' = Append(tx_avail, b) /\ tx_used' = tx_used /\ num_tx' = b - 1
      BY <1>4, <2>3, <3>1 DEF pico_eth_send, Send
    <3>3. ~TxHeld(b)
      BY <1>0, <3>1 DEF TxBufs
    <3>4. /\ IsInjective(tx_avail')
          /\ \A x : Contains(tx_avail', x) <=> Contains(tx_avail, x) \/ x = b
      BY <1>0, <3>2, <3>3, HoldsAppend, Zenon DEF TxHeld
    <3>5. Apart(tx_avail', nicTx) /\ Apart(tx_avail', tx_used)
      BY <1>0, <3>3, <3>4, Zenon DEF Apart, TxHeld
    <3>6. \A x \in TxBufs : TxHeld(x)' <=> x > num_tx'
      <4>. SUFFICES ASSUME NEW x \in TxBufs PROVE TxHeld(x)' <=> x > num_tx'
        OBVIOUS
      <4>1. TxHeld(x)' <=> TxHeld(x) \/ x = b
        BY <2>1, <3>2, <3>4, Zenon DEF TxHeld
      <4>2. TxHeld(x) <=> x > b
        BY <1>0, <3>1
      <4>3. x > b - 1 <=> x > b \/ x = b
        BY DEF TxBufs
      <4>. QED  BY <3>2, <4>1, <4>2, <4>3
    <3>. QED  BY <1>0, <2>1, <3>2, <3>4, <3>5, <3>6, Zenon DEF TxPlaces
  <2>. QED  BY <2>2, <2>3
<1>5. CASE Server /\ ~eth_tx_complete /\ ~raw_tx_enqueued
  BY <1>1, <1>5 DEF Server, server_run, eth_rx_complete, raw_completed, eth_allocate_rx_buf,
     raw_filled, virt_queue_handle_irq, drained, raw_tx_refused,
     notify_client_blocked, notify_client, rings, stack, card
<1>6. CASE Others /\ ~\E p \in Packets : pico_eth_send(p)
  BY <1>1, <1>6 DEF Others, client_init, client_run, pico_stack_tick, pico_eth_poll,
     pico_eth_poll_break, notify_server, tick, receive, send, rings, stack, card
<1>. QED
  BY <1>2, <1>3, <1>4, <1>5, <1>6 DEF Next, Others

-------------------------------------------------------------------------------
(* The invariant holds, and what follows from it.                               *)

(* An empty queue holds nothing.                                                *)
LEMMA EmptyQueue ==
  /\ \A x : ~Contains(<<>>, x)
  /\ IsInjective(<<>>) /\ Len(<<>>) = 0
BY DEF Contains, IsInjective

(* The invariant holds at the start.                                            *)
LEMMA InitIInv == Init => IInv
<1>. SUFFICES ASSUME Init PROVE IInv
  OBVIOUS
<1>. USE AsyncNats
<1>1. TypeOK
  <2>1. <<"complete", "fill">> \in Seq(Tasks)
    BY DEF Tasks
  <2>2. \A S : <<>> \in Seq(S) /\ Len(<<>>) = 0
    OBVIOUS
  <2>3. /\ rx_avail \in Seq(RxBufs) /\ rx_used \in Seq(RxBufs) /\ nicRx \in Seq(RxBufs)
        /\ tx_avail \in Seq(TxBufs) /\ tx_used \in Seq(TxBufs) /\ nicTx \in Seq(TxBufs)
        /\ arrived \in Seq([frame : Frames, last : BOOLEAN]) /\ work \in Seq(Tasks)
        /\ Len(nicRx) = 0 /\ Len(nicTx) = 0 /\ Len(arrived) = 0
    BY <2>1, <2>2 DEF Init
  <2>4. rxData \in [RxBufs -> Frames \cup {None}] /\ txData \in [TxBufs -> Packets \cup {None}]
    BY DEF Init
  <2>5. Len(arrived) <= Len(nicRx) /\ Len(nicRx) <= RxRing /\ sent \in 0..Len(nicTx) /\ Len(nicTx) <= TxRing
    <3>1. Len(nicRx) = 0 /\ Len(nicTx) = 0 /\ Len(arrived) = 0 /\ sent = 0
      BY <2>3 DEF Init
    <3>. QED  BY <3>1
  <2>6. num_tx \in 0..NUM_TX_BUFS /\ ticks \in 0..1 /\ loop_score \in 0..LoopScore
    BY DEF Init
  <2>7. /\ server_action \in BOOLEAN /\ blocked_tx \in BOOLEAN /\ no_rx_bufs \in BOOLEAN
        /\ client_action \in BOOLEAN
        /\ server_signals \subseteq {"irq", "tx"} /\ client_signals \subseteq {"eth", "tick"}
        /\ client \in {"init", "wait", "stack"}
    BY DEF Init
  <2>. QED  BY <2>3, <2>4, <2>5, <2>6, <2>7 DEF TypeOK
<1>2. Whole
  BY DEF Init, Whole
<1>3. WorkShape
  <2>1. Len(work) = 2 /\ work[1] = "complete" /\ work[2] = "fill" /\ nicTx = <<>>
    BY DEF Init
  <2>2. \A i \in 1..Len(work) : i \in {1, 2}
    BY <2>1
  <2>. QED  BY <2>1, <2>2 DEF WorkShape
<1>4. RefillKept
  <2>1. Len(work) = 2 /\ work[2] = "fill"
    BY DEF Init
  <2>2. Contains(work, "fill")
    BY <2>1 DEF Contains
  <2>. QED  BY <2>2 DEF RefillKept
<1>5. TxKept
  BY DEF Init, TxKept
<1>6. RxPlaces
  <2>1. Offered = 0 /\ \A b : ~RxHeld(b)
    BY EmptyQueue DEF Init, Offered, RxHeld
  <2>2. \A b \in RxBufs : ~(b <= 0)
    BY DEF RxBufs
  <2>3. rx_avail = <<>> /\ nicRx = <<>> /\ rx_used = <<>> /\ client = "init"
    BY DEF Init
  <2>. QED  BY <2>1, <2>2, <2>3, EmptyQueue DEF RxPlaces, Apart
<1>7. TxPlaces
  <2>1. \A b : ~TxHeld(b)
    BY EmptyQueue DEF Init, TxHeld
  <2>2. \A b \in TxBufs : ~(b > num_tx)
    BY DEF Init, TxBufs
  <2>3. tx_avail = <<>> /\ nicTx = <<>> /\ tx_used = <<>>
    BY DEF Init
  <2>. QED  BY <2>1, <2>2, <2>3, EmptyQueue DEF TxPlaces, Apart
<1>. QED  BY <1>1, <1>2, <1>3, <1>4, <1>5, <1>6, <1>7 DEF IInv

(* Every step leaves whole frames in the card's ring.                           *)
LEMMA WholeStep ==
  ASSUME TypeOK, Whole, Next
  PROVE  Whole'
<1>1. CASE eth_rx_complete
  <2>1. arrived # <<>>
    BY <1>1 DEF eth_rx_complete
  <2>2. PICK n \in 1..2 : n = num_bufs
    BY <2>1, Cookies
  <2>3. /\ n <= Len(arrived) /\ Len(arrived) \in Nat
        /\ Len(arrived') = Len(arrived) - n
        /\ \A i \in 1..Len(arrived) - n : arrived'[i] = arrived[n + i]
    <3>1. arrived' = SubSeq(arrived, num_bufs + 1, Len(arrived)) /\ Len(arrived) \in Nat
      BY <1>1 DEF eth_rx_complete, Released, TypeOK
    <3>. QED  BY <2>1, <2>2, <3>1, Cookies, Zenon
  <2>. SUFFICES ASSUME NEW i \in 1..Len(arrived'), ~arrived'[i].last
                PROVE  i < Len(arrived')
    BY DEF Whole
  <2>4. n + i \in 1..Len(arrived) /\ arrived'[i] = arrived[n + i]
    BY <2>3
  <2>5. n + i < Len(arrived)
    BY <2>4 DEF Whole
  <2>. QED  BY <2>3, <2>5
<1>2. ASSUME NEW f \in Frames, receive(f) PROVE Whole'
  BY <1>2, Arrives
<1>3. ASSUME arrived' = arrived PROVE Whole'
  BY <1>3 DEF Whole
<1>4. CASE Server /\ ~eth_rx_complete
  BY <1>3, <1>4 DEF Server, server_run, eth_tx_complete, raw_completed, eth_allocate_rx_buf,
     raw_filled, virt_queue_handle_irq, drained, raw_tx_enqueued, raw_tx_refused,
     notify_client_blocked, notify_client, card
<1>5. CASE Others /\ ~\E f \in Frames : receive(f)
  BY <1>3, <1>5 DEF Others, client_init, client_run, pico_stack_tick, pico_eth_send,
     pico_eth_poll, pico_eth_poll_break, notify_server, tick, send, card
<1>. QED
  BY <1>1, <1>2, <1>4, <1>5 DEF Next, Others

(* Every step keeps the invariant.                                              *)
LEMMA StepIInv == IInv /\ [Next]_vars => IInv'
<1>. SUFFICES ASSUME IInv, [Next]_vars PROVE IInv'
  OBVIOUS
<1>1. CASE Next
  <2>1. TypeOK'
    BY <1>1, ServerType, OthersType DEF IInv, Next, Others
  <2>. QED
    BY <1>1, <2>1, WholeStep, ShapeStep, RefillStep, TxKeptStep, RxPlacesStep, TxPlacesStep
    DEF IInv
<1>2. CASE UNCHANGED vars
  BY <1>2 DEF IInv, TypeOK, Whole, WorkShape, RefillKept, TxKept, RxPlaces, TxPlaces,
     RxHeld, TxHeld, Offered, vars, rings, flags, card, stack, signals
<1>. QED  BY <1>1, <1>2

(* In every state that the two components reach, the invariant holds.           *)
THEOREM InvariantHolds == Spec => []IInv
BY InitIInv, StepIInv, PTL DEF Spec

(* Everything keeps its type: the rings have no more descriptors in use than    *)
(* they have, and no buffer number is out of range.                             *)
THEOREM TypeCorrect == Spec => []TypeOK
<1>1. IInv => TypeOK
  BY DEF IInv
<1>. QED  BY <1>1, InvariantHolds, PTL

(* No wakeup is lost: what still waits when the server does is announced, will  *)
(* be announced, or is noted.                                                   *)
THEOREM NothingForgotten == Spec => []Remembered
<1>1. IInv => Remembered
  <2>. SUFFICES ASSUME IInv, work = <<>> PROVE Remembered
    BY DEF Remembered, TxRemembered, RefillRemembered
  <2>1. \A t : ~Contains(work, t)
    BY DEF Contains
  <2>. QED  BY <2>1 DEF IInv, TypeOK, TxKept, RefillKept, Remembered, TxRemembered, RefillRemembered
<1>. QED  BY <1>1, InvariantHolds, PTL

(* No buffer is lost or in two places: neither end ever uses one that the other *)
(* has, whatever becomes of the frames.                                         *)
THEOREM BuffersInOnePlace == Spec => []InOnePlace
<1>1. IInv => InOnePlace
  <2>. SUFFICES ASSUME IInv PROVE InOnePlace
    OBVIOUS
  <2>0. /\ rx_avail \in Seq(RxBufs) /\ nicRx \in Seq(RxBufs) /\ rx_used \in Seq(RxBufs)
        /\ tx_avail \in Seq(TxBufs) /\ nicTx \in Seq(TxBufs) /\ tx_used \in Seq(TxBufs)
        /\ num_tx \in 0..NUM_TX_BUFS
    BY DEF IInv, TypeOK
  <2>1. PICK rx \in Seq(RxBufs) :
          /\ rx = rx_avail \o nicRx \o rx_used
          /\ IsInjective(rx)
          /\ \A x : Contains(rx, x) <=> RxHeld(x)
    <3>1. PICK q \in Seq(RxBufs) :
            /\ q = rx_avail \o nicRx
            /\ IsInjective(q) /\ \A x : Contains(q, x) <=> Contains(rx_avail, x) \/ Contains(nicRx, x)
      <4>1. /\ IsInjective(rx_avail) /\ IsInjective(nicRx)
            /\ \A x : ~(Contains(rx_avail, x) /\ Contains(nicRx, x))
        BY DEF IInv, RxPlaces, Apart
      <4>. QED
        <5>1. /\ rx_avail \o nicRx \in Seq(RxBufs) /\ IsInjective(rx_avail \o nicRx)
              /\ \A x : Contains(rx_avail \o nicRx, x) <=> Contains(rx_avail, x) \/ Contains(nicRx, x)
          BY <2>0, <4>1, HoldsJoin
        <5>. QED  BY <5>1, Zenon
    <3>2. /\ IsInjective(rx_used)
          /\ \A x : ~(Contains(q, x) /\ Contains(rx_used, x))
      BY <3>1, Zenon DEF IInv, RxPlaces, Apart
    <3>3. PICK rx \in Seq(RxBufs) :
            /\ rx = q \o rx_used /\ IsInjective(rx)
            /\ \A x : Contains(rx, x) <=> Contains(q, x) \/ Contains(rx_used, x)
      <4>1. /\ q \o rx_used \in Seq(RxBufs) /\ IsInjective(q \o rx_used)
            /\ \A x : Contains(q \o rx_used, x) <=> Contains(q, x) \/ Contains(rx_used, x)
        BY <2>0, <3>1, <3>2, HoldsJoin
      <4>. QED  BY <4>1, Zenon
    <3>. QED  BY <3>1, <3>3, Zenon DEF RxHeld
  <2>2. PICK new \in Seq(TxBufs) :
          /\ new = [i \in 1..num_tx |-> i]
          /\ IsInjective(new) /\ \A x \in TxBufs : Contains(new, x) <=> x <= num_tx
          /\ \A x : Contains(new, x) => x \in TxBufs
    <3>1. PICK new : new = [i \in 1..num_tx |-> i]
      OBVIOUS
    <3>2. num_tx \in Nat /\ new \in [1..num_tx -> TxBufs] /\ \A i \in 1..num_tx : new[i] = i
      BY <2>0, <3>1, AsyncNats DEF TxBufs
    <3>3. new \in Seq(TxBufs)
      BY <3>2, SeqDef
    <3>4. DOMAIN new = 1..num_tx /\ Len(new) = num_tx
      <4>1. DOMAIN new = 1..num_tx /\ DOMAIN new = 1..Len(new) /\ Len(new) \in Nat
        BY <3>2, <3>3, LenProperties
      <4>. QED  BY <3>2, <4>1
    <3>5. IsInjective(new)
      BY <3>2, <3>4 DEF IsInjective
    <3>6. \A x \in TxBufs : Contains(new, x) <=> x <= num_tx
      BY <3>2, <3>4 DEF Contains, TxBufs
    <3>7. \A x : Contains(new, x) => x \in TxBufs
      BY <3>2, <3>4 DEF Contains
    <3>. QED  BY <3>1, <3>3, <3>5, <3>6, <3>7
  <2>3. PICK tx \in Seq(TxBufs) :
          /\ tx = [i \in 1..num_tx |-> i] \o tx_avail \o nicTx \o tx_used
          /\ IsInjective(tx)
          /\ \A x : Contains(tx, x) <=> Contains(new, x) \/ TxHeld(x)
    <3>0. /\ IsInjective(tx_avail) /\ IsInjective(nicTx) /\ IsInjective(tx_used)
          /\ Apart(tx_avail, nicTx) /\ Apart(tx_avail, tx_used) /\ Apart(nicTx, tx_used)
      BY DEF IInv, TxPlaces
    <3>1. \A x : ~(Contains(new, x) /\ TxHeld(x))
      <4>. SUFFICES ASSUME NEW x, Contains(new, x), TxHeld(x) PROVE FALSE
        OBVIOUS
      <4>1. x \in TxBufs /\ x <= num_tx /\ x > num_tx
        BY <2>2 DEF IInv, TxPlaces
      <4>. QED  BY <2>0, <4>1 DEF TxBufs
    <3>2. PICK q \in Seq(TxBufs) :
            /\ q = new \o tx_avail
            /\ IsInjective(q) /\ \A x : Contains(q, x) <=> Contains(new, x) \/ Contains(tx_avail, x)
      <4>1. \A x : ~(Contains(new, x) /\ Contains(tx_avail, x))
        BY <3>1, Zenon DEF TxHeld
      <4>. QED
        <5>0. IsInjective(new)
          BY <2>2, Zenon
        <5>1. /\ new \o tx_avail \in Seq(TxBufs) /\ IsInjective(new \o tx_avail)
              /\ \A x : Contains(new \o tx_avail, x) <=> Contains(new, x) \/ Contains(tx_avail, x)
          BY <2>0, <3>0, <4>1, <5>0, HoldsJoin
        <5>. QED  BY <5>1, Zenon
    <3>3. PICK r \in Seq(TxBufs) :
            /\ r = q \o nicTx
            /\ IsInjective(r) /\ \A x : Contains(r, x) <=> Contains(q, x) \/ Contains(nicTx, x)
      <4>1. \A x : ~(Contains(q, x) /\ Contains(nicTx, x))
        BY <3>0, <3>1, <3>2, Zenon DEF TxHeld, Apart
      <4>. QED
        <5>1. /\ q \o nicTx \in Seq(TxBufs) /\ IsInjective(q \o nicTx)
              /\ \A x : Contains(q \o nicTx, x) <=> Contains(q, x) \/ Contains(nicTx, x)
          BY <2>0, <3>0, <3>2, <4>1, HoldsJoin
        <5>. QED  BY <5>1, Zenon
    <3>4. PICK tx \in Seq(TxBufs) :
            /\ tx = r \o tx_used /\ IsInjective(tx)
            /\ \A x : Contains(tx, x) <=> Contains(r, x) \/ Contains(tx_used, x)
      <4>1. \A x : ~(Contains(r, x) /\ Contains(tx_used, x))
        BY <3>0, <3>1, <3>2, <3>3, Zenon DEF TxHeld, Apart
      <4>. QED
        <5>1. /\ r \o tx_used \in Seq(TxBufs) /\ IsInjective(r \o tx_used)
              /\ \A x : Contains(r \o tx_used, x) <=> Contains(r, x) \/ Contains(tx_used, x)
          BY <2>0, <3>0, <3>3, <4>1, HoldsJoin
        <5>. QED  BY <5>1, Zenon
    <3>. QED  BY <2>2, <3>2, <3>3, <3>4, Zenon DEF TxHeld
  <2>4. \A b \in RxBufs : client # "init" => Contains(rx, b)
    BY <2>1 DEF IInv, RxPlaces
  <2>5. \A b \in TxBufs : Contains(tx, b)
    <3>. SUFFICES ASSUME NEW b \in TxBufs PROVE Contains(tx, b)
      OBVIOUS
    <3>1. b <= num_tx \/ b > num_tx
      BY <2>0 DEF TxBufs
    <3>2. b > num_tx => TxHeld(b)
      BY DEF IInv, TxPlaces
    <3>. QED  BY <2>2, <2>3, <3>1, <3>2
  <2>. QED  BY <2>1, <2>3, <2>4, <2>5, Zenon DEF InOnePlace
<1>. QED  BY <1>1, InvariantHolds, PTL

-------------------------------------------------------------------------------
(* What is sent is an EthFrames.                                                *)

(* A queue of n different buffers, of which there are only so many.             *)
LEMMA HoldsAtMost ==
  ASSUME NEW N \in Nat, NEW q \in Seq(1..N), IsInjective(q)
  PROVE  Len(q) \in Nat /\ Len(q) <= N
<1>1. Len(q) \in Nat /\ q \in [1..Len(q) -> 1..N] /\ DOMAIN q = 1..Len(q)
  BY LenProperties
<1>2. \A i, j \in 1..Len(q) : q[i] = q[j] => i = j
  BY <1>1 DEF IsInjective
<1>3. q \in Injection(1..Len(q), 1..N)
  BY <1>1, <1>2 DEF Injection
<1>4. /\ IsFiniteSet(1..N) /\ Cardinality(1..N) = N
      /\ Cardinality(1..Len(q)) = Len(q)
  <2>1. \A n \in Nat : IsFiniteSet(1..n) /\ Cardinality(1..n) = IF 1 > n THEN 0 ELSE n - 1 + 1
    BY FS_Interval
  <2>2. \A n \in Nat : (IF 1 > n THEN 0 ELSE n - 1 + 1) = n
    OBVIOUS
  <2>. QED  BY <1>1, <2>1, <2>2
<1>. QED  BY <1>1, <1>3, <1>4, FS_Injection

(* What the buffers of a queue hold, when one more comes, and the oldest goes.  *)
LEMMA DataAppend ==
  ASSUME NEW S, NEW D, NEW q \in Seq(S), NEW b \in S, NEW d \in [S -> D], NEW e \in [S -> D],
         \A i \in 1..Len(q) : e[q[i]] = d[q[i]]
  PROVE  LET r == Append(q, b)
         IN  [i \in 1..Len(r) |-> e[r[i]]] = Append([i \in 1..Len(q) |-> d[q[i]]], e[b])
<1>1. PICK r \in Seq(S) : /\ r = Append(q, b) /\ Len(r) = Len(q) + 1
                          /\ \A i \in 1..Len(q) : r[i] = q[i]
                          /\ r[Len(q) + 1] = b
  <2>1. /\ Append(q, b) \in Seq(S) /\ Len(Append(q, b)) = Len(q) + 1
        /\ \A i \in 1..Len(q) : Append(q, b)[i] = q[i]
        /\ Append(q, b)[Len(q) + 1] = b
    BY AppendProperties
  <2>. QED  BY <2>1, Zenon
<1>2. Len(q) \in Nat /\ \A i \in 1..Len(q) : q[i] \in S
  OBVIOUS
<1>3. PICK s : s = [i \in 1..Len(q) |-> d[q[i]]]
  OBVIOUS
<1>4. PICK t : t = [i \in 1..Len(r) |-> e[r[i]]]
  OBVIOUS
<1>5. s \in Seq(D) /\ Len(s) = Len(q) /\ \A i \in 1..Len(q) : s[i] = d[q[i]]
  <2>1. s \in [1..Len(q) -> D] /\ \A i \in 1..Len(q) : s[i] = d[q[i]]
    BY <1>2, <1>3
  <2>2. s \in Seq(D)
    BY <1>2, <2>1, SeqDef
  <2>3. DOMAIN s = 1..Len(q) /\ DOMAIN s = 1..Len(s) /\ Len(s) \in Nat
    BY <2>1, <2>2, LenProperties
  <2>. QED  BY <1>2, <2>1, <2>2, <2>3
<1>6. Len(r) = Len(q) + 1 /\ (\A i \in 1..Len(q) : r[i] = q[i]) /\ r[Len(q) + 1] = b
  BY <1>1, Zenon
<1>7. \A i \in 1..Len(r) : r[i] \in S
  OBVIOUS
<1>8. /\ t \in Seq(D) /\ Len(t) = Len(q) + 1
      /\ \A i \in 1..Len(q) : t[i] = d[q[i]]
      /\ t[Len(q) + 1] = e[b]
  <2>1. t \in [1..Len(r) -> D] /\ \A i \in 1..Len(r) : t[i] = e[r[i]]
    BY <1>4, <1>7
  <2>2. t \in Seq(D)
    BY <1>2, <1>6, <2>1, SeqDef
  <2>3. DOMAIN t = 1..Len(r) /\ DOMAIN t = 1..Len(t) /\ Len(t) \in Nat
    BY <2>1, <2>2, LenProperties
  <2>4. Len(t) = Len(q) + 1
    BY <1>2, <1>6, <2>3
  <2>5. \A i \in 1..Len(q) : i \in 1..Len(r) /\ t[i] = d[q[i]]
    BY <1>2, <1>6, <2>1
  <2>6. Len(q) + 1 \in 1..Len(r)
    BY <1>2, <1>6
  <2>. QED  BY <1>6, <2>1, <2>2, <2>4, <2>5, <2>6
<1>9. e[b] \in D
  OBVIOUS
<1>10. PICK v : v = e[b]
  OBVIOUS
<1>11. /\ Append(s, v) \in Seq(D) /\ Len(Append(s, v)) = Len(s) + 1
       /\ \A i \in 1..Len(s) : Append(s, v)[i] = s[i]
       /\ Append(s, v)[Len(s) + 1] = v
  BY <1>5, <1>9, <1>10, AppendProperties
<1>12. PICK u \in Seq(D) : /\ u = Append(s, v) /\ Len(u) = Len(s) + 1
                           /\ \A i \in 1..Len(s) : u[i] = s[i]
                           /\ u[Len(s) + 1] = v
  BY <1>11, Zenon
<1>13. t = u
  <2>1. /\ Len(u) = Len(s) + 1 /\ (\A i \in 1..Len(s) : u[i] = s[i]) /\ u[Len(s) + 1] = v
    BY <1>12, Zenon
  <2>2. Len(t) = Len(u) /\ Len(t) = Len(q) + 1
    BY <1>2, <1>5, <1>8, <2>1
  <2>3. ASSUME NEW i \in 1..Len(t) PROVE t[i] = u[i]
    <3>1. i \in 1..Len(q) \/ i = Len(q) + 1
      BY <1>2, <2>2
    <3>. QED  BY <1>5, <1>8, <1>10, <2>1, <3>1
  <2>. QED  BY <1>8, <2>2, <2>3, SeqEqual
<1>. QED  BY <1>1, <1>3, <1>4, <1>10, <1>12, <1>13, Zenon

(* ... when the oldest goes, and what it held matters no more.                  *)
LEMMA DataTail ==
  ASSUME NEW S, NEW D, NEW q \in Seq(S), q # <<>>, NEW d \in [S -> D], NEW e,
         \A i \in 2..Len(q) : e[q[i]] = d[q[i]]
  PROVE  LET r == Tail(q)
             s == [i \in 1..Len(q) |-> d[q[i]]]
         IN  s # <<>> /\ [i \in 1..Len(r) |-> e[r[i]]] = Tail(s)
<1>1. /\ Len(q) \in Nat /\ Len(q) >= 1 /\ Len(Tail(q)) = Len(q) - 1
      /\ \A i \in 1..Len(q) - 1 : Tail(q)[i] = q[i + 1]
      /\ \A i \in 1..Len(q) : q[i] \in S
  BY SeqOldest
<1>2. PICK s : s = [i \in 1..Len(q) |-> d[q[i]]]
  OBVIOUS
<1>3. s \in Seq(D) /\ Len(s) = Len(q) /\ \A i \in 1..Len(q) : s[i] = d[q[i]]
  <2>1. s \in [1..Len(q) -> D] /\ \A i \in 1..Len(q) : s[i] = d[q[i]]
    BY <1>1, <1>2
  <2>2. s \in Seq(D)
    BY <1>1, <2>1, SeqDef
  <2>3. DOMAIN s = 1..Len(q) /\ DOMAIN s = 1..Len(s) /\ Len(s) \in Nat
    BY <2>1, <2>2, LenProperties
  <2>. QED  BY <1>1, <2>1, <2>2, <2>3
<1>4. s # <<>>
  BY <1>1, <1>3
<1>5. PICK u : u = Tail(s)
  OBVIOUS
<1>6. u \in Seq(D) /\ Len(u) = Len(s) - 1 /\ \A i \in 1..Len(s) - 1 : u[i] = s[i + 1]
  BY <1>3, <1>4, <1>5, SeqOldest
<1>7. PICK r \in Seq(S) : /\ r = Tail(q) /\ Len(r) = Len(q) - 1
                          /\ \A i \in 1..Len(q) - 1 : r[i] = q[i + 1]
  <2>1. /\ Tail(q) \in Seq(S) /\ Len(Tail(q)) = Len(q) - 1
        /\ \A i \in 1..Len(q) - 1 : Tail(q)[i] = q[i + 1]
    BY SeqOldest
  <2>. QED  BY <2>1, Zenon
<1>8. Len(r) = Len(q) - 1 /\ \A i \in 1..Len(q) - 1 : r[i] = q[i + 1]
  BY <1>7, Zenon
<1>9. ASSUME NEW i \in 1..Len(r) PROVE e[r[i]] = u[i]
  <2>1. i + 1 \in 2..Len(q) /\ i + 1 \in 1..Len(q) /\ r[i] = q[i + 1] /\ i \in 1..Len(s) - 1
    BY <1>1, <1>3, <1>8
  <2>2. u[i] = s[i + 1] /\ s[i + 1] = d[q[i + 1]]
    BY <1>3, <1>6, <2>1
  <2>. QED  BY <2>1, <2>2
<1>10. [i \in 1..Len(r) |-> e[r[i]]] = u
  <2>1. DOMAIN u = 1..Len(u) /\ Len(u) = Len(r) /\ u = [i \in DOMAIN u |-> u[i]]
    BY <1>3, <1>6, <1>8, LenProperties
  <2>2. u = [i \in 1..Len(r) |-> u[i]]
    BY <2>1
  <2>. QED  BY <1>9, <2>2
<1>. QED  BY <1>2, <1>4, <1>5, <1>7, <1>10, Zenon

TxQueue == [i \in 1..Len(tx_avail) |-> txData[tx_avail[i]]]
TxQueues == [c \in {0} |-> TxQueue]

(* The queue of packets has the one client, which receives each.                *)
LEMMA TxClients ==
  /\ Transmitted!Clients = {0}
  /\ \A p \in Packets : Transmitted!Receivers(p) = {0}
<1>1. Transmitted!Clients = {0}
  BY DEF Transmitted!Clients
<1>2. ASSUME NEW p \in Packets PROVE Transmitted!Receivers(p) = {0}
  <2>1. Transmitted!Addressed(p) = {0}
    BY <1>1 DEF Transmitted!Addressed
  <2>. QED  BY <2>1 DEF Transmitted!Receivers
<1>. QED  BY <1>1, <1>2

(* The steps of the queue of packets: one comes, the oldest is taken, or all    *)
(* stay.                                                                        *)
LEMMA TxSteps ==
  /\ \A p \in Packets : Len(TxQueue) < NUM_TX_BUFS /\ TxQueue' = Append(TxQueue, p) => Transmitted!Next
  /\ TxQueue # <<>> /\ TxQueue' = Tail(TxQueue) => Transmitted!Next
  /\ TxQueue' = TxQueue => UNCHANGED TxQueues
<1>0. TxQueues[0] = TxQueue /\ TxQueues' = [c \in {0} |-> TxQueue']
  BY DEF TxQueues
<1>1. ASSUME NEW p \in Packets, Len(TxQueue) < NUM_TX_BUFS, TxQueue' = Append(TxQueue, p)
      PROVE  Transmitted!Next
  <2>1. TxQueues' = [c \in {0} |-> IF c \in {0} THEN Append(TxQueues[c], p) ELSE TxQueues[c]]
    BY <1>0, <1>1
  <2>2. \A c \in {0} : Len(TxQueues[c]) < NUM_TX_BUFS
    BY <1>0, <1>1
  <2>3. Transmitted!Accept(p)
    BY <2>1, <2>2, TxClients, {0} \in SUBSET {0} DEF Transmitted!Accept, TxQueues, TxQueue
  <2>. QED  BY <2>3 DEF Transmitted!Next
<1>2. ASSUME TxQueue # <<>>, TxQueue' = Tail(TxQueue)
      PROVE  Transmitted!Next
  <2>1. TxQueues' = [TxQueues EXCEPT ![0] = Tail(TxQueues[0])]
    BY <1>0, <1>2 DEF TxQueues
  <2>2. Transmitted!Take(0)
    BY <1>0, <1>2, <2>1 DEF Transmitted!Take, TxQueues, TxQueue
  <2>. QED  BY <2>2, TxClients DEF Transmitted!Next
<1>3. ASSUME TxQueue' = TxQueue PROVE UNCHANGED TxQueues
  BY <1>0, <1>3 DEF TxQueues
<1>. QED  BY <1>1, <1>2, <1>3

(* Each step is one of the queue's, or leaves it as it is.                      *)
LEMMA TxStep ==
  ASSUME IInv, Next
  PROVE  Transmitted!Next \/ UNCHANGED TxQueues
<1>0. /\ tx_avail \in Seq(TxBufs) /\ nicTx \in Seq(TxBufs) /\ tx_used \in Seq(TxBufs)
      /\ txData \in [TxBufs -> Packets \cup {None}]
      /\ Len(tx_avail) \in Nat /\ \A i \in 1..Len(tx_avail) : tx_avail[i] \in TxBufs
      /\ IsInjective(tx_avail) /\ Apart(tx_avail, nicTx) /\ Apart(tx_avail, tx_used)
      /\ num_tx \in 0..NUM_TX_BUFS
  BY DEF IInv, TypeOK, TxPlaces
<1>1. ASSUME tx_avail' = tx_avail, txData' = txData
      PROVE  UNCHANGED TxQueues
  <2>1. TxQueue' = TxQueue
    BY <1>1 DEF TxQueue
  <2>. QED  BY <2>1, TxSteps
<1>2. CASE eth_tx_complete
  <2>1. /\ nicTx # <<>> /\ tx_avail' = tx_avail
        /\ txData' = [txData EXCEPT ![Head(nicTx)] = None]
    BY <1>2 DEF eth_tx_complete, IInv, TypeOK
  <2>2. Contains(nicTx, Head(nicTx))
    <3>1. Head(nicTx) = nicTx[1] /\ Len(nicTx) \in Nat /\ 1 \in 1..Len(nicTx)
      BY <1>0, <2>1, SeqOldest
    <3>. QED  BY <3>1 DEF Contains
  <2>3. \A i \in 1..Len(tx_avail) : tx_avail[i] # Head(nicTx)
    BY <1>0, <2>2 DEF Apart, Contains
  <2>4. \A i \in 1..Len(tx_avail) : txData'[tx_avail[i]] = txData[tx_avail[i]]
    BY <1>0, <2>1, <2>3
  <2>5. TxQueue' = TxQueue
    BY <2>1, <2>4 DEF TxQueue
  <2>. QED  BY <2>5, TxSteps
<1>3. CASE raw_tx_enqueued
  <2>1. tx_avail # <<>> /\ tx_avail' = Tail(tx_avail) /\ txData' = txData
    BY <1>3 DEF raw_tx_enqueued
  <2>2. TxQueue # <<>> /\ TxQueue' = Tail(TxQueue)
    BY <1>0, <2>1, DataTail DEF TxQueue
  <2>. QED  BY <2>2, TxSteps
<1>4. ASSUME NEW p \in Packets, pico_eth_send(p) PROVE Transmitted!Next
  <2>1. PICK b \in TxBufs : Send(b, p) /\ ~Contains(tx_avail, b)
    <3>1. CASE tx_used # <<>>
      <4>1. /\ Head(tx_used) = tx_used[1] /\ Len(tx_used) \in Nat /\ 1 \in 1..Len(tx_used)
            /\ Head(tx_used) \in TxBufs
        BY <1>0, <3>1, SeqOldest
      <4>2. ~Contains(tx_avail, Head(tx_used))
        BY <1>0, <4>1 DEF Apart, Contains
      <4>3. Send(Head(tx_used), p)
        BY <1>4, <3>1 DEF pico_eth_send
      <4>. QED  BY <4>1, <4>2, <4>3, Zenon
    <3>2. CASE tx_used = <<>>
      <4>1. num_tx \in TxBufs /\ ~(num_tx > num_tx) /\ Send(num_tx, p)
        BY <1>0, <1>4, <3>2, AsyncNats DEF pico_eth_send, TxBufs
      <4>2. ~Contains(tx_avail, num_tx)
        BY <4>1 DEF IInv, TxPlaces, TxHeld
      <4>. QED  BY <4>1, <4>2, Zenon
    <3>. QED  BY <3>1, <3>2
  <2>2. txData' = [txData EXCEPT ![b] = p] /\ tx_avail' = Append(tx_avail, b)
    BY <2>1 DEF Send
  <2>3. \A i \in 1..Len(tx_avail) : tx_avail[i] # b
    BY <2>1 DEF Contains
  <2>4. /\ txData' \in [TxBufs -> Packets \cup {None}] /\ txData'[b] = p
        /\ \A i \in 1..Len(tx_avail) : txData'[tx_avail[i]] = txData[tx_avail[i]]
    BY <1>0, <2>2, <2>3
  <2>5. TxQueue' = Append(TxQueue, p)
    <3>1. [i \in 1..Len(Append(tx_avail, b)) |-> txData'[Append(tx_avail, b)[i]]]
            = Append([i \in 1..Len(tx_avail) |-> txData[tx_avail[i]]], txData'[b])
      BY <1>0, <2>4, DataAppend
    <3>. QED  BY <2>2, <2>4, <3>1, Zenon DEF TxQueue
  <2>6. Len(TxQueue) < NUM_TX_BUFS
    <3>1. /\ Append(tx_avail, b) \in Seq(1..NUM_TX_BUFS) /\ IsInjective(Append(tx_avail, b))
          /\ Len(Append(tx_avail, b)) = Len(tx_avail) + 1
      BY <1>0, <2>1, HoldsAppend DEF TxBufs
    <3>2. Len(tx_avail) + 1 <= NUM_TX_BUFS
      BY <3>1, AsyncNats, HoldsAtMost
    <3>3. Len(TxQueue) = Len(tx_avail)
      BY <1>0 DEF TxQueue
    <3>. QED  BY <1>0, <3>2, <3>3, AsyncNats
  <2>. QED  BY <2>5, <2>6, TxSteps
<1>5. CASE Server /\ ~eth_tx_complete /\ ~raw_tx_enqueued
  BY <1>1, <1>5 DEF Server, server_run, eth_rx_complete, raw_completed, eth_allocate_rx_buf,
     raw_filled, virt_queue_handle_irq, drained, raw_tx_refused,
     notify_client_blocked, notify_client, rings
<1>6. CASE Others /\ ~\E p \in Packets : pico_eth_send(p)
  BY <1>1, <1>6 DEF Others, client_init, client_run, pico_stack_tick, pico_eth_poll,
     pico_eth_poll_break, notify_server, tick, receive, send, rings
<1>. QED
  BY <1>2, <1>3, <1>4, <1>5, <1>6 DEF Next, Others

(* Packets are sent unaltered, in order, and once each, whatever is blocked and *)
(* retried, and no more wait than there are buffers.                            *)
THEOREM PacketsDelivered == Spec => DeliversPackets
<1>1. Init => Transmitted!Init
  <2>. SUFFICES ASSUME Init PROVE TxQueues = [c \in Transmitted!Clients |-> <<>>]
    BY DEF Transmitted!Init, TxQueues, TxQueue
  <2>1. TxQueue = <<>>
    BY DEF Init, TxQueue
  <2>. QED  BY <2>1, TxClients DEF TxQueues
<1>2. IInv /\ [Next]_vars => [Transmitted!Next]_TxQueues
  <2>. SUFFICES ASSUME IInv, [Next]_vars PROVE Transmitted!Next \/ UNCHANGED TxQueues
    OBVIOUS
  <2>1. CASE Next
    BY <2>1, TxStep
  <2>2. CASE UNCHANGED vars
    BY <2>2 DEF vars, rings, TxQueues, TxQueue
  <2>. QED  BY <2>1, <2>2
<1>3. IInv /\ [Next]_vars =>
        [Transmitted!Next]_[c \in {0} |-> [i \in 1..Len(tx_avail) |-> txData[tx_avail[i]]]]
  BY <1>2 DEF TxQueues, TxQueue
<1>. QED  BY <1>1, <1>3, InvariantHolds, PTL DEF Spec, DeliversPackets, Transmitted!Spec

-------------------------------------------------------------------------------
(* What is received is an EthFrames: the frames of a queue of buffers, those    *)
(* dropped left out.                                                            *)

RealsOf(s) == {i \in 1..Len(s) : s[i] # None}
RankIn(s, i) == Cardinality({j \in RealsOf(s) : j <= i})
Kept(s) == [k \in 1..Cardinality(RealsOf(s)) |-> s[CHOOSE i \in RealsOf(s) : RankIn(s, i) = k]]

(* A set of numbers, all of them one greater.                                   *)
LEMMA ShiftedCard ==
  ASSUME NEW A \in SUBSET Nat, IsFiniteSet(A), NEW B, B = {i + 1 : i \in A}
  PROVE  IsFiniteSet(B) /\ Cardinality(B) = Cardinality(A)
<1>1. PICK f : f = [i \in A |-> i + 1]
  OBVIOUS
<1>2. f \in [A -> B] /\ \A i \in A : f[i] = i + 1
  BY <1>1
<1>3. f \in Injection(A, B)
  <2>1. \A i, j \in A : f[i] = f[j] => i = j
    BY <1>2
  <2>. QED  BY <1>2, <2>1 DEF Injection, IsInjective
<1>4. f \in Surjection(A, B)
  BY <1>2 DEF Surjection
<1>5. ExistsBijection(A, B)
  BY <1>3, <1>4 DEF Bijection, ExistsBijection
<1>. QED  BY <1>5, FS_Bijection

(* The frames that are not dropped are numbered without gaps.                   *)
LEMMA RealRanks ==
  ASSUME NEW D, NEW s \in Seq(D)
  PROVE  /\ IsFiniteSet(RealsOf(s)) /\ Cardinality(RealsOf(s)) \in Nat
         /\ Cardinality(RealsOf(s)) <= Len(s)
         /\ \A i : IsFiniteSet({j \in RealsOf(s) : j <= i}) /\ RankIn(s, i) \in Nat
         /\ \A i \in RealsOf(s) : RankIn(s, i) \in 1..Cardinality(RealsOf(s))
         /\ \A i, j \in RealsOf(s) : RankIn(s, i) = RankIn(s, j) => i = j
         /\ \A k \in 1..Cardinality(RealsOf(s)) : \E i \in RealsOf(s) : RankIn(s, i) = k
<1>. DEFINE R == RealsOf(s)
            K == Cardinality(R)
            Upto(i) == {j \in R : j <= i}
<1>0. Len(s) \in Nat /\ R \in SUBSET (1..Len(s)) /\ \A i \in R : i \in Nat
  BY DEF RealsOf
<1>1. IsFiniteSet(R) /\ K \in Nat /\ K <= Len(s)
  <2>1. IsFiniteSet(1..Len(s)) /\ Cardinality(1..Len(s)) = Len(s)
    <3>1. \A n \in Nat : IsFiniteSet(1..n) /\ Cardinality(1..n) = IF 1 > n THEN 0 ELSE n - 1 + 1
      BY FS_Interval
    <3>. QED  BY <1>0, <3>1
  <2>. QED  BY <1>0, <2>1, FS_Subset, FS_CardinalityType
<1>2. ASSUME NEW i
      PROVE  /\ Upto(i) \in SUBSET R /\ IsFiniteSet(Upto(i)) /\ RankIn(s, i) \in Nat
             /\ RankIn(s, i) <= K /\ RankIn(s, i) = Cardinality(Upto(i))
  BY <1>1, FS_Subset, FS_CardinalityType DEF RankIn
<1>3. ASSUME NEW i \in R PROVE RankIn(s, i) >= 1
  <2>1. i \in Upto(i)
    BY <1>0
  <2>2. Cardinality(Upto(i)) # 0
    <3>1. IsFiniteSet(Upto(i)) /\ Upto(i) # {}
      BY <1>2, <2>1
    <3>. QED  BY <3>1, FS_EmptySet
  <2>3. RankIn(s, i) \in Nat /\ RankIn(s, i) # 0
    BY <1>2, <2>2
  <2>. QED  BY <2>3
<1>4. ASSUME NEW i \in R, NEW j \in R, i < j PROVE RankIn(s, i) < RankIn(s, j)
  <2>1. Upto(i) \in SUBSET Upto(j)
    BY <1>0, <1>4
  <2>2. j \in Upto(j) /\ j \notin Upto(i)
    BY <1>0, <1>4
  <2>3. Cardinality(Upto(i)) <= Cardinality(Upto(j)) /\ Cardinality(Upto(i)) # Cardinality(Upto(j))
    BY <1>2, <2>1, <2>2, FS_Subset
  <2>4. /\ RankIn(s, i) = Cardinality(Upto(i)) /\ RankIn(s, j) = Cardinality(Upto(j))
        /\ RankIn(s, i) \in Nat /\ RankIn(s, j) \in Nat
    BY <1>2
  <2>. QED  BY <2>3, <2>4
<1>5. ASSUME NEW i \in R, NEW j \in R, RankIn(s, i) = RankIn(s, j) PROVE i = j
  <2>1. i \in Nat /\ j \in Nat /\ RankIn(s, i) \in Nat /\ RankIn(s, j) \in Nat
    BY <1>0, <1>2
  <2>. QED  BY <1>4, <1>5, <2>1
<1>6. ASSUME NEW i \in R PROVE RankIn(s, i) \in 1..K
  <2>1. RankIn(s, i) \in Nat /\ RankIn(s, i) <= K /\ RankIn(s, i) >= 1
    BY <1>2, <1>3
  <2>. QED  BY <1>1, <2>1
<1>7. ASSUME NEW k \in 1..K PROVE \E i \in R : RankIn(s, i) = k
  <2>1. PICK f : f = [i \in R |-> RankIn(s, i)]
    OBVIOUS
  <2>2. f \in [R -> 1..K] /\ \A i \in R : f[i] = RankIn(s, i)
    BY <1>6, <2>1
  <2>3. f \in Injection(R, 1..K)
    <3>1. ASSUME NEW i \in R, NEW j \in R, f[i] = f[j] PROVE i = j
      BY <1>5, <2>2, <3>1
    <3>. QED  BY <2>2, <3>1 DEF Injection, IsInjective
  <2>4. IsFiniteSet(1..K) /\ Cardinality(1..K) = K
    <3>1. \A n \in Nat : IsFiniteSet(1..n) /\ Cardinality(1..n) = IF 1 > n THEN 0 ELSE n - 1 + 1
      BY FS_Interval
    <3>. QED  BY <1>1, <3>1
  <2>5. f \in Surjection(R, 1..K)
    BY <2>3, <2>4, FS_Injection
  <2>. QED  BY <2>2, <2>5 DEF Surjection
<1>. QED  BY <1>1, <1>2, <1>5, <1>6, <1>7

(* Each is kept at its number.                                                  *)
LEMMA KeptAt ==
  ASSUME NEW D, NEW s \in Seq(D)
  PROVE  /\ Kept(s) \in Seq(D) /\ Len(Kept(s)) = Cardinality(RealsOf(s))
         /\ \A i \in RealsOf(s) : Kept(s)[RankIn(s, i)] = s[i]
<1>. DEFINE R == RealsOf(s)
            K == Cardinality(R)
<1>0. K \in Nat /\ \A i \in R : RankIn(s, i) \in 1..K /\ s[i] \in D
  <2>1. K \in Nat /\ \A i \in R : RankIn(s, i) \in 1..K
    BY RealRanks
  <2>2. \A i \in R : s[i] \in D
    BY DEF RealsOf
  <2>. QED  BY <2>1, <2>2
<1>1. ASSUME NEW i \in R PROVE Kept(s)[RankIn(s, i)] = s[i]
  <2>1. (CHOOSE j \in R : RankIn(s, j) = RankIn(s, i)) = i
    BY RealRanks
  <2>2. RankIn(s, i) \in 1..K
    BY <1>0
  <2>. QED  BY <2>1, <2>2 DEF Kept
<1>2. PICK t : t = Kept(s)
  OBVIOUS
<1>3. t \in [1..K -> D]
  <2>1. DOMAIN t = 1..K /\ t = [k \in 1..K |-> t[k]]
    BY <1>2 DEF Kept
  <2>2. ASSUME NEW k \in 1..K PROVE t[k] \in D
    <3>1. PICK i \in R : RankIn(s, i) = k
      BY RealRanks
    <3>2. t[k] = s[i]
      BY <1>1, <1>2, <3>1
    <3>. QED  BY <1>0, <3>2
  <2>. QED  BY <2>1, <2>2
<1>4. t \in Seq(D)
  BY <1>0, <1>3, SeqDef
<1>5. Len(t) = K
  <2>1. DOMAIN t = 1..K /\ DOMAIN t = 1..Len(t) /\ Len(t) \in Nat
    BY <1>3, <1>4, LenProperties
  <2>. QED  BY <1>0, <2>1
<1>. QED  BY <1>1, <1>2, <1>4, <1>5

(* A queue with one more buffer at its end keeps one frame more, or the same.   *)
LEMMA KeptAppend ==
  ASSUME NEW D, NEW s \in Seq(D), NEW v \in D, NEW t \in Seq(D),
         Len(t) = Len(s) + 1, \A i \in 1..Len(s) : t[i] = s[i], t[Len(s) + 1] = v
  PROVE  Kept(t) = IF v = None THEN Kept(s) ELSE Append(Kept(s), v)
<1>0. Len(s) \in Nat /\ Len(t) \in Nat
  OBVIOUS
<1>. DEFINE n == Len(s) + 1
<1>1. RealsOf(t) = IF v = None THEN RealsOf(s) ELSE RealsOf(s) \cup {n}
  <2>1. 1..Len(t) = 1..Len(s) \cup {n}
    BY <1>0
  <2>. QED  BY <2>1 DEF RealsOf
<1>2. /\ Kept(s) \in Seq(D) /\ Len(Kept(s)) = Cardinality(RealsOf(s))
      /\ \A i \in RealsOf(s) : Kept(s)[RankIn(s, i)] = s[i]
      /\ Kept(t) \in Seq(D) /\ Len(Kept(t)) = Cardinality(RealsOf(t))
      /\ \A i \in RealsOf(t) : Kept(t)[RankIn(t, i)] = t[i]
  BY KeptAt
<1>3. /\ IsFiniteSet(RealsOf(s)) /\ Cardinality(RealsOf(s)) \in Nat
      /\ \A i \in RealsOf(s) : RankIn(s, i) \in 1..Cardinality(RealsOf(s))
      /\ \A k \in 1..Cardinality(RealsOf(s)) : \E i \in RealsOf(s) : RankIn(s, i) = k
  BY RealRanks
<1>4. \A i \in RealsOf(s) : i \in 1..Len(s) /\ i \in RealsOf(t) /\ t[i] = s[i]
  BY <1>1 DEF RealsOf
<1>5. ASSUME NEW i \in RealsOf(s) PROVE RankIn(t, i) = RankIn(s, i)
  <2>1. {j \in RealsOf(t) : j <= i} = {j \in RealsOf(s) : j <= i}
    <3>1. i \in Nat /\ i <= Len(s) /\ ~(n <= i)
      BY <1>0, <1>4
    <3>. QED  BY <1>1, <3>1
  <2>. QED  BY <2>1 DEF RankIn
<1>6. \A k \in 1..Len(Kept(s)) : Kept(t)[k] = Kept(s)[k]
  <2>. SUFFICES ASSUME NEW k \in 1..Len(Kept(s)) PROVE Kept(t)[k] = Kept(s)[k]
    OBVIOUS
  <2>1. PICK i \in RealsOf(s) : RankIn(s, i) = k
    BY <1>2, <1>3
  <2>2. Kept(s)[k] = s[i] /\ RankIn(t, i) = k
    BY <1>2, <1>5, <2>1
  <2>3. Kept(t)[k] = t[i] /\ t[i] = s[i]
    BY <1>2, <1>4, <2>2
  <2>. QED  BY <2>2, <2>3
<1>7. CASE v = None
  <2>1. Len(Kept(t)) = Len(Kept(s))
    BY <1>1, <1>2, <1>7
  <2>. QED  BY <1>2, <1>6, <1>7, <2>1, SeqEqual
<1>8. CASE v # None
  <2>1. n \notin RealsOf(s) /\ RealsOf(t) = RealsOf(s) \cup {n}
    BY <1>0, <1>1, <1>8 DEF RealsOf
  <2>2. Cardinality(RealsOf(t)) = Cardinality(RealsOf(s)) + 1
    BY <1>3, <2>1, FS_AddElement
  <2>3. RankIn(t, n) = Cardinality(RealsOf(t))
    <3>1. \A j \in RealsOf(t) : j <= n
      BY <1>0, <1>4, <2>1
    <3>2. {j \in RealsOf(t) : j <= n} = RealsOf(t)
      BY <3>1
    <3>. QED  BY <3>2 DEF RankIn
  <2>4. Kept(t)[Len(Kept(s)) + 1] = v
    <3>1. n \in RealsOf(t)
      BY <2>1
    <3>2. Kept(t)[RankIn(t, n)] = t[n] /\ t[n] = v
      BY <1>2, <3>1
    <3>3. RankIn(t, n) = Len(Kept(s)) + 1
      BY <1>2, <2>2, <2>3
    <3>. QED  BY <3>2, <3>3
  <2>5. PICK u \in Seq(D) : /\ u = Append(Kept(s), v) /\ Len(u) = Len(Kept(s)) + 1
                            /\ \A i \in 1..Len(Kept(s)) : u[i] = Kept(s)[i]
                            /\ u[Len(Kept(s)) + 1] = v
    <3>1. /\ Append(Kept(s), v) \in Seq(D) /\ Len(Append(Kept(s), v)) = Len(Kept(s)) + 1
          /\ \A i \in 1..Len(Kept(s)) : Append(Kept(s), v)[i] = Kept(s)[i]
          /\ Append(Kept(s), v)[Len(Kept(s)) + 1] = v
      BY <1>2, AppendProperties
    <3>. QED  BY <3>1, Zenon
  <2>6. /\ Len(u) = Len(Kept(s)) + 1 /\ u[Len(Kept(s)) + 1] = v
        /\ \A i \in 1..Len(Kept(s)) : u[i] = Kept(s)[i]
    BY <2>5, Zenon
  <2>7. Len(Kept(t)) = Len(u) /\ Len(Kept(s)) \in Nat
    BY <1>2, <1>3, <2>2, <2>6
  <2>8. ASSUME NEW k \in 1..Len(Kept(t)) PROVE Kept(t)[k] = u[k]
    <3>1. k \in 1..Len(Kept(s)) \/ k = Len(Kept(s)) + 1
      BY <2>6, <2>7
    <3>. QED  BY <1>6, <2>4, <2>6, <3>1
  <2>9. Kept(t) = u
    BY <1>2, <2>7, <2>8, SeqEqual
  <2>. QED  BY <1>8, <2>5, <2>9, Zenon
<1>. QED  BY <1>7, <1>8

(* A queue without its oldest buffer has lost its frame, if it held one.        *)
LEMMA KeptTail ==
  ASSUME NEW D, NEW s \in Seq(D), NEW t \in Seq(D),
         Len(s) >= 1, Len(t) = Len(s) - 1, \A i \in 1..Len(t) : t[i] = s[i + 1]
  PROVE  /\ s[1] = None => Kept(t) = Kept(s)
         /\ s[1] # None => Kept(s) # <<>> /\ Kept(t) = Tail(Kept(s))
<1>0. Len(s) \in Nat /\ Len(t) \in Nat
  OBVIOUS
<1>1. /\ Kept(s) \in Seq(D) /\ Len(Kept(s)) = Cardinality(RealsOf(s))
      /\ \A i \in RealsOf(s) : Kept(s)[RankIn(s, i)] = s[i]
      /\ Kept(t) \in Seq(D) /\ Len(Kept(t)) = Cardinality(RealsOf(t))
      /\ \A i \in RealsOf(t) : Kept(t)[RankIn(t, i)] = t[i]
  BY KeptAt
<1>2. /\ IsFiniteSet(RealsOf(s)) /\ Cardinality(RealsOf(s)) \in Nat
      /\ IsFiniteSet(RealsOf(t)) /\ Cardinality(RealsOf(t)) \in Nat
      /\ \A i : IsFiniteSet({j \in RealsOf(s) : j <= i}) /\ RankIn(s, i) \in Nat
      /\ \A i : IsFiniteSet({j \in RealsOf(t) : j <= i}) /\ RankIn(t, i) \in Nat
      /\ \A k \in 1..Cardinality(RealsOf(t)) : \E i \in RealsOf(t) : RankIn(t, i) = k
  BY RealRanks
<1>3. \A i \in RealsOf(t) : i \in Nat /\ i \in 1..Len(t) /\ i + 1 \in RealsOf(s) /\ t[i] = s[i + 1]
  <2>. SUFFICES ASSUME NEW i \in RealsOf(t)
                PROVE  i \in Nat /\ i \in 1..Len(t) /\ i + 1 \in RealsOf(s) /\ t[i] = s[i + 1]
    OBVIOUS
  <2>1. i \in 1..Len(t) /\ t[i] # None
    BY DEF RealsOf
  <2>2. i + 1 \in 1..Len(s) /\ t[i] = s[i + 1]
    BY <1>0, <2>1
  <2>. QED  BY <2>1, <2>2 DEF RealsOf
<1>4. \A i \in RealsOf(s) : i \in Nat /\ i >= 1 /\ (i # 1 => i - 1 \in RealsOf(t))
  <2>. SUFFICES ASSUME NEW i \in RealsOf(s)
                PROVE  i \in Nat /\ i >= 1 /\ (i # 1 => i - 1 \in RealsOf(t))
    OBVIOUS
  <2>1. i \in 1..Len(s) /\ s[i] # None
    BY DEF RealsOf
  <2>2. i # 1 => i - 1 \in 1..Len(t) /\ t[i - 1] = s[(i - 1) + 1]
    BY <1>0, <2>1
  <2>. QED  BY <2>1, <2>2 DEF RealsOf
<1>5. 1 \in RealsOf(s) <=> s[1] # None
  BY <1>0 DEF RealsOf
<1>6. RealsOf(s) \ {1} = {i + 1 : i \in RealsOf(t)}
  <2>1. \A x : x \in RealsOf(s) \ {1} => \E i \in RealsOf(t) : x = i + 1
    <3>. SUFFICES ASSUME NEW x \in RealsOf(s), x # 1 PROVE \E i \in RealsOf(t) : x = i + 1
      OBVIOUS
    <3>1. x - 1 \in RealsOf(t) /\ x = (x - 1) + 1
      BY <1>4
    <3>. QED  BY <3>1
  <2>2. \A i \in RealsOf(t) : i + 1 \in RealsOf(s) \ {1}
    BY <1>3 DEF RealsOf
  <2>. QED  BY <2>1, <2>2
<1>7. ASSUME NEW i \in RealsOf(t)
      PROVE  {j \in RealsOf(s) : j <= i + 1} \ {1} = {j + 1 : j \in {k \in RealsOf(t) : k <= i}}
  <2>1. \A j \in RealsOf(t) : j <= i <=> j + 1 <= i + 1
    BY <1>3
  <2>2. \A x : x \in {j \in RealsOf(s) : j <= i + 1} \ {1} <=>
               x \in RealsOf(s) \ {1} /\ x <= i + 1
    OBVIOUS
  <2>3. \A x : x \in RealsOf(s) \ {1} <=> \E j \in RealsOf(t) : x = j + 1
    BY <1>6
  <2>. QED  BY <2>1, <2>2, <2>3
<1>8. PICK d \in 0..1 : d = IF s[1] = None THEN 0 ELSE 1
  OBVIOUS
<1>9. ASSUME NEW A, IsFiniteSet(A), A \subseteq RealsOf(s), 1 \in A <=> s[1] # None
       PROVE  Cardinality(A) = Cardinality(A \ {1}) + d
  <2>1. Cardinality(A) \in Nat
    BY <1>9, FS_CardinalityType
  <2>2. CASE 1 \in A
    <3>1. Cardinality(A \ {1}) = Cardinality(A) - 1
      BY <1>9, <2>2, FS_RemoveElement
    <3>2. d = 1
      BY <1>8, <1>9, <2>2
    <3>. QED  BY <2>1, <3>1, <3>2
  <2>3. CASE 1 \notin A
    <3>1. A \ {1} = A
      BY <2>3
    <3>2. d = 0
      BY <1>8, <1>9, <2>3
    <3>3. Cardinality(A \ {1}) = Cardinality(A)
      BY <3>1, Zenon
    <3>. QED  BY <2>1, <3>2, <3>3
  <2>. QED  BY <2>2, <2>3
<1>10. Cardinality(RealsOf(s)) = Cardinality(RealsOf(t)) + d
  <2>1. Cardinality(RealsOf(s) \ {1}) = Cardinality(RealsOf(t))
    <3>1. RealsOf(t) \in SUBSET Nat
      BY <1>3
    <3>. QED  BY <1>2, <1>6, <3>1, ShiftedCard
  <2>. QED  BY <1>2, <1>5, <1>9, <2>1
<1>11. ASSUME NEW i \in RealsOf(t) PROVE RankIn(s, i + 1) = RankIn(t, i) + d
  <2>. DEFINE A == {j \in RealsOf(s) : j <= i + 1}
              B == {j \in RealsOf(t) : j <= i}
  <2>1. B \in SUBSET Nat /\ IsFiniteSet(B)
    BY <1>2, <1>3
  <2>2. Cardinality(A \ {1}) = Cardinality(B)
    BY <1>7, <2>1, ShiftedCard
  <2>3. 1 \in A <=> s[1] # None
    BY <1>3, <1>5
  <2>4. Cardinality(A) = Cardinality(A \ {1}) + d
    BY <1>2, <1>9, <2>3
  <2>. QED  BY <2>2, <2>4 DEF RankIn
<1>12. ASSUME NEW k \in 1..Len(Kept(t)) PROVE Kept(t)[k] = Kept(s)[k + d]
  <2>1. PICK i \in RealsOf(t) : RankIn(t, i) = k
    BY <1>1, <1>2
  <2>2. Kept(t)[k] = t[i] /\ t[i] = s[i + 1] /\ i + 1 \in RealsOf(s)
    BY <1>1, <1>3, <2>1
  <2>3. Kept(s)[k + d] = s[i + 1]
    BY <1>1, <1>11, <2>1, <2>2
  <2>. QED  BY <2>2, <2>3
<1>13. CASE s[1] = None
  <2>1. d = 0 /\ Len(Kept(t)) = Len(Kept(s))
    BY <1>1, <1>2, <1>8, <1>10, <1>13
  <2>2. \A k \in 1..Len(Kept(t)) : Kept(t)[k] = Kept(s)[k]
    BY <1>12, <2>1
  <2>3. Kept(t) = Kept(s)
    BY <1>1, <2>1, <2>2, SeqEqual
  <2>. QED  BY <1>13, <2>3
<1>14. CASE s[1] # None
  <2>1. d = 1 /\ Len(Kept(s)) = Len(Kept(t)) + 1 /\ Len(Kept(t)) \in Nat
    BY <1>1, <1>2, <1>8, <1>10, <1>14
  <2>2. Kept(s) # <<>>
    BY <1>1, <2>1
  <2>3. PICK u \in Seq(D) : /\ u = Tail(Kept(s)) /\ Len(u) = Len(Kept(s)) - 1
                            /\ \A i \in 1..Len(Kept(s)) - 1 : u[i] = Kept(s)[i + 1]
    <3>1. /\ Tail(Kept(s)) \in Seq(D) /\ Len(Tail(Kept(s))) = Len(Kept(s)) - 1
          /\ \A i \in 1..Len(Kept(s)) - 1 : Tail(Kept(s))[i] = Kept(s)[i + 1]
      BY <1>1, <2>2, SeqOldest
    <3>. QED  BY <3>1, Zenon
  <2>4. Len(u) = Len(Kept(s)) - 1 /\ \A i \in 1..Len(Kept(s)) - 1 : u[i] = Kept(s)[i + 1]
    BY <2>3, Zenon
  <2>5. Len(u) = Len(Kept(t)) /\ \A k \in 1..Len(Kept(t)) : Kept(t)[k] = u[k]
    BY <1>12, <2>1, <2>4
  <2>6. Kept(t) = u
    BY <1>1, <2>5, SeqEqual
  <2>. QED  BY <1>14, <2>2, <2>3, <2>6, Zenon
<1>. QED  BY <1>13, <1>14

FramesOf(q, d) == [i \in 1..Len(q) |-> d[q[i]]]

(* What a queue of buffers holds, as a queue.                                   *)
LEMMA FramesSeq ==
  ASSUME NEW S, NEW D, NEW q \in Seq(S), NEW d \in [S -> D]
  PROVE  /\ FramesOf(q, d) \in Seq(D) /\ Len(FramesOf(q, d)) = Len(q)
         /\ \A i \in 1..Len(q) : FramesOf(q, d)[i] = d[q[i]]
<1>1. Len(q) \in Nat /\ \A i \in 1..Len(q) : q[i] \in S
  OBVIOUS
<1>2. PICK s : s = FramesOf(q, d)
  OBVIOUS
<1>3. s \in [1..Len(q) -> D] /\ \A i \in 1..Len(q) : s[i] = d[q[i]]
  BY <1>1, <1>2 DEF FramesOf
<1>4. s \in Seq(D)
  BY <1>1, <1>3, SeqDef
<1>5. Len(s) = Len(q)
  <2>1. DOMAIN s = 1..Len(q) /\ DOMAIN s = 1..Len(s) /\ Len(s) \in Nat
    BY <1>3, <1>4, LenProperties
  <2>. QED  BY <1>1, <2>1
<1>. QED  BY <1>2, <1>3, <1>4, <1>5

RxFrames == FramesOf(rx_used, rxData)
RxQueue == [k \in 1..Cardinality(Reals) |-> RealFrame(k)]
RxQueues == [c \in {0} |-> RxQueue]

(* The frames of the specification's queue are those kept.                      *)
LEMMA QueueKept == TypeOK => RxQueue = Kept(RxFrames)
<1>. SUFFICES ASSUME TypeOK PROVE RxQueue = Kept(RxFrames)
  OBVIOUS
<1>1. PICK s \in Seq(Frames \cup {None}) :
        /\ s = RxFrames /\ Len(s) = Len(rx_used)
        /\ \A i \in 1..Len(rx_used) : s[i] = rxData[rx_used[i]]
  <2>1. rx_used \in Seq(RxBufs) /\ rxData \in [RxBufs -> Frames \cup {None}]
    BY DEF TypeOK
  <2>2. /\ RxFrames \in Seq(Frames \cup {None}) /\ Len(RxFrames) = Len(rx_used)
        /\ \A i \in 1..Len(rx_used) : RxFrames[i] = rxData[rx_used[i]]
    BY <2>1, FramesSeq DEF RxFrames
  <2>. QED  BY <2>2, Zenon
<1>2. Len(s) = Len(rx_used) /\ \A i \in 1..Len(rx_used) : s[i] = rxData[rx_used[i]]
  BY <1>1, Zenon
<1>3. Reals = RealsOf(s)
  BY <1>2 DEF RealsOf, Reals
<1>4. \A i : Rank(i) = RankIn(s, i)
  BY <1>3, Zenon DEF Rank, RankIn
<1>5. /\ \A i, j \in Reals : Rank(i) = Rank(j) => i = j
      /\ \A k \in 1..Cardinality(Reals) : \E i \in Reals : Rank(i) = k
      /\ \A i \in Reals : Kept(s)[Rank(i)] = s[i]
  <2>1. /\ \A i, j \in RealsOf(s) : RankIn(s, i) = RankIn(s, j) => i = j
        /\ \A k \in 1..Cardinality(RealsOf(s)) : \E i \in RealsOf(s) : RankIn(s, i) = k
        /\ \A i \in RealsOf(s) : Kept(s)[RankIn(s, i)] = s[i]
    BY RealRanks, KeptAt
  <2>. QED  BY <1>3, <1>4, <2>1
<1>6. ASSUME NEW k \in 1..Cardinality(Reals) PROVE RealFrame(k) = Kept(s)[k]
  <2>1. PICK i \in Reals : Rank(i) = k
    BY <1>5
  <2>2. (CHOOSE j \in Reals : Rank(j) = k) = i
    BY <1>5, <2>1
  <2>3. RealFrame(k) = rxData[rx_used[i]]
    BY <2>2, Zenon DEF RealFrame
  <2>4. i \in 1..Len(rx_used)
    BY DEF Reals
  <2>. QED  BY <1>2, <1>5, <2>1, <2>3, <2>4
<1>7. PICK t : t = Kept(s)
  OBVIOUS
<1>8. t = [k \in 1..Cardinality(Reals) |-> t[k]]
  <2>1. DOMAIN t = 1..Cardinality(RealsOf(s)) /\ t = [k \in DOMAIN t |-> t[k]]
    BY <1>7 DEF Kept
  <2>. QED  BY <1>3, <2>1
<1>9. RxQueue = [k \in 1..Cardinality(Reals) |-> t[k]]
  BY <1>6, <1>7 DEF RxQueue
<1>. QED  BY <1>1, <1>7, <1>8, <1>9, Zenon

(* The same, in this state and the next.                                        *)
LEMMA RxQueueKept ==
  /\ TypeOK => RxQueue = Kept(RxFrames)
  /\ TypeOK' => RxQueue' = Kept(RxFrames)'
<1>1. (TypeOK => RxQueue = Kept(RxFrames))'
  BY QueueKept, PTL
<1>. QED  BY <1>1, QueueKept

(* The queue of frames has the one client, which receives each.                 *)
LEMMA RxClients ==
  /\ Received!Clients = {0}
  /\ \A f \in Frames : Received!Receivers(f) = {0}
<1>1. Received!Clients = {0}
  BY DEF Received!Clients
<1>2. ASSUME NEW f \in Frames PROVE Received!Receivers(f) = {0}
  <2>1. Received!Addressed(f) = {0}
    BY <1>1 DEF Received!Addressed
  <2>. QED  BY <2>1 DEF Received!Receivers
<1>. QED  BY <1>1, <1>2

(* The steps of the queue of frames.                                            *)
LEMMA RxSteps ==
  /\ \A f \in Frames : Len(RxQueue) < NUM_RX_BUFS /\ RxQueue' = Append(RxQueue, f) => Received!Next
  /\ RxQueue # <<>> /\ RxQueue' = Tail(RxQueue) => Received!Next
  /\ RxQueue' = RxQueue => UNCHANGED RxQueues
<1>0. RxQueues[0] = RxQueue /\ RxQueues' = [c \in {0} |-> RxQueue']
  BY DEF RxQueues
<1>1. ASSUME NEW f \in Frames, Len(RxQueue) < NUM_RX_BUFS, RxQueue' = Append(RxQueue, f)
      PROVE  Received!Next
  <2>1. RxQueues' = [c \in {0} |-> IF c \in {0} THEN Append(RxQueues[c], f) ELSE RxQueues[c]]
    BY <1>0, <1>1
  <2>2. \A c \in {0} : Len(RxQueues[c]) < NUM_RX_BUFS
    BY <1>0, <1>1
  <2>3. Received!Accept(f)
    BY <2>1, <2>2, RxClients, {0} \in SUBSET {0} DEF Received!Accept, RxQueues, RxQueue
  <2>. QED  BY <2>3 DEF Received!Next
<1>2. ASSUME RxQueue # <<>>, RxQueue' = Tail(RxQueue)
      PROVE  Received!Next
  <2>1. RxQueues' = [RxQueues EXCEPT ![0] = Tail(RxQueues[0])]
    BY <1>0, <1>2 DEF RxQueues
  <2>2. Received!Take(0)
    BY <1>0, <1>2, <2>1 DEF Received!Take, RxQueues, RxQueue
  <2>. QED  BY <2>2, RxClients DEF Received!Next
<1>3. ASSUME RxQueue' = RxQueue PROVE UNCHANGED RxQueues
  BY <1>0, <1>3 DEF RxQueues
<1>. QED  BY <1>1, <1>2, <1>3

(* The queue in the next state, from what its buffers then hold.                *)
LEMMA RxQueueNext ==
  ASSUME TypeOK', NEW t, t = FramesOf(rx_used', rxData')
  PROVE  RxQueue' = Kept(t)
<1>1. RxQueue' = Kept(RxFrames)'
  BY RxQueueKept
<1>2. Kept(RxFrames)' = Kept(FramesOf(rx_used', rxData'))
  BY DEF RxFrames, Kept, RealsOf, RankIn, FramesOf
<1>. QED  BY <1>1, <1>2

(* A queue of different buffers keeps no more frames than there are buffers.    *)
LEMMA RxQueueLen ==
  ASSUME TypeOK
  PROVE  RxQueue \in Seq(Frames \cup {None}) /\ Len(RxQueue) \in Nat /\ Len(RxQueue) <= Len(rx_used)
<1>1. PICK s \in Seq(Frames \cup {None}) : s = RxFrames /\ Len(s) = Len(rx_used)
  <2>1. rx_used \in Seq(RxBufs) /\ rxData \in [RxBufs -> Frames \cup {None}]
    BY DEF TypeOK
  <2>2. RxFrames \in Seq(Frames \cup {None}) /\ Len(RxFrames) = Len(rx_used)
    BY <2>1, FramesSeq DEF RxFrames
  <2>. QED  BY <2>2, Zenon
<1>2. Kept(s) \in Seq(Frames \cup {None}) /\ Len(Kept(s)) = Cardinality(RealsOf(s))
  BY KeptAt
<1>3. RealsOf(s) \subseteq 1..Len(s) /\ Len(s) \in Nat
  BY DEF RealsOf
<1>4. Cardinality(RealsOf(s)) \in Nat /\ Cardinality(RealsOf(s)) <= Len(s)
  <2>1. \A n \in Nat : IsFiniteSet(1..n) /\ Cardinality(1..n) = IF 1 > n THEN 0 ELSE n - 1 + 1
    BY FS_Interval
  <2>2. \A n \in Nat : (IF 1 > n THEN 0 ELSE n - 1 + 1) = n
    OBVIOUS
  <2>3. IsFiniteSet(1..Len(s)) /\ Cardinality(1..Len(s)) = Len(s)
    BY <1>3, <2>1, <2>2
  <2>. QED  BY <1>3, <2>3, FS_Subset, FS_CardinalityType
<1>5. RxQueue = Kept(s)
  BY <1>1, RxQueueKept
<1>6. Len(s) = Len(rx_used)
  BY <1>1, Zenon
<1>. QED  BY <1>2, <1>4, <1>5, <1>6

(* What comes into the queue: a frame, or, of one that is dropped, nothing.     *)
LEMMA RxComplete ==
  ASSUME TypeOK, Whole, RxPlaces, TypeOK', RxPlaces', eth_rx_complete
  PROVE  \/ Len(RxQueue) < NUM_RX_BUFS /\ \E f \in Frames : RxQueue' = Append(RxQueue, f)
         \/ RxQueue' = RxQueue
<1>0. /\ nicRx \in Seq(RxBufs) /\ rx_used \in Seq(RxBufs) /\ rx_used' \in Seq(RxBufs)
      /\ Len(rx_used) \in Nat /\ \A i \in 1..Len(rx_used) : rx_used[i] \in RxBufs
      /\ rxData \in [RxBufs -> Frames \cup {None}] /\ rxData' \in [RxBufs -> Frames \cup {None}]
      /\ Apart(nicRx, rx_used) /\ IsInjective(rx_used')
      /\ arrived # <<>>
  BY DEF TypeOK, RxPlaces, eth_rx_complete
<1>1. PICK n \in 1..2 : n = num_bufs
  BY <1>0, Cookies
<1>2. PICK v \in Frames \cup {None} : v = IF n = 1 THEN Head(arrived).frame ELSE None
  BY <1>0, <1>1, Cookies
<1>3. PICK p \in Seq(RxBufs) :
        /\ p = cookies /\ Len(p) = n
        /\ \A k \in 1..n : p[k] \in RxBufs /\ Contains(nicRx, p[k])
  <2>1. n \in 0..Len(nicRx) /\ cookies = SubSeq(nicRx, 1, n) /\ Len(nicRx) \in Nat
    BY <1>0, <1>1, Cookies DEF cookies
  <2>2. PICK q \in Seq(RxBufs) : /\ q = SubSeq(nicRx, 1, n) /\ Len(q) = n
                                 /\ \A k \in 1..n : q[k] = nicRx[k]
    <3>1. /\ SubSeq(nicRx, 1, n) \in Seq(RxBufs) /\ Len(SubSeq(nicRx, 1, n)) = n
          /\ \A k \in 1..n : SubSeq(nicRx, 1, n)[k] = nicRx[k]
      BY <1>0, <2>1, SeqParts
    <3>. QED  BY <3>1, Zenon
  <2>3. Len(q) = n /\ \A k \in 1..n : q[k] = nicRx[k]
    BY <2>2, Zenon
  <2>4. ASSUME NEW k \in 1..n PROVE q[k] \in RxBufs /\ Contains(nicRx, q[k])
    <3>1. k \in 1..Len(nicRx) /\ nicRx[k] \in RxBufs
      BY <1>0, <2>1
    <3>. QED  BY <2>3, <3>1 DEF Contains
  <2>. QED  BY <2>1, <2>2, <2>4, Zenon
<1>4. Len(p) = n /\ \A k \in 1..n : p[k] \in RxBufs /\ Contains(nicRx, p[k])
  BY <1>3, Zenon
<1>5. PICK u \in Seq(RxBufs) :
        /\ u = rx_used' /\ Len(u) = Len(rx_used) + n
        /\ \A i \in 1..Len(rx_used) : u[i] = rx_used[i]
        /\ \A k \in 1..n : u[Len(rx_used) + k] = p[k]
  <2>1. rx_used' = rx_used \o p
    BY <1>3, Zenon DEF eth_rx_complete
  <2>2. /\ rx_used \o p \in Seq(RxBufs) /\ Len(rx_used \o p) = Len(rx_used) + Len(p)
        /\ \A i \in 1..Len(rx_used) : (rx_used \o p)[i] = rx_used[i]
        /\ \A i \in 1..Len(p) : (rx_used \o p)[Len(rx_used) + i] = p[i]
    BY <1>0, SeqBehind
  <2>. QED  BY <1>4, <2>1, <2>2, Zenon
<1>6. /\ Len(u) = Len(rx_used) + n /\ IsInjective(u)
      /\ \A i \in 1..Len(rx_used) : u[i] = rx_used[i]
      /\ \A k \in 1..n : u[Len(rx_used) + k] = p[k]
  BY <1>0, <1>5, Zenon
<1>7. /\ \A i \in 1..Len(rx_used) : rxData'[rx_used[i]] = rxData[rx_used[i]]
      /\ \A k \in 1..n : rxData'[p[k]] = v
  <2>1. \A b \in RxBufs : rxData'[b] = IF ~Contains(p, b) THEN rxData[b] ELSE v
    BY <1>1, <1>2, <1>3 DEF eth_rx_complete
  <2>2. \A k \in 1..n : Contains(p, p[k])
    BY <1>4 DEF Contains
  <2>3. \A i \in 1..Len(rx_used) : ~Contains(p, rx_used[i])
    <3>1. \A i \in 1..Len(rx_used) : Contains(rx_used, rx_used[i])
      BY DEF Contains
    <3>2. \A x : Contains(p, x) => Contains(nicRx, x)
      BY <1>4 DEF Contains
    <3>. QED  BY <1>0, <3>1, <3>2 DEF Apart
  <2>. QED  BY <1>0, <1>4, <2>1, <2>2, <2>3
<1>8. PICK s \in Seq(Frames \cup {None}) :
        /\ s = RxFrames /\ Len(s) = Len(rx_used)
        /\ \A i \in 1..Len(rx_used) : s[i] = rxData[rx_used[i]]
  <2>1. /\ RxFrames \in Seq(Frames \cup {None}) /\ Len(RxFrames) = Len(rx_used)
        /\ \A i \in 1..Len(rx_used) : RxFrames[i] = rxData[rx_used[i]]
    BY <1>0, FramesSeq DEF RxFrames
  <2>. QED  BY <2>1, Zenon
<1>9. PICK t \in Seq(Frames \cup {None}) :
        /\ t = FramesOf(rx_used', rxData') /\ Len(t) = Len(u)
        /\ \A i \in 1..Len(u) : t[i] = rxData'[u[i]]
  <2>1. /\ FramesOf(u, rxData') \in Seq(Frames \cup {None}) /\ Len(FramesOf(u, rxData')) = Len(u)
        /\ \A i \in 1..Len(u) : FramesOf(u, rxData')[i] = rxData'[u[i]]
    BY <1>0, FramesSeq
  <2>. QED  BY <1>5, <2>1, Zenon
<1>10. RxQueue = Kept(s) /\ RxQueue' = Kept(t)
  BY <1>8, <1>9, RxQueueKept, RxQueueNext
<1>11. /\ Len(s) = Len(rx_used) /\ Len(t) = Len(s) + n
       /\ \A i \in 1..Len(s) : t[i] = s[i]
       /\ \A k \in 1..n : t[Len(s) + k] = v
  <2>1. /\ Len(s) = Len(rx_used) /\ Len(t) = Len(u)
        /\ \A i \in 1..Len(rx_used) : s[i] = rxData[rx_used[i]]
        /\ \A i \in 1..Len(u) : t[i] = rxData'[u[i]]
    BY <1>8, <1>9, Zenon
  <2>2. \A i \in 1..Len(rx_used) : i \in 1..Len(u)
    BY <1>0, <1>6
  <2>3. \A k \in 1..n : Len(rx_used) + k \in 1..Len(u)
    BY <1>0, <1>6
  <2>4. \A i \in 1..Len(s) : t[i] = s[i]
    BY <1>6, <1>7, <2>1, <2>2
  <2>5. ASSUME NEW k \in 1..n PROVE t[Len(s) + k] = v
    <3>1. t[Len(rx_used) + k] = rxData'[u[Len(rx_used) + k]]
      BY <2>1, <2>3, Zenon
    <3>2. rxData'[u[Len(rx_used) + k]] = v
      BY <1>6, <1>7, Zenon
    <3>. QED  BY <2>1, <3>1, <3>2, Zenon
  <2>. QED  BY <1>6, <2>1, <2>4, <2>5
<1>12. CASE n = 1
  <2>1. v \in Frames /\ v # None
    BY <1>0, <1>2, <1>12, AsyncNats, Cookies
  <2>2. Kept(t) = Append(Kept(s), v)
    <3>1. Len(t) = Len(s) + 1 /\ t[Len(s) + 1] = v /\ \A i \in 1..Len(s) : t[i] = s[i]
      BY <1>11, <1>12
    <3>. QED  BY <2>1, <3>1, KeptAppend
  <2>3. Len(RxQueue) < NUM_RX_BUFS
    <3>1. Len(u) <= NUM_RX_BUFS
      BY <1>6, AsyncNats, HoldsAtMost DEF RxBufs
    <3>2. Len(rx_used) + 1 <= NUM_RX_BUFS
      BY <1>6, <1>12, <3>1
    <3>. QED  BY <1>0, <3>2, AsyncNats, RxQueueLen
  <2>. QED  BY <1>10, <2>1, <2>2, <2>3
<1>13. CASE n = 2
  <2>1. v = None
    BY <1>2, <1>13
  <2>2. PICK w \in Seq(Frames \cup {None}) : /\ Len(w) = Len(s) + 1 /\ w[Len(s) + 1] = v
                                             /\ \A i \in 1..Len(s) : w[i] = s[i]
    <3>1. /\ Append(s, v) \in Seq(Frames \cup {None}) /\ Len(Append(s, v)) = Len(s) + 1
          /\ \A i \in 1..Len(s) : Append(s, v)[i] = s[i]
          /\ Append(s, v)[Len(s) + 1] = v
      BY AppendProperties
    <3>. QED  BY <3>1, Zenon
  <2>3. Kept(w) = Kept(s)
    BY <2>1, <2>2, KeptAppend
  <2>4. Len(t) = Len(w) + 1 /\ t[Len(w) + 1] = v /\ \A i \in 1..Len(w) : t[i] = w[i]
    <3>1. Len(s) \in Nat
      OBVIOUS
    <3>2. Len(w) + 1 = Len(s) + 2 /\ Len(t) = Len(s) + 2
      BY <1>11, <1>13, <2>2, <3>1
    <3>3. t[Len(s) + 2] = v /\ t[Len(s) + 1] = v
      BY <1>11, <1>13
    <3>4. ASSUME NEW i \in 1..Len(w) PROVE t[i] = w[i]
      <4>1. i \in 1..Len(s) \/ i = Len(s) + 1
        BY <2>2, <3>1
      <4>. QED  BY <1>11, <2>2, <3>3, <4>1
    <3>. QED  BY <3>1, <3>2, <3>3, <3>4
  <2>5. Kept(t) = Kept(w)
    BY <2>1, <2>4, KeptAppend
  <2>. QED  BY <1>10, <2>3, <2>5
<1>. QED  BY <1>12, <1>13

(* What the stack takes is the oldest frame, or a dropped one's buffer.         *)
LEMMA RxPoll ==
  ASSUME TypeOK, RxPlaces, TypeOK', pico_eth_poll
  PROVE  (RxQueue # <<>> /\ RxQueue' = Tail(RxQueue)) \/ RxQueue' = RxQueue
<1>0. /\ rx_used \in Seq(RxBufs) /\ IsInjective(rx_used) /\ rx_used # <<>>
      /\ rxData \in [RxBufs -> Frames \cup {None}] /\ rxData' \in [RxBufs -> Frames \cup {None}]
      /\ \A i \in 1..Len(rx_used) : rx_used[i] \in RxBufs
  <2>1. rx_used \in Seq(RxBufs) /\ rxData \in [RxBufs -> Frames \cup {None}]
    BY DEF TypeOK
  <2>2. rxData' \in [RxBufs -> Frames \cup {None}]
    BY DEF TypeOK
  <2>3. IsInjective(rx_used) /\ rx_used # <<>>
    BY DEF RxPlaces, pico_eth_poll
  <2>4. \A i \in 1..Len(rx_used) : rx_used[i] \in RxBufs
    BY <2>1
  <2>. QED  BY <2>1, <2>2, <2>3, <2>4
<1>1. /\ Len(rx_used) \in Nat /\ Len(rx_used) >= 1 /\ Head(rx_used) = rx_used[1]
      /\ Head(rx_used) \in RxBufs
  BY <1>0, SeqOldest
<1>2. PICK u \in Seq(RxBufs) : /\ u = rx_used' /\ Len(u) = Len(rx_used) - 1
                               /\ \A i \in 1..Len(rx_used) - 1 : u[i] = rx_used[i + 1]
  <2>1. rx_used' = Tail(rx_used)
    BY DEF pico_eth_poll
  <2>2. /\ Tail(rx_used) \in Seq(RxBufs) /\ Len(Tail(rx_used)) = Len(rx_used) - 1
        /\ \A i \in 1..Len(rx_used) - 1 : Tail(rx_used)[i] = rx_used[i + 1]
    BY <1>0, SeqOldest
  <2>. QED  BY <2>1, <2>2, Zenon
<1>3. Len(u) = Len(rx_used) - 1 /\ \A i \in 1..Len(rx_used) - 1 : u[i] = rx_used[i + 1]
  BY <1>2, Zenon
<1>4. PICK s \in Seq(Frames \cup {None}) :
        /\ s = RxFrames /\ Len(s) = Len(rx_used)
        /\ \A i \in 1..Len(rx_used) : s[i] = rxData[rx_used[i]]
  <2>1. /\ RxFrames \in Seq(Frames \cup {None}) /\ Len(RxFrames) = Len(rx_used)
        /\ \A i \in 1..Len(rx_used) : RxFrames[i] = rxData[rx_used[i]]
    BY <1>0, FramesSeq DEF RxFrames
  <2>. QED  BY <2>1, Zenon
<1>5. PICK t \in Seq(Frames \cup {None}) :
        /\ t = FramesOf(rx_used', rxData') /\ Len(t) = Len(u)
        /\ \A i \in 1..Len(u) : t[i] = rxData'[u[i]]
  <2>1. /\ FramesOf(u, rxData') \in Seq(Frames \cup {None}) /\ Len(FramesOf(u, rxData')) = Len(u)
        /\ \A i \in 1..Len(u) : FramesOf(u, rxData')[i] = rxData'[u[i]]
    BY <1>0, FramesSeq
  <2>. QED  BY <1>2, <2>1, Zenon
<1>6. RxQueue = Kept(s) /\ RxQueue' = Kept(t)
  BY <1>4, <1>5, RxQueueKept, RxQueueNext
<1>7. Len(s) >= 1 /\ Len(t) = Len(s) - 1 /\ \A i \in 1..Len(t) : t[i] = s[i + 1]
  <2>1. /\ Len(s) = Len(rx_used) /\ Len(t) = Len(u)
        /\ \A i \in 1..Len(rx_used) : s[i] = rxData[rx_used[i]]
        /\ \A i \in 1..Len(u) : t[i] = rxData'[u[i]]
    BY <1>4, <1>5, Zenon
  <2>2. \A i \in 1..Len(t) : i \in 1..Len(u) /\ i \in 1..Len(rx_used) - 1 /\ i + 1 \in 1..Len(rx_used) /\ i + 1 # 1
    BY <1>1, <1>3, <2>1
  <2>3. \A i \in 1..Len(rx_used) : i # 1 => rx_used[i] # rx_used[1]
    BY <1>0, <1>1 DEF IsInjective
  <2>4. \A b \in RxBufs : b # rx_used[1] => rxData'[b] = rxData[b]
    BY <1>0, <1>1 DEF pico_eth_poll
  <2>5. ASSUME NEW i \in 1..Len(t) PROVE t[i] = s[i + 1]
    <3>1. t[i] = rxData'[u[i]] /\ u[i] = rx_used[i + 1]
      BY <1>3, <2>1, <2>2, Zenon
    <3>2. rxData'[rx_used[i + 1]] = rxData[rx_used[i + 1]]
      BY <1>0, <2>2, <2>3, <2>4, Zenon
    <3>3. s[i + 1] = rxData[rx_used[i + 1]]
      BY <2>1, <2>2, Zenon
    <3>. QED  BY <3>1, <3>2, <3>3, Zenon
  <2>. QED  BY <1>1, <1>3, <2>1, <2>5
<1>8. /\ s[1] = None => Kept(t) = Kept(s)
      /\ s[1] # None => Kept(s) # <<>> /\ Kept(t) = Tail(Kept(s))
  BY <1>7, KeptTail
<1>. QED  BY <1>6, <1>8

(* Each step is one of the queue's, or leaves it as it is.                      *)
LEMMA RxStep ==
  ASSUME IInv, Next
  PROVE  Received!Next \/ UNCHANGED RxQueues
<1>0. /\ TypeOK /\ Whole /\ RxPlaces
  BY DEF IInv
<1>1. ASSUME rx_used' = rx_used, rxData' = rxData
      PROVE  UNCHANGED RxQueues
  <2>1. RxQueue' = RxQueue
    BY <1>1 DEF RxQueue, Reals, Rank, RealFrame
  <2>. QED  BY <2>1, RxSteps
<1>2. TypeOK' /\ RxPlaces'
  <2>1. TypeOK'
    BY <1>0, ServerType, OthersType DEF Next, Others
  <2>. QED  BY <1>0, <2>1, RxPlacesStep
<1>3. CASE eth_rx_complete
  BY <1>0, <1>2, <1>3, RxComplete, RxSteps
<1>4. CASE pico_eth_poll
  BY <1>0, <1>2, <1>4, RxPoll, RxSteps
<1>5. CASE Server /\ ~eth_rx_complete
  BY <1>1, <1>5 DEF Server, server_run, eth_tx_complete, raw_completed, eth_allocate_rx_buf,
     raw_filled, virt_queue_handle_irq, drained, raw_tx_enqueued, raw_tx_refused,
     notify_client_blocked, notify_client, rings
<1>6. CASE Others /\ ~pico_eth_poll
  BY <1>1, <1>6 DEF Others, client_init, client_run, pico_stack_tick, pico_eth_send, Send,
     pico_eth_poll_break, notify_server, tick, receive, send, rings
<1>. QED
  BY <1>3, <1>4, <1>5, <1>6 DEF Next, Others

(* Frames reach the stack unaltered, in order, and once each, those dropped     *)
(* left out, and no more wait than there are buffers.                           *)
THEOREM FramesDelivered == Spec => DeliversFrames
<1>1. Init => Received!Init
  <2>. SUFFICES ASSUME Init PROVE RxQueues = [c \in Received!Clients |-> <<>>]
    BY DEF Received!Init, RxQueues, RxQueue
  <2>1. Reals = {} /\ Cardinality({}) = 0
    BY FS_EmptySet DEF Init, Reals
  <2>2. RxQueue = <<>>
    BY <2>1 DEF RxQueue
  <2>. QED  BY <2>2, RxClients DEF RxQueues
<1>2. IInv /\ [Next]_vars => [Received!Next]_RxQueues
  <2>. SUFFICES ASSUME IInv, [Next]_vars PROVE Received!Next \/ UNCHANGED RxQueues
    OBVIOUS
  <2>1. CASE Next
    BY <2>1, RxStep
  <2>2. CASE UNCHANGED vars
    BY <2>2 DEF vars, rings, RxQueues, RxQueue, Reals, Rank, RealFrame
  <2>. QED  BY <2>1, <2>2
<1>3. IInv /\ [Next]_vars =>
        [Received!Next]_[c \in {0} |-> [k \in 1..Cardinality(Reals) |-> RealFrame(k)]]
  BY <1>2 DEF RxQueues, RxQueue
<1>. QED  BY <1>1, <1>3, InvariantHolds, PTL DEF Spec, DeliversFrames, Received!Spec
===============================================================================
