------------------------------ MODULE EthLink ------------------------------
(***************************************************************************)
(* Ethdriver with its clients: PicoServer components, each with a single   *)
(* thread that waits for notifications and runs the picoTCP stack.         *)
(*                                                                         *)
(* The timer's notification calls stack_tick_callback; pico_stack_tick     *)
(* then lets pico_eth_poll fetch at most LoopScore frames.  The            *)
(* notification of Ethdriver wakes the thread as well, but no handler that *)
(* polls is registered for it: reception goes at the timer's pace.         *)
(***************************************************************************)
EXTENDS Ethdriver

CONSTANT LoopScore  \* what picoTCP lets a device process at a time (external)

ASSUME LoopAssumption == LoopScore \in Nat \ {0}

VARIABLES
  pico,   \* the thread of each client: "wait", or "poll" in pico_eth_poll
  score,  \* loop_score
  tick    \* the notification of the timer is pending

linkVars == << vars, pico, score, tick >>

(* The 10 ms timer started by init_pico_post. *)
timer_periodic(c) ==
  /\ ~tick[c]
  /\ tick' = [tick EXCEPT ![c] = TRUE]
  /\ UNCHANGED << vars, pico, score >>

stack_tick_callback(c) ==
  /\ pico[c] = "wait"
  /\ tick[c]
  /\ tick' = [tick EXCEPT ![c] = FALSE]
  /\ pico' = [pico EXCEPT ![c] = "poll"]
  /\ score' = [score EXCEPT ![c] = LoopScore]
  /\ UNCHANGED vars

(* Mutant: the loop ends without a frame, whatever is left to fetch. *)
pico_eth_poll_skips(c) ==
  /\ pico[c] = "poll"
  /\ phase = "idle"
  /\ pico' = [pico EXCEPT ![c] = "wait"]
  /\ UNCHANGED << vars, score, tick >>

(* One round of the loop: ethdriver_rx, and what its status says. *)
pico_eth_poll(c) ==
  /\ pico[c] = "poll"
  /\ client_rx(c)
  /\ score' = [score EXCEPT ![c] = IF RxStatus(c) = -1 THEN @ ELSE @ - 1]
  /\ pico' = [pico EXCEPT ![c] =
                IF RxStatus(c) = 1 /\ score[c] > 1 THEN "poll" ELSE "wait"]
  /\ UNCHANGED tick

(* The stack sends while it processes what it has received. *)
pico_eth_send(c, p) ==
  /\ pico[c] = "poll"
  /\ client_tx(c, p)
  /\ UNCHANGED << pico, score, tick >>

(* The notification of Ethdriver: the thread goes back to waiting. *)
ethdriver_notification(c) ==
  /\ pico[c] = "wait"
  /\ client_wait(c)
  /\ UNCHANGED << pico, score, tick >>

LinkInit ==
  /\ Init
  /\ pico = [c \in Clients |-> "wait"]
  /\ score = [c \in Clients |-> 0]
  /\ tick = [c \in Clients |-> FALSE]

LinkNext ==
  \/ Driver /\ UNCHANGED << pico, score, tick >>
  \/ \E c \in Clients :
       \/ timer_periodic(c)
       \/ stack_tick_callback(c)
       \/ pico_eth_poll(c)
       \/ ethdriver_notification(c)
       \/ \E p \in Packets : pico_eth_send(c, p)

(* Ethdriver's thread runs, and its driver's loops are over the finite     *)
(* rings.                                                                  *)
Handler ==
  raw_fill \/ eth_allocate_rx_buf \/ raw_done \/ raw_tx_enqueued \/ raw_tx_refused

(* The timer and the threads run.  An RPC is served in the end although    *)
(* interrupts keep coming: they do not take all of Ethdriver's time.       *)
Fairness ==
  /\ WF_linkVars(Handler /\ UNCHANGED << pico, score, tick >>)
  /\ \A c \in Clients :
       /\ WF_linkVars(timer_periodic(c))
       /\ WF_linkVars(stack_tick_callback(c))
       /\ SF_linkVars(pico_eth_poll(c))

LinkSpec == LinkInit /\ [][LinkNext]_linkVars /\ Fairness

-----------------------------------------------------------------------------
(* The oldest frame of a client's queue is fetched in the end, even when   *)
(* the poll before it stopped for lack of loop_score and the client will   *)
(* not be notified again.                                                  *)
FrameTaken ==
  \A c \in Clients : \A i \in RxSlots :
    pending_rx_tail[c] = i /\ ~Empty(c) ~> pending_rx_tail[c] # i
=============================================================================
