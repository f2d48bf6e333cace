----------------------------- MODULE EthFrames -----------------------------
(***************************************************************************)
(* What the Ethdriver component promises its clients about reception: each *)
(* client has a bounded first-in first-out queue of the frames addressed   *)
(* to it.  A frame may be dropped when it arrives, never afterwards; the   *)
(* client takes the frames one at a time, in order.                        *)
(***************************************************************************)
EXTENDS Integers, Sequences

CONSTANTS NumClients, Capacity, Frames, FrameDst, MacOf, Group

Clients == 0 .. NumClients - 1

VARIABLE queue   \* the frames each client has still to take

(* The clients that a frame may reach: the first one with its destination  *)
(* as its address, all of them if there is none and it is a broadcast.     *)
Addressed(f) == {c \in Clients : MacOf[c] = FrameDst[f]}

Receivers(f) ==
  IF Addressed(f) # {}
  THEN {c \in Addressed(f) : \A d \in Addressed(f) : c <= d}
  ELSE IF FrameDst[f] = Group THEN Clients ELSE {}

Init == queue = [c \in Clients |-> << >>]

Accept(f) ==
  \E To \in SUBSET Receivers(f) :
    /\ \A c \in To : Len(queue[c]) < Capacity
    /\ queue' = [c \in Clients |-> IF c \in To THEN Append(queue[c], f) ELSE queue[c]]

Take(c) ==
  /\ queue[c] # << >>
  /\ queue' = [queue EXCEPT ![c] = Tail(queue[c])]

Next ==
  \/ \E f \in Frames : Accept(f)
  \/ \E c \in Clients : Take(c)

Spec == Init /\ [][Next]_queue
=============================================================================
