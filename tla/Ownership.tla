------------------------------ MODULE Ownership ------------------------------
(* What GPIOMUXServer, ClockServer and FileServer promise about a pin, a clock  *)
(* or an open file: it is granted to one client at a time, it is used by the    *)
(* client it was granted to and by nobody else, and it is given up by that      *)
(* client or, if it is of the kind that is kept, never.                         *)
CONSTANTS
    Resources,
    Kept,       \* the resources that are never given up
    Clients,
    Nobody

VARIABLES
    owner,      \* per resource: the client it is granted to, or Nobody
    user        \* per resource: the client that got, used or gave it up last

Init ==
    /\ owner = [r \in Resources |-> Nobody]
    /\ user = [r \in Resources |-> Nobody]

Acquire(r, c) ==
    /\ owner[r] = Nobody
    /\ owner' = [owner EXCEPT ![r] = c]
    /\ user' = [user EXCEPT ![r] = c]

(* A call may use several resources of its client.                              *)
Use(c) ==
    /\ \A r \in Resources : user'[r] # user[r] => owner[r] = c /\ user'[r] = c
    /\ user' = [r \in Resources |-> user'[r]]
    /\ UNCHANGED owner

(* Only the owner gives a resource up.                                          *)
Release(r, c) ==
    /\ r \notin Kept
    /\ owner[r] = c
    /\ owner' = [owner EXCEPT ![r] = Nobody]
    /\ user' = [user EXCEPT ![r] = c]

Next ==
    \/ \E r \in Resources, c \in Clients : Acquire(r, c) \/ Release(r, c)
    \/ \E c \in Clients : Use(c)

Spec == Init /\ [][Next]_<<owner, user>>
===============================================================================
