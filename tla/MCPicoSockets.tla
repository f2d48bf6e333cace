---------------------------- MODULE MCPicoSockets ----------------------------
(* Uses of the sockets of PicoServer, for TLC.                                  *)
EXTENDS PicoSockets

(* Two clients open, listen, accept and close; the stack drops sockets.         *)
MCTables == [clients |-> {0, 1}, addresses |-> {"s1", "s2"}, events |-> {"CONN"},
             opens |-> 2, msgs |-> 0, reuse |-> "owner"]

(* One asynchronous socket, with messages in both directions.                   *)
MCQueues == [clients |-> {0}, addresses |-> {"s1"}, events |-> {"RD", "WR"},
             opens |-> 1, msgs |-> 3, reuse |-> "nobody"]

MCUses == {MCTables, MCQueues}

ASSUME UsesKept == \A u \in MCUses : AddressesKept(u) /\ QueuesKept(u)

(* Two clients, one socket at a time.                                           *)
MCNotify == {[MCTables EXCEPT !.addresses = {"s1"}, !.reuse = "nobody"]}
===============================================================================
