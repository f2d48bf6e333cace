---------------------------- MODULE MCEthdriver ----------------------------
(* Instances of Ethdriver for TLC. *)
EXTENDS Ethdriver, TLC

CONSTANTS mac0, mac1, noMac, f0, f1, fg, fx, p0

(* Two clients with a mac each. *)
MCMacOf == (0 :> mac0) @@ (1 :> mac1)

(* A frame for each client, a broadcast, and one for nobody. *)
MCFrameDst == (f0 :> mac0) @@ (f1 :> mac1) @@ (fg :> Group) @@ (fx :> noMac)
=============================================================================
