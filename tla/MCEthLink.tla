----------------------------- MODULE MCEthLink -----------------------------
(* Instances of EthLink for TLC. *)
EXTENDS EthLink, TLC

CONSTANTS mac0, f0, fg, p0

(* One client, a frame for it, and a broadcast. *)
MCMacOf == 0 :> mac0
MCFrameDst == (f0 :> mac0) @@ (fg :> Group)
=============================================================================
