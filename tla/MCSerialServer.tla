-------------------------- MODULE MCSerialServer --------------------------
(* Instances of SerialServer for TLC. *)
EXTENDS SerialServer

CONSTANTS x, y

Keys == {"enter", "@", "m", "M"} \cup DOMAIN DigitOf

(* A processed and a raw writer of client 1, character by character: the   *)
(* raw stream is the first behind the colour table, and has no bit.        *)
MCSingle ==
  [clients |-> {1}, typed |-> {},
   texts |-> [t \in Threads |->
     CASE t = "processed_putchar" -> {<< x >>, << LF >>}
       [] t = "raw_putchar"       -> {<< x >>, << CR >>, << LF >>}
       [] OTHER                   -> {}]]

(* Writers that may or may not agree, one of them in batches, and commands: *)
(* the second one's slot of the colour table is NULL.                      *)
MCAgree ==
  [clients |-> {0, MAX_CLIENTS - 1}, typed |-> Keys,
   texts |-> [t \in Threads |->
     CASE t = "processed_putchar" -> {<< x >>, << LF >>}
       [] t = "processed_batch"   -> {<< x, x >>}
       [] OTHER                   -> {}]]

(* Ordinary characters of both kinds of stream. *)
MCShort ==
  [clients |-> {0}, typed |-> {},
   texts |-> [t \in Threads |->
     CASE t = "processed_putchar" -> {<< x >>, << LF >>}
       [] t = "raw_batch"         -> {<< x >>}
       [] OTHER                   -> {}]]

MCUses == {MCSingle, MCAgree}
MCOverflow == {MCShort}
MCDigitOf == ("1" :> 1) @@ ("2" :> 2)
MCNoDigits == [k \in {} |-> 0]
=============================================================================
