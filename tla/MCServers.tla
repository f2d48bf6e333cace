------------------------------ MODULE MCServers ------------------------------
(* Two clients, connected in another order at one of the interfaces.            *)
EXTENDS Servers

MCInterfaces == {"gpio", "mux", "clock", "reset", "fs", "bpmp",
                 "pico_control", "pico_send", "pico_recv"}
MCServerOf == [i \in MCInterfaces |->
    CASE i \in {"gpio", "mux"} -> "gpiomux"
      [] i \in {"pico_control", "pico_send", "pico_recv"} -> "pico"
      [] OTHER -> i]
MCThreads == {"c0", "c1", "clock", "reset"}
MCFromEnds == [i \in MCInterfaces |->
    CASE i = "bpmp" -> <<"reset", "clock">>
      [] i = "clock" -> <<"c1", "c0">>
      [] OTHER -> <<"c0", "c1">>]
MCBadges == [i \in MCInterfaces |->
    CASE i \in {"mux", "pico_send"} -> <<3, 4>>
      [] i = "pico_recv" -> <<5, 6>>
      [] OTHER -> <<1, 2>>]
NothingAssigned == [b \in {1, 2} |-> {}]
MCPico == {"pico_control", "pico_send", "pico_recv"}
Both(interfaces) == [t \in Clients |-> interfaces]
MCScopes == {Both({"gpio", "mux"}), Both({"clock"}), Both({"fs"}), Both(MCPico),
             [t \in Clients |-> IF t = "c0" THEN {"clock"} ELSE {"reset"}]}
MCPicoOnly == {Both(MCPico)}
===============================================================================
