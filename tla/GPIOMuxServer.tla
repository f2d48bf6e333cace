---------------------------- MODULE GPIOMuxServer ----------------------------
(* components/GPIOMUXServer: gpio.c keeps a table of pins and their owners,     *)
(* mux.c passes its calls on to the hardware; both interfaces are served by the *)
(* one thread. libGPIOMUXServer-client/gpio.c and mux.c are the clients' side.  *)
(* templates/seL4GPIOServer-to.template.c adds the pins assigned to clients.    *)
EXTENDS SingleThreaded

CONSTANTS
    MaxPin,         \* MAX_GPIO_ID
    desired_pins,   \* badge at gpio -> the pins the configuration assigns to it
    Features,       \* of the pin multiplexer
    Levels          \* a client passes: 0 is LOW, 1 is HIGH, others are neither

Pins == 0..MaxPin
PinIds == Pins \cup BadIds       \* what a client passes

(* The template refuses a pin that two clients ask for.                         *)
ASSUME PinsAssumption ==
    /\ MaxPin \in Nat /\ BadIds \cap Pins = {}
    /\ desired_pins \in [Badges("gpio") -> SUBSET Pins]
    /\ \A b, d \in Badges("gpio") : b # d => desired_pins[b] \cap desired_pins[d] = {}

VARIABLES
    gpio_table,     \* per pin: the owner's number, or -1, and whether initialised
    level,          \* hardware, per pin: the level it drives
    pin_user,       \* history, per pin: the thread whose call reached it last
    features,       \* hardware: the features enabled
    gpios           \* per thread: the pins it holds a gpio_t of

gpioVars == <<gpio_table, level, pin_user, features, gpios>>

GpioInit ==
    /\ gpio_table = [p \in Pins |-> [initialised |-> FALSE, owner |-> -1]]
    /\ level = [p \in Pins |-> 0]
    /\ pin_user = [p \in Pins |-> None]
    /\ features = {}
    /\ gpios = [t \in Threads |-> {}]

GpioTypeOK ==
    /\ gpio_table \in [Pins -> [initialised : BOOLEAN, owner : -1..(Len(from_ends["gpio"]) - 1)]]
    /\ level \in [Pins -> {0, 1}]
    /\ pin_user \in [Pins -> Threads \cup {None}]
    /\ features \subseteq Features
    /\ gpios \in [Threads -> SUBSET Pins]

-------------------------------------------------------------------------------
(* <interface>_get_pin_assignee: a badge, or 0.                                 *)
get_pin_assignee(pin) ==
    IF \E b \in Badges("gpio") : pin \in desired_pins[b]
    THEN CHOOSE b \in Badges("gpio") : pin \in desired_pins[b]
    ELSE 0

check_client_owns_pin(pin, client) == gpio_table[pin].owner = client

\* Mutant: a pin is granted whoever has it.
check_pin_initialised_never(pin) == FALSE
check_pin_initialised(pin) == gpio_table[pin].initialised

(* gpio_new, of the platform's library, works or fails.                         *)
Grant(pin, client, works) ==
    IF works
    THEN /\ gpio_table' = [gpio_table EXCEPT ![pin] = [initialised |-> TRUE, owner |-> client]]
         /\ pin_user' = [pin_user EXCEPT ![pin] = Caller("gpiomux")]
         /\ ReplyRecv("gpiomux", 0)
    ELSE UNCHANGED <<gpio_table, pin_user>> /\ ReplyRecv("gpiomux", -1)

(* The reservation that is looked up is that of the pin with the client's       *)
(* number.                                                                      *)
gpio_init_pin ==
    /\ Receives("gpio", "init_pin") /\ handle_message("gpio")
    /\ LET t == Caller("gpiomux")
           pin == msg[t].pin
           client == get_sender_id("gpio")
       IN  IF pin \notin Pins \/ msg[t].dir = "irq"
           THEN ReplyRecv("gpiomux", -1) /\ UNCHANGED <<gpio_table, pin_user>>
           ELSE IF check_client_owns_pin(pin, client)
           THEN ReplyRecv("gpiomux", 0) /\ UNCHANGED <<gpio_table, pin_user>>
           ELSE IF get_pin_assignee(client) # 0 \/ check_pin_initialised(pin)
           THEN ReplyRecv("gpiomux", -1) /\ UNCHANGED <<gpio_table, pin_user>>
           ELSE \E works \in BOOLEAN : Grant(pin, client, works)
    /\ UNCHANGED <<level, features, gpios>>

gpio_set_level ==
    /\ Receives("gpio", "set_level") /\ handle_message("gpio")
    /\ LET t == Caller("gpiomux")
           pin == msg[t].pin
       IN  IF /\ pin \in Pins
              /\ check_client_owns_pin(pin, get_sender_id("gpio"))
              /\ msg[t].level \in {0, 1}
           THEN /\ pin_user' = [pin_user EXCEPT ![pin] = t]
                /\ \/ level' = [level EXCEPT ![pin] = msg[t].level] /\ ReplyRecv("gpiomux", 0)
                   \/ UNCHANGED level /\ ReplyRecv("gpiomux", -1)
           ELSE ReplyRecv("gpiomux", -1) /\ UNCHANGED <<level, pin_user>>
    /\ UNCHANGED <<gpio_table, features, gpios>>

gpio_read_level ==
    /\ Receives("gpio", "read_level") /\ handle_message("gpio")
    /\ LET t == Caller("gpiomux")
           pin == msg[t].pin
       IN  IF pin \in Pins /\ check_client_owns_pin(pin, get_sender_id("gpio"))
           THEN /\ pin_user' = [pin_user EXCEPT ![pin] = t]
                /\ \E read \in {level[pin], -1} : ReplyRecv("gpiomux", read)
           ELSE ReplyRecv("gpiomux", -1) /\ UNCHANGED pin_user
    /\ UNCHANGED <<gpio_table, level, features, gpios>>

(* the_mux_feature_enable, the_mux_feature_disable: any client's, and whoever   *)
(* owns the feature's pins.                                                     *)
mux_feature ==
    /\ Receives("mux", "feature") /\ handle_message("mux")
    /\ LET t == Caller("gpiomux") IN
       \/ ReplyRecv("gpiomux", -1) /\ UNCHANGED features
       \/ /\ features' = IF msg[t].enable THEN features \cup {msg[t].feature}
                                          ELSE features \ {msg[t].feature}
          /\ ReplyRecv("gpiomux", 0)
    /\ UNCHANGED <<gpio_table, level, pin_user, gpios>>

GpioServer == gpio_init_pin \/ gpio_set_level \/ gpio_read_level \/ mux_feature

-------------------------------------------------------------------------------
(* The clients: a gpio_t is filled in once init_pin has succeeded. Its methods  *)
(* pass on its pin; a component may also call the interface without the library. *)
GpioCalls(t) ==
    {[iface |-> "gpio", op |-> "init_pin", pin |-> p, dir |-> "out"] : p \in PinIds}
    \cup {[iface |-> "gpio", op |-> "init_pin", pin |-> 0, dir |-> "irq"]}
    \cup {[iface |-> "gpio", op |-> "set_level", pin |-> p, level |-> l] : p \in PinIds, l \in Levels}
    \cup {[iface |-> "gpio", op |-> "read_level", pin |-> p] : p \in PinIds}
    \cup {[iface |-> "mux", op |-> "feature", feature |-> f, enable |-> e] :
             f \in Features, e \in BOOLEAN}

GpioReturn(t) ==
    /\ Return(t) /\ msg[t].iface \in {"gpio", "mux"}
    /\ gpios' = IF msg[t].op = "init_pin" /\ ret[t] = 0
                THEN [gpios EXCEPT ![t] = @ \cup {msg[t].pin}] ELSE gpios
    /\ UNCHANGED <<gpio_table, level, pin_user, features>>
===============================================================================
