# A TLA+ development of seL4 global-components

The repository is a library of CAmkES components: operating-system servers (network
card, serial line, timers, clocks, pins, files) that run as separate processes on the seL4
microkernel, the connectors (templates) that link them with their clients, and two drivers that
put the picoTCP stack behind a component. A component reacts to remote procedure calls (RPC) of its clients,
to notifications (binary semaphores of seL4: signalling twice before a wait is one
signal) and to interrupts; data passes through shared memory.

Paths below are relative to the repository's root.

## 1. Inventory

| part | state | operations | what is hard |
|---|---|---|---|
| **Ethdriver** `components/Ethdriver/src/ethdriver.c` | pool of receive buffers, per client a cyclic queue of received frames and a pool of transmit buffers, `should_notify` | RPC `client_rx`, `client_tx`, `client_mac`; callbacks `eth_rx_complete`, `eth_tx_complete`, `eth_allocate_rx_buf` from the card's driver | buffers passed by pointer between four places; callbacks made inside an RPC; pool exhaustion; one notification for many frames |
| **PicoServer's Ethernet client** `components/PicoServer/src/eth_interface.c`, `components/modules/picotcp-base/picotcp-init.c` | none of its own | `pico_eth_send`, `pico_eth_poll`, `stack_tick_callback` | a poll that stops early has consumed the notification |
| **SerialServer** `components/SerialServer/src/serial.c` | output buffer per stream, last stream shown, buffer bitmask, input state machine, input ring per client | RPC `putchar`, `batch` (processed, raw), interrupt, 500 ms timer | five threads on one lock; line-wise and coalesced output; a full buffer; a ring read by another process without a lock |
| **BenchUtiliz** `components/BenchUtiliz/src/benchUtiliz.c` | measurement flag | reads commands from the serial ring | consumer of the ring above |
| **Serial virtqueues** `components/SerialServer/src/server_virtqueue.c` | one token per direction | read and write requests completed by callbacks | a second request before the first completes |
| **TimeServer** `components/TimeServer/src/time_server.c` | completed-timers mask per client, timeouts | RPC one-shot, periodic, stop, completed; timer interrupt | a timeout that races a stop or a read-and-clear |
| **Socket server** `remote-drivers/picotcp-socket-sync/server` | sockets, events and queues of each client | RPC open, bind, listen, connect, accept, send, recv, close; callbacks of picoTCP | a socket's address reused by the stack after close; events merged per socket; asynchronous transfers |
| **Ethernet over virtqueues** `remote-drivers/picotcp-ethernet-async` | rings shared by driver and stack, flags `blocked_tx`, `no_rx_bufs` | both ends' notification handlers | each end must wake the other when it frees what the other waits for |
| **Single-threaded event loop** `templates/seL4SingleThreadedComponent.template.c`, `seL4RPCNoThreads-to.template.c` | registered handlers, one endpoint, the sender's badge per interface, a saved reply capability | dispatch of RPCs and notifications of a single-threaded component | the badge outlives the call; nested calls; notifications deferred or skipped between RPCs |
| **ClockServer** `components/ClockServer` | clocks, which client has which | RPC init, get and set frequency, register child, gate | ownership by several clients; the driver calls the BPMPServer while its own caller waits |
| **GPIOMUXServer** `components/GPIOMUXServer`, `templates/seL4GPIOServer-to.template.c` | pins, which client has which | RPC init, read, write, mux | ownership by several clients |
| **ResetServer, BPMPServer** | none; memory shared with each client | RPC, forwarded to the hardware | a request and its response share the memory of one connection |
| **FileServer** `components/FileServer` | open fds, and which client opened each | RPC open, read, seek, close | fds the C library gives out again; a large read in pieces while others read |
| **PCIConfigIO** `components/PCIConfigIO/src/pci.c` | address port | RPC read, write of configuration space | address then data port, two steps |
| **RTC** | none | RPC time_date | pure I/O |
| **Connectors** `templates/`, `interfaces/` | generated glue | RPC, notification, shared data, virtqueues | badge arithmetic; signalling with the reply |
| **Modules** `components/modules` | allocators, device tree binding | initialisation only | - |

How they interact. PicoServer polls Ethdriver by RPC when its notification
or its 10 ms timer tick arrives; it offers sockets to applications; applications print
through SerialServer, whose timer is TimeServer's. Every arrow is an RPC one way
and a notification the other way, with data in a dataport both map.

Deliberate limits of the inventory: drivers (libethdrivers, libplatsupport), the virtqueue library,
picoTCP and the kernel are not in the repository. A model shows them only as what the code in
`src/` sees of them, and the definitions that do so are marked external in PROJECT.json.

## 2. Plan

Order, most important behaviour first. All of it is done:

1. `Ethdriver`, its promise `EthFrames`, and `EthdriverProofs`;
2. `EthLink`, Ethdriver composed with its clients' threads and timers;
3. `SerialServer` and `SerialServerProofs`;
4. `TimeServer` and `TimeServerProofs`;
5. `GetChar`, the ring between SerialServer and BenchUtiliz, and `GetCharProofs`;
6. `PicoSockets` and `PicoSocketsProofs`;
7. `EthAsync`, both ends of `picotcp-ethernet-async` composed over two virtqueues, and `EthAsyncProofs`;
8. `SingleThreaded`, the calls of single-threaded components, and on it `GPIOMuxServer`, `ClockServer` (with ResetServer and
   BPMPServer), `FileServer` and `PicoCalls`, composed with their clients in `Servers`, which implements `Ownership`;
   then `ServersProofs` and `HoldersProofs`.

## 3. The modules

### Ethdriver (`Ethdriver`, `EthFrames`, `MCEthdriver`)

The component has one thread, so an RPC and an interrupt exclude each other; what interleaves are
the calls made *inside* one: the driver's completion and refill callbacks, and the `eth_tx_complete` that
`raw_tx` may call before it returns. `phase` names the call the thread is in.

| code | module |
|---|---|
| `rx_bufs[]`, `num_rx_bufs` | `rx_buf_pool`, `num_rx_bufs == Len(rx_buf_pool)` |
| `pending_rx[]`, `_head`, `_tail`, `should_notify` | the variables of those names |
| `pending_tx[]`, `num_tx` | `pending_tx`, `num_tx` (the array keeps what lies above `num_tx`, as in C) |
| the card's rings | `nicRx`, `nicTx`: sets, for the card may complete in any order |
| `eth_rx_complete` | `RxUnicast`, `RxGroup`, `RxReject` by the kind of frame; `eth_rx_complete_chain` for a frame in several buffers |
| `client_rx`, `client_tx` | the actions of those names; `client_tx` ends in `raw_tx_enqueued` or `raw_tx_refused` |
| `server_init` | `Init`, then the first fill, `raw_done` |

Assumed of the driver: a `raw_tx` that has made room in its ring by completing earlier sends (`eth_tx_complete`)
does not then fail for want of room. `client_tx` takes a refused buffer back by `num_tx++`, which puts back
the right one only if nothing was pushed on the pool meanwhile (`TxSlotKept`); a driver that broke the
assumption would break the pool.

The content of a buffer matters from the time it is filled until it is fetched, so `rxData` is `None` outside
the queues. `EthFrames` is the promise to a client: a bounded FIFO of frames, at most `CLIENT_RX_BUFS - 1`;
`Ethdriver` implements one per client (`DeliversFrames`).

### EthLink

Ethdriver with the threads of its clients (PicoServer). `stack_tick_callback` starts a poll of at most
`LoopScore` frames; the notification of Ethdriver wakes the thread, but no handler registered for it polls.
Fairness: the handlers of Ethdriver's thread (loops over finite rings), the 10 ms timer and the
dispatch of its notification are weakly fair; the RPC is strongly fair, since Ethdriver may be in an
interrupt again each time its client could be served, but not for ever on a card that receives at a finite pace.
No fairness is assumed of the card: no frame need ever arrive.

### EthAsync

Both ends of `remote-drivers/picotcp-ethernet-async` over their two virtqueues, from initialisation on.

| code | module |
|---|---|
| available and used rings | `rx_avail`, `rx_used`, `tx_avail`, `tx_used`: queues of buffers; their content in `rxData`, `txData`, `None` when nobody will read it |
| `server_data_t.action`, `blocked_tx`, `no_rx_bufs` | `server_action`, `blocked_tx`, `no_rx_bufs` |
| the server's handlers | `work`, what the thread has still to do, oldest first: complete and refill (`raw_poll` or the interrupt), `handle` and `drain` (`virt_queue_handle_irq`), `notify` and `signal` (`notify_client`) |
| `state_t.action`, `num_tx` | `client_action`, `num_tx` |
| the client's thread | `client`; `ticks` and `loop_score` are the ticks of the stack still to run, and what `pico_eth_poll` may yet fetch |
| pending badges | `server_signals`, `client_signals`: seL4 merges signals, so these are sets |
| the card's rings | `nicRx`, `nicTx`: their buffers, oldest first; `arrived` has an entry for each buffer the card has filled, with the frame and whether it is the frame's last, and `sent` counts those of `nicTx` that are out |

A step is what the other side can see: one buffer at a time. A call lets the stack send while the thread is otherwise
waiting; the handlers with badge 0 do not run after it, so `client_action` stays up until the next notification. `get_mac`,
which the client calls when it starts, changes nothing and is left out, so the client may start before the server is ready.
`notify_server` runs after the tick's handler; both are registered by post-init modules, whose order the code does not fix.
The rings of the card fill and empty in order.
Fairness: both threads run, the timer is periodic, the card sends what its ring holds, and the stack does not refuse every
frame it is offered for ever. Nobody need send or receive.
Not promised, hence not stated: buffers given back by `pico_free_buf` wait for the client's next transmission, if it comes.

### SerialServer (`MCSerialServer`; proofs in `SerialServerProofs`)

`out` is the record of the output state; the functions of the code are operators on it
(`flush_buffer`, `flush_buffer_line`, `coalesced`, `overflow`), and one step puts one character, handles one tick or one key, which is
what the component's mutex makes atomic. `todo` is what is left of the RPCs being served, one
per interface thread; a `'\n'` of a processed stream becomes two steps, since the code
takes the lock twice. `out.shown` is what the step writes to the terminal, with the colour the
terminal really has then.
A colour is an entry of `all_output_colours`, row and slot, and is looked up as the code does (`ColourOf`): `COLOUR_INDEX_TO_STYLE` divides by
`MAX_CLIENTS - 1`, so that the last processed stream (11 of the source's 24) gets the second row, whose last slot is NULL because a comma is missing in each
row (serial.c:81, 96) and printing it adds nothing to the reset before; the last two raw streams (22 and 23) get a row that the table does not have.
`OwnColour` is the entry meant for a stream, and `ColourMatches` says that every other stream is shown in it.
`RoomInBuffer` is a bound of the model: a full buffer gets no further character. `internal_putchar` has no such check. After the state that `serial_overflow` shows, it
writes the next character behind the buffer, into that of the next stream, and counts it; no property or theorem says anything of what follows, nor of the length of a buffer.
The loops over streams are recursive functions of the number of streams done. The source flushes lines until a pass finds none; the model
makes at most as many passes as a buffer has characters, and `LinesEnd` proves that these are all the passes there are.
`SizesAssumption` asks for a buffer of two characters at least, for a line end has two (the source's has 4096), for two clients, since `MAX_CLIENTS - 1` is a divisor, and nothing of the mask's width.
Fairness (`FairSpec`): the timer is periodic and its thread runs.

### TimeServer

The tokens of the time manager are numbers, `cid * timers_per_client + tid`, as in the code. The time manager is external: a
table of timeouts and the interrupt handler that calls back all that have expired. When it answers `ETIME`, the
earlier timeout of the timer may be kept or dropped, since the code does not say. `client_state` is a set of bits; `TimersAssumption`
says that there are at most 32.
The history variables `asked` and `expired` are what the clients themselves could know.

### GetChar

The writer (`internal_raw_putchar`, under the server's lock) and the reader (`getchar_handler`, another
process, no lock), with a step for each access to the shared page that the other side can tell apart. Sequentially
consistent, as the source assumes ("we assume TSO").

`ServerSize` and `ClientSize` are the sizes that the two sources declare for the same ring, 4096 - 8 and 0x1000; `SizesAssumption` says that the
reader's is not the smaller. Runs and proofs have them related so. With different sizes the indices of the two ends mean the same cells only until the reader has
gone once through the server's ring (`SameRing`): `InOrder` and `Announced` speak of that time, and of all times if the sizes are the same.

### PicoSockets (`MCPicoSockets`)

Tables and asynchronous queues of the socket server. The component has one thread: a call or a callback runs
to its end, but loops over messages go one message at a time (`work`), for the client adds messages meanwhile. Messages have a length in
*parts*, a part being what the stack takes at once. Clients are numbered from 0 as
`pico_control_get_sender_id()` does; the proofs (`PicoSocketsProofs`) are for any number of them. Of the asynchronous transfers the code serves client 0 only (`client_get_socket(0, ...)`).

In this module and in SerialServer, `use`, chosen at the start among `Uses`, bounds what the clients of one behaviour do: one run covers
several uses without their product.

### The servers of single-threaded components (`SingleThreaded`, `GPIOMuxServer`, `ClockServer`, `FileServer`, `PicoCalls`, `Servers`, `Ownership`, `MCServers`; proofs in `ServersProofs`, `HoldersProofs`)

`SingleThreaded` is how a call reaches an implementation and how the answer comes back.

| code | module |
|---|---|
| the component's endpoint, and `seL4_Recv` on it | `endpoint`: the threads whose calls wait, oldest first; a component whose thread is in a call of its own receives nothing |
| `switch (badge)` in `run` | `Receives`: the caller's badge is one of the interface's |
| static `<interface>_badge`, set by `<interface>_handle_message` | `interface_badge`, `handle_message` |
| `<interface>_get_sender_id`, `_enumerate_badge`, `_buf` | the operators `get_sender_id`, `enumerate_badge`, `buf` |
| the reply capability, saved over a nested call | `reply_cap`, `CallsOut`, `Answers` |
| the message registers of a call and of its reply | `msg` (`NoCall` when the thread is in none) and `ret` (`None` until answered), per calling thread |

The table of connections (`from_ends`, `badges`) is a constant; `ConnectionsAssumption` says what `global-endpoint.template.c` and
the macros guarantee: within one component the badges of all interfaces differ. FileServer is not generated from these templates and has a
thread of its own, but is alike in all this; its sender id is the badge itself.

One action per call of each server: `gpio_init_pin`, `gpio_set_level`, `gpio_read_level`, `mux_feature`; `clock_init_clock`, `clock_freq_call`
(get and set), `clock_register_child`, `PassedOn` (the clock gate; reset lines) and, when the BPMPServer has answered, `Driver`; `the_bpmp_call`;
`fs_open`, `fs_seek`, `fs_read`, `fs_close`; `pico_open`, `pico_close`, `PassesOn` (bind, connect, listen, shutdown), `pico_get_ipv4`, `Transfer` (the three calls of `pico_send` and the
three of `pico_recv`). The hardware, the C library's table of fds and the stack answer as the code allows: a call may fail.
The clients' libraries are modelled with them: what a client holds is in `gpios`, `clks`, `fds` and `socks`, and a
`read` larger than the shared buffer is several calls (`StartRead`, `ReadMore`, `ReadReturn`). Clients may also pass numbers of no pin or clock, pins and clocks of
others, and fds they do not have open; of sockets they use those they have.

`Ownership` is what three of the servers promise about a pin, a clock and an open file. `Servers` maps to it from the servers' own tables:
the owner is the client whose number (or badge) the table holds, the user is the thread that last got the thing, used it, or gave it up. Only the owner gives it up (`Release`).
`scope` says which interfaces each client uses in a behaviour.
Fairness (`FairSpec`): every server's thread runs. That is weak fairness of each, for a call, once it is the oldest, stays so, and a nested call waits in
the BPMPServer's endpoint in the same way. Clients need not call anyone.

## 4. The runs

| run | instance | shows |
|---|---|---|
| `ethdriver` | 2 clients, 2 receive buffers, queues of 1, 2 transmit buffers each, rings of 2 | `TypeOK`; a receive buffer is in exactly one place (`RxOwned`); notified exactly when the queue becomes non-empty (`NotifyArmed`); `DeliversFrames`; a transmit buffer is in one place, and the slot `num_tx++` re-exposes after a refusal holds the refused buffer (`TxOwned`); nothing is written while it is sent (`TxInFlightStable`) |
| `eth_link` | 1 client, queue of 2 in 3 slots, `LoopScore` 1 | every queued frame is fetched in the end (`FrameTaken`), in order over the wrap-around (`DeliversFrames`); the card always has a buffer (`CardArmed`) |
| `ethasync` | 2 buffers each way, rings of 2 and 1 descriptors, `LoopScore` 1 | `TypeOK`; each buffer in one place (`InOnePlace`); no wakeup lost in either direction (`Remembered`); both directions are an EthFrames (`DeliversFrames`, `DeliversPackets`); `PacketSent` under fairness |
| `serial` | 3 clients, buffers of 3, two bits in the mask; either a processed and a raw writer of client 1, or the processed streams of clients 0 and 2 while commands are typed | `TypeOK`; nothing lost, repeated or reordered, up to a character for a full buffer (`ShownInOrder`); each stream in its own colour, or in what the table's index gives for those it misplaces (`ColourMatches`), also in multi-client mode; `MaskCovers`; lines cut only when nobody waits (`CutsAlone`); `Drained` under fairness |
| `serial_overflow` | client 0 of 2, buffers of 4 | violation, see below |
| `timeserver` | badges 2 and 3, 2 timers, clock to 2 | `TypeOK`, `OwnTimers`, `ReportsExpired`, `Wakeable` |
| `getchar_ring` | the reader's ring 7, the server's 6, 13 characters | until the reader's index leaves the server's ring: `InOrder`; every wake-up finds a character, and one left behind is announced by the next (`Announced`) |
| `getchar_sizes` | the reader's ring 5, the server's 4 | violation, see below |
| `sockets` | either 2 clients, 2 addresses, 2 sockets each, addresses used again for their own client; or 3 messages of 2 parts on one socket | `TypeOK`, `TablesAgree`, `AssertionsHold`; `MessagesKept`, `InOrder`, `GivenBackWhole` |
| `sockets_notify` | 2 clients, 1 address | violation, see below |
| `servers` | 2 clients, numbered the other way round at the ClockServer; 1 pin, 1 clock, fds 3 and 4, a file of 2 bytes and a shared buffer of 1, 1 socket fd per client | `TypeOK`; the servers implement `Ownership` (`Exclusive`); who holds a thing owns it (`HoldersOwn`); answers of nested calls are one's own (`OwnResponse`); `ReadsWhole`; `BuffersMatch`; every call is answered (`Answered`, under fairness) |
| `pico_sender` | 2 clients of the PicoServer, 1 fd each | violation, see below |

**Why the bounds are enough.** The queues wrap and fill, the pools run dry, and there are fewer buffers
than copies of a broadcast. The clients together have more transmit buffers than the card has descriptors, so refusals
and reclaims happen; more clients, and clients with the same mac, are left to the proofs. In `ethasync` a frame may
take both receive buffers and is then dropped, and the second packet always finds the ring full; frames are alike there,
so that their order follows from the queues, and only their number and the rest of their content are compared. The serial buffers fill
within one line; two bits for six streams stand for 16 bits for 24, and of those that write, client 1's raw stream has neither a bit nor a row in the colour table, and client 2's processed one has the empty slot. The badges 2 and 3 make a badge that is off by one meet a neighbour,
and the lowest badge is missing. One pin, one clock, and two fds are enough for two clients to compete for each and
for an fd to be given out again; a file of two bytes read by ones takes two calls, between which the other client's come. The servers share nothing except the BPMPServer, so
that each is run with both clients on it, and the BPMPServer once with one client at the ClockServer and the other at the ResetServer. The ring of characters fills up, and the writer comes round to its start while the reader is on the first lap; with six and thirteen the runs also go past its end, where the properties stop. A message of two parts can be taken whole, in part, not
at all, or fail, and two others can wait behind it or be on their way.
Bounds that are not the code's: `MaxTime`, `MaxChars`, `MaxMsgs`, and those in `Uses` and `Scopes`; the two sizes of the ring in `getchar_ring` and `getchar_sizes` are
scaled down from 4088 and 4096, `MaxFd` from `INT_MAX`.
`CHECK_DEADLOCK FALSE` is set where such a bound stops the model, and in PicoSockets also because a failed assertion stops the component.

**Fairness** is that of each module's section.

**Violations** (each quoted in PROJECT.json):

- `serial_overflow`: a buffer filled without a line end stays full, since the loop that should flush all skips the buffer itself.
- `getchar_sizes`: BenchUtiliz's ring has 0x1000 characters, the server's 4096 - 8; after the first lap its index leaves the ring.
- `sockets_notify`: `notify_client` signals badge 1 whichever client has events, so a second client sleeps on.
- `pico_sender`: `client_check` asks `pico_control` for the sender in calls of `pico_send` and `pico_recv` too, so a transfer goes to the socket, and the buffer, of whichever client
  called `pico_control` last.

Two more disagreements, in the socket server, can be seen by changing the bounds in `MCTables`. With
`reuse |-> "anybody"` the entry of an address used again for *another* client's socket is looked up in the wrong client's table
(picoserver_client.c:137-139), and `TablesAgree` and `AssertionsHold` fail; with `MaxFd = 5` and `opens |-> 5`
`kh_del`, given a key in place of an iterator, may leave the entry of the freed record, and
`TablesAgree` fails. The run therefore states the condition under which the tables are right: an address comes back to
its own client, with fds below 4. `find_free_id` also leaves `INT_MIN` as the next fd after `INT_MAX`, beyond the bound on opens.

A third is the colour table of the SerialServer (serial.c:81, 96, 105), described in section 3: under the headings "Processed streams" and "Raw streams" it means one entry for each stream, and
`OwnColours` proves that exactly streams 11, 22 and 23 do not get theirs; a `ColourMatches` without the exception of `Misplaced` fails in the run `serial`.

A fourth is in `gpio_init_pin` (gpio.c:94): the reservation is looked up with the client's number in place of the pin's. The model does as the code does; with
`desired_pins` other than empty, an assigned pin is granted to whoever asks first.

## 5. What is proved

For all values of the constants that satisfy the named assumptions, by TLAPS.

`EthdriverProofs`, assuming `EthAssumption` (positive sizes, `None` distinct):

- `TypeCorrect`, `RxBuffersOwned` (`RxOwned`), `TxBuffersOwned` (`TxOwned`), `NotificationsArmed` (`NotifyArmed`):
  one inductive invariant, `IInv`, conjoins the types with, for reception, that pool, ring and
  queue slots are pairwise disjoint and together hold every buffer, and for transmission
  the same per client plus where `raw_tx`'s buffer is. It is needed whole: `num_rx_bufs` stays below the array's length only because
  no buffer is in the pool twice (a pigeonhole lemma bounds an injective sequence), and a broadcast's
  copies are distinct only because the pool is (`CopyRank` is a bijection onto an initial segment).
- `SentUnaltered` (`TxInFlightStable`): `client_tx` writes to a buffer of the pool, which by the invariant is not in the ring.
- `ReceptionNeverHalts` (`CardArmed`), under the further assumption
  `NumClients * (CLIENT_RX_BUFS - 1) < RX_BUFS` (256 buffers and queues of 127: two clients). With three clients all
  buffers may be in queues when the handler returns, and the card is not refilled before another interrupt.
- `FramesDelivered` (`DeliversFrames`), the refinement: each step of the receive side is one of `EthFrames` or a stutter. A cyclic queue maps to the
  sequence of its slots' contents, from `pending_rx_tail` on. The copies of a broadcast are put into different buffers of the pool; and no step writes to a buffer that lies in a queue,
  for the slots share no buffer with pool or card.

- `LinkImplements`: every step of `EthLink` is one of `Ethdriver` or a stutter, whatever the clients' threads and timers do between their calls.
  So `LinkDelivers` (`DeliversFrames`) and, under the same assumption as above, `LinkNeverHalts` (`CardArmed`), the property that `eth_link` checks, hold of the composition.

`EthAsyncProofs`, assuming `AsyncAssumption` (at least one buffer and one descriptor each way, `None` distinct), for any numbers of them:

- `TypeCorrect` (`TypeOK`), `BuffersInOnePlace` (`InOnePlace`) and `NothingForgotten` (`Remembered`), from one inductive invariant. Its places (`RxPlaces`, `TxPlaces`) say that the two queues and the
  card's ring hold each buffer at most once and no two of them the same. `Remembered` speaks only of a server that waits; what makes it inductive is what holds in the middle of a handler. A packet still offered
  is announced, or about to be looked at, or `blocked_tx` is up and there is a completion to come that looks again (`TxKept`); room in the receive ring is noted, or about to be filled (`RefillKept`). Both need
  the order of what the thread has left to do (`WorkShape`): a completion is followed by a refill, a queue is drained before the thread waits, and the client is notified last.
- `PacketsDelivered` (`DeliversPackets`) and `FramesDelivered` (`DeliversFrames`): transmission maps to the contents of the packets still offered, reception to those of the frames returned to the client and not dropped (length 0).
  A buffer is in one place, so filling or emptying it changes no other frame of a queue.

`TimeServerProofs`, assuming `BadgesAssumption`, `TimersAssumption`, `TimesAssumption`: `TypeCorrect`, `TimersIsolated` (`OwnTimers`), `CompletionsExact`
(`ReportsExpired`), `NoSleepThrough` (`Wakeable`). Their conjunction is inductive; the argument rests on lemmas about
`token \div n` and `token % n`: the token of a badge's timer is in the table, gives back the client and the timer, and
two timers never share one.

`SerialServerProofs`, assuming `SizesAssumption`, for any number of clients, size of the buffers, width of the mask and uses:

- `Types` (`TypeOK`), `ColoursShown` (`ColourMatches`), `Mask` (`MaskCovers`), `InOrder` (`ShownInOrder`), `Cuts` (`CutsAlone`). What a step does to `out` is a composition of the
  code's functions, which break the properties in between: a character is in the buffer before its bit is in the mask, and `internal_putchar` may flush several streams before it
  shows its own. So the argument is about one set of output states, `Good(X, B)`: the terminal's colour is the one `last_out` says, every piece shown has the right colour, the mask
  has the bits of all streams with text but those of `B`, and what each stream `b` has shown in this step with what is still in its buffer is `X[b]`. There is a lemma for each function
  (`flush_bufferGood`, `flush_each_lineGood`, `overflowGood`, `coalescedGood`, ...) that it stays in the set. A character put goes from `Good(X, B)` to `Good` of `X` with that character
  behind stream `b` (`PutGood`, `putcharGood`). The inductive invariant, `IInv`, is that `out` is good of what it holds, and the types of the input side, which says that only registered clients are ever
  selected; TLC checks its parts as `TypeOK`, `ColourMatches` and `MaskCovers` in the run `serial`. That cached and real colour agree is needed for `ColourMatches`: the code compares with `last_out` alone.
  That the colour looked up is a stream's own is arithmetic on the two macros, `OwnColours`: it is, for all streams but the last processed and the last two raw ones. `Types` makes no claim on the length of a buffer, and
  `InOrder` none on a character for a full one.
  `ShownInOrder` is the third part before and after a step. Coalesced text is shown once for all streams in use, and counts for each, since it was the beginning of each one's buffer.
- `Cuts` needs besides that a character which ends no line, put into a buffer that is not full, shows something only by the fast path, which is taken only
  with an empty mask (`PutShows`); by `MaskCovers`, no other stream with a bit then has text waiting. In multi-client mode coalesced text is cut in the middle of a line too, which the property leaves out.
- `LinesEnd`: a pass over the streams takes a character at least from each buffer with a line in it, and adds none, so that after `k` passes no buffer with a line has more than `CLIENT_OUTPUT_BUFFER_SIZE - k` left.

The loops are recursive functions, and the library's theorems on these take operators, so the module proves what it needs from the well-foundedness of `Nat`: a loop that never leaves a set has a value for each number of rounds (`LoopRuns`, by a least
counterexample), and its invariant holds of them (`LoopInvariant`). The same argument gives what `FlattenSeq` does to a sequence that grows at its end.

`GetCharProofs`, assuming `SizesAssumption` (the reader's ring at least the server's, as in the sources) and `CharsAssumption`: `RingTypes` (`TypeOK`), `HandledInOrder` (`InOrder`), `EveryoneAnnounced` (`Announced`),
`IndexInRing` (the index is in the server's ring as long as `SameRing` holds). `RInv` below is invariant as long as `SameRing` holds, and once that is false it stays so; the types, and the order of what was handled before, hold for ever.
The inductive invariant `RInv` counts. The distance from head to tail is what has been published less what the reader has taken; the cells between hold the next
characters (`CellsHold`); a signal on its way, or being acted on, was sent when head was where it still is, so the reader, which never looks at tail, finds a character
(`TokensHold`); and when no signal is on its way the ring has a free cell more than the writer's test asks for (`RoomLeft`), without which a full ring would drop every later
character and never signal again. None of these is inductive without the others.

The servers of single-threaded components, in two modules, assuming what `SingleThreaded`, the servers' modules and `Servers` name: any numbers of clients, pins,
clocks, fds and sockets, and any badges that differ within a component.

- `ServersProofs`, first: `CallsInPlace`. A call is never in two places: it waits in its server's endpoint, once (`Waiting`); or it was received, and its reply capability is
  saved while the server's own call is out (`Saved`); and in neither place once it is answered. A server with nothing saved is itself in no call (`Idle`). `interface_badge` outlives the call that
  set it, so this is what makes the sender that a server asks for the caller of the call being served (`SenderIsCaller`),
  and the thread answered after a nested call the one that had called.
- `ServersProofs`, then: `OwnershipKept` (`Exclusive`), the refinement. `TablesInv` types the tables and says that the number or badge in an entry in use is that of a client connected. Each call of each server
  is then a step of `Ownership` or a stutter: a refused call leaves the table and the user as they were, a call that passes the checks comes from the owner, and
  closing a file releases it, by its owner. `BuffersKept` (`BuffersMatch`) has its own small invariant: the PicoServer takes buffer and socket from one and the same sender id, right or wrong.
- `HoldersProofs`: `HoldersKept` (`HoldersOwn`). An answer on its way may say that its client now holds something, so `HoldersInv` relates the tables with what each thread holds
  *and* with the answers not yet read. It also needs the form of every message on its way (`Shapes`), that the call behind a nested one is never an `init_clock` (`NestedInv`), for its
  answer is decided before, and that a client closing a file or a socket no longer counts as holding it, since the server may give the fd to another client first.
  The fd given out is the least free one, which exists by the well-foundedness of `Nat`.
  On top of it, `ServersInv` adds what is in the shared memories, for three more theorems:
  - `ResponseKept` (`OwnResponse`): while a component's call to the BPMPServer is out, the memory the two share holds the request made for the caller whose reply capability is saved, and once it has
    been answered, the response to it (`BpmpInv`). The component receives nothing meanwhile, so nobody overwrites it.
  - `ReadsKept` (`ReadsWhole`): for a `read` in progress on a file that its client holds, the bytes collected are the file's from where it began, the server's offset is behind them, and an answer not yet read lies whole in the
    buffer shared with that client (`Halfway`). Others may open, read, seek and close in between; that they cannot move this offset is `FdHolders`.
  - `ServersTyped` (`TypeOK`): the tables and buffers keep their types for ids of no pin or clock and fds of others, which clients may pass (`Messages` types only what the stubs type).

`PicoSocketsProofs`, assuming `ConstantsAssumption`, for any numbers of clients, addresses, sockets and messages, and any `MaxFd`. The tables of the server are not right in every use (section 4), so the uses are a hypothesis of each
theorem: `AddressesKept`, that an address the server still holds is given again to nobody, or only to its own client and while every fd is below 4; and `QueuesKept`, that then no message waits. `UsesKept` in `MCPicoSockets`, which TLC evaluates, says
that the uses of the run are such.

- `TypeCorrect` (`TypeOK`), `TablesConsistent` (`TablesAgree`), `NoAssertionFails` (`AssertionsHold`) under `AddressesKept`. `TablesInv` adds two facts to these. `FdsFresh`: a client's fds lie below its bump index, since the search for a free one
  begins behind the last one given; so a new socket never takes the entry of another, and of the branches of `find_free_id` the first is the one taken in these uses. `TasksLive`: an event that `socket_cb` has yet to record (`client_put_event`) is one of a socket still in the tables,
  since a callback runs to its end before the next call; this is why no assertion fails.
- `MessagesStayPut` (`MessagesKept`), `SentInOrder` (`InOrder`), `GivenBack` (`GivenBackWhole`) under both. `MessagesInv` has four parts. `Numbered`: the messages sent are the first ones, each in one queue. `Placed`: a sent message is in one of its queue's three places, and
  one that waits does so at its own, asynchronous socket. `Queued`: what is offered is behind all that waits at the socket, and both behind what the stack took. `Counted`: `done_len` is what the stack took, less than the length while the message waits. The order needs
  the places (a later message waits as soon as an earlier one does) and the count needs the order, for a part that is taken must belong to the oldest message.

**Only model-checked.** Liveness (`FrameTaken`, `PacketSent`, `Drained`, `Answered`), which is beyond the prover here; every other property of a passing run is proved. The properties of the runs that expect a
violation (section 4) do not hold.

## 6. What is not modelled

- Weak memory ordering on the ring of `GetChar`: the source assumes TSO, and the model is sequentially consistent.
- What a character put behind a full buffer overwrites in `SerialServer` (after `serial_overflow`); what the entries of a row behind the colour table are; wording.
- In `TimeServer`, more than 32 timers for each client, for which `client_state` has no bits: `TimersAssumption` excludes them.
- In `PicoSockets`: a failing `malloc`; the messages of a socket whose record is freed because its address is used again (they are lost);
  fds beyond `INT_MAX`; clients that start a message with `done_len` not 0.
- In `EthAsync`: `pico_free_buf` notifies nobody, so that a card without buffers waits for the client's next transmission; this is modelled, and no property promises otherwise.
- In the servers: messages that the generated stubs do not send, and `register_child`'s children (the driver keeps them). An error in a later piece of a read returns the total read so far; this
  is modelled, and `ReadsWhole` speaks of fds that the client holds open, for which no piece fails.
- The serial virtqueues (`server_virtqueue.c`). A second request before the first completes overwrites the one token; what that costs depends on whether
  `camkes_virtqueue_device_gather_copy_buffer` has given the buffer back already, and on the platform's chardev functions. Neither is in the repository, and a model would be a guess at them.
- The components marked not_modelled in PROJECT.json, each with its reason: initialisation and build glue, generated marshalling code whose effect the models of its users contain, hardware
  access without state, and measurement.
