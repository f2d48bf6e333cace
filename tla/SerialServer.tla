---------------------------- MODULE SerialServer ----------------------------
(***************************************************************************)
(* The SerialServer component (components/SerialServer/src/serial.c): one  *)
(* serial line shared by several clients.                                  *)
(*                                                                         *)
(* Client n has two output streams, the processed one, n, and the raw one, *)
(* n + MAX_CLIENTS.  The characters of a stream are buffered and shown by  *)
(* lines, in the colour a table has for the stream; in multi-client mode   *)
(* what all streams agree on is shown once, without a colour.  The         *)
(* characters typed go to the active client or clients, except for         *)
(* commands.                                                               *)
(*                                                                         *)
(* Every interface of the component has its own thread, and so have the    *)
(* timer and the interrupt; a mutex makes the handling of one character,   *)
(* and of one tick, atomic.                                                *)
(***************************************************************************)
EXTENDS Integers, Sequences, FiniteSets, SequencesExt

CONSTANTS
  MAX_CLIENTS,                \* 12 in the source
  CLIENT_OUTPUT_BUFFER_SIZE,  \* 4096
  MaskBits,                   \* 16: the width of output_buffer_bitmask
  num_getchar_clients,        \* clients connected to the getchar interface
  CR, LF, Ordinary,           \* '\r', '\n', and the other characters
  Uses,                       \* bound: what is sent and typed in one run, see UsesAssumption
  DigitOf                     \* the digits: c - '0' of the keys '0', '1', ...

Streams    == 0 .. 2 * MAX_CLIENTS - 1
NoStream   == -1              \* last_out = -1
Threads    == {"processed_putchar", "processed_batch", "raw_putchar", "raw_batch"}
Characters == {CR, LF} \cup Ordinary
Clients    == 0 .. MAX_CLIENTS - 1

(* The clients that write, the texts a call of each thread sends, and the  *)
(* keys typed, which handle_char tells apart.                              *)
ASSUME UsesAssumption ==
  \A u \in Uses : /\ u.clients \subseteq Clients
                  /\ \A t \in Threads : u.texts[t] \subseteq Seq(Characters)
                  /\ \A k \in u.typed : k \in {"enter", "@", "m", "M"} \cup DOMAIN DigitOf

ASSUME SizesAssumption ==
  /\ MAX_CLIENTS \in Nat \ {0, 1}    \* MAX_CLIENTS - 1 is a divisor
  /\ CLIENT_OUTPUT_BUFFER_SIZE \in Nat \ {0, 1}
  /\ MaskBits \in Nat
  /\ num_getchar_clients \in Nat \ {0}
  /\ \A k \in DOMAIN DigitOf : DigitOf[k] \in Nat

VARIABLES
  out,      \* the output state, see InitOut
  todo,     \* what is left of the call each thread serves
  timeout,  \* the notification of the 500 ms timer is pending
  active_client, active_multiclients, statemachine,
  use,      \* the one of Uses that this run is
  fed       \* the getchar clients that got the last character typed

vars == << out, todo, timeout, active_client, active_multiclients, statemachine, fed >>

-----------------------------------------------------------------------------
(* Colours: an entry of all_output_colours is << row, slot >>.             *)

COLOR_RESET == << >>

COLOUR_INDEX_TO_STYLE(b) == b \div (MAX_CLIENTS - 1)
COLOUR_INDEX_TO_SLOT(b)  == b % MAX_CLIENTS

(* all_output_colours[..][..].  A comma is missing in each row: two strings *)
(* are one, and the last slot is NULL, with which the reset before it is   *)
(* all that switches the colour.  A row from 2 on lies behind the table:   *)
(* its entry stands for whatever is there.                                 *)
ColourOf(b) ==
  IF COLOUR_INDEX_TO_STYLE(b) < 2 /\ COLOUR_INDEX_TO_SLOT(b) = MAX_CLIENTS - 1
  THEN COLOR_RESET
  ELSE << COLOUR_INDEX_TO_STYLE(b), COLOUR_INDEX_TO_SLOT(b) >>

(***************************************************************************)
(* out.shown is what the current step has sent to the terminal: pieces of  *)
(* text, with the streams they come from and the colour they appear in.    *)
(* out.colour is the colour the terminal was last switched to.             *)
(***************************************************************************)
InitOut ==
  [ output_buffers |-> [b \in Streams |-> << >>],
    last_out       |-> NoStream,
    bitmask        |-> {},
    done_output    |-> FALSE,
    has_data       |-> FALSE,
    colour         |-> COLOR_RESET,
    shown          |-> << >> ]

-----------------------------------------------------------------------------
(* Output.  These operators take the output state and return the next one. *)

Quiet(o) == [o EXCEPT !.shown = << >>]

Show(o, who, text) ==
  [o EXCEPT !.shown = Append(@, [from |-> who, text |-> text, colour |-> o.colour])]

(* The switch of colour, when the last stream shown was another. *)
Select(o, b) ==
  [o EXCEPT !.colour = IF b = o.last_out THEN @ ELSE ColourOf(b), !.last_out = b]

(* What is left without the first n characters of each stream of S. *)
Rest(o, S, n) ==
  [b \in Streams |-> IF b \in S
                    THEN SubSeq(o.output_buffers[b], n + 1, Len(o.output_buffers[b]))
                    ELSE o.output_buffers[b]]

(* Mutants of Drop: one character too few; the bit cleared at once. *)
DropLess(o, S, n) == [o EXCEPT !.output_buffers = Rest(o, S, n - 1)]

DropClears(o, S, n) ==
  [o EXCEPT !.output_buffers = Rest(o, S, n), !.bitmask = @ \ S]

(* They leave their buffers; an empty one loses its bit in the mask. *)
Drop(o, S, n) ==
  [o EXCEPT !.output_buffers = Rest(o, S, n),
            !.bitmask = @ \ {b \in S : Rest(o, S, n)[b] = << >>}]

ShowFirst(o, b, n) ==
  Drop(Show(Select(o, b), {b}, SubSeq(o.output_buffers[b], 1, n)), {b}, n)

flush_buffer(o, b) ==
  IF o.output_buffers[b] = << >> THEN o
  ELSE [ShowFirst(o, b, Len(o.output_buffers[b])) EXCEPT !.done_output = TRUE]

(* flush_buffer_line shows up to the first '\r', to the first '\n' if      *)
(* there is none, with the '\n' or '\r' that follows.                      *)
LineLength(s) ==
  LET at(c) == SelectInSeq(s, LAMBDA x : x = c)
      end   == IF at(CR) # 0 THEN at(CR) ELSE at(LF)
  IN IF end # 0 /\ end < Len(s) /\ s[end + 1] \in {CR, LF} THEN end + 1 ELSE end

flush_buffer_line(o, b) ==
  LET n == LineLength(o.output_buffers[b]) IN
  IF n = 0 THEN o ELSE ShowFirst(o, b, n)

(* The loops are functions of the number of streams, or of passes, done.   *)
HasLine(o) == \E b \in Streams : LineLength(o.output_buffers[b]) # 0

flush_each_line(o) ==
  LET after[i \in 0 .. 2 * MAX_CLIENTS] ==
        IF i = 0 THEN o ELSE flush_buffer_line(after[i - 1], i - 1)
  IN after[2 * MAX_CLIENTS]

(* Lines are flushed until there is none left: a buffer holds at most one  *)
(* line per character.                                                     *)
flush_lines(o) ==
  LET pass[k \in 0 .. CLIENT_OUTPUT_BUFFER_SIZE] ==
        IF k = 0 THEN o
        ELSE LET p == pass[k - 1] IN IF HasLine(p) THEN flush_each_line(p) ELSE p
  IN pass[CLIENT_OUTPUT_BUFFER_SIZE]

flush_buffers(o, S) ==
  LET after[i \in 0 .. 2 * MAX_CLIENTS] ==
        IF i = 0 THEN o
        ELSE IF i - 1 \in S THEN flush_buffer(after[i - 1], i - 1) ELSE after[i - 1]
  IN after[2 * MAX_CLIENTS]

(* try_coalesce_output compares each buffer in use with the first one, on  *)
(* the length of the shortest so far.                                      *)
InUse(o) == {b \in Streams : o.output_buffers[b] # << >>}
Shortest(o, S) == Min({Len(o.output_buffers[b]) : b \in S})

Mismatch(o) ==
  \E b \in InUse(o) :
    LET n == Shortest(o, {d \in InUse(o) : d <= b}) IN
    SubSeq(o.output_buffers[b], 1, n)
      # SubSeq(o.output_buffers[Min(InUse(o))], 1, n)

coalesce_status(o) ==
  IF active_client # NoStream \/ Mismatch(o) THEN -1
  ELSE IF Cardinality(InUse(o)) > 1 THEN 0 ELSE 1

coalesced(o) ==
  LET n     == Shortest(o, InUse(o))
      reset == [o EXCEPT !.colour = IF o.last_out = NoStream THEN @ ELSE COLOR_RESET,
                         !.last_out = NoStream]
      text  == SubSeq(o.output_buffers[Min(InUse(o))], 1, n)
  IN Drop(Show(reset, InUse(o), text), InUse(o), n)

(* A full buffer: lines of all streams are shown, then, if b's is still    *)
(* full, all there is of the other streams.                                *)
overflow(o, b) ==
  LET first == IF o.last_out = NoStream THEN o ELSE flush_buffer_line(o, o.last_out)
      lines == flush_lines(first)
      rest  == IF Len(lines.output_buffers[b]) = CLIENT_OUTPUT_BUFFER_SIZE
               THEN flush_buffers(lines, Streams \ {b}) ELSE lines
  IN Select(rest, b)

EndsLine(s) ==
  Len(s) >= 2 /\ SubSeq(s, Len(s) - 1, Len(s)) \in {<< CR, LF >>, << LF, CR >>}

(* Mutant: the fast path whatever the other streams hold. *)
putchar_hasty(o, b, c) ==
  LET added == [Quiet(o) EXCEPT !.output_buffers[b] = Append(@, c), !.has_data = TRUE]
  IN IF Len(added.output_buffers[b]) = CLIENT_OUTPUT_BUFFER_SIZE
     THEN overflow(added, b)
     ELSE IF EndsLine(added.output_buffers[b]) \/ added.last_out = b
     THEN flush_buffer(added, b)
     ELSE [added EXCEPT !.bitmask = @ \cup ({b} \cap 0 .. MaskBits - 1)]

(* What internal_putchar makes of the output state. *)
putchar(o, b, c) ==
  LET added  == [Quiet(o) EXCEPT !.output_buffers[b] = Append(@, c), !.has_data = TRUE]
      status == coalesce_status(added)
      next   == IF status = 0 THEN coalesced(added) ELSE added
  IN IF Len(next.output_buffers[b]) = CLIENT_OUTPUT_BUFFER_SIZE
     THEN overflow(next, b)
     ELSE IF status = -1 /\ \/ EndsLine(next.output_buffers[b])
                            \/ next.last_out = b /\ next.bitmask = {}
     THEN flush_buffer(next, b)
     ELSE [next EXCEPT !.bitmask = @ \cup ({b} \cap 0 .. MaskBits - 1)]

-----------------------------------------------------------------------------
(* The threads                                                             *)

(* The server sends a '\r' before each '\n' of a processed stream. *)
Processed(text) ==
  FlattenSeq([i \in DOMAIN text |-> IF text[i] = LF THEN << CR, LF >> ELSE << text[i] >>])

(* A call: one character, or for the batch interfaces what the client has  *)
(* put in the shared buffer.                                               *)
call(t, n, text) ==
  /\ todo[t].text = << >>
  /\ todo' = [todo EXCEPT ![t] =
       IF t \in {"processed_putchar", "processed_batch"}
       THEN [stream |-> n, text |-> Processed(text)]
       ELSE [stream |-> n + MAX_CLIENTS, text |-> text]]
  /\ out' = Quiet(out)
  /\ UNCHANGED << timeout, active_client, active_multiclients, statemachine, fed >>

(* A bound of the model, not of the code: internal_putchar does not look   *)
(* whether there is room, and writes a character for a full buffer behind  *)
(* it, into the next stream's, and counts it.  That is left out.           *)
RoomInBuffer(b) == Len(out.output_buffers[b]) < CLIENT_OUTPUT_BUFFER_SIZE

(* The lock is taken for each character.                                   *)
internal_putchar(t) ==
  LET b == todo[t].stream IN
  /\ todo[t].text # << >>
  /\ RoomInBuffer(b)
  /\ out' = putchar(out, b, Head(todo[t].text))
  /\ todo' = [todo EXCEPT ![t].text = Tail(@)]
  /\ UNCHANGED << timeout, active_client, active_multiclients, statemachine, fed >>

timeout_periodic ==
  /\ ~timeout
  /\ timeout' = TRUE
  /\ out' = Quiet(out)
  /\ UNCHANGED << todo, active_client, active_multiclients, statemachine, fed >>

(* Mutant: the streams without a bit in the mask are not flushed. *)
timer_callback_mask ==
  /\ timeout
  /\ timeout' = FALSE
  /\ out' = IF out.done_output THEN [Quiet(out) EXCEPT !.done_output = FALSE]
            ELSE IF ~out.has_data THEN Quiet(out)
            ELSE IF HasLine(out) THEN flush_lines(Quiet(out))
            ELSE flush_buffers(Quiet(out), out.bitmask)
  /\ UNCHANGED << todo, active_client, active_multiclients, statemachine, fed >>

(* Every 500 ms: nothing if something was shown since the last time, else  *)
(* the lines there are, and if there is none everything.                   *)
timer_callback ==
  /\ timeout
  /\ timeout' = FALSE
  /\ out' = IF out.done_output THEN [Quiet(out) EXCEPT !.done_output = FALSE]
            ELSE IF ~out.has_data THEN Quiet(out)
            ELSE IF HasLine(out) THEN flush_lines(Quiet(out))
            ELSE flush_buffers(Quiet(out), Streams)
  /\ UNCHANGED << todo, active_client, active_multiclients, statemachine, fed >>

-----------------------------------------------------------------------------
(* Input.  A key is one of "enter" ('\r', '\n', ctrl-C, ctrl-Z), "@",      *)
(* "m", "M" or a digit; every other character, the commands d, s and ?     *)
(* included, does what the digit of no client does.  An "enter" ends the   *)
(* list of clients of the command m only when it is a line end.            *)

MessageKeepsLast == [Quiet(out) EXCEPT !.colour = COLOR_RESET]  \* mutant
Message == [Quiet(out) EXCEPT !.colour = COLOR_RESET, !.last_out = NoStream]
RegisteredOff(k) == k \in DOMAIN DigitOf /\ DigitOf[k] <= num_getchar_clients  \* mutant
Registered(k) == k \in DOMAIN DigitOf /\ DigitOf[k] < num_getchar_clients

(* give_client_char, to the ring of each client *)
give_client_char ==
  fed' = IF active_client >= 0 THEN {active_client} ELSE active_multiclients

KeyText(k) ==
  /\ statemachine = 0
  /\ statemachine' = IF k = "enter" THEN 1 ELSE 0
  /\ give_client_char
  /\ out' = Quiet(out)
  /\ UNCHANGED << active_client, active_multiclients >>

KeyLineStart(k) ==
  /\ statemachine = 1
  /\ IF k = "@" THEN statemachine' = 2 /\ fed' = {}
     ELSE statemachine' = (IF k = "enter" THEN 1 ELSE 0) /\ give_client_char
  /\ out' = Quiet(out)
  /\ UNCHANGED << active_client, active_multiclients >>

KeyCommand(k) ==
  /\ statemachine = 2
  /\ IF k = "@"
     THEN /\ statemachine' = 0
          /\ give_client_char
          /\ out' = Quiet(out)
          /\ UNCHANGED << active_client, active_multiclients >>
     ELSE /\ statemachine' = IF k = "m" THEN 3 ELSE 1
          /\ active_client' = IF k = "m" THEN NoStream
                              ELSE IF Registered(k) THEN DigitOf[k] ELSE active_client
          /\ active_multiclients' = IF k = "m" THEN {} ELSE active_multiclients
          /\ out' = Message
          /\ fed' = {}

KeyMulti(k) ==
  /\ statemachine = 3
  /\ active_multiclients' = active_multiclients \cup
       (IF Registered(k) THEN {DigitOf[k]} ELSE {})
  /\ statemachine' \in IF k \in {"m", "M"} THEN {1} ELSE IF k = "enter" THEN {1, 3} ELSE {3}
  /\ out' = CASE Registered(k) -> Message
              [] statemachine' = 1 -> Message
              [] OTHER -> Quiet(out)
  /\ fed' = {}
  /\ UNCHANGED active_client

handle_char(k) ==
  /\ KeyText(k) \/ KeyLineStart(k) \/ KeyCommand(k) \/ KeyMulti(k)
  /\ UNCHANGED << todo, timeout >>

-----------------------------------------------------------------------------
Init ==
  /\ out = InitOut
  /\ todo = [t \in Threads |-> [stream |-> 0, text |-> << >>]]
  /\ timeout = FALSE
  /\ active_client = 0
  /\ active_multiclients = {}
  /\ statemachine = 1
  /\ fed = {}
  /\ use \in Uses

Next ==
  /\ \/ \E t \in Threads, n \in use.clients : \E text \in use.texts[t] : call(t, n, text)
     \/ \E t \in Threads : internal_putchar(t)
     \/ timeout_periodic
     \/ timer_callback
     \/ \E k \in use.typed : handle_char(k)
  /\ UNCHANGED use

Spec == Init /\ [][Next]_<< vars, use >>

(* The timer goes on ticking, and the thread that waits for it runs: weak  *)
(* fairness of timer_callback, the condition that enables it spelled out.  *)
(* The writers owe nothing.                                                *)
FairSpec ==
  /\ Spec
  /\ WF_vars(timeout_periodic)
  /\ []<>~timeout \/ []<><< timer_callback >>_vars
-----------------------------------------------------------------------------
(* Properties                                                              *)

(* The type of every variable: only registered clients are ever selected   *)
(* for input and fed by handle_char.  How long a buffer gets is not said:  *)
(* RoomInBuffer bounds it here, and nothing does in internal_putchar.      *)
TypeOK ==
  /\ \A b \in Streams : out.output_buffers[b] \in Seq(Characters)
  /\ out.last_out \in Streams \cup {NoStream}
  /\ out.bitmask \subseteq Streams \cap 0 .. MaskBits - 1
  /\ timeout \in BOOLEAN
  /\ out.done_output \in BOOLEAN
  /\ out.has_data \in BOOLEAN
  /\ out.colour \in {COLOR_RESET} \cup {ColourOf(b) : b \in Streams}
  /\ \A t \in Threads : todo[t].stream \in Streams
  /\ active_client \in {NoStream} \cup 0 .. num_getchar_clients - 1
  /\ active_multiclients \subseteq 0 .. num_getchar_clients - 1
  /\ fed \subseteq 0 .. num_getchar_clients - 1
  /\ statemachine \in 0 .. 3

ShownOf(shown, b) ==
  FlattenSeq([i \in DOMAIN shown |-> IF b \in shown[i].from THEN shown[i].text ELSE << >>])

Arrived(b) ==
  LET takes == {t \in Threads :
                  todo[t].stream = b /\ todo[t].text # << >> /\ todo'[t] # todo[t]}
  IN IF takes = {} THEN << >> ELSE << Head(todo[CHOOSE t \in takes : TRUE].text) >>

(* Up to a character for a full buffer (RoomInBuffer), each stream's       *)
(* characters are shown once, in the order they were put: whatever is      *)
(* flushed by lines, in full, or coalesced with other streams is the front *)
(* of what the stream's buffer held.                                       *)
ShownInOrder ==
  [][\A b \in Streams :
       out.output_buffers[b] \o Arrived(b)
         = ShownOf(out'.shown, b) \o out'.output_buffers[b]]_vars

(* "Processed streams" and "Raw streams": the entry of the table that is   *)
(* meant for stream b.  COLOUR_INDEX_TO_STYLE divides by one too few, and  *)
(* three streams get another: the last processed one, and the last two raw *)
(* ones (OwnColours of SerialServerProofs).                                *)
OwnColour(b) == IF b < MAX_CLIENTS THEN << 0, b >> ELSE << 1, b - MAX_CLIENTS >>
Misplaced == {MAX_CLIENTS - 1, 2 * MAX_CLIENTS - 2, 2 * MAX_CLIENTS - 1}

(* The text of a stream is shown in its own colour, that of a misplaced    *)
(* stream in what flush_buffer finds for it, coalesced text in none,       *)
(* although the colour is switched only when last_out says so.             *)
ColourMatches ==
  \A i \in DOMAIN out.shown :
    LET from == out.shown[i].from
        b    == Min(from)
    IN out.shown[i].colour =
         IF Cardinality(from) > 1 THEN COLOR_RESET
         ELSE IF b \in Misplaced THEN ColourOf(b) ELSE OwnColour(b)

(* output_buffer_bitmask misses no stream it has a bit for: the fast path  *)
(* of internal_putchar relies on it.                                       *)
MaskCovers ==
  \A b \in Streams \cap 0 .. MaskBits - 1 :
    out.output_buffers[b] # << >> => b \in out.bitmask

(* Unless a buffer is full, and outside the multi-client mode, a character *)
(* put shows a piece of line only when no other stream (that has a bit in  *)
(* the mask) has text waiting.                                             *)
CutsAlone ==
  [][\A t \in Threads :
       LET b == todo[t].stream IN
       /\ todo[t].text # << >>
       /\ todo'[t] # todo[t]
       /\ Len(out.output_buffers[b]) + 1 < CLIENT_OUTPUT_BUFFER_SIZE
       /\ out'.shown # << >>
       /\ Last(out'.shown[1].text) \notin {CR, LF}
       /\ active_client # NoStream
       => \A d \in (Streams \ {b}) \cap 0 .. MaskBits - 1 :
            out.output_buffers[d] = << >>]_vars

(* When nothing more is put, everything is shown in the end, unfinished    *)
(* lines included, without the help of the mask.                           *)
Drained ==
  <>[][todo' = todo]_vars => <>[](\A b \in Streams : out.output_buffers[b] = << >>)

(* serial.c:268-270: "Since we're violating contract anyway (flushing in the   *)
(* middle of someone else's line), flush all buffers, so the fastpath can  *)
(* be used again."  No buffer is left full.                                *)
OverflowFlushes ==
  \A b \in Streams : Len(out.output_buffers[b]) < CLIENT_OUTPUT_BUFFER_SIZE
=============================================================================
