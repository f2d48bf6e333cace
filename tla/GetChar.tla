-------------------------------- MODULE GetChar --------------------------------
(* The ring of typed characters between the SerialServer and one client:        *)
(* components/SerialServer/src/serial.c, internal_raw_putchar, writes it (under *)
(* the server's lock, so one character at a time) and                           *)
(* components/BenchUtiliz/src/benchUtiliz.c, getchar_handler, reads it, in      *)
(* another process and without a lock. Every access to the shared page that the *)
(* other side can tell apart is a step. The two sides declare the ring with     *)
(* different sizes: 4096 - 8 characters in the server, 0x1000 in BenchUtiliz.   *)
EXTENDS Integers, Sequences

CONSTANTS
    ServerSize,     \* sizeof(client->buf->buf) in serial.c
    ClientSize,     \* sizeof(serial_getchar_buf->buf) in benchUtiliz.c
    MaxChars        \* bound: characters the server puts into the ring

ASSUME SizesAssumption ==
    ServerSize \in Nat \ {0, 1} /\ ClientSize \in Nat /\ ServerSize <= ClientSize
ASSUME CharsAssumption == MaxChars \in Nat

VARIABLES
    head, tail, buf,    \* the shared page; a cell holds the number of its character
    last_head,          \* the server's note of head when it last signalled
    server,             \* "idle", "admitted", "read", "stored" or "published"
    last_read_head,     \* local of internal_raw_putchar
    signalled,          \* the client's notification
    client,             \* "waiting", "woken" or "took"
    put,                \* history: characters put into the ring so far
    handled             \* history: the characters the client's switch has seen

vars == <<head, tail, buf, last_head, server, last_read_head, signalled, client, put, handled>>
clientVars == <<head, client, handled>>
page == <<head, tail, buf>>

NoHead == -1    \* (uint32_t)-1, the initial last_head

TypeOK ==
    /\ head \in 0..(ClientSize - 1) /\ tail \in 0..(ServerSize - 1)
    /\ buf \in [0..(ServerSize - 1) -> 0..MaxChars]
    /\ last_head \in 0..(ClientSize - 1) \cup {NoHead}
    /\ server \in {"idle", "admitted", "read", "stored", "published"}
    /\ last_read_head \in 0..(ClientSize - 1)
    /\ signalled \in BOOLEAN
    /\ client \in {"waiting", "woken", "took"}
    /\ put \in 0..MaxChars
    /\ handled \in Seq(0..MaxChars)

-------------------------------------------------------------------------------
\* Mutant: only the first character is signalled.
HeadMoved_ever == last_head = NoHead

next_tail == (tail + 1) % ServerSize
Full == next_tail = head
HeadMoved == last_read_head # last_head

(* internal_raw_putchar: a character is dropped when the ring looks full.       *)
Admit ==
    /\ server = "idle" /\ put < MaxChars
    /\ IF Full THEN UNCHANGED server ELSE server' = "admitted"
    /\ UNCHANGED <<page, last_head, last_read_head, signalled, client, put, handled>>

(* head is read a second time: the client may have moved it since.              *)
ReadHead ==
    /\ server = "admitted"
    /\ server' = "read"
    /\ last_read_head' = head
    /\ UNCHANGED <<page, last_head, signalled, client, put, handled>>

Store ==
    /\ server = "read"
    /\ server' = "stored"
    /\ put' = put + 1
    /\ buf' = [buf EXCEPT ![tail] = put + 1]
    /\ UNCHANGED <<head, tail, last_head, last_read_head, signalled, client, handled>>

Publish ==
    /\ server = "stored"
    /\ server' = "published"
    /\ tail' = next_tail
    /\ UNCHANGED <<head, buf, last_head, last_read_head, signalled, client, put, handled>>

(* The client is signalled only if it has moved head since the last signal.     *)
Signal ==
    /\ server = "published"
    /\ server' = "idle"
    /\ IF HeadMoved
       THEN signalled' = TRUE /\ last_head' = last_read_head
       ELSE UNCHANGED <<signalled, last_head>>
    /\ UNCHANGED <<page, last_read_head, client, put, handled>>

internal_raw_putchar == Admit \/ ReadHead \/ Store \/ Publish \/ Signal

-------------------------------------------------------------------------------
(* getchar_handler: one character for each wake-up, without a look at tail.     *)
Wait ==
    /\ client = "waiting" /\ signalled
    /\ client' = "woken"
    /\ signalled' = FALSE
    /\ UNCHANGED <<page, last_head, server, last_read_head, put, handled>>

(* A cell past the server's ring holds no character: 0.                         *)
Take ==
    /\ client = "woken"
    /\ client' = "took"
    /\ handled' = Append(handled, IF head < ServerSize THEN buf[head] ELSE 0)
    /\ UNCHANGED <<page, last_head, server, last_read_head, signalled, put>>

\* Mutant: the client takes everything in the ring for read.
Advance_drains ==
    /\ client = "took"
    /\ client' = "waiting"
    /\ head' = tail
    /\ UNCHANGED <<tail, buf, last_head, server, last_read_head, signalled, put, handled>>

Advance ==
    /\ client = "took"
    /\ client' = "waiting"
    /\ head' = (head + 1) % ClientSize
    /\ UNCHANGED <<tail, buf, last_head, server, last_read_head, signalled, put, handled>>

getchar_handler == Wait \/ Take \/ Advance

-------------------------------------------------------------------------------
Init ==
    /\ head = 0 /\ tail = 0
    /\ buf = [i \in 0..(ServerSize - 1) |-> 0]
    /\ last_head = NoHead
    /\ server = "idle" /\ last_read_head = 0
    /\ signalled = FALSE /\ client = "waiting"
    /\ put = 0 /\ handled = <<>>

Next == internal_raw_putchar \/ getchar_handler

Spec == Init /\ [][Next]_vars

-------------------------------------------------------------------------------
(* The characters the client is done with.                                      *)
Taken == IF client = "took" THEN Len(handled) - 1 ELSE Len(handled)

(* The indices of the two sides mean the same cells: for ever if the sizes are  *)
(* the same; with those of the sources until the client has gone once through   *)
(* the server's ring and its index leaves it (HeadInRing).                      *)
SameRing == ClientSize = ServerSize \/ Taken < ServerSize

(* The client never looks at tail: that a wake-up finds a character rests on    *)
(* every signal following a character of its own, and on the ring not filling   *)
(* up to look empty.                                                            *)
WakesToCharacter == client = "woken" => head # tail

(* What the client has handled are the first characters put into the ring, in   *)
(* order: none twice, none skipped, none overwritten before it was read, up to  *)
(* the character in the last cell of the server's ring and, if the sizes are    *)
(* the same, beyond.                                                            *)
InOrder ==
    \A i \in 1..Len(handled) : ClientSize = ServerSize \/ i <= ServerSize => handled[i] = i

(* A character that came without a signal is not forgotten: while one lies      *)
(* there and the client sleeps unsignalled, the next one typed will wake it. It *)
(* finds room (a full ring would drop it without a signal, for ever) and head   *)
(* has moved.                                                                   *)
NextAnnounces ==
    head # tail /\ client = "waiting" /\ ~signalled /\ server = "idle"
        => head # last_head /\ ~Full

(* As long as the indices mean the same cells, the reader is woken for          *)
(* characters only, and for every character.                                    *)
Announced == SameRing => WakesToCharacter /\ NextAnnounces

(* The client's index stays within the ring that the server declares, whose     *)
(* size is asserted to be that of the shared page.                              *)
HeadInRing == head < ServerSize
===============================================================================
