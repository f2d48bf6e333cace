----------------------------- MODULE GetCharProofs -----------------------------
(* The ring of typed characters: proofs for any sizes, the server's not the     *)
(* larger one, and any number of characters that what the client handles are    *)
(* the characters typed, in order, and that it is woken for each and for no     *)
(* other, until the client's index leaves the server's ring.                    *)
EXTENDS GetChar, TLAPS

(* The characters that tail shows, and the distance from head to tail.          *)
Published == IF server = "stored" THEN put - 1 ELSE put
Dist == IF head <= tail THEN tail - head ELSE tail - head + ServerSize
Wrap(i) == IF i < ServerSize THEN i ELSE i - ServerSize

(* The types while the client's indices are in the server's ring.               *)
RingOK ==
    /\ head \in 0..(ServerSize - 1) /\ tail \in 0..(ServerSize - 1)
    /\ buf \in [0..(ServerSize - 1) -> 0..MaxChars]
    /\ last_head \in 0..(ServerSize - 1) \cup {NoHead}
    /\ server \in {"idle", "admitted", "read", "stored", "published"}
    /\ last_read_head \in 0..(ServerSize - 1)
    /\ signalled \in BOOLEAN
    /\ client \in {"waiting", "woken", "took"}
    /\ put \in 0..MaxChars
    /\ handled \in Seq(0..MaxChars)

(* With two sizes, head counts the characters taken.                            *)
FirstLap == ClientSize # ServerSize => head = Taken

(* A signal is on its way to the client, or the client acts on one.             *)
Token == signalled \/ client # "waiting"

CellsHold == \A k \in 0..(put - Taken - 1) : buf[Wrap(head + k)] = Taken + 1 + k

(* A token is for a character, and was sent when head was what it still is; a   *)
(* token used up has moved head by one.                                         *)
TokensHold ==
    /\ Token => Dist > (IF server = "published" THEN 1 ELSE 0)
    /\ server = "published" => Dist > 0
    /\ ~(signalled /\ client # "waiting")
    /\ last_head = NoHead => /\ ~Token /\ head = 0
                             /\ server # "published" => Dist = 0
    /\ last_head # NoHead => head = IF Token THEN last_head ELSE Wrap(last_head + 1)
    /\ server \in {"read", "stored", "published"} => last_read_head \in {last_head, head}

(* What makes room: a character is admitted to a ring that is not full, and     *)
(* one that is not announced goes into a ring from which one has been taken.    *)
RoomLeft ==
    /\ server \in {"admitted", "read", "stored"} => Dist <= ServerSize - 2
    /\ ~Token =>
        /\ server = "idle" => Dist <= ServerSize - 2
        /\ server \in {"read", "stored"} /\ last_read_head # head => Dist <= ServerSize - 3
        /\ server = "published" /\ last_read_head # head => Dist <= ServerSize - 2

(* What holds as long as the indices mean the same cells.                       *)
RInv ==
    /\ RingOK /\ InOrder /\ FirstLap
    /\ Dist = Published - Taken
    /\ server \in {"admitted", "read"} => put < MaxChars
    /\ CellsHold /\ TokensHold /\ RoomLeft

-------------------------------------------------------------------------------
LEMMA NextOf ==
  ASSUME NEW n \in Nat \ {0, 1}, NEW i \in 0..(n - 1)
  PROVE  (i + 1) % n = IF i + 1 < n THEN i + 1 ELSE i + 1 - n
<1>1. CASE i + 1 < n
  BY <1>1
<1>2. CASE i + 1 = n
  BY <1>2
<1>. QED  BY <1>1, <1>2

LEMMA TailNext ==
  ASSUME NEW i \in 0..(ServerSize - 1)
  PROVE  (i + 1) % ServerSize = Wrap(i + 1) /\ Wrap(i + 1) \in 0..(ServerSize - 1)
<1>1. ServerSize \in Nat \ {0, 1}
  BY SizesAssumption
<1>2. (i + 1) % ServerSize = IF i + 1 < ServerSize THEN i + 1 ELSE i + 1 - ServerSize
  BY <1>1, NextOf
<1>. QED  BY <1>1, <1>2 DEF Wrap

(* The client's index stays below its own size.                                 *)
LEMMA HeadNext ==
  ASSUME NEW i \in 0..(ClientSize - 1)
  PROVE  (i + 1) % ClientSize \in 0..(ClientSize - 1)
<1>1. ClientSize \in Nat \ {0, 1}
  BY SizesAssumption
<1>2. (i + 1) % ClientSize = IF i + 1 < ClientSize THEN i + 1 ELSE i + 1 - ClientSize
  BY <1>1, NextOf
<1>. QED  BY <1>1, <1>2

(* What the indices are after one more character.                               *)
LEMMA Steps ==
  ASSUME RingOK
  PROVE  /\ next_tail = Wrap(tail + 1) /\ next_tail \in 0..(ServerSize - 1)
         /\ ClientSize = ServerSize \/ head + 1 < ServerSize => (head + 1) % ClientSize = Wrap(head + 1)
         /\ Wrap(head + 1) \in 0..(ServerSize - 1) /\ Wrap(head + 1) # head
<1>. USE SizesAssumption
<1>1. tail \in 0..(ServerSize - 1) /\ head \in 0..(ServerSize - 1) /\ ServerSize \in Nat \ {0, 1}
  BY DEF RingOK
<1>2. next_tail = Wrap(tail + 1)
  BY <1>1, TailNext DEF next_tail
<1>3. CASE ClientSize = ServerSize
  <2>1. (head + 1) % ClientSize = Wrap(head + 1)
    BY <1>1, <1>3, TailNext
  <2>. QED  BY <1>1, <1>2, <2>1 DEF Wrap
<1>4. CASE head + 1 < ServerSize
  <2>1. ClientSize \in Nat \ {0, 1} /\ head \in 0..(ClientSize - 1) /\ head + 1 < ClientSize
    BY <1>1, <1>4
  <2>2. (head + 1) % ClientSize = head + 1
    BY <2>1, NextOf
  <2>. QED  BY <1>1, <1>2, <1>4, <2>2 DEF Wrap
<1>. QED  BY <1>1, <1>2, <1>3, <1>4 DEF Wrap

(* The server finds the ring full when one place is left.                     *)
LEMMA FullWhen ==
  ASSUME RingOK
  PROVE  /\ Full <=> Dist = ServerSize - 1
         /\ Dist \in 0..(ServerSize - 1)
<1>. USE SizesAssumption
<1>1. Full <=> Wrap(tail + 1) = head
  BY Steps DEF Full
<1>2. head \in 0..(ServerSize - 1) /\ tail \in 0..(ServerSize - 1)
  BY DEF RingOK
<1>3. Wrap(tail + 1) = head <=> Dist = ServerSize - 1
  BY <1>2 DEF Wrap, Dist
<1>4. Dist \in 0..(ServerSize - 1)
  BY <1>2 DEF Dist
<1>. QED  BY <1>1, <1>3, <1>4

(* The initial state satisfies the inductive invariant.                       *)
LEMMA InitInv ==
  ASSUME Init
  PROVE  RInv
<1>. USE SizesAssumption, CharsAssumption
<1>1. RingOK
  <2>1. handled \in Seq(0..MaxChars) /\ buf \in [0..(ServerSize - 1) -> 0..MaxChars]
    BY DEF Init
  <2>2. /\ head \in 0..(ServerSize - 1) /\ tail \in 0..(ServerSize - 1)
        /\ last_head \in 0..(ServerSize - 1) \cup {NoHead}
        /\ last_read_head \in 0..(ServerSize - 1)
        /\ put \in 0..MaxChars
    BY DEF Init, NoHead
  <2>3. signalled \in BOOLEAN
    BY DEF Init
  <2>. QED  BY <2>1, <2>2, <2>3 DEF Init, RingOK
<1>4. InOrder /\ FirstLap
  BY DEF Init, InOrder, FirstLap, Taken
<1>2. Dist = 0 /\ Published = 0 /\ Taken = 0 /\ ~Token
  BY DEF Init, Dist, Published, Taken, Token
<1>3. CellsHold /\ TokensHold /\ RoomLeft
  BY <1>2 DEF Init, CellsHold, TokensHold, RoomLeft, NoHead
<1>. QED  BY <1>1, <1>2, <1>3, <1>4 DEF RInv, Init

(* The writer's steps.                                                          *)
LEMMA AdmitInv ==
  ASSUME RInv, Admit
  PROVE  RInv'
<1>. USE SizesAssumption, CharsAssumption DEF RInv, Admit, page
<1>1. RingOK' /\ InOrder' /\ FirstLap'
  BY DEF RingOK, InOrder, FirstLap, Taken
<1>2. Dist' = Dist /\ Published' = Published /\ Taken' = Taken /\ Token' = Token
  BY DEF Dist, Published, Taken, Token, RingOK
<1>3. CellsHold'
  BY <1>2 DEF CellsHold, Wrap
<1>6. TokensHold'
  BY <1>2 DEF TokensHold, RingOK, Wrap
<1>4. ~Full => Dist <= ServerSize - 2
  BY FullWhen
<1>5. RoomLeft'
  BY <1>2, <1>4 DEF RoomLeft, RingOK
<1>. QED  BY <1>1, <1>2, <1>3, <1>5, <1>6

(* The server's reading of the head keeps it.                                 *)
LEMMA ReadHeadInv ==
  ASSUME RInv, ReadHead
  PROVE  RInv'
<1>. USE SizesAssumption, CharsAssumption DEF RInv, ReadHead, page
<1>1. RingOK' /\ InOrder' /\ FirstLap'
  BY DEF RingOK, InOrder, FirstLap, Taken
<1>2. Dist' = Dist /\ Published' = Published /\ Taken' = Taken /\ Token' = Token
  BY DEF Dist, Published, Taken, Token, RingOK
<1>3. CellsHold'
  BY <1>2 DEF CellsHold, Wrap
<1>5. TokensHold'
  BY <1>2 DEF TokensHold, RingOK, Wrap
<1>4. RoomLeft'
  BY <1>2 DEF RoomLeft, RingOK
<1>. QED  BY <1>1, <1>2, <1>3, <1>4, <1>5

(* The cell behind the ring's last character is not one that is still to be     *)
(* read.                                                                        *)
LEMMA StoreInv ==
  ASSUME RInv, Store
  PROVE  RInv'
<1>. USE SizesAssumption, CharsAssumption DEF RInv, Store
<1>1. put + 1 \in 0..MaxChars
  BY DEF RingOK
<1>2. RingOK' /\ InOrder' /\ FirstLap'
  BY <1>1 DEF RingOK, InOrder, FirstLap, Taken
<1>3. Dist' = Dist /\ Published' = Published /\ Taken' = Taken /\ Token' = Token
  BY DEF Dist, Published, Taken, Token, RingOK
<1>4. CellsHold'
  <2>0. /\ put - Taken = Dist /\ Dist <= ServerSize - 2
        /\ put \in Nat /\ Taken \in Int /\ Dist \in Nat
    <3>1. put \in Nat /\ Taken \in Int /\ Dist \in Nat
      BY DEF Taken, Dist, RingOK
    <3>2. Published = put /\ Dist <= ServerSize - 2
      BY DEF Published, RoomLeft
    <3>. QED  BY <3>1, <3>2
  <2>. SUFFICES ASSUME NEW k \in 0..Dist
                PROVE  buf'[Wrap(head + k)] = Taken + 1 + k
    <3>1. put' - Taken' - 1 = Dist /\ head' = head
      BY <1>3, <2>0
    <3>. QED  BY <1>3, <3>1 DEF CellsHold, Wrap
  <2>1. CASE k = Dist
    <3>1. Wrap(head + k) = tail
      BY <2>1, <2>0 DEF Wrap, Dist, RingOK
    <3>2. buf'[tail] = put + 1
      BY DEF RingOK
    <3>. QED  BY <2>0, <2>1, <3>1, <3>2
  <2>2. CASE k < Dist
    <3>1. Wrap(head + k) # tail /\ Wrap(head + k) \in 0..(ServerSize - 1)
      BY <2>2, <2>0 DEF Wrap, Dist, RingOK
    <3>2. buf[Wrap(head + k)] = Taken + 1 + k
      <4>1. k \in 0..(put - Taken - 1)
        BY <2>2, <2>0
      <4>. QED  BY <4>1 DEF CellsHold
    <3>. QED  BY <3>1, <3>2 DEF RingOK
  <2>. QED  BY <2>0, <2>1, <2>2
<1>5. TokensHold'
  BY <1>3 DEF TokensHold, RingOK, Wrap
<1>6. RoomLeft'
  BY <1>3 DEF RoomLeft, RingOK
<1>. QED  BY <1>2, <1>3, <1>4, <1>5, <1>6

(* The storing of a character and of the tail keeps it.                       *)
LEMMA PublishInv ==
  ASSUME RInv, Publish
  PROVE  RInv'
<1>. USE SizesAssumption, CharsAssumption DEF RInv, Publish
<1>0. tail' = Wrap(tail + 1) /\ tail' \in 0..(ServerSize - 1)
  BY Steps
<1>1. RingOK' /\ InOrder' /\ FirstLap'
  BY <1>0 DEF RingOK, InOrder, FirstLap, Taken
<1>2. /\ Dist' = Dist + 1 /\ Published' = Published + 1
      /\ Taken' = Taken /\ Token' = Token
  BY <1>0 DEF Dist, Published, Taken, Token, RingOK, Wrap, RoomLeft
<1>3. CellsHold'
  BY <1>2 DEF CellsHold, Wrap
<1>4. Dist \in Nat /\ Taken \in Int /\ Published \in Int
  BY DEF Dist, Taken, Published, RingOK
<1>5. TokensHold'
  BY <1>2, <1>4 DEF TokensHold, RingOK, Wrap
<1>6. RoomLeft'
  BY <1>2, <1>4 DEF RoomLeft, RingOK
<1>. QED  BY <1>1, <1>2, <1>3, <1>4, <1>5, <1>6

(* The signal keeps it.                                                       *)
LEMMA SignalInv ==
  ASSUME RInv, Signal
  PROVE  RInv'
<1>. USE SizesAssumption, CharsAssumption DEF RInv, Signal, page
<1>1. RingOK' /\ InOrder' /\ FirstLap'
  BY DEF RingOK, InOrder, FirstLap, Taken
<1>2. Dist' = Dist /\ Published' = Published /\ Taken' = Taken
  BY DEF Dist, Published, Taken, RingOK
<1>3. CellsHold'
  BY <1>2 DEF CellsHold, Wrap
<1>4. Dist \in 0..(ServerSize - 1)
  BY DEF Dist, RingOK
<1>5. CASE HeadMoved
  <2>1. last_read_head = head /\ ~Token /\ Token'
    BY <1>5 DEF HeadMoved, TokensHold, Token
  <2>2. TokensHold'
    BY <1>2, <1>4, <1>5, <2>1 DEF TokensHold, RingOK, Token, NoHead
  <2>3. RoomLeft'
    BY <1>2, <2>1 DEF RoomLeft
  <2>. QED  BY <1>1, <1>2, <1>3, <2>2, <2>3
<1>6. CASE ~HeadMoved
  <2>1. last_head # NoHead /\ Token' = Token
    BY <1>6 DEF HeadMoved, RingOK, NoHead, Token
  <2>2. TokensHold'
    BY <1>2, <1>4, <1>6, <2>1 DEF TokensHold, RingOK, Wrap
  <2>3. ~Token => last_read_head # head
    BY <1>6, <2>1 DEF HeadMoved, TokensHold, RingOK, Wrap
  <2>4. RoomLeft'
    BY <1>2, <2>1, <2>3 DEF RoomLeft
  <2>. QED  BY <1>1, <1>2, <1>3, <2>2, <2>4
<1>. QED  BY <1>5, <1>6

(* The reader's steps.                                                          *)
LEMMA WaitInv ==
  ASSUME RInv, Wait
  PROVE  RInv'
<1>. USE SizesAssumption, CharsAssumption DEF RInv, Wait, page
<1>1. RingOK' /\ InOrder' /\ FirstLap'
  BY DEF RingOK, InOrder, FirstLap, Taken
<1>2. Dist' = Dist /\ Published' = Published /\ Taken' = Taken /\ Token' /\ Token
  BY DEF Dist, Published, Taken, Token, RingOK
<1>3. CellsHold'
  BY <1>2 DEF CellsHold, Wrap
<1>4. TokensHold' /\ RoomLeft'
  BY <1>2 DEF TokensHold, RoomLeft, RingOK, Wrap
<1>. QED  BY <1>1, <1>2, <1>3, <1>4

(* The client's reading of a character keeps it.                              *)
LEMMA TakeInv ==
  ASSUME RInv, Take
  PROVE  RInv'
<1>. USE SizesAssumption, CharsAssumption DEF RInv, Take, page
<1>0. Dist > 0 /\ Dist \in Nat /\ Taken = Len(handled) /\ Len(handled) \in Nat /\ put \in Nat
  BY DEF TokensHold, Token, Dist, Taken, RingOK
<1>1. buf[head] = Len(handled) + 1
  <2>1. 0 \in 0..(put - Taken - 1) /\ Wrap(head + 0) = head
    BY <1>0 DEF Published, Wrap, RingOK
  <2>. QED  BY <1>0, <2>1 DEF CellsHold
<1>2. handled' = Append(handled, Len(handled) + 1) /\ Len(handled) + 1 \in 0..MaxChars
  <2>1. head < ServerSize /\ buf[head] \in 0..MaxChars
    BY DEF RingOK
  <2>. QED  BY <1>1, <2>1
<1>3. RingOK' /\ Len(handled') = Len(handled) + 1
  BY <1>2 DEF RingOK
<1>4. InOrder'
  BY <1>2, <1>0 DEF InOrder, RingOK
<1>5. Dist' = Dist /\ Published' = Published /\ Taken' = Taken /\ Token' /\ Token
  BY <1>0, <1>3 DEF Dist, Published, Taken, Token
<1>6. CellsHold'
  BY <1>5 DEF CellsHold, Wrap
<1>7. TokensHold' /\ RoomLeft'
  BY <1>5 DEF TokensHold, RoomLeft, RingOK, Wrap
<1>8. FirstLap'
  BY <1>5 DEF FirstLap
<1>. QED  BY <1>3, <1>4, <1>5, <1>6, <1>7, <1>8

(* The client's storing of the head keeps it.                                 *)
LEMMA AdvanceInv ==
  ASSUME RInv, Advance, SameRing'
  PROVE  RInv'
<1>. USE SizesAssumption, CharsAssumption
<1>0. head' = Wrap(head + 1) /\ head' \in 0..(ServerSize - 1) /\ head' # head
  <2>1. RingOK /\ head' = (head + 1) % ClientSize
    BY DEF Advance, RInv
  <2>2. CASE ClientSize = ServerSize
    BY <2>1, <2>2, Steps
  <2>3. CASE ClientSize # ServerSize
    <3>1. head = Len(handled) - 1 /\ Len(handled) < ServerSize /\ Len(handled) \in Nat
      BY <2>1, <2>3 DEF RInv, FirstLap, Advance, SameRing, Taken, RingOK
    <3>2. head + 1 < ServerSize
      BY <3>1
    <3>. QED  BY <2>1, <3>2, Steps
  <2>. QED  BY <2>2, <2>3
<1>a. /\ client = "took" /\ client' = "waiting"
      /\ UNCHANGED <<tail, buf, last_head, server, last_read_head, signalled, put, handled>>
  BY DEF Advance
<1>b. RingOK /\ InOrder /\ FirstLap /\ CellsHold /\ TokensHold /\ RoomLeft
      /\ Dist = Published - Taken /\ (server \in {"admitted", "read"} => put < MaxChars)
  BY DEF RInv
<1>1. RingOK' /\ InOrder'
  BY <1>a, <1>b, <1>0 DEF RingOK, InOrder
<1>2. Dist > 0 /\ Dist \in 0..(ServerSize - 1) /\ Taken \in Int /\ put \in Int
  BY <1>a, <1>b DEF TokensHold, Token, Dist, Taken, RingOK
<1>3. /\ Dist' = Dist - 1 /\ Published' = Published /\ Published \in Int
      /\ Taken' = Taken + 1 /\ Token /\ ~Token'
  <2>1. Dist' = Dist - 1
    BY <1>a, <1>b, <1>0, <1>2 DEF Dist, RingOK, Wrap
  <2>2. Published' = Published /\ Published \in Int
    BY <1>a, <1>b, <1>2 DEF Published
  <2>3. Taken' = Taken + 1
    BY <1>a, <1>b, <1>2 DEF Taken, RingOK
  <2>4. Token /\ ~Token'
    BY <1>a, <1>b DEF Token, TokensHold
  <2>. QED  BY <2>1, <2>2, <2>3, <2>4
<1>4. CellsHold'
  <2>. SUFFICES ASSUME NEW k \in 0..(put - Taken - 2)
                PROVE  buf[Wrap(head' + k)] = Taken + 2 + k
    BY <1>a, <1>b, <1>2, <1>3 DEF CellsHold, Wrap
  <2>1. k + 1 \in 0..(put - Taken - 1) /\ k + 1 \in 0..(ServerSize - 1)
    BY <1>a, <1>b, <1>2 DEF Published, RoomLeft
  <2>2. Wrap(head' + k) = Wrap(head + (k + 1))
    <3>1. head \in 0..(ServerSize - 1) /\ k \in 0..(ServerSize - 2)
      BY <1>a, <1>b, <2>1 DEF RingOK
    <3>2. head' = IF head + 1 < ServerSize THEN head + 1 ELSE head + 1 - ServerSize
      BY <1>0, <3>1 DEF Wrap
    <3>. QED  BY <3>1, <3>2 DEF Wrap
  <2>3. buf[Wrap(head + (k + 1))] = Taken + 1 + (k + 1)
    BY <1>a, <1>b, <2>1 DEF CellsHold
  <2>. QED  BY <1>a, <1>b, <1>2, <2>2, <2>3
<1>5. last_head = head /\ last_head # NoHead
  BY <1>a, <1>b, <1>3 DEF TokensHold
<1>6. TokensHold'
  BY <1>a, <1>b, <1>0, <1>2, <1>3, <1>5 DEF TokensHold, RingOK, Wrap, Token
<1>7. RoomLeft'
  BY <1>a, <1>b, <1>2, <1>3 DEF RoomLeft
<1>8. FirstLap'
  <2>1. CASE ClientSize # ServerSize
    <3>1. head = Taken /\ Taken' < ServerSize
      BY <1>b, <2>1 DEF FirstLap, SameRing
    <3>2. head' = head + 1
      BY <1>0, <1>2, <1>3, <3>1 DEF Wrap
    <3>. QED  BY <1>3, <3>1, <3>2 DEF FirstLap
  <2>. QED  BY <2>1 DEF FirstLap
<1>. QED  BY <1>a, <1>b, <1>1, <1>2, <1>3, <1>4, <1>6, <1>7, <1>8 DEF RInv

-------------------------------------------------------------------------------
(* The characters counted are bounded, whatever the sizes are.                  *)
Bounded == server \in {"admitted", "read"} => put < MaxChars

(* The types of both sides, whatever their sizes.                               *)
LEMMA TypesInv ==
  ASSUME TypeOK, Bounded, [Next]_vars
  PROVE  TypeOK' /\ Bounded'
<1>. USE SizesAssumption, CharsAssumption DEF TypeOK, page, Bounded
<1>1. CASE Admit \/ ReadHead \/ Signal \/ Wait
  BY <1>1 DEF Admit, ReadHead, Signal, Wait
<1>2. CASE Store
  <2>1. put + 1 \in 0..MaxChars
    BY <1>2 DEF Store
  <2>. QED  BY <1>2, <2>1 DEF Store
<1>3. CASE Publish
  <2>1. next_tail \in 0..(ServerSize - 1)
    <3>1. tail \in 0..(ServerSize - 1)
      OBVIOUS
    <3>. QED  BY <3>1, TailNext DEF next_tail
  <2>. QED  BY <1>3, <2>1 DEF Publish
<1>4. CASE Take
  <2>1. (IF head < ServerSize THEN buf[head] ELSE 0) \in 0..MaxChars
    OBVIOUS
  <2>2. handled' \in Seq(0..MaxChars)
    BY <1>4, <2>1 DEF Take
  <2>. QED  BY <1>4, <2>2 DEF Take
<1>5. CASE Advance
  <2>1. head \in 0..(ClientSize - 1)
    OBVIOUS
  <2>2. (head + 1) % ClientSize \in 0..(ClientSize - 1)
    BY <2>1, HeadNext
  <2>. QED  BY <1>5, <2>2 DEF Advance
<1>6. CASE UNCHANGED vars
  BY <1>6 DEF vars
<1>. QED  BY <1>1, <1>2, <1>3, <1>4, <1>5, <1>6 DEF Next, internal_raw_putchar, getchar_handler

(* The client's index only moves away from the first lap.                       *)
LEMMA LapsEnd ==
  ASSUME TypeOK, [Next]_vars, SameRing'
  PROVE  SameRing
<1>. USE SizesAssumption
<1>1. CASE Take
  BY <1>1 DEF Take, page, SameRing, Taken, TypeOK
<1>2. CASE Advance
  BY <1>2 DEF Advance, SameRing, Taken, TypeOK
<1>3. CASE UNCHANGED <<client, handled>> \/ Wait
  BY <1>3 DEF Wait, page, SameRing, Taken
<1>. QED  BY <1>1, <1>2, <1>3 DEF Next, internal_raw_putchar, getchar_handler, vars, Admit, ReadHead,
                                  Store, Publish, Signal

LEMMA NextInv ==
  ASSUME RInv, [Next]_vars, SameRing'
  PROVE  RInv'
<1>1. CASE Next
  BY <1>1, AdmitInv, ReadHeadInv, StoreInv, PublishInv, SignalInv, WaitInv, TakeInv,
     AdvanceInv DEF Next, internal_raw_putchar, getchar_handler
<1>2. CASE UNCHANGED vars
  BY <1>2 DEF vars, RInv, RingOK, InOrder, FirstLap, Dist, Published, Taken, CellsHold, Wrap,
              TokensHold, RoomLeft, Token
<1>. QED  BY <1>1, <1>2

(* Behind the first lap nothing handled counts any more.                        *)
LEMMA OrderBehind ==
  ASSUME TypeOK, InOrder, ~SameRing, [Next]_vars
  PROVE  InOrder'
<1>. USE SizesAssumption
<1>1. CASE Take
  <2>1. PICK c : handled' = Append(handled, c) /\ c \in 0..MaxChars
    <3>1. (IF head < ServerSize THEN buf[head] ELSE 0) \in 0..MaxChars
      BY CharsAssumption DEF TypeOK
    <3>. QED  BY <1>1, <3>1 DEF Take
  <2>2. Len(handled) >= ServerSize /\ ClientSize # ServerSize
    BY <1>1 DEF Take, SameRing, Taken, TypeOK
  <2>. QED  BY <2>1, <2>2 DEF InOrder, TypeOK
<1>2. CASE UNCHANGED handled
  BY <1>2 DEF InOrder
<1>. QED  BY <1>1, <1>2 DEF Next, internal_raw_putchar, getchar_handler, vars, clientVars, page, Admit,
                            ReadHead, Store, Publish, Signal, Wait, Advance

(* The inductive invariant.                                                     *)
Inv ==
    /\ TypeOK /\ InOrder /\ Bounded
    /\ SameRing => RInv

LEMMA InitialInv == Init => Inv
<1>. SUFFICES ASSUME Init PROVE Inv
  OBVIOUS
<1>1. RInv
  BY InitInv
<1>2. TypeOK
  BY <1>1, SizesAssumption DEF RInv, RingOK, TypeOK
<1>. QED  BY <1>1, <1>2 DEF Inv, RInv, Bounded

LEMMA StepInv == Inv /\ [Next]_vars => Inv'
<1>. SUFFICES ASSUME Inv, [Next]_vars PROVE Inv'
  OBVIOUS
<1>1. TypeOK' /\ Bounded'
  BY TypesInv DEF Inv
<1>2. SameRing' => RInv'
  BY LapsEnd, NextInv DEF Inv
<1>3. InOrder'
  <2>1. CASE SameRing'
    BY <1>2, <2>1 DEF RInv
  <2>2. CASE ~SameRing
    BY <2>2, OrderBehind DEF Inv
  <2>3. CASE SameRing /\ ~SameRing'
    <3>1. UNCHANGED handled
      BY <2>3, SizesAssumption
         DEF Inv, TypeOK, SameRing, Taken, Next, internal_raw_putchar, getchar_handler, vars, page,
             Admit, ReadHead, Store, Publish, Signal, Wait, Advance, Take
    <3>. QED  BY <3>1 DEF Inv, InOrder
  <2>. QED  BY <2>1, <2>2, <2>3
<1>. QED  BY <1>1, <1>2, <1>3 DEF Inv

(* It holds in every reachable state.                                           *)
LEMMA Invariance == Spec => []Inv
BY InitialInv, StepInv, PTL DEF Spec

(* The indices stay within the ring that each side has, and every variable      *)
(* keeps its type.                                                              *)
THEOREM RingTypes == Spec => []TypeOK
<1>1. Inv => TypeOK
  BY DEF Inv
<1>. QED  BY <1>1, Invariance, PTL

(* benchUtiliz.c handles the characters put by internal_raw_putchar in order:   *)
(* none twice, none skipped, none overwritten. With the sizes of the sources    *)
(* (0x1000 and 4096 - 8) this is so for as many characters as the server's ring *)
(* has cells, with equal ones for ever.                                         *)
THEOREM HandledInOrder == Spec => []InOrder
<1>1. Inv => InOrder
  BY DEF Inv
<1>. QED  BY <1>1, Invariance, PTL

(* Until the client's index leaves the server's ring, if it ever does: a        *)
(* wake-up finds a character although getchar_handler does not look, and one    *)
(* left behind is announced with the next, for which there is room.             *)
THEOREM EveryoneAnnounced == Spec => []Announced
<1>. USE SizesAssumption, CharsAssumption
<1>1. RInv => WakesToCharacter
  BY DEF RInv, WakesToCharacter, TokensHold, Token, Dist, RingOK
<1>2. RInv => NextAnnounces
  <2>. SUFFICES ASSUME RInv, head # tail, client = "waiting", ~signalled, server = "idle"
                PROVE  head # last_head /\ ~Full
    BY DEF NextAnnounces
  <2>1. ~Token /\ Dist # 0 /\ Dist <= ServerSize - 2
    BY DEF RInv, RoomLeft, Token, Dist, RingOK
  <2>2. head # last_head
    <3>1. last_head # NoHead => last_head \in 0..(ServerSize - 1) /\ head = Wrap(last_head + 1)
      BY <2>1 DEF RInv, TokensHold, RingOK
    <3>2. head \in 0..(ServerSize - 1)
      BY DEF RInv, RingOK
    <3>. QED  BY <3>1, <3>2 DEF Wrap, NoHead
  <2>3. ~Full
    BY <2>1, FullWhen DEF RInv
  <2>. QED  BY <2>2, <2>3
<1>3. Inv => Announced
  BY <1>1, <1>2 DEF Inv, Announced
<1>. QED  BY <1>3, Invariance, PTL

(* The client's index leaves the server's ring with the last of its cells, if   *)
(* the sizes differ, and not before: GetChar's properties say all that can be   *)
(* said of the sources' sizes until then.                                       *)
THEOREM IndexInRing == Spec => [](SameRing => HeadInRing)
<1>1. Inv => (SameRing => HeadInRing)
  BY SizesAssumption DEF Inv, RInv, RingOK, HeadInRing
<1>. QED  BY <1>1, Invariance, PTL
================================================================================
