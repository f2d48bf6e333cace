------------------------- MODULE SerialServerProofs -------------------------
(* Proofs about SerialServer, for every number of clients, every length of the  *)
(* buffers and every width of the mask: each stream's characters are shown once,*)
(* in order, all but three in their own colour, and the mask misses none that   *)
(* it has a bit for.                                                            *)
EXTENDS SerialServer, TLAPS, WellFoundedInduction, FiniteSetTheorems

-----------------------------------------------------------------------------
(* Loops                                                                        *)

(* What holds before a loop and is preserved by every pass of it holds after    *)
(* every pass: T[n] are the states allowed after n passes.                      *)
LEMMA LoopInvariant ==
  ASSUME NEW N \in Nat, NEW T, NEW h,
         h[0] \in T[0],
         \A n \in 1..N : h[n - 1] \in T[n - 1] => h[n] \in T[n]
  PROVE  \A n \in 0..N : h[n] \in T[n]
<1>. DEFINE Bad == {n \in 0..N : h[n] \notin T[n]}
<1>. SUFFICES ASSUME Bad # {} PROVE FALSE
  OBVIOUS
<1>1. PICK n \in Bad : \A m \in Nat : m < n => m \notin Bad
  <2>1. Bad \subseteq Nat
    OBVIOUS
  <2>2. PICK n \in Bad : \A m \in Bad : ~(<< m, n >> \in OpToRel(<, Nat))
    BY <2>1, WFMin, NatLessThanWellFounded
  <2>. QED  BY <2>1, <2>2 DEF OpToRel
<1>2. n # 0 /\ n \in Nat
  OBVIOUS
<1>3. n - 1 \in 0..N /\ n \in 1..N /\ n - 1 < n
  BY <1>2
<1>4. h[n - 1] \in T[n - 1]
  BY <1>1, <1>3
<1>. QED  BY <1>3, <1>4

(* B[n] is what the pass after n passes does to each state of T.                *)
NeverLeaves(T, N, B) == \A n \in 0..(N - 1) : \A x \in T : B[n][x] \in T

Runs(T, N, B, base) ==
  {g \in [0..N -> T] : g[0] = base /\ \A n \in 1..N : g[n] = B[n - 1][g[n - 1]]}

(* A loop that never leaves T has a run, the function a recursive definition    *)
(* chooses.                                                                     *)
LEMMA LoopRuns ==
  ASSUME NEW N \in Nat, NEW T, NEW B, NEW base, base \in T, NeverLeaves(T, N, B)
  PROVE  Runs(T, N, B, base) # {}
<1>. DEFINE Run(g, n) == /\ g \in [0..n -> T] /\ g[0] = base
                         /\ \A m \in 1..n : g[m] = B[m - 1][g[m - 1]]
            h == [n \in 0..N |-> n]
            Some == [n \in 0..N |-> {m \in {n} : \E g : Run(g, n)}]
<1>1. h[0] \in Some[0]
  <2>1. Run([n \in 0..0 |-> base], 0)
    OBVIOUS
  <2>2. \E g : Run(g, h[0])
    <3>1. h[0] = 0
      OBVIOUS
    <3>. HIDE DEF Run, h
    <3>. QED  BY <2>1, <3>1, Zenon
  <2>. HIDE DEF Run
  <2>. QED  BY <2>2
<1>2. ASSUME NEW n \in 1..N, h[n - 1] \in Some[n - 1]
      PROVE  h[n] \in Some[n]
  <2>1. PICK r : Run(r, n - 1)
    BY <1>2
  <2>. DEFINE f == [m \in 0..n |-> IF m = n THEN B[n - 1][r[n - 1]] ELSE r[m]]
  <2>2. r[n - 1] \in T /\ n - 1 \in 0..(N - 1)
    BY <2>1
  <2>3. f \in [0..n -> T]
    BY <2>1, <2>2 DEF NeverLeaves
  <2>4. f[0] = base
    BY <2>1
  <2>5. ASSUME NEW m \in 1..n
        PROVE  f[m] = B[m - 1][f[m - 1]]
    <3>1. f[m - 1] = r[m - 1]
      OBVIOUS
    <3>2. CASE m = n
      BY <3>1, <3>2
    <3>3. CASE m # n
      BY <2>1, <3>1, <3>3
    <3>. QED  BY <3>2, <3>3
  <2>6. Run(f, n)
    BY <2>3, <2>4, <2>5
  <2>7. \E g : Run(g, h[n])
    <3>1. h[n] = n
      OBVIOUS
    <3>. HIDE DEF Run, f, h
    <3>. QED  BY <2>6, <3>1, Zenon
  <2>. HIDE DEF Run
  <2>. QED  BY <2>7
<1>. HIDE DEF Some, h, Run
<1>3. \A n \in 0..N : h[n] \in Some[n]
  BY <1>1, <1>2, LoopInvariant
<1>4. PICK g : Run(g, N)
  BY <1>3 DEF Some, h
<1>5. g \in Runs(T, N, B, base)
  BY <1>4 DEF Run, Runs
<1>. QED  BY <1>5

-----------------------------------------------------------------------------
(* FlattenSeq                                                                   *)

(* FlattenSeq joins its sequences from the first to the last.                   *)
LEMMA FlattenRuns ==
  ASSUME NEW S, NEW q \in Seq(Seq(S)), q # << >>
  PROVE  \E g \in [1..Len(q) -> Seq(S)] :
            /\ FlattenSeq(q) = g[Len(q)]
            /\ g[1] = q[1]
            /\ \A n \in 2..Len(q) : g[n] = g[n - 1] \o q[n]
<1>. DEFINE N == Len(q) - 1
            B == [n \in 0..(N - 1) |-> [x \in Seq(S) |-> x \o q[n + 2]]]
            F(g) == [i \in 1..Len(q) |-> IF i = 1 THEN q[i] ELSE g[i - 1] \o q[i]]
            flat == CHOOSE g : g = F(g)
<1>1. N \in Nat /\ q[1] \in Seq(S) /\ Len(q) = N + 1
  OBVIOUS
<1>2. ASSUME NEW n \in 0..(N - 1), NEW x \in Seq(S)
      PROVE  B[n][x] = x \o q[n + 2] /\ B[n][x] \in Seq(S)
  <2>1. q[n + 2] \in Seq(S)
    OBVIOUS
  <2>2. x \o q[n + 2] \in Seq(S)
    BY <2>1
  <2>. QED  BY <2>2
<1>3. PICK f \in [0..N -> Seq(S)] : f[0] = q[1] /\ \A n \in 1..N : f[n] = B[n - 1][f[n - 1]]
  <2>1. NeverLeaves(Seq(S), N, B)
    BY <1>2 DEF NeverLeaves
  <2>2. Runs(Seq(S), N, B, q[1]) # {}
    <3>. HIDE DEF B, N
    <3>. QED  BY <1>1, <2>1, LoopRuns
  <2>. HIDE DEF B, N
  <2>. QED  BY <2>2 DEF Runs
<1>. DEFINE e == [i \in 1..Len(q) |-> f[i - 1]]
<1>4. ASSUME NEW i \in 1..Len(q)
      PROVE  e[i] = IF i = 1 THEN q[i] ELSE e[i - 1] \o q[i]
  <2>1. CASE i = 1
    BY <1>3, <2>1
  <2>2. CASE i # 1
    <3>1. i - 1 \in 1..N /\ i - 2 \in 0..(N - 1) /\ i - 2 \in 0..N /\ i - 1 \in 1..Len(q) /\ (i - 2) + 2 = i
          /\ (i - 1) - 1 = i - 2
      BY <2>2
    <3>2. e[i] = f[i - 1] /\ e[i - 1] = f[i - 2]
      BY <3>1
    <3>3. f[i - 2] \in Seq(S)
      BY <1>3, <3>1
    <3>4. f[i - 1] = B[i - 2][f[i - 2]]
      BY <1>3, <3>1
    <3>5. B[i - 2][f[i - 2]] = f[i - 2] \o q[i]
      BY <1>2, <3>1, <3>3
    <3>. HIDE DEF e, B
    <3>. QED  BY <2>2, <3>2, <3>4, <3>5
  <2>. QED  BY <2>1, <2>2
<1>5. e = F(e)
  <2>1. e = [i \in 1..Len(q) |-> e[i]]
    OBVIOUS
  <2>. HIDE DEF e
  <2>. QED  BY <1>4, <2>1
<1>6. flat = F(flat)
  <2>. HIDE DEF F, e
  <2>. QED  BY <1>5, Zenon
<1>7. FlattenSeq(q) = flat[Len(q)]
  <2>1. Len(q) # 0
    OBVIOUS
  <2>. QED  BY <2>1 DEF FlattenSeq
<1>8. \A i \in 1..Len(q) : flat[i] = IF i = 1 THEN q[i] ELSE flat[i - 1] \o q[i]
  <2>. HIDE DEF flat
  <2>. QED  BY <1>6
<1>. DEFINE h == [n \in 0..N |-> flat[n + 1]]
<1>9. \A n \in 0..N : flat[n + 1] \in Seq(S)
  <2>. DEFINE T == [n \in 0..N |-> Seq(S)]
  <2>1. h[0] \in T[0]
    <3>. HIDE DEF flat
    <3>. QED  BY <1>1, <1>8
  <2>2. ASSUME NEW n \in 1..N, h[n - 1] \in T[n - 1]
        PROVE  h[n] \in T[n]
    <3>. HIDE DEF flat
    <3>1. h[n - 1] = flat[n] /\ h[n] = flat[n + 1] /\ T[n - 1] = Seq(S) /\ T[n] = Seq(S)
      OBVIOUS
    <3>2. n + 1 \in 1..Len(q) /\ n + 1 # 1 /\ (n + 1) - 1 = n
      OBVIOUS
    <3>3. flat[n + 1] = flat[n] \o q[n + 1]
      BY <1>8, <3>2
    <3>4. q[n + 1] \in Seq(S) /\ flat[n] \in Seq(S)
      BY <2>2, <3>1, <3>2
    <3>. HIDE DEF T, h, N
    <3>. QED  BY <3>1, <3>3, <3>4
  <2>3. \A n \in 0..N : h[n] \in T[n]
    <3>. HIDE DEF T, h, N, flat
    <3>. QED  BY <1>1, <2>1, <2>2, LoopInvariant
  <2>. HIDE DEF flat
  <2>. QED  BY <2>3
<1>. DEFINE g == [i \in 1..Len(q) |-> flat[i]]
<1>. HIDE DEF flat
<1>10. g \in [1..Len(q) -> Seq(S)]
  <2>1. \A i \in 1..Len(q) : i - 1 \in 0..N /\ (i - 1) + 1 = i
    OBVIOUS
  <2>2. \A i \in 1..Len(q) : flat[i] \in Seq(S)
    <3>. HIDE DEF N
    <3>. QED  BY <1>9, <2>1
  <2>. QED  BY <2>2
<1>11. FlattenSeq(q) = g[Len(q)] /\ g[1] = q[1]
  <2>1. 1 \in 1..Len(q) /\ Len(q) \in 1..Len(q)
    BY <1>1
  <2>2. g[1] = flat[1] /\ g[Len(q)] = flat[Len(q)] /\ flat[1] = q[1]
    BY <1>8, <2>1
  <2>. HIDE DEF g
  <2>. QED  BY <1>7, <2>2
<1>12. ASSUME NEW n \in 2..Len(q)
       PROVE  g[n] = g[n - 1] \o q[n]
  <2>1. n \in 1..Len(q) /\ n - 1 \in 1..Len(q) /\ n # 1
    OBVIOUS
  <2>2. g[n] = flat[n] /\ g[n - 1] = flat[n - 1]
    BY <2>1
  <2>. HIDE DEF g
  <2>. QED  BY <1>8, <2>1, <2>2
<1>. QED  BY <1>10, <1>11, <1>12

LEMMA SeqIsFunction ==
  ASSUME NEW T, NEW q \in Seq(T)
  PROVE  q = [i \in DOMAIN q |-> q[i]]
<1>1. q \in [1..Len(q) -> T]
  OBVIOUS
<1>. QED  BY <1>1

LEMMA AppendParts ==
  ASSUME NEW T, NEW q \in Seq(T), NEW x \in T
  PROVE  /\ Append(q, x) \in Seq(T) /\ Append(q, x) # << >>
         /\ Len(q) \in Nat /\ Len(Append(q, x)) = Len(q) + 1
         /\ DOMAIN Append(q, x) = 1..(Len(q) + 1)
         /\ Append(q, x) = [i \in DOMAIN Append(q, x) |-> Append(q, x)[i]]
         /\ Append(q, x)[Len(q) + 1] = x
         /\ \A n \in 1..Len(q) : Append(q, x)[n] = q[n]
<1>1. Append(q, x) \in Seq(T)
  OBVIOUS
<1>2. Append(q, x) = [i \in DOMAIN Append(q, x) |-> Append(q, x)[i]]
  BY <1>1, SeqIsFunction
<1>3. /\ Append(q, x) # << >>
      /\ Len(q) \in Nat /\ Len(Append(q, x)) = Len(q) + 1
      /\ DOMAIN Append(q, x) = 1..(Len(q) + 1)
      /\ Append(q, x)[Len(q) + 1] = x
      /\ \A n \in 1..Len(q) : Append(q, x)[n] = q[n]
  OBVIOUS
<1>. QED  BY <1>1, <1>2, <1>3, Zenon

LEMMA FlattenEmpty == FlattenSeq(<< >>) = << >>
BY DEF FlattenSeq

LEMMA FlattenType ==
  ASSUME NEW S, NEW q \in Seq(Seq(S))
  PROVE  FlattenSeq(q) \in Seq(S)
<1>1. CASE q = << >>
  <2>1. << >> \in Seq(S)
    OBVIOUS
  <2>. QED  BY <1>1, <2>1, FlattenEmpty, Zenon
<1>2. CASE q # << >>
  <2>1. PICK g \in [1..Len(q) -> Seq(S)] : FlattenSeq(q) = g[Len(q)]
    BY <1>2, FlattenRuns
  <2>2. Len(q) \in 1..Len(q)
    BY <1>2
  <2>. QED  BY <2>1, <2>2
<1>. QED  BY <1>1, <1>2

(* One more sequence is joined at the end.                                      *)
LEMMA FlattenAppend ==
  ASSUME NEW S, NEW q \in Seq(Seq(S)), NEW x \in Seq(S)
  PROVE  FlattenSeq(Append(q, x)) = FlattenSeq(q) \o x
<1>. DEFINE p == Append(q, x)
            N == Len(q)
<1>1. /\ p \in Seq(Seq(S)) /\ p # << >> /\ Len(p) = N + 1 /\ N \in Nat
      /\ p[N + 1] = x /\ \A n \in 1..N : p[n] = q[n]
  BY AppendParts
<1>2. PICK g \in [1..Len(p) -> Seq(S)] :
         /\ FlattenSeq(p) = g[Len(p)]
         /\ g[1] = p[1]
         /\ \A n \in 2..Len(p) : g[n] = g[n - 1] \o p[n]
  <2>1. p \in Seq(Seq(S)) /\ p # << >>
    BY <1>1
  <2>. HIDE DEF p, N
  <2>. QED  BY <2>1, FlattenRuns
<1>. HIDE DEF p
<1>3. CASE q = << >>
  <2>1. FlattenSeq(p) = x
    BY <1>1, <1>2, <1>3
  <2>2. << >> \o x = x
    OBVIOUS
  <2>. QED  BY <1>3, <2>1, <2>2, FlattenEmpty DEF p
<1>4. CASE q # << >>
  <2>1. PICK f \in [1..Len(q) -> Seq(S)] :
           /\ FlattenSeq(q) = f[Len(q)]
           /\ f[1] = q[1]
           /\ \A n \in 2..Len(q) : f[n] = f[n - 1] \o q[n]
    BY <1>4, FlattenRuns
  <2>2. N # 0
    BY <1>4
  <2>. DEFINE M == N - 1
              T == [n \in 0..M |-> {f[n + 1]}]
              h == [n \in 0..M |-> g[n + 1]]
  <2>3. M \in Nat /\ N = M + 1
    BY <1>1, <2>2
  <2>4. h[0] \in T[0]
    <3>1. h[0] = g[1] /\ T[0] = {f[1]} /\ 1 \in 1..N
      BY <2>3
    <3>2. g[1] = f[1]
      BY <1>1, <1>2, <2>1, <3>1
    <3>. QED  BY <3>1, <3>2
  <2>5. ASSUME NEW n \in 1..M, h[n - 1] \in T[n - 1]
        PROVE  h[n] \in T[n]
    <3>1. h[n - 1] = g[n] /\ T[n - 1] = {f[n]} /\ h[n] = g[n + 1] /\ T[n] = {f[n + 1]}
      BY <2>3
    <3>2. g[n] = f[n]
      BY <2>5, <3>1
    <3>3. n + 1 \in 2..Len(p) /\ n + 1 \in 2..Len(q) /\ n + 1 \in 1..N /\ (n + 1) - 1 = n
      BY <1>1, <2>3
    <3>4. g[n + 1] = g[n] \o q[n + 1] /\ f[n + 1] = f[n] \o q[n + 1]
      BY <1>1, <1>2, <2>1, <3>3
    <3>. HIDE DEF h, T
    <3>. QED  BY <3>1, <3>2, <3>4
  <2>6. \A n \in 0..M : h[n] \in T[n]
    <3>. HIDE DEF h, T, M
    <3>. QED  BY <2>3, <2>4, <2>5, LoopInvariant
  <2>7. g[N] = f[N]
    <3>1. M \in 0..M
      BY <2>3
    <3>2. h[M] \in T[M] /\ h[M] = g[M + 1] /\ T[M] = {f[M + 1]}
      BY <2>6, <3>1
    <3>. HIDE DEF h, T, M
    <3>. QED  BY <2>3, <3>2
  <2>8. g[N + 1] = g[N] \o p[N + 1]
    <3>1. N + 1 \in 2..Len(p) /\ (N + 1) - 1 = N
      BY <1>1, <2>2
    <3>. QED  BY <1>2, <3>1
  <2>. QED  BY <1>1, <1>2, <2>1, <2>7, <2>8 DEF p
<1>. QED  BY <1>3, <1>4

-----------------------------------------------------------------------------
(* The output state                                                             *)

Places == Streams \cup {NoStream}
Colours == {COLOR_RESET} \cup {ColourOf(b) : b \in Streams}
Buffers == {s \in Seq(Characters) : Len(s) <= CLIENT_OUTPUT_BUFFER_SIZE}
Pieces == [from : (SUBSET Streams) \ {{}}, text : Seq(Characters), colour : Colours]

Outs ==
  [ output_buffers : [Streams -> Buffers],
    last_out       : Places,
    bitmask        : SUBSET (Streams \cap 0 .. MaskBits - 1),
    done_output    : BOOLEAN,
    has_data       : BOOLEAN,
    colour         : Colours,
    shown          : Seq(Pieces) ]

RightColour(p) ==
  p.colour = IF Cardinality(p.from) > 1 THEN COLOR_RESET ELSE ColourOf(Min(p.from))

(* What the terminal has been switched to when last_out is d.                   *)
Painted(d) == IF d = NoStream THEN COLOR_RESET ELSE ColourOf(d)

(* What of a piece is stream b's, and all that b has given in a step, shown or  *)
(* still in its buffer.                                                         *)
Share(p, b) == IF b \in p.from THEN p.text ELSE << >>
Total(o, b) == ShownOf(o.shown, b) \o o.output_buffers[b]

(* The mask has the bit of each stream with text, those of B excepted.          *)
Covered(o, B) ==
  \A b \in (Streams \cap 0 .. MaskBits - 1) \ B :
    o.output_buffers[b] # << >> => b \in o.bitmask

(* The output states in which every stream b has given X[b].                    *)
Good(X, B) ==
  {o \in Outs :
     /\ o.colour = Painted(o.last_out)
     /\ \A i \in DOMAIN o.shown : RightColour(o.shown[i])
     /\ Covered(o, B)
     /\ \A b \in Streams : Total(o, b) = X[b]}

LEMMA ShownAppend ==
  ASSUME NEW q \in Seq(Pieces), NEW p \in Pieces, NEW b \in Streams
  PROVE  /\ ShownOf(q, b) \in Seq(Characters)
         /\ ShownOf(Append(q, p), b) = ShownOf(q, b) \o Share(p, b)
<1>. DEFINE Shares(s) == [i \in DOMAIN s |-> IF b \in s[i].from THEN s[i].text ELSE << >>]
            x == Share(p, b)
<1>1. x \in Seq(Characters)
  BY DEF Share, Pieces
<1>2. Shares(q) \in Seq(Seq(Characters))
  <2>1. \A i \in 1..Len(q) : (IF b \in q[i].from THEN q[i].text ELSE << >>) \in Seq(Characters)
    <3>. SUFFICES ASSUME NEW i \in 1..Len(q)
                  PROVE  (IF b \in q[i].from THEN q[i].text ELSE << >>) \in Seq(Characters)
      OBVIOUS
    <3>1. q[i] \in Pieces
      OBVIOUS
    <3>. QED  BY <3>1 DEF Pieces
  <2>2. Shares(q) = [i \in 1..Len(q) |-> IF b \in q[i].from THEN q[i].text ELSE << >>]
    OBVIOUS
  <2>. QED  BY <2>1, <2>2
<1>3. Shares(Append(q, p)) = Append(Shares(q), x)
  <2>1. /\ Append(q, p) \in Seq(Pieces) /\ DOMAIN Append(q, p) = 1..(Len(q) + 1)
        /\ Append(q, p)[Len(q) + 1] = p /\ \A i \in 1..Len(q) : Append(q, p)[i] = q[i]
        /\ Len(q) \in Nat
    OBVIOUS
  <2>2. Len(Shares(q)) = Len(q)
    OBVIOUS
  <2>3. Append(Shares(q), x) \in Seq(Seq(Characters))
    BY <1>1, <1>2
  <2>4. Append(Shares(q), x)
          = [i \in 1..(Len(q) + 1) |-> IF i = Len(q) + 1 THEN x ELSE Shares(q)[i]]
    <3>. HIDE DEF Shares, x
    <3>0. /\ DOMAIN Append(Shares(q), x) = 1..(Len(Shares(q)) + 1)
          /\ Append(Shares(q), x) = [i \in DOMAIN Append(Shares(q), x) |-> Append(Shares(q), x)[i]]
          /\ Append(Shares(q), x)[Len(Shares(q)) + 1] = x
          /\ \A n \in 1..Len(Shares(q)) : Append(Shares(q), x)[n] = Shares(q)[n]
      BY <1>1, <1>2, AppendParts
    <3>1. /\ Append(Shares(q), x) \in Seq(Seq(Characters))
          /\ DOMAIN Append(Shares(q), x) = 1..(Len(q) + 1)
          /\ Append(Shares(q), x)[Len(q) + 1] = x
          /\ \A n \in 1..Len(q) : Append(Shares(q), x)[n] = Shares(q)[n]
      BY <2>2, <2>3, <3>0, Zenon
    <3>2. Append(Shares(q), x) = [i \in 1..(Len(q) + 1) |-> Append(Shares(q), x)[i]]
      BY <3>0, <3>1, Zenon
    <3>3. \A i \in 1..(Len(q) + 1) : i # Len(q) + 1 => i \in 1..Len(q)
      BY <2>1
    <3>. QED  BY <3>1, <3>2, <3>3
  <2>5. \A i \in 1..(Len(q) + 1) :
          (IF b \in Append(q, p)[i].from THEN Append(q, p)[i].text ELSE << >>)
            = IF i = Len(q) + 1 THEN x ELSE Shares(q)[i]
    BY <2>1 DEF Share
  <2>6. Shares(Append(q, p)) = [i \in 1..(Len(q) + 1) |-> IF i = Len(q) + 1 THEN x ELSE Shares(q)[i]]
    BY <2>1, <2>5, Zenon
  <2>. QED  BY <2>4, <2>6
<1>4. FlattenSeq(Append(Shares(q), x)) = FlattenSeq(Shares(q)) \o x
  <2>. HIDE DEF Shares, x
  <2>. QED  BY <1>1, <1>2, FlattenAppend
<1>5. FlattenSeq(Shares(q)) \in Seq(Characters)
  <2>. HIDE DEF Shares, x
  <2>. QED  BY <1>2, FlattenType
<1>. QED  BY <1>3, <1>4, <1>5 DEF ShownOf

LEMMA MinIsLeast ==
  ASSUME NEW S \in SUBSET Nat, S # {}
  PROVE  Min(S) \in S /\ \A y \in S : Min(S) <= y
<1>0. S \subseteq Nat
  OBVIOUS
<1>. HIDE DEF Min
<1>1. \E n \in S : \A m \in S : ~(<< m, n >> \in OpToRel(<, Nat))
  BY <1>0, WFMin, NatLessThanWellFounded, Zenon
<1>3. PICK n \in S : \A m \in S : ~(<< m, n >> \in OpToRel(<, Nat))
  BY <1>1
<1>2. \A y \in S : n =< y
  <2>. SUFFICES ASSUME NEW y \in S PROVE n =< y
    OBVIOUS
  <2>1. ~(y < n)
    BY <1>0, <1>3 DEF OpToRel
  <2>. QED  BY <1>0, <2>1
<1>. QED  BY <1>2 DEF Min

LEMMA MinOne == ASSUME NEW b \in Int PROVE Min({b}) = b
<1>1. \A x : (x \in {b} /\ \A y \in {b} : x =< y) <=> x = b
  OBVIOUS
<1>. QED  BY <1>1 DEF Min

LEMMA SeqEqual ==
  ASSUME NEW T, NEW p \in Seq(T), NEW q \in Seq(T), Len(p) = Len(q),
         \A i \in 1..Len(q) : p[i] = q[i]
  PROVE  p = q
<1>1. p = [i \in DOMAIN p |-> p[i]] /\ q = [i \in DOMAIN q |-> q[i]]
  BY SeqIsFunction
<1>2. DOMAIN p = 1..Len(q) /\ DOMAIN q = 1..Len(q)
  OBVIOUS
<1>. QED  BY <1>1, <1>2, Zenon

LEMMA SeqBehind ==
  ASSUME NEW T, NEW p \in Seq(T), NEW q \in Seq(T)
  PROVE  /\ p \o q \in Seq(T) /\ Len(p \o q) = Len(p) + Len(q)
         /\ \A i \in 1..Len(p) : (p \o q)[i] = p[i]
         /\ \A i \in 1..Len(q) : (p \o q)[Len(p) + i] = q[i]
OBVIOUS

LEMMA SeqCut ==
  ASSUME NEW T, NEW s \in Seq(T), NEW n \in 0..Len(s)
  PROVE  /\ SubSeq(s, 1, n) \in Seq(T) /\ SubSeq(s, n + 1, Len(s)) \in Seq(T)
         /\ Len(SubSeq(s, 1, n)) = n /\ Len(SubSeq(s, n + 1, Len(s))) = Len(s) - n
         /\ SubSeq(s, 1, n) \o SubSeq(s, n + 1, Len(s)) = s
<1>1. /\ SubSeq(s, 1, n) \in Seq(T) /\ SubSeq(s, n + 1, Len(s)) \in Seq(T)
      /\ Len(SubSeq(s, 1, n)) = n /\ Len(SubSeq(s, n + 1, Len(s))) = Len(s) - n
  OBVIOUS
<1>2. SubSeq(s, 1, n) \o SubSeq(s, n + 1, Len(s)) = s
  <2>. DEFINE p == SubSeq(s, 1, n)
              r == SubSeq(s, n + 1, Len(s))
  <2>1. \A i \in 1..n : p[i] = s[i]
    OBVIOUS
  <2>2. \A i \in 1..(Len(s) - n) : r[i] = s[n + i]
    OBVIOUS
  <2>3. n \in Nat /\ Len(s) \in Nat /\ n <= Len(s)
    OBVIOUS
  <2>4. /\ p \o r \in Seq(T) /\ Len(p \o r) = Len(p) + Len(r)
        /\ \A i \in 1..Len(p) : (p \o r)[i] = p[i]
        /\ \A i \in 1..Len(r) : (p \o r)[Len(p) + i] = r[i]
    <3>1. p \in Seq(T) /\ r \in Seq(T)
      BY <1>1
    <3>. HIDE DEF p, r
    <3>. QED  BY <3>1, SeqBehind
  <2>0. Len(p) = n /\ Len(r) = Len(s) - n
    BY <1>1
  <2>. HIDE DEF p, r
  <2>5. Len(p \o r) = Len(s)
    BY <2>0, <2>3, <2>4
  <2>6. ASSUME NEW i \in 1..Len(s)
        PROVE  (p \o r)[i] = s[i]
    <3>1. CASE i <= n
      BY <2>0, <2>1, <2>3, <2>4, <3>1
    <3>2. CASE i > n
      <4>1. i - n \in 1..(Len(s) - n) /\ i = n + (i - n)
        BY <2>3, <3>2
      <4>2. PICK j \in 1..(Len(s) - n) : i = n + j
        BY <4>1, Zenon
      <4>3. r[j] = s[n + j] /\ (p \o r)[n + j] = r[j]
        BY <2>0, <2>2, <2>4
      <4>. QED  BY <4>2, <4>3
    <3>3. i <= n \/ i > n
      BY <2>3
    <3>. QED  BY <3>1, <3>2, <3>3, Zenon
  <2>. QED  BY <2>4, <2>5, <2>6, SeqEqual DEF p, r
<1>. QED  BY <1>1, <1>2

LEMMA PrefixPrefix ==
  ASSUME NEW T, NEW p \in Seq(T), NEW q \in Seq(T), NEW k \in Nat, NEW n \in Nat,
         n <= k, k <= Len(p), k <= Len(q), SubSeq(p, 1, k) = SubSeq(q, 1, k)
  PROVE  SubSeq(p, 1, n) = SubSeq(q, 1, n)
<1>1. /\ \A i \in 1..k : SubSeq(p, 1, k)[i] = p[i]
      /\ \A i \in 1..k : SubSeq(q, 1, k)[i] = q[i]
  OBVIOUS
<1>2. /\ SubSeq(p, 1, n) \in Seq(T) /\ Len(SubSeq(p, 1, n)) = n
      /\ SubSeq(q, 1, n) \in Seq(T) /\ Len(SubSeq(q, 1, n)) = n
      /\ \A i \in 1..n : SubSeq(p, 1, n)[i] = p[i]
      /\ \A i \in 1..n : SubSeq(q, 1, n)[i] = q[i]
  OBVIOUS
<1>3. \A i \in 1..n : p[i] = q[i]
  BY <1>1
<1>4. \A i \in 1..n : SubSeq(p, 1, n)[i] = SubSeq(q, 1, n)[i]
  BY <1>2, <1>3
<1>. HIDE DEF SubSeq
<1>. QED  BY <1>2, <1>4, SeqEqual

LEMMA SeqAssoc ==
  ASSUME NEW T, NEW x \in Seq(T), NEW y \in Seq(T), NEW z \in Seq(T)
  PROVE  (x \o y) \o z = x \o (y \o z)
OBVIOUS

(* A record with the fields of the output state.                                *)
IsOut(o) ==
  o = [ output_buffers |-> o.output_buffers, last_out |-> o.last_out, bitmask |-> o.bitmask,
        done_output |-> o.done_output, has_data |-> o.has_data, colour |-> o.colour,
        shown |-> o.shown ]

LEMMA OutsFields == ASSUME NEW o \in Outs PROVE IsOut(o)
BY DEF Outs, IsOut

LEMMA DropFields ==
  ASSUME NEW o, IsOut(o), NEW S \in SUBSET Streams, NEW n \in Nat
  PROVE  /\ IsOut(Drop(o, S, n))
         /\ Drop(o, S, n).output_buffers = Rest(o, S, n)
         /\ Drop(o, S, n).last_out = o.last_out
         /\ Drop(o, S, n).bitmask = o.bitmask \ {b \in S : Rest(o, S, n)[b] = << >>}
         /\ Drop(o, S, n).done_output = o.done_output
         /\ Drop(o, S, n).has_data = o.has_data
         /\ Drop(o, S, n).colour = o.colour
         /\ Drop(o, S, n).shown = o.shown
<1>1. PICK bufs, mask, done, data, last, col, sh :
        o = [ output_buffers |-> bufs, last_out |-> last, bitmask |-> mask,
              done_output |-> done, has_data |-> data, colour |-> col, shown |-> sh ]
  BY DEF IsOut
<1>. DEFINE R == Rest(o, S, n)
            gone == {b \in S : R[b] = << >>}
            p == Drop(o, S, n)
<1>2. p = [o EXCEPT !.output_buffers = R, !.bitmask = @ \ gone]
  BY DEF Drop
<1>. HIDE DEF R, gone, p
<1>3. p = [ output_buffers |-> R, last_out |-> last, bitmask |-> mask \ gone,
            done_output |-> done, has_data |-> data, colour |-> col, shown |-> sh ]
  BY <1>1, <1>2
<1>4. /\ IsOut(p) /\ p.output_buffers = R /\ p.last_out = o.last_out
      /\ p.bitmask = o.bitmask \ gone /\ p.done_output = o.done_output
      /\ p.has_data = o.has_data /\ p.colour = o.colour /\ p.shown = o.shown
  BY <1>1, <1>3 DEF IsOut
<1>. QED  BY <1>4 DEF R, gone, p

(* The fields of the output state p after a piece has been shown in o, with d   *)
(* the last stream shown.                                                       *)
ShownBy(p, o, S, n, d, piece) ==
  /\ IsOut(p)
  /\ p.output_buffers = Rest(o, S, n)
  /\ p.last_out = d
  /\ p.bitmask = o.bitmask \ {b \in S : Rest(o, S, n)[b] = << >>}
  /\ p.done_output = o.done_output
  /\ p.has_data = o.has_data
  /\ p.colour = piece.colour
  /\ p.shown = Append(o.shown, piece)

LEMMA ShownFields ==
  ASSUME NEW o, IsOut(o), NEW S \in SUBSET Streams, NEW n \in Nat, NEW text, NEW d
  PROVE  ShownBy(Drop(Show([o EXCEPT !.colour = Painted(d), !.last_out = d], S, text), S, n), o, S, n, d,
                 [from |-> S, text |-> text, colour |-> Painted(d)])
<1>. DEFINE p == Drop(Show([o EXCEPT !.colour = Painted(d), !.last_out = d], S, text), S, n)
<1>. DEFINE q == [o EXCEPT !.colour = Painted(d), !.last_out = d]
            a == Show(q, S, text)
<1>1. PICK bufs, mask, done, data, last, col, sh :
        o = [ output_buffers |-> bufs, last_out |-> last, bitmask |-> mask,
              done_output |-> done, has_data |-> data, colour |-> col, shown |-> sh ]
  BY DEF IsOut
<1>2. q = [ output_buffers |-> bufs, last_out |-> d, bitmask |-> mask,
            done_output |-> done, has_data |-> data, colour |-> Painted(d), shown |-> sh ]
  <2>1. q = [o EXCEPT !.colour = Painted(d), !.last_out = d]
    OBVIOUS
  <2>. HIDE DEF q
  <2>. QED  BY <1>1, <2>1
<1>3. a = [ output_buffers |-> bufs, last_out |-> d, bitmask |-> mask,
            done_output |-> done, has_data |-> data, colour |-> Painted(d),
            shown |-> Append(sh, [from |-> S, text |-> text, colour |-> Painted(d)]) ]
  <2>. HIDE DEF q
  <2>1. a = [q EXCEPT !.shown = Append(@, [from |-> S, text |-> text, colour |-> q.colour])]
    BY DEF Show
  <2>2. q.colour = Painted(d) /\ q.shown = sh
    BY <1>2
  <2>. DEFINE new == Append(sh, [from |-> S, text |-> text, colour |-> Painted(d)])
  <2>3. a = [q EXCEPT !.shown = new]
    BY <1>2, <2>1, <2>2
  <2>. HIDE DEF a, new
  <2>4. a = [ output_buffers |-> bufs, last_out |-> d, bitmask |-> mask,
              done_output |-> done, has_data |-> data, colour |-> Painted(d), shown |-> new ]
    BY <1>2, <2>3
  <2>. QED  BY <2>4 DEF new
<1>. HIDE DEF q, a
<1>4. /\ IsOut(a) /\ a.output_buffers = o.output_buffers /\ a.last_out = d /\ a.bitmask = o.bitmask
      /\ a.done_output = o.done_output /\ a.has_data = o.has_data /\ a.colour = Painted(d)
      /\ a.shown = Append(o.shown, [from |-> S, text |-> text, colour |-> Painted(d)])
  BY <1>1, <1>3 DEF IsOut
<1>5. Rest(a, S, n) = Rest(o, S, n)
  BY <1>4 DEF Rest
<1>6. p = Drop(a, S, n)
  BY Zenon DEF a, q
<1>7. /\ IsOut(Drop(a, S, n))
      /\ Drop(a, S, n).output_buffers = Rest(a, S, n)
      /\ Drop(a, S, n).last_out = a.last_out
      /\ Drop(a, S, n).bitmask = a.bitmask \ {b \in S : Rest(a, S, n)[b] = << >>}
      /\ Drop(a, S, n).done_output = a.done_output
      /\ Drop(a, S, n).has_data = a.has_data
      /\ Drop(a, S, n).colour = a.colour
      /\ Drop(a, S, n).shown = a.shown
  BY <1>4, DropFields
<1>. DEFINE piece == [from |-> S, text |-> text, colour |-> Painted(d)]
<1>8. piece.colour = Painted(d)
  OBVIOUS
<1>9. /\ IsOut(p) /\ p.output_buffers = Rest(o, S, n) /\ p.last_out = d
      /\ p.bitmask = o.bitmask \ {b \in S : Rest(o, S, n)[b] = << >>}
      /\ p.done_output = o.done_output /\ p.has_data = o.has_data /\ p.colour = Painted(d)
      /\ p.shown = Append(o.shown, piece)
  BY <1>4, <1>5, <1>6, <1>7, Zenon
<1>. QED  BY <1>8, <1>9, Zenon DEF ShownBy

LEMMA PaintedIs ==
  ASSUME NEW d \in Places
  PROVE  Painted(d) \in Colours /\ (d \in Streams => Painted(d) = ColourOf(d))
<1>1. d \in Streams => d # NoStream
  BY SizesAssumption DEF Streams, NoStream
<1>. QED  BY <1>1 DEF Painted, Places, Colours

(* A record with typed fields is an output state.                               *)
LEMMA OutsMember ==
  ASSUME NEW p, IsOut(p), p.output_buffers \in [Streams -> Buffers], p.last_out \in Places,
         p.bitmask \in SUBSET (Streams \cap 0 .. MaskBits - 1), p.done_output \in BOOLEAN,
         p.has_data \in BOOLEAN, p.colour \in Colours, p.shown \in Seq(Pieces)
  PROVE  p \in Outs
<1>1. PICK bufs \in [Streams -> Buffers], mask \in SUBSET (Streams \cap 0 .. MaskBits - 1),
           done \in BOOLEAN, data \in BOOLEAN, last \in Places, col \in Colours, sh \in Seq(Pieces) :
        p = [ output_buffers |-> bufs, last_out |-> last, bitmask |-> mask,
              done_output |-> done, has_data |-> data, colour |-> col, shown |-> sh ]
  BY DEF IsOut
<1>. QED  BY <1>1 DEF Outs

LEMMA OutsTypes ==
  ASSUME NEW p \in Outs
  PROVE  /\ IsOut(p) /\ p.output_buffers \in [Streams -> Buffers] /\ p.last_out \in Places
         /\ p.bitmask \in SUBSET (Streams \cap 0 .. MaskBits - 1) /\ p.done_output \in BOOLEAN
         /\ p.has_data \in BOOLEAN /\ p.colour \in Colours /\ p.shown \in Seq(Pieces)
         /\ \A b \in Streams : p.output_buffers[b] \in Seq(Characters)
                               /\ Len(p.output_buffers[b]) <= CLIENT_OUTPUT_BUFFER_SIZE
<1>1. IsOut(p)
  BY OutsFields
<1>2. /\ p.output_buffers \in [Streams -> Buffers] /\ p.last_out \in Places
      /\ p.bitmask \in SUBSET (Streams \cap 0 .. MaskBits - 1) /\ p.done_output \in BOOLEAN
      /\ p.has_data \in BOOLEAN /\ p.colour \in Colours /\ p.shown \in Seq(Pieces)
  BY DEF Outs
<1>3. \A b \in Streams : p.output_buffers[b] \in Seq(Characters)
                         /\ Len(p.output_buffers[b]) <= CLIENT_OUTPUT_BUFFER_SIZE
  BY <1>2 DEF Buffers
<1>. QED  BY <1>1, <1>2, <1>3

(* What a shown piece and what stays in the buffers make up what there was.     *)
LEMMA ShownTotal ==
  ASSUME NEW o \in Outs, NEW p, NEW S \in SUBSET Streams, NEW n \in Nat,
         NEW piece \in Pieces, piece.from = S,
         \A b \in S : n <= Len(o.output_buffers[b])
                      /\ SubSeq(o.output_buffers[b], 1, n) = piece.text,
         p.output_buffers = Rest(o, S, n), p.shown = Append(o.shown, piece),
         NEW b \in Streams
  PROVE  /\ p.output_buffers[b] \in Buffers
         /\ Total(p, b) = Total(o, b)
<1>. DEFINE s == o.output_buffers[b]
            t == ShownOf(o.shown, b)
<1>0. o.shown \in Seq(Pieces) /\ s \in Seq(Characters) /\ s \in Buffers
      /\ Len(s) <= CLIENT_OUTPUT_BUFFER_SIZE /\ Len(s) \in Nat
  BY OutsTypes DEF Outs
<1>1. t \in Seq(Characters) /\ ShownOf(p.shown, b) = t \o Share(piece, b)
  BY <1>0, ShownAppend
<1>. HIDE DEF s, t
<1>2. Total(o, b) = t \o s
  BY DEF Total, s, t
<1>3. Total(p, b) = (t \o Share(piece, b)) \o p.output_buffers[b]
  BY <1>1 DEF Total
<1>4. CASE b \in S
  <2>. DEFINE x == SubSeq(s, 1, n)
              y == SubSeq(s, n + 1, Len(s))
  <2>1. p.output_buffers[b] = y
    BY <1>4 DEF Rest, s
  <2>2. Share(piece, b) = x
    BY <1>4 DEF Share, s
  <2>3. n \in 0..Len(s)
    BY <1>0, <1>4 DEF s
  <2>4. /\ x \in Seq(Characters) /\ y \in Seq(Characters) /\ Len(y) = Len(s) - n /\ x \o y = s
    <3>. HIDE DEF x, y
    <3>. QED  BY <1>0, <2>3, SeqCut DEF x, y
  <2>5. Total(p, b) = t \o (x \o y)
    <3>1. (t \o x) \o y = t \o (x \o y)
      <4>1. t \in Seq(Characters) /\ x \in Seq(Characters) /\ y \in Seq(Characters)
        BY <1>1, <2>4
      <4>. HIDE DEF x, y
      <4>. QED  BY <4>1
    <3>. HIDE DEF x, y
    <3>. QED  BY <1>3, <2>1, <2>2, <3>1
  <2>. HIDE DEF x, y
  <2>6. y \in Buffers
    <3>1. CLIENT_OUTPUT_BUFFER_SIZE \in Nat
      BY SizesAssumption
    <3>. QED  BY <1>0, <2>3, <2>4, <3>1 DEF Buffers
  <2>. QED  BY <1>2, <2>1, <2>4, <2>5, <2>6
<1>5. CASE b \notin S
  <2>1. p.output_buffers[b] = s
    BY <1>5 DEF Rest, s
  <2>2. Share(piece, b) = << >>
    BY <1>5 DEF Share
  <2>3. t \o << >> = t
    BY <1>1
  <2>. QED  BY <1>0, <1>2, <1>3, <2>1, <2>2, <2>3
<1>. QED  BY <1>4, <1>5

(* The front of some buffers is shown and leaves them, whatever B.              *)
LEMMA ShowGood ==
  ASSUME NEW X, NEW B, NEW o \in Good(X, B), NEW S \in SUBSET Streams, S # {}, NEW n \in Nat,
         NEW text \in Seq(Characters), NEW d \in Places,
         RightColour([from |-> S, text |-> text, colour |-> Painted(d)]),
         \A b \in S : n <= Len(o.output_buffers[b])
                      /\ SubSeq(o.output_buffers[b], 1, n) = text
  PROVE  Drop(Show([o EXCEPT !.colour = Painted(d), !.last_out = d], S, text), S, n) \in Good(X, B)
<1>. DEFINE piece == [from |-> S, text |-> text, colour |-> Painted(d)]
<1>0. o \in Outs /\ (\A i \in DOMAIN o.shown : RightColour(o.shown[i])) /\ Covered(o, B)
      /\ \A b \in Streams : Total(o, b) = X[b]
  BY DEF Good
<1>1. IsOut(o) /\ o.shown \in Seq(Pieces) /\ o.output_buffers \in [Streams -> Buffers]
      /\ o.bitmask \in SUBSET (Streams \cap 0 .. MaskBits - 1)
      /\ o.done_output \in BOOLEAN /\ o.has_data \in BOOLEAN
  BY <1>0, OutsTypes
<1>2. PICK p : p = Drop(Show([o EXCEPT !.colour = Painted(d), !.last_out = d], S, text), S, n)
  OBVIOUS
<1>3. /\ IsOut(p)
      /\ p.output_buffers = Rest(o, S, n)
      /\ p.last_out = d
      /\ p.bitmask = o.bitmask \ {b \in S : Rest(o, S, n)[b] = << >>}
      /\ p.done_output = o.done_output
      /\ p.has_data = o.has_data
      /\ p.colour = Painted(d)
      /\ p.shown = Append(o.shown, piece)
  <2>1. ShownBy(p, o, S, n, d, piece)
    BY <1>1, <1>2, ShownFields
  <2>2. piece.colour = Painted(d)
    OBVIOUS
  <2>. HIDE DEF piece
  <2>. QED  BY <2>1, <2>2 DEF ShownBy
<1>4. piece \in Pieces /\ piece.from = S /\ piece.text = text /\ RightColour(piece)
  BY PaintedIs DEF Pieces
<1>. HIDE DEF piece
<1>5. \A b \in Streams : p.output_buffers[b] \in Buffers /\ Total(p, b) = Total(o, b)
  <2>. SUFFICES ASSUME NEW b \in Streams
                PROVE  p.output_buffers[b] \in Buffers /\ Total(p, b) = Total(o, b)
    OBVIOUS
  <2>1. \A c \in S : n <= Len(o.output_buffers[c])
                     /\ SubSeq(o.output_buffers[c], 1, n) = piece.text
    BY <1>4
  <2>2. o \in Outs /\ piece \in Pieces /\ piece.from = S
        /\ p.output_buffers = Rest(o, S, n) /\ p.shown = Append(o.shown, piece)
    BY <1>0, <1>3, <1>4
  <2>. QED  BY <2>1, <2>2, ShownTotal, Zenon
<1>6. p \in Outs
  <2>1. p.output_buffers \in [Streams -> Buffers]
    BY <1>3, <1>5 DEF Rest
  <2>2. p.shown \in Seq(Pieces)
    BY <1>1, <1>3, <1>4
  <2>3. p.bitmask \in SUBSET (Streams \cap 0 .. MaskBits - 1)
    BY <1>1, <1>3
  <2>4. p.colour \in Colours /\ p.last_out \in Places
    BY <1>3, PaintedIs
  <2>. QED  BY <1>1, <1>3, <2>1, <2>2, <2>3, <2>4, OutsMember
<1>7. \A i \in DOMAIN p.shown : RightColour(p.shown[i])
  <2>1. /\ DOMAIN p.shown = 1..(Len(o.shown) + 1) /\ p.shown[Len(o.shown) + 1] = piece
        /\ \A i \in 1..Len(o.shown) : p.shown[i] = o.shown[i]
        /\ Len(o.shown) \in Nat
    BY <1>1, <1>3, <1>4, AppendParts
  <2>2. DOMAIN o.shown = 1..Len(o.shown)
    BY <1>1
  <2>. SUFFICES ASSUME NEW i \in DOMAIN p.shown PROVE RightColour(p.shown[i])
    OBVIOUS
  <2>3. CASE i = Len(o.shown) + 1
    BY <1>4, <2>1, <2>3
  <2>4. CASE i # Len(o.shown) + 1
    <3>1. i \in 1..Len(o.shown)
      BY <2>1, <2>4
    <3>. QED  BY <1>0, <2>1, <2>2, <3>1
  <2>. QED  BY <2>3, <2>4
<1>8. Covered(p, B)
  <2>. SUFFICES ASSUME NEW b \in (Streams \cap 0 .. MaskBits - 1) \ B,
                       p.output_buffers[b] # << >>
                PROVE  b \in p.bitmask
    BY DEF Covered
  <2>1. CASE b \in S
    <3>1. o.output_buffers[b] # << >>
      <4>1. SUFFICES ASSUME o.output_buffers[b] = << >> PROVE p.output_buffers[b] = << >>
        OBVIOUS
      <4>2. p.output_buffers[b] = SubSeq(<< >>, n + 1, 0)
        BY <1>3, <2>1, <4>1 DEF Rest
      <4>. QED  BY <4>2
    <3>2. b \in o.bitmask
      BY <1>0, <3>1 DEF Covered
    <3>. QED  BY <1>3, <3>2
  <2>2. CASE b \notin S
    <3>1. o.output_buffers[b] # << >>
      BY <1>3, <2>2 DEF Rest
    <3>2. b \in o.bitmask
      BY <1>0, <3>1 DEF Covered
    <3>. QED  BY <1>3, <2>2, <3>2
  <2>. QED  BY <2>1, <2>2
<1>9. p \in Good(X, B)
  BY <1>0, <1>3, <1>5, <1>6, <1>7, <1>8 DEF Good
<1>. QED  BY <1>2, <1>9

(* The flags, the colour and a bit more or less where it does not matter.       *)
LEMMA GoodSame ==
  ASSUME NEW X, NEW B, NEW o \in Good(X, B), NEW D, NEW p \in Outs, p.colour = Painted(p.last_out),
         p.output_buffers = o.output_buffers, p.shown = o.shown,
         \A b \in Streams \ D : b \in o.bitmask => b \in p.bitmask,
         \A b \in B \ D : b \in Streams /\ b < MaskBits => b \in p.bitmask \/ o.output_buffers[b] = << >>
  PROVE  p \in Good(X, D)
<1>1. (\A i \in DOMAIN o.shown : RightColour(o.shown[i])) /\ Covered(o, B)
      /\ \A b \in Streams : Total(o, b) = X[b]
  BY DEF Good
<1>2. \A b \in Streams : Total(p, b) = X[b]
  BY <1>1 DEF Total
<1>3. Covered(p, D)
  <2>. SUFFICES ASSUME NEW b \in (Streams \cap 0 .. MaskBits - 1) \ D,
                       p.output_buffers[b] # << >>
                PROVE  b \in p.bitmask
    BY DEF Covered
  <2>1. b \in Streams /\ b < MaskBits
    BY SizesAssumption
  <2>2. CASE b \in B
    BY <2>1, <2>2
  <2>3. CASE b \notin B
    BY <1>1, <2>3 DEF Covered
  <2>. QED  BY <2>2, <2>3
<1>4. \A i \in DOMAIN p.shown : RightColour(p.shown[i])
  BY <1>1
<1>. QED  BY <1>2, <1>3, <1>4 DEF Good

LEMMA DoneGood ==
  ASSUME NEW X, NEW B, NEW o \in Good(X, B), NEW v \in BOOLEAN
  PROVE  /\ [o EXCEPT !.done_output = v] \in Good(X, B)
         /\ [o EXCEPT !.done_output = v].output_buffers = o.output_buffers
<1>0. o \in Outs /\ o.colour = Painted(o.last_out)
  BY DEF Good
<1>1. PICK p : p = [o EXCEPT !.done_output = v]
  OBVIOUS
<1>2. /\ p \in Outs /\ p.output_buffers = o.output_buffers /\ p.shown = o.shown
      /\ p.bitmask = o.bitmask /\ p.colour = o.colour /\ p.last_out = o.last_out
  BY <1>0, <1>1 DEF Outs
<1>3. p \in Good(X, B)
  BY <1>0, <1>2, GoodSame
<1>. QED  BY <1>1, <1>2, <1>3, Zenon

LEMMA SelectIs ==
  ASSUME NEW o \in Outs, o.colour = Painted(o.last_out), NEW b \in Streams
  PROVE  Select(o, b) = [o EXCEPT !.colour = Painted(b), !.last_out = b]
<1>1. (IF b = o.last_out THEN o.colour ELSE ColourOf(b)) = Painted(b)
  BY PaintedIs DEF Places
<1>2. Select(o, b) = [o EXCEPT !.colour = IF b = o.last_out THEN o.colour ELSE ColourOf(b),
                               !.last_out = b]
  BY DEF Select, Outs
<1>. QED  BY <1>1, <1>2, Zenon

LEMMA SelectGood ==
  ASSUME NEW X, NEW B, NEW o \in Good(X, B), NEW b \in Streams
  PROVE  /\ Select(o, b) \in Good(X, B)
         /\ Select(o, b).output_buffers = o.output_buffers
<1>0. o \in Outs /\ o.colour = Painted(o.last_out) /\ b \in Places
  BY DEF Good, Places
<1>1. PICK p : p = Select(o, b)
  OBVIOUS
<1>2. p = [o EXCEPT !.colour = Painted(b), !.last_out = b]
  BY <1>0, <1>1, SelectIs
<1>3. /\ p \in Outs /\ p.output_buffers = o.output_buffers /\ p.shown = o.shown
      /\ p.bitmask = o.bitmask /\ p.colour = Painted(b) /\ p.last_out = b
  BY <1>0, <1>2, PaintedIs DEF Outs
<1>4. p \in Good(X, B)
  BY <1>3, GoodSame
<1>. QED  BY <1>1, <1>3, <1>4, Zenon

(* The front of one stream is shown.                                            *)
LEMMA ShowFirstGood ==
  ASSUME NEW X, NEW B, NEW o \in Good(X, B), NEW b \in Streams,
         NEW n \in 0..Len(o.output_buffers[b])
  PROVE  /\ ShowFirst(o, b, n) \in Good(X, B)
         /\ ShownBy(ShowFirst(o, b, n), o, {b}, n, b,
              [from |-> {b}, text |-> SubSeq(o.output_buffers[b], 1, n), colour |-> Painted(b)])
<1>. DEFINE text == SubSeq(o.output_buffers[b], 1, n)
<1>0. o \in Outs /\ o.colour = Painted(o.last_out)
  BY DEF Good
<1>1. o.output_buffers[b] \in Seq(Characters) /\ n \in Nat /\ n <= Len(o.output_buffers[b])
  BY <1>0, OutsTypes
<1>2. text \in Seq(Characters)
  BY <1>1
<1>3. b \in Places /\ b \in Int
  BY SizesAssumption DEF Places, Streams
<1>4. RightColour([from |-> {b}, text |-> text, colour |-> Painted(b)])
  <2>1. Cardinality({b}) = 1 /\ Min({b}) = b
    BY <1>3, FS_Singleton, MinOne
  <2>. QED  BY <1>3, <2>1, PaintedIs DEF RightColour
<1>5. Select(o, b) = [o EXCEPT !.colour = Painted(b), !.last_out = b]
  BY <1>0, SelectIs
<1>6. ShowFirst(o, b, n)
        = Drop(Show([o EXCEPT !.colour = Painted(b), !.last_out = b], {b}, text), {b}, n)
  BY <1>5, Zenon DEF ShowFirst
<1>. HIDE DEF text
<1>7. /\ {b} \in SUBSET Streams
      /\ \A d \in {b} : n <= Len(o.output_buffers[d]) /\ SubSeq(o.output_buffers[d], 1, n) = text
  BY <1>1 DEF text
<1>8. ShowFirst(o, b, n) \in Good(X, B)
  BY <1>1, <1>2, <1>3, <1>4, <1>6, <1>7, ShowGood
<1>9. ShownBy(ShowFirst(o, b, n), o, {b}, n, b, [from |-> {b}, text |-> text, colour |-> Painted(b)])
  <2>1. IsOut(o)
    BY <1>0, OutsFields
  <2>2. ShownBy(Drop(Show([o EXCEPT !.colour = Painted(b), !.last_out = b], {b}, text), {b}, n), o, {b}, n, b,
                [from |-> {b}, text |-> text, colour |-> Painted(b)])
    BY <1>1, <1>7, <2>1, ShownFields
  <2>. QED  BY <1>6, <2>2, Zenon
<1>. QED  BY <1>8, <1>9 DEF text

LEMMA flush_bufferGood ==
  ASSUME NEW X, NEW B, NEW o \in Good(X, B), NEW b \in Streams
  PROVE  flush_buffer(o, b) \in Good(X, B) /\ flush_buffer(o, b).output_buffers[b] = << >>
<1>0. o.output_buffers[b] \in Seq(Characters)
  BY OutsTypes DEF Good
<1>1. CASE o.output_buffers[b] = << >>
  BY <1>1 DEF flush_buffer
<1>2. CASE o.output_buffers[b] # << >>
  <2>1. Len(o.output_buffers[b]) \in 0..Len(o.output_buffers[b])
    BY <1>0
  <2>2. PICK p : p = ShowFirst(o, b, Len(o.output_buffers[b]))
    OBVIOUS
  <2>3. /\ p \in Good(X, B) /\ p.output_buffers = Rest(o, {b}, Len(o.output_buffers[b]))
    <3>. DEFINE n == Len(o.output_buffers[b])
                piece == [from |-> {b}, text |-> SubSeq(o.output_buffers[b], 1, n), colour |-> Painted(b)]
    <3>. HIDE DEF n
    <3>1. ShowFirst(o, b, n) \in Good(X, B) /\ ShownBy(ShowFirst(o, b, n), o, {b}, n, b, piece)
      BY <2>1, ShowFirstGood DEF n
    <3>2. p = ShowFirst(o, b, n)
      BY <2>2 DEF n
    <3>. HIDE DEF piece
    <3>3. p \in Good(X, B) /\ ShownBy(p, o, {b}, n, b, piece)
      BY <3>1, <3>2, Zenon
    <3>. QED  BY <3>3, Zenon DEF ShownBy, n
  <2>4. p.output_buffers[b] = << >>
    BY <1>0, <2>3 DEF Rest
  <2>5. flush_buffer(o, b) = [p EXCEPT !.done_output = TRUE]
    BY <1>2, <2>2 DEF flush_buffer
  <2>6. /\ [p EXCEPT !.done_output = TRUE] \in Good(X, B)
        /\ [p EXCEPT !.done_output = TRUE].output_buffers = p.output_buffers
    BY <2>3, DoneGood
  <2>. QED  BY <2>4, <2>5, <2>6, Zenon
<1>. QED  BY <1>1, <1>2

LEMMA LineLengthRange ==
  ASSUME NEW s \in Seq(Characters)
  PROVE  LineLength(s) \in 0..Len(s)
<1>. DEFINE I(c) == {i \in 1..Len(s) : s[i] = c}
            at(c) == IF I(c) # {} THEN Min(I(c)) ELSE 0
            end == IF at(CR) # 0 THEN at(CR) ELSE at(LF)
<1>0. Len(s) \in Nat
  OBVIOUS
<1>1. ASSUME NEW c PROVE at(c) \in 0..Len(s)
  <2>1. I(c) \in SUBSET Nat
    BY <1>0
  <2>2. I(c) # {} => Min(I(c)) \in I(c)
    <3>. HIDE DEF I
    <3>. QED  BY <2>1, MinIsLeast
  <2>. QED  BY <1>0, <2>2
<1>2. end \in 0..Len(s)
  <2>. HIDE DEF at
  <2>. QED  BY <1>1
<1>3. LineLength(s) = IF end # 0 /\ end < Len(s) /\ s[end + 1] \in {CR, LF} THEN end + 1 ELSE end
  BY DEF LineLength, SelectInSeq
<1>. HIDE DEF end
<1>. QED  BY <1>0, <1>2, <1>3

LEMMA flush_buffer_lineGood ==
  ASSUME NEW X, NEW B, NEW o \in Good(X, B), NEW b \in Streams
  PROVE  flush_buffer_line(o, b) \in Good(X, B)
<1>0. o.output_buffers[b] \in Seq(Characters)
  BY OutsTypes DEF Good
<1>. DEFINE n == LineLength(o.output_buffers[b])
<1>1. n \in 0..Len(o.output_buffers[b])
  BY <1>0, LineLengthRange
<1>. HIDE DEF n
<1>2. ShowFirst(o, b, n) \in Good(X, B)
  BY <1>1, ShowFirstGood
<1>. QED  BY <1>2, Zenon DEF flush_buffer_line, n

(* flush_each_line flushes a line of each stream, from the first to the last.   *)
LEMMA flush_each_lineRun ==
  ASSUME NEW X, NEW B, NEW o \in Good(X, B)
  PROVE  \E g : /\ flush_each_line(o) = g[(2 * MAX_CLIENTS)] /\ g[0] = o
                /\ \A n \in 0..(2 * MAX_CLIENTS) : g[n] \in Good(X, B)
                /\ \A n \in 1..(2 * MAX_CLIENTS) : g[n] = flush_buffer_line(g[n - 1], n - 1)
<1>. DEFINE N == (2 * MAX_CLIENTS)
            T == Good(X, B)
            step(x, n) == flush_buffer_line(x, n)
            F(g) == [i \in 0..N |-> IF i = 0 THEN o ELSE step(g[i - 1], i - 1)]
            after == CHOOSE g : g = F(g)
            E == [n \in 0..(N - 1) |-> [x \in T |-> step(x, n)]]
<1>0. N \in Nat /\ o \in T
  BY SizesAssumption
<1>1. ASSUME NEW n \in 0..(N - 1), NEW x \in T
      PROVE  step(x, n) \in T
  <2>1. n \in Streams
    BY SizesAssumption DEF Streams
  <2>. QED  BY <2>1, flush_buffer_lineGood
<1>2. flush_each_line(o) = after[N]
  BY DEF flush_each_line
<1>. HIDE DEF step, T, N
<1>3. \A n \in 0..(N - 1) : \A x \in T : E[n][x] = step(x, n)
  OBVIOUS
<1>4. NeverLeaves(T, N, E)
  BY <1>1, <1>3 DEF NeverLeaves
<1>. HIDE DEF E
<1>5. PICK e : e \in Runs(T, N, E, o)
  BY <1>0, <1>4, LoopRuns
<1>6. e \in [0..N -> T] /\ e[0] = o /\ \A n \in 1..N : e[n] = E[n - 1][e[n - 1]]
  BY <1>5 DEF Runs
<1>7. ASSUME NEW i \in 0..N
      PROVE  e[i] = IF i = 0 THEN o ELSE step(e[i - 1], i - 1)
  <2>1. CASE i = 0
    BY <1>6, <2>1
  <2>2. CASE i # 0
    <3>1. i \in 1..N /\ i - 1 \in 0..(N - 1) /\ i - 1 \in 0..N
      BY <1>0, <2>2
    <3>2. e[i - 1] \in T
      BY <1>6, <3>1
    <3>3. e[i] = E[i - 1][e[i - 1]]
      BY <1>6, <3>1
    <3>4. E[i - 1][e[i - 1]] = step(e[i - 1], i - 1)
      BY <1>3, <3>1, <3>2
    <3>. QED  BY <2>2, <3>3, <3>4, Zenon
  <2>. QED  BY <2>1, <2>2
<1>8. e = F(e)
  <2>1. e = [i \in 0..N |-> e[i]]
    BY <1>6
  <2>. QED  BY <1>7, <2>1, Zenon
<1>9. after = F(after)
  <2>. HIDE DEF F
  <2>. QED  BY <1>8, Zenon
<1>. HIDE DEF after
<1>10. \A i \in 0..N : after[i] = IF i = 0 THEN o ELSE step(after[i - 1], i - 1)
  BY <1>9
<1>11. after[0] = o
  BY <1>0, <1>10
<1>12. ASSUME NEW n \in 1..N
       PROVE  after[n] = step(after[n - 1], n - 1)
  <2>1. n \in 0..N /\ n # 0
    BY <1>0
  <2>. QED  BY <1>10, <2>1
<1>13. \A n \in 0..N : after[n] \in T
  <2>. DEFINE C == [n \in 0..N |-> T]
  <2>1. \A n \in 0..N : C[n] = T
    OBVIOUS
  <2>. HIDE DEF C
  <2>2. after[0] \in C[0]
    BY <1>0, <1>11, <2>1
  <2>3. ASSUME NEW n \in 1..N, after[n - 1] \in C[n - 1]
        PROVE  after[n] \in C[n]
    <3>1. n \in 0..N /\ n - 1 \in 0..N /\ n - 1 \in 0..(N - 1)
      BY <1>0
    <3>2. after[n - 1] \in T
      BY <2>1, <2>3, <3>1
    <3>3. step(after[n - 1], n - 1) \in T
      BY <1>1, <3>1, <3>2
    <3>. QED  BY <1>12, <2>1, <3>1, <3>3
  <2>4. \A n \in 0..N : after[n] \in C[n]
    BY <1>0, <2>2, <2>3, LoopInvariant
  <2>. QED  BY <2>1, <2>4
<1>14. /\ flush_each_line(o) = after[N] /\ after[0] = o
       /\ \A n \in 0..N : after[n] \in T
       /\ \A n \in 1..N : after[n] = step(after[n - 1], n - 1)
  BY <1>2, <1>11, <1>12, <1>13
<1>. QED  BY <1>14, Zenon DEF T, N, step

LEMMA flush_each_lineGood ==
  ASSUME NEW X, NEW B, NEW o \in Good(X, B)
  PROVE  flush_each_line(o) \in Good(X, B)
<1>1. 2 * MAX_CLIENTS \in 0..(2 * MAX_CLIENTS)
  BY SizesAssumption
<1>. QED  BY <1>1, flush_each_lineRun

(* flush_lines flushes a line of each stream while there is one.                *)
LEMMA flush_linesRun ==
  ASSUME NEW X, NEW B, NEW o \in Good(X, B)
  PROVE  \E g : /\ flush_lines(o) = g[CLIENT_OUTPUT_BUFFER_SIZE] /\ g[0] = o
                /\ \A n \in 0..CLIENT_OUTPUT_BUFFER_SIZE : g[n] \in Good(X, B)
                /\ \A n \in 1..CLIENT_OUTPUT_BUFFER_SIZE : g[n] = IF HasLine(g[n - 1]) THEN flush_each_line(g[n - 1]) ELSE g[n - 1]
<1>. DEFINE N == CLIENT_OUTPUT_BUFFER_SIZE
            T == Good(X, B)
            step(x, n) == IF HasLine(x) THEN flush_each_line(x) ELSE x
            F(g) == [i \in 0..N |-> IF i = 0 THEN o ELSE step(g[i - 1], i - 1)]
            after == CHOOSE g : g = F(g)
            E == [n \in 0..(N - 1) |-> [x \in T |-> step(x, n)]]
<1>0. N \in Nat /\ o \in T
  BY SizesAssumption
<1>1. ASSUME NEW n \in 0..(N - 1), NEW x \in T
      PROVE  step(x, n) \in T
  BY flush_each_lineGood
<1>2. flush_lines(o) = after[N]
  BY DEF flush_lines
<1>. HIDE DEF step, T, N
<1>3. \A n \in 0..(N - 1) : \A x \in T : E[n][x] = step(x, n)
  OBVIOUS
<1>4. NeverLeaves(T, N, E)
  BY <1>1, <1>3 DEF NeverLeaves
<1>. HIDE DEF E
<1>5. PICK e : e \in Runs(T, N, E, o)
  BY <1>0, <1>4, LoopRuns
<1>6. e \in [0..N -> T] /\ e[0] = o /\ \A n \in 1..N : e[n] = E[n - 1][e[n - 1]]
  BY <1>5 DEF Runs
<1>7. ASSUME NEW i \in 0..N
      PROVE  e[i] = IF i = 0 THEN o ELSE step(e[i - 1], i - 1)
  <2>1. CASE i = 0
    BY <1>6, <2>1
  <2>2. CASE i # 0
    <3>1. i \in 1..N /\ i - 1 \in 0..(N - 1) /\ i - 1 \in 0..N
      BY <1>0, <2>2
    <3>2. e[i - 1] \in T
      BY <1>6, <3>1
    <3>3. e[i] = E[i - 1][e[i - 1]]
      BY <1>6, <3>1
    <3>4. E[i - 1][e[i - 1]] = step(e[i - 1], i - 1)
      BY <1>3, <3>1, <3>2
    <3>. QED  BY <2>2, <3>3, <3>4, Zenon
  <2>. QED  BY <2>1, <2>2
<1>8. e = F(e)
  <2>1. e = [i \in 0..N |-> e[i]]
    BY <1>6
  <2>. QED  BY <1>7, <2>1, Zenon
<1>9. after = F(after)
  <2>. HIDE DEF F
  <2>. QED  BY <1>8, Zenon
<1>. HIDE DEF after
<1>10. \A i \in 0..N : after[i] = IF i = 0 THEN o ELSE step(after[i - 1], i - 1)
  BY <1>9
<1>11. after[0] = o
  BY <1>0, <1>10
<1>12. ASSUME NEW n \in 1..N
       PROVE  after[n] = step(after[n - 1], n - 1)
  <2>1. n \in 0..N /\ n # 0
    BY <1>0
  <2>. QED  BY <1>10, <2>1
<1>13. \A n \in 0..N : after[n] \in T
  <2>. DEFINE C == [n \in 0..N |-> T]
  <2>1. \A n \in 0..N : C[n] = T
    OBVIOUS
  <2>. HIDE DEF C
  <2>2. after[0] \in C[0]
    BY <1>0, <1>11, <2>1
  <2>3. ASSUME NEW n \in 1..N, after[n - 1] \in C[n - 1]
        PROVE  after[n] \in C[n]
    <3>1. n \in 0..N /\ n - 1 \in 0..N /\ n - 1 \in 0..(N - 1)
      BY <1>0
    <3>2. after[n - 1] \in T
      BY <2>1, <2>3, <3>1
    <3>3. step(after[n - 1], n - 1) \in T
      BY <1>1, <3>1, <3>2
    <3>. QED  BY <1>12, <2>1, <3>1, <3>3
  <2>4. \A n \in 0..N : after[n] \in C[n]
    BY <1>0, <2>2, <2>3, LoopInvariant
  <2>. QED  BY <2>1, <2>4
<1>14. /\ flush_lines(o) = after[N] /\ after[0] = o
       /\ \A n \in 0..N : after[n] \in T
       /\ \A n \in 1..N : after[n] = step(after[n - 1], n - 1)
  BY <1>2, <1>11, <1>12, <1>13
<1>. QED  BY <1>14, Zenon DEF T, N, step

LEMMA flush_linesGood ==
  ASSUME NEW X, NEW B, NEW o \in Good(X, B)
  PROVE  flush_lines(o) \in Good(X, B)
<1>1. CLIENT_OUTPUT_BUFFER_SIZE \in 0..CLIENT_OUTPUT_BUFFER_SIZE
  BY SizesAssumption
<1>. QED  BY <1>1, flush_linesRun

(* flush_buffers flushes the streams of S, from the first to the last.          *)
LEMMA flush_buffersRun ==
  ASSUME NEW X, NEW B, NEW o \in Good(X, B), NEW S
  PROVE  \E g : /\ flush_buffers(o, S) = g[(2 * MAX_CLIENTS)] /\ g[0] = o
                /\ \A n \in 0..(2 * MAX_CLIENTS) : g[n] \in Good(X, B)
                /\ \A n \in 1..(2 * MAX_CLIENTS) : g[n] = IF n - 1 \in S THEN flush_buffer(g[n - 1], n - 1) ELSE g[n - 1]
<1>. DEFINE N == (2 * MAX_CLIENTS)
            T == Good(X, B)
            step(x, n) == IF n \in S THEN flush_buffer(x, n) ELSE x
            F(g) == [i \in 0..N |-> IF i = 0 THEN o ELSE step(g[i - 1], i - 1)]
            after == CHOOSE g : g = F(g)
            E == [n \in 0..(N - 1) |-> [x \in T |-> step(x, n)]]
<1>0. N \in Nat /\ o \in T
  BY SizesAssumption
<1>1. ASSUME NEW n \in 0..(N - 1), NEW x \in T
      PROVE  step(x, n) \in T
  <2>1. n \in Streams
    BY SizesAssumption DEF Streams
  <2>. QED  BY <2>1, flush_bufferGood
<1>2. flush_buffers(o, S) = after[N]
  BY DEF flush_buffers
<1>. HIDE DEF step, T, N
<1>3. \A n \in 0..(N - 1) : \A x \in T : E[n][x] = step(x, n)
  OBVIOUS
<1>4. NeverLeaves(T, N, E)
  BY <1>1, <1>3 DEF NeverLeaves
<1>. HIDE DEF E
<1>5. PICK e : e \in Runs(T, N, E, o)
  BY <1>0, <1>4, LoopRuns
<1>6. e \in [0..N -> T] /\ e[0] = o /\ \A n \in 1..N : e[n] = E[n - 1][e[n - 1]]
  BY <1>5 DEF Runs
<1>7. ASSUME NEW i \in 0..N
      PROVE  e[i] = IF i = 0 THEN o ELSE step(e[i - 1], i - 1)
  <2>1. CASE i = 0
    BY <1>6, <2>1
  <2>2. CASE i # 0
    <3>1. i \in 1..N /\ i - 1 \in 0..(N - 1) /\ i - 1 \in 0..N
      BY <1>0, <2>2
    <3>2. e[i - 1] \in T
      BY <1>6, <3>1
    <3>3. e[i] = E[i - 1][e[i - 1]]
      BY <1>6, <3>1
    <3>4. E[i - 1][e[i - 1]] = step(e[i - 1], i - 1)
      BY <1>3, <3>1, <3>2
    <3>. QED  BY <2>2, <3>3, <3>4, Zenon
  <2>. QED  BY <2>1, <2>2
<1>8. e = F(e)
  <2>1. e = [i \in 0..N |-> e[i]]
    BY <1>6
  <2>. QED  BY <1>7, <2>1, Zenon
<1>9. after = F(after)
  <2>. HIDE DEF F
  <2>. QED  BY <1>8, Zenon
<1>. HIDE DEF after
<1>10. \A i \in 0..N : after[i] = IF i = 0 THEN o ELSE step(after[i - 1], i - 1)
  BY <1>9
<1>11. after[0] = o
  BY <1>0, <1>10
<1>12. ASSUME NEW n \in 1..N
       PROVE  after[n] = step(after[n - 1], n - 1)
  <2>1. n \in 0..N /\ n # 0
    BY <1>0
  <2>. QED  BY <1>10, <2>1
<1>13. \A n \in 0..N : after[n] \in T
  <2>. DEFINE C == [n \in 0..N |-> T]
  <2>1. \A n \in 0..N : C[n] = T
    OBVIOUS
  <2>. HIDE DEF C
  <2>2. after[0] \in C[0]
    BY <1>0, <1>11, <2>1
  <2>3. ASSUME NEW n \in 1..N, after[n - 1] \in C[n - 1]
        PROVE  after[n] \in C[n]
    <3>1. n \in 0..N /\ n - 1 \in 0..N /\ n - 1 \in 0..(N - 1)
      BY <1>0
    <3>2. after[n - 1] \in T
      BY <2>1, <2>3, <3>1
    <3>3. step(after[n - 1], n - 1) \in T
      BY <1>1, <3>1, <3>2
    <3>. QED  BY <1>12, <2>1, <3>1, <3>3
  <2>4. \A n \in 0..N : after[n] \in C[n]
    BY <1>0, <2>2, <2>3, LoopInvariant
  <2>. QED  BY <2>1, <2>4
<1>14. /\ flush_buffers(o, S) = after[N] /\ after[0] = o
       /\ \A n \in 0..N : after[n] \in T
       /\ \A n \in 1..N : after[n] = step(after[n - 1], n - 1)
  BY <1>2, <1>11, <1>12, <1>13
<1>. QED  BY <1>14, Zenon DEF T, N, step

LEMMA flush_buffersGood ==
  ASSUME NEW X, NEW B, NEW o \in Good(X, B), NEW S
  PROVE  flush_buffers(o, S) \in Good(X, B)
<1>1. 2 * MAX_CLIENTS \in 0..(2 * MAX_CLIENTS)
  BY SizesAssumption
<1>. QED  BY <1>1, flush_buffersRun

LEMMA overflowGood ==
  ASSUME NEW X, NEW B, NEW o \in Good(X, B), NEW b \in Streams
  PROVE  overflow(o, b) \in Good(X, B)
<1>. DEFINE first == IF o.last_out = NoStream THEN o ELSE flush_buffer_line(o, o.last_out)
            lines == flush_lines(first)
            rest  == IF Len(lines.output_buffers[b]) = CLIENT_OUTPUT_BUFFER_SIZE
                     THEN flush_buffers(lines, Streams \ {b}) ELSE lines
<1>1. first \in Good(X, B)
  <2>1. o.last_out \in Places
    BY OutsTypes DEF Good
  <2>. QED  BY <2>1, flush_buffer_lineGood DEF Places
<1>2. overflow(o, b) = Select(rest, b)
  BY DEF overflow
<1>. HIDE DEF first
<1>3. lines \in Good(X, B)
  BY <1>1, flush_linesGood
<1>. HIDE DEF lines
<1>4. rest \in Good(X, B)
  BY <1>3, flush_buffersGood
<1>. HIDE DEF rest
<1>. QED  BY <1>2, <1>4, SelectGood

(* What the streams in use agree on is shown once, as text of all of them.      *)
LEMMA coalescedGood ==
  ASSUME NEW X, NEW B, NEW o \in Good(X, B), ~Mismatch(o), Cardinality(InUse(o)) > 1
  PROVE  \E n \in Nat : /\ coalesced(o) \in Good(X, B)
                        /\ coalesced(o).output_buffers = Rest(o, InUse(o), n)
                        /\ coalesced(o).bitmask
                             = o.bitmask \ {b \in InUse(o) : Rest(o, InUse(o), n)[b] = << >>}
<1>. DEFINE U == InUse(o)
            n == Shortest(o, U)
            m == Min(U)
            text == SubSeq(o.output_buffers[m], 1, n)
            s(b) == o.output_buffers[b]
<1>0. o \in Outs /\ o.colour = Painted(o.last_out) /\ \A b \in Streams : s(b) \in Seq(Characters)
  BY OutsTypes DEF Good
<1>1. U \in SUBSET Streams /\ U # {} /\ Streams \subseteq Nat
  <2>1. U # {}
    BY FS_EmptySet
  <2>. QED  BY <2>1, SizesAssumption DEF InUse, Streams
<1>2. m \in U /\ \A b \in U : m <= b
  <2>. HIDE DEF U
  <2>1. U \in SUBSET Nat
    BY <1>1
  <2>. QED  BY <1>1, <2>1, MinIsLeast
<1>3. n \in Nat /\ \A b \in U : n <= Len(s(b))
  <2>. DEFINE L == {Len(s(b)) : b \in U}
  <2>1. L \in SUBSET Nat /\ L # {}
    <3>1. \A b \in U : Len(s(b)) \in Nat
      <4>. HIDE DEF U, s
      <4>. QED  BY <1>0, <1>1
    <3>. HIDE DEF U, s
    <3>. QED  BY <1>1, <3>1
  <2>2. n = Min(L)
    BY DEF Shortest
  <2>3. \A b \in U : Len(s(b)) \in L
    OBVIOUS
  <2>. HIDE DEF L, n, U
  <2>4. Min(L) \in L /\ \A y \in L : Min(L) <= y
    BY <2>1, MinIsLeast
  <2>. QED  BY <2>1, <2>2, <2>3, <2>4
<1>4. ASSUME NEW b \in U
      PROVE  SubSeq(s(b), 1, n) = text
  <2>. DEFINE W == {d \in U : d <= b}
              k == Shortest(o, W)
  <2>1. SubSeq(s(b), 1, k) = SubSeq(s(m), 1, k)
    BY DEF Mismatch
  <2>2. k \in Nat /\ k <= Len(s(b)) /\ k <= Len(s(m)) /\ n <= k
    <3>. DEFINE L == {Len(s(d)) : d \in W}
    <3>1. b \in W /\ m \in W /\ W \subseteq U
      <4>. HIDE DEF U, m
      <4>. QED  BY <1>1, <1>2
    <3>2. L \in SUBSET Nat /\ L # {}
      <4>1. \A d \in W : Len(s(d)) \in Nat
        <5>. HIDE DEF U, m, W, s
        <5>. QED  BY <1>0, <1>1, <3>1
      <4>. HIDE DEF U, m, W, s
      <4>. QED  BY <3>1, <4>1
    <3>3. k = Min(L)
      BY DEF Shortest
    <3>4. \A d \in W : Len(s(d)) \in L
      OBVIOUS
    <3>. HIDE DEF L, k, W, U, n, m
    <3>5. Min(L) \in L /\ \A y \in L : Min(L) <= y
      BY <3>2, MinIsLeast
    <3>6. PICK d \in W : Min(L) = Len(s(d))
      BY <3>5 DEF L
    <3>7. n <= Len(s(d))
      BY <1>3, <3>1, <3>6
    <3>. QED  BY <3>1, <3>2, <3>3, <3>4, <3>5, <3>6, <3>7
  <2>3. s(b) \in Seq(Characters) /\ s(m) \in Seq(Characters)
    <3>. HIDE DEF U, m, s
    <3>. QED  BY <1>0, <1>1, <1>2
  <2>. HIDE DEF k, U, n, m, s
  <2>4. SubSeq(s(b), 1, n) = SubSeq(s(m), 1, n)
    BY <1>3, <2>1, <2>2, <2>3, PrefixPrefix
  <2>. QED  BY <2>4 DEF s
<1>5. text \in Seq(Characters)
  <2>1. s(m) \in Seq(Characters) /\ n \in 0..Len(s(m))
    <3>. HIDE DEF U, m, n, s
    <3>. QED  BY <1>0, <1>1, <1>2, <1>3
  <2>. HIDE DEF m, n
  <2>. QED  BY <2>1, SeqCut
<1>. DEFINE q == [o EXCEPT !.colour = Painted(NoStream), !.last_out = NoStream]
            p == Drop(Show(q, U, text), U, n)
<1>6. coalesced(o) = p
  <2>1. (IF o.last_out = NoStream THEN o.colour ELSE COLOR_RESET) = Painted(NoStream)
    BY <1>0 DEF Painted
  <2>2. [o EXCEPT !.colour = IF o.last_out = NoStream THEN @ ELSE COLOR_RESET,
                  !.last_out = NoStream]
          = [o EXCEPT !.colour = IF o.last_out = NoStream THEN o.colour ELSE COLOR_RESET,
                      !.last_out = NoStream]
    BY <1>0 DEF Outs
  <2>. QED  BY <2>1, <2>2, Zenon DEF coalesced
<1>7. RightColour([from |-> U, text |-> text, colour |-> Painted(NoStream)])
  <2>. HIDE DEF text
  <2>. QED  BY DEF RightColour, Painted
<1>8. NoStream \in Places /\ IsOut(o)
  BY <1>0, OutsFields DEF Places
<1>. HIDE DEF text, n, U
<1>9. p \in Good(X, B)
  <2>1. \A b \in U : n <= Len(o.output_buffers[b]) /\ SubSeq(o.output_buffers[b], 1, n) = text
    BY <1>3, <1>4
  <2>. QED  BY <1>1, <1>3, <1>5, <1>7, <1>8, <2>1, ShowGood
<1>10. ShownBy(p, o, U, n, NoStream, [from |-> U, text |-> text, colour |-> Painted(NoStream)])
  BY <1>1, <1>3, <1>8, ShownFields
<1>11. /\ p.output_buffers = Rest(o, U, n)
       /\ p.bitmask = o.bitmask \ {b \in U : Rest(o, U, n)[b] = << >>}
  BY <1>10, Zenon DEF ShownBy
<1>. QED  BY <1>3, <1>6, <1>9, <1>11, Zenon DEF U

-----------------------------------------------------------------------------
(* One character put                                                            *)

(* A step begins with nothing shown.                                            *)
LEMMA QuietGood ==
  ASSUME NEW Y, NEW B, NEW o \in Good(Y, B)
  PROVE  /\ Quiet(o) \in Good(o.output_buffers, B)
         /\ Quiet(o).output_buffers = o.output_buffers
         /\ Quiet(o).shown = << >>
<1>0. o \in Outs /\ o.colour = Painted(o.last_out) /\ Covered(o, B)
      /\ \A b \in Streams : o.output_buffers[b] \in Seq(Characters)
  BY OutsTypes DEF Good
<1>1. PICK p : p = Quiet(o)
  OBVIOUS
<1>2. p = [o EXCEPT !.shown = << >>]
  BY <1>1 DEF Quiet
<1>3. /\ IsOut(p) /\ p.output_buffers = o.output_buffers /\ p.last_out = o.last_out
      /\ p.bitmask = o.bitmask /\ p.done_output = o.done_output
      /\ p.has_data = o.has_data /\ p.colour = o.colour /\ p.shown = << >>
  BY <1>0, <1>2 DEF Outs, IsOut
<1>4. p \in Outs
  <2>1. /\ o.output_buffers \in [Streams -> Buffers] /\ o.last_out \in Places
        /\ o.bitmask \in SUBSET (Streams \cap 0 .. MaskBits - 1) /\ o.done_output \in BOOLEAN
        /\ o.has_data \in BOOLEAN /\ o.colour \in Colours
    BY <1>0, OutsTypes
  <2>2. p.shown \in Seq(Pieces)
    BY <1>3
  <2>. QED  BY <1>3, <2>1, <2>2, OutsMember
<1>5. \A b \in Streams : Total(p, b) = o.output_buffers[b]
  <2>. SUFFICES ASSUME NEW b \in Streams PROVE Total(p, b) = o.output_buffers[b]
    OBVIOUS
  <2>1. ShownOf(<< >>, b) = << >>
    BY FlattenEmpty DEF ShownOf
  <2>2. << >> \o o.output_buffers[b] = o.output_buffers[b]
    BY <1>0
  <2>. QED  BY <1>3, <2>1, <2>2 DEF Total
<1>6. Covered(p, B)
  BY <1>0, <1>3 DEF Covered
<1>7. p \in Good(o.output_buffers, B)
  BY <1>0, <1>3, <1>4, <1>5, <1>6 DEF Good
<1>. QED  BY <1>1, <1>3, <1>7, Zenon

(* A character behind the others of stream b.                                   *)
Put(o, b, c) == [o EXCEPT !.output_buffers[b] = Append(@, c), !.has_data = TRUE]
With(buffers, b, c) ==
  [d \in Streams |-> IF d = b THEN Append(buffers[b], c) ELSE buffers[d]]

LEMMA PutGood ==
  ASSUME NEW X, NEW o \in Good(X, {}), o.shown = << >>, NEW b \in Streams, NEW c \in Characters,
         Len(o.output_buffers[b]) < CLIENT_OUTPUT_BUFFER_SIZE
  PROVE  /\ Put(o, b, c) \in Good(With(o.output_buffers, b, c), {b})
         /\ Put(o, b, c).output_buffers = With(o.output_buffers, b, c)
         /\ Put(o, b, c).shown = << >>
         /\ Put(o, b, c).bitmask = o.bitmask
         /\ Put(o, b, c).last_out = o.last_out
<1>0. o \in Outs /\ o.colour = Painted(o.last_out) /\ Covered(o, {}) /\ o.output_buffers \in [Streams -> Buffers]
      /\ \A d \in Streams : o.output_buffers[d] \in Seq(Characters)
  BY OutsTypes DEF Good
<1>. DEFINE new == With(o.output_buffers, b, c)
<1>1. PICK p : p = Put(o, b, c)
  OBVIOUS
<1>2. new = [o.output_buffers EXCEPT ![b] = Append(@, c)]
  BY <1>0 DEF With
<1>3. /\ IsOut(p) /\ p.output_buffers = [o.output_buffers EXCEPT ![b] = Append(@, c)]
      /\ p.last_out = o.last_out /\ p.bitmask = o.bitmask /\ p.done_output = o.done_output
      /\ p.has_data = TRUE /\ p.colour = o.colour /\ p.shown = << >>
  <2>1. PICK bufs, mask, done, data, last, col, sh :
          o = [ output_buffers |-> bufs, last_out |-> last, bitmask |-> mask,
                done_output |-> done, has_data |-> data, colour |-> col, shown |-> sh ]
    BY <1>0 DEF Outs
  <2>2. p = [ output_buffers |-> [bufs EXCEPT ![b] = Append(@, c)], last_out |-> last,
              bitmask |-> mask, done_output |-> done, has_data |-> TRUE, colour |-> col,
              shown |-> sh ]
    BY <1>1, <2>1 DEF Put
  <2>. QED  BY <2>1, <2>2 DEF IsOut
<1>4. new \in [Streams -> Buffers] /\ \A d \in Streams : new[d] \in Seq(Characters)
  <2>. SUFFICES ASSUME NEW d \in Streams PROVE new[d] \in Buffers
    BY DEF With, Buffers
  <2>1. CASE d = b
    <3>1. /\ Append(o.output_buffers[b], c) \in Seq(Characters)
          /\ Len(Append(o.output_buffers[b], c)) = Len(o.output_buffers[b]) + 1
          /\ Len(o.output_buffers[b]) \in Nat
      BY <1>0, AppendParts
    <3>2. Len(Append(o.output_buffers[b], c)) <= CLIENT_OUTPUT_BUFFER_SIZE
      BY <3>1, SizesAssumption
    <3>. QED  BY <2>1, <3>1, <3>2 DEF With, Buffers
  <2>2. CASE d # b
    BY <1>0, <2>2 DEF With
  <2>. QED  BY <2>1, <2>2
<1>. HIDE DEF new
<1>5. /\ IsOut(p) /\ p.output_buffers = new /\ p.last_out = o.last_out
      /\ p.bitmask = o.bitmask /\ p.done_output = o.done_output
      /\ p.has_data = TRUE /\ p.colour = o.colour /\ p.shown = << >>
  BY <1>2, <1>3, Zenon
<1>6. p \in Outs
  BY <1>0, <1>4, <1>5, OutsTypes, OutsMember
<1>7. \A d \in Streams : Total(p, d) = new[d]
  <2>. SUFFICES ASSUME NEW d \in Streams PROVE Total(p, d) = new[d]
    OBVIOUS
  <2>1. ShownOf(<< >>, d) = << >>
    BY FlattenEmpty DEF ShownOf
  <2>2. << >> \o new[d] = new[d]
    BY <1>4
  <2>. QED  BY <1>5, <2>1, <2>2 DEF Total
<1>8. Covered(p, {b})
  <2>. SUFFICES ASSUME NEW d \in (Streams \cap 0 .. MaskBits - 1) \ {b}, new[d] # << >>
                PROVE  d \in o.bitmask
    BY <1>5 DEF Covered
  <2>1. o.output_buffers[d] # << >>
    BY DEF new, With
  <2>. QED  BY <1>0, <2>1 DEF Covered
<1>9. p \in Good(new, {b})
  BY <1>0, <1>5, <1>6, <1>7, <1>8 DEF Good
<1>. QED  BY <1>1, <1>5, <1>9, Zenon DEF new

LEMMA putcharGood ==
  ASSUME NEW Y, NEW o \in Good(Y, {}), NEW b \in Streams, NEW c \in Characters,
         Len(o.output_buffers[b]) < CLIENT_OUTPUT_BUFFER_SIZE
  PROVE  putchar(o, b, c) \in Good(With(o.output_buffers, b, c), {})
<1>. DEFINE X == With(o.output_buffers, b, c)
            added == Put(Quiet(o), b, c)
            status == coalesce_status(added)
            next == IF status = 0 THEN coalesced(added) ELSE added
            marked == [next EXCEPT !.bitmask = @ \cup ({b} \cap 0 .. MaskBits - 1)]
<1>0. CLIENT_OUTPUT_BUFFER_SIZE \in Nat /\ CLIENT_OUTPUT_BUFFER_SIZE >= 2 /\ MaskBits \in Nat
      /\ b \in Nat
  BY SizesAssumption DEF Streams
<1>1. /\ Quiet(o) \in Good(o.output_buffers, {})
      /\ Quiet(o).output_buffers = o.output_buffers
      /\ Quiet(o).shown = << >>
      /\ o.output_buffers[b] \in Seq(Characters)
  <2>1. o.output_buffers[b] \in Seq(Characters)
    BY OutsTypes DEF Good
  <2>. QED  BY <2>1, QuietGood
<1>2. PICK q : q = Quiet(o)
  OBVIOUS
<1>3. /\ Put(q, b, c) \in Good(With(q.output_buffers, b, c), {b})
      /\ Put(q, b, c).output_buffers = With(q.output_buffers, b, c)
      /\ Put(q, b, c).bitmask = q.bitmask
  BY <1>1, <1>2, PutGood
<1>4. /\ added \in Good(X, {b}) /\ added.output_buffers = X /\ added.bitmask = q.bitmask
      /\ q \in Good(o.output_buffers, {}) /\ q.output_buffers = o.output_buffers
  BY <1>1, <1>2, <1>3
<1>5. putchar(o, b, c) =
        IF Len(next.output_buffers[b]) = CLIENT_OUTPUT_BUFFER_SIZE THEN overflow(next, b)
        ELSE IF status = -1 /\ \/ EndsLine(next.output_buffers[b])
                               \/ next.last_out = b /\ next.bitmask = {}
        THEN flush_buffer(next, b) ELSE marked
  BY Zenon DEF putchar, Put
<1>6. X[b] = Append(o.output_buffers[b], c) /\ Len(X[b]) = Len(o.output_buffers[b]) + 1
      /\ Len(o.output_buffers[b]) \in Nat /\ X[b] \in Seq(Characters)
  <2>1. X[b] = Append(o.output_buffers[b], c)
    BY DEF With
  <2>. QED  BY <1>1, <2>1, AppendParts
<1>. HIDE DEF added, X
<1>7. next \in Good(X, {b})
  <2>1. CASE status = 0
    <3>1. ~Mismatch(added) /\ Cardinality(InUse(added)) > 1
      BY <2>1 DEF coalesce_status
    <3>. QED  BY <1>4, <2>1, <3>1, coalescedGood
  <2>2. CASE status # 0
    BY <1>4, <2>2
  <2>. QED  BY <2>1, <2>2
<1>8. Len(next.output_buffers[b]) = CLIENT_OUTPUT_BUFFER_SIZE /\ b < MaskBits => b \in next.bitmask
  <2>. SUFFICES ASSUME Len(next.output_buffers[b]) = CLIENT_OUTPUT_BUFFER_SIZE, b < MaskBits
                PROVE  b \in next.bitmask
    OBVIOUS
  <2>0. Covered(q, {}) /\ b \in 0 .. MaskBits - 1
    BY <1>0, <1>4 DEF Good
  <2>1. CASE status # 0
    <3>1. o.output_buffers[b] # << >>
      BY <1>0, <1>4, <1>6, <2>1
    <3>2. b \in q.bitmask
      BY <1>4, <2>0, <3>1 DEF Covered
    <3>. QED  BY <1>4, <2>1, <3>2
  <2>2. CASE status = 0
    <3>1. ~Mismatch(added) /\ Cardinality(InUse(added)) > 1
      BY <2>2 DEF coalesce_status
    <3>2. PICK n \in Nat :
            /\ coalesced(added).output_buffers = Rest(added, InUse(added), n)
            /\ coalesced(added).bitmask
                 = added.bitmask \ {d \in InUse(added) : Rest(added, InUse(added), n)[d] = << >>}
      BY <1>4, <3>1, coalescedGood
    <3>3. Len(Rest(added, InUse(added), n)[b]) = CLIENT_OUTPUT_BUFFER_SIZE
      BY <2>2, <3>2
    <3>4. Rest(added, InUse(added), n)[b] # << >>
      BY <1>0, <3>3
    <3>5. Rest(added, InUse(added), n)[b]
            = IF b \in InUse(added) THEN SubSeq(X[b], n + 1, Len(X[b])) ELSE X[b]
      BY <1>4 DEF Rest
    <3>6. Len(SubSeq(X[b], n + 1, Len(X[b]))) <= Len(X[b])
      BY <1>6
    <3>7. Len(X[b]) >= 2
      BY <1>0, <1>6, <3>3, <3>5, <3>6
    <3>8. o.output_buffers[b] # << >>
      BY <1>6, <3>7
    <3>9. b \in q.bitmask
      BY <1>4, <2>0, <3>8 DEF Covered
    <3>. QED  BY <1>4, <2>2, <3>2, <3>4, <3>9
  <2>. QED  BY <2>1, <2>2
<1>. HIDE DEF next, status
<1>9. ASSUME NEW p \in Good(X, {b}), b < MaskBits => b \in p.bitmask \/ p.output_buffers[b] = << >>
      PROVE  p \in Good(X, {})
  <2>1. p \in Outs /\ p.colour = Painted(p.last_out)
    BY DEF Good
  <2>. QED  BY <1>9, <2>1, GoodSame
<1>10. Len(next.output_buffers[b]) = CLIENT_OUTPUT_BUFFER_SIZE => overflow(next, b) \in Good(X, {})
  BY <1>7, <1>8, <1>9, overflowGood
<1>11. flush_buffer(next, b) \in Good(X, {})
  <2>1. flush_buffer(next, b) \in Good(X, {b}) /\ flush_buffer(next, b).output_buffers[b] = << >>
    BY <1>7, flush_bufferGood
  <2>. QED  BY <1>9, <2>1
<1>12. marked \in Good(X, {})
  <2>1. next \in Outs /\ next.colour = Painted(next.last_out)
    BY <1>7 DEF Good
  <2>2. PICK p : p = marked
    OBVIOUS
  <2>3. /\ p \in Outs /\ p.output_buffers = next.output_buffers /\ p.shown = next.shown
        /\ p.bitmask = next.bitmask \cup ({b} \cap 0 .. MaskBits - 1)
        /\ p.colour = next.colour /\ p.last_out = next.last_out
    BY <2>1, <2>2 DEF Outs
  <2>4. b < MaskBits => b \in p.bitmask
    BY <1>0, <2>3
  <2>5. \A d \in Streams \ {} : d \in next.bitmask => d \in p.bitmask
    BY <2>3
  <2>6. \A d \in {b} \ {} : d \in Streams /\ d < MaskBits
          => d \in p.bitmask \/ next.output_buffers[d] = << >>
    BY <2>4
  <2>7. p \in Good(X, {})
    BY <1>7, <2>1, <2>3, <2>5, <2>6, GoodSame
  <2>. QED  BY <2>2, <2>7, Zenon
<1>. QED  BY <1>5, <1>10, <1>11, <1>12, Zenon DEF X

-----------------------------------------------------------------------------
(* The invariant                                                                *)

(* The terminal's colour is what last_out says, the pieces shown in the last    *)
(* step have their colours, and the mask covers the buffers.                    *)
OutInv == out \in Good([b \in Streams |-> Total(out, b)], {})

InputInv ==
  /\ todo \in [Threads -> [stream : Streams, text : Seq(Characters)]]
  /\ timeout \in BOOLEAN
  /\ active_client \in {NoStream} \cup 0 .. num_getchar_clients - 1
  /\ active_multiclients \subseteq 0 .. num_getchar_clients - 1
  /\ fed \subseteq 0 .. num_getchar_clients - 1
  /\ statemachine \in 0 .. 3
  /\ use \in Uses

IInv == OutInv /\ InputInv

LEMMA GoodSelf ==
  ASSUME NEW X, NEW o \in Good(X, {})
  PROVE  o \in Good([b \in Streams |-> Total(o, b)], {})
BY DEF Good

LEMMA InitGood == InitOut \in Good([b \in Streams |-> Total(InitOut, b)], {})
<1>1. PICK p : p = InitOut
  OBVIOUS
<1>2. /\ IsOut(p) /\ p.output_buffers = [b \in Streams |-> << >>] /\ p.last_out = NoStream
      /\ p.bitmask = {} /\ p.done_output = FALSE /\ p.has_data = FALSE /\ p.colour = COLOR_RESET
      /\ p.shown = << >>
  BY <1>1 DEF InitOut, IsOut
<1>3. p \in Outs
  <2>1. << >> \in Buffers
    BY SizesAssumption DEF Buffers
  <2>2. p.output_buffers \in [Streams -> Buffers] /\ p.shown \in Seq(Pieces)
        /\ NoStream \in Places /\ COLOR_RESET \in Colours
    BY <1>2, <2>1 DEF Places, Colours
  <2>. QED  BY <1>2, <2>2, OutsMember
<1>4. Covered(p, {})
  BY <1>2 DEF Covered
<1>5. p \in Good([b \in Streams |-> Total(p, b)], {})
  BY <1>2, <1>3, <1>4 DEF Good, Painted
<1>. QED  BY <1>1, <1>5

(* Remainder and quotient of what is less than twice, or a little more than     *)
(* twice, the divisor.                                                          *)
LEMMA Remainder ==
  ASSUME NEW n \in Nat \ {0}, NEW i \in 0 .. 2 * n - 1
  PROVE  i % n = IF i < n THEN i ELSE i - n
<1>1. CASE i < n
  BY <1>1
<1>2. CASE i >= n
  BY <1>2
<1>. QED  BY <1>1, <1>2

LEMMA Quotient ==
  ASSUME NEW n \in Nat \ {0}, NEW i \in Nat, NEW q \in Nat, q * n <= i, i < (q + 1) * n
  PROVE  i \div n = q
OBVIOUS

(* The server's '\r' before each '\n' keeps a text a text.                      *)
LEMMA ProcessedType ==
  ASSUME NEW text \in Seq(Characters)
  PROVE  Processed(text) \in Seq(Characters)
<1>. DEFINE q == [i \in DOMAIN text |-> IF text[i] = LF THEN << CR, LF >> ELSE << text[i] >>]
<1>1. q \in Seq(Seq(Characters))
  <2>1. \A i \in 1..Len(text) :
          (IF text[i] = LF THEN << CR, LF >> ELSE << text[i] >>) \in Seq(Characters)
    <3>. SUFFICES ASSUME NEW i \in 1..Len(text)
                  PROVE  (IF text[i] = LF THEN << CR, LF >> ELSE << text[i] >>) \in Seq(Characters)
      OBVIOUS
    <3>1. text[i] \in Characters /\ CR \in Characters /\ LF \in Characters
      BY DEF Characters
    <3>2. << CR, LF >> \in Seq(Characters) /\ << text[i] >> \in Seq(Characters)
      BY <3>1
    <3>. QED  BY <3>2
  <2>2. q = [i \in 1..Len(text) |-> IF text[i] = LF THEN << CR, LF >> ELSE << text[i] >>]
    OBVIOUS
  <2>. QED  BY <2>1, <2>2
<1>. HIDE DEF q
<1>2. FlattenSeq(q) \in Seq(Characters)
  BY <1>1, FlattenType
<1>. QED  BY <1>2 DEF Processed, q

(* A step that takes no character leaves each stream what it had.               *)
LEMMA NothingArrived ==
  ASSUME NEW b \in Streams, out.output_buffers[b] \in Seq(Characters),
         \A t \in Threads : todo[t].text # << >> => todo'[t] = todo[t]
  PROVE  out.output_buffers[b] \o Arrived(b) = out.output_buffers[b]
<1>1. {t \in Threads : todo[t].stream = b /\ todo[t].text # << >> /\ todo'[t] # todo[t]} = {}
  OBVIOUS
<1>2. Arrived(b) = << >>
  BY <1>1 DEF Arrived
<1>3. out.output_buffers[b] \o << >> = out.output_buffers[b]
  OBVIOUS
<1>. QED  BY <1>2, <1>3

(* What each stream gives and keeps in a step is what it had, and what arrived. *)
InOrderStep ==
  \E X : /\ out' \in Good(X, {})
         /\ \A b \in Streams : X[b] = out.output_buffers[b] \o Arrived(b)

LEMMA QuietStep ==
  ASSUME IInv, out' \in Good(out.output_buffers, {}),
         \A t \in Threads : todo[t].text # << >> => todo'[t] = todo[t]
  PROVE  InOrderStep
<1>1. \A b \in Streams : out.output_buffers[b] \in Seq(Characters)
  BY OutsTypes DEF IInv, OutInv, Good
<1>2. \A b \in Streams : out.output_buffers[b] = out.output_buffers[b] \o Arrived(b)
  BY <1>1, NothingArrived
<1>. QED  BY <1>2, Zenon DEF InOrderStep

LEMMA QuietOut == ASSUME IInv PROVE Quiet(out) \in Good(out.output_buffers, {})
BY QuietGood DEF IInv, OutInv

LEMMA MessageOut == ASSUME IInv PROVE Message \in Good(out.output_buffers, {})
<1>1. PICK q : q = Quiet(out)
  OBVIOUS
<1>2. q \in Good(out.output_buffers, {}) /\ q \in Outs
  BY <1>1, QuietOut DEF Good
<1>3. PICK p : p = Message
  OBVIOUS
<1>4. p = [q EXCEPT !.colour = COLOR_RESET, !.last_out = NoStream]
  BY <1>1, <1>3, Zenon DEF Message
<1>5. NoStream \in Places /\ COLOR_RESET \in Colours /\ Painted(NoStream) = COLOR_RESET
  BY DEF Places, Colours, Painted
<1>6. /\ p \in Outs /\ p.output_buffers = q.output_buffers /\ p.shown = q.shown
      /\ p.bitmask = q.bitmask /\ p.colour = COLOR_RESET /\ p.last_out = NoStream
  BY <1>2, <1>4, <1>5 DEF Outs
<1>7. p \in Good(out.output_buffers, {})
  BY <1>2, <1>5, <1>6, GoodSame
<1>. QED  BY <1>3, <1>7

LEMMA CallStep ==
  ASSUME IInv, NEW t \in Threads, NEW n \in use.clients, NEW text \in use.texts[t],
         call(t, n, text), UNCHANGED use
  PROVE  InOrderStep /\ InputInv'
<1>0. todo \in [Threads -> [stream : Streams, text : Seq(Characters)]] /\ use \in Uses
  BY DEF IInv, InputInv
<1>1. text \in Seq(Characters) /\ n \in Clients
  BY <1>0, UsesAssumption
<1>2. n \in Streams /\ n + MAX_CLIENTS \in Streams
  BY <1>1, SizesAssumption DEF Clients, Streams
<1>. DEFINE new == IF t \in {"processed_putchar", "processed_batch"}
                   THEN [stream |-> n, text |-> Processed(text)]
                   ELSE [stream |-> n + MAX_CLIENTS, text |-> text]
<1>3. new \in [stream : Streams, text : Seq(Characters)]
  BY <1>1, <1>2, ProcessedType
<1>4. todo' = [todo EXCEPT ![t] = new] /\ todo[t].text = << >> /\ out' = Quiet(out)
  BY DEF call
<1>. HIDE DEF new
<1>5. todo' \in [Threads -> [stream : Streams, text : Seq(Characters)]]
  BY <1>0, <1>3, <1>4
<1>6. \A u \in Threads : todo[u].text # << >> => todo'[u] = todo[u]
  BY <1>0, <1>4
<1>7. InOrderStep
  BY <1>4, <1>6, QuietOut, QuietStep
<1>. QED  BY <1>5, <1>7 DEF call, IInv, InputInv

LEMMA PutStep ==
  ASSUME IInv, NEW t \in Threads, internal_putchar(t), UNCHANGED use
  PROVE  InOrderStep /\ InputInv'
<1>. DEFINE b == todo[t].stream
            text == todo[t].text
            c == Head(text)
<1>0. todo \in [Threads -> [stream : Streams, text : Seq(Characters)]]
  BY DEF IInv, InputInv
<1>1. b \in Streams /\ text \in Seq(Characters) /\ text # << >>
  BY <1>0 DEF internal_putchar
<1>2. /\ c \in Characters /\ Tail(text) \in Seq(Characters) /\ Tail(text) # text
      /\ todo' = [todo EXCEPT ![t].text = Tail(@)]
      /\ Len(out.output_buffers[b]) < CLIENT_OUTPUT_BUFFER_SIZE
      /\ out' = putchar(out, b, c)
  <2>1. Len(Tail(text)) # Len(text)
    BY <1>1
  <2>. HIDE DEF text
  <2>2. c \in Characters /\ Tail(text) \in Seq(Characters)
    BY <1>1
  <2>. QED  BY <2>1, <2>2 DEF internal_putchar, RoomInBuffer, text
<1>3. /\ todo' \in [Threads -> [stream : Streams, text : Seq(Characters)]]
      /\ todo'[t] # todo[t]
      /\ \A u \in Threads : u # t => todo'[u] = todo[u]
  <2>1. todo[t] = [stream |-> b, text |-> text]
    BY <1>0
  <2>2. todo'[t] = [todo[t] EXCEPT !.text = Tail(todo[t].text)]
    BY <1>0, <1>2
  <2>3. todo'[t] = [stream |-> b, text |-> Tail(text)]
    <3>1. PICK r : r = todo[t]
      OBVIOUS
    <3>2. todo'[t] = [r EXCEPT !.text = Tail(text)]
      BY <2>2, <3>1
    <3>. HIDE DEF b, text
    <3>3. r = [stream |-> b, text |-> text]
      BY <2>1, <3>1
    <3>. QED  BY <3>2, <3>3
  <2>4. \A u \in Threads : u # t => todo'[u] = todo[u]
    BY <1>0, <1>2
  <2>5. todo' = [u \in Threads |-> todo'[u]]
    BY <1>0, <1>2
  <2>. HIDE DEF b, text
  <2>6. [stream |-> b, text |-> Tail(text)] \in [stream : Streams, text : Seq(Characters)]
    BY <1>1, <1>2
  <2>7. todo'[t] # todo[t]
    BY <1>2, <2>1, <2>3
  <2>8. \A u \in Threads : todo'[u] \in [stream : Streams, text : Seq(Characters)]
    <3>. SUFFICES ASSUME NEW u \in Threads
                  PROVE  todo'[u] \in [stream : Streams, text : Seq(Characters)]
      OBVIOUS
    <3>1. CASE u = t
      BY <2>3, <2>6, <3>1
    <3>2. CASE u # t
      BY <1>0, <2>4, <3>2
    <3>. QED  BY <3>1, <3>2
  <2>. QED  BY <2>4, <2>5, <2>7, <2>8
<1>4. out' \in Good(With(out.output_buffers, b, c), {})
  <2>. HIDE DEF b, c
  <2>. QED  BY <1>1, <1>2, putcharGood DEF IInv, OutInv
<1>5. ASSUME NEW d \in Streams
      PROVE  With(out.output_buffers, b, c)[d] = out.output_buffers[d] \o Arrived(d)
  <2>0. out.output_buffers[d] \in Seq(Characters)
    BY OutsTypes DEF IInv, OutInv, Good
  <2>. DEFINE takes == {u \in Threads :
                          todo[u].stream = d /\ todo[u].text # << >> /\ todo'[u] # todo[u]}
  <2>1. CASE d = b
    <3>1. takes = {t}
      BY <1>1, <1>3, <2>1
    <3>2. (CHOOSE u \in takes : TRUE) = t
      BY <3>1
    <3>3. Arrived(d) = << c >>
      <4>. HIDE DEF takes
      <4>1. Arrived(d) = IF takes = {} THEN << >> ELSE << Head(todo[CHOOSE u \in takes : TRUE].text) >>
        BY Zenon DEF Arrived, takes
      <4>. QED  BY <3>1, <3>2, <4>1
    <3>4. out.output_buffers[d] \o << c >> = Append(out.output_buffers[d], c)
      BY <1>2, <2>0
    <3>. QED  BY <2>1, <3>3, <3>4 DEF With
  <2>2. CASE d # b
    <3>1. takes = {}
      BY <1>3, <2>2
    <3>2. Arrived(d) = << >>
      BY <3>1 DEF Arrived
    <3>3. out.output_buffers[d] \o << >> = out.output_buffers[d]
      BY <2>0
    <3>. QED  BY <2>2, <3>2, <3>3 DEF With
  <2>. QED  BY <2>1, <2>2
<1>6. InOrderStep
  <2>. HIDE DEF b, c
  <2>. QED  BY <1>4, <1>5, Zenon DEF InOrderStep
<1>. QED  BY <1>3, <1>6 DEF internal_putchar, IInv, InputInv

LEMMA TimerStep ==
  ASSUME IInv, timer_callback, UNCHANGED use
  PROVE  InOrderStep /\ InputInv'
<1>1. Quiet(out) \in Good(out.output_buffers, {})
  BY QuietOut
<1>2. /\ [Quiet(out) EXCEPT !.done_output = FALSE] \in Good(out.output_buffers, {})
      /\ flush_lines(Quiet(out)) \in Good(out.output_buffers, {})
      /\ flush_buffers(Quiet(out), Streams) \in Good(out.output_buffers, {})
  BY <1>1, DoneGood, flush_linesGood, flush_buffersGood
<1>3. out' \in Good(out.output_buffers, {})
  BY <1>1, <1>2, Zenon DEF timer_callback
<1>4. todo' = todo
  BY DEF timer_callback
<1>5. InOrderStep
  BY <1>3, <1>4, QuietStep
<1>. QED  BY <1>5 DEF timer_callback, IInv, InputInv

LEMMA TickStep ==
  ASSUME IInv, timeout_periodic, UNCHANGED use
  PROVE  InOrderStep /\ InputInv'
<1>1. out' \in Good(out.output_buffers, {}) /\ todo' = todo
  BY QuietOut DEF timeout_periodic
<1>2. InOrderStep
  BY <1>1, QuietStep
<1>. QED  BY <1>2 DEF timeout_periodic, IInv, InputInv

(* A key, whatever the state of the command it belongs to.                      *)
LEMMA KeyStep ==
  ASSUME IInv, NEW k, handle_char(k), UNCHANGED use
  PROVE  InOrderStep /\ InputInv'
<1>0. /\ active_client \in {NoStream} \cup 0 .. num_getchar_clients - 1
      /\ active_multiclients \subseteq 0 .. num_getchar_clients - 1
      /\ num_getchar_clients \in Nat
  BY SizesAssumption DEF IInv, InputInv
<1>1. out' = Quiet(out) \/ out' = Message
  BY DEF handle_char, KeyText, KeyLineStart, KeyCommand, KeyMulti
<1>2. todo' = todo /\ timeout' = timeout
  BY DEF handle_char
<1>3. InOrderStep
  <2>1. out' \in Good(out.output_buffers, {})
    BY <1>1, QuietOut, MessageOut
  <2>. QED  BY <1>2, <2>1, QuietStep
<1>4. Registered(k) => DigitOf[k] \in 0 .. num_getchar_clients - 1
  BY <1>0, SizesAssumption DEF Registered
<1>5. give_client_char => fed' \subseteq 0 .. num_getchar_clients - 1
  BY <1>0 DEF give_client_char, NoStream
<1>6. /\ active_client' \in {NoStream} \cup 0 .. num_getchar_clients - 1
      /\ active_multiclients' \subseteq 0 .. num_getchar_clients - 1
      /\ fed' \subseteq 0 .. num_getchar_clients - 1
      /\ statemachine' \in 0 .. 3
  <2>1. CASE KeyText(k)
    BY <1>0, <1>5, <2>1 DEF KeyText
  <2>2. CASE KeyLineStart(k)
    BY <1>0, <1>5, <2>2 DEF KeyLineStart
  <2>3. CASE KeyCommand(k)
    <3>1. CASE k = "@"
      <4>1. /\ statemachine' = 0 /\ give_client_char
            /\ active_client' = active_client /\ active_multiclients' = active_multiclients
        BY <2>3, <3>1 DEF KeyCommand
      <4>. QED  BY <1>0, <1>5, <4>1
    <3>2. CASE k # "@"
      <4>1. /\ active_client' = IF k = "m" THEN NoStream
                                ELSE IF Registered(k) THEN DigitOf[k] ELSE active_client
            /\ active_multiclients' = IF k = "m" THEN {} ELSE active_multiclients
            /\ statemachine' = (IF k = "m" THEN 3 ELSE 1)
            /\ fed' = {}
        BY <2>3, <3>2 DEF KeyCommand
      <4>2. statemachine' \in 0 .. 3 /\ fed' \subseteq 0 .. num_getchar_clients - 1
            /\ active_multiclients' \subseteq 0 .. num_getchar_clients - 1
        <5>1. /\ statemachine' = 3 \/ statemachine' = 1
              /\ active_multiclients' = {} \/ active_multiclients' = active_multiclients
          BY <4>1, Zenon
        <5>2. fed' = {}
          BY <4>1
        <5>3. statemachine' \in 0 .. 3
          BY <5>1
        <5>4. active_multiclients' \subseteq 0 .. num_getchar_clients - 1
          BY <1>0, <5>1, Zenon
        <5>. QED  BY <5>2, <5>3, <5>4, Zenon
      <4>3. active_client' \in {NoStream} \cup 0 .. num_getchar_clients - 1
        BY <1>0, <1>4, <4>1, Zenon
      <4>. QED  BY <4>2, <4>3
    <3>. QED  BY <3>1, <3>2
  <2>4. CASE KeyMulti(k)
    BY <1>0, <1>4, <2>4 DEF KeyMulti
  <2>. QED  BY <2>1, <2>2, <2>3, <2>4 DEF handle_char
<1>. QED  BY <1>2, <1>3, <1>6 DEF IInv, InputInv

LEMMA EveryStep ==
  ASSUME IInv, Next
  PROVE  InOrderStep /\ InputInv'
<1>0. UNCHANGED use
  BY DEF Next
<1>1. CASE \E t \in Threads, n \in use.clients : \E text \in use.texts[t] : call(t, n, text)
  BY <1>0, <1>1, CallStep
<1>2. CASE \E t \in Threads : internal_putchar(t)
  BY <1>0, <1>2, PutStep
<1>3. CASE timeout_periodic
  BY <1>0, <1>3, TickStep
<1>4. CASE timer_callback
  BY <1>0, <1>4, TimerStep
<1>5. CASE \E k \in use.typed : handle_char(k)
  BY <1>0, <1>5, KeyStep
<1>. QED  BY <1>1, <1>2, <1>3, <1>4, <1>5 DEF Next

LEMMA InitIInv == Init => IInv
<1>. SUFFICES ASSUME Init PROVE IInv
  OBVIOUS
<1>1. OutInv
  BY InitGood DEF Init, OutInv
<1>2. InputInv
  <2>1. 0 \in Streams /\ << >> \in Seq(Characters)
    BY SizesAssumption DEF Streams
  <2>2. [stream |-> 0, text |-> << >>] \in [stream : Streams, text : Seq(Characters)]
    BY <2>1
  <2>3. todo \in [Threads -> [stream : Streams, text : Seq(Characters)]]
    BY <2>2 DEF Init
  <2>4. 0 \in 0 .. num_getchar_clients - 1
    BY SizesAssumption
  <2>5. /\ timeout \in BOOLEAN /\ active_multiclients \subseteq 0 .. num_getchar_clients - 1
        /\ fed \subseteq 0 .. num_getchar_clients - 1 /\ use \in Uses
    BY DEF Init
  <2>6. statemachine \in 0 .. 3
    BY DEF Init
  <2>7. active_client \in {NoStream} \cup 0 .. num_getchar_clients - 1
    BY <2>4 DEF Init
  <2>. QED  BY <2>3, <2>5, <2>6, <2>7 DEF InputInv
<1>. QED  BY <1>1, <1>2 DEF IInv

LEMMA StepIInv == IInv /\ [Next]_<< vars, use >> => IInv'
<1>. SUFFICES ASSUME IInv, [Next]_<< vars, use >> PROVE IInv'
  OBVIOUS
<1>1. CASE Next
  <2>1. PICK X : out' \in Good(X, {})
    BY <1>1, EveryStep DEF InOrderStep
  <2>2. OutInv'
    BY <2>1, GoodSelf DEF OutInv
  <2>. QED  BY <1>1, <2>2, EveryStep DEF IInv
<1>2. CASE UNCHANGED << vars, use >>
  <2>1. /\ out' = out /\ todo' = todo /\ timeout' = timeout /\ active_client' = active_client
        /\ active_multiclients' = active_multiclients /\ statemachine' = statemachine
        /\ fed' = fed /\ use' = use
    BY <1>2 DEF vars
  <2>2. OutInv'
    BY <2>1 DEF IInv, OutInv
  <2>. QED  BY <2>1, <2>2 DEF IInv, InputInv
<1>. QED  BY <1>1, <1>2

(* The inductive invariant holds: colour and last_out agree, what is shown has  *)
(* the right colour, and output_buffer_bitmask covers the buffers.              *)
THEOREM Invariant == Spec => []IInv
BY InitIInv, StepIInv, PTL DEF Spec

-----------------------------------------------------------------------------
(* What follows                                                                 *)

(* The type of every variable: only registered clients are ever selected for    *)
(* input by handle_char, and fed.                                               *)
THEOREM Types == Spec => []TypeOK
<1>1. ASSUME IInv PROVE TypeOK
  <2>1. out \in Outs
    BY <1>1 DEF IInv, OutInv, Good
  <2>2. /\ out.last_out \in Streams \cup {NoStream} /\ out.colour \in Colours
        /\ out.bitmask \subseteq Streams \cap 0 .. MaskBits - 1
        /\ out.done_output \in BOOLEAN /\ out.has_data \in BOOLEAN
        /\ \A b \in Streams : out.output_buffers[b] \in Seq(Characters)
    BY <2>1, OutsTypes DEF Places
  <2>3. \A t \in Threads : todo[t].stream \in Streams
    BY <1>1 DEF IInv, InputInv
  <2>4. /\ timeout \in BOOLEAN
        /\ active_client \in {NoStream} \cup 0 .. num_getchar_clients - 1
        /\ active_multiclients \subseteq 0 .. num_getchar_clients - 1
        /\ fed \subseteq 0 .. num_getchar_clients - 1
        /\ statemachine \in 0 .. 3
    BY <1>1 DEF IInv, InputInv
  <2>. QED  BY <2>2, <2>3, <2>4 DEF TypeOK, Colours
<1>. QED  BY <1>1, Invariant, PTL

(* COLOUR_INDEX_TO_STYLE and COLOUR_INDEX_TO_SLOT lead every stream to the      *)
(* entry of the table meant for it, for any number of clients, except three: it *)
(* divides by MAX_CLIENTS - 1, one too few. The last processed stream and the   *)
(* last two raw ones never get theirs.                                          *)
THEOREM OwnColours ==
  ASSUME NEW b \in Streams
  PROVE  ColourOf(b) = OwnColour(b) <=> b \notin Misplaced
<1>. DEFINE M == MAX_CLIENTS
            row == COLOUR_INDEX_TO_STYLE(b)
            slot == COLOUR_INDEX_TO_SLOT(b)
<1>1. M \in Nat \ {0, 1} /\ M - 1 \in Nat \ {0} /\ b \in 0 .. 2 * M - 1
  BY SizesAssumption DEF Streams
<1>2. slot = IF b < M THEN b ELSE b - M
  BY <1>1, Remainder DEF COLOUR_INDEX_TO_SLOT
<1>3. CASE b < M - 1
  <2>1. row = 0
    BY <1>1, <1>3, Quotient DEF COLOUR_INDEX_TO_STYLE
  <2>. HIDE DEF row, slot
  <2>. QED  BY <1>1, <1>2, <1>3, <2>1 DEF ColourOf, OwnColour, Misplaced, row, slot
<1>4. CASE b \in M - 1 .. 2 * (M - 1) - 1
  <2>1. row = 1
    BY <1>1, <1>4, Quotient DEF COLOUR_INDEX_TO_STYLE
  <2>2. CASE b = M - 1
    BY <1>1, <1>2, <2>1, <2>2 DEF ColourOf, OwnColour, Misplaced, COLOR_RESET
  <2>3. CASE b # M - 1
    BY <1>1, <1>2, <1>4, <2>1, <2>3 DEF ColourOf, OwnColour, Misplaced
  <2>. QED  BY <2>2, <2>3
<1>5. CASE b \in {2 * M - 2, 2 * M - 1}
  <2>1. row \in {2, 3}
    BY <1>1, <1>5, Quotient DEF COLOUR_INDEX_TO_STYLE
  <2>. QED  BY <1>1, <1>2, <1>5, <2>1 DEF ColourOf, OwnColour, Misplaced
<1>. QED  BY <1>1, <1>3, <1>4, <1>5

(* The text of a stream is shown in its own colour, that of the three streams   *)
(* that do not have one in what flush_buffer finds for them, coalesced text in  *)
(* none, although the colour is switched only when last_out says so.            *)
THEOREM ColoursShown == Spec => []ColourMatches
<1>1. ASSUME IInv PROVE ColourMatches
  <2>. SUFFICES ASSUME NEW i \in DOMAIN out.shown, NEW from, NEW b,
                       from = out.shown[i].from, b = Min(from)
                PROVE  out.shown[i].colour =
                         IF Cardinality(from) > 1 THEN COLOR_RESET
                         ELSE IF b \in Misplaced THEN ColourOf(b) ELSE OwnColour(b)
    BY DEF ColourMatches
  <2>1. out \in Outs /\ RightColour(out.shown[i])
    BY <1>1 DEF IInv, OutInv, Good
  <2>2. from \in SUBSET Streams /\ from # {}
    <3>1. out.shown \in Seq(Pieces)
      BY <2>1, OutsTypes
    <3>2. out.shown[i] \in Pieces
      BY <3>1
    <3>. QED  BY <3>2 DEF Pieces
  <2>3. b \in Streams
    <3>1. from \in SUBSET Nat
      BY <2>2, SizesAssumption DEF Streams
    <3>2. Min(from) \in from
      BY <2>2, <3>1, MinIsLeast
    <3>. QED  BY <2>2, <3>2
  <2>4. b \notin Misplaced => ColourOf(b) = OwnColour(b)
    BY <2>3, OwnColours
  <2>. QED  BY <2>1, <2>4 DEF RightColour
<1>. QED  BY <1>1, Invariant, PTL

(* output_buffer_bitmask misses no stream it has a bit for, whatever its width  *)
(* and through every flush, overflow and coalescing.                            *)
THEOREM Mask == Spec => []MaskCovers
<1>1. ASSUME IInv PROVE MaskCovers
  BY <1>1 DEF IInv, OutInv, Good, Covered, MaskCovers
<1>. QED  BY <1>1, Invariant, PTL

(* Up to a character for a full buffer, which internal_putchar would put behind *)
(* it, each stream's characters are shown once, in the order they were put.     *)
THEOREM InOrder == Spec => ShownInOrder
<1>1. ASSUME IInv, Next, NEW b \in Streams
      PROVE  out.output_buffers[b] \o Arrived(b) = ShownOf(out'.shown, b) \o out'.output_buffers[b]
  <2>1. PICK X : out' \in Good(X, {}) /\ \A d \in Streams : X[d] = out.output_buffers[d] \o Arrived(d)
    BY <1>1, EveryStep DEF InOrderStep
  <2>2. Total(out', b) = X[b]
    BY <2>1 DEF Good
  <2>. QED  BY <2>1, <2>2 DEF Total
<1>2. IInv /\ [Next]_<< vars, use >> =>
        [\A b \in Streams :
           out.output_buffers[b] \o Arrived(b)
             = ShownOf(out'.shown, b) \o out'.output_buffers[b]]_vars
  BY <1>1 DEF vars
<1>. QED  BY <1>2, Invariant, PTL DEF Spec, ShownInOrder

(* A text that ends a line does not end in the middle of one.                   *)
LEMMA EndsLineLast ==
  ASSUME NEW s \in Seq(Characters), EndsLine(s)
  PROVE  Last(s) \in {CR, LF}
<1>1. Len(s) \in Nat /\ Len(s) >= 2
  BY DEF EndsLine
<1>2. PICK x : x = SubSeq(s, Len(s) - 1, Len(s))
  OBVIOUS
<1>3. x[2] = s[Len(s)]
  BY <1>1, <1>2
<1>4. x = << CR, LF >> \/ x = << LF, CR >>
  BY <1>2 DEF EndsLine
<1>5. x[2] \in {CR, LF}
  BY <1>4
<1>. QED  BY <1>3, <1>5 DEF Last

(* A flush on a character put shows all there is of the stream.                 *)
LEMMA PutShows ==
  ASSUME IInv, NEW b \in Streams, NEW c \in Characters,
         Len(out.output_buffers[b]) + 1 < CLIENT_OUTPUT_BUFFER_SIZE,
         active_client # NoStream,
         NEW p, p = putchar(out, b, c), p.shown # << >>,
         Last(p.shown[1].text) \notin {CR, LF}
  PROVE  out.bitmask = {}
<1>. DEFINE added == Put(Quiet(out), b, c)
            s == added.output_buffers[b]
            marked == [added EXCEPT !.bitmask = @ \cup ({b} \cap 0 .. MaskBits - 1)]
<1>0. /\ Quiet(out) \in Good(out.output_buffers, {}) /\ Quiet(out).shown = << >>
      /\ Quiet(out).output_buffers = out.output_buffers
      /\ out \in Outs /\ out.output_buffers[b] \in Seq(Characters)
      /\ CLIENT_OUTPUT_BUFFER_SIZE \in Nat
  <2>1. out \in Outs
    BY DEF IInv, OutInv, Good
  <2>. QED  BY <2>1, QuietGood, OutsTypes, SizesAssumption DEF IInv, OutInv
<1>1. Quiet(out).bitmask = out.bitmask
  BY <1>0 DEF Quiet, Outs
<1>2. PICK q : q = Quiet(out)
  OBVIOUS
<1>3. /\ Put(q, b, c) \in Good(With(q.output_buffers, b, c), {b})
      /\ Put(q, b, c).output_buffers = With(q.output_buffers, b, c)
      /\ Put(q, b, c).shown = << >>
      /\ Put(q, b, c).bitmask = q.bitmask
  <2>1. /\ q \in Good(out.output_buffers, {}) /\ q.shown = << >>
        /\ Len(q.output_buffers[b]) < CLIENT_OUTPUT_BUFFER_SIZE
    BY <1>0, <1>2
  <2>. QED  BY <2>1, PutGood
<1>4. /\ added \in Good(With(out.output_buffers, b, c), {b}) /\ added \in Outs
      /\ added.shown = << >> /\ added.bitmask = out.bitmask
      /\ s = Append(out.output_buffers[b], c)
  BY <1>0, <1>1, <1>2, <1>3 DEF With, Good
<1>5. s \in Seq(Characters) /\ s # << >> /\ Len(s) < CLIENT_OUTPUT_BUFFER_SIZE /\ Len(s) \in Nat
  BY <1>0, <1>4, AppendParts
<1>6. coalesce_status(added) = -1
  BY DEF coalesce_status
<1>7. putchar(out, b, c) =
        IF Len(s) = CLIENT_OUTPUT_BUFFER_SIZE THEN overflow(added, b)
        ELSE IF EndsLine(s) \/ (added.last_out = b /\ added.bitmask = {})
        THEN flush_buffer(added, b) ELSE marked
  <2>. DEFINE status == coalesce_status(added)
              next == IF status = 0 THEN coalesced(added) ELSE added
              mark == [next EXCEPT !.bitmask = @ \cup ({b} \cap 0 .. MaskBits - 1)]
  <2>1. putchar(out, b, c) =
          IF Len(next.output_buffers[b]) = CLIENT_OUTPUT_BUFFER_SIZE THEN overflow(next, b)
          ELSE IF status = -1 /\ \/ EndsLine(next.output_buffers[b])
                                 \/ next.last_out = b /\ next.bitmask = {}
          THEN flush_buffer(next, b) ELSE mark
    BY Zenon DEF putchar, Put
  <2>2. next = added /\ status = -1
    <3>. HIDE DEF added
    <3>. QED  BY <1>6
  <2>3. mark = marked
    <3>. HIDE DEF next
    <3>. QED  BY <2>2, Zenon
  <2>. HIDE DEF next, status, mark, marked, added
  <2>. QED  BY <2>1, <2>2, <2>3, Zenon
<1>. HIDE DEF added
<1>8. CASE EndsLine(s) \/ (added.last_out = b /\ added.bitmask = {})
  <2>1. p = flush_buffer(added, b)
    BY <1>5, <1>7, <1>8
  <2>. DEFINE n == Len(s)
              piece == [from |-> {b}, text |-> SubSeq(s, 1, n), colour |-> Painted(b)]
  <2>2. PICK r : r = ShowFirst(added, b, n)
    OBVIOUS
  <2>3. ShownBy(r, added, {b}, n, b, piece)
    <3>1. n \in 0..n
      BY <1>5
    <3>. HIDE DEF n
    <3>. QED  BY <1>4, <2>2, <3>1, ShowFirstGood DEF n
  <2>4. p = [r EXCEPT !.done_output = TRUE]
    BY <1>5, <2>1, <2>2 DEF flush_buffer
  <2>5. IsOut(r) /\ r.shown = Append(<< >>, piece)
    <3>. HIDE DEF piece, n
    <3>. QED  BY <1>4, <2>3 DEF ShownBy
  <2>6. p.shown = Append(<< >>, piece)
    <3>. HIDE DEF piece
    <3>. QED  BY <2>4, <2>5 DEF IsOut
  <2>7. p.shown[1] = piece
    <3>. HIDE DEF piece
    <3>. QED  BY <2>6
  <2>8. piece.text = s
    <3>. HIDE DEF s
    <3>1. SubSeq(s, 1, Len(s)) = s
      BY <1>5
    <3>. QED  BY <3>1
  <2>9. ~EndsLine(s)
    BY <1>5, <2>7, <2>8, EndsLineLast
  <2>. QED  BY <1>4, <1>8, <2>9
<1>9. CASE ~(EndsLine(s) \/ (added.last_out = b /\ added.bitmask = {}))
  <2>1. p = marked
    BY <1>5, <1>7, <1>9
  <2>2. p.shown = << >>
    BY <1>4, <2>1 DEF Outs
  <2>. QED  BY <2>2
<1>. QED  BY <1>8, <1>9

(* Unless a buffer is full, and outside the multi-client mode, a character put  *)
(* shows a piece of line only when no other stream that has a bit in the mask   *)
(* has text waiting.                                                            *)
THEOREM Cuts == Spec => CutsAlone
<1>1. ASSUME IInv, Next, NEW t \in Threads, todo[t].text # << >>, todo'[t] # todo[t],
             Len(out.output_buffers[todo[t].stream]) + 1 < CLIENT_OUTPUT_BUFFER_SIZE,
             out'.shown # << >>, Last(out'.shown[1].text) \notin {CR, LF},
             active_client # NoStream,
             NEW d \in (Streams \ {todo[t].stream}) \cap 0 .. MaskBits - 1
      PROVE  out.output_buffers[d] = << >>
  <2>0. todo \in [Threads -> [stream : Streams, text : Seq(Characters)]]
    BY <1>1 DEF IInv, InputInv
  <2>1. internal_putchar(t)
    <3>1. ASSUME NEW u \in Threads, NEW n, NEW text, call(u, n, text) PROVE FALSE
      <4>1. u # t
        BY <1>1, <3>1 DEF call
      <4>2. todo'[t] = todo[t]
        BY <2>0, <3>1, <4>1 DEF call
      <4>. QED  BY <1>1, <4>2
    <3>2. ASSUME NEW u \in Threads, internal_putchar(u) PROVE internal_putchar(t)
      <4>1. CASE u # t
        <5>1. todo'[t] = todo[t]
          BY <2>0, <3>2, <4>1 DEF internal_putchar
        <5>. QED  BY <1>1, <5>1
      <4>. QED  BY <3>2, <4>1
    <3>3. CASE timeout_periodic \/ timer_callback \/ \E k \in use.typed : handle_char(k)
      <4>1. todo' = todo
        BY <3>3 DEF timeout_periodic, timer_callback, handle_char
      <4>. QED  BY <1>1, <4>1
    <3>. QED  BY <1>1, <3>1, <3>2, <3>3 DEF Next
  <2>2. PICK b, c : b = todo[t].stream /\ c = Head(todo[t].text)
    OBVIOUS
  <2>3. b \in Streams /\ c \in Characters /\ out' = putchar(out, b, c)
    <3>1. todo[t].text \in Seq(Characters) /\ todo[t].text # << >> /\ b \in Streams
      BY <1>1, <2>0, <2>2
    <3>2. out' = putchar(out, b, c)
      BY <2>1, <2>2 DEF internal_putchar
    <3>. QED  BY <2>2, <3>1, <3>2
  <2>4. out.bitmask = {}
    BY <1>1, <2>2, <2>3, PutShows
  <2>5. Covered(out, {})
    BY <1>1 DEF IInv, OutInv, Good
  <2>. QED  BY <2>4, <2>5 DEF Covered
<1>2. IInv /\ [Next]_<< vars, use >> =>
        [\A t \in Threads :
           LET b == todo[t].stream IN
           /\ todo[t].text # << >>
           /\ todo'[t] # todo[t]
           /\ Len(out.output_buffers[b]) + 1 < CLIENT_OUTPUT_BUFFER_SIZE
           /\ out'.shown # << >>
           /\ Last(out'.shown[1].text) \notin {CR, LF}
           /\ active_client # NoStream
           => \A d \in (Streams \ {b}) \cap 0 .. MaskBits - 1 :
                out.output_buffers[d] = << >>]_vars
  <2>. HIDE DEF Last
  <2>. QED  BY <1>1 DEF vars
<1>. QED  BY <1>2, Invariant, PTL DEF Spec, CutsAlone

-----------------------------------------------------------------------------
(* The loop that flushes lines ends                                             *)

LineLess(s) == LineLength(s) = 0

(* flush_buffer_line takes the first line of stream b, and nothing else.        *)
LEMMA flush_buffer_lineTakes ==
  ASSUME NEW X, NEW B, NEW o \in Good(X, B), NEW b \in Streams, NEW d \in Streams
  PROVE  flush_buffer_line(o, b).output_buffers[d]
           = IF d = b
             THEN SubSeq(o.output_buffers[b], LineLength(o.output_buffers[b]) + 1,
                         Len(o.output_buffers[b]))
             ELSE o.output_buffers[d]
<1>. DEFINE n == LineLength(o.output_buffers[b])
<1>1. o.output_buffers[b] \in Seq(Characters)
  BY OutsTypes DEF Good
<1>2. n \in 0..Len(o.output_buffers[b])
  BY <1>1, LineLengthRange
<1>3. CASE n = 0
  <2>1. flush_buffer_line(o, b) = o
    BY <1>3, Zenon DEF flush_buffer_line
  <2>2. SubSeq(o.output_buffers[b], 1, Len(o.output_buffers[b])) = o.output_buffers[b]
    BY <1>1
  <2>3. SubSeq(o.output_buffers[b], n + 1, Len(o.output_buffers[b])) = o.output_buffers[b]
    <3>. HIDE DEF n
    <3>. QED  BY <1>3, <2>2
  <2>. QED  BY <2>1, <2>3, Zenon
<1>4. CASE n # 0
  <2>1. flush_buffer_line(o, b) = ShowFirst(o, b, n)
    BY <1>4, Zenon DEF flush_buffer_line
  <2>. HIDE DEF n
  <2>. DEFINE piece == [from |-> {b}, text |-> SubSeq(o.output_buffers[b], 1, n), colour |-> Painted(b)]
  <2>2. ShownBy(ShowFirst(o, b, n), o, {b}, n, b, piece)
    BY <1>2, ShowFirstGood
  <2>. HIDE DEF piece
  <2>3. ShowFirst(o, b, n).output_buffers = Rest(o, {b}, n)
    BY <2>2, Zenon DEF ShownBy
  <2>4. Rest(o, {b}, n)[d] = IF d = b THEN SubSeq(o.output_buffers[b], n + 1, Len(o.output_buffers[b]))
                             ELSE o.output_buffers[d]
    BY DEF Rest
  <2>. QED  BY <2>1, <2>3, <2>4, Zenon DEF n
<1>. QED  BY <1>3, <1>4

(* A pass of flush_lines takes the first line of every stream.                  *)
LEMMA flush_each_lineTakes ==
  ASSUME NEW X, NEW B, NEW o \in Good(X, B), NEW b \in Streams
  PROVE  flush_each_line(o).output_buffers[b]
           = SubSeq(o.output_buffers[b], LineLength(o.output_buffers[b]) + 1,
                    Len(o.output_buffers[b]))
<1>. DEFINE N == 2 * MAX_CLIENTS
            s == o.output_buffers[b]
            rest == SubSeq(s, LineLength(s) + 1, Len(s))
            held(n) == IF n <= b THEN s ELSE rest
            C == [n \in 0..N |-> {x \in Good(X, B) : x.output_buffers[b] = held(n)}]
<1>0. N \in Nat /\ b \in 0..(N - 1)
  BY SizesAssumption DEF Streams
<1>1. PICK g : /\ flush_each_line(o) = g[N] /\ g[0] = o
               /\ \A n \in 0..N : g[n] \in Good(X, B)
               /\ \A n \in 1..N : g[n] = flush_buffer_line(g[n - 1], n - 1)
  BY flush_each_lineRun
<1>. HIDE DEF N, rest
<1>2. g[0] \in C[0]
  <2>1. held(0) = s
    BY <1>0
  <2>. QED  BY <1>0, <1>1, <2>1
<1>3. ASSUME NEW n \in 1..N, g[n - 1] \in C[n - 1]
      PROVE  g[n] \in C[n]
  <2>1. n \in 0..N /\ n - 1 \in 0..N /\ n - 1 \in Streams /\ n \in Nat
    BY <1>0 DEF Streams, N
  <2>2. PICK x : x = g[n - 1]
    OBVIOUS
  <2>3. x \in Good(X, B) /\ x.output_buffers[b] = held(n - 1)
    BY <1>3, <2>1, <2>2
  <2>4. g[n] = flush_buffer_line(x, n - 1) /\ g[n] \in Good(X, B)
    BY <1>1, <2>1, <2>2
  <2>5. flush_buffer_line(x, n - 1).output_buffers[b]
          = IF b = n - 1
            THEN SubSeq(x.output_buffers[n - 1], LineLength(x.output_buffers[n - 1]) + 1,
                        Len(x.output_buffers[n - 1]))
            ELSE x.output_buffers[b]
    BY <2>1, <2>3, flush_buffer_lineTakes
  <2>6. CASE b = n - 1
    <3>1. held(n - 1) = s /\ held(n) = rest
      BY <1>0, <2>1, <2>6
    <3>2. flush_buffer_line(x, n - 1).output_buffers[b] = rest
      BY <2>3, <2>5, <2>6, <3>1 DEF rest
    <3>. QED  BY <2>1, <2>4, <3>1, <3>2
  <2>7. CASE b # n - 1
    <3>1. held(n - 1) = held(n)
      BY <1>0, <2>1, <2>7
    <3>. HIDE DEF held
    <3>. QED  BY <2>1, <2>3, <2>4, <2>5, <2>7, <3>1
  <2>. QED  BY <2>6, <2>7
<1>4. g[N] \in C[N]
  <2>1. \A n \in 0..N : g[n] \in C[n]
    <3>. HIDE DEF C
    <3>. QED  BY <1>0, <1>2, <1>3, LoopInvariant
  <2>. QED  BY <1>0, <2>1
<1>5. held(N) = rest
  BY <1>0
<1>6. g[N].output_buffers[b] = held(N)
  <2>. HIDE DEF held
  <2>. QED  BY <1>0, <1>4
<1>. QED  BY <1>1, <1>5, <1>6, Zenon DEF rest

(* timer_callback and internal_putchar flush lines until no stream has one:     *)
(* the source's loop ends, after as many passes as a buffer has characters at   *)
(* most, so that the model's loop of that length is the whole of it.            *)
THEOREM LinesEnd ==
  ASSUME NEW X, NEW B, NEW o \in Good(X, B)
  PROVE  ~HasLine(flush_lines(o))
<1>. DEFINE N == CLIENT_OUTPUT_BUFFER_SIZE
            Short(x, n) == \A b \in Streams : \/ LineLess(x.output_buffers[b])
                                              \/ Len(x.output_buffers[b]) <= N - n
            C == [n \in 0..N |-> {x \in Good(X, B) : Short(x, n)}]
<1>0. N \in Nat
  BY SizesAssumption
<1>1. PICK g : /\ flush_lines(o) = g[N] /\ g[0] = o
               /\ \A n \in 0..N : g[n] \in Good(X, B)
               /\ \A n \in 1..N : g[n] = IF HasLine(g[n - 1]) THEN flush_each_line(g[n - 1])
                                         ELSE g[n - 1]
  BY flush_linesRun
<1>2. g[0] \in C[0]
  <2>1. \A b \in Streams : Len(o.output_buffers[b]) <= N
    BY OutsTypes DEF Good
  <2>2. Short(o, 0)
    BY <1>0, <2>1
  <2>. QED  BY <1>0, <1>1, <2>2
<1>3. ASSUME NEW n \in 1..N, g[n - 1] \in C[n - 1]
      PROVE  g[n] \in C[n]
  <2>1. n \in 0..N /\ n - 1 \in 0..N /\ n \in Nat
    BY <1>0
  <2>2. PICK x : x = g[n - 1]
    OBVIOUS
  <2>3. x \in Good(X, B) /\ Short(x, n - 1)
    BY <1>3, <2>1, <2>2
  <2>4. g[n] = (IF HasLine(x) THEN flush_each_line(x) ELSE x) /\ g[n] \in Good(X, B)
    BY <1>1, <2>1, <2>2
  <2>5. CASE ~HasLine(x)
    <3>1. Short(x, n)
      BY <2>5 DEF HasLine, LineLess
    <3>. QED  BY <2>1, <2>4, <2>5, <3>1
  <2>6. CASE HasLine(x)
    <3>1. ASSUME NEW b \in Streams
          PROVE  \/ LineLess(g[n].output_buffers[b])
                 \/ Len(g[n].output_buffers[b]) <= N - n
      <4>. DEFINE s == x.output_buffers[b]
                  k == LineLength(s)
      <4>1. s \in Seq(Characters) /\ Len(s) \in Nat
        BY <2>3, OutsTypes DEF Good
      <4>2. g[n].output_buffers[b] = SubSeq(s, k + 1, Len(s))
        BY <2>3, <2>4, <2>6, flush_each_lineTakes
      <4>3. k \in 0..Len(s)
        BY <4>1, LineLengthRange
      <4>4. LineLess(s) \/ Len(s) <= N - (n - 1)
        BY <2>3
      <4>. HIDE DEF s
      <4>5. CASE k = 0
        <5>1. SubSeq(s, 1, Len(s)) = s
          BY <4>1
        <5>2. g[n].output_buffers[b] = s
          BY <4>2, <4>5, <5>1
        <5>. QED  BY <4>5, <5>2 DEF LineLess
      <4>6. CASE k # 0
        <5>1. ~LineLess(s)
          BY <4>6 DEF LineLess
        <5>. HIDE DEF k
        <5>2. Len(SubSeq(s, k + 1, Len(s))) = Len(s) - k
          BY <4>1, <4>3, SeqCut
        <5>. QED  BY <1>0, <2>1, <4>1, <4>2, <4>3, <4>4, <4>6, <5>1, <5>2
      <4>. QED  BY <4>5, <4>6
    <3>. QED  BY <2>1, <2>4, <3>1
  <2>. QED  BY <2>5, <2>6
<1>4. g[N] \in C[N]
  <2>1. \A n \in 0..N : g[n] \in C[n]
    <3>. HIDE DEF C, N
    <3>. QED  BY <1>0, <1>2, <1>3, LoopInvariant
  <2>. QED  BY <1>0, <2>1
<1>5. ASSUME NEW b \in Streams
      PROVE  LineLength(g[N].output_buffers[b]) = 0
  <2>1. g[N] \in Good(X, B) /\ Short(g[N], N)
    BY <1>0, <1>4
  <2>2. LineLess(g[N].output_buffers[b]) \/ Len(g[N].output_buffers[b]) <= 0
    BY <1>0, <2>1
  <2>3. g[N].output_buffers[b] \in Seq(Characters)
    BY <2>1, OutsTypes DEF Good
  <2>4. LineLength(g[N].output_buffers[b]) \in 0..Len(g[N].output_buffers[b])
    BY <2>3, LineLengthRange
  <2>. QED  BY <2>2, <2>3, <2>4 DEF LineLess
<1>. QED  BY <1>1, <1>5 DEF HasLine
=============================================================================
