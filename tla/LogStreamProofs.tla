-------------------------- MODULE LogStreamProofs --------------------------
(***************************************************************************)
(* Proofs about LogStream: nothing that a container writes is lost, each   *)
(* of its lines has one prefix, and lines of different streams are apart,  *)
(* for all streams, outputs, limits and sizes of pipes.                    *)
(*                                                                         *)
(* What was printed of a stream is defined by recursion over the standard  *)
(* output (Kept), so the first part shows what Kept makes of one more      *)
(* entry, of many more (KeptConcat) and of one print (Prints).  The second *)
(* is what _readchunk takes (Taken, ReadableFacts), and FormatCases joins  *)
(* both: one step of _format_stream.  Invariants follow, each resting on   *)
(* those before: LogTypeOK, ShownInv (line_ongoing is what is open),       *)
(* PipesInv, FlowInv (printed, buffered and piped is what was written) and *)
(* ApartInv.                                                               *)
(*                                                                         *)
(* The library's induction theorems take an operator as a parameter, so    *)
(* induction over Nat is over a set of numbers here: NatSets.              *)
(***************************************************************************)
EXTENDS LogStream, SequenceTheorems, WellFoundedInduction, TLAPS

-----------------------------------------------------------------------------
(* Sets of numbers.                                                        *)

(* A set of positions that is not empty has a least member.                *)
LEMMA Least ==
  ASSUME NEW S, S \subseteq Nat, S # {}
  PROVE  \E n \in S : \A m \in S : n <= m
<1> DEFINE R == OpToRel(<, Nat)
<1>1. IsWellFoundedOn(R, Nat)
  BY NatLessThanWellFounded, Zenon
<1>2. \A x, y \in Nat : x < y => <<x, y>> \in R
  BY DEF OpToRel
<1> HIDE DEF R
<1>3. PICK x \in S : \A y \in S : ~ (<<y, x>> \in R)
  BY <1>1, WFMin
<1>4. \A m \in S : ~ m < x
  BY <1>2, <1>3
<1>5. \A m \in S : m \in Nat /\ x \in Nat
  OBVIOUS
<1> QED BY <1>4, <1>5

LEMMA NatSets ==
  ASSUME NEW S, 0 \in S, \A n \in Nat : n \in S => n + 1 \in S
  PROVE  Nat \subseteq S
<1> DEFINE T == Nat \ S
<1> SUFFICES ASSUME T # {} PROVE FALSE
  OBVIOUS
<1>1. PICK x \in T : \A y \in T : x <= y
  BY Least
<1>2. x # 0 /\ x - 1 \in Nat /\ ~ x <= x - 1
  OBVIOUS
<1>3. x - 1 \in S
  BY <1>1, <1>2
<1> QED BY <1>2, <1>3

-----------------------------------------------------------------------------
(* What Kept keeps.                                                        *)

LEMMA KeptToIs ==
  ASSUME NEW E, NEW entries \in Seq(E), NEW T
  PROVE  LET f == KeptTo(entries, T) IN
         f = [n \in 0..Len(entries) |->
                IF n = 0 THEN <<>>
                ELSE IF entries[n] \in T THEN Append(f[n - 1], entries[n]) ELSE f[n - 1]]
<1> DEFINE Body(f, N) == [n \in 0..N |->
                IF n = 0 THEN <<>>
                ELSE IF entries[n] \in T THEN Append(f[n - 1], entries[n]) ELSE f[n - 1]]
           S == {N \in Nat : \E f : f = Body(f, N)}
<1>1. 0 \in S
  <2> DEFINE f == [n \in 0..0 |-> <<>>]
  <2>1. \A n \in 0..0 : n = 0
    OBVIOUS
  <2>2. f = Body(f, 0)
    BY <2>1
  <2> QED BY <2>2
<1>2. ASSUME NEW N \in Nat, N \in S PROVE N + 1 \in S
  <2>1. PICK f : f = Body(f, N)
    BY <1>2
  <2> DEFINE g == [n \in 0..(N + 1) |->
                     IF n = N + 1
                     THEN IF entries[N + 1] \in T THEN Append(f[N], entries[N + 1]) ELSE f[N]
                     ELSE f[n]]
  <2>2. \A n \in 0..(N + 1) : n # N + 1 => n \in 0..N
    OBVIOUS
  <2>3. \A n \in 0..N : f[n] = IF n = 0 THEN <<>>
                               ELSE IF entries[n] \in T THEN Append(f[n - 1], entries[n])
                               ELSE f[n - 1]
    BY <2>1
  <2>4. \A n \in 0..N : g[n] = f[n]
    OBVIOUS
  <2>5. g[N + 1] = IF entries[N + 1] \in T THEN Append(f[N], entries[N + 1]) ELSE f[N]
    OBVIOUS
  <2>6. DOMAIN g = 0..(N + 1) /\ g = [n \in 0..(N + 1) |-> g[n]]
    OBVIOUS
  <2> HIDE DEF g
  <2>7. \A n \in 0..(N + 1) : g[n] = IF n = 0 THEN <<>>
                               ELSE IF entries[n] \in T THEN Append(g[n - 1], entries[n])
                               ELSE g[n - 1]
    <3> SUFFICES ASSUME NEW n \in 0..(N + 1)
                 PROVE  g[n] = IF n = 0 THEN <<>>
                               ELSE IF entries[n] \in T THEN Append(g[n - 1], entries[n])
                               ELSE g[n - 1]
      OBVIOUS
    <3>1. CASE n = N + 1
      <4>1. n # 0 /\ n - 1 = N /\ N \in 0..N
        BY <3>1
      <4> QED BY <2>4, <2>5, <3>1, <4>1
    <3>2. CASE n # N + 1
      <4>1. n \in 0..N /\ (n # 0 => n - 1 \in 0..N)
        BY <3>2
      <4>2. g[n] = f[n] /\ (n # 0 => g[n - 1] = f[n - 1])
        BY <2>4, <4>1
      <4>3. f[n] = IF n = 0 THEN <<>>
                   ELSE IF entries[n] \in T THEN Append(f[n - 1], entries[n])
                   ELSE f[n - 1]
        BY <2>3, <4>1
      <4> DEFINE v == IF n = 0 THEN <<>>
                      ELSE IF entries[n] \in T THEN Append(f[n - 1], entries[n])
                      ELSE f[n - 1]
      <4>4. v = IF n = 0 THEN <<>>
                ELSE IF entries[n] \in T THEN Append(g[n - 1], entries[n]) ELSE g[n - 1]
        BY <4>2
      <4>5. g[n] = v
        BY <4>2, <4>3
      <4> QED BY <4>4, <4>5
    <3> QED BY <3>1, <3>2
  <2>8. g = Body(g, N + 1)
    BY <2>6, <2>7
  <2> QED BY <2>8
<1>3. Len(entries) \in Nat
  OBVIOUS
<1> HIDE DEF S
<1>4. Len(entries) \in S
  BY <1>1, <1>2, <1>3, NatSets
<1>5. \E f : f = Body(f, Len(entries))
  BY <1>4 DEF S
<1> QED BY <1>5 DEF KeptTo

LEMMA KeptToAt ==
  ASSUME NEW E, NEW entries \in Seq(E), NEW T
  PROVE  /\ KeptTo(entries, T)[0] = <<>>
         /\ \A n \in 1..Len(entries) :
              KeptTo(entries, T)[n] =
                IF entries[n] \in T THEN Append(KeptTo(entries, T)[n - 1], entries[n])
                ELSE KeptTo(entries, T)[n - 1]
<1> DEFINE f == KeptTo(entries, T)
<1>1. f = [n \in 0..Len(entries) |->
             IF n = 0 THEN <<>>
             ELSE IF entries[n] \in T THEN Append(f[n - 1], entries[n]) ELSE f[n - 1]]
  BY KeptToIs
<1> HIDE DEF f
<1>2. \A n \in 0..Len(entries) :
        f[n] = IF n = 0 THEN <<>>
               ELSE IF entries[n] \in T THEN Append(f[n - 1], entries[n]) ELSE f[n - 1]
  BY <1>1
<1>3. Len(entries) \in Nat
  OBVIOUS
<1>4. 0 \in 0..Len(entries) /\ \A n \in 1..Len(entries) : n \in 0..Len(entries) /\ n # 0
  BY <1>3
<1>5. f[0] = <<>>
  BY <1>2, <1>4
<1>6. \A n \in 1..Len(entries) :
        f[n] = IF entries[n] \in T THEN Append(f[n - 1], entries[n]) ELSE f[n - 1]
  BY <1>2, <1>4
<1> QED BY <1>5, <1>6 DEF f

LEMMA KeptAppend ==
  ASSUME NEW E, NEW entries \in Seq(E), NEW e \in E, NEW T
  PROVE  Kept(Append(entries, e), T) =
           IF e \in T THEN Append(Kept(entries, T), e) ELSE Kept(entries, T)
<1> DEFINE more == Append(entries, e)
           f == KeptTo(entries, T)
           g == KeptTo(more, T)
           L == Len(entries)
           S == {n \in Nat : n <= L => f[n] = g[n]}
<1>1. /\ more \in Seq(E) /\ Len(more) = L + 1 /\ L \in Nat /\ more[L + 1] = e
      /\ \A n \in 1..L : more[n] = entries[n]
  OBVIOUS
<1>2. /\ f[0] = <<>>
      /\ \A n \in 1..L : f[n] = IF entries[n] \in T THEN Append(f[n - 1], entries[n])
                                                    ELSE f[n - 1]
  BY KeptToAt
<1> HIDE DEF more
<1>3. /\ g[0] = <<>>
      /\ \A n \in 1..(L + 1) : g[n] = IF more[n] \in T THEN Append(g[n - 1], more[n])
                                                      ELSE g[n - 1]
  BY <1>1, KeptToAt
<1> HIDE DEF f, g, L
<1>4. 0 \in S
  BY <1>2, <1>3
<1>5. ASSUME NEW n \in Nat, n \in S PROVE n + 1 \in S
  <2> SUFFICES ASSUME n + 1 <= L PROVE f[n + 1] = g[n + 1]
    OBVIOUS
  <2>1. f[n] = g[n] /\ n + 1 \in 1..L /\ n + 1 \in 1..(L + 1) /\ (n + 1) - 1 = n
    BY <1>1, <1>5
  <2> QED BY <1>1, <1>2, <1>3, <2>1
<1> HIDE DEF S
<1>6. L \in S
  BY <1>1, <1>4, <1>5, NatSets
<1>7. f[L] = g[L]
  BY <1>1, <1>6 DEF S
<1>8. g[L + 1] = IF e \in T THEN Append(f[L], e) ELSE f[L]
  <2>1. L + 1 \in 1..(L + 1) /\ (L + 1) - 1 = L
    BY <1>1
  <2> QED BY <1>1, <1>3, <1>7, <2>1
<1> QED BY <1>1, <1>8 DEF Kept, more, f, g, L

LEMMA KeptType ==
  ASSUME NEW E, NEW entries \in Seq(E), NEW T
  PROVE  Kept(entries, T) \in Seq(T \cap E)
<1> DEFINE f == KeptTo(entries, T)
           L == Len(entries)
           S == {n \in Nat : n <= L => f[n] \in Seq(T \cap E)}
<1>1. /\ f[0] = <<>>
      /\ \A n \in 1..L : f[n] = IF entries[n] \in T THEN Append(f[n - 1], entries[n])
                                                    ELSE f[n - 1]
  BY KeptToAt
<1>2. L \in Nat /\ \A n \in 1..L : entries[n] \in E
  OBVIOUS
<1> HIDE DEF f, L
<1>3. 0 \in S
  <2>1. <<>> \in Seq(T \cap E)
    OBVIOUS
  <2> QED BY <1>1, <2>1
<1>4. ASSUME NEW n \in Nat, n \in S PROVE n + 1 \in S
  <2> SUFFICES ASSUME n + 1 <= L PROVE f[n + 1] \in Seq(T \cap E)
    OBVIOUS
  <2>1. f[n] \in Seq(T \cap E) /\ n + 1 \in 1..L /\ (n + 1) - 1 = n
    BY <1>2, <1>4
  <2>2. CASE entries[n + 1] \in T
    <3>1. f[n + 1] = Append(f[n], entries[n + 1]) /\ entries[n + 1] \in T \cap E
      BY <1>1, <1>2, <2>1, <2>2
    <3> QED BY <2>1, <3>1
  <2>3. CASE entries[n + 1] \notin T
    BY <1>1, <2>1, <2>3
  <2> QED BY <2>2, <2>3
<1> HIDE DEF S
<1>5. L \in S
  BY <1>2, <1>3, <1>4, NatSets
<1> QED BY <1>2, <1>5 DEF Kept, S, f, L

(* What is kept of more entries, all of them to be kept or none.           *)
LEMMA KeptConcat ==
  ASSUME NEW E, NEW A \in Seq(E), NEW B \in Seq(E), NEW T
  PROVE  /\ (\A n \in DOMAIN B : B[n] \in T) => Kept(A \o B, T) = Kept(A, T) \o B
         /\ (\A n \in DOMAIN B : B[n] \notin T) => Kept(A \o B, T) = Kept(A, T)
<1> DEFINE K == Kept(A, T)
           P(k) == SubSeq(B, 1, k)
           All == {k \in Nat : k <= Len(B) => Kept(A \o P(k), T) = K \o P(k)}
           Nothing == {k \in Nat : k <= Len(B) => Kept(A \o P(k), T) = K}
<1>1. K \in Seq(T \cap E) /\ K \in Seq(T \cup E)
  <2>1. K \in Seq(T \cap E)
    BY KeptType
  <2> QED BY <2>1, SeqMonotonic
<1>2. P(0) = <<>> /\ P(Len(B)) = B
  BY SubSeqEmpty, SubSeqFull
<1>3. ASSUME NEW k \in Nat, k + 1 <= Len(B)
      PROVE  /\ A \o P(k + 1) = Append(A \o P(k), B[k + 1]) /\ A \o P(k) \in Seq(E)
             /\ K \o P(k + 1) = Append(K \o P(k), B[k + 1]) /\ B[k + 1] \in E
             /\ k + 1 \in DOMAIN B
  <2>1. k + 1 \in 1..Len(B) /\ DOMAIN B = 1..Len(B) /\ Len(B) \in Nat
    BY <1>3
  <2>2. B[k + 1] \in E /\ P(k) \in Seq(E) /\ P(k + 1) \in Seq(E)
    BY <1>3, <2>1
  <2>3. P(k + 1) = Append(P(k), B[k + 1])
    BY <1>3, <2>1, <2>2
  <2>4. \A X, Y : X \in Seq(T \cup E) /\ Y \in Seq(T \cup E) =>
          \A e \in T \cup E : X \o Append(Y, e) = Append(X \o Y, e)
    OBVIOUS
  <2>5. P(k) \in Seq(T \cup E) /\ A \in Seq(T \cup E) /\ B[k + 1] \in T \cup E
    BY <2>2, SeqMonotonic
  <2> HIDE DEF P, K
  <2>6. A \o P(k + 1) = Append(A \o P(k), B[k + 1])
    BY <2>3, <2>4, <2>5
  <2>7. K \o P(k + 1) = Append(K \o P(k), B[k + 1])
    BY <1>1, <2>3, <2>4, <2>5
  <2>8. A \o P(k) \in Seq(E)
    BY <2>2
  <2> QED BY <2>1, <2>2, <2>6, <2>7, <2>8
<1>4. Len(B) \in Nat
  OBVIOUS
<1>5. K \o <<>> = K /\ A \o <<>> = A
  BY <1>1
<1> HIDE DEF P
<1>6. ASSUME \A n \in DOMAIN B : B[n] \in T PROVE Kept(A \o B, T) = Kept(A, T) \o B
  <2>1. 0 \in All
    BY <1>2, <1>5
  <2>2. ASSUME NEW k \in Nat, k \in All PROVE k + 1 \in All
    <3> SUFFICES ASSUME k + 1 <= Len(B) PROVE Kept(A \o P(k + 1), T) = K \o P(k + 1)
      OBVIOUS
    <3>1. Kept(A \o P(k), T) = K \o P(k)
      BY <1>4, <2>2
    <3>2. A \o P(k) \in Seq(E) /\ B[k + 1] \in E /\ B[k + 1] \in T
      BY <1>3, <1>6
    <3> DEFINE X == A \o P(k)
               e == B[k + 1]
    <3> HIDE DEF X, e
    <3>3. Kept(Append(X, e), T) = Append(Kept(X, T), e)
      <4>1. X \in Seq(E) /\ e \in E /\ e \in T
        BY <3>2 DEF X, e
      <4> QED BY <4>1, KeptAppend
    <3>4. Kept(Append(A \o P(k), B[k + 1]), T) = Append(Kept(A \o P(k), T), B[k + 1])
      BY <3>3 DEF X, e
    <3> QED BY <1>3, <3>1, <3>4
  <2> HIDE DEF All
  <2>3. Len(B) \in All
    BY <1>4, <2>1, <2>2, NatSets
  <2> QED BY <1>2, <1>4, <2>3 DEF All
<1>7. ASSUME \A n \in DOMAIN B : B[n] \notin T PROVE Kept(A \o B, T) = Kept(A, T)
  <2>1. 0 \in Nothing
    BY <1>2, <1>5
  <2>2. ASSUME NEW k \in Nat, k \in Nothing PROVE k + 1 \in Nothing
    <3> SUFFICES ASSUME k + 1 <= Len(B) PROVE Kept(A \o P(k + 1), T) = K
      OBVIOUS
    <3>1. Kept(A \o P(k), T) = K
      BY <1>4, <2>2
    <3>2. A \o P(k) \in Seq(E) /\ B[k + 1] \in E /\ B[k + 1] \notin T
      BY <1>3, <1>7
    <3> DEFINE X == A \o P(k)
               e == B[k + 1]
    <3> HIDE DEF X, e
    <3>3. Kept(Append(X, e), T) = Kept(X, T)
      <4>1. X \in Seq(E) /\ e \in E /\ e \notin T
        BY <3>2 DEF X, e
      <4> QED BY <4>1, KeptAppend
    <3>4. Kept(Append(A \o P(k), B[k + 1]), T) = Kept(A \o P(k), T)
      BY <3>3 DEF X, e
    <3> QED BY <1>3, <3>1, <3>4
  <2> HIDE DEF Nothing
  <2>3. Len(B) \in Nothing
    BY <1>4, <2>1, <2>2, NatSets
  <2> QED BY <1>2, <1>4, <2>3 DEF Nothing
<1> QED BY <1>6, <1>7

LEMMA KeptNone ==
  ASSUME NEW T
  PROVE  Kept(<<>>, T) = <<>>
<1>1. <<>> \in Seq({}) /\ Len(<<>>) = 0
  OBVIOUS
<1>2. \A z \in Seq({}) : KeptTo(z, T)[0] = <<>>
  BY KeptToAt
<1> QED BY <1>1, <1>2 DEF Kept

-----------------------------------------------------------------------------
(* What one print leaves to be kept of each stream.                        *)

Entries == Streams \X (Bytes \cup {"prefix"})

LEMMA JoinEntries ==
  \A x, y, z \in Seq(Entries) : (x \o y) \o z = x \o (y \o z)
BY ConcatAssociative

LEMMA JoinBytes ==
  \A x, y, z \in Seq(Bytes) : (x \o y) \o z = x \o (y \o z)
BY ConcatAssociative

(* What the entries of one stream say.                                     *)
Seconds(q) == [n \in DOMAIN q |-> q[n][2]]

LEMMA TextSeconds ==
  ASSUME NEW s
  PROVE  Text(s) = Seconds(Kept(sink, {s} \X Bytes))
BY DEF Text, Seconds

LEMMA SecondsConcat ==
  ASSUME NEW U, NEW V, \A u \in U : u[2] \in V, NEW A \in Seq(U), NEW B \in Seq(U)
  PROVE  /\ Seconds(A) \in Seq(V) /\ Len(Seconds(A)) = Len(A)
         /\ Seconds(A \o B) = Seconds(A) \o Seconds(B)
<1>1. ASSUME NEW Q \in Seq(U)
      PROVE  /\ Seconds(Q) \in Seq(V) /\ Len(Seconds(Q)) = Len(Q)
             /\ \A n \in 1..Len(Q) : Seconds(Q)[n] = Q[n][2]
  <2>1. DOMAIN Q = 1..Len(Q) /\ Len(Q) \in Nat /\ \A n \in 1..Len(Q) : Q[n] \in U
    OBVIOUS
  <2>2. Seconds(Q) \in [1..Len(Q) -> V]
    <3>1. \A n \in 1..Len(Q) : Q[n][2] \in V
      BY <2>1
    <3> QED BY <2>1, <3>1 DEF Seconds
  <2>3. Seconds(Q) \in Seq(V) /\ Len(Seconds(Q)) = Len(Q)
    <3>1. ASSUME NEW l \in Nat, NEW f \in [1..l -> V] PROVE f \in Seq(V) /\ Len(f) = l
      OBVIOUS
    <3> QED BY <2>1, <2>2, <3>1
  <2> QED BY <2>1, <2>3 DEF Seconds
<1>2. /\ A \o B \in Seq(U) /\ Len(A \o B) = Len(A) + Len(B)
      /\ \A n \in 1..(Len(A) + Len(B)) :
           (A \o B)[n] = IF n <= Len(A) THEN A[n] ELSE B[n - Len(A)]
  BY ConcatProperties
<1> DEFINE C == A \o B
           X == Seconds(A)
           Y == Seconds(B)
           Z == Seconds(C)
<1>3. /\ X \in Seq(V) /\ Len(X) = Len(A) /\ \A n \in 1..Len(A) : X[n] = A[n][2]
      /\ Y \in Seq(V) /\ Len(Y) = Len(B) /\ \A n \in 1..Len(B) : Y[n] = B[n][2]
  BY <1>1
<1>4. Z \in Seq(V) /\ Len(Z) = Len(C) /\ \A n \in 1..Len(C) : Z[n] = C[n][2]
  BY <1>1, <1>2
<1> HIDE DEF C, X, Y, Z
<1>5. /\ X \o Y \in Seq(V) /\ Len(X \o Y) = Len(X) + Len(Y)
      /\ \A n \in 1..(Len(X) + Len(Y)) :
           (X \o Y)[n] = IF n <= Len(X) THEN X[n] ELSE Y[n - Len(X)]
  <2>1. X \in Seq(V) /\ Y \in Seq(V)
    BY <1>3
  <2> QED BY <2>1, ConcatProperties
<1>6. Len(A) \in Nat /\ Len(B) \in Nat
  OBVIOUS
<1>7. \A n \in 1..Len(Z) : Z[n] = (X \o Y)[n]
  <2> SUFFICES ASSUME NEW n \in 1..Len(Z) PROVE Z[n] = (X \o Y)[n]
    OBVIOUS
  <2>1. n \in 1..(Len(A) + Len(B)) /\ Z[n] = C[n][2]
    BY <1>2, <1>4 DEF C
  <2>2. CASE n <= Len(A)
    BY <1>2, <1>3, <1>5, <1>6, <2>1, <2>2 DEF C
  <2>3. CASE ~ n <= Len(A)
    <3>1. n - Len(A) \in 1..Len(B)
      BY <1>6, <2>1, <2>3
    <3> QED BY <1>2, <1>3, <1>5, <1>6, <2>1, <2>3, <3>1 DEF C
  <2> QED BY <2>2, <2>3
<1>8. Z = X \o Y
  <2>1. Len(Z) = Len(X \o Y)
    BY <1>2, <1>3, <1>4, <1>5 DEF C
  <2> QED BY <1>4, <1>5, <1>7, <2>1, SeqEqual
<1> QED BY <1>3, <1>8 DEF X, Y, Z, C

(* One print of _format_stream: perhaps a prefix, a part, perhaps the end  *)
(* of the line.                                                            *)
Piece(s, first, part, end) ==
  (IF first THEN << <<s, "prefix">> >> ELSE <<>>)
    \o [n \in DOMAIN part |-> <<s, part[n]>>]
    \o (IF end THEN << <<s, "\n">> >> ELSE <<>>)

(* What stands where in it.                                                *)
PieceLike(P, s, first, part, end) ==
  LET a == IF first THEN 1 ELSE 0
      e == IF end THEN 1 ELSE 0
  IN /\ P \in Seq({s} \X (Bytes \cup {"prefix"})) /\ P \in Seq(Entries)
     /\ Len(P) = a + Len(part) + e
     /\ first => P[1] = <<s, "prefix">>
     /\ \A n \in 1..Len(part) : P[a + n] = <<s, part[n]>>
     /\ end => P[Len(P)] = <<s, "\n">>

LEMMA PieceParts ==
  ASSUME NEW s \in Streams, NEW part \in Seq(Bytes \ {"\n"}),
         NEW first \in BOOLEAN, NEW end \in BOOLEAN
  PROVE  PieceLike(Piece(s, first, part, end), s, first, part, end)
<1> DEFINE V == Bytes \cup {"prefix"}
           A == IF first THEN << <<s, "prefix">> >> ELSE <<>>
           B == [n \in DOMAIN part |-> <<s, part[n]>>]
           C == IF end THEN << <<s, "\n">> >> ELSE <<>>
           a == IF first THEN 1 ELSE 0
           e == IF end THEN 1 ELSE 0
           P == Piece(s, first, part, end)
<1>1. A \in Seq({s} \X V) /\ Len(A) = a /\ (first => A[1] = <<s, "prefix">>)
  <2>1. CASE first
    BY <2>1
  <2>2. CASE ~ first
    <3>1. A = <<>> /\ a = 0
      BY <2>2
    <3> QED BY <2>2, <3>1, EmptySeq
  <2> QED BY <2>1, <2>2
<1>2. C \in Seq({s} \X V) /\ Len(C) = e /\ (end => C[1] = <<s, "\n">>)
  <2>1. CASE end
    BY <2>1 DEF Bytes
  <2>2. CASE ~ end
    <3>1. C = <<>> /\ e = 0
      BY <2>2
    <3> QED BY <2>2, <3>1, EmptySeq
  <2> QED BY <2>1, <2>2
<1>3. /\ B \in Seq({s} \X V) /\ Len(B) = Len(part)
      /\ \A n \in 1..Len(part) : B[n] = <<s, part[n]>>
  <2>1. DOMAIN part = 1..Len(part) /\ Len(part) \in Nat
        /\ \A n \in 1..Len(part) : part[n] \in Bytes
    OBVIOUS
  <2>2. B \in [1..Len(part) -> {s} \X V]
    BY <2>1
  <2>3. B \in Seq({s} \X V) /\ Len(B) = Len(part)
    BY <2>1, <2>2
  <2> QED BY <2>1, <2>3
<1>4. P = A \o B \o C
  BY DEF Piece
<1>5. a \in {0, 1} /\ e \in {0, 1} /\ (first <=> a = 1) /\ (end <=> e = 1)
      /\ Len(part) \in Nat
  OBVIOUS
<1> HIDE DEF A, B, C, P, a, e, V
<1>6. /\ A \o B \in Seq({s} \X V) /\ Len(A \o B) = a + Len(part)
      /\ \A n \in 1..(a + Len(part)) :
           (A \o B)[n] = IF n <= a THEN A[n] ELSE B[n - a]
  <2>1. A \in Seq({s} \X V) /\ B \in Seq({s} \X V)
    BY <1>1, <1>3
  <2>2. Len(A) = a /\ Len(B) = Len(part)
    BY <1>1, <1>3
  <2>3. /\ A \o B \in Seq({s} \X V) /\ Len(A \o B) = Len(A) + Len(B)
        /\ \A n \in 1..(Len(A) + Len(B)) :
             (A \o B)[n] = IF n <= Len(A) THEN A[n] ELSE B[n - Len(A)]
    BY <2>1, ConcatProperties
  <2> QED BY <2>2, <2>3
<1> DEFINE D == A \o B
<1> HIDE DEF D
<1>7. /\ D \o C \in Seq({s} \X V) /\ Len(D \o C) = a + Len(part) + e
      /\ \A n \in 1..(a + Len(part) + e) :
           (D \o C)[n] = IF n <= a + Len(part) THEN D[n] ELSE C[n - (a + Len(part))]
  <2>1. D \in Seq({s} \X V) /\ Len(D) = a + Len(part)
    BY <1>6 DEF D
  <2> QED BY <1>2, <1>5, <2>1, ConcatProperties
<1>8. P = D \o C
  BY <1>4 DEF D
<1>9. first => P[1] = <<s, "prefix">>
  <2> SUFFICES ASSUME first PROVE P[1] = <<s, "prefix">>
    OBVIOUS
  <2>1. a = 1 /\ 1 \in 1..(a + Len(part)) /\ 1 \in 1..(a + Len(part) + e) /\ 1 <= a
    BY <1>5
  <2> QED BY <1>1, <1>6, <1>7, <1>8, <2>1 DEF D
<1>10. \A n \in 1..Len(part) : P[a + n] = <<s, part[n]>>
  <2> SUFFICES ASSUME NEW n \in 1..Len(part) PROVE P[a + n] = <<s, part[n]>>
    OBVIOUS
  <2>1. a + n \in 1..(a + Len(part)) /\ a + n \in 1..(a + Len(part) + e) /\ ~ a + n <= a
        /\ a + n <= a + Len(part) /\ (a + n) - a = n
    BY <1>5
  <2> QED BY <1>3, <1>6, <1>7, <1>8, <2>1 DEF D
<1>11. end => P[Len(P)] = <<s, "\n">>
  <2> SUFFICES ASSUME end PROVE P[Len(P)] = <<s, "\n">>
    OBVIOUS
  <2>1. Len(P) = a + Len(part) + 1 /\ Len(P) - (a + Len(part)) = 1 /\ e = 1
        /\ ~ Len(P) <= a + Len(part) /\ Len(P) \in 1..(a + Len(part) + e)
    BY <1>5, <1>7, <1>8
  <2> QED BY <1>2, <1>7, <1>8, <2>1
<1>12. P \in Seq(Entries)
  <2>1. {s} \X V \subseteq Entries
    BY DEF Entries, V
  <2> QED BY <1>7, <1>8, <2>1, SeqMonotonic
<1> QED BY <1>7, <1>8, <1>9, <1>10, <1>11, <1>12 DEF P, a, e, V, PieceLike

LEMMA TextConcat ==
  ASSUME NEW s, NEW A \in Seq({s} \X Bytes), NEW B \in Seq({s} \X Bytes)
  PROVE  /\ Seconds(A) \in Seq(Bytes) /\ Len(Seconds(A)) = Len(A)
         /\ Seconds(A \o B) = Seconds(A) \o Seconds(B)
<1> DEFINE U == {s} \X Bytes
<1>1. A \in Seq(U) /\ B \in Seq(U) /\ \A u \in U : u[2] \in Bytes
  OBVIOUS
<1> HIDE DEF U
<1> QED BY <1>1, SecondsConcat

LEMMA Prints ==
  ASSUME sink \in Seq(Entries), NEW s \in Streams, NEW part \in Seq(Bytes \ {"\n"}),
         NEW first \in BOOLEAN, NEW end \in BOOLEAN,
         sink' = sink \o Piece(s, first, part, end)
  PROVE  /\ sink' \in Seq(Entries)
         /\ Shown(s)' = Shown(s) \o Piece(s, first, part, end)
         /\ Text(s)' = Text(s) \o part \o (IF end THEN <<"\n">> ELSE <<>>)
         /\ \A q \in Streams \ {s} : Shown(q)' = Shown(q) /\ Text(q)' = Text(q)
<1> DEFINE P == Piece(s, first, part, end)
           V == Bytes \cup {"prefix"}
<1>1. P \in Seq({s} \X V) /\ P \in Seq(Entries)
  BY PieceParts DEF PieceLike
<1>2. sink' = sink \o P /\ sink' \in Seq(Entries)
  <2>1. sink' = sink \o P
    OBVIOUS
  <2> HIDE DEF P
  <2> QED BY <1>1, <2>1
<1>3. \A n \in DOMAIN P : P[n] \in {s} \X V
  <2> HIDE DEF P
  <2> QED BY <1>1
<1>4. Shown(s)' = Shown(s) \o P
  <2>1. Kept(sink \o P, {s} \X V) = Kept(sink, {s} \X V) \o P
    <3> DEFINE U == {s} \X V
    <3>1. P \in Seq(Entries) /\ \A n \in DOMAIN P : P[n] \in U
      BY <1>1, <1>3
    <3> HIDE DEF P, U
    <3>2. Kept(sink \o P, U) = Kept(sink, U) \o P
      BY <3>1, KeptConcat
    <3> QED BY <3>2 DEF U
  <2> QED BY <1>2, <2>1 DEF Shown
<1>5. ASSUME NEW q \in Streams \ {s} PROVE Shown(q)' = Shown(q) /\ Text(q)' = Text(q)
  <2>1. \A n \in DOMAIN P : P[n] \notin {q} \X V /\ P[n] \notin {q} \X Bytes
    <3> HIDE DEF P
    <3> QED BY <1>3
  <2>2. Kept(sink \o P, {q} \X V) = Kept(sink, {q} \X V)
    <3> HIDE DEF P, V
    <3> QED BY <1>1, <2>1, KeptConcat
  <2>3. Kept(sink \o P, {q} \X Bytes) = Kept(sink, {q} \X Bytes)
    <3> HIDE DEF P, V
    <3> QED BY <1>1, <2>1, KeptConcat
  <2> HIDE DEF P
  <2>4. Kept(sink', {q} \X Bytes) = Kept(sink, {q} \X Bytes)
    BY <1>2, <2>3
  <2> QED BY <1>2, <2>2, <2>4 DEF Shown, Text
<1> DEFINE A == IF first THEN << <<s, "prefix">> >> ELSE <<>>
           B == [n \in DOMAIN part |-> <<s, part[n]>>]
           C == IF end THEN << <<s, "\n">> >> ELSE <<>>
           T == {s} \X Bytes
           K == Kept(sink, T)
           M == IF end THEN <<"\n">> ELSE <<>>
<1>6. Text(s)' = Text(s) \o part \o M
  <2>1. P = (A \o B) \o C
    BY DEF Piece
  <2>2. A \in Seq(Entries) /\ \A n \in DOMAIN A : A[n] \notin T
    <3>1. CASE first
      <4>1. A = << <<s, "prefix">> >> /\ <<s, "prefix">> \in Entries /\ <<s, "prefix">> \notin T
        BY <3>1 DEF Bytes, Entries
      <4> HIDE DEF A, T
      <4> QED BY <4>1
    <3>2. CASE ~ first
      <4>1. A = <<>>
        BY <3>2
      <4> HIDE DEF A
      <4> QED BY <4>1, EmptySeq
    <3> QED BY <3>1, <3>2
  <2>3. C \in Seq(T) /\ Seconds(C) = M
    <3>1. CASE end
      <4>1. C = << <<s, "\n">> >> /\ <<s, "\n">> \in T /\ M = <<"\n">>
        BY <3>1 DEF Bytes
      <4> HIDE DEF C, T, M
      <4>2. C \in Seq(T) /\ Len(C) = 1 /\ C[1] = <<s, "\n">> /\ DOMAIN C = {1}
        BY <4>1
      <4>3. Seconds(C) = [n \in 1..1 |-> "\n"]
        <5>1. 1..1 = {1}
          OBVIOUS
        <5> QED BY <4>2, <5>1 DEF Seconds
      <4>4. Seconds(C) = <<"\n">>
        BY <4>3
      <4> QED BY <4>1, <4>2, <4>4
    <3>2. CASE ~ end
      <4>1. C = <<>> /\ M = <<>>
        BY <3>2
      <4> HIDE DEF C, M
      <4>2. C \in Seq(T) /\ Len(C) = 0
        BY <4>1, EmptySeq
      <4>3. Seconds(C) \in Seq(Bytes) /\ Len(Seconds(C)) = 0
        <5>1. C \in Seq({s} \X Bytes)
          BY <4>1, EmptySeq
        <5> QED BY <4>2, <5>1, TextConcat
      <4> QED BY <4>1, <4>2, <4>3, EmptySeq
    <3> QED BY <3>1, <3>2
  <2>4. B \in Seq(T) /\ Seconds(B) = part /\ part \in Seq(Bytes)
    <3>1. DOMAIN part = 1..Len(part) /\ Len(part) \in Nat
          /\ part = [n \in 1..Len(part) |-> part[n]]
          /\ \A n \in 1..Len(part) : part[n] \in Bytes
      OBVIOUS
    <3>2. B \in [1..Len(part) -> T]
      BY <3>1
    <3>3. ASSUME NEW l \in Nat, NEW f \in [1..l -> T] PROVE f \in Seq(T) /\ Len(f) = l
      OBVIOUS
    <3>4. B \in Seq(T) /\ Len(B) = Len(part)
      BY <3>1, <3>2, <3>3
    <3>5. Seconds(B) = part
      BY <3>1 DEF Seconds
    <3>6. part \in Seq(Bytes)
      BY SeqMonotonic
    <3> QED BY <3>4, <3>5, <3>6
  <2>5. K \in Seq(T)
    <3>1. K \in Seq(T \cap Entries) /\ T \cap Entries \subseteq T
      BY KeptType
    <3> HIDE DEF K, T
    <3> QED BY <3>1, SeqMonotonic
  <2>6. T \subseteq Entries
    BY DEF Entries
  <2>7. Text(s)' = Seconds(Kept(sink', T)) /\ Text(s) = Seconds(K)
    BY TextSeconds DEF Text, Seconds
  <2> HIDE DEF A, B, C, K, M, P, T
  <2>8. B \in Seq(Entries) /\ C \in Seq(Entries)
    BY <2>3, <2>4, <2>6, SeqMonotonic
  <2>9. Kept(sink \o A, T) = K
    BY <2>2, KeptConcat DEF K
  <2>10. Kept((sink \o A) \o B, T) = K \o B
    <3>1. sink \o A \in Seq(Entries)
      BY <2>2
    <3>2. \A n \in DOMAIN B : B[n] \in T
      BY <2>4
    <3> DEFINE X == sink \o A
    <3> HIDE DEF X
    <3>3. X \in Seq(Entries) /\ Kept(X, T) = K
      BY <2>9, <3>1 DEF X
    <3>4. Kept(X \o B, T) = K \o B
      BY <2>8, <3>2, <3>3, KeptConcat
    <3> QED BY <3>4 DEF X
  <2>11. Kept(((sink \o A) \o B) \o C, T) = (K \o B) \o C
    <3>1. (sink \o A) \o B \in Seq(Entries)
      <4>1. sink \o A \in Seq(Entries)
        BY <2>2
      <4> DEFINE X == sink \o A
      <4> HIDE DEF X
      <4>2. X \o B \in Seq(Entries)
        BY <2>8, <4>1 DEF X
      <4> QED BY <4>2 DEF X
    <3>2. \A n \in DOMAIN C : C[n] \in T
      BY <2>3
    <3> DEFINE X == (sink \o A) \o B
    <3> HIDE DEF X
    <3>3. X \in Seq(Entries) /\ Kept(X, T) = K \o B
      BY <2>10, <3>1 DEF X
    <3>4. Kept(X \o C, T) = Kept(X, T) \o C
      <4>1. X \in Seq(Entries) /\ C \in Seq(Entries)
        BY <2>8, <3>3
      <4> QED BY <3>2, <4>1, KeptConcat
    <3>5. Kept(X \o C, T) = (K \o B) \o C
      BY <3>3, <3>4
    <3> QED BY <3>5 DEF X
  <2>12. ((sink \o A) \o B) \o C = sink \o P
    <3>1. (A \o B) \in Seq(Entries)
      BY <2>2, <2>8
    <3>2. (sink \o A) \o B = sink \o (A \o B)
      BY <2>2, <2>8, JoinEntries
    <3> DEFINE D == A \o B
    <3> HIDE DEF D
    <3>3. (sink \o D) \o C = sink \o (D \o C)
      <4>1. D \in Seq(Entries)
        BY <3>1 DEF D
      <4> QED BY <2>8, <4>1, JoinEntries
    <3> QED BY <2>1, <3>2, <3>3 DEF D
  <2>13. Kept(sink', T) = (K \o B) \o C
    BY <1>2, <2>11, <2>12
  <2>14. Seconds((K \o B) \o C) = (Seconds(K) \o Seconds(B)) \o Seconds(C)
    <3>1. K \in Seq({s} \X Bytes) /\ B \in Seq({s} \X Bytes) /\ C \in Seq({s} \X Bytes)
      BY <2>3, <2>4, <2>5 DEF T
    <3>2. Seconds(K \o B) = Seconds(K) \o Seconds(B) /\ K \o B \in Seq({s} \X Bytes)
      <4>1. K \o B \in Seq({s} \X Bytes)
        BY <3>1
      <4>2. Seconds(K \o B) = Seconds(K) \o Seconds(B)
        BY <3>1, TextConcat
      <4> QED BY <4>1, <4>2
    <3> DEFINE D == K \o B
    <3> HIDE DEF D
    <3>3. Seconds(D \o C) = Seconds(D) \o Seconds(C)
      <4>1. D \in Seq({s} \X Bytes)
        BY <3>2 DEF D
      <4> QED BY <3>1, <4>1, TextConcat
    <3> QED BY <3>2, <3>3 DEF D
  <2> QED BY <2>3, <2>4, <2>7, <2>13, <2>14
<1> QED BY <1>2, <1>4, <1>5, <1>6 DEF P

-----------------------------------------------------------------------------
(* Prefixes of what is printed.                                            *)

Prefixed(entries) ==
  \A n \in DOMAIN entries :
    (entries[n][2] = "prefix") <=> (n = 1 \/ entries[n - 1][2] = "\n")

(* The last line has no end yet.                                           *)
Open(entries) == entries # <<>> /\ Last(entries)[2] # "\n"

LEMMA PieceKeeps ==
  ASSUME NEW A \in Seq(Entries), Prefixed(A),
         NEW s \in Streams, NEW part \in Seq(Bytes \ {"\n"}),
         NEW first \in BOOLEAN, NEW end \in BOOLEAN, first <=> ~ Open(A)
  PROVE  /\ Prefixed(A \o Piece(s, first, part, end))
         /\ part # <<>> \/ end => (Open(A \o Piece(s, first, part, end)) <=> ~ end)
<1> DEFINE P == Piece(s, first, part, end)
           a == IF first THEN 1 ELSE 0
           e == IF end THEN 1 ELSE 0
           L == Len(A)
           l == Len(part)
           C == A \o P
<1>1. /\ P \in Seq(Entries) /\ Len(P) = a + l + e
      /\ first => P[1] = <<s, "prefix">>
      /\ \A n \in 1..l : P[a + n] = <<s, part[n]>>
      /\ end => P[Len(P)] = <<s, "\n">>
  <2>1. PieceLike(P, s, first, part, end)
    BY PieceParts
  <2> HIDE DEF P
  <2> QED BY <2>1 DEF PieceLike
<1>2. /\ a \in {0, 1} /\ e \in {0, 1} /\ (first <=> a = 1) /\ (end <=> e = 1)
      /\ L \in Nat /\ l \in Nat /\ (A = <<>> <=> L = 0) /\ (part = <<>> <=> l = 0)
      /\ \A n \in 1..l : part[n] # "\n" /\ part[n] # "prefix"
  <2>1. \A n \in 1..l : part[n] \in Bytes \ {"\n"}
    OBVIOUS
  <2> QED BY <2>1 DEF Bytes
<1> HIDE DEF P, a, e
<1>3. /\ C \in Seq(Entries) /\ Len(C) = L + (a + l + e)
      /\ \A n \in 1..(L + (a + l + e)) : C[n] = IF n <= L THEN A[n] ELSE P[n - L]
  BY <1>1, ConcatProperties
<1>4. DOMAIN C = 1..Len(C) /\ DOMAIN A = 1..L
  BY <1>3
<1>5. /\ \A n \in 1..L : C[n] = A[n]
      /\ first => C[L + 1][2] = "prefix"
      /\ \A n \in 1..l : C[L + a + n][2] = part[n]
      /\ end => C[L + a + l + 1][2] = "\n"
  <2>1. \A n \in 1..L : C[n] = A[n]
    BY <1>2, <1>3
  <2>2. first => C[L + 1][2] = "prefix"
    BY <1>1, <1>2, <1>3
  <2>3. ASSUME NEW n \in 1..l PROVE C[L + a + n][2] = part[n]
    <3>1. L + a + n \in 1..(L + (a + l + e)) /\ ~ L + a + n <= L /\ (L + a + n) - L = a + n
      BY <1>2
    <3> QED BY <1>1, <1>3, <3>1
  <2>4. end => C[L + a + l + 1][2] = "\n"
    <3> SUFFICES ASSUME end PROVE C[L + a + l + 1][2] = "\n"
      OBVIOUS
    <3>1. /\ L + a + l + 1 \in 1..(L + (a + l + e)) /\ ~ L + a + l + 1 <= L
          /\ (L + a + l + 1) - L = Len(P)
      BY <1>1, <1>2
    <3> QED BY <1>1, <1>3, <3>1
  <2> QED BY <2>1, <2>2, <2>3, <2>4
<1>6. Open(A) <=> L > 0 /\ A[L][2] # "\n"
  BY <1>2 DEF Open, Last
<1> HIDE DEF C, L, l
<1>7. ASSUME NEW n \in 1..Len(C)
      PROVE  (C[n][2] = "prefix") <=> (n = 1 \/ C[n - 1][2] = "\n")
  <2>1. CASE n <= L
    <3>1. n \in 1..L /\ (n # 1 => n - 1 \in 1..L)
      BY <1>2, <2>1
    <3> QED BY <1>4, <1>5, <3>1 DEF Prefixed
  <2>2. CASE first /\ n = L + 1
    <3>1. C[n][2] = "prefix" /\ (L = 0 \/ A[L][2] = "\n")
      BY <1>2, <1>5, <1>6, <2>2
    <3>2. L = 0 => n = 1
      BY <1>2, <2>2
    <3>3. L # 0 => n - 1 = L /\ L \in 1..L
      BY <1>2, <2>2
    <3> QED BY <1>5, <3>1, <3>2, <3>3
  <2>3. ASSUME n > L + a PROVE n # 1 /\ C[n - 1][2] # "\n"
    <3>1. CASE n - 1 > L + a
      <4>1. (n - 1) - (L + a) \in 1..l /\ L + a + ((n - 1) - (L + a)) = n - 1
        BY <1>2, <1>3, <2>3, <3>1
      <4>2. C[n - 1][2] = part[(n - 1) - (L + a)]
        BY <1>5, <4>1
      <4> QED BY <1>2, <3>1, <4>1, <4>2
    <3>2. CASE n - 1 = L + a /\ first
      <4>1. n - 1 = L + 1
        BY <1>2, <3>2
      <4> QED BY <1>2, <1>5, <3>2, <4>1
    <3>3. CASE n - 1 = L + a /\ ~ first
      <4>1. n - 1 = L /\ L > 0 /\ A[L][2] # "\n" /\ L \in 1..L
        BY <1>2, <1>6, <3>3
      <4> QED BY <1>2, <1>5, <4>1
    <3> QED BY <1>2, <1>3, <2>3, <3>1, <3>2, <3>3
  <2>4. CASE n > L + a /\ n <= L + a + l
    <3>1. n - (L + a) \in 1..l /\ L + a + (n - (L + a)) = n
      BY <1>2, <2>4
    <3>2. C[n][2] # "prefix"
      BY <1>2, <1>5, <3>1
    <3> QED BY <2>3, <2>4, <3>2
  <2>5. CASE end /\ n = L + a + l + 1
    <3>1. C[n][2] = "\n" /\ n > L + a
      BY <1>2, <1>5, <2>5
    <3> QED BY <2>3, <3>1
  <2> QED BY <1>2, <1>3, <2>1, <2>2, <2>4, <2>5
<1>8. Prefixed(C)
  BY <1>4, <1>7 DEF Prefixed
<1>9. part # <<>> \/ end => (Open(C) <=> ~ end)
  <2> SUFFICES ASSUME part # <<>> \/ end PROVE Open(C) <=> ~ end
    OBVIOUS
  <2>1. Len(C) > 0 /\ C # <<>>
    <3>1. Len(C) > 0
      BY <1>2, <1>3
    <3> QED BY <3>1, EmptySeq
  <2>2. CASE end
    <3>1. Len(C) = L + a + l + 1
      BY <1>2, <1>3, <2>2
    <3> QED BY <1>5, <2>1, <2>2, <3>1 DEF Open, Last
  <2>3. CASE ~ end
    <3>1. Len(C) = L + a + l /\ l \in 1..l
      BY <1>2, <1>3, <2>3
    <3>2. C[Len(C)][2] # "\n"
      BY <1>2, <1>5, <3>1
    <3> QED BY <2>1, <2>3, <3>2 DEF Open, Last
  <2> QED BY <2>2, <2>3
<1> QED BY <1>8, <1>9 DEF C, P

-----------------------------------------------------------------------------
(* What _readchunk takes from a buffer.                                    *)

LEMMA LineEndFacts ==
  ASSUME NEW b \in Seq(Bytes), Ends(b) # {}
  PROVE  /\ LineEnd(b) \in 1..Len(b) /\ b[LineEnd(b)] = "\n"
         /\ \A m \in 1..Len(b) : b[m] = "\n" => LineEnd(b) <= m
<1>1. Ends(b) \subseteq Nat /\ DOMAIN b = 1..Len(b)
  BY DEF Ends
<1>2. \E n \in Ends(b) : \A m \in Ends(b) : n <= m
  BY <1>1, Least
<1>3. LineEnd(b) \in Ends(b) /\ \A m \in Ends(b) : LineEnd(b) <= m
  BY <1>2 DEF LineEnd
<1> QED BY <1>1, <1>3 DEF Ends

(* What _readchunk takes: a part, and its end of line or none.             *)
Chunk(b, n, part, nl) ==
  /\ n \in 1..Len(b) /\ part \in Seq(Bytes \ {"\n"})
  /\ \A k \in 1..Len(part) : part[k] = b[k]
  /\ nl => Len(part) = n - 1 /\ b[n] = "\n"
  /\ ~ nl => Len(part) = n /\ part # <<>>

LEMMA Taken ==
  ASSUME NEW b \in Seq(Bytes), NEW n \in 1..Len(b), \A k \in 1..(n - 1) : b[k] # "\n"
  PROVE  LET chunk == SubSeq(b, 1, n)
             nl == Last(chunk) = "\n"
             part == IF nl THEN Front(chunk) ELSE chunk
         IN Chunk(b, n, part, nl) /\ (nl <=> b[n] = "\n")
<1> DEFINE chunk == SubSeq(b, 1, n)
           nl == Last(chunk) = "\n"
           part == IF nl THEN Front(chunk) ELSE chunk
<1>1. Len(b) \in Nat /\ n \in Nat \ {0} /\ \A k \in 1..Len(b) : b[k] \in Bytes
  OBVIOUS
<1>2. \A k \in 1..n : b[k] \in Bytes
  BY <1>1
<1>3. ASSUME NEW S, NEW m \in Nat, m <= n, \A k \in 1..m : b[k] \in S
      PROVE  /\ SubSeq(b, 1, m) \in Seq(S) /\ Len(SubSeq(b, 1, m)) = m
             /\ \A k \in 1..m : SubSeq(b, 1, m)[k] = b[k]
  <2>1. /\ SubSeq(b, 1, m) \in Seq(S)
        /\ Len(SubSeq(b, 1, m)) = IF 1 <= m THEN m - 1 + 1 ELSE 0
        /\ \A k \in 1..(m - 1 + 1) : SubSeq(b, 1, m)[k] = b[1 + k - 1]
    BY <1>3, SubSeqProperties
  <2> QED BY <2>1
<1>4. /\ chunk \in Seq(Bytes) /\ Len(chunk) = n
      /\ \A k \in 1..n : chunk[k] = b[k]
  BY <1>1, <1>2, <1>3
<1>5. nl <=> b[n] = "\n"
  BY <1>1, <1>4 DEF Last
<1>6. \A k \in 1..n : b[k] \in Bytes /\ (k # n => b[k] # "\n")
  BY <1>1, <1>2
<1>7. CASE nl
  <2>1. part = SubSeq(chunk, 1, n - 1)
    BY <1>4, <1>7 DEF Front
  <2>2. SubSeq(chunk, 1, n - 1) = SubSeq(b, 1, n - 1)
    <3>1. CASE n = 1
      BY <3>1, SubSeqEmpty
    <3>2. CASE n # 1
      <4>1. n - 1 \in 1..(n - 1 + 1) /\ 1 \in 1..(n - 1 + 1) /\ 1 \in 1..Len(b)
        BY <1>1, <3>2
      <4>2. SubSeq(SubSeq(b, 1, n), 1, n - 1) = SubSeq(b, 1 + 1 - 1, 1 + (n - 1) - 1)
        BY <4>1, SubSeqOfSubSeq
      <4> QED BY <4>2
    <3> QED BY <3>1, <3>2
  <2>3. /\ part \in Seq(Bytes \ {"\n"}) /\ Len(part) = n - 1
        /\ \A k \in 1..(n - 1) : part[k] = b[k]
    <3>1. \A k \in 1..(n - 1) : b[k] \in Bytes \ {"\n"}
      BY <1>6
    <3>2. n - 1 \in Nat /\ n - 1 <= n
      BY <1>1
    <3> HIDE DEF part, chunk
    <3> QED BY <1>3, <2>1, <2>2, <3>1, <3>2
  <2>4. b[n] = "\n"
    BY <1>5, <1>7
  <2> HIDE DEF part, chunk
  <2>5. Chunk(b, n, part, nl)
    BY <1>1, <1>5, <1>7, <2>3, <2>4 DEF Chunk
  <2> QED BY <1>5, <2>5 DEF part, chunk
<1>8. CASE ~ nl
  <2>1. part = chunk
    BY <1>8
  <2>2. chunk \in Seq(Bytes \ {"\n"})
    <3>1. \A k \in 1..n : b[k] \in Bytes \ {"\n"}
      BY <1>5, <1>6, <1>8
    <3> QED BY <1>1, <1>3, <3>1
  <2> HIDE DEF chunk
  <2>3. chunk # <<>>
    BY <1>1, <1>4, EmptySeq
  <2> HIDE DEF part
  <2>5. Chunk(b, n, part, nl)
    BY <1>1, <1>4, <1>5, <1>8, <2>1, <2>2, <2>3 DEF Chunk
  <2> QED BY <1>5, <2>5 DEF part, chunk
<1> QED BY <1>7, <1>8, <1>5

LEMMA ReadableFacts ==
  ASSUME NEW s \in Streams, buffer[s] \in Seq(Bytes), buffer[s] # <<>>,
         NEW n \in Readable(s)
  PROVE  LET b == buffer[s]
             chunk == SubSeq(b, 1, n)
             nl == Last(chunk) = "\n"
             part == IF nl THEN Front(chunk) ELSE chunk
         IN /\ Chunk(b, n, part, nl)
            /\ nl \/ Len(part) > Limit \/ (s \in eof /\ n = Len(b))
<1> DEFINE b == buffer[s]
           chunk == SubSeq(b, 1, n)
           nl == Last(chunk) = "\n"
           part == IF nl THEN Front(chunk) ELSE chunk
<1>1. /\ b \in Seq(Bytes) /\ Len(b) \in Nat \ {0} /\ DOMAIN b = 1..Len(b)
      /\ \A k \in 1..Len(b) : b[k] \in Bytes
  BY EmptySeq
<1>2. /\ n \in 1..Len(b)
      /\ \A k \in 1..(n - 1) : b[k] # "\n"
      /\ b[n] = "\n" \/ n > Limit \/ (s \in eof /\ n = Len(b))
  <2>1. CASE Ends(b) # {}
    <3>1. /\ LineEnd(b) \in 1..Len(b) /\ b[LineEnd(b)] = "\n"
          /\ \A m \in 1..Len(b) : b[m] = "\n" => LineEnd(b) <= m
      BY <1>1, <2>1, LineEndFacts
    <3>2. n = IF LineEnd(b) - 1 > Limit THEN LineEnd(b) - 1 ELSE LineEnd(b)
      BY <2>1 DEF Readable
    <3> HIDE DEF b
    <3> QED BY <1>1, <3>1, <3>2, LogStreamAssumption
  <2>2. CASE Ends(b) = {}
    <3>1. n = Len(b) /\ (Len(b) > Limit \/ s \in eof)
      BY <2>2 DEF Readable
    <3>2. \A k \in 1..Len(b) : b[k] # "\n"
      BY <1>1, <2>2 DEF Ends
    <3> HIDE DEF b
    <3> QED BY <1>1, <3>1, <3>2
  <2> QED BY <2>1, <2>2
<1>3. Chunk(b, n, part, nl) /\ (nl <=> b[n] = "\n")
  BY <1>1, <1>2, Taken
<1>4. ~ nl => Len(part) = n
  BY <1>2, <1>3 DEF Chunk
<1> HIDE DEF b, chunk, nl, part
<1>5. nl \/ Len(part) > Limit \/ (s \in eof /\ n = Len(b))
  BY <1>2, <1>3, <1>4
<1> QED BY <1>3, <1>5 DEF b, chunk, nl, part

-----------------------------------------------------------------------------
(* Types, and what one step of _format_stream does.                        *)

LogTypeOK ==
  /\ output \in [Streams -> Seq(Bytes)] /\ written \in [Streams -> Nat]
  /\ pipe \in [Streams -> Seq(Bytes)] /\ buffer \in [Streams -> Seq(Bytes)]
  /\ exited \subseteq Processes /\ eof \subseteq Streams
  /\ reader \in [Streams -> {"reading", "done", "dead", "cancelled"}]
  /\ ongoing \in [Streams -> BOOLEAN]
  /\ sink \in Seq(Entries)

(* What Format(s) does with a chunk of n bytes.                            *)
FormatBy(s, n, part, nl) ==
  LET atEof == s \in eof /\ n = Len(buffer[s]) IN
  /\ reader[s] = "reading" /\ Chunk(buffer[s], n, part, nl)
  /\ nl \/ Len(part) > Limit \/ atEof
  /\ buffer' = [buffer EXCEPT ![s] = SubSeq(@, n + 1, Len(@))]
  /\ UNCHANGED <<output, written, pipe, exited, eof>>
  /\ \/ /\ ~ Decodable(part)
        /\ reader' = [reader EXCEPT ![s] = "dead"] /\ UNCHANGED <<ongoing, sink>>
     \/ /\ sink' = sink \o Piece(s, ~ ongoing[s], part, nl \/ atEof)
        /\ ongoing' = [ongoing EXCEPT ![s] = ~ nl]
        /\ reader' = IF atEof THEN [reader EXCEPT ![s] = "done"] ELSE reader

(* The standard output after Format(s) has printed a part.                 *)
SinkAfter(s, part, nl, atEof) ==
  sink \o Printed(s, part, nl)
       \o IF atEof THEN LastEol(s, OngoingAfter(s, part, nl)) ELSE <<>>

LEMMA PieceIs ==
  ASSUME sink \in Seq(Entries), NEW s \in Streams, NEW part \in Seq(Bytes \ {"\n"}),
         NEW nl \in BOOLEAN, NEW atEof \in BOOLEAN, ongoing[s] \in BOOLEAN,
         part # <<>> \/ nl
  PROVE  SinkAfter(s, part, nl, atEof) = sink \o Piece(s, ~ ongoing[s], part, nl \/ atEof)
<1>1. OngoingAfter(s, part, nl) <=> ~ nl
  BY DEF OngoingAfter
<1>2. Printed(s, part, nl) = Piece(s, ~ ongoing[s], part, nl)
  BY DEF Printed, Piece
<1>3. Piece(s, ~ ongoing[s], part, nl) \in Seq(Entries)
  BY PieceParts DEF PieceLike
<1> DEFINE Q == Piece(s, ~ ongoing[s], part, nl)
<1>4. CASE nl \/ ~ atEof
  <2>1. (IF atEof THEN LastEol(s, OngoingAfter(s, part, nl)) ELSE <<>>) = <<>>
    BY <1>1, <1>4 DEF LastEol
  <2>2. (nl \/ atEof) <=> nl
    BY <1>4
  <2>3. Piece(s, ~ ongoing[s], part, nl \/ atEof) = Q
    BY <2>2 DEF Piece
  <2> HIDE DEF Q
  <2>4. Q \in Seq(Entries) /\ sink \o Q \in Seq(Entries)
    <3>1. Q \in Seq(Entries)
      BY <1>3 DEF Q
    <3> QED BY <3>1
  <2>5. (sink \o Q) \o <<>> = sink \o Q
    BY <2>4, ConcatEmptySeq
  <2> QED BY <1>2, <2>1, <2>3, <2>5 DEF Q, SinkAfter
<1>5. CASE ~ nl /\ atEof
  <2> DEFINE D == (IF ~ ongoing[s] THEN << <<s, "prefix">> >> ELSE <<>>)
                    \o [n \in DOMAIN part |-> <<s, part[n]>>]
             C == << <<s, "\n">> >>
  <2>1. (IF atEof THEN LastEol(s, OngoingAfter(s, part, nl)) ELSE <<>>) = C
    BY <1>1, <1>5 DEF LastEol
  <2>2. Piece(s, ~ ongoing[s], part, nl \/ atEof) = D \o C
    BY <1>5 DEF Piece
  <2>3. Q = D \o <<>>
    BY <1>5 DEF Piece
  <2>4. D \in Seq(Entries)
    <3>1. (IF ~ ongoing[s] THEN << <<s, "prefix">> >> ELSE <<>>) \in Seq(Entries)
      <4>1. CASE ongoing[s]
        <5>1. (IF ~ ongoing[s] THEN << <<s, "prefix">> >> ELSE <<>>) = <<>>
          BY <4>1
        <5> QED BY <5>1, EmptySeq
      <4>2. CASE ~ ongoing[s]
        <5>1. <<s, "prefix">> \in Entries
          BY DEF Entries
        <5> QED BY <4>2, <5>1
      <4> QED BY <4>1, <4>2
    <3>2. [n \in DOMAIN part |-> <<s, part[n]>>] \in Seq(Entries)
      <4>1. DOMAIN part = 1..Len(part) /\ Len(part) \in Nat
            /\ \A n \in 1..Len(part) : <<s, part[n]>> \in Entries
        BY DEF Entries
      <4>2. [n \in DOMAIN part |-> <<s, part[n]>>] \in [1..Len(part) -> Entries]
        BY <4>1
      <4>3. ASSUME NEW l \in Nat, NEW f \in [1..l -> Entries] PROVE f \in Seq(Entries)
        OBVIOUS
      <4> QED BY <4>1, <4>2, <4>3
    <3> QED BY <3>1, <3>2, ConcatProperties
  <2>5. C \in Seq(Entries)
    <3>1. <<s, "\n">> \in Entries
      BY DEF Entries, Bytes
    <3> QED BY <3>1
  <2> HIDE DEF C, D, Q
  <2>6. Q = D
    BY <2>3, <2>4, ConcatEmptySeq
  <2>7. (sink \o D) \o C = sink \o (D \o C)
    BY <2>4, <2>5, JoinBytes
  <2> QED BY <1>2, <2>1, <2>2, <2>6, <2>7 DEF Q, SinkAfter
<1> QED BY <1>4, <1>5

LEMMA FormatCases ==
  ASSUME LogTypeOK, NEW s \in Streams, Format(s)
  PROVE  \E n \in Nat : \E part \in Seq(Bytes \ {"\n"}) : \E nl \in BOOLEAN :
           FormatBy(s, n, part, nl)
<1>1. PICK n \in Readable(s) :
         LET chunk == SubSeq(buffer[s], 1, n)
             nl == Last(chunk) = "\n"
             part == IF nl THEN Front(chunk) ELSE chunk
             goesOn == OngoingAfter(s, part, nl)
             atEof == s \in eof /\ n = Len(buffer[s])
         IN /\ buffer' = [buffer EXCEPT ![s] = SubSeq(@, n + 1, Len(@))]
            /\ IF ~ Decodable(part)
               THEN reader' = [reader EXCEPT ![s] = "dead"] /\ UNCHANGED <<ongoing, sink>>
               ELSE /\ sink' = sink \o Printed(s, part, nl)
                                \o IF atEof THEN LastEol(s, goesOn) ELSE <<>>
                    /\ ongoing' = [ongoing EXCEPT ![s] = goesOn]
                    /\ reader' = IF atEof THEN [reader EXCEPT ![s] = "done"] ELSE reader
  BY DEF Format
<1> DEFINE chunk == SubSeq(buffer[s], 1, n)
           nl == Last(chunk) = "\n"
           part == IF nl THEN Front(chunk) ELSE chunk
           atEof == s \in eof /\ n = Len(buffer[s])
<1>2. reader[s] = "reading" /\ buffer[s] # <<>>
      /\ UNCHANGED <<output, written, pipe, exited, eof, returned>>
  BY DEF Format
<1>3. buffer[s] \in Seq(Bytes) /\ ongoing[s] \in BOOLEAN /\ sink \in Seq(Entries)
  BY DEF LogTypeOK
<1>4. Chunk(buffer[s], n, part, nl) /\ (nl \/ Len(part) > Limit \/ atEof)
  BY <1>2, <1>3, ReadableFacts
<1>5. n \in Nat /\ part \in Seq(Bytes \ {"\n"}) /\ (part # <<>> \/ nl) /\ nl \in BOOLEAN
      /\ atEof \in BOOLEAN
  BY <1>4 DEF Chunk
<1>6. OngoingAfter(s, part, nl) <=> ~ nl
  BY <1>5 DEF OngoingAfter
<1>7. SinkAfter(s, part, nl, atEof) = sink \o Piece(s, ~ ongoing[s], part, nl \/ atEof)
  <2> HIDE DEF part, nl, atEof
  <2> QED BY <1>3, <1>5, PieceIs
<1>8. FormatBy(s, n, part, nl)
  <2>1. CASE ~ Decodable(part)
    BY <1>1, <1>2, <1>4, <2>1 DEF FormatBy
  <2>2. CASE Decodable(part)
    <3>1. /\ sink' = sink \o Printed(s, part, nl)
                      \o (IF atEof THEN LastEol(s, OngoingAfter(s, part, nl)) ELSE <<>>)
          /\ ongoing' = [ongoing EXCEPT ![s] = OngoingAfter(s, part, nl)]
          /\ reader' = IF atEof THEN [reader EXCEPT ![s] = "done"] ELSE reader
          /\ buffer' = [buffer EXCEPT ![s] = SubSeq(@, n + 1, Len(@))]
      BY <1>1, <2>2
    <3>2. sink' = sink \o Piece(s, ~ ongoing[s], part, nl \/ atEof)
      BY <1>7, <3>1 DEF SinkAfter
    <3>3. OngoingAfter(s, part, nl) = ~ nl
      BY <1>6 DEF OngoingAfter
    <3>4. ongoing' = [ongoing EXCEPT ![s] = ~ nl]
      BY <3>1, <3>3
    <3> HIDE DEF part, nl
    <3> QED BY <1>2, <1>4, <3>1, <3>2, <3>4 DEF FormatBy
  <2> QED BY <2>1, <2>2
<1> HIDE DEF part, nl
<1> QED BY <1>5, <1>8

(* What ends a last line that is left ongoing.                             *)
LEMMA EndsBy ==
  ASSUME LogTypeOK, NEW s \in Streams, FormatEnds(s)
  PROVE  /\ reader[s] = "reading" /\ s \in eof /\ buffer[s] = <<>>
         /\ reader' = [reader EXCEPT ![s] = "done"]
         /\ UNCHANGED <<output, written, pipe, exited, buffer, eof, ongoing>>
         /\ \/ ~ ongoing[s] /\ UNCHANGED sink
            \/ ongoing[s] /\ sink' = sink \o Piece(s, FALSE, <<>>, TRUE)
<1>1. CASE ~ ongoing[s]
  <2>1. sink' = sink \o <<>> /\ sink \in Seq(Entries)
    BY <1>1 DEF FormatEnds, LastEol, LogTypeOK
  <2>2. sink' = sink
    BY <2>1, ConcatEmptySeq
  <2> QED BY <1>1, <2>2 DEF FormatEnds
<1>2. CASE ongoing[s]
  <2>1. sink' = sink \o << <<s, "\n">> >>
    BY <1>2 DEF FormatEnds, LastEol
  <2>2. Piece(s, FALSE, <<>>, TRUE) = << <<s, "\n">> >>
    <3>1. Piece(s, FALSE, <<>>, TRUE)
            = (<<>> \o [n \in DOMAIN <<>> |-> <<s, (<<>>)[n]>>]) \o << <<s, "\n">> >>
      BY DEF Piece
    <3>2. [n \in DOMAIN <<>> |-> <<s, (<<>>)[n]>>] = <<>>
      OBVIOUS
    <3>3. <<s, "\n">> \in Entries
      BY DEF Entries, Bytes
    <3>4. <<>> \in Seq(Entries) /\ << <<s, "\n">> >> \in Seq(Entries)
      BY <3>3, EmptySeq
    <3>5. <<>> \o <<>> = <<>> /\ <<>> \o << <<s, "\n">> >> = << <<s, "\n">> >>
      BY <3>4, ConcatEmptySeq
    <3> QED BY <3>1, <3>2, <3>5
  <2> QED BY <1>2, <2>1, <2>2 DEF FormatEnds
<1> QED BY <1>1, <1>2 DEF LogTypeOK

(* All other steps print nothing.                                          *)
LEMMA StepCases ==
  ASSUME LogTypeOK, [Next]_vars
  PROVE  \/ \E s \in Streams : Format(s) \/ FormatEnds(s)
         \/ UNCHANGED <<output, ongoing, sink>>
            /\ \A s \in Streams : reader'[s] = "reading" => reader[s] = "reading"
<1>1. CASE \E s \in Streams : Write(s) \/ Feed(s) \/ FeedEof(s)
  BY <1>1 DEF Write, Feed, FeedEof
<1>2. CASE \E p \in Processes : ProcessSteps(p)
  BY <1>2 DEF ProcessSteps, ProcessExits, RunReturns
<1>3. CASE ProgramEnds
  BY <1>3 DEF ProgramEnds
<1>4. CASE UNCHANGED vars
  BY <1>4 DEF vars
<1> QED BY <1>1, <1>2, <1>3, <1>4 DEF Next, StreamSteps

LEMMA RestIsSeq ==
  ASSUME NEW b \in Seq(Bytes), NEW n \in 0..Len(b)
  PROVE  /\ SubSeq(b, n + 1, Len(b)) \in Seq(Bytes)
         /\ n = Len(b) => SubSeq(b, n + 1, Len(b)) = <<>>
<1>1. \A i \in (n + 1)..Len(b) : b[i] \in Bytes
  OBVIOUS
<1>2. n + 1 \in Int /\ Len(b) \in Int
  OBVIOUS
<1>3. SubSeq(b, n + 1, Len(b)) \in Seq(Bytes)
  BY <1>1, <1>2, SubSeqProperties
<1>4. n = Len(b) => SubSeq(b, n + 1, Len(b)) = <<>>
  BY <1>2, SubSeqEmpty
<1> QED BY <1>3, <1>4

LEMMA LogTypeInit == Init => LogTypeOK
<1> SUFFICES ASSUME Init PROVE LogTypeOK
  OBVIOUS
<1>1. <<>> \in Seq(Bytes) /\ <<>> \in Seq(Entries)
  BY EmptySeq
<1>2. output \in [Streams -> Seq(Bytes)]
  BY LogStreamAssumption DEF Init
<1> QED BY <1>1, <1>2 DEF Init, LogTypeOK

LEMMA LogTypeStep ==
  ASSUME LogTypeOK, [Next]_vars PROVE LogTypeOK'
<1>1. ASSUME NEW s \in Streams, Write(s), written[s] <= Len(output[s]) PROVE LogTypeOK'
  <2>1. written[s] + 1 \in 1..Len(output[s]) /\ output[s] \in Seq(Bytes)
        /\ pipe[s] \in Seq(Bytes)
    <3>1. output[s] \in Seq(Bytes) /\ written[s] \in Nat /\ pipe[s] \in Seq(Bytes)
      BY DEF LogTypeOK
    <3> QED BY <1>1, <3>1 DEF Write
  <2>2. output[s][written[s] + 1] \in Bytes
    BY <2>1
  <2>3. Append(pipe[s], output[s][written[s] + 1]) \in Seq(Bytes)
    BY <2>1, <2>2
  <2>4. pipe' \in [Streams -> Seq(Bytes)] /\ written' \in [Streams -> Nat]
    BY <1>1, <2>3 DEF Write, LogTypeOK
  <2> QED BY <1>1, <2>4 DEF Write, LogTypeOK
<1>2. ASSUME NEW s \in Streams, Feed(s) PROVE LogTypeOK'
  <2>1. PICK n \in 1..Len(pipe[s]) :
           /\ buffer' = [buffer EXCEPT ![s] = @ \o SubSeq(pipe[s], 1, n)]
           /\ pipe' = [pipe EXCEPT ![s] = SubSeq(@, n + 1, Len(@))]
    BY <1>2 DEF Feed
  <2>2. pipe[s] \in Seq(Bytes) /\ buffer[s] \in Seq(Bytes) /\ Len(pipe[s]) \in Nat
    BY DEF LogTypeOK
  <2>3. n \in 0..Len(pipe[s])
    BY <2>2
  <2>4. SubSeq(pipe[s], n + 1, Len(pipe[s])) \in Seq(Bytes)
    BY <2>2, <2>3, RestIsSeq
  <2>5. SubSeq(pipe[s], 1, n) \in Seq(Bytes)
    BY <2>2, SubSeqProperties
  <2>6. buffer[s] \o SubSeq(pipe[s], 1, n) \in Seq(Bytes)
    BY <2>2, <2>5, ConcatProperties
  <2>7. pipe' \in [Streams -> Seq(Bytes)] /\ buffer' \in [Streams -> Seq(Bytes)]
    BY <2>1, <2>4, <2>6 DEF LogTypeOK
  <2> QED BY <1>2, <2>7 DEF Feed, LogTypeOK
<1>3. ASSUME NEW s \in Streams, FeedEof(s) PROVE LogTypeOK'
  BY <1>3 DEF FeedEof, LogTypeOK
<1>4. ASSUME NEW s \in Streams, Format(s) PROVE LogTypeOK'
  <2>1. PICK n \in Nat : \E part \in Seq(Bytes \ {"\n"}) : \E nl \in BOOLEAN :
           FormatBy(s, n, part, nl)
    BY <1>4, FormatCases
  <2>2. PICK part \in Seq(Bytes \ {"\n"}) : \E nl \in BOOLEAN : FormatBy(s, n, part, nl)
    BY <2>1
  <2>3. PICK nl \in BOOLEAN : FormatBy(s, n, part, nl)
    BY <2>2
  <2>4. buffer[s] \in Seq(Bytes) /\ n \in 0..Len(buffer[s])
    BY <2>3 DEF FormatBy, Chunk, LogTypeOK
  <2>5. SubSeq(buffer[s], n + 1, Len(buffer[s])) \in Seq(Bytes)
    BY <2>4, RestIsSeq
  <2>6. /\ buffer' \in [Streams -> Seq(Bytes)]
        /\ ongoing' \in [Streams -> BOOLEAN]
        /\ reader' \in [Streams -> {"reading", "done", "dead", "cancelled"}]
    BY <2>3, <2>5 DEF FormatBy, LogTypeOK
  <2>7. sink' \in Seq(Entries)
    <3>1. ongoing[s] \in BOOLEAN /\ sink \in Seq(Entries)
      BY DEF LogTypeOK
    <3> DEFINE end == nl \/ (s \in eof /\ n = Len(buffer[s]))
    <3>2. Piece(s, ~ ongoing[s], part, end) \in Seq(Entries)
      BY <3>1, PieceParts DEF PieceLike
    <3>3. sink \o Piece(s, ~ ongoing[s], part, end) \in Seq(Entries)
      BY <3>1, <3>2, ConcatProperties
    <3> HIDE DEF end
    <3>4. UNCHANGED sink \/ sink' = sink \o Piece(s, ~ ongoing[s], part, end)
      BY <2>3 DEF FormatBy, end
    <3> QED BY <3>1, <3>3, <3>4
  <2> QED BY <2>3, <2>6, <2>7 DEF FormatBy, LogTypeOK
<1>5. ASSUME NEW s \in Streams, FormatEnds(s) PROVE LogTypeOK'
  <2>1. sink' \in Seq(Entries)
    <3>1. <<>> \in Seq(Bytes \ {"\n"}) /\ sink \in Seq(Entries)
      BY EmptySeq DEF LogTypeOK
    <3>2. Piece(s, FALSE, <<>>, TRUE) \in Seq(Entries)
      BY <3>1, PieceParts DEF PieceLike
    <3>3. sink \o Piece(s, FALSE, <<>>, TRUE) \in Seq(Entries)
      BY <3>1, <3>2, ConcatProperties
    <3> QED BY <1>5, <3>1, <3>3, EndsBy
  <2>2. reader' \in [Streams -> {"reading", "done", "dead", "cancelled"}]
        /\ UNCHANGED <<output, written, pipe, exited, buffer, eof, ongoing>>
    BY <1>5, EndsBy DEF LogTypeOK
  <2> QED BY <2>1, <2>2 DEF LogTypeOK
<1>6. ASSUME NEW p \in Processes, ProcessSteps(p) PROVE LogTypeOK'
  BY <1>6 DEF ProcessSteps, ProcessExits, RunReturns, LogTypeOK
<1>7. CASE ProgramEnds
  BY <1>7 DEF ProgramEnds, LogTypeOK
<1>8. CASE UNCHANGED vars
  BY <1>8 DEF vars, LogTypeOK
<1>9. ASSUME NEW s \in Streams, Write(s) PROVE written[s] <= Len(output[s])
  <2>1. output[s] \in Seq(Bytes) /\ written[s] \in Nat
    BY DEF LogTypeOK
  <2> QED BY <1>9, <2>1 DEF Write
<1> QED BY <1>1, <1>2, <1>3, <1>4, <1>5, <1>6, <1>7, <1>8, <1>9 DEF Next, StreamSteps

(* The variables have their types: what is written, what pipes and         *)
(* StreamReaders hold and what was printed stay sequences of bytes, and    *)
(* every entry of the standard output names its stream.                    *)
THEOREM LogTypeTheorem == Spec => []LogTypeOK
<1>1. Init => LogTypeOK
  BY LogTypeInit
<1>2. LogTypeOK /\ [Next]_vars => LogTypeOK'
  BY LogTypeStep
<1> QED BY <1>1, <1>2, PTL DEF Spec

-----------------------------------------------------------------------------
(* PrefixPerLine.                                                          *)

(* Of what is printed of a stream, every line has its prefix; a reader     *)
(* knows whether it has left one without an end.                           *)
ShownInv ==
  \A s \in Streams :
    /\ Prefixed(Shown(s))
    /\ reader[s] = "reading" => (ongoing[s] <=> Open(Shown(s)))

LEMMA ShownType ==
  ASSUME LogTypeOK, NEW s
  PROVE  Shown(s) \in Seq(Entries)
<1> DEFINE T == {s} \X (Bytes \cup {"prefix"})
<1> HIDE DEF T
<1>1. Kept(sink, T) \in Seq(T \cap Entries) /\ T \cap Entries \subseteq Entries
  BY KeptType DEF LogTypeOK
<1>2. Kept(sink, T) \in Seq(Entries)
  BY <1>1, SeqMonotonic
<1> QED BY <1>2 DEF Shown, T

LEMMA ShownStep ==
  ASSUME LogTypeOK, ShownInv, [Next]_vars PROVE ShownInv'
<1>1. ASSUME NEW s \in Streams, NEW part \in Seq(Bytes \ {"\n"}),
             NEW first \in BOOLEAN, NEW end \in BOOLEAN, first <=> ~ Open(Shown(s)),
             sink' = sink \o Piece(s, first, part, end), part # <<>> \/ end,
             reader'[s] = "reading" => (ongoing'[s] <=> ~ end),
             \A q \in Streams \ {s} : reader'[q] = reader[q] /\ ongoing'[q] = ongoing[q]
      PROVE  ShownInv'
  <2>1. /\ Shown(s)' = Shown(s) \o Piece(s, first, part, end)
        /\ \A q \in Streams \ {s} : Shown(q)' = Shown(q)
    BY <1>1, Prints DEF LogTypeOK
  <2>2. Shown(s) \in Seq(Entries) /\ Prefixed(Shown(s))
    BY ShownType DEF ShownInv
  <2>3. /\ Prefixed(Shown(s) \o Piece(s, first, part, end))
        /\ Open(Shown(s) \o Piece(s, first, part, end)) <=> ~ end
    BY <1>1, <2>2, PieceKeeps
  <2>4. Prefixed(Shown(s)') /\ (reader'[s] = "reading" => (ongoing'[s] <=> Open(Shown(s)')))
    BY <1>1, <2>1, <2>3
  <2>5. \A q \in Streams \ {s} :
           Prefixed(Shown(q)')
           /\ (reader'[q] = "reading" => (ongoing'[q] <=> Open(Shown(q)')))
    BY <1>1, <2>1 DEF ShownInv
  <2> QED BY <2>4, <2>5 DEF ShownInv, Prefixed, Open
<1>2. ASSUME UNCHANGED sink, \A q \in Streams : reader'[q] = "reading" =>
                               reader[q] = "reading" /\ ongoing'[q] = ongoing[q]
      PROVE  ShownInv'
  <2>1. \A q \in Streams : Shown(q)' = Shown(q)
    BY <1>2 DEF Shown
  <2> QED BY <1>2, <2>1 DEF ShownInv, Prefixed, Open
<1>3. ASSUME NEW s \in Streams, Format(s) PROVE ShownInv'
  <2>1. PICK n \in Nat : \E part \in Seq(Bytes \ {"\n"}) : \E nl \in BOOLEAN :
           FormatBy(s, n, part, nl)
    BY <1>3, FormatCases
  <2>2. PICK part \in Seq(Bytes \ {"\n"}) : \E nl \in BOOLEAN : FormatBy(s, n, part, nl)
    BY <2>1
  <2>3. PICK nl \in BOOLEAN : FormatBy(s, n, part, nl)
    BY <2>2
  <2> DEFINE atEof == s \in eof /\ n = Len(buffer[s])
             end == nl \/ atEof
  <2>4. reader[s] = "reading" /\ (part # <<>> \/ end) /\ ongoing[s] \in BOOLEAN
    BY <2>3 DEF FormatBy, Chunk, LogTypeOK
  <2>5. (~ ongoing[s]) <=> ~ Open(Shown(s))
    BY <2>4 DEF ShownInv
  <2>6. CASE /\ reader' = [reader EXCEPT ![s] = "dead"] /\ UNCHANGED <<ongoing, sink>>
    <3>1. \A q \in Streams : reader'[q] = "reading" => reader[q] = "reading"
      BY <2>6 DEF LogTypeOK
    <3> QED BY <1>2, <2>6, <3>1
  <2>7. CASE /\ sink' = sink \o Piece(s, ~ ongoing[s], part, nl \/ atEof)
             /\ ongoing' = [ongoing EXCEPT ![s] = ~ nl]
             /\ reader' = IF atEof THEN [reader EXCEPT ![s] = "done"] ELSE reader
    <3>1. reader'[s] = "reading" => (ongoing'[s] <=> ~ end)
      BY <2>7 DEF LogTypeOK
    <3>2. \A q \in Streams \ {s} : reader'[q] = reader[q] /\ ongoing'[q] = ongoing[q]
      BY <2>7 DEF LogTypeOK
    <3>3. sink' = sink \o Piece(s, ~ ongoing[s], part, end) /\ end \in BOOLEAN
          /\ (~ ongoing[s]) \in BOOLEAN
      BY <2>7
    <3> HIDE DEF end
    <3> QED BY <1>1, <2>4, <2>5, <3>1, <3>2, <3>3
  <2> QED BY <2>3, <2>6, <2>7 DEF FormatBy
<1>4. ASSUME NEW s \in Streams, FormatEnds(s) PROVE ShownInv'
  <2>1. /\ reader[s] = "reading" /\ reader' = [reader EXCEPT ![s] = "done"]
        /\ UNCHANGED ongoing
    BY <1>4, EndsBy
  <2>2. \A q \in Streams : /\ reader'[q] = "reading" => reader[q] = "reading"
                           /\ q # s => reader'[q] = reader[q]
                           /\ ongoing'[q] = ongoing[q]
    BY <2>1 DEF LogTypeOK
  <2>3. CASE UNCHANGED sink
    BY <1>2, <2>2, <2>3
  <2>4. CASE ongoing[s] /\ sink' = sink \o Piece(s, FALSE, <<>>, TRUE)
    <3>1. Open(Shown(s)) /\ <<>> \in Seq(Bytes \ {"\n"}) /\ reader'[s] # "reading"
      BY <2>1, <2>4, EmptySeq DEF ShownInv, LogTypeOK
    <3> QED BY <1>1, <2>2, <2>4, <3>1
  <2> QED BY <1>4, <2>3, <2>4, EndsBy
<1> QED BY <1>2, <1>3, <1>4, StepCases

(* Every line of a container has its prefix exactly once, at its start:    *)
(* _format_stream prints it unless line_ongoing, and line_ongoing is true  *)
(* just when the last line it printed has no end yet, also when the limit  *)
(* of the StreamReader cut that line in pieces.                            *)
THEOREM PrefixPerLineTheorem == Spec => []PrefixPerLine
<1>1. Init => ShownInv
  <2> SUFFICES ASSUME Init, NEW s \in Streams
               PROVE  /\ Prefixed(Shown(s))
                      /\ reader[s] = "reading" => (ongoing[s] <=> Open(Shown(s)))
    BY DEF ShownInv
  <2>1. Shown(s) = <<>> /\ ~ ongoing[s]
    BY KeptNone DEF Init, Shown
  <2> QED BY <2>1 DEF Prefixed, Open
<1>2. LogTypeOK /\ ShownInv /\ [Next]_vars => ShownInv'
  BY ShownStep
<1>3. ShownInv => PrefixPerLine
  BY DEF ShownInv, Prefixed, PrefixPerLine
<1> QED BY <1>1, <1>2, <1>3, LogTypeTheorem, PTL DEF Spec

-----------------------------------------------------------------------------
(* What is printed, buffered and piped is what was written.                *)

LEMMA TextType ==
  ASSUME LogTypeOK, NEW s
  PROVE  Text(s) \in Seq(Bytes)
<1> DEFINE T == {s} \X Bytes
           K == Kept(sink, T)
<1>1. K \in Seq(T)
  <2>1. K \in Seq(T \cap Entries) /\ T \cap Entries \subseteq T
    BY KeptType DEF LogTypeOK
  <2> HIDE DEF K, T
  <2> QED BY <2>1, SeqMonotonic
<1>2. Seconds(K) \in Seq(Bytes)
  BY <1>1, TextConcat
<1> QED BY <1>2, TextSeconds

(* How far processes and pipes have come.                                  *)
PipesInv ==
  \A s \in Streams :
    /\ written[s] <= Len(output[s])
    /\ Owner[s] \in exited => written[s] = Len(output[s])
    /\ s \in eof => Owner[s] \in exited /\ pipe[s] = <<>>

LEMMA PipesStep ==
  ASSUME LogTypeOK, PipesInv, [Next]_vars PROVE PipesInv'
<1>1. ASSUME NEW s \in Streams, Write(s) PROVE PipesInv'
  <2>1. written[s] < Len(output[s]) /\ output[s] \in Seq(Bytes) /\ written[s] \in Nat
    BY <1>1 DEF Write, LogTypeOK
  <2>2. Len(output[s]) \in Nat /\ Owner[s] \notin exited /\ s \notin eof
    BY <2>1 DEF PipesInv
  <2>3. /\ written'[s] = written[s] + 1 /\ \A q \in Streams \ {s} : written'[q] = written[q]
        /\ \A q \in Streams \ {s} : pipe'[q] = pipe[q]
        /\ UNCHANGED <<output, exited, eof>>
    BY <1>1 DEF Write, LogTypeOK
  <2> QED BY <2>1, <2>2, <2>3 DEF PipesInv
<1>2. ASSUME NEW s \in Streams, Feed(s) PROVE PipesInv'
  <2>1. pipe[s] # <<>>
    <3>1. PICK n \in 1..Len(pipe[s]) : TRUE
      BY <1>2 DEF Feed
    <3>2. SUFFICES ASSUME pipe[s] = <<>> PROVE FALSE
      OBVIOUS
    <3>3. Len(pipe[s]) = 0
      BY <3>2, EmptySeq
    <3> QED BY <3>1, <3>3
  <2>2. \A q \in Streams \ {s} : pipe'[q] = pipe[q]
    BY <1>2 DEF Feed, LogTypeOK
  <2> QED BY <1>2, <2>1, <2>2 DEF Feed, PipesInv
<1>3. ASSUME NEW s \in Streams, FeedEof(s) PROVE PipesInv'
  BY <1>3 DEF FeedEof, PipesInv
<1>4. ASSUME NEW s \in Streams, Format(s) PROVE PipesInv'
  BY <1>4 DEF Format, PipesInv
<1>5. ASSUME NEW s \in Streams, FormatEnds(s) PROVE PipesInv'
  BY <1>5 DEF FormatEnds, PipesInv
<1>6. ASSUME NEW p \in Processes, ProcessSteps(p) PROVE PipesInv'
  BY <1>6 DEF ProcessSteps, ProcessExits, RunReturns, PipesInv
<1>7. CASE ProgramEnds
  BY <1>7 DEF ProgramEnds, PipesInv
<1>8. CASE UNCHANGED vars
  BY <1>8 DEF vars, PipesInv
<1> QED BY <1>1, <1>2, <1>3, <1>4, <1>5, <1>6, <1>7, <1>8 DEF Next, StreamSteps

(* The end of a line that a part has or has not.                           *)
Eol(nl) == IF nl THEN <<"\n">> ELSE <<>>

LEMMA EolType ==
  ASSUME NEW nl \in BOOLEAN
  PROVE  /\ Eol(nl) \in Seq(Bytes) /\ Len(Eol(nl)) = (IF nl THEN 1 ELSE 0)
         /\ nl => Eol(nl)[1] = "\n"
<1>1. CASE nl
  BY <1>1 DEF Eol, Bytes
<1>2. CASE ~ nl
  <2>1. Eol(nl) = <<>>
    BY <1>2 DEF Eol
  <2> QED BY <1>2, <2>1, EmptySeq
<1> QED BY <1>1, <1>2

LEMMA ChunkSplit ==
  ASSUME NEW b \in Seq(Bytes), NEW n \in Nat, NEW part \in Seq(Bytes \ {"\n"}),
         NEW nl \in BOOLEAN, Chunk(b, n, part, nl)
  PROVE  b = (part \o Eol(nl)) \o SubSeq(b, n + 1, Len(b))
<1>1. /\ part \in Seq(Bytes) /\ Eol(nl) \in Seq(Bytes)
      /\ Len(Eol(nl)) = (IF nl THEN 1 ELSE 0) /\ (nl => Eol(nl)[1] = "\n")
  BY EolType, SeqMonotonic
<1> DEFINE head == part \o Eol(nl)
<1>2. /\ head \in Seq(Bytes) /\ Len(head) = Len(part) + Len(Eol(nl))
      /\ \A i \in 1..(Len(part) + Len(Eol(nl))) :
           head[i] = IF i <= Len(part) THEN part[i] ELSE Eol(nl)[i - Len(part)]
  BY <1>1, ConcatProperties
<1> HIDE DEF head
<1>3. n \in 1..Len(b) /\ Len(b) \in Nat /\ Len(part) \in Nat
      /\ (\A i \in 1..Len(part) : part[i] = b[i])
      /\ (nl => Len(part) = n - 1 /\ b[n] = "\n") /\ (~ nl => Len(part) = n)
  BY DEF Chunk
<1>4. Len(head) = n /\ \A i \in 1..n : head[i] = b[i]
  <2>1. CASE nl
    <3>1. Len(head) = n
      BY <1>1, <1>2, <1>3, <2>1
    <3>2. ASSUME NEW i \in 1..n PROVE head[i] = b[i]
      <4>1. CASE i = n
        <5>1. Len(Eol(nl)) = 1 /\ Eol(nl)[1] = "\n" /\ Len(part) = n - 1 /\ b[n] = "\n"
          BY <1>1, <1>3, <2>1
        <5>2. n \in 1..(Len(part) + Len(Eol(nl))) /\ ~ n <= Len(part) /\ n - Len(part) = 1
          BY <1>3, <5>1
        <5> QED BY <1>2, <4>1, <5>1, <5>2
      <4>2. CASE i # n
        <5>1. i \in 1..Len(part) /\ i \in 1..(Len(part) + Len(Eol(nl)))
          BY <1>1, <1>3, <2>1, <4>2
        <5> QED BY <1>2, <1>3, <5>1
      <4> QED BY <4>1, <4>2
    <3> QED BY <3>1, <3>2
  <2>2. CASE ~ nl
    BY <1>1, <1>2, <1>3, <2>2
  <2> QED BY <2>1, <2>2
<1>5. /\ SubSeq(b, 1, n) \in Seq(Bytes) /\ Len(SubSeq(b, 1, n)) = n
      /\ \A i \in 1..n : SubSeq(b, 1, n)[i] = b[i]
  <2>1. \A i \in 1..n : b[i] \in Bytes
    BY <1>3
  <2>2. 1 \in Int /\ n \in Int /\ 1 <= n /\ n - 1 + 1 = n
    BY <1>3
  <2>3. /\ SubSeq(b, 1, n) \in Seq(Bytes)
        /\ Len(SubSeq(b, 1, n)) = IF 1 <= n THEN n - 1 + 1 ELSE 0
        /\ \A i \in 1..(n - 1 + 1) : SubSeq(b, 1, n)[i] = b[1 + i - 1]
    BY <2>1, <2>2, SubSeqProperties
  <2> QED BY <2>2, <2>3
<1>6. head = SubSeq(b, 1, n)
  <2>1. Len(head) = Len(SubSeq(b, 1, n))
        /\ \A i \in 1..Len(head) : head[i] = SubSeq(b, 1, n)[i]
    BY <1>4, <1>5
  <2> QED BY <1>2, <1>5, <2>1, SeqEqual
<1>7. SubSeq(b, 1, n) \o SubSeq(b, n + 1, Len(b)) = SubSeq(b, 1, Len(b))
  <2>1. 1 \in 1..(Len(b) + 1) /\ n \in (1 - 1)..Len(b) /\ Len(b) \in n..Len(b)
    BY <1>3
  <2> QED BY <2>1, ConcatAdjacentSubSeq
<1>8. SubSeq(b, 1, Len(b)) = b
  BY SubSeqFull
<1> QED BY <1>6, <1>7, <1>8 DEF head

(* Text that a part is added to.                                           *)
LEMMA UnfinishedAfter ==
  ASSUME NEW text \in Seq(Bytes), NEW part \in Seq(Bytes \ {"\n"}), NEW nl \in BOOLEAN,
         part # <<>> \/ nl
  PROVE  /\ (text \o part) \o Eol(nl) \in Seq(Bytes)
         /\ Unfinished((text \o part) \o Eol(nl)) <=> ~ nl
<1>1. /\ part \in Seq(Bytes) /\ Eol(nl) \in Seq(Bytes)
      /\ Len(Eol(nl)) = (IF nl THEN 1 ELSE 0) /\ (nl => Eol(nl)[1] = "\n")
  BY EolType, SeqMonotonic
<1> DEFINE A == text \o part
           B == A \o Eol(nl)
<1>2. /\ A \in Seq(Bytes) /\ Len(A) = Len(text) + Len(part)
      /\ \A i \in 1..(Len(text) + Len(part)) :
           A[i] = IF i <= Len(text) THEN text[i] ELSE part[i - Len(text)]
  BY <1>1, ConcatProperties
<1> HIDE DEF A
<1>3. /\ B \in Seq(Bytes) /\ Len(B) = Len(A) + Len(Eol(nl))
      /\ \A i \in 1..(Len(A) + Len(Eol(nl))) :
           B[i] = IF i <= Len(A) THEN A[i] ELSE Eol(nl)[i - Len(A)]
  <2> DEFINE E == Eol(nl)
  <2>1. A \in Seq(Bytes) /\ E \in Seq(Bytes)
    BY <1>1, <1>2
  <2> HIDE DEF E
  <2>2. /\ A \o E \in Seq(Bytes) /\ Len(A \o E) = Len(A) + Len(E)
        /\ \A i \in 1..(Len(A) + Len(E)) :
             (A \o E)[i] = IF i <= Len(A) THEN A[i] ELSE E[i - Len(A)]
    BY <2>1, ConcatProperties
  <2> QED BY <2>2 DEF E
<1>4. Len(text) \in Nat /\ Len(part) \in Nat /\ (part = <<>> <=> Len(part) = 0)
      /\ \A i \in 1..Len(part) : part[i] # "\n"
  OBVIOUS
<1> HIDE DEF B
<1>5. CASE nl
  <2>1. Len(B) = Len(A) + 1 /\ Len(A) \in Nat
    BY <1>1, <1>2, <1>3, <1>4, <1>5
  <2>2. B[Len(B)] = "\n"
    <3>1. Len(Eol(nl)) = 1 /\ Eol(nl)[1] = "\n"
      BY <1>1, <1>5
    <3>2. Len(B) \in 1..(Len(A) + Len(Eol(nl))) /\ ~ Len(B) <= Len(A) /\ Len(B) - Len(A) = 1
      BY <2>1, <3>1
    <3> QED BY <1>3, <3>1, <3>2
  <2> QED BY <1>3, <1>5, <2>2 DEF Unfinished, Last, B, A
<1>6. CASE ~ nl
  <2>1. Len(B) = Len(A) /\ Len(A) \in Nat /\ Len(part) > 0 /\ Len(B) > 0
    BY <1>1, <1>2, <1>3, <1>4, <1>6
  <2>2. B[Len(B)] = part[Len(part)] /\ Len(part) \in 1..Len(part)
    <3>1. Len(B) \in 1..(Len(A) + Len(Eol(nl))) /\ Len(B) \in 1..(Len(text) + Len(part))
          /\ ~ Len(B) <= Len(text) /\ Len(B) - Len(text) = Len(part)
      BY <1>1, <1>2, <1>4, <1>6, <2>1
    <3> QED BY <1>2, <1>3, <2>1, <3>1
  <2>3. B # <<>>
    BY <2>1, EmptySeq
  <2>4. B[Len(B)] # "\n"
    BY <1>4, <2>2
  <2>5. Unfinished(B)
    BY <2>3, <2>4 DEF Unfinished, Last
  <2> QED BY <1>3, <1>6, <2>5 DEF B, A
<1> QED BY <1>5, <1>6

(* What was printed of s, what its reader holds and what is in its pipe    *)
(* are what was written, in this order.                                    *)
FlowAt(s) ==
  /\ reader[s] \in {"reading", "cancelled"} =>
       Text(s) \o buffer[s] \o pipe[s] = SubSeq(output[s], 1, written[s])
  /\ reader[s] = "done" => Text(s) = output[s] \o Eol(Unfinished(output[s]))
  /\ reader[s] = "dead" => IsPrefix(Text(s), output[s])
  /\ reader[s] = "reading" => (ongoing[s] <=> Unfinished(Text(s)))

FlowInv == \A s \in Streams : FlowAt(s)

(* A reader that has come to the end of the file has it all.               *)
LEMMA AllRead ==
  ASSUME LogTypeOK, PipesInv, FlowInv, NEW s \in Streams, reader[s] = "reading", s \in eof
  PROVE  output[s] = Text(s) \o buffer[s]
<1>1. /\ pipe[s] = <<>> /\ written[s] = Len(output[s])
      /\ output[s] \in Seq(Bytes) /\ buffer[s] \in Seq(Bytes) /\ Text(s) \in Seq(Bytes)
  BY TextType DEF PipesInv, LogTypeOK
<1>2. Text(s) \o buffer[s] \o pipe[s] = SubSeq(output[s], 1, written[s])
  BY DEF FlowInv, FlowAt
<1>3. SubSeq(output[s], 1, Len(output[s])) = output[s]
  BY <1>1, SubSeqFull
<1>4. Text(s) \o buffer[s] \in Seq(Bytes)
  BY <1>1, ConcatProperties
<1>5. (Text(s) \o buffer[s]) \o <<>> = Text(s) \o buffer[s]
  BY <1>4, ConcatEmptySeq
<1> QED BY <1>1, <1>2, <1>3, <1>5

LEMMA FlowWrite ==
  ASSUME LogTypeOK, PipesInv, FlowInv, NEW s \in Streams, Write(s)
  PROVE  FlowAt(s)'
<1> DEFINE t == Text(s)
           b == buffer[s]
           w == written[s]
           o == output[s]
           p == pipe[s]
<1>1. /\ t \in Seq(Bytes) /\ b \in Seq(Bytes) /\ o \in Seq(Bytes) /\ p \in Seq(Bytes)
      /\ w \in Nat
  BY TextType DEF LogTypeOK
<1>2. /\ w < Len(o) /\ Len(o) \in Nat /\ written'[s] = w + 1
      /\ pipe'[s] = Append(p, o[w + 1])
      /\ UNCHANGED <<output, buffer, reader, ongoing, sink>>
  BY <1>1 DEF Write, LogTypeOK
<1>3. Text(s)' = t
  BY <1>2 DEF Text
<1>4. w + 1 \in 1..Len(o) /\ o[w + 1] \in Bytes
  <2>1. o \in Seq(Bytes) /\ w \in Nat /\ w < Len(o) /\ Len(o) \in Nat
    BY <1>1, <1>2
  <2> HIDE DEF o, w
  <2> QED BY <2>1
<1>5. SubSeq(o, 1, w + 1) = SubSeq(o, 1, w) \o <<o[w + 1]>>
  <2> HIDE DEF o, w
  <2>1. w \in Nat /\ w + 1 \in 1..Len(o) /\ Len(o) \in Nat
    BY <1>1, <1>2, <1>4
  <2>3. 1 \in 1..Len(o) /\ (w + 1) - 1 = w
    BY <2>1
  <2>2. SubSeq(o, 1, w + 1) = SubSeq(o, 1, (w + 1) - 1) \o <<o[w + 1]>>
    BY <1>1, <2>1, <2>3, SubSeqRecursiveSecond
  <2> QED BY <2>2, <2>3
<1>6. pipe'[s] = p \o <<o[w + 1]>>
  BY <1>1, <1>2, <1>4, AppendIsConcat
<1>7. ASSUME (t \o b) \o p = SubSeq(o, 1, w)
      PROVE  (t \o b) \o pipe'[s] = SubSeq(o, 1, w + 1)
  <2> DEFINE e == <<o[w + 1]>>
             q == t \o b
  <2>1. q \in Seq(Bytes) /\ e \in Seq(Bytes) /\ p \in Seq(Bytes)
    BY <1>1, <1>4
  <2>2. pipe'[s] = p \o e /\ SubSeq(o, 1, w + 1) = SubSeq(o, 1, w) \o e
    BY <1>5, <1>6
  <2> HIDE DEF q, e, p
  <2>3. (q \o p) \o e = q \o (p \o e)
    BY <2>1, JoinBytes
  <2> QED BY <1>7, <2>2, <2>3 DEF q
<1>8. FlowAt(s)
  BY DEF FlowInv
<1> HIDE DEF t, b, w, o, p
<1>9. reader[s] \in {"reading", "cancelled"} => (t \o b) \o p = SubSeq(o, 1, w)
  BY <1>8 DEF FlowAt, t, b, p, o, w
<1>10. reader'[s] \in {"reading", "cancelled"} =>
          (Text(s)' \o buffer'[s]) \o pipe'[s] = SubSeq(output'[s], 1, written'[s])
  BY <1>2, <1>3, <1>7, <1>9 DEF b, o
<1> QED BY <1>2, <1>3, <1>8, <1>10 DEF FlowAt, t

LEMMA FlowFeed ==
  ASSUME LogTypeOK, FlowInv, NEW s \in Streams, Feed(s)
  PROVE  FlowAt(s)'
<1> DEFINE t == Text(s)
           b == buffer[s]
           p == pipe[s]
<1>1. t \in Seq(Bytes) /\ b \in Seq(Bytes) /\ p \in Seq(Bytes) /\ Len(p) \in Nat
  BY TextType DEF LogTypeOK
<1>2. PICK n \in 1..Len(p) :
         /\ buffer' = [buffer EXCEPT ![s] = @ \o SubSeq(pipe[s], 1, n)]
         /\ pipe' = [pipe EXCEPT ![s] = SubSeq(@, n + 1, Len(@))]
  BY DEF Feed
<1>3. /\ buffer'[s] = b \o SubSeq(p, 1, n) /\ pipe'[s] = SubSeq(p, n + 1, Len(p))
      /\ UNCHANGED <<output, written, reader, ongoing, sink>>
  BY <1>2 DEF Feed, LogTypeOK
<1>4. Text(s)' = t
  BY <1>3 DEF Text
<1>5. FlowAt(s)
  BY DEF FlowInv
<1> HIDE DEF t, b, p
<1> DEFINE c == SubSeq(p, 1, n)
           d == SubSeq(p, n + 1, Len(p))
<1>6. c \o d = p /\ c \in Seq(Bytes) /\ d \in Seq(Bytes)
  <2>1. 1 \in 1..(Len(p) + 1) /\ n \in (1 - 1)..Len(p) /\ Len(p) \in n..Len(p)
    BY <1>1
  <2>2. c \o d = SubSeq(p, 1, Len(p))
    BY <1>1, <2>1, ConcatAdjacentSubSeq
  <2>3. c \in Seq(Bytes)
    BY <1>1, SubSeqProperties
  <2>4. d \in Seq(Bytes)
    BY <1>1, <2>1, RestIsSeq
  <2> QED BY <1>1, <2>2, <2>3, <2>4, SubSeqFull
<1> HIDE DEF c, d
<1>7. (t \o (b \o c)) \o d = (t \o b) \o p
  <2>1. (t \o b) \o c = t \o (b \o c)
    <3>1. t \in Seq(Bytes) /\ b \in Seq(Bytes) /\ c \in Seq(Bytes)
      BY <1>1, <1>6
    <3> QED BY <3>1, JoinBytes
  <2>2. t \o b \in Seq(Bytes)
    BY <1>1, ConcatProperties
  <2> DEFINE q == t \o b
  <2> HIDE DEF q
  <2>3. (q \o c) \o d = q \o (c \o d)
    <3>1. q \in Seq(Bytes) /\ c \in Seq(Bytes) /\ d \in Seq(Bytes)
      BY <1>6, <2>2 DEF q
    <3> QED BY <3>1, JoinBytes
  <2> QED BY <1>6, <2>1, <2>3 DEF q
<1>8. (Text(s)' \o buffer'[s]) \o pipe'[s] = (t \o b) \o p
  BY <1>3, <1>4, <1>7 DEF c, d
<1> QED BY <1>3, <1>4, <1>5, <1>8 DEF FlowAt, t, b, p

LEMMA FlowFormat ==
  ASSUME LogTypeOK, PipesInv, FlowInv, NEW s \in Streams, NEW n \in Nat,
         NEW part \in Seq(Bytes \ {"\n"}), NEW nl \in BOOLEAN, FormatBy(s, n, part, nl)
  PROVE  FlowAt(s)' /\ \A q \in Streams \ {s} : Text(q)' = Text(q)
<1> DEFINE t == Text(s)
           b == buffer[s]
           o == output[s]
           rest == SubSeq(b, n + 1, Len(b))
           atEof == s \in eof /\ n = Len(b)
           E == Eol(nl)
<1>1. /\ t \in Seq(Bytes) /\ b \in Seq(Bytes) /\ o \in Seq(Bytes) /\ pipe[s] \in Seq(Bytes)
      /\ sink \in Seq(Entries) /\ part \in Seq(Bytes) /\ E \in Seq(Bytes)
      /\ ongoing[s] \in BOOLEAN
  BY TextType, SeqMonotonic, EolType DEF LogTypeOK
<1>2. /\ reader[s] = "reading" /\ Chunk(b, n, part, nl)
      /\ buffer'[s] = rest /\ UNCHANGED <<output, written, pipe>>
  BY DEF FormatBy, LogTypeOK
<1>3. FlowAt(s) /\ (part # <<>> \/ nl)
  BY <1>2 DEF FlowInv, Chunk
<1>4. (t \o b) \o pipe[s] = SubSeq(o, 1, written[s])
  BY <1>2, <1>3 DEF FlowAt
<1>5. b = (part \o E) \o rest /\ rest \in Seq(Bytes) /\ (n = Len(b) => rest = <<>>)
  <2>1. n \in 0..Len(b)
    BY <1>2 DEF Chunk
  <2> QED BY <1>1, <1>2, <2>1, ChunkSplit, RestIsSeq
<1>6. CASE ~ Decodable(part) /\ reader' = [reader EXCEPT ![s] = "dead"]
           /\ UNCHANGED <<ongoing, sink>>
  <2>1. reader'[s] = "dead" /\ \A q : Text(q)' = Text(q)
    BY <1>6 DEF LogTypeOK, Text
  <2>2. IsPrefix(t, o)
    <3> DEFINE u == b \o pipe[s]
               k == written[s]
    <3>1. k \in Nat /\ k <= Len(o) /\ Len(o) \in Nat
      BY <1>1 DEF LogTypeOK, PipesInv
    <3>2. t \o u = SubSeq(o, 1, k) /\ u \in Seq(Bytes)
      <4> DEFINE p == pipe[s]
      <4>1. t \in Seq(Bytes) /\ b \in Seq(Bytes) /\ p \in Seq(Bytes)
        BY <1>1
      <4>2. (t \o b) \o p = SubSeq(o, 1, k)
        BY <1>4
      <4> HIDE DEF t, b, p, o, k
      <4>3. (t \o b) \o p = t \o (b \o p)
        BY <4>1, JoinBytes
      <4>4. b \o p \in Seq(Bytes)
        BY <4>1, ConcatProperties
      <4> QED BY <4>2, <4>3, <4>4 DEF p
    <3> HIDE DEF t, u, o, k
    <3>3. /\ Len(t \o u) = Len(t) + Len(u)
          /\ \A i \in 1..(Len(t) + Len(u)) :
               (t \o u)[i] = IF i <= Len(t) THEN t[i] ELSE u[i - Len(t)]
      BY <1>1, <3>2, ConcatProperties
    <3>4. Len(SubSeq(o, 1, k)) = k /\ \A i \in 1..k : SubSeq(o, 1, k)[i] = o[i]
      <4>1. \A i \in 1..k : o[i] \in Bytes
        BY <1>1, <3>1
      <4>2. /\ Len(SubSeq(o, 1, k)) = IF 1 <= k THEN k - 1 + 1 ELSE 0
            /\ \A i \in 1..(k - 1 + 1) : SubSeq(o, 1, k)[i] = o[1 + i - 1]
        BY <3>1, <4>1, SubSeqProperties
      <4> QED BY <3>1, <4>2
    <3>5. Len(t) \in Nat /\ Len(u) \in Nat /\ Len(t) <= k
      BY <1>1, <3>1, <3>2, <3>3, <3>4
    <3>6. \A i \in 1..Len(t) : t[i] = o[i]
      <4>1. \A i \in 1..Len(t) : i \in 1..(Len(t) + Len(u)) /\ i \in 1..k /\ i <= Len(t)
        BY <3>5, <3>1, <3>2, <3>3, <3>4
      <4> QED BY <3>2, <3>3, <3>4, <4>1
    <3>7. SubSeq(t, 1, Len(t)) = SubSeq(o, 1, Len(t))
      <4>1. SubSeq(t, 1, Len(t)) = t
        BY <1>1, SubSeqFull
      <4>2. /\ SubSeq(o, 1, Len(t)) \in Seq(Bytes) /\ Len(SubSeq(o, 1, Len(t))) = Len(t)
            /\ \A i \in 1..Len(t) : SubSeq(o, 1, Len(t))[i] = o[i]
        <5>1. \A i \in 1..Len(t) : o[i] \in Bytes
          BY <1>1, <3>6
        <5> DEFINE m == Len(t)
        <5>2. m \in Nat
          BY <3>5
        <5> HIDE DEF m
        <5>3. /\ SubSeq(o, 1, m) \in Seq(Bytes)
              /\ Len(SubSeq(o, 1, m)) = IF 1 <= m THEN m - 1 + 1 ELSE 0
              /\ \A i \in 1..(m - 1 + 1) : SubSeq(o, 1, m)[i] = o[1 + i - 1]
          BY <5>1, <5>2, SubSeqProperties DEF m
        <5>4. Len(SubSeq(o, 1, m)) = m /\ \A i \in 1..m : SubSeq(o, 1, m)[i] = o[i]
          BY <5>2, <5>3
        <5> QED BY <5>3, <5>4 DEF m
      <4> QED BY <1>1, <3>6, <4>1, <4>2, SeqEqual
    <3> QED BY <3>1, <3>5, <3>7 DEF IsPrefix
  <2>3. output'[s] = o
    BY <1>2
  <2> HIDE DEF o, t
  <2> QED BY <2>1, <2>2, <2>3 DEF FlowAt, t
<1>7. CASE /\ sink' = sink \o Piece(s, ~ ongoing[s], part, nl \/ atEof)
           /\ ongoing' = [ongoing EXCEPT ![s] = ~ nl]
           /\ reader' = IF atEof THEN [reader EXCEPT ![s] = "done"] ELSE reader
  <2> DEFINE end == nl \/ atEof
  <2>1. Text(s)' = (t \o part) \o Eol(end) /\ \A q \in Streams \ {s} : Text(q)' = Text(q)
    <3>1. end \in BOOLEAN /\ (~ ongoing[s]) \in BOOLEAN
          /\ sink' = sink \o Piece(s, ~ ongoing[s], part, end)
      BY <1>7
    <3> HIDE DEF end
    <3>2. /\ Text(s)' = (Text(s) \o part) \o (IF end THEN <<"\n">> ELSE <<>>)
          /\ \A q \in Streams \ {s} : Text(q)' = Text(q)
      BY <1>1, <3>1, Prints
    <3> QED BY <3>2 DEF Eol
  <2>2. CASE ~ atEof
    <3>1. Text(s)' = (t \o part) \o E
      BY <2>1, <2>2
    <3>2. reader'[s] = "reading" /\ ongoing'[s] = ~ nl
      BY <1>2, <1>7, <2>2 DEF LogTypeOK
    <3> HIDE DEF t, E, b, rest
    <3>3. ((t \o part) \o E) \o rest = t \o b
      <4>1. /\ t \in Seq(Bytes) /\ part \in Seq(Bytes) /\ E \in Seq(Bytes)
            /\ rest \in Seq(Bytes)
        BY <1>1, <1>5
      <4> DEFINE q == part \o E
      <4>2. q \in Seq(Bytes) /\ (t \o part) \o E = t \o q
        <5>1. q \in Seq(Bytes)
          <6>1. part \in Seq(Bytes) /\ E \in Seq(Bytes)
            BY <4>1
          <6> QED BY <6>1, ConcatProperties
        <5>2. (t \o part) \o E = t \o q
          BY <4>1, JoinBytes
        <5> QED BY <5>1, <5>2
      <4>3. b = q \o rest
        BY <1>5
      <4> HIDE DEF q
      <4>4. (t \o q) \o rest = t \o (q \o rest)
        <5>1. t \in Seq(Bytes) /\ q \in Seq(Bytes) /\ rest \in Seq(Bytes)
          BY <4>1, <4>2
        <5> QED BY <5>1, JoinBytes
      <4> QED BY <4>2, <4>3, <4>4
    <3>4. (Text(s)' \o buffer'[s]) \o pipe'[s] = SubSeq(output'[s], 1, written'[s])
      BY <1>2, <1>4, <3>1, <3>3 DEF o
    <3>5. Unfinished((t \o part) \o E) <=> ~ nl
      BY <1>1, <1>3, UnfinishedAfter DEF E
    <3>6. Unfinished(Text(s)') <=> ongoing'[s]
      BY <3>1, <3>2, <3>5
    <3> QED BY <2>1, <3>2, <3>4, <3>6 DEF FlowAt, Unfinished
  <2>3. CASE atEof
    <3>1. reader'[s] = "done" /\ output'[s] = o /\ end = TRUE
      BY <1>2, <1>7, <2>3 DEF LogTypeOK
    <3>2. o = t \o b /\ rest = <<>>
      BY <1>2, <1>5, <2>3, AllRead
    <3> HIDE DEF t, E, b, rest, o, end
    <3>3. b = part \o E
      <4>1. part \o E \in Seq(Bytes)
        BY <1>1, ConcatProperties
      <4>2. (part \o E) \o <<>> = part \o E
        BY <4>1, ConcatEmptySeq
      <4> QED BY <1>5, <3>2, <4>2
    <3>4. o = (t \o part) \o E
      <4>1. t \in Seq(Bytes) /\ part \in Seq(Bytes) /\ E \in Seq(Bytes)
        BY <1>1
      <4>2. (t \o part) \o E = t \o (part \o E)
        BY <4>1, JoinBytes
      <4> QED BY <3>2, <3>3, <4>2
    <3>5. Unfinished(o) <=> ~ nl
      BY <1>1, <1>3, <3>4, UnfinishedAfter DEF E
    <3>6. Text(s)' = (t \o part) \o <<"\n">>
      BY <2>1, <3>1 DEF Eol
    <3>7. Text(s)' = o \o Eol(Unfinished(o))
      <4>1. CASE nl
        <5>1. Eol(Unfinished(o)) = <<>> /\ E = <<"\n">>
          BY <3>5, <4>1 DEF Eol, E
        <5>2. o \o <<>> = o
          BY <1>1, ConcatEmptySeq
        <5> QED BY <3>4, <3>6, <5>1, <5>2
      <4>2. CASE ~ nl
        <5>1. Eol(Unfinished(o)) = <<"\n">> /\ E = <<>>
          BY <3>5, <4>2 DEF Eol, E
        <5>2. t \o part \in Seq(Bytes)
          BY <1>1, ConcatProperties
        <5>3. (t \o part) \o <<>> = t \o part
          BY <5>2, ConcatEmptySeq
        <5> QED BY <3>4, <3>6, <5>1, <5>3
      <4> QED BY <4>1, <4>2
    <3>8. Text(s)' = output'[s] \o Eol(Unfinished(output'[s]))
      BY <3>1, <3>7
    <3> QED BY <2>1, <3>1, <3>8 DEF FlowAt, Eol, Unfinished
  <2> QED BY <2>2, <2>3
<1> QED BY <1>6, <1>7 DEF FormatBy

LEMMA FlowEnds ==
  ASSUME LogTypeOK, PipesInv, FlowInv, NEW s \in Streams, FormatEnds(s)
  PROVE  FlowAt(s)' /\ \A q \in Streams \ {s} : Text(q)' = Text(q)
<1> DEFINE t == Text(s)
           o == output[s]
<1>1. /\ reader[s] = "reading" /\ reader'[s] = "done" /\ output'[s] = o
      /\ buffer[s] = <<>> /\ s \in eof
  BY EndsBy DEF LogTypeOK
<1>2. t \in Seq(Bytes) /\ o = t \o buffer[s] /\ (ongoing[s] <=> Unfinished(t))
  BY <1>1, TextType, AllRead DEF FlowInv, FlowAt
<1>3. o = t
  <2>1. t \o <<>> = t
    BY <1>2, ConcatEmptySeq
  <2> QED BY <1>1, <1>2, <2>1
<1>4. CASE ~ ongoing[s] /\ UNCHANGED sink
  <2>1. \A q : Text(q)' = Text(q)
    BY <1>4 DEF Text
  <2> HIDE DEF t, o
  <2>2. Eol(Unfinished(o)) = <<>> /\ o \o <<>> = o
    <3>1. o \in Seq(Bytes)
      BY <1>2, <1>3
    <3> QED BY <1>2, <1>3, <1>4, <3>1, ConcatEmptySeq DEF Eol
  <2>3. Text(s)' = output'[s] \o Eol(Unfinished(output'[s]))
    BY <1>1, <1>3, <2>1, <2>2 DEF t
  <2> QED BY <1>1, <2>1, <2>3 DEF FlowAt, Eol, Unfinished
<1>5. CASE ongoing[s] /\ sink' = sink \o Piece(s, FALSE, <<>>, TRUE)
  <2>1. /\ Text(s)' = (t \o <<>>) \o <<"\n">>
        /\ \A q \in Streams \ {s} : Text(q)' = Text(q)
    <3>1. <<>> \in Seq(Bytes \ {"\n"}) /\ sink \in Seq(Entries)
      BY EmptySeq DEF LogTypeOK
    <3>2. /\ Text(s)' = (Text(s) \o <<>>) \o (IF TRUE THEN <<"\n">> ELSE <<>>)
          /\ \A q \in Streams \ {s} : Text(q)' = Text(q)
      BY <1>5, <3>1, Prints
    <3> QED BY <3>2
  <2> HIDE DEF t, o
  <2>2. t \o <<>> = t
    BY <1>2, ConcatEmptySeq
  <2>3. Eol(Unfinished(o)) = <<"\n">>
    BY <1>2, <1>3, <1>5 DEF Eol
  <2>4. Text(s)' = output'[s] \o Eol(Unfinished(output'[s]))
    BY <1>1, <1>3, <2>1, <2>2, <2>3
  <2> QED BY <1>1, <2>1, <2>4 DEF FlowAt, Eol, Unfinished
<1> QED BY <1>4, <1>5, EndsBy

(* What steps of others leave to a stream, and the end of the program.     *)
LeftAlone(q) ==
  /\ Text(q)' = Text(q) /\ buffer'[q] = buffer[q] /\ pipe'[q] = pipe[q]
  /\ output'[q] = output[q] /\ written'[q] = written[q] /\ ongoing'[q] = ongoing[q]
  /\ \/ reader'[q] = reader[q]
     \/ reader[q] = "reading" /\ reader'[q] = "cancelled"

LEMMA FlowKept ==
  ASSUME FlowInv, NEW q \in Streams, LeftAlone(q)
  PROVE  FlowAt(q)'
BY DEF LeftAlone, FlowInv, FlowAt, Eol, Unfinished

LEMMA FlowStep ==
  ASSUME LogTypeOK, PipesInv, FlowInv, [Next]_vars PROVE FlowInv'
<1>1. ASSUME NEW s \in Streams, Write(s) PROVE FlowInv'
  <2>1. FlowAt(s)'
    BY <1>1, FlowWrite
  <2>2. ASSUME NEW q \in Streams \ {s} PROVE FlowAt(q)'
    <3>1. /\ Text(q)' = Text(q) /\ pipe'[q] = pipe[q] /\ written'[q] = written[q]
          /\ UNCHANGED <<output, buffer, reader, ongoing>>
      BY <1>1 DEF Write, Text, LogTypeOK
    <3>2. q \in Streams /\ LeftAlone(q)
      BY <3>1 DEF LeftAlone
    <3> QED BY <3>2, FlowKept
  <2> QED BY <2>1, <2>2 DEF FlowInv
<1>2. ASSUME NEW s \in Streams, Feed(s) PROVE FlowInv'
  <2>1. FlowAt(s)'
    BY <1>2, FlowFeed
  <2>2. ASSUME NEW q \in Streams \ {s} PROVE FlowAt(q)'
    <3>1. /\ Text(q)' = Text(q) /\ pipe'[q] = pipe[q] /\ buffer'[q] = buffer[q]
          /\ UNCHANGED <<output, written, reader, ongoing>>
      BY <1>2 DEF Feed, Text, LogTypeOK
    <3>2. q \in Streams /\ LeftAlone(q)
      BY <3>1 DEF LeftAlone
    <3> QED BY <3>2, FlowKept
  <2> QED BY <2>1, <2>2 DEF FlowInv
<1>3. ASSUME NEW s \in Streams, Format(s) PROVE FlowInv'
  <2>1. PICK n \in Nat : \E part \in Seq(Bytes \ {"\n"}) : \E nl \in BOOLEAN :
           FormatBy(s, n, part, nl)
    BY <1>3, FormatCases
  <2>2. PICK part \in Seq(Bytes \ {"\n"}) : \E nl \in BOOLEAN : FormatBy(s, n, part, nl)
    BY <2>1
  <2>3. PICK nl \in BOOLEAN : FormatBy(s, n, part, nl)
    BY <2>2
  <2>4. FlowAt(s)' /\ \A q \in Streams \ {s} : Text(q)' = Text(q)
    BY <2>3, FlowFormat
  <2>5. ASSUME NEW q \in Streams \ {s} PROVE FlowAt(q)'
    <3>1. /\ Text(q)' = Text(q) /\ buffer'[q] = buffer[q] /\ reader'[q] = reader[q]
          /\ ongoing'[q] = ongoing[q] /\ UNCHANGED <<output, written, pipe>>
      BY <2>3, <2>4 DEF FormatBy, LogTypeOK
    <3>2. q \in Streams /\ LeftAlone(q)
      BY <3>1 DEF LeftAlone
    <3> QED BY <3>2, FlowKept
  <2> QED BY <2>4, <2>5 DEF FlowInv
<1>4. ASSUME NEW s \in Streams, FormatEnds(s) PROVE FlowInv'
  <2>1. FlowAt(s)' /\ \A q \in Streams \ {s} : Text(q)' = Text(q)
    BY <1>4, FlowEnds
  <2>2. ASSUME NEW q \in Streams \ {s} PROVE FlowAt(q)'
    <3>1. /\ Text(q)' = Text(q) /\ reader'[q] = reader[q]
          /\ UNCHANGED <<output, written, pipe, buffer, ongoing>>
      BY <1>4, <2>1 DEF FormatEnds, LogTypeOK
    <3>2. q \in Streams /\ LeftAlone(q)
      BY <3>1 DEF LeftAlone
    <3> QED BY <3>2, FlowKept
  <2> QED BY <2>1, <2>2 DEF FlowInv
<1>5. ASSUME UNCHANGED <<output, written, pipe, buffer, ongoing, sink>>,
             \A q \in Streams : \/ reader'[q] = reader[q]
                                \/ reader[q] = "reading" /\ reader'[q] = "cancelled"
      PROVE  FlowInv'
  <2> SUFFICES ASSUME NEW q \in Streams PROVE FlowAt(q)'
    BY DEF FlowInv
  <2>1. Text(q)' = Text(q)
    BY <1>5 DEF Text
  <2>2. LeftAlone(q)
    BY <1>5, <2>1 DEF LeftAlone
  <2> QED BY <2>2, FlowKept
<1>6. ASSUME NEW s \in Streams, FeedEof(s) PROVE FlowInv'
  <2>1. UNCHANGED <<output, written, pipe, buffer, ongoing, sink, reader>>
    BY <1>6 DEF FeedEof
  <2> QED BY <1>5, <2>1
<1>7. ASSUME NEW p \in Processes, ProcessSteps(p) PROVE FlowInv'
  <2>1. UNCHANGED <<output, written, pipe, buffer, ongoing, sink, reader>>
    BY <1>7 DEF ProcessSteps, ProcessExits, RunReturns
  <2> QED BY <1>5, <2>1
<1>8. CASE ProgramEnds
  <2>1. /\ UNCHANGED <<output, written, pipe, buffer, ongoing, sink>>
        /\ \A q \in Streams : \/ reader'[q] = reader[q]
                              \/ reader[q] = "reading" /\ reader'[q] = "cancelled"
    BY <1>8 DEF ProgramEnds
  <2> QED BY <1>5, <2>1
<1>9. CASE UNCHANGED vars
  <2>1. UNCHANGED <<output, written, pipe, buffer, ongoing, sink, reader>>
    BY <1>9 DEF vars
  <2> QED BY <1>5, <2>1
<1> QED BY <1>1, <1>2, <1>3, <1>4, <1>6, <1>7, <1>8, <1>9 DEF Next, StreamSteps

LEMMA FlowInit == Init => PipesInv /\ FlowInv
<1> SUFFICES ASSUME Init PROVE PipesInv /\ FlowInv
  OBVIOUS
<1>1. PipesInv
  <2>1. \A s \in Streams : Len(output[s]) \in Nat
    BY LogTypeInit DEF LogTypeOK
  <2> QED BY <2>1 DEF Init, PipesInv
<1>2. ASSUME NEW s \in Streams PROVE FlowAt(s)
  <2>1. /\ reader[s] = "reading" /\ ~ ongoing[s] /\ buffer[s] = <<>> /\ pipe[s] = <<>>
        /\ written[s] = 0
    BY <1>2 DEF Init
  <2>2. Text(s) = <<>>
    <3>1. Kept(sink, {s} \X Bytes) = <<>>
      BY KeptNone DEF Init
    <3>2. DOMAIN <<>> = {}
      OBVIOUS
    <3>3. [n \in {} |-> (<<>>)[n][2]] = <<>>
      OBVIOUS
    <3> QED BY <3>1, <3>2, <3>3 DEF Text
  <2>3. SubSeq(output[s], 1, 0) = <<>>
    BY SubSeqEmpty
  <2>4. (<<>> \o <<>>) \o <<>> = <<>>
    OBVIOUS
  <2> QED BY <2>1, <2>2, <2>3, <2>4 DEF FlowAt, Unfinished
<1> QED BY <1>1, <1>2 DEF FlowInv

-----------------------------------------------------------------------------
(* LinesApart: where no line is longer than the limit, lines are printed   *)
(* whole, one after the other.                                             *)

(* What is between two cuts is a line.                                     *)
LEMMA IsLine ==
  ASSUME NEW o \in Seq(Bytes), NEW i \in 0..Len(o), NEW j \in (i + 1)..(Len(o) + 1),
         i = 0 \/ o[i] = "\n", j = Len(o) + 1 \/ o[j] = "\n",
         \A m \in (i + 1)..(j - 1) : o[m] # "\n"
  PROVE  SubSeq(o, i + 1, j - 1) \in Lines(o)
<1> DEFINE Cuts == {0, Len(o) + 1} \cup Ends(o)
<1>1. DOMAIN o = 1..Len(o) /\ Len(o) \in Nat
  OBVIOUS
<1>2. i \in Cuts /\ j \in Cuts /\ i < j
  BY <1>1 DEF Ends
<1>3. ~ \E k \in Cuts : i < k /\ k < j
  <2> SUFFICES ASSUME NEW k \in Cuts, i < k, k < j PROVE FALSE
    OBVIOUS
  <2>1. k \in Ends(o)
    BY <1>1
  <2>2. k \in (i + 1)..(j - 1) /\ o[k] = "\n"
    BY <1>1, <2>1 DEF Ends
  <2> QED BY <2>2
<1> DEFINE x == <<i, j>>
<1>4. x \in {y \in Cuts \X Cuts : y[1] < y[2] /\ ~ \E k \in Cuts : y[1] < k /\ k < y[2]}
      /\ x[1] = i /\ x[2] = j
  BY <1>2, <1>3
<1> HIDE DEF x
<1> QED BY <1>4 DEF Lines

LEMMA PartOfLine ==
  ASSUME NEW o \in Seq(Bytes), NEW i \in 0..Len(o), NEW l \in Nat, i + l <= Len(o),
         i = 0 \/ o[i] = "\n", \A m \in 1..l : o[i + m] # "\n"
  PROVE  \E line \in Lines(o) : Len(line) >= l
<1> DEFINE C == {c \in (i + l + 1)..(Len(o) + 1) : c = Len(o) + 1 \/ o[c] = "\n"}
<1>1. Len(o) \in Nat /\ Len(o) + 1 \in C /\ C \subseteq Nat
  OBVIOUS
<1>2. \E j \in C : \A c \in C : j <= c
  <2> HIDE DEF C
  <2> QED BY <1>1, Least
<1>3. PICK j \in C : \A c \in C : j <= c
  BY <1>2
<1>4. j \in (i + 1)..(Len(o) + 1) /\ (j = Len(o) + 1 \/ o[j] = "\n") /\ j - 1 - i >= l
  BY <1>1
<1>5. ASSUME NEW m \in (i + 1)..(j - 1) PROVE o[m] # "\n"
  <2>1. CASE m <= i + l
    <3>1. m - i \in 1..l /\ i + (m - i) = m
      BY <2>1
    <3> QED BY <3>1
  <2>2. CASE ~ m <= i + l
    <3>1. m \in (i + l + 1)..(Len(o) + 1) /\ ~ j <= m
      BY <1>1, <1>4, <2>2
    <3> QED BY <1>3, <3>1
  <2> QED BY <2>1, <2>2
<1> HIDE DEF C
<1>6. SubSeq(o, i + 1, j - 1) \in Lines(o)
  BY <1>4, <1>5, IsLine
<1>7. Len(SubSeq(o, i + 1, j - 1)) >= l
  <2> DEFINE a == i + 1
             e == j - 1
  <2>1. a \in Int /\ e \in Int /\ e - a + 1 >= l /\ \A k \in a..e : o[k] \in Bytes
    BY <1>1, <1>4
  <2> HIDE DEF a, e
  <2>2. Len(SubSeq(o, a, e)) = IF a <= e THEN e - a + 1 ELSE 0
    BY <2>1, SubSeqProperties
  <2>3. l = 0 \/ a <= e
    BY <2>1
  <2>4. Len(SubSeq(o, a, e)) >= l
    BY <2>1, <2>2, <2>3
  <2> QED BY <2>4 DEF a, e
<1> QED BY <1>6, <1>7

(* Where no line is longer than the limit, what a reader takes is a line.  *)
LEMMA PartIsLine ==
  ASSUME LogTypeOK, PipesInv, FlowInv, ~ Overlong,
         NEW s \in Streams, NEW n \in Nat, NEW part \in Seq(Bytes \ {"\n"}),
         NEW nl \in BOOLEAN, FormatBy(s, n, part, nl), ~ ongoing[s]
  PROVE  /\ part \in Lines(output[s])
         /\ nl \/ (s \in eof /\ n = Len(buffer[s]))
<1> DEFINE t == Text(s)
           b == buffer[s]
           o == output[s]
           p == pipe[s]
           w == written[s]
           k == Len(t)
<1>1. /\ t \in Seq(Bytes) /\ b \in Seq(Bytes) /\ o \in Seq(Bytes) /\ p \in Seq(Bytes)
      /\ w \in Nat /\ w <= Len(o)
  BY TextType DEF LogTypeOK, PipesInv
<1>2. /\ reader[s] = "reading" /\ Chunk(b, n, part, nl)
      /\ nl \/ Len(part) > Limit \/ (s \in eof /\ n = Len(b))
  BY DEF FormatBy
<1>3. (t \o b) \o p = SubSeq(o, 1, w) /\ ~ Unfinished(t)
  BY <1>2 DEF FlowInv, FlowAt
<1>4. (s \in eof => o = t \o b) /\ Limit \in Nat
  BY <1>2, AllRead, LogStreamAssumption
<1>5. ~ \E l \in Lines(o) : Len(l) > Limit
  BY DEF Overlong
<1> HIDE DEF t, b, o, p, w
<1>6. k \in Nat /\ Len(b) \in Nat /\ Len(o) \in Nat /\ Len(p) \in Nat /\ Len(part) \in Nat
  BY <1>1
<1>7. /\ t \o b \in Seq(Bytes) /\ Len(t \o b) = k + Len(b)
      /\ \A i \in 1..(k + Len(b)) : (t \o b)[i] = IF i <= k THEN t[i] ELSE b[i - k]
  BY <1>1, ConcatProperties
<1>8. /\ k + Len(b) <= Len(o)
      /\ \A i \in 1..(k + Len(b)) : o[i] = (t \o b)[i]
  <2> DEFINE q == t \o b
  <2>1. q \in Seq(Bytes) /\ p \in Seq(Bytes) /\ Len(q) = k + Len(b) /\ q \o p = SubSeq(o, 1, w)
    BY <1>1, <1>3, <1>7
  <2> HIDE DEF q
  <2>2. q \in Seq(Bytes) /\ p \in Seq(Bytes)
    BY <2>1
  <2>3. /\ Len(q \o p) = Len(q) + Len(p)
        /\ \A i \in 1..(Len(q) + Len(p)) : (q \o p)[i] = IF i <= Len(q) THEN q[i] ELSE p[i - Len(q)]
    BY <2>2, ConcatProperties
  <2>4. Len(SubSeq(o, 1, w)) = w /\ \A i \in 1..w : SubSeq(o, 1, w)[i] = o[i]
    <3>1. \A i \in 1..w : o[i] \in Bytes
      BY <1>1, <1>6
    <3>2. /\ Len(SubSeq(o, 1, w)) = IF 1 <= w THEN w - 1 + 1 ELSE 0
          /\ \A i \in 1..(w - 1 + 1) : SubSeq(o, 1, w)[i] = o[1 + i - 1]
      BY <1>1, <3>1, SubSeqProperties
    <3> QED BY <1>1, <3>2
  <2>5. w = k + Len(b) + Len(p)
    BY <2>1, <2>3, <2>4
  <2>6. \A i \in 1..(k + Len(b)) : o[i] = q[i]
    <3> SUFFICES ASSUME NEW i \in 1..(k + Len(b)) PROVE o[i] = q[i]
      OBVIOUS
    <3>1. i \in 1..(Len(q) + Len(p)) /\ i <= Len(q) /\ i \in 1..w
      BY <1>6, <2>1, <2>5
    <3> QED BY <2>1, <2>3, <2>4, <3>1
  <2>7. k + Len(b) <= Len(o)
    BY <1>1, <1>6, <2>5
  <2> QED BY <2>6, <2>7 DEF q
<1>9. \A m \in 1..Len(b) : o[k + m] = b[m]
  <2> SUFFICES ASSUME NEW m \in 1..Len(b) PROVE o[k + m] = b[m]
    OBVIOUS
  <2>1. k + m \in 1..(k + Len(b)) /\ ~ k + m <= k /\ (k + m) - k = m
    BY <1>6
  <2> QED BY <1>7, <1>8, <2>1
<1>10. k \in 0..Len(o) /\ (k = 0 \/ o[k] = "\n")
  <2>1. k = 0 \/ (t # <<>> /\ k \in 1..(k + Len(b)) /\ k <= k)
    BY <1>6, <1>1
  <2>2. t # <<>> => t[k] = "\n"
    BY <1>3 DEF Unfinished, Last
  <2>3. k # 0 => o[k] = "\n"
    BY <1>7, <1>8, <2>1, <2>2
  <2> QED BY <1>6, <1>8, <2>3
<1>11. /\ n \in 1..Len(b) /\ (\A m \in 1..Len(part) : part[m] = b[m] /\ part[m] # "\n")
       /\ (nl => Len(part) = n - 1 /\ b[n] = "\n") /\ (~ nl => Len(part) = n)
  <2>1. \A m \in 1..Len(part) : part[m] # "\n"
    OBVIOUS
  <2> QED BY <1>2, <2>1 DEF Chunk
<1>12. \A m \in 1..Len(part) : part[m] = o[k + m] /\ o[k + m] # "\n"
  <2> SUFFICES ASSUME NEW m \in 1..Len(part)
               PROVE  part[m] = o[k + m] /\ o[k + m] # "\n"
    OBVIOUS
  <2>1. m \in 1..Len(b)
    BY <1>6, <1>11
  <2>2. part[m] = b[m] /\ part[m] # "\n"
    BY <1>11
  <2>3. o[k + m] = b[m]
    BY <1>9, <2>1
  <2> QED BY <2>2, <2>3
<1>13. Len(part) <= Len(b) /\ k + Len(part) <= Len(o)
  BY <1>6, <1>8, <1>11
<1> HIDE DEF k
<1>14. ~ Len(part) > Limit
  <2>1. \E line \in Lines(o) : Len(line) >= Len(part)
    BY <1>1, <1>6, <1>10, <1>12, <1>13, PartOfLine
  <2>2. PICK line \in Lines(o) : Len(line) >= Len(part)
    BY <2>1
  <2>3. SUFFICES ASSUME Len(part) > Limit PROVE FALSE
    OBVIOUS
  <2>4. Len(line) \in Nat
    <3>1. PICK x \in ({0, Len(o) + 1} \cup Ends(o)) \X ({0, Len(o) + 1} \cup Ends(o)) :
             line = SubSeq(o, x[1] + 1, x[2] - 1) /\ x[1] < x[2]
      BY DEF Lines
    <3>2. Ends(o) \subseteq 1..Len(o)
      BY <1>1 DEF Ends
    <3> DEFINE a == x[1] + 1
               e == x[2] - 1
    <3>3. a \in 1..(Len(o) + 2) /\ e \in (-1)..Len(o)
      <4>1. x[1] \in 0..(Len(o) + 1) /\ x[2] \in 0..(Len(o) + 1)
        BY <1>6, <3>2
      <4> QED BY <1>6, <4>1
    <3>4. \A i \in a..e : o[i] \in Bytes
      BY <1>1, <1>6, <3>3
    <3>5. line = SubSeq(o, a, e)
      BY <3>1
    <3> HIDE DEF a, e
    <3>6. line \in Seq(Bytes)
      BY <3>3, <3>4, <3>5, SubSeqProperties
    <3> QED BY <3>6
  <2> QED BY <1>4, <1>5, <1>6, <2>2, <2>3, <2>4
<1>15. nl \/ (s \in eof /\ n = Len(b))
  BY <1>2, <1>14
<1> DEFINE j == k + Len(part) + 1
<1>16. j = Len(o) + 1 \/ o[j] = "\n"
  <2>1. CASE nl
    BY <1>6, <1>9, <1>11, <2>1
  <2>2. CASE ~ nl
    <3>1. o = t \o b /\ Len(part) = Len(b)
      BY <1>4, <1>11, <1>15, <2>2
    <3>2. Len(o) = k + Len(b)
      BY <1>7, <3>1 DEF k
    <3> QED BY <3>1, <3>2
  <2> QED BY <2>1, <2>2
<1>17. SubSeq(o, k + 1, j - 1) \in Lines(o)
  <2>1. j \in (k + 1)..(Len(o) + 1)
    BY <1>6, <1>10, <1>13
  <2>2. ASSUME NEW m \in (k + 1)..(j - 1) PROVE o[m] # "\n"
    <3>1. m - k \in 1..Len(part) /\ k + (m - k) = m
      BY <1>6, <1>10
    <3> QED BY <1>12, <3>1
  <2> HIDE DEF j
  <2> QED BY <1>1, <1>10, <1>16, <2>1, <2>2, IsLine
<1>18. part = SubSeq(o, k + 1, j - 1)
  <2> DEFINE a == k + 1
             e == j - 1
  <2>1. a \in Int /\ e \in Int /\ e - a + 1 = Len(part) /\ \A i \in a..e : o[i] \in Bytes
    BY <1>1, <1>6, <1>10, <1>13
  <2>2. \A i \in 1..Len(part) : a + i - 1 = k + i
    BY <1>6, <1>10
  <2> HIDE DEF a, e, j
  <2>3. /\ SubSeq(o, a, e) \in Seq(Bytes)
        /\ Len(SubSeq(o, a, e)) = IF a <= e THEN e - a + 1 ELSE 0
        /\ \A i \in 1..(e - a + 1) : SubSeq(o, a, e)[i] = o[a + i - 1]
    BY <2>1, SubSeqProperties
  <2>4. Len(SubSeq(o, a, e)) = Len(part)
    BY <1>6, <2>1, <2>3
  <2>5. \A i \in 1..Len(part) : part[i] = SubSeq(o, a, e)[i]
    BY <1>12, <2>1, <2>2, <2>3
  <2>6. part \in Seq(Bytes)
    BY SeqMonotonic
  <2>7. part = SubSeq(o, a, e)
    BY <2>3, <2>4, <2>5, <2>6, SeqEqual
  <2> QED BY <2>7 DEF a, e
<1> QED BY <1>15, <1>17, <1>18 DEF o, b

Apart(entries) ==
  \A n \in DOMAIN entries :
    n > 1 /\ entries[n - 1][1] # entries[n][1] => entries[n - 1][2] = "\n"

ApartInv ==
  Overlong \/ /\ Apart(sink) /\ ~ Open(sink)
              /\ \A s \in Streams :
                   /\ reader[s] = "reading" => ~ ongoing[s]
                   /\ reader[s] = "dead" => \E l \in Lines(output[s]) : ~ Decodable(l)

LEMMA PieceApart ==
  ASSUME NEW A \in Seq(Entries), Apart(A), ~ Open(A),
         NEW s \in Streams, NEW part \in Seq(Bytes \ {"\n"})
  PROVE  /\ Apart(A \o Piece(s, TRUE, part, TRUE))
         /\ ~ Open(A \o Piece(s, TRUE, part, TRUE))
<1> DEFINE P == Piece(s, TRUE, part, TRUE)
           L == Len(A)
           l == Len(P)
           C == A \o P
<1>1. P \in Seq({s} \X (Bytes \cup {"prefix"})) /\ P \in Seq(Entries)
      /\ l = 1 + Len(part) + 1 /\ P[l] = <<s, "\n">>
  <2>1. PieceLike(P, s, TRUE, part, TRUE)
    BY PieceParts
  <2> HIDE DEF P
  <2> QED BY <2>1 DEF PieceLike
<1> HIDE DEF P
<1>2. L \in Nat /\ l \in Nat /\ l > 1 /\ (A = <<>> <=> L = 0)
  <2>1. Len(part) \in Nat
    OBVIOUS
  <2> QED BY <1>1, <2>1, EmptySeq
<1>3. \A n \in 1..l : P[n][1] = s
  <2> DEFINE T == {s} \X (Bytes \cup {"prefix"})
  <2>1. \A t \in T : t[1] = s
    OBVIOUS
  <2>2. P \in Seq(T)
    BY <1>1
  <2> HIDE DEF T
  <2>3. \A n \in 1..l : P[n] \in T
    BY <2>2
  <2> QED BY <2>1, <2>3
<1>4. /\ C \in Seq(Entries) /\ Len(C) = L + l
      /\ \A n \in 1..(L + l) : C[n] = IF n <= L THEN A[n] ELSE P[n - L]
  BY <1>1, ConcatProperties
<1>5. DOMAIN C = 1..Len(C) /\ DOMAIN A = 1..L
  BY <1>4
<1>6. L > 0 => A[L][2] = "\n"
  BY <1>2 DEF Open, Last
<1> HIDE DEF C, L, l
<1>7. ASSUME NEW n \in 1..Len(C), n > 1, C[n - 1][1] # C[n][1] PROVE C[n - 1][2] = "\n"
  <2>1. n \in 1..(L + l) /\ n - 1 \in 1..(L + l)
    BY <1>2, <1>4, <1>7
  <2>2. CASE n <= L
    <3>1. C[n] = A[n] /\ C[n - 1] = A[n - 1] /\ n \in 1..L
      BY <1>2, <1>4, <2>1, <2>2
    <3> QED BY <1>5, <1>7, <3>1 DEF Apart
  <2>3. CASE n = L + 1
    <3>1. C[n - 1] = A[L] /\ L > 0
      BY <1>2, <1>4, <1>7, <2>1, <2>3
    <3> QED BY <1>6, <3>1
  <2>4. CASE n > L + 1
    <3>1. /\ C[n] = P[n - L] /\ C[n - 1] = P[(n - 1) - L]
          /\ n - L \in 1..l /\ (n - 1) - L \in 1..l
      BY <1>2, <1>4, <2>1, <2>4
    <3> QED BY <1>3, <1>7, <3>1
  <2> QED BY <1>2, <2>1, <2>2, <2>3, <2>4
<1>8. Apart(C)
  BY <1>5, <1>7 DEF Apart
<1>9. C[Len(C)] = <<s, "\n">>
  <2>1. L + l \in 1..(L + l) /\ ~ L + l <= L /\ (L + l) - L = l
    BY <1>2
  <2> QED BY <1>1, <1>4, <2>1
<1>10. ~ Open(C)
  BY <1>9 DEF Open, Last
<1> QED BY <1>8, <1>10 DEF C, P

LEMMA ApartFormat ==
  ASSUME LogTypeOK, PipesInv, FlowInv, ApartInv, ~ Overlong,
         NEW s \in Streams, NEW n \in Nat, NEW part \in Seq(Bytes \ {"\n"}),
         NEW nl \in BOOLEAN, FormatBy(s, n, part, nl)
  PROVE  ApartInv'
<1> DEFINE atEof == s \in eof /\ n = Len(buffer[s])
<1>1. /\ reader[s] = "reading" /\ UNCHANGED output /\ ~ ongoing[s]
      /\ Apart(sink) /\ ~ Open(sink) /\ sink \in Seq(Entries)
  BY DEF FormatBy, ApartInv, LogTypeOK
<1>2. part \in Lines(output[s]) /\ (nl \/ atEof)
  BY <1>1, PartIsLine
<1>3. \A q \in Streams \ {s} : reader'[q] = reader[q] /\ ongoing'[q] = ongoing[q]
  BY DEF FormatBy, LogTypeOK
<1>4. CASE /\ ~ Decodable(part)
           /\ reader' = [reader EXCEPT ![s] = "dead"] /\ UNCHANGED <<ongoing, sink>>
  <2>1. reader'[s] = "dead"
    BY <1>4 DEF LogTypeOK
  <2>2. \E l \in Lines(output'[s]) : ~ Decodable(l)
    BY <1>1, <1>2, <1>4
  <2>3. \A q \in Streams : /\ reader'[q] = "reading" => ~ ongoing'[q]
                           /\ reader'[q] = "dead" => \E l \in Lines(output'[q]) : ~ Decodable(l)
    BY <1>1, <1>3, <2>1, <2>2 DEF ApartInv
  <2> QED BY <1>1, <1>4, <2>3 DEF ApartInv, Apart, Open
<1>5. CASE /\ sink' = sink \o Piece(s, ~ ongoing[s], part, nl \/ atEof)
           /\ ongoing' = [ongoing EXCEPT ![s] = ~ nl]
           /\ reader' = IF atEof THEN [reader EXCEPT ![s] = "done"] ELSE reader
  <2>1. sink' = sink \o Piece(s, TRUE, part, TRUE)
    BY <1>1, <1>2, <1>5 DEF Piece
  <2>2. Apart(sink \o Piece(s, TRUE, part, TRUE)) /\ ~ Open(sink \o Piece(s, TRUE, part, TRUE))
    BY <1>1, PieceApart
  <2>3. Apart(sink') /\ ~ Open(sink')
    BY <2>1, <2>2
  <2>4. reader'[s] # "dead" /\ (reader'[s] = "reading" => ~ ongoing'[s])
    BY <1>1, <1>2, <1>5 DEF LogTypeOK
  <2>5. \A q \in Streams : /\ reader'[q] = "reading" => ~ ongoing'[q]
                           /\ reader'[q] = "dead" => \E l \in Lines(output'[q]) : ~ Decodable(l)
    BY <1>1, <1>3, <2>4 DEF ApartInv
  <2> QED BY <2>3, <2>5 DEF ApartInv, Apart, Open
<1> QED BY <1>4, <1>5 DEF FormatBy

LEMMA ApartStep ==
  ASSUME LogTypeOK, PipesInv, FlowInv, ApartInv, [Next]_vars PROVE ApartInv'
<1>1. UNCHANGED output
  BY DEF Next, StreamSteps, ProcessSteps, Write, Feed, FeedEof, Format, FormatEnds,
         ProcessExits, RunReturns, ProgramEnds, vars
<1>2. CASE Overlong
  <2>1. Overlong'
    BY <1>1, <1>2 DEF Overlong
  <2> QED BY <2>1 DEF ApartInv
<1>3. CASE ~ Overlong /\ \E s \in Streams : Format(s)
  <2>1. PICK s \in Streams : Format(s)
    BY <1>3
  <2>2. PICK n \in Nat : \E part \in Seq(Bytes \ {"\n"}) : \E nl \in BOOLEAN :
           FormatBy(s, n, part, nl)
    BY <2>1, FormatCases
  <2>3. PICK part \in Seq(Bytes \ {"\n"}) : \E nl \in BOOLEAN : FormatBy(s, n, part, nl)
    BY <2>2
  <2>4. PICK nl \in BOOLEAN : FormatBy(s, n, part, nl)
    BY <2>3
  <2> QED BY <1>3, <2>4, ApartFormat
<1>4. ASSUME ~ Overlong, UNCHANGED <<ongoing, sink>>,
             \A q \in Streams : /\ reader'[q] = "reading" => reader[q] = "reading"
                                /\ reader'[q] = "dead" => reader[q] = "dead"
      PROVE  ApartInv'
  BY <1>1, <1>4 DEF ApartInv, Apart, Open
<1>5. CASE ~ Overlong /\ \E s \in Streams : FormatEnds(s)
  <2>1. PICK s \in Streams : FormatEnds(s)
    BY <1>5
  <2>2. ~ ongoing[s]
    BY <1>5, <2>1, EndsBy DEF ApartInv
  <2>3. UNCHANGED <<ongoing, sink>> /\ reader' = [reader EXCEPT ![s] = "done"]
    BY <2>1, <2>2, EndsBy
  <2>4. \A q \in Streams : /\ reader'[q] = "reading" => reader[q] = "reading"
                           /\ reader'[q] = "dead" => reader[q] = "dead"
    BY <2>3 DEF LogTypeOK
  <2> QED BY <1>4, <1>5, <2>3, <2>4
<1>6. CASE ~ Overlong /\ \E s \in Streams : Write(s) \/ Feed(s) \/ FeedEof(s)
  BY <1>4, <1>6 DEF Write, Feed, FeedEof
<1>7. CASE ~ Overlong /\ \E p \in Processes : ProcessSteps(p)
  BY <1>4, <1>7 DEF ProcessSteps, ProcessExits, RunReturns
<1>8. CASE ~ Overlong /\ ProgramEnds
  <2>1. UNCHANGED <<ongoing, sink>>
        /\ \A q \in Streams : /\ reader'[q] = "reading" => reader[q] = "reading"
                              /\ reader'[q] = "dead" => reader[q] = "dead"
    BY <1>8 DEF ProgramEnds
  <2> QED BY <1>4, <1>8, <2>1
<1>9. CASE ~ Overlong /\ UNCHANGED vars
  BY <1>4, <1>9 DEF vars
<1> QED BY <1>2, <1>3, <1>5, <1>6, <1>7, <1>8, <1>9 DEF Next, StreamSteps

LEMMA ApartInit == Init => ApartInv
BY DEF Init, ApartInv, Apart, Open

(* Unless a line is longer than the limit, lines of different streams do   *)
(* not run into each other on the standard output they share: then each    *)
(* print of _format_stream is a whole line, and there is no await between  *)
(* its prefix, its text and its end.                                       *)
THEOREM LinesApartTheorem == Spec => []LinesApart
<1> DEFINE IInv == LogTypeOK /\ PipesInv /\ FlowInv /\ ApartInv
<1>1. Init => IInv
  BY LogTypeInit, FlowInit, ApartInit
<1>2. IInv /\ [Next]_vars => IInv'
  BY LogTypeStep, PipesStep, FlowStep, ApartStep
<1>3. IInv => LinesApart
  BY DEF ApartInv, Apart, LinesApart
<1> QED BY <1>1, <1>2, <1>3, PTL DEF Spec

(* Text that was written is printed once and in order, as far as the       *)
(* reader has come; what is still in the StreamReader and in the pipe      *)
(* follows.  A reader that ends by itself has printed it all, and gave the *)
(* last line its end.  It dies only of a line that is no text, or where a  *)
(* line is longer than the limit.                                          *)
THEOREM NothingLostTheorem == Spec => []NothingLost
<1> DEFINE IInv == LogTypeOK /\ PipesInv /\ FlowInv /\ ApartInv
<1>1. Init => IInv
  BY LogTypeInit, FlowInit, ApartInit
<1>2. IInv /\ [Next]_vars => IInv'
  BY LogTypeStep, PipesStep, FlowStep, ApartStep
<1>3. IInv => NothingLost
  <2> SUFFICES ASSUME LogTypeOK, FlowInv, ApartInv PROVE NothingLost
    OBVIOUS
  <2> SUFFICES
        ASSUME NEW s \in Streams
        PROVE  CASE reader[s] \in {"reading", "cancelled"} ->
                      Text(s) \o buffer[s] \o pipe[s] = SubSeq(output[s], 1, written[s])
                 [] reader[s] = "done" ->
                      Text(s) = output[s] \o IF Unfinished(output[s]) THEN <<"\n">> ELSE <<>>
                 [] reader[s] = "dead" ->
                      /\ IsPrefix(Text(s), output[s])
                      /\ Overlong \/ \E l \in Lines(output[s]) : ~ Decodable(l)
    BY DEF NothingLost
  <2>1. FlowAt(s)
    BY DEF FlowInv
  <2>2. CASE reader[s] \in {"reading", "cancelled"}
    <3>1. Text(s) \o buffer[s] \o pipe[s] = SubSeq(output[s], 1, written[s])
      BY <2>1, <2>2 DEF FlowAt
    <3> QED BY <2>2, <3>1
  <2>3. CASE reader[s] = "done"
    <3>1. Text(s) = output[s] \o IF Unfinished(output[s]) THEN <<"\n">> ELSE <<>>
      BY <2>1, <2>3 DEF FlowAt, Eol
    <3> QED BY <2>3, <3>1
  <2>4. CASE reader[s] = "dead"
    <3>1. /\ IsPrefix(Text(s), output[s])
          /\ Overlong \/ \E l \in Lines(output[s]) : ~ Decodable(l)
      BY <2>1, <2>4 DEF FlowAt, ApartInv
    <3> QED BY <2>4, <3>1
  <2> QED BY <2>2, <2>3, <2>4 DEF LogTypeOK
<1> QED BY <1>1, <1>2, <1>3, PTL DEF Spec
=============================================================================
