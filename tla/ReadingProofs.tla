--------------------------- MODULE ReadingProofs ---------------------------
(***************************************************************************)
(* Proofs about Reading, for every set of files and every history of edits *)
(* and commands.                                                           *)
(*                                                                         *)
(* The hash: merging services gives services, and a merge that does not    *)
(* raise keeps what the source says (OverMerged), so each step of          *)
(* resolve_extends puts a service over something and loses nothing of it.  *)
(* A service is resolved after its base, hence what it comes to is a       *)
(* function of what the hash is of: the equations ResolvedAs have one      *)
(* solution, by induction along the order they were solved in              *)
(* (ResolvedUnique).                                                       *)
(*                                                                         *)
(* The levels: files read and files pending are a queue (IsQueue), each    *)
(* pending one on a level (OnLevels).  A queue that is empty at the end    *)
(* has given the levels one after the other, and the last of them is empty *)
(* (Drained).  While there is no circle, what the levels hold in all       *)
(* contains what its files include, and a queue never outgrows that        *)
(* (QueueWithin): memory is exhausted for a cause.                         *)
(*                                                                         *)
(* The merge: a key of a service is the sum of what was said of it (Sums), *)
(* from the first file that says something (SumsFirst) over each further   *)
(* one (SumsNext).  For mounts this needs that superseding what earlier    *)
(* merges left is superseding each of the lists they were merged from      *)
(* (ListSums).                                                             *)
(*                                                                         *)
(* Failures: unless the files give a key in two types, whatever is merged  *)
(* from them fits them (Fits), along the levels and along the bases, so    *)
(* that no merge raises (FitInv).                                          *)
(***************************************************************************)
EXTENDS Reading, FiniteSetTheorems, SequenceTheorems, WellFoundedInduction, TLAPS

-----------------------------------------------------------------------------
(* Sequences: what is concatenated and mapped.  Their induction theorems   *)
(* are out of the provers' reach; sets of numbers and of sequences are not.*)

(* An induction over ranks: what holds of s once it holds of all below s   *)
(* holds of all.                                                           *)
LEMMA LowestRank ==
  ASSUME NEW D, NEW rank \in [D -> Nat], NEW S, S \subseteq D, S # {}
  PROVE  \E s \in S : \A u \in S : ~ rank[u] < rank[s]
<1> DEFINE R == OpToRel(<, Nat)
           ranks == {rank[s] : s \in S}
<1>1. IsWellFoundedOn(R, Nat)
  BY NatLessThanWellFounded, Zenon
<1>2. \A x, y \in Nat : x < y => <<x, y>> \in R
  BY DEF OpToRel
<1>3. ranks \subseteq Nat /\ ranks # {}
  OBVIOUS
<1> HIDE DEF R, ranks
<1>4. PICK x \in ranks : \A y \in ranks : ~ (<<y, x>> \in R)
  BY <1>1, <1>3, WFMin
<1>5. PICK s \in S : x = rank[s]
  BY <1>4 DEF ranks
<1>6. \A u \in S : rank[u] \in ranks
  BY DEF ranks
<1> QED BY <1>2, <1>3, <1>4, <1>5, <1>6

(* Induction over numbers, over a set of them as the provers need it.      *)
LEMMA NatSets ==
  ASSUME NEW S, 0 \in S, \A n \in Nat : n \in S => n + 1 \in S
  PROVE  Nat \subseteq S
<1> DEFINE T == Nat \ S
           rank == [n \in Nat |-> n]
<1> SUFFICES ASSUME T # {} PROVE FALSE
  OBVIOUS
<1>1. rank \in [Nat -> Nat] /\ T \subseteq Nat
  OBVIOUS
<1> HIDE DEF rank
<1>2. PICK x \in T : \A y \in T : ~ rank[y] < rank[x]
  BY <1>1, LowestRank
<1>3. \A y \in T : ~ y < x
  BY <1>2 DEF rank
<1>4. x # 0 /\ x - 1 \in Nat /\ x - 1 < x
  OBVIOUS
<1>5. x - 1 \in S /\ (x - 1) + 1 = x
  BY <1>3, <1>4
<1> QED BY <1>4, <1>5

(* A recursive definition over 1..N is satisfied by a function.            *)
Recursive(f, T, a, g, N) ==
  /\ f \in [1..N -> T]
  /\ \A i \in 1..N : f[i] = IF i = 1 THEN a ELSE g[i][f[i - 1]]

LEMMA Recursion ==
  ASSUME NEW T, NEW a \in T, NEW g \in [Nat -> [T -> T]], NEW N \in Nat
  PROVE  \E f : Recursive(f, T, a, g, N)
<1> DEFINE Solves(f, n) ==
             \A i \in 1..n : f[i] = IF i = 1 THEN a ELSE g[i][f[i - 1]]
           S == {n \in Nat : \E f \in [1..n -> T] : Solves(f, n)}
<1>1. 0 \in S
  <2>1. [i \in 1..0 |-> a] \in [1..0 -> T] /\ 1..0 = {}
    OBVIOUS
  <2> QED BY <2>1
<1>2. ASSUME NEW n \in Nat, n \in S PROVE n + 1 \in S
  <2>1. PICK f \in [1..n -> T] : Solves(f, n)
    BY <1>2
  <2> DEFINE e == IF n + 1 = 1 THEN a ELSE g[n + 1][f[n]]
             h == [i \in 1..(n + 1) |-> IF i = n + 1 THEN e ELSE f[i]]
  <2>2. e \in T
    <3>1. n + 1 # 1 => n \in 1..n
      OBVIOUS
    <3> QED BY <3>1
  <2> HIDE DEF e
  <2>3. \A i \in 1..(n + 1) : i # n + 1 => i \in 1..n
    OBVIOUS
  <2>4. h \in [1..(n + 1) -> T]
    BY <2>2, <2>3
  <2>5. h[n + 1] = e /\ \A i \in 1..n : h[i] = f[i] /\ i # n + 1
    OBVIOUS
  <2> HIDE DEF h
  <2>6. ASSUME NEW i \in 1..(n + 1)
        PROVE  h[i] = IF i = 1 THEN a ELSE g[i][h[i - 1]]
    <3>1. CASE i = n + 1
      <4>1. i # 1 => n \in 1..n /\ i - 1 = n
        BY <3>1
      <4> QED BY <2>5, <3>1, <4>1 DEF e
    <3>2. CASE i # n + 1
      <4>1. i \in 1..n /\ (i # 1 => i - 1 \in 1..n)
        BY <3>2
      <4> QED BY <2>1, <2>5, <4>1
    <3> QED BY <3>1, <3>2
  <2> QED BY <2>4, <2>6
<1> HIDE DEF S
<1>3. N \in S
  BY <1>1, <1>2, NatSets
<1> QED BY <1>3 DEF S, Recursive

-----------------------------------------------------------------------------
(* The laws of FlattenSeq.                                                 *)

LEMMA FlattenAt ==
  ASSUME NEW S, NEW ss \in Seq(Seq(S)), Len(ss) # 0
  PROVE  \E f : /\ FlattenSeq(ss) = f[Len(ss)]
                /\ \A i \in 1..Len(ss) :
                     /\ f[i] = IF i = 1 THEN ss[i] ELSE f[i - 1] \o ss[i]
                     /\ f[i] \in Seq(S)
<1> DEFINE L == Len(ss)
           Eq(f) == f = [i \in 1..L |-> IF i = 1 THEN ss[i] ELSE f[i - 1] \o ss[i]]
           g == [i \in Nat |-> [x \in Seq(S) |-> IF i \in 1..L THEN x \o ss[i] ELSE x]]
           flatten == CHOOSE f : Eq(f)
<1>1. L \in Nat /\ 1 \in 1..L /\ \A i \in 1..L : ss[i] \in Seq(S) /\ i \in Nat
  OBVIOUS
<1>2. g \in [Nat -> [Seq(S) -> Seq(S)]]
  <2>1. ASSUME NEW i \in Nat PROVE g[i] \in [Seq(S) -> Seq(S)]
    <3>1. ASSUME NEW x \in Seq(S) PROVE (IF i \in 1..L THEN x \o ss[i] ELSE x) \in Seq(S)
      BY <1>1
    <3> QED BY <3>1
  <2> QED BY <2>1
<1>3. \A i \in 1..L : \A x \in Seq(S) : g[i][x] = x \o ss[i]
  BY <1>1
<1> HIDE DEF g
<1>4. PICK f \in [1..L -> Seq(S)] :
        \A i \in 1..L : f[i] = IF i = 1 THEN ss[1] ELSE g[i][f[i - 1]]
  <2> DEFINE T == Seq(S)
             a == ss[1]
  <2>1. a \in T /\ g \in [Nat -> [T -> T]] /\ L \in Nat
    BY <1>1, <1>2
  <2> HIDE DEF T, a, L
  <2>2. \E f : Recursive(f, T, a, g, L)
    BY <2>1, Recursion
  <2> QED BY <2>2 DEF T, a, Recursive
<1>5. ASSUME NEW i \in 1..L
      PROVE  f[i] = IF i = 1 THEN ss[i] ELSE f[i - 1] \o ss[i]
  <2>1. CASE i = 1
    BY <1>4, <2>1
  <2>2. CASE i # 1
    <3>1. i - 1 \in 1..L
      BY <1>1, <2>2
    <3>2. f[i - 1] \in Seq(S)
      BY <3>1
    <3> QED BY <1>3, <1>4, <2>2, <3>2
  <2> QED BY <2>1, <2>2
<1>6. Eq(f)
  BY <1>5
<1>7. Eq(flatten)
  BY <1>6
<1>8. FlattenSeq(ss) = flatten[L]
  BY DEF FlattenSeq
<1> HIDE DEF flatten
<1>9. \A i \in 1..L : flatten[i] = IF i = 1 THEN ss[i] ELSE flatten[i - 1] \o ss[i]
  BY <1>7
<1> DEFINE Typed2 == {n \in Nat : n + 1 \in 1..L => flatten[n + 1] \in Seq(S)}
<1>10. 0 \in Typed2
  BY <1>1, <1>9, SMTT(30)
<1>11. ASSUME NEW n \in Nat, n \in Typed2 PROVE n + 1 \in Typed2
  <2> SUFFICES ASSUME (n + 1) + 1 \in 1..L PROVE flatten[(n + 1) + 1] \in Seq(S)
    OBVIOUS
  <2>1. n + 1 \in 1..L /\ (n + 1) + 1 # 1 /\ ((n + 1) + 1) - 1 = n + 1
    OBVIOUS
  <2>2. flatten[n + 1] \in Seq(S)
    BY <1>11, <2>1
  <2>3. flatten[(n + 1) + 1] = flatten[n + 1] \o ss[(n + 1) + 1]
    BY <1>9, <2>1
  <2> QED BY <1>1, <2>2, <2>3
<1> HIDE DEF Typed2
<1>12. \A n \in Nat : n \in Typed2
  BY <1>10, <1>11, NatSets
<1>13. ASSUME NEW i \in 1..L PROVE flatten[i] \in Seq(S)
  <2>1. i - 1 \in Nat /\ (i - 1) + 1 = i
    BY <1>1
  <2> QED BY <1>12, <2>1 DEF Typed2
<1> QED BY <1>8, <1>9, <1>13

LEMMA FlattenNothing ==
  FlattenSeq(<<>>) = <<>>
BY DEF FlattenSeq

LEMMA FlattenType ==
  ASSUME NEW S, NEW ss \in Seq(Seq(S))
  PROVE  FlattenSeq(ss) \in Seq(S)
<1>1. CASE Len(ss) = 0
  <2>1. ss = <<>> /\ <<>> \in Seq(S)
    BY <1>1
  <2> QED BY <2>1, FlattenNothing
<1>2. CASE Len(ss) # 0
  <2>1. Len(ss) \in 1..Len(ss)
    BY <1>2
  <2> QED BY <1>2, <2>1, FlattenAt
<1> QED BY <1>1, <1>2

LEMMA FlattenAppend ==
  ASSUME NEW S, NEW ss \in Seq(Seq(S)), NEW x \in Seq(S)
  PROVE  FlattenSeq(Append(ss, x)) = FlattenSeq(ss) \o x
<1> DEFINE L == Len(ss)
           more == Append(ss, x)
<1>1. /\ more \in Seq(Seq(S)) /\ Len(more) = L + 1 /\ L \in Nat
      /\ more[L + 1] = x /\ \A i \in 1..L : more[i] = ss[i]
  OBVIOUS
<1> HIDE DEF more
<1>2. PICK g : /\ FlattenSeq(more) = g[L + 1]
               /\ \A i \in 1..(L + 1) :
                    /\ g[i] = IF i = 1 THEN more[i] ELSE g[i - 1] \o more[i]
                    /\ g[i] \in Seq(S)
  <2>1. Len(more) # 0
    BY <1>1
  <2>2. \E g : /\ FlattenSeq(more) = g[Len(more)]
               /\ \A i \in 1..Len(more) :
                    /\ g[i] = IF i = 1 THEN more[i] ELSE g[i - 1] \o more[i]
                    /\ g[i] \in Seq(S)
    BY <1>1, <2>1, FlattenAt
  <2> QED BY <1>1, <2>2
<1>3. CASE L = 0
  <2>1. ss = <<>> /\ 1 \in 1..(L + 1) /\ L + 1 = 1
    BY <1>3
  <2>2. g[1] = x
    BY <1>1, <1>2, <2>1
  <2>3. <<>> \o x = x
    OBVIOUS
  <2> QED BY <1>2, <2>1, <2>2, <2>3, FlattenNothing DEF more
<1>4. CASE L # 0
  <2>1. PICK f : /\ FlattenSeq(ss) = f[L]
                 /\ \A i \in 1..L :
                      /\ f[i] = IF i = 1 THEN ss[i] ELSE f[i - 1] \o ss[i]
                      /\ f[i] \in Seq(S)
    BY <1>4, FlattenAt
  <2> DEFINE Same == {n \in Nat : n + 1 \in 1..L => f[n + 1] = g[n + 1]}
  <2> HIDE DEF L
  <2>2. 0 \in Same
    <3>1. 1 \in 1..L /\ 1 \in 1..(L + 1)
      BY <1>1, <1>4
    <3> QED BY <1>1, <1>2, <2>1, <3>1
  <2>3. ASSUME NEW n \in Nat, n \in Same PROVE n + 1 \in Same
    <3> SUFFICES ASSUME (n + 1) + 1 \in 1..L PROVE f[(n + 1) + 1] = g[(n + 1) + 1]
      OBVIOUS
    <3>1. /\ n + 1 \in 1..L /\ (n + 1) + 1 \in 1..(L + 1)
          /\ (n + 1) + 1 # 1 /\ ((n + 1) + 1) - 1 = n + 1
      BY <1>1
    <3>2. f[n + 1] = g[n + 1]
      BY <2>3, <3>1
    <3>3. f[(n + 1) + 1] = f[n + 1] \o ss[(n + 1) + 1]
      BY <2>1, <3>1
    <3>4. g[(n + 1) + 1] = g[n + 1] \o more[(n + 1) + 1]
      BY <1>2, <3>1
    <3> QED BY <1>1, <3>2, <3>3, <3>4
  <2> HIDE DEF Same
  <2>4. L - 1 \in Same
    <3>1. L - 1 \in Nat
      BY <1>1, <1>4
    <3> QED BY <2>2, <2>3, <3>1, NatSets
  <2>5. f[L] = g[L]
    <3>1. (L - 1) + 1 = L /\ L \in 1..L
      BY <1>1, <1>4
    <3> QED BY <2>4, <3>1 DEF Same
  <2>6. L + 1 \in 1..(L + 1) /\ L + 1 # 1 /\ (L + 1) - 1 = L
    BY <1>1, <1>4
  <2>7. g[L + 1] = g[L] \o x
    BY <1>1, <1>2, <2>6
  <2> QED BY <1>2, <2>1, <2>5, <2>7 DEF more
<1> QED BY <1>3, <1>4

LEMMA ListIs ==
  ASSUME NEW n \in Nat, NEW v, v = [i \in 1..n |-> v[i]]
  PROVE  v \in Seq(ToSet(v)) /\ Len(v) = n
<1>1. DOMAIN v = 1..n
  OBVIOUS
<1>2. \A i \in 1..n : v[i] \in ToSet(v)
  BY <1>1 DEF ToSet
<1> HIDE DEF ToSet
<1>3. v \in [1..n -> ToSet(v)]
  BY <1>1, <1>2
<1> QED BY <1>3

(* Induction over sequences, over a set of them.                           *)
LEMMA SeqSets ==
  ASSUME NEW S, NEW G, <<>> \in G,
         \A s \in Seq(S) : \A e \in S : s \in G => Append(s, e) \in G
  PROVE  Seq(S) \subseteq G
<1> DEFINE N == {n \in Nat : \A s \in Seq(S) : Len(s) = n => s \in G}
<1>1. 0 \in N
  <2>1. \A s \in Seq(S) : Len(s) = 0 => s = <<>>
    OBVIOUS
  <2> QED BY <2>1
<1>2. ASSUME NEW n \in Nat, n \in N PROVE n + 1 \in N
  <2> SUFFICES ASSUME NEW s \in Seq(S), Len(s) = n + 1 PROVE s \in G
    OBVIOUS
  <2>1. s # <<>>
    OBVIOUS
  <2>2. PICK t \in Seq(S), e \in S : s = Append(t, e)
    BY <2>1, SequenceEmptyOrAppend
  <2>3. Len(t) = n
    BY <2>2
  <2> QED BY <1>2, <2>2, <2>3
<1> HIDE DEF N
<1>3. Nat \subseteq N
  BY <1>1, <1>2, NatSets
<1> SUFFICES ASSUME NEW s \in Seq(S) PROVE s \in G
  OBVIOUS
<1>4. Len(s) \in N
  BY <1>3
<1> QED BY <1>4 DEF N

(* What function g makes of the members of x, one after the other. *)
Mapped(g, x) == [n \in DOMAIN x |-> g[x[n]]]
FlatMap(g, x) == FlattenSeq(Mapped(g, x))
IsMap(g, X, T) == g \in [X -> T]

LEMMA MappedType ==
  ASSUME NEW X, NEW T, NEW g, IsMap(g, X, T), NEW x \in Seq(X)
  PROVE  Mapped(g, x) \in Seq(T) /\ Len(Mapped(g, x)) = Len(x)
<1>1. /\ Len(x) \in Nat /\ DOMAIN x = 1..Len(x)
      /\ \A n \in 1..Len(x) : x[n] \in X
  OBVIOUS
<1>2. Mapped(g, x) \in [1..Len(x) -> T]
  BY <1>1 DEF Mapped, IsMap
<1> QED BY <1>1, <1>2

LEMMA MappedAppend ==
  ASSUME NEW X, NEW T, NEW g, IsMap(g, X, T), NEW x \in Seq(X), NEW e \in X
  PROVE  Mapped(g, Append(x, e)) = Append(Mapped(g, x), g[e])
<1> DEFINE L == Len(x)
           more == Append(x, e)
           a == Mapped(g, more)
           b == Mapped(g, x)
           c == Append(b, g[e])
<1>1. /\ L \in Nat /\ DOMAIN x = 1..L /\ more \in Seq(X) /\ Len(more) = L + 1
      /\ DOMAIN more = 1..(L + 1)
      /\ more[L + 1] = e /\ \A n \in 1..L : more[n] = x[n]
  OBVIOUS
<1> HIDE DEF more
<1>2. a \in Seq(T) /\ Len(a) = L + 1 /\ b \in Seq(T) /\ Len(b) = L /\ g[e] \in T
  <2>1. Mapped(g, more) \in Seq(T) /\ Len(Mapped(g, more)) = Len(more)
    BY <1>1, MappedType
  <2>2. Mapped(g, x) \in Seq(T) /\ Len(Mapped(g, x)) = Len(x)
    BY MappedType
  <2>3. g[e] \in T
    BY DEF IsMap
  <2> QED BY <1>1, <2>1, <2>2, <2>3
<1>3. /\ \A n \in 1..(L + 1) : a[n] = g[more[n]]
      /\ \A n \in 1..L : b[n] = g[x[n]]
  BY <1>1 DEF Mapped
<1> HIDE DEF L, a, b
<1>4. /\ c \in Seq(T) /\ Len(c) = L + 1
      /\ c[L + 1] = g[e] /\ \A n \in 1..L : c[n] = b[n]
  BY <1>2
<1> HIDE DEF c
<1>5. ASSUME NEW n \in 1..(L + 1) PROVE a[n] = c[n]
  <2>1. CASE n = L + 1
    BY <1>1, <1>3, <1>4, <2>1
  <2>2. CASE n # L + 1
    <3>1. n \in 1..L
      BY <1>1, <2>2
    <3> QED BY <1>1, <1>3, <1>4, <3>1
  <2> QED BY <2>1, <2>2
<1>6. a = c
  <2>1. /\ a = [n \in 1..(L + 1) |-> a[n]]
        /\ c = [n \in 1..(L + 1) |-> c[n]]
    BY <1>2, <1>4
  <2> QED BY <1>5, <2>1
<1> QED BY <1>6 DEF a, b, c, more

LEMMA FlatMapNothing ==
  ASSUME NEW g
  PROVE  FlatMap(g, <<>>) = <<>>
<1>1. Mapped(g, <<>>) = <<>>
  BY DEF Mapped
<1> QED BY <1>1, FlattenNothing DEF FlatMap

LEMMA FlatMapType ==
  ASSUME NEW X, NEW S, NEW g, IsMap(g, X, Seq(S)), NEW x \in Seq(X)
  PROVE  FlatMap(g, x) \in Seq(S)
<1>1. Mapped(g, x) \in Seq(Seq(S))
  BY MappedType
<1> QED BY <1>1, FlattenType DEF FlatMap

LEMMA FlatMapAppend ==
  ASSUME NEW X, NEW S, NEW g, IsMap(g, X, Seq(S)), NEW x \in Seq(X), NEW e \in X
  PROVE  FlatMap(g, Append(x, e)) = FlatMap(g, x) \o g[e]
<1> DEFINE b == Mapped(g, x)
           c == g[e]
<1>1. b \in Seq(Seq(S)) /\ c \in Seq(S)
  BY MappedType DEF IsMap
<1>2. Mapped(g, Append(x, e)) = Append(b, c)
  BY MappedAppend
<1> HIDE DEF b, c
<1>3. FlattenSeq(Append(b, c)) = FlattenSeq(b) \o c
  BY <1>1, FlattenAppend
<1> QED BY <1>2, <1>3 DEF FlatMap, b, c

LEMMA FlatMapConcat ==
  ASSUME NEW X, NEW S, NEW g, IsMap(g, X, Seq(S)), NEW x \in Seq(X), NEW y \in Seq(X)
  PROVE  FlatMap(g, x \o y) = FlatMap(g, x) \o FlatMap(g, y)
<1>0. ASSUME NEW b \in Seq(S), NEW c \in Seq(S), NEW d \in Seq(S)
      PROVE  (b \o c) \o d = b \o (c \o d)
  BY ConcatAssociative
<1> DEFINE G == {z \in Seq(X) : FlatMap(g, x \o z) = FlatMap(g, x) \o FlatMap(g, z)}
<1>1. FlatMap(g, x) \in Seq(S)
  BY FlatMapType
<1>2. <<>> \in G
  <2>1. <<>> \in Seq(X) /\ x \o <<>> = x
    OBVIOUS
  <2>2. FlatMap(g, x) \o <<>> = FlatMap(g, x)
    BY <1>1
  <2> QED BY <2>1, <2>2, FlatMapNothing
<1>3. ASSUME NEW z \in Seq(X), NEW e \in X, z \in G PROVE Append(z, e) \in G
  <2> DEFINE b == FlatMap(g, x)
             c == FlatMap(g, z)
             d == g[e]
             w == x \o z
             f == FlatMap(g, w)
  <2>1. /\ b \in Seq(S) /\ c \in Seq(S) /\ d \in Seq(S) /\ w \in Seq(X)
        /\ Append(z, e) \in Seq(X) /\ x \o Append(z, e) = Append(w, e)
    <3>1. c \in Seq(S)
      BY FlatMapType
    <3>2. /\ d \in Seq(S) /\ w \in Seq(X) /\ Append(z, e) \in Seq(X)
          /\ x \o Append(z, e) = Append(w, e)
      BY DEF IsMap
    <3> QED BY <1>1, <3>1, <3>2
  <2>2. FlatMap(g, Append(z, e)) = c \o d
    BY FlatMapAppend
  <2>3. f = b \o c
    BY <1>3
  <2>9. b \in Seq(S) /\ c \in Seq(S) /\ d \in Seq(S)
    BY <2>1
  <2> HIDE DEF b, c, d, w
  <2>4. FlatMap(g, Append(w, e)) = f \o d
    BY <2>1, FlatMapAppend DEF d
  <2>5. (b \o c) \o d = b \o (c \o d)
    BY <1>0, <2>9
  <2>6. FlatMap(g, x \o Append(z, e)) = b \o FlatMap(g, Append(z, e))
    BY <2>1, <2>2, <2>3, <2>4, <2>5
  <2> QED BY <2>1, <2>6 DEF b
<1> HIDE DEF G
<1>4. Seq(X) \subseteq G
  BY <1>2, <1>3, SeqSets
<1> QED BY <1>4 DEF G

LEMMA ToSetLaws ==
  ASSUME NEW S, NEW x \in Seq(S), NEW y \in Seq(S)
  PROVE  /\ ToSet(x) \subseteq S
         /\ ToSet(x \o y) = ToSet(x) \cup ToSet(y)
<1>1. /\ DOMAIN x = 1..Len(x) /\ DOMAIN y = 1..Len(y) /\ Len(x) \in Nat /\ Len(y) \in Nat
      /\ DOMAIN (x \o y) = 1..(Len(x) + Len(y))
      /\ \A i \in 1..Len(x) : (x \o y)[i] = x[i]
      /\ \A i \in 1..Len(y) : (x \o y)[Len(x) + i] = y[i]
      /\ \A i \in 1..Len(x) : x[i] \in S
  OBVIOUS
<1> DEFINE z == x \o y
           m == Len(x)
           n == Len(y)
<1> HIDE DEF z, m, n
<1>2. /\ DOMAIN x = 1..m /\ DOMAIN y = 1..n /\ m \in Nat /\ n \in Nat
      /\ DOMAIN z = 1..(m + n)
      /\ \A i \in 1..m : z[i] = x[i]
      /\ \A i \in 1..n : z[m + i] = y[i]
  BY <1>1 DEF z, m, n
<1>3. ToSet(z) \subseteq ToSet(x) \cup ToSet(y)
  <2> SUFFICES ASSUME NEW i \in 1..(m + n) PROVE z[i] \in ToSet(x) \cup ToSet(y)
    BY <1>2 DEF ToSet
  <2>1. CASE i <= m
    <3>1. i \in 1..m
      BY <1>2, <2>1
    <3> QED BY <1>2, <3>1 DEF ToSet
  <2>2. CASE ~ i <= m
    <3>1. i - m \in 1..n /\ m + (i - m) = i
      BY <1>2, <2>2
    <3> QED BY <1>2, <3>1 DEF ToSet
  <2> QED BY <2>1, <2>2
<1>4. ToSet(x) \cup ToSet(y) \subseteq ToSet(z)
  <2>1. \A i \in 1..m : i \in 1..(m + n)
    BY <1>2
  <2>2. \A i \in 1..n : m + i \in 1..(m + n)
    BY <1>2
  <2> QED BY <1>2, <2>1, <2>2 DEF ToSet
<1>5. ToSet(x) \subseteq S
  BY <1>1 DEF ToSet
<1> QED BY <1>3, <1>4, <1>5 DEF z

LEMMA ToSetAppend ==
  ASSUME NEW S, NEW x \in Seq(S), NEW e \in S
  PROVE  ToSet(Append(x, e)) = ToSet(x) \cup {e}
<1> DEFINE y == <<e>>
<1>1. y \in Seq(S) /\ Append(x, e) = x \o y
  OBVIOUS
<1>2. ToSet(y) = {e}
  BY DEF ToSet
<1> HIDE DEF y
<1>3. ToSet(x \o y) = ToSet(x) \cup ToSet(y)
  BY <1>1, ToSetLaws
<1> QED BY <1>1, <1>2, <1>3

LEMMA UnionOneMore ==
  ASSUME NEW g, NEW T, NEW e
  PROVE  UNION {ToSet(g[i]) : i \in T \cup {e}} = (UNION {ToSet(g[i]) : i \in T}) \cup ToSet(g[e])
<1>1. {ToSet(g[i]) : i \in T \cup {e}} = {ToSet(g[i]) : i \in T} \cup {ToSet(g[e])}
  OBVIOUS
<1>2. ASSUME NEW A, NEW x PROVE UNION (A \cup {x}) = (UNION A) \cup x
  <2>1. \A v : v \in UNION (A \cup {x}) <=> \E y \in A \cup {x} : v \in y
    OBVIOUS
  <2>2. \A v : v \in UNION A <=> \E y \in A : v \in y
    OBVIOUS
  <2>3. \A v : (\E y \in A \cup {x} : v \in y) <=> (\E y \in A : v \in y) \/ v \in x
    OBVIOUS
  <2>4. \A v : v \in UNION (A \cup {x}) <=> v \in (UNION A) \cup x
    BY <2>1, <2>2, <2>3
  <2> QED BY <2>4
<1> QED BY <1>1, <1>2

LEMMA FlatMapSet ==
  ASSUME NEW X, NEW S, NEW g, IsMap(g, X, Seq(S)), NEW x \in Seq(X)
  PROVE  ToSet(FlatMap(g, x)) = UNION {ToSet(g[e]) : e \in ToSet(x)}
<1> DEFINE Of(T) == UNION {ToSet(g[e]) : e \in T}
           G == {z \in Seq(X) : ToSet(FlatMap(g, z)) = Of(ToSet(z))}
<1>1. <<>> \in G
  <2>1. ToSet(<<>>) = {} /\ <<>> \in Seq(X)
    BY DEF ToSet
  <2> QED BY <2>1, FlatMapNothing
<1>2. ASSUME NEW z \in Seq(X), NEW e \in X, z \in G PROVE Append(z, e) \in G
  <2> DEFINE c == FlatMap(g, z)
             d == g[e]
  <2>1. c \in Seq(S) /\ d \in Seq(S)
    BY FlatMapType DEF IsMap
  <2>2. FlatMap(g, Append(z, e)) = c \o d
    BY FlatMapAppend
  <2>3. ToSet(c) = Of(ToSet(z))
    BY <1>2
  <2>6. Of(ToSet(z) \cup {e}) = Of(ToSet(z)) \cup ToSet(d)
    BY UnionOneMore
  <2> HIDE DEF c, d, Of
  <2>4. ToSet(c \o d) = ToSet(c) \cup ToSet(d)
    BY <2>1, ToSetLaws
  <2>5. ToSet(Append(z, e)) = ToSet(z) \cup {e} /\ Append(z, e) \in Seq(X)
    BY ToSetAppend
  <2>7. ToSet(FlatMap(g, Append(z, e))) = Of(ToSet(Append(z, e)))
    BY <2>2, <2>3, <2>4, <2>5, <2>6
  <2> QED BY <2>1, <2>7
<1> HIDE DEF G
<1>3. Seq(X) \subseteq G
  BY <1>1, <1>2, SeqSets
<1> QED BY <1>3 DEF G

(* One map after another is one map.                                       *)
LEMMA FlatMapTwice ==
  ASSUME NEW X, NEW S, NEW U, NEW g, IsMap(g, X, Seq(S)), NEW h, IsMap(h, S, Seq(U)),
         NEW both, IsMap(both, X, Seq(U)), \A e \in X : both[e] = FlatMap(h, g[e]),
         NEW x \in Seq(X)
  PROVE  FlatMap(h, FlatMap(g, x)) = FlatMap(both, x)
<1> DEFINE G == {z \in Seq(X) : FlatMap(h, FlatMap(g, z)) = FlatMap(both, z)}
<1>1. <<>> \in G
  <2>1. <<>> \in Seq(X)
    OBVIOUS
  <2> QED BY <2>1, FlatMapNothing
<1>2. ASSUME NEW z \in Seq(X), NEW e \in X, z \in G PROVE Append(z, e) \in G
  <2> DEFINE c == FlatMap(g, z)
             d == g[e]
  <2>1. c \in Seq(S) /\ d \in Seq(S) /\ Append(z, e) \in Seq(X)
    <3>1. c \in Seq(S)
      BY FlatMapType
    <3> QED BY <3>1 DEF IsMap
  <2>2. FlatMap(g, Append(z, e)) = c \o d
    BY FlatMapAppend
  <2>3. FlatMap(both, Append(z, e)) = FlatMap(both, z) \o both[e]
    BY FlatMapAppend
  <2>4. FlatMap(h, c) = FlatMap(both, z)
    BY <1>2
  <2> HIDE DEF c, d
  <2>5. FlatMap(h, c \o d) = FlatMap(h, c) \o FlatMap(h, d)
    BY <2>1, FlatMapConcat
  <2>6. both[e] = FlatMap(h, d)
    BY DEF d
  <2> QED BY <2>1, <2>2, <2>3, <2>4, <2>5, <2>6
<1> HIDE DEF G
<1>3. Seq(X) \subseteq G
  BY <1>1, <1>2, SeqSets
<1> QED BY <1>3 DEF G

LEMMA FlatMapSame ==
  ASSUME NEW X, NEW g, IsMap(g, X, Seq(X)), NEW x \in Seq(X),
         \A e \in ToSet(x) : g[e] = <<e>>
  PROVE  FlatMap(g, x) = x
<1> DEFINE G == {z \in Seq(X) : (\A e \in ToSet(z) : g[e] = <<e>>) => FlatMap(g, z) = z}
<1>1. <<>> \in G
  <2>1. <<>> \in Seq(X)
    OBVIOUS
  <2> QED BY <2>1, FlatMapNothing
<1>2. ASSUME NEW z \in Seq(X), NEW e \in X, z \in G PROVE Append(z, e) \in G
  <2>1. ToSet(Append(z, e)) = ToSet(z) \cup {e} /\ Append(z, e) \in Seq(X)
    BY ToSetAppend
  <2>2. FlatMap(g, Append(z, e)) = FlatMap(g, z) \o g[e]
    BY FlatMapAppend
  <2>3. Append(z, e) = z \o <<e>>
    OBVIOUS
  <2> QED BY <1>2, <2>1, <2>2, <2>3
<1> HIDE DEF G
<1>3. Seq(X) \subseteq G
  BY <1>1, <1>2, SeqSets
<1> QED BY <1>3 DEF G

LEMMA Prefix ==
  ASSUME NEW S, NEW x \in Seq(S)
  PROVE  /\ SubSeq(x, 1, 0) = <<>> /\ SubSeq(x, 1, Len(x)) = x
         /\ \A n \in Nat : n + 1 <= Len(x) =>
              /\ SubSeq(x, 1, n) \in Seq(S) /\ x[n + 1] \in S
              /\ SubSeq(x, 1, n + 1) = Append(SubSeq(x, 1, n), x[n + 1])
<1>1. SubSeq(x, 1, 0) = <<>> /\ SubSeq(x, 1, Len(x)) = x
  BY SubSeqEmpty, SubSeqFull
<1>2. ASSUME NEW n \in Nat, n + 1 <= Len(x)
      PROVE  /\ SubSeq(x, 1, n) \in Seq(S) /\ x[n + 1] \in S
             /\ SubSeq(x, 1, n + 1) = Append(SubSeq(x, 1, n), x[n + 1])
  <2>1. n + 1 \in 1..Len(x) /\ Len(x) \in Nat
    BY <1>2
  <2>2. x[n + 1] \in S /\ SubSeq(x, 1, n) \in Seq(S) /\ SubSeq(x, 1, n + 1) \in Seq(S)
    BY <1>2, <2>1
  <2>3. SubSeq(x, 1, n + 1) = Append(SubSeq(x, 1, n), x[n + 1])
    BY <1>2, <2>1, <2>2
  <2> QED BY <2>2, <2>3
<1> QED BY <1>1, <1>2

LEMMA PrefixOfConcat ==
  ASSUME NEW S, NEW a \in Seq(S), NEW r \in Seq(S)
  PROVE  SubSeq(a \o r, 1, Len(a)) = a
<1> DEFINE z == a \o r
           k == Len(a)
           p == SubSeq(z, 1, k)
<1>1. /\ z \in Seq(S) /\ k \in Nat /\ k <= Len(z) /\ \A i \in 1..k : z[i] = a[i]
      /\ a = [i \in 1..k |-> a[i]]
  OBVIOUS
<1> HIDE DEF z, k
<1>2. p = [i \in 1..k |-> z[i]]
  BY <1>1
<1> QED BY <1>1, <1>2 DEF z, k

(* A queue that is drained has the levels in it, one after the other: x is *)
(* what was taken from it, start what it held first, and each that is      *)
(* taken adds what inc makes of it.                                        *)
AreLevels(lev, X, inc, start, M) ==
  /\ lev \in Seq(Seq(X)) /\ Len(lev) = M + 1 /\ lev[1] = start
  /\ \A n \in 1..M : lev[n + 1] = FlatMap(inc, lev[n])

IsDrained(x, inc, start) ==
  /\ x = start \o FlatMap(inc, x)
  /\ \A n \in Nat : n < Len(x) => Len(start \o FlatMap(inc, SubSeq(x, 1, n))) > n

Associative(X) == \A a, b, c \in Seq(X) : (a \o b) \o c = a \o (b \o c)

LEMMA ConcatAssociates ==
  ASSUME NEW X
  PROVE  Associative(X)
BY ConcatAssociative DEF Associative

(* The first n levels, one after the other: each adds to those before it   *)
(* what they include.                                                      *)
Upto(lev, n) == FlattenSeq(SubSeq(lev, 1, n))

LevelsAddUp(lev, X, inc, start, M) ==
  /\ Upto(lev, 0) = <<>> /\ Upto(lev, M + 1) = FlattenSeq(lev)
  /\ \A n \in 0..M :
       /\ Upto(lev, n) \in Seq(X) /\ lev[n + 1] \in Seq(X)
       /\ Upto(lev, n + 1) \in Seq(X)
       /\ Upto(lev, n + 1) = Upto(lev, n) \o lev[n + 1]
       /\ Upto(lev, n + 1) = start \o FlatMap(inc, Upto(lev, n))

LEMMA LevelPrefixes ==
  ASSUME NEW X, NEW inc, IsMap(inc, X, Seq(X)), NEW start \in Seq(X), NEW M \in Nat,
         NEW lev, AreLevels(lev, X, inc, start, M)
  PROVE  LevelsAddUp(lev, X, inc, start, M)
<1>0. ASSUME NEW a \in Seq(X), NEW b \in Seq(X), NEW c \in Seq(X)
      PROVE  (a \o b) \o c = a \o (b \o c)
  <2>1. Associative(X)
    BY ConcatAssociates
  <2> QED BY <2>1, ZenonT(40) DEF Associative
<1> DEFINE P(n) == FlattenSeq(SubSeq(lev, 1, n))
           FM(y) == FlatMap(inc, y)
<1>1. P(0) = <<>> /\ P(M + 1) = FlattenSeq(lev)
  <2>1. lev \in Seq(Seq(X)) /\ Len(lev) = M + 1
    BY DEF AreLevels
  <2>2. SubSeq(lev, 1, 0) = <<>> /\ SubSeq(lev, 1, Len(lev)) = lev
    BY <2>1, Prefix
  <2> QED BY <2>1, <2>2, FlattenNothing
<1>2. ASSUME NEW n \in 0..M
      PROVE  /\ P(n) \in Seq(X) /\ lev[n + 1] \in Seq(X)
             /\ P(n + 1) = P(n) \o lev[n + 1] /\ P(n + 1) \in Seq(X)
  <2> DEFINE s == SubSeq(lev, 1, n)
             l == lev[n + 1]
  <2>1. n \in Nat /\ n + 1 <= Len(lev) /\ lev \in Seq(Seq(X))
    BY DEF AreLevels
  <2>2. /\ s \in Seq(Seq(X)) /\ l \in Seq(X)
        /\ SubSeq(lev, 1, n + 1) = Append(s, l)
    BY <2>1, Prefix
  <2> HIDE DEF s, l
  <2>3. FlattenSeq(Append(s, l)) = FlattenSeq(s) \o l /\ FlattenSeq(s) \in Seq(X)
    BY <2>2, FlattenAppend, FlattenType
  <2>4. FlattenSeq(s) \o l \in Seq(X)
    BY <2>2, <2>3
  <2> QED BY <2>2, <2>3, <2>4 DEF s, l
<1>3. ASSUME NEW y \in Seq(X) PROVE FM(y) \in Seq(X)
  BY FlatMapType
<1>4. ASSUME NEW y \in Seq(X), NEW z \in Seq(X) PROVE FM(y \o z) = FM(y) \o FM(z)
  BY FlatMapConcat, SMTT(30)
<1>5. FM(<<>>) = <<>>
  BY FlatMapNothing
<1> HIDE DEF P, FM
<1>6. ASSUME NEW y \in Seq(X) PROVE <<>> \o y = y /\ y \o <<>> = y
  OBVIOUS
<1>7. \A n \in 0..M : P(n + 1) = start \o FM(P(n))
  <2> DEFINE G == {n \in Nat : n <= M => P(n + 1) = start \o FM(P(n))}
  <2>1. 0 \in G
    <3>1. P(0 + 1) = P(0) \o lev[0 + 1] /\ lev[0 + 1] = start
      <4>1. 0 \in 0..M /\ 0 + 1 = 1
        OBVIOUS
      <4>2. P(0 + 1) = P(0) \o lev[0 + 1]
        BY <1>2, <4>1
      <4>3. lev[0 + 1] = start
        BY <4>1 DEF AreLevels
      <4> QED BY <4>2, <4>3
    <3> QED BY <1>1, <1>5, <1>6, <3>1
  <2>2. ASSUME NEW n \in Nat, n \in G PROVE n + 1 \in G
    <3> SUFFICES ASSUME n + 1 <= M PROVE P((n + 1) + 1) = start \o FM(P(n + 1))
      OBVIOUS
    <3> DEFINE a == P(n)
               l == lev[n + 1]
    <3>1. n \in 0..M /\ n + 1 \in 0..M /\ n + 1 \in 1..M
      OBVIOUS
    <3>2. /\ a \in Seq(X) /\ l \in Seq(X) /\ P(n + 1) = a \o l
          /\ P((n + 1) + 1) = P(n + 1) \o lev[(n + 1) + 1]
      BY <1>2, <3>1
    <3>3. lev[(n + 1) + 1] = FM(l)
      BY <3>1 DEF FM, AreLevels
    <3>4. P(n + 1) = start \o FM(a)
      BY <2>2, <3>1
    <3> HIDE DEF a, l
    <3>5. FM(a) \in Seq(X) /\ FM(l) \in Seq(X) /\ FM(a \o l) = FM(a) \o FM(l)
      BY <1>3, <1>4, <3>2
    <3>6. (start \o FM(a)) \o FM(l) = start \o (FM(a) \o FM(l))
      BY <1>0, <3>5
    <3> QED BY <3>2, <3>3, <3>4, <3>5, <3>6
  <2> HIDE DEF G
  <2>3. ASSUME NEW n \in Nat PROVE n \in G
    BY <2>1, <2>2, NatSets
  <2>4. \A n \in 0..(M + 1) : n \in Nat /\ n <= M + 1 /\ (n \in 0..M => n <= M)
    OBVIOUS
  <2>5. \A n \in 0..M : n \in 0..(M + 1)
    OBVIOUS
  <2> QED BY <2>3, <2>4, <2>5 DEF G
<1>8. \A n : Upto(lev, n) = P(n)
  BY DEF Upto, P
<1> QED BY <1>1, <1>2, <1>7, <1>8 DEF LevelsAddUp, FM

LEMMA Drained ==
  ASSUME NEW X, NEW inc, IsMap(inc, X, Seq(X)), NEW start \in Seq(X), NEW M \in Nat,
         NEW lev, AreLevels(lev, X, inc, start, M),
         NEW x \in Seq(X), Len(x) <= M, IsDrained(x, inc, start)
  PROVE  lev[M + 1] = <<>> /\ x = FlattenSeq(lev)
<1>0. ASSUME NEW a \in Seq(X), NEW b \in Seq(X), NEW c \in Seq(X)
      PROVE  (a \o b) \o c = a \o (b \o c)
  <2>1. Associative(X)
    BY ConcatAssociates
  <2> QED BY <2>1, ZenonT(40) DEF Associative
<1> DEFINE P(n) == Upto(lev, n)
           FM(y) == FlatMap(inc, y)
<1>1. LevelsAddUp(lev, X, inc, start, M)
  BY LevelPrefixes
<1>2. /\ P(0) = <<>> /\ P(M + 1) = FlattenSeq(lev)
      /\ \A n \in 0..M :
           /\ P(n) \in Seq(X) /\ lev[n + 1] \in Seq(X)
           /\ P(n + 1) = P(n) \o lev[n + 1] /\ P(n + 1) \in Seq(X)
  BY <1>1 DEF LevelsAddUp
<1>3. ASSUME NEW y \in Seq(X) PROVE FM(y) \in Seq(X)
  BY FlatMapType
<1>4. ASSUME NEW y \in Seq(X), NEW z \in Seq(X) PROVE FM(y \o z) = FM(y) \o FM(z)
  BY FlatMapConcat, SMTT(30)
<1>5. FM(<<>>) = <<>>
  BY FlatMapNothing
<1>7. \A n \in 0..M : P(n + 1) = start \o FM(P(n))
  BY <1>1 DEF LevelsAddUp
<1> HIDE DEF P, FM
<1>6. ASSUME NEW y \in Seq(X) PROVE <<>> \o y = y /\ y \o <<>> = y
  OBVIOUS
<1>8. \A n \in 0..(M + 1) : \E r \in Seq(X) : x = P(n) \o r
  <2> DEFINE G == {n \in Nat : n <= M + 1 => \E r \in Seq(X) : x = P(n) \o r}
  <2>1. 0 \in G
    BY <1>2, <1>6
  <2>2. ASSUME NEW n \in Nat, n \in G PROVE n + 1 \in G
    <3> SUFFICES ASSUME n + 1 <= M + 1 PROVE \E r \in Seq(X) : x = P(n + 1) \o r
      BY SMTT(30)
    <3>1. n \in 0..M /\ n <= M + 1 /\ n + 1 \in 1..(M + 1)
      OBVIOUS
    <3>2. PICK r \in Seq(X) : x = P(n) \o r
      BY <2>2, <3>1
    <3> DEFINE a == P(n)
    <3>3. a \in Seq(X) /\ P(n + 1) = start \o FM(a)
      BY <1>2, <1>7, <3>1
    <3>4. x = start \o FM(a \o r)
      BY <3>2 DEF FM, IsDrained
    <3> HIDE DEF a
    <3>5. FM(a) \in Seq(X) /\ FM(r) \in Seq(X) /\ FM(a \o r) = FM(a) \o FM(r)
      BY <1>3, <1>4, <3>3
    <3>6. (start \o FM(a)) \o FM(r) = start \o (FM(a) \o FM(r))
      BY <1>0, <3>5
    <3>7. x = P(n + 1) \o FM(r)
      BY <3>3, <3>4, <3>5, <3>6
    <3> QED BY <3>5, <3>7
  <2> HIDE DEF G
  <2>3. ASSUME NEW n \in Nat PROVE n \in G
    BY <2>1, <2>2, NatSets
  <2>4. \A n \in 0..(M + 1) : n \in Nat /\ n <= M + 1 /\ (n \in 0..M => n <= M)
    OBVIOUS
  <2>5. \A n \in 0..M : n \in 0..(M + 1)
    OBVIOUS
  <2> QED BY <2>3, <2>4, <2>5 DEF G
<1>9. \E n \in 1..(M + 1) : lev[n] = <<>>
  <2> SUFFICES ASSUME \A n \in 1..(M + 1) : lev[n] # <<>> PROVE FALSE
    OBVIOUS
  <2> DEFINE G == {n \in Nat : n <= M + 1 => Len(P(n)) >= n}
  <2>1. 0 \in G
    BY <1>2
  <2>2. ASSUME NEW n \in Nat, n \in G PROVE n + 1 \in G
    <3> SUFFICES ASSUME n + 1 <= M + 1 PROVE Len(P(n + 1)) >= n + 1
      OBVIOUS
    <3> DEFINE a == P(n)
               l == lev[n + 1]
    <3>1. n \in 0..M /\ n + 1 \in 1..(M + 1) /\ n <= M + 1
      OBVIOUS
    <3>2. a \in Seq(X) /\ l \in Seq(X) /\ l # <<>> /\ P(n + 1) = a \o l /\ Len(a) >= n
      BY <1>2, <2>2, <3>1
    <3> HIDE DEF a, l
    <3>3. Len(a \o l) = Len(a) + Len(l) /\ Len(l) \in Nat /\ Len(l) > 0 /\ Len(a) \in Nat
      <4>1. a \in Seq(X) /\ l \in Seq(X) /\ l # <<>>
        BY <3>2
      <4> QED BY <4>1
    <3> QED BY <3>2, <3>3
  <2> HIDE DEF G
  <2>3. M + 1 \in G
    BY <2>1, <2>2, NatSets
  <2>4. Len(P(M + 1)) >= M + 1
    BY <2>3 DEF G
  <2>5. PICK r \in Seq(X) : x = P(M + 1) \o r
    <3>1. M + 1 \in 0..(M + 1)
      OBVIOUS
    <3> QED BY <1>8, <3>1
  <2>6. P(M + 1) \in Seq(X)
    <3>1. M \in 0..M
      OBVIOUS
    <3> QED BY <1>2, <3>1
  <2>7. Len(x) = Len(P(M + 1)) + Len(r) /\ Len(r) \in Nat /\ Len(P(M + 1)) \in Nat
    BY <2>5, <2>6
  <2> QED BY <2>4, <2>7
<1>10. lev[M + 1] = <<>>
  <2>1. PICK k \in 1..(M + 1) : lev[k] = <<>>
    BY <1>9
  <2> DEFINE G == {n \in Nat : k + n <= M + 1 => lev[k + n] = <<>>}
  <2>2. 0 \in G
    BY <2>1
  <2>3. ASSUME NEW n \in Nat, n \in G PROVE n + 1 \in G
    <3> SUFFICES ASSUME k + (n + 1) <= M + 1 PROVE lev[k + (n + 1)] = <<>>
      OBVIOUS
    <3>1. k + n \in 1..M /\ k + (n + 1) = (k + n) + 1 /\ k + n <= M + 1
      OBVIOUS
    <3>2. lev[k + n] = <<>>
      BY <2>3, <3>1
    <3>3. lev[(k + n) + 1] = FM(<<>>)
      BY <3>1, <3>2 DEF FM, AreLevels
    <3> QED BY <1>5, <3>1, <3>3
  <2> HIDE DEF G
  <2>4. (M + 1) - k \in Nat /\ k + ((M + 1) - k) = M + 1
    OBVIOUS
  <2>5. (M + 1) - k \in G
    BY <2>2, <2>3, <2>4, NatSets
  <2> QED BY <2>4, <2>5 DEF G
<1>11. x = FlattenSeq(lev)
  <2> DEFINE a == P(M)
             k == Len(a)
  <2>1. M \in 0..M /\ M \in 0..(M + 1)
    OBVIOUS
  <2>2. a \in Seq(X) /\ P(M + 1) = a /\ P(M + 1) = start \o FM(a)
    BY <1>2, <1>6, <1>7, <1>10, <2>1
  <2>3. PICK r \in Seq(X) : x = a \o r
    BY <1>8, <2>1
  <2> HIDE DEF a
  <2>4. r = <<>>
    <3> SUFFICES ASSUME r # <<>> PROVE FALSE
      OBVIOUS
    <3>1. Len(r) \in Nat /\ Len(r) > 0 /\ k \in Nat /\ Len(x) = k + Len(r)
      BY <2>2, <2>3
    <3>2. SubSeq(x, 1, k) = a
      <4>1. a \in Seq(X) /\ r \in Seq(X)
        BY <2>2, <2>3
      <4>2. SubSeq(a \o r, 1, Len(a)) = a
        BY <4>1, PrefixOfConcat
      <4> QED BY <2>3, <4>2
    <3>3. Len(start \o FM(SubSeq(x, 1, k))) > k
      BY <3>1 DEF FM, IsDrained
    <3>4. start \o FM(a) = a
      BY <2>2
    <3>5. Len(start \o FM(a)) > k
      BY <3>2, <3>3
    <3>6. Len(a) > k
      BY <3>4, <3>5
    <3> QED BY <3>1, <3>6
  <2> QED BY <1>2, <1>6, <2>2, <2>3, <2>4
<1> QED BY <1>10, <1>11

-----------------------------------------------------------------------------
(* What merging keeps.                                                     *)

IsService(srv) == \A k \in DOMAIN srv : IsValue(srv[k])

(* Kept in terms of a map.                                                 *)
Keeping(X, T) == [e \in X |-> IF e \in T THEN <<e>> ELSE <<>>]

LEMMA KeepingMaps ==
  ASSUME NEW X, NEW T
  PROVE  IsMap(Keeping(X, T), X, Seq(X))
<1>1. ASSUME NEW e \in X PROVE (IF e \in T THEN <<e>> ELSE <<>>) \in Seq(X)
  OBVIOUS
<1> QED BY <1>1 DEF IsMap, Keeping

LEMMA KeptIsMapped ==
  ASSUME NEW X, NEW seq \in Seq(X), NEW T
  PROVE  Kept(seq, T) = FlatMap(Keeping(X, T), seq)
<1>1. \A n \in DOMAIN seq : seq[n] \in X
  OBVIOUS
<1>2. Mapped(Keeping(X, T), seq) = [n \in DOMAIN seq |-> IF seq[n] \in T THEN <<seq[n]>> ELSE <<>>]
  BY <1>1 DEF Mapped, Keeping
<1> QED BY <1>2 DEF Kept, FlatMap

LEMMA KeptIs ==
  ASSUME NEW X, NEW seq \in Seq(X), NEW T
  PROVE  Kept(seq, T) \in Seq(X) /\ ToSet(Kept(seq, T)) = ToSet(seq) \cap T
<1> DEFINE g == Keeping(X, T)
<1>1. IsMap(g, X, Seq(X)) /\ Kept(seq, T) = FlatMap(g, seq)
  BY KeepingMaps, KeptIsMapped
<1>2. ToSet(seq) \subseteq X
  BY ToSetLaws
<1>3. \A e \in X : g[e] = IF e \in T THEN <<e>> ELSE <<>>
  BY DEF Keeping
<1> HIDE DEF g
<1>4. FlatMap(g, seq) \in Seq(X) /\ ToSet(FlatMap(g, seq)) = UNION {ToSet(g[e]) : e \in ToSet(seq)}
  BY <1>1, FlatMapType, FlatMapSet
<1>5. ASSUME NEW e \in ToSet(seq) PROVE ToSet(g[e]) = {e} \cap T
  <2>1. ToSet(<<e>>) = {e} /\ ToSet(<<>>) = {}
    BY DEF ToSet
  <2> QED BY <1>2, <1>3, <2>1
<1> QED BY <1>1, <1>4, <1>5

(* A list is one of what is in it.                                         *)
LEMMA ListOf ==
  ASSUME NEW S, NEW x \in Seq(S)
  PROVE  x \in Seq(ToSet(x))
<1>1. Len(x) \in Nat /\ x = [i \in 1..Len(x) |-> x[i]]
  OBVIOUS
<1> QED BY <1>1, ListIs

LEMMA SupersededIs ==
  ASSUME NEW S, NEW value \in Seq(S), NEW value2
  PROVE  Superseded(value, value2) \in Seq(ToSet(Superseded(value, value2)))
<1>1. Superseded(value, value2) \in Seq(S)
  BY KeptIs DEF Superseded
<1> QED BY <1>1, ListOf

LEMMA ConcatIs ==
  ASSUME NEW S, NEW T, NEW x \in Seq(S), NEW y \in Seq(T)
  PROVE  /\ x \o y \in Seq(ToSet(x \o y))
         /\ Len(x \o y) = Len(x) + Len(y)
         /\ \A i \in 1..Len(y) : (x \o y)[Len(x) + i] = y[i]
<1>1. x \in Seq(S \cup T) /\ y \in Seq(S \cup T)
  OBVIOUS
<1>2. /\ x \o y \in Seq(S \cup T)
      /\ Len(x \o y) = Len(x) + Len(y)
      /\ \A i \in 1..Len(y) : (x \o y)[Len(x) + i] = y[i]
  BY <1>1
<1>3. ASSUME NEW z \in Seq(S \cup T) PROVE z \in Seq(ToSet(z))
  <2>1. Len(z) \in Nat /\ z = [i \in 1..Len(z) |-> z[i]]
    OBVIOUS
  <2> QED BY <2>1, ListIs
<1> QED BY <1>2, <1>3

(* Whatever is put before a list, the list is a suffix. *)
LEMMA SuffixOf ==
  ASSUME NEW S, NEW T, NEW x \in Seq(S), NEW y \in Seq(T)
  PROVE  IsSuffix(y, x \o y)
<1> DEFINE z == x \o y
           n == Len(y)
           l == Len(x) + n
           ry == Reverse(y)
           rz == Reverse(z)
<1>1. /\ Len(z) = l /\ n \in Nat /\ Len(x) \in Nat
      /\ \A i \in 1..n : z[Len(x) + i] = y[i]
  BY ConcatIs
<1> HIDE DEF z
<1>2. /\ ry = [i \in 1..n |-> y[(n - i) + 1]]
      /\ rz = [i \in 1..l |-> z[(l - i) + 1]]
  BY <1>1 DEF Reverse
<1>3. \A i \in 1..n : /\ i \in 1..l /\ (n - i) + 1 \in 1..n
                      /\ (l - i) + 1 = Len(x) + ((n - i) + 1)
  BY <1>1
<1> HIDE DEF n, l, ry, rz
<1>4. \A i \in 1..n : ry[i] = rz[i]
  BY <1>1, <1>2, <1>3
<1>5. /\ ry \in Seq(ToSet(ry)) /\ Len(ry) = n
      /\ rz \in Seq(ToSet(rz)) /\ Len(rz) = l /\ n <= l
  <2>1. l \in Nat /\ n <= l
    BY <1>1 DEF l
  <2>2. /\ ry = [i \in 1..n |-> ry[i]]
        /\ rz = [i \in 1..l |-> rz[i]]
    BY <1>2
  <2> QED BY <1>1, <2>1, <2>2, ListIs
<1>6. SubSeq(ry, 1, n) = SubSeq(rz, 1, n)
  <2>1. /\ SubSeq(ry, 1, n) = [i \in 1..n |-> ry[i]]
        /\ SubSeq(rz, 1, n) = [i \in 1..n |-> rz[i]]
    BY <1>1, <1>5
  <2> QED BY <1>4, <2>1
<1>7. IsPrefix(ry, rz)
  BY <1>5, <1>6 DEF IsPrefix
<1> QED BY <1>7 DEF IsSuffix, ry, rz, z

LEMMA SuffixOfItself ==
  ASSUME NEW S, NEW y \in Seq(S)
  PROVE  IsSuffix(y, y)
<1>1. <<>> \in Seq(S) /\ <<>> \o y = y
  OBVIOUS
<1> QED BY <1>1, SuffixOf

(* One key of rec_merge_one. *)
ScalarsMerged(all, x, y) ==
  /\ DOMAIN all = DOMAIN x \cup DOMAIN y
  /\ \A j \in DOMAIN x \ DOMAIN y : all[j] = x[j]
  /\ \A j \in DOMAIN y \ DOMAIN x : all[j] = y[j]
  /\ \A j \in DOMAIN x \cap DOMAIN y :
       /\ j \in Replaced \/ x[j].t = y[j].t => all[j] = y[j]
       /\ ~ (j \in Replaced \/ x[j].t = y[j].t) => all[j] = Raised

LEMMA MergeScalarsAt ==
  ASSUME NEW x, NEW y
  PROVE  ScalarsMerged(MergeScalars(x, y), x, y)
<1> DEFINE merged == [k \in Common(x, y) |->
                        IF k \in Replaced \/ x[k].t = y[k].t THEN y[k] ELSE Raised]
           all == MergeScalars(x, y)
<1>1. all = MergedKeys(x, y, merged)
  BY DEF MergeScalars
<1>2. \A k \in DOMAIN x \cap DOMAIN y :
        /\ k \in Replaced \/ x[k].t = y[k].t => merged[k] = y[k]
        /\ ~ (k \in Replaced \/ x[k].t = y[k].t) => merged[k] = Raised
  BY DEF Common
<1> HIDE DEF merged, all
<1>3. /\ DOMAIN all = DOMAIN x \cup DOMAIN y
      /\ \A j \in DOMAIN x \ DOMAIN y : all[j] = x[j]
      /\ \A j \in DOMAIN y \ DOMAIN x : all[j] = y[j]
      /\ \A j \in DOMAIN x \cap DOMAIN y : all[j] = merged[j]
  BY <1>1 DEF MergedKeys
<1>4. ScalarsMerged(all, x, y)
  BY <1>2, <1>3 DEF ScalarsMerged
<1> QED BY <1>4 DEF all

LEMMA MergeValueIs ==
  ASSUME NEW k, NEW value, NEW value2, IsValue(value), IsValue(value2)
  PROVE  IsValue(MergeValue(k, value, value2))
<1> DEFINE new == MergeValue(k, value, value2)
<1>1. CASE k \in Replaced
  BY <1>1 DEF MergeValue
<1>2. CASE k \notin Replaced /\ value.t # value2.t
  <2>1. new = Raised
    BY <1>2 DEF MergeValue
  <2>2. IsValue(Raised)
    BY DEF IsValue, Raised
  <2> QED BY <2>1, <2>2
<1>3. CASE k \notin Replaced /\ value.t = value2.t
  <2> DEFINE kept == IF k = "volumes" THEN Superseded(value.v, value2.v) ELSE value.v
             scalars == MergeScalars(value.v, value2.v)
  <2>1. CASE value.t = "list"
    <3>1. new = [value EXCEPT !.v = kept \o value2.v]
      BY <1>3, <2>1 DEF MergeValue
    <3>2. value.v \in Seq(ToSet(value.v)) /\ value2.v \in Seq(ToSet(value2.v))
      BY <1>3, <2>1 DEF IsValue
    <3>3. kept \in Seq(ToSet(kept))
      BY <3>2, SupersededIs
    <3> HIDE DEF kept
    <3>4. kept \o value2.v \in Seq(ToSet(kept \o value2.v))
      BY <3>2, <3>3, ConcatIs
    <3>5. /\ new.t = "list" /\ new.v = kept \o value2.v
          /\ {"t", "v"} \subseteq DOMAIN new
      BY <2>1, <3>1 DEF IsValue
    <3> QED BY <3>4, <3>5 DEF IsValue
  <2>2. CASE value.t = "dict"
    <3>1. new = [value EXCEPT !.v = scalars]
      BY <1>3, <2>2 DEF MergeValue
    <3>0. ScalarsMerged(scalars, value.v, value2.v)
      BY MergeScalarsAt
    <3> HIDE DEF scalars
    <3>2. /\ DOMAIN scalars = DOMAIN value.v \cup DOMAIN value2.v
          /\ \A j \in DOMAIN scalars :
               \/ j \in DOMAIN value.v /\ scalars[j] = value.v[j]
               \/ j \in DOMAIN value2.v /\ scalars[j] = value2.v[j]
               \/ scalars[j] = Raised
      BY <3>0 DEF ScalarsMerged
    <3>3. {"t", "v"} \subseteq DOMAIN Raised
      BY DEF Raised
    <3>4. \A j \in DOMAIN scalars : {"t", "v"} \subseteq DOMAIN scalars[j]
      BY <1>3, <2>2, <3>2, <3>3 DEF IsValue
    <3> QED BY <2>2, <3>1, <3>4 DEF IsValue
  <2>3. CASE value.t \notin {"list", "dict"}
    BY <1>3, <2>3 DEF MergeValue
  <2> QED BY <2>1, <2>2, <2>3
<1> QED BY <1>1, <1>2, <1>3

LEMMA MergeServiceAt ==
  ASSUME NEW target, NEW source
  PROVE  LET all == MergeService(target, source) IN
         /\ DOMAIN all = DOMAIN target \cup DOMAIN source
         /\ \A k \in DOMAIN all :
              all[k] = IF k \notin DOMAIN source THEN target[k]
                       ELSE IF k \notin DOMAIN target THEN source[k]
                       ELSE MergeValue(k, target[k], source[k])
<1> DEFINE merged == [k \in Common(target, source) |->
                        MergeValue(k, target[k], source[k])]
           all == MergeService(target, source)
<1>1. all = MergedKeys(target, source, merged)
  BY DEF MergeService
<1>2. \A k \in DOMAIN target \cap DOMAIN source :
        merged[k] = MergeValue(k, target[k], source[k])
  BY DEF Common
<1> HIDE DEF merged, all
<1>3. /\ DOMAIN all = DOMAIN target \cup DOMAIN source
      /\ \A k \in DOMAIN all :
           all[k] = IF k \notin DOMAIN source THEN target[k]
                    ELSE IF k \notin DOMAIN target THEN source[k] ELSE merged[k]
  BY <1>1 DEF MergedKeys
<1> QED BY <1>2, <1>3 DEF all

LEMMA MergeServiceIs ==
  ASSUME NEW target, NEW source, IsService(target), IsService(source)
  PROVE  IsService(MergeService(target, source))
<1> DEFINE all == MergeService(target, source)
<1>1. /\ DOMAIN all = DOMAIN target \cup DOMAIN source
      /\ \A k \in DOMAIN all :
           all[k] = IF k \notin DOMAIN source THEN target[k]
                    ELSE IF k \notin DOMAIN target THEN source[k]
                    ELSE MergeValue(k, target[k], source[k])
  BY MergeServiceAt
<1> HIDE DEF all
<1>2. ASSUME NEW k \in DOMAIN all PROVE IsValue(all[k])
  <2>1. k \in DOMAIN target => IsValue(target[k])
    BY DEF IsService
  <2>2. k \in DOMAIN source => IsValue(source[k])
    BY DEF IsService
  <2> QED BY <1>1, <2>1, <2>2, MergeValueIs
<1> QED BY <1>2 DEF IsService, all

(* rec_merge, service by service. *)
ServicesMerged(all, x, y) ==
  /\ DOMAIN all = DOMAIN x \cup DOMAIN y
  /\ \A s \in DOMAIN all :
       all[s] = IF s \notin DOMAIN y THEN x[s]
                ELSE IF s \notin DOMAIN x THEN y[s] ELSE MergeService(x[s], y[s])

LEMMA RecMergeAt ==
  ASSUME NEW x, NEW y
  PROVE  ServicesMerged(RecMerge(x, y), x, y)
<1> DEFINE merged == [s \in Common(x, y) |-> MergeService(x[s], y[s])]
           all == RecMerge(x, y)
<1>1. all = MergedKeys(x, y, merged)
  BY DEF RecMerge
<1>2. \A s \in DOMAIN x \cap DOMAIN y : merged[s] = MergeService(x[s], y[s])
  BY DEF Common
<1> HIDE DEF merged, all
<1>3. /\ DOMAIN all = DOMAIN x \cup DOMAIN y
      /\ \A s \in DOMAIN all :
           all[s] = IF s \notin DOMAIN y THEN x[s]
                    ELSE IF s \notin DOMAIN x THEN y[s] ELSE merged[s]
  BY <1>1 DEF MergedKeys
<1>4. ServicesMerged(all, x, y)
  BY <1>2, <1>3 DEF ServicesMerged
<1> QED BY <1>4 DEF all

LEMMA RecMergeIs ==
  ASSUME NEW target, NEW source, AreServices(target), AreServices(source)
  PROVE  AreServices(RecMerge(target, source))
<1> DEFINE all == RecMerge(target, source)
<1>1. /\ \A s \in DOMAIN target : IsService(target[s])
      /\ \A s \in DOMAIN source : IsService(source[s])
  BY DEF AreServices, IsService
<1>2. ServicesMerged(all, target, source)
  BY RecMergeAt
<1> HIDE DEF all
<1>3. \A s \in DOMAIN all : IsService(all[s])
  BY <1>1, <1>2, MergeServiceIs DEF ServicesMerged
<1> QED BY <1>3 DEF AreServices, IsService, all

(* A path instead of another leaves a service a service. *)
LEMMA RelocatedIs ==
  ASSUME NEW p, NEW srv, IsService(srv)
  PROVE  IsService(Relocated(p, srv))
<1>1. CASE Relocated(p, srv) = srv
  BY <1>1
<1>2. CASE Relocated(p, srv) # srv
  <2> DEFINE x == srv["extends"]
             w == [x.v EXCEPT !["file"].v = Joined(p, @)]
             y == [x EXCEPT !.v = w]
  <2>1. Relocated(p, srv) = [srv EXCEPT !["extends"] = y]
    BY <1>2 DEF Relocated
  <2>2. "extends" \in DOMAIN srv /\ IsValue(x)
    BY <1>2 DEF Relocated, IsService
  <2>3. x.t = "list" => w \in Seq(ToSet(w))
    <3> HAVE x.t = "list"
    <3>1. x.v \in Seq(ToSet(x.v))
      BY <2>2 DEF IsValue
    <3>2. Len(x.v) \in Nat /\ DOMAIN x.v = 1..Len(x.v)
      BY <3>1
    <3>3. w = [i \in 1..Len(x.v) |-> w[i]]
      BY <3>2
    <3> HIDE DEF w
    <3> QED BY <3>2, <3>3, ListIs
  <2>4. ASSUME x.t = "dict", NEW j \in DOMAIN w PROVE {"t", "v"} \subseteq DOMAIN w[j]
    <3>1. j \in DOMAIN x.v /\ {"t", "v"} \subseteq DOMAIN x.v[j]
      BY <2>2, <2>4 DEF IsValue
    <3> QED BY <3>1
  <2> HIDE DEF w
  <2>5. IsValue(y)
    BY <2>2, <2>3, <2>4 DEF IsValue
  <2> HIDE DEF y
  <2> QED BY <2>1, <2>5 DEF IsService
<1> QED BY <1>1, <1>2

(* Service x has what service y says of itself.                            *)
Over(x, y) ==
  \A k \in DOMAIN y :
    CASE y[k].t = "list" -> k = "command" \/ IsSuffix(y[k].v, x[k].v)
      [] y[k].t = "dict" -> \A j \in DOMAIN y[k].v : x[k].v[j] = y[k].v[j]
      [] OTHER -> x[k] = y[k]

LEMMA OverItself ==
  ASSUME NEW y, IsService(y)
  PROVE  Over(y, y)
<1> SUFFICES ASSUME NEW k \in DOMAIN y, y[k].t = "list" PROVE IsSuffix(y[k].v, y[k].v)
  BY DEF Over
<1>1. y[k].v \in Seq(ToSet(y[k].v))
  BY DEF IsService, IsValue
<1> QED BY <1>1, SuffixOfItself

LEMMA ScalarsOver ==
  ASSUME NEW x, NEW y, NEW all, all = MergeScalars(x, y),
         \A j \in DOMAIN all : all[j].t # "raised"
  PROVE  \A j \in DOMAIN y : all[j] = y[j]
<1>1. Raised.t = "raised"
  BY DEF Raised
<1>2. ScalarsMerged(all, x, y)
  BY MergeScalarsAt
<1> QED BY <1>1, <1>2 DEF ScalarsMerged

LEMMA RaisesNothing ==
  ASSUME NEW srv, ~ ServiceRaised(srv)
  PROVE  \A k \in DOMAIN srv :
           /\ srv[k].t # "raised"
           /\ srv[k].t = "dict" => \A j \in DOMAIN srv[k].v : srv[k].v[j].t # "raised"
<1>1. Raised.t = "raised"
  BY DEF Raised
<1> QED BY <1>1 DEF ServiceRaised

(* A merge that raises nothing keeps what the source says.                 *)
LEMMA OverMerged ==
  ASSUME NEW base, NEW srv, IsService(base), IsService(srv),
         NEW all, all = MergeService(base, srv), ~ ServiceRaised(all)
  PROVE  Over(all, srv)
<1>1. /\ DOMAIN all = DOMAIN base \cup DOMAIN srv
      /\ \A k \in DOMAIN all :
           all[k] = IF k \notin DOMAIN srv THEN base[k]
                    ELSE IF k \notin DOMAIN base THEN srv[k]
                    ELSE MergeValue(k, base[k], srv[k])
  BY MergeServiceAt
<1>2. \A k \in DOMAIN all :
        /\ all[k].t # "raised"
        /\ all[k].t = "dict" => \A j \in DOMAIN all[k].v : all[k].v[j].t # "raised"
  BY RaisesNothing
<1>3. ASSUME NEW k \in DOMAIN srv
      PROVE  CASE srv[k].t = "list" -> k = "command" \/ IsSuffix(srv[k].v, all[k].v)
               [] srv[k].t = "dict" -> \A j \in DOMAIN srv[k].v : all[k].v[j] = srv[k].v[j]
               [] OTHER -> all[k] = srv[k]
  <2>1. CASE all[k] = srv[k]
    <3>1. Over(srv, srv)
      BY OverItself
    <3> QED BY <2>1, <3>1 DEF Over
  <2>2. CASE all[k] # srv[k]
    <3> DEFINE value == base[k]
               value2 == srv[k]
               kept == IF k = "volumes" THEN Superseded(value.v, value2.v) ELSE value.v
               scalars == MergeScalars(value.v, value2.v)
    <3>1. /\ k \in DOMAIN base /\ k \in DOMAIN all
          /\ all[k] = MergeValue(k, value, value2)
          /\ IsValue(value) /\ IsValue(value2)
      BY <1>1, <2>2 DEF IsService
    <3>2. k \notin Replaced
      BY <2>2, <3>1 DEF MergeValue
    <3>3. value.t = value2.t
      <4> SUFFICES ASSUME value.t # value2.t PROVE FALSE
        OBVIOUS
      <4>1. all[k] = Raised
        BY <3>1, <3>2 DEF MergeValue
      <4> QED BY <1>2, <3>1, <4>1 DEF Raised
    <3>4. CASE value.t = "list"
      <4>1. all[k] = [value EXCEPT !.v = kept \o value2.v]
        BY <3>1, <3>2, <3>3, <3>4 DEF MergeValue
      <4>2. value.v \in Seq(ToSet(value.v)) /\ value2.v \in Seq(ToSet(value2.v))
        BY <3>1, <3>3, <3>4 DEF IsValue
      <4>3. kept \in Seq(ToSet(kept))
        BY <4>2, SupersededIs
      <4> HIDE DEF kept
      <4>4. IsSuffix(value2.v, kept \o value2.v)
        BY <4>2, <4>3, SuffixOf
      <4>5. all[k].v = kept \o value2.v
        BY <3>1, <4>1 DEF IsValue
      <4> QED BY <3>3, <3>4, <4>4, <4>5
    <3>5. CASE value.t = "dict"
      <4>1. all[k] = [value EXCEPT !.v = scalars]
        BY <3>1, <3>2, <3>3, <3>5 DEF MergeValue
      <4> HIDE DEF scalars
      <4>2. all[k].v = scalars /\ all[k].t = "dict"
        BY <3>1, <3>5, <4>1 DEF IsValue
      <4>3. \A j \in DOMAIN value2.v : scalars[j] = value2.v[j]
        BY <1>2, <3>1, <4>2, ScalarsOver DEF scalars
      <4> QED BY <3>3, <3>5, <4>2, <4>3
    <3>6. CASE value.t \notin {"list", "dict"}
      BY <2>2, <3>1, <3>2, <3>3, <3>6 DEF MergeValue
    <3> QED BY <3>4, <3>5, <3>6
  <2> QED BY <2>1, <2>2
<1> QED BY <1>3 DEF Over

LEMMA EmptyIs == IsService(Empty) /\ AreServices(Empty)
<1>1. DOMAIN Empty = {}
  BY DEF Empty
<1> QED BY <1>1 DEF IsService, AreServices

(* Whatever the files hold as services are services.                       *)
TypeInv ==
  /\ disk \in Disks
  /\ AreServices(compose.services) /\ AreServices(hash)
  /\ pc \in {"extend", "done"} => AreServices(services)

LEMMA KindIs ==
  ASSUME disk \in Disks, NEW p
  PROVE  /\ Kind(p) \in {"missing", "other", "mapping"}
         /\ Kind(p) = "mapping" => AreServices(disk[p].services)
BY ReadingAssumption DEF Kind

LEMMA ReadFileKeeps ==
  ASSUME TypeInv, ReadFile
  PROVE  /\ AreServices(compose.services)'
         /\ pc' \in {"read", "raised", "exit"}
<1> DEFINE p == Head(pending)
           content == disk[p]
           name == IF project = <<>> THEN ProjectName(content) ELSE project
           read2 == [s \in DOMAIN content.services |-> Relocated(p, content.services[s])]
           merged == RecMerge(compose.services, read2)
<1>1. /\ pc = "read"
      /\ CASE Kind(p) = "missing" ->
                pc' = "raised" /\ UNCHANGED <<pending, read, compose, project>>
           [] Kind(p) = "other" ->
                pc' = "exit" /\ UNCHANGED <<pending, read, compose, project>>
           [] Kind(p) = "mapping" ->
                /\ read' = Append(read, p)
                /\ project' = name
                /\ IF \/ name = <<>> \/ ~ Supplied(p)
                      \/ \E s \in DOMAIN merged : ServiceRaised(merged[s])
                   THEN pc' = "raised" /\ UNCHANGED <<pending, compose>>
                   ELSE /\ TakeInclude(p, merged, compose.include \o content.include)
                        /\ UNCHANGED pc
  BY DEF ReadFile
<1>2. /\ Kind(p) \in {"missing", "other", "mapping"}
      /\ Kind(p) = "mapping" => AreServices(content.services)
  BY KindIs DEF TypeInv
<1> HIDE DEF merged, name
<1>3. CASE Kind(p) = "mapping"
  <2>1. \/ pc' = "raised" /\ UNCHANGED compose
        \/ UNCHANGED pc /\ compose'.services = merged
    <3>1. \/ pc' = "raised" /\ UNCHANGED compose
          \/ UNCHANGED pc /\ TakeInclude(p, merged, compose.include \o content.include)
      BY <1>1, <1>3
    <3>2. TakeInclude(p, merged, compose.include \o content.include)
            => compose'.services = merged
      BY DEF TakeInclude
    <3> QED BY <3>1, <3>2
  <2>2. AreServices(read2)
    <3>1. \A s \in DOMAIN content.services : IsService(content.services[s])
      BY <1>2, <1>3 DEF AreServices, IsService
    <3>2. \A s \in DOMAIN content.services : IsService(read2[s])
      BY <3>1, RelocatedIs
    <3>3. DOMAIN read2 = DOMAIN content.services
      OBVIOUS
    <3> HIDE DEF read2
    <3> QED BY <3>2, <3>3 DEF AreServices, IsService
  <2> HIDE DEF read2
  <2>3. AreServices(merged)
    BY <2>2, RecMergeIs DEF merged, TypeInv
  <2> QED BY <1>1, <2>1, <2>3 DEF TypeInv
<1>4. CASE Kind(p) # "mapping"
  <2>1. UNCHANGED compose /\ pc' \in {"raised", "exit"}
    BY <1>1, <1>2, <1>4
  <2> QED BY <2>1 DEF TypeInv
<1> QED BY <1>3, <1>4

(* Resolving a service puts it over a service, or changes nothing.         *)
LEMMA ExtendMerges ==
  ASSUME TypeInv, NEW s \in DOMAIN services, ExtendService(s)
  PROVE  \/ UNCHANGED services
         \/ \E base : /\ IsService(base)
                      /\ ~ ServiceRaised(Extended(base, services[s]))
                      /\ services' = [services EXCEPT ![s] = Extended(base, services[s])]
<1> DEFINE srv == services[s]
           names == {n \in Extends(srv, "service") :
                       \/ Extends(srv, "file") # {}
                            /\ \A p \in Extends(srv, "file") : Kind(p) = "mapping" /\ Supplied(p)
                       \/ Extends(srv, "file") = {} /\ n \in DOMAIN services}
           Found(n) == IF Extends(srv, "file") = {} THEN Without(services[n], "extends")
                       ELSE FileBase(CHOOSE p \in Extends(srv, "file") : TRUE, n)
           new == {Extended(base, srv) : base \in {Found(n) : n \in names}}
<1>1. /\ pc = "extend"
      /\ \/ UNCHANGED services
         \/ /\ ~ (new = {} \/ \E n \in new : ServiceRaised(n))
            /\ services' = [services EXCEPT ![s] = CHOOSE n \in new : TRUE]
  BY DEF ExtendService
<1>2. ASSUME NEW n \in names PROVE IsService(Found(n))
  <2>1. CASE Extends(srv, "file") = {}
    <3>1. IsService(services[n])
      BY <1>1, <1>2, <2>1 DEF TypeInv, AreServices, IsService
    <3>2. IsService(Without(services[n], "extends"))
      BY <3>1 DEF IsService, Without
    <3> QED BY <2>1, <3>2
  <2>2. CASE Extends(srv, "file") # {}
    <3> DEFINE p == CHOOSE p \in Extends(srv, "file") : TRUE
    <3>1. p \in Extends(srv, "file")
      BY <2>2
    <3>2. Kind(p) = "mapping"
      BY <1>2, <2>2, <3>1
    <3> HIDE DEF p
    <3>3. AreServices(disk[p].services)
      BY <3>2, KindIs DEF TypeInv
    <3>4. IsService(FileBase(p, n))
      BY <3>3, EmptyIs DEF FileBase, AreServices, IsService
    <3> QED BY <2>2, <3>4 DEF p
  <2> QED BY <2>1, <2>2
<1> HIDE DEF names, Found
<1>3. CASE ~ UNCHANGED services
  <2> DEFINE x == CHOOSE n \in new : TRUE
  <2>1. new # {} /\ services' = [services EXCEPT ![s] = x] /\ \A n \in new : ~ ServiceRaised(n)
    BY <1>1, <1>3
  <2>2. x \in new
    BY <2>1
  <2> HIDE DEF x
  <2>3. PICK n \in names : x = Extended(Found(n), srv)
    BY <2>2
  <2>4. IsService(Found(n)) /\ ~ ServiceRaised(Extended(Found(n), srv))
    BY <1>2, <2>1, <2>2, <2>3
  <2> QED BY <2>1, <2>3, <2>4
<1> QED BY <1>3

LEMMA ExtendedIs ==
  ASSUME NEW base, NEW srv, IsService(base), IsService(srv)
  PROVE  /\ IsService(Extended(base, srv))
         /\ ~ ServiceRaised(Extended(base, srv)) => Over(Extended(base, srv), srv)
<1>1. IsService(MergeService(Empty, base))
  BY EmptyIs, MergeServiceIs
<1> DEFINE copy == MergeService(Empty, base)
<1>2. Extended(base, srv) = MergeService(copy, srv)
  BY DEF Extended
<1> HIDE DEF copy
<1>3. IsService(MergeService(copy, srv))
  BY <1>1, MergeServiceIs DEF copy
<1>4. ~ ServiceRaised(MergeService(copy, srv)) => Over(MergeService(copy, srv), srv)
  BY <1>1, OverMerged DEF copy
<1> QED BY <1>2, <1>3, <1>4

LEMMA TypeNext ==
  ASSUME TypeInv, [Next]_vars
  PROVE  TypeInv'
<1>1. CASE Again
  <2>1. disk' \in Disks /\ compose'.services = Empty /\ hash' = Empty /\ pc' = "start"
    BY <1>1 DEF Again, Nothing
  <2> QED BY <2>1, EmptyIs DEF TypeInv
<1>2. CASE Start \/ Exhaust
  <2>1. UNCHANGED <<disk, compose, hash>> /\ pc' \notin {"extend", "done"}
    BY <1>2 DEF Start, Exhaust
  <2> QED BY <2>1 DEF TypeInv
<1>3. CASE ReadFile
  <2>1. UNCHANGED <<disk, hash>>
    BY <1>3 DEF ReadFile
  <2> QED BY <1>3, <2>1, ReadFileKeeps DEF TypeInv
<1>4. CASE FilesEnd
  <2>1. /\ UNCHANGED <<disk, compose>>
        /\ hash' = Selected(compose.services) /\ services' = Selected(compose.services)
    BY <1>4 DEF FilesEnd, Hashed
  <2>2. AreServices(Selected(compose.services))
    BY DEF TypeInv, AreServices, Selected
  <2> QED BY <2>1, <2>2 DEF TypeInv
<1>5. ASSUME NEW s \in extending, ExtendService(s) PROVE TypeInv'
  <2>1. UNCHANGED <<disk, compose, hash>> /\ pc = "extend"
    BY <1>5 DEF ExtendService
  <2>2. AreServices(services')
    <3>1. CASE s \notin DOMAIN services
      <4>1. services' = services \/ \E e : services' = [services EXCEPT ![s] = e]
        BY <1>5 DEF ExtendService
      <4> QED BY <2>1, <3>1, <4>1 DEF TypeInv, AreServices
    <3>2. CASE s \in DOMAIN services
      <4>1. IsService(services[s])
        BY <2>1, <3>2 DEF TypeInv, AreServices, IsService
      <4>2. services' = services \/ \E e : /\ services' = [services EXCEPT ![s] = e]
                                         /\ IsService(e)
        BY <1>5, <3>2, <4>1, ExtendMerges, ExtendedIs
      <4> QED BY <2>1, <4>2 DEF TypeInv, AreServices, IsService
    <3> QED BY <3>1, <3>2
  <2> QED BY <2>1, <2>2 DEF TypeInv
<1>6. CASE ExtendsEnd \/ UNCHANGED vars
  BY <1>6 DEF ExtendsEnd, TypeInv, vars
<1> QED BY <1>1, <1>2, <1>3, <1>4, <1>5, <1>6 DEF Next, Step

-----------------------------------------------------------------------------
(* What resolve_extends makes of what the hash is of.                      *)

(* The base of service s among those of h. *)
Base(h, s) == CHOOSE b \in Extends(h[s], "service") : TRUE

(* In srvs service s is what h says of it, over its base if it has one.    *)
ResolvedAs(h, srvs, s) ==
  IF Extends(h[s], "service") = {} THEN srvs[s] = h[s]
  ELSE srvs[s] = Extended(Without(IF Base(h, s) = s THEN h[s] ELSE srvs[Base(h, s)],
                                  "extends"),
                          h[s])

(* Done with those in D, in the order of rank. *)
ResolvedInOrder(h, srvs, D, rank) ==
  \A s \in D :
    /\ ResolvedAs(h, srvs, s)
    /\ Extends(h[s], "service") # {} =>
         \/ Base(h, s) = s
         \/ Base(h, s) \in D /\ rank[Base(h, s)] < rank[s]

NoOtherFiles(h) == \A s \in DOMAIN h : Extends(h[s], "file") = {}

Resolved(h, srvs, D) ==
  /\ srvs = [s \in DOMAIN h |-> srvs[s]]
  /\ D \subseteq DOMAIN h
  /\ \A s \in DOMAIN h \ D : srvs[s] = h[s]
  /\ NoOtherFiles(h) =>
       \E rank \in [DOMAIN h -> Nat] : ResolvedInOrder(h, srvs, D, rank)

HashInv ==
  /\ pc \in {"extend", "done"} =>
       /\ extending \subseteq DOMAIN hash
       /\ Resolved(hash, services, DOMAIN hash \ extending)
  /\ pc = "done" => extending = {}
  /\ last # <<>> => Resolved(last[1].hash, last[1].services, DOMAIN last[1].hash)

(* What the hash is of determines what the services resolve to.            *)
LEMMA ResolvedUnique ==
  ASSUME NEW h, NEW srvs, NEW srvs2,
         Resolved(h, srvs, DOMAIN h), Resolved(h, srvs2, DOMAIN h), NoOtherFiles(h)
  PROVE  srvs = srvs2
<1>1. PICK rank \in [DOMAIN h -> Nat] : ResolvedInOrder(h, srvs, DOMAIN h, rank)
  BY DEF Resolved
<1>2. \A s \in DOMAIN h : ResolvedAs(h, srvs2, s)
  BY DEF Resolved, ResolvedInOrder
<1>3. ASSUME NEW s \in DOMAIN h,
             \A u \in DOMAIN h : rank[u] < rank[s] => srvs[u] = srvs2[u]
      PROVE  srvs[s] = srvs2[s]
  <2>1. CASE Extends(h[s], "service") = {}
    BY <1>1, <1>2, <2>1 DEF ResolvedInOrder, ResolvedAs
  <2>2. CASE Extends(h[s], "service") # {} /\ Base(h, s) = s
    BY <1>1, <1>2, <2>2 DEF ResolvedInOrder, ResolvedAs
  <2>3. CASE Extends(h[s], "service") # {} /\ Base(h, s) # s
    <3>1. srvs[Base(h, s)] = srvs2[Base(h, s)]
      BY <1>1, <1>3, <2>3 DEF ResolvedInOrder
    <3> QED BY <1>1, <1>2, <2>3, <3>1 DEF ResolvedInOrder, ResolvedAs
  <2> QED BY <2>1, <2>2, <2>3
<1>4. \A s \in DOMAIN h : srvs[s] = srvs2[s]
  <2> DEFINE S == {s \in DOMAIN h : srvs[s] # srvs2[s]}
  <2> SUFFICES ASSUME S # {} PROVE FALSE
    OBVIOUS
  <2>1. PICK s \in S : \A u \in S : ~ rank[u] < rank[s]
    BY LowestRank
  <2> QED BY <1>3, <2>1
<1> QED BY <1>4 DEF Resolved

LEMMA Singleton ==
  ASSUME NEW srv, NEW k, Extends(srv, k) # {}
  PROVE  Extends(srv, k) = {CHOOSE b \in Extends(srv, k) : TRUE}
BY DEF Extends

(* Resolving a service with a base, when all are in one file.              *)
LEMMA ExtendsBase ==
  ASSUME NEW s, ExtendService(s), services[s] = hash[s], Extends(hash[s], "file") = {},
         Extends(hash[s], "service") # {}, pc' # "raised"
  PROVE  LET b == Base(hash, s) IN
         /\ b \in DOMAIN services
         /\ b = s \/ b \notin extending
         /\ services' = [services EXCEPT ![s] =
                           Extended(Without(services[b], "extends"), hash[s])]
         /\ extending' = extending \ {s} /\ UNCHANGED pc
<1> DEFINE srv == services[s]
           b == Base(hash, s)
           names == {n \in Extends(srv, "service") :
                       \/ Extends(srv, "file") # {}
                            /\ \A p \in Extends(srv, "file") : Kind(p) = "mapping" /\ Supplied(p)
                       \/ Extends(srv, "file") = {} /\ n \in DOMAIN services}
           bases == {IF Extends(srv, "file") = {} THEN Without(services[n], "extends")
                     ELSE FileBase(CHOOSE p \in Extends(srv, "file") : TRUE, n) : n \in names}
           new == {Extended(base, srv) : base \in bases}
<1>1. Extends(srv, "service") = {b}
  BY Singleton DEF Base
<1>2. BasesOf(s) = {b}
  BY <1>1 DEF BasesOf
<1>3. /\ BasesOf(s) \cap (extending \ {s}) = {}
      /\ IF new = {} \/ \E n \in new : ServiceRaised(n)
         THEN pc' = "raised" /\ UNCHANGED <<services, extending>>
         ELSE /\ services' = [services EXCEPT ![s] = CHOOSE n \in new : TRUE]
              /\ extending' = extending \ {s}
              /\ UNCHANGED pc
  BY DEF ExtendService
<1>4. /\ new # {}
      /\ services' = [services EXCEPT ![s] = CHOOSE n \in new : TRUE]
      /\ extending' = extending \ {s} /\ UNCHANGED pc
  BY <1>3
<1>5. names = {n \in {b} : n \in DOMAIN services}
  BY <1>1
<1> HIDE DEF names
<1>6. b \in DOMAIN services /\ names = {b}
  BY <1>4, <1>5
<1>7. bases = {Without(services[b], "extends")}
  BY <1>6
<1> HIDE DEF bases
<1>8. new = {Extended(Without(services[b], "extends"), hash[s])}
  BY <1>7
<1> HIDE DEF new
<1> QED BY <1>2, <1>3, <1>4, <1>6, <1>8

LEMMA ExtendKeeps ==
  ASSUME HashInv, NEW s \in extending, ExtendService(s)
  PROVE  HashInv'
<1> DEFINE D == DOMAIN hash \ extending
<1>1. /\ pc = "extend" /\ UNCHANGED <<hash, last>>
      /\ pc' \in {"extend", "raised"}
  BY DEF ExtendService
<1>2. last' # <<>> => Resolved(last'[1].hash, last'[1].services, DOMAIN last'[1].hash)
  BY <1>1 DEF HashInv
<1>3. CASE pc' = "raised"
  BY <1>2, <1>3 DEF HashInv
<1>4. CASE pc' = "extend"
  <2>1. /\ extending \subseteq DOMAIN hash /\ s \in DOMAIN hash
        /\ Resolved(hash, services, D)
        /\ services = [u \in DOMAIN hash |-> services[u]]
        /\ \A u \in extending : services[u] = hash[u]
    BY <1>1 DEF HashInv, Resolved
  <2>2. /\ extending' = extending \ {s}
        /\ services' = [u \in DOMAIN hash |-> services'[u]]
        /\ \A u \in DOMAIN hash : u # s => services'[u] = services[u]
    <3>1. extending' = extending \ {s}
      BY <1>4 DEF ExtendService
    <3>2. services' = services \/ \E e : services' = [services EXCEPT ![s] = e]
      BY DEF ExtendService
    <3> QED BY <2>1, <3>1, <3>2
  <2>3. ASSUME NoOtherFiles(hash)
        PROVE  \E rank \in [DOMAIN hash -> Nat] :
                 ResolvedInOrder(hash, services', D \cup {s}, rank)
    <3>1. PICK rank \in [DOMAIN hash -> Nat] : ResolvedInOrder(hash, services, D, rank)
      BY <2>1, <2>3 DEF Resolved
    <3>2. Extends(hash[s], "file") = {} /\ services[s] = hash[s]
      BY <2>1, <2>3 DEF NoOtherFiles
    <3>3. \A u \in D : u # s /\ u \in DOMAIN hash
      OBVIOUS
    <3>4. CASE Extends(hash[s], "service") = {}
      <4>1. services' = services
        BY <3>2, <3>4 DEF ExtendService
      <4>2. ResolvedAs(hash, services', s)
        BY <3>2, <3>4, <4>1 DEF ResolvedAs
      <4> QED BY <3>1, <3>4, <4>1, <4>2 DEF ResolvedInOrder
    <3>5. CASE Extends(hash[s], "service") # {}
      <4> DEFINE b == Base(hash, s)
                 rank2 == [rank EXCEPT ![s] = IF b = s THEN 0 ELSE rank[b] + 1]
      <4>1. /\ b \in DOMAIN services
            /\ b = s \/ b \notin extending
            /\ services' = [services EXCEPT ![s] =
                              Extended(Without(services[b], "extends"), hash[s])]
        BY <1>4, <3>2, <3>5, ExtendsBase
      <4>2. b \in DOMAIN hash /\ (b = s \/ b \in D)
        BY <2>1, <4>1
      <4> HIDE DEF b
      <4>3. /\ rank2 \in [DOMAIN hash -> Nat]
            /\ \A u \in D : rank2[u] = rank[u]
            /\ b # s => rank2[b] < rank2[s]
        BY <2>1, <3>3, <4>2
      <4> HIDE DEF rank2
      <4>4. services'[s] = Extended(Without(IF b = s THEN hash[s] ELSE services'[b],
                                            "extends"), hash[s])
        BY <2>1, <2>2, <3>2, <4>1, <4>2
      <4>5. ResolvedAs(hash, services', s)
        BY <3>5, <4>4 DEF ResolvedAs, b
      <4>6. ASSUME NEW u \in D
            PROVE  /\ ResolvedAs(hash, services', u)
                   /\ Extends(hash[u], "service") # {} =>
                        \/ Base(hash, u) = u
                        \/ Base(hash, u) \in D /\ rank2[Base(hash, u)] < rank2[u]
        <5>1. /\ ResolvedAs(hash, services, u)
              /\ Extends(hash[u], "service") # {} =>
                   \/ Base(hash, u) = u
                   \/ Base(hash, u) \in D /\ rank[Base(hash, u)] < rank[u]
          BY <3>1 DEF ResolvedInOrder
        <5>2. /\ services'[u] = services[u]
              /\ Extends(hash[u], "service") # {} /\ Base(hash, u) # u
                   => services'[Base(hash, u)] = services[Base(hash, u)]
          BY <2>2, <3>3, <5>1
        <5> QED BY <4>3, <5>1, <5>2 DEF ResolvedAs
      <4>7. Extends(hash[s], "service") # {} =>
              Base(hash, s) = s \/ (Base(hash, s) \in D /\ rank2[Base(hash, s)] < rank2[s])
        BY <4>2, <4>3 DEF b
      <4> QED BY <4>3, <4>5, <4>6, <4>7 DEF ResolvedInOrder
    <3> QED BY <3>4, <3>5
  <2>4. DOMAIN hash \ extending' = D \cup {s} /\ extending' \subseteq DOMAIN hash
    BY <2>1, <2>2
  <2>5. \A u \in DOMAIN hash \ (D \cup {s}) : services'[u] = hash[u]
    BY <2>1, <2>2
  <2>6. Resolved(hash, services', D \cup {s})
    BY <2>1, <2>2, <2>3, <2>5 DEF Resolved
  <2> QED BY <1>1, <1>2, <1>4, <2>4, <2>6 DEF HashInv
<1> QED BY <1>1, <1>3, <1>4

LEMMA HashNext ==
  ASSUME TypeInv, HashInv, [Next]_vars
  PROVE  HashInv'
<1>1. CASE Again
  <2>1. pc' = "start"
    BY <1>1 DEF Again
  <2>2. CASE pc = "done"
    <3>1. last' = <<[hash |-> hash, services |-> services]>>
      BY <1>1, <2>2 DEF Again
    <3>2. last'[1].hash = hash /\ last'[1].services = services
      BY <3>1
    <3>3. Resolved(hash, services, DOMAIN hash)
      BY <2>2 DEF HashInv
    <3> QED BY <2>1, <3>2, <3>3 DEF HashInv
  <2>3. CASE pc # "done"
    BY <1>1, <2>1, <2>3 DEF Again, HashInv
  <2> QED BY <2>2, <2>3
<1>2. CASE Start \/ ReadFile \/ Exhaust
  <2>1. UNCHANGED last /\ pc' \notin {"extend", "done"}
    <3>1. CASE ReadFile
      BY <3>1, ReadFileKeeps DEF ReadFile
    <3>2. CASE Start \/ Exhaust
      BY <3>2 DEF Start, Exhaust
    <3> QED BY <1>2, <3>1, <3>2
  <2> QED BY <2>1 DEF HashInv
<1>3. CASE FilesEnd
  <2>1. /\ services' = hash' /\ hash' = Selected(compose.services)
        /\ extending' = DOMAIN hash' /\ pc' = "extend" /\ UNCHANGED last
    BY <1>3 DEF FilesEnd, Hashed
  <2>2. hash' = [s \in DOMAIN hash' |-> hash'[s]]
    BY <2>1 DEF Selected
  <2>3. \E rank \in [DOMAIN hash' -> Nat] : ResolvedInOrder(hash', services', {}, rank)
    <3>1. [s \in DOMAIN hash' |-> 0] \in [DOMAIN hash' -> Nat]
      OBVIOUS
    <3> QED BY <3>1 DEF ResolvedInOrder
  <2>4. DOMAIN hash' \ extending' = {}
    BY <2>1
  <2>5. Resolved(hash', services', {})
    BY <2>1, <2>2, <2>3 DEF Resolved
  <2> QED BY <2>1, <2>4, <2>5 DEF HashInv
<1>4. ASSUME NEW s \in extending, ExtendService(s) PROVE HashInv'
  BY <1>4, ExtendKeeps
<1>5. CASE ExtendsEnd
  BY <1>5 DEF ExtendsEnd, HashInv
<1>6. CASE UNCHANGED vars
  BY <1>6 DEF HashInv, vars
<1> QED BY <1>1, <1>2, <1>3, <1>4, <1>5, <1>6 DEF Next, Step

(* What the invariants behind the theorems say holds throughout.           *)
THEOREM HashCorrect == Spec => [](TypeInv /\ HashInv)
<1>1. Init => TypeInv /\ HashInv
  <2> SUFFICES ASSUME Init PROVE TypeInv /\ HashInv
    OBVIOUS
  <2>1. /\ disk \in Disks /\ compose.services = Empty /\ hash = Empty
        /\ pc = "start" /\ last = <<>>
    BY DEF Init, Nothing
  <2>2. TypeInv
    BY <2>1, EmptyIs DEF TypeInv
  <2>3. HashInv
    BY <2>1 DEF HashInv
  <2> QED BY <2>2, <2>3
<1>2. TypeInv /\ HashInv /\ [Next]_vars => (TypeInv /\ HashInv)'
  BY TypeNext, HashNext
<1> QED BY <1>1, <1>2, PTL DEF Spec

(* Equal hashes mean equal services, whatever was edited in between and in *)
(* whatever order resolve_extends went, unless a base is in another file.  *)
THEOREM HashCoversServicesTheorem == Spec => []HashCoversServices
<1>1. HashInv => HashCoversServices
  <2> SUFFICES ASSUME HashInv, pc = "done", last # <<>>, last[1].hash = hash,
                      NoOtherFiles(hash)
               PROVE  last[1].services = services
    BY DEF HashCoversServices, NoOtherFiles
  <2>1. Resolved(hash, services, DOMAIN hash)
    BY DEF HashInv
  <2>2. Resolved(hash, last[1].services, DOMAIN hash)
    BY DEF HashInv
  <2> QED BY <2>1, <2>2, ResolvedUnique
<1> QED BY <1>1, HashCorrect, PTL

-----------------------------------------------------------------------------
(* What a service says itself.                                             *)

OverInv ==
  pc \in {"extend", "done"} => \A s \in DOMAIN hash : Over(services[s], hash[s])

LEMMA OverNext ==
  ASSUME TypeInv, HashInv, OverInv, [Next]_vars
  PROVE  OverInv'
<1>1. CASE Again \/ Start \/ ReadFile \/ Exhaust
  <2>1. pc' \notin {"extend", "done"}
    <3>1. CASE ReadFile
      BY <3>1, ReadFileKeeps
    <3>2. CASE Again \/ Start \/ Exhaust
      BY <3>2 DEF Again, Start, Exhaust
    <3> QED BY <1>1, <3>1, <3>2
  <2> QED BY <2>1 DEF OverInv
<1>2. CASE FilesEnd
  <2>1. services' = hash'
    BY <1>2 DEF FilesEnd, Hashed
  <2>2. \A s \in DOMAIN hash' : IsService(hash'[s])
    BY TypeNext DEF TypeInv, AreServices, IsService
  <2> QED BY <2>1, <2>2, OverItself DEF OverInv
<1>3. ASSUME NEW s \in extending, ExtendService(s) PROVE OverInv'
  <2>1. UNCHANGED hash /\ pc = "extend"
    BY <1>3 DEF ExtendService
  <2>2. DOMAIN services = DOMAIN hash /\ s \in DOMAIN hash /\ services[s] = hash[s]
    <3>1. extending \subseteq DOMAIN hash /\ Resolved(hash, services, DOMAIN hash \ extending)
      BY <2>1 DEF HashInv
    <3>2. services = [u \in DOMAIN hash |-> services[u]] /\ services[s] = hash[s]
      BY <1>3, <3>1 DEF Resolved
    <3> QED BY <1>3, <3>1, <3>2
  <2>3. IsService(hash[s])
    BY <2>2 DEF TypeInv, AreServices, IsService
  <2>4. services' = services \/ \E e : /\ services' = [services EXCEPT ![s] = e]
                                       /\ Over(e, hash[s])
    BY <1>3, <2>2, <2>3, ExtendMerges, ExtendedIs
  <2> QED BY <2>1, <2>2, <2>4 DEF OverInv
<1>4. CASE ExtendsEnd \/ UNCHANGED vars
  BY <1>4 DEF ExtendsEnd, OverInv, vars
<1> QED BY <1>1, <1>2, <1>3, <1>4 DEF Next, Step

(* What a service says itself wins over its bases, along chains of any     *)
(* length and across files.                                                *)
THEOREM ServiceOverBaseTheorem == Spec => []ServiceOverBase
<1>1. Init => OverInv
  BY DEF Init, OverInv
<1>2. TypeInv /\ HashInv /\ OverInv /\ [Next]_vars => OverInv'
  BY OverNext
<1>3. OverInv => ServiceOverBase
  BY DEF OverInv, Over, ServiceOverBase
<1> QED BY <1>1, <1>2, <1>3, HashCorrect, PTL DEF Spec

-----------------------------------------------------------------------------
(* The files that are read, level by level.                                *)

(* Names of files that reading can come to, and what each includes.        *)
Mappings == {p \in Paths : Kind(p) = "mapping"}
Named == Paths \cup UNION {ToSet(Includes(p)) : p \in Paths}
Inc == [p \in Named |-> Includes(p)]

LEMMA IncludesIs ==
  ASSUME disk \in Disks, NEW p \in Paths
  PROVE  Includes(p) \in Seq(ToSet(Includes(p)))
<1> DEFINE include == disk[p].include
           x == [n \in DOMAIN include |-> Joined(p, include[n])]
<1>1. CASE Kind(p) = "mapping"
  <2>1. include \in Seq(ToSet(include)) /\ Includes(p) = x
    BY <1>1, ReadingAssumption DEF Kind, Includes
  <2>2. Len(include) \in Nat /\ DOMAIN include = 1..Len(include)
    BY <2>1
  <2>3. x = [n \in 1..Len(include) |-> x[n]]
    BY <2>2
  <2> HIDE DEF x, include
  <2> QED BY <2>1, <2>2, <2>3, ListIs
<1>2. CASE Kind(p) # "mapping"
  BY <1>2 DEF Includes
<1> QED BY <1>1, <1>2

LEMMA IncMaps ==
  ASSUME disk \in Disks
  PROVE  IsMap(Inc, Named, Seq(Named))
<1>1. ASSUME NEW p \in Named PROVE Includes(p) \in Seq(Named)
  <2>1. CASE p \in Paths
    <3>1. Includes(p) \in Seq(ToSet(Includes(p))) /\ ToSet(Includes(p)) \subseteq Named
      BY <2>1, IncludesIs DEF Named
    <3> QED BY <3>1
  <2>2. CASE p \notin Paths
    BY <2>2 DEF Includes, Kind
  <2> QED BY <2>1, <2>2
<1> QED BY <1>1 DEF IsMap, Inc

LEMMA FilesAre ==
  ASSUME line \in Lines
  PROVE  Files \in Seq(Paths) /\ Files \in Seq(Named) /\ MaxFiles \in Nat
<1>1. line.files \in Seq(Paths) /\ MaxFiles \in Nat
  BY ReadingAssumption
<1>2. Kept(line.files, Existing) \in Seq(Paths)
  BY <1>1, KeptIs
<1>3. Files \in Seq(Paths)
  BY <1>1, <1>2 DEF Files
<1>4. Paths \subseteq Named
  BY DEF Named
<1> QED BY <1>1, <1>3, <1>4

LEMMA LevelsAre ==
  ASSUME disk \in Disks, line \in Lines
  PROVE  AreLevels(Levels, Named, Inc, Files, MaxFiles)
<1>1. Files \in Seq(Named) /\ MaxFiles \in Nat /\ IsMap(Inc, Named, Seq(Named))
  BY FilesAre, IncMaps
<1> DEFINE Further(l) == FlattenSeq([m \in DOMAIN l |-> Includes(l[m])])
           N == MaxFiles + 1
           Eq(f) == f = [n \in 1..N |-> IF n = 1 THEN Files ELSE Further(f[n - 1])]
           level == CHOOSE f : Eq(f)
           T == Seq(Named)
           g == [i \in Nat |-> [x \in T |-> FlatMap(Inc, x)]]
<1>2. ASSUME NEW l \in T PROVE Further(l) = FlatMap(Inc, l) /\ FlatMap(Inc, l) \in T
  <2>1. \A m \in DOMAIN l : l[m] \in Named
    OBVIOUS
  <2>2. Mapped(Inc, l) = [m \in DOMAIN l |-> Includes(l[m])]
    BY <2>1 DEF Mapped, Inc
  <2>3. FlatMap(Inc, l) \in T
    BY <1>1, FlatMapType
  <2> QED BY <2>2, <2>3 DEF FlatMap
<1>3. Levels = level
  BY DEF Levels
<1> HIDE DEF Further
<1>4. g \in [Nat -> [T -> T]] /\ \A i \in Nat : \A x \in T : g[i][x] = Further(x)
  BY <1>2
<1>5. Files \in T /\ N \in Nat /\ 1 \in 1..N /\ \A n \in 1..N : n \in Nat
  BY <1>1
<1> HIDE DEF g, T, N
<1>6. PICK f : Recursive(f, T, Files, g, N)
  BY <1>4, <1>5, Recursion
<1>7. Eq(f)
  <2>1. /\ f \in [1..N -> T]
        /\ \A n \in 1..N : f[n] = IF n = 1 THEN Files ELSE g[n][f[n - 1]]
    BY <1>6 DEF Recursive
  <2>2. ASSUME NEW n \in 1..N PROVE f[n] = IF n = 1 THEN Files ELSE Further(f[n - 1])
    <3>1. CASE n = 1
      BY <2>1, <3>1
    <3>2. CASE n # 1
      <4>1. n - 1 \in 1..N /\ n \in Nat
        BY <1>5, <3>2 DEF N
      <4>2. f[n - 1] \in T
        BY <2>1, <4>1
      <4> QED BY <1>4, <2>1, <3>2, <4>1, <4>2
    <3> QED BY <3>1, <3>2
  <2> QED BY <2>1, <2>2
<1>8. Eq(level)
  BY <1>7
<1> HIDE DEF level
<1>9. /\ DOMAIN level = 1..N
      /\ \A n \in 1..N : level[n] = IF n = 1 THEN Files ELSE Further(level[n - 1])
      /\ level = [n \in 1..N |-> level[n]]
  BY <1>8
<1> HIDE DEF Eq
<1>10. \A n \in 1..N : level[n] \in T
  <2> DEFINE G == {n \in Nat : n + 1 \in 1..N => level[n + 1] \in T}
  <2>1. 0 \in G
    <3>1. 0 + 1 = 1
      OBVIOUS
    <3>2. level[1] = Files
      BY <1>5, <1>9
    <3> QED BY <1>5, <3>1, <3>2
  <2>2. ASSUME NEW n \in Nat, n \in G PROVE n + 1 \in G
    <3> SUFFICES ASSUME (n + 1) + 1 \in 1..N PROVE level[(n + 1) + 1] \in T
      OBVIOUS
    <3>1. n + 1 \in 1..N /\ (n + 1) + 1 # 1 /\ ((n + 1) + 1) - 1 = n + 1
      BY <1>5
    <3>2. level[n + 1] \in T
      BY <2>2, <3>1
    <3>3. level[(n + 1) + 1] = Further(level[n + 1])
      BY <1>9, <3>1
    <3> QED BY <1>2, <3>2, <3>3
  <2> HIDE DEF G
  <2>3. ASSUME NEW n \in Nat PROVE n \in G
    BY <2>1, <2>2, NatSets
  <2>4. ASSUME NEW n \in 1..N PROVE level[n] \in T
    <3>1. n - 1 \in Nat /\ (n - 1) + 1 = n
      BY <1>5
    <3> QED BY <2>3, <3>1 DEF G
  <2> QED BY <2>4
<1>11. level \in Seq(T) /\ Len(level) = N
  <2>1. level \in [1..N -> T]
    BY <1>9, <1>10
  <2> QED BY <1>5, <2>1
<1>12. ASSUME NEW n \in 1..MaxFiles PROVE level[n + 1] = FlatMap(Inc, level[n])
  <2>1. n + 1 \in 1..N /\ n + 1 # 1 /\ (n + 1) - 1 = n /\ n \in 1..N
    BY <1>1 DEF N
  <2> QED BY <1>2, <1>9, <1>10, <2>1
<1>13. level[1] = Files
  BY <1>5, <1>9
<1> QED BY <1>3, <1>11, <1>12, <1>13 DEF AreLevels, T, N

LEMMA FlattenHolds ==
  ASSUME NEW X, NEW ss \in Seq(Seq(X)), NEW n \in 1..Len(ss)
  PROVE  ToSet(ss[n]) \subseteq ToSet(FlattenSeq(ss))
<1> DEFINE T == Seq(X)
           id == [e \in T |-> e]
           c == ss[n]
<1>1. IsMap(id, T, Seq(X)) /\ ss \in Seq(T)
  BY DEF IsMap
<1>2. c \in ToSet(ss) /\ c \in T
  <2>1. n \in DOMAIN ss
    OBVIOUS
  <2>2. c \in ToSet(ss)
    BY <2>1 DEF ToSet
  <2>3. c \in T
    OBVIOUS
  <2> QED BY <2>2, <2>3
<1>3. FlatMap(id, ss) = FlattenSeq(ss)
  <2>1. ss = [m \in DOMAIN ss |-> ss[m]] /\ \A m \in DOMAIN ss : ss[m] \in T
    BY <1>1
  <2>2. Mapped(id, ss) = ss
    BY <2>1 DEF Mapped
  <2> QED BY <2>2 DEF FlatMap
<1>4. id[c] = c
  BY <1>2
<1> HIDE DEF T, id, c
<1>5. ToSet(FlatMap(id, ss)) = UNION {ToSet(id[e]) : e \in ToSet(ss)}
  BY <1>1, FlatMapSet
<1>6. ToSet(id[c]) \in {ToSet(id[e]) : e \in ToSet(ss)}
  BY <1>2
<1>7. ToSet(id[c]) \subseteq ToSet(FlatMap(id, ss))
  BY <1>5, <1>6
<1> QED BY <1>3, <1>4, <1>7 DEF c

(* A queue: what was taken from it and what is left are what it held first *)
(* and what was added for each that was taken.                             *)
IsQueue(x, y, inc, start) == x \o y = start \o FlatMap(inc, x)

LEMMA QueueStep ==
  ASSUME NEW X, NEW inc, IsMap(inc, X, Seq(X)), NEW start \in Seq(X), NEW x \in Seq(X),
         NEW p \in X, NEW t \in Seq(X), IsQueue(x, <<p>> \o t, inc, start)
  PROVE  IsQueue(Append(x, p), t \o inc[p], inc, start)
<1> DEFINE w == <<p>>
           f == FlatMap(inc, x)
           i == inc[p]
<1>1. w \in Seq(X) /\ Append(x, p) = x \o w
  OBVIOUS
<1>2. f \in Seq(X) /\ i \in Seq(X) /\ FlatMap(inc, Append(x, p)) = f \o i
  <2>1. inc[p] \in Seq(X)
    BY DEF IsMap
  <2>2. FlatMap(inc, x) \in Seq(X)
    BY FlatMapType
  <2>3. FlatMap(inc, Append(x, p)) = FlatMap(inc, x) \o inc[p]
    BY FlatMapAppend
  <2> QED BY <2>1, <2>2, <2>3
<1> HIDE DEF w, f, i
<1>3. w \o t \in Seq(X) /\ t \o i \in Seq(X)
  BY <1>1, <1>2
<1>4. Associative(X)
  BY ConcatAssociates
<1>5. (x \o w) \o (t \o i) = x \o (w \o (t \o i))
  BY <1>1, <1>3, <1>4 DEF Associative
<1>6. (w \o t) \o i = w \o (t \o i)
  BY <1>1, <1>2, <1>4 DEF Associative
<1>7. (x \o (w \o t)) \o i = x \o ((w \o t) \o i)
  BY <1>2, <1>3, <1>4 DEF Associative
<1>8. (start \o f) \o i = start \o (f \o i)
  BY <1>2, <1>4 DEF Associative
<1>9. x \o (w \o t) = start \o f
  BY DEF IsQueue, w, f
<1>10. (x \o w) \o (t \o i) = start \o (f \o i)
  BY <1>5, <1>6, <1>7, <1>8, <1>9
<1> QED BY <1>1, <1>2, <1>10 DEF IsQueue, i

(* A sequence goes on after what it begins with.                           *)
LEMMA Split ==
  ASSUME NEW S, NEW s \in Seq(S), NEW n \in Nat, n <= Len(s)
  PROVE  \E r \in Seq(S) : s = SubSeq(s, 1, n) \o r
<1> DEFINE m == Len(s) - n
           r == [i \in 1..m |-> s[n + i]]
           a == SubSeq(s, 1, n)
<1>1. /\ m \in Nat /\ Len(s) = n + m /\ DOMAIN s = 1..(n + m)
      /\ \A i \in 1..m : n + i \in 1..(n + m)
      /\ \A i \in 1..(n + m) : s[i] \in S /\ (i \notin 1..n => i - n \in 1..m /\ n + (i - n) = i)
  OBVIOUS
<1>2. a \in Seq(S) /\ Len(a) = n /\ \A i \in 1..n : a[i] = s[i]
  OBVIOUS
<1>3. r \in Seq(S) /\ Len(r) = m /\ \A i \in 1..m : r[i] = s[n + i]
  <2>1. r \in [1..m -> S]
    BY <1>1
  <2> QED BY <1>1, <2>1
<1> HIDE DEF m, r, a
<1> DEFINE z == a \o r
<1>4. /\ z \in Seq(S) /\ Len(z) = n + m
      /\ \A i \in 1..n : z[i] = a[i]
      /\ \A i \in 1..(n + m) : i \notin 1..n => z[i] = r[i - n]
  BY <1>1, <1>2, <1>3
<1> HIDE DEF z
<1>5. ASSUME NEW i \in 1..(n + m) PROVE s[i] = z[i]
  <2>1. CASE i \in 1..n
    BY <1>2, <1>4, <2>1
  <2>2. CASE i \notin 1..n
    <3>1. i - n \in 1..m /\ n + (i - n) = i
      BY <1>1, <2>2
    <3> QED BY <1>3, <1>4, <2>2, <3>1
  <2> QED BY <2>1, <2>2
<1>6. s = z
  <2>1. s = [i \in 1..(n + m) |-> s[i]] /\ z = [i \in 1..(n + m) |-> z[i]]
    BY <1>1, <1>4
  <2> QED BY <1>5, <2>1
<1> QED BY <1>3, <1>6 DEF z, a

Splits(X) == \A s \in Seq(X) : \A n \in Nat :
               n <= Len(s) => \E r \in Seq(X) : s = SubSeq(s, 1, n) \o r

LEMMA SeqSplits ==
  ASSUME NEW X
  PROVE  Splits(X)
<1>1. ASSUME NEW s \in Seq(X), NEW n \in Nat, n <= Len(s)
      PROVE  \E r \in Seq(X) : s = SubSeq(s, 1, n) \o r
  BY <1>1, Split
<1> QED BY <1>1 DEF Splits

(* all holds start and, in order, what each of its elements adds.          *)
IsClosed(all, inc, start) == all = start \o FlatMap(inc, all)

(* Each element of x was in the queue when it was taken.                   *)
TakenInTurn(x, inc, start) ==
  \A n \in Nat : n < Len(x) => Len(start \o FlatMap(inc, SubSeq(x, 1, n))) > n

(* What a longer sequence adds begins with what the shorter one adds.      *)
GrowsAlong(X, inc, start) ==
  \A a, b \in Seq(X) :
    /\ FlatMap(inc, b) \in Seq(X) /\ start \o FlatMap(inc, a) \in Seq(X)
    /\ start \o FlatMap(inc, a \o b) = (start \o FlatMap(inc, a)) \o FlatMap(inc, b)

LEMMA GoesAlong ==
  ASSUME NEW X, NEW inc, IsMap(inc, X, Seq(X)), NEW start \in Seq(X)
  PROVE  GrowsAlong(X, inc, start)
<1>1. ASSUME NEW a \in Seq(X), NEW b \in Seq(X)
      PROVE  /\ FlatMap(inc, b) \in Seq(X) /\ start \o FlatMap(inc, a) \in Seq(X)
             /\ start \o FlatMap(inc, a \o b) = (start \o FlatMap(inc, a)) \o FlatMap(inc, b)
  <2> DEFINE u == FlatMap(inc, a)
             v == FlatMap(inc, b)
  <2>1. u \in Seq(X) /\ v \in Seq(X)
    BY FlatMapType
  <2>2. FlatMap(inc, a \o b) = u \o v
    BY FlatMapConcat, SMTT(30)
  <2>3. Associative(X)
    BY ConcatAssociates
  <2> HIDE DEF u, v
  <2>4. (start \o u) \o v = start \o (u \o v)
    BY <2>1, <2>3 DEF Associative
  <2>5. start \o u \in Seq(X)
    BY <2>1
  <2> QED BY <2>1, <2>2, <2>4, <2>5 DEF u, v
<1> QED BY <1>1 DEF GrowsAlong

(* A queue never takes or holds more than all that it will have held, if   *)
(* that comes to an end.                                                   *)
LEMMA QueueWithin ==
  ASSUME NEW X, NEW inc, IsMap(inc, X, Seq(X)), NEW start \in Seq(X),
         NEW all \in Seq(X), IsClosed(all, inc, start),
         NEW x \in Seq(X), NEW y \in Seq(X), IsQueue(x, y, inc, start),
         TakenInTurn(x, inc, start)
  PROVE  Len(x) + Len(y) <= Len(all)
<1> DEFINE FM(z) == FlatMap(inc, z)
           f == x \o y
<1>s. ASSUME NEW s \in Seq(X), NEW n \in Nat, n <= Len(s)
      PROVE  \E r \in Seq(X) : s = SubSeq(s, 1, n) \o r
  <2>1. Splits(X)
    BY SeqSplits
  <2> QED BY <1>s, <2>1, Zenon DEF Splits
<1>g. ASSUME NEW a \in Seq(X), NEW b \in Seq(X)
      PROVE  /\ FlatMap(inc, b) \in Seq(X) /\ start \o FlatMap(inc, a) \in Seq(X)
             /\ start \o FlatMap(inc, a \o b) = (start \o FlatMap(inc, a)) \o FlatMap(inc, b)
  <2>1. GrowsAlong(X, inc, start)
    BY GoesAlong
  <2> QED BY <2>1, Zenon DEF GrowsAlong
<1>3. f = start \o FM(x) /\ all = start \o FM(all)
  BY DEF IsQueue, IsClosed
<1>4. /\ Len(f) = Len(x) + Len(y) /\ Len(x) \in Nat /\ Len(y) \in Nat /\ Len(all) \in Nat
      /\ \A n \in 1..Len(x) : f[n] = x[n]
  OBVIOUS
<1>5. \A n \in Nat : n < Len(x) => Len(start \o FM(SubSeq(x, 1, n))) > n
  BY DEF TakenInTurn
<1> HIDE DEF FM, f
(* Whatever both begin with, both go on with what that adds. *)
<1>6. ASSUME NEW a \in Seq(X), NEW b \in Seq(X), NEW r \in Seq(X), x = a \o b, all = a \o r
      PROVE  \E h, b2, r2 \in Seq(X) : h = start \o FM(a) /\ f = h \o b2 /\ all = h \o r2
  <2> DEFINE h == start \o FM(a)
             v == FM(b)
             w == FM(r)
  <2>1. /\ FlatMap(inc, b) \in Seq(X) /\ start \o FlatMap(inc, a) \in Seq(X)
        /\ start \o FlatMap(inc, a \o b) = (start \o FlatMap(inc, a)) \o FlatMap(inc, b)
    BY <1>g
  <2>4. /\ FlatMap(inc, r) \in Seq(X)
        /\ start \o FlatMap(inc, a \o r) = (start \o FlatMap(inc, a)) \o FlatMap(inc, r)
    BY <1>g
  <2>2. f = h \o v /\ all = h \o w
    BY <1>3, <1>6, <2>1, <2>4 DEF FM
  <2>5. h \in Seq(X) /\ v \in Seq(X) /\ w \in Seq(X)
    BY <2>1, <2>4 DEF FM
  <2>3. h = start \o FM(a)
    OBVIOUS
  <2> HIDE DEF h, v, w
  <2> QED BY <2>5, <2>2, <2>3
<1> DEFINE G == {n \in Nat : n <= Len(x) => n <= Len(all) /\ SubSeq(all, 1, n) = SubSeq(x, 1, n)}
<1>7. 0 \in G
  <2>1. SubSeq(all, 1, 0) = <<>> /\ SubSeq(x, 1, 0) = <<>>
    BY Prefix
  <2> QED BY <1>4, <2>1
<1>8. ASSUME NEW n \in Nat, n \in G PROVE n + 1 \in G
  <2> SUFFICES ASSUME n + 1 <= Len(x)
               PROVE  n + 1 <= Len(all) /\ SubSeq(all, 1, n + 1) = SubSeq(x, 1, n + 1)
    OBVIOUS
  <2> DEFINE a == SubSeq(x, 1, n)
  <2>1. n < Len(x) /\ n <= Len(x) /\ n <= Len(all) /\ SubSeq(all, 1, n) = a /\ n + 1 \in 1..Len(x)
    BY <1>4, <1>8
  <2>2. a \in Seq(X)
    BY <2>1, Prefix
  <2>3. PICK b \in Seq(X) : x = a \o b
    <3>1. \E b \in Seq(X) : x = SubSeq(x, 1, n) \o b
      BY <1>s, <2>1
    <3> QED BY <3>1
  <2>4. PICK r \in Seq(X) : all = a \o r
    <3>1. \E r \in Seq(X) : all = SubSeq(all, 1, n) \o r
      BY <1>s, <2>1
    <3> QED BY <2>1, <3>1
  <2>5. Len(start \o FM(a)) > n
    BY <1>5, <2>1
  <2> HIDE DEF a
  <2>6. PICK h \in Seq(X), b2 \in Seq(X), r2 \in Seq(X) :
          h = start \o FM(a) /\ f = h \o b2 /\ all = h \o r2
    BY <1>6, <2>2, <2>3, <2>4
  <2>7. Len(h) \in Nat /\ n + 1 \in 1..Len(h)
    BY <2>5, <2>6
  <2>8. /\ f[n + 1] = h[n + 1]
        /\ all[n + 1] = h[n + 1] /\ n + 1 <= Len(all)
    BY <2>6, <2>7
  <2>9. all[n + 1] = x[n + 1]
    BY <1>4, <2>1, <2>8
  <2>10. /\ SubSeq(all, 1, n + 1) = Append(SubSeq(all, 1, n), all[n + 1])
         /\ SubSeq(x, 1, n + 1) = Append(SubSeq(x, 1, n), x[n + 1])
    BY <2>1, <2>8, Prefix
  <2> QED BY <2>1, <2>8, <2>9, <2>10 DEF a
<1> HIDE DEF G
<1>9. Len(x) \in G
  BY <1>4, <1>7, <1>8, NatSets
<1>10. Len(x) <= Len(all) /\ SubSeq(all, 1, Len(x)) = x
  <2>1. SubSeq(x, 1, Len(x)) = x
    BY Prefix
  <2> QED BY <1>4, <1>9, <2>1 DEF G
<1>11. PICK r \in Seq(X) : all = x \o r
  <2>1. \E r \in Seq(X) : all = SubSeq(all, 1, Len(x)) \o r
    BY <1>s, <1>4, <1>10
  <2> QED BY <1>10, <2>1
<1>12. x = x \o <<>> /\ <<>> \in Seq(X)
  OBVIOUS
<1>13. PICK h \in Seq(X), b2 \in Seq(X), r2 \in Seq(X) :
         h = start \o FM(x) /\ f = h \o b2 /\ all = h \o r2
  BY <1>6, <1>11, <1>12
<1>14. all = f \o r2
  BY <1>3, <1>13
<1>15. f \in Seq(X)
  BY DEF f
<1>16. Len(f) <= Len(all)
  BY <1>13, <1>14, <1>15
<1> QED BY <1>4, <1>16

(* What has been read and what is to be: all of it was given or is         *)
(* included by what has been read, and each file was there when its turn   *)
(* came; what is to be read is on one of the levels.                       *)
InTurn(x) == \A n \in Nat : n < Len(x) => Len(Files \o FlatMap(Inc, SubSeq(x, 1, n))) > n
OnLevels(y, n) == \A e \in ToSet(y) : \E m \in 1..n : e \in ToSet(Levels[m])

Queued(x, y) ==
  /\ x \in Seq(Mappings) /\ y \in Seq(Named) /\ Len(x) <= MaxFiles
  /\ IsQueue(x, y, Inc, Files)
  /\ InTurn(x) /\ OnLevels(y, Len(x) + 1)

LEMMA QueuedFirst ==
  ASSUME disk \in Disks, line \in Lines
  PROVE  Queued(<<>>, Files)
<1>1. Files \in Seq(Named) /\ MaxFiles \in Nat
  BY FilesAre
<1>2. /\ <<>> \in Seq(Mappings) /\ Len(<<>>) = 0
      /\ <<>> \o Files = Files /\ Files \o <<>> = Files
  BY <1>1
<1>3. FlatMap(Inc, <<>>) = <<>>
  BY FlatMapNothing
<1>4. Levels[1] = Files
  BY LevelsAre DEF AreLevels
<1>5. OnLevels(Files, 0 + 1)
  BY <1>4 DEF OnLevels
<1> QED BY <1>1, <1>2, <1>3, <1>5 DEF Queued, InTurn, IsQueue

LEMMA HeadAndTail ==
  ASSUME NEW X, NEW y \in Seq(X), y # <<>>
  PROVE  /\ Head(y) \in X /\ Tail(y) \in Seq(X) /\ y = <<Head(y)>> \o Tail(y)
         /\ Head(y) \in ToSet(y) /\ ToSet(Tail(y)) \subseteq ToSet(y)
<1> DEFINE p == Head(y)
           t == Tail(y)
<1>1. p \in X /\ t \in Seq(X)
  OBVIOUS
<1>2. y = <<p>> \o t
  OBVIOUS
<1>3. 1 \in DOMAIN y /\ y[1] = p
  OBVIOUS
<1>4. p \in ToSet(y)
  BY <1>3 DEF ToSet
<1> DEFINE w == <<p>>
<1>5. w \in Seq(X)
  BY <1>1
<1> HIDE DEF p, t, w
<1>6. ToSet(w \o t) = ToSet(w) \cup ToSet(t)
  BY <1>1, <1>5, ToSetLaws
<1>7. ToSet(t) \subseteq ToSet(y)
  <2>1. y = w \o t
    BY <1>2 DEF w
  <2> QED BY <1>6, <2>1
<1> QED BY <1>1, <1>2, <1>4, <1>7 DEF p, t

LEMMA InTurnNext ==
  ASSUME NEW x \in Seq(Named), NEW y \in Seq(Named), y # <<>>, NEW p \in Named,
         IsQueue(x, y, Inc, Files), InTurn(x)
  PROVE  InTurn(Append(x, p))
<1> DEFINE x2 == Append(x, p)
<1> SUFFICES ASSUME NEW n \in Nat, n < Len(x2)
             PROVE  Len(Files \o FlatMap(Inc, SubSeq(x2, 1, n))) > n
  BY DEF InTurn
<1>1. n <= Len(x) /\ SubSeq(x2, 1, n) = SubSeq(x, 1, n)
  OBVIOUS
<1>2. CASE n < Len(x)
  BY <1>1, <1>2 DEF InTurn
<1>3. CASE n = Len(x)
  <2>1. SubSeq(x, 1, n) = x
    BY <1>3, Prefix
  <2>2. Len(x \o y) = Len(x) + Len(y) /\ Len(y) \in Nat /\ Len(y) > 0 /\ Len(x) \in Nat
    OBVIOUS
  <2>3. Len(x \o y) > n
    BY <1>3, <2>2
  <2>4. Files \o FlatMap(Inc, x) = x \o y
    BY DEF IsQueue
  <2> HIDE DEF x2
  <2> QED BY <1>1, <2>1, <2>3, <2>4
<1> QED BY <1>1, <1>2, <1>3

LEMMA OnLevelsNext ==
  ASSUME disk \in Disks, line \in Lines, NEW k \in Nat, k < MaxFiles,
         NEW y \in Seq(Named), y # <<>>, OnLevels(y, k + 1)
  PROVE  OnLevels(Tail(y) \o Includes(Head(y)), (k + 1) + 1)
<1> DEFINE N == Named
           p == Head(y)
           t == Tail(y)
           i == Includes(p)
<1>1. IsMap(Inc, N, Seq(N)) /\ MaxFiles \in Nat /\ AreLevels(Levels, N, Inc, Files, MaxFiles)
  BY FilesAre, IncMaps, LevelsAre
<1>2. p \in N /\ t \in Seq(N) /\ p \in ToSet(y) /\ ToSet(t) \subseteq ToSet(y)
  BY HeadAndTail
<1> HIDE DEF N, p, t
<1>3. Inc[p] = i /\ i \in Seq(N)
  BY <1>1, <1>2 DEF Inc, N, IsMap
<1> HIDE DEF i
<1>4. PICK m \in 1..(k + 1) : p \in ToSet(Levels[m])
  BY <1>2 DEF OnLevels
<1>5. m \in 1..MaxFiles /\ m + 1 \in 1..((k + 1) + 1) /\ m \in 1..(MaxFiles + 1)
  BY <1>1
<1>6. /\ Levels \in Seq(Seq(N)) /\ Len(Levels) = MaxFiles + 1
      /\ Levels[m + 1] = FlatMap(Inc, Levels[m])
  BY <1>1, <1>5 DEF AreLevels
<1> DEFINE l == Levels[m]
<1>7. l \in Seq(N)
  BY <1>5, <1>6
<1>8. p \in ToSet(l)
  BY <1>4
<1> HIDE DEF l
<1>9. ToSet(FlatMap(Inc, l)) = UNION {ToSet(Inc[e]) : e \in ToSet(l)}
  BY <1>1, <1>7, FlatMapSet
<1>10. ToSet(i) \subseteq ToSet(Levels[m + 1])
  <2>1. ToSet(Inc[p]) \in {ToSet(Inc[e]) : e \in ToSet(l)}
    BY <1>8
  <2>2. ToSet(i) \subseteq ToSet(FlatMap(Inc, l))
    BY <1>3, <1>9, <2>1
  <2> QED BY <1>6, <2>2 DEF l
<1>11. ToSet(t \o i) = ToSet(t) \cup ToSet(i)
  BY <1>2, <1>3, ToSetLaws
<1>12. ASSUME NEW e \in ToSet(t \o i)
       PROVE  \E n \in 1..((k + 1) + 1) : e \in ToSet(Levels[n])
  <2>1. CASE e \in ToSet(i)
    BY <1>5, <1>10, <2>1
  <2>2. CASE e \in ToSet(t)
    <3>1. PICK n \in 1..(k + 1) : e \in ToSet(Levels[n])
      BY <1>2, <2>2 DEF OnLevels
    <3>2. n \in 1..((k + 1) + 1)
      OBVIOUS
    <3> QED BY <3>1, <3>2
  <2> QED BY <1>11, <1>12, <2>1, <2>2
<1> QED BY <1>12 DEF OnLevels, t, i, p

LEMMA QueuedNext ==
  ASSUME disk \in Disks, line \in Lines, NEW x, NEW y, Queued(x, y), y # <<>>,
         Kind(Head(y)) = "mapping", Len(x) < MaxFiles
  PROVE  Queued(Append(x, Head(y)), Tail(y) \o Includes(Head(y)))
<1> DEFINE N == Named
           p == Head(y)
           t == Tail(y)
           i == Includes(p)
           x2 == Append(x, p)
<1>1. /\ x \in Seq(Mappings) /\ y \in Seq(N) /\ MaxFiles \in Nat
      /\ Files \in Seq(N) /\ IsQueue(x, y, Inc, Files) /\ IsMap(Inc, N, Seq(N))
  BY FilesAre, IncMaps DEF Queued
<1>2. p \in N /\ t \in Seq(N) /\ y = <<p>> \o t
  BY <1>1, HeadAndTail
<1>3. p \in Mappings /\ Mappings \subseteq N
  BY DEF Mappings, Named, Kind
<1> HIDE DEF N, p, t
<1>4. Inc[p] = i /\ i \in Seq(N)
  BY <1>1, <1>2 DEF Inc, N, IsMap
<1> HIDE DEF i
<1>5. /\ x \in Seq(N) /\ x2 \in Seq(Mappings) /\ Len(x2) = Len(x) + 1
      /\ Len(x) \in Nat
  BY <1>1, <1>3
<1>6. t \o i \in Seq(N)
  BY <1>2, <1>4
<1>7. IsQueue(x2, t \o i, Inc, Files)
  <2>1. IsQueue(x, <<p>> \o t, Inc, Files)
    BY <1>1, <1>2
  <2>2. IsQueue(x2, t \o Inc[p], Inc, Files)
    BY <1>1, <1>2, <1>5, <2>1, QueueStep
  <2> QED BY <1>4, <2>2
<1>8. InTurn(x2)
  BY <1>1, <1>2, <1>5, InTurnNext DEF Queued, N
<1>9. OnLevels(t \o i, Len(x2) + 1)
  <2>1. OnLevels(y, Len(x) + 1)
    BY DEF Queued
  <2>2. OnLevels(t \o i, (Len(x) + 1) + 1)
    BY <1>1, <1>5, <2>1, OnLevelsNext DEF N, p, t, i
  <2> HIDE DEF x2
  <2> QED BY <1>5, <2>2
<1>10. Len(x2) <= MaxFiles
  BY <1>1, <1>5
<1> HIDE DEF x2
<1>11. Queued(x2, t \o i)
  BY <1>5, <1>6, <1>7, <1>8, <1>9, <1>10 DEF Queued, N
<1> QED BY <1>11 DEF x2, p, t, i

LEMMA QueuedEnd ==
  ASSUME disk \in Disks, line \in Lines, NEW x, Queued(x, <<>>)
  PROVE  Acyclic /\ x = FlattenSeq(Levels)
<1>1. /\ Files \in Seq(Named) /\ MaxFiles \in Nat /\ IsMap(Inc, Named, Seq(Named))
      /\ AreLevels(Levels, Named, Inc, Files, MaxFiles)
  BY FilesAre, IncMaps, LevelsAre
<1>2. x \in Seq(Named) /\ Len(x) <= MaxFiles /\ x \o <<>> = x
  <2>1. Mappings \subseteq Named
    BY DEF Mappings, Named
  <2> QED BY <2>1 DEF Queued
<1>3. IsDrained(x, Inc, Files)
  BY <1>2 DEF IsDrained, Queued, InTurn, IsQueue
<1> QED BY <1>1, <1>2, <1>3, Drained DEF Acyclic

LEMMA QueuedLevel ==
  ASSUME disk \in Disks, line \in Lines, NEW x, NEW y, Queued(x, y)
  PROVE  ToSet(y) \subseteq ToSet(FlattenSeq(Levels))
<1>1. /\ Levels \in Seq(Seq(Named)) /\ Len(Levels) = MaxFiles + 1 /\ MaxFiles \in Nat
      /\ Len(x) \in Nat /\ Len(x) <= MaxFiles
  BY FilesAre, LevelsAre DEF AreLevels, Queued
<1>2. ASSUME NEW m \in 1..(Len(x) + 1)
      PROVE  ToSet(Levels[m]) \subseteq ToSet(FlattenSeq(Levels))
  <2>1. m \in 1..Len(Levels)
    BY <1>1
  <2> QED BY <1>1, <2>1, FlattenHolds
<1> QED BY <1>2 DEF Queued, OnLevels

(* What is to be read, of files and a command line that stay as they are.  *)
LEMMA Undisturbed ==
  ASSUME UNCHANGED <<disk, line>>
  PROVE  /\ Files' = Files /\ Mappings' = Mappings /\ Named' = Named /\ Inc' = Inc
         /\ Levels' = Levels
<1>1. disk' = disk /\ line' = line
  OBVIOUS
<1>2. Files' = Files
  BY <1>1 DEF Files, Existing
<1>3. Mappings' = Mappings
  BY <1>1 DEF Mappings, Kind
<1>4. Named' = Named
  BY <1>1 DEF Named, Includes, Kind
<1>5. Inc' = Inc
  BY <1>1, <1>4 DEF Inc, Includes, Kind
<1>6. Levels' = Levels
  BY <1>1, <1>2 DEF Levels, Includes, Kind
<1> QED BY <1>2, <1>3, <1>4, <1>5, <1>6

LEMMA QueuedThen ==
  ASSUME UNCHANGED <<disk, line>>, NEW x, NEW y, Queued(x, y), read' = x
  PROVE  /\ pending' = y => Queued(read, pending)'
         /\ y = <<>> => Queued(read, <<>>)'
<1>1. /\ Files' = Files /\ Mappings' = Mappings /\ Named' = Named /\ Inc' = Inc
      /\ Levels' = Levels
  BY Undisturbed
<1>2. /\ x \in Seq(Mappings) /\ y \in Seq(Named) /\ Len(x) <= MaxFiles
      /\ IsQueue(x, y, Inc, Files) /\ InTurn(x) /\ OnLevels(y, Len(x) + 1)
  BY DEF Queued
<1>3. InTurn(read)'
  BY <1>1, <1>2 DEF InTurn
<1>4. pending' = y => OnLevels(pending, Len(read) + 1)'
  BY <1>1, <1>2 DEF OnLevels
<1>5. y = <<>> => OnLevels(<<>>, Len(read) + 1)'
  BY <1>1, <1>2 DEF OnLevels
<1>6. pending' = y => IsQueue(read, pending, Inc, Files)'
  BY <1>1, <1>2 DEF IsQueue
<1>7. y = <<>> => IsQueue(read, <<>>, Inc, Files)'
  BY <1>1, <1>2 DEF IsQueue
<1> QED BY <1>1, <1>2, <1>3, <1>4, <1>5, <1>6, <1>7 DEF Queued

(* While files are read, they are a queue, and there is a result only when *)
(* nothing is left of it.                                                  *)
QueueInv ==
  /\ line \in Lines
  /\ pc = "start" => read = <<>> /\ compose.include = <<>>
  /\ pc = "read" => Queued(read, pending) /\ compose.include = <<>>
  /\ pc \in {"extend", "done"} => Queued(read, <<>>)

(* One iteration of the loop, by what becomes of it.                       *)
Relocations(p) == [s \in DOMAIN disk[p].services |-> Relocated(p, disk[p].services[s])]

ReadResult == RecMerge(compose.services, Relocations(Head(pending)))

LEMMA ReadFileCases ==
  ASSUME TypeInv, QueueInv, ReadFile
  PROVE  LET p == Head(pending)
             merged == ReadResult
             name == IF project = <<>> THEN ProjectName(disk[p]) ELSE project
         IN /\ pc = "read" /\ pending # <<>> /\ Len(read) < MaxFiles
            /\ UNCHANGED <<disk, line, hash, extending, services, last>>
            /\ \/ /\ Kind(p) # "mapping" /\ pc' \in {"exit", "raised"}
               \/ /\ Kind(p) = "mapping" /\ pc' = "raised"
                  /\ \/ name = <<>> \/ ~ Supplied(p)
                     \/ \E s \in DOMAIN merged : ServiceRaised(merged[s])
               \/ /\ Kind(p) = "mapping" /\ pc' = "read"
                  /\ \A s \in DOMAIN merged : ~ ServiceRaised(merged[s])
                  /\ read' = Append(read, p)
                  /\ pending' = Tail(pending) \o Includes(p)
                  /\ compose'.services = merged /\ compose'.include = <<>>
                  /\ compose'.top = compose.top \cup disk[p].top
                  /\ project' = name /\ name # <<>>
<1> DEFINE p == Head(pending)
           content == disk[p]
           name == IF project = <<>> THEN ProjectName(content) ELSE project
           merged == RecMerge(compose.services,
                              [s \in DOMAIN content.services |->
                                 Relocated(p, content.services[s])])
           include == compose.include \o content.include
           Raises == \/ name = <<>> \/ ~ Supplied(p)
                     \/ \E s \in DOMAIN merged : ServiceRaised(merged[s])
<1>1. /\ pc = "read" /\ pending # <<>> /\ Len(read) < MaxFiles
      /\ UNCHANGED <<disk, line, hash, extending, services, last>>
      /\ CASE Kind(p) = "missing" ->
                pc' = "raised" /\ UNCHANGED <<pending, read, compose, project>>
           [] Kind(p) = "other" ->
                pc' = "exit" /\ UNCHANGED <<pending, read, compose, project>>
           [] Kind(p) = "mapping" ->
                /\ read' = Append(read, p)
                /\ project' = name
                /\ IF Raises
                   THEN pc' = "raised" /\ UNCHANGED <<pending, compose>>
                   ELSE /\ TakeInclude(p, merged, include)
                        /\ UNCHANGED pc
  BY DEF ReadFile
<1>2. Kind(p) \in {"missing", "other", "mapping"}
  BY KindIs DEF TypeInv
<1>3. merged = ReadResult
  BY DEF ReadResult, Relocations
<1> HIDE DEF merged, name, p
<1>4. CASE Kind(p) # "mapping"
  <2>1. pc' \in {"exit", "raised"}
    BY <1>1, <1>2, <1>4
  <2> QED BY <1>1, <1>4, <2>1 DEF p
<1>5. CASE Kind(p) = "mapping" /\ Raises
  <2>1. pc' = "raised"
    BY <1>1, <1>5
  <2> QED BY <1>1, <1>3, <1>5, <2>1 DEF p, name
<1>6. CASE Kind(p) = "mapping" /\ ~ Raises
  <2>1. /\ read' = Append(read, p) /\ TakeInclude(p, merged, include) /\ pc' = "read"
        /\ project' = name
    BY <1>1, <1>6
  <2>2. include = content.include
    <3>1. p \in Paths /\ content.kind = "mapping"
      BY <1>6 DEF Kind
    <3>2. content.include \in Seq(ToSet(content.include))
      BY <3>1, ReadingAssumption DEF TypeInv
    <3>3. compose.include = <<>>
      BY <1>1 DEF QueueInv
    <3> HIDE DEF content
    <3> QED BY <3>2, <3>3 DEF content
  <2>3. Includes(p) = [n \in DOMAIN content.include |-> Joined(p, content.include[n])]
    BY <1>6 DEF Includes
  <2> HIDE DEF include, content
  <2>4. /\ pending' = Tail(pending) \o Includes(p)
        /\ compose'.services = merged /\ compose'.include = <<>>
        /\ compose'.top = compose.top \cup disk[p].top
    BY <2>1, <2>2, <2>3 DEF TakeInclude
  <2> QED BY <1>1, <1>3, <1>6, <2>1, <2>4 DEF p, name, content
<1> QED BY <1>4, <1>5, <1>6

LEMMA QueueNext ==
  ASSUME TypeInv, QueueInv, [Next]_vars
  PROVE  QueueInv'
<1>1. CASE Again
  <2>1. line' \in Lines /\ pc' = "start" /\ read' = <<>> /\ compose'.include = <<>>
    BY <1>1 DEF Again, Nothing
  <2> QED BY <2>1 DEF QueueInv
<1>2. CASE Start
  <2> DEFINE None == Files = <<>> \/ ~ ToSet(Files) \subseteq Existing
  <2>0. /\ pc = "start" /\ UNCHANGED <<disk, line, read, compose>>
        /\ IF None THEN pc' = "exit" /\ UNCHANGED pending
           ELSE pc' = "read" /\ pending' = Files
    BY <1>2 DEF Start
  <2> HIDE DEF None
  <2>1. /\ pc = "start" /\ UNCHANGED <<disk, line, read, compose>>
        /\ (pc' = "exit") \/ (pc' = "read" /\ pending' = Files)
    BY <2>0
  <2>2. read' = <<>> /\ compose'.include = <<>>
    BY <2>1 DEF QueueInv
  <2>3. Queued(<<>>, Files)
    BY QueuedFirst DEF TypeInv, QueueInv
  <2>4. pc' = "read" => Queued(read, pending)'
    BY <2>1, <2>2, <2>3, QueuedThen
  <2> QED BY <2>1, <2>2, <2>4 DEF QueueInv
<1>3. CASE ReadFile
  <2>1. /\ pc = "read" /\ pending # <<>> /\ Len(read) < MaxFiles /\ UNCHANGED <<disk, line>>
        /\ \/ pc' \in {"exit", "raised"}
           \/ /\ Kind(Head(pending)) = "mapping" /\ pc' = "read"
              /\ read' = Append(read, Head(pending))
              /\ pending' = Tail(pending) \o Includes(Head(pending))
              /\ compose'.include = <<>>
    BY <1>3, ReadFileCases
  <2>2. CASE pc' \in {"exit", "raised"}
    BY <2>1, <2>2 DEF QueueInv
  <2>3. CASE pc' = "read"
    <3>1. Queued(Append(read, Head(pending)), Tail(pending) \o Includes(Head(pending)))
      BY <2>1, <2>3, QueuedNext DEF QueueInv, TypeInv
    <3>2. Queued(read, pending)'
      BY <2>1, <2>3, <3>1, QueuedThen
    <3> QED BY <2>1, <2>3, <3>2 DEF QueueInv
  <2> QED BY <2>1, <2>2, <2>3
<1>4. CASE Exhaust
  <2>1. pc' = "exhausted" /\ UNCHANGED line
    BY <1>4 DEF Exhaust
  <2> QED BY <2>1 DEF QueueInv
<1>5. CASE FilesEnd
  <2>1. pc = "read" /\ pending = <<>> /\ pc' = "extend" /\ UNCHANGED <<disk, line, read>>
    BY <1>5 DEF FilesEnd
  <2>2. Queued(read, <<>>)'
    BY <2>1, QueuedThen DEF QueueInv
  <2> QED BY <2>1, <2>2 DEF QueueInv
<1>6. ASSUME NEW s \in extending, ExtendService(s) PROVE QueueInv'
  <2>1. pc = "extend" /\ pc' \in {"extend", "raised"} /\ UNCHANGED <<disk, line, read>>
    BY <1>6 DEF ExtendService
  <2>2. Queued(read, <<>>)'
    BY <2>1, QueuedThen DEF QueueInv
  <2> QED BY <2>1, <2>2 DEF QueueInv
<1>7. CASE ExtendsEnd
  <2>1. pc = "extend" /\ pc' \in {"done", "raised"} /\ UNCHANGED <<disk, line, read>>
    BY <1>7 DEF ExtendsEnd
  <2>2. Queued(read, <<>>)'
    BY <2>1, QueuedThen DEF QueueInv
  <2> QED BY <2>1, <2>2 DEF QueueInv
<1>8. CASE UNCHANGED vars
  <2>1. UNCHANGED <<disk, line, pc, pending, read, compose>>
    BY <1>8 DEF vars
  <2>2. pc = "read" => Queued(read, pending)'
    BY <2>1, QueuedThen DEF QueueInv
  <2>3. pc \in {"extend", "done"} => Queued(read, <<>>)'
    BY <2>1, QueuedThen DEF QueueInv
  <2> QED BY <2>1, <2>2, <2>3 DEF QueueInv
<1> QED BY <1>1, <1>2, <1>3, <1>4, <1>5, <1>6, <1>7, <1>8 DEF Next, Step

(* What has been read and what is to be read make up the queue that the    *)
(* list of files is while its own loop appends to it.                      *)
THEOREM QueueCorrect == Spec => [](TypeInv /\ QueueInv)
<1>1. Init => QueueInv
  <2> SUFFICES ASSUME Init PROVE QueueInv
    OBVIOUS
  <2>1. /\ line \in Lines /\ pc = "start" /\ read = <<>>
        /\ compose = Nothing
    BY DEF Init
  <2>2. compose.include = <<>>
    BY <2>1 DEF Nothing
  <2> QED BY <2>1, <2>2 DEF QueueInv
<1>2. TypeInv /\ QueueInv /\ [Next]_vars => QueueInv'
  BY QueueNext
<1> QED BY <1>1, <1>2, HashCorrect, PTL DEF Spec

(* A result has every file in it, level by level, once for each path of    *)
(* includes that leads to it, and no file leads back to itself: whatever   *)
(* the files include.                                                      *)
THEOREM ReadByLevelsTheorem == Spec => []ReadByLevels
<1>1. TypeInv /\ QueueInv => ReadByLevels
  BY QueuedEnd DEF TypeInv, QueueInv, ReadByLevels
<1> QED BY <1>1, QueueCorrect, PTL

(* Without a circle, the levels hold what their files include.             *)
LEMMA LevelsClosed ==
  ASSUME disk \in Disks, line \in Lines, Acyclic
  PROVE  FlattenSeq(Levels) \in Seq(Named) /\ IsClosed(FlattenSeq(Levels), Inc, Files)
<1> DEFINE N == Named
           u == Upto(Levels, MaxFiles)
           all == FlattenSeq(Levels)
<1>1. /\ Files \in Seq(N) /\ MaxFiles \in Nat /\ MaxFiles \in 0..MaxFiles
      /\ IsMap(Inc, N, Seq(N)) /\ AreLevels(Levels, N, Inc, Files, MaxFiles)
  BY FilesAre, IncMaps, LevelsAre
<1> HIDE DEF N
<1>2. LevelsAddUp(Levels, N, Inc, Files, MaxFiles)
  BY <1>1, LevelPrefixes
<1>3. /\ u \in Seq(N) /\ all \in Seq(N)
      /\ all = u \o Levels[MaxFiles + 1] /\ all = Files \o FlatMap(Inc, u)
  BY <1>1, <1>2 DEF LevelsAddUp
<1>4. Levels[MaxFiles + 1] = <<>>
  BY DEF Acyclic
<1> HIDE DEF u, all
<1>5. all = u
  <2>1. u \o <<>> = u
    BY <1>3
  <2> QED BY <1>3, <1>4, <2>1
<1> QED BY <1>3, <1>5 DEF IsClosed, all, N

(* A file that is pending after MaxFiles of them is one more than that.    *)
LEMMA QueuedWithin ==
  ASSUME disk \in Disks, line \in Lines, NEW x, NEW y, Queued(x, y), y # <<>>,
         Len(x) = MaxFiles, Acyclic
  PROVE  Len(FlattenSeq(Levels)) > MaxFiles
<1> DEFINE N == Named
           all == FlattenSeq(Levels)
<1>1. all \in Seq(N) /\ IsClosed(all, Inc, Files)
  BY LevelsClosed
<1>2. Mappings \subseteq N
  BY DEF Mappings, Named
<1>3. x \in Seq(N) /\ y \in Seq(N) /\ IsQueue(x, y, Inc, Files) /\ TakenInTurn(x, Inc, Files)
  BY <1>2 DEF Queued, InTurn, TakenInTurn
<1>4. IsMap(Inc, N, Seq(N)) /\ Files \in Seq(N) /\ MaxFiles \in Nat
  BY FilesAre, IncMaps
<1> HIDE DEF N, all
<1>5. Len(x) + Len(y) <= Len(all)
  BY <1>1, <1>3, <1>4, QueueWithin
<1>6. Len(y) \in Nat /\ Len(y) > 0 /\ Len(all) \in Nat
  BY <1>1, <1>3
<1> QED BY <1>4, <1>5, <1>6 DEF all

(* Memory is exhausted only by files that include each other in a circle,  *)
(* or of which there are more to read than it holds.                       *)
ExhaustedForCause ==
  pc = "exhausted" => ~ Acyclic \/ Len(FlattenSeq(Levels)) > MaxFiles

LEMMA ExhaustedNext ==
  ASSUME TypeInv, QueueInv, ExhaustedForCause, [Next]_vars
  PROVE  ExhaustedForCause'
<1>1. ASSUME pc' # "exhausted" PROVE ExhaustedForCause'
  BY <1>1 DEF ExhaustedForCause
<1>2. CASE Again \/ Start \/ FilesEnd \/ ExtendsEnd
  <2>1. pc' # "exhausted"
    BY <1>2 DEF Again, Start, FilesEnd, ExtendsEnd
  <2> QED BY <1>1, <2>1
<1>3. CASE ReadFile
  <2>1. pc' \in {"exit", "raised", "read"}
    BY <1>3, ReadFileCases
  <2> QED BY <1>1, <2>1
<1>4. CASE Exhaust
  <2>1. /\ pc = "read" /\ pending # <<>> /\ Len(read) = MaxFiles /\ UNCHANGED <<disk, line>>
    BY <1>4 DEF Exhaust
  <2>2. Acyclic => Len(FlattenSeq(Levels)) > MaxFiles
    BY <2>1, QueuedWithin DEF TypeInv, QueueInv
  <2>3. Levels' = Levels
    BY <2>1, Undisturbed
  <2> QED BY <2>2, <2>3 DEF ExhaustedForCause, Acyclic
<1>5. ASSUME NEW s \in extending, ExtendService(s) PROVE ExhaustedForCause'
  <2>1. pc' \in {"extend", "raised"}
    BY <1>5 DEF ExtendService
  <2> QED BY <1>1, <2>1
<1>6. CASE UNCHANGED vars
  <2>1. UNCHANGED <<disk, line, pc>>
    BY <1>6 DEF vars
  <2>2. Levels' = Levels
    BY <2>1, Undisturbed
  <2> QED BY <2>1, <2>2 DEF ExhaustedForCause, Acyclic
<1> QED BY <1>2, <1>3, <1>4, <1>5, <1>6 DEF Next, Step

(* Appending to the list that the loop is iterating over does no harm: the *)
(* loop takes no file more than the levels have, so that files that do not *)
(* include each other in a circle are read in bounded memory.              *)
THEOREM ExhaustedForCauseTheorem == Spec => []ExhaustedForCause
<1>1. Init => ExhaustedForCause
  BY DEF Init, ExhaustedForCause
<1>2. TypeInv /\ QueueInv /\ ExhaustedForCause /\ [Next]_vars => ExhaustedForCause'
  BY ExhaustedNext
<1> QED BY <1>1, <1>2, QueueCorrect, PTL DEF Spec

-----------------------------------------------------------------------------
(* The types of what files give and what is merged from them.              *)

(* A value of key k that did not raise, and whose types are in T.          *)
KeyFits(k, val, T) ==
  /\ val.t # "raised"
  /\ val.t = "dict" => \A j \in DOMAIN val.v : val.v[j].t # "raised"
  /\ k \notin Replaced =>
       /\ << <<k>>, val.t >> \in T
       /\ val.t = "dict" => \A j \in DOMAIN val.v \ Replaced : << <<k, j>>, val.v[j].t >> \in T

Fits(srv, T) == \A k \in DOMAIN srv : KeyFits(k, srv[k], T)

TwoTypes(T) == \E x, y \in T : x[1] = y[1] /\ x[2] # y[2]

LEMMA FitsIs ==
  ASSUME NEW srv, NEW T
  PROVE  Fits(srv, T) <=> ~ ServiceRaised(srv) /\ Typed(srv) \subseteq T
<1> DEFINE plain == {<< <<k>>, srv[k].t >> : k \in DOMAIN srv \ Replaced}
           Of(k) == {<< <<k, j>>, srv[k].v[j].t >> : j \in DOMAIN srv[k].v \ Replaced}
           dicts == {i \in DOMAIN srv \ Replaced : srv[i].t = "dict"}
           nested == UNION {Of(k) : k \in dicts}
<1>1. Raised.t = "raised"
  BY DEF Raised
<1>2. plain \subseteq T <=> \A k \in DOMAIN srv \ Replaced : << <<k>>, srv[k].t >> \in T
  OBVIOUS
<1>3. ASSUME NEW k
      PROVE  Of(k) \subseteq T <=>
               \A j \in DOMAIN srv[k].v \ Replaced : << <<k, j>>, srv[k].v[j].t >> \in T
  OBVIOUS
<1> HIDE DEF Of
<1>4. nested \subseteq T <=> \A k \in dicts : Of(k) \subseteq T
  OBVIOUS
<1>5. Typed(srv) \subseteq T <=> plain \subseteq T /\ nested \subseteq T
  BY DEF Typed, Of
<1> HIDE DEF plain, nested
<1>6. Typed(srv) \subseteq T <=>
        \A k \in DOMAIN srv \ Replaced :
          /\ << <<k>>, srv[k].t >> \in T
          /\ srv[k].t = "dict" =>
               \A j \in DOMAIN srv[k].v \ Replaced : << <<k, j>>, srv[k].v[j].t >> \in T
  BY <1>2, <1>3, <1>4, <1>5
<1>7. ~ ServiceRaised(srv) <=>
        \A k \in DOMAIN srv :
          /\ srv[k].t # "raised"
          /\ srv[k].t = "dict" => \A j \in DOMAIN srv[k].v : srv[k].v[j].t # "raised"
  BY <1>1 DEF ServiceRaised
<1> QED BY <1>6, <1>7 DEF Fits, KeyFits

LEMMA KeyMerged ==
  ASSUME NEW k, NEW value, NEW value2, NEW T, IsValue(value), IsValue(value2),
         KeyFits(k, value, T), KeyFits(k, value2, T), ~ TwoTypes(T)
  PROVE  KeyFits(k, MergeValue(k, value, value2), T)
<1> DEFINE new == MergeValue(k, value, value2)
           kept == IF k = "volumes" THEN Superseded(value.v, value2.v) ELSE value.v
           scalars == MergeScalars(value.v, value2.v)
<1>1. CASE k \in Replaced
  <2>1. new = value2
    BY <1>1 DEF MergeValue
  <2> QED BY <2>1
<1>2. CASE k \notin Replaced
  <2>1. value.t = value2.t
    <3>1. << <<k>>, value.t >> \in T /\ << <<k>>, value2.t >> \in T
      BY <1>2 DEF KeyFits
    <3> QED BY <3>1 DEF TwoTypes
  <2>2. CASE value.t = "list"
    <3>1. new = [value EXCEPT !.v = kept \o value2.v]
      BY <1>2, <2>1, <2>2 DEF MergeValue
    <3> HIDE DEF kept
    <3>2. new.t = value.t
      BY <3>1 DEF IsValue
    <3> HIDE DEF new
    <3> QED BY <1>2, <2>2, <3>2 DEF KeyFits, new
  <2>3. CASE value.t = "dict"
    <3>1. new = [value EXCEPT !.v = scalars]
      BY <1>2, <2>1, <2>3 DEF MergeValue
    <3>2. ScalarsMerged(scalars, value.v, value2.v)
      BY MergeScalarsAt
    <3> HIDE DEF scalars
    <3>3. new.t = "dict" /\ new.v = scalars
      BY <2>3, <3>1 DEF IsValue
    <3>4. ASSUME NEW j \in DOMAIN scalars
          PROVE  \/ j \in DOMAIN value.v /\ scalars[j] = value.v[j]
                 \/ j \in DOMAIN value2.v /\ scalars[j] = value2.v[j]
      <4>1. CASE j \in DOMAIN value.v \cap DOMAIN value2.v /\ j \notin Replaced
        <5>1. << <<k, j>>, value.v[j].t >> \in T /\ << <<k, j>>, value2.v[j].t >> \in T
          BY <1>2, <2>1, <2>3, <4>1 DEF KeyFits
        <5>2. value.v[j].t = value2.v[j].t
          BY <5>1 DEF TwoTypes
        <5> QED BY <3>2, <4>1, <5>2 DEF ScalarsMerged
      <4>2. CASE ~ (j \in DOMAIN value.v \cap DOMAIN value2.v /\ j \notin Replaced)
        BY <3>2, <3>4, <4>2 DEF ScalarsMerged
      <4> QED BY <4>1, <4>2
    <3>5. ASSUME NEW j \in DOMAIN scalars
          PROVE  /\ scalars[j].t # "raised"
                 /\ j \notin Replaced => << <<k, j>>, scalars[j].t >> \in T
      BY <1>2, <2>1, <2>3, <3>4, <3>5 DEF KeyFits
    <3>6. << <<k>>, "dict" >> \in T
      BY <1>2, <2>3 DEF KeyFits
    <3> HIDE DEF new
    <3> QED BY <3>3, <3>5, <3>6 DEF KeyFits, new
  <2>4. CASE value.t \notin {"list", "dict"}
    <3>1. new = value2
      BY <1>2, <2>1, <2>4 DEF MergeValue
    <3> QED BY <3>1
  <2> QED BY <2>2, <2>3, <2>4
<1> QED BY <1>1, <1>2

LEMMA FitsMerged ==
  ASSUME NEW x, NEW y, NEW T, IsService(x), IsService(y), Fits(x, T), Fits(y, T),
         ~ TwoTypes(T)
  PROVE  Fits(MergeService(x, y), T)
<1> DEFINE all == MergeService(x, y)
<1>1. /\ DOMAIN all = DOMAIN x \cup DOMAIN y
      /\ \A k \in DOMAIN all :
           all[k] = IF k \notin DOMAIN y THEN x[k]
                    ELSE IF k \notin DOMAIN x THEN y[k]
                    ELSE MergeValue(k, x[k], y[k])
  BY MergeServiceAt
<1> HIDE DEF all
<1>2. ASSUME NEW k \in DOMAIN all PROVE KeyFits(k, all[k], T)
  <2>1. CASE k \in DOMAIN x /\ k \in DOMAIN y
    <3>1. /\ IsValue(x[k]) /\ IsValue(y[k]) /\ KeyFits(k, x[k], T) /\ KeyFits(k, y[k], T)
      BY <2>1 DEF Fits, IsService
    <3>2. KeyFits(k, MergeValue(k, x[k], y[k]), T)
      BY <3>1, KeyMerged
    <3> QED BY <1>1, <2>1, <3>2
  <2>2. CASE ~ (k \in DOMAIN x /\ k \in DOMAIN y)
    BY <1>1, <2>2 DEF Fits
  <2> QED BY <2>1, <2>2
<1> QED BY <1>2 DEF Fits, all

(* A path instead of another changes no type.                              *)
LEMMA FitsRelocated ==
  ASSUME NEW p, NEW srv, NEW T, IsService(srv), Fits(srv, T)
  PROVE  Fits(Relocated(p, srv), T)
<1>1. CASE Relocated(p, srv) = srv
  BY <1>1
<1>2. CASE Relocated(p, srv) # srv
  <2> DEFINE x == srv["extends"]
             w == [x.v EXCEPT !["file"].v = Joined(p, @)]
             y == [x EXCEPT !.v = w]
  <2>1. Relocated(p, srv) = [srv EXCEPT !["extends"] = y]
    BY <1>2 DEF Relocated
  <2>2. "extends" \in DOMAIN srv /\ IsValue(x) /\ KeyFits("extends", x, T)
    BY <1>2 DEF Relocated, IsService, Fits
  <2>3. DOMAIN w = DOMAIN x.v
    OBVIOUS
  <2>4. ASSUME x.t = "dict", NEW j \in DOMAIN w PROVE w[j].t = x.v[j].t
    <3>1. j \in DOMAIN x.v /\ {"t", "v"} \subseteq DOMAIN x.v[j]
      BY <2>2, <2>4 DEF IsValue
    <3> QED BY <3>1
  <2> HIDE DEF w
  <2>5. y.t = x.t /\ y.v = w
    BY <2>2 DEF IsValue
  <2> HIDE DEF x, y
  <2>6. KeyFits("extends", y, T)
    BY <2>2, <2>3, <2>4, <2>5 DEF KeyFits
  <2> QED BY <2>1, <2>6 DEF Fits
<1> QED BY <1>1, <1>2

(* A key is missing of a service that fits, or nothing is there.           *)
LEMMA FitsLess ==
  ASSUME NEW srv, NEW T
  PROVE  /\ Fits(Empty, T)
         /\ \A key : Fits(srv, T) => Fits(Without(srv, key), T)
<1>1. DOMAIN Empty = {}
  BY DEF Empty
<1>2. Fits(Empty, T)
  BY <1>1 DEF Fits
<1>3. ASSUME NEW key, Fits(srv, T) PROVE Fits(Without(srv, key), T)
  BY <1>3 DEF Fits, Without
<1> QED BY <1>2, <1>3

LEMMA FitsExtended ==
  ASSUME NEW base, NEW srv, NEW T, IsService(base), IsService(srv),
         Fits(base, T), Fits(srv, T), ~ TwoTypes(T)
  PROVE  Fits(Extended(base, srv), T)
<1> DEFINE copy == MergeService(Empty, base)
<1>1. IsService(copy) /\ Fits(copy, T)
  <2>1. IsService(Empty) /\ Fits(Empty, T)
    BY EmptyIs, FitsLess
  <2> QED BY <2>1, FitsMerged, MergeServiceIs
<1>2. Extended(base, srv) = MergeService(copy, srv)
  BY DEF Extended
<1> HIDE DEF copy
<1> QED BY <1>1, <1>2, FitsMerged

(* The types that the files give.                                          *)
GivenTypes ==
  UNION {UNION {Typed(d.services[s]) : s \in DOMAIN d.services} :
           d \in {disk[p] : p \in Mappings}}

LEMMA GivenFits ==
  ASSUME disk \in Disks, NEW p \in Mappings, NEW s \in DOMAIN disk[p].services
  PROVE  IsService(disk[p].services[s]) /\ Fits(disk[p].services[s], GivenTypes)
<1> DEFINE srv == disk[p].services[s]
           Of(d) == UNION {Typed(d.services[u]) : u \in DOMAIN d.services}
<1>1. /\ AreServices(disk[p].services)
      /\ ~ ServiceRaised(srv)
  BY ReadingAssumption DEF Mappings, Kind
<1>2. IsService(srv)
  BY <1>1 DEF AreServices, IsService
<1>3. disk[p] \in {disk[q] : q \in Mappings}
  OBVIOUS
<1>4. Typed(srv) \subseteq Of(disk[p])
  <2>1. Typed(srv) \in {Typed(disk[p].services[u]) : u \in DOMAIN disk[p].services}
    OBVIOUS
  <2> QED BY <2>1
<1> HIDE DEF Of, srv
<1>5. Of(disk[p]) \subseteq UNION {Of(d) : d \in {disk[q] : q \in Mappings}}
  BY <1>3
<1>6. GivenTypes = UNION {Of(d) : d \in {disk[q] : q \in Mappings}}
  BY DEF GivenTypes, Of
<1>7. Fits(srv, GivenTypes)
  BY <1>1, <1>4, <1>5, <1>6, FitsIs
<1> QED BY <1>2, <1>7 DEF srv

(* What the user has to mend: before services are resolved, and after. *)
Mistake ==
  \/ \A n \in DOMAIN line.files : Kind(line.files[n]) = "missing"
  \/ \E p \in Needed : Kind(p) # "mapping" \/ ~ Supplied(p)
  \/ Kind(Head(Files)) = "mapping" /\ Nameless
  \/ \E s \in DOMAIN services : ~ BasesOf(s) \subseteq DOMAIN services
  \/ TwoTypes(GivenTypes)

TopOf(files) == UNION {disk[p].top : p \in ToSet(files)}

Undeclared == \E s \in DOMAIN services : ~ Uses(services[s]) \subseteq Declared(TopOf(read))

LEMMA MistakeStays ==
  ASSUME UNCHANGED <<disk, line, services>>, Mistake
  PROVE  Mistake'
<1>1. disk' = disk /\ line' = line /\ services' = services
  OBVIOUS
<1>2. Levels' = Levels /\ Mappings' = Mappings /\ Files' = Files
  BY Undisturbed
<1>3. GivenTypes' = GivenTypes
  BY <1>1, <1>2 DEF GivenTypes
<1>4. Needed' = Needed
  BY <1>1, <1>2 DEF Needed
<1>5. Nameless' = Nameless
  BY <1>1, <1>2 DEF Nameless
<1> QED BY <1>1, <1>2, <1>3, <1>4, <1>5 DEF Mistake, Kind, Supplied, BasesOf

LEMMA FailsForCauseIs ==
  FailsForCause <=> (pc \in {"exit", "raised"} => Mistake \/ Undeclared)
<1>1. {x \in Paths : Kind(x) = "mapping"} = Mappings
  BY DEF Mappings
<1> QED BY <1>1 DEF FailsForCause, Mistake, Undeclared, TopOf, GivenTypes, TwoTypes

(* The first file is read before there is a name, and what is declared is  *)
(* what the files read declare.                                            *)
FirstInv ==
  /\ pc = "start" => read = <<>> /\ compose.top = {}
  /\ pc = "read" => (read = <<>> /\ pending = Files) \/ project # <<>>
  /\ pc \in {"read", "extend"} => compose.top = TopOf(read)

LEMMA FirstNext ==
  ASSUME TypeInv, QueueInv, FirstInv, [Next]_vars
  PROVE  FirstInv'
<1>1. CASE Again
  <2>1. pc' = "start" /\ read' = <<>> /\ compose'.top = {}
    BY <1>1 DEF Again, Nothing
  <2> QED BY <2>1 DEF FirstInv
<1>2. CASE Start
  <2> DEFINE None == Files = <<>> \/ ~ ToSet(Files) \subseteq Existing
  <2>1. /\ pc = "start" /\ UNCHANGED <<disk, line, read, compose>>
        /\ IF None THEN pc' = "exit" /\ UNCHANGED pending
           ELSE pc' = "read" /\ pending' = Files
    BY <1>2 DEF Start
  <2> HIDE DEF None
  <2>2. pc' = "exit" \/ (pc' = "read" /\ pending' = Files)
    BY <2>1
  <2>3. read' = <<>> /\ compose'.top = {} /\ ToSet(<<>>) = {}
    BY <2>1 DEF FirstInv, ToSet
  <2>4. Files' = Files
    BY <2>1, Undisturbed
  <2>5. TopOf(read)' = {}
    BY <2>3 DEF TopOf
  <2> QED BY <2>2, <2>3, <2>4, <2>5 DEF FirstInv
<1>3. CASE ReadFile
  <2> DEFINE p == Head(pending)
  <2>1. /\ pc = "read" /\ UNCHANGED disk
        /\ \/ pc' \in {"exit", "raised"}
           \/ /\ Kind(p) = "mapping" /\ pc' = "read" /\ read' = Append(read, p)
              /\ compose'.top = compose.top \cup disk[p].top /\ project' # <<>>
    BY <1>3, ReadFileCases
  <2>2. CASE pc' \in {"exit", "raised"}
    BY <2>2 DEF FirstInv
  <2>3. CASE pc' = "read"
    <3>1. p \in Mappings /\ read \in Seq(Mappings)
      BY <2>1, <2>3 DEF Mappings, Kind, QueueInv, Queued
    <3> HIDE DEF p
    <3>2. ToSet(Append(read, p)) = ToSet(read) \cup {p}
      BY <3>1, ToSetAppend
    <3>3. TopOf(Append(read, p)) = TopOf(read) \cup disk[p].top
      BY <3>2 DEF TopOf
    <3>4. TopOf(read)' = TopOf(Append(read, p))
      BY <2>1, <2>3 DEF TopOf
    <3> QED BY <2>1, <2>3, <3>3, <3>4 DEF FirstInv
  <2> QED BY <2>1, <2>2, <2>3
<1>4. CASE Exhaust \/ ExtendsEnd
  <2>1. pc' \in {"exhausted", "done", "raised"}
    BY <1>4 DEF Exhaust, ExtendsEnd
  <2> QED BY <2>1 DEF FirstInv
<1>5. CASE FilesEnd
  <2>1. pc = "read" /\ pc' = "extend" /\ UNCHANGED <<disk, read, compose>>
    BY <1>5 DEF FilesEnd
  <2> QED BY <2>1 DEF FirstInv, TopOf
<1>6. ASSUME NEW s \in extending, ExtendService(s) PROVE FirstInv'
  <2>1. pc = "extend" /\ pc' \in {"extend", "raised"} /\ UNCHANGED <<disk, read, compose>>
    BY <1>6 DEF ExtendService
  <2> QED BY <2>1 DEF FirstInv, TopOf
<1>7. CASE UNCHANGED vars
  <2>1. UNCHANGED <<disk, line, pc, pending, read, compose, project>>
    BY <1>7 DEF vars
  <2>2. Files' = Files
    BY <2>1, Undisturbed
  <2> QED BY <2>1, <2>2 DEF FirstInv, TopOf
<1> QED BY <1>1, <1>2, <1>3, <1>4, <1>5, <1>6, <1>7 DEF Next, Step

(* Unless the files give a key in two types, services merged so far, and   *)
(* those that resolve_extends works on, have the types of the files; and   *)
(* whatever fails has a cause.                                             *)
FitInv ==
  /\ pc \in {"exit", "raised"} => Mistake \/ Undeclared
  /\ ~ TwoTypes(GivenTypes) =>
       /\ pc \in {"start", "read"} =>
            \A s \in DOMAIN compose.services : Fits(compose.services[s], GivenTypes)
       /\ pc = "extend" => \A s \in DOMAIN services : Fits(services[s], GivenTypes)

LEMMA TypesStay ==
  ASSUME UNCHANGED disk
  PROVE  GivenTypes' = GivenTypes
<1>1. Mappings' = Mappings
  BY DEF Mappings, Kind
<1> QED BY <1>1 DEF GivenTypes

LEMMA FitsThen ==
  ASSUME UNCHANGED disk, NEW srvs, \A s \in DOMAIN srvs : Fits(srvs[s], GivenTypes)
  PROVE  /\ compose'.services = srvs =>
              \A s \in DOMAIN compose'.services : Fits(compose'.services[s], GivenTypes')
         /\ services' = srvs =>
              \A s \in DOMAIN services' : Fits(services'[s], GivenTypes')
<1>1. GivenTypes' = GivenTypes
  BY TypesStay
<1> QED BY <1>1

(* Reading a file gives services that fit, or two types were given.        *)
LEMMA ReadFits ==
  ASSUME disk \in Disks, AreServices(compose.services), Head(pending) \in Mappings,
         \A s \in DOMAIN compose.services : Fits(compose.services[s], GivenTypes),
         ~ TwoTypes(GivenTypes)
  PROVE  \A s \in DOMAIN ReadResult : Fits(ReadResult[s], GivenTypes)
<1> DEFINE p == Head(pending)
           T == GivenTypes
           x == compose.services
           y == Relocations(p)
           all == ReadResult
<1>1. ServicesMerged(all, x, y)
  BY RecMergeAt DEF ReadResult
<1>2. \A s \in DOMAIN x : IsService(x[s]) /\ Fits(x[s], T)
  BY DEF AreServices, IsService
<1>3. ASSUME NEW s \in DOMAIN y PROVE IsService(y[s]) /\ Fits(y[s], T)
  <2>1. s \in DOMAIN disk[p].services /\ y[s] = Relocated(p, disk[p].services[s])
    BY DEF Relocations
  <2>2. IsService(disk[p].services[s]) /\ Fits(disk[p].services[s], T)
    BY <2>1, GivenFits
  <2> QED BY <2>1, <2>2, FitsRelocated, RelocatedIs
<1> HIDE DEF T, x, y, all
<1>4. ASSUME NEW s \in DOMAIN all PROVE Fits(all[s], T)
  <2>1. CASE s \in DOMAIN x /\ s \in DOMAIN y
    <3>1. all[s] = MergeService(x[s], y[s])
      BY <1>1, <2>1 DEF ServicesMerged
    <3>2. Fits(MergeService(x[s], y[s]), T)
      BY <1>2, <1>3, <2>1, FitsMerged DEF T
    <3> QED BY <3>1, <3>2
  <2>2. CASE s \notin DOMAIN y
    BY <1>1, <1>2, <2>2 DEF ServicesMerged
  <2>3. CASE s \in DOMAIN y /\ s \notin DOMAIN x
    BY <1>1, <1>3, <2>3 DEF ServicesMerged
  <2> QED BY <2>1, <2>2, <2>3
<1> QED BY <1>4 DEF T, all

(* resolve_extends: a service fits once it is resolved; it raises for a    *)
(* cause.                                                                  *)
LEMMA ExtendFits ==
  ASSUME TypeInv, NEW s \in DOMAIN services, ExtendService(s),
         \A u \in DOMAIN services : Fits(services[u], GivenTypes),
         ~ TwoTypes(GivenTypes)
  PROVE  \/ pc' = "raised" /\ UNCHANGED services /\ Mistake
         \/ pc' = "extend" /\ UNCHANGED services
         \/ pc' = "extend" /\ \E e : /\ services' = [services EXCEPT ![s] = e]
                                     /\ Fits(e, GivenTypes)
<1> DEFINE T == GivenTypes
           srv == services[s]
           names == {n \in Extends(srv, "service") :
                       \/ Extends(srv, "file") # {}
                            /\ \A p \in Extends(srv, "file") : Kind(p) = "mapping" /\ Supplied(p)
                       \/ Extends(srv, "file") = {} /\ n \in DOMAIN services}
           Found(n) == IF Extends(srv, "file") = {} THEN Without(services[n], "extends")
                       ELSE FileBase(CHOOSE p \in Extends(srv, "file") : TRUE, n)
           new == {Extended(base, srv) : base \in {Found(n) : n \in names}}
<1>1. /\ pc = "extend"
      /\ IF Extends(srv, "service") = {}
         THEN extending' = extending \ {s} /\ UNCHANGED <<services, pc>>
         ELSE IF new = {} \/ \E n \in new : ServiceRaised(n)
         THEN pc' = "raised" /\ UNCHANGED <<services, extending>>
         ELSE /\ services' = [services EXCEPT ![s] = CHOOSE n \in new : TRUE]
              /\ extending' = extending \ {s}
              /\ UNCHANGED pc
  BY DEF ExtendService
<1>2. ASSUME NEW n \in names PROVE IsService(Found(n)) /\ Fits(Found(n), T)
  <2>1. CASE Extends(srv, "file") = {}
    <3>1. IsService(services[n]) /\ Fits(services[n], T)
      BY <1>1, <1>2, <2>1 DEF TypeInv, AreServices, IsService
    <3>2. IsService(Without(services[n], "extends"))
      BY <3>1 DEF IsService, Without
    <3> HIDE DEF T
    <3>3. Fits(Without(services[n], "extends"), T)
      BY <3>1, FitsLess
    <3> QED BY <2>1, <3>2, <3>3
  <2>2. CASE Extends(srv, "file") # {}
    <3> DEFINE p == CHOOSE p \in Extends(srv, "file") : TRUE
    <3>1. p \in Extends(srv, "file")
      BY <2>2
    <3>2. Kind(p) = "mapping"
      BY <1>2, <2>2, <3>1
    <3> HIDE DEF p
    <3>3. p \in Mappings
      BY <3>2 DEF Mappings, Kind
    <3>4. IsService(FileBase(p, n)) /\ Fits(FileBase(p, n), T)
      <4>1. CASE n \in DOMAIN disk[p].services
        BY <3>3, <4>1, GivenFits DEF FileBase, TypeInv
      <4>2. CASE n \notin DOMAIN disk[p].services
        <5> HIDE DEF T
        <5>1. IsService(Empty) /\ Fits(Empty, T)
          BY EmptyIs, FitsLess
        <5> QED BY <4>2, <5>1 DEF FileBase
      <4> QED BY <4>1, <4>2
    <3> QED BY <2>2, <3>4 DEF p
  <2> QED BY <2>1, <2>2
<1>3. IsService(srv) /\ Fits(srv, T)
  BY <1>1 DEF TypeInv, AreServices, IsService
<1>4. ASSUME NEW n \in new PROVE Fits(n, T) /\ ~ ServiceRaised(n)
  <2>1. PICK m \in names : n = Extended(Found(m), srv)
    OBVIOUS
  <2>2. IsService(Found(m)) /\ Fits(Found(m), T) /\ ~ TwoTypes(T)
    BY <1>2
  <2> HIDE DEF T, Found, srv
  <2>3. Fits(n, T)
    BY <1>3, <1>4, <2>1, <2>2, FitsExtended
  <2>4. ~ ServiceRaised(n)
    BY <2>3, FitsIs
  <2> QED BY <2>3, <2>4
<1>5. ASSUME names = {}, Extends(srv, "service") # {} PROVE Mistake
  <2>1. PICK n : n \in Extends(srv, "service")
    BY <1>5
  <2>2. n \notin names
    BY <1>5
  <2>3. CASE Extends(srv, "file") # {}
    <3>1. PICK p \in Extends(srv, "file") : Kind(p) # "mapping" \/ ~ Supplied(p)
      BY <2>1, <2>2, <2>3
    <3>2. p \in Needed
      BY <3>1 DEF Needed
    <3> QED BY <3>1, <3>2 DEF Mistake
  <2>4. CASE Extends(srv, "file") = {}
    <3>1. n \notin DOMAIN services /\ n \in BasesOf(s)
      BY <2>1, <2>2, <2>4 DEF BasesOf
    <3> QED BY <3>1 DEF Mistake
  <2> QED BY <2>3, <2>4
<1>6. new = {} => names = {}
  OBVIOUS
<1> HIDE DEF names, Found
<1>7. CASE Extends(srv, "service") = {}
  BY <1>1, <1>7
<1>8. CASE Extends(srv, "service") # {} /\ (new = {} \/ \E n \in new : ServiceRaised(n))
  <2>1. pc' = "raised" /\ UNCHANGED services
    BY <1>1, <1>8
  <2>2. Mistake
    BY <1>4, <1>5, <1>6, <1>8
  <2> QED BY <2>1, <2>2
<1>9. CASE Extends(srv, "service") # {} /\ ~ (new = {} \/ \E n \in new : ServiceRaised(n))
  <2> DEFINE e == CHOOSE n \in new : TRUE
  <2>1. pc' = "extend" /\ services' = [services EXCEPT ![s] = e]
    BY <1>1, <1>9
  <2>2. e \in new
    BY <1>9
  <2> HIDE DEF e
  <2>3. Fits(e, T)
    BY <1>4, <2>2
  <2> QED BY <2>1, <2>3
<1> QED BY <1>7, <1>8, <1>9

(* The name of the project is empty only if the one that is given, or that *)
(* of the directory, has nothing that is kept.                             *)
LEMMA NoName ==
  ASSUME disk \in Disks, line \in Lines, Head(Files) \in Mappings,
         ProjectName(disk[Head(Files)]) = <<>>
  PROVE  Mistake
<1> DEFINE p == Head(Files)
           given == GivenName(disk[p])
           directory == Directory[p]
<1>1. /\ line.environ \in Seq(Runs) /\ disk[p].name \in Seq(Runs)
      /\ directory \in Seq(Runs) /\ Kind(p) = "mapping"
  BY ReadingAssumption DEF Mappings, Kind
<1>2. line.project = <<>> /\ Normalized(given) = <<>>
  BY DEF ProjectName
<1>3. ASSUME NEW name \in Seq(Runs), Normalized(name) = <<>> PROVE "kept" \notin ToSet(name)
  <2>1. ToSet(Kept(name, {"kept"})) = ToSet(name) \cap {"kept"}
    BY KeptIs
  <2>2. ToSet(<<>>) = {}
    BY DEF ToSet
  <2> QED BY <1>3, <2>1, <2>2 DEF Normalized
<1>4. \/ line.environ # <<>> /\ given = line.environ
      \/ line.environ = <<>> /\ disk[p].name # <<>> /\ given = disk[p].name
      \/ line.environ = <<>> /\ disk[p].name = <<>> /\ given = Lowered(directory)
  BY DEF GivenName
<1>5. /\ Lowered(directory) \in Seq(Runs)
      /\ "kept" \notin ToSet(Lowered(directory)) => ToSet(directory) \subseteq {"other"}
  <2> DEFINE low == Lowered(directory)
  <2> HIDE DEF directory
  <2>1. /\ Len(directory) \in Nat /\ DOMAIN directory = 1..Len(directory)
        /\ \A n \in 1..Len(directory) : directory[n] \in Runs
    BY <1>1
  <2>2. /\ DOMAIN low = 1..Len(directory)
        /\ \A n \in 1..Len(directory) :
             low[n] = IF directory[n] = "upper" THEN "kept" ELSE directory[n]
    BY <2>1 DEF Lowered
  <2>3. low = [n \in 1..Len(directory) |-> low[n]]
    BY <2>1 DEF Lowered
  <2> HIDE DEF low
  <2>4. low \in Seq(Runs)
    <3>1. \A n \in 1..Len(directory) : low[n] \in Runs
      BY <2>1, <2>2 DEF Runs
    <3> QED BY <2>1, <2>3, <3>1
  <2>5. ASSUME "kept" \notin ToSet(low), NEW n \in 1..Len(directory)
        PROVE  directory[n] = "other"
    <3>1. low[n] # "kept"
      BY <2>2, <2>5 DEF ToSet
    <3> QED BY <2>1, <2>2, <3>1 DEF Runs
  <2>6. "kept" \notin ToSet(low) => ToSet(directory) \subseteq {"other"}
    BY <2>1, <2>5 DEF ToSet
  <2> QED BY <2>4, <2>6 DEF low
<1> HIDE DEF given, directory
<1>6. given \in Seq(Runs) /\ "kept" \notin ToSet(given)
  BY <1>1, <1>2, <1>3, <1>4, <1>5
<1>7. Nameless
  BY <1>2, <1>4, <1>5, <1>6 DEF Nameless, directory
<1> QED BY <1>1, <1>7 DEF Mistake

LEMMA StartFits ==
  ASSUME TypeInv, QueueInv, FitInv, Start
  PROVE  FitInv'
<1> DEFINE None == Files = <<>> \/ ~ ToSet(Files) \subseteq Existing
<1>1. /\ pc = "start" /\ UNCHANGED <<disk, line, services, compose>>
      /\ IF None THEN pc' = "exit" /\ UNCHANGED pending
         ELSE pc' = "read" /\ pending' = Files
  BY DEF Start
<1>2. ASSUME None PROVE Mistake
  <2>1. line.files \in Seq(Paths)
    BY ReadingAssumption DEF QueueInv
  <2>2. \A n \in DOMAIN line.files : line.files[n] \in Paths
    BY <2>1
  <2>3. CASE line.given
    <3>1. Files = line.files
      BY <2>3 DEF Files
    <3>2. CASE Files = <<>>
      BY <3>1, <3>2 DEF Mistake
    <3>3. CASE ~ ToSet(Files) \subseteq Existing
      <4>1. PICK p \in ToSet(line.files) : p \notin Existing
        BY <3>1, <3>3
      <4>2. PICK n \in DOMAIN line.files : p = line.files[n]
        BY <4>1 DEF ToSet
      <4>3. Kind(p) = "missing"
        BY <2>2, <4>1, <4>2 DEF Kind, Existing
      <4>4. Queued(<<>>, Files)
        BY QueuedFirst DEF TypeInv, QueueInv
      <4>5. p \in ToSet(FlattenSeq(Levels))
        BY <3>1, <4>1, <4>4, QueuedLevel DEF TypeInv, QueueInv
      <4> QED BY <4>3, <4>5 DEF Mistake, Needed
    <3> QED BY <1>2, <3>2, <3>3
  <2>4. CASE ~ line.given
    <3>1. Files = Kept(line.files, Existing)
      BY <2>4 DEF Files
    <3>2. ToSet(Files) = ToSet(line.files) \cap Existing /\ Files \in Seq(Paths)
      BY <2>1, <3>1, KeptIs
    <3>3. Files = <<>>
      BY <1>2, <3>2
    <3>4. ToSet(Files) = {}
      BY <3>3 DEF ToSet
    <3>5. ASSUME NEW n \in DOMAIN line.files PROVE Kind(line.files[n]) = "missing"
      <4>1. line.files[n] \in ToSet(line.files)
        BY DEF ToSet
      <4> QED BY <2>2, <3>2, <3>4, <4>1 DEF Kind, Existing
    <3> QED BY <3>5 DEF Mistake
  <2> QED BY <2>3, <2>4
<1> HIDE DEF None
<1>3. CASE None
  <2>1. pc' = "exit" /\ Mistake'
    BY <1>1, <1>2, <1>3, MistakeStays
  <2> QED BY <2>1 DEF FitInv
<1>4. CASE ~ None
  <2>1. pc' = "read" /\ UNCHANGED <<disk, compose>>
    BY <1>1, <1>4
  <2>2. CASE TwoTypes(GivenTypes)
    <3>1. GivenTypes' = GivenTypes
      BY <2>1, TypesStay
    <3> QED BY <2>1, <2>2, <3>1 DEF FitInv
  <2>3. CASE ~ TwoTypes(GivenTypes)
    <3>1. \A s \in DOMAIN compose.services : Fits(compose.services[s], GivenTypes)
      BY <1>1, <2>3 DEF FitInv
    <3> QED BY <2>1, <3>1, FitsThen DEF FitInv
  <2> QED BY <2>2, <2>3
<1> QED BY <1>3, <1>4

LEMMA ReadFileFits ==
  ASSUME TypeInv, QueueInv, FirstInv, FitInv, ReadFile
  PROVE  FitInv'
<1> DEFINE p == Head(pending)
           merged == ReadResult
           name == IF project = <<>> THEN ProjectName(disk[p]) ELSE project
           T == GivenTypes
<1>1. /\ pc = "read" /\ pending # <<>> /\ Len(read) < MaxFiles
      /\ UNCHANGED <<disk, line, hash, extending, services, last>>
      /\ \/ /\ Kind(p) # "mapping" /\ pc' \in {"exit", "raised"}
         \/ /\ Kind(p) = "mapping" /\ pc' = "raised"
            /\ \/ name = <<>> \/ ~ Supplied(p)
               \/ \E s \in DOMAIN merged : ServiceRaised(merged[s])
         \/ /\ Kind(p) = "mapping" /\ pc' = "read"
            /\ \A s \in DOMAIN merged : ~ ServiceRaised(merged[s])
            /\ read' = Append(read, p)
            /\ pending' = Tail(pending) \o Includes(p)
            /\ compose'.services = merged /\ compose'.include = <<>>
  BY ReadFileCases
<1>2. /\ disk \in Disks /\ line \in Lines /\ Queued(read, pending)
      /\ AreServices(compose.services)
  BY <1>1 DEF TypeInv, QueueInv
<1>3. Kind(p) = "mapping" => p \in Mappings
  BY DEF Kind, Mappings
<1>4. p \in Mappings /\ ~ TwoTypes(T) => \A s \in DOMAIN merged : Fits(merged[s], T)
  BY <1>1, <1>2, ReadFits DEF FitInv
<1>5. UNCHANGED <<disk, line, services>>
  BY <1>1
<1>9. project = <<>> => p = Head(Files)
  BY <1>1 DEF FirstInv
<1>10. p \in Needed
  <2>1. p \in ToSet(pending)
    <3>1. pending \in Seq(Named)
      BY <1>2 DEF Queued
    <3> QED BY <1>1, <3>1, HeadAndTail DEF p
  <2>2. p \in ToSet(FlattenSeq(Levels))
    BY <1>2, <2>1, QueuedLevel
  <2> QED BY <2>2 DEF Needed
<1> HIDE DEF p, merged, T
<1>6. CASE Kind(p) # "mapping"
  <2>1. Mistake
    BY <1>6, <1>10 DEF Mistake
  <2>2. pc' \in {"exit", "raised"} /\ Mistake'
    BY <1>1, <1>5, <1>6, <2>1, MistakeStays
  <2> QED BY <2>2 DEF FitInv
<1>7. CASE Kind(p) = "mapping" /\ pc' = "raised"
  <2>1. \/ name = <<>> \/ ~ Supplied(p)
        \/ \E s \in DOMAIN merged : ServiceRaised(merged[s])
    BY <1>1, <1>7
  <2>2. CASE name = <<>>
    <3>1. project = <<>> /\ ProjectName(disk[p]) = <<>>
      BY <2>2
    <3>2. p = Head(Files) /\ p \in Mappings
      BY <1>3, <1>7, <1>9, <3>1
    <3>3. Mistake
      BY <1>2, <3>1, <3>2, NoName
    <3> QED BY <1>5, <1>7, <3>3, MistakeStays DEF FitInv
  <2>4. CASE ~ Supplied(p)
    <3>1. Mistake
      BY <1>10, <2>4 DEF Mistake
    <3> QED BY <1>5, <1>7, <3>1, MistakeStays DEF FitInv
  <2>3. CASE \E s \in DOMAIN merged : ServiceRaised(merged[s])
    <3>1. TwoTypes(T)
      <4> SUFFICES ASSUME ~ TwoTypes(T) PROVE FALSE
        OBVIOUS
      <4>1. \A s \in DOMAIN merged : Fits(merged[s], T)
        BY <1>3, <1>4, <1>7
      <4> QED BY <2>3, <4>1, FitsIs
    <3>2. Mistake
      BY <3>1 DEF Mistake, T
    <3> QED BY <1>5, <1>7, <3>2, MistakeStays DEF FitInv
  <2> QED BY <2>1, <2>2, <2>3, <2>4
<1>8. CASE Kind(p) = "mapping" /\ pc' = "read"
  <2>1. compose'.services = merged
    BY <1>1, <1>8
  <2>2. CASE TwoTypes(T)
    BY <1>5, <1>8, <2>2, TypesStay DEF FitInv, T
  <2>3. CASE ~ TwoTypes(T)
    <3>1. \A s \in DOMAIN merged : Fits(merged[s], T)
      BY <1>3, <1>4, <1>8, <2>3
    <3>2. \A s \in DOMAIN compose'.services : Fits(compose'.services[s], GivenTypes')
      BY <1>5, <2>1, <3>1, FitsThen DEF T
    <3> QED BY <1>8, <3>2 DEF FitInv
  <2> QED BY <2>2, <2>3
<1> QED BY <1>1, <1>6, <1>7, <1>8

LEMMA ExtendStepFits ==
  ASSUME TypeInv, HashInv, FitInv, NEW s \in extending, ExtendService(s)
  PROVE  FitInv'
<1>1. pc = "extend" /\ pc' \in {"extend", "raised"} /\ UNCHANGED <<disk, line>>
  BY DEF ExtendService
<1>2. s \in DOMAIN services
  <2>1. extending \subseteq DOMAIN hash /\ services = [u \in DOMAIN hash |-> services[u]]
    BY <1>1 DEF HashInv, Resolved
  <2> QED BY <2>1
<1>3. CASE TwoTypes(GivenTypes)
  <2>1. TwoTypes(GivenTypes')
    BY <1>1, <1>3, TypesStay
  <2>2. Mistake'
    BY <2>1 DEF Mistake
  <2> QED BY <2>1, <2>2 DEF FitInv
<1>4. CASE ~ TwoTypes(GivenTypes)
  <2>1. \A u \in DOMAIN services : Fits(services[u], GivenTypes)
    BY <1>1, <1>4 DEF FitInv
  <2>2. \/ pc' = "raised" /\ UNCHANGED services /\ Mistake
        \/ pc' = "extend" /\ UNCHANGED services
        \/ pc' = "extend" /\ \E e : /\ services' = [services EXCEPT ![s] = e]
                                    /\ Fits(e, GivenTypes)
    BY <1>2, <1>4, <2>1, ExtendFits
  <2>3. GivenTypes' = GivenTypes
    BY <1>1, TypesStay
  <2>4. CASE pc' = "raised" /\ UNCHANGED services /\ Mistake
    BY <1>1, <2>4, MistakeStays DEF FitInv
  <2>5. CASE pc' = "extend"
    <3>1. \A u \in DOMAIN services' : Fits(services'[u], GivenTypes')
      BY <1>2, <2>1, <2>2, <2>3, <2>5
    <3> QED BY <2>5, <3>1 DEF FitInv
  <2> QED BY <2>2, <2>4, <2>5
<1> QED BY <1>3, <1>4

LEMMA FitNext ==
  ASSUME TypeInv, HashInv, QueueInv, FirstInv, FitInv, [Next]_vars
  PROVE  FitInv'
<1>1. CASE Again
  <2>1. pc' = "start" /\ compose'.services = Empty
    BY <1>1 DEF Again, Nothing
  <2>2. DOMAIN Empty = {}
    BY DEF Empty
  <2> QED BY <2>1, <2>2 DEF FitInv
<1>2. CASE Start
  BY <1>2, StartFits
<1>3. CASE ReadFile
  BY <1>3, ReadFileFits
<1>4. CASE Exhaust
  <2>1. pc' = "exhausted"
    BY <1>4 DEF Exhaust
  <2> QED BY <2>1 DEF FitInv
<1>8. CASE ExtendsEnd
  <2>1. /\ pc = "extend" /\ pc' \in {"done", "raised"} /\ UNCHANGED <<disk, read, services>>
        /\ pc' = "raised" => \E s \in DOMAIN services :
                              ~ Uses(services[s]) \subseteq Declared(compose.top)
    BY <1>8 DEF ExtendsEnd
  <2>2. pc' = "raised" => Undeclared
    BY <2>1 DEF FirstInv, Undeclared
  <2>3. Undeclared => Undeclared'
    BY <2>1 DEF Undeclared, TopOf
  <2> QED BY <2>1, <2>2, <2>3 DEF FitInv
<1>5. CASE FilesEnd
  <2>1. /\ pc = "read" /\ pc' = "extend" /\ UNCHANGED disk
        /\ services' = Selected(compose.services)
    BY <1>5 DEF FilesEnd
  <2>2. CASE TwoTypes(GivenTypes)
    BY <2>1, <2>2, TypesStay DEF FitInv
  <2>3. CASE ~ TwoTypes(GivenTypes)
    <3>1. \A s \in DOMAIN compose.services : Fits(compose.services[s], GivenTypes)
      BY <2>1, <2>3 DEF FitInv
    <3>2. \A s \in DOMAIN Selected(compose.services) :
            Fits(Selected(compose.services)[s], GivenTypes)
      BY <3>1 DEF Selected
    <3>3. \A s \in DOMAIN services' : Fits(services'[s], GivenTypes')
      BY <2>1, <3>2, FitsThen
    <3> QED BY <2>1, <3>3 DEF FitInv
  <2> QED BY <2>2, <2>3
<1>6. ASSUME NEW s \in extending, ExtendService(s) PROVE FitInv'
  BY <1>6, ExtendStepFits
<1>7. CASE UNCHANGED vars
  <2>1. UNCHANGED <<disk, line, services, compose, pc, read>>
    BY <1>7 DEF vars
  <2>2. GivenTypes' = GivenTypes
    BY <2>1, TypesStay
  <2>3. Mistake => Mistake'
    BY <2>1, MistakeStays
  <2>4. Undeclared => Undeclared'
    BY <2>1 DEF Undeclared, TopOf
  <2> QED BY <2>1, <2>2, <2>3, <2>4 DEF FitInv
<1> QED BY <1>1, <1>2, <1>3, <1>4, <1>5, <1>6, <1>7, <1>8 DEF Next, Step

(* Reading fails only for what the user has to mend: no merge raises, of   *)
(* files or of bases, unless files give a key two types; the name of the   *)
(* project is that of the first file for all of them; and what is looked   *)
(* up at the end is looked up in what every file that was read declares.   *)
THEOREM FailsForCauseTheorem == Spec => []FailsForCause
<1>1. Init => FirstInv /\ FitInv
  <2> SUFFICES ASSUME Init PROVE FirstInv /\ FitInv
    OBVIOUS
  <2>1. pc = "start" /\ compose = Nothing /\ read = <<>>
    BY DEF Init
  <2>2. compose.services = Empty /\ DOMAIN Empty = {} /\ compose.top = {}
    BY <2>1 DEF Empty, Nothing
  <2> QED BY <2>1, <2>2 DEF FirstInv, FitInv
<1>2. TypeInv /\ HashInv /\ QueueInv /\ FirstInv /\ FitInv /\ [Next]_vars => (FirstInv /\ FitInv)'
  BY FirstNext, FitNext
<1>3. FitInv => FailsForCause
  BY FailsForCauseIs DEF FitInv
<1> QED BY <1>1, <1>2, <1>3, HashCorrect, QueueCorrect, PTL DEF Spec

-----------------------------------------------------------------------------
(* What is left of lists.                                                  *)

LEMMA KeptSame ==
  ASSUME NEW v, NEW S, NEW T, \A x \in ToSet(v) : x \in S <=> x \in T
  PROVE  Kept(v, S) = Kept(v, T)
<1>1. \A n \in DOMAIN v : v[n] \in S <=> v[n] \in T
  BY DEF ToSet
<1>2. [n \in DOMAIN v |-> IF v[n] \in S THEN <<v[n]>> ELSE <<>>]
        = [n \in DOMAIN v |-> IF v[n] \in T THEN <<v[n]>> ELSE <<>>]
  BY <1>1
<1> QED BY <1>2 DEF Kept

LEMMA KeptAll ==
  ASSUME NEW X, NEW v \in Seq(X), NEW T, ToSet(v) \subseteq T
  PROVE  Kept(v, T) = v
<1> DEFINE g == Keeping(X, T)
<1>1. IsMap(g, X, Seq(X)) /\ Kept(v, T) = FlatMap(g, v)
  BY KeepingMaps, KeptIsMapped
<1>2. \A e \in ToSet(v) : e \in X
  BY ToSetLaws
<1>3. \A e \in ToSet(v) : g[e] = <<e>>
  BY <1>2 DEF Keeping
<1> HIDE DEF g
<1>4. FlatMap(g, v) = v
  BY <1>1, <1>3, FlatMapSame
<1> QED BY <1>1, <1>4

LEMMA FlatMapOne ==
  ASSUME NEW X, NEW S, NEW g, IsMap(g, X, Seq(S)), NEW e \in X
  PROVE  FlatMap(g, <<e>>) = g[e]
<1> DEFINE w == <<e>>
           c == g[e]
           nothing == <<>>
<1>1. nothing \in Seq(X) /\ w = Append(nothing, e) /\ FlatMap(g, nothing) = nothing
  BY FlatMapNothing
<1>2. c \in Seq(S)
  BY DEF IsMap
<1>3. nothing \o c = c
  BY <1>2
<1> HIDE DEF nothing, w
<1>4. FlatMap(g, Append(nothing, e)) = FlatMap(g, nothing) \o g[e]
  BY <1>1, FlatMapAppend, ZenonT(40)
<1>5. FlatMap(g, w) = nothing \o c
  BY <1>1, <1>4
<1> QED BY <1>3, <1>5 DEF w

LEMMA KeptTwice ==
  ASSUME NEW X, NEW v \in Seq(X), NEW A, NEW B
  PROVE  Kept(Kept(v, A), B) = Kept(v, A \cap B)
<1> DEFINE g == Keeping(X, A)
           h == Keeping(X, B)
           both == Keeping(X, A \cap B)
           T == Seq(X)
<1>1. IsMap(g, X, T) /\ IsMap(h, X, T) /\ IsMap(both, X, T)
  BY KeepingMaps
<1>2. /\ \A e \in X : g[e] = IF e \in A THEN <<e>> ELSE <<>>
      /\ \A e \in X : h[e] = IF e \in B THEN <<e>> ELSE <<>>
      /\ \A e \in X : both[e] = IF e \in A \cap B THEN <<e>> ELSE <<>>
  BY DEF Keeping
<1>3. Kept(v, A) \in Seq(X)
  BY KeptIs
<1>4. /\ Kept(v, A) = FlatMap(g, v) /\ Kept(v, A \cap B) = FlatMap(both, v)
      /\ Kept(Kept(v, A), B) = FlatMap(h, Kept(v, A))
  BY <1>3, KeptIsMapped
<1> HIDE DEF g, h, both
<1>5. ASSUME NEW e \in X PROVE both[e] = FlatMap(h, g[e])
  <2>1. CASE e \in A
    <3>1. FlatMap(h, <<e>>) = h[e]
      BY <1>1, FlatMapOne
    <3>2. g[e] = <<e>>
      BY <1>2, <2>1
    <3>3. both[e] = h[e]
      BY <1>2, <2>1
    <3> QED BY <3>1, <3>2, <3>3
  <2>2. CASE e \notin A
    <3>1. g[e] = <<>> /\ both[e] = <<>>
      BY <1>2, <2>2
    <3> QED BY <3>1, FlatMapNothing
  <2> QED BY <2>1, <2>2
<1>6. FlatMap(h, FlatMap(g, v)) = FlatMap(both, v)
  BY <1>1, <1>5, FlatMapTwice
<1> QED BY <1>4, <1>6

(* Of lists one after the other, what is left of each.                     *)
LEMMA KeptFlat ==
  ASSUME NEW X, NEW ss \in Seq(Seq(X)), NEW T
  PROVE  Kept(FlattenSeq(ss), T) = FlattenSeq([n \in DOMAIN ss |-> Kept(ss[n], T)])
<1> DEFINE L == Seq(X)
           id == [l \in L |-> l]
           h == Keeping(X, T)
           both == [l \in L |-> FlatMap(h, l)]
<1>1. IsMap(id, L, Seq(X)) /\ IsMap(h, X, Seq(X)) /\ ss \in Seq(L)
  BY KeepingMaps DEF IsMap
<1>2. IsMap(both, L, Seq(X))
  <2> HIDE DEF h
  <2>1. ASSUME NEW l \in L PROVE FlatMap(h, l) \in Seq(X)
    BY <1>1, FlatMapType
  <2> QED BY <2>1 DEF IsMap
<1>3. \A l \in L : id[l] = l /\ both[l] = FlatMap(h, l) /\ Kept(l, T) = FlatMap(h, l)
  BY KeptIsMapped
<1>4. \A n \in DOMAIN ss : ss[n] \in L
  BY <1>1
<1>5. Mapped(id, ss) = ss
  <2>1. ss = [n \in DOMAIN ss |-> ss[n]]
    BY <1>1
  <2> QED BY <1>3, <1>4, <2>1 DEF Mapped
<1>6. Mapped(both, ss) = [n \in DOMAIN ss |-> Kept(ss[n], T)]
  BY <1>3, <1>4 DEF Mapped
<1>7. FlattenSeq(ss) \in Seq(X)
  BY FlattenType
<1>8. Kept(FlattenSeq(ss), T) = FlatMap(h, FlattenSeq(ss))
  BY <1>7, KeptIsMapped
<1> HIDE DEF L, id, h, both
<1>9. \A l \in L : both[l] = FlatMap(h, id[l])
  BY <1>3
<1>10. FlatMap(h, FlatMap(id, ss)) = FlatMap(both, ss)
  BY <1>1, <1>2, <1>9, FlatMapTwice DEF L
<1>11. FlatMap(id, ss) = FlattenSeq(ss) /\ FlatMap(both, ss) = FlattenSeq([n \in DOMAIN ss |-> Kept(ss[n], T)])
  BY <1>5, <1>6 DEF FlatMap
<1> QED BY <1>8, <1>10, <1>11

(* ComesTo, by the type of the value.                                      *)
SameTarget(x, y) == {x.form, y.form} = {"short"} /\ x.target = y.target

Left(said, n) ==
  {x \in ToSet(said[n].v) :
     \A m \in n + 1 .. Len(said) : \A y \in ToSet(said[m].v) : ~ SameTarget(x, y)}

Part(k, said, n) == IF k = "volumes" THEN Kept(said[n].v, Left(said, n)) ELSE said[n].v

Parts(k, said) == [n \in DOMAIN said |-> Part(k, said, n)]

LatestSays(said, j, x) ==
  \E n \in DOMAIN said :
    /\ j \in DOMAIN said[n].v
    /\ \A m \in DOMAIN said : j \in DOMAIN said[m].v => m <= n
    /\ x = said[n].v[j]

AllScalars(said, val) ==
  /\ \A j : j \in DOMAIN val.v <=> \E n \in DOMAIN said : j \in DOMAIN said[n].v
  /\ \A j \in DOMAIN val.v : LatestSays(said, j, val.v[j])

LEMMA ComesToIs ==
  ASSUME NEW k, NEW said, NEW val
  PROVE  /\ k \notin Replaced /\ val.t = "list" =>
              (ComesTo(k, said, val) <=> val.v = FlattenSeq(Parts(k, said)))
         /\ k \notin Replaced /\ val.t = "dict" =>
              (ComesTo(k, said, val) <=> AllScalars(said, val))
         /\ k \in Replaced \/ val.t \notin {"list", "dict"} =>
              (ComesTo(k, said, val) <=> val = Last(said))
<1>1. ASSUME k \notin Replaced, val.t = "list"
      PROVE  ComesTo(k, said, val) <=> val.v = FlattenSeq(Parts(k, said))
  BY <1>1 DEF ComesTo, Parts, Part, Left, SameTarget
<1>2. ASSUME k \notin Replaced, val.t = "dict"
      PROVE  ComesTo(k, said, val) <=> AllScalars(said, val)
  <2> DEFINE Saying(j) == {n \in DOMAIN said : j \in DOMAIN said[n].v}
             Ones == UNION {DOMAIN said[n].v : n \in DOMAIN said}
  <2>1. ComesTo(k, said, val) <=>
          /\ DOMAIN val.v = Ones
          /\ \A j \in DOMAIN val.v : \E n \in Saying(j) :
               /\ \A m \in Saying(j) : m <= n
               /\ val.v[j] = said[n].v[j]
    BY <1>2 DEF ComesTo
  <2>2. \A j : j \in Ones <=> \E n \in DOMAIN said : j \in DOMAIN said[n].v
    OBVIOUS
  <2>3. DOMAIN val.v = Ones <=> \A j : j \in DOMAIN val.v <=> j \in Ones
    OBVIOUS
  <2> HIDE DEF Ones
  <2>4. (\A j \in DOMAIN val.v : \E n \in Saying(j) :
               /\ \A m \in Saying(j) : m <= n
               /\ val.v[j] = said[n].v[j])
          <=> \A j \in DOMAIN val.v : LatestSays(said, j, val.v[j])
    BY DEF LatestSays
  <2>5. DOMAIN val.v = Ones <=>
          \A j : j \in DOMAIN val.v <=> \E n \in DOMAIN said : j \in DOMAIN said[n].v
    BY <2>2, <2>3
  <2> QED BY <2>1, <2>4, <2>5 DEF AllScalars
<1>3. ASSUME k \in Replaced \/ val.t \notin {"list", "dict"}
      PROVE  ComesTo(k, said, val) <=> val = Last(said)
  BY <1>3 DEF ComesTo
<1> QED BY <1>1, <1>2, <1>3

(* What is said of a key, one after the other, and what it comes to.       *)
Sums(k, said, val) ==
  /\ IsValue(val) /\ said # <<>> /\ ComesTo(k, said, val)
  /\ k \notin Replaced => \A n \in DOMAIN said : said[n].t = val.t

LEMMA AppendAt ==
  ASSUME NEW S, NEW x \in Seq(S), NEW e \in S
  PROVE  /\ Append(x, e) \in Seq(S) /\ Len(Append(x, e)) = Len(x) + 1 /\ Len(x) \in Nat
         /\ DOMAIN Append(x, e) = 1..(Len(x) + 1) /\ DOMAIN x = 1..Len(x)
         /\ Append(x, e)[Len(x) + 1] = e
         /\ \A n \in 1..Len(x) : Append(x, e)[n] = x[n]
         /\ Append(x, e) # <<>> /\ Last(Append(x, e)) = e
<1>1. /\ Append(x, e) \in Seq(S) /\ Len(Append(x, e)) = Len(x) + 1 /\ Len(x) \in Nat
      /\ DOMAIN Append(x, e) = 1..(Len(x) + 1) /\ DOMAIN x = 1..Len(x)
      /\ Append(x, e)[Len(x) + 1] = e
      /\ \A n \in 1..Len(x) : Append(x, e)[n] = x[n]
      /\ Append(x, e) # <<>>
  OBVIOUS
<1> QED BY <1>1 DEF Last

LEMMA SumsFirst ==
  ASSUME NEW k, NEW w, IsValue(w)
  PROVE  Sums(k, <<w>>, w)
<1> DEFINE said == <<w>>
<1>1. /\ DOMAIN said = {1} /\ said[1] = w /\ said # <<>> /\ Len(said) = 1
      /\ Last(said) = w
  BY DEF Last
<1> HIDE DEF said
<1>2. CASE k \notin Replaced /\ w.t = "list"
  <2>1. w.v \in Seq(ToSet(w.v))
    BY <1>2 DEF IsValue
  <2>2. Left(said, 1) = ToSet(w.v)
    <3>1. 1 + 1 .. Len(said) = {}
      BY <1>1
    <3> QED BY <1>1, <3>1 DEF Left
  <2>3. Part(k, said, 1) = w.v
    BY <1>1, <2>1, <2>2, KeptAll DEF Part
  <2>4. Parts(k, said) = Append(<<>>, w.v)
    <3>1. Parts(k, said) = [n \in {1} |-> w.v]
      BY <1>1, <2>3 DEF Parts
    <3>2. Append(<<>>, w.v) = [n \in {1} |-> w.v]
      OBVIOUS
    <3> QED BY <3>1, <3>2
  <2> DEFINE X == ToSet(w.v)
             c == w.v
             nothing == <<>>
  <2>5. nothing \in Seq(Seq(X)) /\ c \in Seq(X) /\ FlattenSeq(nothing) = nothing
    BY <2>1, FlattenNothing
  <2>6. nothing \o c = c
    BY <2>5
  <2> HIDE DEF X, c, nothing
  <2>7. FlattenSeq(Append(nothing, c)) = FlattenSeq(nothing) \o c
    BY <2>5, FlattenAppend
  <2>8. FlattenSeq(Append(nothing, c)) = c
    BY <2>5, <2>6, <2>7
  <2>9. ComesTo(k, said, w)
    BY <1>2, <2>4, <2>8, ComesToIs DEF c, nothing
  <2> QED BY <1>1, <2>9 DEF Sums, said
<1>3. CASE k \notin Replaced /\ w.t = "dict"
  <2>1. AllScalars(said, w)
    BY <1>1 DEF AllScalars, LatestSays
  <2>2. ComesTo(k, said, w)
    BY <1>3, <2>1, ComesToIs
  <2> QED BY <1>1, <2>2 DEF Sums, said
<1>4. CASE k \in Replaced \/ w.t \notin {"list", "dict"}
  <2>1. ComesTo(k, said, w)
    BY <1>1, <1>4, ComesToIs
  <2> QED BY <1>1, <2>1 DEF Sums, said
<1> QED BY <1>2, <1>3, <1>4

LEMMA SameTargetIs ==
  ASSUME NEW x, NEW y
  PROVE  SameTarget(x, y) <=> x.form = "short" /\ y.form = "short" /\ x.target = y.target
BY DEF SameTarget

(* A list: what is superseded in what the lists before came to is          *)
(* superseded in each of them.                                             *)
LEMMA ListSums ==
  ASSUME NEW k, NEW V, NEW said \in Seq(V), NEW w \in V,
         \A x \in V : x.v \in Seq(ToSet(x.v)),
         NEW list, list = FlattenSeq(Parts(k, said))
  PROVE  (IF k = "volumes" THEN Superseded(list, w.v) ELSE list) \o w.v
           = FlattenSeq(Parts(k, Append(said, w)))
<1> DEFINE said2 == Append(said, w)
           L == Len(said)
           X == UNION {ToSet(x.v) : x \in V}
           before == [n \in 1..L |-> Part(k, said2, n)]
           c == w.v
<1>1. /\ said2 \in Seq(V) /\ Len(said2) = L + 1 /\ L \in Nat
      /\ DOMAIN said2 = 1..(L + 1) /\ DOMAIN said = 1..L
      /\ said2[L + 1] = w /\ \A n \in 1..L : said2[n] = said[n]
  BY AppendAt
<1>2. ASSUME NEW x \in V PROVE x.v \in Seq(X) /\ ToSet(x.v) \subseteq X
  <2>1. ToSet(x.v) \subseteq X
    OBVIOUS
  <2>2. x.v \in Seq(ToSet(x.v))
    OBVIOUS
  <2> HIDE DEF X
  <2> QED BY <2>1, <2>2
<1>3. \A n \in 1..L : said[n] \in V
  BY <1>1
<1> HIDE DEF said2, L, X
<1>4. ASSUME NEW s \in Seq(V), NEW n \in 1..Len(s) PROVE Part(k, s, n) \in Seq(X)
  <2>1. s[n] \in V
    OBVIOUS
  <2> DEFINE v == s[n].v
  <2>2. v \in Seq(X)
    BY <1>2, <2>1
  <2> HIDE DEF v
  <2>3. \A T : Kept(v, T) \in Seq(X)
    BY <2>2, KeptIs
  <2> QED BY <2>2, <2>3 DEF Part, v
<1>5. Part(k, said2, L + 1) = c
  <2>1. CASE k = "volumes"
    <3>1. (L + 1) + 1 .. Len(said2) = {}
      BY <1>1
    <3>2. Left(said2, L + 1) = ToSet(c)
      BY <1>1, <3>1 DEF Left
    <3>3. c \in Seq(X)
      BY <1>2
    <3> HIDE DEF c
    <3>4. Kept(c, ToSet(c)) = c
      BY <3>3, KeptAll
    <3> QED BY <1>1, <2>1, <3>2, <3>4 DEF Part, c
  <2>2. CASE k # "volumes"
    BY <1>1, <2>2 DEF Part
  <2> QED BY <2>1, <2>2
<1>6. before \in Seq(Seq(X)) /\ Len(before) = L /\ DOMAIN before = 1..L
  <2>1. ASSUME NEW n \in 1..L PROVE Part(k, said2, n) \in Seq(X)
    <3>1. n \in 1..Len(said2)
      BY <1>1
    <3> QED BY <1>1, <1>4, <3>1
  <2> QED BY <1>1, <2>1
<1>7. Parts(k, said2) = Append(before, c)
  <2>1. Parts(k, said2) = [n \in 1..(L + 1) |-> Part(k, said2, n)]
    BY <1>1 DEF Parts
  <2>2. Append(before, c) = [n \in 1..(L + 1) |-> IF n = L + 1 THEN c ELSE before[n]]
    BY <1>1, <1>6
  <2>3. ASSUME NEW n \in 1..(L + 1)
        PROVE  Part(k, said2, n) = IF n = L + 1 THEN c ELSE before[n]
    <3>1. CASE n = L + 1
      BY <1>5, <3>1
    <3>2. CASE n # L + 1
      <4>1. n \in 1..L
        BY <1>1, <3>2
      <4> QED BY <3>2, <4>1
    <3> QED BY <3>1, <3>2
  <2> HIDE DEF before
  <2> QED BY <2>1, <2>2, <2>3
<1>8. FlattenSeq(Append(before, c)) = FlattenSeq(before) \o c
  <2>1. c \in Seq(X)
    BY <1>2
  <2> HIDE DEF before, c
  <2> QED BY <1>6, <2>1, FlattenAppend
<1>9. FlattenSeq(before) = IF k = "volumes" THEN Superseded(list, c) ELSE list
  <2> DEFINE old == Parts(k, said)
  <2>1. old = [n \in 1..L |-> Part(k, said, n)]
    BY <1>1 DEF Parts
  <2>2. CASE k # "volumes"
    <3>1. \A n \in 1..L : Part(k, said2, n) = Part(k, said, n)
      BY <1>1, <2>2 DEF Part
    <3>2. before = old
      BY <2>1, <3>1
    <3> QED BY <2>2, <3>2
  <2>3. CASE k = "volumes"
    <3> DEFINE pts == {m.target : m \in {x \in ToSet(c) : x.form = "short"}}
               B == {x \in ToSet(list) : ~ (x.form = "short" /\ x.target \in pts)}
    <3>1. Superseded(list, c) = Kept(list, B)
      BY DEF Superseded
    <3>2. old \in Seq(Seq(X)) /\ Len(old) = L /\ DOMAIN old = 1..L
      <4>1. \A n \in 1..L : Part(k, said, n) \in Seq(X)
        BY <1>1, <1>4 DEF L
      <4> DEFINE all == [n \in 1..L |-> Part(k, said, n)]
      <4>2. all \in Seq(Seq(X)) /\ Len(all) = L /\ DOMAIN all = 1..L
        BY <1>1, <4>1
      <4> HIDE DEF all
      <4>3. old = all
        BY <2>1 DEF all
      <4> QED BY <4>2, <4>3
    <3>3. ASSUME NEW n \in 1..L
          PROVE  Kept(old[n], B) = before[n]
      <4> DEFINE v == said[n].v
                 A == Left(said, n)
                 A2 == Left(said2, n)
      <4>1. old[n] = Kept(v, A) /\ before[n] = Kept(v, A2)
        BY <1>1, <2>1, <2>3 DEF Part
      <4>2. v \in Seq(X)
        BY <1>2, <1>3
      <4>3. \A x \in ToSet(v) : x \in A2 <=> x \in A /\ \A y \in ToSet(c) : ~ SameTarget(x, y)
        <5>1. \A x \in ToSet(v) :
                x \in A2 <=> \A m \in n + 1 .. L + 1 : \A y \in ToSet(said2[m].v) : ~ SameTarget(x, y)
          BY <1>1 DEF Left
        <5>2. \A x \in ToSet(v) :
                x \in A <=> \A m \in n + 1 .. L : \A y \in ToSet(said[m].v) : ~ SameTarget(x, y)
          BY <1>1 DEF Left, L
        <5>3. /\ \A m \in n + 1 .. L + 1 : m \in n + 1 .. L \/ m = L + 1
              /\ \A m \in n + 1 .. L : m \in n + 1 .. L + 1
              /\ L + 1 \in n + 1 .. L + 1
          <6>1. L \in Nat /\ n \in Nat /\ n <= L
            BY <1>1
          <6> HIDE DEF v, A, A2
          <6> QED BY <6>1
        <5>4. \A m \in n + 1 .. L : said2[m] = said[m]
          BY <1>1
        <5> HIDE DEF A, A2, v
        <5> QED BY <1>1, <5>1, <5>2, <5>3, <5>4
      <4>4. \A x \in A : x \in ToSet(v)
        BY DEF Left
      <4> HIDE DEF v, A, A2
      <4>5. Kept(old[n], B) = Kept(v, A \cap B)
        BY <4>1, <4>2, KeptTwice
      <4>6. ASSUME NEW x \in ToSet(v) PROVE x \in A \cap B <=> x \in A2
        <5>1. x \in A => x \in ToSet(list)
          <6> HAVE x \in A
          <6>1. ToSet(Kept(v, A)) = ToSet(v) \cap A
            BY <4>2, KeptIs
          <6>2. ToSet(old[n]) \subseteq ToSet(FlattenSeq(old))
            BY <3>2, FlattenHolds
          <6> HIDE DEF old
          <6> QED BY <4>1, <6>1, <6>2 DEF old
        <5>2. (\A y \in ToSet(c) : ~ SameTarget(x, y)) <=> ~ (x.form = "short" /\ x.target \in pts)
          BY SameTargetIs
        <5> HIDE DEF pts
        <5> QED BY <4>3, <5>1, <5>2
      <4>7. Kept(v, A \cap B) = Kept(v, A2)
        BY <4>6, KeptSame
      <4> QED BY <4>1, <4>5, <4>7
    <3> HIDE DEF B
    <3>4. Kept(FlattenSeq(old), B) = FlattenSeq([n \in DOMAIN old |-> Kept(old[n], B)])
      <4> HIDE DEF old
      <4> QED BY <3>2, KeptFlat
    <3>5. [n \in DOMAIN old |-> Kept(old[n], B)] = before
      <4>1. before = [n \in 1..L |-> before[n]]
        OBVIOUS
      <4> HIDE DEF before, old
      <4> QED BY <3>2, <3>3, <4>1
    <3> QED BY <2>3, <3>1, <3>4, <3>5
  <2> QED BY <2>2, <2>3
<1> HIDE DEF before
<1> QED BY <1>7, <1>8, <1>9 DEF said2, c

(* One more file says something of a key, and merging does not raise.      *)
LEMMA SumsNext ==
  ASSUME NEW k, NEW V, \A x \in V : IsValue(x), NEW said \in Seq(V), NEW w \in V,
         NEW val, Sums(k, said, val),
         NEW new, new = MergeValue(k, val, w), new.t # "raised",
         new.t = "dict" => \A j \in DOMAIN new.v : new.v[j].t # "raised"
  PROVE  Sums(k, Append(said, w), new)
<1> DEFINE said2 == Append(said, w)
           L == Len(said)
<1>1. /\ said2 \in Seq(V) /\ Len(said2) = L + 1 /\ L \in Nat
      /\ DOMAIN said2 = 1..(L + 1) /\ DOMAIN said = 1..L
      /\ said2[L + 1] = w /\ \A n \in 1..L : said2[n] = said[n]
      /\ said2 # <<>> /\ Last(said2) = w
  BY AppendAt
<1>2. IsValue(val) /\ IsValue(w) /\ said # <<>> /\ ComesTo(k, said, val)
  BY DEF Sums
<1>3. IsValue(new)
  BY <1>2, MergeValueIs
<1>4. \A n \in 1..L : said[n] \in V
  BY <1>1
<1> HIDE DEF L
<1>5. CASE k \in Replaced
  <2>1. new = w
    BY <1>5 DEF MergeValue
  <2> HIDE DEF said2
  <2>2. ComesTo(k, said2, new)
    BY <1>1, <1>5, <2>1, ComesToIs
  <2> QED BY <1>1, <1>3, <1>5, <2>2 DEF Sums, said2
<1>6. CASE k \notin Replaced
  <2>1. val.t = w.t
    <3> SUFFICES ASSUME val.t # w.t PROVE FALSE
      OBVIOUS
    <3>1. new = Raised
      BY <1>6 DEF MergeValue
    <3> QED BY <3>1 DEF Raised
  <2>2. \A n \in 1..L : said[n].t = val.t
    BY <1>1, <1>6 DEF Sums
  <2> HIDE DEF said2
  <2>6. /\ \A n \in 1..(L + 1) : (n \in 1..L /\ said2[n] = said[n]) \/ n = L + 1
        /\ \A n \in 1..L : n \in 1..(L + 1) /\ n <= L + 1
        /\ L + 1 \in 1..(L + 1)
    BY <1>1
  <2>3. CASE val.t = "list"
    <3> DEFINE V2 == {x \in V : x.t = "list"}
               kept == IF k = "volumes" THEN Superseded(val.v, w.v) ELSE val.v
               list == val.v
    <3>1. new = [val EXCEPT !.v = kept \o w.v]
      BY <1>6, <2>1, <2>3 DEF MergeValue
    <3>2. said \in Seq(V2) /\ w \in V2
      <4>1. \A n \in 1..L : said[n] \in V2
        BY <1>4, <2>2, <2>3
      <4>2. said = [n \in 1..L |-> said[n]] /\ L \in Nat
        BY <1>1 DEF L
      <4> HIDE DEF V2
      <4>3. said \in Seq(V2)
        BY <4>1, <4>2
      <4> QED BY <2>1, <2>3, <4>3 DEF V2
    <3>3. \A x \in V2 : x.v \in Seq(ToSet(x.v))
      BY DEF IsValue
    <3>4. list = FlattenSeq(Parts(k, said))
      BY <1>2, <1>6, <2>3, ComesToIs
    <3> HIDE DEF V2, list
    <3>5. (IF k = "volumes" THEN Superseded(list, w.v) ELSE list) \o w.v = FlattenSeq(Parts(k, said2))
      BY <3>2, <3>3, <3>4, ListSums DEF said2
    <3>6. kept \o w.v = FlattenSeq(Parts(k, said2))
      BY <3>5 DEF list
    <3> HIDE DEF kept
    <3>7. new.t = "list" /\ new.v = FlattenSeq(Parts(k, said2))
      BY <1>2, <2>3, <3>1, <3>6 DEF IsValue
    <3>8. ComesTo(k, said2, new)
      BY <1>6, <3>7, ComesToIs
    <3>9. \A n \in DOMAIN said2 : said2[n].t = new.t
      BY <1>1, <2>1, <2>2, <2>3, <2>6, <3>7
    <3> QED BY <1>1, <1>3, <3>8, <3>9 DEF Sums, said2
  <2>4. CASE val.t = "dict"
    <3> DEFINE scalars == MergeScalars(val.v, w.v)
    <3>1. new = [val EXCEPT !.v = scalars]
      BY <1>6, <2>1, <2>4 DEF MergeValue
    <3>2. ScalarsMerged(scalars, val.v, w.v)
      BY MergeScalarsAt
    <3> HIDE DEF scalars
    <3>3. new.t = "dict" /\ new.v = scalars
      BY <1>2, <2>4, <3>1 DEF IsValue
    <3>4. AllScalars(said, val)
      BY <1>2, <1>6, <2>4, ComesToIs
    <3>6. \A j : j \in DOMAIN scalars <=> \E n \in DOMAIN said2 : j \in DOMAIN said2[n].v
      <4>1. \A j : j \in DOMAIN val.v <=> \E n \in 1..L : j \in DOMAIN said[n].v
        BY <1>1, <3>4 DEF AllScalars
      <4>2. \A j : (\E n \in 1..(L + 1) : j \in DOMAIN said2[n].v)
                     <=> (\E n \in 1..L : j \in DOMAIN said[n].v) \/ j \in DOMAIN w.v
        BY <1>1, <2>6
      <4> QED BY <1>1, <3>2, <4>1, <4>2 DEF ScalarsMerged
    <3>7. ASSUME NEW j \in DOMAIN scalars PROVE LatestSays(said2, j, scalars[j])
      <4>1. CASE j \in DOMAIN w.v
        <5>1. scalars[j] = w.v[j]
          <6>1. scalars[j].t # "raised"
            BY <3>3, <3>7
          <6>2. scalars[j] = w.v[j] \/ scalars[j] = Raised
            BY <3>2, <4>1 DEF ScalarsMerged
          <6> QED BY <6>1, <6>2 DEF Raised
        <5>2. L + 1 \in DOMAIN said2 /\ j \in DOMAIN said2[L + 1].v
              /\ scalars[j] = said2[L + 1].v[j] /\ \A m \in DOMAIN said2 : m <= L + 1
          BY <1>1, <4>1, <5>1
        <5> QED BY <5>2 DEF LatestSays
      <4>2. CASE j \notin DOMAIN w.v
        <5>1. j \in DOMAIN val.v /\ scalars[j] = val.v[j]
          BY <3>2, <3>7, <4>2 DEF ScalarsMerged
        <5>2. PICK n \in 1..L : /\ j \in DOMAIN said[n].v
                                /\ \A m \in 1..L : j \in DOMAIN said[m].v => m <= n
                                /\ scalars[j] = said[n].v[j]
          BY <1>1, <3>4, <5>1 DEF AllScalars, LatestSays
        <5>3. ASSUME NEW m \in 1..(L + 1), j \in DOMAIN said2[m].v PROVE m <= n
          <6>1. m \in 1..L
            BY <1>1, <2>6, <4>2, <5>3
          <6> QED BY <1>1, <5>2, <5>3, <6>1
        <5>4. n \in DOMAIN said2 /\ j \in DOMAIN said2[n].v /\ scalars[j] = said2[n].v[j]
          BY <1>1, <2>6, <5>2
        <5> QED BY <1>1, <5>3, <5>4 DEF LatestSays
      <4> QED BY <4>1, <4>2
    <3>8. AllScalars(said2, new)
      BY <3>3, <3>6, <3>7 DEF AllScalars
    <3>9. ComesTo(k, said2, new)
      BY <1>6, <3>3, <3>8, ComesToIs
    <3>10. \A n \in DOMAIN said2 : said2[n].t = new.t
      BY <1>1, <2>1, <2>2, <2>4, <2>6, <3>3
    <3> QED BY <1>1, <1>3, <3>9, <3>10 DEF Sums, said2
  <2>5. CASE val.t \notin {"list", "dict"}
    <3>1. new = w
      BY <1>6, <2>1, <2>5 DEF MergeValue
    <3>2. ComesTo(k, said2, new)
      BY <1>1, <2>1, <2>5, <3>1, ComesToIs
    <3>3. \A n \in DOMAIN said2 : said2[n].t = new.t
      BY <1>1, <2>1, <2>2, <3>1
    <3> QED BY <1>1, <1>3, <3>2, <3>3 DEF Sums, said2
  <2> QED BY <2>3, <2>4, <2>5
<1> QED BY <1>5, <1>6

-----------------------------------------------------------------------------
(* What files that were read say of a key.                                 *)
Tells(p, s, k) == s \in DOMAIN disk[p].services /\ k \in DOMAIN disk[p].services[s]

Values(s, k) == {disk[p].services[s][k] : p \in {q \in Mappings : Tells(q, s, k)}}

SaysMap(s, k) == [p \in Mappings |-> Says(p, s, k)]

SaidIn(x, s, k) == FlatMap(SaysMap(s, k), x)

LEMMA SaysMaps ==
  ASSUME disk \in Disks, NEW s, NEW k
  PROVE  /\ IsMap(SaysMap(s, k), Mappings, Seq(Values(s, k)))
         /\ \A v \in Values(s, k) : IsValue(v)
<1>1. ASSUME NEW p \in Mappings PROVE Says(p, s, k) \in Seq(Values(s, k))
  <2>1. CASE Tells(p, s, k)
    <3>1. Says(p, s, k) = <<disk[p].services[s][k]>>
      BY <2>1 DEF Says, Tells
    <3>2. disk[p].services[s][k] \in Values(s, k)
      BY <2>1 DEF Values
    <3> QED BY <3>1, <3>2
  <2>2. CASE ~ Tells(p, s, k)
    <3>1. Says(p, s, k) = <<>>
      BY <2>2 DEF Says, Tells
    <3> QED BY <3>1
  <2> QED BY <2>1, <2>2
<1>2. ASSUME NEW p \in Mappings, Tells(p, s, k) PROVE IsValue(disk[p].services[s][k])
  <2>1. IsService(disk[p].services[s])
    BY <1>2, GivenFits DEF Tells
  <2> QED BY <1>2, <2>1 DEF Tells, IsService
<1>3. \A v \in Values(s, k) : IsValue(v)
  BY <1>2 DEF Values
<1> QED BY <1>1, <1>3 DEF IsMap, SaysMap

LEMMA SaidInIs ==
  ASSUME disk \in Disks, NEW s, NEW k, NEW x \in Seq(Mappings), NEW p \in Mappings
  PROVE  /\ SaidIn(x, s, k) \in Seq(Values(s, k))
         /\ Tells(p, s, k) =>
              /\ disk[p].services[s][k] \in Values(s, k)
              /\ SaidIn(Append(x, p), s, k) = Append(SaidIn(x, s, k), disk[p].services[s][k])
         /\ ~ Tells(p, s, k) => SaidIn(Append(x, p), s, k) = SaidIn(x, s, k)
         /\ (\A q \in ToSet(x) : ~ Tells(q, s, k)) => SaidIn(x, s, k) = <<>>
<1> DEFINE g == SaysMap(s, k)
           V == Values(s, k)
           said == SaidIn(x, s, k)
           w == disk[p].services[s][k]
<1>1. IsMap(g, Mappings, Seq(V))
  BY SaysMaps
<1>2. /\ \A q \in Mappings : Tells(q, s, k) => g[q] = <<disk[q].services[s][k]>>
      /\ \A q \in Mappings : ~ Tells(q, s, k) => g[q] = <<>>
  BY DEF SaysMap, Says, Tells
<1>3. Tells(p, s, k) => w \in V
  BY DEF Values
<1>4. said = FlatMap(g, x) /\ SaidIn(Append(x, p), s, k) = FlatMap(g, Append(x, p))
  BY DEF SaidIn
<1>5. \A e \in ToSet(x) : e \in Mappings
  BY ToSetLaws
<1> HIDE DEF g, V, said
<1>6. said \in Seq(V)
  BY <1>1, <1>4, FlatMapType
<1>7. FlatMap(g, Append(x, p)) = said \o g[p]
  BY <1>1, <1>4, FlatMapAppend, ZenonT(40)
<1>8. ASSUME Tells(p, s, k) PROVE SaidIn(Append(x, p), s, k) = Append(said, w)
  <2>1. g[p] = <<w>>
    BY <1>2, <1>8
  <2>2. w \in V
    BY <1>3, <1>8
  <2> HIDE DEF w
  <2>3. said \o <<w>> = Append(said, w)
    BY <1>6, <2>2
  <2> QED BY <1>4, <1>7, <2>1, <2>3
<1>9. ASSUME ~ Tells(p, s, k) PROVE SaidIn(Append(x, p), s, k) = said
  <2>1. g[p] = <<>>
    BY <1>2, <1>9
  <2>2. said \o <<>> = said
    BY <1>6
  <2> QED BY <1>4, <1>7, <2>1, <2>2
<1>10. ASSUME \A q \in ToSet(x) : ~ Tells(q, s, k) PROVE said = <<>>
  <2>1. \A q \in ToSet(x) : g[q] = <<>>
    BY <1>2, <1>5, <1>10
  <2>2. ToSet(<<>>) = {}
    BY DEF ToSet
  <2>3. ToSet(FlatMap(g, x)) = UNION {ToSet(g[e]) : e \in ToSet(x)}
    BY <1>1, FlatMapSet
  <2>4. ToSet(said) = {}
    BY <1>4, <2>1, <2>2, <2>3
  <2>5. Len(said) \in Nat /\ DOMAIN said = 1..Len(said)
    BY <1>6
  <2>6. Len(said) = 0
    <3> SUFFICES ASSUME Len(said) # 0 PROVE FALSE
      OBVIOUS
    <3>1. 1 \in DOMAIN said
      BY <2>5
    <3> QED BY <2>4, <3>1 DEF ToSet
  <2> QED BY <1>6, <2>6
<1> QED BY <1>3, <1>6, <1>8, <1>9, <1>10 DEF V, said

(* A service, and services, merged from files that were read in this order.*)
ServiceFrom(srv, x, s) ==
  /\ \A k : k \in DOMAIN srv <=> \E p \in ToSet(x) : Tells(p, s, k)
  /\ \A k \in DOMAIN srv \ {"extends"} : Sums(k, SaidIn(x, s, k), srv[k])

MergedFrom(srvs, x) ==
  /\ \A s : s \in DOMAIN srvs <=> \E p \in ToSet(x) : s \in DOMAIN disk[p].services
  /\ \A s \in DOMAIN srvs : ServiceFrom(srvs[s], x, s)

LEMMA RelocatedAt ==
  ASSUME NEW p, NEW srv
  PROVE  /\ DOMAIN Relocated(p, srv) = DOMAIN srv
         /\ \A k \in DOMAIN srv \ {"extends"} : Relocated(p, srv)[k] = srv[k]
BY DEF Relocated

(* A service after one more file.                                          *)
LEMMA ServiceOneMore ==
  ASSUME disk \in Disks, NEW s, NEW x \in Seq(Mappings), NEW p \in Mappings,
         NEW srv, ServiceFrom(srv, x, s)
  PROVE  /\ s \notin DOMAIN disk[p].services => ServiceFrom(srv, Append(x, p), s)
         /\ \A src : /\ s \in DOMAIN disk[p].services
                     /\ src = Relocated(p, disk[p].services[s])
                     /\ ~ ServiceRaised(MergeService(srv, src))
              => ServiceFrom(MergeService(srv, src), Append(x, p), s)
<1> DEFINE x2 == Append(x, p)
           given == disk[p].services[s]
<1>1. ToSet(x2) = ToSet(x) \cup {p}
  BY ToSetAppend
<1> HIDE DEF x2
<1>2. \A k : (\E q \in ToSet(x2) : Tells(q, s, k))
               <=> (\E q \in ToSet(x) : Tells(q, s, k)) \/ Tells(p, s, k)
  BY <1>1
<1>3. ASSUME s \notin DOMAIN disk[p].services PROVE ServiceFrom(srv, x2, s)
  <2>1. \A k : ~ Tells(p, s, k)
    BY <1>3 DEF Tells
  <2>2. \A k : SaidIn(x2, s, k) = SaidIn(x, s, k)
    BY <2>1, SaidInIs DEF x2
  <2> QED BY <1>2, <2>1, <2>2 DEF ServiceFrom
<1>4. ASSUME NEW src, s \in DOMAIN disk[p].services, src = Relocated(p, given),
             ~ ServiceRaised(MergeService(srv, src))
      PROVE  ServiceFrom(MergeService(srv, src), x2, s)
  <2> DEFINE new == MergeService(srv, src)
  <2>1. /\ DOMAIN new = DOMAIN srv \cup DOMAIN src
        /\ \A k \in DOMAIN new :
             new[k] = IF k \notin DOMAIN src THEN srv[k]
                      ELSE IF k \notin DOMAIN srv THEN src[k]
                      ELSE MergeValue(k, srv[k], src[k])
    BY MergeServiceAt
  <2>2. /\ \A k : k \in DOMAIN src <=> Tells(p, s, k)
        /\ \A k \in DOMAIN src \ {"extends"} : src[k] = given[k]
    BY <1>4, RelocatedAt DEF Tells
  <2>3. \A k \in DOMAIN new :
          /\ new[k].t # "raised"
          /\ new[k].t = "dict" => \A j \in DOMAIN new[k].v : new[k].v[j].t # "raised"
    BY <1>4, RaisesNothing
  <2> HIDE DEF new
  <2>4. \A k : k \in DOMAIN new <=> \E q \in ToSet(x2) : Tells(q, s, k)
    BY <1>2, <2>1, <2>2 DEF ServiceFrom
  <2>5. ASSUME NEW k \in DOMAIN new \ {"extends"} PROVE Sums(k, SaidIn(x2, s, k), new[k])
    <3> DEFINE V == Values(s, k)
               said == SaidIn(x, s, k)
               w == given[k]
    <3>1. /\ said \in Seq(V) /\ \A v \in V : IsValue(v)
          /\ Tells(p, s, k) => w \in V /\ SaidIn(x2, s, k) = Append(said, w)
          /\ ~ Tells(p, s, k) => SaidIn(x2, s, k) = said
          /\ (\A q \in ToSet(x) : ~ Tells(q, s, k)) => said = <<>>
      BY SaidInIs, SaysMaps DEF x2
    <3>2. k \in DOMAIN srv => Sums(k, said, srv[k])
      BY <2>5 DEF ServiceFrom
    <3>3. k \notin DOMAIN srv => \A q \in ToSet(x) : ~ Tells(q, s, k)
      BY DEF ServiceFrom
    <3> HIDE DEF V, said, w
    <3>4. CASE k \notin DOMAIN src
      BY <2>1, <2>2, <2>5, <3>1, <3>2, <3>4
    <3>5. CASE k \in DOMAIN src /\ k \notin DOMAIN srv
      <4>1. new[k] = w /\ w \in V /\ said = <<>> /\ SaidIn(x2, s, k) = Append(said, w)
        BY <2>1, <2>2, <2>5, <3>1, <3>3, <3>5 DEF w
      <4>2. Append(<<>>, w) = <<w>>
        OBVIOUS
      <4>3. Sums(k, <<w>>, w)
        BY <3>1, <4>1, SumsFirst
      <4> QED BY <4>1, <4>2, <4>3
    <3>6. CASE k \in DOMAIN src /\ k \in DOMAIN srv
      <4>1. new[k] = MergeValue(k, srv[k], w) /\ w \in V /\ SaidIn(x2, s, k) = Append(said, w)
        BY <2>1, <2>2, <2>5, <3>1, <3>6 DEF w
      <4> DEFINE val == new[k]
      <4>2. val = MergeValue(k, srv[k], w)
        BY <4>1
      <4>3. /\ val.t # "raised"
            /\ val.t = "dict" => \A j \in DOMAIN val.v : val.v[j].t # "raised"
        BY <2>3, <2>5
      <4> HIDE DEF val
      <4>4. Sums(k, Append(said, w), val)
        BY <3>1, <3>2, <3>6, <4>1, <4>2, <4>3, SumsNext
      <4> QED BY <4>1, <4>4 DEF val
    <3> QED BY <3>4, <3>5, <3>6
  <2> QED BY <2>4, <2>5 DEF ServiceFrom, new
<1> QED BY <1>3, <1>4 DEF x2

(* The first file that has a service.                                      *)
LEMMA ServiceFirst ==
  ASSUME disk \in Disks, NEW s, NEW x \in Seq(Mappings), NEW p \in Mappings,
         s \in DOMAIN disk[p].services,
         \A q \in ToSet(x) : s \notin DOMAIN disk[q].services
  PROVE  ServiceFrom(Relocated(p, disk[p].services[s]), Append(x, p), s)
<1> DEFINE given == disk[p].services[s]
           src == Relocated(p, given)
           x2 == Append(x, p)
<1>1. ToSet(x2) = ToSet(x) \cup {p}
  BY ToSetAppend
<1>2. \A q \in ToSet(x) : \A k : ~ Tells(q, s, k)
  BY DEF Tells
<1>3. /\ \A k : k \in DOMAIN src <=> Tells(p, s, k)
      /\ \A k \in DOMAIN src \ {"extends"} : src[k] = given[k]
  BY RelocatedAt DEF Tells
<1> HIDE DEF src
<1>4. ASSUME NEW k \in DOMAIN src \ {"extends"} PROVE Sums(k, SaidIn(x2, s, k), src[k])
  <2> DEFINE w == given[k]
  <2>0. Tells(p, s, k) /\ \A q \in ToSet(x) : ~ Tells(q, s, k)
    BY <1>2, <1>3, <1>4
  <2>1. SaidIn(x, s, k) = <<>> /\ SaidIn(x2, s, k) = Append(SaidIn(x, s, k), w)
        /\ w \in Values(s, k)
    BY <2>0, SaidInIs
  <2>2. src[k] = w /\ IsValue(w)
    BY <1>3, <2>1, SaysMaps
  <2> HIDE DEF w, x2
  <2>3. Append(<<>>, w) = <<w>>
    OBVIOUS
  <2>4. Sums(k, <<w>>, w)
    BY <2>2, SumsFirst
  <2> QED BY <2>1, <2>2, <2>3, <2>4
<1>5. \A k : k \in DOMAIN src <=> \E q \in ToSet(x2) : Tells(q, s, k)
  BY <1>1, <1>2, <1>3
<1> QED BY <1>4, <1>5 DEF ServiceFrom, src

LEMMA MergedMore ==
  ASSUME disk \in Disks, NEW x \in Seq(Mappings), NEW p \in Mappings,
         NEW srvs, MergedFrom(srvs, x),
         NEW all, ServicesMerged(all, srvs, Relocations(p)),
         \A s \in DOMAIN all : ~ ServiceRaised(all[s])
  PROVE  MergedFrom(all, Append(x, p))
<1> DEFINE x2 == Append(x, p)
           y == Relocations(p)
<1>1. ToSet(x2) = ToSet(x) \cup {p}
  BY ToSetAppend
<1>2. DOMAIN y = DOMAIN disk[p].services
      /\ \A s \in DOMAIN y : y[s] = Relocated(p, disk[p].services[s])
  BY DEF Relocations
<1> HIDE DEF y, x2
<1>3. /\ DOMAIN all = DOMAIN srvs \cup DOMAIN y
      /\ \A s \in DOMAIN all :
           all[s] = IF s \notin DOMAIN y THEN srvs[s]
                    ELSE IF s \notin DOMAIN srvs THEN y[s] ELSE MergeService(srvs[s], y[s])
  BY DEF ServicesMerged, y
<1>4. /\ \A s : s \in DOMAIN srvs <=> \E q \in ToSet(x) : s \in DOMAIN disk[q].services
      /\ \A s \in DOMAIN srvs : ServiceFrom(srvs[s], x, s)
  BY DEF MergedFrom
<1>5. \A s : s \in DOMAIN all <=> \E q \in ToSet(x2) : s \in DOMAIN disk[q].services
  BY <1>1, <1>2, <1>3, <1>4
<1>6. ASSUME NEW s \in DOMAIN all PROVE ServiceFrom(all[s], x2, s)
  <2>1. CASE s \notin DOMAIN y
    <3>1. all[s] = srvs[s] /\ ServiceFrom(srvs[s], x, s) /\ s \notin DOMAIN disk[p].services
      BY <1>2, <1>3, <1>4, <2>1
    <3>2. ServiceFrom(srvs[s], x2, s)
      BY <3>1, ServiceOneMore DEF x2
    <3> QED BY <3>1, <3>2
  <2>2. CASE s \in DOMAIN y /\ s \notin DOMAIN srvs
    <3>1. /\ all[s] = Relocated(p, disk[p].services[s]) /\ s \in DOMAIN disk[p].services
          /\ \A q \in ToSet(x) : s \notin DOMAIN disk[q].services
      BY <1>2, <1>3, <1>4, <2>2
    <3> QED BY <3>1, ServiceFirst DEF x2
  <2>3. CASE s \in DOMAIN y /\ s \in DOMAIN srvs
    <3>1. /\ all[s] = MergeService(srvs[s], y[s]) /\ ServiceFrom(srvs[s], x, s)
          /\ s \in DOMAIN disk[p].services /\ y[s] = Relocated(p, disk[p].services[s])
          /\ ~ ServiceRaised(MergeService(srvs[s], y[s]))
      BY <1>2, <1>3, <1>4, <2>3
    <3>2. ServiceFrom(MergeService(srvs[s], y[s]), x2, s)
      BY <3>1, ServiceOneMore DEF x2
    <3> QED BY <3>1, <3>2
  <2> QED BY <2>1, <2>2, <2>3
<1> QED BY <1>5, <1>6 DEF MergedFrom, x2

(* Services merged from nothing.                                           *)
LEMMA MergedNothing == MergedFrom(Empty, <<>>)
<1>1. DOMAIN Empty = {} /\ ToSet(<<>>) = {}
  BY DEF Empty, ToSet
<1> QED BY <1>1 DEF MergedFrom

(* While files are read, the services are those merged from what was read, *)
(* in this order; and those of the hash are some of them.                  *)
MergedInv ==
  /\ pc = "start" => compose.services = Empty
  /\ pc = "read" => MergedFrom(compose.services, read)
  /\ pc = "extend" =>
       \A s \in DOMAIN hash : ServiceFrom(hash[s], read, s)

LEMMA ServiceFromThen ==
  ASSUME UNCHANGED <<disk, read>>, NEW srvs,
         \A s \in DOMAIN srvs : ServiceFrom(srvs[s], read, s), hash' = srvs
  PROVE  (\A s \in DOMAIN hash : ServiceFrom(hash[s], read, s))'
<1>1. Mappings' = Mappings /\ disk' = disk /\ read' = read
  BY DEF Mappings, Kind
<1> QED BY <1>1 DEF ServiceFrom, Tells, SaidIn, SaysMap, Says

LEMMA MergedThen ==
  ASSUME UNCHANGED disk, NEW srvs, NEW x, MergedFrom(srvs, x), read' = x,
         compose'.services = srvs
  PROVE  MergedFrom(compose.services, read)'
<1>1. Mappings' = Mappings /\ disk' = disk
  BY DEF Mappings, Kind
<1> QED BY <1>1 DEF MergedFrom, ServiceFrom, Tells, SaidIn, SaysMap, Says

LEMMA MergedNext ==
  ASSUME TypeInv, HashInv, QueueInv, MergedInv, [Next]_vars
  PROVE  MergedInv'
<1>1. CASE Again
  <2>1. pc' = "start" /\ compose' = Nothing
    BY <1>1 DEF Again
  <2>2. compose'.services = Empty
    BY <2>1 DEF Nothing
  <2> QED BY <2>1, <2>2 DEF MergedInv
<1>2. CASE Start
  <2>1. pc = "start" /\ pc' \in {"exit", "read"} /\ UNCHANGED <<disk, line, read, compose>>
    BY <1>2 DEF Start
  <2>2. read' = <<>> /\ compose'.services = Empty
    BY <2>1 DEF QueueInv, MergedInv
  <2>3. MergedFrom(compose.services, read)'
    BY <2>1, <2>2, MergedNothing, MergedThen
  <2> QED BY <2>1, <2>3 DEF MergedInv
<1>3. CASE ReadFile
  <2> DEFINE p == Head(pending)
             merged == ReadResult
  <2>1. /\ pc = "read" /\ pending # <<>> /\ UNCHANGED disk
        /\ \/ pc' \in {"exit", "raised"}
           \/ /\ Kind(p) = "mapping" /\ pc' = "read"
              /\ \A s \in DOMAIN merged : ~ ServiceRaised(merged[s])
              /\ read' = Append(read, p)
              /\ compose'.services = merged
    BY <1>3, ReadFileCases
  <2>2. CASE pc' \in {"exit", "raised"}
    BY <2>1, <2>2 DEF MergedInv
  <2>3. CASE pc' = "read"
    <3>1. disk \in Disks /\ read \in Seq(Mappings) /\ MergedFrom(compose.services, read)
      BY <2>1 DEF TypeInv, QueueInv, Queued, MergedInv
    <3>2. p \in Mappings
      BY <2>1, <2>3 DEF Kind, Mappings
    <3>3. ServicesMerged(merged, compose.services, Relocations(p))
      BY RecMergeAt DEF ReadResult
    <3>4. /\ \A s \in DOMAIN merged : ~ ServiceRaised(merged[s])
          /\ read' = Append(read, p) /\ compose'.services = merged
      BY <2>1, <2>3
    <3> HIDE DEF p, merged
    <3>5. MergedFrom(merged, Append(read, p))
      BY <3>1, <3>2, <3>3, <3>4, MergedMore
    <3>6. MergedFrom(compose.services, read)'
      BY <2>1, <3>4, <3>5, MergedThen
    <3> QED BY <2>3, <3>6 DEF MergedInv
  <2> QED BY <2>1, <2>2, <2>3
<1>4. CASE Exhaust \/ ExtendsEnd
  <2>1. pc' \in {"exhausted", "done", "raised"}
    BY <1>4 DEF Exhaust, ExtendsEnd
  <2> QED BY <2>1 DEF MergedInv
<1>5. CASE FilesEnd
  <2>1. /\ pc = "read" /\ pc' = "extend" /\ UNCHANGED <<disk, read>>
        /\ hash' = Selected(compose.services)
    BY <1>5 DEF FilesEnd, Hashed
  <2> DEFINE srvs == Selected(compose.services)
  <2>2. \A s \in DOMAIN srvs : s \in DOMAIN compose.services /\ srvs[s] = compose.services[s]
    BY DEF Selected
  <2> HIDE DEF srvs
  <2>3. \A s \in DOMAIN srvs : ServiceFrom(srvs[s], read, s)
    BY <2>1, <2>2 DEF MergedInv, MergedFrom
  <2>4. (\A s \in DOMAIN hash : ServiceFrom(hash[s], read, s))'
    BY <2>1, <2>3, ServiceFromThen DEF srvs
  <2> QED BY <2>1, <2>4 DEF MergedInv
<1>6. ASSUME NEW s \in extending, ExtendService(s) PROVE MergedInv'
  <2>1. pc = "extend" /\ pc' \in {"extend", "raised"} /\ UNCHANGED <<disk, read, hash>>
    BY <1>6 DEF ExtendService
  <2>2. (\A u \in DOMAIN hash : ServiceFrom(hash[u], read, u))'
    BY <2>1, ServiceFromThen DEF MergedInv
  <2> QED BY <2>1, <2>2 DEF MergedInv
<1>7. CASE UNCHANGED vars
  <2>1. UNCHANGED <<disk, pc, read, compose, hash>>
    BY <1>7 DEF vars
  <2>2. pc = "read" => MergedFrom(compose.services, read)'
    BY <2>1, MergedThen DEF MergedInv
  <2>3. pc = "extend" => (\A s \in DOMAIN hash : ServiceFrom(hash[s], read, s))'
    BY <2>1, ServiceFromThen DEF MergedInv
  <2> QED BY <2>1, <2>2, <2>3 DEF MergedInv
<1> QED BY <1>1, <1>2, <1>3, <1>4, <1>5, <1>6, <1>7 DEF Next, Step

(* What the files say of a key, and what FlatMap says they do.             *)
LEMMA SaidIs ==
  ASSUME read \in Seq(Mappings), NEW s, NEW k
  PROVE  Said(s, k) = SaidIn(read, s, k)
<1>1. \A n \in DOMAIN read : read[n] \in Mappings
  OBVIOUS
<1>2. Mapped(SaysMap(s, k), read) = [n \in DOMAIN read |-> Says(read[n], s, k)]
  BY <1>1 DEF Mapped, SaysMap
<1> QED BY <1>2 DEF Said, SaidIn, FlatMap

(* However files are split over -f and include, a service has the keys     *)
(* that some file says, and what all of them say of each, in the order     *)
(* they were read: for any number of files, and lists of any length.       *)
THEOREM MergedInOrderTheorem == Spec => []MergedInOrder
<1>1. Init => MergedInv
  <2> SUFFICES ASSUME Init PROVE MergedInv
    OBVIOUS
  <2>1. pc = "start" /\ compose = Nothing
    BY DEF Init
  <2>2. compose.services = Empty
    BY <2>1 DEF Nothing
  <2> QED BY <2>1, <2>2 DEF MergedInv
<1>2. TypeInv /\ HashInv /\ QueueInv /\ MergedInv /\ [Next]_vars => MergedInv'
  BY MergedNext
<1>3. TypeInv /\ HashInv /\ QueueInv /\ MergedInv => MergedInOrder
  <2> SUFFICES ASSUME TypeInv, HashInv, QueueInv, MergedInv,
                      pc = "extend", extending = DOMAIN services, NEW s \in DOMAIN services
               PROVE  /\ DOMAIN services[s] =
                           UNION {DOMAIN disk[p].services[s] :
                                    p \in {q \in ToSet(read) : s \in DOMAIN disk[q].services}}
                      /\ \A k \in DOMAIN services[s] \ {"extends"} :
                           ComesTo(k, Said(s, k), services[s][k])
    BY DEF MergedInOrder
  <2>1. read \in Seq(Mappings)
    BY DEF QueueInv, Queued
  <2>2. s \in DOMAIN hash /\ services[s] = hash[s]
    <3>1. extending \subseteq DOMAIN hash /\ Resolved(hash, services, DOMAIN hash \ extending)
      BY DEF HashInv
    <3> QED BY <3>1 DEF Resolved
  <2>3. ServiceFrom(services[s], read, s)
    BY <2>2 DEF MergedInv
  <2>4. ASSUME NEW k \in DOMAIN services[s] \ {"extends"}
        PROVE  ComesTo(k, Said(s, k), services[s][k])
    BY <2>1, <2>3, <2>4, SaidIs DEF ServiceFrom, Sums
  <2>5. \A k : k \in DOMAIN services[s] <=>
                 \E p \in ToSet(read) : s \in DOMAIN disk[p].services
                                        /\ k \in DOMAIN disk[p].services[s]
    BY <2>3 DEF ServiceFrom, Tells
  <2>6. DOMAIN services[s] =
          UNION {DOMAIN disk[p].services[s] :
                   p \in {q \in ToSet(read) : s \in DOMAIN disk[q].services}}
    BY <2>5
  <2> QED BY <2>4, <2>6
<1> QED BY <1>1, <1>2, <1>3, HashCorrect, QueueCorrect, PTL DEF Spec
=============================================================================
