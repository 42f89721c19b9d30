------------------------- MODULE ServiceDepsProofs -------------------------
(***************************************************************************)
(* Proofs about ServiceDeps, for every set of services and every file.     *)
(*                                                                         *)
(* The argument: in a file without circular references a rank r decreases  *)
(* along every reference.  Frames of rec_deps have strictly decreasing     *)
(* ranks, so the guard against loops never cuts a branch off, no service   *)
(* is on the stack twice, and each return leaves a closed set behind that  *)
(* no later step changes (Inv below).  Closed, irreflexive sets are        *)
(* strictly nested along dependencies, which makes the sort by size a      *)
(* topological sort (LenSortIsTopological).                                *)
(*                                                                         *)
(* Nothing is in a set without a reason: what is not a direct dependency   *)
(* came out of the set of an expanded one, which stays (ExactInv).  And as *)
(* the first pass counts bases as dependencies, the sort behind it puts    *)
(* them before the services that extend them (ResolveInv).                 *)
(***************************************************************************)
EXTENDS ServiceDeps, FiniteSetTheorems, SequenceTheorems, TLAPS

(* References, current and collected, go down in rank. *)
Ranked(r) ==
  /\ \A s \in Services, n \in Names : depends_on[s][n] # None => r[n] < r[s]
  /\ \A s \in Services : \A n \in links[s] : r[n] < r[s]
  /\ \A s \in Services : \A d \in deps[s] : r[d[1]] < r[s]

(* Every frame was called by the one below it, for a lower service. *)
StackInv(r) ==
  /\ \A i \in 1..Len(stack) : stack[i].todo \subseteq deps[stack[i].svc]
  /\ \A i \in 1..Len(stack) : i < Len(stack) =>
       stack[i+1].svc \in NamesOf(deps[stack[i].svc])
  /\ \A i, j \in 1..Len(stack) : i < j => r[stack[j].svc] < r[stack[i].svc]

(* What s has taken in from d: all of d's final set. *)
Absorbed(s, d) ==
  d[1] \in Services => d[1] \in expanded /\ deps[d[1]] \subseteq deps[s]

(* Services rec_deps has returned for are closed; a frame has absorbed what *)
(* it is done with, except for the call that is running.                    *)
ClosureInv ==
  /\ \A s \in expanded : \A d \in deps[s] : Absorbed(s, d)
  /\ \A i \in 1..Len(stack) : \A d \in deps[stack[i].svc] \ stack[i].todo :
       \/ Absorbed(stack[i].svc, d)
       \/ i < Len(stack) /\ d[1] = stack[i+1].svc

(* Where the outer loop stands. *)
PhaseInv ==
  /\ pc = "expand" =>
       \A s \in Services : \/ s \in unexpanded \cup expanded
                           \/ \E i \in 1..Len(stack) : stack[i].svc = s
  /\ pc \in {"flat", "resolve", "done"} => stack = <<>>
  /\ pc = "done" => expanded = Services /\ order \in LenSorted(Services, deps)

Inv(r) == TypeOK /\ Ranked(r) /\ StackInv(r) /\ ClosureInv /\ PhaseInv

IInv == \A r \in [Names -> Int] : RankedBy(file, r) => Inv(r)

-----------------------------------------------------------------------------
USE DEF Dependencies, ComposeFile

LEMMA ServicesFinite == IsFiniteSet(Services) /\ Cardinality(Services) \in Nat
BY ServiceDepsAssumption, FS_Subset, FS_CardinalityType

LEMMA DirectDepsType ==
  ASSUME TypeOK, NEW s \in Services
  PROVE  DirectDeps(s) \subseteq Names \X Conditions
BY ServiceDepsAssumption DEF TypeOK, DirectDeps, DependsOn

(* The services, sorted, are a sequence. *)
LEMMA LenSortedType ==
  ASSUME NEW D, NEW o \in LenSorted(Services, D)
  PROVE  o \in Seq(Services)
BY ServicesFinite DEF LenSorted

(* Taking a dependency from the copy changes the top frame only. *)
LEMMA TakeFromCopyType ==
  ASSUME TypeOK, stack # <<>>, NEW d
  PROVE  /\ Len(stack) \in Nat \ {0}
         /\ Top \in Frame
         /\ TakeFromCopy(d) \in Seq(Frame)
         /\ Len(TakeFromCopy(d)) = Len(stack)
         /\ \A i \in 1..Len(stack) :
              TakeFromCopy(d)[i] = IF i = Len(stack)
                                   THEN [svc |-> Top.svc, todo |-> Top.todo \ {d}]
                                   ELSE stack[i]
<1> DEFINE f == [svc |-> Top.svc, todo |-> Top.todo \ {d}]
<1>1. stack \in Seq(Frame) /\ Len(stack) \in Nat \ {0}
  BY DEF TypeOK
<1>2. Top \in Frame
  BY <1>1, ElementOfSeq DEF Top
<1>3. f \in Frame
  BY <1>2 DEF Frame
<1>4. TakeFromCopy(d) = [stack EXCEPT ![Len(stack)] = f]
  BY <1>1 DEF TakeFromCopy, Top
<1> HIDE DEF f
<1>5. Len(stack) \in 1..Len(stack)
  BY <1>1
<1>6. /\ [stack EXCEPT ![Len(stack)] = f] \in Seq(Frame)
      /\ Len([stack EXCEPT ![Len(stack)] = f]) = Len(stack)
      /\ \A i \in 1..Len(stack) : [stack EXCEPT ![Len(stack)] = f][i]
                                  = IF i = Len(stack) THEN f ELSE stack[i]
  BY <1>1, <1>3, <1>5, ExceptSeq
<1> QED BY <1>1, <1>2, <1>4, <1>6 DEF f

LEMMA TakeFromCopyFrames ==
  ASSUME TypeOK, stack # <<>>, NEW d, NEW i \in 1..Len(stack)
  PROVE  /\ TakeFromCopy(d)[i].svc = stack[i].svc
         /\ TakeFromCopy(d)[i].todo = IF i = Len(stack) THEN stack[i].todo \ {d}
                                      ELSE stack[i].todo
<1>1. CASE i = Len(stack)
  <2>1. TakeFromCopy(d)[i] = [svc |-> Top.svc, todo |-> Top.todo \ {d}]
    BY <1>1, TakeFromCopyType
  <2> QED BY <1>1, <2>1 DEF Top
<1>2. CASE i # Len(stack)
  BY <1>2, TakeFromCopyType
<1> QED BY <1>1, <1>2

(* A call puts a frame on top. *)
LEMMA Call ==
  ASSUME NEW q \in Seq(Frame), NEW f \in Frame
  PROVE  /\ Append(q, f) \in Seq(Frame)
         /\ Len(Append(q, f)) = Len(q) + 1
         /\ \A i \in 1..Len(q) + 1 :
              Append(q, f)[i] = IF i = Len(q) + 1 THEN f ELSE q[i]
BY AppendProperties

(* A return takes the top frame off. *)
LEMMA Pop ==
  ASSUME NEW q \in Seq(Frame), q # <<>>
  PROVE  /\ Len(q) \in Nat \ {0}
         /\ SubSeq(q, 1, Len(q) - 1) \in Seq(Frame)
         /\ Len(SubSeq(q, 1, Len(q) - 1)) = Len(q) - 1
         /\ \A i \in 1..Len(q) - 1 : SubSeq(q, 1, Len(q) - 1)[i] = q[i]
<1>1. Len(q) \in Nat \ {0} /\ \A i \in 1..Len(q) - 1 : q[i] \in Frame
  OBVIOUS
<1>2. \A i \in 1..Len(q) - 1 : q[1+i-1] = q[i]
  OBVIOUS
<1>3. /\ SubSeq(q, 1, Len(q) - 1) \in Seq(Frame)
      /\ Len(SubSeq(q, 1, Len(q) - 1)) =
           IF 1 <= Len(q) - 1 THEN (Len(q) - 1) - 1 + 1 ELSE 0
      /\ \A i \in 1..(Len(q) - 1) - 1 + 1 :
           SubSeq(q, 1, Len(q) - 1)[i] = q[1+i-1]
  BY <1>1, SubSeqProperties
<1>4. (Len(q) - 1) - 1 + 1 = Len(q) - 1
  BY <1>1
<1> QED BY <1>1, <1>2, <1>3, <1>4

LEMMA TypeInit == Init => TypeOK
BY ServiceDepsAssumption DEF Init, TypeOK

LEMMA TypeNext == TypeOK /\ [Next]_vars => TypeOK'
<1> SUFFICES ASSUME TypeOK, [Next]_vars PROVE TypeOK'
  OBVIOUS
<1> USE ServiceDepsAssumption
<1>1. CASE Collect
  BY <1>1, DirectDepsType DEF TypeOK, Collect
<1>2. CASE CollectFails
  BY <1>2 DEF TypeOK, CollectFails
<1>3. ASSUME NEW s \in Services, ExpandService(s) PROVE TypeOK'
  <2>1. [svc |-> s, todo |-> deps[s]] \in Frame
    BY DEF TypeOK, Frame
  <2>2. stack' \in Seq(Frame)
    BY <1>3, <2>1 DEF ExpandService
  <2> QED BY <1>3, <2>2 DEF TypeOK, ExpandService
<1>5. ASSUME NEW d \in Dependencies, PassOver(d) PROVE TypeOK'
  BY <1>5, TakeFromCopyType DEF TypeOK, PassOver
<1>6. ASSUME NEW d \in Dependencies, Recurse(d) PROVE TypeOK'
  <2>1. d[1] \in Services
    BY <1>6 DEF Recurse, Passed
  <2>2. [svc |-> d[1], todo |-> deps[d[1]]] \in Frame
    BY <2>1 DEF TypeOK, Frame
  <2>3. TakeFromCopy(d) \in Seq(Frame)
    BY <1>6, TakeFromCopyType DEF Recurse
  <2>4. Append(TakeFromCopy(d), [svc |-> d[1], todo |-> deps[d[1]]]) \in Seq(Frame)
    BY <2>2, <2>3, Call
  <2>5. stack' \in Seq(Frame)
    BY <1>6, <2>4 DEF Recurse, TypeOK
  <2> QED BY <1>6, <2>5 DEF TypeOK, Recurse
<1>7. CASE Return
  <2>1. Len(stack) \in Nat \ {0} /\ Top \in Frame
    BY <1>7, TakeFromCopyType DEF Return
  <2>2. stack' \in Seq(Frame)
    BY <1>7, Pop DEF Return, TypeOK
  <2>3. deps' \in [Services -> SUBSET Dependencies]
    BY <1>7, <2>1 DEF Return, TypeOK, Frame
  <2> QED BY <1>7, <2>1, <2>2, <2>3 DEF TypeOK, Return, Frame
<1>8. CASE Sort
  BY <1>8, LenSortedType DEF TypeOK, Sort
<1>9. CASE ResolveNext
  <2>1. Head(order) \in Services /\ Tail(order) \in Seq(Services)
    BY <1>9 DEF ResolveNext, TypeOK
  <2>2. ASSUME NEW s \in Services, NEW b \in Services, Inherit(s, b)
        PROVE  /\ depends_on' \in [Services -> [Names -> Services \cup {None}]]
               /\ condition' \in [Services -> [Names -> Conditions \cup {None}]]
               /\ links' \in [Services -> SUBSET Names]
    BY <2>2 DEF Inherit, TypeOK
  <2> QED BY <1>9, <2>1, <2>2 DEF TypeOK, ResolveNext
<1>10. CASE ResolveEnds
  BY <1>10 DEF TypeOK, ResolveEnds
<1>11. CASE UNCHANGED vars
  BY <1>11 DEF TypeOK, vars
<1> QED BY <1>1, <1>2, <1>3, <1>5, <1>6, <1>7, <1>8, <1>9, <1>10, <1>11 DEF Next

(* Every variable keeps its type: in particular only defined services are  *)
(* ever expanded, and the frames of rec_deps hold dependencies.            *)
THEOREM TypeCorrect == Spec => []TypeOK
BY TypeInit, TypeNext, PTL DEF Spec

-----------------------------------------------------------------------------
(* The inductive invariant, for a file ranked by r.                        *)

LEMMA DirectDepsRanked ==
  ASSUME TypeOK, NEW r \in [Names -> Int], RankedBy(file, r), Ranked(r),
         NEW s \in Services, NEW d \in DirectDeps(s)
  PROVE  r[d[1]] < r[s]
<1>1. CASE pass = 1 /\ file.extends[s] # None
  <2>1. d[1] = file.extends[s] /\ d[1] # s /\ d[1] # None
    BY <1>1 DEF DirectDeps
  <2>2. d[1] \in Mentions(file, s)
    BY <1>1, <2>1 DEF Mentions
  <2> QED BY <2>2 DEF RankedBy
<1>2. CASE ~ (pass = 1 /\ file.extends[s] # None)
  <2>1. CASE d \in DependsOn(s)
    BY <2>1 DEF DependsOn, Ranked
  <2>2. CASE \E l \in links[s] : d = <<l, Running>>
    BY <2>2 DEF Ranked
  <2> QED BY <1>2, <2>1, <2>2 DEF DirectDeps
<1> QED BY <1>1, <1>2

LEMMA InvInit ==
  ASSUME Init, NEW r \in [Names -> Int], RankedBy(file, r)
  PROVE  Inv(r)
<1>1. TypeOK
  BY TypeInit
<1>2. Ranked(r)
  <2>1. \A s \in Services, n \in Names : depends_on[s][n] # None => r[n] < r[s]
    BY ServiceDepsAssumption DEF Init, RankedBy, Mentions
  <2>2. \A s \in Services : \A n \in links[s] : r[n] < r[s]
    BY DEF Init, RankedBy, Mentions
  <2> QED BY <2>1, <2>2 DEF Ranked, Init
<1>3. StackInv(r) /\ ClosureInv /\ PhaseInv
  BY DEF Init, StackInv, ClosureInv, PhaseInv
<1> QED BY <1>1, <1>2, <1>3 DEF Inv

LEMMA InvCollect ==
  ASSUME NEW r \in [Names -> Int], RankedBy(file, r), Inv(r), Collect
  PROVE  Inv(r)'
<1>1. TypeOK'
  BY TypeNext DEF Inv, Next
<1>2. Ranked(r)'
  BY DirectDepsRanked DEF Inv, Ranked, Collect
<1>3. stack' = <<>> /\ expanded' = {} /\ unexpanded' = Services
  BY DEF Inv, PhaseInv, Collect
<1>4. StackInv(r)' /\ ClosureInv' /\ PhaseInv'
  BY <1>3 DEF StackInv, ClosureInv, PhaseInv, Collect
<1> QED BY <1>1, <1>2, <1>4 DEF Inv

LEMMA InvExpandService ==
  ASSUME NEW r \in [Names -> Int], RankedBy(file, r), Inv(r),
         NEW s \in Services, ExpandService(s)
  PROVE  Inv(r)'
<1>1. TypeOK'
  BY TypeNext DEF Inv, Next
<1>2. /\ Len(stack') = 1 /\ stack'[1].svc = s /\ stack'[1].todo = deps[s]
      /\ UNCHANGED <<depends_on, links, deps, expanded, pc>>
      /\ stack = <<>>
      /\ unexpanded' = unexpanded \ {s}
  BY DEF ExpandService
<1>3. Ranked(r)'
  BY <1>2 DEF Inv, Ranked
<1>4. StackInv(r)'
  BY <1>2 DEF StackInv
<1>5. ClosureInv'
  BY <1>2 DEF Inv, ClosureInv, Absorbed
<1>6. PhaseInv'
  BY <1>2 DEF Inv, PhaseInv, ExpandService
<1> QED BY <1>1, <1>3, <1>4, <1>5, <1>6 DEF Inv

(* What the invariant says of the frames, spelled out. *)
LEMMA StackFacts ==
  ASSUME NEW r \in [Names -> Int], Inv(r), stack # <<>>
  PROVE  /\ Len(stack) \in Nat \ {0}
         /\ \A s \in Services : r[s] \in Int
         /\ \A d \in Dependencies : r[d[1]] \in Int
         /\ \A i \in 1..Len(stack) :
              /\ stack[i] \in Frame
              /\ stack[i].svc \in Services
              /\ stack[i].todo \subseteq deps[stack[i].svc]
              /\ deps[stack[i].svc] \subseteq Dependencies
              /\ i < Len(stack) => stack[i+1].svc \in NamesOf(deps[stack[i].svc])
              /\ r[stack[Len(stack)].svc] <= r[stack[i].svc]
              /\ r[stack[i].svc] <= r[StartPoint]
         /\ \A i, j \in 1..Len(stack) : i < j => r[stack[j].svc] < r[stack[i].svc]
<1>1. stack \in Seq(Frame) /\ Len(stack) \in Nat \ {0}
  BY DEF Inv, TypeOK
<1>2. /\ \A s \in Services : r[s] \in Int
      /\ \A d \in Dependencies : r[d[1]] \in Int
  BY ServiceDepsAssumption
<1>3. \A i \in 1..Len(stack) : stack[i] \in Frame
  BY <1>1, ElementOfSeq
<1>4. \A i \in 1..Len(stack) :
         /\ stack[i].svc \in Services
         /\ stack[i].todo \subseteq deps[stack[i].svc]
         /\ deps[stack[i].svc] \subseteq Dependencies
  BY <1>3 DEF Frame, Inv, StackInv, TypeOK
<1>5. \A i \in 1..Len(stack) :
         i < Len(stack) => stack[i+1].svc \in NamesOf(deps[stack[i].svc])
  BY DEF Inv, StackInv
<1>6. \A i, j \in 1..Len(stack) : i < j => r[stack[j].svc] < r[stack[i].svc]
  BY DEF Inv, StackInv
<1>7. ASSUME NEW i \in 1..Len(stack)
      PROVE  /\ r[stack[Len(stack)].svc] <= r[stack[i].svc]
             /\ r[stack[i].svc] <= r[StartPoint]
  <2>1. /\ r[stack[i].svc] \in Int /\ r[stack[Len(stack)].svc] \in Int
        /\ r[stack[1].svc] \in Int
    BY <1>1, <1>2, <1>4
  <2>2. i = Len(stack) \/ i < Len(stack)
    BY <1>1
  <2>3. i = 1 \/ 1 < i
    BY <1>1
  <2> QED BY <1>1, <1>6, <2>1, <2>2, <2>3 DEF StartPoint
<1> QED BY <1>1, <1>2, <1>3, <1>4, <1>5, <1>6, <1>7

(* Taking d from the copy: frames keep their services, the top one loses d. *)
LEMMA InvPassOver ==
  ASSUME NEW r \in [Names -> Int], RankedBy(file, r), Inv(r),
         NEW d \in Dependencies, PassOver(d)
  PROVE  Inv(r)'
<1> DEFINE n == Len(stack)
<1>1. TypeOK'
  BY TypeNext DEF Inv, Next
<1>2. /\ UNCHANGED <<depends_on, links, deps, expanded, unexpanded, pc>>
      /\ d \in stack[n].todo /\ pc = "expand" /\ stack # <<>>
  BY DEF PassOver, Top
<1>3. /\ Len(stack') = n
      /\ \A i \in 1..n : /\ stack'[i].svc = stack[i].svc
                         /\ stack'[i].todo = IF i = n THEN stack[i].todo \ {d}
                                             ELSE stack[i].todo
  BY <1>2, TakeFromCopyType, TakeFromCopyFrames DEF PassOver, Inv
<1> HIDE DEF n
<1>4. n \in Nat \ {0} /\ n \in 1..n
  BY <1>2, StackFacts DEF n
<1>5. Ranked(r)'
  BY <1>2 DEF Inv, Ranked
<1>6. StackInv(r)'
  <2>1. \A i \in 1..n : stack'[i].todo \subseteq deps[stack'[i].svc]
    BY <1>2, <1>3, StackFacts DEF n
  <2>2. \A i \in 1..n : i < n => stack'[i+1].svc \in NamesOf(deps[stack'[i].svc])
    <3> TAKE i \in 1..n
    <3> HAVE i < n
    <3>1. i + 1 \in 1..n
      BY <1>4
    <3> QED BY <1>2, <1>3, <3>1, StackFacts DEF n
  <2>3. \A i, j \in 1..n : i < j => r[stack'[j].svc] < r[stack'[i].svc]
    BY <1>2, <1>3, StackFacts DEF n
  <2> QED BY <1>2, <1>3, <2>1, <2>2, <2>3 DEF StackInv
<1>7. Absorbed(stack[n].svc, d)
  <2>1. d \in deps[stack[n].svc] /\ stack[n].svc \in Services
    BY <1>2, <1>4, StackFacts DEF n
  <2>2. r[d[1]] < r[stack[n].svc]
    BY <2>1 DEF Inv, Ranked
  <2>3. r[stack[n].svc] <= r[StartPoint]
    BY <1>2, <1>4, StackFacts DEF n
  <2>4. r[d[1]] \in Int /\ r[stack[n].svc] \in Int
    BY <1>2, <1>4, StackFacts DEF n
  <2>5. CASE d[1] \in Services /\ StartPoint \in NamesOf(deps[d[1]])
    <3>1. r[StartPoint] < r[d[1]]
      BY <2>5 DEF NamesOf, Inv, Ranked
    <3>2. StartPoint \in Services
      BY <1>2, <1>4, StackFacts DEF n, StartPoint
    <3>3. r[StartPoint] \in Int
      BY <1>2, <3>2, StackFacts
    <3> QED BY <2>2, <2>3, <2>4, <3>1, <3>3
  <2>6. CASE d[1] = stack[n].svc
    BY <2>2, <2>4, <2>6
  <2>7. CASE d[1] \notin Services
    BY <2>7 DEF Absorbed
  <2> QED BY <2>5, <2>6, <2>7 DEF PassOver, Passed, Top, n
<1>8. ClosureInv'
  <2>1. \A s, e : Absorbed(s, e)' <=> Absorbed(s, e)
    BY <1>2 DEF Absorbed
  <2>2. \A s \in expanded : \A e \in deps[s] : Absorbed(s, e)
    BY DEF Inv, ClosureInv
  <2>3. ASSUME NEW i \in 1..n, NEW e \in deps[stack'[i].svc] \ stack'[i].todo
        PROVE  Absorbed(stack'[i].svc, e) \/ (i < n /\ e[1] = stack'[i+1].svc)
    <3>1. CASE i = n /\ e = d
      BY <1>3, <1>7, <3>1
    <3>2. CASE ~ (i = n /\ e = d)
      <4>1. e \in deps[stack[i].svc] \ stack[i].todo
        BY <1>3, <3>2
      <4>2. Absorbed(stack[i].svc, e) \/ (i < n /\ e[1] = stack[i+1].svc)
        BY <4>1 DEF Inv, ClosureInv, n
      <4>3. i < n => i + 1 \in 1..n
        BY <1>4
      <4> QED BY <1>3, <4>2, <4>3
    <3> QED BY <3>1, <3>2
  <2> QED BY <1>2, <1>3, <2>1, <2>2, <2>3 DEF ClosureInv
<1>9. PhaseInv'
  BY <1>2, <1>3 DEF Inv, PhaseInv, n
<1> QED BY <1>1, <1>5, <1>6, <1>8, <1>9 DEF Inv

(* A call: the new frame ranks below its caller and has absorbed nothing.  *)
LEMMA InvRecurse ==
  ASSUME NEW r \in [Names -> Int], RankedBy(file, r), Inv(r),
         NEW d \in Dependencies, Recurse(d)
  PROVE  Inv(r)'
<1> DEFINE n == Len(stack)
<1>1. TypeOK'
  BY TypeNext DEF Inv, Next
<1>2. /\ UNCHANGED <<depends_on, links, deps, expanded, unexpanded>>
      /\ d \in stack[n].todo /\ pc = "expand" /\ stack # <<>>
      /\ d[1] \in Services
  BY DEF Recurse, Passed, Top
<1>3. CASE UNCHANGED stack /\ pc' = "RecursionError"
  BY <1>1, <1>2, <1>3 DEF Inv, Ranked, StackInv, ClosureInv, Absorbed, PhaseInv
<1>4. CASE /\ stack' = Append(TakeFromCopy(d), [svc |-> d[1], todo |-> deps[d[1]]])
           /\ UNCHANGED pc
  <2>1. [svc |-> d[1], todo |-> deps[d[1]]] \in Frame
    BY <1>2 DEF Inv, TypeOK, Frame
  <2>2. /\ Len(stack') = n + 1
        /\ \A i \in 1..n : /\ stack'[i].svc = stack[i].svc
                           /\ stack'[i].todo = IF i = n THEN stack[i].todo \ {d}
                                               ELSE stack[i].todo
        /\ stack'[n+1].svc = d[1] /\ stack'[n+1].todo = deps[d[1]]
    <3>1. /\ n \in Nat \ {0}
          /\ TakeFromCopy(d) \in Seq(Frame) /\ Len(TakeFromCopy(d)) = n
          /\ \A i \in 1..n :
               /\ TakeFromCopy(d)[i].svc = stack[i].svc
               /\ TakeFromCopy(d)[i].todo = IF i = n THEN stack[i].todo \ {d}
                                            ELSE stack[i].todo
      BY <1>2, TakeFromCopyType, TakeFromCopyFrames DEF Inv
    <3>2. /\ Len(stack') = n + 1
          /\ \A i \in 1..n + 1 : stack'[i] =
               IF i = n + 1 THEN [svc |-> d[1], todo |-> deps[d[1]]]
               ELSE TakeFromCopy(d)[i]
      BY <1>4, <2>1, <3>1, Call
    <3> HIDE DEF n
    <3>3. n + 1 \in 1..n+1 /\ \A i \in 1..n : i \in 1..n+1 /\ i # n+1
      BY <3>1
    <3>4. stack'[n+1] = [svc |-> d[1], todo |-> deps[d[1]]]
      BY <3>2, <3>3
    <3>5. \A i \in 1..n : stack'[i] = TakeFromCopy(d)[i]
      BY <3>2, <3>3
    <3>6. \A i \in 1..n : /\ stack'[i].svc = stack[i].svc
                         /\ stack'[i].todo = IF i = n THEN stack[i].todo \ {d}
                                             ELSE stack[i].todo
      BY <3>1, <3>5
    <3>7. stack'[n+1].svc = d[1] /\ stack'[n+1].todo = deps[d[1]]
      BY <3>4
    <3> QED BY <3>2, <3>6, <3>7
  <2> HIDE DEF n
  <2>3. n \in Nat \ {0} /\ n \in 1..n
    BY <1>2, StackFacts DEF n
  <2>4. \A i \in 1..n+1 : i \in 1..n \/ i = n+1
    BY <2>3
  <2>5. d \in deps[stack[n].svc] /\ r[d[1]] < r[stack[n].svc]
    <3>1. d \in deps[stack[n].svc] /\ stack[n].svc \in Services
      BY <1>2, <2>3, StackFacts DEF n
    <3> QED BY <3>1 DEF Inv, Ranked
  <2>6. Ranked(r)'
    BY <1>2 DEF Inv, Ranked
  <2>7. StackInv(r)'
    <3>1. \A i \in 1..n+1 : stack'[i].todo \subseteq deps[stack'[i].svc]
      <4>1. \A i \in 1..n : stack'[i].todo \subseteq deps[stack'[i].svc]
        BY <1>2, <2>2, StackFacts DEF n
      <4> QED BY <2>2, <2>4, <4>1
    <3>2. \A i \in 1..n+1 : i < n+1 =>
             stack'[i+1].svc \in NamesOf(deps[stack'[i].svc])
      <4> TAKE i \in 1..n+1
      <4> HAVE i < n+1
      <4>1. CASE i = n
        BY <2>2, <2>3, <2>5, <4>1 DEF NamesOf
      <4>2. CASE i < n
        <5>1. i \in 1..n /\ i + 1 \in 1..n
          BY <2>3, <4>2
        <5> QED BY <1>2, <2>2, <4>2, <5>1, StackFacts DEF n
      <4> QED BY <2>3, <4>1, <4>2
    <3>3. ASSUME NEW i \in 1..n PROVE r[d[1]] < r[stack[i].svc]
      <4>1. /\ r[stack[n].svc] <= r[stack[i].svc]
            /\ r[stack[n].svc] \in Int /\ r[stack[i].svc] \in Int /\ r[d[1]] \in Int
        BY <1>2, <2>3, StackFacts DEF n
      <4> QED BY <2>5, <4>1
    <3>4. ASSUME NEW i \in 1..n+1, NEW j \in 1..n+1, i < j
          PROVE  r[stack'[j].svc] < r[stack'[i].svc]
      <4>1. i \in 1..n
        BY <2>3, <3>4
      <4>2. CASE j = n+1
        BY <2>2, <3>3, <4>1, <4>2
      <4>3. CASE j \in 1..n
        BY <1>2, <2>2, <3>4, <4>1, <4>3, StackFacts DEF n
      <4> QED BY <2>4, <4>2, <4>3
    <3> QED BY <1>2, <2>2, <3>1, <3>2, <3>4 DEF StackInv
  <2>8. ClosureInv'
    <3>1. \A s, e : Absorbed(s, e)' <=> Absorbed(s, e)
      BY <1>2 DEF Absorbed
    <3>2. \A s \in expanded : \A e \in deps[s] : Absorbed(s, e)
      BY DEF Inv, ClosureInv
    <3>3. ASSUME NEW i \in 1..n+1, NEW e \in deps[stack'[i].svc] \ stack'[i].todo
          PROVE  Absorbed(stack'[i].svc, e) \/ (i < n+1 /\ e[1] = stack'[i+1].svc)
      <4>1. i \in 1..n
        BY <2>2, <2>4, <3>3
      <4>2. CASE i = n /\ e = d
        BY <2>2, <2>3, <4>2
      <4>3. CASE ~ (i = n /\ e = d)
        <5>1. e \in deps[stack[i].svc] \ stack[i].todo
          BY <2>2, <4>1, <4>3
        <5>2. Absorbed(stack[i].svc, e) \/ (i < n /\ e[1] = stack[i+1].svc)
          BY <4>1, <5>1 DEF Inv, ClosureInv, n
        <5>3. i < n => i + 1 \in 1..n /\ i < n + 1
          BY <2>3
        <5> QED BY <2>2, <4>1, <5>2, <5>3
      <4> QED BY <4>2, <4>3
    <3> QED BY <1>2, <2>2, <3>1, <3>2, <3>3 DEF ClosureInv
  <2>9. PhaseInv'
    <3>1. \A i \in 1..n : i \in 1..n+1
      BY <2>3
    <3>2. ASSUME NEW s \in Services
          PROVE  \/ s \in unexpanded \cup expanded
                 \/ \E i \in 1..n+1 : stack'[i].svc = s
      <4>1. \/ s \in unexpanded \cup expanded
            \/ \E i \in 1..n : stack[i].svc = s
        BY <1>2 DEF Inv, PhaseInv, n
      <4> QED BY <2>2, <3>1, <4>1
    <3> QED BY <1>2, <1>4, <2>2, <3>2 DEF PhaseInv
  <2> QED BY <1>1, <2>6, <2>7, <2>8, <2>9 DEF Inv
<1> QED BY <1>3, <1>4 DEF Recurse

(* A return: the frame's set is final; its caller, if any, takes it in.    *)
(* The one set that may grow is that of a service not yet expanded.        *)
LEMMA InvReturn ==
  ASSUME NEW r \in [Names -> Int], RankedBy(file, r), Inv(r), Return
  PROVE  /\ Inv(r)'
         /\ \A s \in expanded : deps'[s] = deps[s]
<1> DEFINE n == Len(stack)
           t == stack[n].svc
<1>1. TypeOK'
  BY TypeNext DEF Inv, Next
<1>2. /\ UNCHANGED <<depends_on, links, unexpanded, pc>>
      /\ stack # <<>> /\ pc = "expand" /\ stack[n].todo = {}
      /\ expanded' = expanded \cup {t}
      /\ deps' = IF n = 1 THEN deps
                 ELSE [deps EXCEPT ![stack[n-1].svc] = @ \cup deps[t]]
  BY DEF Return, Top
<1>3. /\ n \in Nat \ {0} /\ n \in 1..n
      /\ t \in Services
      /\ deps \in [Services -> SUBSET Dependencies]
      /\ deps' \in [Services -> SUBSET Dependencies]
  BY <1>1, <1>2, StackFacts DEF Inv, TypeOK
<1>4. Len(stack') = n - 1 /\ \A i \in 1..n-1 : stack'[i] = stack[i]
  BY <1>2, Pop DEF Return, Inv, TypeOK
<1>5. \A d \in deps[t] : Absorbed(t, d) /\ r[d[1]] < r[t]
  BY <1>2, <1>3 DEF Inv, ClosureInv, Ranked
<1>6. \A s \in expanded : \A d \in deps[s] : Absorbed(s, d)
  BY DEF Inv, ClosureInv
<1>7. \A s \in Services : r[s] \in Int
  BY <1>2, StackFacts
<1>8. \A d \in Dependencies : r[d[1]] \in Int
  BY <1>2, StackFacts
<1> HIDE DEF n, t
<1>9. \A i \in 1..n-1 : i \in 1..n /\ i < n /\ i + 1 \in 1..n
  BY <1>3
<1>10. CASE n = 1
  <2>1. deps' = deps /\ stack' = <<>> /\ Len(stack') = 0
    BY <1>2, <1>3, <1>4, <1>10 DEF n, Return
  <2>2. Ranked(r)'
    BY <1>2, <2>1 DEF Inv, Ranked
  <2>3. StackInv(r)'
    BY <2>1 DEF StackInv
  <2>4. ClosureInv'
    BY <1>2, <1>5, <1>6, <2>1 DEF ClosureInv, Absorbed
  <2>5. PhaseInv'
    <3>1. ASSUME NEW s \in Services PROVE s \in unexpanded \cup expanded \cup {t}
      <4>1. \/ s \in unexpanded \cup expanded
            \/ \E i \in 1..n : stack[i].svc = s
        BY <1>2 DEF Inv, PhaseInv, n
      <4> QED BY <1>10, <4>1 DEF t
    <3> QED BY <1>2, <2>1, <3>1 DEF PhaseInv
  <2> QED BY <1>1, <2>1, <2>2, <2>3, <2>4, <2>5 DEF Inv
<1>11. CASE n > 1
  <2> DEFINE c == stack[n-1].svc
  <2>1. n - 1 \in 1..n /\ n - 1 \in 1..n-1 /\ (n - 1) + 1 = n /\ n - 1 < n
    BY <1>3, <1>11
  <2>2. /\ c \in Services
        /\ t \in NamesOf(deps[c])
        /\ r[t] < r[c]
    BY <1>2, <1>3, <2>1, StackFacts DEF n, t
  <2>3. \A i \in 1..n-1 : i # n-1 => /\ stack[i].svc \in Services
                                    /\ r[c] < r[stack[i].svc]
    <3> TAKE i \in 1..n-1
    <3> HAVE i # n-1
    <3>1. i < n-1 /\ i \in 1..n
      BY <1>3
    <3> QED BY <1>2, <2>1, <3>1, StackFacts DEF n
  <2> HIDE DEF c
  <2>4. /\ deps'[c] = deps[c] \cup deps[t]
        /\ \A s \in Services : s # c => deps'[s] = deps[s]
        /\ \A s \in Services : deps[s] \subseteq deps'[s]
    BY <1>2, <1>3, <1>11, <2>2 DEF c
  <2>5. t # c /\ deps'[t] = deps[t]
    BY <1>3, <1>7, <2>2, <2>4
  <2>6. c \in expanded => deps'[c] = deps[c]
    <3> HAVE c \in expanded
    <3>1. PICK d \in deps[c] : d[1] = t
      BY <2>2 DEF NamesOf
    <3>2. deps[t] \subseteq deps[c]
      BY <1>3, <1>6, <3>1 DEF Absorbed
    <3> QED BY <2>4, <3>2
  <2>7. \A s \in expanded : deps'[s] = deps[s]
    BY <2>4, <2>6 DEF Inv, TypeOK
  <2>8. ASSUME NEW d \in deps[t] PROVE d[1] # c
    <3>1. r[d[1]] < r[t] /\ r[d[1]] \in Int
      BY <1>3, <1>5, <1>8
    <3> QED BY <1>3, <1>7, <2>2, <3>1
  <2>9. Ranked(r)'
    <3>1. ASSUME NEW d \in deps[t] PROVE r[d[1]] < r[c]
      <4>1. r[d[1]] < r[t] /\ r[d[1]] \in Int
        BY <1>3, <1>5, <1>8
      <4> QED BY <1>3, <1>7, <2>2, <4>1
    <3>2. \A s \in Services : \A d \in deps'[s] : r[d[1]] < r[s]
      BY <2>4, <3>1 DEF Inv, Ranked
    <3> QED BY <1>2, <3>2 DEF Inv, Ranked
  <2>10. StackInv(r)'
    <3>1. ASSUME NEW i \in 1..n-1
          PROVE  /\ stack[i].svc \in Services
                 /\ stack[i].todo \subseteq deps[stack[i].svc]
                 /\ stack[i+1].svc \in NamesOf(deps[stack[i].svc])
      BY <1>2, <1>9, StackFacts DEF n
    <3>2. \A i \in 1..n-1 : stack'[i].todo \subseteq deps'[stack'[i].svc]
      BY <1>4, <2>4, <3>1
    <3>3. \A i \in 1..n-1 : i < n-1 => stack'[i+1].svc \in NamesOf(deps'[stack'[i].svc])
      <4> TAKE i \in 1..n-1
      <4> HAVE i < n-1
      <4>1. i + 1 \in 1..n-1
        BY <1>3
      <4> QED BY <1>4, <2>4, <3>1, <4>1 DEF NamesOf
    <3>4. \A i, j \in 1..n-1 : i < j => r[stack'[j].svc] < r[stack'[i].svc]
      BY <1>2, <1>4, <1>9, StackFacts DEF n
    <3> QED BY <1>4, <3>2, <3>3, <3>4 DEF StackInv
  <2>11. ClosureInv'
    <3>1. ASSUME NEW s \in expanded', NEW d \in deps'[s] PROVE Absorbed(s, d)'
      <4>1. CASE s = t
        <5>1. d \in deps[t] /\ Absorbed(t, d)
          BY <1>5, <2>5, <3>1, <4>1
        <5> QED BY <1>2, <2>4, <2>5, <2>8, <4>1, <5>1 DEF Absorbed
      <4>2. CASE s \in expanded
        <5>1. d \in deps[s] /\ Absorbed(s, d)
          BY <1>6, <2>7, <3>1, <4>2
        <5> QED BY <1>2, <2>7, <4>2, <5>1 DEF Absorbed
      <4> QED BY <1>2, <4>1, <4>2
    <3>2. ASSUME NEW i \in 1..n-1, NEW d \in deps'[stack[i].svc] \ stack[i].todo
          PROVE  Absorbed(stack[i].svc, d)' \/ (i < n-1 /\ d[1] = stack[i+1].svc)
      <4>0. stack[i].svc \in Services
        BY <1>2, <1>9, StackFacts DEF n
      <4>1. ASSUME d \in deps[stack[i].svc]
            PROVE  Absorbed(stack[i].svc, d) \/ d[1] = stack[i+1].svc
        BY <1>9, <3>2, <4>1 DEF Inv, ClosureInv, n
      <4>2. CASE i = n-1
        <5>1. stack[i].svc = c /\ stack[i+1].svc = t
          BY <2>1, <4>2 DEF c, t
        <5>2. CASE d \in deps[t]
          <6>1. d[1] \in Services => /\ d[1] \in expanded /\ deps[d[1]] \subseteq deps[t]
                                     /\ d[1] # c
            BY <1>5, <2>8, <5>2 DEF Absorbed
          <6> QED BY <1>2, <1>4, <2>4, <5>1, <5>2, <6>1 DEF Absorbed
        <5>3. CASE d \notin deps[t] /\ d[1] = t
          BY <1>2, <1>4, <2>4, <2>5, <5>1, <5>3 DEF Absorbed
        <5>4. CASE d \notin deps[t] /\ d[1] # t
          <6>1. d \in deps[c]
            BY <2>4, <3>2, <5>1, <5>4
          <6>2. Absorbed(c, d)
            BY <4>1, <5>1, <5>4, <6>1
          <6>3. d[1] # c
            <7>1. d \in Dependencies /\ r[d[1]] < r[c]
              BY <1>3, <2>2, <6>1 DEF Inv, Ranked
            <7> QED BY <1>7, <1>8, <2>2, <7>1
          <6> QED BY <1>2, <1>4, <2>4, <5>1, <6>2, <6>3 DEF Absorbed
        <5> QED BY <5>2, <5>3, <5>4
      <4>3. CASE i # n-1
        <5>1. stack[i].svc # c /\ i < n-1
          BY <1>3, <1>7, <2>2, <2>3, <4>3
        <5>2. d \in deps[stack[i].svc] /\ deps'[stack[i].svc] = deps[stack[i].svc]
          BY <2>4, <3>2, <4>0, <5>1
        <5>3. CASE d[1] = stack[i+1].svc
          BY <5>1, <5>3
        <5>4. CASE Absorbed(stack[i].svc, d)
          BY <1>2, <1>4, <2>7, <5>2, <5>4 DEF Absorbed
        <5> QED BY <4>1, <5>2, <5>3, <5>4
      <4> QED BY <4>2, <4>3
    <3>3. \A i \in 1..n-1 : i < n-1 => i + 1 \in 1..n-1
      BY <1>3
    <3> QED BY <1>4, <3>1, <3>2, <3>3 DEF ClosureInv
  <2>12. PhaseInv'
    <3>1. ASSUME NEW s \in Services
          PROVE  \/ s \in unexpanded \cup expanded \cup {t}
                 \/ \E i \in 1..n-1 : stack'[i].svc = s
      <4>1. \/ s \in unexpanded \cup expanded
            \/ \E i \in 1..n : stack[i].svc = s
        BY <1>2 DEF Inv, PhaseInv, n
      <4>2. \A i \in 1..n : i = n \/ i \in 1..n-1
        BY <1>3
      <4> QED BY <1>4, <4>1, <4>2 DEF t
    <3> QED BY <1>2, <1>4, <3>1 DEF PhaseInv
  <2> QED BY <1>1, <2>7, <2>9, <2>10, <2>11, <2>12 DEF Inv
<1> QED BY <1>3, <1>10, <1>11

(* The sort comes when every service has been expanded. *)
LEMMA SortWhenExpanded ==
  ASSUME NEW r \in [Names -> Int], Inv(r), Sort
  PROVE  expanded = Services
<1>1. stack = <<>> /\ unexpanded = {} /\ pc = "expand"
  BY DEF Sort
<1>2. 1..Len(stack) = {}
  BY <1>1
<1>3. Services \subseteq unexpanded \cup expanded
  BY <1>1, <1>2 DEF Inv, PhaseInv
<1> QED BY <1>1, <1>3 DEF Inv, TypeOK

LEMMA InvSort ==
  ASSUME NEW r \in [Names -> Int], Inv(r), Sort
  PROVE  Inv(r)'
<1>1. TypeOK'
  BY TypeNext DEF Inv, Next
<1>2. /\ UNCHANGED <<depends_on, links, deps, expanded, unexpanded, stack>>
      /\ stack = <<>> /\ unexpanded = {} /\ pc = "expand"
      /\ order' \in LenSorted(Services, deps)
      /\ pc' \in {"resolve", "done"}
  BY DEF Sort
<1>3. expanded = Services
  BY SortWhenExpanded
<1>4. Ranked(r)' /\ StackInv(r)' /\ ClosureInv'
  BY <1>2 DEF Inv, Ranked, StackInv, ClosureInv, Absorbed
<1>5. PhaseInv'
  BY <1>2, <1>3 DEF PhaseInv
<1> QED BY <1>1, <1>4, <1>5 DEF Inv

LEMMA InvResolveNext ==
  ASSUME NEW r \in [Names -> Int], RankedBy(file, r), Inv(r), ResolveNext
  PROVE  Inv(r)'
<1>1. TypeOK'
  BY TypeNext DEF Inv, Next
<1>2. /\ UNCHANGED <<deps, expanded, unexpanded, stack>>
      /\ pc = "resolve" /\ pc' \in {"resolve", "KeyError"}
      /\ Head(order) \in Services
  BY DEF ResolveNext, Inv, TypeOK
<1>3. ASSUME NEW s \in Services, NEW b \in Services, b = file.extends[s],
             Inherit(s, b)
      PROVE  Ranked(r)'
  <2>1. b = s \/ r[b] < r[s]
    BY <1>3, ServiceDepsAssumption DEF RankedBy, Mentions
  <2>2. /\ \A n \in Names : r[n] \in Int
        /\ \A u \in Services : r[u] \in Int
    BY ServiceDepsAssumption
  <2>3. \A n \in Names : depends_on[b][n] # None => r[n] < r[s]
    BY <1>3, <2>1, <2>2 DEF Inv, Ranked
  <2>4. \A n \in links[b] : r[n] < r[s]
    BY <1>3, <2>1, <2>2 DEF Inv, Ranked, TypeOK
  <2>5. \A u \in Services, n \in Names : depends_on'[u][n] # None => r[n] < r[u]
    BY <1>3, <2>3 DEF Inherit, Inv, Ranked, TypeOK
  <2>6. \A u \in Services : \A n \in links'[u] : r[n] < r[u]
    BY <1>3, <2>4 DEF Inherit, Inv, Ranked, TypeOK
  <2> QED BY <1>2, <2>5, <2>6 DEF Inv, Ranked
<1>4. ASSUME UNCHANGED <<depends_on, links>> PROVE Ranked(r)'
  BY <1>2, <1>4 DEF Inv, Ranked
<1>5. Ranked(r)'
  BY <1>2, <1>3, <1>4 DEF ResolveNext
<1>6. StackInv(r)' /\ ClosureInv'
  BY <1>2 DEF Inv, StackInv, ClosureInv, Absorbed
<1>7. PhaseInv'
  BY <1>2 DEF Inv, PhaseInv
<1> QED BY <1>1, <1>5, <1>6, <1>7 DEF Inv

LEMMA InvOther ==
  ASSUME NEW r \in [Names -> Int], Inv(r),
         CollectFails \/ ResolveEnds \/ UNCHANGED vars
  PROVE  Inv(r)'
<1>1. TypeOK'
  BY TypeNext DEF Inv, Next
<1>2. /\ UNCHANGED <<depends_on, links, deps, expanded, unexpanded, stack>>
      /\ UNCHANGED <<pc, order>> \/ pc' = "KeyError" \/ (pc = "resolve" /\ pc' = "flat")
  BY DEF CollectFails, ResolveEnds, vars
<1>3. Ranked(r)' /\ StackInv(r)' /\ ClosureInv'
  BY <1>2 DEF Inv, Ranked, StackInv, ClosureInv, Absorbed
<1>4. PhaseInv'
  BY <1>2 DEF Inv, PhaseInv
<1> QED BY <1>1, <1>3, <1>4 DEF Inv

-----------------------------------------------------------------------------
(* The theorems.                                                           *)

LEMMA FileFixed == [Next]_vars => UNCHANGED file
BY DEF Next, vars, Collect, CollectFails, ExpandService, PassOver, Recurse,
       Return, Sort, ResolveNext, ResolveEnds

(* The invariant behind the others holds throughout. *)
THEOREM InvCorrect == Spec => []IInv
<1>1. Init => IInv
  BY InvInit DEF IInv
<1>2. IInv /\ [Next]_vars => IInv'
  <2> SUFFICES ASSUME IInv, [Next]_vars,
                      NEW r \in [Names -> Int], RankedBy(file, r)'
               PROVE  Inv(r)'
    BY DEF IInv
  <2>1. RankedBy(file, r) /\ Inv(r)
    BY FileFixed DEF IInv, RankedBy, Mentions
  <2>2. CASE Collect
    BY <2>1, <2>2, InvCollect
  <2>3. ASSUME NEW s \in Services, ExpandService(s) PROVE Inv(r)'
    BY <2>1, <2>3, InvExpandService
  <2>4. ASSUME NEW d \in Dependencies, PassOver(d) PROVE Inv(r)'
    BY <2>1, <2>4, InvPassOver
  <2>5. ASSUME NEW d \in Dependencies, Recurse(d) PROVE Inv(r)'
    BY <2>1, <2>5, InvRecurse
  <2>6. CASE Return
    BY <2>1, <2>6, InvReturn
  <2>7. CASE Sort
    BY <2>1, <2>7, InvSort
  <2>8. CASE ResolveNext
    BY <2>1, <2>8, InvResolveNext
  <2>9. CASE CollectFails \/ ResolveEnds \/ UNCHANGED vars
    BY <2>1, <2>9, InvOther
  <2> QED BY <2>2, <2>3, <2>4, <2>5, <2>6, <2>7, <2>8, <2>9 DEF Next
<1> QED BY <1>1, <1>2, PTL DEF Spec

LEMMA AcyclicInv ==
  ASSUME IInv, Acyclic(file)
  PROVE  \E r \in [Names -> Int] : RankedBy(file, r) /\ Inv(r)
<1>1. PICK r \in [Names -> 0..Cardinality(Names)] : RankedBy(file, r)
  BY DEF Acyclic
<1>2. Cardinality(Names) \in Nat
  BY ServiceDepsAssumption, FS_CardinalityType
<1>3. r \in [Names -> Int]
  BY <1>2
<1> QED BY <1>1, <1>3 DEF IInv

(* Parsing an acyclic file leaves every service with a transitively closed *)
(* set of dependencies, whatever order Python's sets are visited in and    *)
(* although rec_deps updates them while others are iterated over.          *)
THEOREM DepsClosedTheorem == Spec => []DepsClosed
<1>1. IInv => DepsClosed
  <2> SUFFICES ASSUME IInv, pc = "done", Acyclic(file), NEW s \in Services
               PROVE  ClosedAt(Services, deps, s)
    BY DEF DepsClosed
  <2> QED BY AcyclicInv DEF Inv, PhaseInv, ClosureInv, Absorbed, ClosedAt
<1> QED BY <1>1, InvCorrect, PTL

(* Among closed sets without self-dependency, fewer elements come first    *)
(* means dependencies come first.                                          *)
LEMMA LenSortIsTopological ==
  ASSUME NEW S, IsFiniteSet(S), NEW T, IsFiniteSet(T),
         NEW D \in [S -> SUBSET T],
         \A s \in S : ClosedAt(S, D, s), Irreflexive(S, D),
         NEW o \in LenSorted(S, D)
  PROVE  Topological(o, D)
<1>1. Cardinality(S) \in Nat /\ o \in [1..Cardinality(S) -> S]
  BY FS_CardinalityType DEF LenSorted
<1> SUFFICES ASSUME NEW i \in DOMAIN o, NEW j \in DOMAIN o,
                    o[j] \in NamesOf(D[o[i]])
             PROVE  j < i
  BY DEF Topological
<1>2. o[i] \in S /\ o[j] \in S /\ i \in Nat /\ j \in Nat
  BY <1>1
<1>3. PICK d \in D[o[i]] : d[1] = o[j]
  BY DEF NamesOf
<1>4. D[o[j]] \subseteq D[o[i]] /\ d \notin D[o[j]]
  BY <1>2, <1>3 DEF ClosedAt, Irreflexive, NamesOf
<1>5. IsFiniteSet(D[o[i]])
  BY <1>2, FS_Subset
<1>6. /\ Cardinality(D[o[j]]) <= Cardinality(D[o[i]])
      /\ Cardinality(D[o[j]]) # Cardinality(D[o[i]])
      /\ IsFiniteSet(D[o[j]])
  BY <1>3, <1>4, <1>5, FS_Subset
<1>7. Cardinality(D[o[i]]) \in Nat /\ Cardinality(D[o[j]]) \in Nat
  BY <1>5, <1>6, FS_CardinalityType
<1>8. i # j
  BY <1>6
<1>9. ~ (i < j)
  BY <1>6, <1>7 DEF LenSorted
<1> QED BY <1>2, <1>8, <1>9

(* Once all services are expanded, their sets are such sets. *)
LEMMA ExpandedSetsSort ==
  ASSUME NEW r \in [Names -> Int], Inv(r), expanded = Services,
         NEW o \in LenSorted(Services, deps)
  PROVE  Topological(o, deps)
<1>1. \A s \in Services : ClosedAt(Services, deps, s)
  BY DEF Inv, ClosureInv, Absorbed, ClosedAt
<1>2. Irreflexive(Services, deps)
  <2> SUFFICES ASSUME NEW s \in Services, NEW d \in deps[s], d[1] = s
               PROVE  FALSE
    BY DEF Irreflexive, NamesOf
  <2>1. r[d[1]] < r[s] /\ r[s] \in Int
    BY ServiceDepsAssumption DEF Inv, Ranked
  <2> QED BY <2>1
<1>3. deps \in [Services -> SUBSET Dependencies]
  BY DEF Inv, TypeOK
<1>4. IsFiniteSet(Dependencies)
  BY ServiceDepsAssumption, FS_Product
<1> QED BY <1>1, <1>2, <1>3, <1>4, ServicesFinite, LenSortIsTopological

(* In an acyclic file nobody is created before a service it depends on.    *)
THEOREM OrderTopologicalTheorem == Spec => []OrderTopological
<1>1. IInv => OrderTopological
  <2> SUFFICES ASSUME IInv, pc = "done", Acyclic(file)
               PROVE  Topological(order, deps)
    BY DEF OrderTopological
  <2>1. PICK r \in [Names -> Int] : Inv(r)
    BY AcyclicInv
  <2>2. expanded = Services /\ order \in LenSorted(Services, deps)
    BY <2>1 DEF Inv, PhaseInv
  <2> QED BY <2>1, <2>2, ExpandedSetsSort
<1> QED BY <1>1, InvCorrect, PTL

(* A set that a caller may already hold is never changed behind its back.  *)
THEOREM ExpandedIsFinalTheorem == Spec => ExpandedIsFinal
<1>1. IInv /\ [Next]_vars =>
        [pc = "expand" /\ (\E s \in expanded : deps'[s] # deps[s])
           => ~ Acyclic(file)]_vars
  <2> SUFFICES ASSUME IInv, [Next]_vars, pc = "expand", Acyclic(file),
                      NEW s \in expanded
               PROVE  deps'[s] = deps[s]
    OBVIOUS
  <2>1. CASE Return
    BY <2>1, AcyclicInv, InvReturn
  <2>2. CASE ~ Return
    BY <2>2 DEF Next, vars, Collect, CollectFails, ExpandService, PassOver,
                Recurse, Sort, ResolveNext, ResolveEnds
  <2> QED BY <2>1, <2>2
<1> QED BY <1>1, InvCorrect, PTL DEF Spec, ExpandedIsFinal

(* With a frame for each service, rec_deps never runs out of frames on an  *)
(* acyclic file: the services on its stack are distinct.                   *)
THEOREM NoRecursionErrorTheorem == Spec => []NoRecursionError
<1>1. Init => NoRecursionError
  BY DEF Init, NoRecursionError
<1>2. IInv /\ NoRecursionError /\ [Next]_vars => NoRecursionError'
  <2> SUFFICES ASSUME IInv, NoRecursionError, [Next]_vars,
                      pc' = "RecursionError", Acyclic(file),
                      Cardinality(Services) <= RecursionLimit
               PROVE  FALSE
    BY FileFixed DEF NoRecursionError, Acyclic, RankedBy, Mentions
  <2>1. pc # "RecursionError"
    BY DEF NoRecursionError
  <2>2. PICK d \in Dependencies : Recurse(d)
    BY <2>1 DEF Next, vars, Collect, CollectFails, ExpandService, PassOver,
                Return, Sort, ResolveNext, ResolveEnds
  <2>3. PICK r \in [Names -> Int] : Inv(r)
    BY AcyclicInv
  <2> DEFINE n == Len(stack)
             f == [i \in 1..n+1 |-> IF i = n+1 THEN d[1] ELSE stack[i].svc]
  <2>4. /\ stack # <<>> /\ d \in stack[n].todo /\ d[1] \in Services
        /\ ~ (n < RecursionLimit)
    BY <2>1, <2>2 DEF Recurse, Passed, Top
  <2>5. /\ n \in Nat \ {0}
        /\ \A i \in 1..n : stack[i].svc \in Services
    BY <2>3, <2>4, StackFacts
  <2>6. ASSUME NEW i \in 1..n PROVE stack[i].svc # d[1]
    <3>1. /\ r[stack[n].svc] <= r[stack[i].svc]
          /\ r[stack[n].svc] \in Int /\ r[stack[i].svc] \in Int /\ r[d[1]] \in Int
          /\ d \in deps[stack[n].svc] /\ stack[n].svc \in Services
      BY <2>3, <2>4, <2>5, StackFacts
    <3>2. r[d[1]] < r[stack[n].svc]
      BY <2>3, <3>1 DEF Inv, Ranked
    <3> QED BY <3>1, <3>2
  <2>7. ASSUME NEW i \in 1..n, NEW j \in 1..n, stack[i].svc = stack[j].svc
        PROVE  i = j
    <3>1. /\ i < j => r[stack[j].svc] < r[stack[i].svc]
          /\ j < i => r[stack[i].svc] < r[stack[j].svc]
          /\ r[stack[i].svc] \in Int
      BY <2>3, <2>4, <2>5, StackFacts
    <3> QED BY <2>7, <3>1
  <2> HIDE DEF n
  <2>8. \A i \in 1..n+1 : i = n+1 \/ i \in 1..n
    BY <2>5
  <2>9. f \in Injection(1..n+1, Services)
    <3>1. f \in [1..n+1 -> Services]
      BY <2>4, <2>5, <2>8
    <3>2. \A i, j \in 1..n+1 : f[i] = f[j] => i = j
      BY <2>6, <2>7, <2>8
    <3> QED BY <3>1, <3>2 DEF Injection, IsInjective
  <2> HIDE DEF f
  <2>10. Cardinality(1..n+1) <= Cardinality(Services)
    BY <2>9, ServicesFinite, FS_Injection
  <2>11. Cardinality(1..n+1) = n + 1
    BY <2>5, FS_Interval
  <2> QED BY <2>4, <2>5, <2>10, <2>11, ServicesFinite, ServiceDepsAssumption
<1> QED BY <1>1, <1>2, InvCorrect, PTL DEF Spec
-----------------------------------------------------------------------------
(* What is in a set, and what a service inherits.                          *)

(* The rounds of flat_deps: a set holds its direct dependencies, and every *)
(* other element came out of the set of an expanded direct dependency.     *)
ExactInv ==
  pc \in {"expand", "done"} =>
    \A s \in Services :
      /\ DirectDeps(s) \subseteq deps[s]
      /\ \A e \in deps[s] : \/ e \in DirectDeps(s)
                            \/ \E f \in DirectDeps(s) :
                                 f[1] \in expanded /\ e \in deps[f[1]]

(* The names service s lists, and that all its base lists is among them.   *)
Listed(s) == {n \in Names : depends_on[s][n] # None}

Inherited(s) ==
  file.extends[s] \in Services => Listed(file.extends[s]) \subseteq Listed(s)

(* resolve_extends: a service that is still to come is no base of one that *)
(* comes before it or that is done with.                                   *)
ResolveInv ==
  /\ pc = "resolve" =>
       /\ pass = 1
       /\ \A i, j \in 1..Len(order) : order[i] = order[j] => i = j
       /\ \A i, j \in 1..Len(order) : file.extends[order[i]] = order[j] => j <= i
       /\ \A s \in Services : (\A i \in 1..Len(order) : order[i] # s) =>
            /\ Inherited(s)
            /\ \A i \in 1..Len(order) : order[i] # file.extends[s]
  /\ pc = "done" => pass = 2
  /\ pass = 2 => \A s \in Services : Inherited(s)

(* An entry a service uses has a condition. *)
EntriesInv ==
  \A s \in Services, n \in Names :
    depends_on[s][n] # None => condition[depends_on[s][n]][n] # None

FilesInv == Acyclic(file) => ExactInv /\ ResolveInv

(* The direct dependencies stay what they are outside of resolve_extends.  *)
LEMMA DirectDepsFixed ==
  ASSUME UNCHANGED <<file, condition, depends_on, links, pass>>, NEW s \in Services
  PROVE  DirectDeps(s)' = DirectDeps(s)
BY DEF DirectDeps, DependsOn

LEMMA ExactReturn ==
  ASSUME IInv, Acyclic(file), ExactInv, Return
  PROVE  ExactInv'
<1> DEFINE n == Len(stack)
           t == stack[n].svc
           c == stack[n-1].svc
<1>1. PICK r \in [Names -> Int] : RankedBy(file, r) /\ Inv(r)
  BY AcyclicInv
<1>2. /\ pc = "expand" /\ stack # <<>> /\ Top.svc = t
      /\ expanded' = expanded \cup {t}
      /\ deps' = IF n = 1 THEN deps ELSE [deps EXCEPT ![c] = @ \cup deps[t]]
      /\ UNCHANGED <<file, condition, depends_on, links, pass, pc>>
  BY DEF Return, Top
<1>3. /\ n \in Nat \ {0} /\ n \in 1..n
      /\ t \in Services
      /\ deps \in [Services -> SUBSET Dependencies]
      /\ expanded \subseteq Services
  <2>1. n \in Nat \ {0} /\ \A i \in 1..n : stack[i].svc \in Services
    BY <1>1, <1>2, StackFacts
  <2>2. /\ deps \in [Services -> SUBSET Dependencies]
        /\ expanded \subseteq Services
    BY <1>1 DEF Inv, TypeOK
  <2> QED BY <2>1, <2>2
<1>4. \A s \in expanded : \A d \in deps[s] : Absorbed(s, d)
  BY <1>1 DEF Inv, ClosureInv
<1>5. \A s \in Services : DirectDeps(s)' = DirectDeps(s)
  BY <1>2, DirectDepsFixed
<1>6. n > 1 => c \in Services /\ t \in NamesOf(deps[c])
  <2> HAVE n > 1
  <2>1. n - 1 \in 1..n /\ (n - 1) + 1 = n /\ n - 1 < n
    BY <1>3
  <2> QED BY <1>1, <1>2, <2>1, StackFacts
<1> HIDE DEF n, t, c
<1>7. \A s \in Services : deps[s] \subseteq deps'[s]
  BY <1>2, <1>3
<1>8. ASSUME NEW s \in Services PROVE DirectDeps(s) \subseteq deps'[s]
  BY <1>2, <1>7 DEF ExactInv
<1>9. ASSUME NEW s \in Services, NEW e \in deps'[s], e \notin DirectDeps(s)
      PROVE  \E d \in DirectDeps(s) : d[1] \in expanded' /\ e \in deps'[d[1]]
  <2>1. CASE e \in deps[s]
    <3>1. PICK d \in DirectDeps(s) : d[1] \in expanded /\ e \in deps[d[1]]
      BY <1>2, <1>9, <2>1 DEF ExactInv
    <3> QED BY <1>2, <1>3, <1>7, <3>1
  <2>2. CASE e \notin deps[s]
    <3>1. n > 1 /\ s = c /\ e \in deps[t]
      BY <1>2, <1>3, <1>9, <2>2
    <3>2. PICK d0 \in deps[s] : d0[1] = t
      BY <1>6, <3>1 DEF NamesOf
    <3>3. CASE d0 \in DirectDeps(s)
      BY <1>2, <1>3, <1>7, <3>1, <3>2, <3>3
    <3>4. CASE d0 \notin DirectDeps(s)
      <4>1. PICK d \in DirectDeps(s) : d[1] \in expanded /\ d0 \in deps[d[1]]
        BY <1>2, <3>4 DEF ExactInv
      <4>2. deps[t] \subseteq deps[d[1]]
        BY <1>3, <1>4, <3>2, <4>1 DEF Absorbed
      <4> QED BY <1>2, <1>3, <1>7, <3>1, <4>1, <4>2
    <3> QED BY <3>3, <3>4
  <2> QED BY <2>1, <2>2
<1> QED BY <1>2, <1>5, <1>8, <1>9 DEF ExactInv

LEMMA ExactNext ==
  ASSUME IInv, Acyclic(file), ExactInv, [Next]_vars
  PROVE  ExactInv'
<1>1. CASE Collect
  <2>1. /\ \A s \in Services : deps'[s] = DirectDeps(s)
        /\ UNCHANGED <<file, condition, depends_on, links, pass>>
    BY <1>1 DEF Collect
  <2>2. \A s \in Services : DirectDeps(s)' = DirectDeps(s)
    BY <2>1, DirectDepsFixed
  <2> QED BY <2>1, <2>2 DEF ExactInv
<1>2. CASE Return
  BY <1>2, ExactReturn
<1>3. CASE \/ \E s \in Services : ExpandService(s)
           \/ \E d \in Dependencies : PassOver(d) \/ Recurse(d)
           \/ Sort \/ UNCHANGED vars
  <2>1. /\ UNCHANGED <<file, condition, depends_on, links, pass, deps, expanded>>
        /\ pc' \in {"expand", "done"} => pc \in {"expand", "done"}
    BY <1>3 DEF ExpandService, PassOver, Recurse, Sort, vars
  <2>2. \A s \in Services : DirectDeps(s)' = DirectDeps(s)
    BY <2>1, DirectDepsFixed
  <2> QED BY <2>1, <2>2 DEF ExactInv
<1>4. CASE CollectFails \/ ResolveNext \/ ResolveEnds
  <2>1. pc' \notin {"expand", "done"}
    BY <1>4 DEF CollectFails, ResolveNext, ResolveEnds
  <2> QED BY <2>1 DEF ExactInv
<1> QED BY <1>1, <1>2, <1>3, <1>4 DEF Next

(* An entry in use is one that some file spelled out. *)
LEMMA EntriesInit == Init => EntriesInv
BY ServiceDepsAssumption DEF Init, EntriesInv

LEMMA EntriesInherit ==
  ASSUME TypeOK, EntriesInv, NEW s \in Services, NEW b \in Services, Inherit(s, b)
  PROVE  EntriesInv'
<1> SUFFICES ASSUME NEW u \in Services, NEW n \in Names, depends_on'[u][n] # None
             PROVE  condition'[depends_on'[u][n]][n] # None
  BY DEF EntriesInv
<1>1. \A v \in Services : condition[v][n] # None => condition'[v][n] # None
  BY DEF Inherit, EntriesInv, TypeOK
<1>2. \E v \in Services : depends_on'[u][n] = depends_on[v][n]
  BY DEF Inherit, TypeOK
<1>3. PICK v \in Services : depends_on'[u][n] = depends_on[v][n]
  BY <1>2
<1>4. depends_on[v][n] \in Services /\ condition[depends_on[v][n]][n] # None
  BY <1>3 DEF EntriesInv, TypeOK
<1> QED BY <1>1, <1>3, <1>4

LEMMA EntriesNext ==
  ASSUME TypeOK, EntriesInv, [Next]_vars
  PROVE  EntriesInv'
<1>1. CASE ResolveNext
  <2>1. Head(order) \in Services
    BY <1>1 DEF ResolveNext, TypeOK
  <2>2. CASE UNCHANGED <<depends_on, condition>>
    BY <2>2 DEF EntriesInv
  <2>3. CASE \E b \in Services : Inherit(Head(order), b)
    BY <2>1, <2>3, EntriesInherit
  <2> QED BY <1>1, <2>2, <2>3 DEF ResolveNext
<1>2. CASE ~ ResolveNext
  <2>1. UNCHANGED <<depends_on, condition>>
    BY <1>2 DEF Next, vars, Collect, CollectFails, ExpandService, PassOver,
                Recurse, Return, Sort, ResolveEnds
  <2> QED BY <2>1 DEF EntriesInv
<1> QED BY <1>1, <1>2

(* The sort behind a pass over an acyclic file: a list of all services,    *)
(* nobody ahead of a dependency.                                           *)
LEMMA SortOrders ==
  ASSUME IInv, Acyclic(file), Sort
  PROVE  /\ order' \in [1..Len(order') -> Services]
         /\ \A i, j \in 1..Len(order') : order'[i] = order'[j] => i = j
         /\ \A s \in Services : \E i \in 1..Len(order') : order'[i] = s
         /\ Topological(order', deps)
<1> DEFINE n == Cardinality(Services)
<1>1. order' \in LenSorted(Services, deps)
  BY DEF Sort
<1>2. /\ order' \in [1..n -> Services]
      /\ \A i, j \in 1..n : order'[i] = order'[j] => i = j
  BY <1>1 DEF LenSorted
<1>3. n \in Nat /\ Cardinality(1..n) = n
  BY ServicesFinite, FS_Interval
<1>4. order' \in Injection(1..n, Services)
  BY <1>2 DEF Injection, IsInjective
<1>5. order' \in Surjection(1..n, Services)
  BY <1>3, <1>4, ServicesFinite, FS_Injection
<1>6. \A s \in Services : \E i \in 1..n : order'[i] = s
  BY <1>5 DEF Surjection
<1>7. Len(order') = n
  BY <1>2, <1>3
<1>8. Topological(order', deps)
  BY <1>1, AcyclicInv, SortWhenExpanded, ExpandedSetsSort
<1> QED BY <1>2, <1>6, <1>7, <1>8

LEMMA ResolveSort ==
  ASSUME IInv, Acyclic(file), ExactInv, ResolveInv, Sort
  PROVE  ResolveInv'
<1>1. UNCHANGED <<file, depends_on, pass>>
      /\ pc = "expand" /\ pc' = IF pass = 1 THEN "resolve" ELSE "done"
  BY DEF Sort
<1>2. pass \in {1, 2}
  BY AcyclicInv DEF Inv, TypeOK
<1>3. \A s \in Services : Inherited(s)' = Inherited(s)
  BY <1>1 DEF Inherited, Listed
<1>4. ASSUME pass = 1, NEW i \in 1..Len(order'), NEW j \in 1..Len(order'),
             file.extends[order'[i]] = order'[j]
      PROVE  j <= i
  <2>1. order'[i] \in Services /\ order'[j] \in Services /\ i \in DOMAIN order'
        /\ j \in DOMAIN order'
    BY SortOrders
  <2>2. order'[j] # None
    BY <2>1, ServiceDepsAssumption
  <2>3. CASE order'[i] = order'[j]
    BY <2>3, SortOrders
  <2>4. CASE order'[i] # order'[j]
    <3>1. <<order'[j], Running>> \in DirectDeps(order'[i])
      BY <1>4, <2>1, <2>2, <2>4 DEF DirectDeps
    <3>2. order'[j] \in NamesOf(deps[order'[i]])
      BY <1>1, <2>1, <3>1 DEF ExactInv, NamesOf
    <3> QED BY <2>1, <3>2, SortOrders DEF Topological
  <2> QED BY <2>3, <2>4
<1>5. pass = 2 => \A s \in Services : Inherited(s)
  BY DEF ResolveInv
<1> QED BY <1>1, <1>2, <1>3, <1>4, <1>5, SortOrders DEF ResolveInv

(* Resolving the service at the head of the list. *)
LEMMA ResolveHead ==
  ASSUME TypeOK, EntriesInv, ResolveInv, ResolveNext
  PROVE  ResolveInv'
<1> DEFINE n == Len(order)
<1>0. PICK h, b : h = Head(order) /\ b = file.extends[h]
  OBVIOUS
<1>1. /\ pc = "resolve" /\ order # <<>>
      /\ UNCHANGED <<file, pass>> /\ pass = 1
  BY DEF ResolveNext, ResolveInv
<1>2. /\ n \in Nat \ {0} /\ h = order[1] /\ h \in Services
      /\ \A i \in 1..n : order[i] \in Services
  BY <1>0, <1>1 DEF TypeOK
<1>3. CASE pc' # "resolve"
  BY <1>1, <1>3 DEF ResolveNext, ResolveInv
<1>4. CASE pc' = "resolve"
  <2>1. /\ order' = Tail(order)
        /\ b = None \/ b \in Services
        /\ \A s \in Services \ {h} : Listed(s)' = Listed(s)
        /\ Listed(h)' = IF b = None THEN Listed(h) ELSE Listed(h) \cup Listed(b)
    <3>1. CASE b = None
      BY <1>0, <1>1, <1>4, <3>1, ServiceDepsAssumption DEF ResolveNext, Listed
    <3>2. CASE b \in Services
      <4>1. Inherit(h, b) /\ order' = Tail(order)
        BY <1>0, <3>2, ServiceDepsAssumption DEF ResolveNext
      <4>2. \A s \in Services \ {h} : depends_on'[s] = depends_on[s]
        BY <4>1 DEF Inherit, TypeOK
      <4>3. depends_on'[h] = [d \in Names |->
                                IF depends_on[b][d] # None THEN depends_on[b][d]
                                                           ELSE depends_on[h][d]]
        BY <1>2, <4>1 DEF Inherit, TypeOK
      <4> QED BY <3>2, <4>1, <4>2, <4>3, ServiceDepsAssumption DEF Listed
    <3>3. CASE b # None /\ b \notin Services
      BY <1>0, <1>1, <1>4, <3>3 DEF ResolveNext
    <3> QED BY <3>1, <3>2, <3>3
  <2>2. /\ Len(order') = n - 1
        /\ \A i \in 1..n-1 : order'[i] = order[i+1] /\ i + 1 \in 1..n
    BY <1>1, <1>2, <2>1 DEF TypeOK
  <2> HIDE DEF n
  <2>3. /\ \A i, j \in 1..n : order[i] = order[j] => i = j
        /\ \A i, j \in 1..n : file.extends[order[i]] = order[j] => j <= i
        /\ \A s \in Services : (\A i \in 1..n : order[i] # s) =>
             /\ Inherited(s)
             /\ \A i \in 1..n : order[i] # file.extends[s]
    BY <1>1 DEF ResolveInv, n
  <2>4. \A i \in 1..n-1 : order'[i] # h /\ order'[i] # b
    <3> SUFFICES ASSUME NEW i \in 1..n-1 PROVE order[i+1] # h /\ order[i+1] # b
      BY <2>2
    <3>1. 1 \in 1..n /\ i + 1 \in 1..n /\ ~ (i + 1 <= 1)
      BY <1>2
    <3> QED BY <1>0, <1>2, <2>3, <3>1
  <2>5. ASSUME NEW s \in Services, \A i \in 1..n-1 : order'[i] # s
        PROVE  /\ Inherited(s)'
               /\ \A i \in 1..n-1 : order'[i] # file.extends[s]
    <3>1. CASE s = h
      <4>1. b \in Services => Listed(b)' \subseteq Listed(h)'
        BY <1>2, <2>1, ServiceDepsAssumption
      <4>2. Inherited(h)'
        BY <1>0, <1>1, <4>1 DEF Inherited
      <4> QED BY <1>0, <2>4, <3>1, <4>2
    <3>2. CASE s # h
      <4>1. \A i \in 1..n : order[i] # s
        <5> SUFFICES ASSUME NEW i \in 1..n, i # 1 PROVE order[i] # s
          BY <1>2, <3>2
        <5>1. i - 1 \in 1..n-1 /\ (i - 1) + 1 = i
          BY <1>2
        <5> QED BY <2>2, <2>5, <5>1
      <4>2. /\ Inherited(s)
            /\ \A i \in 1..n : order[i] # file.extends[s]
        BY <2>3, <4>1
      <4>3. file.extends[s] # h
        <5>1. 1 \in 1..n
          BY <1>2
        <5> QED BY <1>2, <4>2, <5>1
      <4>4. Inherited(s)'
        BY <1>1, <2>1, <3>2, <4>2, <4>3 DEF Inherited
      <4> QED BY <2>2, <4>2, <4>4
    <3> QED BY <3>1, <3>2
  <2>6. \A i, j \in 1..n-1 : order'[i] = order'[j] => i = j
    <3> SUFFICES ASSUME NEW i \in 1..n-1, NEW j \in 1..n-1, order'[i] = order'[j]
                 PROVE  i = j
      OBVIOUS
    <3>1. i + 1 = j + 1
      BY <2>2, <2>3
    <3> QED BY <1>2, <3>1
  <2>7. \A i, j \in 1..n-1 : file.extends[order'[i]] = order'[j] => j <= i
    <3> SUFFICES ASSUME NEW i \in 1..n-1, NEW j \in 1..n-1,
                        file.extends[order'[i]] = order'[j]
                 PROVE  j <= i
      OBVIOUS
    <3>1. j + 1 <= i + 1
      BY <2>2, <2>3
    <3> QED BY <1>2, <3>1
  <2> QED BY <1>1, <1>4, <2>2, <2>5, <2>6, <2>7 DEF ResolveInv
<1> QED BY <1>3, <1>4

LEMMA ResolveStep ==
  ASSUME IInv, TypeOK, EntriesInv, Acyclic(file), ExactInv, ResolveInv, [Next]_vars
  PROVE  ResolveInv'
<1>1. CASE Sort
  BY <1>1, ResolveSort
<1>2. CASE ResolveNext
  BY <1>2, ResolveHead
<1>3. CASE ResolveEnds
  <2>1. /\ pc' = "flat" /\ pass' = 2
        /\ UNCHANGED <<file, depends_on>>
        /\ pc = "resolve" /\ order = <<>>
    BY <1>3 DEF ResolveEnds
  <2>2. \A s \in Services : Inherited(s)
    BY <2>1 DEF ResolveInv
  <2> QED BY <2>1, <2>2 DEF ResolveInv, Inherited, Listed
<1>4. CASE UNCHANGED vars
  BY <1>4 DEF ResolveInv, Inherited, Listed, vars
<1>5. CASE \/ Collect \/ CollectFails
           \/ \E s \in Services : ExpandService(s)
           \/ \E d \in Dependencies : PassOver(d) \/ Recurse(d)
           \/ Return
  <2>1. /\ pc' \notin {"resolve", "done"}
        /\ UNCHANGED <<file, depends_on, pass>>
    BY <1>5 DEF Collect, CollectFails, ExpandService, PassOver, Recurse, Return
  <2> QED BY <2>1 DEF ResolveInv, Inherited, Listed
<1> QED BY <1>1, <1>2, <1>3, <1>4, <1>5 DEF Next

(* Both hold throughout for an acyclic file. *)
THEOREM FilesCorrect == Spec => [](TypeOK /\ EntriesInv /\ FilesInv)
<1>1. Init => TypeOK /\ EntriesInv /\ FilesInv
  BY TypeInit, EntriesInit DEF Init, FilesInv, ExactInv, ResolveInv
<1>2. IInv /\ (TypeOK /\ EntriesInv /\ FilesInv) /\ [Next]_vars
        => (TypeOK /\ EntriesInv /\ FilesInv)'
  <2> SUFFICES ASSUME IInv, TypeOK, EntriesInv, FilesInv, [Next]_vars,
                      Acyclic(file)'
               PROVE  (ExactInv /\ ResolveInv)'
    BY TypeNext, EntriesNext DEF FilesInv
  <2>1. Acyclic(file)
    BY FileFixed
  <2> QED BY <2>1, ExactNext, ResolveStep DEF FilesInv
<1> QED BY <1>1, <1>2, InvCorrect, PTL DEF Spec

(* In an acyclic file every service ends up with its direct dependencies,  *)
(* with what those depend on, and with nothing else, whatever order        *)
(* Python's sets are visited in.                                           *)
THEOREM DepsExactTheorem == Spec => []DepsExact
<1>1. IInv /\ FilesInv => DepsExact
  <2> SUFFICES ASSUME IInv, FilesInv, pc = "done", Acyclic(file), NEW s \in Services
               PROVE  deps[s] = DirectDeps(s) \cup
                        UNION {deps[d[1]] :
                                 d \in {e \in DirectDeps(s) : e[1] \in Services}}
    BY DEF DepsExact
  <2>1. PICK r \in [Names -> Int] : Inv(r)
    BY AcyclicInv
  <2>2. /\ DirectDeps(s) \subseteq deps[s]
        /\ \A e \in deps[s] : \/ e \in DirectDeps(s)
                              \/ \E d \in DirectDeps(s) :
                                   d[1] \in expanded /\ e \in deps[d[1]]
    BY DEF FilesInv, ExactInv
  <2>3. /\ expanded = Services
        /\ \A d \in deps[s] : d[1] \in Services => deps[d[1]] \subseteq deps[s]
    BY <2>1 DEF Inv, PhaseInv, ClosureInv, Absorbed
  <2> QED BY <2>2, <2>3
<1> QED BY <1>1, InvCorrect, FilesCorrect, PTL

(* A service lists whatever its base lists, along chains of bases of any   *)
(* length: resolve_extends meets a base before the services extending it.  *)
THEOREM BaseDependenciesInheritedTheorem == Spec => []BaseDependenciesInherited
<1>1. TypeOK /\ EntriesInv /\ FilesInv => BaseDependenciesInherited
  <2> SUFFICES ASSUME TypeOK, EntriesInv, FilesInv, pc = "done", Acyclic(file),
                      NEW s \in Services, file.extends[s] \in Services
               PROVE  NamesOf(DependsOn(file.extends[s])) \subseteq NamesOf(DependsOn(s))
    BY DEF BaseDependenciesInherited
  <2>1. ASSUME NEW u \in Services PROVE NamesOf(DependsOn(u)) = Listed(u)
    <3>1. ASSUME NEW e \in DependsOn(u) PROVE e[1] \in Listed(u)
      BY DEF DependsOn, Listed
    <3>2. ASSUME NEW n \in Listed(u) PROVE n \in NamesOf(DependsOn(u))
      <4> DEFINE e == <<n, condition[depends_on[u][n]][n]>>
      <4>1. condition[depends_on[u][n]][n] \in Conditions
        BY <3>2 DEF Listed, EntriesInv, TypeOK
      <4>2. /\ e \in Names \X Conditions /\ e[1] = n
            /\ e[2] = condition[depends_on[u][n]][n]
        BY <3>2, <4>1 DEF Listed
      <4>3. depends_on[u][n] # None
        BY <3>2 DEF Listed
      <4> HIDE DEF e
      <4>4. e \in DependsOn(u)
        BY <4>2, <4>3 DEF DependsOn
      <4> QED BY <4>2, <4>4 DEF NamesOf
    <3> QED BY <3>1, <3>2 DEF NamesOf
  <2>2. Listed(file.extends[s]) \subseteq Listed(s)
    BY DEF FilesInv, ResolveInv, Inherited
  <2> QED BY <2>1, <2>2
<1> QED BY <1>1, FilesCorrect, PTL
=============================================================================
