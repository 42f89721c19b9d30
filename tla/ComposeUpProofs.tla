-------------------------- MODULE ComposeUpProofs --------------------------
(***************************************************************************)
(* Proofs about ComposeUp, for every set of containers and of commands.    *)
(*                                                                         *)
(* The argument for the order of launches: the loop of compose_up has      *)
(* launched every selected container before its position, a dependency of  *)
(* the current container precedes it (the stack is sorted) and is selected *)
(* too (the stack's dependencies are closed), so what podman wait reports  *)
(* about it is about a container this command has launched.                *)
(*                                                                         *)
(* The argument for down: nothing selected is up once the stops have been  *)
(* gathered; the loop goes through the sorted list backwards, so what      *)
(* requires the current container has been removed already.                *)
(*                                                                         *)
(* The argument for up: when it recreates, everything selected is down as  *)
(* it comes to the pod, so either the pod goes with all containers or an   *)
(* orphan is up and stays; from then on only up adds containers, and it    *)
(* finds what each of them requires (CurrentInv).                          *)
(***************************************************************************)
EXTENDS ComposeUp, TLAPS

-----------------------------------------------------------------------------
(* What the podman commands do to the types of the container store.        *)

LEMMA CreateType ==
  ASSUME StoreTypeOK, NEW c \in Containers, NEW req \in SUBSET Containers,
         NEW cfg \in Configs, PodmanCreate(c, req, cfg)
  PROVE  StoreTypeOK'
BY DEF StoreTypeOK, States, PodmanCreate, store

LEMMA StoreSteps ==
  ASSUME StoreTypeOK, NEW c \in Containers
  PROVE  /\ PodmanStart(c) => StoreTypeOK'
         /\ PodmanStop(c) => StoreTypeOK'
         /\ PodmanRm(c) => StoreTypeOK'
<1> USE DEF StoreTypeOK, States, UpStates
<1>1. PodmanStart(c) => StoreTypeOK'
  BY DEF PodmanStart
<1>2. PodmanStop(c) => StoreTypeOK'
  BY DEF PodmanStop
<1>3. PodmanRm(c) => StoreTypeOK'
  BY DEF PodmanRm, store
<1> QED BY <1>1, <1>2, <1>3

LEMMA PodRmType == StoreTypeOK /\ PodmanPodRm => StoreTypeOK'
BY DEF StoreTypeOK, PodmanPodRm, store, States

-----------------------------------------------------------------------------
(* The invariants.                                                         *)

LoopPCs == {"create", "wait"}

(* Where the loop of compose_up stands. *)
LoopInv ==
  /\ pc \notin Finished => cmd \in Invocations
  /\ pc \in LoopPCs =>
       /\ cmd.op = "up"
       /\ idx \in Nat \ {0}
       /\ ~ cmd.no_start =>
            \A j \in DOMAIN Order :
              j < idx /\ Order[j] \in Included(cmd) => Order[j] \in launched
  /\ pc = "wait" =>
       /\ idx \in DOMAIN Order
       /\ ~ cmd.no_start
       /\ Current \in Included(cmd)
       /\ waiting \subseteq Honoured(cmd, Current)
       /\ Honoured(cmd, Current) \subseteq waiting \cup observed

(* Where the loops of compose_down stand. *)
DownInv ==
  /\ pc = "stop" =>
       /\ idx = Len(Order)
       /\ \A c \in Included(cmd) : Up(c) => c \in pending
       /\ consistent => Consistent(cmd)
  /\ pc = "rm" =>
       /\ idx \in 0..Len(Order)
       /\ \A c \in Included(cmd) : ~ Up(c)
       /\ consistent =>
            /\ Consistent(cmd)
            /\ \A j \in DOMAIN Order :
                 j > idx /\ Order[j] \in Included(cmd) => ~ Exists(Order[j])
  /\ pc \in {"stop_orphans", "rm_orphans", "rm_pod"} =>
       (consistent => Included(cmd) \cap Existing = {})

-----------------------------------------------------------------------------
LEMMA StackType ==
  ASSUME NEW i \in Invocations
  PROVE  /\ i \in Invocation
         /\ i.stack.order \in Seq(Containers)
         /\ DOMAIN i.stack.order = 1..Len(i.stack.order)
         /\ Len(i.stack.order) \in Nat
         /\ \A j \in DOMAIN i.stack.order : i.stack.order[j] \in Containers
         /\ i.stack.deps \in [Containers -> SUBSET Dependencies]
         /\ i.stack.config \in Configs
         /\ ParsedStack(i.stack)
         /\ i.services \subseteq Members(i.stack)
         /\ Members(i.stack) \subseteq Containers
         /\ Included(i) \subseteq Members(i.stack)
<1>1. i \in Invocation /\ ParsedStack(i.stack) /\ i.services \subseteq Members(i.stack)
  BY ComposeUpAssumption
<1>2. i.stack \in Stack
  BY <1>1 DEF Invocation
<1>3. /\ i.stack.order \in Seq(Containers) /\ i.stack.config \in Configs
      /\ i.stack.deps \in [Containers -> SUBSET Dependencies]
  BY <1>2 DEF Stack
<1>4. /\ DOMAIN i.stack.order = 1..Len(i.stack.order) /\ Len(i.stack.order) \in Nat
      /\ \A j \in DOMAIN i.stack.order : i.stack.order[j] \in Containers
  BY <1>3
<1>5. Members(i.stack) \subseteq Containers
  BY <1>4 DEF Members
<1>6. Included(i) \subseteq Members(i.stack)
  BY <1>1 DEF Included
<1> QED BY <1>1, <1>3, <1>4, <1>5, <1>6

(* A selected container's dependencies in the stack precede it, and are     *)
(* selected.                                                               *)
LEMMA DependenciesSelected ==
  ASSUME NEW i \in Invocations, NEW c \in Included(i), NEW d \in DepsOf(i, c),
         d[1] \in Members(i.stack)
  PROVE  d[1] \in Included(i)
<1>1. CASE i.services = {}
  BY <1>1 DEF Included
<1>2. CASE i.services # {}
  <2>1. ~ i.no_deps /\ d \in i.stack.deps[c]
    BY DEF DepsOf
  <2>2. CASE c \in i.services
    BY <1>2, <2>1, <2>2 DEF Included, NamesOf
  <2>3. CASE c \notin i.services
    <3>1. PICK s \in i.services : c \in NamesOf(i.stack.deps[s])
      BY <1>2, <2>1, <2>3 DEF Included
    <3>2. i.stack.deps[c] \subseteq i.stack.deps[s]
      BY <3>1, StackType DEF ParsedStack, ClosedAt, NamesOf
    <3>3. d[1] \in NamesOf(i.stack.deps[s])
      BY <2>1, <3>2 DEF NamesOf
    <3> QED BY <1>2, <2>1, <3>1, <3>3 DEF Included
  <2> QED BY <2>2, <2>3
<1> QED BY <1>1, <1>2

LEMMA DependenciesPrecede ==
  ASSUME NEW i \in Invocations, NEW k \in DOMAIN i.stack.order,
         NEW d \in DepsOf(i, i.stack.order[k]), d[1] \in Members(i.stack)
  PROVE  \E j \in DOMAIN i.stack.order : j < k /\ i.stack.order[j] = d[1]
<1>1. PICK j \in DOMAIN i.stack.order : i.stack.order[j] = d[1]
  BY DEF Members
<1>2. d[1] \in NamesOf(i.stack.deps[i.stack.order[k]])
  BY DEF DepsOf, NamesOf
<1>3. j < k
  BY <1>1, <1>2, StackType DEF ParsedStack, Topological
<1> QED BY <1>1, <1>3

-----------------------------------------------------------------------------
(* Types. *)

LEMMA EnvironmentType == StoreTypeOK /\ Environment => StoreTypeOK'
<1> SUFFICES ASSUME StoreTypeOK, Environment PROVE StoreTypeOK'
  OBVIOUS
<1>1. PICK c \in Containers : BecomeHealthy(c) \/ BecomeUnhealthy(c) \/ Exit(c)
  BY DEF Environment
<1> QED BY <1>1 DEF StoreTypeOK, States, UpStates, BecomeHealthy,
                    BecomeUnhealthy, Exit

LEMMA HonouredType ==
  ASSUME NEW i \in Invocations, NEW c \in Containers
  PROVE  Honoured(i, c) \subseteq Dependencies
BY StackType DEF Honoured, DepsOf

LEMMA TypeInit == Init => TypeOK
BY ComposeUpAssumption, PodmanAssumption
   DEF Init, TypeOK, StoreInit, StoreTypeOK, States, Finished

LEMMA TypeNext == TypeOK /\ LoopInv /\ DownInv /\ [Next]_vars => TypeOK'
<1> SUFFICES ASSUME TypeOK, LoopInv, DownInv, [Next]_vars PROVE TypeOK'
  OBVIOUS
<1> USE DEF Finished, history
<1>1. StoreTypeOK
  BY DEF TypeOK
<1>2. pc \notin Finished => cmd \in Invocations /\ cmd # None
  BY ComposeUpAssumption DEF LoopInv
<1>3. ASSUME NEW i \in Invocations, Begin(i) PROVE TypeOK'
  <2>1. Included(i) \subseteq Containers /\ Len(i.stack.order) \in Nat
    BY StackType
  <2>2. i # None
    BY ComposeUpAssumption
  <2>3. StoreTypeOK'
    BY <1>1, <1>3 DEF Begin, store, StoreTypeOK
  <2>4. consistent' \in BOOLEAN
    BY <1>3 DEF Begin, Consistent
  <2> QED BY <1>3, <2>1, <2>2, <2>3, <2>4 DEF Begin, TypeOK
<1>4. ASSUME NEW c \in Containers, StopContainer(c) PROVE TypeOK'
  <2>1. StoreTypeOK'
    BY <1>1, <1>4, StoreSteps DEF StopContainer
  <2> QED BY <1>2, <1>4, <2>1 DEF StopContainer, TypeOK
<1>5. CASE StopsGathered
  BY <1>2, <1>5 DEF StopsGathered, TypeOK, store, StoreTypeOK
<1>6. CASE RmContainer
  <2>1. StoreTypeOK'
    <3>1. CASE Current \in Included(cmd)
      <4>1. Current \in Containers
        BY <1>2, <1>6, <3>1, StackType DEF RmContainer
      <4> QED BY <1>1, <1>6, <3>1, <4>1, StoreSteps DEF RmContainer
    <3>2. CASE Current \notin Included(cmd)
      BY <1>1, <1>6, <3>2 DEF RmContainer, store, StoreTypeOK
    <3> QED BY <3>1, <3>2
  <2> QED BY <1>2, <1>6, <2>1 DEF RmContainer, TypeOK
<1>7. CASE RmEnds
  BY <1>2, <1>7 DEF RmEnds, TypeOK, store, StoreTypeOK, Existing
<1>8. ASSUME NEW c \in Containers, StopOrphan(c) PROVE TypeOK'
  <2>1. StoreTypeOK'
    BY <1>1, <1>8, StoreSteps DEF StopOrphan
  <2> QED BY <1>2, <1>8, <2>1 DEF StopOrphan, TypeOK
<1>9. CASE OrphansStopped
  BY <1>2, <1>9 DEF OrphansStopped, TypeOK, store, StoreTypeOK, Existing
<1>10. ASSUME NEW c \in Containers, RmOrphan(c) PROVE TypeOK'
  <2>1. StoreTypeOK'
    BY <1>1, <1>10, StoreSteps DEF RmOrphan
  <2> QED BY <1>2, <1>10, <2>1 DEF RmOrphan, TypeOK
<1>11. CASE OrphansRemoved
  BY <1>2, <1>11 DEF OrphansRemoved, TypeOK, store, StoreTypeOK
<1>12. CASE RmPod
  <2>1. StoreTypeOK'
    BY <1>1, <1>12, PodRmType DEF RmPod, store, StoreTypeOK
  <2> QED BY <1>2, <1>12, <2>1 DEF RmPod, TypeOK
<1>13. CASE SkipContainer
  BY <1>2, <1>13 DEF SkipContainer, TypeOK, store, StoreTypeOK
<1>14. CASE CreateContainer
  <2> DEFINE req == NamesOf(DepsOf(cmd, Current)) \cap Members(cmd.stack)
  <2>1. /\ Current \in Containers /\ req \subseteq Containers
        /\ cmd.stack.config \in Configs /\ cmd \in Invocations
    BY <1>2, <1>14, StackType DEF CreateContainer
  <2>2. StoreTypeOK'
    BY <1>1, <1>14, <2>1, CreateType DEF CreateContainer
  <2>3. Honoured(cmd, Current) \subseteq Dependencies
    BY <2>1, HonouredType
  <2>4. /\ created' \in SUBSET Containers
        /\ waiting' \in SUBSET Dependencies
        /\ idx' \in Nat
        /\ pc' \in {"create", "wait"}
        /\ pc' = "wait" => idx' \in DOMAIN Order
    BY <1>14, <2>1, <2>3 DEF CreateContainer, TypeOK
  <2>5. /\ cmd' = cmd /\ cmd # None
        /\ UNCHANGED <<pending, launched, observed, consistent>>
    BY <1>2, <1>14 DEF CreateContainer
  <2> QED BY <2>2, <2>4, <2>5 DEF TypeOK, Order
<1>15. ASSUME NEW d \in Dependencies, Observe(d) PROVE TypeOK'
  BY <1>2, <1>15 DEF Observe, TypeOK, store, StoreTypeOK, Order
<1>16. CASE CheckFails
  BY <1>2, <1>16 DEF CheckFails, TypeOK, store, StoreTypeOK
<1>17. CASE StartContainer
  <2>1. Current \in Containers
    BY <1>2, <1>17, StackType DEF StartContainer, TypeOK, Current, Order
  <2>2. StoreTypeOK'
    BY <1>1, <1>17, <2>1, StoreSteps DEF StartContainer
  <2> QED BY <1>2, <1>17, <2>1, <2>2 DEF StartContainer, TypeOK
<1>18. CASE UpEnds
  BY <1>2, <1>18 DEF UpEnds, TypeOK, store, StoreTypeOK
<1>19. CASE Killed
  BY <1>2, <1>19 DEF Killed, TypeOK, store, StoreTypeOK
<1>20. CASE Environment
  BY <1>1, <1>20, EnvironmentType DEF Environment, TypeOK, control, Order
<1>21. CASE UNCHANGED vars
  BY <1>21 DEF vars, store, control, TypeOK, StoreTypeOK, Order
<1> QED BY <1>3, <1>4, <1>5, <1>6, <1>7, <1>8, <1>9, <1>10, <1>11, <1>12,
           <1>13, <1>14, <1>15, <1>16, <1>17, <1>18, <1>19, <1>20, <1>21
           DEF Next, Command

-----------------------------------------------------------------------------
(* The loop of compose_up. *)

LEMMA LoopInit == Init => LoopInv
BY DEF Init, LoopInv, Finished, LoopPCs

LEMMA LoopNext == TypeOK /\ LoopInv /\ [Next]_vars => LoopInv'
<1> SUFFICES ASSUME TypeOK, LoopInv, [Next]_vars PROVE LoopInv'
  OBVIOUS
<1> USE DEF LoopPCs, Finished
<1>1. ASSUME NEW i \in Invocations, Begin(i) PROVE LoopInv'
  <2>1. pc' \in {"stop", "create"} /\ cmd' = i
    BY <1>1 DEF Begin
  <2>2. pc' = "create" => i.op = "up" /\ idx' = 1
    BY <1>1, StackType DEF Begin, Invocation
  <2>3. \A j \in DOMAIN i.stack.order : ~ (j < 1)
    BY StackType
  <2> QED BY <2>1, <2>2, <2>3 DEF LoopInv, Order
<1>2. ASSUME NEW c \in Containers, StopContainer(c) \/ StopOrphan(c) \/ RmOrphan(c)
      PROVE  LoopInv'
  BY <1>2 DEF StopContainer, StopOrphan, RmOrphan, LoopInv
<1>3. CASE StopsGathered \/ RmContainer \/ RmEnds \/ OrphansStopped \/ OrphansRemoved
  BY <1>3 DEF StopsGathered, RmContainer, RmEnds, OrphansStopped,
              OrphansRemoved, LoopInv
<1>4. CASE RmPod
  <2>1. \A j \in DOMAIN Order : ~ (j < 1)
    BY <1>4, StackType DEF RmPod, LoopInv, Order
  <2> QED BY <1>4, <2>1 DEF RmPod, LoopInv, Order
<1>5. CASE SkipContainer
  <2>1. \A j \in DOMAIN Order : j < idx + 1 => j < idx \/ j = idx
    BY <1>5, StackType DEF SkipContainer, LoopInv, Order
  <2> QED BY <1>5, <2>1 DEF SkipContainer, LoopInv, Order, Current, history
<1>6. CASE CreateContainer
  <2>1. /\ pc = "create" /\ cmd \in Invocations /\ cmd' = cmd
        /\ launched' = launched /\ idx \in DOMAIN Order
        /\ Current \in Included(cmd)
    BY <1>6 DEF CreateContainer, LoopInv
  <2>2. CASE cmd.no_start
    BY <1>6, <2>1, <2>2 DEF CreateContainer, LoopInv, Order
  <2>3. CASE ~ cmd.no_start
    BY <1>6, <2>1, <2>3 DEF CreateContainer, LoopInv, Order, Current
  <2> QED BY <2>2, <2>3
<1>7. ASSUME NEW d \in Dependencies, Observe(d) PROVE LoopInv'
  BY <1>7 DEF Observe, LoopInv, Order, Current
<1>8. CASE CheckFails
  BY <1>8 DEF CheckFails, LoopInv
<1>9. CASE StartContainer
  <2>1. \A j \in DOMAIN Order : j < idx + 1 => j < idx \/ j = idx
    BY <1>9, StackType DEF StartContainer, LoopInv, Order
  <2> QED BY <1>9, <2>1 DEF StartContainer, LoopInv, Order, Current
<1>10. CASE UpEnds \/ Killed
  BY <1>10 DEF UpEnds, Killed, LoopInv
<1>11. CASE Environment \/ UNCHANGED vars
  BY <1>11 DEF Environment, vars, control, history, LoopInv, Order, Current
<1> QED BY <1>1, <1>2, <1>3, <1>4, <1>5, <1>6, <1>7, <1>8, <1>9, <1>10,
           <1>11 DEF Next, Command

-----------------------------------------------------------------------------
(* The loops of compose_down. *)

LEMMA DownInit == Init => DownInv
BY DEF Init, DownInv

LEMMA DownNext == TypeOK /\ LoopInv /\ DownInv /\ [Next]_vars => DownInv'
<1> SUFFICES ASSUME TypeOK, LoopInv, DownInv, [Next]_vars PROVE DownInv'
  OBVIOUS
<1> USE DEF Finished, history
<1>0. /\ StoreTypeOK /\ cmd \in Invocations \cup {None}
      /\ pc \notin Finished => cmd \in Invocations
  BY DEF TypeOK, LoopInv
<1>1. ASSUME NEW i \in Invocations, Begin(i) PROVE DownInv'
  <2>1. UNCHANGED store /\ cmd' = i /\ pc' \in {"stop", "create"}
    BY <1>1 DEF Begin
  <2>2. pc' = "stop" => pending' = Included(i) /\ idx' = Len(i.stack.order)
    BY <1>1 DEF Begin
  <2>3. consistent' = Consistent(i)
    BY <1>1 DEF Begin
  <2>4. Consistent(i)' <=> Consistent(i)
    BY <2>1 DEF store, Consistent, Existing, Exists
  <2> QED BY <2>1, <2>2, <2>3, <2>4 DEF DownInv, Order
<1>2. ASSUME NEW c \in Containers, StopContainer(c) PROVE DownInv'
  <2>1. Included(cmd) \subseteq Containers
    BY <1>0, <1>2, StackType DEF StopContainer
  <2>2. Existing' = Existing /\ requires' = requires /\ cmd' = cmd
    BY <1>0, <1>2 DEF StopContainer, PodmanStop, Existing, Exists, Up, UpStates,
                      StoreTypeOK
  <2>3. \A e \in Containers : Up(e)' => Up(e) /\ e # c
    BY <1>0, <1>2 DEF StopContainer, PodmanStop, Up, UpStates, StoreTypeOK
  <2>4. Consistent(cmd)' <=> Consistent(cmd)
    BY <2>2 DEF Consistent
  <2> QED BY <1>2, <2>1, <2>2, <2>3, <2>4 DEF StopContainer, DownInv, Order
<1>3. CASE StopsGathered
  <2>1. UNCHANGED store /\ cmd' = cmd
    BY <1>3 DEF StopsGathered
  <2>2. Consistent(cmd)' <=> Consistent(cmd)
    BY <2>1 DEF store, Consistent, Existing, Exists
  <2>3. idx = Len(Order) /\ Len(Order) \in Nat /\ DOMAIN Order = 1..Len(Order)
    BY <1>0, <1>3, StackType DEF StopsGathered, DownInv, Order
  <2>4. \A c \in Included(cmd) : ~ Up(c)'
    BY <1>3, <2>1 DEF StopsGathered, DownInv, store, Up
  <2> QED BY <1>3, <2>1, <2>2, <2>3, <2>4 DEF StopsGathered, DownInv, Order
<1>4. CASE RmContainer
  <2>1. /\ pc = "rm" /\ pc' = "rm" /\ cmd' = cmd /\ cmd \in Invocations
        /\ idx' = idx - 1 /\ idx \in 1..Len(Order)
        /\ consistent' = consistent
        /\ Len(Order) \in Nat /\ DOMAIN Order = 1..Len(Order)
    BY <1>0, <1>4, StackType DEF RmContainer, DownInv, Order
  <2>2. Included(cmd) \subseteq Containers /\ Current \in Members(cmd.stack)
    BY <2>1, StackType DEF Current, Order, Members
  <2>3. \A c \in Containers : ctr'[c] = ctr[c] \/ ctr'[c] = "absent"
    BY <1>0, <1>4 DEF RmContainer, PodmanRm, store, StoreTypeOK
  <2>4. \A c \in Containers : requires'[c] = requires[c] \/ requires'[c] = {}
    BY <1>0, <1>4 DEF RmContainer, PodmanRm, store, StoreTypeOK
  <2>5. \A c \in Included(cmd) : ~ Up(c)'
    BY <2>1, <2>2, <2>3 DEF DownInv, Up, UpStates
  <2>6. ASSUME consistent
        PROVE  /\ Consistent(cmd)'
               /\ \A j \in DOMAIN Order :
                    j > idx - 1 /\ Order[j] \in Included(cmd) => ~ Exists(Order[j])'
    <3>1. Consistent(cmd)
      BY <2>1, <2>6 DEF DownInv
    <3>2. Existing' \subseteq Existing
      BY <2>3 DEF Existing, Exists
    <3>3. Consistent(cmd)'
      BY <2>1, <2>4, <3>1, <3>2 DEF Consistent, Existing
    <3>4. Current \in Included(cmd) => ctr'[Current] = "absent"
      <4>1. SUFFICES ASSUME Current \in Included(cmd), Exists(Current)
                     PROVE  ctr'[Current] = "absent"
        BY <2>2, <2>3 DEF Exists
      <4>2. ~ Up(Current)
        BY <2>1, <4>1 DEF DownInv
      <4>3. Dependents(Current) = {}
        <5>1. SUFFICES ASSUME NEW d \in Existing, Current \in requires[d]
                       PROVE  FALSE
          BY DEF Dependents
        <5>2. d \in Included(cmd) /\ Current \in NamesOf(cmd.stack.deps[d])
          BY <3>1, <4>1, <5>1 DEF Consistent
        <5>3. PICK k \in DOMAIN Order : Order[k] = d
          BY <2>1, <5>2, StackType DEF Members, Order
        <5>4. idx < k
          BY <2>1, <5>2, <5>3, StackType
             DEF ParsedStack, Topological, Order, Current
        <5>5. ~ Exists(d)
          BY <2>1, <2>6, <5>2, <5>3, <5>4 DEF DownInv
        <5> QED BY <5>1, <5>5 DEF Existing
      <4>4. PodmanRm(Current)
        BY <1>4, <4>1 DEF RmContainer
      <4> QED BY <1>0, <2>2, <4>1, <4>2, <4>3, <4>4 DEF PodmanRm, StoreTypeOK
    <3>5. ASSUME NEW j \in DOMAIN Order, j > idx - 1, Order[j] \in Included(cmd)
          PROVE  ~ Exists(Order[j])'
      <4>1. CASE j = idx
        BY <2>1, <3>4, <3>5, <4>1 DEF Current, Order, Exists
      <4>2. CASE j # idx
        <5>1. j > idx
          BY <2>1, <3>5, <4>2
        <5>2. ~ Exists(Order[j])
          BY <2>1, <2>6, <3>5, <5>1 DEF DownInv
        <5> QED BY <2>1, <2>2, <2>3, <3>5, <5>2 DEF Exists, Order
      <4> QED BY <4>1, <4>2
    <3> QED BY <3>3, <3>5
  <2> QED BY <2>1, <2>5, <2>6 DEF DownInv, Order, Exists
<1>5. CASE RmEnds
  <2>1. /\ UNCHANGED store /\ cmd' = cmd /\ consistent' = consistent
        /\ pc = "rm" /\ idx = 0 /\ cmd \in Invocations
        /\ pc' \in {"stop_orphans", "rm_pod"}
    BY <1>0, <1>5 DEF RmEnds
  <2>2. ASSUME consistent, NEW c \in Included(cmd), c \in Existing PROVE FALSE
    <3>1. PICK j \in DOMAIN Order : Order[j] = c
      BY <2>1, StackType DEF Members, Order
    <3>2. j > 0
      BY <2>1, StackType DEF Order
    <3> QED BY <2>1, <2>2, <3>1, <3>2 DEF DownInv, Existing
  <2>3. Included(cmd') \cap Existing' = Included(cmd) \cap Existing
    BY <2>1 DEF store, Existing, Exists
  <2> QED BY <2>1, <2>2, <2>3 DEF DownInv
<1>6. ASSUME NEW c \in Containers, StopOrphan(c) PROVE DownInv'
  <2>1. Existing' = Existing
    BY <1>0, <1>6 DEF StopOrphan, PodmanStop, Existing, Exists, Up, UpStates,
                      StoreTypeOK
  <2> QED BY <1>6, <2>1 DEF StopOrphan, DownInv
<1>7. CASE OrphansStopped \/ OrphansRemoved
  <2>1. Existing' = Existing
    BY <1>7 DEF OrphansStopped, OrphansRemoved, store, Existing, Exists
  <2> QED BY <1>7, <2>1 DEF OrphansStopped, OrphansRemoved, DownInv
<1>8. ASSUME NEW c \in Containers, RmOrphan(c) PROVE DownInv'
  <2>1. Existing' \subseteq Existing
    BY <1>0, <1>8 DEF RmOrphan, PodmanRm, store, Existing, Exists, StoreTypeOK
  <2> QED BY <1>8, <2>1 DEF RmOrphan, DownInv
<1>9. CASE RmPod
  BY <1>9 DEF RmPod, DownInv
<1>10. CASE SkipContainer \/ CreateContainer \/ CheckFails \/ StartContainer
            \/ UpEnds \/ Killed
  BY <1>10 DEF SkipContainer, CreateContainer, CheckFails, StartContainer,
               UpEnds, Killed, DownInv
<1>11. ASSUME NEW d \in Dependencies, Observe(d) PROVE DownInv'
  BY <1>11 DEF Observe, DownInv
<1>12. CASE Environment
  <2>1. PICK c \in Containers : BecomeHealthy(c) \/ BecomeUnhealthy(c) \/ Exit(c)
    BY <1>12 DEF Environment
  <2>2. requires' = requires /\ UNCHANGED <<cmd, pc, idx, pending, consistent>>
    BY <1>12, <2>1 DEF Environment, control, BecomeHealthy, BecomeUnhealthy, Exit
  <2>3. Existing' = Existing
    BY <1>0, <2>1 DEF BecomeHealthy, BecomeUnhealthy, Exit, Existing, Exists, Up,
                      UpStates, StoreTypeOK
  <2>4. \A e \in Containers : (Up(e)' => Up(e)) /\ (Exists(e)' <=> Exists(e))
    <3>1. \A e \in Containers : Exists(e)' <=> Exists(e)
      BY <2>3 DEF Existing
    <3>2. Up(c)
      BY <2>1 DEF BecomeHealthy, BecomeUnhealthy, Exit, Up, UpStates
    <3>3. \A e \in Containers : e # c => ctr'[e] = ctr[e]
      BY <1>0, <2>1 DEF BecomeHealthy, BecomeUnhealthy, Exit, StoreTypeOK
    <3> QED BY <3>1, <3>2, <3>3 DEF Up
  <2>5. \A i : Consistent(i)' <=> Consistent(i)
    BY <2>2, <2>3 DEF Consistent
  <2>6. cmd \in Invocations => /\ Included(cmd) \subseteq Containers
                               /\ \A j \in DOMAIN Order : Order[j] \in Containers
    BY StackType DEF Order
  <2> QED BY <1>0, <2>2, <2>3, <2>4, <2>5, <2>6 DEF DownInv, Order
<1>13. CASE UNCHANGED vars
  <2>1. \A i : Consistent(i)' <=> Consistent(i)
    BY <1>13 DEF vars, store, Consistent, Existing, Exists
  <2> QED BY <1>13, <2>1 DEF vars, store, control, DownInv, Order, Existing,
                             Exists, Up
<1> QED BY <1>1, <1>2, <1>3, <1>4, <1>5, <1>6, <1>7, <1>8, <1>9, <1>10, <1>11,
           <1>12, <1>13 DEF Next, Command

-----------------------------------------------------------------------------
IInv == TypeOK /\ LoopInv /\ DownInv

LEMMA InvCorrect == Spec => []IInv
<1>1. Init => IInv
  BY TypeInit, LoopInit, DownInit DEF IInv
<1>2. IInv /\ [Next]_vars => IInv'
  BY TypeNext, LoopNext, DownNext DEF IInv
<1> QED BY <1>1, <1>2, PTL DEF Spec

(* The state of a command and of the containers stays well-formed.         *)
THEOREM TypeCorrect == Spec => []TypeOK
<1>1. IInv => TypeOK
  BY DEF IInv
<1> QED BY <1>1, InvCorrect, PTL

(* compose_down: the reverse of the sorted list is an order in which podman *)
(* rm is never refused, for every stack and every selection of services.   *)
THEOREM DownRemovesTheorem == Spec => []DownRemoves
<1>1. IInv => DownRemoves
  BY DEF IInv, DownInv, DownRemoves
<1> QED BY <1>1, InvCorrect, PTL

-----------------------------------------------------------------------------
(* The detailed commands implement LaunchOrder. *)

LEMMA WantedType == TypeOK => Wanted \in [Containers -> SUBSET Dependencies]
BY HonouredType DEF TypeOK, Wanted

LEMMA RefinementInit == Init => LaunchOrderPromise!Init
BY DEF Init, LaunchOrderPromise!Init, LaunchOrderPromise!Dependencies, Wanted

(* All steps but Begin, Observe and StartContainer leave the promise alone. *)
LEMMA RefinementStutter ==
  ASSUME UNCHANGED <<cmd, launched, observed>>
  PROVE  UNCHANGED LaunchOrderPromise!abstract
BY DEF LaunchOrderPromise!abstract, Wanted

LEMMA RefinementNext ==
  IInv /\ IInv' /\ [Next]_vars
    => [LaunchOrderPromise!Next]_(LaunchOrderPromise!abstract)
<1> SUFFICES ASSUME IInv, IInv', [Next]_vars
             PROVE  \/ LaunchOrderPromise!Next
                    \/ UNCHANGED LaunchOrderPromise!abstract
  OBVIOUS
<1> USE DEF LaunchOrderPromise!Next, LaunchOrderPromise!Dependencies
<1>1. ASSUME NEW i \in Invocations, Begin(i) PROVE LaunchOrderPromise!Next
  <2>1. (TypeOK => Wanted \in [Containers -> SUBSET Dependencies])'
    BY WantedType, PTL
  <2> QED BY <1>1, <2>1 DEF IInv, Begin, LaunchOrderPromise!Begin, Dependencies
<1>2. ASSUME NEW d \in Dependencies, Observe(d) PROVE LaunchOrderPromise!Next
  <2>1. /\ pc = "wait" /\ cmd \in Invocations /\ idx \in DOMAIN Order
        /\ Current \in Included(cmd) /\ d \in DepsOf(cmd, Current)
        /\ ~ cmd.no_start
    BY <1>2 DEF Observe, Turn, Honoured, IInv, LoopInv, Finished
  <2>2. d[1] \in Members(cmd.stack)
    BY <1>2 DEF Observe, NamesOf
  <2>3. PICK j \in DOMAIN Order : j < idx /\ Order[j] = d[1]
    BY <2>1, <2>2, DependenciesPrecede DEF Order, Current
  <2>4. d[1] \in Included(cmd)
    BY <2>1, <2>2, DependenciesSelected
  <2>5. d[1] \in launched
    BY <2>1, <2>3, <2>4 DEF IInv, LoopInv, LoopPCs
  <2>6. UNCHANGED Wanted
    BY <1>2 DEF Observe, Wanted
  <2> QED BY <1>2, <2>5, <2>6 DEF Observe, LaunchOrderPromise!Observe, Dependencies
<1>3. CASE StartContainer
  <2>1. /\ cmd \in Invocations /\ cmd.op = "up" /\ Current \in Included(cmd)
        /\ Honoured(cmd, Current) \subseteq observed
    BY <1>3 DEF StartContainer, IInv, LoopInv, LoopPCs, Finished
  <2>2. Current \in Containers
    BY <2>1, StackType
  <2>3. Wanted[Current] \subseteq observed
    BY <2>1, <2>2 DEF Wanted
  <2>4. UNCHANGED Wanted
    BY <1>3 DEF StartContainer, Wanted
  <2> QED BY <1>3, <2>2, <2>3, <2>4 DEF StartContainer, LaunchOrderPromise!Launch
<1>4. ASSUME NEW c \in Containers, StopContainer(c) \/ StopOrphan(c) \/ RmOrphan(c)
      PROVE  UNCHANGED LaunchOrderPromise!abstract
  BY <1>4, RefinementStutter DEF StopContainer, StopOrphan, RmOrphan, history
<1>5. CASE \/ StopsGathered \/ RmContainer \/ RmEnds \/ OrphansStopped
           \/ OrphansRemoved \/ RmPod \/ SkipContainer \/ CreateContainer
           \/ CheckFails \/ UpEnds \/ Killed \/ Environment
  BY <1>5, RefinementStutter
     DEF StopsGathered, RmContainer, RmEnds, OrphansStopped, OrphansRemoved,
         RmPod, SkipContainer, CreateContainer, CheckFails, UpEnds, Killed,
         Environment, control, history
<1>6. CASE UNCHANGED vars
  BY <1>6, RefinementStutter DEF vars, control, history
<1> QED BY <1>1, <1>2, <1>3, <1>4, <1>5, <1>6 DEF Next, Command

(* compose_up, check_dep_conditions: for every stack a container is         *)
(* launched only after each of its dependencies has been launched by the   *)
(* same command and was seen to satisfy its condition after that.          *)
THEOREM LaunchesInOrderTheorem == Spec => LaunchesInOrder
<1>1. Init => LaunchOrderPromise!Init
  BY RefinementInit
<1>2. IInv /\ IInv' /\ [Next]_vars
        => [LaunchOrderPromise!Next]_(LaunchOrderPromise!abstract)
  BY RefinementNext
<1> QED BY <1>1, <1>2, InvCorrect, PTL
        DEF Spec, LaunchesInOrder, LaunchOrderPromise!Spec
-----------------------------------------------------------------------------
(* What up has made, and what commands leave alone. *)

LoopOrDone == pc \in LoopPCs \/ (pc = "done" /\ cmd # None /\ cmd.op = "up")

(* As long as there are no orphans, the containers are those of the file.  *)
CurrentInv ==
  /\ pc \in {"stop_orphans", "rm_orphans", "rm_pod"} =>
       \A c \in Included(cmd) : ~ Up(c)
  /\ LoopOrDone /\ ~ Excludes(cmd) /\ Existing \subseteq Included(cmd) =>
       /\ \A c \in Existing : /\ config[c] = cmd.stack.config
                              /\ cmd.force_recreate => c \in created
       /\ \A j \in DOMAIN Order :
            pc = "done" \/ j < idx \/ (pc = "wait" /\ j = idx) => Exists(Order[j])

(* What down is at. *)
SelectionInv ==
  /\ pc = "stop" => pending \subseteq Included(cmd)
  /\ pc \in {"stop_orphans", "rm_orphans"} => cmd.remove_orphans

LEMMA SelectionNext == LoopInv /\ SelectionInv /\ [Next]_vars => SelectionInv'
BY DEF SelectionInv, Next, Command, Begin, StopContainer, StopsGathered, RmContainer,
       RmEnds, StopOrphan, OrphansStopped, RmOrphan, OrphansRemoved, RmPod,
       SkipContainer, CreateContainer, Observe, CheckFails, StartContainer, UpEnds,
       Killed, Environment, vars, control

(* Containers neither appear nor go, and keep their configuration.         *)
LEMMA CurrentStays ==
  ASSUME IInv, CurrentInv, UNCHANGED <<cmd, pc, idx, created, config>>,
         \A c \in Containers : (Exists(c)' <=> Exists(c)) /\ (Up(c)' => Up(c))
  PROVE  CurrentInv'
<1>1. Existing' = Existing
  BY DEF Existing
<1>2. cmd \in Invocations => /\ Included(cmd) \subseteq Containers
                             /\ \A j \in DOMAIN Order : Order[j] \in Containers
  BY StackType DEF Order
<1>3. pc \notin Finished => cmd \in Invocations
  BY DEF IInv, LoopInv
<1>4. LoopOrDone => cmd \in Invocations
  BY <1>3 DEF LoopOrDone, LoopPCs, Finished, IInv, TypeOK
<1>5. pc \in {"stop_orphans", "rm_orphans", "rm_pod"} => cmd \in Invocations
  BY <1>3 DEF Finished
<1> QED BY <1>1, <1>2, <1>4, <1>5 DEF CurrentInv, LoopOrDone, Order

LEMMA CurrentNext == IInv /\ CurrentInv /\ [Next]_vars => CurrentInv'
<1> SUFFICES ASSUME IInv, CurrentInv, [Next]_vars PROVE CurrentInv'
  OBVIOUS
<1> USE DEF Finished, LoopPCs, history
<1>0. /\ StoreTypeOK /\ cmd \in Invocations \cup {None}
      /\ pc \notin Finished => cmd \in Invocations
  BY DEF IInv, TypeOK, LoopInv
<1>1. ASSUME NEW i \in Invocations, Begin(i) PROVE CurrentInv'
  <2>1. /\ UNCHANGED store /\ cmd' = i /\ pc' \in {"stop", "create"}
        /\ pc' = "create" => ~ Recreates(i) /\ idx' = 1
    BY <1>1 DEF Begin
  <2>2. Existing' = Existing /\ config' = config
    BY <2>1 DEF store, Existing, Exists
  <2>3. \A j \in DOMAIN i.stack.order : ~ (j < 1)
    BY StackType
  <2> QED BY <2>1, <2>2, <2>3 DEF CurrentInv, LoopOrDone, Order, Recreates
<1>2. ASSUME NEW c \in Containers, StopContainer(c) \/ StopOrphan(c) PROVE CurrentInv'
  <2>1. \A e \in Containers : (Exists(e)' <=> Exists(e)) /\ (Up(e)' => Up(e))
    BY <1>0, <1>2 DEF StopContainer, StopOrphan, PodmanStop, Exists, Up, UpStates,
                      StoreTypeOK
  <2> QED BY <1>2, <2>1, CurrentStays DEF StopContainer, StopOrphan, PodmanStop
<1>3. CASE StopsGathered \/ RmContainer
  BY <1>3 DEF StopsGathered, RmContainer, CurrentInv, LoopOrDone
<1>4. CASE RmEnds
  <2>1. /\ pc = "rm" /\ pc' \in {"stop_orphans", "rm_pod"} /\ cmd' = cmd /\ ctr' = ctr
    BY <1>4 DEF RmEnds, store
  <2>2. \A c \in Included(cmd) : ~ Up(c)
    BY <2>1 DEF IInv, DownInv
  <2> QED BY <2>1, <2>2 DEF CurrentInv, LoopOrDone, Up
<1>5. CASE OrphansStopped \/ OrphansRemoved
  BY <1>5 DEF OrphansStopped, OrphansRemoved, store, CurrentInv, LoopOrDone, Up
<1>6. ASSUME NEW c \in Containers, RmOrphan(c) PROVE CurrentInv'
  <2>1. /\ pc = "rm_orphans" /\ pc' = pc /\ cmd' = cmd
        /\ \A e \in Containers : Up(e)' => Up(e)
    BY <1>0, <1>6 DEF RmOrphan, PodmanRm, store, Up, UpStates, StoreTypeOK
  <2>2. Included(cmd) \subseteq Containers
    BY <1>0, <2>1, StackType
  <2> QED BY <2>1, <2>2 DEF CurrentInv, LoopOrDone
<1>7. CASE RmPod
  <2>1. /\ pc = "rm_pod" /\ cmd \in Invocations /\ cmd' = cmd
        /\ pc' \in {"create", "done"}
        /\ pc' = "create" => idx' = 1
        /\ pc' = "done" => cmd.op # "up"
    BY <1>0, <1>7 DEF RmPod
  <2>2. \A j \in DOMAIN Order : ~ (j < 1)
    BY <2>1, StackType DEF Order
  <2>3. ASSUME ~ Excludes(cmd), Existing' \subseteq Included(cmd) PROVE Existing' = {}
    <3>1. PodmanPodRm
      BY <1>7, <2>3 DEF RmPod
    <3>2. CASE \E c \in Containers : Up(c)
      <4>1. PICK c \in Containers : Up(c)
        BY <3>2
      <4>2. c \in Existing'
        BY <3>1, <3>2, <4>1 DEF PodmanPodRm, store, Existing, Exists, Up, UpStates
      <4>3. c \notin Included(cmd)
        BY <2>1, <4>1 DEF CurrentInv
      <4> QED BY <2>3, <4>2, <4>3
    <3>3. CASE ~ \E c \in Containers : Up(c)
      BY <3>1, <3>3 DEF PodmanPodRm, Existing, Exists
    <3> QED BY <3>2, <3>3
  <2> QED BY <2>1, <2>2, <2>3 DEF CurrentInv, LoopOrDone, Order
<1>8. CASE SkipContainer
  <2>1. /\ pc = "create" /\ pc' = pc /\ cmd \in Invocations /\ cmd' = cmd
        /\ UNCHANGED <<ctr, config, created>> /\ idx' = idx + 1
        /\ idx \in DOMAIN Order /\ Order[idx] \notin Included(cmd)
    BY <1>0, <1>8 DEF SkipContainer, store, Current
  <2>2. Order[idx] \in Members(cmd.stack)
    BY <2>1 DEF Members, Order
  <2>3. Excludes(cmd)
    BY <2>1, <2>2 DEF Excludes
  <2> QED BY <2>1, <2>3 DEF CurrentInv
<1>9. CASE CreateContainer
  <2> DEFINE req == NamesOf(DepsOf(cmd, Current)) \cap Members(cmd.stack)
  <2>1. /\ pc = "create" /\ cmd \in Invocations /\ cmd' = cmd
        /\ idx \in DOMAIN Order /\ Current \in Included(cmd) /\ Current \in Containers
        /\ PodmanCreate(Current, req, cmd.stack.config)
        /\ created' = IF Creatable(Current, req) THEN created \cup {Current} ELSE created
        /\ (pc' = "create" /\ idx' = idx + 1) \/ (pc' = "wait" /\ idx' = idx)
    BY <1>0, <1>9, StackType DEF CreateContainer
  <2>2. SUFFICES ASSUME ~ Excludes(cmd), Existing' \subseteq Included(cmd)
                 PROVE  /\ \A c \in Existing' : /\ config'[c] = cmd.stack.config
                                                /\ cmd.force_recreate => c \in created'
                        /\ \A j \in DOMAIN Order :
                             j < idx' \/ (pc' = "wait" /\ j = idx') =>
                               ctr'[Order[j]] # "absent"
    <3>1. /\ Order' = Order /\ Excludes(cmd)' = Excludes(cmd) /\ Included(cmd)' = Included(cmd)
          /\ pc' \in LoopPCs
      BY <2>1 DEF Order
    <3> QED BY <2>1, <3>1 DEF CurrentInv, Exists
  <2>3. \A c \in Containers : c # Current => ctr'[c] = ctr[c] /\ config'[c] = config[c]
    BY <1>0, <2>1 DEF PodmanCreate, store, StoreTypeOK
  <2>4. Existing \subseteq Existing' /\ Existing' \subseteq Existing \cup {Current}
    BY <1>0, <2>1 DEF PodmanCreate, store, StoreTypeOK, Existing, Exists
  <2>5. /\ \A c \in Existing : /\ config[c] = cmd.stack.config
                               /\ cmd.force_recreate => c \in created
        /\ \A j \in DOMAIN Order : j < idx => Exists(Order[j])
    BY <2>1, <2>2, <2>4 DEF CurrentInv, LoopOrDone
  <2>6. req \subseteq Existing
    <3>1. SUFFICES ASSUME NEW d \in DepsOf(cmd, Current), d[1] \in Members(cmd.stack)
                   PROVE  d[1] \in Existing
      BY DEF NamesOf
    <3>2. PICK j \in DOMAIN Order : j < idx /\ Order[j] = d[1]
      BY <2>1, <3>1, DependenciesPrecede DEF Order, Current
    <3> QED BY <2>1, <2>5, <3>1, <3>2, StackType DEF Existing
  <2>7. /\ ctr'[Current] # "absent" /\ config'[Current] = cmd.stack.config
        /\ cmd.force_recreate => Current \in created'
    <3>1. CASE Exists(Current)
      <4>1. UNCHANGED store /\ created' = created
        BY <2>1, <3>1 DEF PodmanCreate, Creatable
      <4>2. Current \in Existing /\ Exists(Current)
        BY <2>1, <3>1 DEF Existing
      <4> QED BY <2>5, <4>1, <4>2 DEF store, Exists
    <3>2. CASE ~ Exists(Current)
      <4>1. Creatable(Current, req)
        BY <2>6, <3>2 DEF Creatable
      <4> QED BY <1>0, <2>1, <4>1 DEF PodmanCreate, StoreTypeOK, Exists
    <3> QED BY <3>1, <3>2
  <2>8. \A c \in Existing' : /\ config'[c] = cmd.stack.config
                             /\ cmd.force_recreate => c \in created'
    <3> SUFFICES ASSUME NEW c \in Existing', c # Current
                 PROVE  /\ config'[c] = cmd.stack.config
                        /\ cmd.force_recreate => c \in created'
      BY <2>7
    <3>1. c \in Containers /\ c \in Existing
      BY <2>4 DEF Existing
    <3>2. config'[c] = config[c] /\ created \subseteq created'
      BY <2>1, <2>3, <3>1
    <3> QED BY <2>5, <3>1, <3>2
  <2>9. ASSUME NEW j \in DOMAIN Order, j < idx \/ j = idx PROVE ctr'[Order[j]] # "absent"
    <3>1. CASE j = idx
      BY <2>7, <3>1 DEF Current
    <3>2. CASE j < idx
      <4>1. Order[j] \in Containers
        BY <2>1, StackType DEF Order
      <4> QED BY <2>3, <2>5, <2>7, <3>2, <4>1 DEF Exists
    <3> QED BY <2>9, <3>1, <3>2
  <2>10. \A j \in DOMAIN Order : j < idx + 1 => j < idx \/ j = idx
    BY <2>1, StackType DEF Order
  <2> QED BY <2>1, <2>8, <2>9, <2>10 DEF Order
<1>10. CASE (\E d \in Dependencies : Observe(d)) \/ UNCHANGED vars
  <2>1. UNCHANGED <<cmd, pc, idx, created, config, ctr>>
    BY <1>10 DEF Observe, vars, control, store
  <2> QED BY <2>1, CurrentStays DEF Exists, Up
<1>11. CASE StartContainer
  <2>1. /\ pc = "wait" /\ pc' = "create" /\ cmd' = cmd /\ idx' = idx + 1
        /\ cmd \in Invocations /\ UNCHANGED <<created, config>>
    BY <1>0, <1>11 DEF StartContainer, PodmanStart
  <2>2. \A c \in Containers : Exists(c)' <=> Exists(c)
    BY <1>0, <1>11 DEF StartContainer, PodmanStart, StoreTypeOK, Exists, Up
  <2>3. Existing' = Existing
    BY <2>2 DEF Existing
  <2>4. \A j \in DOMAIN Order : Order[j] \in Containers /\ (j < idx + 1 => j < idx \/ j = idx)
    BY <2>1, StackType DEF Order, IInv, TypeOK
  <2> QED BY <2>1, <2>2, <2>3, <2>4 DEF CurrentInv, LoopOrDone, Order
<1>12. CASE UpEnds
  <2>1. /\ pc = "create" /\ pc' = "done" /\ idx \notin DOMAIN Order
        /\ UNCHANGED <<cmd, created, config, ctr>> /\ cmd \in Invocations
    BY <1>0, <1>12 DEF UpEnds, store
  <2>2. \A j \in DOMAIN Order : j < idx
    <3>1. idx \in Nat \ {0}
      BY <2>1 DEF IInv, LoopInv
    <3> QED BY <2>1, <3>1, StackType DEF Order
  <2>3. Existing' = Existing
    BY <2>1 DEF Existing, Exists
  <2> QED BY <2>1, <2>2, <2>3 DEF CurrentInv, LoopOrDone, Order, Exists
<1>13. CASE CheckFails \/ Killed
  BY <1>13 DEF CheckFails, Killed, CurrentInv, LoopOrDone
<1>14. CASE Environment
  <2>1. UNCHANGED <<cmd, pc, idx, created, config>>
    BY <1>14 DEF Environment, control, BecomeHealthy, BecomeUnhealthy, Exit
  <2>2. \A e \in Containers : (Exists(e)' <=> Exists(e)) /\ (Up(e)' => Up(e))
    BY <1>0, <1>14 DEF Environment, BecomeHealthy, BecomeUnhealthy, Exit, Exists, Up,
                       UpStates, StoreTypeOK
  <2> QED BY <2>1, <2>2, CurrentStays
<1> QED BY <1>1, <1>2, <1>3, <1>4, <1>5, <1>6, <1>7, <1>8, <1>9, <1>10, <1>11,
           <1>12, <1>13, <1>14 DEF Next, Command

(* compose_up: an up of a whole stack without orphans ends with containers  *)
(* made from the files it was given, whatever killed commands have left.   *)
THEOREM UpIsCurrentTheorem == Spec => []UpIsCurrent
<1>1. Init => CurrentInv
  BY DEF Init, CurrentInv, LoopOrDone, LoopPCs
<1>2. IInv /\ CurrentInv /\ [Next]_vars => CurrentInv'
  BY CurrentNext
<1>3. IInv /\ CurrentInv => UpIsCurrent
  <2> SUFFICES ASSUME IInv, CurrentInv, pc = "done", cmd # None, cmd.op = "up",
                      ~ Excludes(cmd), Existing \subseteq Included(cmd),
                      NEW c \in Included(cmd)
               PROVE  /\ Exists(c) /\ config[c] = cmd.stack.config
                      /\ cmd.force_recreate => c \in created
    BY DEF UpIsCurrent
  <2>1. cmd \in Invocations
    BY DEF IInv, TypeOK
  <2>2. c \in Containers /\ c \in Members(cmd.stack)
    BY <2>1, StackType
  <2>3. PICK j \in DOMAIN Order : Order[j] = c
    BY <2>2 DEF Members, Order
  <2>4. Exists(c)
    BY <2>3 DEF CurrentInv, LoopOrDone
  <2> QED BY <2>2, <2>4 DEF CurrentInv, LoopOrDone, Existing
<1> QED BY <1>1, <1>2, <1>3, InvCorrect, PTL DEF Spec

(* compose_down, compose_up: commands on some services neither remove nor   *)
(* stop a container of another one.                                        *)
THEOREM OthersKeptTheorem == Spec => OthersKept
<1>1. Init => SelectionInv
  BY DEF Init, SelectionInv
<1>2. LoopInv /\ SelectionInv /\ [Next]_vars => SelectionInv'
  BY SelectionNext
<1>3. ASSUME IInv, SelectionInv, Command, Excludes(cmd), ~ cmd.remove_orphans,
             NEW c \in Containers \ Included(cmd)
      PROVE  (Exists(c) => ctr'[c] # "absent") /\ (Up(c) => ctr'[c] \in UpStates)
  <2>0. StoreTypeOK
    BY <1>3 DEF IInv, TypeOK
  <2>1. ASSUME NEW d \in Containers, StopContainer(d) \/ StopOrphan(d) \/ RmOrphan(d)
        PROVE  ctr'[c] = ctr[c]
    <3>1. StopContainer(d) /\ d # c
      BY <1>3, <2>1 DEF SelectionInv, StopContainer, StopOrphan, RmOrphan
    <3> QED BY <2>0, <3>1 DEF StopContainer, PodmanStop, StoreTypeOK
  <2>2. RmContainer \/ CreateContainer => ctr'[c] = ctr[c]
    BY <1>3, <2>0 DEF RmContainer, PodmanRm, CreateContainer, PodmanCreate, store,
                      StoreTypeOK
  <2>3. CASE StartContainer
    BY <2>0, <2>3 DEF StartContainer, PodmanStart, StoreTypeOK, Exists, Up, UpStates
  <2>4. \/ StopsGathered \/ RmEnds \/ OrphansStopped \/ OrphansRemoved \/ RmPod
        \/ SkipContainer \/ CheckFails \/ UpEnds \/ (\E d \in Dependencies : Observe(d))
        => ctr' = ctr
    BY <1>3 DEF StopsGathered, RmEnds, OrphansStopped, OrphansRemoved, RmPod,
                SkipContainer, CheckFails, UpEnds, Observe, store
  <2>5. StartContainer \/ ctr'[c] = ctr[c]
    BY <1>3, <2>1, <2>2, <2>4 DEF Command
  <2> QED BY <2>3, <2>5 DEF Exists, Up
<1>4. IInv => LoopInv
  BY DEF IInv
<1>5. IInv /\ SelectionInv /\ [Next]_vars =>
        [Command /\ Excludes(cmd) /\ ~ cmd.remove_orphans =>
           \A c \in Containers \ Included(cmd) :
             (Exists(c) => ctr'[c] # "absent") /\ (Up(c) => ctr'[c] \in UpStates)]_vars
  BY <1>3
<1> QED BY <1>1, <1>2, <1>4, <1>5, InvCorrect, PTL DEF Spec, OthersKept
=============================================================================
