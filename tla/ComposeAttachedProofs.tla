----------------------- MODULE ComposeAttachedProofs -----------------------
(***************************************************************************)
(* Proofs about ComposeAttached, for every set of containers and of        *)
(* command lines, while podman can wait for health checks.                 *)
(*                                                                         *)
(* The argument for the order of launches: podman starts a container that  *)
(* no task has launched only if another one requires it, but what requires *)
(* it has waited for it; so whatever has ever been up has been launched by *)
(* its own task, and what podman wait reports is about a launched one.     *)
(*                                                                         *)
(* The argument for the end: a container that is up has its task attached  *)
(* to it, or the task has passed SIGTERM on and waits, or was cancelled a  *)
(* second time after that; main only returns when no task is left.         *)
(***************************************************************************)
EXTENDS ComposeAttached, TLAPS

\* podman is 4.6.0 or newer.
HealthWaited == \A s \in Sessions : s.up.health_wait

Attached == {"attached", "terminating"}
NotLaunched == {"none", "check", "waiting"}
TaskStates == NotLaunched \cup Attached \cup Over \cup {"ended"}

TypeOK ==
  /\ StoreTypeOK
  /\ session \in Sessions
  /\ task \in [Containers -> TaskStates]
  /\ waiting \in [Containers -> SUBSET Dependencies]
  /\ tasks \subseteq Selected /\ finished \subseteq Selected
  /\ main \in {"wait", "sleep", "returned", "raised"}
  /\ exiting \in BOOLEAN
  /\ handler \in {"none", "stop", "cut", "rm", "cancel", "ended"}
  /\ pending \subseteq Selected
  /\ signalled \subseteq Containers
  /\ idx \in 0..Len(Order)
  /\ launched \subseteq Containers /\ revived \subseteq Containers
  /\ observed \subseteq Dependencies

(* What has been launched, and what has been seen of it. *)
IdleInv == \A c \in Containers : c \notin Selected => task[c] = "none"
WantedInv ==
  \A c \in Containers :
    c \in Selected => Honoured(session.up, c) \subseteq waiting[c] \cup observed
RequiresInv ==
  \A c \in Containers : requires[c] \subseteq NamesOf(DepsOf(session.up, c))
StartedInv ==
  /\ \A c \in Containers : ctr[c] \in {"absent", "created"} \/ c \in launched
  /\ \A d \in observed : d[1] \in launched
  /\ \A c \in launched : task[c] \notin NotLaunched

OrderInv == IdleInv /\ WantedInv /\ RequiresInv /\ StartedInv

(* What is up, and what the main task waits for. *)
AttachedInv == \A c \in Containers : task[c] \in Attached => Up(c)
CollectedInv ==
  /\ \A c \in Selected \ tasks : task[c] \in Over
  /\ main = "returned" => tasks = {}
TerminatedInv ==
  main = "raised" \/
    \A c \in Containers : task[c] = "terminating" => exiting \/ handler = "ended"

Watched(c) ==
  \/ task[c] = "attached"
  \/ task[c] = "terminating" /\ c \in signalled
  \/ task[c] = "cancelled" /\ c \in signalled /\ exiting /\ handler # "none"

RunningInv ==
  main = "raised" \/
    \A c \in Containers \ (Stubborn \cup revived) : Up(c) => Watched(c)

RunInv == AttachedInv /\ CollectedInv /\ TerminatedInv /\ RunningInv

IInv == TypeOK /\ OrderInv /\ RunInv
-----------------------------------------------------------------------------
LEMMA UpType ==
  ASSUME NEW s \in Sessions
  PROVE  /\ s \in Session
         /\ Len(s.up.stack.order) \in Nat
         /\ \A j \in 1..Len(s.up.stack.order) : s.up.stack.order[j] \in Containers
         /\ s.up.stack.config \in Configs
         /\ Included(s.up) \subseteq Containers
         /\ \A c \in Containers : /\ DepsOf(s.up, c) \subseteq Dependencies
                                  /\ Honoured(s.up, c) \subseteq DepsOf(s.up, c)
<1>1. s \in Session /\ s.up \in Invocation /\ s.up.stack \in Stack
      /\ s.up.services \subseteq Members(s.up.stack)
  BY ComposeAttachedAssumption DEF Session, Invocation
<1>2. /\ s.up.stack.order \in Seq(Containers) /\ s.up.stack.config \in Configs
      /\ s.up.stack.deps \in [Containers -> SUBSET Dependencies]
  BY <1>1 DEF Stack
<1>3. Members(s.up.stack) \subseteq Containers
  BY <1>2 DEF Members
<1>4. Included(s.up) \subseteq Containers
  BY <1>1, <1>3 DEF Included
<1>5. \A c \in Containers : /\ DepsOf(s.up, c) \subseteq Dependencies
                           /\ Honoured(s.up, c) \subseteq DepsOf(s.up, c)
  BY <1>2 DEF DepsOf, Honoured
<1> QED BY <1>1, <1>2, <1>4, <1>5

(* What podman is told to wait for is a part of what is waited for.        *)
LEMMA TurnPart == \A W : Turn(W) \subseteq W
BY DEF Turn

LEMMA SessionKept ==
  ASSUME [Next]_vars
  PROVE  session' = session /\ Selected' = Selected /\ Order' = Order
<1>1. session' = session
  BY DEF Next, vars, control, TaskSteps, WaitBegins, CheckFails, WaitFails, Observe,
         Launch, Reap, Kill, Exits, Obeys, MainSteps, MainCollects, MainSleeps,
         MainAborts, Interrupt, HandlerSteps, HandlerStops, HandlerGathers,
         HandlerRemoves, HandlerRemovesPod, HandlerCancels, Healths
<1> QED BY <1>1 DEF Selected, Order

(* What cancelling and the end of a container do to a task. *)
LEMMA CancelStates ==
  ASSUME NEW t \in TaskStates
  PROVE  /\ Cancel(t) \in TaskStates
         /\ Cancel(t) \in NotLaunched <=> t = "none"
         /\ t = "none" => Cancel(t) = "none"
         /\ Cancel(t) \in Attached => t = "attached"
         /\ t = "attached" => Cancel(t) = "terminating"
         /\ t = "terminating" => Cancel(t) = "cancelled"
         /\ t \in Over => Cancel(t) = t
<1>1. CASE t \in {"check", "waiting", "terminating"}
  <2>1. Cancel(t) = "cancelled"
    BY <1>1, Zenon DEF Cancel
  <2> QED BY <1>1, <2>1 DEF TaskStates, NotLaunched, Attached, Over
<1>2. CASE t = "attached"
  <2>1. Cancel(t) = "terminating"
    <3>1. t \notin {"check", "waiting", "terminating"}
      BY <1>2
    <3> QED BY <1>2, <3>1, Zenon DEF Cancel
  <2> QED BY <1>2, <2>1 DEF TaskStates, NotLaunched, Attached, Over
<1>3. CASE t \notin {"check", "waiting", "terminating", "attached"}
  <2>1. Cancel(t) = t
    <3>1. t \notin {"check", "waiting", "terminating"} /\ t # "attached"
      BY <1>3
    <3> QED BY <3>1, Zenon DEF Cancel
  <2> QED BY <1>3, <2>1 DEF TaskStates, NotLaunched, Attached, Over
<1> QED BY <1>1, <1>2, <1>3

LEMMA CancelAllStates ==
  ASSUME task \in [Containers -> TaskStates], NEW C
  PROVE  /\ CancelAll(C) \in [Containers -> TaskStates]
         /\ \A c \in Containers :
              CancelAll(C)[c] = IF c \in C THEN Cancel(task[c]) ELSE task[c]
BY CancelStates DEF CancelAll

LEMMA DetachedStates ==
  ASSUME task \in [Containers -> TaskStates], NEW c \in Containers
  PROVE  /\ Detached(c) \in [Containers -> TaskStates]
         /\ \A d \in Containers :
              Detached(c)[d] = IF d = c /\ task[c] \in Attached THEN "ended" ELSE task[d]
BY DEF Detached, TaskStates, Attached

LEMMA HandlerCutType ==
  ASSUME TypeOK, HandlerCut
  PROVE  /\ handler' \in {"none", "stop", "cut", "rm", "cancel", "ended"}
         /\ idx' \in 0..Len(Order)
         /\ handler = "ended" => handler' = "ended"
         /\ handler # "none" <=> handler' # "none"
         /\ handler' = "ended" => handler = "ended"
<1>1. Len(Order) \in Nat
  BY UpType DEF TypeOK, Order
<1>2. idx \in 0..Len(Order) /\ handler \in {"none", "stop", "cut", "rm", "cancel", "ended"}
  BY DEF TypeOK
<1> QED BY <1>1, <1>2 DEF HandlerCut

(* How an iteration of the main loop ends, given the tasks t. *)
LEMMA ConcludeStates ==
  ASSUME TypeOK, NEW done, NEW rest, NEW t \in [Containers -> TaskStates],
         Conclude(done, rest, t)
  PROVE  /\ tasks' = rest
         /\ main' \in {"wait", "returned", "raised"}
         /\ main' = "returned" => rest = {}
         /\ task' \in [Containers -> TaskStates]
         /\ \A c \in Containers :
              \/ task'[c] = t[c]
              \/ main' = "raised" /\ c \in rest /\ task'[c] = Cancel(t[c])
         /\ handler' \in {"none", "stop", "cut", "rm", "cancel", "ended"}
         /\ idx' \in 0..Len(Order)
         /\ handler # "none" <=> handler' # "none"
         /\ handler' = "ended" <=> handler = "ended"
<1>1. CASE \E c \in done : c = session.exit_code_from /\ t[c] \in {"failed", "cancelled"}
  <2>1. /\ tasks' = rest /\ main' = "raised" /\ HandlerCut
        /\ task' = [c \in Containers |-> IF c \in rest THEN Cancel(t[c]) ELSE t[c]]
    BY <1>1, Zenon DEF Conclude
  <2>2. task' \in [Containers -> TaskStates]
    BY <2>1, CancelStates
  <2> QED BY <2>1, <2>2, HandlerCutType
<1>2. CASE ~ \E c \in done : c = session.exit_code_from /\ t[c] \in {"failed", "cancelled"}
  <2>1. tasks' = rest /\ task' = t
        /\ IF rest = {} THEN main' = "returned" /\ HandlerCut
                        ELSE main' = "wait" /\ UNCHANGED <<handler, idx>>
    BY <1>2, Zenon DEF Conclude
  <2>2. CASE rest = {}
    BY <2>1, <2>2, HandlerCutType
  <2>3. CASE rest # {}
    BY <2>1, <2>3 DEF TypeOK
  <2> QED BY <2>2, <2>3
<1> QED BY <1>1, <1>2

LEMMA TypeInit == Init => TypeOK
<1> SUFFICES ASSUME Init PROVE TypeOK
  OBVIOUS
<1>1. session \in Sessions /\ Selected \subseteq Containers /\ Len(Order) \in Nat
  BY UpType DEF Init, Selected, Order
<1>2. StoreTypeOK
  <2>1. \A c \in Containers : NamesOf(DepsOf(session.up, c)) \subseteq Containers
    BY <1>1, UpType DEF NamesOf, Dependencies
  <2>2. requires \in [Containers -> SUBSET Containers]
    BY <2>1 DEF Init
  <2>3. ctr \in [Containers -> States] /\ config \in [Containers -> Configs \cup {None}]
    BY <1>1, UpType DEF Init, States
  <2> QED BY <2>2, <2>3 DEF StoreTypeOK
<1>3. task \in [Containers -> TaskStates]
  BY DEF Init, TaskStates, NotLaunched
<1>4. waiting \in [Containers -> SUBSET Dependencies]
  <2>1. \A c \in Containers : Honoured(session.up, c) \subseteq Dependencies
    BY <1>1, UpType
  <2> QED BY <2>1 DEF Init
<1>5. /\ tasks = Selected /\ finished = {} /\ main = "wait"
      /\ handler = "none" /\ pending = {} /\ signalled = {} /\ idx = 0
      /\ launched = {} /\ observed = {} /\ revived = {}
  BY DEF Init
<1>6. exiting \in BOOLEAN
  <2>1. exiting = FALSE
    BY DEF Init
  <2> QED BY <2>1, Zenon
<1> QED BY <1>1, <1>2, <1>3, <1>4, <1>5, <1>6 DEF TypeOK

LEMMA OrderInit == Init => OrderInv
<1> SUFFICES ASSUME Init PROVE OrderInv
  OBVIOUS
<1>1. Selected \subseteq Containers
  BY UpType DEF Init, Selected
<1> QED BY <1>1 DEF Init, OrderInv, IdleInv, WantedInv, RequiresInv, StartedInv, NamesOf

LEMMA RunInit == Init => RunInv
<1> SUFFICES ASSUME Init PROVE RunInv
  OBVIOUS
<1>1. Selected \subseteq Containers
  BY UpType DEF Init, Selected
<1> QED BY <1>1 DEF Init, RunInv, AttachedInv, CollectedInv, TerminatedInv, RunningInv,
             Attached, Up, UpStates
-----------------------------------------------------------------------------
(* Types. *)

LEMMA AgainType ==
  ASSUME TypeOK, NEW c \in Containers
  PROVE  /\ waiting[c] \subseteq Again(c)
         /\ Again(c) \in SUBSET Dependencies
<1>1. Honoured(session.up, c) \subseteq Dependencies
  BY UpType DEF TypeOK
<1> QED BY <1>1 DEF TypeOK, Again

LEMMA StoreNext ==
  ASSUME TypeOK, [Next]_vars
  PROVE  StoreTypeOK'
<1> USE DEF TypeOK
<1>0. /\ \A c \in Containers :
           PodmanStart(c) \/ PodmanStop(c) \/ PodmanRm(c) => StoreTypeOK'
      /\ PodmanPodRm => StoreTypeOK'
      /\ UNCHANGED store => StoreTypeOK'
  <2> USE DEF StoreTypeOK, store, States, UpStates
  <2>1. ASSUME NEW c \in Containers, PodmanStart(c) PROVE StoreTypeOK'
    BY <2>1 DEF PodmanStart
  <2>2. ASSUME NEW c \in Containers, PodmanStop(c) \/ PodmanRm(c) PROVE StoreTypeOK'
    BY <2>2 DEF PodmanStop, PodmanRm
  <2>3. PodmanPodRm => StoreTypeOK'
    BY DEF PodmanPodRm
  <2>4. UNCHANGED store => StoreTypeOK'
    OBVIOUS
  <2> QED BY <2>1, <2>2, <2>3, <2>4
<1>1. ASSUME NEW c \in Containers, TaskSteps(c) PROVE StoreTypeOK'
  BY <1>0, <1>1
     DEF TaskSteps, WaitBegins, CheckFails, WaitFails, Observe, Launch, Reap, Kill
<1>2. ASSUME NEW c \in Containers, Exits(c) \/ Obeys(c) PROVE StoreTypeOK'
  BY <1>0, <1>2 DEF Exits, Obeys, Exit, StoreTypeOK, States
<1>3. MainSteps \/ Interrupt => StoreTypeOK'
  BY <1>0 DEF MainSteps, MainCollects, MainSleeps, MainAborts, Interrupt
<1>4. HandlerSteps => StoreTypeOK'
  <2>1. \A i \in 1..Len(Order) : Order[i] \in Containers
    BY UpType DEF Order
  <2>2. HandlerRemoves => StoreTypeOK'
    <3> SUFFICES ASSUME HandlerRemoves PROVE StoreTypeOK'
      OBVIOUS
    <3>1. idx \in 1..Len(Order)
      BY UpType DEF HandlerRemoves, Order
    <3> QED BY <1>0, <2>1, <3>1 DEF HandlerRemoves
  <2> QED BY <1>0, <2>2
          DEF HandlerSteps, HandlerStops, HandlerGathers, HandlerRemovesPod, HandlerCancels
<1>5. Healths => StoreTypeOK'
  BY DEF Healths, BecomeHealthy, BecomeUnhealthy, StoreTypeOK, States, UpStates
<1>6. UNCHANGED vars => StoreTypeOK'
  BY <1>0 DEF vars
<1> QED BY <1>1, <1>2, <1>3, <1>4, <1>5, <1>6 DEF Next
LEMMA TaskType ==
  ASSUME TypeOK, NEW c \in Containers, TaskSteps(c) \/ Exits(c) \/ Obeys(c)
  PROVE  /\ task' \in [Containers -> TaskStates]
         /\ waiting' \in [Containers -> SUBSET Dependencies]
         /\ signalled' \subseteq signalled
         /\ observed' \subseteq Dependencies
         /\ launched' \subseteq Containers /\ revived' \subseteq Containers
         /\ UNCHANGED <<session, tasks, finished, main, exiting, handler, pending, idx>>
<1> USE DEF TypeOK
<1>1. CASE WaitBegins(c)
  BY <1>1 DEF WaitBegins, history, TaskStates, NotLaunched
<1>2. CASE CheckFails(c)
  <2>1. task' = [task EXCEPT ![c] = "failed"] /\ "failed" \in TaskStates
    BY <1>2 DEF CheckFails, TaskStates, Over
  <2>2. UNCHANGED <<session, waiting, tasks, finished, main, exiting, handler,
                    pending, signalled, idx, history>>
    BY <1>2 DEF CheckFails
  <2> QED BY <2>1, <2>2 DEF history
<1>3. CASE WaitFails(c)
  <2>1. waiting' = [waiting EXCEPT ![c] = Again(c)]
    BY <1>3 DEF WaitFails
  <2>2. waiting' \in [Containers -> SUBSET Dependencies]
    BY <2>1, AgainType
  <2> QED BY <1>3, <2>2 DEF WaitFails, history, TaskStates, NotLaunched
<1>4. ASSUME NEW d \in Dependencies, Observe(c, d)
      PROVE  /\ task' \in [Containers -> TaskStates]
             /\ waiting' \in [Containers -> SUBSET Dependencies]
             /\ observed' \subseteq Dependencies
             /\ UNCHANGED <<session, tasks, finished, main, exiting, handler,
                            pending, idx, signalled, launched, revived>>
  BY <1>4 DEF Observe, TaskStates, NotLaunched
<1>5. CASE Launch(c)
  <2>1. requires[c] \subseteq Containers
    BY DEF StoreTypeOK
  <2>2. task' \in [Containers -> TaskStates]
    BY <1>5 DEF Launch, TaskStates, Attached
  <2>3. launched' \subseteq Containers /\ revived' \subseteq Containers
    BY <1>5, <2>1 DEF Launch
  <2>4. UNCHANGED <<session, waiting, tasks, finished, main, exiting, handler,
                    pending, signalled, idx, observed>>
    BY <1>5 DEF Launch
  <2> QED BY <2>2, <2>3, <2>4
<1>6. CASE Reap(c)
  BY <1>6 DEF Reap, history, TaskStates, Over
<1>7. CASE Kill(c)
  BY <1>7, DetachedStates DEF Kill, history
<1>8. CASE Exits(c) \/ Obeys(c)
  BY <1>8, DetachedStates DEF Exits, Obeys, history
<1> QED BY <1>1, <1>2, <1>3, <1>4, <1>5, <1>6, <1>7, <1>8 DEF TaskSteps

LEMMA MainType ==
  ASSUME TypeOK, MainSteps
  PROVE  /\ task' \in [Containers -> TaskStates]
         /\ tasks' \subseteq tasks /\ finished' \subseteq Selected
         /\ main \in {"wait", "sleep"}
         /\ main' \in {"wait", "sleep", "returned", "raised"}
         /\ handler' \in {"none", "stop", "cut", "rm", "cancel", "ended"}
         /\ signalled' \subseteq Containers
         /\ idx' \in 0..Len(Order)
         /\ exiting' = TRUE \/ UNCHANGED exiting
         /\ UNCHANGED <<store, session, waiting, pending, history>>
<1> USE DEF TypeOK
<1>1. CASE MainCollects
  <2>1. PICK done, rest : rest \subseteq tasks /\ Conclude(done, rest, task)
    BY <1>1 DEF MainCollects
  <2>2. /\ task' \in [Containers -> TaskStates] /\ tasks' = rest
        /\ main' \in {"wait", "returned", "raised"}
        /\ handler' \in {"none", "stop", "cut", "rm", "cancel", "ended"}
        /\ idx' \in 0..Len(Order)
    BY <2>1, ConcludeStates
  <2> QED BY <1>1, <2>1, <2>2 DEF MainCollects
<1>2. CASE MainSleeps
  BY <1>2 DEF MainSleeps, Done
<1>3. CASE MainAborts
  <2>1. PICK t \in [Containers -> TaskStates] : Conclude(finished, tasks, t)
    BY <1>3, CancelAllStates DEF MainAborts
  <2>2. /\ task' \in [Containers -> TaskStates] /\ tasks' = tasks
        /\ main' \in {"wait", "returned", "raised"}
        /\ handler' \in {"none", "stop", "cut", "rm", "cancel", "ended"}
        /\ idx' \in 0..Len(Order)
    BY <2>1, ConcludeStates
  <2>3. Signals(tasks) \subseteq Containers
    BY UpType DEF Signals, Selected
  <2> QED BY <1>3, <2>2, <2>3 DEF MainAborts
<1> QED BY <1>1, <1>2, <1>3 DEF MainSteps

LEMMA HandlerType ==
  ASSUME TypeOK, Interrupt \/ HandlerSteps
  PROVE  /\ task' \in [Containers -> TaskStates]
         /\ waiting' \in [Containers -> SUBSET Dependencies]
         /\ handler' \in {"stop", "cut", "rm", "cancel", "ended"}
         /\ pending' \subseteq Selected
         /\ signalled' \subseteq Containers
         /\ idx' \in 0..Len(Order)
         /\ UNCHANGED <<session, tasks, finished, main, exiting, history>>
<1> USE DEF TypeOK
<1>0. Len(Order) \in Nat /\ Selected \subseteq Containers
  BY UpType DEF Order, Selected
<1>1. CASE Interrupt
  <2>1. PICK hit : /\ task' = [c \in Containers |-> IF c \in hit THEN "check" ELSE task[c]]
                   /\ waiting' = [c \in Containers |->
                                   IF c \in hit THEN Again(c) ELSE waiting[c]]
    BY <1>1 DEF Interrupt
  <2>2. task' \in [Containers -> TaskStates]
    BY <2>1 DEF TaskStates, NotLaunched
  <2>3. waiting' \in [Containers -> SUBSET Dependencies]
    BY <2>1, AgainType
  <2> QED BY <1>0, <1>1, <2>2, <2>3 DEF Interrupt
<1>2. ASSUME NEW c \in Containers, HandlerStops(c)
      PROVE  /\ task' \in [Containers -> TaskStates]
             /\ handler' \in {"stop", "cut"}
             /\ pending' \subseteq Selected /\ signalled' \subseteq Containers
             /\ UNCHANGED <<session, waiting, tasks, finished, main, exiting, idx, history>>
  BY <1>2, DetachedStates DEF HandlerStops
<1>3. CASE HandlerGathers
  BY <1>3 DEF HandlerGathers
<1>4. CASE HandlerRemoves \/ HandlerRemovesPod
  BY <1>0, <1>4 DEF HandlerRemoves, HandlerRemovesPod
<1>5. CASE HandlerCancels
  BY <1>0, <1>5, CancelAllStates DEF HandlerCancels, Signals
<1> QED BY <1>1, <1>2, <1>3, <1>4, <1>5 DEF HandlerSteps

LEMMA TypeNext == TypeOK /\ [Next]_vars => TypeOK'
<1> SUFFICES ASSUME TypeOK, [Next]_vars PROVE TypeOK'
  OBVIOUS
<1>1. StoreTypeOK' /\ session' = session /\ Selected' = Selected /\ Order' = Order
  BY StoreNext, SessionKept
<1>2. exiting' \in BOOLEAN
  <2>1. exiting' = TRUE \/ exiting' = exiting
    BY TaskType, MainType, HandlerType DEF Next, Healths, vars, control
  <2>2. exiting \in BOOLEAN
    BY DEF TypeOK
  <2> QED BY <2>1, <2>2, Zenon
<1>3. ASSUME NEW c \in Containers, TaskSteps(c) \/ Exits(c) \/ Obeys(c) PROVE TypeOK'
  BY <1>1, <1>2, <1>3, TaskType DEF TypeOK
<1>4. CASE MainSteps
  BY <1>1, <1>2, <1>4, MainType DEF TypeOK, history
<1>5. CASE Interrupt \/ HandlerSteps
  BY <1>1, <1>2, <1>5, HandlerType DEF TypeOK, history
<1>6. CASE Healths \/ UNCHANGED vars
  BY <1>1, <1>2, <1>6 DEF TypeOK, Healths, vars, control, history
<1> QED BY <1>3, <1>4, <1>5, <1>6 DEF Next
-----------------------------------------------------------------------------
(* The order of launches. *)

LEMMA IdleNext == TypeOK /\ IdleInv /\ [Next]_vars => IdleInv'
<1> SUFFICES ASSUME TypeOK, IdleInv, [Next]_vars,
                    NEW c \in Containers, c \notin Selected
             PROVE  task'[c] = "none"
  BY SessionKept DEF IdleInv
<1>1. task[c] = "none" /\ task \in [Containers -> TaskStates]
  BY DEF IdleInv, TypeOK
<1>2. Cancel("none") = "none" /\ \A C : CancelAll(C)[c] = "none"
  <2>1. Cancel("none") = "none"
    BY CancelStates DEF TaskStates, NotLaunched
  <2> QED BY <1>1, <2>1, CancelAllStates
<1>3. ASSUME NEW e \in Containers, TaskSteps(e) PROVE task'[c] = "none"
  BY <1>1, <1>3, DetachedStates DEF TaskSteps, WaitBegins, CheckFails, WaitFails, Observe,
     Launch, Reap, Kill
<1>4. ASSUME NEW e \in Containers, Exits(e) \/ Obeys(e) \/ HandlerStops(e)
      PROVE  task'[c] = "none"
  BY <1>1, <1>4, DetachedStates DEF Exits, Obeys, HandlerStops, Attached
<1>5. CASE MainCollects
  <2>1. PICK done, rest : Conclude(done, rest, task)
    BY <1>5 DEF MainCollects
  <2> QED BY <1>1, <1>2, <2>1, ConcludeStates
<1>6. CASE MainSleeps
  BY <1>1, <1>6 DEF MainSleeps
<1>7. CASE MainAborts
  <2>1. PICK C : Conclude(finished, tasks, CancelAll(C))
    BY <1>7 DEF MainAborts
  <2> QED BY <1>1, <1>2, <2>1, ConcludeStates, CancelAllStates
<1>8. CASE Interrupt
  BY <1>1, <1>8 DEF Interrupt, Waits
<1>9. CASE HandlerGathers \/ HandlerRemoves \/ HandlerRemovesPod \/ HandlerCancels
  BY <1>1, <1>2, <1>9 DEF HandlerGathers, HandlerRemoves, HandlerRemovesPod, HandlerCancels
<1>10. CASE Healths \/ UNCHANGED vars
  BY <1>1, <1>10 DEF Healths, vars, control
<1> QED BY <1>3, <1>4, <1>5, <1>6, <1>7, <1>8, <1>9, <1>10
        DEF Next, MainSteps, HandlerSteps

LEMMA WantedNext == TypeOK /\ WantedInv /\ [Next]_vars => WantedInv'
<1> SUFFICES ASSUME TypeOK, WantedInv, [Next]_vars, NEW c \in Containers, c \in Selected
             PROVE  Honoured(session.up, c) \subseteq waiting'[c] \cup observed'
  BY SessionKept DEF WantedInv
<1>1. Honoured(session.up, c) \subseteq waiting[c] \cup observed
      /\ waiting \in [Containers -> SUBSET Dependencies]
  BY DEF WantedInv, TypeOK
<1>2. ASSUME NEW e \in Containers, NEW d \in Dependencies, Observe(e, d)
      PROVE  Honoured(session.up, c) \subseteq waiting'[c] \cup observed'
  BY <1>1, <1>2 DEF Observe
<1>3. ASSUME NEW e \in Containers, WaitFails(e)
      PROVE  Honoured(session.up, c) \subseteq waiting'[c] \cup observed'
  BY <1>1, <1>3, AgainType DEF WaitFails, history
<1>4. CASE Interrupt
  BY <1>1, <1>4, AgainType DEF Interrupt, history
<1>5. ASSUME UNCHANGED <<waiting, observed>>
      PROVE  Honoured(session.up, c) \subseteq waiting'[c] \cup observed'
  BY <1>1, <1>5
<1>6. ASSUME NEW e \in Containers,
             WaitBegins(e) \/ CheckFails(e) \/ Launch(e) \/ Reap(e) \/ Kill(e)
               \/ Exits(e) \/ Obeys(e)
      PROVE  UNCHANGED <<waiting, observed>>
  BY <1>6 DEF WaitBegins, CheckFails, Launch, Reap, Kill, Exits, Obeys, history
<1>7. MainSteps \/ Healths \/ UNCHANGED vars => UNCHANGED <<waiting, observed>>
  BY MainType DEF Healths, vars, control, history
<1>8. HandlerSteps => UNCHANGED <<waiting, observed>>
  BY DEF HandlerSteps, HandlerStops, HandlerGathers, HandlerRemoves,
         HandlerRemovesPod, HandlerCancels, history
<1> QED BY <1>2, <1>3, <1>4, <1>5, <1>6, <1>7, <1>8 DEF Next, TaskSteps
(* Podman requires no more than at first, and nothing but a launch starts  *)
(* containers.                                                             *)
Falls(c) ==
  /\ requires'[c] \subseteq requires[c]
  /\ Up(c)' => Up(c)
  /\ ctr'[c] = "exited" => ctr[c] \notin {"absent", "created"}

LEMMA StoreFalls ==
  ASSUME StoreTypeOK, NEW c \in Containers
  PROVE  /\ \A e \in Containers : PodmanStop(e) \/ PodmanRm(e) \/ Exit(e) => Falls(c)
         /\ PodmanPodRm => Falls(c)
         /\ UNCHANGED store => Falls(c)
<1> USE DEF StoreTypeOK, States, UpStates, Up, Falls
<1>1. ASSUME NEW e \in Containers, PodmanStop(e) \/ Exit(e) PROVE Falls(c)
  BY <1>1 DEF PodmanStop, Exit
<1>2. ASSUME NEW e \in Containers, PodmanRm(e) PROVE Falls(c)
  BY <1>2 DEF PodmanRm, store
<1>3. PodmanPodRm => Falls(c)
  BY DEF PodmanPodRm, store
<1>4. UNCHANGED store => Falls(c)
  BY DEF store
<1> QED BY <1>1, <1>2, <1>3, <1>4

LEMMA OnlyLaunchStarts ==
  ASSUME TypeOK, [Next]_vars, \A e \in Containers : ~ Launch(e), NEW c \in Containers
  PROVE  Falls(c)
<1>0. StoreTypeOK
  BY DEF TypeOK
<1>1. ASSUME NEW e \in Containers, TaskSteps(e) PROVE Falls(c)
  BY <1>0, <1>1, StoreFalls
     DEF TaskSteps, WaitBegins, CheckFails, WaitFails, Observe, Reap, Kill
<1>2. ASSUME NEW e \in Containers, Exits(e) \/ Obeys(e) PROVE Falls(c)
  BY <1>0, <1>2, StoreFalls DEF Exits, Obeys
<1>3. CASE MainSteps
  BY <1>0, <1>3, StoreFalls, MainType
<1>4. CASE Interrupt
  BY <1>0, <1>4, StoreFalls DEF Interrupt
<1>5. CASE HandlerRemoves
  <2>1. idx \in 1..Len(Order) /\ Order[idx] \in Containers
    <3>1. session \in Sessions /\ idx \in 0..Len(Order) /\ idx > 0
      BY <1>5 DEF TypeOK, HandlerRemoves
    <3> QED BY <3>1, UpType DEF Order
  <2> QED BY <1>0, <1>5, <2>1, StoreFalls DEF HandlerRemoves
<1>6. CASE HandlerSteps /\ ~ HandlerRemoves
  BY <1>0, <1>6, StoreFalls
     DEF HandlerSteps, HandlerStops, HandlerGathers, HandlerRemovesPod, HandlerCancels
<1>7. CASE Healths
  BY <1>0, <1>7 DEF Healths, BecomeHealthy, BecomeUnhealthy, StoreTypeOK, States,
                    UpStates, Up, Falls
<1>8. CASE UNCHANGED vars
  BY <1>0, <1>8, StoreFalls DEF vars
<1> QED BY <1>1, <1>2, <1>3, <1>4, <1>5, <1>6, <1>7, <1>8 DEF Next

LEMMA RequiresNext == TypeOK /\ RequiresInv /\ [Next]_vars => RequiresInv'
<1> SUFFICES ASSUME TypeOK, RequiresInv, [Next]_vars, NEW c \in Containers
             PROVE  requires'[c] \subseteq NamesOf(DepsOf(session.up, c))
  BY SessionKept DEF RequiresInv
<1>1. requires[c] \subseteq NamesOf(DepsOf(session.up, c))
  BY DEF RequiresInv
<1>2. CASE \E e \in Containers : Launch(e)
  BY <1>1, <1>2 DEF Launch, PodmanStart
<1>3. CASE \A e \in Containers : ~ Launch(e)
  BY <1>1, <1>3, OnlyLaunchStarts DEF Falls
<1> QED BY <1>2, <1>3

(* What podman starts along with a container has been launched.            *)
LEMMA RequiredLaunched ==
  ASSUME HealthWaited, TypeOK, OrderInv, NEW c \in Containers, Launch(c)
  PROVE  requires[c] \subseteq launched
<1>1. task[c] = "check" /\ waiting[c] = {}
  BY DEF Launch
<1>2. Honoured(session.up, c) \subseteq observed
  BY <1>1 DEF OrderInv, IdleInv, WantedInv
<1>3. Honoured(session.up, c) = DepsOf(session.up, c)
  BY DEF HealthWaited, TypeOK, Honoured
<1>4. NamesOf(observed) \subseteq launched
  BY DEF OrderInv, StartedInv, NamesOf
<1>5. NamesOf(DepsOf(session.up, c)) \subseteq NamesOf(observed)
  BY <1>2, <1>3 DEF NamesOf
<1> QED BY <1>4, <1>5 DEF OrderInv, RequiresInv

(* What podman wait sees satisfied has been launched.                      *)
LEMMA SeenIsLaunched ==
  ASSUME TypeOK, OrderInv, NEW c \in Containers, NEW d \in Dependencies, Observe(c, d)
  PROVE  d[1] \in launched
<1>1. d[1] \in Containers /\ d[2] \in {"healthy", "running", "stopped", "unhealthy"}
  BY DEF Dependencies, Conditions
<1>2. ctr[d[1]] \in UpStates \cup {"exited"}
  <2>1. Satisfies(d[1], d[2])
    BY DEF Observe
  <2>2. CASE d[2] = "running"
    BY <2>1, <2>2, Zenon DEF Satisfies, Up
  <2>3. CASE d[2] = "stopped"
    <3>1. d[2] # "running"
      BY <2>3
    <3>2. ctr[d[1]] = "exited"
      BY <2>1, <2>3, <3>1, Zenon DEF Satisfies
    <3> QED BY <3>2
  <2>4. CASE d[2] \in {"healthy", "unhealthy"}
    <3>1. d[2] # "running" /\ d[2] # "stopped"
      BY <2>4
    <3>2. ctr[d[1]] = d[2]
      BY <2>1, <3>1, Zenon DEF Satisfies
    <3> QED BY <2>4, <3>2 DEF UpStates
  <2> QED BY <1>1, <2>2, <2>3, <2>4
<1> QED BY <1>1, <1>2 DEF OrderInv, StartedInv, UpStates
(* Nobody goes back to waiting once the container has been launched.       *)
LEMMA LaunchedOnce ==
  ASSUME TypeOK, [Next]_vars, NEW c \in Containers, task[c] \notin NotLaunched
  PROVE  task'[c] \notin NotLaunched
<1>1. task \in [Containers -> TaskStates] /\ task[c] \in TaskStates
  BY DEF TypeOK
<1>2. Cancel(task[c]) \notin NotLaunched
  BY <1>1, CancelStates DEF NotLaunched
<1>3. \A C : CancelAll(C)[c] \notin NotLaunched
  BY <1>1, <1>2, CancelAllStates
<1>4. ASSUME NEW e \in Containers, TaskSteps(e) \/ Exits(e) \/ Obeys(e) \/ HandlerStops(e)
      PROVE  task'[c] \notin NotLaunched
  <2>1. CASE task'[c] = task[c] \/ task'[c] = "ended"
    BY <2>1 DEF NotLaunched
  <2>2. CASE WaitBegins(e) \/ CheckFails(e) \/ WaitFails(e) \/ Launch(e)
             \/ \E d \in Dependencies : Observe(e, d)
    <3>1. c # e
      BY <2>2 DEF WaitBegins, CheckFails, WaitFails, Launch, Observe, NotLaunched
    <3> QED BY <1>1, <2>2, <3>1 DEF WaitBegins, CheckFails, WaitFails, Launch, Observe
  <2>3. CASE Reap(e)
    BY <1>1, <2>3 DEF Reap, NotLaunched
  <2>4. CASE Kill(e) \/ Exits(e) \/ Obeys(e) \/ HandlerStops(e)
    BY <1>1, <2>1, <2>4, DetachedStates DEF Kill, Exits, Obeys, HandlerStops
  <2> QED BY <1>4, <2>2, <2>3, <2>4 DEF TaskSteps
<1>5. CASE MainCollects
  <2>1. PICK done, rest : Conclude(done, rest, task)
    BY <1>5 DEF MainCollects
  <2> QED BY <1>1, <1>2, <2>1, ConcludeStates
<1>6. CASE MainAborts
  <2>1. PICK C : Conclude(finished, tasks, CancelAll(C))
    BY <1>6 DEF MainAborts
  <2>2. CancelAll(C)[c] \in TaskStates /\ CancelAll(C)[c] # "none"
    BY <1>1, <1>3, CancelAllStates DEF NotLaunched
  <2>3. Cancel(CancelAll(C)[c]) \notin NotLaunched
    BY <2>2, CancelStates
  <2> QED BY <1>1, <1>3, <2>1, <2>3, ConcludeStates, CancelAllStates
<1>7. CASE Interrupt
  BY <1>1, <1>7 DEF Interrupt, Waits, NotLaunched
<1>8. CASE HandlerCancels
  BY <1>3, <1>8 DEF HandlerCancels
<1>9. CASE MainSleeps \/ HandlerGathers \/ HandlerRemoves \/ HandlerRemovesPod
           \/ Healths \/ UNCHANGED vars
  BY <1>9 DEF MainSleeps, HandlerGathers, HandlerRemoves, HandlerRemovesPod,
              Healths, vars, control
<1> QED BY <1>4, <1>5, <1>6, <1>7, <1>8, <1>9 DEF Next, MainSteps, HandlerSteps

(* Only a launch, and only an observation, is recorded. *)
LEMMA Recorded ==
  ASSUME [Next]_vars
  PROVE  /\ UNCHANGED launched \/ \E c \in Containers : Launch(c)
         /\ UNCHANGED observed
            \/ \E c \in Containers, d \in Dependencies : Observe(c, d)
<1>1. ASSUME NEW c \in Containers, TaskSteps(c) \/ Exits(c) \/ Obeys(c)
      PROVE  /\ UNCHANGED launched \/ Launch(c)
             /\ UNCHANGED observed \/ \E d \in Dependencies : Observe(c, d)
  BY <1>1 DEF TaskSteps, WaitBegins, CheckFails, WaitFails, Observe, Launch, Reap, Kill,
              Exits, Obeys, history
<1>2. MainSteps \/ Interrupt \/ HandlerSteps \/ Healths \/ UNCHANGED vars
        => UNCHANGED <<launched, observed>>
  BY DEF MainSteps, MainCollects, MainSleeps, MainAborts, Interrupt, HandlerSteps,
         HandlerStops, HandlerGathers, HandlerRemoves, HandlerRemovesPod,
         HandlerCancels, Healths, vars, history
<1> QED BY <1>1, <1>2 DEF Next

LEMMA StartedNext == HealthWaited /\ TypeOK /\ OrderInv /\ [Next]_vars => StartedInv'
<1> SUFFICES ASSUME HealthWaited, TypeOK, OrderInv, [Next]_vars PROVE StartedInv'
  OBVIOUS
<1>1. /\ \A c \in Containers : ctr[c] \in {"absent", "created"} \/ c \in launched
      /\ \A d \in observed : d[1] \in launched
      /\ \A c \in launched : task[c] \notin NotLaunched
      /\ launched \subseteq Containers
  BY DEF OrderInv, StartedInv, TypeOK
<1>2. launched \subseteq launched'
  BY Recorded DEF Launch
<1>3. ASSUME NEW c \in Containers PROVE ctr'[c] \in {"absent", "created"} \/ c \in launched'
  <2>1. CASE \E e \in Containers : Launch(e)
    BY <1>1, <2>1, RequiredLaunched DEF Launch, PodmanStart
  <2>2. CASE \A e \in Containers : ~ Launch(e)
    <3>1. Falls(c) /\ ctr'[c] \in States
      BY <2>2, OnlyLaunchStarts, TypeNext DEF TypeOK, StoreTypeOK
    <3> QED BY <1>1, <1>2, <3>1 DEF Falls, Up, UpStates, States
  <2> QED BY <2>1, <2>2
<1>4. ASSUME NEW d \in observed' PROVE d[1] \in launched'
  BY <1>1, <1>2, Recorded, SeenIsLaunched DEF Observe
<1>5. ASSUME NEW c \in launched' PROVE task'[c] \notin NotLaunched
  <2>1. CASE c \in launched
    BY <1>1, <2>1, LaunchedOnce
  <2>2. CASE c \notin launched
    <3>1. c \in Containers /\ Launch(c)
      BY <2>2, Recorded DEF Launch
    <3>2. task'[c] \in {"attached", "ended"}
      BY <3>1 DEF Launch, TypeOK
    <3> QED BY <3>2 DEF NotLaunched
  <2> QED BY <2>1, <2>2
<1> QED BY <1>3, <1>4, <1>5 DEF StartedInv
-----------------------------------------------------------------------------
(* What is up, and what the main task waits for. *)

(* The task of a container that goes down is not attached any longer.      *)
LEMMA AttachedNext == TypeOK /\ AttachedInv /\ [Next]_vars => AttachedInv'
<1> SUFFICES ASSUME TypeOK, AttachedInv, [Next]_vars, NEW c \in Containers,
                    task'[c] \in Attached
             PROVE  Up(c)'
  BY DEF AttachedInv
<1>1. /\ task \in [Containers -> TaskStates] /\ task[c] \in TaskStates
      /\ task[c] \in Attached => Up(c)
      /\ ctr \in [Containers -> States]
  BY DEF TypeOK, AttachedInv, StoreTypeOK
<1>2. \A C : CancelAll(C)[c] \in Attached => task[c] \in Attached
  BY <1>1, CancelStates, CancelAllStates DEF Attached
<1>3. UNCHANGED store /\ Up(c) => Up(c)'
  BY DEF store, Up
<1>4. ASSUME NEW e \in Containers,
             WaitBegins(e) \/ CheckFails(e) \/ WaitFails(e)
               \/ (\E d \in Dependencies : Observe(e, d)) \/ Reap(e) \/ Kill(e)
      PROVE  Up(c)'
  <2>1. task[c] \in Attached
    BY <1>1, <1>4, DetachedStates
       DEF WaitBegins, CheckFails, WaitFails, Observe, Reap, Kill, Attached
  <2>2. UNCHANGED store
    BY <1>4 DEF WaitBegins, CheckFails, WaitFails, Observe, Reap, Kill
  <2> QED BY <1>1, <1>3, <2>1, <2>2
<1>5. ASSUME NEW e \in Containers, Launch(e) PROVE Up(c)'
  <2>1. Up(c) => Up(c)'
    BY <1>1, <1>5 DEF Launch, PodmanStart, Up
  <2>2. CASE c # e
    BY <1>1, <1>5, <2>1, <2>2 DEF Launch
  <2>3. CASE c = e
    <3>1. Exists(c)
      BY <1>1, <1>5, <2>3 DEF Launch, Attached
    <3> QED BY <1>1, <1>5, <2>1, <2>3, <3>1 DEF Launch, PodmanStart, Up, UpStates
  <2> QED BY <2>2, <2>3
<1>6. ASSUME NEW e \in Containers, Exits(e) \/ Obeys(e) \/ HandlerStops(e)
      PROVE  Up(c)'
  <2>1. task[c] \in Attached /\ Up(c)
    BY <1>1, <1>6, DetachedStates DEF Exits, Obeys, HandlerStops, Attached
  <2>2. c # e
    BY <1>1, <1>6, <2>1, DetachedStates DEF Exits, Obeys, HandlerStops, Exit, Attached
  <2> QED BY <1>1, <1>6, <2>1, <2>2
          DEF Exits, Obeys, HandlerStops, Exit, PodmanStop, Up
<1>7. CASE MainSteps
  <2>1. task[c] \in Attached
    <3>1. CASE MainCollects
      <4>1. PICK done, rest : Conclude(done, rest, task)
        BY <3>1 DEF MainCollects
      <4> QED BY <1>1, <4>1, ConcludeStates, CancelStates DEF Attached
    <3>2. CASE MainSleeps
      BY <3>2 DEF MainSleeps
    <3>3. CASE MainAborts
      <4>1. PICK C : Conclude(finished, tasks, CancelAll(C))
        BY <3>3 DEF MainAborts
      <4>2. CancelAll(C)[c] \in Attached
        BY <1>1, <4>1, ConcludeStates, CancelAllStates, CancelStates DEF Attached
      <4> QED BY <1>2, <4>2
    <3> QED BY <1>7, <3>1, <3>2, <3>3 DEF MainSteps
  <2> QED BY <1>1, <1>3, <1>7, <2>1, MainType
<1>8. CASE Interrupt
  BY <1>1, <1>3, <1>8 DEF Interrupt, Attached
<1>9. CASE HandlerRemoves \/ HandlerRemovesPod
  <2>1. Up(c) => Up(c)'
    BY <1>1, <1>9 DEF HandlerRemoves, HandlerRemovesPod, PodmanRm, PodmanPodRm, store, Up
  <2> QED BY <1>1, <1>9, <2>1 DEF HandlerRemoves, HandlerRemovesPod
<1>10. CASE HandlerGathers
  BY <1>1, <1>3, <1>10 DEF HandlerGathers
<1>11. CASE HandlerCancels
  BY <1>1, <1>2, <1>3, <1>11 DEF HandlerCancels
<1>12. CASE Healths
  BY <1>1, <1>12 DEF Healths, BecomeHealthy, BecomeUnhealthy, Up, UpStates, control
<1>13. CASE UNCHANGED vars
  BY <1>1, <1>3, <1>13 DEF vars, control
<1> QED BY <1>4, <1>5, <1>6, <1>7, <1>8, <1>9, <1>10, <1>11, <1>12, <1>13
        DEF Next, TaskSteps, HandlerSteps

(* A task that is over stays so. *)
LEMMA OverStays ==
  ASSUME TypeOK, [Next]_vars, NEW c \in Containers, task[c] \in Over
  PROVE  task'[c] = task[c]
<1>1. task \in [Containers -> TaskStates] /\ task[c] \in TaskStates
  BY DEF TypeOK
<1>2. Cancel(task[c]) = task[c] /\ \A C : CancelAll(C)[c] = task[c]
  BY <1>1, CancelStates, CancelAllStates
<1>3. ASSUME NEW e \in Containers, TaskSteps(e) PROVE task'[c] = task[c]
  BY <1>1, <1>3, DetachedStates DEF TaskSteps, WaitBegins, CheckFails, WaitFails, Observe,
     Launch, Reap, Kill, Over, Attached
<1>4. ASSUME NEW e \in Containers, Exits(e) \/ Obeys(e) \/ HandlerStops(e)
      PROVE  task'[c] = task[c]
  BY <1>1, <1>4, DetachedStates DEF Exits, Obeys, HandlerStops, Attached, Over
<1>5. CASE MainCollects
  <2>1. PICK done, rest : Conclude(done, rest, task)
    BY <1>5 DEF MainCollects
  <2> QED BY <1>1, <1>2, <2>1, ConcludeStates
<1>6. CASE MainAborts
  <2>1. PICK C : Conclude(finished, tasks, CancelAll(C))
    BY <1>6 DEF MainAborts
  <2> QED BY <1>1, <1>2, <2>1, ConcludeStates, CancelAllStates
<1>7. CASE Interrupt
  BY <1>1, <1>7 DEF Interrupt, Waits, Over
<1>8. CASE HandlerCancels
  BY <1>2, <1>8 DEF HandlerCancels
<1>9. CASE MainSleeps \/ HandlerGathers \/ HandlerRemoves \/ HandlerRemovesPod
           \/ Healths \/ UNCHANGED vars
  BY <1>9 DEF MainSleeps, HandlerGathers, HandlerRemoves, HandlerRemovesPod,
              Healths, vars, control
<1> QED BY <1>3, <1>4, <1>5, <1>6, <1>7, <1>8, <1>9 DEF Next, MainSteps, HandlerSteps

LEMMA CollectedNext == TypeOK /\ CollectedInv /\ [Next]_vars => CollectedInv'
<1> SUFFICES ASSUME TypeOK, CollectedInv, [Next]_vars PROVE CollectedInv'
  OBVIOUS
<1>1. /\ \A c \in Selected \ tasks : task[c] \in Over
      /\ main = "returned" => tasks = {}
      /\ tasks \subseteq Selected /\ Selected \subseteq Containers
      /\ task \in [Containers -> TaskStates]
  BY UpType DEF CollectedInv, TypeOK, Selected
<1>2. \A c \in Selected : task[c] \in Over => task'[c] \in Over
  BY <1>1, OverStays
<1>3. CASE UNCHANGED <<tasks, main>>
  BY <1>1, <1>2, <1>3, SessionKept DEF CollectedInv
<1>4. CASE MainCollects
  <2>1. PICK done : Conclude(done, tasks \ Done, task)
    BY <1>4 DEF MainCollects
  <2>2. tasks' = tasks \ Done /\ (main' = "returned" => tasks' = {})
    BY <1>1, <2>1, ConcludeStates
  <2> QED BY <1>1, <1>2, <2>2, SessionKept DEF CollectedInv, Done
<1>5. CASE MainSleeps
  BY <1>1, <1>2, <1>5, SessionKept DEF MainSleeps, CollectedInv, Done
<1>6. CASE MainAborts
  <2>1. PICK C : Conclude(finished, tasks, CancelAll(C))
    BY <1>6 DEF MainAborts
  <2>2. tasks' = tasks /\ (main' = "returned" => tasks' = {})
    BY <1>1, <2>1, ConcludeStates, CancelAllStates
  <2> QED BY <1>1, <1>2, <2>2, SessionKept DEF CollectedInv
<1>7. Interrupt \/ HandlerSteps => UNCHANGED <<tasks, main>>
  BY HandlerType
<1>8. (\E c \in Containers : TaskSteps(c) \/ Exits(c) \/ Obeys(c))
        => UNCHANGED <<tasks, main>>
  BY TaskType
<1>9. Healths \/ UNCHANGED vars => UNCHANGED <<tasks, main>>
  BY DEF Healths, vars, control
<1> QED BY <1>3, <1>4, <1>5, <1>6, <1>7, <1>8, <1>9 DEF Next, MainSteps
(* Where the main task and the handler can go. *)
LEMMA ControlMoves ==
  ASSUME TypeOK, [Next]_vars
  PROVE  /\ main = "raised" => main' = "raised"
         /\ exiting => exiting'
         /\ handler # "none" => handler' # "none"
         /\ handler = "ended" => handler' = "ended"
<1>1. CASE MainCollects \/ MainAborts
  <2>1. /\ main \in {"wait", "sleep"}
        /\ \E done, rest : \E t \in [Containers -> TaskStates] : Conclude(done, rest, t)
    BY <1>1, CancelAllStates DEF MainCollects, MainAborts, TypeOK
  <2>2. exiting => exiting'
    BY <1>1 DEF MainCollects, MainAborts
  <2> QED BY <2>1, <2>2, ConcludeStates
<1>2. CASE MainSleeps
  BY <1>2 DEF MainSleeps
<1>3. CASE Interrupt \/ HandlerSteps
  <2>1. UNCHANGED <<main, exiting>> /\ handler' # "none"
    BY <1>3, HandlerType
  <2>2. handler # "ended"
    BY <1>3 DEF Interrupt, HandlerSteps, HandlerStops, HandlerGathers, HandlerRemoves,
                HandlerRemovesPod, HandlerCancels
  <2> QED BY <2>1, <2>2
<1>4. ASSUME NEW c \in Containers, TaskSteps(c) \/ Exits(c) \/ Obeys(c)
      PROVE  UNCHANGED <<main, exiting, handler>>
  BY <1>4, TaskType
<1>5. Healths \/ UNCHANGED vars => UNCHANGED <<main, exiting, handler>>
  BY DEF Healths, vars, control
<1> QED BY <1>1, <1>2, <1>3, <1>4, <1>5 DEF Next, MainSteps

LEMMA TerminatedNext == TypeOK /\ TerminatedInv /\ [Next]_vars => TerminatedInv'
<1> SUFFICES ASSUME TypeOK, TerminatedInv, [Next]_vars, main' # "raised",
                    NEW c \in Containers, task'[c] = "terminating"
             PROVE  exiting' \/ handler' = "ended"
  BY DEF TerminatedInv
<1>1. /\ task \in [Containers -> TaskStates] /\ task[c] \in TaskStates
      /\ main # "raised"
      /\ task[c] = "terminating" => exiting \/ handler = "ended"
  BY ControlMoves DEF TypeOK, TerminatedInv
<1>2. CASE task[c] = "terminating"
  BY <1>1, <1>2, ControlMoves
<1>3. ASSUME NEW e \in Containers, TaskSteps(e) \/ Exits(e) \/ Obeys(e) \/ HandlerStops(e)
      PROVE  task[c] = "terminating"
  BY <1>1, <1>3, DetachedStates
     DEF TaskSteps, WaitBegins, CheckFails, WaitFails, Observe, Launch, Reap, Kill,
         Exits, Obeys, HandlerStops
<1>4. CASE MainCollects
  <2>1. PICK done, rest : Conclude(done, rest, task)
    BY <1>4 DEF MainCollects
  <2>2. task'[c] = task[c]
    BY <1>1, <2>1, ConcludeStates
  <2> QED BY <1>2, <2>2
<1>5. CASE MainAborts
  BY <1>5 DEF MainAborts
<1>6. CASE HandlerCancels
  BY <1>6 DEF HandlerCancels
<1>7. CASE Interrupt
  <2>1. task[c] = "terminating"
    BY <1>1, <1>7 DEF Interrupt
  <2> QED BY <1>2, <2>1
<1>8. CASE MainSleeps \/ HandlerGathers \/ HandlerRemoves \/ HandlerRemovesPod
           \/ Healths \/ UNCHANGED vars
  <2>1. task[c] = "terminating"
    BY <1>8 DEF MainSleeps, HandlerGathers, HandlerRemoves, HandlerRemovesPod,
                Healths, vars, control
  <2> QED BY <1>2, <2>1
<1> QED BY <1>2, <1>3, <1>4, <1>5, <1>6, <1>7, <1>8 DEF Next, MainSteps, HandlerSteps

(* A step that neither launches nor is about the container itself leaves it *)
(* watched.                                                                *)
LEMMA WatchedMoves ==
  ASSUME TypeOK, [Next]_vars, NEW c \in Containers, Watched(c),
         task'[c] = task[c], c \in signalled' \/ task[c] = "attached"
  PROVE  Watched(c)'
BY ControlMoves DEF Watched

LEMMA RunningNext ==
  HealthWaited /\ IInv /\ [Next]_vars => RunningInv'
<1> SUFFICES ASSUME HealthWaited, IInv, [Next]_vars, main' # "raised",
                    NEW c \in Containers, c \notin Stubborn, c \notin revived', Up(c)'
             PROVE  Watched(c)'
  BY DEF RunningInv
<1>0. TypeOK /\ OrderInv /\ AttachedInv /\ CollectedInv /\ TerminatedInv /\ RunningInv
  BY DEF IInv, RunInv
<1>1. /\ task \in [Containers -> TaskStates] /\ task[c] \in TaskStates
      /\ task[c] \in Attached => Up(c)
      /\ c \in launched => task[c] \notin NotLaunched
      /\ main # "raised"
      /\ task[c] \in {"attached", "terminating"} => c \in tasks
  <2>1. task[c] \in {"attached", "terminating"} => c \in Selected
    BY <1>0 DEF OrderInv, IdleInv
  <2> QED BY <1>0, <2>1, ControlMoves
          DEF TypeOK, AttachedInv, CollectedInv, OrderInv, StartedInv, Over
<1>2. c \notin revived
  <2>1. ASSUME NEW e \in Containers, TaskSteps(e) \/ Exits(e) \/ Obeys(e)
        PROVE  revived \subseteq revived'
    BY <2>1 DEF TaskSteps, WaitBegins, CheckFails, WaitFails, Observe, Launch, Reap, Kill,
                Exits, Obeys, history
  <2>2. MainSteps \/ Interrupt \/ HandlerSteps \/ Healths \/ UNCHANGED vars
          => revived' = revived
    BY <1>0, MainType, HandlerType DEF Healths, vars, history
  <2> QED BY <2>1, <2>2 DEF Next
<1>3. Up(c) => Watched(c)
  BY <1>0, <1>1, <1>2 DEF RunningInv
<1>4. ASSUME NEW e \in Containers, Launch(e) PROVE Watched(c)'
  <2>1. CASE c = e
    <3>1. Exists(c)
      BY <1>4, <2>1 DEF Launch, PodmanStart, Exists, Up, UpStates
    <3>2. task'[c] = "attached"
      BY <1>1, <1>4, <2>1, <3>1 DEF Launch
    <3> QED BY <3>2 DEF Watched
  <2>2. CASE c # e /\ Up(c)
    BY <1>1, <1>3, <1>4, <2>2 DEF Launch, Watched
  <2>3. CASE c # e /\ ~ Up(c)
    <3>1. c \in requires[e] /\ Exists(e)
      BY <1>0, <1>4, <2>3 DEF Launch, PodmanStart, Up, TypeOK, StoreTypeOK
    <3>2. task[c] \notin NotLaunched /\ task[c] \notin Attached
      BY <1>0, <1>1, <1>4, <2>3, <3>1, RequiredLaunched
    <3>3. task[c] \in Over \cup {"ended"}
      BY <1>1, <3>2 DEF TaskStates
    <3>4. c \in revived'
      BY <1>4, <2>3, <3>1, <3>3 DEF Launch
    <3> QED BY <3>4
  <2> QED BY <2>1, <2>2, <2>3
<1>5. CASE \A e \in Containers : ~ Launch(e)
  <2>0. Watched(c) /\ Up(c) /\ task[c] \in {"attached", "terminating", "cancelled"}
    BY <1>0, <1>3, <1>5, OnlyLaunchStarts DEF Falls, Watched
  <2>1. ASSUME NEW e \in Containers, TaskSteps(e) PROVE Watched(c)'
    <3>1. task'[c] = task[c] /\ signalled' = signalled
      BY <1>1, <1>5, <2>0, <2>1, DetachedStates DEF TaskSteps, WaitBegins, CheckFails,
         WaitFails, Observe, Reap, Kill
    <3> QED BY <1>0, <2>0, <3>1, WatchedMoves DEF Watched
  <2>2. ASSUME NEW e \in Containers, Exits(e) \/ Obeys(e) \/ HandlerStops(e)
        PROVE  Watched(c)'
    <3>1. c # e
      BY <1>0, <2>0, <2>2
         DEF Exits, Obeys, HandlerStops, Exit, PodmanStop, Up, UpStates, TypeOK, StoreTypeOK
    <3>2. task'[c] = task[c] /\ (c \in signalled => c \in signalled')
      BY <1>1, <2>2, <3>1, DetachedStates DEF Exits, Obeys, HandlerStops
    <3> QED BY <1>0, <2>0, <3>2, WatchedMoves DEF Watched
  <2>3. CASE MainCollects
    <3>1. PICK done, rest : Conclude(done, rest, task)
      BY <2>3 DEF MainCollects
    <3>2. task'[c] = task[c] /\ signalled' = signalled
      BY <1>0, <1>1, <2>3, <3>1, ConcludeStates DEF MainCollects
    <3> QED BY <1>0, <2>0, <3>2, WatchedMoves DEF Watched
  <2>4. CASE MainAborts
    <3> DEFINE C == {e \in tasks : task[e] # "terminating"}
    <3>1. Conclude(finished, tasks, CancelAll(C)) /\ exiting' /\ signalled' = Signals(tasks)
      BY <2>4 DEF MainAborts
    <3>2. task'[c] = CancelAll(C)[c]
      BY <1>0, <1>1, <3>1, ConcludeStates, CancelAllStates
    <3>3. task'[c] = IF c \in C THEN Cancel(task[c]) ELSE task[c]
      BY <1>1, <3>2, CancelAllStates
    <3>4. CASE task[c] = "attached"
      <4>1. task'[c] = "terminating"
        BY <1>1, <3>3, <3>4, CancelStates
      <4>2. c \in signalled'
        BY <1>1, <3>1, <3>4 DEF Signals
      <4> QED BY <4>1, <4>2 DEF Watched
    <3>5. CASE task[c] # "attached"
      <4>1. task'[c] = task[c]
        BY <1>1, <2>0, <3>3, <3>5, CancelStates DEF Over
      <4>2. signalled \subseteq signalled'
        BY <3>1 DEF Signals
      <4> QED BY <1>0, <2>0, <4>1, <4>2, WatchedMoves DEF Watched
    <3> QED BY <3>4, <3>5
  <2>5. CASE Interrupt
    <3>1. task'[c] = task[c] /\ signalled' = signalled
      BY <1>1, <2>0, <2>5 DEF Interrupt, Waits
    <3> QED BY <1>0, <2>0, <3>1, WatchedMoves DEF Watched
  <2>6. CASE HandlerCancels
    <3>1. task'[c] = (IF c \in tasks THEN Cancel(task[c]) ELSE task[c])
          /\ signalled' = Signals(tasks) /\ handler = "cancel" /\ handler' = "ended"
          /\ exiting' = exiting
      BY <1>1, <2>6, CancelAllStates DEF HandlerCancels
    <3>2. signalled \subseteq signalled'
      BY <3>1 DEF Signals
    <3>3. CASE task[c] = "attached"
      <4>1. task'[c] = "terminating" /\ c \in signalled'
        BY <1>1, <3>1, <3>3, CancelStates DEF Signals
      <4> QED BY <4>1 DEF Watched
    <3>4. CASE task[c] = "terminating"
      <4>1. task'[c] = "cancelled" /\ exiting /\ c \in signalled
        BY <1>0, <1>1, <2>0, <3>1, <3>4, CancelStates DEF TerminatedInv, Watched
      <4> QED BY <3>1, <3>2, <4>1 DEF Watched
    <3>5. CASE task[c] = "cancelled"
      <4>1. task'[c] = task[c]
        BY <1>1, <3>1, <3>5, CancelStates DEF Over
      <4> QED BY <1>0, <2>0, <3>2, <3>5, <4>1, WatchedMoves DEF Watched
    <3> QED BY <2>0, <3>3, <3>4, <3>5
  <2>7. CASE MainSleeps \/ HandlerGathers \/ HandlerRemoves \/ HandlerRemovesPod
             \/ Healths \/ UNCHANGED vars
    <3>1. task'[c] = task[c] /\ signalled' = signalled
      BY <2>7 DEF MainSleeps, HandlerGathers, HandlerRemoves, HandlerRemovesPod,
                  Healths, vars, control
    <3> QED BY <1>0, <2>0, <3>1, WatchedMoves DEF Watched
  <2> QED BY <2>1, <2>2, <2>3, <2>4, <2>5, <2>6, <2>7
          DEF Next, MainSteps, HandlerSteps
<1> QED BY <1>4, <1>5
-----------------------------------------------------------------------------
LEMMA InvInit == Init => IInv
BY TypeInit, OrderInit, RunInit DEF IInv

LEMMA InvNext == HealthWaited /\ IInv /\ [Next]_vars => IInv'
<1> SUFFICES ASSUME HealthWaited, IInv, [Next]_vars PROVE IInv'
  OBVIOUS
<1>1. TypeOK'
  BY TypeNext DEF IInv
<1>2. OrderInv'
  BY IdleNext, WantedNext, RequiresNext, StartedNext DEF IInv, OrderInv
<1>3. RunInv'
  BY AttachedNext, CollectedNext, TerminatedNext, RunningNext DEF IInv, RunInv
<1> QED BY <1>1, <1>2, <1>3 DEF IInv

(* The tasks, the main task and the handler only reach the states they are *)
(* given (run_container, compose_up and its handle_sigint).                *)
THEOREM TypeCorrect == Spec => []TypeOK
BY TypeInit, TypeNext, PTL DEF Spec

(* Where podman can wait for health checks, an attached up that returns has *)
(* left nothing running but what ignores SIGTERM, what podman started again *)
(* for another container, and what Ctrl+C cancelled twice (compose_up, its  *)
(* handle_sigint, Podman.run).                                             *)
THEOREM NothingLeftRunningTheorem ==
  ASSUME HealthWaited
  PROVE  Spec => []NothingLeftRunning
<1>1. IInv => NothingLeftRunning
  <2> SUFFICES ASSUME IInv, main = "returned",
                      NEW c \in Containers \ (Stubborn \cup revived), Up(c)
               PROVE  handler # "none" /\ exiting /\ c \in signalled
    BY DEF NothingLeftRunning
  <2>1. Watched(c)
    BY DEF IInv, RunInv, RunningInv
  <2>2. task[c] \in Over
    <3>1. c \in Selected
      BY <2>1 DEF IInv, OrderInv, IdleInv, Watched
    <3> QED BY <3>1 DEF IInv, RunInv, CollectedInv
  <2> QED BY <2>1, <2>2 DEF Watched, Over
<1>2. IInv /\ [Next]_vars => IInv'
  BY InvNext
<1> QED BY <1>1, <1>2, InvInit, PTL DEF Spec

LEMMA RefinementInit == Init => LaunchOrderPromise!Init
<1> SUFFICES ASSUME Init PROVE LaunchOrderPromise!Init
  OBVIOUS
<1>1. \A c \in Containers : Honoured(session.up, c) \subseteq Containers \X Conditions
  BY UpType DEF Init, Dependencies
<1>2. Wanted \in [Containers -> SUBSET (Containers \X Conditions)]
  BY <1>1 DEF Wanted
<1> QED BY <1>2 DEF Init, LaunchOrderPromise!Init, LaunchOrderPromise!Dependencies

LEMMA RefinementNext ==
  IInv /\ [Next]_vars => [LaunchOrderPromise!Next]_(LaunchOrderPromise!abstract)
<1> SUFFICES ASSUME IInv, [Next]_vars
             PROVE  [LaunchOrderPromise!Next]_(LaunchOrderPromise!abstract)
  OBVIOUS
<1>1. Wanted' = Wanted
  BY SessionKept DEF Wanted
<1>2. ASSUME NEW c \in Containers, Launch(c) PROVE LaunchOrderPromise!Next
  <2>1. Wanted[c] \subseteq observed
    BY <1>2 DEF Launch, Wanted, IInv, OrderInv, WantedInv
  <2>2. launched' = launched \cup {c} /\ observed' = observed
    BY <1>2 DEF Launch
  <2>3. LaunchOrderPromise!Launch(c)
    BY <1>1, <2>1, <2>2 DEF LaunchOrderPromise!Launch
  <2> QED BY <2>3 DEF LaunchOrderPromise!Next
<1>3. ASSUME NEW c \in Containers, NEW d \in Dependencies, Observe(c, d)
      PROVE  LaunchOrderPromise!Next
  <2>1. d[1] \in launched
    BY <1>3, SeenIsLaunched DEF IInv
  <2>2. LaunchOrderPromise!Observe(d)
    BY <1>1, <1>3, <2>1 DEF Observe, LaunchOrderPromise!Observe
  <2> QED BY <2>2 DEF LaunchOrderPromise!Next, LaunchOrderPromise!Dependencies, Dependencies
<1>4. CASE UNCHANGED <<launched, observed>>
  BY <1>1, <1>4 DEF LaunchOrderPromise!abstract
<1> QED BY <1>2, <1>3, <1>4, Recorded

(* Where podman can wait for health checks, the concurrent tasks launch no *)
(* container before its dependencies have been launched and seen to meet   *)
(* their conditions (run_container, check_dep_conditions).                 *)
THEOREM LaunchesInOrderTheorem ==
  ASSUME HealthWaited
  PROVE  Spec => LaunchesInOrder
<1>1. IInv /\ [Next]_vars => IInv'
  BY InvNext
<1> QED BY <1>1, InvInit, RefinementInit, RefinementNext, PTL
        DEF Spec, LaunchesInOrder, LaunchOrderPromise!Spec
=============================================================================
