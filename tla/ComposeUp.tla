----------------------------- MODULE ComposeUp -----------------------------
(***************************************************************************)
(* podman-compose up -d (or --no-start) and down: compose_up, compose_down,*)
(* get_excluded, check_dep_conditions and run_container of                 *)
(* bin/podman_compose.py, one command after the other against the podman   *)
(* store.  A command may be killed between any two podman calls, and the   *)
(* containers change state by themselves all the time.                     *)
(***************************************************************************)
EXTENDS Selection

CONSTANT Invocations   \* the commands a user may give

ASSUME ComposeUpAssumption ==
  /\ IsFiniteSet(Containers)
  /\ Invocations \subseteq Invocation
  /\ None \notin Invocations
  /\ \A i \in Invocations : /\ ParsedStack(i.stack)
                            /\ i.services \subseteq Members(i.stack)

VARIABLES
  cmd,       \* the command that runs, or the last one
  pc,        \* where it is
  idx,       \* position in compose.containers
  pending,   \* containers the tasks or loops of compose_down still have to do
  waiting,   \* dependencies check_dep_conditions has not seen satisfied yet
  created,   \* history: containers this command has created
  launched,  \* history: containers this command has started
  observed,  \* history: dependencies this command has waited for
  consistent \* history: the store agreed with the stack when it began

history == <<created, launched, observed, consistent>>
control == <<cmd, pc, idx, pending, waiting>>
vars == <<store, control, history>>

Finished == {"done", "KeyError", "killed"}
Order == cmd.stack.order
Current == Order[idx]

Init ==
  /\ StoreInit
  /\ cmd = None /\ pc = "done" /\ idx = 0
  /\ pending = {} /\ waiting = {}
  /\ created = {} /\ launched = {} /\ observed = {} /\ consistent = TRUE

-----------------------------------------------------------------------------
(* compose_down, also called by compose_up to recreate.                    *)

\* A command line, once no other command runs.
Begin(i) ==
  /\ pc \in Finished
  /\ cmd' = i
  /\ IF i.op = "down" \/ Recreates(i)
     THEN pc' = "stop" /\ pending' = Included(i) /\ idx' = Len(i.stack.order)
     ELSE pc' = "create" /\ pending' = {} /\ idx' = 1
  /\ waiting' = {}
  /\ created' = {} /\ launched' = {} /\ observed' = {}
  /\ consistent' = Consistent(i)
  /\ UNCHANGED store

\* The tasks that stop the containers run concurrently.
StopContainer(c) ==
  /\ pc = "stop" /\ c \in pending
  /\ PodmanStop(c)
  /\ pending' = pending \ {c}
  /\ UNCHANGED <<cmd, pc, idx, waiting, history>>

\* asyncio.gather: all of them have ended.
StopsGathered ==
  /\ pc = "stop" /\ pending = {}
  /\ pc' = "rm"
  /\ UNCHANGED <<store, cmd, idx, pending, waiting, history>>

\* A bug to catch: the list is not reversed.
RmContainerForwards ==
  /\ pc = "rm" /\ idx > 0
  /\ LET c == Order[Len(Order) + 1 - idx] IN
       IF c \in Included(cmd) THEN PodmanRm(c) ELSE UNCHANGED store
  /\ idx' = idx - 1
  /\ UNCHANGED <<cmd, pc, pending, waiting, history>>

RmContainer ==
  /\ pc = "rm" /\ idx > 0
  /\ IF Current \in Included(cmd) THEN PodmanRm(Current) ELSE UNCHANGED store
  /\ idx' = idx - 1
  /\ UNCHANGED <<cmd, pc, pending, waiting, history>>

RmEnds ==
  /\ pc = "rm" /\ idx = 0
  /\ IF cmd.remove_orphans
     THEN pc' = "stop_orphans" /\ pending' = Existing
     ELSE pc' = "rm_pod" /\ UNCHANGED pending
  /\ UNCHANGED <<store, cmd, idx, waiting, history>>

\* The names podman ps returned, in its order.
StopOrphan(c) ==
  /\ pc = "stop_orphans" /\ c \in pending
  /\ PodmanStop(c)
  /\ pending' = pending \ {c}
  /\ UNCHANGED <<cmd, pc, idx, waiting, history>>

OrphansStopped ==
  /\ pc = "stop_orphans" /\ pending = {}
  /\ pc' = "rm_orphans" /\ pending' = Existing
  /\ UNCHANGED <<store, cmd, idx, waiting, history>>

RmOrphan(c) ==
  /\ pc = "rm_orphans" /\ c \in pending
  /\ PodmanRm(c)
  /\ pending' = pending \ {c}
  /\ UNCHANGED <<cmd, pc, idx, waiting, history>>

OrphansRemoved ==
  /\ pc = "rm_orphans" /\ pending = {}
  /\ pc' = "rm_pod"
  /\ UNCHANGED <<store, cmd, idx, pending, waiting, history>>

\* A bug to catch: the early return for excluded services is missing.
RmPodAlways ==
  /\ pc = "rm_pod"
  /\ PodmanPodRm
  /\ IF cmd.op = "up" THEN pc' = "create" /\ idx' = 1
                      ELSE pc' = "done" /\ UNCHANGED idx
  /\ UNCHANGED <<cmd, pending, waiting, history>>

\* The pod goes only with the whole project; up continues after that.
RmPod ==
  /\ pc = "rm_pod"
  /\ IF Excludes(cmd) THEN UNCHANGED store ELSE PodmanPodRm
  /\ IF cmd.op = "up" THEN pc' = "create" /\ idx' = 1
                      ELSE pc' = "done" /\ UNCHANGED idx
  /\ UNCHANGED <<cmd, pending, waiting, history>>

-----------------------------------------------------------------------------
(* The loop of compose_up: create a container, then start it once its      *)
(* dependencies are fulfilled.  The outcome of create is not looked at.    *)

SkipContainer ==
  /\ pc = "create" /\ idx \in DOMAIN Order /\ Current \notin Included(cmd)
  /\ idx' = idx + 1
  /\ UNCHANGED <<store, cmd, pc, pending, waiting, history>>

\* A bug to catch: containers are started as soon as they are created, as
\* podman-compose 1.3.0 did.
CreateContainerAndStart ==
  /\ pc = "create" /\ idx \in DOMAIN Order /\ Current \in Included(cmd)
  /\ LET req == NamesOf(DepsOf(cmd, Current)) \cap Members(cmd.stack) IN
     /\ PodmanCreate(Current, req, cmd.stack.config)
     /\ created' = IF Creatable(Current, req) THEN created \cup {Current}
                                              ELSE created
  /\ pc' = "wait" /\ waiting' = {}
  /\ UNCHANGED <<cmd, idx, pending, launched, observed, consistent>>

CreateContainer ==
  /\ pc = "create" /\ idx \in DOMAIN Order /\ Current \in Included(cmd)
  /\ LET req == NamesOf(DepsOf(cmd, Current)) \cap Members(cmd.stack) IN
     /\ PodmanCreate(Current, req, cmd.stack.config)
     /\ created' = IF Creatable(Current, req) THEN created \cup {Current}
                                              ELSE created
  /\ IF cmd.no_start
     THEN idx' = idx + 1 /\ UNCHANGED <<pc, waiting>>
     ELSE pc' = "wait" /\ waiting' = Honoured(cmd, Current) /\ UNCHANGED idx
  /\ UNCHANGED <<cmd, pending, launched, observed, consistent>>

\* A bug to catch: service_completed_successfully is taken for a container
\* that runs.
ObserveRunning(d) ==
  /\ pc = "wait" /\ d \in Turn(waiting)
  /\ NamesOf(Turn(waiting)) \subseteq Members(cmd.stack) \cap Existing
  /\ Satisfies(d[1], IF d[2] = "stopped" THEN "running" ELSE d[2])
  /\ waiting' = waiting \ {d}
  /\ observed' = observed \cup {d}
  /\ UNCHANGED <<store, cmd, pc, idx, pending, created, launched, consistent>>

\* podman wait has seen d satisfied.  It fails, and is tried again a second
\* later, while one of the containers does not exist.
Observe(d) ==
  /\ pc = "wait" /\ d \in Turn(waiting)
  /\ NamesOf(Turn(waiting)) \subseteq Members(cmd.stack) \cap Existing
  /\ Satisfies(d[1], d[2])
  /\ waiting' = waiting \ {d}
  /\ observed' = observed \cup {d}
  /\ UNCHANGED <<store, cmd, pc, idx, pending, created, launched, consistent>>

\* container_names_by_service[d.name]: the service is in no file given.
CheckFails ==
  /\ pc = "wait" /\ ~ NamesOf(Turn(waiting)) \subseteq Members(cmd.stack)
  /\ pc' = "KeyError"
  /\ UNCHANGED <<store, cmd, idx, pending, waiting, history>>

\* A bug to catch: the loop goes on to the next container without creating it.
StartContainerOnly ==
  /\ pc = "wait" /\ waiting = {}
  /\ PodmanStart(Current)
  /\ launched' = launched \cup {Current}
  /\ idx' = idx + 1
  /\ UNCHANGED <<cmd, pc, pending, waiting, created, observed, consistent>>

StartContainer ==
  /\ pc = "wait" /\ waiting = {}
  /\ PodmanStart(Current)
  /\ launched' = launched \cup {Current}
  /\ pc' = "create" /\ idx' = idx + 1
  /\ UNCHANGED <<cmd, pending, waiting, created, observed, consistent>>

UpEnds ==
  /\ pc = "create" /\ idx \notin DOMAIN Order
  /\ pc' = "done"
  /\ UNCHANGED <<store, cmd, idx, pending, waiting, history>>

\* The process is killed, the containers stay.
Killed ==
  /\ pc \notin Finished
  /\ pc' = "killed"
  /\ UNCHANGED <<store, cmd, idx, pending, waiting, history>>

Command ==
  \/ StopsGathered \/ RmContainer \/ RmEnds
  \/ OrphansStopped \/ OrphansRemoved \/ RmPod
  \/ \E c \in Containers : StopContainer(c) \/ StopOrphan(c) \/ RmOrphan(c)
  \/ SkipContainer \/ CreateContainer
  \/ \E d \in Dependencies : Observe(d)
  \/ CheckFails \/ StartContainer \/ UpEnds

Environment ==
  /\ \E c \in Containers : BecomeHealthy(c) \/ BecomeUnhealthy(c) \/ Exit(c)
  /\ UNCHANGED <<control, history>>

Next ==
  \/ \E i \in Invocations : Begin(i)
  \/ Command \/ Killed \/ Environment

Spec == Init /\ [][Next]_vars

\* Nobody kills a command.
CalmSpec == Init /\ [][Next /\ pc' # "killed"]_vars

\* The scheduler of asyncio runs what can run; health checks of containers
\* that can become healthy do, and one-shot containers come to an end.
FairSpec ==
  /\ Spec /\ WF_vars(Command)
  /\ \A c \in Containers :
       /\ WF_vars(BecomeHealthy(c) /\ UNCHANGED <<control, history>>)
       /\ WF_vars(Exit(c) /\ UNCHANGED <<control, history>>)

-----------------------------------------------------------------------------
(* Properties.                                                             *)

TypeOK ==
  /\ StoreTypeOK
  /\ cmd \in Invocations \cup {None}
  /\ pc \in Finished \cup {"stop", "rm", "stop_orphans", "rm_orphans", "rm_pod",
                           "create", "wait"}
  /\ cmd = None => pc = "done"
  /\ idx \in Nat
  /\ pc = "wait" => idx \in DOMAIN Order
  /\ pending \in SUBSET Containers
  /\ waiting \in SUBSET Dependencies
  /\ created \in SUBSET Containers
  /\ launched \in SUBSET Containers
  /\ observed \in SUBSET Dependencies
  /\ consistent \in BOOLEAN

\* What the command that runs wants to see before it launches c.
Wanted ==
  [c \in Containers |->
     IF cmd = None THEN {}
     ELSE IF cmd.op = "up" /\ c \in Included(cmd) THEN Honoured(cmd, c) ELSE {}]

\* Detailed launches implement the promise of LaunchOrder.
LaunchOrderPromise == INSTANCE LaunchOrder WITH wanted <- Wanted

LaunchesInOrder == LaunchOrderPromise!Spec

\* When an up of the whole stack returns and the project has no other
\* container, every container is made from the configuration given, and by
\* this very command with --force-recreate; also after a command that was
\* killed half-way, and when the dependencies have changed.  Containers
\* outside the selection spoil it (RecreatesAlways).
UpIsCurrent ==
  pc = "done" /\ cmd # None /\ cmd.op = "up" =>
    (~ Excludes(cmd) /\ Existing \subseteq Included(cmd) =>
       \A c \in Included(cmd) :
         /\ Exists(c) /\ config[c] = cmd.stack.config
         /\ cmd.force_recreate => c \in created)

\* Down removes the selected containers one by one before it turns to
\* orphans and the pod: each is stopped at its turn, and nothing is left that
\* requires it.
DownRemoves ==
  pc \in {"stop_orphans", "rm_orphans", "rm_pod"} /\ consistent =>
    Included(cmd) \cap Existing = {}

\* Commands on some services never remove the container of another one, and
\* never stop it (--remove-orphans aside: it takes every container of the
\* project for an orphan).
OthersKept ==
  [][Command /\ Excludes(cmd) /\ ~ cmd.remove_orphans =>
       \A c \in Containers \ Included(cmd) :
         (Exists(c) => ctr'[c] # "absent") /\ (Up(c) => ctr'[c] \in UpStates)]_vars

\* A dependency has exited before the command looked at it, and will not
\* satisfy its condition any more: podman wait is repeated without a limit.
Missed ==
  /\ pc = "wait"
  /\ \E d \in Turn(waiting) : d[2] # "stopped" /\ d[1] \in launched /\ ctr[d[1]] = "exited"

\* Every command ends, whatever is left of earlier ones, provided health
\* checks succeed and one-shot containers exit.  The one exception: up waits
\* for ever for service_started (or service_healthy) of a container that it
\* has started itself and that has exited since.
CommandEnds == (pc \notin Finished) ~> (pc \in Finished \/ Missed)

-----------------------------------------------------------------------------
(* A property the code does not have.                                      *)

\* "Recreate containers even if their configuration and image haven't
\* changed." (--force-recreate of up), for every container it selects.
RecreatesAlways ==
  pc = "done" /\ cmd # None /\ cmd.op = "up" =>
    (cmd.force_recreate => Included(cmd) \subseteq created)
=============================================================================
