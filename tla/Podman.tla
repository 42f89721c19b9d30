------------------------------- MODULE Podman -------------------------------
(***************************************************************************)
(* The podman container store, as bin/podman_compose.py uses it: what the  *)
(* commands create, start, stop, rm, pod rm and wait do to the containers  *)
(* of one project, and what containers do by themselves.  Podman is not    *)
(* part of the repository; every definition here is external.              *)
(***************************************************************************)
EXTENDS FiniteSets

CONSTANTS
  Containers,   \* names of the containers of the project, past and present
  Configs,      \* values of the label io.podman.compose.config-hash
  None,         \* no configuration
  Checked,      \* containers with a health check
  Flaky,        \* containers whose health check may fail
  Exiting       \* containers that may exit by themselves

ASSUME PodmanAssumption ==
  /\ Checked \subseteq Containers /\ Flaky \subseteq Checked
  /\ Exiting \subseteq Containers
  /\ None \notin Configs

VARIABLES
  ctr,       \* ctr[c]: the state of container c
  requires,  \* requires[c]: the containers given to create with --requires
  config     \* config[c]: the configuration c was created from

store == <<ctr, requires, config>>

UpStates == {"running", "healthy", "unhealthy"}
States == UpStates \cup {"absent", "created", "exited"}

Up(c) == ctr[c] \in UpStates
Exists(c) == ctr[c] # "absent"
Existing == {c \in Containers : Exists(c)}

\* Containers that exist and were created with --requires=c.
Dependents(c) == {d \in Existing : c \in requires[d]}

StoreInit ==
  /\ ctr = [c \in Containers |-> "absent"]
  /\ requires = [c \in Containers |-> {}]
  /\ config = [c \in Containers |-> None]

-----------------------------------------------------------------------------
(* podman create: fails if the name is taken or a required container is    *)
(* missing.                                                                *)
Creatable(c, req) == ~ Exists(c) /\ req \subseteq Existing

PodmanCreate(c, req, cfg) ==
  IF Creatable(c, req)
  THEN /\ ctr' = [ctr EXCEPT ![c] = "created"]
       /\ requires' = [requires EXCEPT ![c] = req]
       /\ config' = [config EXCEPT ![c] = cfg]
  ELSE UNCHANGED store

\* podman start: the required containers that are down are started first
\* (the lists given with --requires are closed, see DepsClosed).
PodmanStart(c) ==
  LET started == IF Exists(c) THEN {c} \cup requires[c] ELSE {} IN
  /\ ctr' = [d \in Containers |->
               IF d \in started /\ Exists(d) /\ ~ Up(d) THEN "running" ELSE ctr[d]]
  /\ UNCHANGED <<requires, config>>

PodmanStop(c) ==
  /\ ctr' = IF Up(c) THEN [ctr EXCEPT ![c] = "exited"] ELSE ctr
  /\ UNCHANGED <<requires, config>>

\* podman rm without --force: refused while the container is up or another
\* one requires it.
PodmanRm(c) ==
  IF Exists(c) /\ ~ Up(c) /\ Dependents(c) = {}
  THEN /\ ctr' = [ctr EXCEPT ![c] = "absent"]
       /\ requires' = [requires EXCEPT ![c] = {}]
       /\ config' = [config EXCEPT ![c] = None]
  ELSE UNCHANGED store

\* podman pod rm without --force: refused while a container of the pod is
\* up; removes the containers of the pod otherwise.
PodmanPodRm ==
  IF \E c \in Containers : Up(c)
  THEN UNCHANGED store
  ELSE /\ ctr' = [c \in Containers |-> "absent"]
       /\ requires' = [c \in Containers |-> {}]
       /\ config' = [c \in Containers |-> None]

\* What podman wait --condition waits for, in the order of the members of
\* ServiceDependencyCondition (those for which a compose value exists, and
\* unhealthy).
Conditions == {"healthy", "running", "stopped", "unhealthy"}

Rank(cond) == CASE cond = "healthy" -> 1 [] cond = "running" -> 2
                [] cond = "stopped" -> 3 [] cond = "unhealthy" -> 4

Satisfies(c, cond) ==
  CASE cond = "running" -> Up(c)
    [] cond = "stopped" -> ctr[c] = "exited"
    [] OTHER -> ctr[c] = cond

-----------------------------------------------------------------------------
(* What happens to a container without any command.                        *)

BecomeHealthy(c) ==
  /\ c \in Checked /\ ctr[c] \in {"running", "unhealthy"}
  /\ ctr' = [ctr EXCEPT ![c] = "healthy"]
  /\ UNCHANGED <<requires, config>>

BecomeUnhealthy(c) ==
  /\ c \in Flaky /\ ctr[c] \in {"running", "healthy"}
  /\ ctr' = [ctr EXCEPT ![c] = "unhealthy"]
  /\ UNCHANGED <<requires, config>>

Exit(c) ==
  /\ c \in Exiting /\ Up(c)
  /\ ctr' = [ctr EXCEPT ![c] = "exited"]
  /\ UNCHANGED <<requires, config>>

StoreTypeOK ==
  /\ ctr \in [Containers -> States]
  /\ requires \in [Containers -> SUBSET Containers]
  /\ config \in [Containers -> Configs \cup {None}]
=============================================================================
