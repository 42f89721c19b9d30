--------------------------- MODULE PodmanObjects ---------------------------
(***************************************************************************)
(* What podman keeps for a project besides containers, as                  *)
(* bin/podman_compose.py uses it: volumes, networks and the pod; and the   *)
(* directories of the host that are mounted.  External, as Podman is.      *)
(***************************************************************************)
EXTENDS Podman

CONSTANTS
  Volumes, Networks, Dirs,  \* names
  Outside                   \* made by somebody else, without the label

Objects == Volumes \cup Networks \cup Dirs

ASSUME PodmanObjectsAssumption ==
  /\ Outside \subseteq Objects
  /\ Dirs \cap (Volumes \cup Networks) = {}

VARIABLES
  obj,   \* obj[r]: "absent", "labelled" with the project, or "plain"
  pod    \* whether the pod of the project exists

objects == <<obj, pod>>

Present(r) == obj[r] # "absent"
Labelled(S) == {r \in S : obj[r] = "labelled"}

ObjectsInit ==
  /\ obj = [r \in Objects |-> IF r \in Outside THEN "plain" ELSE "absent"]
  /\ pod = FALSE

\* podman volume create and network create: fails if the name is taken.
ObjectCreate(r) ==
  obj' = IF Present(r) THEN obj ELSE [obj EXCEPT ![r] = "labelled"]

\* podman volume rm and network rm: refused while a container uses it.
ObjectRm(r, users) ==
  obj' = IF users = {} THEN [obj EXCEPT ![r] = "absent"] ELSE obj

\* podman create, given a pod, networks and mounts: these have to exist,
\* volumes excepted, which it creates without a label.
PodmanCreateIn(c, req, cfg, networks, dirs, volumes) ==
  IF pod /\ (\A r \in networks \cup dirs : Present(r)) /\ Creatable(c, req)
  THEN /\ PodmanCreate(c, req, cfg)
       /\ obj' = [r \in Objects |-> IF r \in volumes /\ ~ Present(r) THEN "plain"
                                                                     ELSE obj[r]]
       /\ UNCHANGED pod
  ELSE UNCHANGED <<store, objects>>

\* podman pod rm: as PodmanPodRm, for the pod itself too.
PodRm ==
  IF pod THEN PodmanPodRm /\ pod' = (\E c \in Containers : Up(c))
         ELSE UNCHANGED <<store, pod>>

ObjectsTypeOK ==
  /\ obj \in [Objects -> {"absent", "labelled", "plain"}]
  /\ pod \in BOOLEAN
=============================================================================
