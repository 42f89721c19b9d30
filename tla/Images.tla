------------------------------- MODULE Images ------------------------------
(***************************************************************************)
(* Images: build, pull and push of bin/podman_compose.py and the build at  *)
(* the beginning of up.  build and pull run an asyncio task for each       *)
(* container or image, push one call after the other; a call of podman     *)
(* holds a permit of --parallel.                                           *)
(*                                                                         *)
(* podman and the registry are external: a build, a pull or a push may     *)
(* fail, a build makes an image of the sources it finds.                   *)
(***************************************************************************)
EXTENDS Integers, FiniteSets

CONSTANTS
  Containers,  \* containers of the compose files
  ImageNames,
  Versions,    \* versions of the sources of an image
  None,        \* no image, no result
  Commands     \* what a user may ask for

\* A container: its service, the first of it or a further replica, its image
\* and the build section.  inline: it writes a containerfile; wrong: what is
\* wrong with it, "early" or "late" when that is noticed after the
\* containerfile has been written.
Desc == [service : STRING, first : BOOLEAN, image : ImageNames, build : BOOLEAN,
         inline : BOOLEAN, wrong : {"no", "early", "late"}, registry : BOOLEAN]

ASSUME ImagesAssumption ==
  /\ IsFiniteSet(Containers)
  /\ None \notin Versions \cup {0, 1}
  /\ \A i \in Commands :
       /\ i.op \in {"build", "up", "pull", "push"}
       /\ i.stack \in [Containers -> Desc]
       /\ i.limit \in Nat \ {0}

VARIABLES
  sources,   \* sources[i]: version of the sources of image i
  image,     \* image[i]: the version the local image was made from
  cmd,       \* the command line, None before the first
  main,      \* where the main task is
  task,      \* task[c]: where the task of a container is
  result,    \* result[c]: what it has returned
  tasks,     \* containers, or images to pull or push, main still waits for
  status,    \* compose_build's status
  temp       \* containers whose containerfile the command has left in the
             \* temporary directory

control == <<main, task, result, tasks, status, temp>>
vars == <<sources, image, cmd, control>>

Over == {"none", "done", "raised", "cancelled"}
Ended == {"idle", "returned", "raised", "interrupted"}

Init ==
  /\ sources \in [ImageNames -> Versions]
  /\ image = [i \in ImageNames |-> None]
  /\ cmd = None /\ main = "idle" /\ tasks = {} /\ status = 0 /\ temp = {}
  /\ task = [c \in Containers |-> "none"]
  /\ result = [c \in Containers |-> None]

Of(c) == cmd.stack[c]
Named(i) == IF i.services = {} THEN Containers
            ELSE {c \in Containers : i.stack[c].service \in i.services}

\* build goes through all containers, or the first one of each service named.
ToBuild(i) ==
  IF i.services = {} THEN Containers ELSE {c \in Named(i) : i.stack[c].first}

\* is_local: it has a build section and no registry in its name, or none and
\* localhost (no container here).
IsLocal(d) == d.build /\ ~ d.registry

\* The images to pull: without those that are local for one of the containers.
ToPull(i) ==
  LET images(C) == {i.stack[c].image : c \in C}
  IN images(Named(i)) \ IF i.force_local THEN {}
                        ELSE images({c \in Named(i) : IsLocal(i.stack[c])})

ToPush(i) == {c \in Named(i) : i.stack[c].build}

Unknown(i) == ~ i.services \subseteq {i.stack[c].service : c \in Containers}

\* What the last command has left running (it has none) is over; the user may
\* have changed the sources.  build knows services it was given, pull and push
\* pass over them.
Begin(i) ==
  /\ main \in Ended /\ \A c \in Containers : task[c] \in Over
  /\ cmd' = i
  /\ \E changed \in SUBSET ImageNames : \E v \in Versions :
       sources' = [m \in ImageNames |-> IF m \in changed THEN v ELSE sources[m]]
  /\ status' = 0
  /\ result' = [c \in Containers |-> None]
  /\ IF i.op \in {"build", "up"}
     THEN /\ tasks' = IF Unknown(i) THEN {} ELSE ToBuild(i)
          /\ main' = IF Unknown(i) THEN "raised" ELSE "gather"
          /\ task' = [c \in Containers |-> IF c \in tasks' THEN "begin" ELSE "none"]
     ELSE /\ tasks' = IF i.op = "pull" THEN ToPull(i) ELSE ToPush(i)
          /\ main' = i.op
          /\ task' = [c \in Containers |-> "none"]
  /\ temp' = {}
  /\ UNCHANGED image

-----------------------------------------------------------------------------
(* build_one for container c.                                              *)

Building == {c \in Containers : task[c] \in {"building", "terminating"}}
Permit == Cardinality(Building) < cmd.limit

\* build's --if-not-exists; up sets it unless --build is given.
IfNotExists == IF cmd.op = "up" THEN ~ cmd.build ELSE cmd.if_not_exists

\* Nothing is to be built, or there is an image; otherwise the arguments are
\* made, which may raise, and podman build waits for a permit.
Prepare(c) ==
  /\ task[c] = "begin"
  /\ Of(c).build /\ IfNotExists => Permit
  /\ IF ~ Of(c).build \/ (IfNotExists /\ image[Of(c).image] # None)
     THEN task' = [task EXCEPT ![c] = "done"] /\ UNCHANGED temp
     ELSE /\ task' = [task EXCEPT ![c] = IF Of(c).wrong = "no" THEN "queued" ELSE "raised"]
          /\ temp' = IF Of(c).inline /\ Of(c).wrong # "early" THEN temp \cup {c} ELSE temp
  /\ UNCHANGED <<sources, image, cmd, main, result, tasks, status>>

BuildStarts(c) ==
  /\ task[c] = "queued" /\ Permit
  /\ task' = [task EXCEPT ![c] = "building"]
  /\ UNCHANGED <<sources, image, cmd, main, result, tasks, status, temp>>

\* A bug to catch: cleanup after a success only.
BuildEndsHalf(c) ==
  /\ task[c] \in {"building", "terminating"}
  /\ \E ok \in BOOLEAN :
       /\ image' = IF ok THEN [image EXCEPT ![Of(c).image] = sources[Of(c).image]] ELSE image
       /\ result' = [result EXCEPT ![c] = IF ok THEN 0 ELSE 1]
       /\ temp' = IF ok THEN temp \ {c} ELSE temp
  /\ task' = [task EXCEPT ![c] = "done"]
  /\ UNCHANGED <<sources, cmd, main, tasks, status>>

\* podman build ends, also when run has terminated it: the callbacks run.
BuildEnds(c) ==
  /\ task[c] \in {"building", "terminating"}
  /\ \E ok \in BOOLEAN :
       /\ image' = IF ok THEN [image EXCEPT ![Of(c).image] = sources[Of(c).image]] ELSE image
       /\ result' = [result EXCEPT ![c] = IF ok THEN 0 ELSE 1]
  /\ task' = [task EXCEPT ![c] = "done"]
  /\ temp' = temp \ {c}
  /\ UNCHANGED <<sources, cmd, main, tasks, status>>

-----------------------------------------------------------------------------
(* compose_build and what asyncio.run does at the end.                     *)

\* Task.cancel(): Podman.run terminates its process, everything else ends.
Cancelled ==
  [c \in Containers |->
     CASE task[c] \in {"begin", "queued"} -> "cancelled"
       [] task[c] = "building" -> "terminating"
       [] OTHER -> task[c]]

\* A bug to catch: the last one counts.
StatusLast(c) == IF result[c] # None THEN result[c] ELSE status

\* A failure stays.
StatusAfter(c) == IF result[c] \notin {None, 0} THEN result[c] ELSE status

\* A bug to catch: only tasks that have not raised are waited for.
CollectDone(c) ==
  /\ main = "gather" /\ c \in tasks /\ task[c] = "done"
  /\ tasks' = tasks \ {c}
  /\ status' = StatusAfter(c)
  /\ UNCHANGED <<sources, image, cmd, main, task, result, temp>>

\* The next of as_completed; what it has raised is raised.
Collect(c) ==
  /\ main = "gather" /\ c \in tasks /\ task[c] \in {"done", "raised"}
  /\ tasks' = tasks \ {c}
  /\ status' = StatusAfter(c)
  /\ IF task[c] = "raised" THEN main' = "raised" /\ task' = Cancelled
                           ELSE UNCHANGED <<main, task>>
  /\ UNCHANGED <<sources, image, cmd, result, temp>>

\* build ends with the status; up looks at it and goes on.
GatherEnds ==
  /\ main = "gather" /\ tasks = {}
  /\ main' = "returned"
  /\ UNCHANGED <<sources, image, cmd, task, result, tasks, status, temp>>

\* Ctrl+C: there is no handler yet.  During push it takes a second one.
Interrupt ==
  /\ main \notin Ended \cup {"push"}
  /\ main' = "interrupted" /\ task' = Cancelled
  /\ UNCHANGED <<sources, image, cmd, result, tasks, status, temp>>

-----------------------------------------------------------------------------
(* pull: all at once.  push: one after the other.  Neither looks at what   *)
(* becomes of it.                                                          *)

Pull(m) ==
  /\ main = "pull" /\ m \in tasks
  /\ \E v \in Versions \cup {image[m]} : image' = [image EXCEPT ![m] = v]
  /\ tasks' = tasks \ {m}
  /\ UNCHANGED <<sources, cmd, main, task, result, status, temp>>

Push(c) ==
  /\ main \in {"push", "push on"} /\ c \in tasks
  /\ tasks' = tasks \ {c}
  /\ UNCHANGED <<sources, image, cmd, main, task, result, status, temp>>

\* The first Ctrl+C terminates the call of podman; Podman.run returns what
\* comes of it, and the next image is pushed.
InterruptPush(c) ==
  /\ main = "push" /\ c \in tasks
  /\ tasks' = tasks \ {c} /\ main' = "push on"
  /\ UNCHANGED <<sources, image, cmd, task, result, status, temp>>

TransfersEnd ==
  /\ main \in {"pull", "push", "push on"} /\ tasks = {}
  /\ main' = "returned"
  /\ UNCHANGED <<sources, image, cmd, task, result, tasks, status, temp>>

TaskSteps(c) == Prepare(c) \/ BuildStarts(c) \/ BuildEnds(c)

MainSteps ==
  \/ \E c \in Containers : Collect(c) \/ Push(c)
  \/ \E m \in ImageNames : Pull(m)
  \/ GatherEnds \/ TransfersEnd

Next ==
  \/ \E i \in Commands : Begin(i)
  \/ \E c \in Containers : TaskSteps(c) \/ InterruptPush(c)
  \/ MainSteps \/ Interrupt

Spec == Init /\ [][Next]_vars

\* The event loop serves what is ready, podman comes to an end.
FairSpec == Spec /\ WF_vars(MainSteps) /\ \A c \in Containers : WF_vars(TaskSteps(c))

-----------------------------------------------------------------------------
(* Properties.                                                             *)

TypeOK ==
  /\ sources \in [ImageNames -> Versions]
  /\ image \in [ImageNames -> Versions \cup {None}]
  /\ cmd \in Commands \cup {None}
  /\ main \in Ended \cup {"gather", "pull", "push", "push on"}
  /\ task \in [Containers -> Over \cup {"begin", "queued", "building", "terminating"}]
  /\ result \in [Containers -> {None, 0, 1}]
  /\ tasks \subseteq Containers \cup ImageNames
  /\ status \in {0, 1}
  /\ temp \subseteq Containers
  /\ cmd # None => Cardinality(Building) <= cmd.limit

Returned(ops) == main = "returned" /\ cmd.op \in ops

\* build ends with 0 exactly if every podman build it has run succeeded, in
\* whatever order they end; then every image asked for is there, and made of
\* the current sources if it was built.
StatusTells ==
  Returned({"build", "up"}) =>
    IF \E c \in Containers : result[c] = 1 THEN status # 0
    ELSE /\ status = 0
         /\ \A c \in ToBuild(cmd) : Of(c).build =>
              /\ image[Of(c).image] # None
              /\ ~ IfNotExists => image[Of(c).image] = sources[Of(c).image]

\* Once podman build has run, be it to fail or to be terminated by Ctrl+C or
\* because another build raised, no containerfile is left in the temporary
\* directory; one that is was written for arguments that could not be made, or
\* its task was cancelled before.
TempLeftForCause ==
  \A c \in temp : task[c] \in {"done", "raised", "cancelled"} =>
    Of(c).wrong = "late" \/ (task[c] = "cancelled" /\ main # "returned")

\* build, pull and push come to an end, with as few as one permit.
ImageCommandEnds == (main \notin Ended) ~> (main \in Ended /\ \A c \in Containers : task[c] \in Over)
=============================================================================
