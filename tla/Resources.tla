----------------------------- MODULE Resources -----------------------------
(***************************************************************************)
(* Several podman-compose processes at once on one project, with what they *)
(* share besides containers: volumes, networks and the pod.  up -d (or     *)
(* --no-start), down -v, start, stop and restart of bin/podman_compose.py, *)
(* one podman call a step; a process may be killed between any two.        *)
(*                                                                         *)
(* The order of launches and what containers do by themselves are the      *)
(* concern of ComposeUp; here every dependency asks for a running          *)
(* container, and containers run until they are stopped.                   *)
(***************************************************************************)
EXTENDS Selection, PodmanObjects, CreateArgs

CONSTANTS
  Procs,        \* podman-compose processes
  Commands,     \* the commands a user may give
  Unwritable    \* directories makedirs cannot make

Files == {i.stack : i \in Commands}

ASSUME ResourcesAssumption ==
  /\ \A f, g \in Files : f.config = g.config => f = g
  /\ None \notin Commands
  /\ \A i \in Commands : i.op \in {"up", "down", "start", "stop", "restart"}
  /\ \A f \in Files : f.config \in Configs /\ f.order \in Seq(Containers)
  /\ \A f \in Files : ~ ParsingRaises(f) => ParsedStack(f)
  /\ \A f \in Files : ~ ParsingRaises(f) => \A c \in Members(f) :
       /\ GivenNetworks(f, c) \subseteq Networks
       /\ Len(Needed(f, c)) \in Nat /\ DOMAIN Needed(f, c) = 1..Len(Needed(f, c))
       /\ \A n \in DOMAIN Needed(f, c) : LET x == Needed(f, c)[n] IN
            /\ x.kind = "volume" => x.name \in Volumes
            /\ x.kind = "network" => x.name \in Networks
            /\ x.kind = "bind" => x.name \in Dirs
            /\ x.external => x.kind \in {"volume", "network"}

VARIABLES
  proc,   \* proc[p]: what process p does
  raced   \* history: two commands have run at the same time

vars == <<store, objects, proc, raced>>

\* cmd: the command; pc: where it is; idx: position in compose.containers;
\* at: position in what container_to_args asserts; tasks, names: what is
\* left of a loop over containers, over volumes or networks.  History: met,
\* what other commands did meanwhile; wasUp, what was up at its begin; clean,
\* whether the store agreed with the file then.
Idle == [cmd |-> None, pc |-> "done", idx |-> 0, at |-> 0, tasks |-> {},
         names |-> {}, met |-> {}, wasUp |-> {}, clean |-> FALSE]

Finished == {"done", "error"}
Stages == {"transfer", "stop", "rm", "orphans", "ls_volumes", "rm_volumes",
           "rm_pod", "ls_networks", "rm_networks", "pod", "make_pod",
           "inspect", "make", "recheck", "start"}
Active(p) == proc[p].pc \notin Finished

Init == StoreInit /\ ObjectsInit /\ proc = [p \in Procs |-> Idle] /\ raced = FALSE

\* The file an existing container was made from, and who uses an object.
FileOf(cfg) == CHOOSE f \in Files : f.config = cfg
Uses(f, c) == GivenNetworks(f, c) \cup GivenMounts(f, c, "volume")
                \cup GivenMounts(f, c, "bind")
Users(r) == {c \in Existing : r \in Uses(FileOf(config[c]), c)}

\* Process p goes on with the fields of r changed.
With(f, r) == [k \in DOMAIN f |-> IF k \in DOMAIN r THEN r[k] ELSE f[k]]
Goes(p, r) == proc' = [proc EXCEPT ![p] = With(@, r)]
Ends(p, pc) == Goes(p, [pc |-> pc, idx |-> 0, at |-> 0, tasks |-> {}, names |-> {}])

At(p, pc) == proc[p].pc = pc
Cmd(p) == proc[p].cmd
Current(p) == Cmd(p).stack.order[proc[p].idx]

Each(action, S) == {action} \X S

\* The containers start, stop and restart are for.
Targets(i) == IF i.services = {} THEN Members(i.stack) ELSE i.services

\* What a command comes to first.  _parse_compose_file and assert_services
\* may raise.
First(i) ==
  IF \/ ParsingRaises(i.stack)
     \/ i.op \in {"start", "stop", "restart"} /\ ~ i.services \subseteq Members(i.stack)
  THEN [pc |-> "error", tasks |-> {}]
  ELSE CASE i.op \in {"start", "stop", "restart"} ->
              [pc |-> "transfer", tasks |-> Each(i.op, Targets(i))]
         [] i.op = "down" \/ (i.op = "up" /\ Recreates(i)) ->
              [pc |-> "stop", tasks |-> Each("stop", Included(i))]
         [] OTHER -> [pc |-> "pod", tasks |-> {}]

\* A command line.  What earlier commands have come to is forgotten.
Begin(p, i) ==
  /\ ~ Active(p)
  /\ LET others == {q \in Procs \ {p} : Active(q)} IN
     /\ proc' = [q \in Procs |->
          IF q = p
          THEN [cmd |-> i, pc |-> First(i).pc, idx |-> 0, at |-> 0,
                tasks |-> First(i).tasks, names |-> {},
                met |-> IF others = {} THEN {} ELSE {"command"},
                wasUp |-> {c \in Containers : i.op = "restart" /\ Up(c)},
                clean |-> i.op = "down" /\ Consistent(i)
                            /\ Existing \subseteq Members(i.stack)]
          ELSE IF q \in others THEN [proc[q] EXCEPT !.met = @ \cup {"command"}]
          ELSE Idle]
     /\ raced' = (raced \/ others # {})
  /\ UNCHANGED <<store, objects>>

-----------------------------------------------------------------------------
(* Loops and tasks that make one podman call for each container.           *)

Calls == {"stop", "start", "restart", "again", "rm"}

\* podman restart: refused while a required container is down; stops the
\* container, and starts it again.
Restartable(c) == Exists(c) /\ \A d \in requires[c] : Up(d)

Perform(t) ==
  CASE t[1] = "stop" -> PodmanStop(t[2])
    [] t[1] = "start" -> PodmanStart(t[2])
    [] t[1] = "rm" -> PodmanRm(t[2])
    [] t[1] = "restart" -> IF Restartable(t[2]) THEN PodmanStop(t[2])
                                                ELSE UNCHANGED store
    [] t[1] = "again" -> /\ ctr' = [ctr EXCEPT ![t[2]] = IF @ = "absent" THEN @
                                                         ELSE "running"]
                         /\ UNCHANGED <<requires, config>>

\* A bug to catch: what restart has stopped stays so.
TaskOnce(p, t) ==
  /\ t \in proc[p].tasks
  /\ t[1] = "rm" => \A u \in proc[p].tasks : u[1] = "rm"
  /\ Perform(t)
  /\ Goes(p, [tasks |-> proc[p].tasks \ {t}])
  /\ UNCHANGED <<objects, raced>>

\* All orphans are stopped before the first is removed.
Task(p, t) ==
  /\ t \in proc[p].tasks
  /\ t[1] = "rm" => \A u \in proc[p].tasks : u[1] = "rm"
  /\ Perform(t)
  /\ Goes(p, [tasks |-> (proc[p].tasks \ {t}) \cup
                IF t[1] = "restart" /\ Restartable(t[2]) THEN {<<"again", t[2]>>}
                                                         ELSE {}])
  /\ UNCHANGED <<objects, raced>>

\* The loop, or asyncio.gather, has ended.
TasksEnd(p) ==
  /\ proc[p].tasks = {}
  /\ \/ At(p, "transfer") /\ Ends(p, "done")
     \/ At(p, "stop") /\ Goes(p, [pc |-> "rm", idx |-> Len(Cmd(p).stack.order)])
     \/ At(p, "orphans") /\ Goes(p, [pc |-> "ls_volumes"])
  /\ UNCHANGED <<store, objects, raced>>

-----------------------------------------------------------------------------
(* The rest of compose_down.                                               *)

RmContainer(p) ==
  /\ At(p, "rm") /\ proc[p].idx > 0
  /\ IF Current(p) \in Included(Cmd(p)) THEN PodmanRm(Current(p))
                                        ELSE UNCHANGED store
  /\ Goes(p, [idx |-> proc[p].idx - 1])
  /\ UNCHANGED <<objects, raced>>

\* The containers of the project are listed once for both loops over orphans.
RmEnds(p) ==
  /\ At(p, "rm") /\ proc[p].idx = 0
  /\ IF Cmd(p).remove_orphans
     THEN Goes(p, [pc |-> "orphans",
                  tasks |-> Each("stop", Existing) \cup Each("rm", Existing)])
     ELSE Goes(p, [pc |-> "ls_volumes"])
  /\ UNCHANGED <<store, objects, raced>>

\* A bug to catch: nothing is kept.
KeptNone(i) == {}

\* vol_names_to_keep: the volumes of the services not selected.
Kept(i) ==
  UNION {VolumeNames(i.stack, c) : c \in Members(i.stack) \ Included(i)}

\* A bug to catch: no filter.
ListedAll(S) == {r \in S : Present(r)}

\* volume_ls and network_ls: by the label of the project.
Listed(S) == Labelled(S)

\* up recreates with volumes=False.
ListVolumes(p) ==
  /\ At(p, "ls_volumes")
  /\ Goes(p, [pc |-> "rm_volumes",
              names |-> IF Cmd(p).op = "down" /\ Cmd(p).volumes
                        THEN Listed(Volumes) \ Kept(Cmd(p)) ELSE {}])
  /\ UNCHANGED <<store, objects, raced>>

RmObject(p, r) ==
  /\ r \in proc[p].names
  /\ ObjectRm(r, Users(r))
  /\ proc' = [q \in Procs |->
                IF q = p THEN [proc[p] EXCEPT !.names = @ \ {r}]
                ELSE IF Active(q) THEN [proc[q] EXCEPT !.met = @ \cup {"removal"}]
                ELSE proc[q]]
  /\ UNCHANGED <<store, pod, raced>>

AfterDown(p) ==
  IF Cmd(p).op = "up" THEN Goes(p, [pc |-> "pod"]) ELSE Ends(p, "done")

\* A bug to catch: down returns before it comes to pod and networks.
VolumesRemovedLast(p) ==
  /\ At(p, "rm_volumes") /\ proc[p].names = {}
  /\ AfterDown(p)
  /\ UNCHANGED <<store, objects, raced>>

VolumesRemoved(p) ==
  /\ At(p, "rm_volumes") /\ proc[p].names = {}
  /\ IF Excludes(Cmd(p)) THEN AfterDown(p) ELSE Goes(p, [pc |-> "rm_pod"])
  /\ UNCHANGED <<store, objects, raced>>

RmPod(p) ==
  /\ At(p, "rm_pod")
  /\ PodRm
  /\ Goes(p, [pc |-> "ls_networks"])
  /\ UNCHANGED <<obj, raced>>

ListNetworks(p) ==
  /\ At(p, "ls_networks")
  /\ Goes(p, [pc |-> "rm_networks", names |-> Listed(Networks)])
  /\ UNCHANGED <<store, objects, raced>>

NetworksRemoved(p) ==
  /\ At(p, "rm_networks") /\ proc[p].names = {}
  /\ AfterDown(p)
  /\ UNCHANGED <<store, objects, raced>>

-----------------------------------------------------------------------------
(* The rest of compose_up: create_pods, then for each container what       *)
(* container_to_args asserts, create and start.                            *)

\* On to the next container of the selection; an env_file may be missing.
ToContainer(p, n) ==
  LET order == Cmd(p).stack.order
      rest == {m \in n..Len(order) : order[m] \in Included(Cmd(p))}
  IN \/ rest = {} /\ Ends(p, "done")
     \/ \E m \in rest :
          /\ \A k \in rest : m <= k
          /\ IF EnvironmentRaises(Cmd(p).stack.services[order[m]])
             THEN Ends(p, "error")
             ELSE Goes(p, [pc |-> "inspect", idx |-> m, at |-> 1])

\* A bug to catch: the pod is taken for granted.
PodTaken(p) ==
  /\ At(p, "pod")
  /\ ToContainer(p, 1)
  /\ UNCHANGED <<store, objects, raced>>

PodExists(p) ==
  /\ At(p, "pod")
  /\ IF pod THEN ToContainer(p, 1) ELSE Goes(p, [pc |-> "make_pod"])
  /\ UNCHANGED <<store, objects, raced>>

\* Its outcome is not looked at.
MakePod(p) ==
  /\ At(p, "make_pod")
  /\ pod' = TRUE
  /\ ToContainer(p, 1)
  /\ UNCHANGED <<store, obj, raced>>

Needs(p) == Needed(Cmd(p).stack, Current(p))
Need(p) == Needs(p)[proc[p].at]

NextNeed(p) == Goes(p, [pc |-> "inspect", at |-> proc[p].at + 1])

\* A bug to catch: volumes are left to podman create.
InspectNetworks(p) ==
  /\ At(p, "inspect") /\ proc[p].at \in DOMAIN Needs(p)
  /\ IF Need(p).kind # "network" \/ Present(Need(p).name) THEN NextNeed(p)
     ELSE IF Need(p).external THEN Ends(p, "error") ELSE Goes(p, [pc |-> "make"])
  /\ obj' = [r \in Objects |-> IF Need(p).kind = "bind" /\ r = Need(p).name
                               THEN "plain" ELSE obj[r]]
  /\ UNCHANGED <<store, pod, raced>>

\* A bug to catch: what is missing is never created.
InspectStrict(p) ==
  /\ At(p, "inspect") /\ proc[p].at \in DOMAIN Needs(p)
  /\ IF Present(Need(p).name) THEN NextNeed(p) ELSE Ends(p, "error")
  /\ UNCHANGED <<store, objects, raced>>

\* inspect of a volume, exists of a network; a directory that is missing is
\* made at once; a mount of a type nobody knows raises.
Inspect(p) ==
  /\ At(p, "inspect") /\ proc[p].at \in DOMAIN Needs(p)
  /\ \/ /\ Need(p).kind \in {"volume", "network"}
        /\ IF Present(Need(p).name) THEN NextNeed(p)
           ELSE IF Need(p).external THEN Ends(p, "error")
           ELSE Goes(p, [pc |-> "make"])
        /\ UNCHANGED obj
     \/ /\ Need(p).kind = "bind"
        /\ obj' = IF Present(Need(p).name) \/ Need(p).name \in Unwritable THEN obj
                  ELSE [obj EXCEPT ![Need(p).name] = "plain"]
        /\ NextNeed(p)
     \/ /\ Need(p).kind \in {"tmpfs", "other"}
        /\ IF Need(p).kind = "tmpfs" THEN NextNeed(p) ELSE Ends(p, "error")
        /\ UNCHANGED obj
  /\ UNCHANGED <<store, pod, raced>>

\* A bug to catch: what cannot be created is cleaned up.
MakeRollingBack(p) ==
  /\ At(p, "make")
  /\ IF Present(Need(p).name)
     THEN ObjectRm(Need(p).name, Users(Need(p).name)) /\ Ends(p, "error")
     ELSE ObjectCreate(Need(p).name) /\ Goes(p, [pc |-> "recheck"])
  /\ UNCHANGED <<store, pod, raced>>

\* create, whose failure raises.
Make(p) ==
  /\ At(p, "make")
  /\ ObjectCreate(Need(p).name)
  /\ IF Present(Need(p).name) THEN Ends(p, "error") ELSE Goes(p, [pc |-> "recheck"])
  /\ UNCHANGED <<store, pod, raced>>

\* inspect, or exists, once more.
Recheck(p) ==
  /\ At(p, "recheck")
  /\ IF Present(Need(p).name) THEN NextNeed(p) ELSE Ends(p, "error")
  /\ UNCHANGED <<store, objects, raced>>

\* The rest of the arguments, then create, whose outcome is not looked at.
CreateContainer(p) ==
  /\ At(p, "inspect") /\ proc[p].at \notin DOMAIN Needs(p)
  /\ LET i == Cmd(p)  c == Current(p)  f == i.stack IN
     IF ArgsRaise(f, c)
     THEN Ends(p, "error") /\ UNCHANGED <<store, objects>>
     ELSE /\ PodmanCreateIn(c, NamesOf(DepsOf(i, c)) \cap Members(f), f.config,
                            GivenNetworks(f, c), GivenMounts(f, c, "bind"),
                            VolumeNames(f, c))
          /\ IF i.no_start THEN ToContainer(p, proc[p].idx + 1)
                           ELSE Goes(p, [pc |-> "start"])
  /\ UNCHANGED raced

StartContainer(p) ==
  /\ At(p, "start")
  /\ \A d \in Honoured(Cmd(p), Current(p)) : Satisfies(d[1], d[2])
  /\ PodmanStart(Current(p))
  /\ ToContainer(p, proc[p].idx + 1)
  /\ UNCHANGED <<objects, raced>>

-----------------------------------------------------------------------------

Killed(p) ==
  /\ Active(p)
  /\ proc' = [proc EXCEPT ![p] = Idle]
  /\ UNCHANGED <<store, objects, raced>>

Step(p) ==
  \/ \E t \in Calls \X Containers : Task(p, t)
  \/ \E r \in Objects : RmObject(p, r)
  \/ TasksEnd(p) \/ RmContainer(p) \/ RmEnds(p) \/ ListVolumes(p)
  \/ VolumesRemoved(p) \/ RmPod(p) \/ ListNetworks(p) \/ NetworksRemoved(p)
  \/ PodExists(p) \/ MakePod(p) \/ Inspect(p) \/ Make(p)
  \/ Recheck(p) \/ CreateContainer(p) \/ StartContainer(p)

Next ==
  \E p \in Procs : (\E i \in Commands : Begin(p, i)) \/ Step(p) \/ Killed(p)

Spec == Init /\ [][Next]_vars

-----------------------------------------------------------------------------
(* Properties.                                                             *)

Process ==
  [cmd : Commands \cup {None}, idx : Nat, at : Nat,
   pc : Finished \cup Stages, tasks : SUBSET (Calls \X Containers),
   names : SUBSET (Volumes \cup Networks),
   met : SUBSET {"command", "removal"}, wasUp : SUBSET Containers, clean : BOOLEAN]

TypeOK ==
  /\ StoreTypeOK /\ ObjectsTypeOK /\ raced \in BOOLEAN
  /\ proc \in [Procs -> Process]

\* The last command of p has come to pc, and no other ran meanwhile.
CameTo(p, pc) == Cmd(p) # None /\ At(p, pc) /\ proc[p].met = {}

\* What the user has to mend: something the file says is wrong or is not
\* there.
Cause(i) ==
  \/ ParsingRaises(i.stack) \/ ~ i.services \subseteq Members(i.stack)
  \/ \E c \in Included(i) :
       \/ EnvironmentRaises(i.stack.services[c])
       \/ ArgsRaise(i.stack, c)
       \/ \E n \in DOMAIN Needed(i.stack, c) : LET x == Needed(i.stack, c)[n] IN
            x.kind = "other" \/ (x.external /\ ~ Present(x.name))

\* A command that runs alone raises only for a cause in the file: whatever
\* killed, failed or concurrent commands have left behind, volumes and
\* networks without containers included, is no obstacle.
FailsForCause == \A p \in Procs : CameTo(p, "error") => Cause(Cmd(p))

\* What podman create is given has been asserted before, directories can be
\* made, and services depend on services of the file.  Not so for a network
\* whose "external" is a dictionary with a name: it is asserted under that
\* name and given under another.
Assertable(f) ==
  \A c \in Members(f) :
    /\ GivenNetworks(f, c) \subseteq GivenMounts(f, c, "network")
    /\ GivenMounts(f, c, "bind") \cap Unwritable = {}
    /\ NamesOf(f.deps[c]) \subseteq Members(f)

\* Neither does it stand in the way of containers: with an up that runs
\* alone, a container that is about to be started exists, made from this
\* file, with the volumes, networks and directories it uses, and so do those
\* it will be kept waiting for (podman wait is repeated for ever while one
\* does not); at the end of an up of the whole stack all of them do.
UpCompletes ==
  \A p \in Procs :
    Cmd(p) # None /\ proc[p].met = {} =>
      LET i == Cmd(p)
          made == CASE At(p, "start") -> {Current(p)} \cup NamesOf(DepsOf(i, Current(p)))
                    [] At(p, "done") /\ i.op = "up" -> Included(i)
                    [] OTHER -> {}
      IN ~ Excludes(i) /\ Existing \subseteq Included(i) /\ Assertable(i.stack) =>
           \A c \in made :
             /\ Exists(c) /\ config[c] = i.stack.config
             /\ \A r \in Uses(i.stack, c) : Present(r)

\* Of two commands that create the same volumes and networks at once, one
\* may raise because the other was faster, but not both; unless a third one,
\* or the down of a recreating up, removes them.
RaceHasWinner ==
  \A p, q \in Procs :
    p # q /\ At(p, "error") /\ At(q, "error")
      /\ "removal" \notin proc[p].met \cup proc[q].met =>
         Cause(Cmd(p)) \/ Cause(Cmd(q))

\* What the user made outside of podman-compose is never removed, whatever
\* the files say and however commands overlap.
OutsideKept == [][\A r \in Outside : obj'[r] = obj[r]]_vars

\* down -v of some services keeps the volumes of the others, whether these
\* have containers (which podman would mind) or not.
VolumesKept ==
  [][\A p \in Procs : Step(p) /\ Cmd(p) # None =>
       \A c \in Members(Cmd(p).stack) \ Included(Cmd(p)) :
         \A r \in VolumeNames(Cmd(p).stack, c) : Present(r) => obj'[r] # "absent"]_vars

\* Volumes of the project carry its label, so that down -v finds them; only
\* commands that overlap can leave one without (podman create makes the
\* volume a down has removed after it was asserted).
LabelledUnlessRaced ==
  ~ raced => \A r \in (Volumes \cup Networks) \ Outside : obj[r] # "plain"

\* down -v of a whole stack that runs alone leaves nothing, be it started
\* over the remains of a killed command; provided the containers it finds
\* are those of the file.
DownLeavesNothing ==
  \A p \in Procs :
    CameTo(p, "done") /\ Cmd(p).op = "down" =>
      (Cmd(p).volumes /\ proc[p].clean /\ ~ Excludes(Cmd(p)) =>
         Existing = {} /\ ~ pod /\ Labelled(Objects) = {})

\* stop stops, start starts and restart keeps up, although each addresses
\* all containers at once and follows no dependencies.
TransferDone ==
  \A p \in Procs :
    CameTo(p, "done") =>
      \A c \in Containers :
        CASE Cmd(p).op = "stop" -> c \in Targets(Cmd(p)) => ~ Up(c)
          [] Cmd(p).op = "start" -> c \in Targets(Cmd(p)) /\ Exists(c) => Up(c)
          [] Cmd(p).op = "restart" -> c \in proc[p].wasUp => Up(c)
          [] OTHER -> TRUE
=============================================================================
