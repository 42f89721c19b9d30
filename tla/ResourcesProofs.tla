--------------------------- MODULE ResourcesProofs --------------------------
(***************************************************************************)
(* Proofs about Resources, for every number of processes and every set of  *)
(* compose files and commands.                                             *)
(*                                                                         *)
(* The argument for what is kept: only the names of a loop over volumes or *)
(* networks are removed, these carry the label of the project when they    *)
(* are listed, and nothing from outside ever does; the loop over volumes   *)
(* leaves out what other services use, and the one over networks is        *)
(* reached by a down of everything alone (OutsideInv, NamesStep).          *)
(*                                                                         *)
(* The argument for failures: while a command runs alone nothing comes     *)
(* between looking for an object, creating it and looking again            *)
(* (AloneInv), so only the file can be the cause.                          *)
(*                                                                         *)
(* The argument for labels: until commands overlap, every volume a         *)
(* container needs has been made, with its label, before podman create is  *)
(* called (LabelInv), so podman never makes one of its own accord.         *)
(*                                                                         *)
(* The argument for races: who finds made what it was about to make has    *)
(* lost to the process that made it, and making something is never the     *)
(* step of a loser (RaceInv, MakerWins).                                   *)
(*                                                                         *)
(* The arguments for what commands come to follow one that is alone from   *)
(* stage to stage: what of start, stop and restart is left to the loop     *)
(* (TransferAt); that down finds nothing up and, since it goes through the *)
(* order backwards, nothing that requires the next container (DownAt,      *)
(* CleanAt); that up has created everything before its position, so that   *)
(* podman create has what it asks for (UpAt).  What holds however commands *)
(* overlap, that containers are in the pod and have what they use, helps   *)
(* both (StoreInv).                                                        *)
(***************************************************************************)
EXTENDS Resources, TLAPS

-----------------------------------------------------------------------------
(* What the podman commands do to the types of the container store.        *)

LEMMA CreateType ==
  ASSUME StoreTypeOK, NEW c \in Containers, NEW req \in SUBSET Containers,
         NEW cfg \in Configs, PodmanCreate(c, req, cfg)
  PROVE  StoreTypeOK'
BY DEF StoreTypeOK, States, PodmanCreate, store

LEMMA StoreSteps ==
  ASSUME StoreTypeOK, NEW c \in Containers
  PROVE  /\ PodmanStart(c) => StoreTypeOK'
         /\ PodmanStop(c) => StoreTypeOK'
         /\ PodmanRm(c) => StoreTypeOK'
<1> USE DEF StoreTypeOK, States, UpStates
<1>1. PodmanStart(c) => StoreTypeOK'
  BY DEF PodmanStart
<1>2. PodmanStop(c) => StoreTypeOK'
  BY DEF PodmanStop
<1>3. PodmanRm(c) => StoreTypeOK'
  BY DEF PodmanRm, store
<1> QED BY <1>1, <1>2, <1>3

LEMMA PodRmType == StoreTypeOK /\ PodmanPodRm => StoreTypeOK'
BY DEF StoreTypeOK, PodmanPodRm, store, States

-----------------------------------------------------------------------------
(* Control.                                                                *)

Creating == {"inspect", "make", "recheck", "start"}

(* Where process p stands in its command. *)
ControlAt(p) ==
  /\ Active(p) => Cmd(p) \in Commands /\ ~ ParsingRaises(Cmd(p).stack)
  /\ proc[p].tasks # {} => proc[p].pc \in {"transfer", "stop", "orphans"}
  /\ proc[p].names # {} => proc[p].pc \in {"rm_volumes", "rm_networks"}
  /\ At(p, "rm_volumes") => proc[p].names \cap Kept(Cmd(p)) = {}
  /\ proc[p].pc \in {"rm_pod", "ls_networks", "rm_networks"} => ~ Excludes(Cmd(p))
  /\ At(p, "rm") => proc[p].idx \in 0..Len(Cmd(p).stack.order)
  /\ proc[p].pc \in Creating =>
       /\ proc[p].idx \in DOMAIN Cmd(p).stack.order
       /\ Current(p) \in Included(Cmd(p))
  /\ proc[p].pc \in {"make", "recheck"} =>
       /\ proc[p].at \in DOMAIN Needs(p)
       /\ Need(p).kind \in {"volume", "network"}

ControlInv == \A p \in Procs : ControlAt(p)

-----------------------------------------------------------------------------
(* Types. *)

Fields == {"cmd", "pc", "idx", "at", "tasks", "names", "met", "wasUp", "clean"}
Moving == {"pc", "idx", "at", "tasks", "names"}

LEMMA GoesFields ==
  ASSUME proc \in [Procs -> Process], NEW p \in Procs, NEW r, Goes(p, r),
         DOMAIN r \subseteq Moving
  PROVE  /\ DOMAIN proc' = Procs
         /\ \A q \in Procs \ {p} : proc'[q] = proc[q]
         /\ DOMAIN proc'[p] = Fields
         /\ \A k \in Fields : proc'[p][k] = IF k \in DOMAIN r THEN r[k] ELSE proc[p][k]
<1>1. DOMAIN proc[p] = Fields
  BY DEF Process, Fields
<1>2. proc' = [proc EXCEPT ![p] = With(proc[p], r)]
  BY DEF Goes
<1>3. proc'[p] = With(proc[p], r)
  BY <1>2
<1>4. With(proc[p], r) = [k \in Fields |-> IF k \in DOMAIN r THEN r[k] ELSE proc[p][k]]
  BY <1>1 DEF With
<1> QED BY <1>2, <1>3, <1>4

LEMMA GoesType ==
  ASSUME proc \in [Procs -> Process], NEW p \in Procs, NEW r, Goes(p, r),
         DOMAIN r \subseteq Moving,
         "pc" \in DOMAIN r => r["pc"] \in Finished \cup Stages,
         "idx" \in DOMAIN r => r["idx"] \in Nat,
         "at" \in DOMAIN r => r["at"] \in Nat,
         "tasks" \in DOMAIN r => r["tasks"] \subseteq Calls \X Containers,
         "names" \in DOMAIN r => r["names"] \subseteq Volumes \cup Networks
  PROVE  proc' \in [Procs -> Process]
<1>1. proc' = [proc EXCEPT ![p] = With(proc[p], r)]
  BY DEF Goes
<1>2. proc[p] \in Process
  OBVIOUS
<1>3. With(proc[p], r) =
        [cmd |-> proc[p].cmd, idx |-> IF "idx" \in DOMAIN r THEN r["idx"] ELSE proc[p].idx,
         at |-> IF "at" \in DOMAIN r THEN r["at"] ELSE proc[p].at,
         pc |-> IF "pc" \in DOMAIN r THEN r["pc"] ELSE proc[p].pc,
         tasks |-> IF "tasks" \in DOMAIN r THEN r["tasks"] ELSE proc[p].tasks,
         names |-> IF "names" \in DOMAIN r THEN r["names"] ELSE proc[p].names,
         met |-> proc[p].met, wasUp |-> proc[p].wasUp, clean |-> proc[p].clean]
  BY <1>2 DEF With, Process, Moving
<1>4. With(proc[p], r) \in Process
  BY <1>2, <1>3 DEF Process
<1> QED BY <1>1, <1>4

(* Both at once, field by field.                                           *)
LEMMA GoesStep ==
  ASSUME proc \in [Procs -> Process], NEW p \in Procs, NEW r, Goes(p, r),
         DOMAIN r \subseteq Moving,
         "pc" \in DOMAIN r => r["pc"] \in Finished \cup Stages,
         "idx" \in DOMAIN r => r["idx"] \in Nat,
         "at" \in DOMAIN r => r["at"] \in Nat,
         "tasks" \in DOMAIN r => r["tasks"] \subseteq Calls \X Containers,
         "names" \in DOMAIN r => r["names"] \subseteq Volumes \cup Networks
  PROVE  /\ proc' \in [Procs -> Process]
         /\ \A q \in Procs \ {p} : proc'[q] = proc[q]
         /\ proc'[p].cmd = proc[p].cmd /\ proc'[p].met = proc[p].met
         /\ proc'[p].pc = IF "pc" \in DOMAIN r THEN r["pc"] ELSE proc[p].pc
         /\ proc'[p].idx = IF "idx" \in DOMAIN r THEN r["idx"] ELSE proc[p].idx
         /\ proc'[p].at = IF "at" \in DOMAIN r THEN r["at"] ELSE proc[p].at
         /\ proc'[p].tasks = IF "tasks" \in DOMAIN r THEN r["tasks"] ELSE proc[p].tasks
         /\ proc'[p].names = IF "names" \in DOMAIN r THEN r["names"] ELSE proc[p].names
BY GoesFields, GoesType DEF Fields, Moving

LEMMA EndsFields ==
  ASSUME proc \in [Procs -> Process], NEW p \in Procs, NEW pc \in Finished, Ends(p, pc)
  PROVE  /\ proc' \in [Procs -> Process]
         /\ \A q \in Procs \ {p} : proc'[q] = proc[q]
         /\ proc'[p].cmd = proc[p].cmd /\ proc'[p].met = proc[p].met
         /\ proc'[p].wasUp = proc[p].wasUp /\ proc'[p].clean = proc[p].clean
         /\ proc'[p].pc = pc /\ proc'[p].tasks = {} /\ proc'[p].names = {}
<1> DEFINE r == [pc |-> pc, idx |-> 0, at |-> 0, tasks |-> {}, names |-> {}]
<1>1. Goes(p, r)
  BY DEF Ends
<1>2. /\ DOMAIN r = Moving /\ r["pc"] = pc /\ r["tasks"] = {} /\ r["names"] = {}
      /\ r["idx"] = 0 /\ r["at"] = 0
  BY DEF Moving
<1> HIDE DEF r
<1>3. proc' \in [Procs -> Process]
  BY <1>1, <1>2, GoesType
<1> QED BY <1>1, <1>2, <1>3, GoesFields DEF Fields, Moving

(* On to the next container. *)
LEMMA ToContainerFields ==
  ASSUME proc \in [Procs -> Process], NEW p \in Procs, NEW n \in Nat \ {0},
         Cmd(p) \in Commands, ToContainer(p, n)
  PROVE  /\ proc' \in [Procs -> Process]
         /\ \A q \in Procs \ {p} : proc'[q] = proc[q]
         /\ proc'[p].cmd = proc[p].cmd /\ proc'[p].met = proc[p].met
         /\ proc'[p].wasUp = proc[p].wasUp /\ proc'[p].clean = proc[p].clean
         /\ \/ /\ proc'[p].pc \in Finished /\ proc'[p].tasks = {} /\ proc'[p].names = {}
               /\ proc'[p].pc = "error" => \E c \in Included(Cmd(p)) :
                    EnvironmentRaises(Cmd(p).stack.services[c])
            \/ /\ proc'[p].pc = "inspect" /\ proc'[p].at = 1
               /\ proc'[p].idx \in DOMAIN Cmd(p).stack.order
               /\ Cmd(p).stack.order[proc'[p].idx] \in Included(Cmd(p))
               /\ proc'[p].tasks = proc[p].tasks /\ proc'[p].names = proc[p].names
<1> DEFINE order == Cmd(p).stack.order
           rest == {m \in n..Len(order) : order[m] \in Included(Cmd(p))}
<1>1. CASE Ends(p, "done")
  BY <1>1, EndsFields DEF Finished
<1>2. ASSUME NEW m \in rest, EnvironmentRaises(Cmd(p).stack.services[order[m]]),
             Ends(p, "error")
      PROVE  /\ proc' \in [Procs -> Process]
             /\ \A q \in Procs \ {p} : proc'[q] = proc[q]
             /\ proc'[p].cmd = proc[p].cmd /\ proc'[p].met = proc[p].met
             /\ proc'[p].wasUp = proc[p].wasUp /\ proc'[p].clean = proc[p].clean
             /\ proc'[p].pc \in Finished /\ proc'[p].tasks = {} /\ proc'[p].names = {}
             /\ \E c \in Included(Cmd(p)) : EnvironmentRaises(Cmd(p).stack.services[c])
  BY <1>2, EndsFields DEF Finished
<1>3. ASSUME NEW m \in rest, Goes(p, [pc |-> "inspect", idx |-> m, at |-> 1])
      PROVE  /\ proc' \in [Procs -> Process]
             /\ \A q \in Procs \ {p} : proc'[q] = proc[q]
             /\ proc'[p].cmd = proc[p].cmd /\ proc'[p].met = proc[p].met
             /\ proc'[p].wasUp = proc[p].wasUp /\ proc'[p].clean = proc[p].clean
             /\ proc'[p].pc = "inspect" /\ proc'[p].idx = m /\ proc'[p].at = 1
             /\ proc'[p].tasks = proc[p].tasks /\ proc'[p].names = proc[p].names
  <2> DEFINE r == [pc |-> "inspect", idx |-> m, at |-> 1]
  <2>1. /\ DOMAIN r = {"pc", "idx", "at"} /\ r["pc"] = "inspect"
        /\ r["idx"] = m /\ r["at"] = 1
    OBVIOUS
  <2>2. order \in Seq(Containers)
    BY ResourcesAssumption DEF Files
  <2>3. m \in Nat
    BY <2>2
  <2>4. Goes(p, r)
    BY <1>3
  <2> HIDE DEF r
  <2>5. proc' \in [Procs -> Process]
    BY <2>1, <2>3, <2>4, GoesType DEF Moving, Stages
  <2> QED BY <2>1, <2>4, <2>5, GoesFields DEF Moving, Fields
<1>4. order \in Seq(Containers)
  BY ResourcesAssumption DEF Files
<1>5. \A m \in rest : m \in DOMAIN order /\ order[m] \in Included(Cmd(p))
  BY <1>4
<1> QED BY <1>1, <1>2, <1>3, <1>5 DEF ToContainer

(* What is assumed of files and command lines. *)
LEMMA CommandFacts ==
  ASSUME NEW i \in Commands
  PROVE  /\ i.stack.order \in Seq(Containers) /\ i.stack.config \in Configs
         /\ Members(i.stack) \subseteq Containers
         /\ Included(i) \subseteq Members(i.stack)
         /\ i.services \subseteq Members(i.stack) => Targets(i) \subseteq Containers
<1>1. i.stack.order \in Seq(Containers) /\ i.stack.config \in Configs
  BY ResourcesAssumption DEF Files
<1>2. Members(i.stack) \subseteq Containers
  BY <1>1 DEF Members
<1>3. Included(i) \subseteq Members(i.stack)
  <2>1. CASE i.services = {}
    BY <2>1 DEF Included
  <2>2. CASE i.services # {}
    BY <2>2 DEF Included
  <2> QED BY <2>1, <2>2
<1> QED BY <1>1, <1>2, <1>3 DEF Targets

(* The process that goes on carries the proof.                             *)
LEMMA OthersKeepControl ==
  ASSUME ControlInv, NEW p \in Procs, \A q \in Procs \ {p} : proc'[q] = proc[q],
         ControlAt(p)'
  PROVE  ControlInv'
<1> SUFFICES ASSUME NEW q \in Procs, q # p PROVE ControlAt(q)'
  BY DEF ControlInv
<1>1. ControlAt(q) /\ proc'[q] = proc[q]
  BY DEF ControlInv
<1> QED BY <1>1 DEF ControlAt, Active, Cmd, At, Current, Needs, Need

LEMMA PerformType ==
  ASSUME StoreTypeOK, NEW t \in Calls \X Containers, Perform(t)
  PROVE  StoreTypeOK'
<1>1. t[2] \in Containers /\ t[1] \in {"stop", "start", "restart", "again", "rm"}
  BY DEF Calls
<1>2. CASE t[1] \in {"stop", "start", "rm"}
  BY <1>1, <1>2, StoreSteps DEF Perform
<1>3. CASE t[1] = "restart"
  <2>1. CASE Restartable(t[2])
    BY <1>1, <1>3, <2>1, StoreSteps DEF Perform
  <2>2. CASE ~ Restartable(t[2])
    BY <1>1, <1>3, <2>2 DEF Perform, store, StoreTypeOK
  <2> QED BY <2>1, <2>2
<1>4. CASE t[1] = "again"
  BY <1>1, <1>4 DEF Perform, StoreTypeOK, States, UpStates
<1> QED BY <1>1, <1>2, <1>3, <1>4

-----------------------------------------------------------------------------
(* The steps of one process, one lemma for each part of a command.         *)

LEMMA TasksStep ==
  ASSUME TypeOK, ControlInv, NEW p \in Procs, NEW t \in Calls \X Containers, Task(p, t)
  PROVE  TypeOK' /\ ControlInv'
<1> DEFINE T == (proc[p].tasks \ {t}) \cup
                  IF t[1] = "restart" /\ Restartable(t[2]) THEN {<<"again", t[2]>>} ELSE {}
<1>1. T \subseteq Calls \X Containers
  BY DEF Calls, TypeOK, Process
<1>2. Goes(p, [tasks |-> T]) /\ t \in proc[p].tasks /\ UNCHANGED <<objects, raced>>
  BY DEF Task
<1> HIDE DEF T
<1>3. /\ proc' \in [Procs -> Process] /\ \A q \in Procs \ {p} : proc'[q] = proc[q]
      /\ proc'[p].cmd = proc[p].cmd /\ proc'[p].pc = proc[p].pc
      /\ proc'[p].idx = proc[p].idx /\ proc'[p].at = proc[p].at
      /\ proc'[p].names = proc[p].names /\ proc'[p].tasks = T
  BY <1>1, <1>2, GoesStep DEF TypeOK, Moving
<1>4. StoreTypeOK'
  BY PerformType DEF Task, TypeOK
<1>5. ControlAt(p)'
  BY <1>2, <1>3 DEF ControlInv, ControlAt, Active, Cmd, At, Current, Needs, Need, Finished
<1> QED BY <1>2, <1>3, <1>4, <1>5, OthersKeepControl DEF TypeOK, ObjectsTypeOK, objects

(* A step that changes neither store nor objects. *)
LEMMA QuietStep ==
  ASSUME TypeOK, ControlInv, NEW p \in Procs,
         proc' \in [Procs -> Process], \A q \in Procs \ {p} : proc'[q] = proc[q],
         ControlAt(p)', UNCHANGED <<store, objects, raced>>
  PROVE  TypeOK' /\ ControlInv'
BY OthersKeepControl DEF TypeOK, StoreTypeOK, ObjectsTypeOK, store, objects

LEMMA TasksEndStep ==
  ASSUME TypeOK, ControlInv, NEW p \in Procs, TasksEnd(p)
  PROVE  TypeOK' /\ ControlInv'
<1> USE DEF Active, Cmd, At, Finished
<1>1. proc \in [Procs -> Process] /\ ControlAt(p) /\ UNCHANGED <<store, objects, raced>>
  BY DEF TypeOK, ControlInv, TasksEnd
<1>2. CASE At(p, "transfer") /\ Ends(p, "done")
  <2>1. ControlAt(p)'
    BY <1>1, <1>2, EndsFields DEF ControlAt, Creating
  <2> QED BY <1>1, <1>2, <2>1, EndsFields, QuietStep
<1>3. CASE At(p, "stop") /\ Goes(p, [pc |-> "rm", idx |-> Len(Cmd(p).stack.order)])
  <2>1. Len(Cmd(p).stack.order) \in Nat
    BY <1>1, <1>3, CommandFacts DEF ControlAt
  <2>2. /\ proc' \in [Procs -> Process] /\ \A q \in Procs \ {p} : proc'[q] = proc[q]
        /\ proc'[p].cmd = proc[p].cmd /\ proc'[p].pc = "rm"
        /\ proc'[p].idx = Len(Cmd(p).stack.order)
        /\ proc'[p].names = proc[p].names /\ proc'[p].tasks = proc[p].tasks
    BY <1>1, <1>3, <2>1, GoesStep DEF Moving, Stages
  <2>3. ControlAt(p)'
    BY <1>1, <1>3, <2>1, <2>2 DEF ControlAt, TasksEnd, Creating
  <2> QED BY <1>1, <2>2, <2>3, QuietStep
<1>4. CASE At(p, "orphans") /\ Goes(p, [pc |-> "ls_volumes"])
  <2>2. /\ proc' \in [Procs -> Process] /\ \A q \in Procs \ {p} : proc'[q] = proc[q]
        /\ proc'[p].cmd = proc[p].cmd /\ proc'[p].pc = "ls_volumes"
        /\ proc'[p].names = proc[p].names /\ proc'[p].tasks = proc[p].tasks
    BY <1>1, <1>4, GoesStep DEF Moving, Stages
  <2>3. ControlAt(p)'
    BY <1>1, <1>4, <2>2 DEF ControlAt, Creating, TasksEnd
  <2> QED BY <1>1, <2>2, <2>3, QuietStep
<1> QED BY <1>2, <1>3, <1>4 DEF TasksEnd

LEMMA RmContainerStep ==
  ASSUME TypeOK, ControlInv, NEW p \in Procs, RmContainer(p)
  PROVE  TypeOK' /\ ControlInv'
<1> USE DEF Active, Cmd, At, Finished
<1>1. /\ proc \in [Procs -> Process] /\ ControlAt(p) /\ UNCHANGED <<objects, raced>>
      /\ StoreTypeOK
  BY DEF TypeOK, ControlInv, RmContainer
<1>2. /\ Cmd(p) \in Commands /\ Cmd(p).stack.order \in Seq(Containers)
      /\ proc[p].idx \in 1..Len(Cmd(p).stack.order) /\ Current(p) \in Containers
  BY <1>1, CommandFacts DEF ControlAt, RmContainer, Current
<1>3. /\ proc' \in [Procs -> Process] /\ \A q \in Procs \ {p} : proc'[q] = proc[q]
      /\ proc'[p].cmd = proc[p].cmd /\ proc'[p].pc = proc[p].pc
      /\ proc'[p].idx = proc[p].idx - 1
      /\ proc'[p].names = proc[p].names /\ proc'[p].tasks = proc[p].tasks
  <2>1. Goes(p, [idx |-> proc[p].idx - 1])
    BY DEF RmContainer
  <2>2. proc[p].idx - 1 \in Nat
    BY <1>2
  <2> QED BY <1>1, <2>1, <2>2, GoesStep DEF Moving
<1>4. ControlAt(p)'
  BY <1>1, <1>2, <1>3 DEF ControlAt, RmContainer, Creating
<1>5. StoreTypeOK'
  <2>1. CASE Current(p) \in Included(Cmd(p))
    BY <1>1, <1>2, <2>1, StoreSteps DEF RmContainer
  <2>2. CASE Current(p) \notin Included(Cmd(p))
    BY <1>1, <2>2 DEF RmContainer, store, StoreTypeOK
  <2> QED BY <2>1, <2>2
<1> QED BY <1>1, <1>3, <1>4, <1>5, OthersKeepControl DEF TypeOK, ObjectsTypeOK, objects

(* compose_down from the end of its loop to the volumes.                   *)
LEMMA ListVolumesStep ==
  ASSUME TypeOK, ControlInv, NEW p \in Procs, RmEnds(p) \/ ListVolumes(p)
  PROVE  TypeOK' /\ ControlInv'
<1> USE DEF Active, Cmd, At, Finished
<1>1. /\ proc \in [Procs -> Process] /\ ControlAt(p)
      /\ UNCHANGED <<store, objects, raced>>
  BY DEF TypeOK, ControlInv, RmEnds, ListVolumes
<1>2. CASE RmEnds(p) /\ Goes(p, [pc |-> "orphans",
                                  tasks |-> Each("stop", Existing) \cup Each("rm", Existing)])
  <2>1. Each("stop", Existing) \cup Each("rm", Existing) \subseteq Calls \X Containers
    BY DEF Each, Calls, Existing
  <2>2. /\ proc' \in [Procs -> Process] /\ \A q \in Procs \ {p} : proc'[q] = proc[q]
        /\ proc'[p].cmd = proc[p].cmd /\ proc'[p].pc = "orphans"
        /\ proc'[p].names = proc[p].names
    BY <1>1, <1>2, <2>1, GoesStep DEF Moving, Stages
  <2>3. ControlAt(p)'
    BY <1>1, <1>2, <2>2 DEF ControlAt, RmEnds, Creating
  <2> QED BY <1>1, <2>2, <2>3, QuietStep
<1>3. CASE RmEnds(p) /\ Goes(p, [pc |-> "ls_volumes"])
  <2>1. /\ proc' \in [Procs -> Process] /\ \A q \in Procs \ {p} : proc'[q] = proc[q]
        /\ proc'[p].cmd = proc[p].cmd /\ proc'[p].pc = "ls_volumes"
        /\ proc'[p].names = proc[p].names /\ proc'[p].tasks = proc[p].tasks
    BY <1>1, <1>3, GoesStep DEF Moving, Stages
  <2>2. ControlAt(p)'
    BY <1>1, <1>3, <2>1 DEF ControlAt, RmEnds, Creating
  <2> QED BY <1>1, <2>1, <2>2, QuietStep
<1>4. CASE ListVolumes(p)
  <2> DEFINE N == IF Cmd(p).op = "down" /\ Cmd(p).volumes
                  THEN Listed(Volumes) \ Kept(Cmd(p)) ELSE {}
  <2>1. N \subseteq Volumes /\ N \cap Kept(Cmd(p)) = {}
    BY DEF Listed, Labelled
  <2>2. Goes(p, [pc |-> "rm_volumes", names |-> N])
    BY <1>4 DEF ListVolumes
  <2> HIDE DEF N
  <2>3. /\ proc' \in [Procs -> Process] /\ \A q \in Procs \ {p} : proc'[q] = proc[q]
        /\ proc'[p].cmd = proc[p].cmd /\ proc'[p].pc = "rm_volumes"
        /\ proc'[p].names = N /\ proc'[p].tasks = proc[p].tasks
    BY <1>1, <2>1, <2>2, GoesStep DEF Moving, Stages
  <2>4. ControlAt(p)'
    BY <1>1, <1>4, <2>1, <2>3 DEF ControlAt, ListVolumes, Creating
  <2> QED BY <1>1, <2>3, <2>4, QuietStep
<1> QED BY <1>2, <1>3, <1>4 DEF RmEnds

LEMMA AfterDownStep ==
  ASSUME TypeOK, ControlInv, NEW p \in Procs, proc[p].pc \in {"rm_volumes", "rm_networks"},
         proc[p].names = {}, AfterDown(p), UNCHANGED <<store, objects, raced>>
  PROVE  TypeOK' /\ ControlInv'
<1> USE DEF Active, Cmd, At, Finished
<1>1. proc \in [Procs -> Process] /\ ControlAt(p)
  BY DEF TypeOK, ControlInv
<1>2. CASE Goes(p, [pc |-> "pod"])
  <2>1. /\ proc' \in [Procs -> Process] /\ \A q \in Procs \ {p} : proc'[q] = proc[q]
        /\ proc'[p].cmd = proc[p].cmd /\ proc'[p].pc = "pod"
        /\ proc'[p].names = proc[p].names /\ proc'[p].tasks = proc[p].tasks
    BY <1>1, <1>2, GoesStep DEF Moving, Stages
  <2>2. ControlAt(p)'
    BY <1>1, <2>1 DEF ControlAt, Creating
  <2> QED BY <1>1, <2>1, <2>2, QuietStep
<1>3. CASE Ends(p, "done")
  <2>1. ControlAt(p)'
    BY <1>1, <1>3, EndsFields DEF ControlAt, Creating
  <2> QED BY <1>1, <1>3, <2>1, EndsFields, QuietStep
<1> QED BY <1>2, <1>3 DEF AfterDown

LEMMA RemovedStep ==
  ASSUME TypeOK, ControlInv, NEW p \in Procs,
         VolumesRemoved(p) \/ ListNetworks(p) \/ NetworksRemoved(p)
  PROVE  TypeOK' /\ ControlInv'
<1> USE DEF Active, Cmd, At, Finished
<1>1. /\ proc \in [Procs -> Process] /\ ControlAt(p)
      /\ UNCHANGED <<store, objects, raced>>
  BY DEF TypeOK, ControlInv, VolumesRemoved, ListNetworks, NetworksRemoved
<1>2. CASE VolumesRemoved(p) /\ ~ Excludes(Cmd(p))
  <2>1. /\ proc' \in [Procs -> Process] /\ \A q \in Procs \ {p} : proc'[q] = proc[q]
        /\ proc'[p].cmd = proc[p].cmd /\ proc'[p].pc = "rm_pod"
        /\ proc'[p].names = proc[p].names /\ proc'[p].tasks = proc[p].tasks
    BY <1>1, <1>2, GoesStep DEF Moving, Stages, VolumesRemoved
  <2>2. ControlAt(p)'
    BY <1>1, <1>2, <2>1 DEF ControlAt, Creating, VolumesRemoved
  <2> QED BY <1>1, <2>1, <2>2, QuietStep
<1>3. CASE ListNetworks(p)
  <2>1. Listed(Networks) \subseteq Networks
    BY DEF Listed, Labelled
  <2>2. /\ proc' \in [Procs -> Process] /\ \A q \in Procs \ {p} : proc'[q] = proc[q]
        /\ proc'[p].cmd = proc[p].cmd /\ proc'[p].pc = "rm_networks"
        /\ proc'[p].names = Listed(Networks) /\ proc'[p].tasks = proc[p].tasks
    BY <1>1, <1>3, <2>1, GoesStep DEF Moving, Stages, ListNetworks
  <2>3. ControlAt(p)'
    BY <1>1, <1>3, <2>2 DEF ControlAt, Creating, ListNetworks
  <2> QED BY <1>1, <2>2, <2>3, QuietStep
<1>4. CASE AfterDown(p) /\ (VolumesRemoved(p) \/ NetworksRemoved(p))
  BY <1>1, <1>4, AfterDownStep DEF VolumesRemoved, NetworksRemoved
<1> QED BY <1>2, <1>3, <1>4 DEF VolumesRemoved, NetworksRemoved

LEMMA RmPodStep ==
  ASSUME TypeOK, ControlInv, NEW p \in Procs, RmPod(p)
  PROVE  TypeOK' /\ ControlInv'
<1> USE DEF Active, Cmd, At, Finished
<1>1. proc \in [Procs -> Process] /\ ControlAt(p)
  BY DEF TypeOK, ControlInv
<1>2. /\ proc' \in [Procs -> Process] /\ \A q \in Procs \ {p} : proc'[q] = proc[q]
      /\ proc'[p].cmd = proc[p].cmd /\ proc'[p].pc = "ls_networks"
      /\ proc'[p].names = proc[p].names /\ proc'[p].tasks = proc[p].tasks
  BY <1>1, GoesStep DEF Moving, Stages, RmPod
<1>3. ControlAt(p)'
  BY <1>1, <1>2 DEF ControlAt, Creating, RmPod
<1>4. StoreTypeOK' /\ pod' \in BOOLEAN
  <2>1. CASE pod
    BY <2>1, PodRmType DEF RmPod, PodRm, TypeOK
  <2>2. CASE ~ pod
    BY <2>2 DEF RmPod, PodRm, TypeOK, store, StoreTypeOK, ObjectsTypeOK
  <2> QED BY <2>1, <2>2
<1> QED BY <1>2, <1>3, <1>4, OthersKeepControl DEF RmPod, TypeOK, ObjectsTypeOK

LEMMA RmObjectStep ==
  ASSUME TypeOK, ControlInv, NEW p \in Procs, NEW r \in Objects, RmObject(p, r)
  PROVE  TypeOK' /\ ControlInv'
<1> USE DEF Active, Cmd, At, Finished
<1>1. proc \in [Procs -> Process] /\ ControlAt(p) /\ UNCHANGED <<store, pod, raced>>
      /\ r \in proc[p].names
  BY DEF TypeOK, ControlInv, RmObject
<1>2. obj' \in [Objects -> {"absent", "labelled", "plain"}]
  BY DEF RmObject, ObjectRm, TypeOK, ObjectsTypeOK
<1>3. proc' \in [Procs -> Process]
  <2>1. \A q \in Procs : [proc[q] EXCEPT !.names = @ \ {r}] \in Process
    BY <1>1 DEF Process
  <2>2. \A q \in Procs : [proc[q] EXCEPT !.met = @ \cup {"removal"}] \in Process
    BY <1>1 DEF Process
  <2> HIDE DEF Active
  <2> QED BY <1>1, <2>1, <2>2 DEF RmObject
<1>4. \A q \in Procs : /\ proc'[q].cmd = proc[q].cmd /\ proc'[q].pc = proc[q].pc
                       /\ proc'[q].idx = proc[q].idx /\ proc'[q].at = proc[q].at
                       /\ proc'[q].tasks = proc[q].tasks
                       /\ proc'[q].names \subseteq proc[q].names
  BY <1>1 DEF RmObject, Process
<1>5. ControlInv'
  <2> SUFFICES ASSUME NEW q \in Procs PROVE ControlAt(q)'
    BY DEF ControlInv
  <2>1. ControlAt(q)
    BY DEF ControlInv
  <2> QED BY <1>4, <2>1 DEF ControlAt, Needs, Need, Current
<1> QED BY <1>1, <1>2, <1>3, <1>5 DEF TypeOK, StoreTypeOK, ObjectsTypeOK, store

(* The steps of up that look for the next container.                       *)
LEMMA ToContainerStep ==
  ASSUME TypeOK, ControlInv, NEW p \in Procs, NEW n \in Nat \ {0}, ToContainer(p, n),
         proc[p].pc \in {"pod", "make_pod", "inspect", "start"},
         StoreTypeOK', ObjectsTypeOK', UNCHANGED raced
  PROVE  TypeOK' /\ ControlInv'
<1> USE DEF Active, Cmd, At, Finished
<1>1. proc \in [Procs -> Process] /\ ControlAt(p) /\ Cmd(p) \in Commands
  BY DEF TypeOK, ControlInv, ControlAt
<1>2. proc' \in [Procs -> Process] /\ (\A q \in Procs \ {p} : proc'[q] = proc[q])
  BY <1>1, ToContainerFields
<1>3. proc'[p].pc \in Finished \cup {"inspect"}
  BY <1>1, ToContainerFields
<1>4. ControlAt(p)'
  BY <1>1, <1>3, ToContainerFields DEF ControlAt, Creating, Current
<1> QED BY <1>2, <1>4, OthersKeepControl DEF TypeOK

(* A step of up within a container.                                        *)
LEMMA CreatingStep ==
  ASSUME TypeOK, ControlInv, NEW p \in Procs, proc[p].pc \in Creating,
         NEW pc \in Creating, NEW r, Goes(p, r), DOMAIN r \subseteq {"pc", "at"},
         "pc" \in DOMAIN r, r["pc"] = pc, "at" \in DOMAIN r => r["at"] \in Nat,
         pc \in {"make", "recheck"} =>
           /\ r = [pc |-> pc]
           /\ proc[p].at \in DOMAIN Needs(p) /\ Need(p).kind \in {"volume", "network"},
         StoreTypeOK', ObjectsTypeOK', UNCHANGED raced
  PROVE  TypeOK' /\ ControlInv'
<1> USE DEF Active, Cmd, At, Finished
<1>1. proc \in [Procs -> Process] /\ ControlAt(p)
  BY DEF TypeOK, ControlInv, ControlAt
<1>2. /\ proc' \in [Procs -> Process] /\ \A q \in Procs \ {p} : proc'[q] = proc[q]
      /\ proc'[p].cmd = proc[p].cmd /\ proc'[p].pc = pc /\ proc'[p].idx = proc[p].idx
      /\ proc'[p].at = IF "at" \in DOMAIN r THEN r["at"] ELSE proc[p].at
      /\ proc'[p].names = proc[p].names /\ proc'[p].tasks = proc[p].tasks
  BY <1>1, GoesStep DEF Moving, Stages, Creating
<1>3. pc \in {"make", "recheck"} => proc'[p].at = proc[p].at
  <2> SUFFICES ASSUME pc \in {"make", "recheck"} PROVE "at" \notin DOMAIN r
    BY <1>2
  <2> QED OBVIOUS
<1>4. ControlAt(p)'
  BY <1>1, <1>2, <1>3 DEF ControlAt, Creating, Current, Needs, Need
<1> QED BY <1>2, <1>4, OthersKeepControl DEF TypeOK

LEMMA EndsStep ==
  ASSUME TypeOK, ControlInv, NEW p \in Procs, NEW pc \in Finished, Ends(p, pc),
         StoreTypeOK', ObjectsTypeOK', UNCHANGED raced
  PROVE  TypeOK' /\ ControlInv'
<1> USE DEF Active, Cmd, At
<1>1. proc \in [Procs -> Process]
  BY DEF TypeOK
<1>2. ControlAt(p)'
  BY <1>1, EndsFields DEF ControlAt, Creating, Finished
<1> QED BY <1>1, <1>2, EndsFields, OthersKeepControl DEF TypeOK

LEMMA NextNeedStep ==
  ASSUME TypeOK, ControlInv, NEW p \in Procs, proc[p].pc \in Creating, NextNeed(p),
         StoreTypeOK', ObjectsTypeOK', UNCHANGED raced
  PROVE  TypeOK' /\ ControlInv'
<1> DEFINE r == [pc |-> "inspect", at |-> proc[p].at + 1]
<1>1. /\ Goes(p, r) /\ DOMAIN r = {"pc", "at"} /\ r["pc"] = "inspect"
      /\ r["at"] \in Nat
  BY DEF NextNeed, TypeOK, Process
<1> HIDE DEF r
<1> QED BY <1>1, CreatingStep DEF Creating

LEMMA PodStep ==
  ASSUME TypeOK, ControlInv, NEW p \in Procs, PodExists(p) \/ MakePod(p)
  PROVE  TypeOK' /\ ControlInv'
<1> USE DEF At
<1>1. StoreTypeOK' /\ ObjectsTypeOK' /\ UNCHANGED raced
  BY DEF PodExists, MakePod, TypeOK, StoreTypeOK, ObjectsTypeOK, store, objects
<1>2. CASE ToContainer(p, 1)
  BY <1>1, <1>2, ToContainerStep DEF PodExists, MakePod
<1>3. CASE PodExists(p) /\ Goes(p, [pc |-> "make_pod"])
  <2>1. proc \in [Procs -> Process] /\ ControlAt(p)
    BY DEF TypeOK, ControlInv
  <2>2. /\ proc' \in [Procs -> Process] /\ \A q \in Procs \ {p} : proc'[q] = proc[q]
        /\ proc'[p].cmd = proc[p].cmd /\ proc'[p].pc = "make_pod"
        /\ proc'[p].names = proc[p].names /\ proc'[p].tasks = proc[p].tasks
    BY <1>3, <2>1, GoesStep DEF Moving, Stages
  <2>3. ControlAt(p)'
    BY <1>3, <2>1, <2>2 DEF ControlAt, Creating, PodExists, Active, Cmd, Finished
  <2> QED BY <1>1, <2>2, <2>3, OthersKeepControl DEF TypeOK
<1> QED BY <1>2, <1>3 DEF PodExists, MakePod

LEMMA InspectStep ==
  ASSUME TypeOK, ControlInv, NEW p \in Procs, Inspect(p)
  PROVE  TypeOK' /\ ControlInv'
<1> USE DEF At
<1>1. StoreTypeOK' /\ UNCHANGED raced
  BY DEF Inspect, TypeOK, StoreTypeOK, store
<1>2. ObjectsTypeOK'
  BY DEF Inspect, TypeOK, ObjectsTypeOK
<1>3. proc[p].pc \in Creating
  BY DEF Inspect, Creating
<1>4. CASE NextNeed(p)
  BY <1>1, <1>2, <1>3, <1>4, NextNeedStep
<1>5. CASE Ends(p, "error")
  BY <1>1, <1>2, <1>5, EndsStep DEF Finished
<1>6. CASE Goes(p, [pc |-> "make"]) /\ Need(p).kind \in {"volume", "network"}
  <2> DEFINE r == [pc |-> "make"]
  <2>1. Goes(p, r) /\ DOMAIN r = {"pc"} /\ r["pc"] = "make" /\ proc[p].at \in DOMAIN Needs(p)
    BY <1>6 DEF Inspect
  <2>2. r = [pc |-> "make"]
    OBVIOUS
  <2> HIDE DEF r
  <2> QED BY <1>1, <1>2, <1>3, <1>6, <2>1, <2>2, CreatingStep DEF Creating
<1> QED BY <1>4, <1>5, <1>6 DEF Inspect

LEMMA MakeStep ==
  ASSUME TypeOK, ControlInv, NEW p \in Procs, Make(p) \/ Recheck(p)
  PROVE  TypeOK' /\ ControlInv'
<1> USE DEF At
<1>1. StoreTypeOK' /\ UNCHANGED raced
  BY DEF Make, Recheck, TypeOK, StoreTypeOK, store, objects
<1>2. ObjectsTypeOK'
  BY DEF Make, Recheck, ObjectCreate, TypeOK, ObjectsTypeOK, objects
<1>3. proc[p].pc \in Creating /\ ControlAt(p)
  BY DEF Make, Recheck, Creating, ControlInv
<1>4. CASE NextNeed(p)
  BY <1>1, <1>2, <1>3, <1>4, NextNeedStep
<1>5. CASE Ends(p, "error")
  BY <1>1, <1>2, <1>5, EndsStep DEF Finished
<1>6. CASE Make(p) /\ Goes(p, [pc |-> "recheck"])
  <2> DEFINE r == [pc |-> "recheck"]
  <2>1. Goes(p, r) /\ DOMAIN r = {"pc"} /\ r["pc"] = "recheck" /\ r = [pc |-> "recheck"]
    BY <1>6
  <2>2. proc[p].at \in DOMAIN Needs(p) /\ Need(p).kind \in {"volume", "network"}
    BY <1>3, <1>6 DEF ControlAt, Make
  <2> HIDE DEF r
  <2> QED BY <1>1, <1>2, <1>3, <2>1, <2>2, CreatingStep DEF Creating
<1> QED BY <1>4, <1>5, <1>6 DEF Make, Recheck

LEMMA CreateContainerStep ==
  ASSUME TypeOK, ControlInv, NEW p \in Procs, CreateContainer(p)
  PROVE  TypeOK' /\ ControlInv'
<1> USE DEF At
<1> DEFINE i == Cmd(p)
           c == Current(p)
           f == i.stack
           req == NamesOf(DepsOf(i, c)) \cap Members(f)
<1>1. /\ i \in Commands /\ c \in Containers /\ req \subseteq Containers
      /\ f.config \in Configs /\ proc[p].idx \in Nat /\ proc[p].pc = "inspect"
  BY CommandFacts DEF ControlInv, ControlAt, CreateContainer, Creating, Active, Finished,
                      TypeOK, Process
<1>2. CASE Ends(p, "error") /\ UNCHANGED <<store, objects>>
  <2>1. StoreTypeOK' /\ ObjectsTypeOK' /\ UNCHANGED raced
    BY <1>2 DEF CreateContainer, TypeOK, StoreTypeOK, ObjectsTypeOK, store, objects
  <2> QED BY <1>2, <2>1, EndsStep DEF Finished
<1>3. CASE PodmanCreateIn(c, req, f.config, GivenNetworks(f, c),
                          GivenMounts(f, c, "bind"), VolumeNames(f, c))
  <2> DEFINE nets == GivenNetworks(f, c)
             dirs == GivenMounts(f, c, "bind")
             vols == VolumeNames(f, c)
  <2> HIDE DEF nets, dirs, vols, req
  <2>1. PodmanCreateIn(c, req, f.config, nets, dirs, vols)
    BY <1>3 DEF nets, dirs, vols, req
  <2>2. UNCHANGED <<store, objects>> => StoreTypeOK' /\ ObjectsTypeOK'
    BY DEF TypeOK, StoreTypeOK, ObjectsTypeOK, store, objects
  <2>3. ASSUME PodmanCreate(c, req, f.config), UNCHANGED pod,
               obj' = [r \in Objects |-> IF r \in vols /\ ~ Present(r) THEN "plain"
                                                                      ELSE obj[r]]
        PROVE  StoreTypeOK' /\ ObjectsTypeOK'
    <3>1. StoreTypeOK'
      BY <1>1, <2>3, CreateType DEF TypeOK
    <3>2. ObjectsTypeOK'
      BY <2>3 DEF TypeOK, ObjectsTypeOK
    <3> QED BY <3>1, <3>2
  <2>4. StoreTypeOK' /\ ObjectsTypeOK' /\ UNCHANGED raced
    BY <2>1, <2>2, <2>3 DEF PodmanCreateIn, CreateContainer
  <2>5. CASE ToContainer(p, proc[p].idx + 1)
    BY <1>1, <2>4, <2>5, ToContainerStep
  <2>6. CASE Goes(p, [pc |-> "start"])
    <3> DEFINE r == [pc |-> "start"]
    <3>1. Goes(p, r) /\ DOMAIN r = {"pc"} /\ r["pc"] = "start"
      BY <2>6
    <3> HIDE DEF r
    <3> QED BY <1>1, <2>4, <3>1, CreatingStep DEF Creating
  <2> HIDE DEF i, c, f
  <2>7. ToContainer(p, proc[p].idx + 1) \/ Goes(p, [pc |-> "start"]) \/ Ends(p, "error")
    BY DEF CreateContainer
  <2>8. CASE Ends(p, "error")
    BY <2>4, <2>8, EndsStep DEF Finished
  <2> QED BY <2>5, <2>6, <2>7, <2>8
<1>4. \/ Ends(p, "error") /\ UNCHANGED <<store, objects>>
      \/ PodmanCreateIn(c, req, f.config, GivenNetworks(f, c),
                        GivenMounts(f, c, "bind"), VolumeNames(f, c))
  BY DEF CreateContainer
<1> QED BY <1>2, <1>3, <1>4

LEMMA StartContainerStep ==
  ASSUME TypeOK, ControlInv, NEW p \in Procs, StartContainer(p)
  PROVE  TypeOK' /\ ControlInv'
<1> USE DEF At
<1>1. Current(p) \in Containers /\ proc[p].idx \in Nat /\ proc[p].pc = "start"
  BY CommandFacts DEF ControlInv, ControlAt, StartContainer, Creating, Active, Finished,
                      TypeOK, Process
<1>2. StoreTypeOK' /\ ObjectsTypeOK' /\ UNCHANGED raced
  BY <1>1, StoreSteps DEF StartContainer, TypeOK, ObjectsTypeOK, objects
<1> QED BY <1>1, <1>2, ToContainerStep DEF StartContainer

LEMMA StepStep ==
  ASSUME TypeOK, ControlInv, NEW p \in Procs, Step(p)
  PROVE  TypeOK' /\ ControlInv'
BY TasksStep, TasksEndStep, RmContainerStep, ListVolumesStep, RemovedStep, RmPodStep,
   RmObjectStep, PodStep, InspectStep, MakeStep, CreateContainerStep, StartContainerStep
   DEF Step

-----------------------------------------------------------------------------
(* Commands that begin, and kills.                                         *)

(* What a command comes to first.                                          *)
LEMMA FirstFacts ==
  ASSUME NEW i \in Commands
  PROVE  /\ First(i).tasks \subseteq Calls \X Containers
         /\ \/ /\ First(i).pc = "error" /\ First(i).tasks = {}
               /\ ParsingRaises(i.stack) \/ ~ i.services \subseteq Members(i.stack)
            \/ First(i).pc \in {"transfer", "stop"} /\ ~ ParsingRaises(i.stack)
            \/ /\ First(i).pc = "pod" /\ First(i).tasks = {}
               /\ ~ ParsingRaises(i.stack)
<1> DEFINE wrong == \/ ParsingRaises(i.stack)
                    \/ /\ i.op \in {"start", "stop", "restart"}
                       /\ ~ i.services \subseteq Members(i.stack)
           recreates == i.op = "down" \/ (i.op = "up" /\ Recreates(i))
<1>1. CASE wrong
  <2>1. First(i) = [pc |-> "error", tasks |-> {}]
    BY <1>1 DEF First
  <2> QED BY <1>1, <2>1
<1>2. CASE ~ wrong /\ i.op \in {"start", "stop", "restart"}
  <2>1. First(i) = [pc |-> "transfer", tasks |-> Each(i.op, Targets(i))]
    BY <1>2 DEF First
  <2>2. Each(i.op, Targets(i)) \subseteq Calls \X Containers
    BY <1>2, CommandFacts DEF Each, Calls
  <2> QED BY <1>2, <2>1, <2>2
<1>3. CASE ~ wrong /\ i.op \notin {"start", "stop", "restart"} /\ recreates
  <2>1. First(i) = [pc |-> "stop", tasks |-> Each("stop", Included(i))]
    BY <1>3 DEF First
  <2>2. Each("stop", Included(i)) \subseteq Calls \X Containers
    BY CommandFacts DEF Each, Calls
  <2> QED BY <1>3, <2>1, <2>2
<1>4. CASE ~ wrong /\ i.op \notin {"start", "stop", "restart"} /\ ~ recreates
  <2>1. First(i) = [pc |-> "pod", tasks |-> {}]
    BY <1>4 DEF First
  <2> QED BY <1>4, <2>1
<1> QED BY <1>1, <1>2, <1>3, <1>4

(* How Begin sets up the process, and what becomes of the others.          *)
LEMMA BeginFields ==
  ASSUME TypeOK, NEW p \in Procs, NEW i \in Commands, Begin(p, i)
  PROVE  /\ proc' \in [Procs -> Process]
         /\ proc'[p].cmd = i /\ proc'[p].names = {} /\ proc'[p].tasks = First(i).tasks
         /\ proc'[p].pc = First(i).pc
         /\ proc'[p].wasUp = {c \in Containers : i.op = "restart" /\ Up(c)}
         /\ proc'[p].clean => Consistent(i) /\ Existing \subseteq Members(i.stack)
         /\ proc'[p].met = {} <=> \A q \in Procs \ {p} : ~ Active(q)
         /\ \A q \in Procs \ {p} :
              \/ Active(q) /\ proc'[q] = [proc[q] EXCEPT !.met = @ \cup {"command"}]
              \/ ~ Active(q) /\ proc'[q] = Idle
<1> DEFINE others == {q \in Procs \ {p} : Active(q)}
           met == IF others = {} THEN {} ELSE {"command"}
           wasUp == {c \in Containers : i.op = "restart" /\ Up(c)}
           clean == i.op = "down" /\ Consistent(i) /\ Existing \subseteq Members(i.stack)
           new == [cmd |-> i, pc |-> First(i).pc, idx |-> 0, at |-> 0,
                   tasks |-> First(i).tasks, names |-> {}, met |-> met,
                   wasUp |-> wasUp, clean |-> clean]
<1>1. clean \in BOOLEAN
  BY DEF Consistent
<1>2. /\ met \subseteq {"command", "removal"} /\ wasUp \subseteq Containers
      /\ (met = {} <=> \A q \in Procs \ {p} : ~ Active(q))
  OBVIOUS
<1>3. proc' = [q \in Procs |->
                IF q = p THEN new
                ELSE IF q \in others THEN [proc[q] EXCEPT !.met = @ \cup {"command"}]
                ELSE Idle]
  BY DEF Begin
<1>4. First(i).pc \in Finished \cup Stages /\ First(i).tasks \subseteq Calls \X Containers
  BY FirstFacts DEF Finished, Stages
<1>5. \A q \in Procs : [proc[q] EXCEPT !.met = @ \cup {"command"}] \in Process
  BY DEF TypeOK, Process
<1>6. Idle \in Process
  BY DEF Idle, Process, Finished
<1>10. clean => Consistent(i) /\ Existing \subseteq Members(i.stack)
  OBVIOUS
<1>11. wasUp = {c \in Containers : i.op = "restart" /\ Up(c)}
  OBVIOUS
<1> HIDE DEF met, wasUp, clean
<1>7. new \in Process
  BY <1>1, <1>2, <1>4 DEF Process
<1>8. proc'[p] = new /\ \A q \in Procs \ {p} :
              \/ q \in others /\ proc'[q] = [proc[q] EXCEPT !.met = @ \cup {"command"}]
              \/ q \notin others /\ proc'[q] = Idle
  BY <1>3
<1>9. proc' \in [Procs -> Process]
  BY <1>3, <1>5, <1>6, <1>7
<1> QED BY <1>2, <1>8, <1>9, <1>10, <1>11

LEMMA BeginStep ==
  ASSUME TypeOK, ControlInv, NEW p \in Procs, NEW i \in Commands, Begin(p, i)
  PROVE  TypeOK' /\ ControlInv'
<1>1. TypeOK'
  <2>1. UNCHANGED <<store, objects>> /\ raced' \in BOOLEAN
    BY DEF Begin, TypeOK
  <2> QED BY <2>1, BeginFields DEF TypeOK, StoreTypeOK, ObjectsTypeOK, store, objects
<1>2. ControlAt(p)'
  BY BeginFields, FirstFacts DEF ControlAt, Active, Finished, At, Cmd, Creating
<1>3. ASSUME NEW q \in Procs \ {p} PROVE ControlAt(q)'
  <2>1. CASE proc'[q] = Idle
    BY <2>1 DEF Idle, ControlAt, Active, Finished, At, Cmd, Creating
  <2>2. CASE proc'[q] = [proc[q] EXCEPT !.met = @ \cup {"command"}]
    <3>1. /\ proc'[q].cmd = proc[q].cmd /\ proc'[q].pc = proc[q].pc
          /\ proc'[q].idx = proc[q].idx /\ proc'[q].at = proc[q].at
          /\ proc'[q].tasks = proc[q].tasks /\ proc'[q].names = proc[q].names
      BY <2>2 DEF TypeOK, Process
    <3> QED BY <3>1 DEF ControlInv, ControlAt, Active, At, Cmd, Current, Needs, Need
  <2> QED BY <2>1, <2>2, BeginFields
<1> QED BY <1>1, <1>2, <1>3 DEF ControlInv

LEMMA KilledStep ==
  ASSUME TypeOK, ControlInv, NEW p \in Procs, Killed(p)
  PROVE  TypeOK' /\ ControlInv'
<1>1. /\ proc' \in [Procs -> Process] /\ proc'[p] = Idle
      /\ \A q \in Procs \ {p} : proc'[q] = proc[q]
  BY DEF Killed, TypeOK, Idle, Process, Finished
<1>2. TypeOK'
  BY <1>1 DEF Killed, TypeOK, StoreTypeOK, ObjectsTypeOK, store, objects
<1>3. ControlAt(p)'
  BY <1>1 DEF Idle, ControlAt, Active, Finished, At, Cmd, Creating
<1> QED BY <1>1, <1>2, <1>3, OthersKeepControl

LEMMA Beginning == Init => TypeOK /\ ControlInv
<1> SUFFICES ASSUME Init PROVE TypeOK /\ ControlInv
  OBVIOUS
<1>1. Idle \in Process
  BY DEF Idle, Process, Finished
<1>2. TypeOK
  <2>1. StoreTypeOK
    BY DEF Init, StoreInit, StoreTypeOK, States, UpStates
  <2>2. ObjectsTypeOK
    BY DEF Init, ObjectsInit, ObjectsTypeOK
  <2>3. proc \in [Procs -> Process] /\ raced \in BOOLEAN
    BY <1>1 DEF Init
  <2> QED BY <2>1, <2>2, <2>3 DEF TypeOK
<1>3. ControlInv
  BY DEF Init, Idle, ControlInv, ControlAt, Active, Finished, At, Cmd, Creating
<1> QED BY <1>2, <1>3

LEMMA Stuttering ==
  ASSUME TypeOK, ControlInv, UNCHANGED vars
  PROVE  TypeOK' /\ ControlInv'
BY DEF vars, store, objects, TypeOK, StoreTypeOK, ObjectsTypeOK, ControlInv, ControlAt,
       Active, At, Cmd, Current, Needs, Need

LEMMA Control == Spec => [](TypeOK /\ ControlInv)
<1>1. TypeOK /\ ControlInv /\ [Next]_vars => TypeOK' /\ ControlInv'
  BY BeginStep, StepStep, KilledStep, Stuttering DEF Next
<1> QED BY <1>1, Beginning, PTL DEF Spec

(* Types.                                                                  *)
THEOREM TypeCorrect == Spec => []TypeOK
BY Control, PTL

-----------------------------------------------------------------------------
(* What is removed.                                                        *)

LEMMA StepIsActive ==
  ASSUME ControlInv, NEW p \in Procs, Step(p)
  PROVE  Active(p)
<1>1. ControlAt(p)
  BY DEF ControlInv
<1>2. \/ proc[p].tasks # {} \/ proc[p].names # {}
      \/ proc[p].pc \in Stages
  BY DEF Step, Task, RmObject, TasksEnd, RmContainer, RmEnds, ListVolumes, VolumesRemoved,
         RmPod, ListNetworks, NetworksRemoved, PodExists, MakePod, Inspect, Make, Recheck,
         CreateContainer, StartContainer, At, Stages
<1> QED BY <1>1, <1>2 DEF ControlAt, Active, Finished, Stages

(* What is there changes only by being removed, as the next of a loop.     *)
LEMMA ObjectsStep ==
  ASSUME TypeOK, ControlInv, NEW p \in Procs, Step(p), NEW r \in Objects, Present(r),
         obj'[r] # obj[r]
  PROVE  r \in proc[p].names
<1>1. CASE \E x \in Objects : RmObject(p, x)
  BY <1>1 DEF RmObject, ObjectRm, TypeOK, ObjectsTypeOK
<1>2. CASE Inspect(p)
  BY <1>2 DEF Inspect, TypeOK, ObjectsTypeOK
<1>3. CASE Make(p)
  BY <1>3 DEF Make, ObjectCreate, TypeOK, ObjectsTypeOK
<1>4. CASE CreateContainer(p)
  <2>1. obj' = obj \/ \E V : obj' = [x \in Objects |-> IF x \in V /\ ~ Present(x) THEN "plain"
                                                                            ELSE obj[x]]
    BY <1>4 DEF CreateContainer, PodmanCreateIn, objects
  <2> QED BY <2>1
<1>5. obj' = obj \/ (\E x \in Objects : RmObject(p, x)) \/ Inspect(p) \/ Make(p)
        \/ CreateContainer(p)
  BY DEF Step, Task, TasksEnd, RmContainer, RmEnds, ListVolumes, VolumesRemoved,
         RmPod, ListNetworks, NetworksRemoved, PodExists, MakePod, Recheck,
         StartContainer, objects
<1> QED BY <1>1, <1>2, <1>3, <1>4, <1>5

LEMMA GoesKeepsNames ==
  ASSUME proc \in [Procs -> Process], NEW p \in Procs, NEW r, Goes(p, r),
         DOMAIN r \subseteq Moving \ {"names"}
  PROVE  \A q \in Procs : proc'[q].names = proc[q].names
<1>1. \A q \in Procs \ {p} : proc'[q] = proc[q]
  BY GoesFields
<1>2. proc'[p].names = proc[p].names
  BY GoesFields DEF Fields
<1> QED BY <1>1, <1>2

LEMMA EndsClearsNames ==
  ASSUME proc \in [Procs -> Process], NEW p \in Procs, NEW pc \in Finished, Ends(p, pc)
  PROVE  \A q \in Procs : proc'[q].names \subseteq proc[q].names
<1>1. (\A q \in Procs \ {p} : proc'[q] = proc[q]) /\ proc'[p].names = {}
  BY EndsFields
<1> QED BY <1>1

LEMMA ToContainerKeepsNames ==
  ASSUME proc \in [Procs -> Process], NEW p \in Procs, NEW n \in Nat \ {0},
         Cmd(p) \in Commands, ToContainer(p, n)
  PROVE  \A q \in Procs : proc'[q].names \subseteq proc[q].names
<1>1. \A q \in Procs \ {p} : proc'[q] = proc[q]
  BY ToContainerFields
<1>2. proc'[p].names \subseteq proc[p].names
  BY ToContainerFields
<1> QED BY <1>1, <1>2

(* Loops go over names that carry the label of the project.                *)
LEMMA NamesStep ==
  ASSUME TypeOK, ControlInv, NEW p \in Procs, Step(p)
  PROVE  \A q \in Procs : proc'[q].names \subseteq proc[q].names \cup Labelled(Objects)
<1>1. proc \in [Procs -> Process] /\ ControlAt(p) /\ Active(p)
  BY StepIsActive DEF TypeOK, ControlInv
<1>2. Cmd(p) \in Commands /\ proc[p].idx \in Nat
  BY <1>1 DEF ControlAt, Process
<1>3. CASE \E t \in Calls \X Containers : Task(p, t)
  BY <1>1, <1>3, GoesKeepsNames DEF Task, Moving
<1>4. CASE \E r \in Objects : RmObject(p, r)
  BY <1>1, <1>4 DEF RmObject, Process
<1>5. CASE TasksEnd(p)
  BY <1>1, <1>5, GoesKeepsNames, EndsClearsNames DEF TasksEnd, Moving, Finished
<1>6. CASE RmContainer(p) \/ RmEnds(p) \/ RmPod(p)
  BY <1>1, <1>6, GoesKeepsNames DEF RmContainer, RmEnds, RmPod, Moving
<1>7. CASE ListVolumes(p) \/ ListNetworks(p)
  <2>1. PICK N : /\ N \subseteq Labelled(Objects)
                 /\ \/ Goes(p, [pc |-> "rm_volumes", names |-> N])
                    \/ Goes(p, [pc |-> "rm_networks", names |-> N])
    BY <1>7 DEF ListVolumes, ListNetworks, Listed, Labelled, Objects
  <2>2. (\A q \in Procs \ {p} : proc'[q] = proc[q]) /\ proc'[p].names = N
    BY <1>1, <2>1, GoesFields DEF Moving, Fields
  <2> QED BY <2>1, <2>2
<1>8. CASE VolumesRemoved(p) \/ NetworksRemoved(p)
  BY <1>1, <1>8, GoesKeepsNames, EndsClearsNames
     DEF VolumesRemoved, NetworksRemoved, AfterDown, Moving, Finished
<1>9. CASE PodExists(p) \/ MakePod(p)
  BY <1>1, <1>2, <1>9, GoesKeepsNames, ToContainerKeepsNames DEF PodExists, MakePod, Moving
<1>10. CASE Inspect(p) \/ Make(p) \/ Recheck(p)
  BY <1>1, <1>10, GoesKeepsNames, EndsClearsNames
     DEF Inspect, Make, Recheck, NextNeed, Moving, Finished
<1>11. CASE CreateContainer(p) \/ StartContainer(p)
  BY <1>1, <1>2, <1>11, GoesKeepsNames, EndsClearsNames, ToContainerKeepsNames
     DEF CreateContainer, StartContainer, Moving, Finished
<1> QED BY <1>3, <1>4, <1>5, <1>6, <1>7, <1>8, <1>9, <1>10, <1>11 DEF Step

(* What the user made outside has no label, and no loop ever names it.     *)
OutsideInv ==
  /\ \A r \in Outside : obj[r] = "plain"
  /\ \A p \in Procs : proc[p].names \cap Outside = {}

LEMMA OutsideStep ==
  ASSUME TypeOK, ControlInv, OutsideInv, [Next]_vars
  PROVE  OutsideInv' /\ \A r \in Outside : obj'[r] = obj[r]
<1>1. ASSUME NEW p \in Procs, Step(p)
      PROVE  OutsideInv' /\ \A r \in Outside : obj'[r] = obj[r]
  <2>1. \A r \in Outside : obj'[r] = obj[r]
    <3> SUFFICES ASSUME NEW r \in Outside, obj'[r] # obj[r] PROVE FALSE
      OBVIOUS
    <3>1. r \in Objects /\ Present(r)
      BY PodmanObjectsAssumption DEF OutsideInv, Present
    <3> QED BY <1>1, <3>1, ObjectsStep DEF OutsideInv
  <2>2. Labelled(Objects) \cap Outside = {}
    BY DEF Labelled, OutsideInv
  <2> QED BY <1>1, <2>1, <2>2, NamesStep DEF OutsideInv
<1>2. ASSUME NEW p \in Procs, NEW i \in Commands, Begin(p, i)
      PROVE  OutsideInv' /\ \A r \in Outside : obj'[r] = obj[r]
  <2>1. obj' = obj
    BY <1>2 DEF Begin, objects
  <2>2. ASSUME NEW q \in Procs PROVE proc'[q].names \subseteq proc[q].names
    <3>1. CASE q = p
      BY <1>2, <3>1, BeginFields
    <3>2. CASE q # p /\ proc'[q] = Idle
      BY <3>2 DEF Idle
    <3>3. CASE q # p /\ proc'[q] = [proc[q] EXCEPT !.met = @ \cup {"command"}]
      BY <3>3 DEF TypeOK, Process
    <3> QED BY <1>2, <3>1, <3>2, <3>3, BeginFields
  <2> QED BY <2>1, <2>2 DEF OutsideInv
<1>3. ASSUME NEW p \in Procs, Killed(p)
      PROVE  OutsideInv' /\ \A r \in Outside : obj'[r] = obj[r]
  <2>1. obj' = obj /\ \A q \in Procs : proc'[q].names \subseteq proc[q].names
    BY <1>3 DEF Killed, objects, TypeOK, Idle
  <2> QED BY <2>1 DEF OutsideInv
<1>4. CASE UNCHANGED vars
  BY <1>4 DEF vars, objects, OutsideInv
<1> QED BY <1>1, <1>2, <1>3, <1>4 DEF Next

(* Nothing of the user's own is removed.                                   *)
THEOREM OutsideKeptTheorem == Spec => OutsideKept
<1>1. Init => OutsideInv
  BY PodmanObjectsAssumption DEF Init, ObjectsInit, Idle, OutsideInv
<1>2. TypeOK /\ ControlInv /\ OutsideInv /\ [Next]_vars => OutsideInv'
  BY OutsideStep
<1>3. TypeOK /\ ControlInv /\ OutsideInv /\ [Next]_vars
        => [\A r \in Outside : obj'[r] = obj[r]]_vars
  BY OutsideStep
<1> QED BY <1>1, <1>2, <1>3, Control, PTL DEF Spec, OutsideKept

(* Volumes of services that are not selected survive down -v.              *)
THEOREM VolumesKeptTheorem == Spec => VolumesKept
<1>1. ASSUME TypeOK, ControlInv, NEW p \in Procs, Step(p), Cmd(p) # None,
             NEW c \in Members(Cmd(p).stack) \ Included(Cmd(p)),
             NEW r \in VolumeNames(Cmd(p).stack, c), Present(r)
      PROVE  obj'[r] # "absent"
  <2> SUFFICES ASSUME obj'[r] = "absent" PROVE FALSE
    OBVIOUS
  <2>1. ControlAt(p) /\ Active(p)
    BY <1>1, StepIsActive DEF ControlInv
  <2>2. Cmd(p) \in Commands /\ ~ ParsingRaises(Cmd(p).stack)
    BY <2>1 DEF ControlAt
  <2>3. r \in Objects
    BY <2>2, ResourcesAssumption DEF VolumeNames, GivenMounts, Files, Objects
  <2>4. r \in proc[p].names
    BY <1>1, <2>3, ObjectsStep DEF Present
  <2>5. r \in Kept(Cmd(p))
    BY DEF Kept
  <2>6. At(p, "rm_networks")
    BY <2>1, <2>4, <2>5 DEF ControlAt, At
  <2> QED BY <2>1, <2>6 DEF ControlAt, Excludes, At
<1>2. TypeOK /\ ControlInv /\ [Next]_vars =>
        [\A p \in Procs : Step(p) /\ Cmd(p) # None =>
           \A c \in Members(Cmd(p).stack) \ Included(Cmd(p)) :
             \A r \in VolumeNames(Cmd(p).stack, c) : Present(r) => obj'[r] # "absent"]_vars
  BY <1>1
<1> QED BY <1>2, Control, PTL DEF Spec, VolumesKept

-----------------------------------------------------------------------------
(* Why a command raises.                                                   *)

(* Between looking for an object, creating it and looking again, a process *)
(* that runs alone finds what it left; it stops for a cause.               *)
OutcomeAt(p) ==
  /\ At(p, "make") => ~ Present(Need(p).name)
  /\ At(p, "recheck") => Present(Need(p).name)
  /\ At(p, "error") => Cause(Cmd(p))

(* p has met no other command since it began.                              *)
Alone(p) == Cmd(p) # None /\ proc[p].met = {}

AloneInv ==
  \A p \in Procs : Alone(p) =>
    OutcomeAt(p) /\ \A q \in Procs \ {p} : ~ Active(q)

LEMMA GoesOn ==
  ASSUME proc \in [Procs -> Process], NEW p \in Procs, NEW r, Goes(p, r),
         DOMAIN r \subseteq Moving
  PROVE  /\ \A q \in Procs \ {p} : proc'[q] = proc[q]
         /\ proc'[p].cmd = proc[p].cmd /\ proc'[p].met = proc[p].met
         /\ proc'[p].wasUp = proc[p].wasUp /\ proc'[p].clean = proc[p].clean
         /\ proc'[p].pc = IF "pc" \in DOMAIN r THEN r["pc"] ELSE proc[p].pc
         /\ proc'[p].idx = IF "idx" \in DOMAIN r THEN r["idx"] ELSE proc[p].idx
         /\ proc'[p].at = IF "at" \in DOMAIN r THEN r["at"] ELSE proc[p].at
         /\ proc'[p].tasks = IF "tasks" \in DOMAIN r THEN r["tasks"] ELSE proc[p].tasks
         /\ proc'[p].names = IF "names" \in DOMAIN r THEN r["names"] ELSE proc[p].names
BY GoesFields DEF Fields, Moving

(* The steps that neither create an object nor raise.                      *)
LEMMA CalmStep ==
  ASSUME TypeOK, ControlInv, NEW p \in Procs,
         \/ \E t \in Calls \X Containers : Task(p, t)
         \/ \E r \in Objects : RmObject(p, r)
         \/ TasksEnd(p) \/ RmContainer(p) \/ RmEnds(p) \/ ListVolumes(p)
         \/ VolumesRemoved(p) \/ RmPod(p) \/ ListNetworks(p) \/ NetworksRemoved(p)
  PROVE  /\ proc'[p].cmd = proc[p].cmd /\ proc'[p].met = proc[p].met
         /\ proc'[p].pc \notin {"inspect", "make", "recheck", "error"}
<1>1. proc \in [Procs -> Process] /\ ControlAt(p)
  BY DEF TypeOK, ControlInv
<1>2. CASE \E t \in Calls \X Containers : Task(p, t)
  <2>1. PICK T : Goes(p, [tasks |-> T]) /\ proc[p].tasks # {}
    BY <1>2 DEF Task
  <2> QED BY <1>1, <2>1, GoesOn DEF Moving, ControlAt
<1>3. CASE \E r \in Objects : RmObject(p, r)
  <2>1. PICK r \in Objects : RmObject(p, r)
    BY <1>3
  <2>2. proc'[p] = [proc[p] EXCEPT !.names = @ \ {r}] /\ r \in proc[p].names
    BY <2>1 DEF RmObject
  <2>3. /\ proc'[p].cmd = proc[p].cmd /\ proc'[p].met = proc[p].met
        /\ proc'[p].pc = proc[p].pc
    BY <1>1, <2>2 DEF Process
  <2>4. proc[p].pc \in {"rm_volumes", "rm_networks"}
    BY <1>1, <2>2 DEF ControlAt
  <2> QED BY <2>3, <2>4
<1>4. CASE TasksEnd(p)
  BY <1>1, <1>4, GoesOn, EndsFields DEF TasksEnd, Moving, Finished
<1>5. CASE RmContainer(p) \/ RmEnds(p) \/ RmPod(p)
  BY <1>1, <1>5, GoesOn DEF RmContainer, RmEnds, RmPod, Moving, At
<1>6. CASE ListVolumes(p) \/ ListNetworks(p)
  BY <1>1, <1>6, GoesOn DEF ListVolumes, ListNetworks, Moving
<1>7. CASE VolumesRemoved(p) \/ NetworksRemoved(p)
  BY <1>1, <1>7, GoesOn, EndsFields
     DEF VolumesRemoved, NetworksRemoved, AfterDown, Moving, Finished
<1> QED BY <1>2, <1>3, <1>4, <1>5, <1>6, <1>7

(* The next container is a good one, or its environment is the cause.      *)
LEMMA ToContainerOutcome ==
  ASSUME TypeOK, ControlInv, NEW p \in Procs, NEW n \in Nat \ {0}, Active(p),
         ToContainer(p, n)
  PROVE  OutcomeAt(p)' /\ proc'[p].met = proc[p].met
<1>1. /\ proc \in [Procs -> Process] /\ Cmd(p) \in Commands
  BY DEF TypeOK, ControlInv, ControlAt
<1>2. /\ proc'[p].cmd = proc[p].cmd /\ proc'[p].met = proc[p].met
      /\ \/ /\ proc'[p].pc \in Finished
            /\ proc'[p].pc = "error" => \E c \in Included(Cmd(p)) :
                  EnvironmentRaises(Cmd(p).stack.services[c])
         \/ proc'[p].pc = "inspect"
  BY <1>1, ToContainerFields
<1> QED BY <1>2 DEF OutcomeAt, At, Cause, Cmd, Finished

(* What a need is, when it is a volume or a network.                       *)
LEMMA NeedFacts ==
  ASSUME ControlInv, NEW p \in Procs, proc[p].pc \in Creating,
         proc[p].at \in DOMAIN Needs(p)
  PROVE  /\ Current(p) \in Included(Cmd(p))
         /\ Need(p).kind \in {"volume", "network"} => Need(p).name \in Objects
<1>1. ControlAt(p) /\ Active(p)
  BY DEF ControlInv, Creating, Active, Finished
<1>2. Cmd(p) \in Commands /\ ~ ParsingRaises(Cmd(p).stack)
      /\ Current(p) \in Included(Cmd(p))
  BY <1>1 DEF ControlAt
<1>3. Current(p) \in Members(Cmd(p).stack)
  BY <1>2, CommandFacts
<1> QED BY <1>2, <1>3, ResourcesAssumption DEF Needs, Need, Files, Objects

LEMMA InspectOutcome ==
  ASSUME TypeOK, ControlInv, NEW p \in Procs, Inspect(p)
  PROVE  OutcomeAt(p)' /\ proc'[p].met = proc[p].met
<1>1. proc \in [Procs -> Process]
  BY DEF TypeOK
<1>2. CASE NextNeed(p)
  BY <1>1, <1>2, GoesOn DEF NextNeed, Moving, OutcomeAt, At
<1>3. CASE Goes(p, [pc |-> "make"]) /\ ~ Present(Need(p).name) /\ UNCHANGED obj
  <2>1. /\ proc'[p].cmd = proc[p].cmd /\ proc'[p].met = proc[p].met
        /\ proc'[p].pc = "make" /\ proc'[p].idx = proc[p].idx /\ proc'[p].at = proc[p].at
    BY <1>1, <1>3, GoesOn DEF Moving
  <2> QED BY <1>3, <2>1 DEF OutcomeAt, At, Need, Needs, Current, Cmd, Present
<1>4. CASE /\ Ends(p, "error") /\ UNCHANGED obj
           /\ Need(p).kind = "other" \/ (Need(p).external /\ ~ Present(Need(p).name))
  <2>1. proc'[p].cmd = proc[p].cmd /\ proc'[p].met = proc[p].met /\ proc'[p].pc = "error"
    BY <1>1, <1>4, EndsFields DEF Finished
  <2>2. Current(p) \in Included(Cmd(p)) /\ proc[p].at \in DOMAIN Needs(p)
    BY NeedFacts DEF Inspect, At, Creating
  <2>3. Cause(Cmd(p))
    BY <1>4, <2>2 DEF Cause, Need, Needs
  <2>4. Cause(Cmd(p))'
    BY <1>4, <2>1, <2>3 DEF Cause, Cmd, Present
  <2> QED BY <2>1, <2>4 DEF OutcomeAt, At
<1> QED BY <1>2, <1>3, <1>4 DEF Inspect

LEMMA MakeOutcome ==
  ASSUME TypeOK, ControlInv, NEW p \in Procs, OutcomeAt(p), Make(p) \/ Recheck(p)
  PROVE  OutcomeAt(p)' /\ proc'[p].met = proc[p].met
<1>1. proc \in [Procs -> Process] /\ ControlAt(p)
  BY DEF TypeOK, ControlInv
<1>2. CASE Make(p)
  <2>1. At(p, "make") /\ ~ Present(Need(p).name) /\ Need(p).name \in Objects
    BY <1>1, <1>2, NeedFacts DEF Make, OutcomeAt, ControlAt, At, Creating
  <2>2. Goes(p, [pc |-> "recheck"]) /\ obj' = [obj EXCEPT ![Need(p).name] = "labelled"]
    BY <1>2, <2>1 DEF Make, ObjectCreate
  <2>3. /\ proc'[p].cmd = proc[p].cmd /\ proc'[p].met = proc[p].met
        /\ proc'[p].pc = "recheck" /\ proc'[p].idx = proc[p].idx
        /\ proc'[p].at = proc[p].at
    BY <1>1, <2>2, GoesOn DEF Moving
  <2>4. Need(p)' = Need(p)
    BY <2>3 DEF Need, Needs, Current, Cmd
  <2>5. obj'[Need(p).name] = "labelled"
    BY <2>1, <2>2 DEF TypeOK, ObjectsTypeOK
  <2> QED BY <2>3, <2>4, <2>5 DEF OutcomeAt, At, Present
<1>3. CASE Recheck(p)
  <2>1. NextNeed(p)
    BY <1>3 DEF Recheck, OutcomeAt
  <2> QED BY <1>1, <2>1, GoesOn DEF NextNeed, Moving, OutcomeAt, At
<1> QED BY <1>2, <1>3

LEMMA CreateOutcome ==
  ASSUME TypeOK, ControlInv, NEW p \in Procs, CreateContainer(p)
  PROVE  OutcomeAt(p)' /\ proc'[p].met = proc[p].met
<1>1. proc \in [Procs -> Process] /\ ControlAt(p) /\ Active(p) /\ proc[p].idx \in Nat
      /\ Current(p) \in Included(Cmd(p))
  BY DEF TypeOK, ControlInv, ControlAt, CreateContainer, At, Active, Finished, Creating,
         Process
<1>2. CASE /\ Ends(p, "error")
           /\ ArgsRaise(Cmd(p).stack, Current(p))
  <2>1. proc'[p].cmd = proc[p].cmd /\ proc'[p].met = proc[p].met /\ proc'[p].pc = "error"
    BY <1>1, <1>2, EndsFields DEF Finished
  <2> QED BY <1>1, <1>2, <2>1 DEF OutcomeAt, At, Cause, Cmd
<1>3. CASE ToContainer(p, proc[p].idx + 1)
  BY <1>1, <1>3, ToContainerOutcome
<1>4. CASE Goes(p, [pc |-> "start"])
  BY <1>1, <1>4, GoesOn DEF Moving, OutcomeAt, At
<1> QED BY <1>2, <1>3, <1>4 DEF CreateContainer

(* A step leaves its process with its command and its history.             *)
LEMMA OwnKept ==
  ASSUME TypeOK, ControlInv, NEW p \in Procs, Step(p)
  PROVE  /\ proc'[p].cmd = proc[p].cmd /\ proc'[p].met = proc[p].met
         /\ proc'[p].wasUp = proc[p].wasUp /\ proc'[p].clean = proc[p].clean
<1>1. /\ proc \in [Procs -> Process] /\ Cmd(p) \in Commands /\ proc[p].idx \in Nat
      /\ proc[p] \in Process
  BY StepIsActive DEF TypeOK, ControlInv, ControlAt, Process
<1>2. ASSUME NEW n \in Nat \ {0}, ToContainer(p, n)
      PROVE  /\ proc'[p].cmd = proc[p].cmd /\ proc'[p].met = proc[p].met
             /\ proc'[p].wasUp = proc[p].wasUp /\ proc'[p].clean = proc[p].clean
  BY <1>1, <1>2, ToContainerFields
<1>3. CASE PodExists(p) \/ MakePod(p) \/ StartContainer(p) \/ CreateContainer(p)
  BY <1>1, <1>2, <1>3, GoesOn, EndsFields
     DEF PodExists, MakePod, StartContainer, CreateContainer, Moving, Finished
<1>4. CASE Inspect(p) \/ Make(p) \/ Recheck(p)
  BY <1>1, <1>4, GoesOn, EndsFields DEF Inspect, Make, Recheck, NextNeed, Moving, Finished
<1>5. CASE \E t \in Calls \X Containers : Task(p, t)
  <2>1. PICK T : Goes(p, [tasks |-> T])
    BY <1>5 DEF Task
  <2> QED BY <1>1, <2>1, GoesOn DEF Moving
<1>6. CASE \E r \in Objects : RmObject(p, r)
  <2>1. PICK r \in Objects : proc'[p] = [proc[p] EXCEPT !.names = @ \ {r}]
    BY <1>6 DEF RmObject
  <2> QED BY <1>1, <2>1 DEF Process
<1>7. CASE TasksEnd(p) \/ RmContainer(p) \/ RmEnds(p)
  BY <1>1, <1>7, GoesOn, EndsFields DEF TasksEnd, RmContainer, RmEnds, Moving, Finished
<1>8. CASE ListVolumes(p) \/ RmPod(p) \/ ListNetworks(p)
  BY <1>1, <1>8, GoesOn DEF ListVolumes, RmPod, ListNetworks, Moving
<1>9. CASE VolumesRemoved(p) \/ NetworksRemoved(p)
  BY <1>1, <1>9, GoesOn, EndsFields
     DEF VolumesRemoved, NetworksRemoved, AfterDown, Moving, Finished
<1> QED BY <1>3, <1>4, <1>5, <1>6, <1>7, <1>8, <1>9 DEF Step

(* What a step of p does for p.                                            *)
LEMMA OwnOutcome ==
  ASSUME TypeOK, ControlInv, NEW p \in Procs, OutcomeAt(p), Step(p)
  PROVE  OutcomeAt(p)' /\ proc'[p].met = proc[p].met
<1>1. Active(p) /\ proc[p].idx \in Nat /\ proc \in [Procs -> Process]
  BY StepIsActive DEF TypeOK, Process
<1>2. CASE \/ \E t \in Calls \X Containers : Task(p, t)
           \/ \E r \in Objects : RmObject(p, r)
           \/ TasksEnd(p) \/ RmContainer(p) \/ RmEnds(p) \/ ListVolumes(p)
           \/ VolumesRemoved(p) \/ RmPod(p) \/ ListNetworks(p) \/ NetworksRemoved(p)
  BY <1>2, CalmStep DEF OutcomeAt, At
<1>3. CASE PodExists(p) \/ MakePod(p) \/ StartContainer(p)
  <2>1. CASE Goes(p, [pc |-> "make_pod"])
    BY <1>1, <2>1, GoesOn DEF Moving, OutcomeAt, At
  <2>2. CASE \E n \in Nat \ {0} : ToContainer(p, n)
    BY <1>1, <2>2, ToContainerOutcome
  <2> QED BY <1>1, <1>3, <2>1, <2>2 DEF PodExists, MakePod, StartContainer
<1> QED BY <1>2, <1>3, InspectOutcome, MakeOutcome, CreateOutcome DEF Step

(* A step tells other processes nothing but that it removes something.     *)
LEMMA OthersUntouched ==
  ASSUME TypeOK, ControlInv, NEW p \in Procs, Step(p), NEW q \in Procs, q # p
  PROVE  \/ /\ proc'[q] = proc[q]
            /\ Active(q) => ~ \E r \in Objects : RmObject(p, r)
         \/ /\ Active(q) /\ \E r \in Objects : RmObject(p, r)
            /\ proc'[q] = [proc[q] EXCEPT !.met = @ \cup {"removal"}]
<1>1. proc \in [Procs -> Process] /\ ControlAt(p) /\ Cmd(p) \in Commands
      /\ proc[p].idx \in Nat
  BY StepIsActive DEF TypeOK, ControlInv, ControlAt, Process
<1>2. CASE \E r \in Objects : RmObject(p, r)
  BY <1>2 DEF RmObject
<1> SUFFICES ASSUME ~ \E r \in Objects : RmObject(p, r) PROVE proc'[q] = proc[q]
  BY <1>2
<1>3. ASSUME NEW n \in Nat \ {0}, ToContainer(p, n) PROVE proc'[q] = proc[q]
  BY <1>1, <1>3, ToContainerFields
<1>4. CASE PodExists(p) \/ MakePod(p) \/ StartContainer(p) \/ CreateContainer(p)
  BY <1>1, <1>3, <1>4, GoesOn, EndsFields
     DEF PodExists, MakePod, StartContainer, CreateContainer, Moving, Finished
<1>5. CASE Inspect(p) \/ Make(p) \/ Recheck(p)
  BY <1>1, <1>5, GoesOn, EndsFields DEF Inspect, Make, Recheck, NextNeed, Moving, Finished
<1>6. CASE \E t \in Calls \X Containers : Task(p, t)
  <2>1. PICK T : Goes(p, [tasks |-> T])
    BY <1>6 DEF Task
  <2> QED BY <1>1, <2>1, GoesOn DEF Moving
<1>7. CASE \/ TasksEnd(p) \/ RmContainer(p) \/ RmEnds(p) \/ ListVolumes(p)
           \/ VolumesRemoved(p) \/ RmPod(p) \/ ListNetworks(p) \/ NetworksRemoved(p)
  <2>1. CASE TasksEnd(p)
    BY <1>1, <2>1, GoesOn, EndsFields DEF TasksEnd, Moving, Finished
  <2>2. CASE RmContainer(p) \/ RmEnds(p) \/ RmPod(p)
    BY <1>1, <2>2, GoesOn DEF RmContainer, RmEnds, RmPod, Moving
  <2>3. CASE ListVolumes(p) \/ ListNetworks(p)
    BY <1>1, <2>3, GoesOn DEF ListVolumes, ListNetworks, Moving
  <2>4. CASE VolumesRemoved(p) \/ NetworksRemoved(p)
    BY <1>1, <2>4, GoesOn, EndsFields
       DEF VolumesRemoved, NetworksRemoved, AfterDown, Moving, Finished
  <2> QED BY <1>7, <2>1, <2>2, <2>3, <2>4
<1> QED BY <1>4, <1>5, <1>6, <1>7 DEF Step

(* A process finds itself alone only where it was, and nobody else begins. *)
LEMMA OthersStep ==
  ASSUME TypeOK, ControlInv, NEW p \in Procs, Step(p), NEW q \in Procs, q # p
  PROVE  /\ Active(q)' <=> Active(q)
         /\ proc'[q].met = {} => proc[q].met = {}
         /\ proc'[q].cmd = proc[q].cmd /\ proc'[q].pc = proc[q].pc
<1>1. proc[q] \in Process
  BY DEF TypeOK
<1>2. CASE proc'[q] = proc[q]
  BY <1>2 DEF Active
<1>3. CASE proc'[q] = [proc[q] EXCEPT !.met = @ \cup {"removal"}]
  BY <1>1, <1>3 DEF Process, Active
<1> QED BY <1>2, <1>3, OthersUntouched

LEMMA AloneStep ==
  ASSUME TypeOK, ControlInv, AloneInv, [Next]_vars
  PROVE  AloneInv'
<1>1. ASSUME NEW p \in Procs, Step(p) PROVE AloneInv'
  <2> SUFFICES ASSUME NEW q \in Procs, Alone(q)'
               PROVE  OutcomeAt(q)' /\ \A s \in Procs \ {q} : ~ Active(s)'
    BY DEF AloneInv
  <2>1. Active(p) /\ Cmd(p) # None
    BY <1>1, StepIsActive, ResourcesAssumption DEF ControlInv, ControlAt
  <2>2. CASE q = p
    <3>1. proc[p].met = {} => OutcomeAt(p) /\ \A s \in Procs \ {p} : ~ Active(s)
      BY <2>1 DEF AloneInv, Alone
    <3>2. proc[p].met = {}
      BY <1>1, <2>2, OwnKept DEF Alone
    <3> QED BY <1>1, <2>2, <3>1, <3>2, OwnOutcome, OthersStep
  <2>3. CASE q # p
    <3>1. Alone(q)
      BY <1>1, <2>3, OthersStep DEF Alone, At, Cmd
    <3> QED BY <2>1, <2>3, <3>1 DEF AloneInv
  <2> QED BY <2>2, <2>3
<1>2. ASSUME NEW p \in Procs, NEW i \in Commands, Begin(p, i) PROVE AloneInv'
  <2> SUFFICES ASSUME NEW q \in Procs, Alone(q)'
               PROVE  OutcomeAt(q)' /\ \A s \in Procs \ {q} : ~ Active(s)'
    BY DEF AloneInv
  <2>1. CASE q = p
    <3>1. OutcomeAt(p)'
      BY <1>2, BeginFields, FirstFacts DEF OutcomeAt, At, Cmd, Cause
    <3>2. \A s \in Procs \ {p} : proc'[s] = Idle
      BY <1>2, <2>1, BeginFields DEF Alone
    <3> QED BY <2>1, <3>1, <3>2 DEF Idle, Active, Finished
  <2>2. CASE q # p
    <3>1. proc'[q] = Idle \/ proc'[q] = [proc[q] EXCEPT !.met = @ \cup {"command"}]
      BY <1>2, <2>2, BeginFields
    <3>2. proc[q] \in Process
      BY DEF TypeOK
    <3>3. proc'[q].cmd = None \/ proc'[q].met # {}
      BY <3>1, <3>2 DEF Idle, Process
    <3> QED BY <3>3 DEF Alone, Cmd
  <2> QED BY <2>1, <2>2
<1>3. ASSUME NEW p \in Procs, Killed(p) PROVE AloneInv'
  <2>1. /\ proc'[p] = Idle /\ obj' = obj
        /\ \A q \in Procs \ {p} : proc'[q] = proc[q]
    BY <1>3 DEF Killed, objects, TypeOK
  <2>2. ~ Active(p)' /\ ~ Alone(p)'
    BY <2>1 DEF Alone, Active, Finished, At, Cmd, Idle
  <2>3. ASSUME NEW q \in Procs, q # p
        PROVE  (Active(q)' <=> Active(q)) /\ (Alone(q)' <=> Alone(q))
               /\ (OutcomeAt(q)' <=> OutcomeAt(q))
    <3>1. proc'[q] = proc[q]
      BY <2>1, <2>3
    <3>2. Cause(Cmd(q))' <=> Cause(Cmd(q))
      BY <2>1, <3>1 DEF Cause, Cmd, Present
    <3>3. Need(q)' = Need(q)
      BY <3>1 DEF Need, Needs, Current, Cmd
    <3>4. OutcomeAt(q)' <=> OutcomeAt(q)
      BY <2>1, <3>1, <3>2, <3>3 DEF OutcomeAt, At, Present
    <3> QED BY <3>1, <3>4 DEF Alone, Active, At, Cmd
  <2> QED BY <2>2, <2>3 DEF AloneInv
<1>4. CASE UNCHANGED vars
  <2>1. proc' = proc /\ obj' = obj /\ raced' = raced
    BY <1>4 DEF vars, objects
  <2>2. \A i : Cause(i)' <=> Cause(i)
    BY <2>1 DEF Cause, Present
  <2>3. \A q : OutcomeAt(q)' <=> OutcomeAt(q)
    BY <2>1, <2>2 DEF OutcomeAt, At, Cmd, Need, Needs, Current, Present
  <2>4. \A q : (Active(q)' <=> Active(q)) /\ (Alone(q)' <=> Alone(q))
    BY <2>1 DEF Active, Alone, At, Cmd
  <2> QED BY <2>1, <2>3, <2>4 DEF AloneInv
<1> QED BY <1>1, <1>2, <1>3, <1>4 DEF Next

LEMMA AloneHolds == Spec => []AloneInv
<1>1. Init => AloneInv
  BY DEF Init, Idle, AloneInv, Alone, Active, Finished, At, Cmd
<1>2. TypeOK /\ ControlInv /\ AloneInv /\ [Next]_vars => AloneInv'
  BY AloneStep
<1> QED BY <1>1, <1>2, Control, PTL DEF Spec

(* Nothing but the file, and what it says exists, makes a lone command     *)
(* raise.                                                                  *)
THEOREM FailsForCauseTheorem == Spec => []FailsForCause
<1>1. AloneInv => FailsForCause
  BY DEF AloneInv, FailsForCause, CameTo, Alone, OutcomeAt
<1> QED BY <1>1, AloneHolds, PTL

-----------------------------------------------------------------------------
(* Labels.                                                                 *)

(* What has to be there once it has been asserted: volumes, networks, and  *)
(* directories that can be made.                                           *)
Lasting(x) == x.kind \in {"volume", "network"} \/ (x.kind = "bind" /\ x.name \notin Unwritable)

(* What has been asserted for a container is there.                        *)
AssertedAt(p) ==
  proc[p].pc \in {"inspect", "make", "recheck"} =>
    /\ proc[p].at >= 1
    /\ \A n \in DOMAIN Needs(p) : n < proc[p].at /\ Lasting(Needs(p)[n]) =>
         Present(Needs(p)[n].name)

(* As long as no two commands have overlapped.                             *)
LabelInv ==
  ~ raced => /\ \A p, q \in Procs : Active(p) /\ Active(q) => p = q
             /\ \A p \in Procs : AssertedAt(p)
             /\ \A r \in (Volumes \cup Networks) \ Outside : obj[r] # "plain"

(* What a process needs, name by name.                                     *)
LEMMA NeedsFacts ==
  ASSUME ControlInv, NEW p \in Procs, proc[p].pc \in Creating
  PROVE  /\ Len(Needs(p)) \in Nat /\ DOMAIN Needs(p) = 1..Len(Needs(p))
         /\ \A n \in DOMAIN Needs(p) :
              /\ Lasting(Needs(p)[n]) => Needs(p)[n].name \in Objects
              /\ Needs(p)[n].kind = "bind" => Needs(p)[n].name \in Dirs
<1>1. ControlAt(p) /\ Active(p)
  BY DEF ControlInv, Creating, Active, Finished
<1>2. Cmd(p) \in Commands /\ ~ ParsingRaises(Cmd(p).stack)
      /\ Current(p) \in Included(Cmd(p))
  BY <1>1 DEF ControlAt
<1>3. Current(p) \in Members(Cmd(p).stack)
  BY <1>2, CommandFacts
<1> QED BY <1>2, <1>3, ResourcesAssumption DEF Needs, Files, Objects, Lasting

(* While p creates, what is there stays.                                   *)
LEMMA PresentStays ==
  ASSUME TypeOK, ControlInv, NEW p \in Procs, Step(p), proc[p].pc \in Creating,
         NEW r \in Objects, Present(r)
  PROVE  Present(r)'
<1>1. proc[p].names = {}
  BY DEF ControlInv, ControlAt, Creating
<1>2. obj'[r] = obj[r]
  BY <1>1, ObjectsStep
<1> QED BY <1>2 DEF Present

LEMMA NextNeedAsserted ==
  ASSUME TypeOK, ControlInv, NEW p \in Procs, Step(p), AssertedAt(p), NextNeed(p),
         proc[p].pc \in {"inspect", "make", "recheck"},
         proc[p].at \in DOMAIN Needs(p),
         Lasting(Need(p)) => obj'[Need(p).name] # "absent"
  PROVE  AssertedAt(p)'
<1>1. /\ proc \in [Procs -> Process] /\ proc[p].at \in Nat /\ proc[p].at >= 1
      /\ proc[p].pc \in Creating
  BY DEF TypeOK, Process, AssertedAt, Creating
<1>2. /\ proc'[p].cmd = proc[p].cmd /\ proc'[p].idx = proc[p].idx
      /\ proc'[p].at = proc[p].at + 1
  BY <1>1, GoesOn DEF NextNeed, Moving
<1>3. Needs(p)' = Needs(p)
  BY <1>2 DEF Needs, Current, Cmd
<1>4. ASSUME NEW n \in DOMAIN Needs(p), n < proc[p].at + 1, Lasting(Needs(p)[n])
      PROVE  obj'[Needs(p)[n].name] # "absent"
  <2>1. n \in Nat
    BY <1>1, NeedsFacts
  <2>2. Needs(p)[n].name \in Objects
    BY <1>1, <1>4, NeedsFacts
  <2>3. CASE n = proc[p].at
    <3>1. Needs(p)[n] = Need(p)
      BY <2>3 DEF Need
    <3> QED BY <1>4, <3>1
  <2>4. CASE n < proc[p].at
    <3>1. Present(Needs(p)[n].name)
      BY <1>4, <2>4 DEF AssertedAt
    <3>2. \A r \in Objects : Present(r) => Present(r)'
      BY <1>1, PresentStays
    <3> QED BY <2>2, <3>1, <3>2 DEF Present
  <2> QED BY <1>1, <1>4, <2>1, <2>3, <2>4
<1>5. proc'[p].at >= 1
  BY <1>1, <1>2
<1> QED BY <1>2, <1>3, <1>4, <1>5 DEF AssertedAt, Present

(* p stays at the same need.                                               *)
LEMMA SameNeedAsserted ==
  ASSUME TypeOK, ControlInv, NEW p \in Procs, Step(p), AssertedAt(p),
         proc[p].pc \in {"inspect", "make", "recheck"},
         NEW pc \in {"make", "recheck"}, Goes(p, [pc |-> pc])
  PROVE  AssertedAt(p)'
<1>1. proc \in [Procs -> Process] /\ proc[p].pc \in Creating
  BY DEF TypeOK, Creating
<1>2. /\ proc'[p].cmd = proc[p].cmd /\ proc'[p].idx = proc[p].idx
      /\ proc'[p].at = proc[p].at
  BY <1>1, GoesOn DEF Moving
<1>3. Needs(p)' = Needs(p)
  BY <1>2 DEF Needs, Current, Cmd
<1>4. \A r \in Objects : Present(r) => Present(r)'
  BY <1>1, PresentStays
<1>5. \A n \in DOMAIN Needs(p) :
        Lasting(Needs(p)[n]) => Needs(p)[n].name \in Objects
  BY <1>1, NeedsFacts
<1> QED BY <1>2, <1>3, <1>4, <1>5 DEF AssertedAt, Present

LEMMA OwnAsserted ==
  ASSUME TypeOK, ControlInv, NEW p \in Procs, Step(p), AssertedAt(p)
  PROVE  AssertedAt(p)'
<1>1. Active(p) /\ proc[p].idx \in Nat /\ proc \in [Procs -> Process] /\ Cmd(p) \in Commands
  BY StepIsActive DEF TypeOK, Process, ControlInv, ControlAt
<1>2. CASE \/ \E t \in Calls \X Containers : Task(p, t)
           \/ \E r \in Objects : RmObject(p, r)
           \/ TasksEnd(p) \/ RmContainer(p) \/ RmEnds(p) \/ ListVolumes(p)
           \/ VolumesRemoved(p) \/ RmPod(p) \/ ListNetworks(p) \/ NetworksRemoved(p)
  BY <1>2, CalmStep DEF AssertedAt
<1>3. ASSUME NEW n \in Nat \ {0}, ToContainer(p, n) PROVE AssertedAt(p)'
  <2>1. proc'[p].pc \in Finished \/ (proc'[p].pc = "inspect" /\ proc'[p].at = 1)
    BY <1>1, <1>3, ToContainerFields
  <2>2. CASE proc'[p].pc \in Finished
    BY <2>2 DEF AssertedAt, Finished
  <2>3. CASE proc'[p].pc = "inspect" /\ proc'[p].at = 1
    <3> DEFINE i == Cmd(p)
               c == i.stack.order[proc'[p].idx]
    <3>1. proc'[p].cmd = i /\ c \in Included(i)
      BY <1>1, <1>3, <2>3, ToContainerFields DEF Cmd, Finished
    <3>2. \A m \in DOMAIN Needs(p)' : ~ m < 1
      <4>1. i \in Commands /\ ~ ParsingRaises(i.stack)
        BY <1>1, <1>3 DEF ControlInv, ControlAt
      <4>2. c \in Members(i.stack)
        BY <3>1, <4>1, CommandFacts
      <4>3. Needs(p)' = Needed(i.stack, c)
        BY <3>1 DEF Needs, Current, Cmd
      <4>4. i.stack \in Files
        BY <4>1 DEF Files
      <4>5. /\ Len(Needed(i.stack, c)) \in Nat
            /\ DOMAIN Needed(i.stack, c) = 1..Len(Needed(i.stack, c))
        BY <4>1, <4>2, <4>4, ResourcesAssumption
      <4> HIDE DEF i, c
      <4> QED BY <4>3, <4>5
    <3> QED BY <2>3, <3>2 DEF AssertedAt
  <2> QED BY <2>1, <2>2, <2>3
<1>4. ASSUME NEW pc \in Finished, Ends(p, pc) PROVE AssertedAt(p)'
  BY <1>1, <1>4, EndsFields DEF AssertedAt, Finished
<1>5. CASE PodExists(p) \/ MakePod(p) \/ StartContainer(p) \/ CreateContainer(p)
  <2>1. CASE Goes(p, [pc |-> "make_pod"])
    BY <1>1, <2>1, GoesOn DEF Moving, AssertedAt
  <2>2. CASE Goes(p, [pc |-> "start"])
    BY <1>1, <2>2, GoesOn DEF Moving, AssertedAt
  <2>3. CASE \E n \in Nat \ {0} : ToContainer(p, n)
    BY <1>3, <2>3
  <2>4. CASE Ends(p, "error")
    BY <1>4, <2>4 DEF Finished
  <2> QED BY <1>1, <1>5, <2>1, <2>2, <2>3, <2>4
          DEF PodExists, MakePod, StartContainer, CreateContainer
<1>6. CASE Inspect(p) \/ Make(p) \/ Recheck(p)
  <2>1. /\ proc[p].pc \in {"inspect", "make", "recheck"}
        /\ proc[p].at \in DOMAIN Needs(p)
    BY <1>6 DEF Inspect, Make, Recheck, At, ControlInv, ControlAt
  <2>2. CASE NextNeed(p) /\ (Lasting(Need(p)) => obj'[Need(p).name] # "absent")
    BY <2>1, <2>2, NextNeedAsserted
  <2>3. CASE Goes(p, [pc |-> "make"]) \/ Goes(p, [pc |-> "recheck"])
    BY <2>1, <2>3, SameNeedAsserted
  <2>4. CASE Ends(p, "error")
    BY <1>4, <2>4 DEF Finished
  <2>5. \/ NextNeed(p) /\ (Lasting(Need(p)) => obj'[Need(p).name] # "absent")
        \/ Goes(p, [pc |-> "make"]) \/ Goes(p, [pc |-> "recheck"]) \/ Ends(p, "error")
    <3>1. Lasting(Need(p)) => Need(p).name \in Objects
      BY <2>1, NeedsFacts DEF Need, Creating
    <3>2. CASE Inspect(p) /\ Need(p).kind = "bind"
      BY <3>1, <3>2 DEF Inspect, Lasting, Present, TypeOK, ObjectsTypeOK
    <3>3. CASE Inspect(p) /\ Need(p).kind # "bind"
      BY <3>3 DEF Inspect, Lasting, Present
    <3>4. CASE Make(p) \/ Recheck(p)
      BY <3>4 DEF Make, Recheck, Present, objects
    <3> QED BY <1>6, <3>2, <3>3, <3>4
  <2> QED BY <2>2, <2>3, <2>4, <2>5
<1> QED BY <1>2, <1>5, <1>6 DEF Step

(* What is created has the label, but for a volume podman create misses.   *)
LEMMA LabelStep ==
  ASSUME TypeOK, ControlInv, NEW p \in Procs, Step(p), AssertedAt(p),
         NEW r \in (Volumes \cup Networks) \ Outside, obj[r] # "plain"
  PROVE  obj'[r] # "plain"
<1>1. r \in Objects
  BY DEF Objects
<1>2. CASE \E x \in Objects : RmObject(p, x)
  BY <1>1, <1>2 DEF RmObject, ObjectRm, TypeOK, ObjectsTypeOK
<1>3. CASE Inspect(p)
  <2>1. CASE obj' = obj
    BY <2>1
  <2>2. CASE Need(p).kind = "bind" /\ obj' = [obj EXCEPT ![Need(p).name] = "plain"]
    <3>1. Need(p).name \in Dirs
      BY <1>3, <2>2, NeedsFacts DEF Inspect, At, Creating, Need
    <3>2. Need(p).name # r
      BY <3>1, PodmanObjectsAssumption
    <3> QED BY <1>1, <2>2, <3>2 DEF TypeOK, ObjectsTypeOK
  <2> QED BY <1>3, <2>1, <2>2 DEF Inspect
<1>4. CASE Make(p)
  BY <1>1, <1>4 DEF Make, ObjectCreate, TypeOK, ObjectsTypeOK
<1>5. CASE CreateContainer(p)
  <2>1. proc[p].pc \in Creating /\ proc[p].at \in Nat /\ proc[p].at >= 1
        /\ proc[p].at \notin DOMAIN Needs(p)
    BY <1>5 DEF CreateContainer, At, Creating, AssertedAt, TypeOK, Process
  <2>2. \A n \in DOMAIN Needs(p) : n < proc[p].at
    BY <2>1, NeedsFacts
  <2>3. \A x \in VolumeNames(Cmd(p).stack, Current(p)) : Present(x)
    BY <1>5, <2>2 DEF VolumeNames, GivenMounts, Needs, AssertedAt, Lasting, CreateContainer, At
  <2>4. \/ obj' = obj
        \/ obj' = [x \in Objects |-> IF x \in VolumeNames(Cmd(p).stack, Current(p)) /\ ~ Present(x)
                                     THEN "plain" ELSE obj[x]]
    BY <1>5 DEF CreateContainer, PodmanCreateIn, objects
  <2> QED BY <1>1, <2>3, <2>4
<1>6. obj' = obj \/ (\E x \in Objects : RmObject(p, x)) \/ Inspect(p) \/ Make(p)
        \/ CreateContainer(p)
  BY DEF Step, Task, TasksEnd, RmContainer, RmEnds, ListVolumes, VolumesRemoved,
         RmPod, ListNetworks, NetworksRemoved, PodExists, MakePod, Recheck,
         StartContainer, objects
<1> QED BY <1>2, <1>3, <1>4, <1>5, <1>6

LEMMA LabelInvStep ==
  ASSUME TypeOK, ControlInv, LabelInv, [Next]_vars
  PROVE  LabelInv'
<1> USE DEF Active
<1>1. ASSUME NEW p \in Procs, Step(p), ~ raced' PROVE LabelInv'
  <2>1. ~ raced
    BY <1>1 DEF Step, Task, RmObject, TasksEnd, RmContainer, RmEnds, ListVolumes,
                VolumesRemoved, RmPod, ListNetworks, NetworksRemoved, PodExists, MakePod,
                Inspect, Make, Recheck, CreateContainer, StartContainer
  <2>2. Active(p) /\ \A q \in Procs \ {p} : ~ Active(q)
    BY <1>1, <2>1, StepIsActive DEF LabelInv
  <2>3. \A q \in Procs \ {p} : ~ Active(q)' /\ proc'[q].pc = proc[q].pc
    BY <1>1, <2>2, OthersStep
  <2>4. \A q \in Procs \ {p} : AssertedAt(q)'
    BY <2>3 DEF AssertedAt, Finished
  <2>5. AssertedAt(p)'
    BY <1>1, <2>1, OwnAsserted DEF LabelInv
  <2>6. \A r \in (Volumes \cup Networks) \ Outside : obj'[r] # "plain"
    BY <1>1, <2>1, LabelStep DEF LabelInv
  <2> QED BY <2>3, <2>4, <2>5, <2>6 DEF LabelInv
<1>2. ASSUME NEW p \in Procs, NEW i \in Commands, Begin(p, i), ~ raced' PROVE LabelInv'
  <2>1. ~ raced /\ obj' = obj /\ \A q \in Procs \ {p} : ~ Active(q)
    BY <1>2 DEF Begin, objects
  <2>2. \A q \in Procs \ {p} : proc'[q] = Idle
    BY <1>2, <2>1, BeginFields
  <2>3. proc'[p].pc \notin {"inspect", "make", "recheck"}
    BY <1>2, BeginFields, FirstFacts
  <2>4. \A q \in Procs : AssertedAt(q)'
    BY <2>2, <2>3 DEF AssertedAt, Idle
  <2> QED BY <2>1, <2>2, <2>4 DEF LabelInv, Idle, Finished
<1>3. ASSUME NEW p \in Procs, Killed(p), ~ raced' PROVE LabelInv'
  <2>1. /\ ~ raced /\ obj' = obj /\ proc'[p] = Idle
        /\ \A q \in Procs \ {p} : proc'[q] = proc[q]
    BY <1>3 DEF Killed, objects, TypeOK
  <2>2. AssertedAt(p)' /\ ~ Active(p)'
    BY <2>1 DEF AssertedAt, Idle, Finished
  <2>3. \A q \in Procs \ {p} : AssertedAt(q)'
    <3> SUFFICES ASSUME NEW q \in Procs \ {p} PROVE AssertedAt(q)'
      OBVIOUS
    <3>1. AssertedAt(q) /\ proc'[q] = proc[q]
      BY <2>1 DEF LabelInv
    <3> QED BY <2>1, <3>1 DEF AssertedAt, Needs, Current, Cmd, Present
  <2> QED BY <2>1, <2>2, <2>3 DEF LabelInv
<1>4. CASE UNCHANGED vars
  BY <1>4 DEF vars, objects, LabelInv, AssertedAt, Needs, Current, Cmd, Present
<1>5. CASE raced'
  BY <1>5 DEF LabelInv
<1> QED BY <1>1, <1>2, <1>3, <1>4, <1>5 DEF Next

(* Only commands that overlap leave volumes or networks without a label.   *)
THEOREM LabelledUnlessRacedTheorem == Spec => []LabelledUnlessRaced
<1>1. Init => LabelInv
  BY DEF Init, Idle, LabelInv, AssertedAt, Active, Finished, ObjectsInit, Objects
<1>2. TypeOK /\ ControlInv /\ LabelInv /\ [Next]_vars => LabelInv'
  BY LabelInvStep
<1>3. LabelInv => LabelledUnlessRaced
  BY DEF LabelInv, LabelledUnlessRaced
<1> QED BY <1>1, <1>2, <1>3, Control, PTL DEF Spec

-----------------------------------------------------------------------------
(* What a process that is alone does, stage by stage.                      *)

(* Where a process is decides which step it can take.                      *)
Removing == {"rm", "orphans", "ls_volumes", "rm_volumes", "rm_pod"}
Cleared == {"ls_networks", "rm_networks"}
Transfers == {"start", "stop", "restart"}

LEMMA StageSteps ==
  ASSUME ControlInv, NEW p \in Procs, Step(p)
  PROVE  \/ /\ proc[p].pc \in {"transfer", "stop", "orphans"}
            /\ (\E t \in Calls \X Containers : Task(p, t)) \/ TasksEnd(p)
         \/ At(p, "rm") /\ (RmContainer(p) \/ RmEnds(p))
         \/ At(p, "ls_volumes") /\ ListVolumes(p)
         \/ /\ proc[p].pc \in {"rm_volumes", "rm_networks"}
            /\ \E r \in Objects : RmObject(p, r)
         \/ At(p, "rm_volumes") /\ VolumesRemoved(p)
         \/ At(p, "rm_pod") /\ RmPod(p)
         \/ At(p, "ls_networks") /\ ListNetworks(p)
         \/ At(p, "rm_networks") /\ NetworksRemoved(p)
         \/ At(p, "pod") /\ PodExists(p)
         \/ At(p, "make_pod") /\ MakePod(p)
         \/ At(p, "inspect") /\ (Inspect(p) \/ CreateContainer(p))
         \/ At(p, "make") /\ Make(p)
         \/ At(p, "recheck") /\ Recheck(p)
         \/ At(p, "start") /\ StartContainer(p)
<1>1. ControlAt(p)
  BY DEF ControlInv
<1>2. CASE \E t \in Calls \X Containers : Task(p, t)
  BY <1>1, <1>2 DEF Task, ControlAt
<1>3. CASE \E r \in Objects : RmObject(p, r)
  BY <1>1, <1>3 DEF RmObject, ControlAt
<1>4. CASE TasksEnd(p)
  BY <1>4 DEF TasksEnd, At
<1>5. /\ RmContainer(p) \/ RmEnds(p) => At(p, "rm")
      /\ ListVolumes(p) => At(p, "ls_volumes")
      /\ VolumesRemoved(p) => At(p, "rm_volumes")
      /\ RmPod(p) => At(p, "rm_pod")
      /\ ListNetworks(p) => At(p, "ls_networks")
      /\ NetworksRemoved(p) => At(p, "rm_networks")
  BY DEF RmContainer, RmEnds, ListVolumes, VolumesRemoved, RmPod, ListNetworks,
         NetworksRemoved
<1>6. /\ PodExists(p) => At(p, "pod")
      /\ MakePod(p) => At(p, "make_pod")
      /\ Inspect(p) \/ CreateContainer(p) => At(p, "inspect")
      /\ Make(p) => At(p, "make")
      /\ Recheck(p) => At(p, "recheck")
      /\ StartContainer(p) => At(p, "start")
  BY DEF PodExists, MakePod, Inspect, Make, Recheck, CreateContainer, StartContainer
<1> QED BY <1>2, <1>3, <1>4, <1>5, <1>6 DEF Step

(* What comes first, and for which commands.                               *)
LEMMA FirstStage ==
  ASSUME NEW i \in Commands
  PROVE  \/ First(i).pc = "error"
         \/ /\ First(i).pc = "transfer" /\ i.op \in Transfers
            /\ First(i).tasks = Each(i.op, Targets(i))
         \/ /\ First(i).pc = "stop" /\ First(i).tasks = Each("stop", Included(i))
            /\ i.op = "down" \/ (i.op = "up" /\ Recreates(i))
         \/ First(i).pc = "pod" /\ i.op = "up" /\ ~ Recreates(i)
<1> DEFINE wrong == \/ ParsingRaises(i.stack)
                    \/ /\ i.op \in {"start", "stop", "restart"}
                       /\ ~ i.services \subseteq Members(i.stack)
           recreates == i.op = "down" \/ (i.op = "up" /\ Recreates(i))
<1>1. i.op \in {"up", "down", "start", "stop", "restart"}
  BY ResourcesAssumption
<1>2. CASE wrong
  BY <1>2 DEF First
<1>3. CASE ~ wrong /\ i.op \in {"start", "stop", "restart"}
  <2>1. First(i) = [pc |-> "transfer", tasks |-> Each(i.op, Targets(i))]
    BY <1>3 DEF First
  <2> QED BY <1>3, <2>1 DEF Transfers
<1>4. CASE ~ wrong /\ i.op \notin {"start", "stop", "restart"} /\ recreates
  <2>1. First(i) = [pc |-> "stop", tasks |-> Each("stop", Included(i))]
    BY <1>4 DEF First
  <2> QED BY <1>4, <2>1
<1>5. CASE ~ wrong /\ i.op \notin {"start", "stop", "restart"} /\ ~ recreates
  <2>1. First(i) = [pc |-> "pod", tasks |-> {}]
    BY <1>5 DEF First
  <2> QED BY <1>1, <1>5, <2>1
<1> QED BY <1>2, <1>3, <1>4, <1>5

(* Nothing happens to a process that is alone but what it does itself.     *)
LEMMA AloneCases ==
  ASSUME TypeOK, ControlInv, AloneInv, [Next]_vars, NEW p \in Procs, Alone(p)'
  PROVE  \/ \E i \in Commands : Begin(p, i)
         \/ Alone(p) /\ Step(p) /\ Active(p)
         \/ Alone(p) /\ proc'[p] = proc[p] /\ UNCHANGED <<store, objects>>
<1>1. CASE Step(p)
  <2>1. Active(p) /\ proc'[p].met = proc[p].met /\ Cmd(p) \in Commands
    BY <1>1, StepIsActive, OwnKept DEF ControlInv, ControlAt
  <2> QED BY <1>1, <2>1, ResourcesAssumption DEF Alone
<1>2. ASSUME NEW q \in Procs \ {p}, Step(q) PROVE FALSE
  <2>1. Active(q) /\ Alone(p)
    BY <1>2, StepIsActive, OthersStep DEF Alone, Cmd
  <2> QED BY <2>1 DEF AloneInv
<1>3. ASSUME NEW q \in Procs \ {p}, NEW i \in Commands, Begin(q, i) PROVE FALSE
  <2>1. proc[p] \in Process
    BY DEF TypeOK
  <2>2. proc'[p] = Idle \/ proc'[p] = [proc[p] EXCEPT !.met = @ \cup {"command"}]
    BY <1>3, BeginFields
  <2> QED BY <2>1, <2>2 DEF Idle, Process, Alone, Cmd
<1>4. ASSUME NEW q \in Procs \ {p}, Killed(q)
      PROVE  Alone(p) /\ proc'[p] = proc[p] /\ UNCHANGED <<store, objects>>
  BY <1>4 DEF Killed, Alone, Cmd, TypeOK
<1>5. CASE Killed(p)
  BY <1>5 DEF Killed, Alone, Cmd, Idle, TypeOK
<1>6. CASE UNCHANGED vars
  BY <1>6 DEF vars, Alone, Cmd
<1> QED BY <1>1, <1>2, <1>3, <1>4, <1>5, <1>6 DEF Next

-----------------------------------------------------------------------------
(* Who loses a race.                                                       *)

(* p has found made by another what it was about to make, or is going to,  *)
(* and nothing else has been wrong.                                        *)
LosesAt(p) ==
  /\ "removal" \notin proc[p].met
  /\ \/ At(p, "make") /\ Present(Need(p).name)
     \/ At(p, "error") /\ ~ Cause(Cmd(p))

(* What p has made is still there.                                         *)
KeptAt(p) ==
  /\ At(p, "recheck") /\ "removal" \notin proc[p].met => Present(Need(p).name)
  /\ At(p, "error") => Cmd(p) # None

RaceInv == (\E p \in Procs : ~ LosesAt(p)) /\ \A p \in Procs : KeptAt(p)

(* A cause goes away only when an object comes into being.                 *)
LEMMA CauseStays ==
  ASSUME NEW i \in Commands, Cause(i), \A r \in Objects : Present(r)' => Present(r)
  PROVE  Cause(i)'
<1>1. CASE \/ ParsingRaises(i.stack) \/ ~ i.services \subseteq Members(i.stack)
           \/ \E c \in Included(i) : \/ EnvironmentRaises(i.stack.services[c])
                                     \/ ArgsRaise(i.stack, c)
  BY <1>1 DEF Cause
<1>2. CASE /\ ~ ParsingRaises(i.stack)
           /\ \E c \in Included(i) : \E n \in DOMAIN Needed(i.stack, c) :
                \/ Needed(i.stack, c)[n].kind = "other"
                \/ Needed(i.stack, c)[n].external /\ ~ Present(Needed(i.stack, c)[n].name)
  <2>1. PICK c \in Included(i) : \E n \in DOMAIN Needed(i.stack, c) :
          \/ Needed(i.stack, c)[n].kind = "other"
          \/ Needed(i.stack, c)[n].external /\ ~ Present(Needed(i.stack, c)[n].name)
    BY <1>2
  <2>4. PICK n \in DOMAIN Needed(i.stack, c) :
          \/ Needed(i.stack, c)[n].kind = "other"
          \/ Needed(i.stack, c)[n].external /\ ~ Present(Needed(i.stack, c)[n].name)
    BY <2>1
  <2> DEFINE x == Needed(i.stack, c)[n]
  <2>2. CASE x.kind = "other"
    BY <2>2 DEF Cause
  <2>3. CASE x.external /\ ~ Present(x.name)
    <3>1. i.stack \in Files /\ c \in Members(i.stack)
      BY CommandFacts DEF Files
    <3>2. x.name \in Objects
      BY <1>2, <2>3, <3>1, ResourcesAssumption DEF Objects
    <3>3. ~ Present(x.name)'
      BY <2>3, <3>2
    <3> QED BY <2>3, <3>3 DEF Cause, Present
  <2> QED BY <2>2, <2>3, <2>4
<1> QED BY <1>1, <1>2 DEF Cause

(* The steps that bring objects into being.                                *)
Makes(p) == Inspect(p) \/ (Make(p) /\ ~ Present(Need(p).name)) \/ CreateContainer(p)

LEMMA NothingAppears ==
  ASSUME TypeOK, ControlInv, NEW p \in Procs, Step(p), ~ Makes(p)
  PROVE  \A r \in Objects : Present(r)' => Present(r)
<1>1. CASE \E x \in Objects : RmObject(p, x)
  BY <1>1 DEF RmObject, ObjectRm, Present, TypeOK, ObjectsTypeOK
<1>2. CASE Make(p) /\ Present(Need(p).name)
  BY <1>2 DEF Make, ObjectCreate, Present
<1>3. obj' = obj \/ (\E x \in Objects : RmObject(p, x)) \/ (Make(p) /\ Present(Need(p).name))
  BY DEF Step, Task, TasksEnd, RmContainer, RmEnds, ListVolumes, VolumesRemoved,
         RmPod, ListNetworks, NetworksRemoved, PodExists, MakePod, Recheck,
         StartContainer, objects, Makes
<1> QED BY <1>1, <1>2, <1>3 DEF Present

(* Only the loops of down remove objects.                                  *)
LEMMA NothingGoes ==
  ASSUME TypeOK, ControlInv, NEW p \in Procs, Step(p), ~ \E x \in Objects : RmObject(p, x)
  PROVE  \A r \in Objects : Present(r) => Present(r)'
<1>1. CASE Inspect(p)
  BY <1>1 DEF Inspect, Present, TypeOK, ObjectsTypeOK
<1>2. CASE Make(p)
  BY <1>2 DEF Make, ObjectCreate, Present, TypeOK, ObjectsTypeOK
<1>3. CASE CreateContainer(p)
  <2>1. obj' = obj \/ \E V : obj' = [x \in Objects |-> IF x \in V /\ ~ Present(x) THEN "plain"
                                                                            ELSE obj[x]]
    BY <1>3 DEF CreateContainer, PodmanCreateIn, objects
  <2> QED BY <2>1 DEF Present
<1>4. obj' = obj \/ Inspect(p) \/ Make(p) \/ CreateContainer(p)
  BY DEF Step, Task, TasksEnd, RmContainer, RmEnds, ListVolumes, VolumesRemoved,
         RmPod, ListNetworks, NetworksRemoved, PodExists, MakePod, Recheck,
         StartContainer, objects
<1> QED BY <1>1, <1>2, <1>3, <1>4 DEF Present

(* Who makes something does not lose by it.                                *)
LEMMA MakerWins ==
  ASSUME TypeOK, ControlInv, NEW p \in Procs, Makes(p)
  PROVE  ~ LosesAt(p)'
<1>1. CASE Make(p) /\ ~ Present(Need(p).name)
  <2>1. OutcomeAt(p)
    BY <1>1 DEF OutcomeAt, Make, At
  <2> QED BY <1>1, <2>1, MakeOutcome DEF LosesAt, OutcomeAt
<1> QED BY <1>1, InspectOutcome, CreateOutcome DEF Makes, LosesAt, OutcomeAt

(* Neither does it lose by its other steps.                                *)
LEMMA OwnRace ==
  ASSUME TypeOK, ControlInv, NEW p \in Procs, KeptAt(p), Step(p)
  PROVE  KeptAt(p)' /\ (~ LosesAt(p) => ~ LosesAt(p)')
<1>1. /\ Active(p) /\ Cmd(p) # None /\ proc'[p].met = proc[p].met
      /\ proc'[p].cmd = proc[p].cmd
  BY StepIsActive, OwnKept, ResourcesAssumption DEF ControlInv, ControlAt
<1>2. CASE ~ LosesAt(p) /\ "removal" \notin proc[p].met
  <2>1. OutcomeAt(p)
    BY <1>1, <1>2 DEF LosesAt, KeptAt, OutcomeAt, Active, At, Finished
  <2> QED BY <1>1, <2>1, OwnOutcome DEF OutcomeAt, LosesAt, KeptAt, Cmd
<1>3. CASE LosesAt(p)
  <2>1. Make(p) /\ Present(Need(p).name)
    <3>1. At(p, "make") /\ Present(Need(p).name)
      BY <1>1, <1>3 DEF LosesAt, Active, At, Finished
    <3> QED BY <3>1, StageSteps DEF At
  <2>2. proc'[p].pc = "error"
    BY <2>1, EndsFields DEF Make, TypeOK, Finished
  <2> QED BY <1>1, <1>3, <2>2 DEF KeptAt, At, Cmd
<1>4. CASE "removal" \in proc[p].met
  BY <1>1, <1>4 DEF LosesAt, KeptAt, Cmd
<1> QED BY <1>2, <1>3, <1>4

(* What a step of p does to the others.                                    *)
LEMMA OthersRace ==
  ASSUME TypeOK, ControlInv, NEW p \in Procs, NEW q \in Procs, q # p, KeptAt(q), Step(p)
  PROVE  KeptAt(q)' /\ (~ LosesAt(q) => ~ LosesAt(q)' \/ ~ LosesAt(p)')
<1>1. proc[q] \in Process
  BY DEF TypeOK
<1>2. CASE Active(q) /\ proc'[q] = [proc[q] EXCEPT !.met = @ \cup {"removal"}]
  <2>1. /\ "removal" \in proc'[q].met /\ proc'[q].cmd = proc[q].cmd
        /\ proc'[q].pc = proc[q].pc
    BY <1>1, <1>2 DEF Process
  <2> QED BY <2>1 DEF LosesAt, KeptAt, At, Cmd
<1>3. CASE proc'[q] = proc[q] /\ (Active(q) => ~ \E r \in Objects : RmObject(p, r))
  <2>1. Need(q)' = Need(q) /\ Cmd(q)' = Cmd(q)
    BY <1>3 DEF Need, Needs, Current, Cmd
  <2>2. At(q, "make") \/ At(q, "recheck") => Need(q).name \in Objects
    BY NeedFacts DEF ControlInv, ControlAt, At, Creating
  <2>3. ASSUME At(q, "error"), Cause(Cmd(q)), ~ Makes(p) PROVE Cause(Cmd(q))'
    <3>1. Cmd(q) \in Commands
      BY <1>1, <2>3 DEF KeptAt, Process, Cmd
    <3>2. \A r \in Objects : Present(r)' => Present(r)
      BY <2>3, NothingAppears
    <3>3. ASSUME NEW i \in Commands, i = Cmd(q) PROVE Cause(i)'
      BY <2>3, <3>2, <3>3, CauseStays
    <3> QED BY <2>1, <3>1, <3>3
  <2>4. ~ LosesAt(q) /\ ~ Makes(p) => ~ LosesAt(q)'
    BY <1>3, <2>1, <2>2, <2>3, NothingAppears DEF LosesAt, At, Present
  <2>6. At(q, "recheck") /\ Present(Need(q).name) => Present(Need(q).name)'
    <3> SUFFICES ASSUME At(q, "recheck"), Present(Need(q).name) PROVE Present(Need(q).name)'
      OBVIOUS
    <3>1. \A r \in Objects : Present(r) => Present(r)'
      BY <1>3, NothingGoes DEF Active, At, Finished
    <3> QED BY <2>1, <2>2, <3>1 DEF Present
  <2>5. KeptAt(q)'
    BY <1>3, <2>1, <2>6 DEF KeptAt, At, Cmd
  <2> QED BY <2>4, <2>5, MakerWins
<1> QED BY <1>2, <1>3, OthersUntouched


LEMMA RaceStep ==
  ASSUME TypeOK, ControlInv, RaceInv, [Next]_vars
  PROVE  RaceInv'
<1>1. ASSUME NEW p \in Procs, Step(p) PROVE RaceInv'
  <2>1. \A q \in Procs : KeptAt(q)'
    BY <1>1, OwnRace, OthersRace DEF RaceInv
  <2>2. PICK w \in Procs : ~ LosesAt(w)
    BY DEF RaceInv
  <2>3. ~ LosesAt(w)' \/ ~ LosesAt(p)'
    BY <1>1, <2>2, OwnRace, OthersRace DEF RaceInv
  <2> QED BY <2>1, <2>3 DEF RaceInv
<1>2. ASSUME NEW p \in Procs, NEW i \in Commands, Begin(p, i) PROVE RaceInv'
  <2>1. ~ LosesAt(p)' /\ KeptAt(p)'
    <3>1. proc'[p].cmd = i /\ proc'[p].pc = First(i).pc
      BY <1>2, BeginFields
    <3>2. proc'[p].pc \notin {"make", "recheck"} /\ (proc'[p].pc = "error" => Cause(i)')
      BY <3>1, FirstFacts DEF Cause
    <3> QED BY <3>1, <3>2, ResourcesAssumption DEF LosesAt, KeptAt, At, Cmd
  <2>2. ASSUME NEW q \in Procs, q # p PROVE KeptAt(q)'
    <3>1. CASE proc'[q] = Idle
      BY <3>1 DEF KeptAt, At, Idle
    <3>2. CASE proc'[q] = [proc[q] EXCEPT !.met = @ \cup {"command"}]
      <4>1. /\ proc'[q].cmd = proc[q].cmd /\ proc'[q].pc = proc[q].pc
            /\ proc'[q].idx = proc[q].idx /\ proc'[q].at = proc[q].at
            /\ proc'[q].met = proc[q].met \cup {"command"}
        BY <3>2 DEF TypeOK, Process
      <4>2. KeptAt(q) /\ obj' = obj
        BY <1>2 DEF RaceInv, Begin, objects
      <4> QED BY <4>1, <4>2 DEF KeptAt, At, Need, Needs, Current, Cmd, Present
    <3> QED BY <1>2, <2>2, <3>1, <3>2, BeginFields
  <2> QED BY <2>1, <2>2 DEF RaceInv
<1>3. ASSUME NEW p \in Procs, Killed(p) PROVE RaceInv'
  <2>1. /\ proc'[p] = Idle /\ obj' = obj
        /\ \A q \in Procs \ {p} : proc'[q] = proc[q]
    BY <1>3 DEF Killed, objects, TypeOK
  <2>2. ~ LosesAt(p)' /\ KeptAt(p)'
    BY <2>1 DEF LosesAt, KeptAt, At, Idle
  <2>3. ASSUME NEW q \in Procs \ {p} PROVE KeptAt(q)'
    <3>1. KeptAt(q) /\ proc'[q] = proc[q]
      BY <2>1 DEF RaceInv
    <3> QED BY <2>1, <3>1 DEF KeptAt, At, Need, Needs, Current, Cmd, Present
  <2> QED BY <2>2, <2>3 DEF RaceInv
<1>4. CASE UNCHANGED vars
  <2>1. proc' = proc /\ obj' = obj
    BY <1>4 DEF vars, objects
  <2>2. \A i : Cause(i)' <=> Cause(i)
    BY <2>1 DEF Cause, Present
  <2>3. \A q : KeptAt(q)' <=> KeptAt(q)
    BY <2>1 DEF KeptAt, At, Cmd, Need, Needs, Current, Present
  <2>4. \A q : LosesAt(q)' <=> LosesAt(q)
    BY <2>1, <2>2 DEF LosesAt, At, Cmd, Need, Needs, Current, Present
  <2> QED BY <2>3, <2>4 DEF RaceInv
<1> QED BY <1>1, <1>2, <1>3, <1>4 DEF Next

LEMMA RaceHolds == Procs # {} => (Spec => []RaceInv)
<1> SUFFICES ASSUME Procs # {} PROVE Spec => []RaceInv
  OBVIOUS
<1>1. Init => RaceInv
  BY DEF Init, Idle, RaceInv, LosesAt, KeptAt, At
<1>2. TypeOK /\ ControlInv /\ RaceInv /\ [Next]_vars => RaceInv'
  BY RaceStep
<1> QED BY <1>1, <1>2, Control, PTL DEF Spec

(* However many commands run at once, not all of them can have failed at   *)
(* one another, unless by removals.                                        *)
NotAllLose ==
  \E p \in Procs : At(p, "error") /\ "removal" \notin proc[p].met => Cause(Cmd(p))

THEOREM NotAllLoseTheorem == Procs # {} => (Spec => []NotAllLose)
<1> SUFFICES ASSUME Procs # {} PROVE Spec => []NotAllLose
  OBVIOUS
<1>1. RaceInv => NotAllLose
  BY DEF RaceInv, LosesAt, NotAllLose
<1> QED BY <1>1, RaceHolds, PTL

(* Of two commands that run at once, not both fail.                        *)
THEOREM RaceHasWinnerTheorem ==
  ASSUME NEW a, NEW b, Procs = {a, b}
  PROVE  Spec => []RaceHasWinner
<1>1. RaceInv => RaceHasWinner
  BY DEF RaceInv, LosesAt, RaceHasWinner
<1>2. Procs # {}
  OBVIOUS
<1> QED BY <1>1, <1>2, RaceHolds, PTL

-----------------------------------------------------------------------------
(* What start, stop and restart come to.                                   *)

(* What the calls of a loop do to containers that are up, and to those     *)
(* that exist.                                                             *)
LEMMA PerformFacts ==
  ASSUME StoreTypeOK, NEW t \in Calls \X Containers, Perform(t)
  PROVE  /\ t[1] = "stop" => ~ Up(t[2])' /\ \A d \in Containers : Up(d)' => Up(d)
         /\ t[1] \in {"start", "again"} =>
              (Exists(t[2]) => Up(t[2])') /\ \A d \in Containers : Up(d) => Up(d)'
         /\ t[1] = "restart" => \A d \in Containers :
              Up(d) => Up(d)' \/ (d = t[2] /\ Restartable(d))
         /\ t[1] = "rm" => \A d \in Containers : (Exists(d)' => Exists(d)) /\ (Up(d)' => Up(d))
         /\ t[1] # "rm" => \A d \in Containers : Exists(d)' <=> Exists(d)
<1> DEFINE a == t[1]
           c == t[2]
<1>1. a \in {"stop", "start", "restart", "again", "rm"} /\ c \in Containers
  BY DEF Calls
<1>2. ctr \in [Containers -> States] /\ requires \in [Containers -> SUBSET Containers]
  BY DEF StoreTypeOK
<1> USE DEF Up, Exists, States, UpStates
<1>3. a = "stop" => PodmanStop(c)
  BY DEF Perform
<1>4. a = "start" => PodmanStart(c)
  BY DEF Perform
<1>5. a = "restart" => IF Restartable(c) THEN PodmanStop(c) ELSE UNCHANGED store
  BY DEF Perform
<1>6. a = "again" => ctr' = [ctr EXCEPT ![c] = IF @ = "absent" THEN @ ELSE "running"]
  BY DEF Perform
<1>7. a = "rm" => PodmanRm(c)
  BY DEF Perform
<1> HIDE DEF a, c
<1>8. CASE a = "stop"
  BY <1>1, <1>2, <1>3, <1>8 DEF PodmanStop, a, c
<1>9. CASE a = "start"
  BY <1>1, <1>2, <1>4, <1>9 DEF PodmanStart, a, c
<1>10. CASE a = "restart"
  BY <1>1, <1>2, <1>5, <1>10 DEF PodmanStop, store, a, c
<1>11. CASE a = "again"
  BY <1>1, <1>2, <1>6, <1>11 DEF a, c
<1>12. CASE a = "rm"
  BY <1>1, <1>2, <1>7, <1>12 DEF PodmanRm, store, a, c
<1> QED BY <1>1, <1>8, <1>9, <1>10, <1>11, <1>12 DEF a, c

(* The container each call of the loop is for is left to it, or has been   *)
(* dealt with.                                                             *)
TransferAt(p) ==
  Cmd(p).op \in Transfers /\ ~ At(p, "error") =>
    /\ proc[p].pc \in {"transfer", "done"}
    /\ \A t \in proc[p].tasks : t[1] = Cmd(p).op \/ (Cmd(p).op = "restart" /\ t[1] = "again")
    /\ \A c \in Containers :
         /\ Cmd(p).op = "stop" /\ c \in Targets(Cmd(p)) =>
              <<"stop", c>> \in proc[p].tasks \/ ~ Up(c)
         /\ Cmd(p).op = "start" /\ c \in Targets(Cmd(p)) /\ Exists(c) =>
              <<"start", c>> \in proc[p].tasks \/ Up(c)
         /\ Cmd(p).op = "restart" /\ c \in proc[p].wasUp =>
              Exists(c) /\ (Up(c) \/ <<"again", c>> \in proc[p].tasks)

TransferInv == \A p \in Procs : Alone(p) => TransferAt(p)

(* How a call of a loop leaves the process.                                *)
LEMMA TaskFields ==
  ASSUME proc \in [Procs -> Process], NEW p \in Procs, NEW t, Task(p, t)
  PROVE  /\ proc'[p].cmd = proc[p].cmd /\ proc'[p].pc = proc[p].pc
         /\ proc'[p].wasUp = proc[p].wasUp /\ proc'[p].clean = proc[p].clean
         /\ proc'[p].idx = proc[p].idx /\ proc'[p].names = proc[p].names
         /\ proc'[p].tasks = (proc[p].tasks \ {t}) \cup
              IF t[1] = "restart" /\ Restartable(t[2]) THEN {<<"again", t[2]>>} ELSE {}
<1> DEFINE T == (proc[p].tasks \ {t}) \cup
                  IF t[1] = "restart" /\ Restartable(t[2]) THEN {<<"again", t[2]>>} ELSE {}
<1>1. Goes(p, [tasks |-> T])
  BY DEF Task
<1> HIDE DEF T
<1>2. /\ proc'[p].cmd = proc[p].cmd /\ proc'[p].pc = proc[p].pc
      /\ proc'[p].wasUp = proc[p].wasUp /\ proc'[p].clean = proc[p].clean
      /\ proc'[p].idx = proc[p].idx /\ proc'[p].names = proc[p].names
      /\ proc'[p].tasks = T
  BY <1>1, GoesOn DEF Moving
<1> QED BY <1>2 DEF T

LEMMA TransferTask ==
  ASSUME TypeOK, ControlInv, NEW p \in Procs, TransferAt(p), Cmd(p).op \in Transfers,
         At(p, "transfer"), NEW t \in Calls \X Containers, Task(p, t)
  PROVE  TransferAt(p)'
<1>1. /\ proc'[p].cmd = proc[p].cmd /\ proc'[p].pc = proc[p].pc
      /\ proc'[p].wasUp = proc[p].wasUp /\ t \in proc[p].tasks
      /\ proc'[p].tasks = (proc[p].tasks \ {t}) \cup
           IF t[1] = "restart" /\ Restartable(t[2]) THEN {<<"again", t[2]>>} ELSE {}
  BY TaskFields DEF TypeOK, Task
<1>2. Perform(t) /\ StoreTypeOK /\ t = <<t[1], t[2]>> /\ t[2] \in Containers
  BY DEF Task, TypeOK
<1> DEFINE op == Cmd(p).op
           T == proc[p].tasks
           T1 == proc'[p].tasks
<1>3. /\ ~ At(p, "error") /\ proc[p].pc \in {"transfer", "done"}
      /\ \A u \in T : u[1] = op \/ (op = "restart" /\ u[1] = "again")
      /\ \A c \in Containers :
         /\ op = "stop" /\ c \in Targets(Cmd(p)) => <<"stop", c>> \in T \/ ~ Up(c)
         /\ op = "start" /\ c \in Targets(Cmd(p)) /\ Exists(c) => <<"start", c>> \in T \/ Up(c)
         /\ op = "restart" /\ c \in proc[p].wasUp => Exists(c) /\ (Up(c) \/ <<"again", c>> \in T)
  BY DEF TransferAt, At
<1>4. t[1] = op \/ (op = "restart" /\ t[1] = "again")
  BY <1>1, <1>3
<1>5. \A u \in T1 : u[1] = op \/ (op = "restart" /\ u[1] = "again")
  BY <1>1, <1>3, <1>4
<1>6. ASSUME NEW c \in Containers
      PROVE  /\ op = "stop" /\ c \in Targets(Cmd(p)) => <<"stop", c>> \in T1 \/ ~ Up(c)'
             /\ op = "start" /\ c \in Targets(Cmd(p)) /\ Exists(c)' =>
                  <<"start", c>> \in T1 \/ Up(c)'
             /\ op = "restart" /\ c \in proc[p].wasUp =>
                  Exists(c)' /\ (Up(c)' \/ <<"again", c>> \in T1)
  <2>1. op = "stop" /\ c \in Targets(Cmd(p)) => <<"stop", c>> \in T1 \/ ~ Up(c)'
    BY <1>1, <1>2, <1>3, <1>4, PerformFacts
  <2>2. op = "start" /\ c \in Targets(Cmd(p)) /\ Exists(c)' => <<"start", c>> \in T1 \/ Up(c)'
    BY <1>1, <1>2, <1>3, <1>4, PerformFacts
  <2>3. ASSUME op = "restart", c \in proc[p].wasUp
        PROVE  Exists(c)' /\ (Up(c)' \/ <<"again", c>> \in T1)
    <3>1. Exists(c)' /\ Exists(c)
      BY <1>2, <1>3, <1>4, <2>3, PerformFacts
    <3>2. CASE t[1] = "restart"
      BY <1>1, <1>2, <1>3, <2>3, <3>1, <3>2, PerformFacts
    <3>3. CASE t[1] = "again"
      BY <1>1, <1>2, <1>3, <2>3, <3>1, <3>3, PerformFacts
    <3> QED BY <1>4, <2>3, <3>1, <3>2, <3>3
  <2> QED BY <2>1, <2>2, <2>3
<1> QED BY <1>1, <1>3, <1>5, <1>6 DEF TransferAt, Cmd, At

LEMMA TransferStep ==
  ASSUME TypeOK, ControlInv, AloneInv, TransferInv, [Next]_vars
  PROVE  TransferInv'
<1> SUFFICES ASSUME NEW p \in Procs, Alone(p)' PROVE TransferAt(p)'
  BY DEF TransferInv
<1>1. ASSUME NEW i \in Commands, Begin(p, i) PROVE TransferAt(p)'
  <2>1. /\ proc'[p].cmd = i /\ proc'[p].pc = First(i).pc /\ proc'[p].tasks = First(i).tasks
        /\ proc'[p].wasUp = {c \in Containers : i.op = "restart" /\ Up(c)}
        /\ ctr' = ctr
    BY <1>1, BeginFields DEF Begin, store
  <2>2. CASE First(i).pc = "transfer" /\ First(i).tasks = Each(i.op, Targets(i))
    <3>1. \A t \in First(i).tasks : t[1] = i.op
      BY <2>2 DEF Each
    <3>2. \A c \in Targets(i) : <<i.op, c>> \in First(i).tasks
      BY <2>2 DEF Each
    <3>3. \A c \in proc'[p].wasUp : Exists(c)' /\ Up(c)'
      BY <2>1 DEF Exists, Up, UpStates
    <3> QED BY <2>1, <2>2, <3>1, <3>2, <3>3 DEF TransferAt, Cmd, At
  <2>3. CASE i.op \notin Transfers \/ First(i).pc = "error"
    BY <2>1, <2>3 DEF TransferAt, Cmd, At
  <2> QED BY <2>2, <2>3, FirstStage DEF Transfers
<1>2. CASE Alone(p) /\ Step(p) /\ Active(p)
  <2>1. TransferAt(p) /\ proc'[p].cmd = proc[p].cmd /\ proc'[p].wasUp = proc[p].wasUp
    BY <1>2, OwnKept DEF TransferInv
  <2>2. CASE Cmd(p).op \notin Transfers
    BY <2>1, <2>2 DEF TransferAt, Cmd
  <2>3. CASE Cmd(p).op \in Transfers
    <3>1. At(p, "transfer")
      BY <1>2, <2>1, <2>3 DEF TransferAt, Active, Finished, At
    <3>2. CASE \E t \in Calls \X Containers : Task(p, t)
      BY <2>1, <2>3, <3>1, <3>2, TransferTask
    <3>3. CASE TasksEnd(p)
      <4>1. Ends(p, "done") /\ proc[p].tasks = {} /\ UNCHANGED store
        BY <3>1, <3>3 DEF TasksEnd, At
      <4>2. proc'[p].pc = "done" /\ proc'[p].tasks = {}
        BY <4>1, EndsFields DEF Finished, TypeOK
      <4> QED BY <2>1, <3>1, <4>1, <4>2 DEF TransferAt, Cmd, At, Up, Exists, store
    <3> QED BY <1>2, <3>1, <3>2, <3>3, StageSteps DEF At
  <2> QED BY <2>2, <2>3
<1>3. CASE Alone(p) /\ proc'[p] = proc[p] /\ UNCHANGED <<store, objects>>
  BY <1>3 DEF TransferInv, TransferAt, Cmd, At, Up, Exists, store
<1> QED BY <1>1, <1>2, <1>3, AloneCases

(* stop, start and restart come to what they are for.                      *)
THEOREM TransferDoneTheorem == Spec => []TransferDone
<1>1. Init => TransferInv
  BY DEF Init, Idle, TransferInv, Alone, Cmd
<1>2. TypeOK /\ ControlInv /\ AloneInv /\ TransferInv /\ [Next]_vars => TransferInv'
  BY TransferStep
<1>3. TypeOK /\ ControlInv /\ TransferInv => TransferDone
  <2> SUFFICES ASSUME TypeOK, ControlInv, TransferInv, NEW p \in Procs, CameTo(p, "done"),
                      NEW c \in Containers
               PROVE  CASE Cmd(p).op = "stop" -> c \in Targets(Cmd(p)) => ~ Up(c)
                        [] Cmd(p).op = "start" -> c \in Targets(Cmd(p)) /\ Exists(c) => Up(c)
                        [] Cmd(p).op = "restart" -> c \in proc[p].wasUp => Up(c)
                        [] OTHER -> TRUE
    BY DEF TransferDone
  <2>1. Alone(p) /\ At(p, "done") /\ ~ At(p, "error")
    BY DEF CameTo, Alone, At
  <2>2. TransferAt(p) /\ proc[p].tasks = {}
    BY <2>1 DEF TransferInv, ControlInv, ControlAt, At
  <2> QED BY <2>1, <2>2 DEF TransferAt, Transfers
<1> QED BY <1>1, <1>2, <1>3, Control, AloneHolds, PTL DEF Spec

-----------------------------------------------------------------------------
(* What holds however commands overlap: containers are in the pod, what    *)
(* they use is there, and directories have no label.                       *)
PodInv == Existing # {} => pod

UsesInv ==
  \A c \in Existing :
    \E f \in Files : /\ ~ ParsingRaises(f) /\ c \in Members(f) /\ config[c] = f.config
                     /\ \A r \in Uses(f, c) : Present(r)

DirsInv == \A r \in Dirs : obj[r] # "labelled"

StoreInv == PodInv /\ UsesInv /\ DirsInv

(* What podman create and podman pod rm do.                                *)
LEMMA CreateFacts ==
  ASSUME TypeOK, ControlInv, NEW p \in Procs, CreateContainer(p)
  PROVE  LET i == Cmd(p)  f == i.stack  c == Current(p) IN
         /\ f \in Files /\ ~ ParsingRaises(f) /\ c \in Members(f) /\ c \in Containers
         /\ pod' = pod
         /\ \/ UNCHANGED <<store, obj>>
            \/ /\ pod /\ ~ Exists(c)
               /\ \A r \in GivenNetworks(f, c) \cup GivenMounts(f, c, "bind") : Present(r)
               /\ ctr' = [ctr EXCEPT ![c] = "created"]
               /\ config' = [config EXCEPT ![c] = f.config]
               /\ obj' = [r \in Objects |-> IF r \in VolumeNames(f, c) /\ ~ Present(r)
                                            THEN "plain" ELSE obj[r]]
<1> DEFINE i == Cmd(p)
           f == i.stack
           c == Current(p)
           nets == GivenNetworks(f, c)
           dirs == GivenMounts(f, c, "bind")
           vols == VolumeNames(f, c)
           req == NamesOf(DepsOf(i, c)) \cap Members(f)
<1>1. /\ i \in Commands /\ ~ ParsingRaises(f) /\ c \in Included(i)
  BY DEF ControlInv, ControlAt, CreateContainer, Creating, Active, Finished, At
<1>2. f \in Files /\ c \in Members(f) /\ c \in Containers
  BY <1>1, CommandFacts DEF Files
<1>3. UNCHANGED <<store, objects>> \/ PodmanCreateIn(c, req, f.config, nets, dirs, vols)
  BY DEF CreateContainer
<1> HIDE DEF i, f, c, nets, dirs, vols, req
<1>4. \/ UNCHANGED <<store, objects>>
      \/ /\ pod /\ pod' = pod /\ (\A r \in nets \cup dirs : Present(r))
         /\ Creatable(c, req) /\ PodmanCreate(c, req, f.config)
         /\ obj' = [r \in Objects |-> IF r \in vols /\ ~ Present(r) THEN "plain" ELSE obj[r]]
  BY <1>3 DEF PodmanCreateIn
<1>5. Creatable(c, req) /\ PodmanCreate(c, req, f.config) =>
        /\ ~ Exists(c) /\ ctr' = [ctr EXCEPT ![c] = "created"]
        /\ config' = [config EXCEPT ![c] = f.config]
  BY DEF PodmanCreate, Creatable
<1>6. \/ UNCHANGED <<store, objects>>
      \/ /\ pod /\ pod' = pod /\ (\A r \in nets \cup dirs : Present(r))
         /\ ~ Exists(c) /\ ctr' = [ctr EXCEPT ![c] = "created"]
         /\ config' = [config EXCEPT ![c] = f.config]
         /\ obj' = [r \in Objects |-> IF r \in vols /\ ~ Present(r) THEN "plain" ELSE obj[r]]
  BY <1>4, <1>5
<1> QED BY <1>1, <1>2, <1>6 DEF objects, i, f, c, nets, dirs, vols

LEMMA PodRmFacts ==
  ASSUME TypeOK, PodRm
  PROVE  \/ ~ pod /\ UNCHANGED <<store, pod>>
         \/ pod /\ pod' /\ UNCHANGED store /\ \E c \in Containers : Up(c)
         \/ pod /\ ~ pod' /\ Existing' = {}
<1>1. CASE ~ pod
  BY <1>1 DEF PodRm, store
<1>2. CASE pod /\ \E c \in Containers : Up(c)
  BY <1>2 DEF PodRm, PodmanPodRm, store
<1>3. CASE pod /\ ~ \E c \in Containers : Up(c)
  <2>1. ctr' = [c \in Containers |-> "absent"] /\ ~ pod'
    BY <1>3 DEF PodRm, PodmanPodRm
  <2> QED BY <1>3, <2>1 DEF Existing, Exists
<1> QED BY <1>1, <1>2, <1>3

(* Containers come into being by podman create only.                       *)
LEMMA NoContainerAppears ==
  ASSUME TypeOK, ControlInv, NEW p \in Procs, Step(p), ~ CreateContainer(p)
  PROVE  \A d \in Containers : Exists(d)' =>
           Exists(d) /\ config'[d] = config[d] /\ requires'[d] = requires[d]
<1> USE DEF Exists
<1>1. StoreTypeOK
  BY DEF TypeOK
<1>2. ASSUME NEW c \in Containers, PodmanRm(c) \/ PodmanStart(c) \/ PodmanStop(c)
      PROVE  \A d \in Containers : Exists(d)' =>
               Exists(d) /\ config'[d] = config[d] /\ requires'[d] = requires[d]
  <2>1. CASE PodmanRm(c)
    BY <1>1, <2>1 DEF PodmanRm, store, StoreTypeOK
  <2>2. CASE PodmanStart(c)
    BY <1>1, <2>2 DEF PodmanStart, StoreTypeOK
  <2>3. CASE PodmanStop(c)
    BY <1>1, <2>3 DEF PodmanStop, StoreTypeOK, Up, UpStates
  <2> QED BY <1>2, <2>1, <2>2, <2>3
<1>3. ASSUME NEW t \in Calls \X Containers, Task(p, t)
      PROVE  \A d \in Containers : Exists(d)' =>
               Exists(d) /\ config'[d] = config[d] /\ requires'[d] = requires[d]
  <2>1. t[2] \in Containers /\ t[1] \in {"stop", "start", "restart", "again", "rm"} /\ Perform(t)
    BY <1>3 DEF Task, Calls
  <2>2. CASE t[1] = "again"
    BY <1>1, <2>1, <2>2 DEF Perform, StoreTypeOK
  <2>3. CASE t[1] # "again"
    <3>1. PodmanRm(t[2]) \/ PodmanStart(t[2]) \/ PodmanStop(t[2]) \/ UNCHANGED store
      BY <2>1, <2>3 DEF Perform
    <3>2. CASE UNCHANGED store
      BY <3>2 DEF store
    <3> QED BY <1>2, <2>1, <3>1, <3>2
  <2> QED BY <2>2, <2>3
<1>4. CASE RmPod(p)
  <2>1. UNCHANGED store \/ Existing' = {}
    BY <1>4, PodRmFacts DEF RmPod
  <2> QED BY <2>1 DEF store, Existing
<1>5. CASE RmContainer(p) \/ StartContainer(p)
  <2>1. Current(p) \in Containers
    <3>1. Cmd(p) \in Commands /\ proc[p].idx \in DOMAIN Cmd(p).stack.order
      BY <1>5, CommandFacts
         DEF RmContainer, StartContainer, ControlInv, ControlAt, Active, At, Finished, Creating
    <3> QED BY <3>1, CommandFacts DEF Current
  <2>2. CASE UNCHANGED store
    BY <2>2 DEF store
  <2> QED BY <1>2, <1>5, <2>1, <2>2 DEF RmContainer, StartContainer
<1>6. UNCHANGED store \/ (\E t \in Calls \X Containers : Task(p, t)) \/ RmPod(p)
        \/ RmContainer(p) \/ StartContainer(p)
  BY DEF Step, RmObject, TasksEnd, RmEnds, ListVolumes, VolumesRemoved, ListNetworks,
         NetworksRemoved, PodExists, MakePod, Inspect, Make, Recheck
<1>7. CASE UNCHANGED store
  BY <1>7 DEF store
<1> QED BY <1>3, <1>4, <1>5, <1>6, <1>7

LEMMA UsesAreObjects ==
  ASSUME NEW f \in Files, ~ ParsingRaises(f), NEW c \in Members(f)
  PROVE  Uses(f, c) \subseteq Objects
BY ResourcesAssumption DEF Uses, GivenMounts, Objects

LEMMA FileOfIs ==
  ASSUME NEW f \in Files
  PROVE  FileOf(f.config) = f
<1>1. \E g \in Files : g.config = f.config
  OBVIOUS
<1>2. FileOf(f.config) \in Files /\ FileOf(f.config).config = f.config
  BY <1>1 DEF FileOf
<1> QED BY <1>2, ResourcesAssumption

LEMMA PodInvStep ==
  ASSUME TypeOK, ControlInv, PodInv, NEW p \in Procs, Step(p)
  PROVE  PodInv'
<1>1. CASE CreateContainer(p)
  <2>1. pod' = pod /\ (UNCHANGED ctr \/ pod)
    BY <1>1, CreateFacts DEF store
  <2> QED BY <2>1 DEF PodInv, Existing, Exists
<1>2. CASE RmPod(p)
  <2>1. (~ pod /\ UNCHANGED <<ctr, pod>>) \/ pod' \/ Existing' = {}
    BY <1>2, PodRmFacts DEF RmPod, store
  <2> QED BY <2>1 DEF PodInv, Existing, Exists
<1>3. CASE ~ CreateContainer(p) /\ (pod' = pod \/ pod' = TRUE)
  <2>1. \A d \in Containers : Exists(d)' => Exists(d)
    BY <1>3, NoContainerAppears
  <2>2. Existing' \subseteq Existing
    BY <2>1 DEF Existing
  <2> QED BY <1>3, <2>2 DEF PodInv
<1>4. pod' = pod \/ pod' = TRUE \/ CreateContainer(p) \/ RmPod(p)
  BY DEF Step, Task, TasksEnd, RmObject, RmContainer, RmEnds, ListVolumes, VolumesRemoved,
         ListNetworks, NetworksRemoved, PodExists, MakePod, Inspect, Make, Recheck,
         StartContainer, objects
<1> QED BY <1>1, <1>2, <1>3, <1>4

LEMMA UsesInvStep ==
  ASSUME TypeOK, ControlInv, UsesInv, NEW p \in Procs, Step(p)
  PROVE  UsesInv'
<1>1. CASE CreateContainer(p)
  <2> DEFINE F == Cmd(p).stack
             C == Current(p)
  <2>1. /\ F \in Files /\ ~ ParsingRaises(F) /\ C \in Members(F) /\ C \in Containers
        /\ \/ UNCHANGED <<store, obj>>
           \/ /\ \A r \in GivenNetworks(F, C) \cup GivenMounts(F, C, "bind") : Present(r)
              /\ ctr' = [ctr EXCEPT ![C] = "created"]
              /\ config' = [config EXCEPT ![C] = F.config]
              /\ obj' = [r \in Objects |-> IF r \in VolumeNames(F, C) /\ ~ Present(r)
                                           THEN "plain" ELSE obj[r]]
    BY <1>1, CreateFacts
  <2> HIDE DEF F, C
  <2>2. CASE UNCHANGED <<store, obj>>
    BY <2>2 DEF UsesInv, Existing, Exists, Present, store
  <2>3. CASE /\ \A r \in GivenNetworks(F, C) \cup GivenMounts(F, C, "bind") : Present(r)
             /\ ctr' = [ctr EXCEPT ![C] = "created"]
             /\ config' = [config EXCEPT ![C] = F.config]
             /\ obj' = [r \in Objects |-> IF r \in VolumeNames(F, C) /\ ~ Present(r)
                                          THEN "plain" ELSE obj[r]]
    <3>1. ASSUME NEW r \in Objects, Present(r) \/ r \in VolumeNames(F, C) PROVE Present(r)'
      BY <2>3, <3>1 DEF Present
    <3>2. \A r \in Uses(F, C) : Present(r)'
      BY <2>1, <2>3, <3>1, UsesAreObjects DEF Uses, VolumeNames
    <3>3. ASSUME NEW c \in Existing, c # C
          PROVE  \E f \in Files : /\ ~ ParsingRaises(f) /\ c \in Members(f)
                                  /\ config'[c] = f.config
                                  /\ \A r \in Uses(f, c) : Present(r)'
      <4>1. PICK f \in Files : /\ ~ ParsingRaises(f) /\ c \in Members(f)
                               /\ config[c] = f.config /\ \A r \in Uses(f, c) : Present(r)
        BY <3>3 DEF UsesInv
      <4>2. config'[c] = config[c]
        BY <2>1, <2>3, <3>3 DEF TypeOK, StoreTypeOK, Existing
      <4>3. \A r \in Uses(f, c) : Present(r)'
        BY <3>1, <4>1, UsesAreObjects
      <4> QED BY <4>1, <4>2, <4>3
    <3>4. config'[C] = F.config
      BY <2>1, <2>3 DEF TypeOK, StoreTypeOK
    <3>5. \A c \in Existing' : c = C \/ c \in Existing
      BY <2>1, <2>3 DEF Existing, Exists, TypeOK, StoreTypeOK
    <3>6. ASSUME NEW c \in Existing'
          PROVE  \E f \in Files : /\ ~ ParsingRaises(f) /\ c \in Members(f)
                                  /\ config'[c] = f.config
                                  /\ \A r \in Uses(f, c) : Present(r)'
      BY <2>1, <3>2, <3>3, <3>4, <3>5
    <3> QED BY <3>6 DEF UsesInv
  <2> QED BY <2>1, <2>2, <2>3
<1>2. CASE ~ CreateContainer(p)
  <2> SUFFICES ASSUME NEW c \in Existing'
               PROVE  \E f \in Files : /\ ~ ParsingRaises(f) /\ c \in Members(f)
                                       /\ config'[c] = f.config
                                       /\ \A r \in Uses(f, c) : Present(r)'
    BY DEF UsesInv
  <2>1. c \in Existing /\ config'[c] = config[c]
    BY <1>2, NoContainerAppears DEF Existing
  <2>2. PICK f \in Files : /\ ~ ParsingRaises(f) /\ c \in Members(f)
                           /\ config[c] = f.config /\ \A r \in Uses(f, c) : Present(r)
    BY <2>1 DEF UsesInv
  <2>3. ASSUME NEW r \in Uses(f, c) PROVE Present(r)'
    <3>1. r \in Objects /\ Present(r)
      BY <2>2, UsesAreObjects
    <3>2. CASE \E x \in Objects : RmObject(p, x)
      <4>1. PICK x \in Objects : ObjectRm(x, Users(x))
        BY <3>2 DEF RmObject
      <4>2. r = x => Users(x) # {}
        BY <2>1, <2>2, FileOfIs DEF Users
      <4> QED BY <3>1, <4>1, <4>2 DEF ObjectRm, Present, TypeOK, ObjectsTypeOK
    <3>3. CASE ~ \E x \in Objects : RmObject(p, x)
      BY <3>1, <3>3, NothingGoes
    <3> QED BY <3>2, <3>3
  <2> QED BY <2>1, <2>2, <2>3
<1> QED BY <1>1, <1>2

LEMMA DirsInvStep ==
  ASSUME TypeOK, ControlInv, DirsInv, NEW p \in Procs, Step(p)
  PROVE  DirsInv'
<1> SUFFICES ASSUME NEW r \in Dirs PROVE obj'[r] # "labelled"
  BY DEF DirsInv
<1>1. r \in Objects /\ obj[r] # "labelled"
  BY DEF Objects, DirsInv
<1>2. CASE \E x \in Objects : RmObject(p, x)
  BY <1>1, <1>2 DEF RmObject, ObjectRm, TypeOK, ObjectsTypeOK
<1>3. CASE Inspect(p)
  BY <1>1, <1>3 DEF Inspect, TypeOK, ObjectsTypeOK
<1>4. CASE Make(p)
  <2>1. Need(p).name \in Volumes \cup Networks
    <3>1. ControlAt(p) /\ At(p, "make")
      BY <1>4 DEF Make, ControlInv
    <3>2. /\ Cmd(p).stack \in Files /\ ~ ParsingRaises(Cmd(p).stack)
          /\ Current(p) \in Members(Cmd(p).stack) /\ proc[p].at \in DOMAIN Needs(p)
          /\ Need(p).kind \in {"volume", "network"}
      BY <3>1, CommandFacts DEF ControlAt, At, Active, Finished, Creating, Files
    <3> QED BY <3>2, ResourcesAssumption DEF Need, Needs
  <2>2. Need(p).name # r
    BY <2>1, PodmanObjectsAssumption
  <2> QED BY <1>1, <1>4, <2>2 DEF Make, ObjectCreate, TypeOK, ObjectsTypeOK
<1>5. CASE CreateContainer(p)
  <2>1. obj' = obj \/ \E V : obj' = [x \in Objects |-> IF x \in V /\ ~ Present(x) THEN "plain"
                                                                            ELSE obj[x]]
    BY <1>5 DEF CreateContainer, PodmanCreateIn, objects
  <2> QED BY <1>1, <2>1
<1>6. obj' = obj \/ (\E x \in Objects : RmObject(p, x)) \/ Inspect(p) \/ Make(p)
        \/ CreateContainer(p)
  BY DEF Step, Task, TasksEnd, RmContainer, RmEnds, ListVolumes, VolumesRemoved,
         RmPod, ListNetworks, NetworksRemoved, PodExists, MakePod, Recheck,
         StartContainer, objects
<1> QED BY <1>1, <1>2, <1>3, <1>4, <1>5, <1>6

LEMMA StoreHolds == Spec => []StoreInv
<1>1. Init => StoreInv
  BY PodmanObjectsAssumption
     DEF Init, StoreInit, ObjectsInit, StoreInv, PodInv, UsesInv, DirsInv, Existing, Exists,
         Objects
<1>2. ASSUME TypeOK, ControlInv, StoreInv, [Next]_vars PROVE StoreInv'
  <2>1. CASE \E p \in Procs : Step(p)
    BY <1>2, <2>1, PodInvStep, UsesInvStep, DirsInvStep DEF StoreInv
  <2>2. CASE UNCHANGED <<store, objects>>
    BY <1>2, <2>2 DEF StoreInv, PodInv, UsesInv, DirsInv, Existing, Exists, Present, store,
                      objects
  <2> QED BY <1>2, <2>1, <2>2 DEF Next, Begin, Killed, vars
<1> QED BY <1>1, <1>2, Control, PTL DEF Spec

-----------------------------------------------------------------------------
(* What down comes to.                                                     *)

(* Whichever command takes containers down: what is left of the loop that  *)
(* stops them, after it nothing selected is up, and after pod rm nothing   *)
(* is left if everything there is was selected.                            *)
DownAt(p) ==
  /\ At(p, "stop") => \A t \in proc[p].tasks : t[1] = "stop"
  /\ At(p, "orphans") => \A t \in proc[p].tasks : t[1] \in {"stop", "rm"}
  /\ At(p, "stop") => \A c \in Included(Cmd(p)) : <<"stop", c>> \in proc[p].tasks \/ ~ Up(c)
  /\ proc[p].pc \in Removing => \A c \in Included(Cmd(p)) : ~ Up(c)
  /\ proc[p].pc \in Cleared /\ Existing \subseteq Included(Cmd(p)) => Existing = {}

DownInv == \A p \in Procs : Alone(p) => DownAt(p)

(* podman rm, in the loop over compose.containers.                         *)
LEMMA RmFacts ==
  ASSUME TypeOK, ControlInv, NEW p \in Procs, RmContainer(p)
  PROVE  /\ At(p, "rm") /\ Cmd(p) \in Commands /\ proc[p].idx \in 1..Len(Cmd(p).stack.order)
         /\ proc'[p].pc = "rm" /\ proc'[p].cmd = proc[p].cmd
         /\ proc'[p].idx = proc[p].idx - 1 /\ proc'[p].clean = proc[p].clean
         /\ proc'[p].tasks = proc[p].tasks /\ proc'[p].names = proc[p].names
         /\ Current(p) \in Containers
         /\ IF Current(p) \in Included(Cmd(p)) THEN PodmanRm(Current(p)) ELSE UNCHANGED store
         /\ \A d \in Containers : Up(d)' => Up(d)
<1>1. /\ ControlAt(p) /\ At(p, "rm") /\ Active(p)
      /\ IF Current(p) \in Included(Cmd(p)) THEN PodmanRm(Current(p)) ELSE UNCHANGED store
  BY DEF ControlInv, RmContainer, At, Active, Finished
<1>2. Cmd(p) \in Commands /\ proc[p].idx \in 1..Len(Cmd(p).stack.order)
  <2>1. Cmd(p) \in Commands /\ proc[p].idx \in 0..Len(Cmd(p).stack.order) /\ proc[p].idx > 0
    BY <1>1 DEF ControlAt, RmContainer
  <2>2. Len(Cmd(p).stack.order) \in Nat
    BY <2>1, CommandFacts
  <2> QED BY <2>1, <2>2
<1>3. Current(p) \in Containers
  BY <1>2, CommandFacts DEF Current
<1>4. /\ proc'[p].pc = "rm" /\ proc'[p].cmd = proc[p].cmd
      /\ proc'[p].idx = proc[p].idx - 1 /\ proc'[p].clean = proc[p].clean
      /\ proc'[p].tasks = proc[p].tasks /\ proc'[p].names = proc[p].names
  BY <1>1, GoesOn DEF RmContainer, TypeOK, Moving, At
<1>5. \A d \in Containers : Up(d)' => Up(d)
  BY <1>1, <1>3 DEF PodmanRm, store, Up, UpStates, TypeOK, StoreTypeOK
<1> QED BY <1>1, <1>2, <1>3, <1>4, <1>5

LEMMA DownTask ==
  ASSUME TypeOK, ControlInv, NEW p \in Procs, DownAt(p),
         NEW t \in Calls \X Containers, Task(p, t)
  PROVE  DownAt(p)'
<1>1. /\ proc'[p].cmd = proc[p].cmd /\ proc'[p].pc = proc[p].pc
      /\ t \in proc[p].tasks
      /\ proc'[p].tasks = (proc[p].tasks \ {t}) \cup
           IF t[1] = "restart" /\ Restartable(t[2]) THEN {<<"again", t[2]>>} ELSE {}
  BY TaskFields DEF TypeOK, Task
<1>2. Perform(t) /\ StoreTypeOK /\ t = <<t[1], t[2]>> /\ t[2] \in Containers
  BY DEF Task, TypeOK
<1>3. proc[p].pc \in {"transfer", "stop", "orphans"} /\ ControlAt(p)
  BY <1>1 DEF ControlInv, ControlAt
<1>4. CASE At(p, "transfer")
  BY <1>1, <1>4 DEF DownAt, At, Removing, Cleared
<1>5. CASE ~ At(p, "transfer")
  <2>1. t[1] \in {"stop", "rm"} /\ (At(p, "stop") => t[1] = "stop")
    BY <1>1, <1>3, <1>5 DEF DownAt, At
  <2>2. \A d \in Containers : Up(d)' => Up(d)
    BY <1>2, <2>1, PerformFacts
  <2>3. proc'[p].tasks = proc[p].tasks \ {t} /\ (t[1] = "stop" => ~ Up(t[2])')
    BY <1>1, <1>2, <2>1, PerformFacts
  <2>4. Included(Cmd(p)) \subseteq Containers
    <3>1. Cmd(p) \in Commands
      BY <1>3 DEF ControlAt, Active, Finished, At
    <3> QED BY <3>1, CommandFacts
  <2>5. ASSUME At(p, "stop"), NEW c \in Included(Cmd(p))
        PROVE  <<"stop", c>> \in proc'[p].tasks \/ ~ Up(c)'
    <3>1. <<"stop", c>> \in proc[p].tasks \/ ~ Up(c)
      BY <2>5 DEF DownAt
    <3>2. CASE <<"stop", c>> = t
      BY <2>3, <3>2
    <3> QED BY <2>2, <2>3, <2>4, <3>1, <3>2
  <2>6. proc[p].pc \in Removing => \A c \in Included(Cmd(p)) : ~ Up(c)'
    BY <2>2, <2>4 DEF DownAt
  <2> QED BY <1>1, <1>3, <2>3, <2>5, <2>6 DEF DownAt, At, Cmd, Cleared
<1> QED BY <1>4, <1>5

(* up goes on creating, or ends.                                           *)
LEMMA CreatingStages ==
  ASSUME TypeOK, ControlInv, NEW p \in Procs,
         PodExists(p) \/ MakePod(p) \/ Inspect(p) \/ Make(p) \/ Recheck(p)
           \/ CreateContainer(p) \/ StartContainer(p)
  PROVE  proc'[p].pc \in Creating \cup Finished \cup {"make_pod"}
<1>1. /\ Active(p) /\ Cmd(p) \in Commands /\ proc \in [Procs -> Process] /\ proc[p].idx \in Nat
  BY StepIsActive DEF TypeOK, ControlInv, ControlAt, Process, Step
<1>2. ASSUME NEW n \in Nat \ {0}, ToContainer(p, n)
      PROVE  proc'[p].pc \in Creating \cup Finished
  BY <1>1, <1>2, ToContainerFields DEF Creating
<1>3. CASE PodExists(p) \/ MakePod(p) \/ StartContainer(p) \/ CreateContainer(p)
  BY <1>1, <1>2, <1>3, GoesOn, EndsFields
     DEF PodExists, MakePod, StartContainer, CreateContainer, Moving, Finished, Creating
<1>4. CASE Inspect(p) \/ Make(p) \/ Recheck(p)
  BY <1>1, <1>4, GoesOn, EndsFields DEF Inspect, Make, Recheck, NextNeed, Moving, Finished,
     Creating
<1> QED BY <1>3, <1>4

LEMMA DownStep ==
  ASSUME TypeOK, ControlInv, PodInv, NEW p \in Procs, DownAt(p), Step(p)
  PROVE  DownAt(p)'
<1>1. /\ Active(p) /\ Cmd(p) \in Commands /\ proc \in [Procs -> Process] /\ ControlAt(p)
      /\ proc'[p].cmd = proc[p].cmd /\ proc[p].idx \in Nat
      /\ Included(Cmd(p)) \subseteq Containers
  BY StepIsActive, OwnKept, CommandFacts DEF TypeOK, ControlInv, ControlAt, Process
<1>2. CASE \E t \in Calls \X Containers : Task(p, t)
  BY <1>2, DownTask
<1>3. CASE TasksEnd(p)
  <2>1. UNCHANGED store /\ proc[p].tasks = {}
    BY <1>3 DEF TasksEnd
  <2>2. \/ proc'[p].pc = "done"
        \/ At(p, "stop") /\ proc'[p].pc = "rm"
        \/ At(p, "orphans") /\ proc'[p].pc = "ls_volumes"
    BY <1>1, <1>3, GoesOn, EndsFields DEF TasksEnd, Moving, Finished
  <2> QED BY <1>1, <2>1, <2>2 DEF DownAt, At, Cmd, Removing, Cleared, Each, Up, store
<1>4. CASE RmContainer(p)
  BY <1>1, <1>4, RmFacts DEF DownAt, At, Cmd, Removing, Cleared
<1>5. CASE RmEnds(p)
  <2>1. /\ UNCHANGED store /\ At(p, "rm")
        /\ \/ /\ proc'[p].pc = "orphans"
              /\ proc'[p].tasks = Each("stop", Existing) \cup Each("rm", Existing)
           \/ proc'[p].pc = "ls_volumes"
    BY <1>1, <1>5, GoesOn DEF RmEnds, Moving
  <2> QED BY <1>1, <2>1 DEF DownAt, At, Cmd, Removing, Cleared, Each, Up, store
<1>6. CASE ListVolumes(p) \/ VolumesRemoved(p)
  <2>1. UNCHANGED store /\ proc[p].pc \in Removing
    BY <1>6 DEF ListVolumes, VolumesRemoved, At, Removing
  <2>2. proc'[p].pc \in {"rm_volumes", "rm_pod", "pod", "done"}
    BY <1>1, <1>6, GoesOn, EndsFields
       DEF ListVolumes, VolumesRemoved, AfterDown, Moving, Finished
  <2> QED BY <1>1, <2>1, <2>2 DEF DownAt, At, Cmd, Removing, Cleared, Up, store
<1>7. CASE \E r \in Objects : RmObject(p, r)
  <2>1. PICK r \in Objects : RmObject(p, r)
    BY <1>7
  <2>2. proc'[p] = [proc[p] EXCEPT !.names = @ \ {r}] /\ UNCHANGED store
    BY <2>1 DEF RmObject
  <2>3. proc'[p].pc = proc[p].pc /\ proc'[p].tasks = proc[p].tasks
    BY <1>1, <2>2 DEF Process
  <2> QED BY <1>1, <2>2, <2>3 DEF DownAt, At, Cmd, Up, Existing, Exists, store
<1>8. CASE RmPod(p)
  <2>1. proc'[p].pc = "ls_networks" /\ PodRm /\ At(p, "rm_pod")
    BY <1>1, <1>8, GoesOn DEF RmPod, Moving
  <2>2. \A c \in Included(Cmd(p)) : ~ Up(c)
    BY <2>1 DEF DownAt, At, Removing
  <2>3. \A c \in Containers : Up(c) => c \in Existing
    BY DEF Existing, Exists, Up, UpStates
  <2>4. Existing' \subseteq Included(Cmd(p)) => Existing' = {}
    <3>1. CASE ~ pod /\ UNCHANGED <<store, pod>>
      BY <3>1 DEF PodInv, Existing, Exists, store
    <3>2. CASE UNCHANGED store /\ \E c \in Containers : Up(c)
      <4>1. Existing' = Existing
        BY <3>2 DEF Existing, Exists, store
      <4> QED BY <2>2, <2>3, <3>2, <4>1
    <3> QED BY <2>1, <3>1, <3>2, PodRmFacts
  <2> QED BY <1>1, <2>1, <2>4 DEF DownAt, At, Cmd, Removing, Cleared
<1>9. CASE ListNetworks(p) \/ NetworksRemoved(p)
  <2>1. UNCHANGED store /\ proc[p].pc \in Cleared
    BY <1>9 DEF ListNetworks, NetworksRemoved, At, Cleared
  <2>2. proc'[p].pc \in {"rm_networks", "pod", "done"}
    BY <1>1, <1>9, GoesOn, EndsFields
       DEF ListNetworks, NetworksRemoved, AfterDown, Moving, Finished
  <2> QED BY <1>1, <2>1, <2>2 DEF DownAt, At, Cmd, Removing, Cleared, Existing, Exists, store
<1>10. CASE proc'[p].pc \in Creating \cup Finished \cup {"make_pod"}
  BY <1>10 DEF DownAt, At, Removing, Cleared, Creating, Finished
<1>11. PodExists(p) \/ MakePod(p) \/ Inspect(p) \/ Make(p) \/ Recheck(p) \/ CreateContainer(p)
         \/ StartContainer(p) => proc'[p].pc \in Creating \cup Finished \cup {"make_pod"}
  BY CreatingStages
<1> QED BY <1>2, <1>3, <1>4, <1>5, <1>6, <1>7, <1>8, <1>9, <1>10, <1>11 DEF Step

(* down -v of everything, begun with what belongs to its file.             *)
Clean(p) == /\ Cmd(p).op = "down" /\ Cmd(p).volumes /\ proc[p].clean
            /\ ~ Excludes(Cmd(p)) /\ ~ At(p, "error")

(* What is left for it to do: the containers up to idx, for none after it  *)
(* in the order exists and so nothing that requires the next one; then the *)
(* volumes listed, the pod, the networks listed.                           *)
CleanAt(p) ==
  Clean(p) =>
    /\ proc[p].pc \in Removing \cup Cleared \cup {"stop", "done"}
    /\ Existing \subseteq Members(Cmd(p).stack)
    /\ proc[p].pc \in {"stop", "rm"} =>
         \A c \in Existing : requires[c] \subseteq NamesOf(Cmd(p).stack.deps[c])
    /\ At(p, "rm") => \A k \in DOMAIN Cmd(p).stack.order :
                        k > proc[p].idx => ~ Exists(Cmd(p).stack.order[k])
    /\ proc[p].pc \notin {"stop", "rm"} => Existing = {}
    /\ At(p, "rm_volumes") => Labelled(Volumes) \subseteq proc[p].names
    /\ proc[p].pc \in Cleared \cup {"rm_pod", "done"} => Labelled(Volumes) = {}
    /\ proc[p].pc \in Cleared \cup {"done"} => ~ pod
    /\ At(p, "rm_networks") => Labelled(Networks) \subseteq proc[p].names
    /\ At(p, "done") => Labelled(Networks) = {}

CleanInv == \A p \in Procs : Alone(p) => CleanAt(p)

(* The next container is removed: nothing that is left requires it.        *)
LEMMA CleanRm ==
  ASSUME TypeOK, ControlInv, NEW p \in Procs, DownAt(p), CleanAt(p), Clean(p), RmContainer(p)
  PROVE  CleanAt(p)'
<1> DEFINE i == Cmd(p)
           order == i.stack.order
           c == Current(p)
           n == proc[p].idx
<1>1. /\ At(p, "rm") /\ i \in Commands /\ n \in 1..Len(order)
      /\ proc'[p].pc = "rm" /\ proc'[p].cmd = i /\ proc'[p].idx = n - 1
      /\ proc'[p].clean = proc[p].clean /\ c \in Containers
      /\ IF c \in Included(i) THEN PodmanRm(c) ELSE UNCHANGED store
  BY RmFacts DEF Cmd
<1>2. /\ ParsedStack(i.stack) /\ order \in Seq(Containers) /\ Included(i) = Members(i.stack)
  <2>1. ~ ParsingRaises(i.stack)
    BY <1>1 DEF ControlInv, ControlAt, Active, Finished, At
  <2> QED BY <1>1, <2>1, CommandFacts, ResourcesAssumption DEF Files, Clean, Excludes
<1>3. c = order[n] /\ c \in Members(i.stack) /\ c \in Included(i) /\ n \in DOMAIN order
  BY <1>1, <1>2 DEF Current, Members
<1>4. ~ Up(c)
  BY <1>1, <1>3 DEF DownAt, At, Removing
<1>5. /\ Existing \subseteq Members(i.stack)
      /\ \A d \in Existing : requires[d] \subseteq NamesOf(i.stack.deps[d])
      /\ \A k \in DOMAIN order : k > n => ~ Exists(order[k])
  BY <1>1 DEF CleanAt, At
<1>6. Dependents(c) = {}
  <2> SUFFICES ASSUME NEW d \in Existing, c \in requires[d] PROVE FALSE
    BY DEF Dependents
  <2>1. PICK j \in DOMAIN order : d = order[j]
    BY <1>5 DEF Members
  <2>2. c \in NamesOf(i.stack.deps[d])
    BY <1>5
  <2>3. n < j
    BY <1>2, <1>3, <2>1, <2>2 DEF ParsedStack, Topological
  <2>4. ~ Exists(d)
    BY <1>1, <1>2, <1>5, <2>1, <2>3
  <2> QED BY <2>4 DEF Existing
<1>7. ctr'[c] = "absent" /\ \A d \in Containers : Exists(d)' => Exists(d) /\ requires'[d] = requires[d]
  <2>1. CASE Exists(c)
    BY <1>1, <1>3, <1>4, <1>6, <2>1 DEF PodmanRm, Exists, TypeOK, StoreTypeOK
  <2>2. CASE ~ Exists(c)
    BY <1>1, <1>3, <2>2 DEF PodmanRm, Exists, store
  <2> QED BY <2>1, <2>2
<1>8. Existing' \subseteq Existing /\ \A d \in Existing' : requires'[d] = requires[d]
  BY <1>7 DEF Existing
<1>9. \A k \in DOMAIN order : k > n - 1 => ctr'[order[k]] = "absent"
  <2> SUFFICES ASSUME NEW k \in DOMAIN order, k > n - 1 PROVE ctr'[order[k]] = "absent"
    OBVIOUS
  <2>1. k = n \/ k > n
    BY <1>1, <1>2
  <2>2. order[k] \in Containers
    BY <1>2
  <2> QED BY <1>3, <1>5, <1>7, <2>1, <2>2 DEF Exists
<1>10. Existing' \subseteq Members(i.stack)
  BY <1>5, <1>8
<1>11. \A d \in Existing' : requires'[d] \subseteq NamesOf(i.stack.deps[d])
  BY <1>5, <1>8
<1> QED BY <1>1, <1>9, <1>10, <1>11 DEF CleanAt, At, Cmd, Removing, Cleared, Exists

(* What cannot be used by a container is removed when it is asked for.     *)
LEMMA CleanObject ==
  ASSUME TypeOK, ControlInv, NEW p \in Procs, CleanAt(p), Clean(p),
         NEW r \in Objects, RmObject(p, r), proc[p].pc \in {"rm_volumes", "rm_networks"}
  PROVE  CleanAt(p)'
<1>1. /\ r \in proc[p].names /\ ObjectRm(r, Users(r)) /\ UNCHANGED <<store, pod>>
      /\ proc'[p] = [proc[p] EXCEPT !.names = @ \ {r}]
  BY DEF RmObject
<1>2. /\ proc'[p].pc = proc[p].pc /\ proc'[p].cmd = proc[p].cmd
      /\ proc'[p].clean = proc[p].clean /\ proc'[p].names = proc[p].names \ {r}
  BY <1>1 DEF TypeOK, Process
<1>3. Existing = {}
  BY DEF CleanAt
<1>4. obj' = [obj EXCEPT ![r] = "absent"]
  BY <1>1, <1>3 DEF Users, ObjectRm
<1>5. \A S \in SUBSET Objects : Labelled(S)' \subseteq Labelled(S) \ {r}
  BY <1>4 DEF Labelled, TypeOK, ObjectsTypeOK
<1>6. Volumes \in SUBSET Objects /\ Networks \in SUBSET Objects
  BY DEF Objects
<1>7. Labelled(Volumes)' \subseteq Labelled(Volumes) \ {r}
      /\ Labelled(Networks)' \subseteq Labelled(Networks) \ {r}
  BY <1>5, <1>6 DEF Labelled
<1>8. Existing' = {}
  BY <1>1, <1>3 DEF Existing, Exists, store
<1>9. CASE At(p, "rm_volumes")
  <2>1. Labelled(Volumes)' \subseteq proc'[p].names
    BY <1>2, <1>7, <1>9 DEF CleanAt
  <2> QED BY <1>2, <1>8, <1>9, <2>1 DEF CleanAt, At, Cmd, Removing, Cleared
<1>10. CASE At(p, "rm_networks")
  <2>1. /\ Labelled(Networks)' \subseteq proc'[p].names /\ Labelled(Volumes)' = {} /\ ~ pod'
    BY <1>1, <1>2, <1>7, <1>10 DEF CleanAt, At, Cleared
  <2> QED BY <1>2, <1>8, <1>10, <2>1 DEF CleanAt, At, Cmd, Removing, Cleared
<1> QED BY <1>9, <1>10 DEF At

LEMMA CleanStep ==
  ASSUME TypeOK, ControlInv, StoreInv, NEW p \in Procs, DownAt(p), CleanAt(p), Step(p)
  PROVE  CleanAt(p)'
<1>1. /\ Active(p) /\ Cmd(p) \in Commands /\ proc \in [Procs -> Process] /\ ControlAt(p)
      /\ proc'[p].cmd = proc[p].cmd /\ proc'[p].clean = proc[p].clean
  BY StepIsActive, OwnKept DEF TypeOK, ControlInv, ControlAt
<1>2. CASE ~ Clean(p)
  <2>1. CASE At(p, "error")
    BY <1>1, <2>1 DEF Active, Finished, At
  <2>2. CASE ~ At(p, "error")
    BY <1>1, <1>2, <2>2 DEF CleanAt, Clean, Cmd
  <2> QED BY <2>1, <2>2
<1> SUFFICES ASSUME Clean(p) PROVE CleanAt(p)'
  BY <1>2
<1>3. /\ proc[p].pc \in Removing \cup Cleared \cup {"stop"}
      /\ Existing \subseteq Members(Cmd(p).stack)
      /\ proc[p].pc \notin {"stop", "rm"} => Existing = {}
  BY <1>1 DEF CleanAt, Active, Finished, At
<1>4. CASE RmContainer(p)
  BY <1>4, CleanRm
<1>5. CASE \E r \in Objects : RmObject(p, r)
  <2>1. PICK r \in Objects : RmObject(p, r)
    BY <1>5
  <2>2. proc[p].pc \in {"rm_volumes", "rm_networks"}
    BY <1>1, <2>1 DEF RmObject, ControlAt
  <2> QED BY <2>1, <2>2, CleanObject
<1>6. ASSUME UNCHANGED <<store, obj>>
      PROVE  /\ Existing' = Existing /\ requires' = requires
             /\ \A S : Labelled(S)' = Labelled(S) /\ \A c : Exists(c)' = Exists(c)
  BY <1>6 DEF Existing, Exists, store, Labelled
<1>7. CASE \E t \in Calls \X Containers : Task(p, t)
  <2>1. PICK t \in Calls \X Containers : Task(p, t)
    BY <1>7
  <2>2. /\ proc'[p].pc = proc[p].pc /\ proc[p].pc \in {"stop", "orphans"}
        /\ objects' = objects
    BY <1>1, <1>3, <2>1, TaskFields DEF Task, ControlAt, Removing, Cleared
  <2>3. \A d \in Containers : Exists(d)' => Exists(d) /\ requires'[d] = requires[d]
    BY <1>3, <1>7, NoContainerAppears DEF CreateContainer, At, Removing, Cleared
  <2>4. Existing' \subseteq Existing /\ \A d \in Existing' : requires'[d] = requires[d]
    BY <2>3 DEF Existing
  <2>5. proc[p].pc = "stop" =>
          \A c \in Existing' : requires'[c] \subseteq NamesOf(Cmd(p).stack.deps[c])
    BY <2>4 DEF CleanAt
  <2> QED BY <1>1, <1>3, <2>2, <2>4, <2>5 DEF CleanAt, At, Cmd, Removing, Cleared
<1>8. CASE TasksEnd(p)
  <2>1. /\ UNCHANGED <<store, obj>>
        /\ \/ /\ At(p, "stop") /\ proc'[p].pc = "rm"
              /\ proc'[p].idx = Len(Cmd(p).stack.order)
           \/ At(p, "orphans") /\ proc'[p].pc = "ls_volumes"
    BY <1>1, <1>3, <1>8, GoesOn DEF TasksEnd, Moving, objects, At, Removing, Cleared
  <2>2. \A k \in DOMAIN Cmd(p).stack.order : ~ k > Len(Cmd(p).stack.order)
    BY <1>1, CommandFacts
  <2>3. At(p, "stop") => \A c \in Existing : requires[c] \subseteq NamesOf(Cmd(p).stack.deps[c])
    BY DEF CleanAt, At
  <2> QED BY <1>1, <1>3, <1>6, <2>1, <2>2, <2>3 DEF CleanAt, At, Cmd, Removing, Cleared
<1>9. CASE RmEnds(p)
  <2>1. /\ UNCHANGED <<store, obj>> /\ At(p, "rm") /\ proc[p].idx = 0
        /\ proc'[p].pc \in {"orphans", "ls_volumes"}
    BY <1>1, <1>9, GoesOn DEF RmEnds, Moving, objects
  <2>2. \A k \in DOMAIN Cmd(p).stack.order : k > 0
    BY <1>1, CommandFacts
  <2>3. \A c \in Members(Cmd(p).stack) : ~ Exists(c)
    BY <2>1, <2>2 DEF CleanAt, At, Members
  <2>4. Existing = {}
    BY <1>3, <2>3 DEF Existing
  <2> QED BY <1>1, <1>6, <2>1, <2>4 DEF CleanAt, At, Cmd, Removing, Cleared
<1>10. CASE ListVolumes(p)
  <2>1. Kept(Cmd(p)) = {}
    <3>1. Members(Cmd(p).stack) \ Included(Cmd(p)) = {}
      BY DEF Clean, Excludes
    <3> QED BY <3>1 DEF Kept
  <2>2. /\ UNCHANGED <<store, obj>> /\ At(p, "ls_volumes") /\ proc'[p].pc = "rm_volumes"
        /\ proc'[p].names = Labelled(Volumes)
    BY <1>1, <1>10, <2>1, GoesOn DEF ListVolumes, Moving, objects, Listed, Clean
  <2> QED BY <1>1, <1>3, <1>6, <2>2 DEF CleanAt, At, Cmd, Removing, Cleared
<1>11. CASE VolumesRemoved(p)
  <2>1. /\ UNCHANGED <<store, obj>> /\ At(p, "rm_volumes") /\ proc'[p].pc = "rm_pod"
        /\ proc[p].names = {}
    BY <1>1, <1>11, GoesOn DEF VolumesRemoved, Moving, objects, Clean
  <2>2. Labelled(Volumes) = {}
    BY <2>1 DEF CleanAt
  <2> QED BY <1>1, <1>3, <1>6, <2>1, <2>2 DEF CleanAt, At, Cmd, Removing, Cleared
<1>12. CASE RmPod(p)
  <2>1. PodRm /\ obj' = obj /\ At(p, "rm_pod") /\ proc'[p].pc = "ls_networks"
    BY <1>1, <1>12, GoesOn DEF RmPod, Moving
  <2>2. Existing = {} /\ \A c \in Containers : ~ Up(c)
    BY <1>3, <2>1 DEF Existing, Exists, Up, UpStates, At
  <2>3. ~ pod' /\ Existing' = {}
    BY <2>1, <2>2, PodRmFacts DEF Existing, Exists, store
  <2>4. Labelled(Volumes)' = {}
    BY <2>1 DEF CleanAt, At, Labelled
  <2> QED BY <1>1, <2>1, <2>3, <2>4 DEF CleanAt, At, Cmd, Removing, Cleared
<1>13. CASE ListNetworks(p) \/ NetworksRemoved(p)
  <2>1. /\ UNCHANGED <<store, obj>> /\ pod' = pod /\ proc[p].pc \in Cleared
        /\ \/ proc'[p].pc = "rm_networks" /\ proc'[p].names = Labelled(Networks)
           \/ proc'[p].pc = "done" /\ proc[p].names = {} /\ At(p, "rm_networks")
    BY <1>1, <1>13, GoesOn, EndsFields
       DEF ListNetworks, NetworksRemoved, AfterDown, Moving, Finished, objects, Listed, Clean,
           At, Cleared
  <2>2. Labelled(Volumes) = {} /\ ~ pod /\ Existing = {}
    BY <2>1 DEF CleanAt, Cleared
  <2>3. proc'[p].pc = "done" => Labelled(Networks) = {}
    BY <2>1 DEF CleanAt
  <2> QED BY <1>1, <1>6, <2>1, <2>2, <2>3 DEF CleanAt, At, Cmd, Removing, Cleared
<1> QED BY <1>1, <1>3, <1>4, <1>5, <1>7, <1>8, <1>9, <1>10, <1>11, <1>12, <1>13, StageSteps
        DEF At, Removing, Cleared

(* What down finds when it begins.                                         *)
LEMMA DownBegins ==
  ASSUME TypeOK, NEW p \in Procs, NEW i \in Commands, Begin(p, i)
  PROVE  DownAt(p)' /\ CleanAt(p)'
<1>1. /\ proc'[p].cmd = i /\ proc'[p].pc = First(i).pc /\ proc'[p].tasks = First(i).tasks
      /\ proc'[p].clean => Consistent(i) /\ Existing \subseteq Members(i.stack)
      /\ UNCHANGED store
  BY BeginFields DEF Begin
<1>2. First(i).pc = "stop" => First(i).tasks = Each("stop", Included(i))
  BY FirstStage
<1>3. First(i).pc \in {"error", "transfer", "stop", "pod"}
  BY FirstStage
<1>4. DownAt(p)'
  BY <1>1, <1>2, <1>3 DEF DownAt, At, Cmd, Removing, Cleared, Each
<1>5. CleanAt(p)'
  <2>1. i.op = "down" => First(i).pc \in {"error", "stop"}
    BY FirstStage DEF Transfers
  <2>2. Existing' = Existing /\ requires' = requires
    BY <1>1 DEF Existing, Exists, store
  <2>3. Consistent(i) => \A c \in Existing : requires[c] \subseteq NamesOf(i.stack.deps[c])
    BY DEF Consistent
  <2> QED BY <1>1, <2>1, <2>2, <2>3 DEF CleanAt, Clean, At, Cmd, Removing, Cleared
<1> QED BY <1>4, <1>5

LEMMA DownInvStep ==
  ASSUME TypeOK, ControlInv, AloneInv, StoreInv, DownInv, CleanInv, [Next]_vars
  PROVE  DownInv' /\ CleanInv'
<1> SUFFICES ASSUME NEW p \in Procs, Alone(p)' PROVE DownAt(p)' /\ CleanAt(p)'
  BY DEF DownInv, CleanInv
<1>1. CASE \E i \in Commands : Begin(p, i)
  BY <1>1, DownBegins
<1>2. CASE Alone(p) /\ Step(p)
  BY <1>2, DownStep, CleanStep DEF DownInv, CleanInv, StoreInv
<1>3. CASE Alone(p) /\ proc'[p] = proc[p] /\ UNCHANGED <<store, objects>>
  BY <1>3 DEF DownInv, CleanInv, DownAt, CleanAt, Clean, Cmd, At, Up, Exists, Existing,
              Labelled, store, objects
<1> QED BY <1>1, <1>2, <1>3, AloneCases

LEMMA DownHolds == Spec => [](DownInv /\ CleanInv)
<1>1. Init => DownInv /\ CleanInv
  BY DEF Init, Idle, DownInv, CleanInv, Alone, Cmd
<1>2. /\ TypeOK /\ ControlInv /\ AloneInv /\ StoreInv /\ DownInv /\ CleanInv /\ [Next]_vars
      => DownInv' /\ CleanInv'
  BY DownInvStep
<1> QED BY <1>1, <1>2, Control, AloneHolds, StoreHolds, PTL DEF Spec

(* down -v of everything leaves neither containers nor pod, volumes or     *)
(* networks of the project, whatever it was started over.                  *)
THEOREM DownLeavesNothingTheorem == Spec => []DownLeavesNothing
<1>1. StoreInv /\ CleanInv => DownLeavesNothing
  <2> SUFFICES ASSUME StoreInv, CleanInv, NEW p \in Procs, CameTo(p, "done"), Clean(p)
               PROVE  Existing = {} /\ ~ pod /\ Labelled(Objects) = {}
    BY DEF DownLeavesNothing, Clean, CameTo, At
  <2>1. CleanAt(p) /\ At(p, "done")
    BY DEF CleanInv, CameTo, Alone
  <2>2. Existing = {} /\ ~ pod /\ Labelled(Volumes) = {} /\ Labelled(Networks) = {}
    BY <2>1 DEF CleanAt, At, Cleared
  <2>3. Labelled(Dirs) = {}
    BY DEF StoreInv, DirsInv, Labelled
  <2> QED BY <2>2, <2>3 DEF Labelled, Objects
<1> QED BY <1>1, DownHolds, StoreHolds, PTL

-----------------------------------------------------------------------------
(* What up comes to.                                                       *)

(* An up of everything that finds nothing but its own services.            *)
Whole(p) ==
  /\ Cmd(p).op = "up" /\ ~ Excludes(Cmd(p)) /\ Assertable(Cmd(p).stack)
  /\ Existing \subseteq Included(Cmd(p))

(* Only up creates.  Of a whole stack the containers before idx exist, all *)
(* that exist are of this file, and the pod they go to is there.           *)
UpAt(p) ==
  /\ proc[p].pc \in {"pod", "make_pod"} \cup Creating => Cmd(p).op = "up"
  /\ At(p, "transfer") => Cmd(p).op # "up"
  /\ AssertedAt(p)
  /\ Whole(p) =>
       /\ proc[p].pc \in {"pod", "make_pod", "done"} \cup Creating =>
             \A c \in Existing : config[c] = Cmd(p).stack.config
       /\ proc[p].pc \in Creating =>
            /\ pod
            /\ \A k \in 1..(proc[p].idx - 1) : Exists(Cmd(p).stack.order[k])
       /\ At(p, "start") => Exists(Current(p))
       /\ At(p, "done") => \A c \in Included(Cmd(p)) : Exists(c)

UpInv == \A p \in Procs : Alone(p) => UpAt(p)

(* With everything selected, on to the next container is on to the next    *)
(* position.                                                               *)
LEMMA ToNext ==
  ASSUME proc \in [Procs -> Process], NEW p \in Procs, NEW n \in Nat \ {0},
         Cmd(p) \in Commands, ~ Excludes(Cmd(p)), ToContainer(p, n)
  PROVE  \/ proc'[p].pc = "error"
         \/ proc'[p].pc = "done" /\ n > Len(Cmd(p).stack.order)
         \/ proc'[p].pc = "inspect" /\ proc'[p].idx = n
<1> DEFINE order == Cmd(p).stack.order
           rest == {m \in n..Len(order) : order[m] \in Included(Cmd(p))}
<1>1. order \in Seq(Containers) /\ Included(Cmd(p)) = Members(Cmd(p).stack)
  BY CommandFacts DEF Excludes
<1>2. Len(order) \in Nat /\ DOMAIN order = 1..Len(order)
  BY <1>1
<1>3. \A m \in n..Len(order) : m \in DOMAIN order
  BY <1>2
<1>4. rest = n..Len(order)
  BY <1>1, <1>3 DEF Members
<1>5. CASE rest = {} /\ Ends(p, "done")
  <2>1. n > Len(order)
    <3>1. SUFFICES ASSUME ~ n > Len(order) PROVE FALSE
      OBVIOUS
    <3>2. n \in n..Len(order)
      BY <1>2, <3>1
    <3> QED BY <1>4, <1>5, <3>2
  <2> QED BY <1>5, <2>1, EndsFields DEF Finished
<1>6. ASSUME NEW m \in rest, \A k \in rest : m <= k,
             Ends(p, "error") \/ Goes(p, [pc |-> "inspect", idx |-> m, at |-> 1])
      PROVE  proc'[p].pc = "error" \/ (proc'[p].pc = "inspect" /\ proc'[p].idx = n)
  <2>1. m = n
    <3>1. m \in Nat /\ n <= m /\ m <= Len(order)
      BY <1>2, <1>4
    <3>2. n \in rest
      BY <1>2, <1>4, <3>1
    <3>3. m <= n
      BY <1>6, <3>2
    <3> QED BY <3>1, <3>3
  <2>2. CASE Ends(p, "error")
    BY <2>2, EndsFields DEF Finished
  <2>3. CASE Goes(p, [pc |-> "inspect", idx |-> m, at |-> 1])
    BY <2>1, <2>3, GoesOn DEF Moving
  <2> QED BY <1>6, <2>2, <2>3
<1>7. \/ rest = {} /\ Ends(p, "done")
      \/ \E m \in rest :
           /\ \A k \in rest : m <= k
           /\ Ends(p, "error") \/ Goes(p, [pc |-> "inspect", idx |-> m, at |-> 1])
  BY DEF ToContainer
<1> HIDE DEF rest
<1> QED BY <1>5, <1>6, <1>7

(* So far as a whole up has come, so far it goes on.                       *)
LEMMA WholeGoesOn ==
  ASSUME proc \in [Procs -> Process], NEW p \in Procs, NEW n \in Nat \ {0},
         Cmd(p) \in Commands, Cmd(p).op = "up", AssertedAt(p)', ToContainer(p, n),
         Whole(p)' => /\ pod'
                      /\ \A c \in Existing' : config'[c] = Cmd(p).stack.config
                      /\ \A k \in 1..(n - 1) : ctr'[Cmd(p).stack.order[k]] # "absent"
  PROVE  UpAt(p)'
<1> DEFINE order == Cmd(p).stack.order
<1>1. proc'[p].cmd = Cmd(p) /\ proc'[p].pc # "transfer"
  BY ToContainerFields DEF Cmd, Finished
<1>2. /\ order \in Seq(Containers) /\ Included(Cmd(p)) \subseteq Members(Cmd(p).stack)
  BY CommandFacts
<1>3. CASE ~ Whole(p)'
  BY <1>1, <1>3 DEF UpAt, Cmd, At
<1>4. CASE Whole(p)'
  <2>1. ~ Excludes(Cmd(p))
    BY <1>1, <1>4 DEF Whole, Cmd
  <2>2. CASE proc'[p].pc = "error"
    BY <1>1, <2>2 DEF UpAt, Cmd, At, Creating
  <2>3. CASE proc'[p].pc = "done" /\ n > Len(order)
    <3>1. \A k \in DOMAIN order : k \in 1..(n - 1)
      BY <1>2, <2>3
    <3>2. \A c \in Included(Cmd(p)) : ctr'[c] # "absent"
      BY <1>2, <1>4, <3>1 DEF Members
    <3> QED BY <1>1, <1>4, <2>3, <3>2 DEF UpAt, Cmd, At, Creating, Exists
  <2>4. CASE proc'[p].pc = "inspect" /\ proc'[p].idx = n
    BY <1>1, <1>4, <2>4 DEF UpAt, Cmd, At, Creating, Exists
  <2> QED BY <2>1, <2>2, <2>3, <2>4, ToNext
<1> QED BY <1>3, <1>4

(* While containers are created, none goes.                                *)
LEMMA NoContainerGoes ==
  ASSUME TypeOK, ControlInv, NEW p \in Procs, Step(p),
         proc[p].pc \in {"pod", "make_pod"} \cup Creating
  PROVE  Existing \subseteq Existing'
<1>1. UNCHANGED store \/ CreateContainer(p) \/ StartContainer(p)
  BY StageSteps DEF PodExists, MakePod, Inspect, Make, Recheck, Creating, At
<1>2. CASE UNCHANGED store
  BY <1>2 DEF store, Existing, Exists
<1>3. CASE CreateContainer(p)
  BY <1>3, CreateFacts DEF store, Existing, Exists, TypeOK, StoreTypeOK
<1>4. CASE StartContainer(p)
  BY <1>4 DEF StartContainer, PodmanStart, Existing, Exists
<1> QED BY <1>1, <1>2, <1>3, <1>4

(* podman create has everything it asks for.                               *)
LEMMA CreateSucceeds ==
  ASSUME TypeOK, ControlInv, NEW p \in Procs, UpAt(p), Whole(p), CreateContainer(p)
  PROVE  \/ proc'[p].pc = "error"
         \/ /\ ctr'[Current(p)] # "absent"
            /\ pod' /\ \A c \in Existing' : config'[c] = Cmd(p).stack.config
<1> DEFINE i == Cmd(p)
           f == i.stack
           c == Current(p)
           n == proc[p].idx
           nets == GivenNetworks(f, c)
           dirs == GivenMounts(f, c, "bind")
           vols == VolumeNames(f, c)
           req == NamesOf(DepsOf(i, c)) \cap Members(f)
<1>1. /\ At(p, "inspect") /\ proc[p].pc \in Creating /\ i \in Commands /\ ~ ParsingRaises(f)
      /\ n \in DOMAIN f.order /\ proc \in [Procs -> Process]
  BY DEF ControlInv, ControlAt, CreateContainer, Creating, Active, Finished, At, TypeOK
<1>2. /\ f \in Files /\ ParsedStack(f) /\ f.order \in Seq(Containers)
      /\ c = f.order[n] /\ c \in Members(f) /\ c \in Containers
  BY <1>1, CommandFacts, ResourcesAssumption DEF Files, Current, Members
<1>3. /\ pod /\ \A d \in Existing : config[d] = f.config
      /\ \A k \in 1..(n - 1) : Exists(f.order[k])
  BY <1>1 DEF UpAt
<1>4. \A r \in nets \cup dirs : Present(r)
  <2>1. \A m \in DOMAIN Needs(p) : m < proc[p].at
    <3>1. proc[p].at \in Nat /\ proc[p].at >= 1 /\ proc[p].at \notin DOMAIN Needs(p)
      BY <1>1 DEF CreateContainer, UpAt, AssertedAt, At, Process
    <3> QED BY <1>1, <3>1, NeedsFacts
  <2>2. \A m \in DOMAIN Needs(p) : Lasting(Needs(p)[m]) => Present(Needs(p)[m].name)
    BY <1>1, <2>1 DEF UpAt, AssertedAt, At
  <2>3. nets \subseteq GivenMounts(f, c, "network") /\ dirs \cap Unwritable = {}
    BY <1>2 DEF Whole, Assertable
  <2>4. \A r \in GivenMounts(f, c, "network") : Present(r)
    BY <2>2 DEF GivenMounts, Needs, Lasting
  <2>5. \A r \in dirs : Present(r)
    BY <2>2, <2>3 DEF GivenMounts, Needs, Lasting
  <2> QED BY <2>3, <2>4, <2>5
<1>5. \A d \in req : Exists(d)
  <2> SUFFICES ASSUME NEW d \in req PROVE Exists(d)
    OBVIOUS
  <2>1. PICK j \in DOMAIN f.order : d = f.order[j]
    BY DEF Members
  <2>2. d \in NamesOf(f.deps[c])
    BY DEF DepsOf, NamesOf
  <2>3. j < n
    BY <1>1, <1>2, <2>1, <2>2 DEF ParsedStack, Topological
  <2>4. j \in 1..(n - 1)
    BY <1>1, <1>2, <2>1, <2>3
  <2> QED BY <1>3, <2>1, <2>4
<1>6. req \subseteq Existing
  <2>1. req \subseteq Containers
    BY <1>1, CommandFacts
  <2> QED BY <1>5, <2>1 DEF Existing
<1>7. CASE ArgsRaise(f, c)
  <2>1. Ends(p, "error")
    BY <1>7 DEF CreateContainer
  <2> QED BY <1>1, <2>1, EndsFields DEF Finished
<1>8. CASE ~ ArgsRaise(f, c)
  <2>1. PodmanCreateIn(c, req, f.config, nets, dirs, vols)
    BY <1>8 DEF CreateContainer
  <2> HIDE DEF i, f, c, n, nets, dirs, vols, req
  <2>2. CASE Exists(c)
    <3>1. UNCHANGED <<store, objects>>
      BY <2>1, <2>2 DEF PodmanCreateIn, Creatable
    <3> QED BY <1>3, <2>2, <3>1 DEF store, objects, Existing, Exists, c, f, i
  <2>3. CASE ~ Exists(c)
    <3>1. Creatable(c, req)
      BY <1>6, <2>3 DEF Creatable
    <3>2. PodmanCreate(c, req, f.config) /\ pod' = pod
      BY <1>3, <1>4, <2>1, <3>1 DEF PodmanCreateIn
    <3>3. /\ ctr' = [ctr EXCEPT ![c] = "created"] /\ config' = [config EXCEPT ![c] = f.config]
      BY <3>1, <3>2 DEF PodmanCreate
    <3>4. ctr'[c] # "absent" /\ \A d \in Existing' : config'[d] = f.config
      BY <1>2, <1>3, <3>3 DEF Existing, Exists, TypeOK, StoreTypeOK
    <3> QED BY <1>3, <3>2, <3>4 DEF c, f, i
  <2> QED BY <2>2, <2>3
<1> QED BY <1>7, <1>8

LEMMA UpStep ==
  ASSUME TypeOK, ControlInv, NEW p \in Procs, DownAt(p), UpAt(p), Step(p)
  PROVE  UpAt(p)'
<1> DEFINE order == Cmd(p).stack.order
           n == proc[p].idx
<1>1. /\ Active(p) /\ Cmd(p) \in Commands /\ proc \in [Procs -> Process] /\ ControlAt(p)
      /\ proc'[p].cmd = proc[p].cmd /\ n \in Nat /\ order \in Seq(Containers)
      /\ Cmd(p)' = Cmd(p)
  BY StepIsActive, OwnKept, CommandFacts DEF TypeOK, ControlInv, ControlAt, Process, Cmd
<1>2. AssertedAt(p)'
  BY OwnAsserted DEF UpAt
<1>3. CASE proc'[p].pc \notin {"pod", "make_pod", "done", "transfer"} \cup Creating
  BY <1>2, <1>3 DEF UpAt, At, Creating
<1>4. CASE proc[p].pc \notin {"pod", "make_pod"} \cup Creating
  <2>1. \/ proc'[p].pc \notin {"pod", "make_pod", "done", "transfer"} \cup Creating
        \/ At(p, "transfer") /\ proc'[p].pc \in {"transfer", "done"}
        \/ Cmd(p).op # "up" /\ proc'[p].pc = "done"
        \/ /\ Cmd(p).op = "up" /\ proc'[p].pc = "pod" /\ UNCHANGED store
           /\ proc[p].pc \in Cleared \/ Excludes(Cmd(p))
    <3>1. CASE \E t \in Calls \X Containers : Task(p, t)
      <4>1. proc'[p].pc = proc[p].pc
        BY <1>1, <3>1, TaskFields
      <4> QED BY <1>1, <1>4, <4>1 DEF Active, Finished, At
    <3>2. CASE TasksEnd(p) \/ RmContainer(p) \/ RmEnds(p) \/ ListVolumes(p) \/ RmPod(p)
                 \/ ListNetworks(p)
      <4>1. \/ At(p, "transfer") /\ proc'[p].pc = "done"
            \/ proc'[p].pc \in {"rm", "orphans", "ls_volumes", "rm_volumes",
                                "ls_networks", "rm_networks"}
        BY <1>1, <3>2, GoesOn, EndsFields
           DEF TasksEnd, RmContainer, RmEnds, ListVolumes, RmPod, ListNetworks, Moving,
               Finished, At
      <4> QED BY <4>1 DEF Creating
    <3>3. CASE \E r \in Objects : RmObject(p, r)
      <4>1. PICK r \in Objects : proc'[p] = [proc[p] EXCEPT !.names = @ \ {r}]
        BY <3>3 DEF RmObject
      <4>2. proc'[p].pc = proc[p].pc
        BY <1>1, <4>1 DEF Process
      <4> QED BY <1>1, <1>4, <4>2 DEF Active, Finished, At
    <3>4. CASE VolumesRemoved(p) \/ NetworksRemoved(p)
      <4>1. \/ proc'[p].pc = "rm_pod"
            \/ /\ IF Cmd(p).op = "up" THEN proc'[p].pc = "pod" ELSE proc'[p].pc = "done"
               /\ At(p, "rm_networks") \/ Excludes(Cmd(p))
        BY <1>1, <3>4, GoesOn, EndsFields
           DEF VolumesRemoved, NetworksRemoved, AfterDown, Moving, Finished
      <4>2. UNCHANGED store
        BY <3>4 DEF VolumesRemoved, NetworksRemoved
      <4> QED BY <4>1, <4>2 DEF Creating, At, Cleared
    <3> QED BY <1>4, <3>1, <3>2, <3>3, <3>4, StageSteps DEF Creating, At
  <2>2. CASE Cmd(p).op # "up" /\ proc'[p].pc \in {"transfer", "done"}
    BY <1>1, <1>2, <2>2 DEF UpAt, Whole, At, Creating
  <2>3. CASE /\ Cmd(p).op = "up" /\ proc'[p].pc = "pod" /\ UNCHANGED store
             /\ proc[p].pc \in Cleared \/ Excludes(Cmd(p))
    <3>1. Whole(p)' => Existing' = {}
      <4>1. SUFFICES ASSUME Whole(p)' PROVE Existing' = {}
        OBVIOUS
      <4>2. Existing' = Existing
        BY <2>3 DEF Existing, Exists, store
      <4>3. ~ Excludes(Cmd(p)) /\ Existing \subseteq Included(Cmd(p))
        BY <1>1, <4>1, <4>2 DEF Whole
      <4> QED BY <2>3, <4>2, <4>3 DEF DownAt
    <3> QED BY <1>1, <1>2, <2>3, <3>1 DEF UpAt, At, Creating
  <2> QED BY <1>3, <2>1, <2>2, <2>3 DEF UpAt
<1>5. ASSUME proc[p].pc \in {"pod", "make_pod"} \cup Creating, Whole(p)' PROVE Whole(p)
  BY <1>1, <1>5, NoContainerGoes DEF Whole
<1>6. proc[p].pc \in {"pod", "make_pod"} \cup Creating => Cmd(p).op = "up"
  BY DEF UpAt
<1>7. CASE PodExists(p) \/ MakePod(p)
  <2>1. /\ proc[p].pc \in {"pod", "make_pod"} /\ UNCHANGED store
    BY <1>7 DEF PodExists, MakePod, At
  <2>2. Whole(p)' => \A c \in Existing' : config'[c] = Cmd(p).stack.config
    BY <1>5, <2>1 DEF UpAt, Existing, Exists, store
  <2>3. CASE ToContainer(p, 1) /\ pod'
    <3>1. \A k \in 1..(1 - 1) : FALSE
      OBVIOUS
    <3> QED BY <1>1, <1>2, <1>6, <2>1, <2>2, <2>3, <3>1, WholeGoesOn
  <2>4. CASE Goes(p, [pc |-> "make_pod"])
    <3>1. proc'[p].pc = "make_pod"
      BY <1>1, <2>4, GoesOn DEF Moving
    <3> QED BY <1>1, <1>2, <1>6, <2>1, <2>2, <3>1 DEF UpAt, At, Creating
  <2> QED BY <1>7, <2>3, <2>4 DEF PodExists, MakePod, objects
<1>8. CASE Inspect(p) \/ Make(p) \/ Recheck(p)
  <2>1. /\ UNCHANGED <<store, pod>> /\ proc[p].pc \in Creating
    BY <1>8 DEF Inspect, Make, Recheck, At, Creating, objects
  <2>2. \/ proc'[p].pc = "error"
        \/ proc'[p].pc \in {"inspect", "make", "recheck"} /\ proc'[p].idx = n
    BY <1>1, <1>8, GoesOn, EndsFields DEF Inspect, Make, Recheck, NextNeed, Moving, Finished,
       At
  <2>3. Whole(p)' => /\ \A c \in Existing' : config'[c] = Cmd(p).stack.config
                     /\ pod' /\ \A k \in 1..(n - 1) : ctr'[order[k]] # "absent"
    BY <1>5, <2>1 DEF UpAt, Existing, Exists, store
  <2> QED BY <1>1, <1>2, <1>3, <1>6, <2>1, <2>2, <2>3 DEF UpAt, At, Creating, Exists
<1>9. CASE CreateContainer(p) \/ StartContainer(p)
  <2>1. proc[p].pc \in Creating /\ n \in DOMAIN order /\ Current(p) = order[n]
    BY <1>1, <1>9 DEF ControlAt, CreateContainer, StartContainer, At, Creating, Current
  <2>2. n \in Nat \ {0} /\ n + 1 \in Nat \ {0}
    BY <1>1, <2>1
  <2>3. Whole(p)' => \A k \in 1..(n - 1) : ctr'[order[k]] # "absent"
    <3> SUFFICES ASSUME Whole(p)', NEW k \in 1..(n - 1) PROVE ctr'[order[k]] # "absent"
      OBVIOUS
    <3>1. Exists(order[k])
      BY <1>5, <2>1 DEF UpAt
    <3>2. order[k] \in Containers
      BY <1>1, <2>1
    <3>3. order[k] \in Existing'
      BY <2>1, <3>1, <3>2, NoContainerGoes DEF Existing
    <3> QED BY <3>3 DEF Existing, Exists
  <2>4. \/ proc'[p].pc = "error"
        \/ Whole(p)' => /\ ctr'[order[n]] # "absent" /\ pod'
                        /\ \A c \in Existing' : config'[c] = Cmd(p).stack.config
    <3>1. CASE CreateContainer(p)
      BY <1>5, <2>1, <3>1, CreateSucceeds
    <3>2. CASE StartContainer(p)
      <4>1. UNCHANGED <<config, pod>> /\ At(p, "start")
        BY <3>2 DEF StartContainer, PodmanStart, objects
      <4>2. \A d \in Containers : Exists(d)' => Exists(d)
        BY <3>2, NoContainerAppears DEF StartContainer, CreateContainer, At
      <4>3. Existing' \subseteq Existing
        BY <4>2 DEF Existing
      <4>4. order[n] \in Containers
        BY <1>1, <2>1
      <4>5. Exists(order[n]) /\ Whole(p) => order[n] \in Existing'
        BY <2>1, <4>4, NoContainerGoes DEF Existing
      <4> QED BY <1>5, <2>1, <4>1, <4>3, <4>5 DEF UpAt, Existing, Exists
    <3> QED BY <1>9, <3>1, <3>2
  <2>5. Whole(p)' /\ proc'[p].pc # "error" =>
          \A k \in 1..((n + 1) - 1) : ctr'[order[k]] # "absent"
    <3> SUFFICES ASSUME Whole(p)', proc'[p].pc # "error", NEW k \in 1..((n + 1) - 1)
                 PROVE  ctr'[order[k]] # "absent"
      OBVIOUS
    <3>1. k = n \/ k \in 1..(n - 1)
      BY <2>2
    <3> QED BY <2>3, <2>4, <3>1
  <2>6. CASE proc'[p].pc = "error"
    BY <1>3, <2>6 DEF Creating
  <2>7. CASE ToContainer(p, n + 1) /\ proc'[p].pc # "error"
    BY <1>1, <1>2, <1>6, <2>1, <2>2, <2>4, <2>5, <2>7, WholeGoesOn
  <2>8. CASE Goes(p, [pc |-> "start"]) /\ CreateContainer(p)
    <3>1. proc'[p].pc = "start" /\ proc'[p].idx = n
      BY <1>1, <2>8, GoesOn DEF Moving
    <3> QED BY <1>1, <1>2, <1>6, <2>1, <2>3, <2>4, <3>1
            DEF UpAt, At, Creating, Current, Exists, Cmd
  <2>9. CASE Ends(p, "error")
    BY <1>1, <2>6, <2>9, EndsFields DEF Finished
  <2> QED BY <1>9, <2>6, <2>7, <2>8, <2>9 DEF CreateContainer, StartContainer
<1> QED BY <1>4, <1>7, <1>8, <1>9, StageSteps DEF Creating, At

LEMMA UpBegins ==
  ASSUME TypeOK, NEW p \in Procs, NEW i \in Commands, Begin(p, i)
  PROVE  UpAt(p)'
<1>1. /\ proc'[p].cmd = i /\ proc'[p].pc = First(i).pc /\ UNCHANGED store
  BY BeginFields DEF Begin
<1>2. First(i).pc \in {"error", "transfer", "stop", "pod"}
      /\ (First(i).pc = "transfer" => i.op # "up")
      /\ (First(i).pc = "pod" => i.op = "up" /\ ~ Recreates(i))
  BY FirstStage DEF Transfers
<1>3. ~ Recreates(i) => \A c \in Existing' : config'[c] = i.stack.config
  BY <1>1 DEF Recreates, Existing, Exists, store
<1> QED BY <1>1, <1>2, <1>3 DEF UpAt, AssertedAt, At, Cmd, Creating

LEMMA UpInvStep ==
  ASSUME TypeOK, ControlInv, AloneInv, DownInv, UpInv, [Next]_vars
  PROVE  UpInv'
<1> SUFFICES ASSUME NEW p \in Procs, Alone(p)' PROVE UpAt(p)'
  BY DEF UpInv
<1>1. CASE \E i \in Commands : Begin(p, i)
  BY <1>1, UpBegins
<1>2. CASE Alone(p) /\ Step(p)
  BY <1>2, UpStep DEF UpInv, DownInv
<1>3. CASE Alone(p) /\ proc'[p] = proc[p] /\ UNCHANGED <<store, objects>>
  <2>1. proc'[p] = proc[p] /\ ctr' = ctr /\ config' = config /\ obj' = obj /\ pod' = pod
    BY <1>3 DEF store, objects
  <2>2. AssertedAt(p)' <=> AssertedAt(p)
    BY <2>1 DEF AssertedAt, Needs, Current, Cmd, Present
  <2>3. (Whole(p)' <=> Whole(p)) /\ Existing' = Existing /\ \A c : Exists(c)' <=> Exists(c)
    BY <2>1 DEF Whole, Cmd, Existing, Exists
  <2>4. Cmd(p)' = Cmd(p) /\ Current(p)' = Current(p) /\ \A k : At(p, k)' <=> At(p, k)
    BY <2>1 DEF Current, Cmd, At
  <2>5. UpAt(p)
    BY <1>3 DEF UpInv
  <2> HIDE DEF UpInv
  <2> QED BY <2>1, <2>2, <2>3, <2>4, <2>5 DEF UpAt
<1> QED BY <1>1, <1>2, <1>3, AloneCases

(* What up starts, and what it has come to, is there and of this file.     *)
THEOREM UpCompletesTheorem == Spec => []UpCompletes
<1>1. Init => UpInv
  BY DEF Init, Idle, UpInv, Alone, Cmd
<1>2. TypeOK /\ ControlInv /\ AloneInv /\ DownInv /\ UpInv /\ [Next]_vars => UpInv'
  BY UpInvStep
<1>3. TypeOK /\ ControlInv /\ StoreInv /\ UpInv => UpCompletes
  <2> SUFFICES ASSUME TypeOK, ControlInv, StoreInv, UpInv, NEW p \in Procs, Alone(p),
                      ~ Excludes(Cmd(p)), Existing \subseteq Included(Cmd(p)),
                      Assertable(Cmd(p).stack),
                      NEW c, \/ /\ At(p, "start")
                                /\ c \in {Current(p)} \cup NamesOf(DepsOf(Cmd(p), Current(p)))
                             \/ At(p, "done") /\ Cmd(p).op = "up" /\ c \in Included(Cmd(p))
               PROVE  /\ Exists(c) /\ config[c] = Cmd(p).stack.config
                      /\ \A r \in Uses(Cmd(p).stack, c) : Present(r)
    BY DEF UpCompletes, Alone, At
  <2> DEFINE f == Cmd(p).stack
             order == f.order
             n == proc[p].idx
  <2>1. UpAt(p) /\ Whole(p)
    BY DEF UpInv, UpAt, Whole, At, Creating
  <2>2. Exists(c) /\ c \in Members(f)
    <3>1. CASE At(p, "done")
      <4>1. Included(Cmd(p)) = Members(f)
        BY DEF Excludes
      <4> QED BY <2>1, <3>1, <4>1 DEF UpAt, At
    <3>2. CASE At(p, "start")
      <4>1. /\ Cmd(p) \in Commands /\ ~ ParsingRaises(f) /\ n \in DOMAIN order
            /\ Current(p) = order[n] /\ Current(p) \in Members(f)
        BY <3>2, CommandFacts
           DEF ControlInv, ControlAt, Active, Finished, Creating, At, Current, Members
      <4>2. ParsedStack(f) /\ order \in Seq(Containers)
        BY <4>1, CommandFacts, ResourcesAssumption DEF Files
      <4>3. CASE c = Current(p)
        BY <2>1, <3>2, <4>1, <4>3 DEF UpAt
      <4>4. CASE c \in NamesOf(DepsOf(Cmd(p), Current(p)))
        <5>1. c \in NamesOf(f.deps[Current(p)])
          BY <4>4 DEF DepsOf, NamesOf
        <5>2. c \in Members(f)
          BY <4>1, <5>1 DEF Assertable
        <5>3. PICK j \in DOMAIN order : c = order[j]
          BY <5>2 DEF Members
        <5>4. j < n
          BY <4>1, <4>2, <5>1, <5>3 DEF ParsedStack, Topological
        <5>5. j \in 1..(n - 1)
          BY <4>1, <4>2, <5>3, <5>4
        <5> QED BY <2>1, <3>2, <5>2, <5>3, <5>5 DEF UpAt, Creating, At
      <4> QED BY <3>2, <4>3, <4>4 DEF At
    <3> QED BY <3>1, <3>2
  <2>3. c \in Existing
    <3>1. Included(Cmd(p)) = Members(f)
      BY DEF Excludes
    <3>2. Cmd(p) \in Commands \cup {None} /\ Cmd(p) # None
      BY DEF TypeOK, Process, Cmd, Alone
    <3> QED BY <2>2, <3>2, CommandFacts DEF Existing
  <2>4. config[c] = f.config
    BY <2>1, <2>3 DEF UpAt, Creating, At
  <2>5. \A r \in Uses(f, c) : Present(r)
    <3>1. PICK g \in Files : config[c] = g.config /\ \A r \in Uses(g, c) : Present(r)
      BY <2>3 DEF StoreInv, UsesInv
    <3>2. Cmd(p) \in Commands \cup {None} /\ Cmd(p) # None
      BY DEF TypeOK, Process, Cmd, Alone
    <3>3. f \in Files
      BY <3>2 DEF Files
    <3> QED BY <2>4, <3>1, <3>3, ResourcesAssumption
  <2> QED BY <2>2, <2>4, <2>5
<1> QED BY <1>1, <1>2, <1>3, Control, AloneHolds, StoreHolds, DownHolds, PTL DEF Spec
=============================================================================
