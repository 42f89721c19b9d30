---------------------------- MODULE ImagesProofs ----------------------------
(***************************************************************************)
(* Proofs about Images, for every set of containers, images and commands   *)
(* and every number of permits.                                            *)
(*                                                                         *)
(* The argument for the status: a task that is done either had nothing to  *)
(* do, or failed, or left an image of the current sources, and later       *)
(* builds of the same image take nothing of that away (DoneInv); the       *)
(* status tells of the failures among those that were collected, and at    *)
(* the end all were (CollectInv).  The argument for the temporary files:   *)
(* a containerfile is there while its build is under way, and the end of   *)
(* podman build removes it (TempInv).                                      *)
(***************************************************************************)
EXTENDS Images, FiniteSetTheorems, TLAPS

(* Which command main is at. *)
MainInv ==
  /\ main # "idle" => cmd \in Commands
  /\ main = "gather" => cmd.op \in {"build", "up"} /\ tasks \subseteq ToBuild(cmd)
  /\ main \in {"pull", "push"} => cmd.op = main
  /\ main = "push on" => cmd.op = "push"
  /\ main = "idle" \/ cmd.op \in {"pull", "push"} =>
       \A c \in Containers : task[c] = "none" /\ result[c] = None
  /\ main = "returned" => tasks = {}

(* Which tasks there are, and what the status knows of them. *)
CollectInv ==
  /\ \A c \in Containers : result[c] # None => task[c] = "done"
  /\ main \in {"gather", "returned"} /\ cmd.op \in {"build", "up"} =>
       /\ \A c \in Containers \ tasks : task[c] = IF c \in ToBuild(cmd) THEN "done" ELSE "none"
       /\ status = 1 <=> \E c \in Containers \ tasks : result[c] = 1
  /\ \A c \in Containers : task[c] = "cancelled" => main \in {"raised", "interrupted"}

(* What a task that is done has come to. *)
DoneInv ==
  \A c \in Containers : task[c] = "done" =>
    \/ ~ Of(c).build
    \/ result[c] = 1
    \/ /\ image[Of(c).image] # None
       /\ IfNotExists \/ image[Of(c).image] = sources[Of(c).image]

(* Where containerfiles are. *)
TempInv ==
  \A c \in temp :
    \/ task[c] \in {"queued", "building", "terminating", "cancelled"}
    \/ task[c] = "raised" /\ Of(c).wrong = "late"

Inv == TypeOK /\ MainInv /\ CollectInv /\ DoneInv /\ TempInv

-----------------------------------------------------------------------------
(* What the commands are like. *)
LEMMA CommandFacts ==
  ASSUME NEW i \in Commands
  PROVE  /\ i.op \in {"build", "up", "pull", "push"} /\ i.limit \in Nat \ {0}
         /\ \A c \in Containers : /\ i.stack[c].image \in ImageNames
                                  /\ i.stack[c].build \in BOOLEAN
                                  /\ i.stack[c].wrong \in {"no", "early", "late"}
         /\ ToBuild(i) \subseteq Containers /\ ToPush(i) \subseteq Containers
         /\ ToPull(i) \subseteq ImageNames
<1>1. /\ i.op \in {"build", "up", "pull", "push"} /\ i.limit \in Nat \ {0}
      /\ i.stack \in [Containers -> Desc]
  BY ImagesAssumption
<1>2. \A c \in Containers : /\ i.stack[c].image \in ImageNames
                            /\ i.stack[c].build \in BOOLEAN
                            /\ i.stack[c].wrong \in {"no", "early", "late"}
  BY <1>1 DEF Desc
<1>3. Named(i) \subseteq Containers
  BY DEF Named
<1>4. ToBuild(i) \subseteq Containers /\ ToPush(i) \subseteq Containers
  BY <1>3 DEF ToBuild, ToPush
<1>5. ToPull(i) \subseteq ImageNames
  BY <1>2, <1>3 DEF ToPull
<1> QED BY <1>1, <1>2, <1>4, <1>5

LEMMA Beginning == Init => Inv
<1> SUFFICES ASSUME Init PROVE Inv
  OBVIOUS
<1>1. TypeOK
  BY DEF Init, TypeOK, Over, Ended
<1>2. MainInv /\ CollectInv /\ DoneInv /\ TempInv
  BY DEF Init, MainInv, CollectInv, DoneInv, TempInv
<1> QED BY <1>1, <1>2 DEF Inv

(* Permits are counted by tasks that run podman.                           *)
LEMMA BuildingFacts ==
  ASSUME TypeOK
  PROVE  IsFiniteSet(Building) /\ Cardinality(Building) \in Nat
<1>1. Building \subseteq Containers /\ IsFiniteSet(Containers)
  BY ImagesAssumption DEF Building
<1> QED BY <1>1, FS_Subset, FS_CardinalityType

LEMMA BeginStep ==
  ASSUME Inv, NEW i \in Commands, Begin(i)
  PROVE  Inv'
<1>1. PICK changed \in SUBSET ImageNames, v \in Versions :
        sources' = [m \in ImageNames |-> IF m \in changed THEN v ELSE sources[m]]
  BY DEF Begin
<1>2. /\ cmd' = i /\ status' = 0 /\ temp' = {} /\ image' = image
      /\ result' = [c \in Containers |-> None]
  BY DEF Begin
<1>3. \/ /\ i.op \in {"build", "up"} /\ main' \in {"raised", "gather"}
         /\ tasks' = IF main' = "raised" THEN {} ELSE ToBuild(i)
         /\ task' = [c \in Containers |-> IF c \in tasks' THEN "begin" ELSE "none"]
      \/ /\ i.op \in {"pull", "push"} /\ main' = i.op
         /\ tasks' = IF i.op = "pull" THEN ToPull(i) ELSE ToPush(i)
         /\ task' = [c \in Containers |-> "none"]
  BY CommandFacts DEF Begin
<1>4. \A c \in Containers : task'[c] \in {"begin", "none"} /\ (c \notin tasks' => task'[c] = "none")
  BY <1>3
<1>5. TypeOK'
  <2>1. sources' \in [ImageNames -> Versions]
    BY <1>1 DEF Inv, TypeOK
  <2>2. task' \in [Containers -> Over \cup {"begin", "queued", "building", "terminating"}]
    BY <1>3 DEF Over
  <2>3. tasks' \subseteq Containers \cup ImageNames /\ main' \in Ended \cup {"gather", "pull", "push"}
    BY <1>3, CommandFacts DEF Ended
  <2>4. Cardinality(Building') <= i.limit
    <3>1. Building' = {}
      BY <1>4 DEF Building
    <3> QED BY <3>1, FS_EmptySet, CommandFacts
  <2> QED BY <1>2, <2>1, <2>2, <2>3, <2>4 DEF Inv, TypeOK
<1>6. MainInv'
  BY <1>2, <1>3, CommandFacts DEF MainInv
<1>7. CollectInv'
  <2>1. status' = 0 /\ \A c \in Containers : result'[c] # 1 /\ result'[c] = None
    BY <1>2, ImagesAssumption
  <2>2. main' \in {"gather", "returned"} =>
          \A c \in Containers \ tasks' : c \notin ToBuild(i) /\ task'[c] = "none"
    BY <1>3, <1>4
  <2> QED BY <1>2, <1>4, <2>1, <2>2 DEF CollectInv
<1>8. DoneInv' /\ TempInv'
  BY <1>2, <1>4 DEF DoneInv, TempInv
<1> QED BY <1>5, <1>6, <1>7, <1>8 DEF Inv

(* A task has started, so main is at a build.                              *)
LEMMA AtBuild ==
  ASSUME Inv, NEW c \in Containers, task[c] # "none"
  PROVE  cmd \in Commands /\ cmd.op \in {"build", "up"}
BY CommandFacts DEF Inv, MainInv

LEMMA PrepareStep ==
  ASSUME Inv, NEW c \in Containers, Prepare(c)
  PROVE  Inv'
<1>1. /\ task[c] = "begin" /\ cmd \in Commands /\ cmd.op \in {"build", "up"}
      /\ UNCHANGED <<sources, image, cmd, main, result, tasks, status>>
  BY AtBuild DEF Prepare
<1>2. \/ /\ task' = [task EXCEPT ![c] = "done"] /\ temp' = temp
         /\ ~ Of(c).build \/ (IfNotExists /\ image[Of(c).image] # None)
      \/ /\ task' = [task EXCEPT ![c] = "queued"] /\ temp' \subseteq temp \cup {c}
         /\ Of(c).wrong = "no"
      \/ /\ task' = [task EXCEPT ![c] = "raised"] /\ temp' \subseteq temp \cup {c}
         /\ c \in temp' => c \in temp \/ Of(c).wrong = "late"
  BY <1>1, CommandFacts DEF Prepare, Of
<1>3. c \notin temp /\ result[c] = None
  BY <1>1 DEF Inv, TempInv, CollectInv
<1>4. /\ task' \in [Containers -> Over \cup {"begin", "queued", "building", "terminating"}]
      /\ task'[c] \in {"done", "queued", "raised"}
      /\ \A d \in Containers \ {c} : task'[d] = task[d]
  BY <1>2 DEF Inv, TypeOK, Over
<1>5. TypeOK'
  <2>1. Building' = Building
    BY <1>1, <1>4 DEF Building
  <2>2. temp' \subseteq Containers
    BY <1>2 DEF Inv, TypeOK
  <2> QED BY <1>1, <1>4, <2>1, <2>2 DEF Inv, TypeOK
<1>6. MainInv'
  BY <1>1, <1>4 DEF Inv, MainInv
<1>7. CollectInv'
  <2>1. main \in {"gather", "returned"} => c \in tasks
    BY <1>1 DEF Inv, CollectInv
  <2> QED BY <1>1, <1>3, <1>4, <2>1 DEF Inv, CollectInv
<1>8. DoneInv'
  BY <1>1, <1>2, <1>4 DEF Inv, DoneInv, Of, IfNotExists
<1>9. TempInv'
  <2>1. temp \subseteq Containers /\ cmd' = cmd /\ main' = main /\ TempInv
    BY <1>1 DEF Inv, TypeOK
  <2> QED BY <1>2, <1>3, <1>4, <2>1 DEF TempInv, Of
<1> QED BY <1>5, <1>6, <1>7, <1>8, <1>9 DEF Inv

LEMMA BuildStartsStep ==
  ASSUME Inv, NEW c \in Containers, BuildStarts(c)
  PROVE  Inv'
<1>1. /\ task[c] = "queued" /\ task' = [task EXCEPT ![c] = "building"]
      /\ cmd \in Commands /\ cmd.op \in {"build", "up"} /\ Cardinality(Building) < cmd.limit
      /\ UNCHANGED <<sources, image, cmd, main, result, tasks, status, temp>>
  BY AtBuild DEF BuildStarts, Permit
<1>2. /\ task' \in [Containers -> Over \cup {"begin", "queued", "building", "terminating"}]
      /\ task'[c] = "building" /\ \A d \in Containers \ {c} : task'[d] = task[d]
  BY <1>1 DEF Inv, TypeOK, Over
<1>3. TypeOK'
  <2>1. Building' = Building \cup {c} /\ c \notin Building
    BY <1>1, <1>2 DEF Building
  <2>2. Cardinality(Building') = Cardinality(Building) + 1
    BY <2>1, BuildingFacts, FS_AddElement DEF Inv
  <2>3. Cardinality(Building') <= cmd'.limit
    BY <1>1, <2>2, BuildingFacts, CommandFacts DEF Inv
  <2> QED BY <1>1, <1>2, <2>3 DEF Inv, TypeOK
<1>4. MainInv' /\ DoneInv' /\ TempInv'
  <2>1. MainInv'
    BY <1>1 DEF Inv, MainInv
  <2>2. DoneInv'
    BY <1>1, <1>2 DEF Inv, DoneInv, Of, IfNotExists
  <2>3. temp \subseteq Containers /\ TempInv
    BY DEF Inv, TypeOK
  <2>4. TempInv'
    BY <1>1, <1>2, <2>3 DEF TempInv, Of
  <2> QED BY <2>1, <2>2, <2>4
<1>5. CollectInv'
  <2>1. (main \in {"gather", "returned"} => c \in tasks) /\ result[c] = None
    BY <1>1 DEF Inv, CollectInv
  <2> QED BY <1>1, <1>2, <2>1 DEF Inv, CollectInv
<1> QED BY <1>3, <1>4, <1>5 DEF Inv

LEMMA BuildEndsStep ==
  ASSUME Inv, NEW c \in Containers, BuildEnds(c)
  PROVE  Inv'
<1>1. PICK ok \in BOOLEAN :
        /\ image' = IF ok THEN [image EXCEPT ![Of(c).image] = sources[Of(c).image]] ELSE image
        /\ result' = [result EXCEPT ![c] = IF ok THEN 0 ELSE 1]
  BY DEF BuildEnds
<1>2. /\ task[c] \in {"building", "terminating"} /\ task' = [task EXCEPT ![c] = "done"]
      /\ temp' = temp \ {c} /\ cmd \in Commands /\ cmd.op \in {"build", "up"}
      /\ UNCHANGED <<sources, cmd, main, tasks, status>>
  BY AtBuild DEF BuildEnds
<1>3. /\ task' \in [Containers -> Over \cup {"begin", "queued", "building", "terminating"}]
      /\ task'[c] = "done" /\ \A d \in Containers \ {c} : task'[d] = task[d]
  BY <1>2 DEF Inv, TypeOK, Over
<1>4. /\ result' \in [Containers -> {None, 0, 1}] /\ result'[c] = IF ok THEN 0 ELSE 1
      /\ \A d \in Containers \ {c} : result'[d] = result[d]
  BY <1>1 DEF Inv, TypeOK
<1>5. Of(c).image \in ImageNames /\ sources[Of(c).image] \in Versions
  BY <1>2, CommandFacts DEF Of, Inv, TypeOK
<1>6. /\ image' \in [ImageNames -> Versions \cup {None}]
      /\ \A m \in ImageNames : image'[m] \in {image[m], sources[m]}
      /\ ok => image'[Of(c).image] = sources[Of(c).image]
  BY <1>1, <1>5 DEF Inv, TypeOK
<1>7. TypeOK'
  <2>1. Building' \subseteq Building
    BY <1>3 DEF Building
  <2>2. Cardinality(Building') <= Cardinality(Building) /\ Cardinality(Building') \in Nat
    BY <2>1, BuildingFacts, FS_Subset, FS_CardinalityType DEF Inv
  <2>3. cmd' # None => Cardinality(Building') <= cmd'.limit
    <3>1. cmd # None => Cardinality(Building) <= cmd.limit
      BY DEF Inv, TypeOK
    <3>2. cmd' = cmd /\ cmd.limit \in Nat /\ Cardinality(Building) \in Nat
      BY <1>2, BuildingFacts, CommandFacts DEF Inv
    <3> QED BY <2>2, <3>1, <3>2
  <2> QED BY <1>2, <1>3, <1>4, <1>6, <2>3 DEF Inv, TypeOK
<1>8. MainInv'
  BY <1>2, <1>3, <1>4 DEF Inv, MainInv
<1>9. CollectInv'
  <2>1. main \in {"gather", "returned"} => c \in tasks
    BY <1>2 DEF Inv, CollectInv
  <2> QED BY <1>2, <1>3, <1>4, <2>1 DEF Inv, CollectInv
<1>10. DoneInv'
  <2> SUFFICES ASSUME NEW d \in Containers, task'[d] = "done"
               PROVE  \/ ~ Of(d).build
                      \/ result'[d] = 1
                      \/ /\ image'[Of(d).image] # None
                         /\ IfNotExists \/ image'[Of(d).image] = sources[Of(d).image]
    BY <1>2 DEF DoneInv, Of, IfNotExists
  <2>1. Of(d).image \in ImageNames /\ sources[Of(d).image] \in Versions
    BY <1>2, CommandFacts DEF Of, Inv, TypeOK
  <2>2. sources[Of(d).image] # None
    BY <2>1, ImagesAssumption
  <2>3. CASE d = c
    BY <1>4, <1>6, <2>2, <2>3
  <2>4. CASE d # c
    BY <1>3, <1>4, <1>6, <2>1, <2>2, <2>4 DEF Inv, DoneInv
  <2> QED BY <2>3, <2>4
<1>11. TempInv'
  BY <1>2, <1>3 DEF Inv, TempInv, Of, TypeOK
<1> QED BY <1>7, <1>8, <1>9, <1>10, <1>11 DEF Inv

(* Cancellation leaves alone what is over and what runs.                   *)
LEMMA CancelledFacts ==
  ASSUME Inv
  PROVE  /\ Cancelled \in [Containers -> Over \cup {"begin", "queued", "building", "terminating"}]
         /\ \A c \in Containers :
              /\ task[c] \in {"begin", "queued"} => Cancelled[c] = "cancelled"
              /\ task[c] = "building" => Cancelled[c] = "terminating"
              /\ task[c] \notin {"begin", "queued", "building"} => Cancelled[c] = task[c]
         /\ \A c \in Containers : Cancelled[c] \in {"building", "terminating"} <=>
                                  task[c] \in {"building", "terminating"}
<1>1. \A c \in Containers :
        /\ task[c] \in {"begin", "queued"} => Cancelled[c] = "cancelled"
        /\ task[c] = "building" => Cancelled[c] = "terminating"
        /\ task[c] \notin {"begin", "queued", "building"} => Cancelled[c] = task[c]
  BY DEF Cancelled
<1>2. \A c \in Containers :
        task[c] \in Over \cup {"begin", "queued", "building", "terminating"}
  BY DEF Inv, TypeOK
<1>3. Cancelled = [c \in Containers |-> Cancelled[c]]
  BY DEF Cancelled
<1>4. \A c \in Containers :
        Cancelled[c] \in Over \cup {"begin", "queued", "building", "terminating"}
  BY <1>1, <1>2 DEF Over
<1>5. Cancelled \in [Containers -> Over \cup {"begin", "queued", "building", "terminating"}]
  BY <1>3, <1>4
<1> QED BY <1>1, <1>5

(* main is left by an exception.                                           *)
LEMMA CancelStep ==
  ASSUME Inv, main \notin Ended, main' \in {"raised", "interrupted"}, task' = Cancelled,
         tasks' \subseteq tasks, status' \in {0, 1},
         UNCHANGED <<sources, image, cmd, result, temp>>
  PROVE  Inv'
<1>1. cmd \in Commands
  BY DEF Inv, MainInv, Ended
<1>2. TypeOK'
  <2>1. Building' = Building
    BY CancelledFacts DEF Building
  <2> QED BY <2>1, CancelledFacts DEF Inv, TypeOK, Ended
<1>3. MainInv'
  BY <1>1, CancelledFacts DEF Inv, MainInv
<1>4. CollectInv'
  BY CancelledFacts DEF Inv, CollectInv
<1>5. DoneInv'
  BY CancelledFacts DEF Inv, DoneInv, Of, IfNotExists
<1>6. TempInv'
  BY CancelledFacts DEF Inv, TempInv, Of, TypeOK
<1> QED BY <1>2, <1>3, <1>4, <1>5, <1>6 DEF Inv

LEMMA CollectStep ==
  ASSUME Inv, NEW c \in Containers, Collect(c)
  PROVE  Inv'
<1>1. /\ main = "gather" /\ c \in tasks /\ task[c] \in {"done", "raised"}
      /\ tasks' = tasks \ {c} /\ status' = StatusAfter(c)
      /\ UNCHANGED <<sources, image, cmd, result, temp>>
  BY DEF Collect
<1>2. /\ status' \in {0, 1} /\ result[c] \in {None, 0, 1}
      /\ status' = 1 <=> result[c] = 1 \/ status = 1
  BY <1>1, ImagesAssumption DEF StatusAfter, Inv, TypeOK
<1>3. CASE task[c] = "raised"
  BY <1>1, <1>2, <1>3, CancelStep DEF Collect, Ended
<1>4. CASE task[c] = "done"
  <2>1. UNCHANGED <<main, task>>
    BY <1>4 DEF Collect
  <2>2. TypeOK'
    BY <1>1, <1>2, <2>1 DEF Inv, TypeOK, Building
  <2>3. MainInv' /\ DoneInv' /\ TempInv'
    BY <1>1, <2>1 DEF Inv, MainInv, DoneInv, TempInv, Of, IfNotExists
  <2>4. CollectInv'
    <3>1. c \in ToBuild(cmd) /\ ToBuild(cmd)' = ToBuild(cmd)
      BY <1>1 DEF Inv, MainInv, ToBuild, Named
    <3> QED BY <1>1, <1>2, <1>4, <2>1, <3>1 DEF Inv, CollectInv
  <2> QED BY <2>2, <2>3, <2>4 DEF Inv
<1> QED BY <1>1, <1>3, <1>4

LEMMA InterruptStep ==
  ASSUME Inv, Interrupt
  PROVE  Inv'
BY CancelStep DEF Interrupt, Inv, TypeOK

(* The rest of main. *)
LEMMA MainStep ==
  ASSUME Inv,
         GatherEnds \/ TransfersEnd \/ (\E c \in Containers : Push(c) \/ InterruptPush(c))
           \/ (\E m \in ImageNames : Pull(m))
  PROVE  Inv'
<1>1. CASE GatherEnds
  <2>1. TypeOK'
    BY <1>1 DEF GatherEnds, Inv, TypeOK, Building, Ended
  <2>2. MainInv' /\ CollectInv' /\ DoneInv' /\ TempInv'
    BY <1>1 DEF GatherEnds, Inv, MainInv, CollectInv, DoneInv, TempInv, Of, IfNotExists,
                ToBuild, Named
  <2> QED BY <2>1, <2>2 DEF Inv
<1>2. CASE \/ TransfersEnd \/ (\E m \in ImageNames : Pull(m))
           \/ \E c \in Containers : Push(c) \/ InterruptPush(c)
  <2>1. /\ main \in {"pull", "push", "push on"}
        /\ main' \in {main, "returned"} \/ (main = "push" /\ main' = "push on")
        /\ main' = "returned" => tasks' = {}
        /\ tasks' \subseteq tasks
        /\ UNCHANGED <<sources, cmd, task, result, status, temp>>
    BY <1>2 DEF TransfersEnd, Push, InterruptPush, Pull
  <2>2. image' \in [ImageNames -> Versions \cup {None}]
    <3>1. CASE image' = image
      BY <3>1 DEF Inv, TypeOK
    <3>2. CASE \E m \in ImageNames : Pull(m)
      BY <3>2 DEF Pull, Inv, TypeOK
    <3> QED BY <1>2, <3>1, <3>2 DEF TransfersEnd, Push, InterruptPush
  <2>3. TypeOK'
    BY <2>1, <2>2 DEF Inv, TypeOK, Building, Ended
  <2>4. cmd \in Commands /\ cmd.op \in {"pull", "push"}
        /\ \A c \in Containers : task[c] = "none" /\ result[c] = None
    BY <2>1 DEF Inv, MainInv
  <2>5. MainInv' /\ CollectInv' /\ DoneInv' /\ TempInv'
    BY <2>1, <2>4 DEF Inv, MainInv, CollectInv, DoneInv, TempInv, TypeOK, Of
  <2> QED BY <2>3, <2>5 DEF Inv
<1> QED BY <1>1, <1>2

LEMMA Stuttering == Inv /\ UNCHANGED vars => Inv'
<1> SUFFICES ASSUME Inv, UNCHANGED vars PROVE Inv'
  OBVIOUS
<1>1. TypeOK'
  BY DEF vars, control, Inv, TypeOK, Building
<1>2. MainInv' /\ CollectInv' /\ DoneInv' /\ TempInv'
  BY DEF vars, control, Inv, MainInv, CollectInv, DoneInv, TempInv, Of, IfNotExists,
         ToBuild, Named
<1> QED BY <1>1, <1>2 DEF Inv

LEMMA Invariance == Spec => []Inv
<1>1. Inv /\ [Next]_vars => Inv'
  BY BeginStep, PrepareStep, BuildStartsStep, BuildEndsStep, CollectStep, InterruptStep,
     MainStep, Stuttering DEF Next, TaskSteps, MainSteps
<1> QED BY <1>1, Beginning, PTL DEF Spec

-----------------------------------------------------------------------------
(* Types, and no more builds at once than permits.                         *)
THEOREM TypeCorrect == Spec => []TypeOK
BY Invariance, PTL DEF Inv

(* The exit status of build tells whether every podman build succeeded,    *)
(* and then the images asked for are there.                                *)
THEOREM StatusTellsTheorem == Spec => []StatusTells
<1>1. Inv => StatusTells
  <2> SUFFICES ASSUME Inv, Returned({"build", "up"})
               PROVE  IF \E c \in Containers : result[c] = 1 THEN status # 0
                      ELSE /\ status = 0
                           /\ \A c \in ToBuild(cmd) : Of(c).build =>
                                /\ image[Of(c).image] # None
                                /\ ~ IfNotExists =>
                                     image[Of(c).image] = sources[Of(c).image]
    BY DEF StatusTells
  <2>1. /\ main = "returned" /\ cmd.op \in {"build", "up"} /\ tasks = {} /\ cmd \in Commands
        /\ status \in {0, 1}
    BY DEF Returned, Inv, MainInv, TypeOK
  <2>2. status = 1 <=> \E c \in Containers : result[c] = 1
    BY <2>1 DEF Inv, CollectInv
  <2>3. \A c \in ToBuild(cmd) : c \in Containers /\ task[c] = "done"
    BY <2>1, CommandFacts DEF Inv, CollectInv
  <2> QED BY <2>1, <2>2, <2>3 DEF Inv, DoneInv
<1> QED BY <1>1, Invariance, PTL

(* Temporary containerfiles are left only for a cause.                     *)
THEOREM TempLeftForCauseTheorem == Spec => []TempLeftForCause
<1>1. Inv => TempLeftForCause
  BY DEF Inv, TempInv, CollectInv, TempLeftForCause, TypeOK
<1> QED BY <1>1, Invariance, PTL
=============================================================================
