--------------------------- MODULE InfractlProofs ---------------------------
(***************************************************************************)
(* Proofs about Infractl, for every set of infras, of prepare hooks and of *)
(* argument lists.                                                         *)
(*                                                                         *)
(* The argument for the files: what start brings up is named by the file   *)
(* it has just written (FilesInv), stop asks podman-compose for what the   *)
(* same file names, and it removes the file no sooner than podman-compose  *)
(* has ended, well or not.  Both files agree whenever something has been   *)
(* started since they were written, so the hooks are those of what was     *)
(* started.                                                                *)
(*                                                                         *)
(* The argument for the hooks: a directory is empty only between the two   *)
(* steps of its hook or for good once these were torn apart, and start     *)
(* turns to containers after the last hook (PrepareInv).                   *)
(***************************************************************************)
EXTENDS Infractl, TLAPS

(* Where the commands stand. *)
ControlInv ==
  /\ pc \in {"prepare", "write_active", "up", "post"} => op = "start"
  /\ pc \in {"hooks", "rm_compose_files", "rm_active_infras", "stopped"} => op = "stop"
  /\ pc = "down" => op \in {"start", "stop"}
  /\ todo \subseteq ToSet(target)
  /\ pc \in {"hooks", "rm_compose_files"} => todo = {}
  /\ op = "stop" /\ pc \in {"down", "hooks"} => compose_files # None \/ args # <<>>

(* What the files say about the containers. *)
FilesInv ==
  /\ compose_files # None => latest \subseteq Containers(compose_files)
  /\ compose_files = None => latest \cap running \subseteq left
  /\ op = "start" /\ pc \in {"write_active", "down", "up"} => compose_files = target
  /\ op = "start" /\ pc \in {"down", "up"} => active_infras = target
  /\ op = "stop" /\ pc \in {"down", "hooks", "rm_compose_files"} /\ compose_files # None =>
       target = compose_files
  /\ op = "stop" /\ pc \in {"hooks", "rm_compose_files"} =>
       Containers(target) \cap running \subseteq left
  /\ latest # {} /\ compose_files # None => active_infras = compose_files
  /\ pc = "rm_compose_files" => /\ compose_files # None
                                /\ {p[2] : p \in latest} \subseteq hooked
  /\ pc = "rm_active_infras" => compose_files = None

(* How far the hooks have come. *)
PrepareInv ==
  /\ \A i \in Infras : prepared[i] = "empty" <=> (seeding = i \/ i \in torn)
  /\ seeding # None => pc = "prepare" /\ seeding \in todo /\ seeding \notin torn
  /\ pc = "prepare" =>
       \A i \in ToSet(target) \cap Seeded : i \in todo \/ prepared[i] # "none"
  /\ op = "start" /\ pc \in {"write_active", "down", "up"} =>
       \A i \in ToSet(target) \cap Seeded : prepared[i] # "none"
  /\ \A p \in latest : p[2] \in Seeded => prepared[p[2]] # "none" /\ p[2] # seeding

Inv == TypeOK /\ ControlInv /\ FilesInv /\ PrepareInv

-----------------------------------------------------------------------------
LEMMA SeqElements ==
  ASSUME NEW S, NEW s \in Seq(S)
  PROVE  /\ ToSet(s) \subseteq S
         /\ s # <<>> => Head(s) \in S /\ s[1] \in S /\ s[1] \in ToSet(s)
BY DEF ToSet

(* Without "all" the arguments are infras. *)
LEMMA StartArguments ==
  ASSUME NEW a \in Arguments, All \notin ToSet(a)
  PROVE  a \in Seq(Infras)
<1>1. a \in Seq(Infras \cup {All})
  BY InfractlAssumption
<1>2. \A k \in DOMAIN a : a[k] \in Infras
  BY <1>1 DEF ToSet
<1> QED BY <1>1, <1>2

LEMMA ProfileType ==
  ASSUME NEW a \in Arguments, a # <<>>
  PROVE  Profile(a) \in Seq(Infras)
<1>1. a \in Seq(Infras \cup {All}) /\ AllInfras \in Seq(Infras)
  BY InfractlAssumption
<1>2. a[1] \in Infras \cup {All}
  BY <1>1, SeqElements
<1> QED BY <1>1, <1>2 DEF Profile

(* Containers of a list have infras for both parts of their name. *)
LEMMA HeadType ==
  ASSUME TypeOK, ControlInv, NEW i \in todo
  PROVE  /\ i \in ToSet(target) /\ i \in Infras
         /\ target # <<>> /\ Head(target) \in Infras
<1>1. i \in ToSet(target) /\ target \in Seq(Infras)
  BY DEF ControlInv, TypeOK
<1>2. target # <<>>
  BY <1>1 DEF ToSet
<1> QED BY <1>1, <1>2, SeqElements DEF TypeOK

-----------------------------------------------------------------------------
(* So what a stop leaves up is of that kind too. *)
LEMMA LeftUpType ==
  ASSUME TypeOK
  PROVE  LeftUp \subseteq Infras \X Infras
BY DEF TypeOK, LeftUp

LEMMA InitInv == Init => Inv
<1> SUFFICES ASSUME Init PROVE Inv
  OBVIOUS
<1>1. TypeOK
  BY DEF Init, TypeOK
<1>2. ControlInv
  BY DEF Init, ControlInv
<1>3. FilesInv
  BY DEF Init, FilesInv
<1>4. PrepareInv
  BY InfractlAssumption DEF Init, PrepareInv
<1> QED BY <1>1, <1>2, <1>3, <1>4 DEF Inv

(* One command at a time: what it may do to types and control. *)
LEMMA TypeStep ==
  ASSUME TypeOK, ControlInv, [Next]_vars
  PROVE  TypeOK'
<1> USE DEF TypeOK, files, prep
<1>1. CASE UNCHANGED vars
  BY <1>1 DEF vars
<1>2. ASSUME NEW a \in Arguments, a # <<>>, All \notin ToSet(a), Start(a) PROVE TypeOK'
  <2>1. a \in Seq(Infras) /\ a \in Seq(Infras \cup {All}) /\ ToSet(a) \subseteq Infras
    BY <1>2, StartArguments, SeqElements, InfractlAssumption
  <2> QED BY <1>2, <2>1 DEF Start
<1>3. ASSUME NEW a \in Arguments, Stop(a) PROVE TypeOK'
  <2>1. target' \in Seq(Infras)
    BY <1>3, ProfileType DEF Stop
  <2>2. todo' \subseteq Infras /\ a \in Seq(Infras \cup {All})
    BY <1>3, <2>1, SeqElements, InfractlAssumption DEF Stop
  <2> QED BY <1>3, <2>1, <2>2 DEF Stop
<1>4. ASSUME NEW i \in Infras, \/ PrepareSkips(i) \/ PrepareDirectory(i)
                             \/ PrepareFile(i) \/ PrepareFileFails(i)
      PROVE TypeOK'
  BY <1>4 DEF PrepareSkips, PrepareDirectory, PrepareFile, PrepareFileFails
<1>5. CASE WriteComposeFiles
  BY <1>5 DEF WriteComposeFiles
<1>6. CASE WriteActiveInfras
  BY <1>6, SeqElements DEF WriteActiveInfras
<1>7. ASSUME NEW i \in Infras, DownInfra(i) PROVE TypeOK'
  BY <1>7 DEF DownInfra
<1>8. ASSUME NEW i \in Infras, UpInfra(i) PROVE TypeOK'
  <2>1. Head(target) \in Infras
    BY <1>8, HeadType DEF UpInfra
  <2> QED BY <1>8, <2>1 DEF UpInfra
<1>9. CASE DownEnds \/ DownFails
  BY <1>9, LeftUpType, SeqElements DEF DownEnds, DownFails
<1>10. CASE UpFails \/ UpEnds \/ PostSetup \/ StopEnds
  BY <1>10 DEF UpFails, UpEnds, PostSetup, StopEnds
<1>11. CASE ShutdownHooks
  <2>1. hooked' \subseteq Infras
    <3>1. CASE compose_files # None
      BY <1>11, <3>1, SeqElements DEF ShutdownHooks
    <3>2. CASE compose_files = None
      <4>1. args # <<>>
        BY <1>11, <3>2 DEF ShutdownHooks, ControlInv
      <4>2. args[1] \in Infras \cup {All}
        BY <4>1, SeqElements
      <4> QED BY <1>11, <3>2, <4>2 DEF ShutdownHooks
    <3> QED BY <3>1, <3>2
  <2> QED BY <1>11, <2>1 DEF ShutdownHooks
<1>12. CASE RmComposeFiles \/ RmActiveInfras
  BY <1>12 DEF RmComposeFiles, RmActiveInfras
<1>13. CASE Killed
  BY <1>13 DEF Killed
<1> QED BY <1>1, <1>2, <1>3, <1>4, <1>5, <1>6, <1>7, <1>8, <1>9, <1>10, <1>11,
           <1>12, <1>13 DEF Next, Command

LEMMA ControlStep ==
  ASSUME TypeOK, ControlInv, [Next]_vars
  PROVE  ControlInv'
<1> USE DEF ControlInv, files, prep
<1>1. CASE UNCHANGED vars
  BY <1>1 DEF vars
<1>2. ASSUME NEW a \in Arguments, Start(a) PROVE ControlInv'
  BY <1>2 DEF Start
<1>3. ASSUME NEW a \in Arguments, Stop(a) PROVE ControlInv'
  BY <1>3 DEF Stop
<1>4. ASSUME NEW i \in Infras, \/ PrepareSkips(i) \/ PrepareDirectory(i)
                             \/ PrepareFile(i) \/ PrepareFileFails(i)
      PROVE ControlInv'
  BY <1>4 DEF PrepareSkips, PrepareDirectory, PrepareFile, PrepareFileFails
<1>5. CASE WriteComposeFiles
  BY <1>5 DEF WriteComposeFiles
<1>6. CASE WriteActiveInfras
  BY <1>6 DEF WriteActiveInfras
<1>7. ASSUME NEW i \in Infras, DownInfra(i) \/ UpInfra(i) PROVE ControlInv'
  BY <1>7 DEF DownInfra, UpInfra
<1>8. CASE DownEnds \/ DownFails
  BY <1>8 DEF DownEnds, DownFails
<1>9. CASE UpFails \/ UpEnds \/ PostSetup \/ StopEnds
  BY <1>9 DEF UpFails, UpEnds, PostSetup, StopEnds
<1>10. CASE ShutdownHooks
  BY <1>10 DEF ShutdownHooks
<1>11. CASE RmComposeFiles \/ RmActiveInfras
  BY <1>11 DEF RmComposeFiles, RmActiveInfras
<1>12. CASE Killed
  BY <1>12 DEF Killed
<1> QED BY <1>1, <1>2, <1>3, <1>4, <1>5, <1>6, <1>7, <1>8, <1>9, <1>10, <1>11,
           <1>12 DEF Next, Command

LEMMA FilesStep ==
  ASSUME TypeOK, ControlInv, FilesInv, [Next]_vars
  PROVE  FilesInv'
<1> USE DEF FilesInv, files
<1>n. None \notin Seq(Infras)
  BY InfractlAssumption
<1>1. CASE UNCHANGED vars
  BY <1>1 DEF vars
<1>2. ASSUME NEW a \in Arguments, Start(a) PROVE FilesInv'
  BY <1>2 DEF Start
<1>3. ASSUME NEW a \in Arguments, Stop(a) PROVE FilesInv'
  BY <1>3 DEF Stop, Containers
<1>4. ASSUME NEW i \in Infras, \/ PrepareSkips(i) \/ PrepareDirectory(i)
                             \/ PrepareFile(i) \/ PrepareFileFails(i)
      PROVE FilesInv'
  BY <1>4 DEF PrepareSkips, PrepareDirectory, PrepareFile, PrepareFileFails, ControlInv
<1>5. CASE WriteComposeFiles
  BY <1>5, <1>n DEF WriteComposeFiles, ControlInv, TypeOK
<1>6. CASE WriteActiveInfras
  BY <1>6, <1>n DEF WriteActiveInfras, ControlInv, TypeOK
<1>7. ASSUME NEW i \in Infras, DownInfra(i) PROVE FilesInv'
  BY <1>7 DEF DownInfra
<1>8. ASSUME NEW i \in Infras, UpInfra(i) PROVE FilesInv'
  <2>1. /\ op = "start" /\ compose_files = target /\ active_infras = target
        /\ compose_files # None
    BY <1>8, <1>n DEF UpInfra, ControlInv, TypeOK
  <2>2. <<Head(target), i>> \in Containers(target)
    BY <1>8, HeadType DEF UpInfra, Containers
  <2> QED BY <1>8, <2>1, <2>2 DEF UpInfra
<1>9. CASE DownEnds \/ DownFails
  BY <1>9 DEF DownEnds, DownFails, LeftUp, ControlInv
<1>10. CASE UpFails \/ UpEnds \/ PostSetup \/ StopEnds
  BY <1>10 DEF UpFails, UpEnds, PostSetup, StopEnds, ControlInv
<1>11. CASE ShutdownHooks
  <2>1. CASE compose_files = None
    BY <1>11, <2>1 DEF ShutdownHooks
  <2>2. CASE compose_files # None
    <3>1. {p[2] : p \in latest} \subseteq hooked'
      <4>1. CASE latest = {}
        BY <4>1
      <4>2. CASE latest # {}
        <5>1. active_infras = compose_files /\ hooked' = ToSet(compose_files)
          BY <1>11, <2>2, <4>2 DEF ShutdownHooks
        <5>2. \A p \in Containers(compose_files) : p[2] \in ToSet(compose_files)
          BY DEF Containers
        <5> QED BY <2>2, <5>1, <5>2
      <4> QED BY <4>1, <4>2
    <3> QED BY <1>11, <2>2, <3>1 DEF ShutdownHooks, ControlInv
  <2> QED BY <2>1, <2>2
<1>12. CASE RmComposeFiles
  <2>1. /\ op = "stop" /\ compose_files # None
        /\ latest \subseteq Containers(compose_files) /\ target = compose_files
    BY <1>12 DEF RmComposeFiles, ControlInv
  <2>2. latest \cap running \subseteq left
    BY <1>12, <2>1 DEF RmComposeFiles
  <2> QED BY <1>12, <2>1, <2>2 DEF RmComposeFiles
<1>13. CASE RmActiveInfras
  BY <1>13 DEF RmActiveInfras, ControlInv
<1>14. CASE Killed
  BY <1>14 DEF Killed
<1> QED BY <1>1, <1>2, <1>3, <1>4, <1>5, <1>6, <1>7, <1>8, <1>9, <1>10, <1>11,
           <1>12, <1>13, <1>14 DEF Next, Command

LEMMA PrepareStep ==
  ASSUME TypeOK, ControlInv, PrepareInv, [Next]_vars
  PROVE  PrepareInv'
<1> USE DEF PrepareInv, prep
<1>n. None \notin Infras /\ Seeded \subseteq Infras
  BY InfractlAssumption
<1>1. CASE UNCHANGED vars
  BY <1>1 DEF vars
<1>2. ASSUME NEW a \in Arguments, Start(a) PROVE PrepareInv'
  BY <1>2 DEF Start
<1>3. ASSUME NEW a \in Arguments, Stop(a) PROVE PrepareInv'
  BY <1>3 DEF Stop
<1>4. ASSUME NEW i \in Infras, PrepareSkips(i) PROVE PrepareInv'
  BY <1>4 DEF PrepareSkips, ControlInv
<1>5. ASSUME NEW i \in Infras, PrepareDirectory(i) PROVE PrepareInv'
  <2>1. /\ prepared' = [prepared EXCEPT ![i] = "empty"] /\ seeding' = i /\ torn' = torn
        /\ prepared[i] = "none" /\ seeding = None /\ i \in todo /\ pc = "prepare"
        /\ i # None /\ i \notin torn
    BY <1>5, <1>n DEF PrepareDirectory
  <2>2. \A j \in Infras : prepared'[j] = IF j = i THEN "empty" ELSE prepared[j]
    BY <2>1 DEF TypeOK
  <2>3. \A p \in latest : p[2] \in Seeded => p[2] # i
    BY <2>1
  <2>4. ToSet(target) \cap Seeded \subseteq Infras
    BY <1>n
  <2> QED BY <1>5, <1>n, <2>1, <2>2, <2>3, <2>4 DEF PrepareDirectory, ControlInv
<1>6. ASSUME NEW i \in Infras, PrepareFile(i) PROVE PrepareInv'
  <2>1. /\ prepared' = [prepared EXCEPT ![i] = "whole"] /\ seeding' = None /\ torn' = torn
        /\ seeding = i /\ i # None /\ i \notin torn
    BY <1>6, <1>n DEF PrepareFile
  <2>2. \A j \in Infras : prepared'[j] = IF j = i THEN "whole" ELSE prepared[j]
    BY <2>1 DEF TypeOK
  <2> QED BY <1>6, <1>n, <2>1, <2>2 DEF PrepareFile, ControlInv
<1>7. ASSUME NEW i \in Infras, PrepareFileFails(i) PROVE PrepareInv'
  BY <1>7, <1>n DEF PrepareFileFails, ControlInv
<1>8. CASE WriteComposeFiles \/ WriteActiveInfras
  BY <1>8 DEF WriteComposeFiles, WriteActiveInfras, ControlInv
<1>9. ASSUME NEW i \in Infras, DownInfra(i) PROVE PrepareInv'
  BY <1>9 DEF DownInfra, files
<1>10. ASSUME NEW i \in Infras, UpInfra(i) PROVE PrepareInv'
  <2>1. i \in ToSet(target) /\ op = "start" /\ seeding = None
    BY <1>10, HeadType DEF UpInfra, ControlInv
  <2>2. i \in Seeded => prepared[i] # "none"
    BY <1>10, <2>1 DEF UpInfra
  <2> QED BY <1>10, <1>n, <2>1, <2>2 DEF UpInfra, files
<1>11. CASE DownEnds \/ DownFails
  BY <1>11 DEF DownEnds, DownFails, files
<1>12. CASE UpFails \/ UpEnds \/ PostSetup \/ StopEnds
  BY <1>12 DEF UpFails, UpEnds, PostSetup, StopEnds, files
<1>13. CASE ShutdownHooks \/ RmComposeFiles \/ RmActiveInfras
  BY <1>13 DEF ShutdownHooks, RmComposeFiles, RmActiveInfras, files
<1>14. CASE Killed
  BY <1>14, <1>n DEF Killed, files
<1> QED BY <1>1, <1>2, <1>3, <1>4, <1>5, <1>6, <1>7, <1>8, <1>9, <1>10, <1>11,
           <1>12, <1>13, <1>14 DEF Next, Command

-----------------------------------------------------------------------------
LEMMA Invariance == Spec => []Inv
<1>1. Inv /\ [Next]_vars => Inv'
  BY TypeStep, ControlStep, FilesStep, PrepareStep DEF Inv
<1> QED BY InitInv, <1>1, PTL DEF Spec

(* The files, the containers and what the hooks have made keep their types. *)
THEOREM TypeCorrect == Spec => []TypeOK
BY Invariance, PTL DEF Inv

(* What the latest start has brought up and is up, compose-files.txt names  *)
(* until a stop has asked podman-compose to take it down: no kill between  *)
(* two steps makes infractl.sh forget it earlier.                          *)
THEOREM ForgottenOnlyAfterDownTheorem == Spec => []ForgottenOnlyAfterDown
<1>1. Inv => ForgottenOnlyAfterDown
  BY DEF Inv, FilesInv, ForgottenOnlyAfterDown
<1> QED BY Invariance, <1>1, PTL

(* Before stop forgets what was started, its shutdown hooks have run.      *)
THEOREM HooksBeforeForgettingTheorem == Spec => []HooksBeforeForgetting
<1>1. Inv => HooksBeforeForgetting
  BY DEF Inv, FilesInv, HooksBeforeForgetting
<1> QED BY Invariance, <1>1, PTL

(* What was started has found what its prepare hook makes whole, unless the *)
(* hook ended between its two steps.                                       *)
THEOREM PreparedUnlessTornTheorem == Spec => []PreparedUnlessTorn
<1>1. Inv => PreparedUnlessTorn
  <2> SUFFICES ASSUME Inv, NEW p \in latest, p[2] \in Seeded
               PROVE  prepared[p[2]] = IF p[2] \in torn THEN "empty" ELSE "whole"
    BY DEF PreparedUnlessTorn
  <2>1. p[2] \in Infras /\ prepared[p[2]] \in {"none", "empty", "whole"}
    BY InfractlAssumption DEF Inv, TypeOK
  <2> QED BY <2>1 DEF Inv, PrepareInv
<1> QED BY Invariance, <1>1, PTL
=============================================================================
