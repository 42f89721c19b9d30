------------------------------ MODULE Infractl ------------------------------
(***************************************************************************)
(* The commands start and stop of infractl.sh (.infra/global/libs/         *)
(* libinfractl.sh): what they write to .state, what they ask of            *)
(* podman-compose, and what is left when they are killed between two       *)
(* steps.  An infra stands for all containers of its descriptor; how       *)
(* podman-compose starts and stops those is ComposeUp.                     *)
(***************************************************************************)
EXTENDS Sequences, FiniteSets

CONSTANTS
  Infras,     \* the directories with a descriptor under .infra
  AllInfras,  \* the same as .infra/*/descriptor.yml lists them
  All,        \* the argument "all" of stop
  Needs,      \* Needs[i]: infras whose services those of i depend on
  Seeded,     \* infras whose prepare hook makes a directory and fills it
  Arguments,  \* argument lists to consider
  None        \* no file

ToSet(s) == {s[k] : k \in DOMAIN s}

ASSUME InfractlAssumption ==
  /\ AllInfras \in Seq(Infras) /\ ToSet(AllInfras) = Infras
  /\ All \notin Infras
  /\ None \notin Seq(Infras) \cup Infras
  /\ Seeded \subseteq Infras
  /\ Needs \in [Infras -> SUBSET Infras]
  /\ Arguments \subseteq Seq(Infras \cup {All})

VARIABLES
  compose_files,  \* .state/compose-files.txt: the infras whose descriptors
                  \* it names
  active_infras,  \* .state/active-infras.txt
  running,        \* pairs <<project, infra>> whose containers are up
  op, args,       \* the command that runs, or the last one
  target,         \* the infras podman-compose is given
  todo,           \* infras podman-compose still has to stop or start
  pc,
  latest,         \* history: what was started since compose-files was written
  hooked,         \* history: infras whose shutdown hook this stop has run
  prepared,       \* prepared[i]: how far the directory the prepare hook of i
                  \* makes under .state has come: "none", "empty", "whole"
  seeding,        \* the infra whose directory has just been made, or None
  torn,           \* history: infras whose hook got no further than that
  left            \* history: what a stop asked podman-compose to take down
                  \* and it left up

files == <<compose_files, active_infras>>
prep == <<prepared, seeding, torn>>
vars == <<files, running, op, args, target, todo, pc, latest, hooked, prep, left>>

Init ==
  /\ compose_files = None /\ active_infras = None
  /\ running = {}
  /\ op = "none" /\ args = <<>> /\ target = <<>>
  /\ todo = {} /\ pc = "idle"
  /\ latest = {} /\ hooked = {}
  /\ prepared = [i \in Infras |-> "none"] /\ seeding = None /\ torn = {}
  /\ left = {}

\* The project is named after the directory of the first descriptor; the
\* names of the containers start with it.
Containers(infras) == {<<Head(infras), i>> : i \in ToSet(infras)}

-----------------------------------------------------------------------------
(* start *)

\* Checks the environment and creates .state and the network; neither is
\* read by the other steps.
Start(a) ==
  /\ pc = "idle"
  /\ op' = "start" /\ args' = a /\ target' = a
  /\ todo' = ToSet(a) \cap Seeded /\ pc' = "prepare" /\ hooked' = {}
  /\ UNCHANGED <<files, running, latest, prep, left>>

\* A prepare hook: what exists is left alone, whatever is in it.
PrepareSkips(i) ==
  /\ pc = "prepare" /\ seeding = None /\ i \in todo /\ prepared[i] # "none"
  /\ todo' = todo \ {i}
  /\ UNCHANGED <<files, running, op, args, target, pc, latest, hooked, prep, left>>

\* mkdir -p, then a file is written or copied into the directory.
PrepareDirectory(i) ==
  /\ pc = "prepare" /\ seeding = None /\ i \in todo /\ prepared[i] = "none"
  /\ prepared' = [prepared EXCEPT ![i] = "empty"] /\ seeding' = i
  /\ UNCHANGED <<files, running, op, args, target, todo, pc, latest, hooked, torn, left>>

PrepareFile(i) ==
  /\ pc = "prepare" /\ seeding = i
  /\ prepared' = [prepared EXCEPT ![i] = "whole"] /\ seeding' = None
  /\ todo' = todo \ {i}
  /\ UNCHANGED <<files, running, op, args, target, pc, latest, hooked, torn, left>>

\* The hook fails or is killed alone between the two; start goes on.
PrepareFileFails(i) ==
  /\ pc = "prepare" /\ seeding = i
  /\ torn' = torn \cup {i} /\ seeding' = None
  /\ todo' = todo \ {i}
  /\ UNCHANGED <<files, running, op, args, target, pc, latest, hooked, prepared, left>>

\* A bug to catch: the file of an earlier start is kept.
WriteComposeFilesOnce ==
  /\ pc = "prepare" /\ todo = {}
  /\ compose_files' = IF compose_files = None THEN target ELSE compose_files
  /\ latest' = {} /\ left' = {} /\ pc' = "write_active"
  /\ UNCHANGED <<active_infras, running, op, args, target, todo, hooked, prep>>

\* A bug to catch: the hooks go on in the background.
WriteComposeFilesEarly ==
  /\ pc = "prepare" /\ seeding = None
  /\ compose_files' = target /\ latest' = {} /\ left' = {}
  /\ pc' = "write_active"
  /\ UNCHANGED <<active_infras, running, op, args, target, todo, hooked, prep>>

\* After the hooks the two files are written one after the other.
WriteComposeFiles ==
  /\ pc = "prepare" /\ todo = {}
  /\ compose_files' = target /\ latest' = {} /\ left' = {}
  /\ pc' = "write_active"
  /\ UNCHANGED <<active_infras, running, op, args, target, todo, hooked, prep>>

\* A bug to catch: the file of an earlier start is kept.
WriteActiveInfrasOnce ==
  /\ pc = "write_active"
  /\ active_infras' = IF active_infras = None THEN target ELSE active_infras
  /\ todo' = ToSet(target) /\ pc' = "down"
  /\ UNCHANGED <<compose_files, running, op, args, target, latest, hooked, prep, left>>

WriteActiveInfras ==
  /\ pc = "write_active"
  /\ active_infras' = target
  /\ todo' = ToSet(target) /\ pc' = "down"
  /\ UNCHANGED <<compose_files, running, op, args, target, latest, hooked, prep, left>>

\* podman-compose up -d --force-recreate takes the infras down first.  down
\* is the first part of this command and all stop asks for.  What podman
\* refuses to stop is left up, and down goes on.
DownInfra(i) ==
  /\ pc = "down" /\ i \in todo
  /\ running' \in {running \ {<<Head(target), i>>}, running}
  /\ todo' = todo \ {i}
  /\ UNCHANGED <<files, op, args, target, pc, latest, hooked, prep, left>>

\* What stop has asked for and is still up.
LeftUp == IF op = "stop" THEN left \cup (Containers(target) \cap running) ELSE left

DownEnds ==
  /\ pc = "down" /\ todo = {}
  /\ IF op = "start" THEN pc' = "up" /\ todo' = ToSet(target)
                     ELSE pc' = "hooks" /\ UNCHANGED todo
  /\ left' = LeftUp
  /\ UNCHANGED <<files, running, op, args, target, latest, hooked, prep>>

\* podman-compose ends early: it is killed alone, or a descriptor cannot be
\* read any more.  Neither start nor stop looks at its outcome.
DownFails ==
  /\ pc = "down"
  /\ pc' = IF op = "start" THEN "post" ELSE "hooks"
  /\ todo' = {} /\ left' = LeftUp
  /\ UNCHANGED <<files, running, op, args, target, latest, hooked, prep>>

\* An infra comes up once what it needs is up.
UpInfra(i) ==
  /\ pc = "up" /\ i \in todo
  /\ Needs[i] \cap todo \subseteq {i} /\ Needs[i] \subseteq ToSet(target)
  /\ running' = running \cup {<<Head(target), i>>}
  /\ latest' = latest \cup {<<Head(target), i>>}
  /\ todo' = todo \ {i}
  /\ UNCHANGED <<files, op, args, target, pc, hooked, prep, left>>

\* podman-compose ends early: a needed infra is missing on the command line
\* (a KeyError), or it is killed alone.  start does not look at its outcome.
UpFails ==
  /\ pc = "up" /\ todo # {}
  /\ pc' = "post" /\ todo' = {}
  /\ UNCHANGED <<files, running, op, args, target, latest, hooked, prep, left>>

UpEnds ==
  /\ pc = "up" /\ todo = {}
  /\ pc' = "post"
  /\ UNCHANGED <<files, running, op, args, target, todo, latest, hooked, prep, left>>

\* The post-setup hooks and web pages.
PostSetup ==
  /\ pc = "post"
  /\ pc' = "idle"
  /\ UNCHANGED <<files, running, op, args, target, todo, latest, hooked, prep, left>>

-----------------------------------------------------------------------------
(* stop *)

\* A bug to catch: "all" is taken for the name of an infra.
ProfileWithoutAll(a) == <<a[1]>>

\* get_descrptior_file_paths $PROFILE, with the first argument alone.
Profile(a) == IF a[1] = All THEN AllInfras ELSE <<a[1]>>

\* The files decide what is stopped; arguments count only without them.
Stop(a) ==
  /\ pc = "idle"
  /\ compose_files = None => a # <<>>
  /\ op' = "stop" /\ args' = a
  /\ target' = IF compose_files # None THEN compose_files ELSE Profile(a)
  /\ todo' = ToSet(target') /\ pc' = "down" /\ hooked' = {}
  /\ UNCHANGED <<files, running, latest, prep, left>>

\* The shutdown hooks: of active-infras.txt when stop went by the files, of
\* the argument otherwise (a directory named "all" has none).
ShutdownHooks ==
  /\ pc = "hooks"
  /\ IF compose_files # None
     THEN /\ hooked' = IF active_infras # None THEN ToSet(active_infras) ELSE {}
          /\ pc' = "rm_compose_files"
     ELSE /\ hooked' = {args[1]} \ {All}
          /\ pc' = "stopped"
  /\ UNCHANGED <<files, running, op, args, target, todo, latest, prep, left>>

RmComposeFiles ==
  /\ pc = "rm_compose_files"
  /\ compose_files' = None /\ pc' = "rm_active_infras"
  /\ UNCHANGED <<active_infras, running, op, args, target, todo, latest, hooked, prep, left>>

RmActiveInfras ==
  /\ pc = "rm_active_infras"
  /\ active_infras' = None /\ pc' = "stopped"
  /\ UNCHANGED <<compose_files, running, op, args, target, todo, latest, hooked, prep, left>>

StopEnds ==
  /\ pc = "stopped"
  /\ pc' = "idle"
  /\ UNCHANGED <<files, running, op, args, target, todo, latest, hooked, prep, left>>

\* Interrupted between two steps; containers and files stay.
Killed ==
  /\ pc # "idle"
  /\ pc' = "idle" /\ todo' = {}
  /\ torn' = torn \cup ({seeding} \ {None}) /\ seeding' = None
  /\ UNCHANGED <<files, running, op, args, target, latest, hooked, prepared, left>>

Command ==
  \/ \E a \in Arguments : \/ a # <<>> /\ All \notin ToSet(a) /\ Start(a)
                          \/ Stop(a)
  \/ \E i \in Infras : PrepareSkips(i) \/ PrepareDirectory(i)
                     \/ PrepareFile(i) \/ PrepareFileFails(i)
  \/ WriteComposeFiles \/ WriteActiveInfras
  \/ \E i \in Infras : DownInfra(i) \/ UpInfra(i)
  \/ DownEnds \/ DownFails \/ UpFails \/ UpEnds \/ PostSetup
  \/ ShutdownHooks \/ RmComposeFiles \/ RmActiveInfras \/ StopEnds

Next == Command \/ Killed

Spec == Init /\ [][Next]_vars

-----------------------------------------------------------------------------
(* Properties.                                                             *)

TypeOK ==
  /\ compose_files \in Seq(Infras) \cup {None}
  /\ active_infras \in Seq(Infras) \cup {None}
  /\ running \subseteq Infras \X Infras /\ latest \subseteq Infras \X Infras
  /\ op \in {"none", "start", "stop"}
  /\ args \in Seq(Infras \cup {All})
  /\ target \in Seq(Infras)
  /\ todo \subseteq Infras /\ hooked \subseteq Infras
  /\ prepared \in [Infras -> {"none", "empty", "whole"}]
  /\ seeding \in Infras \cup {None} /\ torn \subseteq Infras
  /\ left \subseteq Infras \X Infras
  /\ pc \in {"idle", "prepare", "write_active", "down", "up", "post", "hooks",
             "rm_compose_files", "rm_active_infras", "stopped"}

\* Whatever the latest start has brought up and is up, the file tells a later
\* stop about, unless a stop has asked podman-compose for it already: start
\* writes the file before the first container is started, and stop removes it
\* after down has ended, so a kill in between loses nothing.  What a down
\* that fails has left up is forgotten all the same.
ForgottenOnlyAfterDown ==
  (latest \cap running) \ left # {} =>
    /\ compose_files # None
    /\ (latest \cap running) \ left \subseteq Containers(compose_files)

\* Before a stop that goes by the files forgets them, it has run the
\* shutdown hook of every infra the latest start brought up; also a stop
\* that repeats one that was killed.
HooksBeforeForgetting ==
  pc = "rm_compose_files" => {p[2] : p \in latest} \subseteq hooked

\* Containers mount what the prepare hooks have written: an infra that is up
\* after a start has it whole, however often starts were killed, unless its
\* hook got no further than the first of its two steps, once: no later start
\* mends that.
PreparedUnlessTorn ==
  \A p \in latest : p[2] \in Seeded =>
    prepared[p[2]] = IF p[2] \in torn THEN "empty" ELSE "whole"
=============================================================================
