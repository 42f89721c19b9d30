# localenv: a verification project

localenv starts databases and middleware ("infras") on a developer's machine. A
shell front end, `infractl.sh`, turns the infras a user names into a list of compose
files and hands them to a bundled, patched `bin/podman_compose.py`, which drives the
`podman` command line. The README of localenv (lines 81 to 87) gives the reason for the
bundled copy: the official one does not reliably launch containers that depend on the
start of others. This project models how compose files are read, how dependencies are
computed, how images, volumes, networks and containers are created, waited for, started
and removed by concurrent tasks, concurrent and interrupted commands, how their output
is printed, and what the front end remembers of it all.

All line numbers below are of `bin/podman_compose.py` unless another file is named.

## 1. The system

### Components

| Component | State it keeps | Operations | Talks to |
|---|---|---|---|
| Compose file reading (1683-1767, 1899-2205) | the worklist of files, the merged dictionary | includes, `rec_merge`, profiles, project name, hash, `resolve_extends` | hands services to dependency resolution |
| Dependency resolution (1274-1388, 2027-2054) | the dictionaries of services and their sets `_deps`, updated in place | `flat_deps`, `rec_deps`, sorting | called twice by the parser |
| `up -d`, `down` (2689-2990) | nothing but what podman keeps | recreate, create, wait for conditions, start; stop, remove, orphans, pod | podman; `up` calls `down` |
| Attached `up` (1503-1549, 2818-2902) | asyncio tasks, semaphore of `--parallel`, SIGINT handler | wait, `start -a`, cancel, terminate, kill, abort | podman; the handler calls `down` |
| `start`, `stop`, `restart` (3125-3170) | nothing | `transfer_service_status` | podman |
| Volumes, networks, pod (384-431, 776-1031, 2673-2688, 2970-2990) | nothing but what podman keeps | assert, create, remove what bears the label of the project | podman |
| Arguments of `podman create` (1080-1248) | nothing | `container_to_args` and helpers | asserts volumes and networks |
| Images (2500-2672) | tasks, temporary containerfiles | `build`, the build of `up`, `pull`, `push` | podman, the registry |
| Log output (1413-1549) | a task for each pipe, its buffer | `_readchunk`, `_format_stream`, `Podman.run` | attached `up`, `logs` |
| Other commands of podman-compose | nothing | run, exec, ps, config, kill, ... | podman |
| `infractl.sh` start and stop (`.infra/global/libs/libinfractl.sh`) | `.state/compose-files.txt`, `.state/active-infras.txt` | start, stop, hooks | podman-compose |
| Provisioning (`.infra/*/provision`) | `.state/<infra>` directories | prepare, post-setup and shutdown hooks | containers |
| Other commands of `infractl.sh` | none of their own | status, list, webui, attach, logs, init, destroy | podman, podman-compose |
| Descriptors | data | | read by podman-compose |
| `appctl.sh` | none | build and deploy | the application's host |
| PowerShell twins | as the shell scripts | as the shell scripts | as the shell scripts |
| Images and workflows | none | image builds | |

They meet in three places. Podman's store is shared by all commands, also by those that
run at the same time, and outlives them: a command finds what earlier, killed or
concurrent ones have left. The files in `.state` are shared by `infractl.sh start` and
`stop`. Inside one podman-compose process the asyncio tasks share the list of tasks, the
semaphore, the standard output and the store.

### What is hard, and what makes it correct

* **Files that include each other, and are edited.** Includes are appended to the list that
  is iterated over. Files without a circle are read level by level (`ReadByLevels`,
  `ReadingEnds`), merged in that order (`MergedInOrder`); the hash decides whether a
  container is current (`HashCoversServices`).
* **Sets updated while they are visited.** `rec_deps` merges the set of a callee into the
  set of its caller, whose own caller iterates over a copy taken earlier; Python visits
  sets in any order. The result has to be the transitive closure whatever the order
  (`DepsExact`), and what has been expanded stays final (`ExpandedIsFinal`).
* **An order inferred from a count.** Services are sorted by number of dependencies, and
  this is used as a topological order for `extends` and for `podman create --requires`
  (`OrderTopological`, `BaseDependenciesInherited`).
* **Conditions that change while they are waited for.** Containers turn healthy,
  unhealthy or exit at any time; dependencies are waited for one condition after the
  other (`LaunchesInOrder`, `CommandEnds`).
* **Podman refuses.** `create`, `rm` and `pod rm` fail depending on what exists and what
  requires what, and outcomes are not looked at (`DownRemoves`, `UpIsCurrent`,
  `OthersKept`, `UpCompletes`).
* **Interrupted commands.** Kills between any two podman calls, or between the writes of
  two files, or between the two steps of a prepare hook (`UpIsCurrent`, `FailsForCause`,
  `ForgottenOnlyAfterDown`, `HooksBeforeForgetting`, `PreparedUnlessTorn`).
* **Check, then create.** Volumes, networks and the pod are looked for and created
  afterwards; another command may come in between (`RaceHasWinner`,
  `LabelledUnlessRaced`), and what the user made must survive (`OutsideKept`,
  `VolumesKept`).
* **Concurrent tasks.** Cancellation at every place a task can be, exits during the
  second `--abort-on-container-exit` sleeps, `down` running beside tasks that still
  launch containers (`NothingLeftRunning`, `ShutdownEnds`); builds that end in any order
  (`StatusTells`, `TempLeftForCause`).
* **Bytes.** Pipes are read in chunks of any size, lines are cut at a limit, several
  readers share one output and die of bytes that are no text (`NothingLost`,
  `PrefixPerLine`, `LinesApart`, `RunsReturn`).

## 2. The modules

```
 DepGraph (names, closure, topological order)
   ├── ServiceDeps             flat_deps, rec_deps, resolve_extends, sorts
   └── Selection ── Podman     what a command line selects; the container store (external)
         ├── ComposeUp ─────────┐ refine LaunchOrder, the
         ├── ComposeAttached ───┘ depends_on promise
         └── Resources           several commands at once on one project
              ├── PodmanObjects  volumes, networks, pod, directories (external)
              └── CreateArgs     names, what is asserted, what raises

 Reading      the files, before ServiceDeps
 LogStream    the readers of the pipes, below ComposeAttached
 Images       build, pull, push, before ComposeUp
 Infractl     infractl.sh start and stop, above podman-compose
```

`MC<module>` instantiates a module for TLC; `<module>Proofs` holds its theorems. The
modules fit together as the code does. `Reading` ends where `ServiceDeps` begins, with
merged services. `ServiceDeps` establishes of every acyclic file what `ParsedStack` in
`Selection` assumes (`OrderTopological` and the closure of the sets, both proved).
`Resources` runs the container loop of `up` and `down` for several processes with the
objects around it, where `ComposeUp` runs one process with all conditions and health
checks. `Infractl` treats as one step per infra what `ComposeUp` does container by
container.

* **ServiceDeps.** The recursion of `rec_deps` is an explicit stack of frames, each a
  service and the rest of its copy of the set. One action per iteration (`PassOver`,
  `Recurse`) and per return (`Return`). `condition` and `depends_on` model object
  identity: after `extends`, two services can share one dictionary (`Inherit`).
* **Reading.** One action per step of `_parse_compose_file`: a file of the worklist is
  opened, its includes are appended to what is left (`pending`), its services are merged. Values are
  typed (`null`, `str`, `int`, `list`, `dict`), so that `rec_merge` can meet every pair of types. A name is the
  sequence of its runs of characters: what `norm_re` keeps, upper case, anything else. `ProjectName` takes it from
  `COMPOSE_PROJECT_NAME`, the first file or the first file's directory, in that order; of these only the name of the
  directory is put into lower case before the other characters are dropped (2000), so `DEMO` raises where a directory
  `DEMO` does not. Opening a file fails when it requires a variable that is not set (291), and the end of
  `_parse_compose_file` when a service uses a network or a named volume that no file declares (2090, 2167). `Files` is what the
  command line and the usual names come to; `Levels` and `ComesTo`, which the properties are stated with,
  say level by level what is to be read, and what all files together say of a key.
  Two commands follow each other; in between files are edited, which is what the hash is
  for.
* **Podman, PodmanObjects.** The store as podman-compose uses it: a state per container,
  the list it was created to require, the hash in its label; whether volumes, networks and
  the pod exist and bear the label of the project. Podman is not part of the repository:
  `create` is refused when the name is taken or something it needs is missing, and makes
  named volumes that are missing without a label; `rm` without `--force` is refused while
  a container is up or required, `pod rm` while one is up; `start` also starts
  the required containers that are down.
* **Selection.** `get_excluded`, `deps_from_container` and the choice of what
  `check_dep_conditions` waits for next.
* **ComposeUp.** `up -d`, `up --no-start` and `down`, one command after the other, one
  podman call per action. `up` recreates by running the actions of `down`, as the code
  calls `compose_down`. `Killed` ends a command anywhere; health checks and exits happen
  anywhere. A repeated call of `podman wait` is the same state again.
* **ComposeAttached.** `up` without `-d`, from the moment the containers of a fresh
  project exist. `task` says where each asyncio task is, `main` where the loop around
  `asyncio.wait` is, `handler` where the SIGINT handler is. `Cancel` is what
  `Task.cancel()` does to a task depending on where it is: one attached to a container
  terminates its process and waits ten seconds; anything else ends at once. `HandlerCut`
  is what `asyncio.run` does to the handler when main ends.
* **LaunchOrder.** The abstract specification: a container is launched only after each of
  its dependencies was launched by the same command and then seen to satisfy its
  condition. `ComposeUp` and `ComposeAttached` implement it under `wanted <- Wanted`.
* **CreateArgs.** What decides, of the arguments of `podman create`, which volumes and
  networks a container needs (`Needed`, in the order in which they are asserted) and what
  raises (`ArgsRaise`, `ParsingRaises`, `EnvironmentRaises`): volumes, secrets and networks, the service of
  `network_mode`, ulimits, devices, health checks.
* **Resources.** `up`, `down -v`, `start`, `stop`, `restart` of several processes on one
  project. `proc[p]` holds the command, its program counter, the position in the loops, the names
  listed a moment ago (`names`: what a `down -v` is about to remove) and the calls of tasks that
  have been started together (`tasks`: done in any order). `Inspect`, `Make`, `Recheck` are the three steps
  of looking for an object, creating it and looking again.
* **LogStream.** Pipes of bounded size, a `StreamReader` with a limit, `_readchunk` with its
  three ways to return, the split into lines, the prefix, one shared output. The symbols
  are a letter, a line end, the two halves of one character and a byte that is no text.
* **Images.** One task for each image to build, with a semaphore; gathering in any order
  (`Collect`); Ctrl+C; the temporary containerfile. `pull` and `push` ask nobody how they ended. Ctrl+C cancels the
  main task: `build`, `up` and `pull` end, but `Podman.run` swallows it in a `push`, which goes on
  with the next image (`InterruptPush`) until it is interrupted a second time.
* **Infractl.** `start` and `stop` with the two files of `.state`, the prepare hooks in
  their two steps, the shutdown hooks, and kills between any two steps. Hooks and `podman-compose` can also fail
  or be killed alone, and the scripts go on (`PrepareFileFails`, `DownInfra` that leaves an infra up, `DownFails`,
  `UpFails`). The project of
  podman-compose is named after the directory of the first descriptor, so the same infra
  can run under two projects.

Operators marked "A bug to catch" are wrong versions of the definition that follows
them, kept to show that a property notices: no action of a specification uses them. Each
property of each run that passes has one.

## 3. The runs

| Run (`cfg`) | Specification | Shows |
|---|---|---|
| deps_files (`ServiceDepsFiles`) | `FairSpec` | every acyclic graph over four services up to renaming, links, missing services, every chain of bases over three services, files with loops, in every visiting order: sets exact and final, order topological, bases inherited, parsing ends |
| deps_override (`ServiceDepsOverride`) | `Spec` | violation of `MergeUpdatesTargetOnly` |
| up_whole (`ComposeUpWhole`) | `Spec` | commands on whole stacks in four versions, killed anywhere: `UpIsCurrent`, `DownRemoves`, refinement of `LaunchOrder` |
| up_some (`ComposeUpSome`) | `FairSpec` | commands on selected services and on whole stacks, `--no-deps`, killed anywhere: `OthersKept`, `CommandEnds`, whose one exception the run meets |
| up_recreate (`ComposeUpRecreate`) | `CalmSpec` | violation of `RecreatesAlways` |
| attached (`ComposeAttached`) | `FairSpec` | attached sessions with Ctrl+C, abort, `--exit-code-from`, two permits or plenty |
| attached_abort (`ComposeAttachedAbort`) | `Spec` | violation of `AbortStopsAll` |
| infractl (`InfractlStore`) | `Spec` | starts and stops of three infras, killed anywhere, with hooks and `podman-compose` that fail |
| resources (`Resources`) | `Spec` | two processes at once on one project, seven command lines each, killed anywhere |
| reading (`Reading`) | `Spec` (fair) | two command lines in a row over four files that include each other, are edited in between, or are wrong: types, names, variables, networks and volumes |
| logs (`LogStream`) | `FairSpec` | two processes, three pipes, one output |
| images (`Images`) | `FairSpec` | builds, pulls and pushes that fail, raise or are interrupted |

### Bounds

* *ServiceDeps.* Four services carry every shape that matters to the expansion: chains of
  three dependencies, diamonds, a set that grows while a caller two frames up still
  iterates over its copy. `RecursionLimit` is the number of services in `ServiceDepsFiles`,
  so a file without loops that recursed deeper would show. Two conditions tell an override
  from its base.
* *ComposeUp.* A database with a health check, a job that waits for it and exits, an
  application that waits for both with all three conditions, and a tool nothing depends on.
  The versions of the stack differ in dependencies (in one the direction between the job
  and the application is reversed, in one the application waits for the one-shot job with
  `service_started`), in services, and in whether what they need is in the files. The number of commands is not bounded: the state space is finite. Every service
  has one container, as in the descriptors of `.infra`.
* *ComposeAttached.* The same three services; containers exit whenever they like, one
  ignores SIGTERM. With two permits an application cannot wait while the other two run.
  There is one Ctrl+C, with or without the terminal sending SIGINT to `podman wait` as well.
* *Resources.* Two processes are what a race needs; commands follow each other without a
  bound, so a third creator or remover comes from a process that begins again. The project has a
  directory of the host, an anonymous volume, a volume of the user's, the default network and
  the pod; a second version of the file lacks a service and cannot be turned into arguments.
  The two processes are symmetric, and no liveness is asked of this run.
* *Reading.* Two files at the top and two in a directory, in chains, diamonds and circles; six
  command lines; every pair of them with every edit in between. `MaxFiles = 12` is above the
  longest worklist of the acyclic files; a circle reaches it and counts as never ending. Names are of lower case, of
  upper case, of both, or empty; the command is given in a directory named in upper case or in one of whose name nothing is left. One service mounts two
  directories on the same target, and types differ both at the top of a service and inside a dictionary of it: statements of `MergedInOrder` and `FailsForCause` that did not
  hold for all files passed on an instance without these.
* *LogStream.* Pipes of two bytes and lines of at most two make every line length around the
  limit (0, 1, 2, 3, 4, 9) and every cut of a two-byte character happen, in all portions.
* *Images.* Two replicas of one service, a service that shares their image, and one with a
  containerfile of its own; one permit or plenty; sources that are edited between commands.
* *Infractl.* Three infras, one needing another, two of them with a prepare hook; six argument lists with the
  needed infra first, last, missing, `all` and none. The number of commands is not bounded.

### Fairness

* `WF(Next)` of ServiceDeps and `WF(Step)` of Reading: parsing is one thread that does not block.
* `WF(Command)` of ComposeUp: asyncio runs a task that can run, and podman calls return;
  nothing forces a command to begin, be killed or find a condition satisfied. For
  `CommandEnds` the containers are cooperative: the health check of the database succeeds
  (`Flaky` is empty), the job exits. Without that a command may wait for ever, which is
  what the code does. One exception is left (`Missed`): when a dependency with `service_started` has run
  and exited before it is looked at, the loop at 2727 never ends. In up_some the application can come to this with the job.
* ComposeAttached assumes that main and the handler run while they can, that a process that has
  ended is noticed, that ten seconds pass, and that a container obeys SIGTERM unless it is
  in `Stubborn`; nothing is assumed about exits or health checks.
* LogStream: each pipe and its reader, and each process, goes on while it can. This is the
  event loop serving every task that is ready; the order is free.
* Images: main and each task go on while they can; podman returns, with success or failure.
* Resources and Infractl state safety only: a command that waits for a permit or a
  condition is the concern of the modules above.

Deadlock checking is off where stopping is legitimate: a file has been parsed
(ServiceDeps), an attached `up` has returned or waits for containers that do not exit, the
output has ended (LogStream), or (in `ComposeUpRecreate`, where nobody kills) a command waits for a dependency that has
exited. In the other runs TLC looks for deadlocks: there some command can always be given or killed.

### What the properties say, with their limits

* `UpIsCurrent`, `UpCompletes` are about an `up` of a whole stack where no other container
  of the project exists. An orphan can keep an old container alive (findings). `UpCompletes`
  says more of the moments in between: a container is never started, or waited for, that is not
  there, which would be for ever. It leaves out files for which `podman create` is given what was
  not asserted (`Assertable`): a directory that cannot be made, or the network of 991 below.
* `DownRemoves` is about projects whose containers agree with the given stack
  (`consistent`): their `--requires` lists are among its dependencies. This is what makes the
  reverse of the creation order a safe order of removal. `DownLeavesNothing` asks the same
  (`clean`), of a command that runs alone, and adds volumes, networks and the pod; it holds over the
  remains of killed commands.
* `OthersKept`: a command on some services leaves the others alone, although podman's
  `pod rm` would not. `--remove-orphans` is excluded: `down app --remove-orphans` removes the
  containers of all services of the project, also of those the file defines (2966).
* `RaceHasWinner` does not promise that two creators both succeed: `assert_volume` raises in
  the slower one (410). It promises that not both raise, unless a removal came in between.
* `LabelledUnlessRaced`: when a `down -v` removes a volume another command has asserted and
  not yet used, `podman create` makes it again without the labels `down -v` looks for, and no later
  `down -v` removes it. Only overlapping commands can do that.
* `TransferDone` covers what is surprising about `restart`, which follows no order: podman
  refuses to restart what requires a container that is down, and what was up is up again
  nevertheless.
* `LaunchesInOrder` in ComposeAttached holds while `down` of the handler runs beside the
  tasks, and with containers that come and go. It and `NothingLeftRunning` need a podman
  that waits for health checks (4.6.0 or newer). With an older one those conditions are skipped, podman
  starts what a container requires before the task of that one has had a permit, and an abort that
  cancels the task leaves the container running.
* `NothingLeftRunning` names its exceptions: containers that ignore SIGTERM (the process of
  `podman start -a` is killed, not the container); those podman has started again on behalf of
  another one; and, when Ctrl+C comes on top of an abort, those whose tasks are
  cancelled a second time and no longer wait for SIGTERM to be obeyed. `ShutdownEnds` asks for more
  permits than containers: with fewer, containers hold them all, and the handler of Ctrl+C
  may wait for a permit for `podman stop` for ever.
* `HashCoversServices` excepts services that extend one of another file: the hash is made
  before `extends` is resolved (2033), so an edit there is not seen by `up`.
* `ReadByLevels` counts a file once for each path of includes to it: a file that two others include is
  read twice, and its lists are appended twice.
* `NothingLost` speaks of what a reader has taken: `Podman.run` returns when the process
  exits and nobody waits for the readers (1535), so the tail of a log can be cut off at
  the end of the program (`ProgramEnds`). `RunsReturn` allows a dead reader: a byte that is no text, or the limit
  cutting a character in two, ends the task that empties the pipe, and podman blocks.
* `StatusTells` is about `build` and the build of `up`; `pull` and `push` ignore failures.
* `TempLeftForCause` names the two ways a containerfile is left behind: arguments that raise
  after it was written, and a task cancelled before podman ran.
* `ForgottenOnlyAfterDown` is about the latest start. After two starts, `stop` knows of the second
  alone and leaves the infras of the first running (`libinfractl.sh:479`), and it ignores its arguments while
  the files exist (`libinfractl.sh:268`). Nor does it promise that what is forgotten is down: `stop` does not look at the
  outcome of `podman-compose down` and removes the files (`libinfractl.sh:270` to 288), whatever that has left up
  (`left`). It promises that down was asked for, of all the latest start brought up.
* `FailsForCause` of Reading lists causes in the files: missing, no object, a required variable, a name, types, a base, a
  network or volume. Files that are no YAML, values that normalizing or the syntax of mounts and ports rejects, and
  `x-podman` are not in the model. `FailsForCause` of Resources is about commands that run alone.
* Some hazards are exceptions of the properties next to them, and nothing is claimed of them: two commands that
  create and remove the pod at once (2673), a volume that `podman create` makes again (2980), a base in another
  file (2033), the tail of a log (1535), orphans (2966), two starts (`libinfractl.sh:479`). `PROJECT.json`
  lists them without a property and says what happens.
* `PreparedUnlessTorn`: a prepare hook killed between `mkdir` and the file it writes is never
  repaired, because the next run sees the directory (`zookeeper/provision/pre/prepare.sh:8`).

Reading the code for the models also showed: the guard of `rec_deps` knows the start of the
recursion only, so a -> b -> c -> b ends in a `RecursionError` (the runs allow it for files with loops);
`up --no-deps` of a container that was created with `--requires` starts what it requires;
`run` brings up dependencies with `--remove-orphans` (3031); the name of an external network
given as a dictionary is asserted in one place and passed to podman from another (991:
`AssertedNetwork` and `GivenNetworks`, the instances have no such network).

## 4. Findings

| Property | What happens |
|---|---|
| `MergeUpdatesTargetOnly` | `clone` (1684) copies one level. Merging a base with a service that overrides the condition of the same dependency changes the condition of the base. |
| `RecreatesAlways` | `up --force-recreate` without an application that an earlier `up` created: the orphan requires the database, podman refuses to remove that, `create` fails unnoticed, and the old container is started (2812). |
| `AbortStopsAll` | A container that has exited is started again by podman when one that requires it is launched during the second before the tasks are cancelled; its own task is over, and it is left running (2890). |

## 5. Proofs

The theorems hold for every value of the constants allowed by the assumptions of the modules:
finite sets of names, parsed stacks and sensible command lines (`ServiceDepsAssumption`,
`PodmanAssumption`, `ComposeUpAssumption`); a hash that tells files apart, names of volumes,
networks and directories that are different things, and files that come out of parsing in order
and have external volumes and networks only (`ResourcesAssumption`, `PodmanObjectsAssumption`);
outputs that consist of bytes, a limit and a size of pipes above zero (`LogStreamAssumption`); infras that are directories (`InfractlAssumption`);
files whose lists are sequences (`ReadingAssumption`); at least one permit
(`ImagesAssumption`). TLC evaluates all of them in the runs.

* **ServiceDepsProofs.** `TypeCorrect`; for acyclic files `DepsClosedTheorem`,
  `OrderTopologicalTheorem`, `ExpandedIsFinalTheorem`, `NoRecursionErrorTheorem`,
  `DepsExactTheorem`, `BaseDependenciesInheritedTheorem`. The
  invariant of the code alone is not inductive: closure says nothing before parsing ends.
  `IInv` says, for every ranking r of the names that witnesses acyclicity: sets only
  contain names of lower rank (`Ranked`), the frames on the stack have strictly
  falling ranks (`StackInv`: so the recursion is no deeper than the number of services),
  everything a frame has taken from its copy has been merged but for the call that runs, and
  expanded services are closed (`ClosureInv`), and the outer loop misses nobody (`PhaseInv`). The ranking is
  universally quantified because the proof never has to choose one; `Acyclic` supplies it
  in the end (`AcyclicInv`). `OrderTopological` then follows from a fact about sets: a
  proper closed subset has a smaller cardinality (`LenSortIsTopological`). That nothing is in a
  set without a reason needs a second invariant on top (`ExactInv`): what is not a direct dependency
  came out of the set of an *expanded* direct dependency; a later return cannot take the reason away, because
  an expanded set is closed. For bases, `ResolveInv` says of the list that `resolve_extends` goes through that nobody
  in it is the base of somebody before it or done with; the list starts that way because the first pass counts
  a base as a dependency and the sort is topological (`SortOrders`).
* **ComposeUpProofs.** `TypeCorrect`, `DownRemovesTheorem`, `LaunchesInOrderTheorem`,
  `UpIsCurrentTheorem`, `OthersKeptTheorem`.
  `IInv` is `TypeOK`, `LoopInv` (in the loop of `up`, every selected container before the
  current position has been launched by this command; while it waits, every honoured
  dependency is either still waited for or has been observed) and `DownInv` (while `down`
  stops, everything selected that is up is still pending; while it removes, everything behind
  the position is gone, provided the project was consistent). The refinement of
  `LaunchOrder` uses that dependencies precede (`DependenciesPrecede`) and are
  selected (`DependenciesSelected`), which follow from `ParsedStack`: the two results
  of ServiceDeps. `CurrentInv` carries `UpIsCurrent`: when `up` recreates, everything selected is
  down as it comes to the pod, so either the pod goes with all containers or an orphan is up, and it
  stays up; from then on only `up` adds containers, and what podman requires of each is there.
  `OthersKept` needs `SelectionInv`: the stops `down` has pending are of selected services.
* **ComposeAttachedProofs.** `TypeCorrect` and, where podman waits for health checks (`HealthWaited`),
  `NothingLeftRunningTheorem`, `LaunchesInOrderTheorem`. What a task still waits for and what has been
  observed make up what it honours (`WantedInv`), podman requires no more than that
  (`RequiresInv`), so what has ever been up has been launched by its own task (`StartedInv`). What is up
  has its task attached or terminating, or was cancelled twice (`RunningInv`, with
  `TerminatedInv` for how the second time comes about); a task that is attached has a container that is
  up (`AttachedInv`), which is why a container started again with its task gone counts as revived; and
  what main no longer waits for is over (`CollectedInv`).
* **ResourcesProofs.** For any number of processes: `TypeCorrect`, `OutsideKeptTheorem`,
  `VolumesKeptTheorem`, `FailsForCauseTheorem`, `LabelledUnlessRacedTheorem`, `TransferDoneTheorem`,
  `DownLeavesNothingTheorem`, `UpCompletesTheorem`, `NotAllLoseTheorem`. `ControlInv` says where each
  process is and what it may be about to remove: only a `down -v` holds names of volumes, none of them a
  volume of a service it does not select, and only in the loops that remove. What was made
  outside never gets the label (`OutsideInv`), so it is never listed. A process that has met no other one
  sees nothing change between looking for an object and creating it (`AloneInv`), so it raises
  only for a cause in the file. Until commands overlap, every need of a container before the position
  is there, so `podman create` has nothing to make of its own accord (`LabelInv`).
  `RaceHasWinner` is about pairs, and of three processes two may lose: `RaceHasWinnerTheorem` is about
  exactly two, `NotAllLoseTheorem` the promise to any number. `RaceInv` behind both: at every moment one process has neither
  raised without a cause nor lost a race it has not noticed yet (it is about to make what is there), for
  whoever makes another one lose has just made the object itself, and what it made is still there
  when it looks again.
  The other four rest on `StoreInv`, of all processes together: a container that exists is of the pod, of some file that
  parses, and all it uses is there, because podman removes nothing in use. On top of it, for a
  process that runs alone: each task of `transfer_service_status` is still to come or has done what it is for
  (`TransferInv`); behind the loops of `down` nothing selected is up, then nothing exists, then the
  names listed cover all that bears the label (`DownInv`, `CleanInv`); of an `up` of the whole
  stack, containers before the position exist, all that exist are of the given file, and what is
  asserted for the current one is present (`UpInv`).
* **ReadingProofs.** For all files, edits and command lines: `HashCorrect`, `HashCoversServicesTheorem`,
  `ServiceOverBaseTheorem`, `QueueCorrect`, `ReadByLevelsTheorem`, `MergedInOrderTheorem`,
  `FailsForCauseTheorem`, `ExhaustedForCauseTheorem`. First that merging services gives services (`TypeInv`: a value of type list is a
  sequence), and that a merge that does not raise keeps what the source says, list by list and scalar by
  scalar (`OverMerged`); so each step of `resolve_extends` keeps what is said (`OverInv`). For the hash,
  `HashInv` says that the services done with solve the equations `ResolvedAs`, whose only data is
  what the hash is of, each after its base; induction along that order shows that there is one solution
  (`ResolvedUnique`), so neither the edits nor the order of the loop matter.
  For what is read and merged, the module begins with laws of sequences that are concatenated, mapped and
  filtered (`FlattenAppend`, `FlatMapConcat`, `FlatMapTwice`, `Recursion`), each by an induction over a
  *set* of numbers or sequences (`NatSets`, `SeqSets`), because the library's induction takes an operator.
  *Levels:* what has been read and what is pending is the list of files followed by the includes of
  what has been read (`IsQueue` in `QueueInv`), and each pending file is on some level; a queue that is empty has
  given the levels one after the other, each as long as the files left, and so the last one is
  empty (`Drained`): there is a result only without a circle. Without one, what the levels hold in all
  contains what its own files include, and the queue is always a beginning of it
  (`LevelsClosed`, `QueueWithin`), so memory is exhausted only by a circle or when the levels hold more than `MaxFiles`
  files (`ExhaustedForCauseTheorem`).
  *Merging:* after each file, a key of a service is the sum of what was said of it (`Sums` in
  `MergedInv`): the first file that says something of it is its sum (`SumsFirst`), and `rec_merge_one` adds
  one more (`SumsNext`). The hard case are the mounts: a file supersedes in a list that earlier files have merged and
  thinned out, and this has to be superseding in each of the lists they gave (`ListSums`, from
  `KeptTwice` and `KeptFlat`).
  *Failures:* unless the files give a key in two types, everything merged so far and every service that
  is resolved has only types of the files (`Fits` in `FitInv`), so no merge raises; what raises or exits is then a file
  that is on a level (`QueuedLevel`), a name, a base, or a network or volume that none of the files read declares. The
  name is of the first file, whichever is read last (`FirstInv`).
  Both statements had to be corrected on the way: superseding is between files and never
  within the list of one file, and types can differ inside a dictionary of a service too.
* **LogStreamProofs.** For all streams, outputs, limits and sizes of pipes: `LogTypeTheorem`,
  `NothingLostTheorem`, `PrefixPerLineTheorem`, `LinesApartTheorem`. What was printed of a
  stream is a recursive function of the standard output (`Kept`), so first come its laws: one
  more entry (`KeptAppend`), a sequence of entries of one stream (`KeptConcat`), one `print` (`Prints`).
  They need induction over numbers; the library's takes an operator, so `NatSets` states it for a set of
  numbers, from well-foundedness. `ReadableFacts` says what `_readchunk` takes, whichever way it
  returns, and `FormatCases` brings every iteration of `_format_stream` into one form (`FormatBy`). Then one
  invariant after the other: `LogTypeOK`; `ShownInv`, that `line_ongoing` is true exactly when the last line shown has no
  end, from which the prefixes follow; `PipesInv`; `FlowInv`, that shown, buffered and piped make up what
  was written, and that a reader at the end of the file has it all (`AllRead`); `ApartInv`, that without
  overlong lines the reader takes whole lines (`PartIsLine`), so that the shared output always
  ends with a line's end, and a reader dies only of a line that is no text.
* **InfractlProofs.** `TypeCorrect`, `ForgottenOnlyAfterDownTheorem`,
  `HooksBeforeForgettingTheorem`, `PreparedUnlessTornTheorem`. The file names everything the
  latest start brought up, both files agree once something has been started, and when a stop comes to removing the first
  file, what it names and is still up is in `left` (`FilesInv`); a prepared directory is empty exactly if its hook is
  between its two steps or was torn there (`PrepareInv`).
* **ImagesProofs.** `TypeCorrect`, `StatusTellsTheorem`, `TempLeftForCauseTheorem`. What a
  task that is done has come to outlasts later builds of the same image (`DoneInv`), the status tells of the
  failures among the tasks collected so far (`CollectInv`), and a containerfile is there
  only while its build is under way or for one of the two causes (`TempInv`).

Only model-checked: all liveness (`ParsingEnds`, `CommandEnds`, `ShutdownEnds`, `ReadingEnds`,
`RunsReturn`, `ImageCommandEnds`: fairness is out of the prover's reach). What is proved of `ReadingEnds` is its safety half: a
reading that stops has a result, fails for a cause (`FailsForCauseTheorem`) or has exhausted memory for one
(`ExhaustedForCauseTheorem`). Every invariant and action property a passing run checks
is stated by a theorem.

## 6. What is not modelled

* *Commands of one podman call*: exec, ps, logs (but for its output), config, port, kill, stats, images, systemd,
  wait. No state between calls. `run` is `up` of the dependencies and one call for a container of its own.
* *Options that are only passed on*: most of the arguments of `podman create` and
  `podman build`, labels and drivers of volumes and networks, `--in-pod=false`.
* *String processing*: short syntaxes (`normalize_service`), what substituting variables makes of a file that does not fail, `dicts`
  nested deeper than one level in Reading (what sharing them does is in ServiceDeps), the keys `reset` and `override`.
* *Several containers per service* in ComposeUp, ComposeAttached and Resources (Images has replicas); a second
  Ctrl+C but for `push`; attached `up` with containers left by an earlier command, or with `--remove-orphans`.
* *Post-setup hooks*: creation of databases and users after a poll of twenty tries whose
  outcome is ignored (`functions.sh:34`), the creator of the redis cluster. They run inside containers, and
  `start` does not depend on them.
* *Other commands of `infractl.sh`, `appctl.sh`, PowerShell twins, image recipes and workflows*: a
  call of another tool each, no state of their own.
* Python older than 3.11, where an abort cancels tasks that Ctrl+C has already cancelled.

## 7. What could be next

1. A service that extends one of another file: which services a changed file of that kind leaves stale, as
   a property of its own.
2. Replicas in ComposeUp: `deps_from_container` waits for all containers of a service.
3. Attached `up` over the remains of earlier commands.
4. `run` as a command of Resources, with a container that is none of the file's.
