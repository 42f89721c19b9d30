-------------------------- MODULE ComposeAttached --------------------------
(***************************************************************************)
(* podman-compose up without -d, from the moment all containers of a fresh *)
(* project have been created: one asyncio task per container waits for its *)
(* dependencies and stays attached to the container; the main task waits   *)
(* for them and, with --abort-on-container-exit, cancels them; Ctrl+C runs *)
(* down in a task of its own (bin/podman_compose.py: compose_up, its       *)
(* handle_sigint, run_container, Podman.run, Podman.output).               *)
(*                                                                         *)
(* A call of podman holds a permit of the semaphore of --parallel while it *)
(* runs.  Calls other than "start -a" and "wait" are one step.             *)
(***************************************************************************)
EXTENDS Selection, Integers

CONSTANTS
  Sessions,   \* the command lines to consider
  Stubborn    \* containers that outlive SIGTERM by ten seconds

\* limit: permits of the semaphore, the default is sys.maxsize.
Session ==
  [up : Invocation, abort : BOOLEAN, exit_code_from : Containers \cup {None},
   limit : Nat \ {0}]

ASSUME ComposeAttachedAssumption ==
  /\ IsFiniteSet(Containers)
  /\ Stubborn \subseteq Containers
  /\ None \notin Containers
  /\ Sessions \subseteq Session
  /\ \A s \in Sessions : /\ s.up.op = "up" /\ ~ s.up.no_start /\ ~ s.up.remove_orphans
                         /\ s.up.services \subseteq Members(s.up.stack)
                         /\ ParsedStack(s.up.stack)
                         \* --exit-code-from implies --abort-on-container-exit
                         /\ s.exit_code_from # None => s.abort

VARIABLES
  session,   \* the command line; never changes
  task,      \* task[c]: where run_container of container c is
  waiting,   \* waiting[c]: dependencies it has not seen satisfied yet
  tasks,     \* containers whose tasks main still waits for
  finished,  \* containers whose tasks woke main up before it slept a second
  main,      \* where the main task is
  exiting,   \* main has cancelled the tasks
  handler,   \* where handle_sigint is, "none" until Ctrl+C
  pending,   \* containers its down still has to stop
  signalled, \* containers that have been sent SIGTERM
  idx,       \* and the position of the one it removes next
  launched,  \* history: containers a task has started
  observed,  \* history: dependencies a task has waited for
  revived    \* history: containers podman has started because another one
             \* requires them, after their own task had ended

history == <<launched, observed, revived>>
control == <<session, task, waiting, tasks, finished, main, exiting, handler,
             pending, signalled, idx>>
vars == <<store, control, history>>

Order == session.up.stack.order
Selected == Included(session.up)

\* Podman processes that run, each with a permit.
Holding == {c \in Containers :
              task[c] \in {"waiting", "attached", "ended", "terminating"}}
Permit == Cardinality(Holding) < session.limit

Over == {"done", "failed", "cancelled"}
Ended == main \in {"returned", "raised"}

Init ==
  /\ session \in Sessions
  /\ ctr = [c \in Containers |->
              IF c \in Selected THEN "created" ELSE "absent"]
  /\ requires = [c \in Containers |->
                   IF c \in Selected
                   THEN NamesOf(DepsOf(session.up, c)) \cap Members(session.up.stack)
                   ELSE {}]
  /\ config = [c \in Containers |->
                 IF c \in Selected THEN session.up.stack.config ELSE None]
  /\ task = [c \in Containers |-> IF c \in Selected THEN "check" ELSE "none"]
  /\ waiting = [c \in Containers |->
                  IF c \in Selected THEN Honoured(session.up, c) ELSE {}]
  /\ tasks = Selected /\ finished = {} /\ main = "wait" /\ exiting = FALSE
  /\ handler = "none" /\ pending = {} /\ signalled = {} /\ idx = 0
  /\ launched = {} /\ observed = {} /\ revived = {}

-----------------------------------------------------------------------------
(* The task of container c.                                                *)

\* check_dep_conditions calls podman wait for the next condition.
WaitBegins(c) ==
  /\ task[c] = "check" /\ waiting[c] # {} /\ Permit
  /\ NamesOf(Turn(waiting[c])) \subseteq Members(session.up.stack)
  /\ task' = [task EXCEPT ![c] = "waiting"]
  /\ UNCHANGED <<store, session, waiting, tasks, finished, main, exiting,
                 handler, pending, signalled, idx, history>>

\* KeyError: the service is in no file given.
CheckFails(c) ==
  /\ task[c] = "check"
  /\ ~ NamesOf(Turn(waiting[c])) \subseteq Members(session.up.stack)
  /\ task' = [task EXCEPT ![c] = "failed"]
  /\ UNCHANGED <<store, session, waiting, tasks, finished, main, exiting,
                 handler, pending, signalled, idx, history>>

\* podman wait sees d satisfied, and returns if it was the last one.
Observe(c, d) ==
  /\ task[c] = "waiting" /\ d \in Turn(waiting[c])
  /\ NamesOf(Turn(waiting[c])) \subseteq Existing
  /\ Satisfies(d[1], d[2])
  /\ waiting' = [waiting EXCEPT ![c] = @ \ {d}]
  /\ task' = IF Turn(waiting[c]) = {d} THEN [task EXCEPT ![c] = "check"] ELSE task
  /\ observed' = observed \cup {d}
  /\ UNCHANGED <<store, session, tasks, finished, main, exiting, handler,
                 pending, signalled, idx, launched, revived>>

\* When podman wait fails, all containers of the condition are waited for
\* again, a second later.
Again(c) ==
  waiting[c] \cup
  {d \in Honoured(session.up, c) : \E e \in Turn(waiting[c]) : d[2] = e[2]}

\* One of the containers does not exist.
WaitFails(c) ==
  /\ task[c] = "waiting"
  /\ ~ NamesOf(Turn(waiting[c])) \subseteq Existing
  /\ task' = [task EXCEPT ![c] = "check"]
  /\ waiting' = [waiting EXCEPT ![c] = Again(c)]
  /\ UNCHANGED <<store, session, tasks, finished, main, exiting, handler,
                 pending, signalled, idx, history>>

\* A bug to catch: "start -a" does not count as a start.
LaunchAtOnce(c) ==
  /\ task[c] = "check" /\ Permit
  /\ PodmanStart(c)
  /\ task' = [task EXCEPT ![c] = IF Exists(c) THEN "attached" ELSE "ended"]
  /\ launched' = launched \cup {c}
  /\ revived' = revived \cup
       {d \in requires[c] : Exists(c) /\ ~ Up(d) /\ task[d] \in Over \cup {"ended"}}
  /\ UNCHANGED <<session, waiting, tasks, finished, main, exiting, handler,
                 pending, signalled, idx, observed>>

\* podman start -a; it ends at once if the container is gone.
Launch(c) ==
  /\ task[c] = "check" /\ waiting[c] = {} /\ Permit
  /\ PodmanStart(c)
  /\ task' = [task EXCEPT ![c] = IF Exists(c) THEN "attached" ELSE "ended"]
  /\ launched' = launched \cup {c}
  /\ revived' = revived \cup
       {d \in requires[c] : Exists(c) /\ ~ Up(d) /\ task[d] \in Over \cup {"ended"}}
  /\ UNCHANGED <<session, waiting, tasks, finished, main, exiting, handler,
                 pending, signalled, idx, observed>>

\* The process attached to c ends when c does.
Detached(c) ==
  IF task[c] \in {"attached", "terminating"}
  THEN [task EXCEPT ![c] = "ended"] ELSE task

\* Podman.run returns; also when it was cancelled meanwhile.
Reap(c) ==
  /\ task[c] = "ended"
  /\ task' = [task EXCEPT ![c] = "done"]
  /\ UNCHANGED <<store, session, waiting, tasks, finished, main, exiting,
                 handler, pending, signalled, idx, history>>

\* A bug to catch: the process is left alone.
CancelOnly(state) ==
  CASE state \in {"check", "waiting", "attached", "terminating"} -> "cancelled"
    [] OTHER -> state

\* Task.cancel(): Podman.run answers the first one by terminating its
\* process, Podman.output and a second one do not.
Cancel(state) ==
  CASE state \in {"check", "waiting", "terminating"} -> "cancelled"
    [] state = "attached" -> "terminating"
    [] OTHER -> state

\* After ten seconds the process is killed, not the container.
Kill(c) ==
  /\ task[c] = "terminating" /\ c \in Stubborn
  /\ task' = Detached(c)
  /\ UNCHANGED <<store, session, waiting, tasks, finished, main, exiting,
                 handler, pending, signalled, idx, history>>

-----------------------------------------------------------------------------
(* The main task: the loop around asyncio.wait.                            *)

Done == {c \in tasks : task[c] \in Over}

\* When main ends, asyncio.run cancels what is left, the handler included.
\* That ends the handler while it waits for stops or for a permit; a call of
\* rm is terminated, and the handler goes on after it.
HandlerCut ==
  \/ /\ handler = "stop" \/ (handler = "rm" /\ ~ Permit)
     /\ handler' = "cut" /\ UNCHANGED idx
  \/ /\ handler = "rm" /\ Permit /\ idx > 0
     /\ idx' \in {idx, idx - 1} /\ UNCHANGED handler
  \/ /\ handler = "rm" /\ Permit /\ idx = 0
     /\ handler' \in {"rm", "cancel"} /\ UNCHANGED idx
  \/ handler \notin {"stop", "rm"} /\ UNCHANGED <<handler, idx>>

\* The tasks of C are cancelled; those attached pass SIGTERM on.
CancelAll(C) == [c \in Containers |-> IF c \in C THEN Cancel(task[c]) ELSE task[c]]
Signals(C) == signalled \cup {c \in C : task[c] = "attached"}

\* The end of an iteration: t are the tasks as the iteration leaves them,
\* done those it looks at.  result() raises what the task has raised.
Conclude(done, rest, t) ==
  /\ tasks' = rest
  /\ IF \E c \in done : c = session.exit_code_from /\ t[c] \in {"failed", "cancelled"}
     THEN /\ main' = "raised"
          /\ task' = [c \in Containers |-> IF c \in rest THEN Cancel(t[c]) ELSE t[c]]
          /\ HandlerCut
     ELSE /\ task' = t
          /\ IF rest = {} THEN main' = "returned" /\ HandlerCut
                          ELSE main' = "wait" /\ UNCHANGED <<handler, idx>>

\* Tasks have ended: without --abort-on-container-exit, or once that has
\* cancelled the others, main goes on with the rest.
MainCollects ==
  /\ main = "wait" /\ Done # {} /\ (session.abort => exiting)
  /\ Conclude(IF session.abort THEN Done ELSE {}, tasks \ Done, task)
  /\ UNCHANGED <<store, session, waiting, finished, exiting, pending, signalled,
                 history>>

\* The first tasks to end with --abort-on-container-exit: main sleeps a
\* second ...
MainSleeps ==
  /\ main = "wait" /\ Done # {} /\ session.abort /\ ~ exiting
  /\ main' = "sleep" /\ finished' = Done /\ tasks' = tasks \ Done
  /\ UNCHANGED <<store, session, task, waiting, exiting, handler, pending,
                 signalled, idx, history>>

\* ... and cancels the rest, but for those Ctrl+C has cancelled (Python 3.11
\* or newer).
MainAborts ==
  /\ main = "sleep"
  /\ exiting' = TRUE
  /\ signalled' = Signals(tasks)
  /\ Conclude(finished, tasks, CancelAll({c \in tasks : task[c] # "terminating"}))
  /\ finished' = {}
  /\ UNCHANGED <<store, session, waiting, pending, history>>

-----------------------------------------------------------------------------
(* handle_sigint: down of what is selected, then the tasks are cancelled.  *)

\* The calls of podman wait when a terminal sends SIGINT to them as well.
Waits == {c \in Containers : task[c] = "waiting"}

\* Ctrl+C.  A second one is left out.
Interrupt ==
  /\ handler = "none" /\ ~ Ended
  /\ handler' = "stop" /\ pending' = Selected /\ idx' = Len(Order)
  /\ \E hit \in {{}, Waits} :
       /\ task' = [c \in Containers |-> IF c \in hit THEN "check" ELSE task[c]]
       /\ waiting' = [c \in Containers |-> IF c \in hit THEN Again(c) ELSE waiting[c]]
  /\ UNCHANGED <<store, session, tasks, finished, main, exiting, signalled, history>>

\* What was cut short may have reached podman.
HandlerStops(c) ==
  /\ handler \in {"stop", "cut"} /\ c \in pending /\ Permit
  /\ PodmanStop(c)
  /\ task' = IF Up(c) THEN Detached(c) ELSE task
  /\ pending' = pending \ {c} /\ signalled' = signalled \ {c}
  /\ UNCHANGED <<session, waiting, tasks, finished, main, exiting, handler, idx,
                 history>>

HandlerGathers ==
  /\ handler = "stop" /\ pending = {}
  /\ handler' = "rm"
  /\ UNCHANGED <<store, session, task, waiting, tasks, finished, main, exiting,
                 pending, signalled, idx, history>>

HandlerRemoves ==
  /\ handler = "rm" /\ idx > 0 /\ Permit
  /\ IF Order[idx] \in Selected THEN PodmanRm(Order[idx]) ELSE UNCHANGED store
  /\ idx' = idx - 1
  /\ UNCHANGED <<session, task, waiting, tasks, finished, main, exiting,
                 handler, pending, signalled, history>>

HandlerRemovesPod ==
  /\ handler = "rm" /\ idx = 0 /\ Permit
  /\ IF Excludes(session.up) THEN UNCHANGED store ELSE PodmanPodRm
  /\ handler' = "cancel"
  /\ UNCHANGED <<session, task, waiting, tasks, finished, main, exiting,
                 pending, signalled, idx, history>>

\* A bug to catch: the tasks are forgotten.
HandlerReturns ==
  /\ handler = "cancel"
  /\ handler' = "ended"
  /\ UNCHANGED <<store, session, task, waiting, tasks, finished, main, exiting,
                 pending, signalled, idx, history>>

HandlerCancels ==
  /\ handler = "cancel"
  /\ handler' = "ended"
  /\ task' = CancelAll(tasks) /\ signalled' = Signals(tasks)
  /\ UNCHANGED <<store, session, waiting, tasks, finished, main, exiting,
                 pending, idx, history>>

-----------------------------------------------------------------------------
(* Containers.                                                             *)

Healths ==
  /\ \E c \in Containers : BecomeHealthy(c) \/ BecomeUnhealthy(c)
  /\ UNCHANGED <<control, history>>

Exits(c) ==
  /\ Exit(c)
  /\ task' = Detached(c) /\ signalled' = signalled \ {c}
  /\ UNCHANGED <<session, waiting, tasks, finished, main, exiting, handler,
                 pending, idx, history>>

\* SIGTERM has reached the container through podman start -a.
Obeys(c) ==
  /\ c \in signalled \ Stubborn /\ Up(c)
  /\ PodmanStop(c)
  /\ task' = Detached(c) /\ signalled' = signalled \ {c}
  /\ UNCHANGED <<session, waiting, tasks, finished, main, exiting, handler,
                 pending, idx, history>>

TaskSteps(c) ==
  \/ WaitBegins(c) \/ CheckFails(c) \/ WaitFails(c)
  \/ \E d \in Dependencies : Observe(c, d)
  \/ Launch(c) \/ Reap(c) \/ Kill(c)

MainSteps == MainCollects \/ MainSleeps \/ MainAborts

HandlerSteps ==
  \/ \E c \in Containers : HandlerStops(c)
  \/ HandlerGathers \/ HandlerRemoves \/ HandlerRemovesPod \/ HandlerCancels

Next ==
  \/ \E c \in Containers : TaskSteps(c) \/ Exits(c) \/ Obeys(c)
  \/ MainSteps \/ Interrupt \/ HandlerSteps \/ Healths

Spec == Init /\ [][Next]_vars

\* asyncio runs what can run, ten seconds pass, SIGTERM is obeyed.
FairSpec ==
  /\ Spec /\ WF_vars(MainSteps) /\ WF_vars(~ Ended /\ HandlerSteps)
  /\ \A c \in Containers : WF_vars(Reap(c) \/ Kill(c)) /\ WF_vars(Obeys(c))

-----------------------------------------------------------------------------
(* Properties.                                                             *)

\* What the tasks want to see before they launch a container.
Wanted ==
  [c \in Containers |-> IF c \in Selected THEN Honoured(session.up, c) ELSE {}]

LaunchOrderPromise == INSTANCE LaunchOrder WITH wanted <- Wanted

\* The concurrent tasks keep the promise of LaunchOrder, too, while health
\* checks can be waited for; also while Ctrl+C takes containers down.
LaunchesInOrder == LaunchOrderPromise!Spec

\* When up returns, by itself, after --abort-on-container-exit or after
\* Ctrl+C, nothing it has started is left running, while health checks can
\* be waited for, but for containers that ignore SIGTERM and those podman
\* started again for another one.  Ctrl+C
\* after --abort-on-container-exit cancels a task twice: its container may
\* still be about to obey SIGTERM.
NothingLeftRunning ==
  main = "returned" =>
    \A c \in Containers \ (Stubborn \cup revived) :
      Up(c) => handler # "none" /\ exiting /\ c \in signalled

\* After Ctrl+C or the first exit with --abort-on-container-exit up comes to
\* an end, if there are permits left for the calls of down.
ShutdownEnds ==
  (exiting \/ (handler # "none" /\ session.limit > Cardinality(Selected))) ~> Ended

-----------------------------------------------------------------------------
(* Properties the code does not have.                                      *)

\* "Stops all containers if any container was stopped."
\* (--abort-on-container-exit of up), for containers that obey SIGTERM.
AbortStopsAll ==
  main = "returned" /\ session.abort /\ handler = "none" =>
    \A c \in Selected \ Stubborn : ~ Up(c)
=============================================================================
