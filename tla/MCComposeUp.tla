---------------------------- MODULE MCComposeUp ----------------------------
(* Instances of ComposeUp for TLC: a database, a one-shot job that fills   *)
(* it, an application that waits for both, and a tool that needs nothing.  *)
EXTENDS ComposeUp

CONSTANTS db, tool, job, app

Line(op, st, services) ==
  [op |-> op, stack |-> st, services |-> services, force_recreate |-> FALSE,
   no_deps |-> FALSE, no_start |-> FALSE, remove_orphans |-> FALSE,
   health_wait |-> TRUE]

AllDeps == [c \in Containers |->
  CASE c \in {db, tool} -> {}
    [] c = job -> {<<db, "healthy">>}
    [] c = app -> {<<db, "healthy">>, <<db, "running">>, <<job, "stopped">>}]

\* In a later version of the stack the job needs the application.
TurnedDeps == [c \in Containers |->
  CASE c \in {db, tool} -> {}
    [] c = app -> {<<db, "healthy">>}
    [] c = job -> {<<db, "healthy">>, <<app, "running">>}]

\* The application waits only until the job has been started.
StartedDeps == [AllDeps EXCEPT ![app] = {<<db, "healthy">>, <<job, "running">>}]

\* Two versions of the whole stack, the stack without the application, and
\* the application whose dependencies are in no file given.
Whole == [config |-> "v1", order |-> <<db, tool, job, app>>, deps |-> AllDeps]
Turned == [config |-> "v2", order |-> <<db, app, job>>, deps |-> TurnedDeps]
Base == [config |-> "v3", order |-> <<db, job>>, deps |-> AllDeps]
Lone == [config |-> "v4", order |-> <<app>>, deps |-> AllDeps]
Started == [config |-> "v5", order |-> <<db, job, app>>, deps |-> StartedDeps]

Hashes == {"v1", "v2", "v3", "v4", "v5"}

WholeCommands ==
  {[Line("up", st, {}) EXCEPT !.force_recreate = f, !.no_start = n] :
     st \in {Whole, Turned}, f \in BOOLEAN, n \in BOOLEAN}
  \cup {Line("up", Base, {}), Line("up", Lone, {}),
        [Line("up", Base, {}) EXCEPT !.health_wait = FALSE],
        Line("down", Whole, {}), Line("down", Base, {}),
        [Line("down", Base, {}) EXCEPT !.remove_orphans = TRUE]}

SomeCommands ==
  {[Line("up", Whole, svcs) EXCEPT !.no_deps = n, !.force_recreate = f] :
     svcs \in {{job}, {app}}, n \in BOOLEAN, f \in BOOLEAN}
  \cup {Line("up", Turned, {job}), Line("up", Whole, {}),
        Line("down", Whole, {job}), Line("down", Whole, {app})}

MixedCommands ==
  {Line("up", Whole, {}), Line("up", Turned, {}), Line("up", Lone, {}),
   [Line("up", Whole, {app}) EXCEPT !.no_deps = TRUE],
   Line("down", Whole, {job}),
   [Line("down", Base, {}) EXCEPT !.remove_orphans = TRUE]}

\* Both, for commands that follow each other.
AnyCommands ==
  SomeCommands \cup MixedCommands \cup {Line("up", Started, {}), Line("up", Started, {app})}

\* The stack, recreated, and the same without the application.
RecreateCommands ==
  {[Line("up", st, {}) EXCEPT !.force_recreate = TRUE] : st \in {Whole, Base}}
=============================================================================
