------------------------- MODULE MCComposeAttached -------------------------
(* Instances of ComposeAttached for TLC: a database, a one-shot job that   *)
(* fills it, and an application that waits for both.                       *)
EXTENDS ComposeAttached

CONSTANTS db, job, app

AllDeps == [c \in Containers |->
  CASE c = db -> {}
    [] c = job -> {<<db, "healthy">>}
    [] c = app -> {<<db, "healthy">>, <<db, "running">>, <<job, "stopped">>}]

Whole == [config |-> "v1", order |-> <<db, job, app>>, deps |-> AllDeps]
\* The application depends on services in no file given.
Lone == [config |-> "v1", order |-> <<db, app>>, deps |-> AllDeps]

Hashes == {"v1"}

Line(st, services, no_deps) ==
  [op |-> "up", stack |-> st, services |-> services, force_recreate |-> FALSE,
   no_deps |-> no_deps, no_start |-> FALSE, remove_orphans |-> FALSE,
   health_wait |-> TRUE]

Plain(up) == [up |-> up, abort |-> FALSE, exit_code_from |-> None, limit |-> 9]

\* With two permits three containers never run together.
AllSessions ==
  {[Plain(Line(Whole, {}, FALSE)) EXCEPT !.abort = a, !.limit = n] :
     a \in BOOLEAN, n \in {2, 9}}
  \cup {[up |-> Line(st, {}, FALSE), abort |-> TRUE, exit_code_from |-> c, limit |-> 9] :
          st \in {Whole, Lone}, c \in {db, app}}
  \cup {Plain(Line(Whole, {job}, FALSE)), Plain(Line(Whole, {app}, TRUE))}

\* --abort-on-container-exit alone.
AbortSessions == {[Plain(Line(Whole, {}, FALSE)) EXCEPT !.abort = TRUE]}
=============================================================================
