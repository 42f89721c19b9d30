----------------------------- MODULE Selection -----------------------------
(***************************************************************************)
(* What a command line of podman-compose selects from a parsed compose     *)
(* file, and what the selected containers wait for: get_excluded,          *)
(* deps_from_container and the loop over conditions of                     *)
(* check_dep_conditions (bin/podman_compose.py).                           *)
(*                                                                         *)
(* Every service has one container, as in the descriptors of .infra; the   *)
(* container carries the name of its service.                              *)
(***************************************************************************)
EXTENDS Podman, DepGraph

Dependencies == Containers \X Conditions

\* A parsed compose file: its hash, compose.containers, and their "_deps".
Stack == [config : Configs,
          order  : Seq(Containers),
          deps   : [Containers -> SUBSET Dependencies]]

\* A command line.  health_wait: podman is 4.6.0 or newer.
Invocation ==
  [op : {"up", "down"}, stack : Stack, services : SUBSET Containers,
   force_recreate : BOOLEAN, no_deps : BOOLEAN, no_start : BOOLEAN,
   remove_orphans : BOOLEAN, health_wait : BOOLEAN]

Members(st) == {st.order[i] : i \in DOMAIN st.order}

\* What _parse_compose_file guarantees of a file without circular references
\* (DepsClosed and OrderTopological of ServiceDeps; container names are the
\* keys of a dictionary).
ParsedStack(st) ==
  /\ \A i, j \in DOMAIN st.order : st.order[i] = st.order[j] => i = j
  /\ Topological(st.order, st.deps)
  /\ \A c \in Members(st) : ClosedAt(Members(st), st.deps, c)

\* The services args select, and what they need unless --no-deps (the
\* complement of get_excluded).
Included(i) ==
  IF i.services = {} THEN Members(i.stack)
  ELSE Members(i.stack) \cap
       (i.services \cup
        IF i.no_deps THEN {} ELSE UNION {NamesOf(i.stack.deps[s]) : s \in i.services})

Excludes(i) == Included(i) # Members(i.stack)

DepsOf(i, c) == IF i.no_deps THEN {} ELSE i.stack.deps[c]

\* The dependencies check_dep_conditions waits for.
Honoured(i, c) ==
  {d \in DepsOf(i, c) : d[2] \in {"healthy", "unhealthy"} => i.health_wait}

\* Of the dependencies W still to be seen, those of the condition whose turn
\* it is: one podman wait.
Turn(W) == {d \in W : \A e \in W : Rank(d[2]) <= Rank(e[2])}

\* A bug to catch: containers of another configuration are not noticed.
RecreatesWhenForced(i) == i.force_recreate /\ Existing # {}

\* up -d finds a container of another configuration, or any container when
\* it is told to recreate.
Recreates(i) ==
  \/ i.force_recreate /\ Existing # {}
  \/ \E c \in Existing : config[c] # i.stack.config

\* The containers that exist were made with dependencies the stack has, and
\* none outside the selection requires a selected one.
Consistent(i) ==
  \A c \in Existing :
    /\ requires[c] \subseteq NamesOf(i.stack.deps[c])
    /\ c \notin Included(i) => requires[c] \cap Included(i) = {}
=============================================================================
