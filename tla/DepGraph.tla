------------------------------ MODULE DepGraph ------------------------------
(***************************************************************************)
(* Vocabulary shared by the modules that handle service dependencies of    *)
(* bin/podman_compose.py.  A ServiceDependency is the pair <<name, cond>>; *)
(* the "_deps" entry of every service is a function deps from services to  *)
(* sets of such pairs.                                                     *)
(***************************************************************************)
EXTENDS Integers, FiniteSets, Sequences

\* The names a set of dependencies mentions: [x.name for x in _deps].
NamesOf(D) == {d[1] : d \in D}

\* deps is closed at s: what the dependencies of s need, s needs as well.
ClosedAt(S, deps, s) ==
  \A d \in deps[s] : d[1] \in S => deps[d[1]] \subseteq deps[s]

\* No service depends on itself.
Irreflexive(S, deps) == \A s \in S : s \notin NamesOf(deps[s])

\* The lists sorted(..., key=len(_deps)) may return: every service once,
\* by number of dependencies; ties follow the order of the file.
LenSorted(S, deps) ==
  {o \in [1..Cardinality(S) -> S] :
     /\ \A i, j \in DOMAIN o : o[i] = o[j] => i = j
     /\ \A i, j \in DOMAIN o : i < j =>
          Cardinality(deps[o[i]]) <= Cardinality(deps[o[j]])}

\* Nobody precedes a service it depends on.
Topological(o, deps) ==
  \A i, j \in DOMAIN o : o[j] \in NamesOf(deps[o[i]]) => j < i
=============================================================================
