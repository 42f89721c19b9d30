---------------------------- MODULE ServiceDeps ----------------------------
(***************************************************************************)
(* How bin/podman_compose.py turns the depends_on, links and extends       *)
(* entries of a compose file into the dependency set "_deps" of every      *)
(* service and into the order in which services are created: flat_deps,    *)
(* rec_deps, resolve_extends and the sorts of _parse_compose_file.         *)
(*                                                                         *)
(* rec_deps is modelled frame by frame because it updates the sets of the  *)
(* services it visits in place while its callers iterate over copies of    *)
(* theirs, and because Python visits a set of objects in any order.        *)
(***************************************************************************)
EXTENDS DepGraph

CONSTANTS
  Services,        \* names of the services of the merged compose file
  Names,           \* names a dependency may mention, defined or not
  Conditions,      \* conditions of a dependency (ServiceDependencyCondition)
  Running,         \* the condition "service_started" stands for
  None,            \* no entry
  Files,           \* the compose files to consider
  RecursionLimit   \* frames of rec_deps Python allows before RecursionError

Dependencies == Names \X Conditions

\* A compose file after normalize(): conditions of depends_on, names in
\* links, and the base each service extends.
ComposeFile ==
  [depends_on : [Services -> [Names -> Conditions \cup {None}]],
   links      : [Services -> SUBSET Names],
   extends    : [Services -> Names \cup {None}]]

ASSUME ServiceDepsAssumption ==
  /\ IsFiniteSet(Names) /\ IsFiniteSet(Conditions)
  /\ Services \subseteq Names
  /\ Running \in Conditions
  /\ None \notin Names \cup Conditions
  /\ Files \subseteq ComposeFile
  /\ RecursionLimit \in Nat \ {0}

VARIABLES
  file,        \* the compose file being parsed; never changes
  condition,   \* condition[s][d]: the "condition" entry of the dictionary
               \* the file gives service s for dependency d
  depends_on,  \* depends_on[s][d]: the service whose dictionary for d service
               \* s uses, None when s does not list d
  links,       \* links[s]: names of the links of s
  deps,        \* deps[s]: the set services[s]["_deps"]
  unexpanded,  \* services the loop of flat_deps has not reached
  expanded,    \* history: services for which a call of rec_deps returned
  stack,       \* frames of rec_deps: the service and the rest of deps.copy()
  order,       \* the sorted service names (still to resolve when pc = "resolve")
  pass,        \* 1: flat_deps(with_extends=True), 2: flat_deps()
  pc

vars == <<file, condition, depends_on, links, deps, unexpanded, expanded,
          stack, order, pass, pc>>

Frame == [svc : Services, todo : SUBSET Dependencies]
Top == stack[Len(stack)]
StartPoint == stack[1].svc

-----------------------------------------------------------------------------
(* The dependencies flat_deps collects before it expands them.             *)

DependsOn(s) ==
  {d \in Dependencies :
     /\ depends_on[s][d[1]] # None
     /\ d[2] = condition[depends_on[s][d[1]]][d[1]]}

\* A bug to catch: the base is ignored.
DirectDepsNoBase(s) == DependsOn(s) \cup {<<l, Running>> : l \in links[s]}

\* A bug to catch: links are added as names, not as dependencies.
DirectDepsBareLinks(s) ==
  IF pass = 1 /\ file.extends[s] # None
  THEN {<<e, Running>> : e \in {file.extends[s]} \ {s}}
  ELSE DependsOn(s) \cup links[s]

\* In the first pass a service that extends another depends on it alone.
DirectDeps(s) ==
  IF pass = 1 /\ file.extends[s] # None
  THEN {<<e, Running>> : e \in {file.extends[s]} \ {s}}
  ELSE DependsOn(s) \cup {<<l, Running>> : l \in links[s]}

Init ==
  /\ file \in Files
  /\ condition = file.depends_on
  /\ depends_on = [s \in Services |-> [d \in Names |->
                     IF file.depends_on[s][d] = None THEN None ELSE s]]
  /\ links = file.links
  /\ deps = [s \in Services |-> {}]
  /\ unexpanded = {} /\ expanded = {}
  /\ stack = <<>> /\ order = <<>>
  /\ pass = 1 /\ pc = "flat"

\* The first loop of flat_deps.
Collect ==
  /\ pc = "flat"
  /\ deps' = [s \in Services |-> DirectDeps(s)]
  /\ unexpanded' = Services /\ expanded' = {}
  /\ pc' = "expand"
  /\ UNCHANGED <<file, condition, depends_on, links, stack, order, pass>>

\* The first loop meets a link with an alias to a service that is not
\* defined: services[dep_name] raises KeyError.  Whether a link has an alias
\* is left open.
CollectFails ==
  /\ pc = "flat"
  /\ \E s \in Services : /\ pass = 2 \/ file.extends[s] = None
                         /\ ~ links[s] \subseteq Services
  /\ pc' = "KeyError"
  /\ UNCHANGED <<file, condition, depends_on, links, deps, unexpanded,
                 expanded, stack, order, pass>>

\* The second loop of flat_deps: rec_deps(services, s).
ExpandService(s) ==
  /\ pc = "expand" /\ stack = <<>> /\ s \in unexpanded
  /\ unexpanded' = unexpanded \ {s}
  /\ stack' = <<[svc |-> s, todo |-> deps[s]]>>
  /\ UNCHANGED <<file, condition, depends_on, links, deps, expanded, order,
                 pass, pc>>

\* A bug to catch: the guard against loops looks at the wrong end.
PassedForwards(d) ==
  d[1] \in {Top.svc} \cup (Names \ Services) \cup NamesOf(deps[StartPoint])

\* The three "continue"s of the loop of rec_deps.
Passed(d) ==
  d[1] \in {Top.svc} \cup (Names \ Services)
             \cup {s \in Services : StartPoint \in NamesOf(deps[s])}

\* A bug to catch: the loop starts over.
TakeNothing(d) == stack

\* One iteration of rec_deps takes d from its copy of the set.
TakeFromCopy(d) ==
  [stack EXCEPT ![Len(stack)] = [svc |-> @.svc, todo |-> @.todo \ {d}]]

PassOver(d) ==
  /\ pc = "expand" /\ stack # <<>> /\ d \in Top.todo
  /\ Passed(d)
  /\ stack' = TakeFromCopy(d)
  /\ UNCHANGED <<file, condition, depends_on, links, deps, unexpanded,
                 expanded, order, pass, pc>>

\* The recursive call rec_deps(services, dep_name.name, start_point).
Recurse(d) ==
  /\ pc = "expand" /\ stack # <<>> /\ d \in Top.todo
  /\ ~ Passed(d)
  /\ IF Len(stack) < RecursionLimit
     THEN /\ stack' = Append(TakeFromCopy(d), [svc |-> d[1], todo |-> deps[d[1]]])
          /\ UNCHANGED pc
     ELSE pc' = "RecursionError" /\ UNCHANGED stack
  /\ UNCHANGED <<file, condition, depends_on, links, deps, unexpanded,
                 expanded, order, pass>>

\* A bug to catch: the callee's set is updated from the caller's.
ReturnSwapped ==
  /\ pc = "expand" /\ stack # <<>> /\ Top.todo = {}
  /\ LET n == Len(stack) IN
     /\ stack' = SubSeq(stack, 1, n - 1)
     /\ deps' = IF n = 1 THEN deps
                ELSE [deps EXCEPT ![Top.svc] = @ \cup deps[stack[n-1].svc]]
  /\ expanded' = expanded \cup {Top.svc}
  /\ UNCHANGED <<file, condition, depends_on, links, unexpanded, order, pass, pc>>

\* rec_deps returns; the caller, if it is rec_deps, adds the returned set to
\* its own.
Return ==
  /\ pc = "expand" /\ stack # <<>> /\ Top.todo = {}
  /\ LET n == Len(stack) IN
     /\ stack' = SubSeq(stack, 1, n - 1)
     /\ deps' = IF n = 1 THEN deps
                ELSE [deps EXCEPT ![stack[n-1].svc] = @ \cup deps[Top.svc]]
  /\ expanded' = expanded \cup {Top.svc}
  /\ UNCHANGED <<file, condition, depends_on, links, unexpanded, order, pass, pc>>

\* A bug to catch: the sort counts the direct dependencies.
SortDirect ==
  /\ pc = "expand" /\ stack = <<>> /\ unexpanded = {}
  /\ order' \in LenSorted(Services, [s \in Services |-> DirectDeps(s)])
  /\ pc' = IF pass = 1 THEN "resolve" ELSE "done"
  /\ UNCHANGED <<file, condition, depends_on, links, deps, unexpanded,
                 expanded, stack, pass>>

\* The names are sorted by number of dependencies: after the first pass for
\* resolve_extends, after the second one for creating the containers.
Sort ==
  /\ pc = "expand" /\ stack = <<>> /\ unexpanded = {}
  /\ order' \in LenSorted(Services, deps)
  /\ pc' = IF pass = 1 THEN "resolve" ELSE "done"
  /\ UNCHANGED <<file, condition, depends_on, links, deps, unexpanded,
                 expanded, stack, pass>>

-----------------------------------------------------------------------------
(* resolve_extends: one iteration of its loop per service.  rec_merge      *)
(* copies the depends_on dictionary of the base one level deep only, so    *)
(* the merged service uses the base's own entry for every d both list, and *)
(* an override is written into it.                                         *)

Inherit(s, b) ==
  /\ depends_on' = [depends_on EXCEPT ![s] = [d \in Names |->
                      IF depends_on[b][d] # None THEN depends_on[b][d]
                                                 ELSE depends_on[s][d]]]
  /\ condition' = [t \in Services |-> [d \in Names |->
                     IF /\ depends_on[b][d] = t
                        /\ depends_on[s][d] # None
                     THEN condition[depends_on[s][d]][d]
                     ELSE condition[t][d]]]
  /\ links' = [links EXCEPT ![s] = @ \cup links[b]]

ResolveNext ==
  /\ pc = "resolve" /\ order # <<>>
  /\ LET s == Head(order)
         base == file.extends[s]
     IN  CASE base = None ->
                /\ UNCHANGED <<depends_on, condition, links, pc>>
                /\ order' = Tail(order)
           [] base \in Services ->
                /\ Inherit(s, base) /\ UNCHANGED pc
                /\ order' = Tail(order)
           [] OTHER ->              \* del {}["_deps"]
                /\ UNCHANGED <<depends_on, condition, links, order>>
                /\ pc' = "KeyError"
  /\ UNCHANGED <<file, deps, unexpanded, expanded, stack, pass>>

ResolveEnds ==
  /\ pc = "resolve" /\ order = <<>>
  /\ pc' = "flat" /\ pass' = 2
  /\ UNCHANGED <<file, condition, depends_on, links, deps, unexpanded,
                 expanded, stack, order>>

Next ==
  \/ Collect \/ CollectFails
  \/ \E s \in Services : ExpandService(s)
  \/ \E d \in Dependencies : PassOver(d) \/ Recurse(d)
  \/ Return \/ Sort
  \/ ResolveNext \/ ResolveEnds

Spec == Init /\ [][Next]_vars
FairSpec == Spec /\ WF_vars(Next)

-----------------------------------------------------------------------------
(* Properties.                                                             *)

TypeOK ==
  /\ file \in ComposeFile
  /\ condition \in [Services -> [Names -> Conditions \cup {None}]]
  /\ depends_on \in [Services -> [Names -> Services \cup {None}]]
  /\ links \in [Services -> SUBSET Names]
  /\ deps \in [Services -> SUBSET Dependencies]
  /\ unexpanded \in SUBSET Services
  /\ expanded \in SUBSET Services
  /\ stack \in Seq(Frame)
  /\ order \in Seq(Services)
  /\ pass \in {1, 2}
  /\ pc \in {"flat", "expand", "resolve", "done", "KeyError", "RecursionError"}

\* The names the entry of service s in file f mentions, its own name as the
\* base it extends aside (flat_deps and resolve_extends tolerate that).
Mentions(f, s) ==
  {d \in Names : f.depends_on[s][d] # None} \cup f.links[s]
    \cup ({f.extends[s]} \ {None, s})

\* r ranks every service above the names it mentions.
RankedBy(f, r) == \A s \in Services : \A d \in Mentions(f, s) : r[d] < r[s]

\* A file without circular references.
Acyclic(f) == \E r \in [Names -> 0..Cardinality(Names)] : RankedBy(f, r)

\* In a file without circular references every service ends up with its
\* direct dependencies and everything those depend on, and with nothing
\* else, in whatever order Python visits the sets it is updating.
DepsExact ==
  pc = "done" /\ Acyclic(file) =>
    \A s \in Services :
      deps[s] = DirectDeps(s) \cup
                UNION {deps[d[1]] : d \in {e \in DirectDeps(s) : e[1] \in Services}}

\* "_deps" is transitively closed, so a service that is started with all of
\* its dependencies (get_excluded) never waits for one that is left out.
DepsClosed ==
  pc = "done" /\ Acyclic(file) =>
    \A s \in Services : ClosedAt(Services, deps, s)

\* Sorting by the number of dependencies puts every service behind all the
\* services it depends on: compose_up creates containers in this order, and
\* podman refuses --requires of a container that does not exist yet.
OrderTopological ==
  pc = "done" /\ Acyclic(file) => Topological(order, deps)

\* resolve_extends meets a base before the services extending it, along
\* chains of any length: what the base depends on is inherited.
BaseDependenciesInherited ==
  pc = "done" /\ Acyclic(file) =>
    \A s \in Services :
      LET base == file.extends[s] IN
        base \in Services => NamesOf(DependsOn(base)) \subseteq NamesOf(DependsOn(s))

\* Where Python allows as many frames as there are services, rec_deps only
\* exhausts them in a file with circular references.
NoRecursionError ==
  pc = "RecursionError" =>
    ~ (Acyclic(file) /\ Cardinality(Services) <= RecursionLimit)

\* A caller of rec_deps holds the set of its callee, not a copy: once the
\* expansion of a service has returned, the rest of flat_deps leaves its set
\* alone.
ExpandedIsFinal ==
  [][pc = "expand" /\ (\E s \in expanded : deps'[s] # deps[s])
       => ~ Acyclic(file)]_vars

\* Parsing comes to an end, and only circular references end it with a
\* RecursionError.
ParsingEnds ==
  <>(\/ pc \in {"done", "KeyError"}
     \/ pc = "RecursionError" /\ ~ Acyclic(file))

\* "update target from source recursively" (rec_merge_one): merging a base
\* into the service that extends it updates that service; the conditions of
\* the dependencies the file gives a base stay as they are written.
MergeUpdatesTargetOnly ==
  \A s \in Services : file.extends[s] = None =>
    DependsOn(s) = {d \in Dependencies : d[2] = file.depends_on[s][d[1]]}
=============================================================================
