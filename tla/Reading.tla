------------------------------ MODULE Reading ------------------------------
(***************************************************************************)
(* How bin/podman_compose.py reads compose files: the worklist of          *)
(* _parse_compose_file that included files are appended to, rec_merge, the *)
(* name of the project, profiles, the hash up compares, and                *)
(* resolve_extends.  The user edits files between commands.                *)
(*                                                                         *)
(* A path is a tuple, directories first.  A value is [t, v], its type and  *)
(* what it is; services are dictionaries of values, and a dictionary in    *)
(* one holds scalars only (what deeper ones share is in ServiceDeps).      *)
(* Of top-level networks and volumes only the names are kept, and of the   *)
(* names of projects which of their characters podman-compose keeps.       *)
(***************************************************************************)
EXTENDS Integers, FiniteSets, SequencesExt

CONSTANTS
  Paths,     \* files that may exist
  Directory, \* Directory[p]: the name of the directory p is in
  Disks,     \* what the files may contain
  Lines,     \* what the command line and the environment may say
  MaxFiles   \* bound: files after which memory is exhausted

\* A value of type list is a sequence.
IsValue(x) == /\ {"t", "v"} \subseteq DOMAIN x
              /\ x.t = "list" => x.v \in Seq(ToSet(x.v))
              /\ x.t = "dict" => \A j \in DOMAIN x.v : {"t", "v"} \subseteq DOMAIN x.v[j]
AreServices(srvs) ==
  \A s \in DOMAIN srvs : \A k \in DOMAIN srvs[s] : IsValue(srvs[s][k])

\* What rec_merge_one makes of values of different types: no type of a file's.
Raised == [t |-> "raised", v |-> << >>]

ServiceRaised(srv) ==
  \E k \in DOMAIN srv :
    \/ srv[k].t = Raised.t
    \/ srv[k].t = "dict" /\ \E j \in DOMAIN srv[k].v : srv[k].v[j].t = Raised.t

\* A name is made of runs of characters: those norm_re keeps, upper case,
\* others.
Runs == {"kept", "upper", "other"}

\* A file is missing, does not hold an object ("other"), or is a mapping with
\* services, include, name, the networks and volumes it declares (top) and
\* the variables it has to be given, ${X:?} (required); its kind says so.
ASSUME ReadingAssumption ==
  /\ \A d \in Disks : \A p \in Paths :
       /\ d[p].kind \in {"missing", "other", "mapping"}
       /\ d[p].kind = "mapping" =>
            /\ AreServices(d[p].services)
            /\ \A s \in DOMAIN d[p].services : ~ ServiceRaised(d[p].services[s])
            /\ d[p].include \in Seq(ToSet(d[p].include))
            /\ d[p].name \in Seq(Runs)
  /\ \A i \in Lines : i.files \in Seq(Paths) /\ i.project \in Seq(Runs) /\ i.environ \in Seq(Runs)
  /\ Directory \in [Paths -> Seq(Runs)]
  /\ MaxFiles \in Nat /\ MaxFiles > Cardinality(Paths)

VARIABLES
  disk,      \* the files
  line,      \* the current command
  pc,
  pending,   \* what files_iter has left of files
  read,      \* history: the files read, in order
  compose,   \* the merged object: services, networks and volumes, include
  project,   \* name of the project, <<>> until the first file is read
  hash,      \* what yaml_hash is the hash of
  extending, \* services resolve_extends has not come to
  services,  \* the services, resolved as far as extending says
  last       \* history: hash and services of the command before

vars == <<disk, line, pc, pending, read, compose, project, hash, extending,
          services, last>>

Empty == << >>
Finished == {"done", "exit", "raised", "exhausted"}

Nothing == [services |-> Empty, top |-> {}, include |-> <<>>]

Kind(p) == IF p \in Paths THEN disk[p].kind ELSE "missing"

\* os.path.join(os.path.dirname(p), i)
Joined(p, i) == Front(p) \o i

\* What of seq is in T, in its order: SelectSeq, of which nothing can be proved.
Kept(seq, T) ==
  FlattenSeq([n \in DOMAIN seq |-> IF seq[n] \in T THEN <<seq[n]>> ELSE <<>>])

-----------------------------------------------------------------------------
(* rec_merge.                                                              *)

\* A bug to catch: the earlier mounts stay.
SupersededNone(value, value2) == value

\* The mounts of value for whose targets value2 has none; only the short
\* syntax with a source has a ":".
Superseded(value, value2) ==
  LET pts == {m.target : m \in {x \in ToSet(value2) : x.form = "short"}}
  IN Kept(value, {x \in ToSet(value) : ~ (x.form = "short" /\ x.target \in pts)})

\* The keys of both; merged: what becomes of those in common.
MergedKeys(target, source, merged) ==
  [k \in DOMAIN target \cup DOMAIN source |->
     IF k \notin DOMAIN source THEN target[k]
     ELSE IF k \notin DOMAIN target THEN source[k] ELSE merged[k]]

Common(target, source) == DOMAIN target \cap DOMAIN source

\* Keys whose later value is taken as it is.
Replaced == {"command", "entrypoint"}

MergeScalars(value, value2) ==
  MergedKeys(value, value2, [k \in Common(value, value2) |->
    IF k \in Replaced \/ value[k].t = value2[k].t THEN value2[k] ELSE Raised])

MergeValue(k, value, value2) ==
  CASE k \in Replaced -> value2
    [] k \notin Replaced /\ value.t # value2.t -> Raised
    [] OTHER ->
         CASE value.t = "list" ->
                [value EXCEPT !.v =
                   (IF k = "volumes" THEN Superseded(@, value2.v) ELSE @) \o value2.v]
           [] value.t = "dict" ->
                [value EXCEPT !.v = MergeScalars(@, value2.v)]
           [] OTHER -> value2

MergeService(target, source) ==
  MergedKeys(target, source, [k \in Common(target, source) |->
    MergeValue(k, target[k], source[k])])

RecMerge(target, source) ==
  MergedKeys(target, source, [k \in Common(target, source) |->
    MergeService(target[k], source[k])])

-----------------------------------------------------------------------------

Init ==
  /\ disk \in Disks
  /\ line \in Lines
  /\ pc = "start"
  /\ pending = <<>> /\ read = <<>>
  /\ compose = Nothing
  /\ project = <<>>
  /\ hash = Empty /\ extending = {} /\ services = Empty
  /\ last = <<>>

\* The user edits files and gives the next command.
Again ==
  /\ pc \in Finished
  /\ disk' \in Disks /\ line' \in Lines
  /\ pc' = "start"
  /\ pending' = <<>> /\ read' = <<>>
  /\ compose' = Nothing
  /\ project' = <<>>
  /\ hash' = Empty /\ extending' = {} /\ services' = Empty
  /\ last' = IF pc = "done" THEN <<[hash |-> hash, services |-> services]>> ELSE <<>>

Existing == {p \in Paths : disk[p].kind # "missing"}

\* Of COMPOSE_FILE and the usual names those that exist are taken.
Files == IF line.given THEN line.files ELSE Kept(line.files, Existing)

\* Files given with -f have to exist.
Start ==
  /\ pc = "start"
  /\ IF Files = <<>> \/ ~ ToSet(Files) \subseteq Existing
     THEN pc' = "exit" /\ UNCHANGED pending
     ELSE pc' = "read" /\ pending' = Files
  /\ UNCHANGED <<disk, line, read, compose, project, hash, extending, services, last>>

\* norm_re keeps lower case, digits, "-" and "_".
Normalized(name) == Kept(name, {"kept"})

Lowered(name) == [n \in DOMAIN name |-> IF name[n] = "upper" THEN "kept" ELSE name[n]]

\* A bug to catch: the name of the directory is not put into lower case.
GivenNameAsIs(content) ==
  CASE line.environ # <<>> -> line.environ
    [] line.environ = <<>> /\ content.name # <<>> -> content.name
    [] OTHER -> Directory[Head(Files)]

\* COMPOSE_PROJECT_NAME, the name the first file gives, or its directory.
GivenName(content) ==
  CASE line.environ # <<>> -> line.environ
    [] line.environ = <<>> /\ content.name # <<>> -> content.name
    [] OTHER -> Lowered(Directory[Head(Files)])

\* What -p says is taken as it is.
ProjectName(content) ==
  IF line.project # <<>> THEN line.project ELSE Normalized(GivenName(content))

\* rec_subs finds all variables that the file has to be given.
Supplied(p) == disk[p].required \subseteq line.variables

\* extends.file of the services of p is made relative to p.
Relocated(p, srv) ==
  IF "extends" \in DOMAIN srv /\ "file" \in DOMAIN srv["extends"].v
  THEN [srv EXCEPT !["extends"].v["file"].v = Joined(p, @)]
  ELSE srv

\* A bug to catch: include stays in compose.
TakeIncludeKept(p, merged, include) ==
  /\ compose' = [services |-> merged, top |-> compose.top \cup disk[p].top, include |-> include]
  /\ pending' = Tail(pending) \o [n \in DOMAIN include |-> Joined(p, include[n])]

\* A bug to catch: included files come next.
TakeIncludeFirst(p, merged, include) ==
  /\ compose' = [services |-> merged, top |-> compose.top \cup disk[p].top, include |-> <<>>]
  /\ pending' = [n \in DOMAIN include |-> Joined(p, include[n])] \o Tail(pending)

\* What was included is appended to files and deleted from compose.
TakeInclude(p, merged, include) ==
  /\ compose' = [services |-> merged, top |-> compose.top \cup disk[p].top, include |-> <<>>]
  /\ pending' = Tail(pending) \o [n \in DOMAIN include |-> Joined(p, include[n])]

\* One iteration of the loop over files_iter.
ReadFile ==
  /\ pc = "read" /\ pending # <<>> /\ Len(read) < MaxFiles
  /\ LET p == Head(pending)
         content == disk[p]
         name == IF project = <<>> THEN ProjectName(content) ELSE project
         merged == RecMerge(compose.services,
                            [s \in DOMAIN content.services |->
                               Relocated(p, content.services[s])])
     IN CASE Kind(p) = "missing" ->
               pc' = "raised" /\ UNCHANGED <<pending, read, compose, project>>
          [] Kind(p) = "other" ->
               pc' = "exit" /\ UNCHANGED <<pending, read, compose, project>>
          [] Kind(p) = "mapping" ->
               /\ read' = Append(read, p)
               /\ project' = name
               /\ IF \/ name = <<>> \/ ~ Supplied(p)
                     \/ \E s \in DOMAIN merged : ServiceRaised(merged[s])
                  THEN pc' = "raised" /\ UNCHANGED <<pending, compose>>
                  ELSE /\ TakeInclude(p, merged, compose.include \o content.include)
                       /\ UNCHANGED pc
  /\ UNCHANGED <<disk, line, hash, extending, services, last>>

\* Files that include each other are read until memory is exhausted.
Exhaust ==
  /\ pc = "read" /\ pending # <<>> /\ Len(read) = MaxFiles
  /\ pc' = "exhausted"
  /\ UNCHANGED <<disk, line, pending, read, compose, project, hash, extending,
                 services, last>>

\* _resolve_profiles: services without profiles, or with one of those wanted.
Profiles(srv) == IF "profiles" \in DOMAIN srv THEN ToSet(srv["profiles"].v) ELSE {}

Selected(defined) ==
  LET names == {s \in DOMAIN defined :
                  Profiles(defined[s]) = {} \/ Profiles(defined[s]) \cap line.profiles # {}}
  IN [s \in names |-> defined[s]]

\* A bug to catch: the hash is of the first file.
HashedFirst(all) == Selected(disk[read[1]].services)

\* What yaml_hash is made from: the services that are selected, their bases
\* not resolved.
Hashed(all) == Selected(all)

FilesEnd ==
  /\ pc = "read" /\ pending = <<>>
  /\ services' = Selected(compose.services)
  /\ hash' = Hashed(compose.services)
  /\ extending' = DOMAIN services'
  /\ pc' = "extend"
  /\ UNCHANGED <<disk, line, pending, read, compose, project, last>>

-----------------------------------------------------------------------------
(* resolve_extends.  The order of its loop, bases first, is in ServiceDeps.*)

Extends(srv, k) ==
  IF "extends" \in DOMAIN srv /\ k \in DOMAIN srv["extends"].v
  THEN {srv["extends"].v[k].v} ELSE {}

BasesOf(s) ==
  IF Extends(services[s], "file") = {} THEN Extends(services[s], "service") ELSE {}

Without(srv, key) == [k \in DOMAIN srv \ {key} |-> srv[k]]

\* The base in another file, empty if that has none; in the same one.
FileBase(p, name) ==
  IF name \in DOMAIN disk[p].services THEN disk[p].services[name] ELSE Empty

\* A bug to catch: base over service.
ExtendedUnder(base, srv) == MergeService(MergeService(Empty, srv), base)

Extended(base, srv) == MergeService(MergeService(Empty, base), srv)

ExtendService(s) ==
  /\ pc = "extend" /\ s \in extending
  /\ BasesOf(s) \cap (extending \ {s}) = {}
  /\ LET srv == services[s]
         bases ==
           {IF Extends(srv, "file") = {} THEN Without(services[b], "extends")
            ELSE FileBase(CHOOSE p \in Extends(srv, "file") : TRUE, b) :
              b \in {n \in Extends(srv, "service") :
                       \/ Extends(srv, "file") # {}
                            /\ \A p \in Extends(srv, "file") : Kind(p) = "mapping" /\ Supplied(p)
                       \/ Extends(srv, "file") = {} /\ n \in DOMAIN services}}
         new == {Extended(base, srv) : base \in bases}
     IN IF Extends(srv, "service") = {}
        THEN extending' = extending \ {s} /\ UNCHANGED <<services, pc>>
        ELSE IF new = {} \/ \E n \in new : ServiceRaised(n)
        THEN pc' = "raised" /\ UNCHANGED <<services, extending>>
        ELSE /\ services' = [services EXCEPT ![s] = CHOOSE n \in new : TRUE]
             /\ extending' = extending \ {s}
             /\ UNCHANGED pc
  /\ UNCHANGED <<disk, line, pending, read, compose, project, hash, last>>

Networks(srv) ==
  IF "networks" \notin DOMAIN srv THEN {}
  ELSE CASE srv["networks"].t = "list" -> ToSet(srv["networks"].v)
         [] srv["networks"].t = "dict" -> DOMAIN srv["networks"].v
         [] srv["networks"].t = "null" -> {}
         [] OTHER -> {srv["networks"].v}

\* The mounts of named volumes, replaced or not by those of other files.
Volumes(srv) ==
  IF "volumes" \notin DOMAIN srv THEN {}
  ELSE {m.source : m \in {x \in ToSet(srv["volumes"].v) : x.type = "volume" /\ x.source # ""}}

Uses(srv) == ({"networks"} \X Networks(srv)) \cup ({"volumes"} \X Volumes(srv))

\* Without any other network there is the default one.
Declared(top) ==
  top \cup IF \E t \in top : t[1] = "networks" THEN {} ELSE {<<"networks", "default">>}

\* The networks and volumes of the services that are left are looked up.
ExtendsEnd ==
  /\ pc = "extend" /\ extending = {}
  /\ pc' = IF \A s \in DOMAIN services : Uses(services[s]) \subseteq Declared(compose.top)
           THEN "done" ELSE "raised"
  /\ UNCHANGED <<disk, line, pending, read, compose, project, hash, extending,
                 services, last>>

Step ==
  \/ Start \/ ReadFile \/ Exhaust \/ FilesEnd
  \/ \E s \in extending : ExtendService(s)
  \/ ExtendsEnd

Next == Again \/ Step

\* Parsing is one thread that nothing in the program interrupts.
Spec == Init /\ [][Next]_vars /\ WF_vars(Step)

-----------------------------------------------------------------------------
(* Properties.                                                             *)

Includes(p) == IF Kind(p) # "mapping" THEN <<>>
               ELSE [n \in DOMAIN disk[p].include |-> Joined(p, disk[p].include[n])]

\* The files of the command line, then, level by level, what the files of the
\* level before include, in their order.
Levels ==
  LET level[n \in 1..MaxFiles + 1] ==
        IF n = 1 THEN Files
        ELSE LET l == level[n - 1] IN FlattenSeq([m \in DOMAIN l |-> Includes(l[m])])
  IN level

\* No file leads back to itself.
Acyclic == Levels[MaxFiles + 1] = <<>>

\* Files that do not include each other in a circle come to an end, with a
\* result or an error message: appending to the list that is iterated over
\* does not go on for ever (the comment of the loop tells of a time when it
\* did).
ReadingEnds == (pc = "start" /\ Acyclic) ~> (pc \in {"done", "exit", "raised"})

\* A result has every file in it, level by level, once for each path of
\* includes that leads to it: a file that two others include is read twice.
\* In a circle there is none.
ReadByLevels ==
  pc \in {"extend", "done"} =>
    Acyclic /\ read = FlattenSeq(Levels)

\* What the files say of key k of service s, in the order they were read.
Says(p, s, k) ==
  IF s \in DOMAIN disk[p].services /\ k \in DOMAIN disk[p].services[s]
  THEN <<disk[p].services[s][k]>> ELSE <<>>

Said(s, k) == FlattenSeq([n \in DOMAIN read |-> Says(read[n], s, k)])

\* What is said of key k, one after the other, comes to val: a scalar is that
\* of the last one, in a dictionary too, a list has what each of them gives,
\* in order; but mounts with the same target as one of a later file are left
\* out.
ComesTo(k, said, val) ==
  LET SameTarget(x, y) == {x.form, y.form} = {"short"} /\ x.target = y.target
      Left(n) == {x \in ToSet(said[n].v) :
                    \A m \in n + 1 .. Len(said) : \A y \in ToSet(said[m].v) :
                      ~ SameTarget(x, y)}
      Saying(j) == {n \in DOMAIN said : j \in DOMAIN said[n].v}
  IN CASE k \notin Replaced /\ val.t = "list" ->
            val.v = FlattenSeq([n \in DOMAIN said |->
                      IF k = "volumes" THEN Kept(said[n].v, Left(n)) ELSE said[n].v])
       [] k \notin Replaced /\ val.t = "dict" ->
            /\ DOMAIN val.v = UNION {DOMAIN said[n].v : n \in DOMAIN said}
            /\ \A j \in DOMAIN val.v : \E n \in Saying(j) :
                 /\ \A m \in Saying(j) : m <= n
                 /\ val.v[j] = said[n].v[j]
       [] OTHER -> val = Last(said)

\* However files are split over -f and include, included files later than all
\* that include them, a service has the keys that some file says, and what
\* all of them say of each.
MergedInOrder ==
  pc = "extend" /\ extending = DOMAIN services =>
    \A s \in DOMAIN services :
      /\ DOMAIN services[s] =
           UNION {DOMAIN disk[p].services[s] :
                    p \in {q \in ToSet(read) : s \in DOMAIN disk[q].services}}
      /\ \A k \in DOMAIN services[s] \ {"extends"} : ComesTo(k, Said(s, k), services[s][k])

\* Two commands in a row that come to the same hash have the same services,
\* whatever was edited meanwhile, so a container up leaves alone is what the
\* files now say: unless a service extends one of another file, which the
\* hash does not cover.
HashCoversServices ==
  pc = "done" /\ last # <<>> /\ last[1].hash = hash =>
      \/ last[1].services = services
      \/ \E s \in DOMAIN hash : Extends(hash[s], "file") # {}

\* What a service says itself is kept over what its base says, along chains
\* and across files.
ServiceOverBase ==
  pc = "done" =>
    \A s \in DOMAIN hash : \A k \in DOMAIN hash[s] :
      CASE hash[s][k].t = "list" -> k = "command" \/ IsSuffix(hash[s][k].v, services[s][k].v)
        [] hash[s][k].t = "dict" ->
             \A j \in DOMAIN hash[s][k].v : services[s][k].v[j] = hash[s][k].v[j]
        [] OTHER -> services[s][k] = hash[s][k]

\* The types of what a service says, in dictionaries too.
Typed(srv) ==
  {<< <<k>>, srv[k].t >> : k \in DOMAIN srv \ Replaced}
  \cup UNION {{<< <<k, j>>, srv[k].v[j].t >> : j \in DOMAIN srv[k].v \ Replaced} :
                k \in {i \in DOMAIN srv \ Replaced : srv[i].t = "dict"}}

\* Files of the command line and what they include, and those of bases.
Needed == ToSet(FlattenSeq(Levels))
          \cup UNION {Extends(services[s], "file") : s \in DOMAIN services}

\* The first of COMPOSE_PROJECT_NAME, the name in the first file and the name
\* of its directory that is not empty has nothing a project may be named by;
\* upper case counts in a directory alone.
Nameless ==
  /\ line.project = <<>>
  /\ LET given == disk[Head(Files)].name
     IN \/ line.environ # <<>> /\ "kept" \notin ToSet(line.environ)
        \/ line.environ = <<>> /\ given # <<>> /\ "kept" \notin ToSet(given)
        \/ /\ line.environ = <<>> /\ given = <<>>
           /\ ToSet(Directory[Head(Files)]) \subseteq {"other"}

\* Reading fails only for what the user has to mend: a file that is missing,
\* is no object or requires a variable that is not set, a name of which
\* nothing is left, a key that services give in two types, a base that is not
\* among the services selected, a network or volume that is used and declared
\* in none of the files read.
\* Not considered are files that are no YAML, keys with values that
\* normalizing or the syntax of mounts and ports rejects, and x-podman.
FailsForCause ==
  pc \in {"exit", "raised"} =>
    LET Bad(p) == Kind(p) # "mapping" \/ ~ Supplied(p)
        mappings == {disk[p] : p \in {x \in Paths : Kind(x) = "mapping"}}
        given == UNION {UNION {Typed(d.services[s]) : s \in DOMAIN d.services} : d \in mappings}
    IN \/ \A n \in DOMAIN line.files : Kind(line.files[n]) = "missing"
       \/ \E p \in Needed : Bad(p)
       \/ Kind(Head(Files)) = "mapping" /\ Nameless
       \/ \E s \in DOMAIN services : ~ BasesOf(s) \subseteq DOMAIN services
       \/ \E s \in DOMAIN services :
            ~ Uses(services[s]) \subseteq Declared(UNION {disk[p].top : p \in ToSet(read)})
       \/ \E x, y \in given : x[1] = y[1] /\ x[2] # y[2]
=============================================================================
