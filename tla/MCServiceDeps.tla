--------------------------- MODULE MCServiceDeps ---------------------------
(***************************************************************************)
(* Instances of ServiceDeps for TLC: the files are spelled as edges        *)
(* <<service, name>>, so that a small set of them covers the shapes that   *)
(* matter (chains, diamonds, missing services, loops, chains of extends).  *)
(***************************************************************************)
EXTENDS ServiceDeps

CONSTANTS a, b, c, d, x, Healthy

\* A file with depends_on edges E (Healthy for those in H), links L and
\* extends given by X.
MkFile(E, H, L, X) ==
  [depends_on |-> [s \in Services |-> [n \in Names |->
                     IF <<s, n>> \notin E THEN None
                     ELSE IF <<s, n>> \in H THEN Healthy ELSE Running]],
   links      |-> [s \in Services |-> {n \in Names : <<s, n>> \in L}],
   extends    |-> X]

NoBase == [s \in Services |-> None]

Below == {<<b, a>>, <<c, a>>, <<c, b>>, <<d, a>>, <<d, b>>, <<d, c>>}

\* Every acyclic dependency graph over four services, up to renaming; one
\* edge and one link may lead out of the file.
AcyclicFiles ==
  {MkFile(E, {<<c, a>>, <<d, b>>}, L, NoBase) :
     E \in SUBSET Below \cup {{<<b, a>>, <<c, b>>, <<a, x>>}, {<<b, x>>, <<d, b>>}},
     L \in {{}, {<<d, a>>}}}
  \cup {MkFile({<<c, b>>}, {}, {<<b, x>>}, NoBase)}

\* Three services with bases: every acyclic assignment of bases over a fixed
\* order, the base possibly missing, with dependencies of the base, of the
\* extending service, or both.
ExtendsFiles ==
  {MkFile(E, {<<b, a>>, <<c, x>>}, L, X) :
     E \in SUBSET {<<b, a>>, <<a, x>>, <<c, a>>, <<c, x>>},
     L \in {{}, {<<b, a>>}},
     X \in {[NoBase EXCEPT ![b] = p, ![c] = q] :
              p \in {None, a, b}, q \in {None, a, b, x}}}

\* Loops among four services next to acyclic files and files with bases.
AllFiles ==
  AcyclicFiles \cup ExtendsFiles \cup
  {MkFile(E, {<<b, c>>}, {}, NoBase) :
     E \in {{<<a, b>>, <<b, c>>, <<c, b>>}, {<<a, b>>, <<b, a>>},
            {<<a, b>>, <<b, c>>, <<c, d>>, <<d, a>>}}}

\* A service overrides the condition of a dependency its base has.
OverrideFiles ==
  {MkFile({<<b, a>>, <<c, a>>}, {<<b, a>>}, {}, [NoBase EXCEPT ![c] = b])}
=============================================================================
