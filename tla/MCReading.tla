----------------------------- MODULE MCReading -----------------------------
(* Instances of Reading for TLC: two files of the command line and two in  *)
(* a directory below, with and without includes of each other.             *)
EXTENDS Reading

a == <<"a">>
b == <<"b">>
c == <<"sub", "c">>
d == <<"sub", "d">>

PathSet == {a, b, c, d}

Str(x) == [t |-> "str", v |-> x]
Num(x) == [t |-> "int", v |-> x]
List(x) == [t |-> "list", v |-> x]
Dict(x) == [t |-> "dict", v |-> x]
Null == [t |-> "null", v |-> <<>>]
Short(source, target) ==
  [form |-> "short", type |-> "bind", source |-> source, target |-> target]
Named(source, target) == [Short(source, target) EXCEPT !.type = "volume"]
Bare(target) == [form |-> "bare", type |-> "volume", source |-> "", target |-> target]

\* "demo", "DEMO", "Demo".
lower == <<"kept">>
upper == <<"upper">>
mixed == <<"upper", "kept">>

\* The command is given in a directory named in upper case; the one below
\* has a name without any letter norm_re knows.
DirectoryOf == [p \in PathSet |-> IF p \in {a, b} THEN upper ELSE <<"other">>]

File(srvs, include) ==
  [kind |-> "mapping", services |-> srvs, include |-> include, name |-> lower,
   top |-> {}, required |-> {}]
NoFile == [kind |-> "missing"]
NoObject == [kind |-> "other"]

\* The application, on a base that only a profile selects.
OfA(base) ==
  [web |-> [image |-> Str("a"), ports |-> List(<<"1">>),
            volumes |-> List(<<Short("x", "/t"), Bare("/u"), Short("w", "/t"), Short("x", "/v")>>),
            environment |-> Dict([K |-> Str("a"), L |-> Str("a")]),
            extends |-> Dict(base)],
   base |-> [image |-> Str("base"), ports |-> List(<<"0">>),
             volumes |-> List(<<Short("base", "/v"), Bare("/u")>>),
             environment |-> Dict([K |-> Str("base"), M |-> Str("base")]),
             command |-> List(<<"base">>),
             profiles |-> List(<<"extra">>)]]
InFile == [service |-> Str("base")]
InOther == [service |-> Str("base"), file |-> Str(<<"sub", "d">>)]

OfB(image) ==
  [web |-> [image |-> image, ports |-> List(<<"2">>), command |-> List(<<"b">>),
            volumes |-> List(<<Short("y", "/t"), Bare("/u")>>)]]
OfC(L) ==
  [web |-> [ports |-> List(<<"3">>), environment |-> Dict([L |-> L]),
            command |-> List(<<"c">>), volumes |-> List(<<Short("z", "/v")>>)]]
OfD(image) == [base |-> [image |-> Str(image), ports |-> List(<<"4">>)]]

\* Services that use networks and a volume; of one file all networks are
\* given in the same type.
OnFront == [web |-> [networks |-> List(<<"front", "default">>), volumes |-> List(<<Named("x", "/t")>>)]]
OnBack == [web |-> [networks |-> List(<<"back">>), volumes |-> List(<<Named("y", "/t")>>)]]
OnDefault == [web |-> [networks |-> Dict([default |-> Null])], job |-> [image |-> Str("job")]]
OnFrontOnly == [web |-> [networks |-> Str("front")]]
OnNone == [web |-> [networks |-> Null]]

\* Includes are relative to the file they are in.
DiskOf(fa, fb, fc, fd) ==
  [p \in PathSet |-> CASE p = a -> fa [] p = b -> fb [] p = c -> fc [] p = d -> fd]

FilesOfA == {File(OfA(InFile), <<c>>), File(OfA(InOther), <<>>), File(OfA(InFile), <<b, c>>)}
FilesOfB == {File(OfB(Str("b")), <<>>), File(OfB(Str("b")), <<c>>), File(OfB(Num("b")), <<>>)}
FilesOfC == {File(OfC(Str("c")), <<>>), File(OfC(Str("c")), << <<"d">> >>)}

DiskSet ==
  {DiskOf(fa, fb, fc, File(OfD("d"), <<>>)) :
     fa \in FilesOfA, fb \in FilesOfB, fc \in FilesOfC}
  \cup {DiskOf(File(OfA(InOther), <<c>>), File(OfB(Str("b")), <<>>), fc, fd) :
          fc \in FilesOfC \cup {NoFile},
          fd \in {File(OfD("e"), << <<"c">> >>), NoObject}}
  \cup {DiskOf([File(OfA(InFile), <<>>) EXCEPT !.name = n], NoFile, fc, NoFile) :
          n \in {<<>>, upper, mixed},
          fc \in {File(OfC(Num("c")), <<>>), [File(OfC(Str("c")), <<>>) EXCEPT !.name = <<>>]}}
  \cup {DiskOf([File(OfA(InOther), <<>>) EXCEPT !.required = {"TAG"} \ x], File(OfB(Str("b")), <<>>),
               NoFile, [File(OfD("d"), <<>>) EXCEPT !.required = x]) : x \in {{}, {"TAG"}}}
  \cup {DiskOf([File(OnFront, <<>>) EXCEPT !.top = t],
               [File(OnBack, <<>>) EXCEPT !.top = {<<"networks", "back">>, <<"volumes", "y">>}],
               NoFile, NoFile) :
          t \in {{}, {<<"networks", "default">>, <<"networks", "front">>}}}
  \cup {DiskOf(File(srvs, <<>>), NoFile, NoFile, NoFile) : srvs \in {OnDefault, OnFrontOnly, OnNone}}

Line(files, given, profiles) ==
  [files |-> files, given |-> given, profiles |-> profiles,
   project |-> <<>>, environ |-> <<>>, variables |-> {}]

LineSet ==
  {Line(<<a, b>>, TRUE, {"extra"}),
   [Line(<<b, a>>, FALSE, {}) EXCEPT !.variables = {"TAG"}],
   [Line(<<c, b>>, FALSE, {}) EXCEPT !.project = upper],
   Line(<<c>>, FALSE, {}),
   [Line(<<a>>, TRUE, {"extra"}) EXCEPT !.environ = upper],
   [Line(<<a, c>>, TRUE, {"extra"}) EXCEPT !.environ = lower]}
=============================================================================
