---------------------------- MODULE MCResources ----------------------------
(* Instances of Resources for TLC: a database with a directory of the host *)
(* and an application with an anonymous volume and one of the user's.      *)
EXTENDS Resources, TLC

CONSTANTS db, app, p1, p2

Plain == [mounts |-> <<>>, networks |-> <<>>, network_mode |-> "",
          network_service |-> "", ulimits |-> << >>, devices |-> <<>>,
          mac_address |-> {}, ports |-> <<>>, env_file |-> "", secrets |-> <<>>,
          sysctls |-> "none", x_podman |-> FALSE,
          healthcheck |-> [type |-> "dict", disable |-> FALSE, test |-> "none",
                           head |-> "", rest |-> 0]]

Mount(type, source) == [type |-> type, source |-> source, target |-> "/t"]
External == [NoEntry EXCEPT !.external = "yes"]

Both ==
  [config |-> "v1", order |-> <<db, app>>,
   deps |-> [c \in Containers |-> IF c = app THEN {<<db, "running">>} ELSE {}],
   volumes |-> [shared |-> External],
   networks |-> << >>, secrets |-> << >>,
   services |-> [c \in Containers |->
     IF c = db THEN [Plain EXCEPT !.mounts = <<Mount("bind", "dir")>>]
     ELSE [Plain EXCEPT !.mounts = <<Mount("volume", "shared"), Mount("volume", "")>>]]]

\* The application alone is left, and its health check cannot be read.
Broken ==
  [Both EXCEPT !.config = "v2", !.order = <<app>>,
   !.deps = [c \in Containers |-> {}],
   !.services[app] = [Plain EXCEPT !.mounts = <<Mount("volume", "")>>,
                                   !.healthcheck.test = "other"]]

Hashes == {"v1", "v2"}
VolumeSet == {<<"project", app, "/t">>, <<"shared">>}
NetworkSet == {<<"project", "default">>}
DirSet == {<<"dir">>}
OutsideSet == {<<"shared">>}

Line(op, f, services) ==
  [op |-> op, stack |-> f, services |-> services, force_recreate |-> FALSE,
   no_deps |-> FALSE, no_start |-> FALSE, remove_orphans |-> FALSE,
   health_wait |-> TRUE, volumes |-> FALSE]

AllCommands ==
  {Line("up", Both, {}), Line("up", Broken, {}),
   [Line("down", Both, {}) EXCEPT !.volumes = TRUE, !.remove_orphans = TRUE],
   [Line("down", Both, {db}) EXCEPT !.volumes = TRUE],
   Line("start", Both, {}), Line("stop", Both, {db}), Line("restart", Both, {})}
Pair == Permutations(Procs)
=============================================================================
