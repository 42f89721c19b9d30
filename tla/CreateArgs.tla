----------------------------- MODULE CreateArgs -----------------------------
(***************************************************************************)
(* The arguments bin/podman_compose.py gives to podman create, as far as   *)
(* they decide what exists afterwards: the names of volumes and networks,  *)
(* which of them container_to_args asserts and in what order, and what     *)
(* makes it, or _parse_compose_file before it, raise.                      *)
(*                                                                         *)
(* Names are tuples: <<k>> is the key k of the file itself, and            *)
(* <<"project", k>> the key with the name of the project in front.  An     *)
(* empty tuple or string stands for an entry that is not there.            *)
(***************************************************************************)
EXTENDS Integers, Sequences, FiniteSets

-----------------------------------------------------------------------------
(* Entries of the top-level volumes and networks: external is "no", "yes", *)
(* a "string" or, in the old syntax, a "dict" with a name of its own       *)
(* (outer).                                                                *)

IsExternal(d) == d.external # "no"

VolumeName(k, d) ==
  CASE d.name # <<>> -> d.name
    [] d.name = <<>> /\ d.external = "no" -> <<"project", k>>
    [] d.name = <<>> /\ d.external = "dict" /\ d.outer # <<>> -> d.outer
    [] OTHER -> <<k>>

DefaultNetworkName(k, d) == IF IsExternal(d) THEN <<k>> ELSE <<"project", k>>

\* The name get_net_args gives to podman create.
GivenNetwork(k, d) == IF d.name # <<>> THEN d.name ELSE DefaultNetworkName(k, d)

\* The name assert_cnt_nets looks for, and creates.
AssertedNetwork(k, d) ==
  IF d.external = "dict" /\ d.outer # <<>> THEN d.outer ELSE GivenNetwork(k, d)

-----------------------------------------------------------------------------
(* A service as far as its container is concerned: mounts, networks,       *)
(* network_mode and the entries that can be wrong.                         *)

\* What parse_short_mount makes of the forms of a mount: a name, a directory
\* of the host, a path alone (no source), or an option nobody knows.
MountTypes == {"volume", "bind", "tmpfs", "other", "unknown option"}

\* The networks of a file, and the one of a service that names none.
GivenNets(f) == IF DOMAIN f.networks = {} THEN {"default"} ELSE DOMAIN f.networks

DefaultNet(f) ==
  IF Cardinality(GivenNets(f)) = 1 THEN CHOOSE n \in GivenNets(f) : TRUE
  ELSE IF "default" \in GivenNets(f) THEN "default" ELSE ""

NoEntry == [external |-> "no", name |-> <<>>, outer |-> <<>>]

NetworkEntry(f, k) == IF k \in DOMAIN f.networks THEN f.networks[k] ELSE NoEntry

\* The networks a container is put on by name; network_mode excludes them.
NetworksOf(f, c) ==
  LET s == f.services[c] IN
  CASE s.network_mode # "" -> <<>>
    [] s.network_mode = "" /\ s.networks # <<>> -> s.networks
    [] OTHER -> IF DefaultNet(f) = "" THEN <<>> ELSE <<DefaultNet(f)>>

\* get_mnt_dict: the name of a mount, whether it is to be created.
MountNeed(f, c, m) ==
  [kind |-> m.type,
   name |-> CASE m.type = "volume" /\ m.source = "" -> <<"project", c, m.target>>
              [] m.type = "volume" /\ m.source # "" ->
                   VolumeName(m.source, f.volumes[m.source])
              [] OTHER -> <<m.source>>,
   external |-> m.type = "volume" /\ m.source # "" /\ IsExternal(f.volumes[m.source])]

NetworkNeed(f, k) ==
  [kind |-> "network", name |-> AssertedNetwork(k, NetworkEntry(f, k)),
   external |-> IsExternal(NetworkEntry(f, k))]

\* What container_to_args asserts, in its order: volumes, then networks.
Needed(f, c) ==
  [n \in DOMAIN f.services[c].mounts |-> MountNeed(f, c, f.services[c].mounts[n])]
    \o [n \in DOMAIN NetworksOf(f, c) |-> NetworkNeed(f, NetworksOf(f, c)[n])]

\* What podman create is given.
GivenNetworks(f, c) ==
  {GivenNetwork(k, NetworkEntry(f, k)) :
     k \in {NetworksOf(f, c)[n] : n \in DOMAIN NetworksOf(f, c)}}
GivenMounts(f, c, kind) ==
  {Needed(f, c)[n].name : n \in {k \in DOMAIN Needed(f, c) : Needed(f, c)[k].kind = kind}}

\* The names of the volumes of a service (get_volume_names).
VolumeNames(f, c) == GivenMounts(f, c, "volume")

-----------------------------------------------------------------------------
(* What raises.                                                            *)

\* A network that is not declared, a volume that is not, a mount option or
\* a port that cannot be read: before any podman call.
PortRaises(p) == p.type = "other" \/ (p.type = "dict" /\ ~ p.target)

ParsingRaises(f) ==
  \E c \in DOMAIN f.services : LET s == f.services[c] IN
    \/ \E n \in DOMAIN s.networks : s.networks[n] \notin GivenNets(f)
    \/ \E m \in {s.mounts[n] : n \in DOMAIN s.mounts} :
         \/ m.type = "unknown option"
         \/ m.type = "volume" /\ m.source # "" /\ m.source \notin DOMAIN f.volumes
    \/ \E n \in DOMAIN s.ports : PortRaises(s.ports[n])

\* An env_file that is required and not there: before any assertion.
EnvironmentRaises(s) == s.env_file = "missing"

\* network_mode beside networks, one nobody knows, or that of a service not
\* in the file; a MAC address given for the container and for one of its
\* networks; a network whose "external" is a string, in which get_net_args
\* looks for a name.
NetworkArgsRaise(f, c) ==
  LET s == f.services[c] IN
  IF s.network_mode # ""
  THEN \/ s.networks # <<>> \/ s.network_mode = "unknown"
       \/ s.network_mode = "service" /\ s.network_service \notin DOMAIN f.services
  ELSE \/ {"container", "network"} \subseteq s.mac_address
       \/ \E n \in DOMAIN NetworksOf(f, c) :
            NetworkEntry(f, NetworksOf(f, c)[n]).external = "string"

\* A secret of a service: its source, its target ("" for none), its type;
\* declared with a file, or as external, perhaps under a name.
SecretRaises(f, x) ==
  \/ x.source \notin DOMAIN f.secrets
  \/ LET d == f.secrets[x.source] IN
     /\ ~ d.file
     /\ \/ ~ d.external /\ d.name = ""
        \/ d.name \notin {"", x.source}
        \/ x.target \notin {"", x.source} /\ x.type # "env"

\* test of a healthcheck is a string, or a list whose head says what it is.
HealthcheckRaises(h) ==
  \/ h.type = "other"
  \/ /\ ~ h.disable
     /\ \/ h.test = "other"
        \/ h.test = "list" /\ h.head \notin {"NONE", "CMD", "CMD-SHELL"}
        \/ h.test = "list" /\ h.head = "CMD-SHELL" /\ h.rest # 1

\* A limit is a scalar, or names soft or hard ones in a dictionary or list.
UlimitRaises(u) == u.type \in {"dict", "list"} /\ u.keys \cap {"soft", "hard"} = {}

\* Of graphics cards without ids there is a number, or there are all of them.
DeviceRaises(d) == d.nvidia /\ ~ d.ids /\ d.count = "other"

\* After the last assertion.
ArgsRaise(f, c) ==
  LET s == f.services[c] IN
  \/ NetworkArgsRaise(f, c)
  \/ \E n \in DOMAIN s.secrets : SecretRaises(f, s.secrets[n])
  \/ s.sysctls = "other"
  \/ \E k \in DOMAIN s.ulimits : UlimitRaises(s.ulimits[k])
  \/ \E n \in DOMAIN s.devices : DeviceRaises(s.devices[n])
  \/ HealthcheckRaises(s.healthcheck)
  \/ s.x_podman
=============================================================================
