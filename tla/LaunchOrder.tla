---------------------------- MODULE LaunchOrder ----------------------------
(***************************************************************************)
(* What "up" promises about the order of launches (the depends_on contract *)
(* the README bundles a patched podman-compose for): a container is        *)
(* launched only after each dependency of it has been launched by the same *)
(* command and has then been seen to satisfy its condition.                *)
(***************************************************************************)
EXTENDS FiniteSets

CONSTANTS Containers, Conditions

VARIABLES
  wanted,    \* wanted[c]: the dependencies <<container, condition>> of c
  launched,  \* containers the command has launched
  observed   \* dependencies seen satisfied after their launch

abstract == <<wanted, launched, observed>>

Dependencies == Containers \X Conditions

Init ==
  /\ wanted \in [Containers -> SUBSET Dependencies]
  /\ launched = {} /\ observed = {}

\* A new command.
Begin ==
  /\ wanted' \in [Containers -> SUBSET Dependencies]
  /\ launched' = {} /\ observed' = {}

Observe(d) ==
  /\ d[1] \in launched
  /\ observed' = observed \cup {d}
  /\ UNCHANGED <<wanted, launched>>

Launch(c) ==
  /\ wanted[c] \subseteq observed
  /\ launched' = launched \cup {c}
  /\ UNCHANGED <<wanted, observed>>

Next ==
  \/ Begin
  \/ \E d \in Dependencies : Observe(d)
  \/ \E c \in Containers : Launch(c)

Spec == Init /\ [][Next]_abstract
=============================================================================
