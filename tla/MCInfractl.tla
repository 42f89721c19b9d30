----------------------------- MODULE MCInfractl -----------------------------
(* An instance of Infractl for TLC: nacos needs mariadb, etcd is alone.    *)
EXTENDS Infractl

CONSTANTS etcd, mariadb, nacos

Three == <<etcd, mariadb, nacos>>
NacosNeeds == [i \in Infras |-> IF i = nacos THEN {mariadb} ELSE {}]

Lines == {<<>>, <<All>>, <<etcd>>, <<nacos>>, <<mariadb, nacos>>,
          <<nacos, mariadb>>}
=============================================================================
