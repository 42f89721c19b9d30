SPECIFICATION Spec
CONSTANTS
  etcd = etcd
  mariadb = mariadb
  nacos = nacos
  Infras = {etcd, mariadb, nacos}
  AllInfras <- Three
  All = All
  Needs <- NacosNeeds
  Seeded = {mariadb, etcd}
  Arguments <- Lines
  None = None
INVARIANTS
  TypeOK
  ForgottenOnlyAfterDown
  HooksBeforeForgetting
  PreparedUnlessTorn
