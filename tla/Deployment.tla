---------------------------- MODULE Deployment ----------------------------
(***************************************************************************)
(* One deployment: main of speedling/sl.py with the model that slos/sl.py  *)
(* builds and the tasks of slos/*.py.  The components compose (credentials *)
(* and peers for the nodes, users and schemas for the services), the nodes *)
(* get their part once, and then every goal runs in a thread of its own,   *)
(* waits for other tasks and calls do_ functions on nodes.                 *)
(*                                                                         *)
(* A task is a sequence of steps: it needs (starts) tasks, wants (starts   *)
(* and waits for) tasks, or makes calls.  Calls without a wait between     *)
(* them are one step.  The threads themselves are in TaskEngine and what   *)
(* a call_do is made of is in Control; here both are atomic.               *)
(*                                                                         *)
(* A command has what it needs of the cloud and what it gives to it, both  *)
(* read off the command and its configuration.                             *)
(***************************************************************************)
EXTENDS Naturals, Sequences, FiniteSets

CONSTANTS
  Node,        \* the machines
  Cases        \* the deployments: inventory, components, slow tasks, breaks

Group == {"controller", "worker", "aio"}

ASSUME InventoriesAssumption ==
  \A c \in Cases : c.group \in [Node -> Group] /\ \E n \in Node : c.group[n] \in {"controller", "aio"}

VARIABLES
  group,    \* the inventory
  model,    \* the components of the model
  slow,     \* bound: the tasks that run in any order, see Turns
  main,     \* where the main thread is
  composed, \* how far compose() is in the order of Creation
  keys,     \* node["keys"]: the credentials composed for each node
  peers,    \* node["peers"] and node["cfg_extend"]
  sent,     \* what set_identity gave each node
  users,    \* registered_user_dom of keystone
  schemas,  \* schema_registry of mariadb
  pc,       \* the step each task is at, 0 before it is started
  failed,   \* the tasks that failed
  world,    \* what holds of the nodes and of the cloud
  unmet,    \* <<command, what it lacked>>: "needs" or "content"
  breaks    \* bound: the commands that may yet fail for a cause of their own

vars == <<group, model, slow, main, composed, keys, peers, sent, users, schemas, pc, failed, world, unmet, breaks>>

-----------------------------------------------------------------------------
(* The inventory: services and extra components by group. *)

ControllerServices ==
  {"haproxy", "mariadb", "rabbit", "keystone", "memcached", "neutron-server", "neutron-dhcp-agent",
   "neutron-metadata-agent", "neutron-l3-agent", "glance-api", "glance-registry", "nova-api",
   "nova-consoleauth", "nova-scheduler", "nova-conductor", "nova-novncproxy", "cinder-backup",
   "cinder-api", "cinder-scheduler", "cinder-volume", "ceph-osd", "ceph-mgr", "ceph-mon",
   "placement-api", "swift-object", "swift-container", "swift-account", "swift-proxy",
   "neutron-metering-agent", "swift-container-sync", "neutron-openvswitch-agent", "openvswitch"}
WorkerServices == {"nova-compute", "neutron-openvswitch-agent", "openvswitch", "libvirtd"}

At(n) ==
  LET g == group[n] IN
    (IF g \in {"controller", "aio"} THEN ControllerServices \cup {"pythonopenstackclient", "tempest", "novnc"} ELSE {})
    \cup (IF g \in {"worker", "aio"} THEN WorkerServices \cup {"pythonopenstackclient"} ELSE {})

\* hosts_with_service, hosts_with_any_service, hosts_with_component
Hosts(services) == {n \in Node : At(n) \cap services # {}}

Services ==
  [haproxy |-> {"haproxy"}, memcached |-> {"memcached"}, mariadb |-> {"mariadb"}, rabbitmq |-> {"rabbit"},
   osclient |-> {}, novnc |-> {}, tempest |-> {}, libvirt |-> {"libvirtd"}, keystone |-> {"keystone"},
   ceph |-> {"ceph-osd", "ceph-mon", "ceph-mgr"},
   glance |-> {"glance-api", "glance-registry"},
   cinder |-> {"cinder-api", "cinder-volume", "cinder-scheduler", "cinder-backup"},
   swift |-> {"swift-proxy", "swift-account", "swift-object", "swift-container", "swift-container-sync"},
   neutron |-> {"neutron-server", "neutron-metadata-agent", "neutron-l3-agent", "neutron-metering-agent",
                "neutron-dhcp-agent", "neutron-openvswitch-agent"},
   placement |-> {"placement-api"},
   nova |-> {"nova-api", "nova-compute", "nova-consoleauth", "nova-scheduler", "nova-conductor", "nova-novncproxy"}]

Component == DOMAIN Services

\* createmodel: what a component is given as its dependencies
Dependencies ==
  [c \in Component |->
     CASE c = "mariadb"   -> {"haproxy"}
       [] c = "keystone"  -> {"haproxy", "mariadb", "memcached"}
       [] c \in {"glance", "cinder"} -> {"haproxy", "mariadb", "memcached", "rabbitmq", "keystone", "ceph"}
       [] c = "swift"     -> {"haproxy", "keystone", "memcached"}
       [] c = "neutron"   -> {"haproxy", "mariadb", "memcached", "osclient", "rabbitmq", "keystone"}
       [] c = "placement" -> {"mariadb", "keystone"}
       [] c = "nova"      -> {"haproxy", "mariadb", "memcached", "rabbitmq", "keystone", "novnc", "libvirt",
                              "neutron", "placement", "ceph"}
       [] c = "tempest"   -> {"keystone", "osclient", "neutron", "nova", "glance", "swift", "cinder"}
       [] OTHER           -> {}]

ASSUME ModelsAssumption ==
  \A case \in Cases : case.model \subseteq Component /\ \A c \in case.model : Dependencies[c] \subseteq case.model

\* the order of createmodel, which is the order of compose
Creation == <<"haproxy", "memcached", "mariadb", "osclient", "keystone", "rabbitmq", "ceph", "glance", "cinder",
              "swift", "libvirt", "neutron", "novnc", "placement", "nova", "tempest">>

-----------------------------------------------------------------------------
(* Composition.  A component gives keys and peers to the nodes of some     *)
(* services, and registers users with keystone and schemas with mariadb.   *)

Key(service, principal) == <<service, principal>>
\* s, u: the schema and its user
Schema(s, u) == <<"schema", s, u>>
User(u) == <<"user", u>>

NoCompose == [keys |-> {}, peers |-> {}, users |-> {}, schemas |-> {}]

MariadbCompose == [NoCompose EXCEPT
  !.keys  = {<<{"mariadb"}, Key("mariadb", "clustercheckuser")>>},
  !.peers = {<<{"mariadb"}, "mariadb cluster">>}]

RabbitCompose == [NoCompose EXCEPT
  !.keys  = {<<{"rabbit"}, Key("rabbitmq", "openstack")>>},
  !.peers = {<<{"rabbit"}, "rabbitmq">>}]

KeystoneCompose == [
  keys    |-> {<<{"keystone"}, Key("keystone", "admin")>>, <<{"keystone"}, Key("mariadb", "keystone")>>},
  peers   |-> {<<{"keystone"}, "mariadb client">>},
  users   |-> {User("admin")},
  schemas |-> {Schema("keystone", "keystone")}]

\* the part of the storage backends: a section for each component that uses it
CephCompose == [NoCompose EXCEPT !.peers = IF "glance" \in model THEN {<<{"glance-api"}, "glance store">>} ELSE {}]

GlanceCompose == [
  keys    |-> {Services.glance} \X {Key("keystone", "glance"), Key("mariadb", "glance"), Key("rabbitmq", "openstack")},
  peers   |-> {<<Services.glance, "mariadb client">>},
  users   |-> {User("glance")},
  schemas |-> {Schema("glance", "glance")}]

CinderCompose == [
  keys    |-> {Services.cinder} \X {Key("keystone", "cinder"), Key("rabbitmq", "openstack"), Key("mariadb", "cinder")},
  peers   |-> {Services.cinder} \X {"mariadb client", "rabbitmq"},
  users   |-> {User("cinder")},
  schemas |-> {Schema("cinder", "cinder")}]

SwiftCompose == [NoCompose EXCEPT
  !.keys  = {<<{"swift-proxy"}, Key("keystone", "swift")>>},
  !.users = {User("swift")}]

NeutronCompose == [
  keys    |-> {Services.neutron} \X {Key("keystone", "neutron"), Key("keystone", "nova_for_neutron"), Key("mariadb", "neutron"),
                                     Key("neutron+nova", "metadata"), Key("rabbitmq", "openstack")},
  peers   |-> {Services.neutron} \X {"mariadb client", "rabbitmq"},
  users   |-> {User("neutron"), User("nova_for_neutron")},
  schemas |-> {Schema("neutron", "neutron")}]

PlacementCompose == [NoCompose EXCEPT
  !.keys    = {{"placement-api"}} \X {Key("keystone", "placement"), Key("mariadb", "placement")},
  !.users   = {User("placement")},
  !.schemas = {Schema("placement", "placement")}]

\* mutant: the user registered, its password given to nobody
NovaComposeNoNeutron == [
  keys    |-> {Services.nova} \X {Key("keystone", "nova"), Key("neutron+nova", "metadata"),
                                  Key("mariadb", "nova"), Key("rabbitmq", "openstack"), Key("keystone", "placement")},
  peers   |-> {{"nova-api", "nova-compute", "nova-scheduler", "nova-conductor"}} \X {"rabbitmq", "mariadb client"},
  users   |-> {User("nova"), User("placement"), User("neutron_for_nova")},
  schemas |-> {Schema("nova", "nova"), Schema("nova_api", "nova"), Schema("nova_cell0", "nova")}]

NovaCompose == [
  keys    |-> {Services.nova} \X {Key("keystone", "nova"), Key("keystone", "neutron_for_nova"), Key("neutron+nova", "metadata"),
                                  Key("mariadb", "nova"), Key("rabbitmq", "openstack"), Key("keystone", "placement")},
  peers   |-> {{"nova-api", "nova-compute", "nova-scheduler", "nova-conductor"}} \X {"rabbitmq", "mariadb client"},
  users   |-> {User("nova"), User("placement"), User("neutron_for_nova")},
  schemas |-> {Schema("nova", "nova"), Schema("nova_api", "nova"), Schema("nova_cell0", "nova")}]

TempestCompose == [NoCompose EXCEPT !.keys = {<<{"tempest"}, Key("keystone", "admin")>>}]

ComposeOf(c) ==
  CASE c = "mariadb"   -> MariadbCompose
    [] c = "rabbitmq"  -> RabbitCompose
    [] c = "keystone"  -> KeystoneCompose
    [] c = "ceph"      -> CephCompose
    [] c = "glance"    -> GlanceCompose
    [] c = "cinder"    -> CinderCompose
    [] c = "swift"     -> SwiftCompose
    [] c = "neutron"   -> NeutronCompose
    [] c = "placement" -> PlacementCompose
    [] c = "nova"      -> NovaCompose
    [] c = "tempest"   -> TempestCompose
    [] OTHER           -> NoCompose
Composition(i) == IF Creation[i] \in model THEN ComposeOf(Creation[i]) ELSE NoCompose

-----------------------------------------------------------------------------
(* Content: what the configuration of a component on a node is made from.  *)
(* A use has the key and the peer it reads and what it expects of others.  *)

NoUse == [key |-> <<>>, peer |-> "", expects |-> <<>>]

\* authtoken_section
AuthAs(u) == [NoUse EXCEPT !.key = Key("keystone", u), !.expects = User(u)]
\* db_url
Db(s, u) == [key |-> Key("mariadb", u), peer |-> "mariadb client", expects |-> Schema(s, u)]
\* transport_url
Queue == [NoUse EXCEPT !.key = Key("rabbitmq", "openstack"), !.peer = "rabbitmq"]
Secret == [NoUse EXCEPT !.key = Key("neutron+nova", "metadata")]
Peer(p) == [NoUse EXCEPT !.peer = p]
KeyUse(service, principal) == [NoUse EXCEPT !.key = Key(service, principal)]

GlanceUses(n) ==
  (IF At(n) \cap {"glance-api", "glance-registry"} # {} THEN {AuthAs("glance"), Db("glance", "glance")} ELSE {})
  \cup (IF "glance-api" \in At(n) THEN {Peer("glance store")} ELSE {})
SwiftUses(n) == IF "swift-proxy" \in At(n) THEN {AuthAs("swift")} ELSE {}
NeutronUses(n) ==
  {Queue, Db("neutron", "neutron"), AuthAs("neutron"), AuthAs("nova_for_neutron")}
  \cup (IF "neutron-metadata-agent" \in At(n) THEN {Secret} ELSE {})
\* the placement section only where there are credentials for it
NovaUses(n) ==
  {AuthAs("neutron_for_nova"), Secret, Queue, AuthAs("nova"), Db("nova", "nova"), Db("nova_api", "nova")}
  \cup (IF Key("keystone", "placement") \in sent[n].keys THEN {AuthAs("placement")} ELSE {})

MariadbUses == {KeyUse("mariadb", "clustercheckuser")}
RabbitUses == {Peer("rabbitmq")}
KeystoneUses == {Db("keystone", "keystone")}
CinderUses == {Queue, Db("cinder", "cinder"), AuthAs("cinder")}
PlacementUses == {AuthAs("placement"), Db("placement", "placement")}

Uses(c, n) ==
  CASE c = "mariadb"   -> MariadbUses
    [] c = "rabbitmq"  -> RabbitUses
    [] c = "keystone"  -> KeystoneUses
    [] c = "glance"    -> GlanceUses(n)
    [] c = "cinder"    -> CinderUses
    [] c = "swift"     -> SwiftUses(n)
    [] c = "neutron"   -> NeutronUses(n)
    [] c = "placement" -> PlacementUses
    [] c = "nova"      -> NovaUses(n)
    [] OTHER           -> {}

\* The services that the content has a unit file for; content of a component
\* installed from its source is all there is to start.
GlanceUnits == {"glance-api", "glance-registry", "glance-scrubber"}
CinderUnits == {"cinder-scheduler", "cinder-api", "cinder-volume", "cinder-backup"}
SwiftUnits == {"swift-account", "swift-object", "swift-container", "swift-container-sync", "swift-proxy"}
NeutronUnits ==
  {"neutron-server", "neutron-metadata-agent", "neutron-l3-agent", "neutron-metering-agent", "neutron-vpn-agent",
   "neutron-dhcp-agent", "neutron-lbaasv2-agent", "neutron-openvswitch-agent"}
PlacementUnits == {"placement-api"}
NovaUnits ==
  {"nova-api", "nova-conductor", "nova-cells", "nova-console", "nova-xvpvncproxy", "nova-scheduler", "nova-api-metadata",
   "nova-spicehtml5proxy", "nova-novncproxy", "nova-consoleauth", "nova-compute"}

Units(c) ==
  CASE c = "glance"    -> GlanceUnits
    [] c = "cinder"    -> CinderUnits
    [] c = "swift"     -> SwiftUnits
    [] c = "neutron"   -> NeutronUnits
    [] c = "placement" -> PlacementUnits
    [] c = "nova"      -> NovaUnits
    [] OTHER           -> {}

CanRead(n, use) == use.key \in sent[n].keys \cup {<<>>} /\ use.peer \in sent[n].peers \cup {""}

-----------------------------------------------------------------------------
(* Steps and calls.  Facts of the world: Cloud(x) of the cloud and the     *)
(* controller, <<n, x>> of a node; every command that runs have_content    *)
(* makes the content of a component.                                       *)

Cloud(x) == <<"cloud", x>>
Content(c) == "content of " \o c

Need(tasks) == [op |-> "need", tasks |-> tasks]
Want(tasks) == [op |-> "want", tasks |-> tasks]
Calls(calls) == [op |-> "calls", calls |-> calls]

\* A call of do on all nodes of at.  content: the component whose
\* have_content it runs; needs, here: what it needs of the cloud and of its
\* node; gives, makes: what it brings to them; uses: what it reads itself;
\* starts: the services whose units it starts on the nodes that have them.
\* A call that retries is the first of its step.  quiet: the exit status is
\* that of the filter behind the command; such a call is a step of its own.
All(do, at) ==
  [do |-> do, at |-> at, who |-> "all", content |-> "", needs |-> {}, here |-> {}, gives |-> {}, makes |-> {},
   uses |-> {}, starts |-> {}, retry |-> "no", quiet |-> FALSE]
\* rand_pick: the node a step picks, and the others
One(do, at) == [All(do, at) EXCEPT !.who = "one"]
Others(do, at) == [All(do, at) EXCEPT !.who = "others"]

\* do_retrycmd_after_content with the sync command of a service
DbSync(c, at, s) ==
  [One("db sync of " \o c, Hosts({at})) EXCEPT
     !.content = c, !.retry = "some", !.needs = {Cloud("haproxy"), s}, !.gives = {<<"tables", c>>}]
\* local_os_service_start_by_component
StartServices(c) ==
  [All("start of " \o c, Hosts(Services[c])) EXCEPT
     !.content = c, !.starts = Services[c], !.makes = Services[c], !.gives = {Cloud(c)}]

AdminKey == KeyUse("keystone", "admin")

-----------------------------------------------------------------------------
(* The tasks, each after the calls it makes. *)

do_selinux_permissive == [All("do_selinux_permissive", Node) EXCEPT !.gives = {Cloud("permissive")}]
Selinux == <<Calls(<<do_selinux_permissive>>)>>

do_hostname == [All("do_hostname", Node) EXCEPT !.gives = {Cloud("hostnames")}]
Hostname == <<Calls(<<do_hostname>>)>>

do_proxy ==
  [All("do_proxy", Hosts({"haproxy"})) EXCEPT
     !.content = "haproxy", !.needs = {Cloud("permissive")}, !.makes = {"haproxy"}, !.gives = {Cloud("haproxy")}]
HaproxySteps == <<Want({"selinux"}), Calls(<<do_proxy>>)>>

do_memcached_service_start ==
  [All("do_memcached_service_start", Hosts({"memcached"})) EXCEPT !.content = "memcached", !.makes = {"memcached"}]
MemcachedSteps == <<Calls(<<do_memcached_service_start>>)>>

do_mariadb_cfg == [All("do_mariadb_cfg", Hosts({"mariadb"})) EXCEPT !.content = "mariadb", !.uses = {Peer("mariadb cluster")}]
do_mariadb_galera_seed == [One("do_mariadb_galera_seed", Hosts({"mariadb"})) EXCEPT !.gives = {Cloud("cluster")}]
do_mariadb == [All("do_mariadb", Hosts({"mariadb"})) EXCEPT !.needs = {Cloud("cluster")}, !.makes = {"mariadb"}]
\* asked once: what is compared of the answers is the same on every node
do_mariadb_query_state == [All("do_mariadb_query_state", Hosts({"mariadb"})) EXCEPT !.here = {"mariadb"}]
do_create_clustr_user ==
  [One("do_create_clustr_user", Hosts({"mariadb"})) EXCEPT !.uses = {KeyUse("mariadb", "clustercheckuser")}, !.here = {"mariadb"}]
do_handle_schemas == [One("do_handle_schemas", Hosts({"mariadb"})) EXCEPT !.here = {"mariadb"}, !.gives = schemas]
MariadbSteps ==
  <<Calls(<<do_mariadb_cfg, do_mariadb_galera_seed, do_mariadb, do_mariadb_query_state, do_create_clustr_user,
            do_handle_schemas>>)>>

do_rabbit_start == [All("do_rabbit_start", Hosts({"rabbit"})) EXCEPT !.content = "rabbitmq", !.makes = {"rabbit"}]
do_rabbitmq_test_in == [All("do_rabbitmq_test_in", Hosts({"rabbit"})) EXCEPT !.here = {"rabbit"}]
\* at most: it goes to those that are not in the cluster yet
do_rabbitmq_reset_join == [All("do_rabbitmq_reset_join", Hosts({"rabbit"})) EXCEPT !.here = {"rabbit"}]
do_rabbit_addusers ==
  [One("do_rabbit_addusers", Hosts({"rabbit"})) EXCEPT
     !.uses = {KeyUse("rabbitmq", "openstack")}, !.here = {"rabbit"}, !.gives = {Cloud("messaging")}]
RabbitSteps ==
  <<Calls(<<do_rabbit_start, do_rabbitmq_test_in, do_rabbitmq_reset_join, do_rabbitmq_test_in, do_rabbit_addusers>>)>>

do_pip == [All("do_pip", Hosts({"pythonopenstackclient"})) EXCEPT !.makes = {"openstack"}]
OsclientSteps == <<Calls(<<do_pip>>)>>

do_fernet_init == [One("do_fernet_init", Hosts({"keystone"})) EXCEPT !.content = "keystone", !.makes = {"fernet keys"}]
do_fetch_fernet_as_tar == [One("do_fetch_fernet_as_tar", Hosts({"keystone"})) EXCEPT !.here = {"fernet keys"}]
distribute_for_command == [Others("distribute_for_command", Hosts({"keystone"})) EXCEPT !.makes = {"fernet keys"}]
KeystoneFernet == <<Calls(<<do_fernet_init, do_fetch_fernet_as_tar, distribute_for_command>>)>>

do_httpd_restart == [All("do_httpd_restart", Hosts({"keystone"})) EXCEPT !.content = "keystone", !.makes = {"keystone"}]
CfgHttpd == <<Want({"selinux"}), Calls(<<do_httpd_restart>>), Want({"memcached_steps"})>>

KeystoneDb == <<Want({"mariadb_steps"}), Calls(<<DbSync("keystone", "keystone", Schema("keystone", "keystone"))>>)>>

do_keystone_init ==
  [One("do_keystone_init", Hosts({"keystone"})) EXCEPT
     !.content = "keystone", !.uses = {AdminKey}, !.needs = {<<"tables", "keystone">>}, !.gives = {Cloud("admin")}]
CfgKeystoneSteps == <<Need({"cfg_httpd"}), Want({"keystone_db", "keystone_fernet"}), Calls(<<do_keystone_init>>)>>

\* requests to the keystone of the own node
ToKeystone(do) ==
  [One(do, Hosts({"keystone"})) EXCEPT
     !.uses = {AdminKey}, !.needs = {Cloud("admin")}, !.here = {"keystone", "fernet keys", "memcached"}]
do_keystone_endpoint_sync == [ToKeystone("do_keystone_endpoint_sync") EXCEPT !.gives = {Cloud("catalog")}]
KeystoneEndpoints == <<Want({"cfg_keystone_steps", "cfg_httpd"}), Calls(<<do_keystone_endpoint_sync>>)>>
do_keystone_user_sync == [ToKeystone("do_keystone_user_sync") EXCEPT !.gives = users]
\* mutant: the web server is needed by cfg_keystone_steps already
KeystoneUsersEarly == <<Want({"cfg_keystone_steps"}), Calls(<<do_keystone_user_sync>>)>>
KeystoneUsers == <<Want({"cfg_keystone_steps", "cfg_httpd"}), Calls(<<do_keystone_user_sync>>)>>
KeystoneReady == <<Want({"keystone_users", "keystone_endpoints"})>>

\* on the controller: a directory for the marks of the monitors that are set up
create_ceph_state_dirs == [All("create_ceph_state_dirs", {}) EXCEPT !.gives = {Cloud("mon_bootstrap")}]
\* mutant: started is as good as waited for
CephStepsUnwaited ==
  <<Calls(<<create_ceph_state_dirs>>), Want({"ceph_mon"}), Need({"setup_mgr"}), Need({"handle_pools"}), Want({"handle_pools"})>>
CephSteps ==
  <<Calls(<<create_ceph_state_dirs>>), Want({"ceph_mon"}), Need({"setup_mgr"}), Need({"handle_pools"}),
    Want({"setup_mgr", "handle_pools"})>>

do_place_ceph_conf ==
  [All("do_place_ceph_conf", Hosts(Services.ceph \cup {"cinder-volume", "nova-compute"})) EXCEPT
     !.content = "ceph", !.makes = {"ceph.conf"}]
initial_keyring == [One("initial_keyring", Hosts({"ceph-mon"})) EXCEPT !.here = {"ceph.conf"}, !.gives = {Cloud("mon keyring")}]
do_boostrap_mon ==
  [All("do_boostrap_mon", Hosts({"ceph-mon"})) EXCEPT
     !.needs = {Cloud("mon keyring"), Cloud("hostnames")}, !.makes = {"ceph-mon"}, !.gives = {Cloud("mon")}]
\* on the controller, for every monitor of this first deployment
set_mon_bootsrapped == [All("set_mon_bootsrapped", {}) EXCEPT !.needs = {Cloud("mon_bootstrap")}]
CephMon ==
  <<Want({"hostname"}), Calls(<<do_place_ceph_conf, initial_keyring, do_boostrap_mon, set_mon_bootsrapped>>)>>

do_ceph_deploy_all_in_one_demo ==
  [All("do_ceph_deploy_all_in_one_demo", Hosts({"ceph-osd"})) EXCEPT
     !.needs = {Cloud("mon")}, !.makes = {"ceph-osd"}, !.gives = {Cloud("osd")}]
HandleOsds == <<Want({"ceph_mon"}), Calls(<<do_ceph_deploy_all_in_one_demo>>)>>
do_ensure_pools == [One("do_ensure_pools", Hosts({"ceph-mon"})) EXCEPT !.needs = {Cloud("mon"), Cloud("osd")}, !.gives = {Cloud("pools")}]
HandlePools == <<Want({"handle_osds"}), Calls(<<do_ensure_pools>>)>>

fetch_key == [One("fetch_key", Hosts({"ceph-mon"})) EXCEPT !.needs = {Cloud("mon")}]
do_setup_key_and_mgr_start == [All("do_setup_key_and_mgr_start", Hosts({"ceph-mgr"})) EXCEPT !.makes = {"ceph-mgr"}]
SetupMgr == <<Calls(<<fetch_key, do_setup_key_and_mgr_start>>)>>

\* in the directory of ceph.conf; the file belongs to the user glance, whom the
\* content of glance makes
do_glance_keyring ==
  [All("do_glance_keyring", Hosts({"glance-api"})) EXCEPT
     !.here = {"ceph.conf", Content("glance")}, !.makes = {"glance keyring"}, !.gives = {Cloud("glance keyring")}]
KeyGlance == <<Want({"ceph_mon"}), Calls(<<fetch_key, do_glance_keyring>>), Want({"handle_pools"})>>

do_cinder_nova_keyring ==
  [All("do_cinder_nova_keyring", Hosts({"cinder-volume", "nova-compute"})) EXCEPT
     !.here = {"ceph.conf"}, !.makes = {"cinder keyring"}]
do_register_ceph_libvirt == [All("do_register_ceph_libvirt", Hosts({"nova-compute"})) EXCEPT !.here = {"libvirtd", "cinder keyring"}]
KeyForCinderNova ==
  <<Want({"ceph_mon"}), Calls(<<fetch_key, do_cinder_nova_keyring, do_register_ceph_libvirt>>), Want({"handle_pools"})>>

GlanceSteps ==
  <<Want({"mariadb_steps"}), Calls(<<DbSync("glance", "glance-api", Schema("glance", "glance"))>>),
    Want({"rabbit_steps"}), Calls(<<StartServices("glance")>>),
    Want({"keystone_ready", "key_glance"})>>

CinderSteps ==
  <<Want({"mariadb_steps"}), Calls(<<DbSync("cinder", "cinder-api", Schema("cinder", "cinder")), StartServices("cinder")>>),
    Want({"rabbit_steps", "keystone_ready"}), Want({"keystone_ready", "rabbit_steps", "key_for_cinder_nova"})>>

do_swift_deploy_demo_local ==
  [All("do_swift_deploy_demo_local", Hosts({"swift-object", "swift-container", "swift-account"})) EXCEPT
     !.content = "swift", !.makes = {"rings"}]
do_swift_service_start == [StartServices("swift") EXCEPT !.here = {"rings"}]
SwiftSteps == <<Calls(<<do_swift_deploy_demo_local, do_swift_service_start>>)>>

do_dummy_netconfig == [All("do_dummy_netconfig", Hosts({"neutron-l3-agent"})) EXCEPT !.makes = {"br-ex"}]
NetConfig == <<Calls(<<do_dummy_netconfig>>)>>
do_dummy_public_net ==
  [One("do_dummy_public_net", Hosts({"neutron-server"})) EXCEPT
     !.uses = {AdminKey}, !.retry = "for ever", !.here = {"openstack", "neutron-server"},
     !.needs = {Cloud("catalog"), User("neutron"), User("admin")}, !.gives = {Cloud("public net")}]
NeutronSteps ==
  <<Want({"mariadb_steps"}), Calls(<<DbSync("neutron", "neutron-server", Schema("neutron", "neutron"))>>),
    Need({"net_config"}), Want({"rabbit_steps"}), Want({"net_config"}),
    Calls(<<StartServices("neutron")>>), Want({"rabbit_steps"}), Want({"osclient_steps"}),
    Calls(<<do_dummy_public_net>>)>>

do_libvirt == [All("do_libvirt", Hosts({"nova-compute", "libvirtd"})) EXCEPT !.content = "libvirt", !.makes = {"libvirtd"}]
Libvirt == <<Calls(<<do_libvirt>>)>>
do_have_content == [All("do_have_content", Hosts({"novnc"})) EXCEPT !.content = "novnc", !.makes = {"novnc"}]
HaveContent == <<Calls(<<do_have_content>>)>>
PlacementSteps ==
  <<Want({"mariadb_steps"}),
    Calls(<<DbSync("placement", "placement-api", Schema("placement", "placement")), StartServices("placement")>>)>>
do_cell_reg == [All("do_cell_reg", Hosts({"nova-api"})) EXCEPT !.needs = {<<"tables", "nova">>}]
NovaSteps ==
  <<Want({"mariadb_steps"}),
    Calls(<<[DbSync("nova", "nova-api", Schema("nova_api", "nova")) EXCEPT !.gives = {}],
            [DbSync("nova", "nova-api", Schema("nova_cell0", "nova")) EXCEPT !.gives = {}],
            DbSync("nova", "nova-api", Schema("nova", "nova"))>>),
    Want({"rabbit_steps", "have_content"}), Calls(<<StartServices("nova")>>),
    Want({"keystone_ready", "libvirt"}), Calls(<<do_cell_reg>>)>>

\* the filter behind the command hides its status, but the task asserts an answer
do_network_id ==
  [One("do_network_id", Hosts({"tempest"})) EXCEPT
     !.uses = {AdminKey}, !.here = {"openstack"}, !.needs = {Cloud("public net"), Cloud("catalog")}]
NetworkId == <<Want({"neutron_steps", "osclient_steps", "keystone_ready"}), Calls(<<do_network_id>>)>>
do_ensure_flavors ==
  [One("do_ensure_flavors", Hosts({"tempest"})) EXCEPT
     !.uses = {AdminKey}, !.retry = "for ever", !.here = {"openstack"}, !.needs = {Cloud("nova"), Cloud("catalog"), User("nova")}]
NovaFlavors == <<Want({"neutron_steps", "osclient_steps", "keystone_ready"}), Calls(<<do_ensure_flavors>>)>>
do_fetch_image == [All("do_fetch_image", Hosts({"tempest"})) EXCEPT !.content = "tempest", !.makes = {"cirros.img"}]
do_ensure_test_images ==
  [One("do_ensure_test_images", Hosts({"tempest"})) EXCEPT
     !.content = "tempest", !.uses = {AdminKey}, !.quiet = TRUE, !.here = {"cirros.img", "openstack"},
     !.needs = {Cloud("glance"), Cloud("catalog"), User("glance"), Cloud("glance keyring"), Cloud("pools")}]
do_tempest_cfg == [All("do_tempest_cfg", Hosts({"tempest"})) EXCEPT !.uses = {AdminKey}]
TempestSteps ==
  <<Calls(<<do_fetch_image>>), Want({"glance_steps", "osclient_steps", "keystone_ready"}), Calls(<<do_ensure_test_images>>),
    Want({"network_id"}), Calls(<<do_tempest_cfg>>), Want({"nova_flavors"})>>

-----------------------------------------------------------------------------
(* The tasks of the model and how they run. *)

TasksOf ==
  [c \in Component |->
     CASE c = "haproxy"   -> {"haproxy_steps", "selinux"}
       [] c = "memcached" -> {"memcached_steps"}
       [] c = "mariadb"   -> {"mariadb_steps"}
       [] c = "rabbitmq"  -> {"rabbit_steps"}
       [] c = "osclient"  -> {"osclient_steps"}
       [] c = "keystone"  -> {"keystone_ready", "keystone_users", "keystone_endpoints", "cfg_keystone_steps",
                              "keystone_db", "cfg_httpd", "keystone_fernet"}
       [] c = "ceph"      -> {"ceph_steps", "ceph_mon", "hostname", "handle_osds", "handle_pools", "setup_mgr",
                              "key_glance", "key_for_cinder_nova"}
       [] c = "glance"    -> {"glance_steps"}
       [] c = "cinder"    -> {"cinder_steps"}
       [] c = "swift"     -> {"swift_steps"}
       [] c = "libvirt"   -> {"libvirt"}
       [] c = "neutron"   -> {"neutron_steps", "net_config"}
       [] c = "novnc"     -> {"have_content"}
       [] c = "placement" -> {"placement_steps"}
       [] c = "nova"      -> {"nova_steps"}
       [] c = "tempest"   -> {"tempest_steps", "network_id", "nova_flavors"}]

Task == UNION {TasksOf[c] : c \in Component}

ASSUME BoundsAssumption == \A c \in Cases : c.slow \subseteq Task /\ c.breaks \in Nat

\* the final_task of the components: what compose() adds to GOALS
FinalTask ==
  [haproxy |-> "haproxy_steps", memcached |-> "memcached_steps", mariadb |-> "mariadb_steps", rabbitmq |-> "rabbit_steps",
   osclient |-> "osclient_steps", keystone |-> "keystone_ready", ceph |-> "ceph_steps", glance |-> "glance_steps",
   cinder |-> "cinder_steps", swift |-> "swift_steps", libvirt |-> "libvirt", neutron |-> "neutron_steps",
   novnc |-> "have_content", placement |-> "placement_steps", nova |-> "nova_steps", tempest |-> "tempest_steps"]
Goals == {FinalTask[c] : c \in model}

Body(t) ==
  CASE t = "selinux"         -> Selinux
    [] t = "hostname"        -> Hostname
    [] t = "haproxy_steps"   -> HaproxySteps
    [] t = "memcached_steps" -> MemcachedSteps
    [] t = "mariadb_steps"   -> MariadbSteps
    [] t = "rabbit_steps"    -> RabbitSteps
    [] t = "osclient_steps"  -> OsclientSteps
    [] t = "keystone_fernet" -> KeystoneFernet
    [] t = "cfg_httpd"       -> CfgHttpd
    [] t = "keystone_db"     -> KeystoneDb
    [] t = "cfg_keystone_steps" -> CfgKeystoneSteps
    [] t = "keystone_endpoints" -> KeystoneEndpoints
    [] t = "keystone_users"  -> KeystoneUsers
    [] t = "keystone_ready"  -> KeystoneReady
    [] t = "ceph_steps"      -> CephSteps
    [] t = "ceph_mon"        -> CephMon
    [] t = "handle_osds"     -> HandleOsds
    [] t = "handle_pools"    -> HandlePools
    [] t = "setup_mgr"       -> SetupMgr
    [] t = "key_glance"      -> KeyGlance
    [] t = "key_for_cinder_nova" -> KeyForCinderNova
    [] t = "glance_steps"    -> GlanceSteps
    [] t = "cinder_steps"    -> CinderSteps
    [] t = "swift_steps"     -> SwiftSteps
    [] t = "net_config"      -> NetConfig
    [] t = "neutron_steps"   -> NeutronSteps
    [] t = "libvirt"         -> Libvirt
    [] t = "have_content"    -> HaveContent
    [] t = "placement_steps" -> PlacementSteps
    [] t = "nova_steps"      -> NovaSteps
    [] t = "network_id"      -> NetworkId
    [] t = "nova_flavors"    -> NovaFlavors
    [] t = "tempest_steps"   -> TempestSteps

NotSent == [keys |-> {}, peers |-> {}]
\* the step past the last
End == 100

\* pre_flight registered its user
Init ==
  /\ \E c \in Cases : group = c.group /\ model = c.model /\ slow = c.slow /\ breaks = c.breaks
  /\ main = "compose"
  /\ composed = 0
  /\ keys = [n \in Node |-> {}]
  /\ peers = [n \in Node |-> {}]
  /\ sent = [n \in Node |-> NotSent]
  /\ users = IF "keystone" \in model THEN {User("demo")} ELSE {}
  /\ schemas = {}
  /\ pc = [t \in Task |-> 0]
  /\ failed = {}
  /\ world = {}
  /\ unmet = {}

\* compose() of the next component, if it was made
Compose ==
  /\ main = "compose" /\ composed < Len(Creation)
  /\ LET c == Composition(composed + 1) IN
       /\ keys' = [n \in Node |-> keys[n] \cup {k[2] : k \in {x \in c.keys : At(n) \cap x[1] # {}}}]
       /\ peers' = [n \in Node |-> peers[n] \cup {p[2] : p \in {x \in c.peers : At(n) \cap x[1] # {}}}]
       /\ users' = users \cup c.users
       /\ schemas' = schemas \cup c.schemas
  /\ composed' = composed + 1
  /\ UNCHANGED <<group, model, slow, main, sent, pc, failed, world, unmet, breaks>>

\* mutant: every node is given the secrets of all
SetIdentityOfAll ==
  /\ main = "compose" /\ composed = Len(Creation)
  /\ sent' = [n \in Node |-> [keys |-> UNION {keys[m] : m \in Node}, peers |-> peers[n]]]
  /\ main' = "wait"
  /\ pc' = [t \in Task |-> IF t \in Goals THEN 1 ELSE 0]
  /\ UNCHANGED <<group, model, slow, composed, keys, peers, users, schemas, failed, world, unmet, breaks>>

\* set_identity, then task_wants starts every goal
SetIdentity ==
  /\ main = "compose" /\ composed = Len(Creation)
  /\ sent' = [n \in Node |-> [keys |-> keys[n], peers |-> peers[n]]]
  /\ main' = "wait"
  /\ pc' = [t \in Task |-> IF t \in Goals THEN 1 ELSE 0]
  /\ UNCHANGED <<group, model, slow, composed, keys, peers, users, schemas, failed, world, unmet, breaks>>

Started(t) == pc[t] > 0
Ended(t) == pc[t] = End \/ t \in failed
Running(t) == Started(t) /\ ~Ended(t)

\* pc once t is past its step and the tasks of S are started
Past(t, S) ==
  [u \in Task |->
     IF u = t THEN IF pc[t] = Len(Body(t)) THEN End ELSE pc[t] + 1
     ELSE IF u \in S /\ pc[u] = 0 THEN 1 ELSE pc[u]]

unchanged == <<group, model, slow, main, composed, keys, peers, sent, users, schemas>>

\* task_will_need
WillNeed(t) ==
  /\ Running(t) /\ Body(t)[pc[t]].op = "need"
  /\ pc' = Past(t, Body(t)[pc[t]].tasks)
  /\ UNCHANGED <<unchanged, failed, world, unmet, breaks>>

\* task_wants starts what is not started ...
WantsStart(t) ==
  /\ Running(t) /\ Body(t)[pc[t]].op = "want"
  /\ \E u \in Body(t)[pc[t]].tasks : ~Started(u)
  /\ pc' = [Past(t, Body(t)[pc[t]].tasks) EXCEPT ![t] = pc[t]]
  /\ UNCHANGED <<unchanged, failed, world, unmet, breaks>>

\* mutant: a waiter of a failed task waits on
WantsReturnOk(t) ==
  /\ Running(t) /\ Body(t)[pc[t]].op = "want"
  /\ \A u \in Body(t)[pc[t]].tasks : pc[u] = End
  /\ pc' = Past(t, {})
  /\ UNCHANGED <<unchanged, failed, world, unmet, breaks>>

\* ... joins all of it, and raises when one of it failed
WantsReturn(t) ==
  /\ Running(t) /\ Body(t)[pc[t]].op = "want"
  /\ \A u \in Body(t)[pc[t]].tasks : Ended(u)
  /\ IF Body(t)[pc[t]].tasks \cap failed = {}
       THEN pc' = Past(t, {}) /\ UNCHANGED failed
       ELSE failed' = failed \cup {t} /\ UNCHANGED pc
  /\ UNCHANGED <<unchanged, world, unmet, breaks>>

\* the nodes of a call when the step picked n
Targets(c, n) == CASE c.who = "all" -> c.at [] c.who = "one" -> {n} [] c.who = "others" -> c.at \ {n}

Effect(c, n) ==
  c.gives \cup (Targets(c, n) \X (c.makes \cup IF c.content = "" THEN {} ELSE {Content(c.content)}))
\* the world after the first i calls of cs
After(cs, n, i) == world \cup UNION {Effect(cs[j], n) : j \in 1..i}
NeedsAreThere(cs, n, i) ==
  /\ cs[i].needs \subseteq After(cs, n, i - 1)
  /\ \A m \in Targets(cs[i], n) :
       /\ \A x \in cs[i].here : <<m, x>> \in After(cs, n, i - 1)
       /\ cs[i].starts \cap At(m) \subseteq Units(cs[i].content)
ContentIsThere(c, n) ==
  \A m \in Targets(c, n) : \A u \in c.uses \cup Uses(c.content, m) : CanRead(m, u)
\* what call i lacks, unless it retries and may have it yet
Lacks(cs, n, i) ==
  (IF ContentIsThere(cs[i], n) THEN {} ELSE {"content"})
  \cup (IF NeedsAreThere(cs, n, i) \/ cs[i].retry # "no" THEN {} ELSE {"needs"})
Works(cs, n, i) == NeedsAreThere(cs, n, i) /\ ContentIsThere(cs[i], n)

\* a node the step may pick
Picks(cs) == LET ones == {i \in DOMAIN cs : cs[i].who = "one"} IN IF ones = {} THEN {CHOOSE n \in Node : TRUE}
                                                                ELSE UNION {cs[i].at : i \in ones}

Perform(t) ==
  /\ Running(t) /\ Body(t)[pc[t]].op = "calls"
  /\ LET cs == Body(t)[pc[t]].calls IN
       \E n \in Picks(cs) :
         /\ \A i \in DOMAIN cs : Works(cs, n, i)
         /\ world' = After(cs, n, Len(cs))
  /\ pc' = Past(t, {})
  /\ UNCHANGED <<unchanged, failed, unmet, breaks>>

\* A call of task t fails.
Fail(t, quiet) ==
  IF quiet THEN pc' = Past(t, {}) /\ UNCHANGED failed
           ELSE failed' = failed \cup {t} /\ UNCHANGED pc

\* Call i does not get what it needs: at once, or when its retries are used up.
GiveUp(t) ==
  /\ Running(t) /\ Body(t)[pc[t]].op = "calls"
  /\ LET cs == Body(t)[pc[t]].calls IN
       \E n \in Picks(cs), i \in DOMAIN cs :
         /\ \A j \in 1..i - 1 : Works(cs, n, j)
         /\ ~Works(cs, n, i)
         /\ ContentIsThere(cs[i], n) => cs[i].retry # "for ever"
         /\ world' = After(cs, n, i - 1)
         /\ unmet' = unmet \cup ({cs[i].do} \X Lacks(cs, n, i))
         /\ Fail(t, cs[i].quiet /\ ContentIsThere(cs[i], n))
  /\ UNCHANGED <<unchanged, breaks>>

\* Call i fails for a cause of its own, before it did anything or after.
Break(t) ==
  /\ Running(t) /\ Body(t)[pc[t]].op = "calls"
  /\ breaks > 0
  /\ breaks' = breaks - 1
  /\ LET cs == Body(t)[pc[t]].calls IN
       \E n \in Picks(cs), i \in DOMAIN cs :
         /\ \A j \in 1..i - 1 : Works(cs, n, j)
         /\ world' \in {After(cs, n, i - 1), After(cs, n, i)}
         /\ Fail(t, cs[i].quiet)
  /\ UNCHANGED <<unchanged, unmet>>

\* main: the goals ended
GoalsEnd ==
  /\ main = "wait" /\ \A t \in Goals : Ended(t)
  /\ main' = IF Goals \cap failed = {} THEN "ok" ELSE "failed"
  /\ UNCHANGED <<group, model, slow, composed, keys, peers, sent, users, schemas, pc, failed, world, unmet, breaks>>

\* A command that is repeated, some times or until it works, and cannot yet.
Retries(t) ==
  /\ Running(t) /\ Body(t)[pc[t]].op = "calls"
  /\ LET cs == Body(t)[pc[t]].calls IN
       cs[1].retry # "no" /\ \A n \in Picks(cs) : ~Works(cs, n, 1) /\ ContentIsThere(cs[1], n)
Hangs(t) == Retries(t) /\ Body(t)[pc[t]].calls[1].retry = "for ever"

Ready(t) ==
  /\ Running(t) /\ ~Retries(t)
  /\ LET step == Body(t)[pc[t]] IN
       step.op = "want" => (\E u \in step.tasks : ~Started(u)) \/ (\A u \in step.tasks : Ended(u))

\* A bound on the schedules: the tasks that are not slow run as soon as they
\* can, one after the other, those that main started first; the slow ones
\* move, and retries are used up, when none of these can.
Turns ==
  LET prompt == {t \in Task \ slow : Ready(t)} IN
    IF prompt = {} THEN slow \cup {t \in Task : Retries(t)}
                   ELSE {CHOOSE t \in prompt : prompt \cap Goals # {} => t \in Goals}

Step(t) == WillNeed(t) \/ WantsStart(t) \/ WantsReturn(t) \/ Perform(t) \/ GiveUp(t)

Next ==
  \/ Compose \/ SetIdentity \/ GoalsEnd
  \/ \E t \in Turns : WillNeed(t) \/ WantsStart(t) \/ WantsReturn(t) \/ Perform(t) \/ GiveUp(t) \/ Break(t)

\* Some thread runs on while one can; a call ends, well or badly.
Fairness == WF_vars(Compose \/ SetIdentity \/ GoalsEnd \/ \E t \in Turns : Step(t))

Spec == Init /\ [][Next]_vars /\ Fairness

-----------------------------------------------------------------------------
(* Properties. *)

TypeOK ==
  /\ \E c \in Cases : group = c.group /\ model = c.model /\ slow = c.slow /\ breaks \in 0..c.breaks
  /\ main \in {"compose", "wait", "ok", "failed"}
  /\ composed \in 0..Len(Creation)
  /\ \A n \in Node : sent[n] \in {NotSent, [keys |-> keys[n], peers |-> peers[n]]}
  /\ \A t \in Task : pc[t] \in 0..Len(Body(t)) \cup {End}
  /\ failed \subseteq {t \in Task : Started(t)}

(***************************************************************************)
(* Nothing runs too early: a command that is tried once finds what it      *)
(* needs - the tables, the keys, the running services and the files that   *)
(* other tasks on other nodes bring - because its task waited for them,    *)
(* directly or through others.  Two commands have no such wait, against    *)
(* what their comments say ("move to mon or wait to mon", "after libvirt   *)
(* is up"): they may lack what another task brings, but only until it has. *)
(***************************************************************************)
MayLack(do) ==
  \/ do = "set_mon_bootsrapped" /\ pc["ceph_steps"] <= 1
  \/ do = "do_register_ceph_libvirt" /\ pc["libvirt"] # End
Timely == \A x \in unmet' \ unmet : x[2] = "needs" => MayLack(x[1])
NothingTooEarly == [][Timely]_vars

(***************************************************************************)
(* What compose() spreads over the components fits together: on every node *)
(* that a task calls, each password and peer that the configuration of the *)
(* component reads there was given to that node, by whichever component    *)
(* had to.                                                                 *)
(***************************************************************************)
ContentCanBeMade == \A x \in unmet : x[2] # "content"

(***************************************************************************)
(* "Seams ok.." is true: every service of the inventory runs on its nodes, *)
(* no task is still at work or failed, whoever started it, and each user   *)
(* and each schema that a configuration names exists in the cloud.         *)
(***************************************************************************)
OkIsComplete ==
  main = "ok" =>
    /\ \A t \in Task : ~Running(t) /\ t \notin failed
    /\ \A c \in model, n \in Node : \A s \in Services[c] \cap At(n) :
         /\ <<n, s>> \in world
         /\ \A u \in Uses(c, n) : u.expects \in world \cup {<<>>}

(***************************************************************************)
(* A deployment ends, well or badly, whatever fails - unless one of the    *)
(* two commands that are repeated without end waits for what will not come.*)
(***************************************************************************)
EndsOrRepeats == <>[](main \in {"ok", "failed"} \/ \E t \in Task : Hangs(t))

=============================================================================
